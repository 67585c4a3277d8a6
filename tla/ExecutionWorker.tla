--------------------------- MODULE ExecutionWorker --------------------------
(***************************************************************************)
(* The single Binance Demo execution worker, end to end:                   *)
(* DemoExecutionWorker.process_one drives PersistentExecutionService and   *)
(* DemoExecutionService.activate over the durable command queue of         *)
(* CommandStore, under the PostgreSQL leader lease and the in-memory       *)
(* recovery gate of each application instance.                             *)
(*                                                                         *)
(* Every database transaction and every exchange call of a cycle is one    *)
(* step of the instance that makes it (pc says which one is next), so      *)
(* crashes, lost sessions, reconciliation and other instances interleave   *)
(* between any two of them.  The exchange is modelled from the calls the   *)
(* code makes: per signal, the entry order found by its client id, the     *)
(* position in units of the approved quantity, and the two protective      *)
(* orders.                                                                 *)
(*                                                                         *)
(* One unit of time is the worker's sleep between two cycles.              *)
(***************************************************************************)
EXTENDS CommandStore

CONSTANTS
    Signal,     \* signal identities; order identities derive from them
    SignalOf,   \* the signal a command executes
    Instance,   \* application instances sharing the database
    NoInstance, \* the lease is free
    NoCommand,  \* the instance works on no command
    MaxFaults,  \* bound: lost leases, failed calls and failed writes
    MaxCrashes  \* bound: process crashes

ASSUME WorkerAssumption ==
    /\ SignalOf \in [Command -> Signal]
    /\ NoInstance \notin Instance
    /\ NoCommand \notin Command
    /\ MaxFaults \in Nat
    /\ MaxCrashes \in Nat

VARIABLES
    leader,    \* the instance whose session holds the advisory lock
    gate,      \* AutomationRecoveryGate of each instance
    pc,        \* the next step of each instance's worker
    cur,       \* the command each worker is processing
    tracked,   \* DemoExecutionService._trades: signals with an open trade
    intent,    \* the durable OPEN intent of each signal
    saved,     \* the durable open trade of each signal
    entry,     \* what query_order finds for the signal's entry client id
    entries,   \* how many entry orders the exchange executed for the signal
    position,  \* the open position, in units of the approved quantity
    stop,      \* the stop-loss algo order
    take,      \* the take-profit algo order
    inflight,  \* entry requests that timed out and may still land
    faults,    \* faults so far
    crashes    \* crashes so far

instanceVars == <<leader, gate, pc, cur, tracked>>
durableVars == <<intent, saved>>
exchangeVars == <<entry, entries, position, stop, take, inflight>>
budgetVars == <<faults, crashes>>
vars == <<storeVars, instanceVars, durableVars, exchangeVars, budgetVars>>

(* The worker's steps inside one cycle, in the order of process_one.       *)
Activation ==
    {"prepare", "check", "query", "place", "requery", "stop", "take",
     "cancel", "close", "persist", "protect", "validate", "confirm",
     "verify", "secure", "complete", "block", "recover"}

Step == {"down", "idle", "claim", "revalidate", "reject", "lease",
         "requeue", "submit"} \cup Activation

AlgoState == {"NONE", "OPEN", "CANCELED"}

-----------------------------------------------------------------------------
Init ==
    /\ StoreInit
    /\ leader = NoInstance
    /\ gate = [p \in Instance |-> "RECOVERY_REQUIRED"]
    /\ pc = [p \in Instance |-> "down"]
    /\ cur = [p \in Instance |-> NoCommand]
    /\ tracked = [p \in Instance |-> {}]
    /\ intent = [s \in Signal |-> "NONE"]
    /\ saved = [s \in Signal |-> FALSE]
    /\ entry = [s \in Signal |-> "NONE"]
    /\ entries = [s \in Signal |-> 0]
    /\ position = [s \in Signal |-> 0]
    /\ stop = [s \in Signal |-> "NONE"]
    /\ take = [s \in Signal |-> "NONE"]
    /\ inflight = [s \in Signal |-> 0]
    /\ faults = 0
    /\ crashes = 0

At(p, step) == pc[p] = step
Goto(p, step) == pc' = [pc EXCEPT ![p] = step]

(* Mutated form of EndCycle: the worker keeps hold of the command.         *)
EndCycleKeepsCommand(p) ==
    /\ Goto(p, "idle")
    /\ UNCHANGED cur

(* The cycle is over: asyncio.sleep until the next tick.                   *)
EndCycle(p) ==
    /\ Goto(p, "idle")
    /\ cur' = [cur EXCEPT ![p] = NoCommand]

Fault ==
    /\ faults < MaxFaults
    /\ faults' = faults + 1
    /\ UNCHANGED crashes

NoFault == UNCHANGED budgetVars

FailGate(p) == gate' = [gate EXCEPT ![p] = "RECOVERY_FAILED"]

Sig(p) == SignalOf[cur[p]]

-----------------------------------------------------------------------------
(* The environment: time, other writers of the queue, and the network.     *)

(* A tick lasts as long as the worker's sleep (5 s), which is also the     *)
(* default recvWindow: a request cannot land after it.  Sleeping workers   *)
(* start a cycle if the gate is open.                                      *)
Tick ==
    /\ \A s \in Signal : inflight[s] = 0
    /\ now' = Later
    /\ pc' = [p \in Instance |->
                IF At(p, "idle") /\ gate[p] = "AUTOMATION_READY"
                THEN "claim" ELSE pc[p]]
    /\ UNCHANGED <<row, history, leader, gate, cur, tracked, durableVars,
                   exchangeVars, budgetVars>>

(* ExecutionCommandService.enqueue, from the route or from the automatic   *)
(* loop.                                                                   *)
Enqueue ==
    /\ StoreCreate
    /\ UNCHANGED <<instanceVars, durableVars, exchangeVars, budgetVars>>

(* What the exchange makes of an entry order that reaches it.              *)
Execute(s, status) ==
    LET filled == IF status = "UNFILLED" THEN 0 ELSE 1
    IN  /\ entry' = [entry EXCEPT ![s] = status]
        /\ entries' = [entries EXCEPT ![s] = @ + filled]
        /\ position' = [position EXCEPT ![s] = @ + filled]

(* A timed-out entry request reaches the exchange after all, or never.     *)
Land(s) ==
    /\ inflight[s] > 0
    /\ inflight' = [inflight EXCEPT ![s] = @ - 1]
    /\ \/ \E status \in {"FILLED", "PARTIAL", "UNFILLED"} : Execute(s, status)
       \/ UNCHANGED <<entry, entries, position>>
    /\ UNCHANGED <<storeVars, instanceVars, durableVars, stop, take, budgetVars>>

-----------------------------------------------------------------------------
(* Instances: startup recovery, crash, lost lease, reconciliation.         *)

(* What _reconcile_exchange_state and the continuous reconciliation        *)
(* services demand of the exchange when the open trades are those of S.    *)
InSync(S) ==
    \A s \in Signal :
        IF s \in S
        THEN position[s] = 1 /\ stop[s] = "OPEN" /\ take[s] = "OPEN"
        ELSE position[s] = 0 /\ stop[s] # "OPEN" /\ take[s] # "OPEN"

SavedTrades == {s \in Signal : saved[s]}

(* Process start: load the durable trades, take the lease, reconcile with  *)
(* the exchange, revalidate the signals and open the gate; then one global *)
(* reconciliation before the worker starts.  A failure of the first part   *)
(* releases the lease, a failure of the second keeps it; both close the    *)
(* gate and leave the worker unstarted.                                    *)
(* Recovery includes a full scanner pass and outlasts the receive window   *)
(* of a request sent before the crash.                                     *)
Start(p) ==
    /\ At(p, "down")
    /\ \A s \in Signal : inflight[s] = 0
    /\ tracked' = [tracked EXCEPT ![p] = SavedTrades]
    /\ \/ /\ leader = NoInstance
          /\ InSync(SavedTrades)
          /\ leader' = p
          /\ \/ /\ gate' = [gate EXCEPT ![p] = "AUTOMATION_READY"]
                /\ Goto(p, "claim")
                /\ NoFault
             \/ FailGate(p) /\ Goto(p, "idle") /\ Fault
       \/ /\ \/ (leader # NoInstance \/ ~InSync(SavedTrades)) /\ NoFault
             \/ Fault
          /\ FailGate(p)
          /\ Goto(p, "idle")
          /\ UNCHANGED leader
    /\ UNCHANGED <<storeVars, cur, durableVars, exchangeVars>>

(* The process dies between two steps: its memory and its session go.      *)
Crash(p) ==
    /\ ~At(p, "down")
    /\ crashes < MaxCrashes
    /\ crashes' = crashes + 1
    /\ Goto(p, "down")
    /\ cur' = [cur EXCEPT ![p] = NoCommand]
    /\ tracked' = [tracked EXCEPT ![p] = {}]
    /\ gate' = [gate EXCEPT ![p] = "RECOVERY_REQUIRED"]
    /\ leader' = IF leader = p THEN NoInstance ELSE leader
    /\ UNCHANGED <<storeVars, durableVars, exchangeVars, faults>>

(* The lease's database session dies, or shutdown releases it while the    *)
(* worker's thread is still running; the worker is not told.               *)
LoseLease(p) ==
    /\ leader = p
    /\ Fault
    /\ leader' = NoInstance
    /\ UNCHANGED <<storeVars, gate, pc, cur, tracked, durableVars, exchangeVars>>

(* The one-second validation loop notices that the lease is gone.          *)
ValidateLeader(p) ==
    /\ gate[p] = "AUTOMATION_READY"
    /\ leader # p
    /\ FailGate(p)
    /\ UNCHANGED <<storeVars, leader, pc, cur, tracked, durableVars,
                   exchangeVars, budgetVars>>

(* Mutated form of Reconcile: drift is reported and the gate stays open.   *)
ReconcileReportsOnly(p) == FALSE

(* A global reconciliation cycle, in a thread of its own: drift between    *)
(* the tracked trades and the exchange closes the gate, also while the     *)
(* worker is half way through an entry.                                    *)
Reconcile(p) ==
    /\ gate[p] = "AUTOMATION_READY"
    /\ ~InSync(tracked[p])
    /\ FailGate(p)
    /\ UNCHANGED <<storeVars, leader, pc, cur, tracked, durableVars,
                   exchangeVars, budgetVars>>

(* A reconciliation request fails: what cannot be proved closes the gate.  *)
ReconcileUnavailable(p) ==
    /\ gate[p] = "AUTOMATION_READY"
    /\ Fault
    /\ FailGate(p)
    /\ UNCHANGED <<storeVars, leader, pc, cur, tracked, durableVars, exchangeVars>>

-----------------------------------------------------------------------------
(* process_one, up to the submission.                                      *)

(* The gate and the lease are checked, then one command is claimed.  Rows  *)
(* another instance is writing may be locked and skipped.                  *)
LockedByOthers(p) ==
    {cur[q] : q \in {r \in Instance \ {p} : cur[r] # NoCommand}}

Claim(p) ==
    /\ At(p, "claim")
    /\ \/ /\ gate[p] # "AUTOMATION_READY"
          /\ EndCycle(p)
          /\ UNCHANGED <<storeVars, gate>>
          /\ NoFault
       \/ /\ gate[p] = "AUTOMATION_READY"
          /\ leader # p
          /\ FailGate(p)
          /\ EndCycle(p)
          /\ UNCHANGED storeVars
          /\ NoFault
       \/ /\ gate[p] = "AUTOMATION_READY"
          /\ leader = p
          /\ UNCHANGED gate
          /\ NoFault
          /\ \E skipped \in SUBSET LockedByOthers(p) :
                \/ \E c \in Command :
                      /\ ClaimNext(skipped, c)
                      /\ cur' = [cur EXCEPT ![p] = c]
                      /\ Goto(p, "revalidate")
                \/ ClaimNone(skipped) /\ EndCycle(p)
       \/ /\ Fault
          /\ EndCycle(p)
          /\ UNCHANGED <<storeVars, gate>>
    /\ UNCHANGED <<leader, tracked, durableVars, exchangeVars>>

(* revalidate(): an open position on the symbol or an expired command      *)
(* fails; so may any of the other comparisons (decision superseded, price, *)
(* quantity, margin, leverage, account snapshot).  An error that is not an *)
(* AppError ends the cycle and leaves the command CLAIMED.                 *)
Revalidate(p) ==
    /\ At(p, "revalidate")
    /\ \/ Goto(p, "reject") /\ UNCHANGED cur /\ NoFault
       \/ /\ position[Sig(p)] = 0
          /\ row[cur[p]].expiresAt > now
          /\ Goto(p, "lease")
          /\ UNCHANGED cur
          /\ NoFault
       \/ EndCycle(p) /\ Fault
    /\ UNCHANGED <<storeVars, leader, gate, tracked, durableVars, exchangeVars>>

(* A transition made outside the activation's try block: when it raises,   *)
(* the cycle ends and the gate stays as it is.                             *)
PlainTransition(p, to) ==
    /\ \/ /\ Legal(cur[p], to)
          /\ ApplyTransition(cur[p], to)
          /\ NoFault
       \/ /\ ~Legal(cur[p], to)
          /\ UNCHANGED <<row, history>>
          /\ NoFault
       \/ UNCHANGED <<row, history>> /\ Fault
    /\ EndCycle(p)
    /\ UNCHANGED <<now, leader, gate, tracked, durableVars, exchangeVars>>

Reject(p) == At(p, "reject") /\ PlainTransition(p, "BLOCKED")

Requeue(p) == At(p, "requeue") /\ PlainTransition(p, "RECOVERY_REQUIRED")

(* The lease is proved again between revalidation and submission.          *)
CheckLease(p) ==
    /\ At(p, "lease")
    /\ \/ leader = p /\ Goto(p, "submit") /\ UNCHANGED gate
       \/ leader # p /\ Goto(p, "requeue") /\ FailGate(p)
    /\ UNCHANGED <<storeVars, leader, cur, tracked, durableVars, exchangeVars,
                   budgetVars>>

(* SUBMITTING is durable before the order backend is called.               *)
Submit(p) ==
    /\ At(p, "submit")
    /\ \/ /\ Legal(cur[p], "SUBMITTING")
          /\ ApplyTransition(cur[p], "SUBMITTING")
          /\ Goto(p, "prepare")
          /\ NoFault
          /\ UNCHANGED <<gate, cur>>
       \/ /\ \/ ~Legal(cur[p], "SUBMITTING") /\ NoFault
             \/ Fault
          /\ UNCHANGED <<row, history>>
          /\ FailGate(p)
          /\ EndCycle(p)
    /\ UNCHANGED <<now, leader, tracked, durableVars, exchangeVars>>

-----------------------------------------------------------------------------
(* PersistentExecutionService.activate.  Any exception inside goes to      *)
(* "recover", and to "block" only for the pre-submission codes.            *)

ActivationStep(p, next) ==
    /\ Goto(p, next)
    /\ UNCHANGED <<storeVars, leader, gate, cur>>

(* Mutated form of Prepare: no intent is written.                          *)
PrepareWithoutIntent(p) ==
    /\ At(p, "prepare")
    /\ ActivationStep(p, "check")
    /\ UNCHANGED <<tracked, durableVars, exchangeVars, budgetVars>>

(* The OPEN intent is durable before the exchange is called.  A protected  *)
(* intent replays the tracked trade; an intent that carries a trade whose  *)
(* final write failed writes it again.                                     *)
Prepare(p) ==
    /\ At(p, "prepare")
    /\ \/ /\ intent[Sig(p)] \in {"NONE", "PENDING"}
          /\ intent' = [intent EXCEPT ![Sig(p)] = "PENDING"]
          /\ ActivationStep(p, "check")
          /\ NoFault
       \/ /\ intent[Sig(p)] = "PROTECTED"
          /\ ActivationStep(p, IF Sig(p) \in tracked[p]
                               THEN "validate" ELSE "check")
          /\ UNCHANGED intent
          /\ NoFault
       \/ /\ intent[Sig(p)] = "RECOVERY_REQUIRED"
          /\ ActivationStep(p, "persist")
          /\ UNCHANGED intent
          /\ NoFault
       \/ /\ Fault
          /\ ActivationStep(p, "recover")
          /\ UNCHANGED intent
    /\ UNCHANGED <<saved, tracked, exchangeVars>>

(* DemoExecutionService.activate before the entry order: a signal that is  *)
(* already tracked, an approval that is gone, a hedge-mode account or an   *)
(* exchange rule stops it.                                                 *)
Check(p) ==
    /\ At(p, "check")
    /\ \/ ActivationStep(p, "block")
       \/ ActivationStep(p, "recover")
       \/ Sig(p) \notin tracked[p] /\ ActivationStep(p, "query")
    /\ UNCHANGED <<tracked, durableVars, exchangeVars, budgetVars>>

(* _verified_filled_order on the payload of the entry order: a filled      *)
(* entry is protected, a partial one is closed, and one that expired       *)
(* without a fill is an error.                                             *)
UseEntry(p, status) ==
    ActivationStep(p, [FILLED |-> "stop", PARTIAL |-> "close",
                       UNFILLED |-> "recover"][status])

(* Mutated form of QueryEntry: submit without looking for an earlier order. *)
QueryEntrySkipped(p) ==
    /\ At(p, "query")
    /\ ActivationStep(p, "place")
    /\ UNCHANGED <<tracked, durableVars, exchangeVars, budgetVars>>

(* _existing_or_new_entry: query by client id, place if it is not found,   *)
(* query again after a failed submission.                                  *)
QueryEntry(p) ==
    /\ At(p, "query")
    /\ \/ entry[Sig(p)] # "NONE" /\ UseEntry(p, entry[Sig(p)]) /\ NoFault
       \/ entry[Sig(p)] = "NONE" /\ ActivationStep(p, "place") /\ NoFault
       \/ Fault /\ ActivationStep(p, "recover")
    /\ UNCHANGED <<tracked, durableVars, exchangeVars>>

(* The steps after a call whose answer is lost: _request turns timeouts    *)
(* and network errors into BinanceDemoPrivateClientError, which the caller *)
(* handles; a protocol error (the server closes the pooled connection)     *)
(* escapes every handler of the activation.                                *)
Lost(handler) == {handler, "recover"}

(* The market order is executed, and its answer may be lost; it is refused *)
(* or lost on the way; or the request times out and may still land.        *)
PlaceEntry(p) ==
    /\ At(p, "place")
    /\ \/ \E status \in {"FILLED", "PARTIAL", "UNFILLED"} :
             /\ Execute(Sig(p), status)
             /\ \/ UseEntry(p, status) /\ NoFault
                \/ \E next \in Lost("requery") : ActivationStep(p, next) /\ Fault
             /\ UNCHANGED inflight
       \/ /\ \/ ActivationStep(p, "requery") /\ NoFault
             \/ ActivationStep(p, "recover") /\ Fault
          /\ UNCHANGED <<entry, entries, position, inflight>>
       \/ /\ ActivationStep(p, "requery")
          /\ inflight' = [inflight EXCEPT ![Sig(p)] = @ + 1]
          /\ UNCHANGED <<entry, entries, position>>
          /\ Fault
    /\ UNCHANGED <<tracked, durableVars, stop, take>>

RequeryEntry(p) ==
    /\ At(p, "requery")
    /\ \/ entry[Sig(p)] # "NONE" /\ UseEntry(p, entry[Sig(p)]) /\ NoFault
       \/ entry[Sig(p)] = "NONE" /\ ActivationStep(p, "recover") /\ NoFault
       \/ Fault /\ ActivationStep(p, "recover")
    /\ UNCHANGED <<tracked, durableVars, exchangeVars>>

(* place_protective_order queries the algo id first: an open order is      *)
(* taken over, a cancelled one fails verification.  A new order is open    *)
(* and verified, open and not verified (its answer and the queries after   *)
(* it failed), or refused.  The price checks before it fail the same way.  *)
PlaceStop(p) ==
    /\ At(p, "stop")
    /\ \/ stop[Sig(p)] = "OPEN" /\ ActivationStep(p, "take") /\ UNCHANGED stop /\ NoFault
       \/ ActivationStep(p, "close") /\ UNCHANGED stop /\ NoFault
       \/ ActivationStep(p, "recover") /\ UNCHANGED stop /\ Fault
       \/ /\ stop[Sig(p)] = "NONE"
          /\ stop' = [stop EXCEPT ![Sig(p)] = "OPEN"]
          /\ \/ ActivationStep(p, "take") /\ NoFault
             \/ \E next \in Lost("close") : ActivationStep(p, next) /\ Fault
    /\ UNCHANGED <<tracked, durableVars, entry, entries, position, take, inflight>>

(* Mutated form of PlaceTake: a refused take profit is not an error.       *)
PlaceTakeUnverified(p) ==
    /\ At(p, "take")
    /\ ActivationStep(p, "persist")
    /\ tracked' = [tracked EXCEPT ![p] = @ \cup {Sig(p)}]
    /\ UNCHANGED <<durableVars, exchangeVars, budgetVars>>

(* The trade is tracked in memory once both orders are verified.           *)
PlaceTake(p) ==
    /\ At(p, "take")
    /\ \/ /\ take[Sig(p)] \in {"NONE", "OPEN"}
          /\ take' = [take EXCEPT ![Sig(p)] = "OPEN"]
          /\ tracked' = [tracked EXCEPT ![p] = @ \cup {Sig(p)}]
          /\ ActivationStep(p, "persist")
          /\ NoFault
       \/ /\ \/ ActivationStep(p, "cancel") /\ NoFault
             \/ ActivationStep(p, "recover") /\ Fault
          /\ UNCHANGED <<take, tracked>>
       \/ /\ take[Sig(p)] = "NONE"
          /\ take' = [take EXCEPT ![Sig(p)] = "OPEN"]
          /\ \E next \in Lost("cancel") : ActivationStep(p, next)
          /\ UNCHANGED tracked
          /\ Fault
    /\ UNCHANGED <<durableVars, entry, entries, position, stop, inflight>>

(* _cancel_best_effort of the verified stop, whose answer may be lost.     *)
CancelStop(p) ==
    /\ At(p, "cancel")
    /\ \/ /\ stop' = [stop EXCEPT ![Sig(p)] = "CANCELED"]
          /\ ActivationStep(p, "close")
          /\ NoFault
       \/ /\ \E status \in {stop[Sig(p)], "CANCELED"} :
                stop' = [stop EXCEPT ![Sig(p)] = status]
          /\ \E next \in Lost("close") : ActivationStep(p, next)
          /\ Fault
    /\ UNCHANGED <<tracked, durableVars, entry, entries, position, take, inflight>>

(* _emergency_close: one reduce-only market order for the executed         *)
(* quantity, which the exchange may refuse; either way an error follows.   *)
EmergencyClose(p) ==
    /\ At(p, "close")
    /\ \/ /\ position[Sig(p)] > 0
          /\ position' = [position EXCEPT ![Sig(p)] = @ - 1]
          /\ NoFault
       \/ UNCHANGED position /\ position[Sig(p)] = 0 /\ NoFault
       \/ UNCHANGED position /\ position[Sig(p)] > 0 /\ Fault
    /\ ActivationStep(p, "recover")
    /\ UNCHANGED <<tracked, durableVars, entry, entries, stop, take, inflight>>

(* _persist_open_result: order, fill and trade in one transaction.  When   *)
(* it fails, the intent takes the trade, if that write succeeds.           *)
Persist(p) ==
    /\ At(p, "persist")
    /\ \/ /\ saved' = [saved EXCEPT ![Sig(p)] = TRUE]
          /\ tracked' = [tracked EXCEPT ![p] = @ \cup {Sig(p)}]
          /\ ActivationStep(p, "protect")
          /\ UNCHANGED intent
          /\ NoFault
       \/ /\ intent' = [intent EXCEPT ![Sig(p)] = "RECOVERY_REQUIRED"]
          /\ ActivationStep(p, "recover")
          /\ UNCHANGED <<saved, tracked>>
          /\ Fault
       \/ /\ ActivationStep(p, "recover")
          /\ UNCHANGED <<intent, saved, tracked>>
          /\ Fault
    /\ UNCHANGED exchangeVars

ProtectIntent(p) ==
    /\ At(p, "protect")
    /\ \/ /\ intent' = [intent EXCEPT ![Sig(p)] = "PROTECTED"]
          /\ ActivationStep(p, "validate")
          /\ NoFault
       \/ /\ ActivationStep(p, "recover")
          /\ UNCHANGED intent
          /\ Fault
    /\ UNCHANGED <<saved, tracked, exchangeVars>>

(* _validate_trade: the take profit was normalised to the tick size and    *)
(* may differ from the exact multiple the worker expects.                  *)
ValidateTrade(p) ==
    /\ At(p, "validate")
    /\ \E next \in {"confirm", "recover"} : ActivationStep(p, next)
    /\ UNCHANGED <<tracked, durableVars, exchangeVars, budgetVars>>

-----------------------------------------------------------------------------
(* process_one, after the activation.                                      *)

(* A transition inside the try block: when it raises, the command becomes  *)
(* RECOVERY_REQUIRED.                                                      *)
Advance(p, step, to, next) ==
    /\ At(p, step)
    /\ \/ /\ Legal(cur[p], to)
          /\ ApplyTransition(cur[p], to)
          /\ IF next = "idle" THEN EndCycle(p)
             ELSE Goto(p, next) /\ UNCHANGED cur
          /\ NoFault
       \/ /\ \/ ~Legal(cur[p], to) /\ NoFault
             \/ Fault
          /\ UNCHANGED <<row, history, cur>>
          /\ Goto(p, "recover")
    /\ UNCHANGED <<now, leader, gate, tracked, durableVars, exchangeVars>>

Report(p) ==
    \/ Advance(p, "confirm", "ENTRY_CONFIRMED", "verify")
    \/ Advance(p, "verify", "PROTECTION_PENDING", "secure")
    \/ Advance(p, "secure", "PROTECTED", "complete")
    \/ Advance(p, "complete", "COMPLETED", "idle")

(* Mutated form of FailureTransition: the command goes back to the queue.  *)
FailureTransitionRequeues(p, step, to) ==
    /\ At(p, step)
    /\ row' = [row EXCEPT ![cur[p]].state = "PENDING"]
    /\ EndCycle(p)
    /\ UNCHANGED <<now, history, leader, gate, tracked, durableVars,
                   exchangeVars, budgetVars>>

(* _safe_failure_transition: when even this write fails, the gate closes.  *)
FailureTransition(p, step, to) ==
    /\ At(p, step)
    /\ \/ /\ Legal(cur[p], to)
          /\ ApplyTransition(cur[p], to)
          /\ NoFault
          /\ UNCHANGED gate
       \/ /\ \/ ~Legal(cur[p], to) /\ NoFault
             \/ Fault
          /\ UNCHANGED <<row, history>>
          /\ FailGate(p)
    /\ EndCycle(p)
    /\ UNCHANGED <<now, leader, tracked, durableVars, exchangeVars>>

Fail(p) ==
    \/ FailureTransition(p, "block", "BLOCKED")
    \/ FailureTransition(p, "recover", "RECOVERY_REQUIRED")

-----------------------------------------------------------------------------
BeforeEntry(p) ==
    \/ Claim(p) \/ Revalidate(p) \/ Reject(p) \/ Requeue(p)
    \/ CheckLease(p) \/ Submit(p) \/ Prepare(p) \/ Check(p)

Entry(p) ==
    \/ QueryEntry(p) \/ PlaceEntry(p) \/ RequeryEntry(p)
    \/ PlaceStop(p) \/ PlaceTake(p) \/ CancelStop(p) \/ EmergencyClose(p)

AfterEntry(p) ==
    \/ Persist(p) \/ ProtectIntent(p) \/ ValidateTrade(p)
    \/ Report(p) \/ Fail(p)

ProcessOne(p) == BeforeEntry(p) \/ Entry(p) \/ AfterEntry(p)

Next ==
    \/ Tick
    \/ Enqueue
    \/ \E s \in Signal : Land(s)
    \/ \E p \in Instance :
          \/ Start(p) \/ Crash(p) \/ LoseLease(p)
          \/ ValidateLeader(p) \/ Reconcile(p) \/ ReconcileUnavailable(p)
          \/ ProcessOne(p)

Spec == Init /\ [][Next]_vars

(* The scheduler and the network are fair: time passes, requests land or   *)
(* are dropped, an instance that is down is restarted, a running worker    *)
(* takes its next step, and the reconciliation and validation loops run.   *)
(* Nothing is assumed of enqueues, crashes, lost leases and failing        *)
(* reconciliation requests.                                                *)
Fairness ==
    /\ WF_vars(Tick)
    /\ \A s \in Signal : WF_vars(Land(s))
    /\ \A p \in Instance :
          /\ WF_vars(Start(p))
          /\ WF_vars(ProcessOne(p))
          /\ WF_vars(ValidateLeader(p))
          /\ WF_vars(Reconcile(p))

FairSpec == Spec /\ Fairness

-----------------------------------------------------------------------------
(* Properties.                                                             *)

(* Every variable of the worker, the database and the exchange is well     *)
(* formed, and an instance works on a command exactly while a cycle is     *)
(* past its claim.                                                         *)
TypeOK ==
    /\ leader \in Instance \cup {NoInstance}
    /\ gate \in [Instance -> {"RECOVERY_REQUIRED", "AUTOMATION_READY",
                              "RECOVERY_FAILED"}]
    /\ pc \in [Instance -> Step]
    /\ cur \in [Instance -> Command \cup {NoCommand}]
    /\ \A p \in Instance :
          cur[p] = NoCommand <=> pc[p] \in {"down", "idle", "claim"}
    /\ tracked \in [Instance -> SUBSET Signal]
    /\ intent \in [Signal -> {"NONE", "PENDING", "RECOVERY_REQUIRED",
                              "PROTECTED"}]
    /\ saved \in [Signal -> BOOLEAN]
    /\ entry \in [Signal -> {"NONE", "FILLED", "PARTIAL", "UNFILLED"}]
    /\ entries \in [Signal -> Nat]
    /\ position \in [Signal -> Nat]
    /\ stop \in [Signal -> AlgoState]
    /\ take \in [Signal -> AlgoState]
    /\ inflight \in [Signal -> Nat]
    /\ faults \in 0 .. MaxFaults
    /\ crashes \in 0 .. MaxCrashes

(* At most one entry order is ever executed for a signal, through retries, *)
(* lost answers, crashes and re-claims: the client id is queried before    *)
(* every submission.                                                       *)
OneEntryPerSignal == \A s \in Signal : entries[s] + inflight[s] <= 1

(* Nothing reaches the exchange that the database does not know of: an     *)
(* executed or pending entry order has a durable intent and a command      *)
(* whose history records SUBMITTING, whenever the process may die.         *)
EntryIsRecorded ==
    \A s \in Signal : entries[s] + inflight[s] > 0 =>
        /\ intent[s] # "NONE"
        /\ \E c \in Command :
              /\ SignalOf[c] = s
              /\ \E i \in DOMAIN history[c] : history[c][i][2] = "SUBMITTING"

(* The order backend was called for the signal more than once: two records *)
(* of SUBMITTING, of one command or of two.                                *)
SubmittedTwice(s) ==
    \E c, d \in {e \in Command : SignalOf[e] = s} :
        \E i \in DOMAIN history[c], j \in DOMAIN history[d] :
            /\ history[c][i][2] = "SUBMITTING"
            /\ history[d][j][2] = "SUBMITTING"
            /\ <<c, i>> # <<d, j>>

(* The states of a command whose activation has returned a trade.          *)
Confirmed == {"ENTRY_CONFIRMED", "PROTECTION_PENDING", "PROTECTED", "COMPLETED"}

(* A durable open trade and a command that is COMPLETED, or was left       *)
(* behind on the way there by a crash, stand for a filled entry whose stop *)
(* loss and take profit are both open on the exchange, and for the         *)
(* position of that entry, unless the signal was submitted again: a retry  *)
(* takes over a filled entry order even when the first attempt closed its  *)
(* position in an emergency (_existing_or_new_entry).                      *)
CompletedIsProtected ==
    \A s \in Signal :
        (saved[s] \/ \E c \in Command : SignalOf[c] = s /\ row[c].state \in Confirmed)
        => /\ saved[s]
           /\ entry[s] = "FILLED"
           /\ stop[s] = "OPEN" /\ take[s] = "OPEN"
           /\ position[s] = 1 \/ SubmittedTwice(s)

(* A position without an open stop does not stay unnoticed: it is closed   *)
(* or protected, or the gate of every instance is shut.                    *)
NakedPositionIsFlagged ==
    \A s \in Signal :
        (position[s] > 0 /\ stop[s] # "OPEN") ~>
            \/ position[s] = 0
            \/ stop[s] = "OPEN"
            \/ \A p \in Instance : gate[p] # "AUTOMATION_READY"

(* Every command an instance has started on settles: it reaches a terminal *)
(* state, or the gate is shut and a human has been called.                 *)
CommandsSettle ==
    \A c \in Command :
        row[c].state # Absent ~>
            \/ row[c].state \in Terminal
            \/ \A p \in Instance : gate[p] # "AUTOMATION_READY"
=============================================================================
