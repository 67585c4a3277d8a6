------------------------------ MODULE TradeExit -----------------------------
(***************************************************************************)
(* The end of one trade: a manual close (DurableTradeManagementService and *)
(* ManualCloseDurabilityService), a protective order that fills            *)
(* (ProtectiveLifecycleVerificationService) and the reconciliation cycle   *)
(* that runs next to both (GlobalReconciliationSafetyService).             *)
(*                                                                         *)
(* Every instance keeps the trade in memory, read from its row at startup, *)
(* and serves one close request at a time.  The leader also runs the       *)
(* reconciliation loop in a thread.  They share the database (close        *)
(* intent, close order row, trade row, lifecycle events) and the exchange  *)
(* (position, stop and take profit, close order).  Each exchange call and  *)
(* each transaction is a step of its own.                                  *)
(*                                                                         *)
(* Prices, costs and times are left out.  A trade record keeps what tells  *)
(* its outcomes apart: its lifecycle, the order it was closed by, the      *)
(* instance that calculated a manual outcome, the quantity of its          *)
(* protective fills and whether the sibling is known to be cancelled.      *)
(***************************************************************************)
EXTENDS Integers, FiniteSets

CONSTANTS
    Instance,   \* processes that serve the close route
    Leader,     \* the one that runs the reconciliation loop
    Crashing,   \* the ones that may crash
    Quantity,   \* executed_quantity of the trade
    Nobody,     \* no instance
    MaxFaults,  \* bound: calls and transactions that fail
    MaxCrashes  \* bound: crashes

ASSUME ExitAssumption ==
    /\ Leader \in Instance
    /\ Crashing \subseteq Instance
    /\ Nobody \notin Instance
    /\ Quantity \in Nat \ {0}
    /\ MaxFaults \in Nat
    /\ MaxCrashes \in Nat

VARIABLES
    position,  \* what is left of the position
    algo,      \* the stop and the take profit on the exchange
    close,     \* the order of the close client id on the exchange
    intent,    \* the CLOSE row of execution_intents
    orderRow,  \* status of the close order's row
    row,       \* the trade's row
    events,    \* lifecycle events: the fills of a protective order
    memory,    \* _trades of each instance
    request,   \* the close request of an instance: its next step, the trade
               \* record it works on, the exchange's answer about its order
    rpc,       \* next step of the reconciliation loop
    scan,      \* what its cycle has read
    gate,      \* automation_ready of the leader
    looping,   \* run_forever of the leader is running
    returned,  \* records that close requests returned
    faults,    \* faults so far
    crashes    \* crashes so far

exchange == <<position, algo, close>>
database == <<intent, orderRow, row, events>>
client == <<request, returned>>
cycle == <<rpc, scan, gate, looping>>
bounds == <<faults, crashes>>
vars == <<exchange, database, memory, client, cycle, bounds>>

Kind == {"STOP_LOSS", "TAKE_PROFIT"}
Sibling(k) == CHOOSE s \in Kind : s # k

Trade == [lifecycle : {"OPEN", "CLOSED"}, by : {"NONE", "MANUAL"} \cup Kind,
          finalizer : Instance \cup {Nobody}, exited : 0 .. Quantity,
          swept : BOOLEAN]

NewTrade == [lifecycle |-> "OPEN", by |-> "NONE", finalizer |-> Nobody,
             exited |-> 0, swept |-> FALSE]

IntentState == {"NONE", "PENDING", "SUBMITTED", "FILLED", "RECOVERY_REQUIRED",
                "COMPLETED"}

Order == [status : {"NONE", "NEW", "FILLED", "EXPIRED"}, filled : 0 .. Quantity]
Algo == [status : {"NEW", "PARTIALLY_FILLED", "FINISHED", "CANCELED"},
         filled : 0 .. Quantity]

NoOrder == [status |-> "NONE", filled |-> 0]
NewAlgo == [status |-> "NEW", filled |-> 0]

OpenAlgos == {k \in Kind : algo[k].status \in {"NEW", "PARTIALLY_FILLED"}}

NoRequest == [step |-> "idle", trade |-> NewTrade, payload |-> NoOrder]

NoScan == [trade |-> NewTrade, held |-> 0, looked |-> [k \in Kind |-> NewAlgo],
           by |-> "NONE", cancelled |-> FALSE, found |-> FALSE, full |-> FALSE,
           sweeping |-> FALSE]

Init ==
    /\ position = Quantity
    /\ algo = [k \in Kind |-> NewAlgo]
    /\ close = NoOrder
    /\ intent = [state |-> "NONE", trade |-> NewTrade]
    /\ orderRow = "NONE"
    /\ row = NewTrade
    /\ events = {}
    /\ memory = [i \in Instance |-> NewTrade]
    /\ request = [i \in Instance |-> NoRequest]
    /\ rpc = "idle"
    /\ scan = NoScan
    /\ gate = TRUE
    /\ looping = TRUE
    /\ returned = {}
    /\ faults = 0
    /\ crashes = 0

Fault == faults < MaxFaults /\ faults' = faults + 1 /\ UNCHANGED crashes
NoFault == UNCHANGED bounds

-----------------------------------------------------------------------------
(* The exchange.  Protective orders and the close are reduce-only.         *)

(* A protective order is triggered, or goes on filling.                    *)
Fill(k) ==
    /\ k \in OpenAlgos
    /\ position > 0
    /\ position' = position - 1
    /\ algo' = [algo EXCEPT ![k] =
                  [status |-> IF @.filled + 1 = Quantity THEN "FINISHED"
                                                         ELSE "PARTIALLY_FILLED",
                   filled |-> @.filled + 1]]
    /\ UNCHANGED <<close, database, memory, client, cycle, bounds>>

(* The exchange drops a reduce-only order that has nothing to reduce.      *)
Expire(k) ==
    /\ k \in OpenAlgos
    /\ position = 0
    /\ algo' = [algo EXCEPT ![k].status = "CANCELED"]
    /\ UNCHANGED <<position, close, database, memory, client, cycle, bounds>>

(* Mutated form of ReduceOnly: the parameter is left out.                  *)
ReduceOnlyOmitted == FALSE

(* reduce_only of place_market_order.                                      *)
ReduceOnly == TRUE

(* What the market order takes: reduce-only, no more than is left.         *)
Taken == IF ReduceOnly THEN position ELSE Quantity

Matched ==
    /\ close' = [status |-> IF Taken > 0 THEN "FILLED" ELSE "EXPIRED",
                 filled |-> Taken]
    /\ position' = position - Taken

(* An accepted close order is matched after the answer was sent.           *)
Match ==
    /\ close.status = "NEW"
    /\ Matched
    /\ UNCHANGED <<algo, database, memory, client, cycle, bounds>>

(* DELETE of a protective order: it succeeds while the order is open.      *)
Cancelled(k) == algo' = [algo EXCEPT ![k].status = "CANCELED"]

-----------------------------------------------------------------------------
(* close_trade                                                             *)

At(i, step) == request[i].step = step
Goto(i, step) == request' = [request EXCEPT ![i].step = step]
End(i) == request' = [request EXCEPT ![i] = NoRequest]

(* A client asks for the trade to be closed: get_trade reads memory.       *)
Request(i) ==
    /\ At(i, "idle")
    /\ request' = [request EXCEPT ![i] = [step |-> "prepare", trade |-> memory[i],
                                         payload |-> NoOrder]]
    /\ UNCHANGED <<exchange, database, memory, returned, cycle, bounds>>

(* Mutated form of Replay: the outcome is returned without being stored.   *)
ReplayOnly(i) == End(i)

(* A completed intent is replayed: its outcome is stored and returned.     *)
Replay(i) == request' = [request EXCEPT ![i] = [step |-> "store",
                            trade |-> intent.trade, payload |-> NoOrder]]

(* prepare(): the intent is created or loaded.  A completed one is         *)
(* replayed; a trade that is closed already completes the intent of a      *)
(* close that reached the exchange, or is refused.                         *)
Prepare(i) ==
    /\ At(i, "prepare")
    /\ intent' = IF intent.state = "NONE" THEN [intent EXCEPT !.state = "PENDING"]
                                          ELSE intent
    /\ \/ intent.state = "COMPLETED" /\ Replay(i)
       \/ /\ intent.state # "COMPLETED" /\ request[i].trade.lifecycle = "OPEN"
          /\ Goto(i, "query")
       \/ /\ intent.state # "COMPLETED" /\ request[i].trade.lifecycle = "CLOSED"
          /\ IF intent.state \in {"FILLED", "RECOVERY_REQUIRED"}
             THEN Goto(i, "complete") ELSE End(i)
    /\ UNCHANGED <<exchange, orderRow, row, events, memory, returned, cycle>>
    /\ NoFault

(* The exchange shows the order of the close client id.                    *)
Found(i) == request' = [request EXCEPT ![i].payload = close, ![i].step = "record"]

(* _existing_or_new_close(): the query before the submission ...           *)
Query(i) ==
    /\ At(i, "query")
    /\ IF close = NoOrder THEN Goto(i, "place") ELSE Found(i)
    /\ UNCHANGED <<exchange, database, memory, returned, cycle>>
    /\ NoFault

(* ... and the query after a submission that failed.                       *)
Requery(i) ==
    /\ At(i, "requery")
    /\ IF close = NoOrder THEN End(i) ELSE Found(i)
    /\ UNCHANGED <<exchange, database, memory, returned, cycle>>
    /\ NoFault

(* A step before the exchange answered fails: the request ends in an error *)
(* and the intent stays as it is.                                          *)
GiveUp(i) ==
    /\ request[i].step \in {"prepare", "query", "place", "requery"}
    /\ End(i)
    /\ UNCHANGED <<exchange, database, memory, returned, cycle>>
    /\ Fault

(* A reduce-only order that would open a position is refused, and so is an *)
(* order with the client id of an open one.                                *)
Acceptable == (ReduceOnly => position > 0) /\ close.status # "NEW"

(* place_market_order() is accepted: the order is matched at once or stays *)
(* open, and the answer arrives or is lost.  Only a failure the client     *)
(* reports as its own error is followed by a query.                        *)
Accept(i) ==
    /\ At(i, "place")
    /\ Acceptable
    /\ \/ Matched
       \/ close' = [NoOrder EXCEPT !.status = "NEW"] /\ UNCHANGED position
    /\ \/ /\ request' = [request EXCEPT ![i].payload = close', ![i].step = "record"]
          /\ NoFault
       \/ (Goto(i, "requery") \/ End(i)) /\ Fault
    /\ UNCHANGED <<algo, database, memory, returned, cycle>>

(* It is refused, or never arrives.                                        *)
Refuse(i) ==
    /\ At(i, "place")
    /\ Goto(i, "requery")
    /\ IF Acceptable THEN Fault ELSE NoFault
    /\ UNCHANGED <<exchange, database, memory, returned, cycle>>

(* Mutated form of VerifiedCloseFill: the filled quantity is not compared. *)
VerifiedAnyQuantity(p) == p.status = "FILLED"

(* _verified_close_fill()                                                  *)
VerifiedCloseFill(p) == p.status = "FILLED" /\ p.filled = Quantity

(* record_exchange_result(), and the verification of what it recorded.     *)
Record(i) ==
    LET p == request[i].payload IN
    /\ At(i, "record")
    /\ \/ /\ intent.state = "COMPLETED"
          /\ Replay(i)
          /\ UNCHANGED <<intent, orderRow>>
       \/ /\ intent.state # "COMPLETED"
          /\ intent' = [intent EXCEPT !.state = IF p.status = "FILLED" THEN "FILLED"
                                                                      ELSE "SUBMITTED"]
          /\ orderRow' = p.status
          /\ request' = [request EXCEPT ![i].payload = NoOrder, ![i].step =
                           IF VerifiedCloseFill(p) THEN "cancel stop" ELSE "mark"]
    /\ UNCHANGED <<exchange, row, events, memory, returned, cycle>>
    /\ NoFault

(* _cancel_best_effort() of the stop, then of the take profit: a refused   *)
(* or failed cancellation is ignored.                                      *)
Cancel(i, step, k, next) ==
    /\ At(i, step)
    /\ Goto(i, next)
    /\ \/ k \in OpenAlgos /\ Cancelled(k) /\ NoFault
       \/ k \notin OpenAlgos /\ UNCHANGED algo /\ NoFault
       \/ k \in OpenAlgos /\ UNCHANGED algo /\ Fault
    /\ UNCHANGED <<position, close, database, memory, returned, cycle>>

CancelStop(i) == Cancel(i, "cancel stop", "STOP_LOSS", "cancel take")
CancelTake(i) == Cancel(i, "cancel take", "TAKE_PROFIT", "complete")

(* The outcome this request calculated: provisional, or the trade that was *)
(* closed before the request came.                                         *)
Outcome(i) ==
    IF request[i].trade.lifecycle = "CLOSED" THEN request[i].trade
    ELSE [request[i].trade EXCEPT !.lifecycle = "CLOSED", !.by = "MANUAL",
                                  !.finalizer = i]

(* Mutated form of CompletedIntent: the last finalizer wins.               *)
CompletedIntentLast(outcome) == [state |-> "COMPLETED", trade |-> outcome]

(* complete(): the first completed outcome is kept.                        *)
CompletedIntent(outcome) ==
    IF intent.state = "COMPLETED" THEN intent
    ELSE [state |-> "COMPLETED", trade |-> outcome]

(* _reconcile_realized_pnl() succeeded; complete() commits, and what it    *)
(* returns is the outcome from here on.                                    *)
Complete(i) ==
    /\ At(i, "complete")
    /\ intent' = CompletedIntent(Outcome(i))
    /\ request' = [request EXCEPT ![i].trade = intent'.trade, ![i].step = "store"]
    /\ UNCHANGED <<exchange, orderRow, row, events, memory, returned, cycle>>
    /\ NoFault

(* A step after the exchange answered fails.  For a trade closed before    *)
(* the request the error is returned as it is.                             *)
FinalizationFails(i) ==
    /\ request[i].step \in {"record", "cancel stop", "cancel take", "complete"}
    /\ IF request[i].trade.lifecycle = "CLOSED" THEN End(i) ELSE Goto(i, "mark")
    /\ UNCHANGED <<exchange, database, memory, returned, cycle>>
    /\ Fault

(* mark_recovery_required(), which may fail too; a completed intent is     *)
(* left alone.                                                             *)
Mark(i) ==
    /\ At(i, "mark")
    /\ End(i)
    /\ \/ /\ intent' = IF intent.state = "COMPLETED" THEN intent
                       ELSE [intent EXCEPT !.state = "RECOVERY_REQUIRED"]
          /\ NoFault
       \/ UNCHANGED intent /\ Fault
    /\ UNCHANGED <<exchange, orderRow, row, events, memory, returned, cycle>>

(* store_trade(): memory first ...                                         *)
Store(i) ==
    /\ At(i, "store")
    /\ memory' = [memory EXCEPT ![i] = request[i].trade]
    /\ Goto(i, "persist")
    /\ UNCHANGED <<exchange, database, returned, cycle, bounds>>

(* ... then the row.  If that fails the request ends in an error; the      *)
(* intent is completed already, so marking it changes nothing.             *)
Persist(i) ==
    /\ At(i, "persist")
    /\ End(i)
    /\ \/ /\ row' = request[i].trade
          /\ returned' = returned \cup {request[i].trade}
          /\ NoFault
       \/ UNCHANGED <<row, returned>> /\ Fault
    /\ UNCHANGED <<exchange, intent, orderRow, events, memory, cycle>>

Close(i) ==
    \/ Prepare(i) \/ Query(i) \/ Accept(i) \/ Refuse(i) \/ Requery(i)
    \/ Record(i) \/ CancelStop(i) \/ CancelTake(i) \/ Complete(i) \/ Mark(i)
    \/ Store(i) \/ Persist(i)
    \/ GiveUp(i) \/ FinalizationFails(i)

-----------------------------------------------------------------------------
(* The reconciliation loop: run_forever                                    *)

Then(step) == rpc' = step

(* Only what is still needed of the cycle's readings is kept.              *)
Report(finding) ==
    /\ scan' = [NoScan EXCEPT !.found = finding, !.full = scan.full]
    /\ Then("report")

Keep(t) ==
    /\ scan' = [NoScan EXCEPT !.trade = t, !.found = ~scan.cancelled,
                             !.full = scan.full]
    /\ Then("store")

(* Mutated form of Begin: nothing runs while the gate is shut.             *)
BeginGated ==
    /\ rpc = "idle" /\ looping /\ gate
    /\ scan' = [NoScan EXCEPT !.trade = memory[Leader], !.full = gate]
    /\ Then("positions")
    /\ UNCHANGED <<exchange, database, memory, client, gate, looping, bounds>>

(* A cycle begins: with the gate open every proof, else the observers      *)
(* alone.  protective.reconcile() reads the records from memory.           *)
Begin ==
    /\ rpc = "idle" /\ looping
    /\ scan' = [NoScan EXCEPT !.trade = memory[Leader], !.full = gate]
    /\ Then("positions")
    /\ UNCHANGED <<exchange, database, memory, client, gate, looping, bounds>>

PendingCleanup(t) == t.lifecycle = "CLOSED" /\ t.by \in Kind /\ ~t.swept

ReadPositions ==
    /\ rpc = "positions"
    /\ scan' = [scan EXCEPT !.held = position, !.sweeping = PendingCleanup(scan.trade)]
    /\ Then(CASE PendingCleanup(scan.trade) -> "cleanup"
               [] scan.trade.lifecycle = "OPEN" -> "stop"
               [] OTHER -> "report")
    /\ UNCHANGED <<exchange, database, memory, client, gate, looping>>
    /\ NoFault

(* A failure that nothing in protective.reconcile() catches: the global    *)
(* cycle shuts the gate, the loop of the observers ends.                   *)
Abort ==
    /\ rpc \in {"positions", "cleanup", "sweep", "persist"}
    /\ rpc = "persist" => scan.sweeping
    /\ Then("idle")
    /\ scan' = NoScan
    /\ gate' = FALSE
    /\ looping' = scan.full
    /\ UNCHANGED <<exchange, database, memory, client>>
    /\ Fault

(* A failure that becomes a finding, or a report that is unavailable.      *)
Unverified ==
    /\ rpc \in {"positions", "cleanup", "stop", "take", "fills", "sibling", "apply",
                "persist"}
    /\ rpc = "persist" => ~scan.sweeping
    /\ Report(TRUE)
    /\ UNCHANGED <<exchange, database, memory, client, gate, looping>>
    /\ Fault

(* _retry_sibling_cleanup(): the sibling is cancelled unless it is done.   *)
Cleanup ==
    /\ rpc = "cleanup"
    /\ LET s == Sibling(scan.trade.by) IN
         \/ s \in OpenAlgos /\ Cancelled(s)
         \/ s \notin OpenAlgos /\ UNCHANGED algo
    /\ Then("sweep")
    /\ UNCHANGED <<position, close, database, memory, client, scan, gate, looping>>
    /\ NoFault

Sweep ==
    /\ rpc = "sweep"
    /\ row' = [row EXCEPT !.swept = TRUE]
    /\ scan' = [scan EXCEPT !.trade = row']
    /\ Then("store")
    /\ UNCHANGED <<exchange, intent, orderRow, events, memory, client, gate,
                   looping>>
    /\ NoFault

(* _observe(): the stop, the take profit, the fills.                       *)
Look(step, k, next) ==
    /\ rpc = step
    /\ scan' = [scan EXCEPT !.looked[k] = algo[k]]
    /\ Then(next)
    /\ UNCHANGED <<exchange, database, memory, client, gate, looping>>
    /\ NoFault

LookStop == Look("stop", "STOP_LOSS", "take")
LookTake == Look("take", "TAKE_PROFIT", "fills")

FullClose(exit) == exit = Quantity

(* The fills, the executed quantity, the status and the position of one    *)
(* protective order agree.                                                 *)
Proved(k, exit) ==
    /\ scan.looked[k].filled = exit
    /\ scan.looked[k].status = IF FullClose(exit) THEN "FINISHED"
                                                   ELSE "PARTIALLY_FILLED"
    /\ scan.held = Quantity - exit

(* actualOrderId was there when the protective order was looked at; fills  *)
(* are searched by it.                                                     *)
Triggered(k) == scan.looked[k].status # "NEW"

ReadFills ==
    /\ rpc = "fills"
    /\ LET filled == {k \in Kind : Triggered(k) /\ algo[k].filled > 0} IN
         \/ /\ filled = {}
            /\ Report(scan.held # Quantity - scan.trade.exited)
         \/ \E k \in filled :
              /\ filled = {k} /\ Proved(k, algo[k].filled)
              /\ scan' = [scan EXCEPT !.by = k]
              /\ Then(IF FullClose(algo[k].filled) THEN "sibling" ELSE "apply")
         \/ /\ filled # {}
            /\ \A k \in filled : filled # {k} \/ ~Proved(k, algo[k].filled)
            /\ Report(TRUE)
    /\ UNCHANGED <<exchange, database, memory, client, gate, looping>>
    /\ NoFault

(* _cancel_sibling(), as it was seen: a failed cancellation is noted.      *)
CancelSibling ==
    /\ rpc = "sibling"
    /\ LET s == Sibling(scan.by)
           ended == scan.looked[s].status \in {"CANCELED", "FINISHED"}
           asks == scan.looked[s].status = "NEW"
       IN \/ /\ asks /\ s \in OpenAlgos /\ Cancelled(s) /\ NoFault
             /\ scan' = [scan EXCEPT !.cancelled = TRUE]
          \/ /\ asks
             /\ IF s \in OpenAlgos THEN Fault ELSE NoFault
             /\ scan' = [scan EXCEPT !.cancelled = FALSE]
             /\ UNCHANGED algo
          \/ /\ ~asks /\ UNCHANGED algo /\ NoFault
             /\ scan' = [scan EXCEPT !.cancelled = ended]
    /\ Then("apply")
    /\ UNCHANGED <<position, close, database, memory, client, gate, looping>>

Observed == {<<scan.by, n>> : n \in 1 .. scan.looked[scan.by].filled}

(* Mutated form of Applied: the fills are added to those already recorded. *)
AppliedTwice(durable) ==
    LET exit == scan.looked[scan.by].filled IN
    [durable EXCEPT !.exited = @ + exit,
                    !.lifecycle = IF FullClose(exit) THEN "CLOSED" ELSE @,
                    !.by = IF FullClose(exit) THEN scan.by ELSE @,
                    !.swept = scan.cancelled]

(* Mutated form of Applied: any fill of a protective order closes.         *)
AppliedCloses(durable) ==
    [durable EXCEPT !.exited = scan.looked[scan.by].filled, !.lifecycle = "CLOSED",
                    !.by = scan.by, !.swept = scan.cancelled]

(* Mutated form of Applied: a partial close is not written to the row.     *)
AppliedFullOnly(durable) ==
    LET exit == scan.looked[scan.by].filled IN
    IF ~FullClose(exit) THEN durable
    ELSE [durable EXCEPT !.exited = exit, !.lifecycle = "CLOSED",
                         !.by = scan.by, !.swept = scan.cancelled]

(* What the observation makes of the durable trade.                        *)
Applied(durable) ==
    LET exit == scan.looked[scan.by].filled IN
    [durable EXCEPT !.exited = exit,
                    !.lifecycle = IF FullClose(exit) THEN "CLOSED" ELSE @,
                    !.by = IF FullClose(exit) THEN scan.by ELSE @,
                    !.swept = scan.cancelled]

(* _apply(): a trade that is closed durably wins; events that the fills do *)
(* not explain refute the observation; otherwise new fills become events   *)
(* and the row is updated.  What is not closed and clean is a finding.     *)
Apply ==
    /\ rpc = "apply"
    /\ \/ /\ row.lifecycle = "CLOSED"
          /\ Keep(row)
          /\ UNCHANGED <<row, events>>
       \/ /\ row.lifecycle = "OPEN" /\ ~(events \subseteq Observed)
          /\ Report(TRUE)
          /\ UNCHANGED <<row, events>>
       \/ /\ row.lifecycle = "OPEN" /\ events \subseteq Observed
          /\ events' = Observed
          /\ row' = Applied(row)
          /\ Keep(row')
    /\ UNCHANGED <<exchange, intent, orderRow, memory, client, gate, looping>>
    /\ NoFault

(* store_trade() of the loop: memory, then the row.                        *)
StoreObserved ==
    /\ rpc = "store"
    /\ memory' = [memory EXCEPT ![Leader] = scan.trade]
    /\ Then("persist")
    /\ UNCHANGED <<exchange, database, client, scan, gate, looping, bounds>>

PersistObserved ==
    /\ rpc = "persist"
    /\ row' = scan.trade
    /\ Then("report")
    /\ UNCHANGED <<exchange, intent, orderRow, events, memory, client, scan,
                   gate, looping>>
    /\ NoFault

(* The protective report shuts the gate on a finding; a full cycle goes on *)
(* with the orders, whose open trades are read from memory.                *)
Publish ==
    /\ rpc = "report"
    /\ gate' = (gate /\ ~scan.found)
    /\ Then(IF scan.full THEN "orders" ELSE "idle")
    /\ scan' = IF scan.full THEN [NoScan EXCEPT !.trade = memory[Leader]] ELSE NoScan
    /\ UNCHANGED <<exchange, database, memory, client, looping, bounds>>

(* Mutated form of ProtectionInSync: orders of a closed trade are ignored. *)
ProtectionInSyncOpenOnly(t) ==
    \A k \in Kind : t.lifecycle = "OPEN" => algo[k].status = "NEW"

(* Protective orders of an open trade are untouched, a closed one has none.*)
ProtectionInSync(t) ==
    \A k \in Kind : IF t.lifecycle = "OPEN" THEN algo[k].status = "NEW"
                                            ELSE k \notin OpenAlgos

OrdersInSync(t) == close.status # "NEW" /\ ProtectionInSync(t)

PositionInSync(t) == position = IF t.lifecycle = "OPEN" THEN Quantity ELSE 0

(* order.reconcile()                                                       *)
ReconcileOrders ==
    /\ rpc = "orders"
    /\ Then("ownership")
    /\ \/ gate' = (gate /\ OrdersInSync(scan.trade)) /\ NoFault
       \/ gate' = FALSE /\ Fault
    /\ scan' = [scan EXCEPT !.trade = memory[Leader]]
    /\ UNCHANGED <<exchange, database, memory, client, looping>>

(* position.reconcile(), the lifecycle view of both and the ownership      *)
(* report, which compares protective orders and positions once more.       *)
ReconcilePositions ==
    /\ rpc = "ownership"
    /\ Then("idle")
    /\ \/ /\ gate' = (gate /\ PositionInSync(scan.trade) /\ ProtectionInSync(scan.trade))
          /\ NoFault
       \/ gate' = FALSE /\ Fault
    /\ scan' = NoScan
    /\ UNCHANGED <<exchange, database, memory, client, looping>>

Reconcile ==
    \/ Begin \/ ReadPositions \/ Cleanup \/ Sweep \/ LookStop \/ LookTake
    \/ ReadFills \/ CancelSibling \/ Apply \/ StoreObserved \/ PersistObserved
    \/ Publish \/ ReconcileOrders \/ ReconcilePositions
    \/ Unverified \/ Abort

-----------------------------------------------------------------------------
(* A process dies and comes back: memory is read from the row.  The leader *)
(* runs startup recovery and a first cycle; only when both prove the       *)
(* exchange and memory to agree does the loop start.                       *)
Crash(i) ==
    /\ crashes < MaxCrashes
    /\ i \in Crashing
    /\ crashes' = crashes + 1
    /\ memory' = [memory EXCEPT ![i] = row]
    /\ End(i)
    /\ IF i = Leader
       THEN /\ rpc' = "idle"
            /\ scan' = NoScan
            /\ gate' = (OrdersInSync(row) /\ PositionInSync(row))
            /\ looping' = gate'
       ELSE UNCHANGED cycle
    /\ UNCHANGED <<exchange, database, returned, faults>>

Next ==
    \/ \E k \in Kind : Fill(k) \/ Expire(k)
    \/ Match
    \/ \E i \in Instance : Request(i) \/ Close(i) \/ Crash(i)
    \/ Reconcile

Spec == Init /\ [][Next]_vars

(* Requests that were begun go on, the loop goes on while it runs, the     *)
(* exchange matches a market order, and a client whose trade is not closed *)
(* asks again.                                                             *)
Fairness ==
    /\ WF_vars(Match)
    /\ WF_vars(Reconcile)
    /\ \A i \in Instance : WF_vars(Request(i)) /\ WF_vars(Close(i))

FairSpec == Spec /\ Fairness

-----------------------------------------------------------------------------
(* Properties                                                              *)

Step == {"idle", "prepare", "query", "place", "requery", "record",
         "cancel stop", "cancel take", "complete", "mark", "store", "persist"}
LoopStep == {"idle", "positions", "cleanup", "sweep", "stop", "take", "fills",
             "sibling", "apply", "store", "persist", "report", "orders",
             "ownership"}

(* Every variable has its type; in particular the protective quantity that *)
(* _apply() records never exceeds the entry quantity.                      *)
TypeOK ==
    /\ position \in -Quantity .. Quantity
    /\ algo \in [Kind -> Algo]
    /\ close \in Order
    /\ intent \in [state : IntentState, trade : Trade]
    /\ orderRow \in {"NONE", "NEW", "FILLED", "EXPIRED"}
    /\ row \in Trade
    /\ events \subseteq Kind \X (1 .. Quantity)
    /\ memory \in [Instance -> Trade]
    /\ request \in [Instance -> [step : Step, trade : Trade, payload : Order]]
    /\ rpc \in LoopStep
    /\ scan \in [trade : Trade, held : -Quantity .. Quantity,
                 looked : [Kind -> Algo], by : {"NONE"} \cup Kind,
                 cancelled : BOOLEAN, found : BOOLEAN, full : BOOLEAN,
                 sweeping : BOOLEAN]
    /\ gate \in BOOLEAN
    /\ looping \in BOOLEAN
    /\ returned \subseteq Trade
    /\ faults \in 0 .. MaxFaults
    /\ crashes \in 0 .. MaxCrashes

(* However many instances and retries submit the close of a trade, and     *)
(* whatever its stop and take profit do meanwhile, its position is never   *)
(* turned round (_existing_or_new_close: one client id, reduce-only).      *)
NotReversed == position >= 0

(* A trade that is durably closed has no position left, and the order its  *)
(* record names filled the whole entry quantity (_verified_close_fill,     *)
(* _observe).                                                              *)
ClosedIsExplained ==
    row.lifecycle = "CLOSED" =>
        /\ position = 0
        /\ \/ row.by = "MANUAL" /\ close.filled = Quantity
           \/ row.by \in Kind /\ algo[row.by].filled = Quantity

(* Every client that asked for the close got the one durable outcome       *)
(* (complete() keeps the first; "replay one final outcome").               *)
OneOutcome ==
    \A t \in returned : intent.state = "COMPLETED" /\ t = intent.trade

(* The lifecycle events and the protective quantity in the trade's row     *)
(* tell the same story, although store_trade() writes the row once more,   *)
(* without a lock, after the transaction of _apply().                      *)
EventsMatchTrade == Cardinality(events) = row.exited

(* No step of an instance that still works on an older record reopens a    *)
(* trade that is durably closed or changes what it was closed by:          *)
(* store_trade() overwrites the row without looking at it.                 *)
ClosedStaysClosed ==
    [][row.lifecycle = "CLOSED" => row'.lifecycle = "CLOSED" /\ row'.by = row.by]_vars

(* A close that filled the position is recorded in the trade's row in the  *)
(* end, whatever crashed or failed on the way, when the client asks again. *)
CloseIsRecorded == close.filled = Quantity ~> row.lifecycle = "CLOSED"

(* A protective order that filled the position closes the trade's row in   *)
(* the end, also after a false alarm shut the gate, as long as the loop of *)
(* the leader runs.                                                        *)
WatchedExitIsRecorded ==
    \A k \in Kind :
        algo[k].filled = Quantity ~> (row.lifecycle = "CLOSED" \/ ~looping)

(* A position that is gone is noticed: the trade is closed and leaves no   *)
(* order behind, or automation is blocked.                                 *)
ExitIsNoticed ==
    position = 0 ~> (~gate \/ (row.lifecycle = "CLOSED" /\ OpenAlgos = {}))
=============================================================================
