------------------------- MODULE ExecutionWorkerProofs -------------------------
(***************************************************************************)
(* Theorems about ExecutionWorker, for any commands, signals, faults and   *)
(* crashes.                                                                *)
(*                                                                         *)
(* For any number of instances: the types, that the worker's transactions  *)
(* are calls of CommandStore, so what is proved of the queue holds of the  *)
(* whole system, and that nothing reaches the exchange unrecorded.         *)
(*                                                                         *)
(* For a single instance, with crashes and restarts: that a signal is      *)
(* entered at most once, and that what is durably open, confirmed or       *)
(* completed is protected, over its position unless the signal was         *)
(* submitted again.                                                        *)
(* With a second instance the first of these is refuted by a run of the    *)
(* model checker (worker_failover), so the hypothesis is needed.           *)
(***************************************************************************)
EXTENDS ExecutionWorker, CommandStoreProofs

Submitted(c) == \E i \in DOMAIN history[c] : history[c][i][2] = "SUBMITTING"

(* A worker past SUBMITTING has a record of it, and one that may call the  *)
(* exchange has an intent.                                                 *)
WorkIsRecorded ==
    \A p \in Instance :
        /\ pc[p] \in Activation => Submitted(cur[p])
        /\ pc[p] \in Activation \ {"prepare", "block", "recover"}
             => intent[Sig(p)] # "NONE"

(* The invariant of any number of instances.                               *)
IInv ==
    /\ StoreTypeOK
    /\ AuditTrailIsLegalPath
    /\ TypeOK
    /\ WorkIsRecorded
    /\ EntryIsRecorded

(* A single instance.                                                      *)
Alone == \E p \in Instance : Instance = {p}

(* Nothing is under way to the exchange while the worker may submit, and   *)
(* it submits only what the exchange does not have; while it asks again    *)
(* for a lost answer, only that request can be under way.                  *)
EntryIsQueried ==
    /\ \A s \in Signal :
         /\ entry[s] = "NONE" => entries[s] = 0
         /\ entry[s] = "FILLED" => entries[s] = 1
         /\ inflight[s] > 0 =>
              /\ entry[s] = "NONE"
              /\ \A p \in Instance :
                    \/ pc[p] \in {"recover", "idle", "down"}
                    \/ pc[p] = "requery" /\ Sig(p) = s
    /\ \A p \in Instance : pc[p] = "place" => entry[Sig(p)] = "NONE"

Protected(s) == entry[s] = "FILLED" /\ stop[s] = "OPEN" /\ take[s] = "OPEN"

(* What the database knows of a trade is protected and tracked.            *)
TradeIsProtected ==
    /\ \A s \in Signal :
         /\ saved[s] \/ intent[s] \in {"RECOVERY_REQUIRED", "PROTECTED"} => Protected(s)
         /\ intent[s] = "PROTECTED" => saved[s]
         /\ saved[s] => \A p \in Instance : pc[p] = "down" \/ s \in tracked[p]
    /\ \A c \in Command : row[c].state \in Confirmed => saved[SignalOf[c]]

(* What the worker has achieved for its signal at each step.               *)
Entering == {"query", "place", "requery", "stop", "take", "cancel", "close"}
Reporting == {"confirm", "verify", "secure", "complete"}

StepIsEarned ==
    \A p \in Instance :
        /\ pc[p] \in {"check"} \cup Entering => intent[Sig(p)] = "PENDING"
        /\ pc[p] \in Entering => ~saved[Sig(p)]
        /\ pc[p] \in {"stop", "take"} => entry[Sig(p)] = "FILLED"
        /\ pc[p] = "take" => stop[Sig(p)] = "OPEN"
        /\ pc[p] = "persist" => Protected(Sig(p))
        /\ pc[p] \in {"protect", "validate"} \cup Reporting => saved[Sig(p)]

(* The invariant of a single instance.                                     *)
AloneInv ==
    /\ OneEntryPerSignal
    /\ EntryIsQueried
    /\ TradeIsProtected
    /\ StepIsEarned

(* The steps of a cycle between the claim and SUBMITTING, and those after  *)
(* it that no failure has reached.                                         *)
InClaim == {"revalidate", "lease", "submit"}
Working == Activation \ {"block", "recover"}

(* Nothing of the signal's entry was closed, or it was submitted again.    *)
Untouched(s) == position[s] = entries[s] \/ SubmittedTwice(s)

(* The only emergency close is the last call of an attempt, so the next    *)
(* one is another submission; the claim of a single instance is its own    *)
(* until it writes SUBMITTING, so that this write leaves a record.         *)
PositionIsKept ==
    /\ \A s \in Signal : position[s] <= entries[s] /\ (saved[s] => Untouched(s))
    /\ \A p \in Instance :
         /\ pc[p] \in InClaim => row[cur[p]].state = "CLAIMED"
         /\ pc[p] \in Working => Untouched(Sig(p))

-----------------------------------------------------------------------------
(* Types, and the calls the worker makes to the queue.                     *)

(* An instance past its claim has a command, and the command a signal.     *)
LEMMA WorkInHand ==
    ASSUME TypeOK, NEW p \in Instance, pc[p] \notin {"down", "idle", "claim"}
    PROVE  cur[p] \in Command /\ Sig(p) \in Signal
BY WorkerAssumption DEF TypeOK, Sig

(* The instance and bookkeeping part of a step.                            *)
LoopTypeOK ==
    /\ pc \in [Instance -> Step]
    /\ cur \in [Instance -> Command \cup {NoCommand}]
    /\ \A p \in Instance : cur[p] = NoCommand <=> pc[p] \in {"down", "idle", "claim"}

LEMMA LoopTypes ==
    ASSUME TypeOK, NEW p \in Instance
    PROVE  /\ EndCycle(p) => LoopTypeOK'
           /\ \A s \in Step \ {"down", "idle", "claim"} :
                Goto(p, s) /\ UNCHANGED cur /\ pc[p] \notin {"down", "idle", "claim"}
                  => LoopTypeOK'
           /\ Fault \/ NoFault =>
                faults' \in 0 .. MaxFaults /\ crashes' \in 0 .. MaxCrashes
<1>1. EndCycle(p) => LoopTypeOK'
  BY DEF TypeOK, LoopTypeOK, EndCycle, Goto, Step, Activation
<1>2. ASSUME NEW s \in Step \ {"down", "idle", "claim"}, Goto(p, s), UNCHANGED cur,
             pc[p] \notin {"down", "idle", "claim"}
      PROVE  LoopTypeOK'
  BY <1>2 DEF TypeOK, LoopTypeOK, Goto
<1>3. Fault \/ NoFault => faults' \in 0 .. MaxFaults /\ crashes' \in 0 .. MaxCrashes
  BY WorkerAssumption DEF TypeOK, Fault, NoFault, budgetVars
<1> QED
  BY <1>1, <1>2, <1>3

LEMMA ActivationTypes ==
    ASSUME TypeOK, NEW p \in Instance, NEW s \in Activation, ActivationStep(p, s),
           pc[p] \notin {"down", "idle", "claim"}
    PROVE  LoopTypeOK' /\ UNCHANGED <<leader, gate>>
<1>1. s \in Step \ {"down", "idle", "claim"}
  BY DEF Step, Activation
<1> QED
  BY <1>1, LoopTypes DEF ActivationStep

LEMMA ExecuteTypes ==
    ASSUME TypeOK, NEW s \in Signal, NEW status \in {"FILLED", "PARTIAL", "UNFILLED"},
           Execute(s, status)
    PROVE  /\ entry' \in [Signal -> {"NONE", "FILLED", "PARTIAL", "UNFILLED"}]
           /\ entries' \in [Signal -> Nat] /\ position' \in [Signal -> Nat]
BY DEF TypeOK, Execute

LEMMA EnvironmentTypes ==
    ASSUME TypeOK,
           \/ Tick \/ Enqueue \/ \E s \in Signal : Land(s)
           \/ \E p \in Instance : \/ Start(p) \/ Crash(p) \/ LoseLease(p)
                                  \/ ValidateLeader(p) \/ Reconcile(p)
                                  \/ ReconcileUnavailable(p)
    PROVE  TypeOK'
<1> USE WorkerAssumption
<1>1. CASE Tick
  BY <1>1 DEF Tick, TypeOK, At, Step, durableVars, exchangeVars, budgetVars
<1>2. CASE Enqueue
  BY <1>2 DEF Enqueue, TypeOK, instanceVars, durableVars, exchangeVars, budgetVars
<1>3. ASSUME NEW s \in Signal, Land(s) PROVE TypeOK'
  <2>1. inflight' \in [Signal -> Nat]
    BY <1>3 DEF Land, TypeOK
  <2>2. /\ entry' \in [Signal -> {"NONE", "FILLED", "PARTIAL", "UNFILLED"}]
        /\ entries' \in [Signal -> Nat] /\ position' \in [Signal -> Nat]
    BY <1>3, ExecuteTypes DEF Land, TypeOK
  <2> QED
    BY <1>3, <2>1, <2>2 DEF Land, TypeOK, instanceVars, durableVars, budgetVars
<1>4. ASSUME NEW p \in Instance, Start(p) PROVE TypeOK'
  <2>1. pc' \in [Instance -> Step]
        /\ (\A q \in Instance : cur'[q] = NoCommand <=> pc'[q] \in {"down", "idle", "claim"})
    BY <1>4 DEF Start, TypeOK, At, Goto, Step
  <2>2. tracked' \in [Instance -> SUBSET Signal]
    BY <1>4 DEF Start, TypeOK, SavedTrades
  <2>3. faults' \in 0 .. MaxFaults /\ crashes' \in 0 .. MaxCrashes
    BY <1>4, LoopTypes DEF Start
  <2>4. /\ leader' \in Instance \cup {NoInstance}
        /\ gate' \in [Instance -> {"RECOVERY_REQUIRED", "AUTOMATION_READY",
                                   "RECOVERY_FAILED"}]
    BY <1>4 DEF Start, TypeOK, FailGate
  <2> QED
    BY <1>4, <2>1, <2>2, <2>3, <2>4 DEF Start, TypeOK, durableVars, exchangeVars
<1>5. ASSUME NEW p \in Instance, Crash(p) PROVE TypeOK'
  BY <1>5 DEF Crash, TypeOK, At, Goto, Step, durableVars, exchangeVars
<1>6. ASSUME NEW p \in Instance,
             LoseLease(p) \/ ValidateLeader(p) \/ Reconcile(p) \/ ReconcileUnavailable(p)
      PROVE  TypeOK'
  <2>1. faults' \in 0 .. MaxFaults /\ crashes' \in 0 .. MaxCrashes
    BY <1>6, LoopTypes
    DEF LoseLease, ValidateLeader, Reconcile, ReconcileUnavailable, NoFault
  <2> QED
    BY <1>6, <2>1
    DEF LoseLease, ValidateLeader, Reconcile, ReconcileUnavailable, TypeOK, FailGate,
        durableVars, exchangeVars
<1> QED
  BY <1>1, <1>2, <1>3, <1>4, <1>5, <1>6

LEMMA BeforeEntryTypes ==
    ASSUME TypeOK, NEW p \in Instance, BeforeEntry(p)
    PROVE  TypeOK'
<1> USE WorkerAssumption
<1>0. SUFFICES /\ LoopTypeOK'
               /\ faults' \in 0 .. MaxFaults /\ crashes' \in 0 .. MaxCrashes
               /\ gate' \in [Instance -> {"RECOVERY_REQUIRED", "AUTOMATION_READY",
                                          "RECOVERY_FAILED"}]
               /\ intent' \in [Signal -> {"NONE", "PENDING", "RECOVERY_REQUIRED",
                                          "PROTECTED"}]
               /\ UNCHANGED <<leader, tracked, saved, exchangeVars>>
  BY <1>0 DEF TypeOK, LoopTypeOK, exchangeVars
<1>1. gate \in [Instance -> {"RECOVERY_REQUIRED", "AUTOMATION_READY", "RECOVERY_FAILED"}]
      /\ intent \in [Signal -> {"NONE", "PENDING", "RECOVERY_REQUIRED", "PROTECTED"}]
  BY DEF TypeOK
<1> USE <1>1 DEF durableVars, FailGate
<1>2. CASE Claim(p)
  <2>1. LoopTypeOK'
    <3>1. ASSUME NEW c \in Command, cur' = [cur EXCEPT ![p] = c], Goto(p, "revalidate")
          PROVE  LoopTypeOK'
      BY <3>1 DEF TypeOK, LoopTypeOK, Goto, Step
    <3> QED
      BY <1>2, <3>1, LoopTypes DEF Claim
  <2>2. Fault \/ NoFault
    BY <1>2 DEF Claim
  <2> QED
    BY <1>2, <2>1, <2>2, LoopTypes DEF Claim
<1>3. CASE Revalidate(p)
  <2>1. LoopTypeOK'
    BY <1>3, LoopTypes DEF Revalidate, At, Step
  <2>2. Fault \/ NoFault
    BY <1>3 DEF Revalidate
  <2> QED
    BY <1>3, <2>1, <2>2, LoopTypes DEF Revalidate
<1>4. CASE Reject(p) \/ Requeue(p)
  BY <1>4, LoopTypes DEF Reject, Requeue, PlainTransition
<1>5. CASE CheckLease(p)
  <2>1. LoopTypeOK'
    BY <1>5, LoopTypes DEF CheckLease, At, Step
  <2> QED
    BY <1>5, <2>1, LoopTypes DEF CheckLease, NoFault
<1>6. CASE Submit(p)
  <2>1. LoopTypeOK'
    BY <1>6, LoopTypes DEF Submit, At, Step, Activation
  <2>2. Fault \/ NoFault
    BY <1>6 DEF Submit
  <2> QED
    BY <1>6, <2>1, <2>2, LoopTypes DEF Submit
<1>7. CASE Prepare(p)
  <2>1. LoopTypeOK' /\ UNCHANGED <<leader, gate>>
    BY <1>7, ActivationTypes DEF Prepare, At, Activation
  <2>2. Fault \/ NoFault
    BY <1>7 DEF Prepare
  <2>3. intent' \in [Signal -> {"NONE", "PENDING", "RECOVERY_REQUIRED", "PROTECTED"}]
    BY <1>7 DEF Prepare
  <2> QED
    BY <1>7, <2>1, <2>2, <2>3, LoopTypes DEF Prepare
<1>8. CASE Check(p)
  <2>1. LoopTypeOK' /\ UNCHANGED <<leader, gate>>
    BY <1>8, ActivationTypes DEF Check, At, Activation
  <2> QED
    BY <1>8, <2>1, LoopTypes DEF Check, NoFault
<1> QED
  BY <1>2, <1>3, <1>4, <1>5, <1>6, <1>7, <1>8 DEF BeforeEntry

LEMMA EntryTypes ==
    ASSUME TypeOK, NEW p \in Instance, Entry(p)
    PROVE  TypeOK'
<1> USE WorkerAssumption
<1>0. SUFFICES /\ LoopTypeOK'
               /\ faults' \in 0 .. MaxFaults /\ crashes' \in 0 .. MaxCrashes
               /\ tracked' \in [Instance -> SUBSET Signal]
               /\ entry' \in [Signal -> {"NONE", "FILLED", "PARTIAL", "UNFILLED"}]
               /\ entries' \in [Signal -> Nat] /\ position' \in [Signal -> Nat]
               /\ stop' \in [Signal -> AlgoState] /\ take' \in [Signal -> AlgoState]
               /\ inflight' \in [Signal -> Nat]
               /\ UNCHANGED <<leader, gate, durableVars>>
  BY <1>0 DEF TypeOK, LoopTypeOK, durableVars
<1>1. /\ tracked \in [Instance -> SUBSET Signal]
      /\ entry \in [Signal -> {"NONE", "FILLED", "PARTIAL", "UNFILLED"}]
      /\ entries \in [Signal -> Nat] /\ position \in [Signal -> Nat]
      /\ stop \in [Signal -> AlgoState] /\ take \in [Signal -> AlgoState]
      /\ inflight \in [Signal -> Nat]
  BY DEF TypeOK
<1>2. pc[p] \notin {"down", "idle", "claim"} /\ Sig(p) \in Signal
  BY WorkInHand DEF Entry, QueryEntry, PlaceEntry, RequeryEntry, PlaceStop, PlaceTake,
                    CancelStop, EmergencyClose, At
<1>3. ASSUME NEW status \in {"FILLED", "PARTIAL", "UNFILLED"}, UseEntry(p, status)
      PROVE  LoopTypeOK' /\ UNCHANGED <<leader, gate>>
  BY <1>2, <1>3, ActivationTypes DEF UseEntry, Activation
<1>4. Fault \/ NoFault
  BY DEF Entry, QueryEntry, PlaceEntry, RequeryEntry, PlaceStop, PlaceTake, CancelStop,
         EmergencyClose
<1>5. LoopTypeOK' /\ UNCHANGED <<leader, gate>>
  <2>1. CASE QueryEntry(p) \/ RequeryEntry(p)
    BY <1>1, <1>2, <1>3, <2>1, ActivationTypes DEF QueryEntry, RequeryEntry, Activation
  <2>2. CASE PlaceEntry(p)
    BY <1>2, <1>3, <2>2, ActivationTypes DEF PlaceEntry, Lost, Activation
  <2>3. CASE PlaceStop(p) \/ PlaceTake(p) \/ CancelStop(p) \/ EmergencyClose(p)
    BY <1>2, <2>3, ActivationTypes
    DEF PlaceStop, PlaceTake, CancelStop, EmergencyClose, Lost, Activation
  <2> QED
    BY <2>1, <2>2, <2>3 DEF Entry
<1>6. faults' \in 0 .. MaxFaults /\ crashes' \in 0 .. MaxCrashes
  BY <1>4, LoopTypes
<1> USE <1>1, <1>2, <1>5, <1>6 DEF exchangeVars
<1>7. CASE QueryEntry(p) \/ RequeryEntry(p)
  BY <1>7 DEF QueryEntry, RequeryEntry
<1>8. CASE PlaceEntry(p)
  <2>1. /\ entry' \in [Signal -> {"NONE", "FILLED", "PARTIAL", "UNFILLED"}]
        /\ entries' \in [Signal -> Nat] /\ position' \in [Signal -> Nat]
    BY <1>8, ExecuteTypes DEF PlaceEntry
  <2>2. inflight' \in [Signal -> Nat]
    BY <1>8 DEF PlaceEntry
  <2> QED
    BY <1>8, <2>1, <2>2 DEF PlaceEntry
<1>9. CASE PlaceStop(p)
  BY <1>9 DEF PlaceStop, AlgoState
<1>10. CASE PlaceTake(p)
  <2>1. tracked' \in [Instance -> SUBSET Signal] /\ take' \in [Signal -> AlgoState]
    BY <1>10 DEF PlaceTake, AlgoState
  <2> QED
    BY <1>10, <2>1 DEF PlaceTake
<1>11. CASE CancelStop(p)
  <2>1. stop' \in [Signal -> AlgoState]
    BY <1>11 DEF CancelStop, AlgoState
  <2> QED
    BY <1>11, <2>1 DEF CancelStop
<1>12. CASE EmergencyClose(p)
  <2>1. position' \in [Signal -> Nat]
    BY <1>12 DEF EmergencyClose
  <2> QED
    BY <1>12, <2>1 DEF EmergencyClose
<1> QED
  BY <1>7, <1>8, <1>9, <1>10, <1>11, <1>12 DEF Entry

LEMMA AfterEntryTypes ==
    ASSUME TypeOK, NEW p \in Instance, AfterEntry(p)
    PROVE  TypeOK'
<1> USE WorkerAssumption
<1>0. SUFFICES /\ LoopTypeOK'
               /\ faults' \in 0 .. MaxFaults /\ crashes' \in 0 .. MaxCrashes
               /\ gate' \in [Instance -> {"RECOVERY_REQUIRED", "AUTOMATION_READY",
                                          "RECOVERY_FAILED"}]
               /\ tracked' \in [Instance -> SUBSET Signal]
               /\ intent' \in [Signal -> {"NONE", "PENDING", "RECOVERY_REQUIRED",
                                          "PROTECTED"}]
               /\ saved' \in [Signal -> BOOLEAN]
               /\ UNCHANGED <<leader, exchangeVars>>
  BY <1>0 DEF TypeOK, LoopTypeOK, exchangeVars
<1>1. /\ gate \in [Instance -> {"RECOVERY_REQUIRED", "AUTOMATION_READY",
                                "RECOVERY_FAILED"}]
      /\ tracked \in [Instance -> SUBSET Signal]
      /\ intent \in [Signal -> {"NONE", "PENDING", "RECOVERY_REQUIRED", "PROTECTED"}]
      /\ saved \in [Signal -> BOOLEAN]
  BY DEF TypeOK
<1>2. CASE Persist(p)
  <2>1. Sig(p) \in Signal /\ pc[p] \notin {"down", "idle", "claim"}
    BY <1>2, WorkInHand DEF Persist, At
  <2>2. LoopTypeOK' /\ UNCHANGED <<leader, gate>>
    BY <1>2, <2>1, ActivationTypes DEF Persist, Activation
  <2>3. Fault \/ NoFault
    BY <1>2 DEF Persist
  <2>4. tracked' \in [Instance -> SUBSET Signal]
    BY <1>1, <1>2, <2>1 DEF Persist
  <2>5. intent' \in [Signal -> {"NONE", "PENDING", "RECOVERY_REQUIRED", "PROTECTED"}]
    BY <1>1, <1>2, <2>1 DEF Persist
  <2>6. saved' \in [Signal -> BOOLEAN]
    BY <1>1, <1>2, <2>1 DEF Persist
  <2> QED
    BY <1>1, <1>2, <2>2, <2>3, <2>4, <2>5, <2>6, LoopTypes DEF Persist
<1>3. CASE ProtectIntent(p)
  <2>1. pc[p] \notin {"down", "idle", "claim"}
    BY <1>3 DEF ProtectIntent, At
  <2>2. LoopTypeOK' /\ UNCHANGED <<leader, gate>>
    BY <1>3, <2>1, ActivationTypes DEF ProtectIntent, Activation
  <2>3. Fault \/ NoFault
    BY <1>3 DEF ProtectIntent
  <2>4. intent' \in [Signal -> {"NONE", "PENDING", "RECOVERY_REQUIRED", "PROTECTED"}]
    BY <1>1, <1>3 DEF ProtectIntent
  <2> QED
    BY <1>1, <1>3, <2>2, <2>3, <2>4, LoopTypes DEF ProtectIntent
<1>4. CASE ValidateTrade(p)
  <2>1. pc[p] \notin {"down", "idle", "claim"}
    BY <1>4 DEF ValidateTrade, At
  <2>2. LoopTypeOK' /\ UNCHANGED <<leader, gate>>
    BY <1>4, <2>1, ActivationTypes DEF ValidateTrade, Activation
  <2> QED
    BY <1>1, <1>4, <2>2, LoopTypes DEF ValidateTrade, NoFault, durableVars
<1>5. CASE Report(p)
  <2>1. LoopTypeOK'
    BY <1>5, LoopTypes DEF Report, Advance, At, Step, Activation
  <2>2. Fault \/ NoFault
    BY <1>5 DEF Report, Advance
  <2> QED
    BY <1>1, <1>5, <2>1, <2>2, LoopTypes DEF Report, Advance, durableVars
<1>6. CASE Fail(p)
  <2>1. LoopTypeOK'
    BY <1>6, LoopTypes DEF Fail, FailureTransition
  <2>2. Fault \/ NoFault
    BY <1>6 DEF Fail, FailureTransition
  <2> QED
    BY <1>1, <1>6, <2>1, <2>2, LoopTypes DEF Fail, FailureTransition, FailGate, durableVars
<1> QED
  BY <1>2, <1>3, <1>4, <1>5, <1>6 DEF AfterEntry

LEMMA TypePreserved == TypeOK /\ [Next]_vars => TypeOK'
<1>1. TypeOK /\ UNCHANGED vars => TypeOK'
  BY DEF TypeOK, vars, instanceVars, durableVars, exchangeVars, budgetVars
<1> QED
  BY <1>1, EnvironmentTypes, BeforeEntryTypes, EntryTypes, AfterEntryTypes
  DEF Next, ProcessOne

(* A legal transition of the worker's command is a call of transition().   *)
LEMMA TransitionCall ==
    ASSUME NEW c \in Command, NEW to \in WorkerTarget,
           Legal(c, to), ApplyTransition(c, to), UNCHANGED now
    PROVE  StoreTransition
<1>1. row[c].state # Absent
  BY AllowedTransitionsType DEF Legal, WorkerTarget, Absent, CommandState
<1> QED
  BY <1>1 DEF StoreTransition, Transition

(* Every step of the whole system does to the queue what one call of the   *)
(* repository may do, or nothing.                                          *)
LEMMA WorkerCalls == TypeOK /\ [Next]_vars => [StoreCall]_storeVars
<1> SUFFICES ASSUME TypeOK, [Next]_vars PROVE [StoreCall]_storeVars
  OBVIOUS
<1>1. CASE Tick
  BY <1>1 DEF Tick, StoreCall, StoreTick
<1>2. CASE Enqueue
  BY <1>2 DEF Enqueue, StoreCall
<1>3. ASSUME NEW p \in Instance, Claim(p) PROVE [StoreCall]_storeVars
  <2>1. LockedByOthers(p) \subseteq Command
    BY DEF LockedByOthers, TypeOK
  <2>2. CASE \E skipped \in SUBSET LockedByOthers(p) :
               (\E c \in Command : ClaimNext(skipped, c)) \/ ClaimNone(skipped)
    BY <2>1, <2>2 DEF StoreCall, StoreClaim
  <2>3. CASE UNCHANGED storeVars
    BY <2>3
  <2> QED
    BY <1>3, <2>2, <2>3 DEF Claim
<1>4. ASSUME NEW p \in Instance, Reject(p) \/ Requeue(p) PROVE [StoreCall]_storeVars
  <2>1. cur[p] \in Command
    BY <1>4, WorkInHand DEF Reject, Requeue, At
  <2> QED
    BY <1>4, <2>1, TransitionCall
    DEF Reject, Requeue, PlainTransition, WorkerTarget, StoreCall, storeVars
<1>5. ASSUME NEW p \in Instance, Submit(p) PROVE [StoreCall]_storeVars
  <2>1. cur[p] \in Command
    BY <1>5, WorkInHand DEF Submit, At
  <2> QED
    BY <1>5, <2>1, TransitionCall DEF Submit, WorkerTarget, StoreCall, storeVars
<1>6. ASSUME NEW p \in Instance, Report(p) \/ Fail(p) PROVE [StoreCall]_storeVars
  <2>1. cur[p] \in Command
    BY <1>6, WorkInHand DEF Report, Fail, Advance, FailureTransition, At
  <2> QED
    BY <1>6, <2>1, TransitionCall
    DEF Report, Fail, Advance, FailureTransition, WorkerTarget, StoreCall, storeVars
<1>7. ASSUME NEW p \in Instance,
             \/ Start(p) \/ Crash(p) \/ LoseLease(p) \/ ValidateLeader(p)
             \/ Reconcile(p) \/ ReconcileUnavailable(p)
             \/ Revalidate(p) \/ CheckLease(p)
      PROVE  UNCHANGED storeVars
  BY <1>7 DEF Start, Crash, LoseLease, ValidateLeader, Reconcile, ReconcileUnavailable,
              Revalidate, CheckLease
<1>8. ASSUME NEW p \in Instance,
             Prepare(p) \/ Check(p) \/ Entry(p) \/ Persist(p) \/ ProtectIntent(p)
             \/ ValidateTrade(p)
      PROVE  UNCHANGED storeVars
  BY <1>8 DEF Prepare, Check, Entry, QueryEntry, PlaceEntry, RequeryEntry, PlaceStop,
              PlaceTake, CancelStop, EmergencyClose, Persist, ProtectIntent,
              ValidateTrade, UseEntry, ActivationStep
<1>9. ASSUME NEW s \in Signal, Land(s) PROVE UNCHANGED storeVars
  BY <1>9 DEF Land
<1>10. CASE UNCHANGED vars
  BY <1>10 DEF vars
<1> QED
  BY <1>1, <1>2, <1>3, <1>4, <1>5, <1>6, <1>7, <1>8, <1>9, <1>10
  DEF Next, ProcessOne, BeforeEntry, AfterEntry

-----------------------------------------------------------------------------
(* What a step may not undo, and who moves a worker into the activation.   *)

(* An intent is never forgotten.                                           *)
LEMMA IntentStays ==
    ASSUME TypeOK, [Next]_vars, NEW s \in Signal, intent[s] # "NONE"
    PROVE  intent'[s] # "NONE"
<1>1. ASSUME NEW p \in Instance, Prepare(p) \/ Persist(p) \/ ProtectIntent(p)
      PROVE  intent'[s] # "NONE"
  BY <1>1 DEF Prepare, Persist, ProtectIntent, TypeOK
<1>2. CASE UNCHANGED intent
  BY <1>2
<1>3. ASSUME NEW p \in Instance, BeforeEntry(p), ~Prepare(p)
      PROVE  UNCHANGED intent
  BY <1>3 DEF BeforeEntry, Claim, Revalidate, Reject, Requeue, PlainTransition, CheckLease,
              Submit, Check, durableVars
<1>4. ASSUME NEW p \in Instance, Entry(p) PROVE UNCHANGED intent
  BY <1>4 DEF Entry, QueryEntry, PlaceEntry, RequeryEntry, PlaceStop, PlaceTake,
              CancelStop, EmergencyClose, durableVars
<1>5. ASSUME NEW p \in Instance, ValidateTrade(p) \/ Report(p) \/ Fail(p)
      PROVE  UNCHANGED intent
  BY <1>5 DEF ValidateTrade, Report, Advance, Fail, FailureTransition, durableVars
<1>6. CASE \/ Tick \/ Enqueue \/ \E t \in Signal : Land(t)
           \/ \E p \in Instance : \/ Start(p) \/ Crash(p) \/ LoseLease(p)
                                  \/ ValidateLeader(p) \/ Reconcile(p)
                                  \/ ReconcileUnavailable(p)
  BY <1>2, <1>6 DEF Tick, Enqueue, Land, Start, Crash, LoseLease, ValidateLeader, Reconcile,
                    ReconcileUnavailable, durableVars
<1>7. CASE UNCHANGED vars
  BY <1>7 DEF vars, durableVars
<1> QED
  BY <1>1, <1>2, <1>3, <1>4, <1>5, <1>6, <1>7 DEF Next, ProcessOne, AfterEntry

(* A record of SUBMITTING stays in the history.                            *)
LEMMA SubmittedStays ==
    ASSUME StoreTypeOK, AuditTrailIsLegalPath, [StoreCall]_storeVars,
           NEW c \in Command, Submitted(c)
    PROVE  Submitted(c)'
<1>1. PICK i \in DOMAIN history[c] : history[c][i][2] = "SUBMITTING"
  BY DEF Submitted
<1>2. history[c] \in Seq(HistoryRecord) /\ history'[c] \in Seq(HistoryRecord)
  BY TypeStep DEF StoreTypeOK
<1>3. /\ Len(history'[c]) >= Len(history[c])
      /\ \A j \in 1 .. Len(history[c]) : history'[c][j] = history[c][j]
  BY TrailStep
<1>4. i \in 1 .. Len(history[c]) /\ i \in 1 .. Len(history'[c])
  BY <1>1, <1>2, <1>3
<1>5. i \in DOMAIN history'[c] /\ history'[c][i][2] = "SUBMITTING"
  BY <1>1, <1>2, <1>3, <1>4
<1> QED
  BY <1>5 DEF Submitted

(* The transition to SUBMITTING leaves a record, also when the row already *)
(* shows that state and nothing is written.                                *)
LEMMA SubmitRecords ==
    ASSUME StoreTypeOK, AuditTrailIsLegalPath, [StoreCall]_storeVars,
           NEW c \in Command, ApplyTransition(c, "SUBMITTING")
    PROVE  Submitted(c)'
<1>1. StoreTypeOK' /\ AuditTrailIsLegalPath'
  BY TypeStep, AuditTrailStep
<1>2. row'[c].state = "SUBMITTING"
  BY DEF ApplyTransition, StoreTypeOK, Row
<1>3. /\ Len(history'[c]) \in Nat /\ Len(history'[c]) >= 1
      /\ DOMAIN history'[c] = 1 .. Len(history'[c])
  BY <1>1, <1>2 DEF AuditTrailIsLegalPath, StoreTypeOK, Absent
<1>4. history'[c][Len(history'[c])][2] = "SUBMITTING"
  BY <1>1, <1>2 DEF AuditTrailIsLegalPath, Absent
<1> QED
  BY <1>3, <1>4 DEF Submitted

Exposed == Activation \ {"prepare", "block", "recover"}

(* An instance enters the activation only through Submit, and the calls to *)
(* the exchange only through Prepare; it keeps its command meanwhile.      *)
LEMMA Flow ==
    ASSUME TypeOK, [Next]_vars, NEW q \in Instance, pc'[q] \in Activation
    PROVE  /\ cur'[q] = cur[q]
           /\ \/ pc[q] \in Activation
              \/ Submit(q) /\ ApplyTransition(cur[q], "SUBMITTING") /\ pc'[q] = "prepare"
           /\ pc'[q] \in Exposed =>
                pc[q] \in Exposed \/ intent'[Sig(q)] # "NONE"
<1> DEFINE Goal ==
             /\ cur'[q] = cur[q]
             /\ \/ pc[q] \in Activation
                \/ Submit(q) /\ ApplyTransition(cur[q], "SUBMITTING") /\ pc'[q] = "prepare"
             /\ pc'[q] \in Exposed =>
                  pc[q] \in Exposed \/ intent'[Sig(q)] # "NONE"
<1>1. CASE pc'[q] = pc[q] /\ cur'[q] = cur[q]
  BY <1>1
<1>2. CASE Tick
  BY <1>2 DEF Tick, Activation, TypeOK
<1>3. CASE Enqueue \/ (\E s \in Signal : Land(s)) \/ UNCHANGED vars
  BY <1>1, <1>3 DEF Enqueue, Land, vars, instanceVars
<1>4. ASSUME NEW p \in Instance,
             \/ Start(p) \/ Crash(p) \/ LoseLease(p) \/ ValidateLeader(p)
             \/ Reconcile(p) \/ ReconcileUnavailable(p)
      PROVE  Goal
  <2>1. CASE p = q /\ (Start(p) \/ Crash(p))
    BY <2>1 DEF Start, Crash, Goto, TypeOK, Activation
  <2>2. CASE ~(p = q /\ (Start(p) \/ Crash(p)))
    BY <1>1, <1>4, <2>2 DEF Start, Crash, Goto, TypeOK, LoseLease, ValidateLeader,
                            Reconcile, ReconcileUnavailable
  <2> QED
    BY <2>1, <2>2
<1>5. ASSUME NEW p \in Instance, ProcessOne(p), p # q PROVE Goal
  <2>1. (\E s : Goto(p, s)) /\ (cur' = cur \/ \E c : cur' = [cur EXCEPT ![p] = c])
    <3>1. CASE BeforeEntry(p)
      BY <3>1 DEF BeforeEntry, Claim, Revalidate, Reject, Requeue, PlainTransition,
                  CheckLease, Submit, Prepare, Check, ActivationStep, EndCycle
    <3>2. CASE Entry(p)
      BY <3>2 DEF Entry, QueryEntry, PlaceEntry, RequeryEntry, PlaceStop, PlaceTake,
                  CancelStop, EmergencyClose, UseEntry, ActivationStep
    <3>3. CASE AfterEntry(p)
      BY <3>3 DEF AfterEntry, Persist, ProtectIntent, ValidateTrade, Report, Advance, Fail,
                  FailureTransition, ActivationStep, EndCycle
    <3> QED
      BY <1>5, <3>1, <3>2, <3>3 DEF ProcessOne
  <2> QED
    BY <1>1, <1>5, <2>1 DEF Goto, TypeOK
<1>6. ASSUME BeforeEntry(q) PROVE Goal
  <2>1. CASE Claim(q) \/ Revalidate(q) \/ Reject(q) \/ Requeue(q) \/ CheckLease(q)
    BY <2>1 DEF Claim, Revalidate, Reject, Requeue, PlainTransition, CheckLease, EndCycle,
                Goto, TypeOK, Activation
  <2>2. CASE Submit(q)
    BY <2>2 DEF Submit, EndCycle, Goto, TypeOK, Activation, Exposed
  <2>3. CASE Prepare(q)
    <3>1. Sig(q) \in Signal /\ pc[q] \in Activation
      BY <2>3, WorkInHand DEF Prepare, At, Activation
    <3>2. cur' = cur
      BY <2>3 DEF Prepare, ActivationStep
    <3>3. pc'[q] = "recover" \/ intent'[Sig(q)] # "NONE"
      BY <2>3, <3>1 DEF Prepare, ActivationStep, Goto, TypeOK
    <3> QED
      BY <3>1, <3>2, <3>3 DEF Exposed
  <2>4. CASE Check(q)
    BY <2>4 DEF Check, ActivationStep, At, Activation, Exposed
  <2> QED
    BY <1>6, <2>1, <2>2, <2>3, <2>4 DEF BeforeEntry
<1>7. ASSUME Entry(q) PROVE Goal
  BY <1>7 DEF Entry, QueryEntry, PlaceEntry, RequeryEntry, PlaceStop, PlaceTake,
              CancelStop, EmergencyClose, UseEntry, ActivationStep, At, Activation, Exposed
<1>8. ASSUME AfterEntry(q) PROVE Goal
  <2>1. CASE Persist(q) \/ ProtectIntent(q) \/ ValidateTrade(q)
    BY <2>1 DEF Persist, ProtectIntent, ValidateTrade, ActivationStep, At, Activation,
                Exposed
  <2>2. CASE Report(q)
    BY <2>2 DEF Report, Advance, EndCycle, Goto, At, Activation, Exposed, TypeOK
  <2>3. CASE Fail(q)
    BY <2>3 DEF Fail, FailureTransition, EndCycle, Goto, Activation, TypeOK
  <2> QED
    BY <1>8, <2>1, <2>2, <2>3 DEF AfterEntry
<1> QED
  BY <1>2, <1>3, <1>4, <1>5, <1>6, <1>7, <1>8 DEF Next, ProcessOne

LEMMA WorkRecordedStep ==
    IInv /\ [Next]_vars => WorkIsRecorded'
<1> SUFFICES ASSUME IInv, [Next]_vars, NEW q \in Instance, pc'[q] \in Activation
             PROVE  /\ Submitted(cur[q])'
                    /\ pc'[q] \in Exposed => Sig(q)' = Sig(q) /\ intent'[Sig(q)] # "NONE"
  BY DEF WorkIsRecorded, Exposed, Sig
<1> USE DEF IInv
<1>1. /\ [StoreCall]_storeVars
      /\ cur'[q] = cur[q]
      /\ \/ pc[q] \in Activation
         \/ Submit(q) /\ ApplyTransition(cur[q], "SUBMITTING") /\ pc'[q] = "prepare"
      /\ pc'[q] \in Exposed =>
           pc[q] \in Exposed \/ intent'[Sig(q)] # "NONE"
  BY WorkerCalls, Flow
<1>2. cur[q] \in Command /\ Sig(q) \in Signal
  BY <1>1, WorkInHand DEF Submit, At, Activation
<1>3. PICK c \in Command : c = cur[q]
  BY <1>2
<1>4. Submitted(c)'
  <2>1. CASE pc[q] \in Activation
    <3>1. Submitted(c)
      BY <1>3, <2>1 DEF WorkIsRecorded
    <3> QED
      BY <1>1, <3>1, SubmittedStays
  <2>2. CASE ApplyTransition(cur[q], "SUBMITTING")
    BY <1>1, <1>3, <2>2, SubmitRecords
  <2> QED
    BY <1>1, <2>1, <2>2
<1>5. pc'[q] \in Exposed => intent'[Sig(q)] # "NONE"
  <2>1. pc[q] \in Exposed => intent[Sig(q)] # "NONE"
    BY DEF WorkIsRecorded, Exposed
  <2> QED
    BY <1>1, <1>2, <2>1, IntentStays
<1> QED
  BY <1>1, <1>3, <1>4, <1>5 DEF Submitted, Sig

(* Only PlaceEntry sends an entry order.                                   *)
LEMMA SentByPlaceEntry ==
    ASSUME TypeOK, [Next]_vars, NEW s \in Signal, entries'[s] + inflight'[s] > 0
    PROVE  \/ entries[s] + inflight[s] > 0
           \/ \E p \in Instance : pc[p] = "place" /\ Sig(p) = s
<1> DEFINE Goal == \/ entries[s] + inflight[s] > 0
                   \/ \E p \in Instance : pc[p] = "place" /\ Sig(p) = s
<1>1. CASE UNCHANGED <<entries, inflight>>
  BY <1>1
<1>2. ASSUME NEW t \in Signal, Land(t) PROVE Goal
  <2>1. CASE t = s
    <3>1. inflight[s] > 0 /\ inflight[s] \in Nat /\ entries[s] \in Nat
      BY <1>2, <2>1 DEF Land, TypeOK
    <3> QED
      BY <3>1
  <2>2. CASE t # s
    <3>1. entries'[s] = entries[s] /\ inflight'[s] = inflight[s]
      BY <1>2, <2>2 DEF Land, Execute, TypeOK
    <3> QED
      BY <3>1
  <2> QED
    BY <2>1, <2>2
<1>3. ASSUME NEW p \in Instance, PlaceEntry(p) PROVE Goal
  <2>1. CASE Sig(p) = s
    BY <1>3, <2>1 DEF PlaceEntry, At
  <2>2. CASE Sig(p) # s
    <3>1. entries'[s] = entries[s] /\ inflight'[s] = inflight[s]
      BY <1>3, <2>2 DEF PlaceEntry, Execute, TypeOK
    <3> QED
      BY <3>1
  <2> QED
    BY <2>1, <2>2
<1>4. ASSUME NEW p \in Instance, Entry(p), ~PlaceEntry(p)
      PROVE  UNCHANGED <<entries, inflight>>
  BY <1>4 DEF Entry, QueryEntry, RequeryEntry, PlaceStop, PlaceTake, CancelStop,
              EmergencyClose, exchangeVars
<1>5. ASSUME NEW p \in Instance, BeforeEntry(p) \/ AfterEntry(p)
      PROVE  UNCHANGED <<entries, inflight>>
  BY <1>5 DEF BeforeEntry, Claim, Revalidate, Reject, Requeue, PlainTransition, CheckLease,
              Submit, Prepare, Check, AfterEntry, Persist, ProtectIntent, ValidateTrade,
              Report, Advance, Fail, FailureTransition, exchangeVars
<1>6. CASE \/ Tick \/ Enqueue \/ UNCHANGED vars
           \/ \E p \in Instance : \/ Start(p) \/ Crash(p) \/ LoseLease(p)
                                  \/ ValidateLeader(p) \/ Reconcile(p)
                                  \/ ReconcileUnavailable(p)
  BY <1>1, <1>6 DEF Tick, Enqueue, vars, Start, Crash, LoseLease, ValidateLeader, Reconcile,
                    ReconcileUnavailable, exchangeVars
<1> QED
  BY <1>1, <1>2, <1>3, <1>4, <1>5, <1>6 DEF Next, ProcessOne

LEMMA EntryRecordedStep ==
    IInv /\ [Next]_vars => EntryIsRecorded'
<1> SUFFICES ASSUME IInv, [Next]_vars, NEW s \in Signal, entries'[s] + inflight'[s] > 0
             PROVE  /\ intent'[s] # "NONE"
                    /\ \E c \in Command : SignalOf[c] = s /\ Submitted(c)'
  BY DEF EntryIsRecorded, Submitted
<1> USE DEF IInv
<1>1. intent[s] # "NONE" /\ \E c \in Command : SignalOf[c] = s /\ Submitted(c)
  <2>1. CASE entries[s] + inflight[s] > 0
    BY <2>1 DEF EntryIsRecorded, Submitted
  <2>2. ASSUME NEW p \in Instance, pc[p] = "place", Sig(p) = s
        PROVE  intent[s] # "NONE" /\ \E c \in Command : SignalOf[c] = s /\ Submitted(c)
    <3>1. cur[p] \in Command
      BY <2>2, WorkInHand
    <3>2. PICK c \in Command : c = cur[p]
      BY <3>1
    <3>3. Submitted(c) /\ intent[s] # "NONE" /\ SignalOf[c] = s
      BY <2>2, <3>2 DEF WorkIsRecorded, Activation, Sig
    <3> QED
      BY <3>3
  <2> QED
    BY <2>1, <2>2, SentByPlaceEntry
<1>2. intent'[s] # "NONE"
  BY <1>1, IntentStays
<1>3. \E c \in Command : SignalOf[c] = s /\ Submitted(c)'
  BY <1>1, SubmittedStays, WorkerCalls
<1> QED
  BY <1>2, <1>3

LEMMA InitSound == Init => IInv
<1> SUFFICES ASSUME Init PROVE IInv
  OBVIOUS
<1>1. StoreTypeOK
  BY BoundsAssumption DEF Init, StoreInit, StoreTypeOK, NoRow, Row, Never
<1>2. AuditTrailIsLegalPath
  BY DEF Init, StoreInit, AuditTrailIsLegalPath, NoRow
<1>3. TypeOK
  BY WorkerAssumption DEF Init, TypeOK, Step, AlgoState
<1>4. WorkIsRecorded
  BY DEF Init, WorkIsRecorded, Activation
<1>5. EntryIsRecorded
  BY DEF Init, EntryIsRecorded
<1> QED
  BY <1>1, <1>2, <1>3, <1>4, <1>5 DEF IInv

LEMMA InvariantStep == IInv /\ [Next]_vars => IInv'
  BY TypePreserved, WorkerCalls, TypeStep, AuditTrailStep, WorkRecordedStep,
     EntryRecordedStep
  DEF IInv

(* The invariant of any number of instances holds.                         *)
THEOREM WorkerInvariant == Spec => []IInv
  BY InitSound, InvariantStep, PTL DEF Spec

(* Types of the whole system, for any number of instances.                 *)
THEOREM WorkerTypeCorrect == Spec => []TypeOK
  BY WorkerInvariant, PTL DEF IInv

(* Nothing reaches the exchange that the database does not know of: an     *)
(* entry order that was executed or is under way has a durable intent and  *)
(* a command whose history records SUBMITTING, whatever crashes, lost      *)
(* leases and other instances do.                                          *)
THEOREM EntriesAreRecorded == Spec => []EntryIsRecorded
  BY WorkerInvariant, PTL DEF IInv

(* The worker changes the queue only by the calls of the repository, so    *)
(* what is proved of these calls holds of the whole system.                *)
THEOREM WorkerCallsTheStore == Spec => StoreCalls
<1>1. Init => StoreInit
  BY DEF Init
<1>2. IInv /\ [Next]_vars => [StoreCall]_storeVars
  BY WorkerCalls DEF IInv
<1> QED
  BY <1>1, <1>2, WorkerInvariant, PTL DEF Spec, StoreCalls

(* With workers, crashes and expiry interleaved, the history of a command  *)
(* is a legal path, and a COMPLETED one walked every stage from one claim. *)
THEOREM WorkerTrailCorrect == Spec => [](AuditTrailIsLegalPath /\ CompletedWalkedEveryStage)
<1>1. IInv => AuditTrailIsLegalPath /\ CompletedWalkedEveryStage
  BY CompletedFromPath DEF IInv
<1> QED
  BY <1>1, WorkerInvariant, PTL

(* No worker revives a terminal command or rewrites a record of it.        *)
THEOREM WorkerTrailGrows == Spec => TrailOnlyGrows
<1>1. IInv /\ [Next]_vars
        => [\A c \in Command :
              /\ row[c].state \in Terminal => row'[c] = row[c]
              /\ Len(history'[c]) >= Len(history[c])
              /\ \A i \in 1 .. Len(history[c]) :
                    history'[c][i] = history[c][i]]_storeVars
  BY TrailStep, WorkerCalls DEF IInv
<1> QED
  BY <1>1, WorkerInvariant, PTL DEF Spec, TrailOnlyGrows

(* No worker claims a command at or after its expiry, and none takes over  *)
(* a claim that is not ClaimTimeout old, whatever happened to its owner.   *)
THEOREM WorkerClaimsExclusively == Spec => ClaimIsExclusive
<1>1. IInv /\ [Next]_vars
        => [\A c \in Command :
              (/\ row'[c].state = "CLAIMED"
               /\ row'[c].claimedAt # row[c].claimedAt)
              => /\ row[c].expiresAt > now
                 /\ row[c].state \in {"CLAIMED", "SUBMITTING"} =>
                       now - row[c].claimedAt >= ClaimTimeout]_storeVars
  BY ClaimStep, WorkerCalls DEF IInv
<1> QED
  BY <1>1, WorkerInvariant, PTL DEF Spec, ClaimIsExclusive

-----------------------------------------------------------------------------
(* A single instance.                                                      *)

(* A command is confirmed only by the worker's last steps.                 *)
LEMMA ConfirmedIsNew ==
    ASSUME StoreTypeOK, TypeOK, [Next]_vars, NEW c \in Command,
           row'[c].state \in Confirmed
    PROVE  \/ row[c].state \in Confirmed
           \/ \E p \in Instance : pc[p] \in Reporting /\ cur[p] = c
<1> DEFINE Goal == \/ row[c].state \in Confirmed
                   \/ \E p \in Instance : pc[p] \in Reporting /\ cur[p] = c
<1>1. CASE UNCHANGED row
  BY <1>1
<1>2. ASSUME NEW d \in Command, NEW to \in WorkerTarget, ApplyTransition(d, to),
             to \notin Confirmed \/ \E p \in Instance : pc[p] \in Reporting /\ cur[p] = d
      PROVE  Goal
  <2>1. row'[c].state = row[c].state \/ (d = c /\ row'[c].state = to)
    BY <1>2 DEF ApplyTransition, StoreTypeOK, Row
  <2> QED
    BY <1>2, <2>1
<1>3. CASE Enqueue
  <2>1. PICK d \in Command, lifetime \in 1 .. MaxLifetime : Create(d, lifetime)
    BY <1>3 DEF Enqueue, StoreCreate
  <2>2. \/ row'[c] = row[c]
        \/ row'[c] = [state |-> "PENDING", createdAt |-> now,
                      expiresAt |-> now + lifetime, claimedAt |-> Never]
    BY <2>1 DEF Create, StoreTypeOK
  <2> QED
    BY <2>2 DEF Confirmed
<1>4. ASSUME NEW p \in Instance, Claim(p) PROVE Goal
  <2>1. ASSUME NEW skipped, NEW claimed, ClaimTransaction(skipped, claimed)
        PROVE  row'[c].state \in {row[c].state, "EXPIRED", "CLAIMED"}
    BY <2>1 DEF ClaimTransaction, ClaimedRow, StoreTypeOK, Row
  <2>2. row'[c].state \in {row[c].state, "EXPIRED", "CLAIMED"}
    BY <1>4, <2>1 DEF Claim, ClaimNext, ClaimNone, storeVars
  <2> QED
    BY <2>2 DEF Confirmed
<1>5. ASSUME NEW p \in Instance, Reject(p) \/ Requeue(p) \/ Submit(p) PROVE Goal
  <2>1. cur[p] \in Command
    BY <1>5, WorkInHand DEF Reject, Requeue, Submit, At
  <2> QED
    BY <1>1, <1>2, <1>5, <2>1 DEF Reject, Requeue, PlainTransition, Submit, WorkerTarget,
                                  Confirmed
<1>6. ASSUME NEW p \in Instance, Report(p) \/ Fail(p) PROVE Goal
  <2>1. cur[p] \in Command
    BY <1>6, WorkInHand DEF Report, Fail, Advance, FailureTransition, At
  <2> QED
    BY <1>1, <1>2, <1>6, <2>1
    DEF Report, Fail, Advance, FailureTransition, At, WorkerTarget, Reporting, Confirmed
<1>7. ASSUME NEW p \in Instance,
             \/ Start(p) \/ Crash(p) \/ LoseLease(p) \/ ValidateLeader(p)
             \/ Reconcile(p) \/ ReconcileUnavailable(p)
             \/ Revalidate(p) \/ CheckLease(p)
      PROVE  UNCHANGED row
  BY <1>7 DEF Start, Crash, LoseLease, ValidateLeader, Reconcile, ReconcileUnavailable,
              Revalidate, CheckLease, storeVars
<1>8. ASSUME NEW p \in Instance,
             Prepare(p) \/ Check(p) \/ Entry(p) \/ Persist(p) \/ ProtectIntent(p)
             \/ ValidateTrade(p)
      PROVE  UNCHANGED row
  BY <1>8 DEF Prepare, Check, Entry, QueryEntry, PlaceEntry, RequeryEntry, PlaceStop,
              PlaceTake, CancelStop, EmergencyClose, Persist, ProtectIntent,
              ValidateTrade, UseEntry, ActivationStep, storeVars
<1>9. CASE Tick \/ (\E s \in Signal : Land(s)) \/ UNCHANGED vars
  BY <1>1, <1>9 DEF Tick, Land, vars, storeVars
<1> QED
  BY <1>1, <1>3, <1>4, <1>5, <1>6, <1>7, <1>8, <1>9
  DEF Next, ProcessOne, BeforeEntry, AfterEntry

(* The conjuncts of AloneInv but for the confirmed commands, about one     *)
(* signal and the only instance.                                           *)
SignalSound(p, s) ==
    /\ entries[s] + inflight[s] <= 1
    /\ entry[s] = "NONE" => entries[s] = 0
    /\ entry[s] = "FILLED" => entries[s] = 1
    /\ inflight[s] > 0 =>
         /\ entry[s] = "NONE"
         /\ \/ pc[p] \in {"recover", "idle", "down"}
            \/ pc[p] = "requery" /\ Sig(p) = s
    /\ saved[s] \/ intent[s] \in {"RECOVERY_REQUIRED", "PROTECTED"} => Protected(s)
    /\ intent[s] = "PROTECTED" => saved[s]
    /\ saved[s] => pc[p] = "down" \/ s \in tracked[p]

StepSound(p) ==
    /\ pc[p] = "place" => entry[Sig(p)] = "NONE"
    /\ pc[p] \in {"check"} \cup Entering => intent[Sig(p)] = "PENDING"
    /\ pc[p] \in Entering => ~saved[Sig(p)]
    /\ pc[p] \in {"stop", "take"} => entry[Sig(p)] = "FILLED"
    /\ pc[p] = "take" => stop[Sig(p)] = "OPEN"
    /\ pc[p] = "persist" => Protected(Sig(p))
    /\ pc[p] \in {"protect", "validate"} \cup Reporting => saved[Sig(p)]

OneSound(p) == StepSound(p) /\ \A s \in Signal : SignalSound(p, s)

LEMMA SoundStart ==
    ASSUME TypeOK, NEW p \in Instance, OneSound(p),
           \/ Tick \/ Enqueue \/ \E s \in Signal : Land(s)
           \/ Start(p) \/ Crash(p) \/ LoseLease(p) \/ ValidateLeader(p)
           \/ Reconcile(p) \/ ReconcileUnavailable(p)
    PROVE  OneSound(p)'
<1> USE DEF OneSound
<1>1. CASE \/ Enqueue \/ LoseLease(p) \/ ValidateLeader(p) \/ Reconcile(p)
           \/ ReconcileUnavailable(p)
  BY <1>1 DEF Enqueue, LoseLease, ValidateLeader, Reconcile, ReconcileUnavailable,
              StepSound, SignalSound, Sig, Protected, instanceVars, durableVars,
              exchangeVars
<1>2. CASE Tick
  <2>1. pc'[p] = pc[p] \/ (pc[p] = "idle" /\ pc'[p] = "claim")
    BY <1>2 DEF Tick, At, TypeOK
  <2>2. UNCHANGED <<cur, tracked, intent, saved, entry, entries, position, stop, take,
                    inflight>>
    BY <1>2 DEF Tick, durableVars, exchangeVars
  <2>3. \A s \in Signal : inflight[s] = 0
    BY <1>2 DEF Tick
  <2>4. StepSound(p)'
    BY <2>1, <2>2 DEF StepSound, Sig, Protected, Entering, Reporting
  <2>5. ASSUME NEW s \in Signal PROVE SignalSound(p, s)'
    BY <2>1, <2>2, <2>3 DEF SignalSound, Protected
  <2> QED
    BY <2>4, <2>5
<1>3. CASE Start(p) \/ Crash(p)
  <2>1. pc'[p] \in {"claim", "idle", "down"}
    BY <1>3 DEF Start, Crash, Goto, TypeOK
  <2>2. UNCHANGED <<intent, saved, entry, entries, position, stop, take, inflight>>
    BY <1>3 DEF Start, Crash, durableVars, exchangeVars
  <2>3. \/ pc'[p] = "down"
        \/ (\A s \in Signal : inflight[s] = 0) /\ tracked'[p] = SavedTrades
    BY <1>3 DEF Start, Crash, Goto, TypeOK
  <2>4. StepSound(p)'
    BY <2>1 DEF StepSound, Entering, Reporting
  <2>5. ASSUME NEW s \in Signal PROVE SignalSound(p, s)'
    BY <2>1, <2>2, <2>3 DEF SignalSound, Protected, SavedTrades
  <2> QED
    BY <2>4, <2>5
<1>4. ASSUME NEW t \in Signal, Land(t) PROVE OneSound(p)'
  <2>1. UNCHANGED <<pc, cur, tracked, intent, saved, stop, take>>
    BY <1>4 DEF Land, instanceVars, durableVars
  <2>2. /\ inflight[t] = 1 /\ entries[t] = 0 /\ entry[t] = "NONE"
        /\ \/ pc[p] \in {"recover", "idle", "down"}
           \/ pc[p] = "requery" /\ Sig(p) = t
    BY <1>4 DEF Land, SignalSound, TypeOK
  <2>3. /\ inflight'[t] = 0 /\ entries'[t] \in {0, 1}
        /\ entry'[t] = "NONE" => entries'[t] = 0
        /\ entry'[t] = "FILLED" => entries'[t] = 1
    BY <1>4, <2>2 DEF Land, Execute, TypeOK
  <2>4. \A s \in Signal \ {t} :
          entry'[s] = entry[s] /\ entries'[s] = entries[s] /\ inflight'[s] = inflight[s]
    BY <1>4 DEF Land, Execute, TypeOK
  <2>5. StepSound(p)'
    BY <2>1, <2>2 DEF StepSound, Sig, Entering
  <2>6. ASSUME NEW s \in Signal PROVE SignalSound(p, s)'
    <3>1. CASE s = t
      BY <2>1, <2>2, <2>3, <3>1 DEF SignalSound, Protected
    <3>2. CASE s # t
      BY <2>1, <2>4, <3>2 DEF SignalSound, Protected, Sig
    <3> QED
      BY <3>1, <3>2
  <2> QED
    BY <2>5, <2>6
<1> QED
  BY <1>1, <1>2, <1>3, <1>4

(* A step that leaves the exchange, the durable trades and the tracked     *)
(* trades alone and moves to a step that promises nothing.                 *)
LEMMA SoundQuiet ==
    ASSUME TypeOK, NEW p \in Instance, OneSound(p),
           UNCHANGED <<tracked, intent, saved, entry, entries, stop, take, inflight>>,
           pc[p] \notin {"down", "idle"},
           pc'[p] \in {"idle", "claim", "revalidate", "reject", "lease", "requeue",
                       "submit", "prepare", "block", "recover"},
           pc'[p] \in {"recover", "idle"} \/ pc[p] \notin {"recover", "requery"}
    PROVE  OneSound(p)'
<1>1. StepSound(p)'
  BY DEF StepSound, Entering, Reporting
<1>2. ASSUME NEW s \in Signal PROVE SignalSound(p, s)'
  BY DEF OneSound, SignalSound, Protected
<1> QED
  BY <1>1, <1>2 DEF OneSound

LEMMA SoundBeforeEntry ==
    ASSUME TypeOK, NEW p \in Instance, OneSound(p), BeforeEntry(p)
    PROVE  OneSound(p)'
<1>1. CASE \/ Claim(p) \/ Revalidate(p) \/ Reject(p) \/ Requeue(p) \/ CheckLease(p)
           \/ Submit(p)
  <2>1. UNCHANGED <<tracked, intent, saved, entry, entries, stop, take, inflight>>
    BY <1>1 DEF Claim, Revalidate, Reject, Requeue, PlainTransition, CheckLease, Submit,
                durableVars, exchangeVars
  <2>2. pc[p] \notin {"down", "idle", "recover", "requery"}
    BY <1>1 DEF Claim, Revalidate, Reject, Requeue, CheckLease, Submit, At
  <2>3. pc'[p] \in {"idle", "revalidate", "reject", "lease", "requeue", "submit", "prepare"}
    BY <1>1 DEF Claim, Revalidate, Reject, Requeue, PlainTransition, CheckLease, Submit,
                EndCycle, Goto, TypeOK
  <2> QED
    BY <2>1, <2>2, <2>3, SoundQuiet
<1>2. CASE Prepare(p)
  <2>1. pc[p] = "prepare" /\ Sig(p) \in Signal
    BY <1>2, WorkInHand DEF Prepare, At
  <2>2. UNCHANGED <<cur, saved, tracked, entry, entries, stop, take, inflight>>
    BY <1>2 DEF Prepare, ActivationStep, exchangeVars
  <2>3. \/ /\ intent[Sig(p)] \in {"NONE", "PENDING"} /\ pc'[p] = "check"
           /\ intent' = [intent EXCEPT ![Sig(p)] = "PENDING"]
        \/ /\ intent[Sig(p)] = "PROTECTED" /\ UNCHANGED intent
           /\ pc'[p] = IF Sig(p) \in tracked[p] THEN "validate" ELSE "check"
        \/ /\ intent[Sig(p)] = "RECOVERY_REQUIRED" /\ UNCHANGED intent
           /\ pc'[p] = "persist"
        \/ pc'[p] = "recover" /\ UNCHANGED intent
    BY <1>2 DEF Prepare, ActivationStep, Goto, TypeOK
  <2>4. SignalSound(p, Sig(p))
    BY <2>1 DEF OneSound
  <2>5. StepSound(p)'
    BY <2>1, <2>2, <2>3, <2>4
    DEF StepSound, SignalSound, Protected, Entering, Reporting, Sig, TypeOK
  <2>6. ASSUME NEW s \in Signal PROVE SignalSound(p, s)'
    <3>1. SignalSound(p, s)
      BY DEF OneSound
    <3>2. inflight[s] = 0
      BY <2>1, <3>1 DEF SignalSound, TypeOK
    <3> QED
      BY <2>1, <2>2, <2>3, <3>1, <3>2 DEF SignalSound, Protected, TypeOK
  <2> QED
    BY <2>5, <2>6 DEF OneSound
<1>3. CASE Check(p)
  <2>1. pc[p] = "check" /\ Sig(p) \in Signal
    BY <1>3, WorkInHand DEF Check, At
  <2>2. UNCHANGED <<cur, tracked, intent, saved, entry, entries, stop, take, inflight>>
    BY <1>3 DEF Check, ActivationStep, durableVars, exchangeVars
  <2>3. \/ pc'[p] \in {"block", "recover"}
        \/ pc'[p] = "query" /\ Sig(p) \notin tracked[p]
    BY <1>3 DEF Check, ActivationStep, Goto, TypeOK
  <2>4. SignalSound(p, Sig(p)) /\ StepSound(p)
    BY <2>1 DEF OneSound
  <2>5. StepSound(p)'
    BY <2>1, <2>2, <2>3, <2>4 DEF StepSound, SignalSound, Entering, Reporting, Sig
  <2>6. ASSUME NEW s \in Signal PROVE SignalSound(p, s)'
    BY <2>1, <2>2, <2>3 DEF OneSound, SignalSound, Protected
  <2> QED
    BY <2>5, <2>6 DEF OneSound
<1> QED
  BY <1>1, <1>2, <1>3 DEF BeforeEntry

LEMMA SoundQuery ==
    ASSUME TypeOK, NEW p \in Instance, OneSound(p),
           QueryEntry(p) \/ RequeryEntry(p)
    PROVE  OneSound(p)'
<1>1. pc[p] \in {"query", "requery"} /\ Sig(p) \in Signal
  BY WorkInHand DEF QueryEntry, RequeryEntry, At
<1>2. UNCHANGED <<cur, tracked, intent, saved, entry, entries, stop, take, inflight>>
  BY DEF QueryEntry, RequeryEntry, UseEntry, ActivationStep, durableVars, exchangeVars
<1>3. entry[Sig(p)] \in {"NONE", "FILLED", "PARTIAL", "UNFILLED"}
  BY <1>1 DEF TypeOK
<1>4. \/ pc'[p] = "recover"
      \/ pc[p] = "query" /\ pc'[p] = "place" /\ entry[Sig(p)] = "NONE"
      \/ pc'[p] = "stop" /\ entry[Sig(p)] = "FILLED"
      \/ pc'[p] = "close" /\ entry[Sig(p)] = "PARTIAL"
  BY <1>1, <1>3 DEF QueryEntry, RequeryEntry, UseEntry, ActivationStep, Goto, At, TypeOK
<1>5. SignalSound(p, Sig(p)) /\ StepSound(p)
  BY <1>1 DEF OneSound
<1>6. StepSound(p)'
  BY <1>1, <1>2, <1>4, <1>5 DEF StepSound, Entering, Reporting, Sig
<1>7. ASSUME NEW s \in Signal PROVE SignalSound(p, s)'
  BY <1>1, <1>2, <1>4 DEF OneSound, SignalSound, Protected
<1> QED
  BY <1>6, <1>7 DEF OneSound

LEMMA SoundPlaceEntry ==
    ASSUME TypeOK, NEW p \in Instance, OneSound(p), PlaceEntry(p)
    PROVE  OneSound(p)'
<1>1. pc[p] = "place" /\ Sig(p) \in Signal
  BY WorkInHand DEF PlaceEntry, At
<1>2. UNCHANGED <<cur, tracked, intent, saved, stop, take>>
  BY DEF PlaceEntry, UseEntry, ActivationStep, durableVars
<1>3. PICK t \in Signal : t = Sig(p)
  BY <1>1
<1>4. /\ entry[t] = "NONE" /\ entries[t] = 0 /\ intent[t] = "PENDING" /\ ~saved[t]
      /\ \A s \in Signal : inflight[s] = 0
  BY <1>1, <1>3 DEF OneSound, StepSound, SignalSound, Entering, TypeOK
<1>5. \A s \in Signal \ {t} :
        entry'[s] = entry[s] /\ entries'[s] = entries[s] /\ inflight'[s] = 0
  BY <1>3, <1>4 DEF PlaceEntry, Execute, TypeOK
<1>6. \/ /\ entry'[t] \in {"FILLED", "PARTIAL", "UNFILLED"}
         /\ entries'[t] \in {0, 1} /\ inflight'[t] = 0
         /\ entry'[t] = "FILLED" => entries'[t] = 1
         /\ \/ pc'[p] \in {"requery", "recover"}
            \/ pc'[p] = "stop" /\ entry'[t] = "FILLED"
            \/ pc'[p] = "close"
      \/ /\ entry'[t] = "NONE" /\ entries'[t] = 0 /\ inflight'[t] = 0
         /\ pc'[p] \in {"requery", "recover"}
      \/ /\ entry'[t] = "NONE" /\ entries'[t] = 0 /\ inflight'[t] = 1
         /\ pc'[p] = "requery"
  BY <1>3, <1>4 DEF PlaceEntry, Execute, UseEntry, ActivationStep, Lost, Goto, TypeOK
<1>7. StepSound(p)'
  BY <1>2, <1>3, <1>4, <1>6 DEF StepSound, Entering, Reporting, Sig
<1>8. ASSUME NEW s \in Signal PROVE SignalSound(p, s)'
  <2>1. SignalSound(p, s)
    BY DEF OneSound
  <2>2. CASE s = t
    BY <1>1, <1>2, <1>3, <1>4, <1>6, <2>1, <2>2 DEF SignalSound, Protected, Sig
  <2>3. CASE s # t
    BY <1>1, <1>2, <1>4, <1>5, <2>1, <2>3 DEF SignalSound, Protected
  <2> QED
    BY <2>2, <2>3
<1> QED
  BY <1>7, <1>8 DEF OneSound

(* The steps from a filled entry to its protection touch the orders of the *)
(* worker's own signal, which is pending and not saved.                    *)
LEMMA SoundProtecting ==
    ASSUME TypeOK, NEW p \in Instance, OneSound(p),
           PlaceStop(p) \/ PlaceTake(p) \/ CancelStop(p) \/ EmergencyClose(p)
    PROVE  OneSound(p)'
<1>1. pc[p] \in {"stop", "take", "cancel", "close"} /\ Sig(p) \in Signal
  BY WorkInHand DEF PlaceStop, PlaceTake, CancelStop, EmergencyClose, At
<1>2. UNCHANGED <<cur, intent, saved, entry, entries, inflight>>
  BY DEF PlaceStop, PlaceTake, CancelStop, EmergencyClose, ActivationStep, durableVars
<1>3. PICK t \in Signal : t = Sig(p)
  BY <1>1
<1>4. /\ intent[t] = "PENDING" /\ ~saved[t]
      /\ \A s \in Signal : inflight[s] = 0
      /\ pc[p] \in {"stop", "take"} => entry[t] = "FILLED"
      /\ pc[p] = "take" => stop[t] = "OPEN"
  BY <1>1, <1>3 DEF OneSound, StepSound, SignalSound, Entering, TypeOK
<1>5. /\ \A s \in Signal \ {t} : stop'[s] = stop[s] /\ take'[s] = take[s]
      /\ tracked[p] \subseteq tracked'[p]
  BY <1>3 DEF PlaceStop, PlaceTake, CancelStop, EmergencyClose, TypeOK
<1>6. \/ pc'[p] \in {"recover", "close", "cancel"}
      \/ pc[p] = "stop" /\ pc'[p] = "take" /\ stop'[t] = "OPEN"
      \/ pc[p] = "take" /\ pc'[p] = "persist" /\ take'[t] = "OPEN" /\ stop' = stop
  <2>1. CASE PlaceStop(p)
    BY <1>3, <2>1 DEF PlaceStop, ActivationStep, Lost, Goto, At, TypeOK
  <2>2. CASE PlaceTake(p)
    BY <1>3, <2>2 DEF PlaceTake, ActivationStep, Lost, Goto, At, TypeOK
  <2>3. CASE CancelStop(p)
    BY <2>3 DEF CancelStop, ActivationStep, Lost, Goto, TypeOK
  <2>4. CASE EmergencyClose(p)
    BY <2>4 DEF EmergencyClose, ActivationStep, Goto, TypeOK
  <2> QED
    BY <2>1, <2>2, <2>3, <2>4
<1>7. StepSound(p)'
  BY <1>2, <1>3, <1>4, <1>6 DEF StepSound, Entering, Reporting, Sig, Protected
<1>8. ASSUME NEW s \in Signal PROVE SignalSound(p, s)'
  <2>1. SignalSound(p, s)
    BY DEF OneSound
  <2>2. CASE s = t
    BY <1>1, <1>2, <1>4, <2>1, <2>2 DEF SignalSound
  <2>3. CASE s # t
    BY <1>1, <1>2, <1>4, <1>5, <2>1, <2>3 DEF SignalSound, Protected
  <2> QED
    BY <2>2, <2>3
<1> QED
  BY <1>7, <1>8 DEF OneSound

LEMMA SoundAfterEntry ==
    ASSUME TypeOK, NEW p \in Instance, OneSound(p), AfterEntry(p)
    PROVE  OneSound(p)'
<1>1. CASE Persist(p)
  <2>1. pc[p] = "persist" /\ Sig(p) \in Signal
    BY <1>1, WorkInHand DEF Persist, At
  <2>2. UNCHANGED <<cur, entry, entries, stop, take, inflight>>
    BY <1>1 DEF Persist, ActivationStep, exchangeVars
  <2>3. PICK t \in Signal : t = Sig(p)
    BY <2>1
  <2>4. Protected(t) /\ \A s \in Signal : inflight[s] = 0
    BY <2>1, <2>3 DEF OneSound, StepSound, SignalSound, TypeOK
  <2>5. \A s \in Signal \ {t} : saved'[s] = saved[s] /\ intent'[s] = intent[s]
    BY <1>1, <2>3 DEF Persist, TypeOK
  <2>6. tracked[p] \subseteq tracked'[p]
    BY <1>1 DEF Persist, TypeOK
  <2>7. \/ /\ saved'[t] /\ t \in tracked'[p] /\ pc'[p] = "protect"
           /\ intent' = intent
        \/ /\ saved' = saved /\ pc'[p] = "recover"
           /\ intent'[t] \in {intent[t], "RECOVERY_REQUIRED"}
    BY <1>1, <2>3 DEF Persist, ActivationStep, Goto, TypeOK
  <2>8. StepSound(p)'
    BY <2>2, <2>3, <2>7 DEF StepSound, Entering, Reporting, Sig
  <2>9. ASSUME NEW s \in Signal PROVE SignalSound(p, s)'
    <3>1. SignalSound(p, s)
      BY DEF OneSound
    <3>2. CASE s = t
      BY <2>1, <2>2, <2>4, <2>6, <2>7, <3>1, <3>2 DEF SignalSound, Protected
    <3>3. CASE s # t
      BY <2>1, <2>2, <2>4, <2>5, <2>6, <3>1, <3>3 DEF SignalSound, Protected
    <3> QED
      BY <3>2, <3>3
  <2> QED
    BY <2>8, <2>9 DEF OneSound
<1>2. CASE ProtectIntent(p)
  <2>1. pc[p] = "protect" /\ Sig(p) \in Signal
    BY <1>2, WorkInHand DEF ProtectIntent, At
  <2>2. UNCHANGED <<cur, saved, tracked, entry, entries, stop, take, inflight>>
    BY <1>2 DEF ProtectIntent, ActivationStep, exchangeVars
  <2>3. saved[Sig(p)] /\ \A s \in Signal : inflight[s] = 0
    BY <2>1 DEF OneSound, StepSound, SignalSound, TypeOK
  <2>4. /\ pc'[p] \in {"validate", "recover"}
        /\ intent' = intent \/ intent' = [intent EXCEPT ![Sig(p)] = "PROTECTED"]
    BY <1>2 DEF ProtectIntent, ActivationStep, Goto, TypeOK
  <2>5. StepSound(p)'
    BY <2>2, <2>3, <2>4 DEF StepSound, Entering, Reporting, Sig
  <2>6. ASSUME NEW s \in Signal PROVE SignalSound(p, s)'
    BY <2>1, <2>2, <2>3, <2>4 DEF OneSound, SignalSound, Protected, TypeOK
  <2> QED
    BY <2>5, <2>6 DEF OneSound
<1>3. CASE ValidateTrade(p) \/ Report(p)
  <2>1. pc[p] \in {"validate", "confirm", "verify", "secure", "complete"}
        /\ Sig(p) \in Signal
    BY <1>3, WorkInHand DEF ValidateTrade, Report, Advance, At
  <2>2. UNCHANGED <<saved, intent, tracked, entry, entries, stop, take, inflight>>
    BY <1>3 DEF ValidateTrade, Report, Advance, durableVars, exchangeVars
  <2>3. \/ pc'[p] \in {"confirm", "verify", "secure", "complete"} /\ cur'[p] = cur[p]
        \/ pc'[p] \in {"recover", "idle"}
    BY <1>3 DEF ValidateTrade, Report, Advance, ActivationStep, EndCycle, Goto, TypeOK
  <2>4. saved[Sig(p)] /\ \A s \in Signal : inflight[s] = 0
    BY <2>1 DEF OneSound, StepSound, SignalSound, Reporting, TypeOK
  <2>5. StepSound(p)'
    BY <2>2, <2>3, <2>4 DEF StepSound, Entering, Reporting, Sig
  <2>6. ASSUME NEW s \in Signal PROVE SignalSound(p, s)'
    BY <2>1, <2>2, <2>3, <2>4 DEF OneSound, SignalSound, Protected
  <2> QED
    BY <2>5, <2>6 DEF OneSound
<1>4. CASE Fail(p)
  <2>1. pc[p] \in {"block", "recover"}
    BY <1>4 DEF Fail, FailureTransition, At
  <2>2. UNCHANGED <<tracked, intent, saved, entry, entries, stop, take, inflight>>
    BY <1>4 DEF Fail, FailureTransition, durableVars, exchangeVars
  <2>3. pc'[p] = "idle"
    BY <1>4 DEF Fail, FailureTransition, EndCycle, Goto, TypeOK
  <2> QED
    BY <2>1, <2>2, <2>3, SoundQuiet
<1> QED
  BY <1>1, <1>2, <1>3, <1>4 DEF AfterEntry

(* The invariant of the only instance is that of every instance.           *)
LEMMA AloneIsSound ==
    ASSUME Alone, NEW p \in Instance
    PROVE  AloneInv <=> /\ OneSound(p)
                        /\ \A c \in Command : row[c].state \in Confirmed
                                                => saved[SignalOf[c]]
<1>1. \A q \in Instance : q = p
  BY DEF Alone
<1> QED
  BY <1>1 DEF AloneInv, OneEntryPerSignal, EntryIsQueried, TradeIsProtected, StepIsEarned,
              OneSound, SignalSound, StepSound

(* A durable trade is not deleted by the worker.                           *)
LEMMA SavedStays ==
    ASSUME TypeOK, [Next]_vars, NEW s \in Signal, saved[s]
    PROVE  saved'[s]
<1>1. ASSUME NEW p \in Instance, Persist(p) PROVE saved'[s]
  BY <1>1 DEF Persist, TypeOK
<1>2. CASE UNCHANGED saved
  BY <1>2
<1>3. ASSUME NEW p \in Instance, BeforeEntry(p) PROVE UNCHANGED saved
  BY <1>3 DEF BeforeEntry, Claim, Revalidate, Reject, Requeue, PlainTransition, CheckLease,
              Submit, Prepare, Check, durableVars
<1>4. ASSUME NEW p \in Instance, Entry(p) PROVE UNCHANGED saved
  BY <1>4 DEF Entry, QueryEntry, PlaceEntry, RequeryEntry, PlaceStop, PlaceTake,
              CancelStop, EmergencyClose, durableVars
<1>5. ASSUME NEW p \in Instance, ProtectIntent(p) \/ ValidateTrade(p) \/ Report(p) \/ Fail(p)
      PROVE  UNCHANGED saved
  BY <1>5 DEF ProtectIntent, ValidateTrade, Report, Advance, Fail, FailureTransition,
              durableVars
<1>6. CASE \/ Tick \/ Enqueue \/ (\E t \in Signal : Land(t)) \/ UNCHANGED vars
           \/ \E p \in Instance : \/ Start(p) \/ Crash(p) \/ LoseLease(p)
                                  \/ ValidateLeader(p) \/ Reconcile(p)
                                  \/ ReconcileUnavailable(p)
  BY <1>2, <1>6 DEF Tick, Enqueue, Land, vars, Start, Crash, LoseLease, ValidateLeader,
                    Reconcile, ReconcileUnavailable, durableVars
<1> QED
  BY <1>1, <1>2, <1>3, <1>4, <1>5, <1>6 DEF Next, ProcessOne, AfterEntry

LEMMA AloneInit == Alone /\ Init => AloneInv
  BY DEF Init, StoreInit, NoRow, Absent, AloneInv, OneEntryPerSignal, EntryIsQueried,
         TradeIsProtected, StepIsEarned, Entering, Reporting, Confirmed

LEMMA AloneStep == Alone /\ IInv /\ AloneInv /\ [Next]_vars => AloneInv'
<1> SUFFICES ASSUME Alone, IInv, AloneInv, [Next]_vars PROVE AloneInv'
  OBVIOUS
<1>1. PICK p \in Instance : Instance = {p}
  BY DEF Alone
<1>2. TypeOK /\ StoreTypeOK /\ OneSound(p)
  BY <1>1, AloneIsSound DEF IInv
<1>3. OneSound(p)'
  <2>1. CASE UNCHANGED vars
    BY <1>2, <2>1 DEF vars, instanceVars, durableVars, exchangeVars, OneSound, StepSound,
                      SignalSound, Sig, Protected
  <2>2. CASE Next
    BY <1>1, <1>2, <2>2, SoundStart, SoundBeforeEntry, SoundQuery, SoundPlaceEntry,
       SoundProtecting, SoundAfterEntry
    DEF Next, ProcessOne, Entry
  <2> QED
    BY <2>1, <2>2
<1>4. ASSUME NEW c \in Command, row'[c].state \in Confirmed PROVE saved'[SignalOf[c]]
  <2>1. SignalOf[c] \in Signal
    BY WorkerAssumption
  <2>2. saved[SignalOf[c]]
    <3>1. CASE row[c].state \in Confirmed
      BY <3>1 DEF AloneInv, TradeIsProtected
    <3>2. ASSUME NEW q \in Instance, pc[q] \in Reporting, cur[q] = c
          PROVE  saved[SignalOf[c]]
      BY <3>2 DEF AloneInv, StepIsEarned, Sig, Reporting
    <3> QED
      BY <1>2, <1>4, <3>1, <3>2, ConfirmedIsNew
  <2> QED
    BY <1>2, <2>1, <2>2, SavedStays
<1>5. AloneInv' <=> /\ OneSound(p)'
                    /\ \A c \in Command : row'[c].state \in Confirmed
                                            => saved'[SignalOf[c]]
  <2>1. \A q \in Instance : q = p
    BY <1>1
  <2> QED
    BY <2>1 DEF AloneInv, OneEntryPerSignal, EntryIsQueried, TradeIsProtected,
                StepIsEarned, OneSound, SignalSound, StepSound
<1> QED
  BY <1>3, <1>4, <1>5

(* The invariant of a single instance holds.                               *)
THEOREM AloneInvariant == ASSUME Alone PROVE Spec => []AloneInv
<1>1. Init => AloneInv
  BY AloneInit
<1>2. IInv /\ AloneInv /\ [Next]_vars => AloneInv'
  BY AloneStep
<1> QED
  BY <1>1, <1>2, WorkerInvariant, PTL DEF Spec

(* At most one entry order is executed for a signal by a single instance,  *)
(* through every lost answer, crash, restart and re-claim: the invariant   *)
(* says that no request is under way whenever the client id is queried.    *)
THEOREM SignalIsEnteredOnce == ASSUME Alone PROVE Spec => []OneEntryPerSignal
  BY AloneInvariant, PTL DEF AloneInv

-----------------------------------------------------------------------------
(* The position of a single instance's trades.                             *)

LEMMA SubmittedTwiceStays ==
    ASSUME StoreTypeOK, AuditTrailIsLegalPath, [StoreCall]_storeVars,
           NEW s, SubmittedTwice(s)
    PROVE  SubmittedTwice(s)'
<1>1. ASSUME NEW c \in Command, NEW i \in DOMAIN history[c]
      PROVE  i \in DOMAIN history'[c] /\ history'[c][i] = history[c][i]
  <2>1. history[c] \in Seq(HistoryRecord) /\ history'[c] \in Seq(HistoryRecord)
    BY TypeStep DEF StoreTypeOK
  <2>2. /\ Len(history'[c]) >= Len(history[c])
        /\ \A j \in 1 .. Len(history[c]) : history'[c][j] = history[c][j]
    BY TrailStep
  <2> QED
    BY <2>1, <2>2
<1>2. PICK c, d \in {e \in Command : SignalOf[e] = s} :
        \E i \in DOMAIN history[c], j \in DOMAIN history[d] :
            /\ history[c][i][2] = "SUBMITTING"
            /\ history[d][j][2] = "SUBMITTING"
            /\ <<c, i>> # <<d, j>>
  BY DEF SubmittedTwice
<1> QED
  BY <1>1, <1>2 DEF SubmittedTwice

(* A claim that becomes SUBMITTING adds a record to those that are there.  *)
LEMMA SubmitAgain ==
    ASSUME StoreTypeOK, NEW c \in Command, NEW d \in Command, SignalOf[c] = SignalOf[d],
           Submitted(d), row[c].state = "CLAIMED", ApplyTransition(c, "SUBMITTING")
    PROVE  SubmittedTwice(SignalOf[c])'
<1>1. history' = [history EXCEPT ![c] = Append(@, <<"CLAIMED", "SUBMITTING">>)]
  BY DEF ApplyTransition
<1>2. PICK i \in DOMAIN history[d] : history[d][i][2] = "SUBMITTING"
  BY DEF Submitted
<1>3. /\ history \in [Command -> Seq(HistoryRecord)]
      /\ history[c] \in Seq(HistoryRecord) /\ history[d] \in Seq(HistoryRecord)
  BY DEF StoreTypeOK
<1> DEFINE j == Len(history[c]) + 1
<1>4. /\ j \in DOMAIN history'[c] /\ history'[c][j] = <<"CLAIMED", "SUBMITTING">>
      /\ \A k \in DOMAIN history[c] :
           k \in DOMAIN history'[c] /\ history'[c][k] = history[c][k] /\ k # j
  BY <1>1, <1>3
<1>5. d # c => history'[d] = history[d]
  BY <1>1, <1>3
<1>6. i \in DOMAIN history'[d] /\ history'[d][i][2] = "SUBMITTING" /\ <<c, j>> # <<d, i>>
  BY <1>2, <1>4, <1>5
<1> HIDE DEF j
<1>7. history'[c][j][2] = "SUBMITTING"
  BY <1>4
<1> QED
  BY <1>4, <1>6, <1>7 DEF SubmittedTwice

(* A position grows with the entry orders and is closed only by the        *)
(* worker's emergency close, which ends its attempt.                       *)
LEMMA PositionStep ==
    ASSUME TypeOK, [Next]_vars, NEW s \in Signal
    PROVE  \/ \E n \in {0, 1} :
                position'[s] = position[s] + n /\ entries'[s] = entries[s] + n
           \/ \E p \in Instance :
                /\ pc[p] = "close" /\ Sig(p) = s /\ pc'[p] = "recover"
                /\ entries'[s] = entries[s] /\ position'[s] <= position[s]
<1> DEFINE Goal ==
             \/ \E n \in {0, 1} :
                  position'[s] = position[s] + n /\ entries'[s] = entries[s] + n
             \/ \E p \in Instance :
                  /\ pc[p] = "close" /\ Sig(p) = s /\ pc'[p] = "recover"
                  /\ entries'[s] = entries[s] /\ position'[s] <= position[s]
<1>1. position[s] \in Nat /\ entries[s] \in Nat
  BY DEF TypeOK
<1>2. CASE UNCHANGED <<position, entries>>
  BY <1>1, <1>2
<1>3. ASSUME NEW t \in Signal, NEW status \in {"FILLED", "PARTIAL", "UNFILLED"},
             Execute(t, status)
      PROVE  Goal
  BY <1>1, <1>3 DEF Execute, TypeOK
<1>4. ASSUME NEW t \in Signal, Land(t) PROVE Goal
  BY <1>2, <1>3, <1>4 DEF Land
<1>5. ASSUME NEW p \in Instance, PlaceEntry(p) PROVE Goal
  <2>1. Sig(p) \in Signal
    BY <1>5, WorkInHand DEF PlaceEntry, At
  <2>2. \/ UNCHANGED <<position, entries>>
        \/ \E status \in {"FILLED", "PARTIAL", "UNFILLED"} : Execute(Sig(p), status)
    BY <1>5 DEF PlaceEntry
  <2> QED
    BY <1>2, <1>3, <2>1, <2>2
<1>6. ASSUME NEW p \in Instance, EmergencyClose(p) PROVE Goal
  <2>1. /\ pc[p] = "close" /\ pc'[p] = "recover" /\ entries' = entries
        /\ \/ position' = position
           \/ position' = [position EXCEPT ![Sig(p)] = @ - 1]
    BY <1>6 DEF EmergencyClose, ActivationStep, At, Goto, TypeOK
  <2>2. CASE position' = position
    BY <1>2, <2>1, <2>2
  <2>3. CASE position' = [position EXCEPT ![Sig(p)] = @ - 1] /\ Sig(p) = s
    BY <1>1, <2>1, <2>3 DEF TypeOK
  <2>4. CASE position' = [position EXCEPT ![Sig(p)] = @ - 1] /\ Sig(p) # s
    BY <1>1, <2>1, <2>4 DEF TypeOK
  <2> QED
    BY <2>1, <2>2, <2>3, <2>4
<1>7. ASSUME NEW p \in Instance, Entry(p), ~PlaceEntry(p), ~EmergencyClose(p)
      PROVE  UNCHANGED <<position, entries>>
  BY <1>7 DEF Entry, QueryEntry, RequeryEntry, PlaceStop, PlaceTake, CancelStop, exchangeVars
<1>8. ASSUME NEW p \in Instance, BeforeEntry(p) \/ AfterEntry(p)
      PROVE  UNCHANGED <<position, entries>>
  BY <1>8 DEF BeforeEntry, Claim, Revalidate, Reject, Requeue, PlainTransition, CheckLease,
              Submit, Prepare, Check, AfterEntry, Persist, ProtectIntent, ValidateTrade,
              Report, Advance, Fail, FailureTransition, exchangeVars
<1>9. CASE \/ Tick \/ Enqueue \/ UNCHANGED vars
           \/ \E p \in Instance : \/ Start(p) \/ Crash(p) \/ LoseLease(p)
                                  \/ ValidateLeader(p) \/ Reconcile(p)
                                  \/ ReconcileUnavailable(p)
  BY <1>2, <1>9 DEF Tick, Enqueue, vars, Start, Crash, LoseLease, ValidateLeader, Reconcile,
                    ReconcileUnavailable, exchangeVars
<1> QED
  BY <1>2, <1>4, <1>5, <1>6, <1>7, <1>8, <1>9 DEF Next, ProcessOne

(* Only Persist makes a trade durable.                                     *)
LEMMA SavedByPersist ==
    ASSUME TypeOK, [Next]_vars, NEW s \in Signal, saved'[s]
    PROVE  saved[s] \/ \E p \in Instance : pc[p] = "persist" /\ Sig(p) = s
<1> DEFINE Goal == saved[s] \/ \E p \in Instance : pc[p] = "persist" /\ Sig(p) = s
<1>1. ASSUME NEW p \in Instance, Persist(p) PROVE Goal
  BY <1>1 DEF Persist, At, TypeOK
<1>2. CASE UNCHANGED saved
  BY <1>2
<1>3. ASSUME NEW p \in Instance, BeforeEntry(p) PROVE UNCHANGED saved
  BY <1>3 DEF BeforeEntry, Claim, Revalidate, Reject, Requeue, PlainTransition, CheckLease,
              Submit, Prepare, Check, durableVars
<1>4. ASSUME NEW p \in Instance, Entry(p) PROVE UNCHANGED saved
  BY <1>4 DEF Entry, QueryEntry, PlaceEntry, RequeryEntry, PlaceStop, PlaceTake,
              CancelStop, EmergencyClose, durableVars
<1>5. ASSUME NEW p \in Instance, ProtectIntent(p) \/ ValidateTrade(p) \/ Report(p) \/ Fail(p)
      PROVE  UNCHANGED saved
  BY <1>5 DEF ProtectIntent, ValidateTrade, Report, Advance, Fail, FailureTransition,
              durableVars
<1>6. CASE \/ Tick \/ Enqueue \/ (\E t \in Signal : Land(t)) \/ UNCHANGED vars
           \/ \E p \in Instance : \/ Start(p) \/ Crash(p) \/ LoseLease(p)
                                  \/ ValidateLeader(p) \/ Reconcile(p)
                                  \/ ReconcileUnavailable(p)
  BY <1>2, <1>6 DEF Tick, Enqueue, Land, vars, Start, Crash, LoseLease, ValidateLeader,
                    Reconcile, ReconcileUnavailable, durableVars
<1> QED
  BY <1>1, <1>2, <1>3, <1>4, <1>5, <1>6 DEF Next, ProcessOne, AfterEntry

(* Where the only instance may come from, and what its claim is worth.     *)
LEMMA AloneFlow ==
    ASSUME TypeOK, StoreTypeOK, [Next]_vars, NEW p \in Instance, Instance = {p},
           pc[p] \in InClaim => row[cur[p]].state = "CLAIMED"
    PROVE  /\ pc'[p] \in InClaim => row'[cur'[p]].state = "CLAIMED"
           /\ pc'[p] \in Working =>
                /\ cur'[p] = cur[p]
                /\ \/ pc[p] \in Working
                   \/ /\ Submit(p) /\ ApplyTransition(cur[p], "SUBMITTING")
                      /\ pc[p] \in InClaim
<1> DEFINE Goal ==
             /\ pc'[p] \in InClaim => row'[cur'[p]].state = "CLAIMED"
             /\ pc'[p] \in Working =>
                  /\ cur'[p] = cur[p]
                  /\ \/ pc[p] \in Working
                     \/ /\ Submit(p) /\ ApplyTransition(cur[p], "SUBMITTING")
                        /\ pc[p] \in InClaim
<1>1. CASE pc'[p] = pc[p] /\ cur'[p] = cur[p] /\ UNCHANGED row
  BY <1>1
<1>2. CASE pc'[p] \notin InClaim \cup Working
  BY <1>2
<1>3. CASE Tick
  BY <1>3 DEF Tick, At, TypeOK, InClaim, Working, Activation
<1>4. CASE Enqueue
  <2>1. UNCHANGED <<pc, cur>>
    BY <1>4 DEF Enqueue, instanceVars
  <2>2. PICK d \in Command, lifetime \in 1 .. MaxLifetime : Create(d, lifetime)
    BY <1>4 DEF Enqueue, StoreCreate
  <2>3. \A c \in Command : row[c].state # Absent => row'[c] = row[c]
    BY <2>2 DEF Create, StoreTypeOK
  <2>4. pc[p] \in InClaim => cur[p] \in Command
    BY WorkInHand DEF InClaim
  <2> QED
    BY <2>1, <2>3, <2>4 DEF Absent
<1>5. CASE \/ (\E s \in Signal : Land(s)) \/ UNCHANGED vars
           \/ LoseLease(p) \/ ValidateLeader(p) \/ Reconcile(p) \/ ReconcileUnavailable(p)
  BY <1>1, <1>5 DEF Land, LoseLease, ValidateLeader, Reconcile, ReconcileUnavailable, vars,
                    instanceVars, storeVars
<1>6. CASE Start(p) \/ Crash(p)
  <2>1. pc'[p] \in {"claim", "idle", "down"}
    BY <1>6 DEF Start, Crash, Goto, TypeOK
  <2> QED
    BY <1>2, <2>1 DEF InClaim, Working, Activation
<1>7. CASE Claim(p)
  <2>1. CASE pc'[p] = "idle"
    BY <1>2, <2>1 DEF InClaim, Working, Activation
  <2>2. ASSUME NEW skipped, NEW c \in Command, ClaimNext(skipped, c),
               cur' = [cur EXCEPT ![p] = c], Goto(p, "revalidate")
        PROVE  Goal
    <3>1. cur'[p] = c /\ pc'[p] = "revalidate"
      BY <2>2 DEF Goto, TypeOK
    <3>2. ~Due(c) /\ row[c] \in Row
      BY <2>2 DEF ClaimNext, Oldest, Claimable, Due, StoreTypeOK, Row
    <3>3. row'[c] = ClaimedRow(c)
      BY <2>2, <3>2 DEF ClaimNext, ClaimTransaction
    <3>4. row'[c].state = "CLAIMED"
      BY <3>2, <3>3 DEF ClaimedRow, Row
    <3> QED
      BY <3>1, <3>4 DEF InClaim, Working, Activation
  <2>3. \/ pc'[p] = "idle"
        \/ \E skipped \in SUBSET LockedByOthers(p) : \E c \in Command :
             ClaimNext(skipped, c) /\ cur' = [cur EXCEPT ![p] = c] /\ Goto(p, "revalidate")
    BY <1>7 DEF Claim, EndCycle, Goto, TypeOK
  <2> QED
    BY <2>1, <2>2, <2>3
<1>8. CASE Revalidate(p) \/ CheckLease(p)
  <2>1. pc[p] \in InClaim /\ UNCHANGED row
    BY <1>8 DEF Revalidate, CheckLease, At, InClaim, storeVars
  <2>2. /\ pc'[p] \in {"reject", "lease", "submit", "requeue", "idle"}
        /\ cur'[p] = cur[p] \/ pc'[p] = "idle"
    BY <1>8 DEF Revalidate, CheckLease, EndCycle, Goto, TypeOK
  <2> QED
    BY <2>1, <2>2 DEF InClaim, Working, Activation
<1>9. CASE Reject(p) \/ Requeue(p) \/ Fail(p)
  <2>1. pc'[p] = "idle"
    BY <1>9 DEF Reject, Requeue, PlainTransition, Fail, FailureTransition, EndCycle, Goto,
                TypeOK
  <2> QED
    BY <1>2, <2>1 DEF InClaim, Working, Activation
<1>10. CASE Submit(p)
  <2>1. pc[p] = "submit"
    BY <1>10 DEF Submit, At
  <2>2. \/ pc'[p] = "prepare" /\ cur' = cur /\ ApplyTransition(cur[p], "SUBMITTING")
        \/ pc'[p] = "idle"
    BY <1>10 DEF Submit, EndCycle, Goto, TypeOK
  <2> QED
    BY <1>10, <2>1, <2>2 DEF InClaim, Working, Activation
<1>11. ASSUME pc[p] \in Working, NEW next \in Activation, ActivationStep(p, next) PROVE Goal
  BY <1>11 DEF ActivationStep, Goto, TypeOK, InClaim, Activation
<1>12. CASE Prepare(p) \/ Check(p) \/ Entry(p)
  <2>1. pc[p] \in Working /\ Sig(p) \in Signal
    BY <1>12, WorkInHand DEF Prepare, Check, Entry, QueryEntry, PlaceEntry, RequeryEntry,
       PlaceStop, PlaceTake, CancelStop, EmergencyClose, At, Working, Activation
  <2>2. entry[Sig(p)] \in {"NONE", "FILLED", "PARTIAL", "UNFILLED"}
    BY <2>1 DEF TypeOK
  <2>3. ASSUME NEW status \in {"FILLED", "PARTIAL", "UNFILLED"}, UseEntry(p, status)
        PROVE  \E next \in Activation : ActivationStep(p, next)
    BY <2>3 DEF UseEntry, Activation
  <2>4. CASE Prepare(p) \/ Check(p)
    BY <1>11, <2>1, <2>4 DEF Prepare, Check, Activation
  <2>5. CASE QueryEntry(p) \/ PlaceEntry(p) \/ RequeryEntry(p)
    <3>1. \/ \E status \in {"FILLED", "PARTIAL", "UNFILLED"} : UseEntry(p, status)
          \/ \E next \in Activation : ActivationStep(p, next)
      BY <2>2, <2>5 DEF QueryEntry, PlaceEntry, RequeryEntry, Lost, Activation
    <3> QED
      BY <1>11, <2>1, <2>3, <3>1
  <2>6. CASE PlaceStop(p) \/ PlaceTake(p) \/ CancelStop(p) \/ EmergencyClose(p)
    BY <1>11, <2>1, <2>6 DEF PlaceStop, PlaceTake, CancelStop, EmergencyClose, Lost,
                             Activation
  <2> QED
    BY <1>12, <2>4, <2>5, <2>6 DEF Entry
<1>13. CASE Persist(p) \/ ProtectIntent(p) \/ ValidateTrade(p) \/ Report(p)
  BY <1>13 DEF Persist, ProtectIntent, ValidateTrade, Report, Advance, EndCycle,
               ActivationStep, Goto, At, TypeOK, InClaim, Working, Activation
<1>14. ASSUME ProcessOne(p) PROVE Goal
  BY <1>7, <1>8, <1>9, <1>10, <1>12, <1>13, <1>14 DEF ProcessOne, BeforeEntry, AfterEntry
<1>15. \/ Tick \/ Enqueue \/ (\E s \in Signal : Land(s)) \/ UNCHANGED vars
       \/ Start(p) \/ Crash(p) \/ LoseLease(p) \/ ValidateLeader(p) \/ Reconcile(p)
       \/ ReconcileUnavailable(p) \/ ProcessOne(p)
  BY Zenon DEF Next
<1> QED
  BY <1>3, <1>4, <1>5, <1>6, <1>14, <1>15

LEMMA KeptInit == Alone /\ Init => PositionIsKept
  BY DEF Init, PositionIsKept, InClaim, Working, Activation

LEMMA KeptStep == Alone /\ IInv /\ AloneInv /\ PositionIsKept /\ [Next]_vars => PositionIsKept'
<1> SUFFICES ASSUME Alone, IInv, AloneInv, PositionIsKept, [Next]_vars
             PROVE  PositionIsKept'
  OBVIOUS
<1>1. PICK p \in Instance : Instance = {p}
  BY DEF Alone
<1>2. TypeOK /\ StoreTypeOK /\ AuditTrailIsLegalPath /\ TypeOK'
  BY TypePreserved DEF IInv
<1>3. [StoreCall]_storeVars
  BY <1>2, WorkerCalls
<1>4. /\ pc'[p] \in InClaim => row'[cur'[p]].state = "CLAIMED"
      /\ pc'[p] \in Working =>
           /\ cur'[p] = cur[p]
           /\ \/ pc[p] \in Working
              \/ /\ Submit(p) /\ ApplyTransition(cur[p], "SUBMITTING")
                 /\ pc[p] \in InClaim
  BY <1>1, <1>2, AloneFlow DEF PositionIsKept
<1>5. ASSUME NEW s \in Signal
      PROVE  /\ position[s] \in Nat /\ entries[s] \in Nat /\ position[s] <= entries[s]
             /\ position'[s] \in Nat /\ entries'[s] \in Nat
             /\ \/ \E n \in {0, 1} :
                     position'[s] = position[s] + n /\ entries'[s] = entries[s] + n
                \/ /\ pc[p] = "close" /\ Sig(p) = s /\ pc'[p] = "recover"
                   /\ entries'[s] = entries[s] /\ position'[s] <= position[s]
  BY <1>1, <1>2, PositionStep DEF PositionIsKept, TypeOK
<1>6. ASSUME NEW s \in Signal, Untouched(s), ~(pc[p] = "close" /\ Sig(p) = s)
      PROVE  Untouched(s)'
  <2>1. CASE SubmittedTwice(s)
    BY <1>2, <1>3, <2>1, SubmittedTwiceStays DEF Untouched
  <2>2. CASE position[s] = entries[s]
    BY <1>5, <1>6, <2>2 DEF Untouched
  <2> QED
    BY <1>6, <2>1, <2>2 DEF Untouched
<1>7. ASSUME NEW s \in Signal PROVE position'[s] <= entries'[s]
  BY <1>5
<1>8. ASSUME NEW s \in Signal, saved'[s] PROVE Untouched(s)'
  <2>1. Untouched(s) /\ ~(pc[p] = "close" /\ Sig(p) = s)
    <3>1. CASE saved[s]
      BY <1>1, <3>1 DEF PositionIsKept, AloneInv, StepIsEarned, Entering
    <3>2. CASE pc[p] = "persist" /\ Sig(p) = s
      BY <3>2 DEF PositionIsKept, Working, Activation
    <3> QED
      BY <1>1, <1>2, <1>8, <3>1, <3>2, SavedByPersist
  <2> QED
    BY <1>6, <2>1
<1>9. ASSUME pc'[p] \in Working PROVE Sig(p)' = Sig(p) /\ Untouched(Sig(p))'
  <2>1. /\ Sig(p)' = Sig(p) /\ cur[p] \in Command /\ Sig(p) \in Signal
        /\ Sig(p) = SignalOf[cur[p]]
    BY <1>2, <1>4, <1>9, WorkInHand DEF Sig, InClaim, Working, Activation
  <2>2. PICK s \in Signal : s = Sig(p)
    BY <2>1
  <2>3. pc[p] # "close" \/ ~(pc'[p] = "recover")
    BY <1>9 DEF Working
  <2>4. CASE pc[p] \in Working /\ pc[p] # "close"
    <3>1. Untouched(s)
      BY <2>2, <2>4 DEF PositionIsKept
    <3>2. Untouched(s)'
      BY <1>6, <2>4, <3>1
    <3> QED
      BY <2>1, <2>2, <3>2 DEF Untouched, SubmittedTwice
  <2>5. CASE pc[p] = "close"
    <3>1. Untouched(s)
      BY <2>2, <2>5 DEF PositionIsKept, Working, Activation
    <3>2. CASE SubmittedTwice(s)
      BY <1>2, <1>3, <2>1, <2>2, <3>2, SubmittedTwiceStays DEF Untouched
    <3>3. CASE position[s] = entries[s]
      BY <1>5, <1>9, <2>1, <2>2, <3>3 DEF Untouched, Working
    <3> QED
      BY <3>1, <3>2, <3>3 DEF Untouched
  <2>6. CASE Submit(p) /\ ApplyTransition(cur[p], "SUBMITTING") /\ pc[p] \in InClaim
    <3>1. UNCHANGED <<position, entries>>
      BY <2>6 DEF Submit, exchangeVars
    <3>2. CASE position[s] = entries[s]
      BY <2>1, <2>2, <3>1, <3>2 DEF Untouched
    <3>3. CASE position[s] # entries[s]
      <4>1. entries[s] + inflight[s] > 0
        <5>1. inflight[s] \in Nat
          BY <1>2 DEF TypeOK
        <5>2. position[s] \in Nat /\ entries[s] \in Nat /\ position[s] <= entries[s]
          BY <1>5
        <5>3. entries[s] > 0
          BY <3>3, <5>2
        <5> QED
          BY <5>1, <5>2, <5>3
      <4>2. PICK d \in Command : SignalOf[d] = s /\ Submitted(d)
        BY <4>1 DEF IInv, EntryIsRecorded, Submitted
      <4>3. row[cur[p]].state = "CLAIMED"
        BY <2>6 DEF PositionIsKept
      <4>4. SubmittedTwice(SignalOf[cur[p]])'
        <5>1. PICK c \in Command : c = cur[p]
          BY <2>1
        <5>2. SignalOf[c] = SignalOf[d] /\ row[c].state = "CLAIMED"
              /\ ApplyTransition(c, "SUBMITTING")
          BY <2>1, <2>2, <2>6, <4>2, <4>3, <5>1
        <5>3. SubmittedTwice(SignalOf[c])'
          BY <1>2, <4>2, <5>2, SubmitAgain
        <5> QED
          BY <5>1, <5>3, <1>4, <1>9
      <4> QED
        BY <1>4, <1>9, <2>1, <2>2, <4>4 DEF Untouched
    <3> QED
      BY <3>2, <3>3
  <2> QED
    BY <1>4, <1>9, <2>4, <2>5, <2>6
<1>10. \A q \in Instance : q = p
  BY <1>1
<1> QED
  BY <1>4, <1>7, <1>8, <1>9, <1>10 DEF PositionIsKept, Untouched, SubmittedTwice, Sig

(* What a single instance has durably opened, confirmed or completed is a  *)
(* filled entry with both protective orders open; its position is there    *)
(* unless the signal was submitted again: within one attempt, a trade is   *)
(* stored only over the position it entered.                               *)
THEOREM CompletedTradeIsProtected == ASSUME Alone PROVE Spec => []CompletedIsProtected
<1>1. Init => PositionIsKept
  BY KeptInit
<1>2. IInv /\ AloneInv /\ PositionIsKept /\ [Next]_vars => PositionIsKept'
  BY KeptStep
<1>3. AloneInv /\ PositionIsKept => CompletedIsProtected
  <2> SUFFICES ASSUME AloneInv, PositionIsKept, NEW s \in Signal,
                      saved[s] \/ \E c \in Command : SignalOf[c] = s
                                                       /\ row[c].state \in Confirmed
               PROVE  /\ saved[s] /\ Protected(s)
                      /\ position[s] = 1 \/ SubmittedTwice(s)
    BY DEF CompletedIsProtected, Protected
  <2>1. saved[s] /\ Protected(s)
    BY DEF AloneInv, TradeIsProtected
  <2>2. entries[s] = 1
    BY <2>1 DEF AloneInv, EntryIsQueried, Protected
  <2>3. Untouched(s)
    BY <2>1 DEF PositionIsKept
  <2> QED
    BY <2>1, <2>2, <2>3 DEF Untouched
<1> QED
  BY <1>1, <1>2, <1>3, WorkerInvariant, AloneInvariant, PTL DEF Spec
=============================================================================
