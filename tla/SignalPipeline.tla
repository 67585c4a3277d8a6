--------------------------- MODULE SignalPipeline ---------------------------
(***************************************************************************)
(* From a candidate to a position: the decision on each candidate, the     *)
(* signal recorded for it, its risk assessment, the durable command a      *)
(* client queues for it, the worker's revalidation and the entry           *)
(* (SignalDecisionEngine, PersistentDecisionSignalService,                 *)
(* PersistentRiskService, ExecutionCommandService), composed with the      *)
(* scanner's candidates and with startup recovery.                         *)
(*                                                                         *)
(* Every reader synchronises the signals with the candidates first; the    *)
(* records are saved in the same call, so memory and SignalRow agree and   *)
(* survive a restart while the candidates do not.                          *)
(*                                                                         *)
(* Abstraction.  A signal is identified by its decision key: the candidate *)
(* and the version of its evidence.  Prices, quantities and the daily      *)
(* result are not modelled: any check on them may refuse a signal.  The    *)
(* worker's cycle is three steps here: what it proves of the command, what *)
(* the order backend asks the risk engine once more, and the entry order;  *)
(* the calls in between, and those that protect the entry, are in module   *)
(* ExecutionWorker.  One worker runs, an order fills in the call that      *)
(* sends it, and the account picture is the current one (module            *)
(* AccountSnapshot).  The order of the scores is chosen freely.            *)
(***************************************************************************)
EXTENDS CandidateStore, SequencesExt

CONSTANTS
    MaxOpenTrades,  \* risk_max_open_trades
    MaxMargin,      \* risk_max_margin_exposure_usdt
    Wallet,         \* wallet balance, in units of margin
    MarginOf        \* margin that a position of the symbol requires

ASSUME PipelineAssumption ==
    /\ {MaxOpenTrades, MaxMargin, Wallet} \subseteq Nat
    /\ MarginOf \in [Symbol -> Nat]

VARIABLES
    phase,      \* AutomationRecoveryGate: RECOVERING, READY or FAILED
    signals,    \* _records_by_decision and SignalRow: key -> record
    commands,   \* execution commands: key -> state
    work,       \* the command the worker has in hand, or None
    positions   \* symbol -> key of the signal entered, or None

pipelineVars == <<phase, signals, commands, work, positions>>
vars == <<storeVars, pipelineVars>>

Key == [cand : Id, version : Time]

(* A signal: its lifecycle, when its decision expires, whether no watch    *)
(* reason stands against it, and when it was last changed.                 *)
Signal == [life : {"ACTIVE", "WATCH", "REJECTED", "INVALIDATED"},
           expires : Later, clean : BOOLEAN, updated : Time]

TerminalSignal == {"REJECTED", "INVALIDATED"}

(* A command in hand: the last thing the worker did for it, and when       *)
(* revalidate() proved it (auxiliary: the code does not keep the time).    *)
Work(keys) == [key : keys, step : {"REVALIDATED", "ASSESSED"}, proved : Time]

(* PENDING stands for every state a worker may claim, ENTERED for every    *)
(* one after the entry, BLOCKED for every end without it.                  *)
TypeOK ==
    /\ StoreTypeOK
    /\ phase \in {"RECOVERING", "READY", "FAILED"}
    /\ DOMAIN signals \subseteq Key
    /\ \A k \in DOMAIN signals : signals[k] \in Signal
    /\ DOMAIN commands \subseteq DOMAIN signals
    /\ \A k \in DOMAIN commands : commands[k] \in {"PENDING", "ENTERED", "BLOCKED"}
    /\ work \in Work(DOMAIN commands) \cup {None}
    /\ positions \in [Symbol -> DOMAIN commands \cup {None}]

(* A process starts with nothing but the durable signals, commands and     *)
(* positions; lifespan runs recover(), whose scan starts at once.          *)
Init ==
    /\ StoreInit
    /\ phase = "RECOVERING"
    /\ signals = <<>>
    /\ commands = <<>>
    /\ work = None
    /\ positions = [s \in Symbol |-> None]

-----------------------------------------------------------------------------
(* The decision.                                                           *)

KeyOf(c, cs) == [cand |-> c, version |-> cs[c].version]

(* SignalDecisionEngine.decide, mapped to the lifecycle of the signal.     *)
Decide(x, c) ==
    CASE \/ x.life \in Terminal
         \/ x.at >= ExpiresAt(c)
         \/ "REJECT" \in {x.band, x.codes} -> "REJECTED"
      [] x.band = "READY" /\ x.codes # "REJECT" /\ x.life \notin Terminal
            /\ x.at < ExpiresAt(c) -> "ACTIVE"
      [] OTHER -> "WATCH"

(* Mutated form of DecisionExpiry: a READY decision lives for the          *)
(* qualification window even when its setup ends before.                   *)
DecisionExpiryUncapped(x, c, life) ==
    IF life = "ACTIVE" THEN x.version + QualLife ELSE ExpiresAt(c)

(* A READY decision expires with its entry candle or with its setup,       *)
(* whichever is first.                                                     *)
DecisionExpiry(x, c, life) ==
    IF life = "ACTIVE" /\ x.version + QualLife < ExpiresAt(c)
    THEN x.version + QualLife ELSE ExpiresAt(c)

Decided(x, c) ==
    LET life == Decide(x, c)
    IN  [life |-> life, expires |-> DecisionExpiry(x, c, life),
         clean |-> life = "ACTIVE" /\ x.codes = "READY", updated |-> x.at]

-----------------------------------------------------------------------------
(* Synchronising the signals.                                              *)

(* Mutated form of Superseded: only a newer run than the record's counts.  *)
SupersededStrictly(r, run0) == run0.status = "COMPLETED" /\ run0.at > r.updated

(* A signal whose decision no candidate has any more is invalidated, but   *)
(* only when the last recorded run is a COMPLETED one that is not older.   *)
Superseded(r, run0) == run0.status = "COMPLETED" /\ run0.at >= r.updated

(* _transition() to INVALIDATED: the lifecycle and the time change, the    *)
(* facts of the decision stay.                                             *)
Invalidated(r, t) == [r EXCEPT !.life = "INVALIDATED", !.updated = t]

(* The record of key k after a synchronisation.  A terminal record is not  *)
(* changed by another decision.                                            *)
SyncedRecord(k, cs, run0, sigs) ==
    LET c == k.cand
        seen == c \in DOMAIN cs /\ cs[c].version = k.version
        new == Decided(cs[c], c)
    IN  CASE k \notin DOMAIN sigs -> new
          [] k \in DOMAIN sigs /\ seen ->
                IF sigs[k].life \in TerminalSignal /\ new.life # sigs[k].life
                THEN sigs[k] ELSE new
          [] OTHER ->
                IF sigs[k].life \notin TerminalSignal /\ Superseded(sigs[k], run0)
                THEN Invalidated(sigs[k], run0.at)
                ELSE sigs[k]

Synced(cs, run0, sigs) ==
    [k \in DOMAIN sigs \cup {KeyOf(c, cs) : c \in DOMAIN cs} |->
        SyncedRecord(k, cs, run0, sigs)]

(* GET /signals, /signals/status, /risk and every other reader.            *)
ReadSignals ==
    /\ phase # "RECOVERING"
    /\ signals' = Synced(cand, latest, signals)
    /\ UNCHANGED <<storeVars, phase, commands, work, positions>>

-----------------------------------------------------------------------------
(* Risk.                                                                   *)

Open(pos) == {s \in Symbol : pos[s] # None}

(* The sum of the margins of the symbols in S: their units, counted.       *)
MarginSum(S) == Cardinality(UNION {{s} \X (1 .. MarginOf[s]) : s \in S})

(* A signal of symbol s is approved beside the symbols already reserved.   *)
Fits(s, pos, reserved) ==
    /\ pos[s] = None
    /\ s \notin reserved
    /\ Cardinality(Open(pos)) + Cardinality(reserved) < MaxOpenTrades
    /\ MarginSum(Open(pos)) + MarginSum(reserved) + MarginOf[s] <= MaxMargin
    /\ MarginOf[s] <= Wallet - MarginSum(Open(pos)) - MarginSum(reserved)

Active(sigs) == {k \in DOMAIN sigs : sigs[k].life = "ACTIVE"}

(* _build_assessments goes through the signals in the order of seq: each   *)
(* of them fits beside those that were approved before it.                 *)
FitInOrder(seq, pos) ==
    \A i \in DOMAIN seq :
        Fits(seq[i].cand.symbol, pos, {seq[j].cand.symbol : j \in 1 .. i - 1})

(* Every set of signals an assessment can approve: the scores may have any *)
(* order, and any signal may be refused for a reason that is not modelled  *)
(* (no valid stop, no leverage, a global lock).                            *)
Assessments(sigs, pos) ==
    {approved \in SUBSET Active(sigs) :
        \E seq \in SetToSeqs(approved) : FitInOrder(seq, pos)}

(* Mutated form of Approved: the approval of the queue is trusted, only    *)
(* the signal is looked at again.                                          *)
ApprovedOnce(k, sigs) == k \in Active(sigs)

(* The assessment made now approves the signal.                            *)
Approved(k, sigs) == \E approved \in Assessments(sigs, positions) : k \in approved

(* _validate_signal.  Beside it revalidate() compares the command's expiry *)
(* with the same clock; the command took it from this decision.            *)
Valid(r) == r.life = "ACTIVE" /\ r.clean /\ now < r.expires

(* _current_approval: the signal is valid now and approved by the          *)
(* assessment.                                                             *)
CurrentApproval(k, sigs) ==
    k \in DOMAIN sigs /\ Valid(sigs[k]) /\ Approved(k, sigs)

(* POST /execution/activate/{signal_id} queues a command; one decision     *)
(* has one command for ever.                                               *)
Enqueue(k) ==
    LET sigs == Synced(cand, latest, signals)
    IN  /\ phase # "RECOVERING"
        /\ k \notin DOMAIN commands
        /\ CurrentApproval(k, sigs)
        /\ signals' = sigs
        /\ commands' = [j \in DOMAIN commands \cup {k} |->
                          IF j = k THEN "PENDING" ELSE commands[j]]
        /\ UNCHANGED <<storeVars, phase, work, positions>>

-----------------------------------------------------------------------------
(* The worker.                                                             *)

(* It claims a command and proves the approval again, ...                  *)
Revalidate(k) ==
    LET sigs == Synced(cand, latest, signals)
    IN  /\ phase = "READY"
        /\ work = None
        /\ commands[k] = "PENDING"
        /\ CurrentApproval(k, sigs)
        /\ signals' = sigs
        /\ work' = [key |-> k, step |-> "REVALIDATED", proved |-> now]
        /\ UNCHANGED <<storeVars, phase, commands, positions>>

(* ... or claims one it cannot prove any more, or whose plan has changed.  *)
Block(k) ==
    /\ phase = "READY"
    /\ work = None
    /\ commands[k] = "PENDING"
    /\ signals' = Synced(cand, latest, signals)
    /\ commands' = [commands EXCEPT ![k] = "BLOCKED"]
    /\ UNCHANGED <<storeVars, phase, work, positions>>

InHand(step) == work # None /\ work.step = step

(* With SUBMITTING and the intent durable, activate() takes the signal's   *)
(* assessment of this moment; it does not look at the clock.               *)
Assess ==
    LET sigs == Synced(cand, latest, signals)
    IN  /\ InHand("REVALIDATED")
        /\ Approved(work.key, sigs)
        /\ signals' = sigs
        /\ work' = [work EXCEPT !.step = "ASSESSED"]
        /\ UNCHANGED <<storeVars, phase, commands, positions>>

(* The assessment is gone or not approved, which blocks the command, or it *)
(* lacks a quantity or a stop, which leaves it to be claimed again.        *)
Refuse ==
    /\ InHand("REVALIDATED")
    /\ signals' = Synced(cand, latest, signals)
    /\ \E to \in {"BLOCKED", "PENDING"} :
          commands' = [commands EXCEPT ![work.key] = to]
    /\ work' = None
    /\ UNCHANGED <<storeVars, phase, positions>>

(* An exchange rule is broken, a call fails, or the lease is lost, which   *)
(* shuts the gate: the command can be claimed again.                       *)
GiveUp ==
    /\ work # None
    /\ phase' \in {phase, "FAILED"}
    /\ work' = None
    /\ UNCHANGED <<storeVars, signals, commands, positions>>

(* The entry order is sent, on the assessment made above, and fills.  What *)
(* a later claim finds of it is in module ExecutionWorker: no entry order  *)
(* is sent for the signal again.                                           *)
Enter ==
    /\ InHand("ASSESSED")
    /\ commands' = [commands EXCEPT ![work.key] = "ENTERED"]
    /\ positions' = [positions EXCEPT ![work.key.cand.symbol] = work.key]
    /\ work' = None
    /\ UNCHANGED <<storeVars, phase, signals>>

(* The position is closed by its protection or by hand.                    *)
Close(s) ==
    /\ positions[s] # None
    /\ positions' = [positions EXCEPT ![s] = None]
    /\ UNCHANGED <<storeVars, phase, signals, commands, work>>

-----------------------------------------------------------------------------
(* Startup recovery.                                                       *)

(* Every ACTIVE signal must have a QUALIFIED candidate that is not         *)
(* expired.                                                                *)
Revalidates(sigs, cs) ==
    \A k \in Active(sigs) :
        /\ k.cand \in DOMAIN cs
        /\ cs[k.cand].life = "QUALIFIED"
        /\ cs[k.cand].qual # None
        /\ now < cs[k.cand].qual

(* The scan of recover() ends: unless it is COMPLETED and every ACTIVE     *)
(* signal is revalidated, the gate stays shut for the process's life.      *)
EndRecovery ==
    /\ phase = "RECOVERING"
    /\ IF latest'.status = "COMPLETED"
       THEN LET sigs == Synced(cand', latest', signals)
            IN  /\ signals' = sigs
                /\ phase' = IF Revalidates(sigs, cand') THEN "READY" ELSE "FAILED"
       ELSE phase' = "FAILED" /\ UNCHANGED signals
    /\ UNCHANGED <<commands, work, positions>>

RecoveryScan ==
    \/ /\ phase = "RECOVERING" /\ BeginFull(TRUE)
       /\ UNCHANGED pipelineVars
    \/ /\ FailRun
       /\ EndRecovery
    \/ /\ \E ev \in [Symbol -> Evaluation(run.at)] : EndFull(ev)
       /\ EndRecovery

(* The process ends, whatever its worker has in hand, and another starts.  *)
Restart ==
    /\ started < MaxRuns
    /\ Forgotten
    /\ run' = Idle
    /\ phase' = "RECOVERING"
    /\ work' = None
    /\ UNCHANGED <<now, started, signals, commands, positions>>

-----------------------------------------------------------------------------

Scanning ==
    /\ phase # "RECOVERING"
    /\ RunStep
    /\ UNCHANGED pipelineVars

Next ==
    \/ Tick /\ UNCHANGED pipelineVars
    \/ Scanning
    \/ RecoveryScan
    \/ ReadSignals
    \/ \E k \in DOMAIN Synced(cand, latest, signals) : Enqueue(k)
    \/ \E k \in DOMAIN commands : Revalidate(k) \/ Block(k)
    \/ Assess \/ Refuse \/ GiveUp \/ Enter
    \/ \E s \in Symbol : Close(s)
    \/ Restart

Spec == Init /\ [][Next]_vars

-----------------------------------------------------------------------------
(* Properties.                                                             *)

(* However signals, commands and restarts interleave, the open positions   *)
(* never exceed the slots or the margin that the settings allow: commands  *)
(* are queued against different pictures of the account, positions are     *)
(* closed and signals change between the worker's steps, and only its own  *)
(* assessments keep the sum within the limits                              *)
(* (RiskService._build_assessments, DemoExecutionService.activate).        *)
ExposureBounded ==
    /\ Cardinality(Open(positions)) <= MaxOpenTrades
    /\ MarginSum(Open(positions)) <= MaxMargin

(* At time t neither the setup of the signal has ended nor the entry       *)
(* candle that made it READY.                                              *)
WithinSetup(k, t) == t < ExpiresAt(k.cand) /\ t < k.version + QualLife

(* Every entry was proved by a revalidation of this process before its     *)
(* setup and its entry candle ended, however long its command waited, was  *)
(* given up and claimed again, and however often its signal was decided    *)
(* anew (SignalDecisionEngine._decision_expiry, _validate_signal).  The    *)
(* order itself may be sent after that end: from the revalidation on       *)
(* nothing compares the expiry with the clock.                             *)
EntryProvedWithinSetup ==
    [][\A s \in Symbol :
        positions[s] = None /\ positions'[s] # None =>
            /\ work # None /\ work.key = positions'[s]
            /\ WithinSetup(work.key, work.proved)]_vars

(* After a COMPLETED run, whoever reads the signals finds ACTIVE only      *)
(* current decisions: the candidate is there, its evidence has that        *)
(* version, and it is READY (_synchronize).  The exception is a candidate  *)
(* that a refresh still under way, or cancelled, has ended and pruned: a   *)
(* signal that was read since the recorded run waits for the next one.     *)
CompletedRunLeavesCurrent ==
    LET sigs == Synced(cand, latest, signals)
    IN  latest.status = "COMPLETED" =>
        \A k \in Active(sigs) :
            \/ /\ k.cand \in DOMAIN cand
               /\ cand[k.cand].version = k.version
               /\ Decide(cand[k.cand], k.cand) = "ACTIVE"
            \/ /\ k.cand \in ended \ DOMAIN cand
               /\ latest.at < sigs[k].updated
=============================================================================
