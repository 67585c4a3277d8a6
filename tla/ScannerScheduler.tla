-------------------------- MODULE ScannerScheduler --------------------------
(***************************************************************************)
(* When the scanner runs, on several instances that share one database:    *)
(* start() and stop(), the scheduler loop they create and cancel, manual   *)
(* runs, and the advisory lock that makes one instance the scheduler       *)
(* (ScannerRuntimeBase, ScannerSchedulerLease).                            *)
(*                                                                         *)
(* Each action is what one task does between two awaits.  cancel() only    *)
(* asks: a run that is cancelled ends at its next await, after others may  *)
(* have been scheduled, so it is "dying" in between.  PostgreSQL is        *)
(* configured and ownership required (ownership_required); what a run does *)
(* to the candidates is module CandidateStore.                             *)
(*                                                                         *)
(* Abstraction.  The times of the next scan and refresh are unset, in the  *)
(* future, or due.                                                         *)
(***************************************************************************)
EXTENDS Naturals, FiniteSets

CONSTANTS
    Instance,   \* processes that run the application
    None        \* Python's None

ASSUME SchedulerAssumption == None \notin Instance

VARIABLES
    lock,       \* instance whose session holds the advisory lock, or None
    kept,       \* the session with the lock keeps it when it is released
    conn,       \* _connection: none, live, or lost (its queries fail)
    state,      \* _state
    loop,       \* _scheduler_task: none, done, or where the loop is
    dying,      \* the run that a cancelled loop is still in, or none
    manual,     \* a run of POST /scanner/run-now is under way
    nextFull,   \* _next_full_scan_at
    nextRefresh,\* _next_refresh_at
    late        \* auxiliary: scheduled runs begun since the session was lost

vars ==
    <<lock, kept, conn, state, loop, dying, manual, nextFull, nextRefresh, late>>

(* A loop at the top of its body (ready) or in a run; fullRefresh is a     *)
(* full scan in an iteration that found a refresh due as well.             *)
InRun == {"full", "fullRefresh", "refresh"}
Due == {"none", "later", "due"}

TypeOK ==
    /\ lock \in Instance \cup {None}
    /\ kept \in BOOLEAN
    /\ conn \in [Instance -> {"none", "live", "lost"}]
    /\ state \in [Instance -> {"ON", "OFF"}]
    /\ loop \in [Instance -> {"none", "done", "ready"} \cup InRun]
    /\ dying \in [Instance -> {"none"} \cup InRun]
    /\ manual \in [Instance -> BOOLEAN]
    /\ nextFull \in [Instance -> Due]
    /\ nextRefresh \in [Instance -> Due]
    /\ late \in [Instance -> 0..1]

Init ==
    /\ lock = None
    /\ kept = FALSE
    /\ conn = [i \in Instance |-> "none"]
    /\ state = [i \in Instance |-> "OFF"]
    /\ loop = [i \in Instance |-> "none"]
    /\ dying = [i \in Instance |-> "none"]
    /\ manual = [i \in Instance |-> FALSE]
    /\ nextFull = [i \in Instance |-> "none"]
    /\ nextRefresh = [i \in Instance |-> "none"]
    /\ late = [i \in Instance |-> 0]

(* _run_active and the shared lock: some run of the instance is under way. *)
Busy(i) == loop[i] \in InRun \/ dying[i] # "none" \/ manual[i]

-----------------------------------------------------------------------------
(* The environment: time, and sessions that end.                           *)

FullDue(i) ==
    /\ nextFull[i] = "later"
    /\ nextFull' = [nextFull EXCEPT ![i] = "due"]
    /\ UNCHANGED <<lock, kept, conn, state, loop, dying, manual, nextRefresh, late>>

RefreshDue(i) ==
    /\ nextRefresh[i] = "later"
    /\ nextRefresh' = [nextRefresh EXCEPT ![i] = "due"]
    /\ UNCHANGED <<lock, kept, conn, state, loop, dying, manual, nextFull, late>>

(* The session that has the lock ends, and the lock with it.               *)
Unlocked == lock' = None /\ kept' = FALSE

LoseSession(i) ==
    /\ conn[i] = "live"
    /\ conn' = [conn EXCEPT ![i] = "lost"]
    /\ Unlocked
    /\ UNCHANGED <<state, loop, dying, manual, nextFull, nextRefresh, late>>

(* The connection fails and its session goes on.  The code closes such a   *)
(* connection without unlocking: back in the pool, its session has the     *)
(* lock until it ends.                                                     *)
StrandSession(i) ==
    /\ conn[i] = "live"
    /\ conn' = [conn EXCEPT ![i] = "lost"]
    /\ kept' = TRUE
    /\ UNCHANGED <<lock, state, loop, dying, manual, nextFull, nextRefresh, late>>

(* A session in the pool that has the lock ends.                           *)
EndSession(i) ==
    /\ lock = i
    /\ conn[i] # "live"
    /\ Unlocked
    /\ UNCHANGED <<conn, state, loop, dying, manual, nextFull, nextRefresh, late>>

-----------------------------------------------------------------------------
(* start, stop, status, run_now.                                           *)

(* Mutated form of Ensured: only a scheduler that never existed is made.   *)
EnsuredOnce(l) == IF l = "none" THEN "ready" ELSE l

(* _ensure_scheduler: a task that is missing or done is replaced.          *)
Ensured(l) == IF l \in {"none", "done"} THEN "ready" ELSE l

(* Mutated form of FirstFull: the time of the last start is kept.          *)
FirstFullKept(due) == due

(* The first full scan after start() is due at once.                       *)
FirstFull(due) == "due"

(* acquire() can succeed: the session holds the lock already, or the lock  *)
(* is free, or the pool hands out the session that has kept it.  A         *)
(* connection that no longer proves the lock is given up first.            *)
Acquires(i) == lock \in {None, i}

(* start() takes the lock, ...                                             *)
Start(i) ==
    /\ state[i] = "OFF"
    /\ Acquires(i)
    /\ lock' = i
    /\ conn' = [conn EXCEPT ![i] = "live"]
    /\ state' = [state EXCEPT ![i] = "ON"]
    /\ nextFull' = [nextFull EXCEPT ![i] = FirstFull(@)]
    /\ nextRefresh' = [nextRefresh EXCEPT ![i] = "none"]
    /\ loop' = [loop EXCEPT ![i] = Ensured(@)]
    /\ late' = [late EXCEPT ![i] = 0]
    /\ UNCHANGED <<kept, dying, manual>>

(* ... or leaves the scanner OFF: another session has the lock, which may  *)
(* be one of the instance's own pool, or the database fails.               *)
StartRefused(i) ==
    /\ state[i] = "OFF"
    /\ conn[i] # "live"
    /\ conn' = [conn EXCEPT ![i] = "none"]
    /\ UNCHANGED <<lock, kept, state, loop, dying, manual, nextFull, nextRefresh,
                   late>>

(* release(): the lock is given back, if the session still has it, and the *)
(* connection with it.  A session that took the lock again on top of one   *)
(* it had kept holds it twice, and still has it afterwards.                *)
Release(i) ==
    /\ lock' = IF conn[i] = "live" /\ ~kept THEN None ELSE lock
    /\ conn' = [conn EXCEPT ![i] = "none"]

(* stop() cancels the loop and releases the lock without waiting for the   *)
(* run the loop is in.                                                     *)
Stop(i) ==
    /\ state' = [state EXCEPT ![i] = "OFF"]
    /\ nextFull' = [nextFull EXCEPT ![i] = "none"]
    /\ nextRefresh' = [nextRefresh EXCEPT ![i] = "none"]
    /\ dying' = [dying EXCEPT ![i] = IF loop[i] \in InRun THEN loop[i] ELSE @]
    /\ loop' = [loop EXCEPT ![i] = "none"]
    /\ Release(i)
    /\ UNCHANGED <<kept, manual, late>>

(* status() asks the lease whether it is held, which forgets a connection  *)
(* that fails.                                                             *)
Status(i) ==
    /\ conn[i] = "lost"
    /\ conn' = [conn EXCEPT ![i] = "none"]
    /\ UNCHANGED <<lock, kept, state, loop, dying, manual, nextFull, nextRefresh,
                   late>>

(* run_now() needs neither the lock nor the scanner to be ON.  Beside      *)
(* another run it is SKIPPED and changes nothing here.                     *)
RunNow(i) ==
    /\ ~Busy(i)
    /\ manual' = [manual EXCEPT ![i] = TRUE]
    /\ UNCHANGED <<lock, kept, conn, state, loop, dying, nextFull, nextRefresh,
                   late>>

(* The process dies; its sessions end with it.                             *)
Crash(i) ==
    /\ IF lock = i THEN Unlocked ELSE UNCHANGED <<lock, kept>>
    /\ conn' = [conn EXCEPT ![i] = "none"]
    /\ state' = [state EXCEPT ![i] = "OFF"]
    /\ loop' = [loop EXCEPT ![i] = "none"]
    /\ dying' = [dying EXCEPT ![i] = "none"]
    /\ manual' = [manual EXCEPT ![i] = FALSE]
    /\ nextFull' = [nextFull EXCEPT ![i] = "none"]
    /\ nextRefresh' = [nextRefresh EXCEPT ![i] = "none"]
    /\ late' = [late EXCEPT ![i] = 0]

-----------------------------------------------------------------------------
(* The scheduler loop.                                                     *)

(* Mutated form of Validated: the connection object is enough, its session *)
(* is not asked.                                                           *)
ValidatedLocally(i) == conn[i] # "none"

(* validate_current_ownership: the connection proves that its session      *)
(* holds the lock.                                                         *)
Validated(i) == conn[i] = "live"

(* A scheduled run of the instance begins.                                 *)
Begin(i, kind) ==
    /\ loop' = [loop EXCEPT ![i] = kind]
    /\ late' = [late EXCEPT ![i] = IF conn[i] = "live" THEN @ ELSE @ + 1]

(* The loop finds the lock lost: the scanner goes OFF and stays OFF until  *)
(* someone starts it.                                                      *)
FailClosed(i) ==
    /\ loop[i] = "ready"
    /\ state[i] = "ON"
    /\ ~Validated(i)
    /\ conn' = [conn EXCEPT ![i] = "none"]
    /\ state' = [state EXCEPT ![i] = "OFF"]
    /\ nextFull' = [nextFull EXCEPT ![i] = "none"]
    /\ nextRefresh' = [nextRefresh EXCEPT ![i] = "none"]
    /\ loop' = [loop EXCEPT ![i] = "done"]
    /\ UNCHANGED <<lock, kept, dying, manual, late>>

(* A full scan is due and nothing is running.                              *)
IterateFull(i) ==
    /\ loop[i] = "ready" /\ state[i] = "ON" /\ Validated(i)
    /\ nextFull[i] = "due"
    /\ ~Busy(i)
    /\ Begin(i, IF nextRefresh[i] = "due" THEN "fullRefresh" ELSE "full")
    /\ UNCHANGED <<lock, kept, conn, state, dying, manual, nextFull, nextRefresh>>

(* A refresh is due, and a full scan is not due, or is SKIPPED beside a    *)
(* manual or a dying run and stays due.  The same run skips the refresh    *)
(* too, until its next boundary.                                           *)
IterateRefresh(i) ==
    /\ loop[i] = "ready" /\ state[i] = "ON" /\ Validated(i)
    /\ nextFull[i] = "due" => Busy(i)
    /\ nextRefresh[i] = "due"
    /\ IF Busy(i)
       THEN /\ nextRefresh' = [nextRefresh EXCEPT ![i] = "later"]
            /\ UNCHANGED <<loop, late>>
       ELSE Begin(i, "refresh") /\ UNCHANGED nextRefresh
    /\ UNCHANGED <<lock, kept, conn, state, dying, manual, nextFull>>

-----------------------------------------------------------------------------
(* The end of a run.                                                       *)

(* The finally block of full_scan: whoever ran it, an enabled scanner      *)
(* scans again after the interval.                                         *)
Rescheduled(i) ==
    IF state[i] = "ON"
    THEN /\ nextFull' = [nextFull EXCEPT ![i] = "later"]
         /\ nextRefresh' = [nextRefresh EXCEPT
                ![i] = IF @ = "none" THEN "later" ELSE @]
    ELSE UNCHANGED <<nextFull, nextRefresh>>

(* The loop's full scan ends.  A refresh that was due when the iteration   *)
(* began follows without another look at the lock.                         *)
EndFull(i) ==
    /\ loop[i] \in {"full", "fullRefresh"}
    /\ Rescheduled(i)
    /\ IF loop[i] = "fullRefresh"
       THEN Begin(i, "refresh")
       ELSE loop' = [loop EXCEPT ![i] = "ready"] /\ UNCHANGED late
    /\ UNCHANGED <<lock, kept, conn, state, dying, manual>>

EndRefresh(i) ==
    /\ loop[i] = "refresh"
    /\ loop' = [loop EXCEPT ![i] = "ready"]
    /\ nextRefresh' = [nextRefresh EXCEPT ![i] = "later"]
    /\ UNCHANGED <<lock, kept, conn, state, dying, manual, nextFull, late>>

(* The cancelled run reaches its await.  Its finally block sees the state  *)
(* of now, which a start() may have set again.                             *)
EndDying(i) ==
    /\ dying[i] # "none"
    /\ dying' = [dying EXCEPT ![i] = "none"]
    /\ IF dying[i] = "refresh" THEN UNCHANGED <<nextFull, nextRefresh>>
       ELSE Rescheduled(i)
    /\ UNCHANGED <<lock, kept, conn, state, loop, manual, late>>

EndManual(i) ==
    /\ manual[i]
    /\ manual' = [manual EXCEPT ![i] = FALSE]
    /\ Rescheduled(i)
    /\ UNCHANGED <<lock, kept, conn, state, loop, dying, late>>

-----------------------------------------------------------------------------

Iterate(i) == FailClosed(i) \/ IterateFull(i) \/ IterateRefresh(i)
EndRun(i) == EndFull(i) \/ EndRefresh(i) \/ EndDying(i) \/ EndManual(i)

Next ==
    \E i \in Instance :
        \/ FullDue(i) \/ RefreshDue(i)
        \/ LoseSession(i) \/ StrandSession(i) \/ EndSession(i)
        \/ Start(i) \/ StartRefused(i) \/ Stop(i) \/ Status(i) \/ RunNow(i) \/ Crash(i)
        \/ Iterate(i) \/ EndRun(i)

(* The event loop runs every ready task, requests to the exchange time     *)
(* out, and time passes.                                                   *)
Fairness ==
    \A i \in Instance :
        /\ WF_vars(Iterate(i))
        /\ WF_vars(EndFull(i)) /\ WF_vars(EndRefresh(i))
        /\ WF_vars(EndDying(i)) /\ WF_vars(EndManual(i))
        /\ WF_vars(FullDue(i)) /\ WF_vars(RefreshDue(i))

Spec == Init /\ [][Next]_vars /\ Fairness

-----------------------------------------------------------------------------
(* Properties.                                                             *)

(* A scanner that reports ON has a loop that will scan: start() answers at *)
(* once when it finds ON, so nothing would repair one without              *)
(* (_ensure_scheduler, stop, the fail-closed branch of _scheduler_loop).   *)
EnabledHasScheduler ==
    \A i \in Instance : state[i] = "ON" => loop[i] \in {"ready"} \cup InRun

(* An instance that has lost the lock begins at most one more scheduled    *)
(* run, the refresh that was due beside a full scan, before it goes OFF:   *)
(* two instances never both schedule on (validate_current_ownership in     *)
(* _scheduler_loop).                                                       *)
AtMostOneRunAfterLoss == \A i \in Instance : late[i] <= 1

(* While the scanner stays ON, its instance runs full scans again and      *)
(* again, however manual runs, skipped runs and runs cancelled by an       *)
(* earlier stop() get in the way (full_scan, _skipped, _scheduler_loop).   *)
ScansRecur ==
    \A i \in Instance :
        <>[](state[i] = "ON") => []<>(manual[i] \/ loop[i] \in {"full", "fullRefresh"})
=============================================================================
