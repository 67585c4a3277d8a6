--------------------------- MODULE AccountSnapshot --------------------------
(***************************************************************************)
(* The shared account snapshot: AccountSnapshotService and the order path  *)
(* of SnapshotAwarePrivateClient (src/app/services/account_snapshot.py).   *)
(*                                                                         *)
(* Threads of the API, of the risk service and of the execution worker     *)
(* share one cached picture of the Binance Demo account.  A get() that     *)
(* finds no fresh picture polls the exchange outside the lock, or waits on *)
(* the condition variable for the thread that is already polling.  Orders  *)
(* change the account and then discard the picture.                        *)
(*                                                                         *)
(* The account is abstracted to the number of changes made to it: a        *)
(* snapshot holds the number its balances and its positions were read at,  *)
(* in two calls, and the time it claims.  snapshot_id is the hash of that  *)
(* content, so it is the snapshot itself.                                  *)
(***************************************************************************)
EXTENDS Integers, Sequences, FiniteSets

CONSTANTS
    Thread,      \* threads that use the service
    Freshness,   \* freshness_seconds
    NoSnapshot,  \* _snapshot is None
    NoAnswer,    \* the thread's call has returned nothing (yet)
    MaxNow,      \* bound: the clock saturates here
    MaxCalls,    \* bound: calls of get()
    MaxChanges,  \* bound: changes of the account
    MaxFailures  \* bound: polls that fail

ASSUME SnapshotAssumption ==
    /\ Freshness \in Nat
    /\ MaxNow \in Nat
    /\ MaxCalls \in Nat
    /\ MaxChanges \in Nat
    /\ MaxFailures \in Nat
    /\ NoSnapshot \notin [capturedAt : Nat, balances : Nat, positions : Nat]

VARIABLES
    clock,        \* now_provider
    changes,      \* the times at which the account changed, in order
    cache,        \* _snapshot
    refreshing,   \* _refreshing
    refreshCount, \* _refresh_count
    pc,           \* what each thread does next
    call,         \* the arguments of its call, and what was so at its start
    draft,        \* the snapshot it is fetching
    answer,       \* what its last call returned, and when
    calls,        \* calls so far
    failures      \* failed polls so far

shared == <<cache, refreshing, refreshCount>>
vars == <<clock, changes, shared, pc, call, draft, answer, calls,
          failures>>

Version == Len(changes)

Snapshot == [capturedAt : 0 .. MaxNow, balances : 0 .. MaxChanges,
             positions : 0 .. MaxChanges]

Fetching == {"balances", "positions", "publish"}

NoCall == [forced |-> FALSE, observed |-> NoSnapshot, since |-> 0]

NoDraft == [capturedAt |-> 0, balances |-> 0, positions |-> 0]

-----------------------------------------------------------------------------
Init ==
    /\ clock = 0
    /\ changes = <<>>
    /\ cache = NoSnapshot
    /\ refreshing = FALSE
    /\ refreshCount = 0
    /\ pc = [t \in Thread |-> "idle"]
    /\ call = [t \in Thread |-> NoCall]
    /\ draft = [t \in Thread |-> NoDraft]
    /\ answer = [t \in Thread |-> NoAnswer]
    /\ calls = 0
    /\ failures = 0

(* Time passes; the clock stops moving at its bound.                       *)
Tick ==
    /\ clock' = IF clock < MaxNow THEN clock + 1 ELSE clock
    /\ UNCHANGED <<changes, shared, pc, call, draft, answer, calls,
                   failures>>

Goto(t, step) == pc' = [pc EXCEPT ![t] = step]

(* notify_all: every waiter will take the lock again.                      *)
Notified == [t \in Thread |-> IF pc[t] = "waiting" THEN "woken" ELSE pc[t]]

Fresh(s) == s # NoSnapshot /\ clock - s.capturedAt <= Freshness

(* A snapshot is returned; hit says that it was polled by another call.    *)
Return(t, s, hit, serial) ==
    answer' = [answer EXCEPT ![t] = [snapshot |-> s, at |-> clock,
                                     hit |-> hit, serial |-> serial]]

(* The thread becomes the one that polls; captured_at is the time at which *)
(* it starts.                                                              *)
Poll(t) ==
    /\ refreshing' = TRUE
    /\ Goto(t, "balances")
    /\ draft' = [draft EXCEPT ![t] = [NoDraft EXCEPT !.capturedAt = clock]]
    /\ UNCHANGED <<cache, refreshCount>>

(* get(): a fresh snapshot answers an unforced call; otherwise the thread  *)
(* waits for the poll that is under way, or polls.                         *)
Get(t, forced) ==
    /\ pc[t] = "idle"
    /\ calls < MaxCalls
    /\ calls' = calls + 1
    /\ call' = [call EXCEPT ![t] =
                   [forced |-> forced, observed |-> cache,
                    since |-> refreshCount]]
    /\ \/ /\ ~forced /\ Fresh(cache)
          /\ Return(t, cache, TRUE, refreshCount)
          /\ UNCHANGED <<shared, pc, draft>>
       \/ /\ forced \/ ~Fresh(cache)
          /\ answer' = [answer EXCEPT ![t] = NoAnswer]
          /\ \/ refreshing /\ Goto(t, "waiting") /\ UNCHANGED <<shared, draft>>
             \/ ~refreshing /\ Poll(t)
    /\ UNCHANGED <<clock, changes, failures>>

(* Mutated form of Satisfies: any snapshot satisfies a waiter.             *)
SatisfiesAny(t, s) == s # NoSnapshot

(* Mutated form of Satisfies: a discarded snapshot is not looked for.      *)
SatisfiesNone(t, s) == IF call[t].forced THEN s # call[t].observed ELSE Fresh(s)

(* What a woken waiter accepts: for a forced call a snapshot other than    *)
(* the one it saw when it was made, for an unforced one a fresh snapshot.  *)
Satisfies(t, s) ==
    /\ s # NoSnapshot
    /\ IF call[t].forced THEN s # call[t].observed ELSE Fresh(s)

(* Mutated form of Wake: the waiter does not look at _refreshing again.    *)
WakeUnchecked(t) ==
    /\ pc[t] = "woken"
    /\ \/ /\ Satisfies(t, cache)
          /\ Return(t, cache, TRUE, refreshCount)
          /\ Goto(t, "idle")
          /\ UNCHANGED <<shared, draft>>
       \/ ~Satisfies(t, cache) /\ Poll(t) /\ UNCHANGED answer
    /\ UNCHANGED <<clock, changes, call, calls, failures>>

(* The body of the wait loop once the waiter has the lock again.           *)
Wake(t) ==
    /\ pc[t] = "woken"
    /\ \/ /\ Satisfies(t, cache)
          /\ Return(t, cache, TRUE, refreshCount)
          /\ Goto(t, "idle")
          /\ UNCHANGED <<shared, draft>>
       \/ /\ ~Satisfies(t, cache)
          /\ UNCHANGED answer
          /\ \/ refreshing /\ Goto(t, "waiting") /\ UNCHANGED <<shared, draft>>
             \/ ~refreshing /\ Poll(t)
    /\ UNCHANGED <<clock, changes, call, calls, failures>>

(* _refresh(): the account, then the positions; the income of the day, the *)
(* last call, ends at captured_at and only adds one more way to fail.      *)
ReadBalances(t) ==
    /\ pc[t] = "balances"
    /\ draft' = [draft EXCEPT ![t].balances = Version]
    /\ Goto(t, "positions")
    /\ UNCHANGED <<clock, changes, shared, call, answer, calls, failures>>

ReadPositions(t) ==
    /\ pc[t] = "positions"
    /\ draft' = [draft EXCEPT ![t].positions = Version]
    /\ Goto(t, "publish")
    /\ UNCHANGED <<clock, changes, shared, call, answer, calls, failures>>

(* Mutated form of Fail: the exception leaves _refreshing set.             *)
FailLocked(t) ==
    /\ pc[t] \in Fetching
    /\ failures < MaxFailures
    /\ failures' = failures + 1
    /\ pc' = [Notified EXCEPT ![t] = "idle"]
    /\ draft' = [draft EXCEPT ![t] = NoDraft]
    /\ UNCHANGED <<clock, changes, shared, call, answer, calls>>

(* A call of the poll fails, or a payload is refused: the waiters are      *)
(* woken, the cache keeps what it had, and the exception reaches the       *)
(* caller.                                                                 *)
Fail(t) ==
    /\ pc[t] \in Fetching
    /\ failures < MaxFailures
    /\ failures' = failures + 1
    /\ refreshing' = FALSE
    /\ pc' = [Notified EXCEPT ![t] = "idle"]
    /\ draft' = [draft EXCEPT ![t] = NoDraft]
    /\ UNCHANGED <<clock, changes, cache, refreshCount, call, answer, calls>>

(* Mutated form of Publish: captured_at is the time at which the poll      *)
(* ended.                                                                  *)
PublishStampedLate(t) ==
    /\ pc[t] = "publish"
    /\ cache' = [draft[t] EXCEPT !.capturedAt = clock]
    /\ refreshing' = FALSE
    /\ refreshCount' = refreshCount + 1
    /\ pc' = [Notified EXCEPT ![t] = "idle"]
    /\ Return(t, cache', FALSE, refreshCount + 1)
    /\ draft' = [draft EXCEPT ![t] = NoDraft]
    /\ UNCHANGED <<clock, changes, call, calls, failures>>

(* The poll is over: publish it, wake the waiters and return it.           *)
Publish(t) ==
    /\ pc[t] = "publish"
    /\ cache' = draft[t]
    /\ refreshing' = FALSE
    /\ refreshCount' = refreshCount + 1
    /\ pc' = [Notified EXCEPT ![t] = "idle"]
    /\ Return(t, draft[t], FALSE, refreshCount + 1)
    /\ draft' = [draft EXCEPT ![t] = NoDraft]
    /\ UNCHANGED <<clock, changes, call, calls, failures>>

(* place_market_order: the account changes.  With an answer the caller     *)
(* goes on to invalidate(); a lost answer raises before it.  Fills of the  *)
(* exchange's own, such as a triggered stop, look like the second case.    *)
PlaceOrder(t) ==
    /\ pc[t] = "idle"
    /\ Version < MaxChanges
    /\ changes' = Append(changes, clock)
    /\ \E step \in {"placed", "idle"} : Goto(t, step)
    /\ UNCHANGED <<clock, shared, call, draft, answer, calls, failures>>

(* invalidate()                                                            *)
Invalidate(t) ==
    /\ pc[t] = "placed"
    /\ cache' = NoSnapshot
    /\ pc' = [Notified EXCEPT ![t] = "idle"]
    /\ UNCHANGED <<clock, changes, refreshing, refreshCount, call, draft,
                   answer, calls, failures>>

-----------------------------------------------------------------------------
Work(t) ==
    \/ Wake(t) \/ ReadBalances(t) \/ ReadPositions(t) \/ Publish(t)
    \/ Invalidate(t)

Next ==
    \/ Tick
    \/ \E t \in Thread :
          \/ \E forced \in BOOLEAN : Get(t, forced)
          \/ Work(t)
          \/ Fail(t)
          \/ PlaceOrder(t)

Spec == Init /\ [][Next]_vars

(* Every thread that holds or waits for the lock, or polls the exchange,   *)
(* gets on: the HTTP client of a poll has a timeout.                       *)
FairSpec == Spec /\ \A t \in Thread : WF_vars(Work(t) \/ Fail(t))

-----------------------------------------------------------------------------
(* Properties.                                                             *)

(* Every variable is well formed.                                          *)
TypeOK ==
    /\ clock \in 0 .. MaxNow
    /\ changes \in Seq(0 .. MaxNow) /\ Len(changes) <= MaxChanges
    /\ cache \in Snapshot \cup {NoSnapshot}
    /\ refreshing \in BOOLEAN
    /\ refreshCount \in Nat
    /\ pc \in [Thread -> {"idle", "waiting", "woken", "placed"} \cup Fetching]
    /\ call \in [Thread -> [forced : BOOLEAN,
                            observed : Snapshot \cup {NoSnapshot},
                            since : Nat]]
    /\ draft \in [Thread -> Snapshot]
    /\ answer \in [Thread -> [snapshot : Snapshot, at : 0 .. MaxNow,
                              hit : BOOLEAN, serial : Nat] \cup {NoAnswer}]
    /\ calls \in 0 .. MaxCalls
    /\ failures \in 0 .. MaxFailures

(* Concurrent refreshers share one poll: _refreshing is set exactly while  *)
(* one thread polls, and never two do, although the poll runs outside the  *)
(* lock and may fail at any of its calls.                                  *)
SingleFlight ==
    /\ refreshing <=> \E t \in Thread : pc[t] \in Fetching
    /\ \A t, u \in Thread : pc[t] \in Fetching /\ pc[u] \in Fetching => t = u

(* force_refresh() never answers with state that was there when it was     *)
(* called: the snapshot it returns was published after the call began.     *)
ForcedAnswerIsNew ==
    \A t \in Thread :
        answer[t] # NoAnswer /\ call[t].forced
        => answer[t].serial > call[t].since

(* Staleness is bounded: an answer shows every change made before its      *)
(* captured_at, in its balances as in its positions, and one that was      *)
(* taken from the cache by an unforced call also every change that is      *)
(* older than Freshness.                                                   *)
AnswerShowsOldChanges ==
    \A t \in Thread : answer[t] # NoAnswer =>
        LET s == answer[t].snapshot
        IN  \A i \in 1 .. Version :
               (\/ changes[i] < s.capturedAt
                \/ /\ answer[t].hit /\ ~call[t].forced
                   /\ changes[i] < answer[t].at - Freshness)
               => s.balances >= i /\ s.positions >= i

(* No call hangs: every call of get() and every order returns, whichever   *)
(* polls fail and whoever is woken first.                                  *)
EveryCallReturns == \A t \in Thread : pc[t] # "idle" ~> pc[t] = "idle"
=============================================================================
