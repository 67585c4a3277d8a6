------------------------ MODULE AccountSnapshotProofs -----------------------
(***************************************************************************)
(* Theorems about AccountSnapshot, for any number of threads and any       *)
(* bounds: its types, that polls are single-flight, and that a forced call *)
(* never returns what was there when it was made.                          *)
(***************************************************************************)
EXTENDS AccountSnapshot, TLAPS

(* What a poll returns is a snapshot whatever it read.                     *)
LEMMA DraftType ==
    /\ NoDraft \in Snapshot
    /\ NoSnapshot \notin Snapshot
  BY SnapshotAssumption DEF NoDraft, Snapshot

(* Waking the waiters keeps pc well formed, and leaves the threads that    *)
(* poll alone.                                                             *)
LEMMA NotifiedShape ==
    ASSUME TypeOK
    PROVE  /\ Notified \in [Thread -> {"idle", "waiting", "woken", "placed"}
                                      \cup Fetching]
           /\ \A t \in Thread : Notified[t] \in Fetching <=> pc[t] \in Fetching
           /\ \A t \in Thread :
                 Notified[t] = pc[t] \/ (pc[t] = "waiting" /\ Notified[t] = "woken")
  BY DEF TypeOK, Notified, Fetching

(* Every step of the service, of a poll or of an order keeps the types.    *)
LEMMA TypeStep == TypeOK /\ [Next]_vars => TypeOK'
<1> SUFFICES ASSUME TypeOK, [Next]_vars PROVE TypeOK'
  OBVIOUS
<1> USE SnapshotAssumption, DraftType
<1>v. Version \in 0 .. MaxChanges
  BY DEF TypeOK, Version
<1>0. CASE UNCHANGED vars
  BY <1>0 DEF TypeOK, vars, shared
<1>1. CASE Tick
  BY <1>1 DEF TypeOK, Tick, shared
<1>2. ASSUME NEW t \in Thread, NEW forced \in BOOLEAN, Get(t, forced)
      PROVE  TypeOK'
  <2>0. call' \in [Thread -> [forced : BOOLEAN,
                              observed : Snapshot \cup {NoSnapshot},
                              since : Nat]]
    BY <1>2, <1>v DEF TypeOK, Get
  <2>c. calls' \in 0 .. MaxCalls
    BY <1>2 DEF TypeOK, Get
  <2>u. UNCHANGED <<clock, changes, failures>>
    BY <1>2 DEF Get
  <2>1. CASE ~forced /\ Fresh(cache) /\ Return(t, cache, TRUE, refreshCount)
             /\ UNCHANGED <<shared, pc, draft>>
    BY <2>0, <2>c, <2>u, <2>1 DEF TypeOK, Fresh, Return, shared
  <2>2. CASE /\ answer' = [answer EXCEPT ![t] = NoAnswer]
             /\ refreshing /\ Goto(t, "waiting") /\ UNCHANGED <<shared, draft>>
    BY <2>0, <2>c, <2>u, <2>2 DEF TypeOK, Goto, shared
  <2>3. CASE /\ answer' = [answer EXCEPT ![t] = NoAnswer]
             /\ ~refreshing /\ Poll(t)
    BY <2>0, <2>c, <2>u, <2>3 DEF TypeOK, Poll, Goto, Fetching, Snapshot, NoDraft
  <2> QED
    BY <1>2, <2>1, <2>2, <2>3 DEF Get
<1>3. ASSUME NEW t \in Thread, Wake(t)
      PROVE  TypeOK'
  <2>1. CASE Satisfies(t, cache) /\ Return(t, cache, TRUE, refreshCount)
             /\ Goto(t, "idle") /\ UNCHANGED <<shared, draft>>
    BY <1>3, <2>1 DEF TypeOK, Wake, Satisfies, Return, Goto, shared
  <2>2. CASE UNCHANGED answer /\ refreshing /\ Goto(t, "waiting")
             /\ UNCHANGED <<shared, draft>>
    BY <1>3, <2>2 DEF TypeOK, Wake, Goto, shared
  <2>3. CASE UNCHANGED answer /\ ~refreshing /\ Poll(t)
    BY <1>3, <2>3 DEF TypeOK, Wake, Poll, Goto, Fetching, Snapshot, NoDraft
  <2> QED
    BY <1>3, <2>1, <2>2, <2>3 DEF Wake
<1>4. ASSUME NEW t \in Thread, ReadBalances(t)
      PROVE  TypeOK'
  <2>1. draft' \in [Thread -> Snapshot]
    BY <1>4, <1>v DEF TypeOK, ReadBalances, Snapshot
  <2> QED
    BY <1>4, <2>1 DEF TypeOK, ReadBalances, Goto, shared, Fetching
<1>5. ASSUME NEW t \in Thread, ReadPositions(t)
      PROVE  TypeOK'
  <2>1. draft' \in [Thread -> Snapshot]
    BY <1>5, <1>v DEF TypeOK, ReadPositions, Snapshot
  <2> QED
    BY <1>5, <2>1 DEF TypeOK, ReadPositions, Goto, shared, Fetching
<1>6. ASSUME NEW t \in Thread, Publish(t)
      PROVE  TypeOK'
  <2>1. pc' \in [Thread -> {"idle", "waiting", "woken", "placed"} \cup Fetching]
    BY <1>6, NotifiedShape DEF Publish
  <2>2. answer' \in [Thread -> [snapshot : Snapshot, at : 0 .. MaxNow,
                                hit : BOOLEAN, serial : Nat] \cup {NoAnswer}]
    BY <1>6 DEF TypeOK, Publish, Return
  <2>3. refreshing' \in BOOLEAN
    BY <1>6 DEF Publish
  <2>4. draft' \in [Thread -> Snapshot] /\ cache' \in Snapshot
    BY <1>6 DEF TypeOK, Publish
  <2>5. refreshCount' \in Nat
    BY <1>6 DEF TypeOK, Publish
  <2>6. UNCHANGED <<clock, changes, call, calls, failures>>
    BY <1>6 DEF Publish
  <2> QED
    BY <2>1, <2>2, <2>3, <2>4, <2>5, <2>6 DEF TypeOK
<1>7. ASSUME NEW t \in Thread, Fail(t)
      PROVE  TypeOK'
  <2>1. pc' \in [Thread -> {"idle", "waiting", "woken", "placed"} \cup Fetching]
    BY <1>7, NotifiedShape DEF Fail
  <2>2. refreshing' \in BOOLEAN
    BY <1>7 DEF Fail
  <2>3. draft' \in [Thread -> Snapshot] /\ failures' \in 0 .. MaxFailures
    BY <1>7 DEF TypeOK, Fail
  <2>4. UNCHANGED <<clock, changes, cache, refreshCount, call, answer,
                    calls>>
    BY <1>7 DEF Fail
  <2> QED
    BY <2>1, <2>2, <2>3, <2>4 DEF TypeOK
<1>8. ASSUME NEW t \in Thread, PlaceOrder(t)
      PROVE  TypeOK'
  BY <1>8 DEF TypeOK, PlaceOrder, Goto, shared, Version
<1>9. ASSUME NEW t \in Thread, Invalidate(t)
      PROVE  TypeOK'
  BY <1>9, NotifiedShape DEF TypeOK, Invalidate, Version
<1> QED
  BY <1>0, <1>1, <1>2, <1>3, <1>4, <1>5, <1>6, <1>7, <1>8, <1>9
  DEF Next, Work

(* The variables of AccountSnapshotService keep their types: no poll       *)
(* stores anything but a snapshot, and no waiter is answered with None.    *)
THEOREM SnapshotTypeCorrect == Spec => []TypeOK
<1>1. Init => TypeOK
  <2> SUFFICES ASSUME Init PROVE TypeOK
    OBVIOUS
  <2>1. NoCall \in [forced : BOOLEAN, observed : Snapshot \cup {NoSnapshot},
                    since : Nat]
    BY SnapshotAssumption DEF NoCall
  <2>2. refreshing \in BOOLEAN
    BY DEF Init
  <2>3. /\ clock \in 0 .. MaxNow
        /\ calls \in 0 .. MaxCalls /\ failures \in 0 .. MaxFailures
        /\ refreshCount \in Nat
    BY SnapshotAssumption DEF Init
  <2>4. changes \in Seq(0 .. MaxNow) /\ Len(changes) <= MaxChanges
    BY SnapshotAssumption DEF Init
  <2>5. /\ pc \in [Thread -> {"idle", "waiting", "woken", "placed"} \cup Fetching]
        /\ cache \in Snapshot \cup {NoSnapshot}
        /\ draft \in [Thread -> Snapshot]
    BY DraftType DEF Init
  <2>6. answer \in [Thread -> [snapshot : Snapshot, at : 0 .. MaxNow,
                               hit : BOOLEAN, serial : Nat] \cup {NoAnswer}]
    BY DEF Init
  <2> QED
    BY <2>1, <2>2, <2>3, <2>4, <2>5, <2>6 DEF Init, TypeOK
<1> QED
  BY <1>1, TypeStep, PTL DEF Spec

-----------------------------------------------------------------------------
(* A step either leaves _refreshing and the set of polling threads as they *)
(* are, or turns one thread into the poller while nobody polls, or ends    *)
(* the poll of one thread.                                                 *)
LEMMA FlightShape ==
    ASSUME TypeOK, [Next]_vars
    PROVE  \/ /\ refreshing' <=> refreshing
              /\ \A u \in Thread : pc'[u] \in Fetching <=> pc[u] \in Fetching
           \/ /\ ~refreshing /\ refreshing'
              /\ \E t \in Thread :
                    /\ pc'[t] \in Fetching
                    /\ \A u \in Thread \ {t} : pc'[u] = pc[u]
           \/ /\ ~refreshing'
              /\ \E t \in Thread :
                    /\ pc[t] \in Fetching /\ pc'[t] \notin Fetching
                    /\ \A u \in Thread \ {t} :
                          pc'[u] \in Fetching <=> pc[u] \in Fetching
<1> DEFINE Same ==
       /\ refreshing' <=> refreshing
       /\ \A u \in Thread : pc'[u] \in Fetching <=> pc[u] \in Fetching
<1> DEFINE Begins ==
       /\ ~refreshing /\ refreshing'
       /\ \E t \in Thread :
             /\ pc'[t] \in Fetching
             /\ \A u \in Thread \ {t} : pc'[u] = pc[u]
<1> DEFINE Ends ==
       /\ ~refreshing'
       /\ \E t \in Thread :
             /\ pc[t] \in Fetching /\ pc'[t] \notin Fetching
             /\ \A u \in Thread \ {t} :
                   pc'[u] \in Fetching <=> pc[u] \in Fetching
<1>0. CASE UNCHANGED vars
  BY <1>0 DEF vars, shared
<1>1. CASE Tick
  BY <1>1 DEF Tick, shared
<1>p. ASSUME NEW t \in Thread, ~refreshing, Poll(t)
      PROVE  Begins
  <2>1. refreshing'
    BY <1>p DEF Poll
  <2>2. pc'[t] \in Fetching /\ \A u \in Thread \ {t} : pc'[u] = pc[u]
    BY <1>p DEF Poll, Goto, TypeOK, Fetching
  <2> QED
    BY <1>p, <2>1, <2>2
<1>w. ASSUME NEW t \in Thread, NEW step, step \notin Fetching,
             pc[t] \notin Fetching, Goto(t, step), UNCHANGED shared
      PROVE  Same
  <2>1. \A u \in Thread : pc'[u] \in Fetching <=> pc[u] \in Fetching
    BY <1>w DEF Goto, TypeOK
  <2>2. refreshing' <=> refreshing
    BY <1>w DEF shared
  <2> QED
    BY <2>1, <2>2
<1>2. ASSUME NEW t \in Thread, NEW forced \in BOOLEAN, Get(t, forced)
      PROVE  Same \/ Begins
  <2>1. CASE UNCHANGED <<shared, pc, draft>>
    BY <2>1 DEF shared
  <2>2. CASE Goto(t, "waiting") /\ UNCHANGED <<shared, draft>>
    <3>1. pc[t] \notin Fetching /\ "waiting" \notin Fetching
      BY <1>2 DEF Get, Fetching
    <3> QED
      BY <2>2, <3>1, <1>w
  <2>3. CASE ~refreshing /\ Poll(t)
    BY <2>3, <1>p
  <2> QED
    BY <1>2, <2>1, <2>2, <2>3 DEF Get
<1>3. ASSUME NEW t \in Thread, Wake(t)
      PROVE  Same \/ Begins
  <2>0. pc[t] \notin Fetching /\ "waiting" \notin Fetching /\ "idle" \notin Fetching
    BY <1>3 DEF Wake, Fetching
  <2>1. CASE Goto(t, "idle") /\ UNCHANGED <<shared, draft>>
    BY <2>0, <2>1, <1>w
  <2>2. CASE Goto(t, "waiting") /\ UNCHANGED <<shared, draft>>
    BY <2>0, <2>2, <1>w
  <2>3. CASE ~refreshing /\ Poll(t)
    BY <2>3, <1>p
  <2> QED
    BY <1>3, <2>1, <2>2, <2>3 DEF Wake
<1>4. ASSUME NEW t \in Thread, ReadBalances(t) \/ ReadPositions(t)
      PROVE  Same
  <2>1. \A u \in Thread : pc'[u] \in Fetching <=> pc[u] \in Fetching
    BY <1>4 DEF ReadBalances, ReadPositions, Goto, TypeOK, Fetching
  <2>2. refreshing' <=> refreshing
    BY <1>4 DEF ReadBalances, ReadPositions, shared
  <2> QED
    BY <2>1, <2>2
<1>5. ASSUME NEW t \in Thread, Publish(t) \/ Fail(t)
      PROVE  Ends
  <2>1. ~refreshing'
    BY <1>5 DEF Publish, Fail
  <2>2. pc[t] \in Fetching /\ pc' = [Notified EXCEPT ![t] = "idle"]
    BY <1>5 DEF Publish, Fail, Fetching
  <2>3. /\ pc'[t] \notin Fetching
        /\ \A u \in Thread \ {t} : pc'[u] \in Fetching <=> pc[u] \in Fetching
    BY <2>2, NotifiedShape DEF Fetching
  <2> QED
    BY <2>1, <2>2, <2>3
<1>6. ASSUME NEW t \in Thread, PlaceOrder(t)
      PROVE  Same
  <2>1. PICK step \in {"placed", "idle"} : Goto(t, step)
    BY <1>6 DEF PlaceOrder
  <2>2. pc[t] \notin Fetching /\ step \notin Fetching /\ UNCHANGED shared
    BY <1>6, <2>1 DEF PlaceOrder, Fetching
  <2> QED
    BY <2>1, <2>2, <1>w
<1>7. ASSUME NEW t \in Thread, Invalidate(t)
      PROVE  Same
  <2>1. pc[t] = "placed" /\ pc' = [Notified EXCEPT ![t] = "idle"]
    BY <1>7 DEF Invalidate
  <2>2. \A u \in Thread : pc'[u] \in Fetching <=> pc[u] \in Fetching
    BY <2>1, NotifiedShape DEF Fetching
  <2>3. refreshing' <=> refreshing
    BY <1>7 DEF Invalidate
  <2> QED
    BY <2>2, <2>3
<1> QED
  BY <1>0, <1>1, <1>2, <1>3, <1>4, <1>5, <1>6, <1>7 DEF Next, Work

(* At most one thread polls the exchange, and _refreshing says whether one *)
(* does, for any number of threads and whatever calls of a poll fail: the  *)
(* "concurrent refreshers share one private poll set" of get().            *)
THEOREM PollIsSingleFlight == Spec => []SingleFlight
<1>1. Init => SingleFlight
  BY DEF Init, SingleFlight, Fetching
<1>2. TypeOK /\ SingleFlight /\ [Next]_vars => SingleFlight'
  <2> SUFFICES ASSUME TypeOK, SingleFlight, [Next]_vars PROVE SingleFlight'
    OBVIOUS
  <2> QED
    BY FlightShape DEF SingleFlight
<1> QED
  BY <1>1, <1>2, SnapshotTypeCorrect, PTL DEF Spec

-----------------------------------------------------------------------------
(* What makes ForcedAnswerIsNew inductive: as long as nothing was          *)
(* published since a waiter's call, the cache holds what the waiter saw or *)
(* nothing, so a different snapshot can only be a newer one.               *)
WaiterSawTheCache ==
    \A t \in Thread :
        /\ call[t].since <= refreshCount
        /\ pc[t] \in {"waiting", "woken"} /\ call[t].since = refreshCount
           => cache \in {call[t].observed, NoSnapshot}

(* A step that leaves the calls, the answers and the counter alone, adds   *)
(* no waiter and at most empties the cache keeps both.                     *)
LEMMA QuietStep ==
    ASSUME TypeOK, WaiterSawTheCache, ForcedAnswerIsNew,
           UNCHANGED <<call, answer, refreshCount>>,
           cache' \in {cache, NoSnapshot},
           \A u \in Thread : pc'[u] \in {"waiting", "woken"}
                             => pc[u] \in {"waiting", "woken"}
    PROVE  WaiterSawTheCache' /\ ForcedAnswerIsNew'
  BY DEF WaiterSawTheCache, ForcedAnswerIsNew, TypeOK

(* No step lets a forced call return what it saw.                          *)
LEMMA ForcedStep ==
    ASSUME TypeOK, WaiterSawTheCache, ForcedAnswerIsNew, [Next]_vars
    PROVE  WaiterSawTheCache' /\ ForcedAnswerIsNew'
<1>0. CASE UNCHANGED vars
  BY <1>0, QuietStep DEF vars, shared
<1>1. CASE Tick
  BY <1>1, QuietStep DEF Tick, shared
<1>2. ASSUME NEW t \in Thread, NEW forced \in BOOLEAN, Get(t, forced)
      PROVE  WaiterSawTheCache' /\ ForcedAnswerIsNew'
  <2>1. /\ UNCHANGED <<cache, refreshCount>>
        /\ \A u \in Thread \ {t} : /\ pc'[u] = pc[u]
                                   /\ call'[u] = call[u]
                                   /\ answer'[u] = answer[u]
    BY <1>2 DEF Get, Poll, Goto, Return, shared, TypeOK
  <2>2. call'[t] = [forced |-> forced, observed |-> cache,
                    since |-> refreshCount]
    BY <1>2 DEF Get, TypeOK
  <2>3. answer'[t] # NoAnswer => ~forced
    BY <1>2 DEF Get, TypeOK
  <2>c. refreshCount \in Nat /\ cache' = cache /\ refreshCount' = refreshCount
    BY <2>1 DEF TypeOK
  <2>4. WaiterSawTheCache'
    <3>1. SUFFICES ASSUME NEW u \in Thread
                   PROVE  /\ call'[u].since <= refreshCount'
                          /\ pc'[u] \in {"waiting", "woken"}
                             /\ call'[u].since = refreshCount'
                             => cache' \in {call'[u].observed, NoSnapshot}
      BY DEF WaiterSawTheCache
    <3>2. CASE u = t
      BY <2>2, <2>c, <3>2
    <3>3. CASE u # t
      <4>1. pc'[u] = pc[u] /\ call'[u] = call[u]
        BY <2>1, <3>3
      <4> QED
        BY <2>c, <4>1 DEF WaiterSawTheCache
    <3> QED
      BY <3>2, <3>3
  <2>5. ForcedAnswerIsNew'
    BY <2>1, <2>2, <2>3 DEF ForcedAnswerIsNew, TypeOK
  <2> QED
    BY <2>4, <2>5
<1>3. ASSUME NEW t \in Thread, Wake(t)
      PROVE  WaiterSawTheCache' /\ ForcedAnswerIsNew'
  <2>0. UNCHANGED <<cache, refreshCount, call>>
    BY <1>3 DEF Wake, Poll, shared
  <2>1. \A u \in Thread : pc'[u] \in {"waiting", "woken"}
                          => pc[u] \in {"waiting", "woken"}
    BY <1>3 DEF Wake, Poll, Goto, TypeOK
  <2>2. WaiterSawTheCache'
    BY <2>0, <2>1 DEF WaiterSawTheCache, TypeOK
  <2>3. CASE UNCHANGED answer
    BY <2>0, <2>2, <2>3 DEF ForcedAnswerIsNew, TypeOK
  <2>4. CASE Satisfies(t, cache) /\ Return(t, cache, TRUE, refreshCount)
    <3>1. call[t].forced => refreshCount > call[t].since
      <4>1. SUFFICES ASSUME call[t].forced PROVE refreshCount > call[t].since
        OBVIOUS
      <4>2. cache # NoSnapshot /\ cache # call[t].observed
        BY <2>4, <4>1 DEF Satisfies
      <4> QED
        BY <1>3, <4>2 DEF WaiterSawTheCache, Wake, TypeOK
    <3>2. /\ answer'[t].serial = refreshCount
          /\ \A u \in Thread \ {t} : answer'[u] = answer[u]
      BY <2>4 DEF Return, TypeOK
    <3>3. ForcedAnswerIsNew'
      BY <2>0, <3>1, <3>2 DEF ForcedAnswerIsNew
    <3> QED
      BY <2>2, <3>3
  <2> QED
    BY <1>3, <2>3, <2>4 DEF Wake
<1>4. ASSUME NEW t \in Thread, ReadBalances(t) \/ ReadPositions(t)
      PROVE  WaiterSawTheCache' /\ ForcedAnswerIsNew'
  <2>1. UNCHANGED <<call, answer, refreshCount, cache>>
    BY <1>4 DEF ReadBalances, ReadPositions, shared
  <2>2. \A u \in Thread : pc'[u] \in {"waiting", "woken"}
                          => pc[u] \in {"waiting", "woken"}
    BY <1>4 DEF ReadBalances, ReadPositions, Goto, TypeOK
  <2> QED
    BY <2>1, <2>2, QuietStep
<1>5. ASSUME NEW t \in Thread, Publish(t)
      PROVE  WaiterSawTheCache' /\ ForcedAnswerIsNew'
  <2>1. refreshCount' = refreshCount + 1 /\ UNCHANGED call
    BY <1>5 DEF Publish
  <2>2. WaiterSawTheCache'
    BY <2>1 DEF WaiterSawTheCache, TypeOK
  <2>3. /\ answer'[t].serial = refreshCount + 1
        /\ \A u \in Thread \ {t} : answer'[u] = answer[u]
    BY <1>5 DEF Publish, Return, TypeOK
  <2>4. call[t].since \in Nat /\ call[t].since <= refreshCount /\ refreshCount \in Nat
    BY DEF WaiterSawTheCache, TypeOK
  <2>5. ForcedAnswerIsNew'
    BY <2>1, <2>3, <2>4 DEF ForcedAnswerIsNew
  <2> QED
    BY <2>2, <2>5
<1>6. ASSUME NEW t \in Thread, Fail(t) \/ Invalidate(t)
      PROVE  WaiterSawTheCache' /\ ForcedAnswerIsNew'
  <2>1. UNCHANGED <<call, answer, refreshCount>> /\ cache' \in {cache, NoSnapshot}
    BY <1>6 DEF Fail, Invalidate
  <2>2. pc' = [Notified EXCEPT ![t] = "idle"]
    BY <1>6 DEF Fail, Invalidate
  <2>3. \A u \in Thread : pc'[u] \in {"waiting", "woken"}
                          => pc[u] \in {"waiting", "woken"}
    BY <2>2, NotifiedShape
  <2> QED
    BY <2>1, <2>3, QuietStep
<1>7. ASSUME NEW t \in Thread, PlaceOrder(t)
      PROVE  WaiterSawTheCache' /\ ForcedAnswerIsNew'
  <2>1. UNCHANGED <<call, answer, refreshCount, cache>>
    BY <1>7 DEF PlaceOrder, shared
  <2>2. \A u \in Thread : pc'[u] \in {"waiting", "woken"}
                          => pc[u] \in {"waiting", "woken"}
    BY <1>7 DEF PlaceOrder, Goto, TypeOK
  <2> QED
    BY <2>1, <2>2, QuietStep
<1> QED
  BY <1>0, <1>1, <1>2, <1>3, <1>4, <1>5, <1>6, <1>7 DEF Next, Work

(* force_refresh() never returns a snapshot that was published before it   *)
(* was called, also when it waits for the poll of another thread, is woken *)
(* by failed polls and invalidations, and finds the old snapshot there.    *)
THEOREM ForcedIsNew == Spec => []ForcedAnswerIsNew
<1>1. Init => WaiterSawTheCache /\ ForcedAnswerIsNew
  BY DEF Init, WaiterSawTheCache, ForcedAnswerIsNew, NoCall
<1>2. /\ TypeOK /\ WaiterSawTheCache /\ ForcedAnswerIsNew
      /\ [Next]_vars
      => (WaiterSawTheCache /\ ForcedAnswerIsNew)'
  BY ForcedStep
<1> QED
  BY <1>1, <1>2, SnapshotTypeCorrect, PTL DEF Spec


-----------------------------------------------------------------------------
(* What a snapshot shows of the changes of the account.                    *)

BalancesShow(s, made) ==
    \A i \in 1 .. Len(made) : made[i] < s.capturedAt => s.balances >= i

PositionsShow(s, made) ==
    \A i \in 1 .. Len(made) : made[i] < s.capturedAt => s.positions >= i

Shows(s, made, time) ==
    s.capturedAt <= time /\ BalancesShow(s, made) /\ PositionsShow(s, made)

(* What makes AnswerShowsOldChanges inductive: captured_at is never ahead  *)
(* of the clock, so that a new change is not older than any snapshot; a    *)
(* poll reads balances and positions after the time it stamps; and what an *)
(* unforced call takes from the cache was fresh.                           *)
PollsShowOldChanges ==
    /\ cache # NoSnapshot => Shows(cache, changes, clock)
    /\ \A t \in Thread :
         /\ pc[t] \in Fetching => draft[t].capturedAt <= clock
         /\ pc[t] \in {"positions", "publish"} => BalancesShow(draft[t], changes)
         /\ pc[t] = "publish" => PositionsShow(draft[t], changes)

AnswersShowOldChanges ==
    \A t \in Thread : answer[t] # NoAnswer =>
        /\ Shows(answer[t].snapshot, changes, clock)
        /\ answer[t].hit /\ ~call[t].forced =>
             answer[t].at - answer[t].snapshot.capturedAt <= Freshness

LEMMA ElementOf == ASSUME NEW S, NEW s \in Seq(S), NEW i \in 1 .. Len(s) PROVE s[i] \in S
OBVIOUS

LEMMA ChangeTimes == ASSUME TypeOK, NEW i \in 1 .. Len(changes) PROVE changes[i] \in Int
<1>1. changes \in Seq(0 .. MaxNow)
  BY DEF TypeOK
<1>2. changes[i] \in 0 .. MaxNow
  BY <1>1, ElementOf
<1> QED
  BY <1>2

(* Time that passes, and a change of the account, leave a snapshot true.   *)
LEMMA ShowsLater ==
    ASSUME TypeOK, NEW s \in Snapshot, s.capturedAt <= clock,
           \/ Tick
           \/ \E t \in Thread : PlaceOrder(t)
           \/ UNCHANGED <<clock, changes>>
    PROVE  /\ s.capturedAt <= clock'
           /\ BalancesShow(s, changes) => BalancesShow(s, changes')
           /\ PositionsShow(s, changes) => PositionsShow(s, changes')
<1>1. s.capturedAt \in Int /\ clock \in Int /\ clock' \in Int /\ clock <= clock'
  BY DEF TypeOK, Snapshot, Tick, PlaceOrder
<1>2. CASE UNCHANGED changes
  BY <1>1, <1>2
<1>3. CASE \E t \in Thread : PlaceOrder(t)
  <2>1. changes \in Seq(0 .. MaxNow) /\ clock \in 0 .. MaxNow /\ changes' = Append(changes, clock)
    BY <1>3 DEF TypeOK, PlaceOrder
  <2>2. /\ Len(changes') = Len(changes) + 1 /\ Len(changes) \in Nat
        /\ \A i \in 1 .. Len(changes) : changes'[i] = changes[i]
        /\ changes'[Len(changes) + 1] = clock
    BY <2>1
  <2>3. ASSUME NEW i \in 1 .. Len(changes'), changes'[i] < s.capturedAt
        PROVE  i \in 1 .. Len(changes) /\ changes[i] < s.capturedAt
    BY <1>1, <2>2, <2>3
  <2> QED
    BY <1>1, <2>3 DEF BalancesShow, PositionsShow
<1> QED
  BY <1>2, <1>3 DEF Tick

(* A step that keeps the answers and what is being polled.                 *)
LEMMA OldChangesKept ==
    ASSUME TypeOK, PollsShowOldChanges, AnswersShowOldChanges,
           UNCHANGED <<answer, call>>, cache' \in {cache, NoSnapshot},
           \A t \in Thread : pc'[t] \in Fetching => pc'[t] = pc[t] /\ draft'[t] = draft[t],
           \/ Tick
           \/ \E t \in Thread : PlaceOrder(t)
           \/ UNCHANGED <<clock, changes>>
    PROVE  PollsShowOldChanges' /\ AnswersShowOldChanges'
<1>1. \A s \in Snapshot : s.capturedAt <= clock =>
         /\ s.capturedAt <= clock'
         /\ BalancesShow(s, changes) => BalancesShow(s, changes')
         /\ PositionsShow(s, changes) => PositionsShow(s, changes')
  BY ShowsLater
<1>2. \A s \in Snapshot : Shows(s, changes, clock) => Shows(s, changes', clock')
  BY <1>1 DEF Shows
<1>3. PollsShowOldChanges'
  BY <1>1, <1>2 DEF PollsShowOldChanges, TypeOK, Fetching
<1>4. AnswersShowOldChanges'
  BY <1>2 DEF AnswersShowOldChanges, TypeOK
<1> QED
  BY <1>3, <1>4

(* The thread that begins a poll stamps the present.                       *)
LEMMA PollIsStamped ==
    ASSUME TypeOK, PollsShowOldChanges, NEW t \in Thread, Poll(t), UNCHANGED <<clock, changes>>
    PROVE  PollsShowOldChanges'
<1>1. /\ pc'[t] = "balances" /\ \A u \in Thread \ {t} : pc'[u] = pc[u]
      /\ \A u \in Thread \ {t} : draft'[u] = draft[u]
      /\ UNCHANGED cache
  BY DEF Poll, Goto, TypeOK
<1>2. draft'[t].capturedAt = clock
  BY DEF Poll, TypeOK, NoDraft
<1>3. clock \in Int
  BY DEF TypeOK
<1> QED
  BY <1>1, <1>2, <1>3 DEF PollsShowOldChanges

LEMMA OldChangesStep ==
    ASSUME TypeOK, PollsShowOldChanges, AnswersShowOldChanges, [Next]_vars
    PROVE  PollsShowOldChanges' /\ AnswersShowOldChanges'
<1>0. CASE UNCHANGED vars
  BY <1>0, OldChangesKept DEF vars, shared
<1>1. CASE Tick
  BY <1>1, OldChangesKept DEF Tick, shared
<1>2. ASSUME NEW t \in Thread, NEW forced \in BOOLEAN, Get(t, forced)
      PROVE  PollsShowOldChanges' /\ AnswersShowOldChanges'
  <2>0. UNCHANGED <<clock, changes>>
    BY <1>2 DEF Get
  <2>1. \A u \in Thread \ {t} : answer'[u] = answer[u] /\ call'[u] = call[u]
    BY <1>2 DEF Get, Return, TypeOK
  <2>2. CASE ~forced /\ Fresh(cache) /\ Return(t, cache, TRUE, refreshCount)
             /\ UNCHANGED <<shared, pc, draft>>
    <3>1. /\ answer'[t].snapshot = cache /\ answer'[t].at = clock
          /\ cache # NoSnapshot /\ clock - cache.capturedAt <= Freshness
      BY <2>2 DEF Return, Fresh, TypeOK
    <3>2. Shows(cache, changes, clock)
      BY <3>1 DEF PollsShowOldChanges
    <3>3. AnswersShowOldChanges'
      BY <2>0, <2>1, <3>1, <3>2 DEF AnswersShowOldChanges
    <3>4. PollsShowOldChanges'
      BY <2>0, <2>2 DEF PollsShowOldChanges, shared
    <3> QED
      BY <3>3, <3>4
  <2>3. CASE answer' = [answer EXCEPT ![t] = NoAnswer]
    <3>1. AnswersShowOldChanges'
      BY <2>0, <2>1, <2>3 DEF AnswersShowOldChanges, TypeOK
    <3>2. CASE Poll(t)
      BY <2>0, <3>1, <3>2, PollIsStamped
    <3>3. CASE Goto(t, "waiting") /\ UNCHANGED <<shared, draft>>
      BY <2>0, <3>1, <3>3 DEF PollsShowOldChanges, Goto, shared, TypeOK, Fetching
    <3>4. CASE ~forced /\ UNCHANGED <<shared, pc, draft>>
      BY <2>0, <3>1, <3>4 DEF PollsShowOldChanges, shared
    <3> QED
      BY <1>2, <3>2, <3>3, <3>4 DEF Get
  <2> QED
    BY <1>2, <2>2, <2>3 DEF Get
<1>3. ASSUME NEW t \in Thread, Wake(t)
      PROVE  PollsShowOldChanges' /\ AnswersShowOldChanges'
  <2>0. UNCHANGED <<clock, changes, call>>
    BY <1>3 DEF Wake
  <2>1. CASE Satisfies(t, cache) /\ Return(t, cache, TRUE, refreshCount)
             /\ Goto(t, "idle") /\ UNCHANGED <<shared, draft>>
    <3>1. /\ answer'[t].snapshot = cache /\ answer'[t].at = clock
          /\ cache # NoSnapshot
          /\ ~call[t].forced => clock - cache.capturedAt <= Freshness
          /\ \A u \in Thread \ {t} : answer'[u] = answer[u]
      BY <2>1 DEF Return, Satisfies, Fresh, TypeOK
    <3>2. Shows(cache, changes, clock)
      BY <3>1 DEF PollsShowOldChanges
    <3>3. AnswersShowOldChanges'
      BY <2>0, <3>1, <3>2 DEF AnswersShowOldChanges
    <3>4. PollsShowOldChanges'
      BY <2>0, <2>1 DEF PollsShowOldChanges, Goto, shared, TypeOK, Fetching
    <3> QED
      BY <3>3, <3>4
  <2>2. CASE UNCHANGED answer
    <3>1. AnswersShowOldChanges'
      BY <2>0, <2>2 DEF AnswersShowOldChanges
    <3>2. CASE Poll(t)
      BY <2>0, <3>1, <3>2, PollIsStamped
    <3>3. ASSUME NEW step \in {"waiting", "idle"}, Goto(t, step), UNCHANGED <<shared, draft>>
          PROVE  PollsShowOldChanges'
      BY <2>0, <3>3 DEF PollsShowOldChanges, Goto, shared, TypeOK, Fetching
    <3> QED
      BY <1>3, <3>1, <3>2, <3>3 DEF Wake
  <2> QED
    BY <1>3, <2>1, <2>2 DEF Wake
<1>4. ASSUME NEW t \in Thread, ReadBalances(t) \/ ReadPositions(t)
      PROVE  PollsShowOldChanges' /\ AnswersShowOldChanges'
  <2>0. UNCHANGED <<clock, changes, cache, answer, call>>
    BY <1>4 DEF ReadBalances, ReadPositions, shared
  <2>1. AnswersShowOldChanges'
    BY <2>0 DEF AnswersShowOldChanges
  <2>2. \A u \in Thread \ {t} : pc'[u] = pc[u] /\ draft'[u] = draft[u]
    BY <1>4 DEF ReadBalances, ReadPositions, Goto, TypeOK
  <2>3. pc[t] \in Fetching /\ draft'[t].capturedAt = draft[t].capturedAt
    BY <1>4 DEF ReadBalances, ReadPositions, TypeOK, Snapshot, Fetching
  <2>4. CASE ReadBalances(t)
    <3>1. pc'[t] = "positions" /\ draft'[t].balances = Len(changes)
      BY <2>4 DEF ReadBalances, Goto, TypeOK, Version, Snapshot
    <3>2. BalancesShow(draft'[t], changes)
      BY <3>1 DEF BalancesShow, TypeOK
    <3> QED
      BY <2>0, <2>1, <2>2, <2>3, <3>1, <3>2 DEF PollsShowOldChanges
  <2>5. CASE ReadPositions(t)
    <3>1. /\ pc[t] = "positions" /\ pc'[t] = "publish" /\ draft'[t].positions = Len(changes)
          /\ draft'[t].balances = draft[t].balances
      BY <2>5 DEF ReadPositions, Goto, TypeOK, Version, Snapshot
    <3>2. PositionsShow(draft'[t], changes)
      BY <3>1 DEF PositionsShow, TypeOK
    <3>3. BalancesShow(draft'[t], changes)
      BY <2>3, <3>1 DEF BalancesShow, PollsShowOldChanges
    <3> QED
      BY <2>0, <2>1, <2>2, <2>3, <3>1, <3>2, <3>3 DEF PollsShowOldChanges
  <2> QED
    BY <1>4, <2>4, <2>5
<1>5. ASSUME NEW t \in Thread, Publish(t)
      PROVE  PollsShowOldChanges' /\ AnswersShowOldChanges'
  <2>0. UNCHANGED <<clock, changes, call>> /\ cache' = draft[t]
    BY <1>5 DEF Publish
  <2>1. Shows(draft[t], changes, clock)
    BY <1>5 DEF Publish, PollsShowOldChanges, Shows, Fetching
  <2>2. /\ answer'[t].snapshot = draft[t] /\ ~answer'[t].hit
        /\ \A u \in Thread \ {t} : answer'[u] = answer[u]
    BY <1>5 DEF Publish, Return, TypeOK
  <2>3. \A u \in Thread : pc'[u] \in Fetching =>
           pc'[u] = pc[u] /\ draft'[u] = draft[u]
    BY <1>5, NotifiedShape DEF Publish, TypeOK, Fetching
  <2>4. AnswersShowOldChanges'
    BY <2>0, <2>1, <2>2 DEF AnswersShowOldChanges
  <2>5. PollsShowOldChanges'
    BY <2>0, <2>1, <2>3 DEF PollsShowOldChanges, Fetching
  <2> QED
    BY <2>4, <2>5
<1>6. ASSUME NEW t \in Thread, Fail(t) \/ Invalidate(t)
      PROVE  PollsShowOldChanges' /\ AnswersShowOldChanges'
  <2>1. UNCHANGED <<answer, call, clock, changes>> /\ cache' \in {cache, NoSnapshot}
    BY <1>6 DEF Fail, Invalidate
  <2>2. \A u \in Thread : pc'[u] \in Fetching =>
           pc'[u] = pc[u] /\ draft'[u] = draft[u]
    BY <1>6, NotifiedShape DEF Fail, Invalidate, TypeOK, Fetching
  <2> QED
    BY <2>1, <2>2, OldChangesKept
<1>7. ASSUME NEW t \in Thread, PlaceOrder(t)
      PROVE  PollsShowOldChanges' /\ AnswersShowOldChanges'
  <2>1. UNCHANGED <<answer, call, cache>>
    BY <1>7 DEF PlaceOrder, shared
  <2>2. \A u \in Thread : pc'[u] \in Fetching =>
           pc'[u] = pc[u] /\ draft'[u] = draft[u]
    BY <1>7 DEF PlaceOrder, Goto, TypeOK, Fetching
  <2> QED
    BY <1>7, <2>1, <2>2, OldChangesKept
<1> QED
  BY <1>0, <1>1, <1>2, <1>3, <1>4, <1>5, <1>6, <1>7 DEF Next, Work

(* An answer shows every change made before its captured_at, and one that  *)
(* get() took from the cache every change older than freshness_seconds,    *)
(* whatever polls, orders and invalidations overlap.                       *)
THEOREM StalenessIsBounded == Spec => []AnswerShowsOldChanges
<1>1. Init => PollsShowOldChanges /\ AnswersShowOldChanges
  BY DEF Init, PollsShowOldChanges, AnswersShowOldChanges, Fetching
<1>2. /\ TypeOK /\ PollsShowOldChanges /\ AnswersShowOldChanges
      /\ [Next]_vars
      => (PollsShowOldChanges /\ AnswersShowOldChanges)'
  BY OldChangesStep
<1>3. TypeOK /\ AnswersShowOldChanges => AnswerShowsOldChanges
  <2> SUFFICES ASSUME TypeOK, AnswersShowOldChanges, NEW t \in Thread, answer[t] # NoAnswer,
                      NEW i \in 1 .. Version,
                      \/ changes[i] < answer[t].snapshot.capturedAt
                      \/ /\ answer[t].hit /\ ~call[t].forced
                         /\ changes[i] < answer[t].at - Freshness
               PROVE  /\ answer[t].snapshot.balances >= i
                      /\ answer[t].snapshot.positions >= i
    BY DEF AnswerShowsOldChanges
  <2>1. i \in 1 .. Len(changes) /\ changes[i] \in Int
    <3>1. i \in 1 .. Len(changes)
      BY DEF Version
    <3> QED
      BY <3>1, ChangeTimes
  <2>2. /\ answer[t].at \in Int /\ answer[t].snapshot.capturedAt \in Int
        /\ Freshness \in Int
    BY SnapshotAssumption DEF TypeOK, Snapshot
  <2>3. changes[i] < answer[t].snapshot.capturedAt
    BY <2>1, <2>2 DEF AnswersShowOldChanges
  <2> QED
    BY <2>1, <2>3 DEF AnswersShowOldChanges, Shows, BalancesShow, PositionsShow
<1> QED
  BY <1>1, <1>2, <1>3, SnapshotTypeCorrect, PTL DEF Spec
=============================================================================
