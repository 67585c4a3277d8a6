-------------------------- MODULE ReplayGuardProofs --------------------------
(***************************************************************************)
(* Theorems about ReplayGuard, for any instances, keys, requests, clocks   *)
(* that are ahead, limits and any TTL longer than a transaction and the    *)
(* difference of the clocks.                                               *)
(*                                                                         *)
(* The argument.  Two claims under way at the same moment began less than  *)
(* a window apart (ClaimsAreSound), so a row that one of them commits is   *)
(* live for the other (OthersAreLive): behind its first statement a        *)
(* transaction meets no expired row.  What it has locked is over by its    *)
(* own clock (LockedIsOver) and nobody else's (LocksAreExclusive), so a    *)
(* row that disappears has a window that is over (RowsHoldWindows).  A     *)
(* claim that has counted either adds one row or takes one away that is    *)
(* live for a slower clock (RowsFit).                                      *)
(***************************************************************************)
EXTENDS ReplayGuard, FiniteSetTheorems, TLAPS

Record == [key : Key, at : 0 .. MaxTime + 1, by : Instance, fingerprint : Fingerprint,
           latest : 0 .. MaxTime + 1]

AcceptedType ==
    /\ accepted \in Seq(Record \cup {Forgotten})
    /\ durable => \A n \in 1 .. Len(accepted) : accepted[n] \in Record

(* What is known of the claim of one instance.                             *)
ClaimsAreSound ==
    \A i \in Instance :
        /\ claim[i].step \in {"idle", "prune"} => claim[i].locked = {}
        /\ claim[i].step = "commit" => claim[i].key \in claim[i].locked
        /\ claim[i].step # "idle" =>
             /\ claim[i].key \in Key /\ claim[i].fingerprint \in Fingerprint
             /\ claim[i].now <= Now(i) /\ Now(i) <= claim[i].now + MaxStall

LocksAreExclusive ==
    \A i, j \in Instance : i # j => claim[i].locked \cap claim[j].locked = {}

(* A row the transaction deleted had expired by its clock; one it wrote    *)
(* was free.                                                               *)
LockedIsOver ==
    \A i \in Instance : \A k \in claim[i].locked :
        rows[k] # Free => rows[k].expires <= claim[i].now

OthersAreLive ==
    \A i \in Instance : claim[i].step \notin {"idle", "prune"} =>
        \A k \in Key \ claim[i].locked : rows[k] # Free => rows[k].expires > claim[i].now

(* Every row and every entry is that of an accepted claim.                 *)
Stands(a, k, row) ==
    a.key = k /\ a.fingerprint = row.fingerprint /\ a.at + TTL = row.expires

RowsAreAccepted ==
    /\ ~durable => \A k \in Key : rows[k] = Free
    /\ \A k \in Key : rows[k] # Free =>
         \E n \in 1 .. Len(accepted) :
             accepted[n] # Forgotten /\ Stands(accepted[n], k, rows[k])

EntriesAreAccepted ==
    \A i \in Instance, k \in Key : entries[i][k] # Free =>
        \E n \in 1 .. Len(accepted) :
            /\ accepted[n] # Forgotten /\ accepted[n].by = i
            /\ Stands(accepted[n], k, entries[i][k])

(* The window of an acceptance is over, or its key is held that long.      *)
Held(a, keys) == keys[a.key] # Free /\ keys[a.key].expires >= a.at + TTL

RowsHoldWindows ==
    durable => \A n \in 1 .. Len(accepted) :
        accepted[n].at + TTL <= Latest \/ Held(accepted[n], rows)

(* The time of an instance's next decision.                                *)
OwnTime(i) == IF claim[i].step = "idle" THEN Now(i) ELSE claim[i].now

EntriesHoldWindows ==
    ~durable => \A n \in 1 .. Len(accepted) : accepted[n] # Forgotten =>
        \/ accepted[n].at + TTL <= OwnTime(accepted[n].by)
        \/ Held(accepted[n], entries[accepted[n].by])

IInv ==
    /\ TypeOK
    /\ AcceptedType
    /\ ClaimsAreSound
    /\ LocksAreExclusive
    /\ LockedIsOver
    /\ OthersAreLive
    /\ RowsAreAccepted
    /\ EntriesAreAccepted
    /\ RowsHoldWindows
    /\ EntriesHoldWindows
    /\ AcceptedOncePerWindow

-----------------------------------------------------------------------------
(* The steps of a claim, as the proofs see them.                           *)

ClaimType ==
    [step : {"idle", "prune", "get", "count", "insert", "recycle", "commit"},
     key : Key \cup {"NONE"}, fingerprint : Fingerprint \cup {"NONE"},
     now : 0 .. MaxTime + 1, locked : SUBSET Key]

(* The claim of i goes on to another statement and locks keys.             *)
GoesOn(i, keys, step) ==
    /\ claim' \in [Instance -> ClaimType]
    /\ claim'[i].step = step
    /\ claim'[i].locked = claim[i].locked \cup keys
    /\ claim'[i].now = claim[i].now
    /\ claim'[i].key = claim[i].key /\ claim'[i].fingerprint = claim[i].fingerprint
    /\ \A j \in Instance \ {i} : claim'[j] = claim[j]

Stays(i) ==
    \E keys \in SUBSET Key, step \in {"get", "count", "insert", "recycle", "commit"} :
        /\ GoesOn(i, keys, step)
        /\ durable /\ claim[i].step # "idle"
        /\ \A j \in Instance \ {i} : claim[j].locked \cap keys = {}
        /\ \A k \in keys : rows[k] # Free => rows[k].expires <= claim[i].now
        /\ claim[i].step = "prune" => Expired(rows, claim[i].now) \subseteq keys
        /\ step = "commit" => claim[i].key \in keys
        /\ UNCHANGED <<clock, durable, rows, entries, accepted>>

(* The claim of i is over and its transaction committed.                   *)
Ends(i) ==
    /\ durable
    /\ claim[i].step \notin {"idle", "prune"}
    /\ claim' = [claim EXCEPT ![i] = NoClaim]
    /\ rows' = View(i)
    /\ UNCHANGED <<clock, durable, entries>>
    /\ \/ claim[i].step # "commit" /\ UNCHANGED accepted
       \/ claim[i].step = "commit" /\ Accept(i)

(* A statement that changes the claim of one instance only.                *)
LEMMA ClaimChange ==
    ASSUME TypeOK, NEW i \in Instance, NEW keys \in SUBSET Key,
           NEW step \in {"get", "count", "insert", "recycle", "commit"},
           claim' = [claim EXCEPT ![i].step = step, ![i].locked = @ \cup keys]
    PROVE  GoesOn(i, keys, step)
BY ZenonT(40) DEF TypeOK, GoesOn, ClaimType

LEMMA StepChange ==
    ASSUME TypeOK, NEW i \in Instance,
           NEW step \in {"get", "count", "insert", "recycle", "commit"},
           claim' = [claim EXCEPT ![i].step = step]
    PROVE  GoesOn(i, {}, step)
BY DEF TypeOK, GoesOn, ClaimType

(* The transaction of i sees no expired row behind its first statement.    *)
LEMMA NothingExpired ==
    ASSUME IInv, NEW i \in Instance, claim[i].step \notin {"idle", "prune", "commit"},
           NEW k \in Key
    PROVE  View(i)[k] # Free => /\ View(i)[k] = rows[k] /\ k \notin claim[i].locked
                                /\ View(i)[k].expires > claim[i].now
                                /\ ~(View(i)[k].expires <= claim[i].now)
<1>1. rows[k].expires \in Int /\ claim[i].now \in Int
  BY DEF IInv, TypeOK, Entry
<1> QED
  BY <1>1 DEF IInv, OthersAreLive, View, At

LEMMA StatementShape ==
    ASSUME IInv, NEW i \in Instance,
           Prune(i) \/ Get(i) \/ Count(i) \/ Insert(i) \/ Recycle(i) \/ CommitClaim(i)
    PROVE  Stays(i) \/ Ends(i)
<1> USE DEF Statement, At
<1>1. TypeOK
  BY DEF IInv
<1>2. claim[i].step # "idle"
  BY DEF Prune, Get, Count, Insert, Recycle, CommitClaim
<1>3. claim[i].key \in Key
  BY <1>2 DEF IInv, ClaimsAreSound
<1>4. ASSUME NEW step \in {"count", "insert", "recycle"}, Continue(i, step),
             claim[i].step # "prune", durable, UNCHANGED <<clock, durable, entries>>
      PROVE  Stays(i)
  <2>1. GoesOn(i, {}, step)
    BY <1>1, <1>4, StepChange DEF Continue
  <2>2. UNCHANGED <<clock, durable, rows, entries, accepted>>
    BY <1>4 DEF Continue
  <2>3. {} \in SUBSET Key /\ \A j \in Instance \ {i} : claim[j].locked \cap {} = {}
    OBVIOUS
  <2> QED
    BY <1>2, <1>4, <2>1, <2>2, <2>3 DEF Stays
<1>5. ASSUME NEW row, Judge(i, row), durable, UNCHANGED <<clock, durable, entries>>,
             claim[i].step \notin {"idle", "prune", "commit"},
             row # Free => ~(row.expires <= claim[i].now)
      PROVE  Ends(i)
  BY <1>5 DEF Judge, Commit, Answer, Ends
<1>6. CASE Prune(i)
  <2> DEFINE keys == Expired(rows, claim[i].now)
  <2>1. keys \in SUBSET Key /\ \A k \in keys : rows[k].expires <= claim[i].now
    BY DEF Expired
  <2>2. /\ \A j \in Instance \ {i} : claim[j].locked \cap keys = {}
        /\ claim' = [claim EXCEPT ![i].step = "get", ![i].locked = @ \cup keys]
        /\ UNCHANGED <<clock, durable, rows, entries, accepted>>
    BY <1>6 DEF Prune, Write, Prunable
  <2> HIDE DEF keys
  <2>3. GoesOn(i, keys, "get")
    BY <1>1, <2>1, <2>2, ClaimChange
  <2> QED
    BY <1>2, <1>6, <2>1, <2>2, <2>3 DEF Stays, Prune, keys
<1>7. CASE Get(i)
  <2>1. Existing(i) # Free => ~(Existing(i).expires <= claim[i].now)
    BY <1>3, <1>7, NothingExpired DEF Get, Existing
  <2>2. CASE Judge(i, Existing(i)) /\ Existing(i) # Free
    BY <1>5, <1>7, <2>1, <2>2 DEF Get
  <2> QED
    BY <1>4, <1>7, <2>2 DEF Get
<1>8. CASE Count(i)
  BY <1>4, <1>5, <1>8 DEF Count
<1>9. CASE Insert(i)
  <2>1. CASE Existing(i) = Free /\ Write(i, {claim[i].key}, "commit")
    <3>1. {claim[i].key} \in SUBSET Key
      BY <1>3
    <3>2. GoesOn(i, {claim[i].key}, "commit")
      BY <1>1, <2>1, <3>1, ClaimChange DEF Write
    <3>3. rows[claim[i].key] # Free => rows[claim[i].key].expires <= claim[i].now
      BY <1>3, <1>9, <2>1 DEF Existing, View, IInv, LockedIsOver, Insert
    <3> QED
      BY <1>2, <1>9, <2>1, <3>1, <3>2, <3>3 DEF Insert, Write, Stays
  <2> QED
    BY <1>4, <1>9, <2>1 DEF Insert
<1>10. CASE Recycle(i)
  <2>1. claim[i].key \notin Expired(View(i), claim[i].now)
    BY <1>3, <1>10, NothingExpired DEF Recycle, Expired
  <2>2. Existing(i) # Free => ~(Existing(i).expires <= claim[i].now)
    BY <1>3, <2>1 DEF Expired, Existing
  <2> QED
    BY <1>5, <1>10, <2>1, <2>2 DEF Recycle
<1>11. CASE CommitClaim(i)
  BY <1>11 DEF CommitClaim, Commit, Answer, Ends
<1> QED
  BY <1>6, <1>7, <1>8, <1>9, <1>10, <1>11

-----------------------------------------------------------------------------
(* Types.                                                                  *)

LEMMA Times ==
    ASSUME TypeOK, NEW i \in Instance
    PROVE  /\ clock \in Nat /\ MaxTime \in Nat /\ TTL \in Nat /\ MaxStall \in Nat /\ MaxStall + 1 < TTL
           /\ Now(i) \in 0 .. MaxTime + 1 /\ Latest \in 0 .. MaxTime + 1
           /\ clock <= Now(i) /\ Now(i) <= Latest /\ Latest <= clock + 1
<1>1. /\ MaxTime \in Nat /\ clock \in 0 .. MaxTime
      /\ TTL \in Nat /\ MaxStall \in Nat /\ MaxStall + 1 < TTL
  BY GuardAssumption DEF TypeOK
<1>2. Ahead \subseteq Instance
  BY GuardAssumption
<1> QED
  BY <1>1, <1>2 DEF Now, Latest

(* The row a claim writes.                                                 *)
LEMMA ClaimedType ==
    ASSUME IInv, NEW i \in Instance, claim[i].step # "idle"
    PROVE  /\ Claimed(i) \in Entry /\ Claimed(i) # Free
           /\ Claimed(i).fingerprint = claim[i].fingerprint
           /\ Claimed(i).expires = claim[i].now + TTL
<1>1. /\ claim[i].now \in 0 .. MaxTime + 1 /\ claim[i].fingerprint \in Fingerprint
      /\ MaxTime \in Nat /\ TTL \in Nat /\ TTL > 0
  BY Times DEF IInv, TypeOK, ClaimsAreSound
<1>2. claim[i].now + TTL \in 0 .. MaxTime + 1 + TTL
  BY <1>1
<1>3. claim[i].now + TTL # 0
  BY <1>1
<1> QED
  BY <1>1, <1>2, <1>3 DEF Claimed, Entry, Free

(* What a commit does to each row.                                         *)
LEMMA ViewOf ==
    ASSUME NEW i \in Instance, NEW k \in Key
    PROVE  View(i)[k] = IF k \notin claim[i].locked THEN rows[k]
                        ELSE IF claim[i].step = "commit" /\ k = claim[i].key
                        THEN Claimed(i) ELSE Free
BY DEF View, At

(* The record an acceptance adds to the history.                           *)
LEMMA AcceptType ==
    ASSUME IInv, NEW i \in Instance, claim[i].step # "idle", Accept(i)
    PROVE  \E a \in Record :
             /\ accepted' = Append(accepted, a)
             /\ Len(accepted') = Len(accepted) + 1
             /\ accepted'[Len(accepted) + 1] = a
             /\ \A n \in 1 .. Len(accepted) : accepted'[n] = accepted[n]
             /\ a # Forgotten
             /\ a.key = claim[i].key /\ a.fingerprint = claim[i].fingerprint
             /\ a.at = claim[i].now /\ a.by = i /\ a.latest = Latest
<1> DEFINE a == [key |-> claim[i].key, at |-> claim[i].now, by |-> i,
                 fingerprint |-> claim[i].fingerprint, latest |-> Latest]
<1>1. /\ claim[i].key \in Key /\ claim[i].fingerprint \in Fingerprint
      /\ claim[i].now \in 0 .. MaxTime + 1 /\ Latest \in 0 .. MaxTime + 1
  BY Times DEF IInv, TypeOK, ClaimsAreSound
<1>2. a \in Record
  BY <1>1 DEF Record
<1>3. a # Forgotten
  <2>1. a.by = i /\ Forgotten.by = "GONE" /\ i # "GONE"
    BY GuardAssumption DEF Forgotten
  <2> QED
    BY <2>1
<1>4. a.key = claim[i].key /\ a.fingerprint = claim[i].fingerprint
      /\ a.at = claim[i].now /\ a.by = i /\ a.latest = Latest
  OBVIOUS
<1>5. accepted' = Append(accepted, a)
  BY DEF Accept
<1>6. accepted \in Seq(Record \cup {Forgotten})
  BY DEF IInv, AcceptedType
<1> HIDE DEF a
<1>7. /\ Len(accepted') = Len(accepted) + 1
      /\ accepted'[Len(accepted) + 1] = a
      /\ \A n \in 1 .. Len(accepted) : accepted'[n] = accepted[n]
  BY <1>2, <1>5, <1>6
<1> QED
  BY <1>2, <1>3, <1>4, <1>5, <1>7

LEMMA AcceptKeepsType ==
    ASSUME IInv, NEW i \in Instance, claim[i].step # "idle", Accept(i), UNCHANGED durable
    PROVE  AcceptedType'
<1>1. PICK a \in Record : accepted' = Append(accepted, a)
  BY AcceptType
<1> QED
  BY <1>1 DEF IInv, AcceptedType

(* The claim in memory, named.                                             *)
Kept(i) == Without(entries[i], Expired(entries[i], claim[i].now))

MemoryResult(i) ==
    CASE Kept(i)[claim[i].key] # Free -> Refusal(Kept(i)[claim[i].key], claim[i].fingerprint)
      [] Full(Kept(i), claim[i].now)  -> "CAPACITY_EXHAUSTED"
      [] OTHER                        -> "ACCEPTED"

LEMMA MemoryShape ==
    ASSUME IInv, NEW i \in Instance, ClaimInMemory(i)
    PROVE  /\ claim[i].step = "prune" /\ ~durable
           /\ claim' = [claim EXCEPT ![i] = NoClaim]
           /\ UNCHANGED <<clock, durable, rows>>
           /\ \/ /\ Kept(i)[claim[i].key] = Free /\ ~Full(Kept(i), claim[i].now)
                 /\ answer' = <<i, "ACCEPTED">> /\ Accept(i)
                 /\ entries' = [entries EXCEPT ![i] =
                                  [Kept(i) EXCEPT ![claim[i].key] = Claimed(i)]]
              \/ /\ \/ answer' = <<i, "CAPACITY_EXHAUSTED">>
                    \/ /\ Kept(i)[claim[i].key] # Free
                       /\ answer' = <<i, Refusal(Kept(i)[claim[i].key], claim[i].fingerprint)>>
                 /\ UNCHANGED accepted
                 /\ entries' = [entries EXCEPT ![i] = Kept(i)]
<1>1. /\ claim[i].step = "prune" /\ ~durable
      /\ claim' = [claim EXCEPT ![i] = NoClaim]
      /\ UNCHANGED <<clock, durable, rows>>
      /\ answer' = <<i, MemoryResult(i)>>
      /\ entries' = [entries EXCEPT ![i] =
                       IF MemoryResult(i) = "ACCEPTED"
                       THEN [Kept(i) EXCEPT ![claim[i].key] =
                               [fingerprint |-> claim[i].fingerprint,
                                expires |-> claim[i].now + TTL]]
                       ELSE Kept(i)]
      /\ IF MemoryResult(i) = "ACCEPTED" THEN Accept(i) ELSE UNCHANGED accepted
  BY Zenon DEF ClaimInMemory, Answer, At, MemoryResult, Kept
<1>2. \A e, f : Refusal(e, f) # "ACCEPTED"
  BY DEF Refusal
<1>3. \/ /\ MemoryResult(i) = "ACCEPTED" /\ Kept(i)[claim[i].key] = Free
         /\ ~Full(Kept(i), claim[i].now)
      \/ MemoryResult(i) = "CAPACITY_EXHAUSTED"
      \/ /\ MemoryResult(i) = Refusal(Kept(i)[claim[i].key], claim[i].fingerprint)
         /\ Kept(i)[claim[i].key] # Free
  BY DEF MemoryResult
<1> QED
  BY <1>1, <1>2, <1>3 DEF Claimed

LEMMA KeptType ==
    ASSUME TypeOK, NEW i \in Instance
    PROVE  /\ Kept(i) \in [Key -> Entry]
           /\ \A k \in Key : Kept(i)[k] = IF entries[i][k] # Free
                                             /\ entries[i][k].expires <= claim[i].now
                                          THEN Free ELSE entries[i][k]
<1>1. Free \in Entry
  <2>1. 0 \in 0 .. MaxTime + 1 + TTL
    BY GuardAssumption DEF TypeOK
  <2> QED
    BY <2>1 DEF Free, Entry
<1> QED
  BY <1>1 DEF Kept, Without, Expired, TypeOK

LEMMA FreeClaims ==
    ASSUME TypeOK, NEW i \in Instance, claim' = [claim EXCEPT ![i] = NoClaim]
    PROVE  /\ claim' \in [Instance -> ClaimType]
           /\ claim'[i].step = "idle" /\ claim'[i].locked = {}
           /\ \A j \in Instance \ {i} : claim'[j] = claim[j]
<1>1. NoClaim \in ClaimType /\ NoClaim.step = "idle" /\ NoClaim.locked = {}
  BY GuardAssumption DEF NoClaim, ClaimType
<1> QED
  BY <1>1 DEF TypeOK, ClaimType

LEMMA AuthorizeShape ==
    ASSUME TypeOK, NEW i \in Instance, Authorize(i)
    PROVE  /\ claim' \in [Instance -> ClaimType]
           /\ claim[i].step = "idle" /\ claim'[i].step = "prune"
           /\ claim'[i].locked = {} /\ claim'[i].now = Now(i)
           /\ claim'[i].key \in Key /\ claim'[i].fingerprint \in Fingerprint
           /\ \A j \in Instance \ {i} : claim'[j] = claim[j]
           /\ UNCHANGED <<clock, durable, rows, entries, accepted>>
<1>1. PICK r \in Request :
        claim' = [claim EXCEPT ![i] = [step |-> "prune", key |-> r[1],
                    fingerprint |-> r[2], now |-> Now(i), locked |-> {}]]
  BY DEF Authorize
<1>2. r[1] \in Key /\ r[2] \in Fingerprint
  BY GuardAssumption
<1>3. Now(i) \in 0 .. MaxTime + 1
  BY Times
<1>4. [step |-> "prune", key |-> r[1], fingerprint |-> r[2], now |-> Now(i), locked |-> {}]
        \in ClaimType
  BY <1>2, <1>3 DEF ClaimType
<1> QED
  BY <1>1, <1>2, <1>4 DEF Authorize, At, TypeOK, ClaimType

(* Every step has one of these shapes.                                     *)
LEMMA Shapes ==
    ASSUME IInv, Next
    PROVE  \/ Tick
           \/ \E i \in Instance :
                \/ Authorize(i) \/ ClaimInMemory(i) \/ Stays(i) \/ Ends(i)
                \/ Fail(i) \/ Crash(i)
BY StatementShape DEF Next, Transact

LEMMA AnswerType == ASSUME IInv, Next PROVE (answer \in {NoAnswer} \cup (Instance \X Result))'
<1>1. \A e, f : Refusal(e, f) \in Result
  BY DEF Refusal, Result
<1>2. ASSUME NEW i \in Instance, NEW r \in Result, Answer(i, r)
      PROVE  answer' \in Instance \X Result
  BY <1>2 DEF Answer
<1>3. ASSUME NEW i \in Instance, NEW row, Judge(i, row)
      PROVE  answer' \in Instance \X Result
  BY <1>1, <1>2, <1>3 DEF Judge, Result
<1>4. ASSUME NEW i \in Instance, ClaimInMemory(i) PROVE answer' \in Instance \X Result
  BY <1>1, <1>4, MemoryShape DEF Result
<1>5. ASSUME NEW i \in Instance,
             Prune(i) \/ Get(i) \/ Count(i) \/ Insert(i) \/ Recycle(i) \/ CommitClaim(i)
      PROVE  answer' = NoAnswer \/ answer' \in Instance \X Result
  <2>1. CASE CommitClaim(i)
    BY <1>2, <2>1 DEF CommitClaim, Result
  <2> QED
    BY <1>3, <1>5, <2>1 DEF Prune, Get, Count, Insert, Recycle, Write, Continue
<1>6. ASSUME NEW i \in Instance, Fail(i) PROVE answer' \in Instance \X Result
  BY <1>2, <1>6 DEF Fail, Result
<1> QED
  BY <1>4, <1>5, <1>6 DEF Next, Transact, Tick, Authorize, Crash

LEMMA TypesStep ==
    ASSUME IInv, Next
    PROVE  TypeOK' /\ AcceptedType'
<1> USE DEF IInv
<1>0. answer' \in {NoAnswer} \cup (Instance \X Result)
  BY AnswerType
<1>1. CASE Tick
  <2>1. clock' \in 0 .. MaxTime
    BY <1>1, GuardAssumption DEF Tick, TypeOK
  <2> QED
    BY <1>0, <1>1, <2>1 DEF Tick, TypeOK, AcceptedType
<1>2. ASSUME NEW i \in Instance, Authorize(i) PROVE TypeOK' /\ AcceptedType'
  BY <1>0, <1>2, AuthorizeShape DEF TypeOK, AcceptedType, ClaimType
<1>3. ASSUME NEW i \in Instance, ClaimInMemory(i) PROVE TypeOK' /\ AcceptedType'
  <2>1. claim' \in [Instance -> ClaimType]
    BY <1>3, MemoryShape, FreeClaims
  <2>2. entries' \in [Instance -> [Key -> Entry]]
    <3>1. Kept(i) \in [Key -> Entry]
      BY KeptType
    <3>2. Claimed(i) \in Entry
      BY <1>3, MemoryShape, ClaimedType
    <3>3. [Kept(i) EXCEPT ![claim[i].key] = Claimed(i)] \in [Key -> Entry]
      BY <3>1, <3>2
    <3>4. entries' = [entries EXCEPT ![i] = Kept(i)]
          \/ entries' = [entries EXCEPT ![i] = [Kept(i) EXCEPT ![claim[i].key] = Claimed(i)]]
      BY <1>3, MemoryShape
    <3> HIDE DEF IInv
    <3>5. entries \in [Instance -> [Key -> Entry]]
      BY DEF TypeOK, IInv
    <3> QED
      BY <3>1, <3>3, <3>4, <3>5
  <2>3. AcceptedType'
    <3>1. CASE Accept(i)
      BY <1>3, <3>1, MemoryShape, AcceptKeepsType
    <3>2. CASE UNCHANGED accepted
      BY <1>3, <3>2, MemoryShape DEF AcceptedType
    <3> QED
      BY <1>3, <3>1, <3>2, MemoryShape
  <2>4. UNCHANGED <<clock, durable, rows>>
    BY <1>3, MemoryShape
  <2> QED
    BY <1>0, <2>1, <2>2, <2>3, <2>4 DEF TypeOK, ClaimType
<1>4. ASSUME NEW i \in Instance, Stays(i) PROVE TypeOK' /\ AcceptedType'
  BY <1>0, <1>4 DEF Stays, GoesOn, TypeOK, AcceptedType, ClaimType
<1>5. ASSUME NEW i \in Instance, Ends(i) PROVE TypeOK' /\ AcceptedType'
  <2>1. claim' \in [Instance -> ClaimType]
    BY <1>5, FreeClaims DEF Ends
  <2>2. rows' \in [Key -> Entry]
    <3>1. Claimed(i) \in Entry /\ Free \in Entry
      <4>1. 0 \in 0 .. MaxTime + 1 + TTL
        BY GuardAssumption
      <4> QED
        BY <1>5, <4>1, ClaimedType DEF Ends, Free, Entry
    <3> QED
      BY <1>5, <3>1 DEF Ends, View, TypeOK
  <2>3. AcceptedType'
    <3>1. CASE Accept(i)
      BY <1>5, <3>1, AcceptKeepsType DEF Ends
    <3>2. CASE UNCHANGED accepted
      BY <1>5, <3>2 DEF Ends, AcceptedType
    <3> QED
      BY <1>5, <3>1, <3>2 DEF Ends
  <2> QED
    BY <1>0, <1>5, <2>1, <2>2, <2>3 DEF Ends, TypeOK, ClaimType
<1>6. ASSUME NEW i \in Instance, Fail(i) PROVE TypeOK' /\ AcceptedType'
  <2>1. claim' \in [Instance -> ClaimType]
    BY <1>6, FreeClaims DEF Fail, Answer
  <2> QED
    BY <1>0, <1>6, <2>1 DEF Fail, TypeOK, AcceptedType, ClaimType
<1>7. ASSUME NEW i \in Instance, Crash(i) PROVE TypeOK' /\ AcceptedType'
  <2>1. claim' \in [Instance -> ClaimType]
    BY <1>7, FreeClaims DEF Crash
  <2>2. entries' \in [Instance -> [Key -> Entry]]
    <3>1. 0 \in 0 .. MaxTime + 1 + TTL
      BY GuardAssumption
    <3>2. NoKeys \in [Key -> Entry]
      BY <3>1 DEF NoKeys, Free, Entry
    <3> QED
      BY <1>7, <3>2 DEF Crash, TypeOK
  <2>3. AcceptedType'
    <3>1. CASE durable
      BY <1>7, <3>1 DEF Crash, AcceptedType
    <3>2. CASE ~durable
      <4>1. accepted' = [n \in 1 .. Len(accepted) |->
                           IF accepted[n].by = i THEN Forgotten ELSE accepted[n]]
        BY <1>7, <3>2 DEF Crash, AcceptedType
      <4> QED
        BY <1>7, <3>2, <4>1 DEF Crash, AcceptedType
    <3> QED
      BY <3>1, <3>2
  <2> QED
    BY <1>0, <1>7, <2>1, <2>2, <2>3 DEF Crash, TypeOK, ClaimType
<1> QED
  BY <1>1, <1>2, <1>3, <1>4, <1>5, <1>6, <1>7, Shapes

-----------------------------------------------------------------------------
(* Claims, locks and rows.                                                 *)

LEMMA ClaimsStep ==
    ASSUME IInv, Next
    PROVE  ClaimsAreSound' /\ LocksAreExclusive'
<1> USE DEF IInv
<1>1. CASE Tick
  <2>1. UNCHANGED claim /\ clock' = clock + 1
    BY <1>1 DEF Tick
  <2>2. ASSUME NEW i \in Instance, claim[i].step # "idle"
        PROVE  claim[i].now <= Now(i)' /\ Now(i)' <= claim[i].now + MaxStall
    <3>1. Now(i) - claim[i].now < MaxStall
      BY <1>1, <2>2 DEF Tick, At
    <3>2. /\ Now(i) \in Nat /\ claim[i].now \in Nat /\ MaxStall \in Nat
          /\ claim[i].now <= Now(i)
      BY <2>2, Times DEF TypeOK, ClaimsAreSound
    <3>3. Now(i)' = Now(i) + 1
      BY <2>1, Times DEF Now
    <3> QED
      BY <3>1, <3>2, <3>3
  <2> QED
    BY <2>1, <2>2 DEF ClaimsAreSound, LocksAreExclusive
<1>2. ASSUME NEW i \in Instance, Authorize(i) PROVE ClaimsAreSound' /\ LocksAreExclusive'
  <2>1. ASSUME NEW j \in Instance PROVE Now(j)' = Now(j) /\ Now(j) \in Nat /\ MaxStall \in Nat
    BY <1>2, AuthorizeShape, Times DEF Now
  <2> QED
    BY <1>2, <2>1, AuthorizeShape DEF ClaimsAreSound, LocksAreExclusive
<1>3. ASSUME NEW i \in Instance, UNCHANGED clock, claim' = [claim EXCEPT ![i] = NoClaim]
      PROVE  ClaimsAreSound' /\ LocksAreExclusive'
  <2>1. ASSUME NEW j \in Instance PROVE Now(j)' = Now(j)
    BY <1>3 DEF Now
  <2> QED
    BY ZenonT(40), <1>3, <2>1, FreeClaims DEF ClaimsAreSound, LocksAreExclusive
<1>4. ASSUME NEW i \in Instance, Stays(i) PROVE ClaimsAreSound' /\ LocksAreExclusive'
  <2>1. ASSUME NEW j \in Instance PROVE Now(j)' = Now(j)
    BY <1>4 DEF Now, Stays
  <2>2. PICK keys \in SUBSET Key, step \in {"get", "count", "insert", "recycle", "commit"} :
          /\ GoesOn(i, keys, step)
          /\ claim[i].step # "idle"
          /\ \A j \in Instance \ {i} : claim[j].locked \cap keys = {}
          /\ step = "commit" => claim[i].key \in keys
    BY <1>4 DEF Stays
  <2>3. ClaimsAreSound'
    BY <2>1, <2>2 DEF GoesOn, ClaimsAreSound
  <2>4. LocksAreExclusive'
    BY <2>2 DEF GoesOn, LocksAreExclusive
  <2> QED
    BY <2>3, <2>4
<1> QED
  BY <1>1, <1>2, <1>3, <1>4, Shapes, MemoryShape DEF Ends, Fail, Answer, Crash

(* A row that one transaction commits is live for every other one.         *)
LEMMA CommittedIsLive ==
    ASSUME IInv, NEW i \in Instance, NEW j \in Instance,
           claim[i].step # "idle", claim[j].step # "idle"
    PROVE  Claimed(j).expires > claim[i].now
<1>1. /\ claim[i].now <= Now(i) /\ Now(j) <= claim[j].now + MaxStall
      /\ claim[i].now \in Nat /\ claim[j].now \in Nat
  BY DEF IInv, ClaimsAreSound, TypeOK
<1>2. /\ TTL \in Nat /\ MaxStall \in Nat /\ MaxStall + 1 < TTL /\ clock \in Nat
      /\ Now(i) \in Nat /\ Now(i) <= clock + 1 /\ Now(j) \in Nat /\ clock <= Now(j)
  <2>1. TypeOK
    BY DEF IInv
  <2>2. /\ clock \in Nat /\ TTL \in Nat /\ MaxStall \in Nat /\ MaxStall + 1 < TTL
        /\ Now(i) \in Nat /\ Now(i) <= Latest /\ Latest <= clock + 1 /\ Latest \in Nat
    BY <2>1, Times
  <2>3. Now(j) \in Nat /\ clock <= Now(j)
    BY <2>1, Times
  <2> QED
    BY <2>2, <2>3
<1>3. Claimed(j).expires = claim[j].now + TTL
  BY DEF Claimed
<1> QED
  BY <1>1, <1>2, <1>3

LEMMA LocksStep ==
    ASSUME IInv, Next
    PROVE  LockedIsOver' /\ OthersAreLive'
<1> USE DEF IInv
<1>1. CASE Tick
  BY <1>1 DEF Tick, LockedIsOver, OthersAreLive
<1>2. ASSUME NEW i \in Instance, Authorize(i) PROVE LockedIsOver' /\ OthersAreLive'
  BY <1>2, AuthorizeShape DEF LockedIsOver, OthersAreLive
<1>3. ASSUME NEW i \in Instance, UNCHANGED rows, claim' = [claim EXCEPT ![i] = NoClaim]
      PROVE  LockedIsOver' /\ OthersAreLive'
  BY <1>3, FreeClaims DEF LockedIsOver, OthersAreLive
<1>4. ASSUME NEW i \in Instance, Stays(i) PROVE LockedIsOver' /\ OthersAreLive'
  <2>1. PICK keys \in SUBSET Key, step \in {"get", "count", "insert", "recycle", "commit"} :
          /\ GoesOn(i, keys, step)
          /\ claim[i].step # "idle"
          /\ \A k \in keys : rows[k] # Free => rows[k].expires <= claim[i].now
          /\ claim[i].step = "prune" => Expired(rows, claim[i].now) \subseteq keys
    BY <1>4 DEF Stays
  <2>2. UNCHANGED rows
    BY <1>4 DEF Stays
  <2>3. LockedIsOver'
    BY <2>1, <2>2 DEF GoesOn, LockedIsOver
  <2>4. ASSUME NEW k \in Key \ (claim[i].locked \cup keys), rows[k] # Free
        PROVE  rows[k].expires > claim[i].now
    <3>1. CASE claim[i].step = "prune"
      <4>1. rows[k].expires \in Int /\ claim[i].now \in Int
        BY DEF TypeOK, Entry
      <4> QED
        BY <2>1, <2>4, <3>1, <4>1 DEF Expired
    <3>2. CASE claim[i].step # "prune"
      BY <2>1, <2>4, <3>2 DEF OthersAreLive
    <3> QED
      BY <3>1, <3>2
  <2>5. OthersAreLive'
    BY <2>1, <2>2, <2>4 DEF GoesOn, OthersAreLive
  <2> QED
    BY <2>3, <2>5
<1>5. ASSUME NEW i \in Instance, Ends(i) PROVE LockedIsOver' /\ OthersAreLive'
  <2>1. /\ claim'[i].step = "idle" /\ claim'[i].locked = {}
        /\ \A j \in Instance \ {i} : claim'[j] = claim[j]
    BY <1>5, FreeClaims DEF Ends
  <2>2. \A k \in Key : rows'[k] = IF k \notin claim[i].locked THEN rows[k]
                                  ELSE IF claim[i].step = "commit" /\ k = claim[i].key
                                  THEN Claimed(i) ELSE Free
    BY <1>5, ViewOf DEF Ends
  <2>3. LockedIsOver'
    <3> SUFFICES ASSUME NEW j \in Instance \ {i}, NEW k \in claim[j].locked, rows'[k] # Free
                 PROVE  rows'[k].expires <= claim[j].now
      BY <2>1 DEF LockedIsOver
    <3>1. k \in Key /\ k \notin claim[i].locked
      BY DEF LocksAreExclusive, TypeOK
    <3> QED
      BY <2>2, <3>1 DEF LockedIsOver
  <2>4. OthersAreLive'
    <3> SUFFICES ASSUME NEW j \in Instance \ {i}, claim[j].step \notin {"idle", "prune"},
                        NEW k \in Key \ claim[j].locked, rows'[k] # Free
                 PROVE  rows'[k].expires > claim[j].now
      BY <2>1 DEF OthersAreLive
    <3>1. Claimed(i).expires > claim[j].now
      BY <1>5, CommittedIsLive DEF Ends
    <3> QED
      BY <2>2, <3>1 DEF OthersAreLive
  <2> QED
    BY <2>3, <2>4
<1> QED
  BY <1>1, <1>2, <1>3, <1>4, <1>5, Shapes, MemoryShape DEF Fail, Answer, Crash

-----------------------------------------------------------------------------
(* The history and what holds it.                                          *)

LEMMA RecordsStep ==
    ASSUME IInv, Next
    PROVE  RowsAreAccepted' /\ EntriesAreAccepted'
<1> USE DEF IInv
<1>1. CASE UNCHANGED <<durable, rows, entries, accepted>>
  BY <1>1 DEF RowsAreAccepted, EntriesAreAccepted
<1>2. ASSUME NEW i \in Instance, ClaimInMemory(i)
      PROVE  RowsAreAccepted' /\ EntriesAreAccepted'
  <2>1. /\ claim[i].step = "prune" /\ ~durable /\ UNCHANGED <<durable, rows>>
        /\ claim[i].key \in Key
    BY <1>2, MemoryShape DEF ClaimsAreSound
  <2>2. RowsAreAccepted'
    BY <2>1 DEF RowsAreAccepted
  <2>3. \A k \in Key : Kept(i)[k] # Free => Kept(i)[k] = entries[i][k]
    BY KeptType
  <2>4. CASE UNCHANGED accepted /\ entries' = [entries EXCEPT ![i] = Kept(i)]
    BY <2>2, <2>3, <2>4 DEF EntriesAreAccepted, TypeOK
  <2>5. CASE /\ Accept(i)
             /\ entries' = [entries EXCEPT ![i] =
                              [Kept(i) EXCEPT ![claim[i].key] = Claimed(i)]]
    <3>1. PICK a \in Record :
            /\ Len(accepted') = Len(accepted) + 1
            /\ accepted'[Len(accepted) + 1] = a
            /\ \A n \in 1 .. Len(accepted) : accepted'[n] = accepted[n]
            /\ a # Forgotten
            /\ a.key = claim[i].key /\ a.fingerprint = claim[i].fingerprint
            /\ a.at = claim[i].now /\ a.by = i
      BY <2>1, <2>5, AcceptType
    <3>2. Len(accepted) \in Nat
      BY DEF AcceptedType
    <3>3. Stands(a, claim[i].key, Claimed(i))
      BY <2>1, <3>1, ClaimedType DEF Stands
    <3>4. ASSUME NEW j \in Instance, NEW k \in Key, entries'[j][k] # Free
          PROVE  \E n \in 1 .. Len(accepted') :
                   /\ accepted'[n] # Forgotten /\ accepted'[n].by = j
                   /\ Stands(accepted'[n], k, entries'[j][k])
      <4>1. CASE j = i /\ k = claim[i].key
        <5>1. entries'[j][k] = Claimed(i)
          BY <2>1, <2>5, <4>1, KeptType DEF TypeOK
        <5> QED
          BY <3>1, <3>2, <3>3, <4>1, <5>1
      <4>2. CASE ~(j = i /\ k = claim[i].key)
        <5>1. entries'[j][k] = entries[j][k]
          BY <2>1, <2>3, <2>5, <3>4, <4>2, KeptType DEF TypeOK
        <5>2. PICK n \in 1 .. Len(accepted) :
                /\ accepted[n] # Forgotten /\ accepted[n].by = j
                /\ Stands(accepted[n], k, entries[j][k])
          BY <3>4, <5>1 DEF EntriesAreAccepted
        <5> QED
          BY <3>1, <3>2, <5>1, <5>2
      <4> QED
        BY <4>1, <4>2
    <3> QED
      BY <2>2, <3>4 DEF EntriesAreAccepted
  <2> QED
    BY <1>2, <2>4, <2>5, MemoryShape
<1>3. ASSUME NEW i \in Instance, Ends(i) PROVE RowsAreAccepted' /\ EntriesAreAccepted'
  <2>1. \A k \in Key : rows'[k] = IF k \notin claim[i].locked THEN rows[k]
                                  ELSE IF claim[i].step = "commit" /\ k = claim[i].key
                                  THEN Claimed(i) ELSE Free
    BY <1>3, ViewOf DEF Ends
  <2>2. CASE claim[i].step # "commit"
    <3>1. UNCHANGED <<accepted, entries, durable>> /\ durable
      BY <1>3, <2>2 DEF Ends
    <3>2. \A k \in Key : rows'[k] # Free => rows'[k] = rows[k]
      BY <2>1, <2>2
    <3> QED
      BY <3>1, <3>2 DEF RowsAreAccepted, EntriesAreAccepted
  <2>3. CASE claim[i].step = "commit"
    <3>1. PICK a \in Record :
            /\ Len(accepted') = Len(accepted) + 1
            /\ accepted'[Len(accepted) + 1] = a
            /\ \A n \in 1 .. Len(accepted) : accepted'[n] = accepted[n]
            /\ a # Forgotten
            /\ a.key = claim[i].key /\ a.fingerprint = claim[i].fingerprint
            /\ a.at = claim[i].now
      BY <1>3, <2>3, AcceptType DEF Ends
    <3>2. Len(accepted) \in Nat /\ UNCHANGED <<entries, durable>> /\ durable
      BY <1>3 DEF AcceptedType, Ends
    <3>3. Stands(a, claim[i].key, Claimed(i))
      BY <2>3, <3>1, ClaimedType DEF Stands
    <3>4. ASSUME NEW k \in Key, rows'[k] # Free
          PROVE  \E n \in 1 .. Len(accepted') :
                   accepted'[n] # Forgotten /\ Stands(accepted'[n], k, rows'[k])
      <4>1. CASE rows'[k] = Claimed(i) /\ k = claim[i].key
        BY <3>1, <3>2, <3>3, <4>1
      <4>2. CASE rows'[k] = rows[k]
        <5>1. PICK n \in 1 .. Len(accepted) :
                accepted[n] # Forgotten /\ Stands(accepted[n], k, rows[k])
          BY <3>4, <4>2 DEF RowsAreAccepted
        <5> QED
          BY <3>1, <3>2, <4>2, <5>1
      <4> QED
        BY <2>1, <3>4, <4>1, <4>2
    <3>5. EntriesAreAccepted'
      <4> SUFFICES ASSUME NEW j \in Instance, NEW k \in Key, entries[j][k] # Free
                   PROVE  \E n \in 1 .. Len(accepted') :
                            /\ accepted'[n] # Forgotten /\ accepted'[n].by = j
                            /\ Stands(accepted'[n], k, entries[j][k])
        BY <3>2 DEF EntriesAreAccepted
      <4>1. PICK n \in 1 .. Len(accepted) :
              /\ accepted[n] # Forgotten /\ accepted[n].by = j
              /\ Stands(accepted[n], k, entries[j][k])
        BY DEF EntriesAreAccepted
      <4> QED
        BY <3>1, <3>2, <4>1
    <3> QED
      BY <3>2, <3>4, <3>5 DEF RowsAreAccepted
  <2> QED
    BY <2>2, <2>3
<1>4. ASSUME NEW i \in Instance, Crash(i) PROVE RowsAreAccepted' /\ EntriesAreAccepted'
  <2>1. /\ UNCHANGED <<rows, durable>>
        /\ \A j \in Instance \ {i} : entries'[j] = entries[j]
        /\ \A k \in Key : entries'[i][k] = Free
    BY <1>4 DEF Crash, NoKeys, TypeOK
  <2>2. CASE durable
    <3>1. UNCHANGED accepted
      BY <1>4, <2>2 DEF Crash
    <3> QED
      BY <2>1, <2>2, <3>1 DEF RowsAreAccepted, EntriesAreAccepted
  <2>3. CASE ~durable
    <3>1. accepted' = [n \in 1 .. Len(accepted) |->
                         IF accepted[n].by = i THEN Forgotten ELSE accepted[n]]
      BY <1>4, <2>3 DEF Crash, AcceptedType
    <3>2. Len(accepted') = Len(accepted)
      BY <3>1 DEF AcceptedType
    <3>3. EntriesAreAccepted'
      BY <2>1, <3>1, <3>2 DEF EntriesAreAccepted
    <3> QED
      BY <2>1, <2>3, <3>3 DEF RowsAreAccepted
  <2> QED
    BY <2>2, <2>3
<1> QED
  BY <1>1, <1>2, <1>3, <1>4, Shapes, AuthorizeShape DEF Tick, Stays, Fail


(* The time of an instance's next decision never goes back.                *)
LEMMA TimeGrows ==
    ASSUME IInv, Next, NEW j \in Instance
    PROVE  /\ Latest \in Nat /\ Latest' \in Nat /\ Latest <= Latest'
           /\ OwnTime(j) \in Nat /\ OwnTime(j)' \in Nat /\ OwnTime(j) <= OwnTime(j)'
<1> USE DEF IInv
<1>1. /\ Now(j) \in Nat /\ Latest \in Nat /\ clock \in Nat /\ claim[j].now \in Nat
      /\ claim[j].step # "idle" => claim[j].now <= Now(j)
  BY Times DEF TypeOK, ClaimsAreSound
<1>2. CASE UNCHANGED clock
  <2>1. Now(j)' = Now(j) /\ Latest' = Latest
    BY <1>2 DEF Now, Latest
  <2>2. \/ claim'[j] = claim[j]
        \/ claim[j].step = "idle" /\ claim'[j].now = Now(j) /\ claim'[j].step # "idle"
        \/ claim[j].step # "idle" /\ claim'[j].now = claim[j].now /\ claim'[j].step # "idle"
        \/ claim'[j].step = "idle"
    <3>1. ASSUME NEW i \in Instance, Stays(i)
          PROVE  \/ claim'[j] = claim[j]
                 \/ /\ claim[j].step # "idle" /\ claim'[j].now = claim[j].now
                    /\ claim'[j].step # "idle"
      BY <3>1 DEF Stays, GoesOn
    <3>2. ASSUME NEW i \in Instance, Authorize(i)
          PROVE  \/ claim'[j] = claim[j]
                 \/ /\ claim[j].step = "idle" /\ claim'[j].now = Now(j)
                    /\ claim'[j].step # "idle"
      BY <3>2, AuthorizeShape
    <3>3. ASSUME NEW i \in Instance, claim' = [claim EXCEPT ![i] = NoClaim]
          PROVE  claim'[j] = claim[j] \/ claim'[j].step = "idle"
      BY <3>3, FreeClaims
    <3>4. CASE Tick
      BY <3>4 DEF Tick
    <3> QED
      BY <3>1, <3>2, <3>3, <3>4, Shapes, MemoryShape DEF Ends, Fail, Answer, Crash
  <2> QED
    BY <1>1, <2>1, <2>2 DEF OwnTime
<1>3. CASE Tick
  <2>1. clock' = clock + 1 /\ UNCHANGED claim
    BY <1>3 DEF Tick
  <2>2. Now(j)' = Now(j) + 1 /\ Latest' = Latest + 1
    BY <1>1, <2>1 DEF Now, Latest
  <2> QED
    BY <1>1, <2>1, <2>2 DEF OwnTime
<1> QED
  BY <1>2, <1>3, Shapes, AuthorizeShape, MemoryShape DEF Stays, Ends, Fail, Crash

LEMMA RecordTypes ==
    ASSUME IInv, NEW n \in 1 .. Len(accepted), accepted[n] # Forgotten
    PROVE  /\ accepted[n] \in Record /\ accepted[n].at \in Nat /\ accepted[n].by \in Instance
           /\ accepted[n].key \in Key /\ accepted[n].latest \in Nat
           /\ TTL \in Nat /\ Len(accepted) \in Nat
<1>1. accepted[n] \in Record
  BY DEF IInv, AcceptedType
<1> QED
  BY <1>1, GuardAssumption DEF Record, IInv, AcceptedType

LEMMA RowWindowsStep ==
    ASSUME IInv, Next
    PROVE  RowsHoldWindows'
<1> SUFFICES ASSUME durable' PROVE RowsHoldWindows'
  BY DEF RowsHoldWindows
<1>1. durable
  BY Shapes, AuthorizeShape, MemoryShape DEF IInv, Tick, Stays, Ends, Fail, Crash
<1>2. \A n \in 1 .. Len(accepted) : accepted[n] \in Record /\ accepted[n] # Forgotten
  <2>1. Forgotten.by = "GONE" /\ "GONE" \notin Instance
    BY GuardAssumption DEF Forgotten
  <2> QED
    BY <1>1, <2>1 DEF IInv, AcceptedType, Record
<1>3. \A n \in 1 .. Len(accepted) :
         accepted[n].at + TTL <= Latest \/ Held(accepted[n], rows)
  BY <1>1 DEF IInv, RowsHoldWindows
<1>4. \A n \in 1 .. Len(accepted) : accepted[n].at + TTL <= Latest => accepted[n].at + TTL <= Latest'
  <2> SUFFICES ASSUME NEW n \in 1 .. Len(accepted), accepted[n].at + TTL <= Latest
               PROVE  accepted[n].at + TTL <= Latest'
    OBVIOUS
  <2>1. accepted[n].at \in Nat /\ TTL \in Nat /\ accepted[n].by \in Instance
    BY <1>2, RecordTypes
  <2>2. Latest \in Nat /\ Latest' \in Nat /\ Latest <= Latest'
    BY <2>1, TimeGrows
  <2> QED
    BY <2>1, <2>2
<1>5. CASE UNCHANGED <<rows, accepted>>
  BY <1>3, <1>4, <1>5 DEF RowsHoldWindows, Held
<1>6. ASSUME NEW i \in Instance, Ends(i) PROVE RowsHoldWindows'
  <2>1. \A k \in Key : rows'[k] = IF k \notin claim[i].locked THEN rows[k]
                                  ELSE IF claim[i].step = "commit" /\ k = claim[i].key
                                  THEN Claimed(i) ELSE Free
    BY <1>6, ViewOf DEF Ends
  <2>2. claim[i].step # "idle" /\ UNCHANGED clock
    BY <1>6 DEF Ends
  <2>3. ASSUME NEW n \in 1 .. Len(accepted)
        PROVE  accepted[n].at + TTL <= Latest' \/ Held(accepted[n], rows')
    <3>1. /\ accepted[n].at \in Nat /\ TTL \in Nat /\ accepted[n].key \in Key
      BY <1>2, RecordTypes
    <3>2. CASE accepted[n].at + TTL <= Latest
      BY <1>4, <3>2
    <3>3. CASE Held(accepted[n], rows) /\ accepted[n].key \in claim[i].locked
      <4>1. rows[accepted[n].key].expires <= claim[i].now
        BY <3>3 DEF IInv, LockedIsOver, Held
      <4>2. rows[accepted[n].key].expires >= accepted[n].at + TTL
        BY <3>3 DEF Held
      <4>3. claim[i].now <= Now(i) /\ Now(i) <= Latest /\ Now(i) \in Nat /\ Latest \in Nat
        BY <2>2, Times DEF IInv, ClaimsAreSound
      <4>4. rows[accepted[n].key].expires \in Int /\ claim[i].now \in Int
        BY <3>1 DEF IInv, TypeOK, Entry
      <4>5. accepted[n].at + TTL <= Latest
        BY <3>1, <4>1, <4>2, <4>3, <4>4
      <4> QED
        BY <1>4, <4>5
    <3>4. CASE Held(accepted[n], rows) /\ accepted[n].key \notin claim[i].locked
      BY <2>1, <3>1, <3>4 DEF Held
    <3> QED
      BY <1>3, <3>2, <3>3, <3>4
  <2>4. CASE UNCHANGED accepted
    BY <2>3, <2>4 DEF RowsHoldWindows
  <2>5. CASE claim[i].step = "commit" /\ Accept(i)
    <3>1. PICK a \in Record :
            /\ Len(accepted') = Len(accepted) + 1
            /\ accepted'[Len(accepted) + 1] = a
            /\ \A n \in 1 .. Len(accepted) : accepted'[n] = accepted[n]
            /\ a.key = claim[i].key /\ a.at = claim[i].now
      BY <2>2, <2>5, AcceptType
    <3>2. claim[i].key \in Key /\ claim[i].key \in claim[i].locked
      BY <2>5 DEF IInv, ClaimsAreSound
    <3>3. Held(a, rows')
      <4>1. rows'[a.key] = Claimed(i)
        BY <2>1, <2>5, <3>1, <3>2
      <4>2. Claimed(i) # Free /\ Claimed(i).expires = a.at + TTL
        BY <2>2, <3>1, ClaimedType
      <4>3. a.at + TTL \in Int
        BY <3>1, GuardAssumption DEF Record
      <4> QED
        BY <4>1, <4>2, <4>3 DEF Held
    <3>4. Len(accepted) \in Nat
      BY DEF IInv, AcceptedType
    <3>5. ASSUME NEW n \in 1 .. Len(accepted')
          PROVE  accepted'[n].at + TTL <= Latest' \/ Held(accepted'[n], rows')
      BY <2>3, <3>1, <3>3, <3>4
    <3> QED
      BY <3>5 DEF RowsHoldWindows
  <2> QED
    BY <1>6, <2>4, <2>5 DEF Ends
<1> QED
  BY <1>1, <1>5, <1>6, Shapes, AuthorizeShape, MemoryShape
     DEF IInv, Tick, Stays, Fail, Crash

LEMMA EntryWindowsStep ==
    ASSUME IInv, Next
    PROVE  EntriesHoldWindows'
<1> SUFFICES ASSUME ~durable' PROVE EntriesHoldWindows'
  BY DEF EntriesHoldWindows
<1>1. ~durable
  BY Shapes, AuthorizeShape, MemoryShape DEF IInv, Tick, Stays, Ends, Fail, Crash
<1>2. \A n \in 1 .. Len(accepted) : accepted[n] # Forgotten =>
         \/ accepted[n].at + TTL <= OwnTime(accepted[n].by)
         \/ Held(accepted[n], entries[accepted[n].by])
  BY <1>1 DEF IInv, EntriesHoldWindows
<1>3. ASSUME NEW n \in 1 .. Len(accepted), accepted[n] # Forgotten, NEW j \in Instance,
             accepted[n].at + TTL <= OwnTime(j)
      PROVE  accepted[n].at + TTL <= OwnTime(j)'
  <2>1. accepted[n].at \in Nat /\ TTL \in Nat
    BY <1>3, RecordTypes
  <2>2. OwnTime(j) \in Nat /\ OwnTime(j)' \in Nat /\ OwnTime(j) <= OwnTime(j)'
    BY TimeGrows
  <2> QED
    BY <1>3, <2>1, <2>2
<1>4. ASSUME NEW n \in 1 .. Len(accepted), accepted[n] # Forgotten, NEW j \in Instance,
             accepted[n].by = j, entries'[j] = entries[j]
      PROVE  \/ accepted[n].at + TTL <= OwnTime(j)'
             \/ Held(accepted[n], entries'[j])
  BY <1>2, <1>3, <1>4
<1>5. CASE UNCHANGED <<entries, accepted>>
  <2> SUFFICES ASSUME NEW n \in 1 .. Len(accepted), accepted[n] # Forgotten,
                      NEW j, j = accepted[n].by
               PROVE  \/ accepted[n].at + TTL <= OwnTime(j)'
                      \/ Held(accepted[n], entries'[j])
    BY <1>5 DEF EntriesHoldWindows, OwnTime, Now
  <2>1. j \in Instance
    BY RecordTypes
  <2> QED
    BY <1>4, <1>5, <2>1
<1>6. ASSUME NEW i \in Instance, ClaimInMemory(i) PROVE EntriesHoldWindows'
  <2>1. /\ claim[i].step = "prune" /\ claim[i].key \in Key
        /\ claim' = [claim EXCEPT ![i] = NoClaim]
    BY <1>6, MemoryShape DEF IInv, ClaimsAreSound
  <2>2. ASSUME NEW n \in 1 .. Len(accepted), accepted[n] # Forgotten, accepted[n].by = i
        PROVE  \/ accepted[n].at + TTL <= OwnTime(i)
               \/ Held(accepted[n], Kept(i))
    <3>1. accepted[n].at \in Nat /\ TTL \in Nat /\ accepted[n].key \in Key
      BY <2>2, RecordTypes
    <3>2. CASE Held(accepted[n], entries[i])
      <4>1. OwnTime(i) = claim[i].now
        BY <2>1 DEF OwnTime
      <4>2. entries[i][accepted[n].key].expires \in Int /\ claim[i].now \in Int
        BY <3>1 DEF IInv, TypeOK, Entry
      <4>3. Kept(i)[accepted[n].key] =
              IF entries[i][accepted[n].key] # Free
                 /\ entries[i][accepted[n].key].expires <= claim[i].now
              THEN Free ELSE entries[i][accepted[n].key]
        BY <3>1, KeptType DEF IInv
      <4> QED
        BY <3>1, <3>2, <4>1, <4>2, <4>3 DEF Held
    <3> QED
      BY <1>2, <2>2, <3>2
  <2>3. \A j \in Instance \ {i} : entries'[j] = entries[j]
    BY <1>6, MemoryShape DEF IInv, TypeOK
  <2>4. CASE UNCHANGED accepted /\ entries' = [entries EXCEPT ![i] = Kept(i)]
    <3>1. entries'[i] = Kept(i)
      BY <2>4 DEF IInv, TypeOK
    <3> SUFFICES ASSUME NEW n \in 1 .. Len(accepted), accepted[n] # Forgotten,
                        NEW j, j = accepted[n].by
                 PROVE  \/ accepted[n].at + TTL <= OwnTime(j)'
                        \/ Held(accepted[n], entries'[j])
      BY <2>4 DEF EntriesHoldWindows, OwnTime, Now
    <3>2. j \in Instance
      BY RecordTypes
    <3> QED
      BY <1>3, <1>4, <2>2, <2>3, <3>1, <3>2
  <2>5. CASE /\ Accept(i) /\ Kept(i)[claim[i].key] = Free
             /\ entries' = [entries EXCEPT ![i] =
                              [Kept(i) EXCEPT ![claim[i].key] = Claimed(i)]]
    <3>1. PICK a \in Record :
            /\ Len(accepted') = Len(accepted) + 1
            /\ accepted'[Len(accepted) + 1] = a
            /\ \A n \in 1 .. Len(accepted) : accepted'[n] = accepted[n]
            /\ a.key = claim[i].key /\ a.at = claim[i].now /\ a.by = i
      BY <2>1, <2>5, AcceptType
    <3>2. Len(accepted) \in Nat
      BY DEF IInv, AcceptedType
    <3>3. \A k \in Key : entries'[i][k] = IF k = claim[i].key THEN Claimed(i) ELSE Kept(i)[k]
      <4>1. Kept(i) \in [Key -> Entry]
        BY KeptType DEF IInv
      <4> QED
        BY <2>1, <2>5, <4>1 DEF IInv, TypeOK
    <3>4. Held(a, entries'[i])
      <4>1. Claimed(i) # Free /\ Claimed(i).expires = a.at + TTL
        BY <2>1, <3>1, ClaimedType
      <4>2. a.at + TTL \in Int
        BY <3>1, GuardAssumption DEF Record
      <4> QED
        BY <2>1, <3>1, <3>3, <4>1, <4>2 DEF Held
    <3>5. ASSUME NEW n \in 1 .. Len(accepted), accepted[n] # Forgotten,
                 NEW j \in Instance, accepted[n].by = j
          PROVE  \/ accepted[n].at + TTL <= OwnTime(j)'
                 \/ Held(accepted[n], entries'[j])
      <4>1. CASE j = i /\ Held(accepted[n], Kept(i))
        <5>1. accepted[n].key \in Key /\ accepted[n].key # claim[i].key
          BY <2>5, <3>5, <4>1, RecordTypes DEF Held
        <5> QED
          BY <3>3, <4>1, <5>1 DEF Held
      <4> QED
        BY <1>3, <1>4, <2>2, <2>3, <3>5, <4>1
    <3> SUFFICES ASSUME NEW n \in 1 .. Len(accepted'), accepted'[n] # Forgotten,
                        NEW j, j = accepted'[n].by
                 PROVE  \/ accepted'[n].at + TTL <= OwnTime(j)'
                        \/ Held(accepted'[n], entries'[j])
      BY DEF EntriesHoldWindows, OwnTime, Now
    <3>6. CASE n = Len(accepted) + 1
      BY <3>1, <3>4, <3>6
    <3>7. CASE n \in 1 .. Len(accepted)
      <4>1. accepted'[n] = accepted[n] /\ j \in Instance
        BY <3>1, <3>7, RecordTypes
      <4> QED
        BY <3>5, <3>7, <4>1
    <3> QED
      BY <3>1, <3>2, <3>6, <3>7
  <2> QED
    BY <1>6, <2>4, <2>5, MemoryShape
<1>7. ASSUME NEW i \in Instance, Crash(i) PROVE EntriesHoldWindows'
  <2>1. \A j \in Instance \ {i} : entries'[j] = entries[j]
    BY <1>7 DEF Crash, IInv, TypeOK
  <2>2. accepted' = [n \in 1 .. Len(accepted) |->
                       IF accepted[n].by = i THEN Forgotten ELSE accepted[n]]
    BY <1>1, <1>7 DEF Crash, IInv, AcceptedType
  <2>3. Len(accepted') = Len(accepted)
    BY <2>2 DEF IInv, AcceptedType
  <2> SUFFICES ASSUME NEW n \in 1 .. Len(accepted), accepted'[n] # Forgotten,
                      NEW j, j = accepted'[n].by
               PROVE  \/ accepted'[n].at + TTL <= OwnTime(j)'
                      \/ Held(accepted'[n], entries'[j])
    BY <2>3 DEF EntriesHoldWindows, OwnTime, Now
  <2>4. accepted'[n] = accepted[n] /\ j # i
    BY <2>2
  <2>5. j \in Instance
    BY <2>4, RecordTypes
  <2> QED
    BY <1>4, <2>1, <2>4, <2>5
<1> QED
  BY <1>1, <1>5, <1>6, <1>7, Shapes, AuthorizeShape DEF IInv, Tick, Stays, Ends, Fail


LEMMA OnceStep ==
    ASSUME IInv, Next
    PROVE  AcceptedOncePerWindow'
<1>1. CASE UNCHANGED <<durable, accepted>>
  BY <1>1 DEF IInv, AcceptedOncePerWindow
<1>2. Len(accepted) \in Nat
  BY DEF IInv, AcceptedType
<1>3. ASSUME NEW i \in Instance, Ends(i), claim[i].step = "commit" PROVE AcceptedOncePerWindow'
  <2>1. PICK a \in Record :
          /\ Len(accepted') = Len(accepted) + 1
          /\ accepted'[Len(accepted) + 1] = a
          /\ \A n \in 1 .. Len(accepted) : accepted'[n] = accepted[n]
          /\ a.key = claim[i].key /\ a.latest = Latest
    BY <1>3, AcceptType DEF Ends
  <2>2. durable /\ durable'
    BY <1>3 DEF Ends
  <2>3. ASSUME NEW m \in 1 .. Len(accepted), accepted[m].key = claim[i].key
        PROVE  Latest >= accepted[m].at + TTL
    <3>1. accepted[m] # Forgotten
      <4>1. Forgotten.by = "GONE" /\ "GONE" \notin Instance
        BY GuardAssumption DEF Forgotten
      <4> QED
        BY <2>2, <4>1 DEF IInv, AcceptedType, Record
    <3>2. accepted[m].at \in Nat /\ TTL \in Nat /\ accepted[m].key \in Key
      BY <3>1, RecordTypes
    <3>3. /\ claim[i].now <= Now(i) /\ Now(i) <= Latest /\ Now(i) \in Nat
          /\ Latest \in Nat /\ claim[i].now \in Nat
      BY <1>3, Times DEF IInv, TypeOK, ClaimsAreSound
    <3>4. CASE Held(accepted[m], rows)
      <4>1. rows[claim[i].key] # Free /\ rows[claim[i].key].expires >= accepted[m].at + TTL
        BY <2>3, <3>4 DEF Held
      <4>2. rows[claim[i].key].expires <= claim[i].now
        BY <1>3, <4>1 DEF IInv, ClaimsAreSound, LockedIsOver
      <4>3. rows[claim[i].key].expires \in Int
        BY <2>3, <3>2 DEF IInv, TypeOK, Entry
      <4> QED
        BY <3>2, <3>3, <4>1, <4>2, <4>3
    <3> QED
      BY <2>2, <3>2, <3>3, <3>4 DEF IInv, RowsHoldWindows
  <2> SUFFICES ASSUME NEW m \in 1 .. Len(accepted'), NEW n \in 1 .. Len(accepted'), m < n,
                      accepted'[m].key = accepted'[n].key
               PROVE  accepted'[n].latest >= accepted'[m].at + TTL
    BY <2>2 DEF AcceptedOncePerWindow
  <2>4. m \in 1 .. Len(accepted) /\ accepted'[m] = accepted[m]
    BY <1>2, <2>1
  <2>5. CASE n = Len(accepted) + 1
    BY <2>1, <2>3, <2>4, <2>5
  <2>6. CASE n \in 1 .. Len(accepted)
    BY <2>1, <2>2, <2>4, <2>6 DEF IInv, AcceptedOncePerWindow
  <2> QED
    BY <1>2, <2>1, <2>5, <2>6
<1>4. ASSUME NEW i \in Instance, ClaimInMemory(i), Accept(i) PROVE AcceptedOncePerWindow'
  <2>1. /\ claim[i].step = "prune" /\ ~durable /\ ~durable' /\ claim[i].key \in Key
    BY <1>4, MemoryShape DEF IInv, ClaimsAreSound
  <2>2. PICK a \in Record :
          /\ Len(accepted') = Len(accepted) + 1
          /\ accepted'[Len(accepted) + 1] = a
          /\ \A n \in 1 .. Len(accepted) : accepted'[n] = accepted[n]
          /\ a.key = claim[i].key /\ a.at = claim[i].now /\ a.by = i
    BY <1>4, <2>1, AcceptType
  <2>3. Kept(i)[claim[i].key] = Free
    <3>1. UNCHANGED accepted => FALSE
      BY <1>2, <2>2
    <3> QED
      BY <1>4, <3>1, MemoryShape
  <2>4. ASSUME NEW m \in 1 .. Len(accepted), accepted[m] # Forgotten, accepted[m].by = i,
               accepted[m].key = claim[i].key
        PROVE  claim[i].now >= accepted[m].at + TTL
    <3>1. accepted[m].at \in Nat /\ TTL \in Nat /\ OwnTime(i) = claim[i].now
          /\ claim[i].now \in Nat
      BY <2>1, <2>4, RecordTypes DEF OwnTime, IInv, TypeOK
    <3>2. CASE Held(accepted[m], entries[i])
      <4>1. /\ entries[i][claim[i].key] # Free
            /\ entries[i][claim[i].key].expires >= accepted[m].at + TTL
        BY <2>4, <3>2 DEF Held
      <4>2. entries[i][claim[i].key].expires <= claim[i].now
        <5>1. Kept(i)[claim[i].key] = IF entries[i][claim[i].key] # Free
                                         /\ entries[i][claim[i].key].expires <= claim[i].now
                                      THEN Free ELSE entries[i][claim[i].key]
          BY <2>1, KeptType DEF IInv
        <5> QED
          BY <2>3, <4>1, <5>1
      <4>3. entries[i][claim[i].key].expires \in Int
        BY <2>1 DEF IInv, TypeOK, Entry
      <4> QED
        BY <3>1, <4>1, <4>2, <4>3
    <3> QED
      BY <2>1, <2>4, <3>1, <3>2 DEF IInv, EntriesHoldWindows
  <2> SUFFICES ASSUME NEW m \in 1 .. Len(accepted'), NEW n \in 1 .. Len(accepted'), m < n,
                      accepted'[m].key = accepted'[n].key,
                      accepted'[m].by = accepted'[n].by, accepted'[m] # Forgotten
               PROVE  accepted'[n].at >= accepted'[m].at + TTL
    BY <2>1 DEF AcceptedOncePerWindow
  <2>5. m \in 1 .. Len(accepted) /\ accepted'[m] = accepted[m]
    BY <1>2, <2>2
  <2>6. CASE n = Len(accepted) + 1
    BY <2>2, <2>4, <2>5, <2>6
  <2>7. CASE n \in 1 .. Len(accepted)
    BY <2>1, <2>2, <2>5, <2>7 DEF IInv, AcceptedOncePerWindow
  <2> QED
    BY <1>2, <2>2, <2>6, <2>7
<1>5. ASSUME NEW i \in Instance, Crash(i), ~durable PROVE AcceptedOncePerWindow'
  <2>1. accepted' = [n \in 1 .. Len(accepted) |->
                       IF accepted[n].by = i THEN Forgotten ELSE accepted[n]]
    BY <1>5 DEF Crash, IInv, AcceptedType
  <2>2. Len(accepted') = Len(accepted) /\ ~durable'
    BY <1>5, <2>1 DEF Crash, IInv, AcceptedType
  <2> SUFFICES ASSUME NEW m \in 1 .. Len(accepted), NEW n \in 1 .. Len(accepted), m < n,
                      accepted'[m].key = accepted'[n].key,
                      accepted'[m].by = accepted'[n].by, accepted'[m] # Forgotten
               PROVE  accepted'[n].at >= accepted'[m].at + TTL
    BY <2>2 DEF AcceptedOncePerWindow
  <2>3. accepted'[m] = accepted[m] /\ accepted[m] # Forgotten
    BY <2>1
  <2>4. accepted'[n] = accepted[n]
    <3>1. accepted'[n] # Forgotten
      <4>1. Forgotten.by = "GONE" /\ accepted[m].by \in Instance /\ "GONE" \notin Instance
        BY <2>3, RecordTypes, GuardAssumption DEF Forgotten
      <4> QED
        BY <2>3, <4>1
    <3> QED
      BY <2>1, <3>1
  <2> QED
    BY <1>5, <2>3, <2>4 DEF IInv, AcceptedOncePerWindow
<1>6. CASE \E i \in Instance : ClaimInMemory(i)
  BY <1>1, <1>4, <1>6, MemoryShape
<1>7. CASE \E i \in Instance : Ends(i)
  BY <1>1, <1>3, <1>7 DEF Ends
<1>8. CASE \E i \in Instance : Crash(i)
  BY <1>1, <1>5, <1>8 DEF Crash
<1> QED
  BY <1>1, <1>6, <1>7, <1>8, Shapes, AuthorizeShape DEF IInv, Tick, Stays, Fail

-----------------------------------------------------------------------------
(* The theorems.                                                           *)

LEMMA InitIInv == Init => IInv
<1> SUFFICES ASSUME Init PROVE IInv
  OBVIOUS
<1> USE DEF Init
<1>1. /\ MaxTime \in Nat /\ TTL \in Nat /\ 0 \in 0 .. MaxTime /\ 0 \in 0 .. MaxTime + 1
      /\ 0 \in 0 .. MaxTime + 1 + TTL
  BY GuardAssumption
<1>2. NoKeys \in [Key -> Entry] /\ \A k \in Key : NoKeys[k] = Free
  BY <1>1 DEF NoKeys, Entry, Free
<1>3. NoClaim \in ClaimType /\ NoClaim.step = "idle" /\ NoClaim.locked = {}
  BY <1>1 DEF NoClaim, ClaimType
<1>4. TypeOK
  BY <1>1, <1>2, <1>3 DEF TypeOK, ClaimType
<1>5. accepted = <<>> /\ Len(accepted) = 0
  OBVIOUS
<1>6. AcceptedType /\ RowsHoldWindows /\ EntriesHoldWindows /\ AcceptedOncePerWindow
  BY <1>5 DEF AcceptedType, RowsHoldWindows, EntriesHoldWindows, AcceptedOncePerWindow
<1>7. ClaimsAreSound /\ LocksAreExclusive /\ LockedIsOver /\ OthersAreLive
  BY <1>3 DEF ClaimsAreSound, LocksAreExclusive, LockedIsOver, OthersAreLive
<1>8. RowsAreAccepted /\ EntriesAreAccepted
  BY <1>2 DEF RowsAreAccepted, EntriesAreAccepted
<1> QED
  BY <1>4, <1>6, <1>7, <1>8 DEF IInv

LEMMA StepIInv == IInv /\ [Next]_vars => IInv'
<1>1. ASSUME IInv, Next PROVE IInv'
  BY <1>1, TypesStep, ClaimsStep, LocksStep, RecordsStep, RowWindowsStep,
     EntryWindowsStep, OnceStep DEF IInv
<1>2. ASSUME IInv, UNCHANGED vars PROVE IInv'
  <2> USE <1>2 DEF vars, IInv
  <2>1. TypeOK' /\ AcceptedType'
    BY DEF TypeOK, AcceptedType
  <2>2. ClaimsAreSound' /\ LocksAreExclusive' /\ LockedIsOver' /\ OthersAreLive'
    BY DEF ClaimsAreSound, LocksAreExclusive, LockedIsOver, OthersAreLive, Now
  <2>3. RowsAreAccepted' /\ EntriesAreAccepted'
    BY DEF RowsAreAccepted, EntriesAreAccepted
  <2>4. RowsHoldWindows' /\ EntriesHoldWindows' /\ AcceptedOncePerWindow'
    BY DEF RowsHoldWindows, EntriesHoldWindows, AcceptedOncePerWindow, Latest, OwnTime, Now
  <2> QED
    BY <2>1, <2>2, <2>3, <2>4
<1> QED
  BY <1>1, <1>2

(* The inductive invariant of the guard: claim_mutation_replay() and the   *)
(* in-memory claim keep rows, locks, claims and history in step.           *)
THEOREM GuardInvariant == Spec => []IInv
BY InitIInv, StepIInv, PTL DEF Spec

(* An idempotency key is accepted once per window: by one process at least *)
(* TTL apart, and across instances only once the window is over by the     *)
(* clock that is furthest ahead.                                           *)
THEOREM KeyAcceptedOncePerWindow == Spec => []AcceptedOncePerWindow
<1>1. IInv => AcceptedOncePerWindow
  BY DEF IInv
<1> QED
  BY <1>1, GuardInvariant, PTL

(* A refusal in memory is about the entry the key has, in the database     *)
(* about the row the transaction sees.                                     *)
LEMMA RefusalsAreJudged ==
    ASSUME IInv, Next, NEW i \in Instance, NEW r \in {"REPLAY", "REUSED_FOR_DIFFERENT_REQUEST"},
           answer' = <<i, r>>
    PROVE  /\ claim[i].key \in Key
           /\ \/ /\ ~durable
                 /\ Kept(i)[claim[i].key] # Free
                 /\ r = Refusal(Kept(i)[claim[i].key], claim[i].fingerprint)
              \/ /\ durable /\ claim[i].step \in {"get", "recycle"}
                 /\ Existing(i) # Free
                 /\ r = Refusal(Existing(i), claim[i].fingerprint)
<1>1. r \notin {"ACCEPTED", "CAPACITY_EXHAUSTED", "ERROR", "NONE"}
  OBVIOUS
<1>2. ASSUME NEW j \in Instance, NEW row, Judge(j, row)
      PROVE  /\ j = i /\ row # Free /\ r = Refusal(row, claim[i].fingerprint)
  BY <1>1, <1>2 DEF Judge, Answer
<1>3. answer' # NoAnswer
  BY <1>1 DEF NoAnswer
<1>4. PICK j \in Instance : \/ ClaimInMemory(j) \/ Get(j) \/ Count(j) \/ Recycle(j)
  BY <1>1, <1>3 DEF Next, Transact, Tick, Authorize, Fail, Crash, Prune, Write, Insert,
     Continue, CommitClaim, Answer
<1>5. CASE ClaimInMemory(j)
  BY <1>1, <1>5, MemoryShape DEF IInv, ClaimsAreSound
<1>6. CASE Get(j)
  BY <1>2, <1>3, <1>6 DEF Get, Statement, At, Continue, IInv, ClaimsAreSound
<1>7. CASE Count(j)
  BY <1>2, <1>3, <1>7 DEF Count, Continue
<1>8. CASE Recycle(j)
  BY <1>2, <1>3, <1>8 DEF Recycle, Statement, At, Write, IInv, ClaimsAreSound
<1> QED
  BY <1>4, <1>5, <1>6, <1>7, <1>8


(* What an entry or a row that has not expired says about the history.     *)
LEMMA RefusalHasCause ==
    ASSUME IInv, Next, NEW i \in Instance, NEW r \in {"REPLAY", "REUSED_FOR_DIFFERENT_REQUEST"},
           answer' = <<i, r>>
    PROVE  \E n \in 1 .. Len(accepted) :
             /\ accepted[n].key = claim[i].key
             /\ durable \/ accepted[n].by = i
             /\ claim[i].now < accepted[n].at + TTL
             /\ r = "REPLAY" <=> accepted[n].fingerprint = claim[i].fingerprint
<1>1. claim[i].key \in Key /\ claim[i].now \in Int
  BY RefusalsAreJudged DEF IInv, TypeOK
<1>2. CASE /\ ~durable
           /\ Kept(i)[claim[i].key] # Free
           /\ r = Refusal(Kept(i)[claim[i].key], claim[i].fingerprint)
  <2> DEFINE e == entries[i][claim[i].key]
  <2>1. e # Free /\ ~(e.expires <= claim[i].now) /\ Kept(i)[claim[i].key] = e
    BY <1>1, <1>2, KeptType DEF IInv
  <2>2. e.expires \in Int
    BY <1>1 DEF IInv, TypeOK, Entry
  <2>3. PICK n \in 1 .. Len(accepted) :
          accepted[n].by = i /\ Stands(accepted[n], claim[i].key, e)
    BY <1>1, <2>1 DEF IInv, EntriesAreAccepted
  <2> QED
    BY <1>1, <1>2, <2>1, <2>2, <2>3 DEF Stands, Refusal
<1>3. CASE /\ durable /\ claim[i].step \in {"get", "recycle"}
           /\ Existing(i) # Free
           /\ r = Refusal(Existing(i), claim[i].fingerprint)
  <2> DEFINE e == rows[claim[i].key]
  <2>1. Existing(i) = e /\ e # Free /\ e.expires > claim[i].now
    BY <1>1, <1>3, NothingExpired DEF Existing
  <2>2. e.expires \in Int
    BY <1>1 DEF IInv, TypeOK, Entry
  <2>3. PICK n \in 1 .. Len(accepted) : Stands(accepted[n], claim[i].key, e)
    BY <1>1, <2>1 DEF IInv, RowsAreAccepted
  <2> QED
    BY <1>1, <1>3, <2>1, <2>2, <2>3 DEF Stands, Refusal
<1> QED
  BY <1>2, <1>3, RefusalsAreJudged

(* A 409 of the guard has a cause: REPLAY only when the same request was   *)
(* accepted under the key within the window of the refused one, REUSED     *)
(* only when another request was.                                          *)
THEOREM RefusalsAreJustified == Spec => RefusalIsJustified
<1> DEFINE Before(i) == {n \in 1 .. Len(accepted) :
                           /\ accepted[n].key = claim[i].key
                           /\ durable \/ accepted[n].by = i
                           /\ claim[i].now < accepted[n].at + TTL}
           Justified ==
             \A i \in Instance :
               /\ answer' = <<i, "REPLAY">> =>
                    \E n \in Before(i) : accepted[n].fingerprint = claim[i].fingerprint
               /\ answer' = <<i, "REUSED_FOR_DIFFERENT_REQUEST">> =>
                    \E n \in Before(i) : accepted[n].fingerprint # claim[i].fingerprint
<1>1. ASSUME IInv, Next PROVE Justified
  BY <1>1, RefusalHasCause
<1>2. IInv /\ [Next]_vars => [Justified]_vars
  BY <1>1
<1> QED
  BY <1>2, GuardInvariant, PTL DEF Spec, RefusalIsJustified

-----------------------------------------------------------------------------
(* The limit.  A claim that has counted adds a row when it commits, unless *)
(* it also removes one that is live by the clock in question.              *)

Pending(c) == c.step \in {"insert", "recycle", "commit"}

Replaces(c, keys, t) == \E k \in c.locked : keys[k] # Free /\ keys[k].expires > t

(* The claims that will add a row to those live at t.                      *)
Adding(cs, keys, t) == {i \in Instance : Pending(cs[i]) /\ ~Replaces(cs[i], keys, t)}

Used(keys) == {k \in Key : keys[k] # Free}

UsedIsFinite ==
    /\ IsFiniteSet(Used(rows))
    /\ \A i \in Instance : IsFiniteSet(Used(entries[i]))

RowsFit ==
    \A j \in Instance :
        Cardinality(Active(rows, Now(j))) + Cardinality(Adding(claim, rows, Now(j)))
            <= CacheLimit + Cardinality(Instance) - 1

EntriesFit == \A i \in Instance : Cardinality(Active(entries[i], 0)) <= CacheLimit

LimitInv == UsedIsFinite /\ RowsFit /\ EntriesFit


LEMMA EmptyIsFinite == IsFiniteSet({}) /\ Cardinality({}) = 0
BY FS_EmptySet

LEMMA Limits ==
    /\ CacheLimit \in Nat \ {0} /\ IsFiniteSet(Instance) /\ Cardinality(Instance) \in Nat
BY GuardAssumption, FS_CardinalityType

(* What is active is used, and of a finite table a part is finite.         *)
LEMMA ActiveIsFinite ==
    ASSUME NEW keys, IsFiniteSet(Used(keys)), NEW t
    PROVE  IsFiniteSet(Active(keys, t)) /\ Cardinality(Active(keys, t)) \in Nat
<1>1. Active(keys, t) \in SUBSET Used(keys)
  BY DEF Active, Used
<1>2. IsFiniteSet(Active(keys, t))
  BY <1>1, FS_Subset
<1> QED
  BY <1>2, FS_CardinalityType

LEMMA AddingIsFinite ==
    ASSUME NEW cs, NEW keys, NEW t
    PROVE  /\ IsFiniteSet(Adding(cs, keys, t)) /\ Cardinality(Adding(cs, keys, t)) \in Nat
           /\ Cardinality(Adding(cs, keys, t)) <= Cardinality(Instance)
<1>1. Adding(cs, keys, t) \in SUBSET Instance
  BY DEF Adding
<1>2. /\ IsFiniteSet(Adding(cs, keys, t))
      /\ Cardinality(Adding(cs, keys, t)) <= Cardinality(Instance)
  BY <1>1, Limits, FS_Subset
<1> QED
  BY <1>2, FS_CardinalityType

(* Fewer live rows and fewer additions to come.                            *)
LEMMA FewerFit ==
    ASSUME NEW A, IsFiniteSet(A), NEW U, IsFiniteSet(U), NEW A1 \in SUBSET A,
           NEW U1 \in SUBSET U, NEW b \in Int, Cardinality(A) + Cardinality(U) <= b
    PROVE  Cardinality(A1) + Cardinality(U1) <= b
<1>1. Cardinality(A1) <= Cardinality(A) /\ Cardinality(U1) <= Cardinality(U)
  BY FS_Subset
<1>2. IsFiniteSet(A1) /\ IsFiniteSet(U1)
  BY FS_Subset
<1>3. /\ Cardinality(A) \in Nat /\ Cardinality(U) \in Nat
      /\ Cardinality(A1) \in Nat /\ Cardinality(U1) \in Nat
  BY <1>2, FS_CardinalityType
<1> QED
  BY <1>1, <1>3

(* An addition that was to come takes place.                               *)
LEMMA AddedFits ==
    ASSUME NEW A, IsFiniteSet(A), NEW U, IsFiniteSet(U), NEW k, NEW i \in U,
           NEW A1 \in SUBSET (A \cup {k}), NEW U1 \in SUBSET (U \ {i}),
           NEW b \in Int, Cardinality(A) + Cardinality(U) <= b
    PROVE  Cardinality(A1) + Cardinality(U1) <= b
<1>1. /\ IsFiniteSet(A \cup {k})
      /\ Cardinality(A \cup {k}) = IF k \in A THEN Cardinality(A) ELSE Cardinality(A) + 1
  BY FS_AddElement
<1>2. /\ IsFiniteSet(U \ {i})
      /\ Cardinality(U \ {i}) = IF i \in U THEN Cardinality(U) - 1 ELSE Cardinality(U)
  BY FS_RemoveElement
<1>3. Cardinality(A) \in Nat /\ Cardinality(U) \in Nat
  BY FS_CardinalityType
<1>4. Cardinality(A \cup {k}) + Cardinality(U \ {i}) <= b
  BY <1>1, <1>2, <1>3
<1> QED
  BY <1>1, <1>2, <1>4, FewerFit

(* A row takes the place of one that is live.                              *)
LEMMA ReplacedFits ==
    ASSUME NEW A, IsFiniteSet(A), NEW U, IsFiniteSet(U), NEW k, NEW gone \in A,
           NEW A1 \in SUBSET ((A \ {gone}) \cup {k}), NEW U1 \in SUBSET U,
           NEW b \in Int, Cardinality(A) + Cardinality(U) <= b
    PROVE  Cardinality(A1) + Cardinality(U1) <= b
<1> DEFINE R == A \ {gone}
<1>1. /\ IsFiniteSet(R)
      /\ Cardinality(R) = IF gone \in A THEN Cardinality(A) - 1 ELSE Cardinality(A)
  BY FS_RemoveElement
<1> HIDE DEF R
<1>2. /\ IsFiniteSet(R \cup {k})
      /\ Cardinality(R \cup {k}) = IF k \in R THEN Cardinality(R) ELSE Cardinality(R) + 1
  BY <1>1, FS_AddElement
<1>3. Cardinality(A) \in Nat /\ Cardinality(U) \in Nat /\ Cardinality(R) \in Nat
  BY <1>1, FS_CardinalityType
<1>4. Cardinality(R \cup {k}) + Cardinality(U) <= b
  BY <1>1, <1>2, <1>3
<1>5. A1 \in SUBSET (R \cup {k})
  BY DEF R
<1> QED
  BY <1>2, <1>4, <1>5, FewerFit

(* Time passes: every claim that stops to replace a live row has one of    *)
(* its own that stopped to be live.                                        *)
LEMMA ElapsedFits ==
    ASSUME NEW A, IsFiniteSet(A), NEW U, IsFiniteSet(U), NEW A1 \in SUBSET A,
           NEW U1, IsFiniteSet(U1), NEW f \in Injection(U1 \ U, A \ A1),
           NEW b \in Int, Cardinality(A) + Cardinality(U) <= b
    PROVE  Cardinality(A1) + Cardinality(U1) <= b
<1> DEFINE N == U1 \ U
           G == A \ A1
<1>1. IsFiniteSet(G) /\ IsFiniteSet(A1)
  <2>1. G \in SUBSET A
    OBVIOUS
  <2> QED
    BY <2>1, FS_Subset
<1>2. IsFiniteSet(N) /\ Cardinality(N) <= Cardinality(G)
  BY <1>1, FS_Injection
<1>3. A1 \cup G = A /\ A1 \cap G = {}
  OBVIOUS
<1>4. U1 \in SUBSET (U \cup N)
  OBVIOUS
<1> HIDE DEF N, G
<1>5. Cardinality(A1 \cup G) = Cardinality(A1) + Cardinality(G) - Cardinality(A1 \cap G)
  BY <1>1, FS_Union
<1>6. Cardinality({}) = 0
  BY EmptyIsFinite
<1>7. /\ IsFiniteSet(U \cup N)
      /\ Cardinality(U \cup N) = Cardinality(U) + Cardinality(N) - Cardinality(U \cap N)
  BY <1>2, FS_Union
<1>8. Cardinality(U1) <= Cardinality(U \cup N)
  BY <1>4, <1>7, FS_Subset
<1>9. Cardinality(U \cap N) \in Nat
  <2>1. (U \cap N) \in SUBSET U
    OBVIOUS
  <2>2. IsFiniteSet(U \cap N)
    BY <2>1, FS_Subset
  <2> QED
    BY <2>2, FS_CardinalityType
<1>10. /\ Cardinality(A) \in Nat /\ Cardinality(U) \in Nat /\ Cardinality(A1) \in Nat
       /\ Cardinality(U1) \in Nat /\ Cardinality(G) \in Nat /\ Cardinality(N) \in Nat
       /\ Cardinality(U \cup N) \in Nat
  BY <1>1, <1>2, <1>7, FS_CardinalityType
<1>11. Cardinality(A) = Cardinality(A1) + Cardinality(G)
  <2>1. Cardinality(A) = Cardinality(A1) + Cardinality(G) - Cardinality({})
    BY <1>3, <1>5
  <2> QED
    BY <1>6, <1>10, <2>1
<1> QED
  BY <1>2, <1>7, <1>8, <1>9, <1>10, <1>11


LEMMA OneMoreIsFinite ==
    ASSUME NEW keys, IsFiniteSet(Used(keys)), NEW keys2, NEW k,
           Used(keys2) \subseteq Used(keys) \cup {k}
    PROVE  IsFiniteSet(Used(keys2))
<1>1. IsFiniteSet(Used(keys) \cup {k})
  BY FS_AddElement
<1>2. Used(keys2) \in SUBSET (Used(keys) \cup {k})
  OBVIOUS
<1> QED
  BY <1>1, <1>2, FS_Subset

LEMMA UsedStep == ASSUME IInv, UsedIsFinite, Next PROVE UsedIsFinite'
<1> USE DEF UsedIsFinite
<1>1. CASE UNCHANGED <<rows, entries>>
  BY <1>1 DEF Used
<1>2. ASSUME NEW i \in Instance, Ends(i) PROVE UsedIsFinite'
  <2>1. rows' = View(i) /\ UNCHANGED entries
    BY <1>2 DEF Ends
  <2>2. Used(rows') \subseteq Used(rows) \cup {claim[i].key}
    BY <2>1, ViewOf DEF Used
  <2>3. IsFiniteSet(Used(rows'))
    BY <2>2, OneMoreIsFinite
  <2> QED
    BY <2>1, <2>3 DEF Used
<1>3. ASSUME NEW i \in Instance, ClaimInMemory(i) PROVE UsedIsFinite'
  <2>1. /\ rows' = rows
        /\ \/ entries' = [entries EXCEPT ![i] = Kept(i)]
           \/ entries' = [entries EXCEPT ![i] = [Kept(i) EXCEPT ![claim[i].key] = Claimed(i)]]
    BY <1>3, MemoryShape
  <2>2. /\ entries \in [Instance -> [Key -> Entry]] /\ Kept(i) \in [Key -> Entry]
        /\ \A k \in Key : Kept(i)[k] \in {Free, entries[i][k]}
    BY KeptType DEF IInv, TypeOK
  <2>3. Used(entries'[i]) \subseteq Used(entries[i]) \cup {claim[i].key}
    BY <2>1, <2>2 DEF Used
  <2>4. IsFiniteSet(Used(entries'[i]))
    BY <2>3, OneMoreIsFinite
  <2>5. \A j \in Instance \ {i} : entries'[j] = entries[j]
    BY <2>1, <2>2
  <2> QED
    BY <2>1, <2>4, <2>5 DEF Used
<1>4. ASSUME NEW i \in Instance, Crash(i) PROVE UsedIsFinite'
  <2>1. rows' = rows /\ entries' = [entries EXCEPT ![i] = NoKeys]
    BY <1>4 DEF Crash
  <2>2. Used(NoKeys) = {}
    BY DEF Used, NoKeys
  <2>3. \A j \in Instance : entries'[j] = IF j = i THEN NoKeys ELSE entries[j]
    BY <2>1 DEF IInv, TypeOK
  <2> QED
    BY SMTT(30), <2>1, <2>2, <2>3, EmptyIsFinite DEF Used
<1>5. \A i \in Instance : Authorize(i) \/ Stays(i) \/ Fail(i) => UNCHANGED <<rows, entries>>
  BY DEF Authorize, Stays, Fail
<1>6. Tick => UNCHANGED <<rows, entries>>
  BY DEF Tick
<1> QED
  BY <1>1, <1>2, <1>3, <1>4, <1>5, <1>6, Shapes

LEMMA EntriesStep == ASSUME IInv, UsedIsFinite, EntriesFit, Next PROVE EntriesFit'
<1> USE DEF EntriesFit
<1>1. CASE UNCHANGED entries
  BY <1>1 DEF Active
<1>2. ASSUME NEW i \in Instance, ClaimInMemory(i) PROVE EntriesFit'
  <2>1. /\ entries \in [Instance -> [Key -> Entry]] /\ Kept(i) \in [Key -> Entry]
        /\ claim[i].now \in 0 .. MaxTime + 1
        /\ \A k \in Key : Kept(i)[k] = IF entries[i][k] # Free
                                          /\ entries[i][k].expires <= claim[i].now
                                       THEN Free ELSE entries[i][k]
    BY KeptType DEF IInv, TypeOK
  <2>2. IsFiniteSet(Active(entries[i], 0)) /\ Cardinality(Active(entries[i], 0)) \in Nat
    BY ActiveIsFinite DEF UsedIsFinite
  <2>3. ASSUME entries' = [entries EXCEPT ![i] = Kept(i)]
        PROVE  Cardinality(Active(entries'[i], 0)) <= CacheLimit
    <3>1. Active(entries'[i], 0) \in SUBSET Active(entries[i], 0)
      BY <2>1, <2>3 DEF Active
    <3>2. Cardinality(Active(entries'[i], 0)) <= Cardinality(Active(entries[i], 0))
      BY <2>2, <3>1, FS_Subset
    <3>3. IsFiniteSet(Active(entries'[i], 0))
      BY <2>2, <3>1, FS_Subset
    <3>4. Cardinality(Active(entries'[i], 0)) \in Nat
      BY <3>3, FS_CardinalityType
    <3> QED
      BY <2>2, <3>2, <3>4, Limits
  <2>4. ASSUME entries' = [entries EXCEPT ![i] = [Kept(i) EXCEPT ![claim[i].key] = Claimed(i)]],
               ~Full(Kept(i), claim[i].now)
        PROVE  Cardinality(Active(entries'[i], 0)) <= CacheLimit
    <3> DEFINE A == Active(Kept(i), claim[i].now)
    <3>1. Used(Kept(i)) \subseteq Used(entries[i]) \cup {claim[i].key}
      BY <2>1 DEF Used
    <3>2. IsFiniteSet(A) /\ Cardinality(A) \in Nat
      BY <3>1, OneMoreIsFinite, ActiveIsFinite DEF UsedIsFinite
    <3>3. Cardinality(A) < CacheLimit
      BY <2>4, <3>2, Limits DEF Full
    <3>4. Active(entries'[i], 0) \in SUBSET (A \cup {claim[i].key})
      <4> SUFFICES ASSUME NEW k \in Active(entries'[i], 0), k # claim[i].key PROVE k \in A
        OBVIOUS
      <4>1. k \in Key /\ entries'[i][k] = Kept(i)[k] /\ Kept(i)[k] # Free
        BY <2>1, <2>4 DEF Active
      <4>2. Kept(i)[k] = entries[i][k] /\ ~(entries[i][k].expires <= claim[i].now)
        BY <2>1, <4>1
      <4>3. entries[i][k].expires \in Int /\ claim[i].now \in Int
        BY <2>1, <4>1 DEF Entry
      <4> QED
        BY <4>1, <4>2, <4>3 DEF Active
    <3> HIDE DEF A
    <3>5. /\ IsFiniteSet(A \cup {claim[i].key})
          /\ Cardinality(A \cup {claim[i].key}) =
               IF claim[i].key \in A THEN Cardinality(A) ELSE Cardinality(A) + 1
      BY <3>2, FS_AddElement
    <3>6. Cardinality(Active(entries'[i], 0)) <= Cardinality(A \cup {claim[i].key})
          /\ IsFiniteSet(Active(entries'[i], 0))
      BY <3>4, <3>5, FS_Subset
    <3>7. Cardinality(Active(entries'[i], 0)) \in Nat
      BY <3>6, FS_CardinalityType
    <3> QED
      BY <3>2, <3>3, <3>5, <3>6, <3>7, Limits
  <2>5. Cardinality(Active(entries'[i], 0)) <= CacheLimit
        /\ \A j \in Instance \ {i} : entries'[j] = entries[j]
    BY <1>2, <2>1, <2>3, <2>4, MemoryShape
  <2> QED
    BY <2>5 DEF Active
<1>3. ASSUME NEW i \in Instance, Crash(i) PROVE EntriesFit'
  <2>1. entries' = [entries EXCEPT ![i] = NoKeys]
    BY <1>3 DEF Crash
  <2>2. Active(NoKeys, 0) = {}
    BY DEF Active, NoKeys
  <2>3. \A j \in Instance : entries'[j] = IF j = i THEN NoKeys ELSE entries[j]
    BY <2>1 DEF IInv, TypeOK
  <2>4. 0 <= CacheLimit
    BY Limits
  <2> QED
    BY <2>2, <2>3, <2>4, EmptyIsFinite
<1>4. \A i \in Instance : Authorize(i) \/ Stays(i) \/ Ends(i) \/ Fail(i) => UNCHANGED entries
  BY DEF Authorize, Stays, Ends, Fail
<1> QED
  BY <1>1, <1>2, <1>3, <1>4, Shapes DEF Tick


(* A claim is pending once it has counted and found room.                  *)
LEMMA PendingStep ==
    ASSUME IInv, NEW i \in Instance, Transact(i), Pending(claim'[i])
    PROVE  \/ Pending(claim[i])
           \/ /\ claim[i].step = "count" /\ ~Full(View(i), claim[i].now)
              /\ claim'[i].locked = claim[i].locked /\ UNCHANGED <<clock, rows>>
              /\ \A j \in Instance \ {i} : claim'[j] = claim[j]
<1> USE DEF Statement, At
<1>1. TypeOK /\ claim \in [Instance -> ClaimType]
  BY DEF IInv, TypeOK, ClaimType
<1>2. ASSUME claim' = [claim EXCEPT ![i] = NoClaim] PROVE FALSE
  BY <1>1, <1>2 DEF Pending, NoClaim
<1>3. ASSUME NEW row, Judge(i, row) PROVE FALSE
  BY <1>2, <1>3 DEF Judge, Answer
<1>4. CASE ClaimInMemory(i)
  BY <1>2, <1>4, MemoryShape
<1>5. CASE Prune(i)
  BY <1>1, <1>5 DEF Prune, Write, Pending
<1>6. CASE Get(i)
  <2>1. Continue(i, "count")
    BY <1>3, <1>6, Zenon DEF Get
  <2>2. claim'[i].step = "count"
    BY <1>1, <2>1 DEF Continue, ClaimType
  <2> QED
    BY <2>2 DEF Pending
<1>7. CASE Count(i)
  <2>1. ~Full(View(i), claim[i].now) /\ Continue(i, "insert")
    BY <1>3, <1>7 DEF Count
  <2>2. claim' = [claim EXCEPT ![i].step = "insert"] /\ UNCHANGED <<clock, rows>>
    BY <1>7, <2>1 DEF Continue, Count
  <2>3. claim'[i].locked = claim[i].locked /\ \A j \in Instance \ {i} : claim'[j] = claim[j]
    BY <1>1, <2>2 DEF ClaimType
  <2> QED
    BY <1>7, <2>1, <2>2, <2>3 DEF Count
<1>8. CASE Insert(i) \/ Recycle(i) \/ CommitClaim(i)
  BY <1>8 DEF Insert, Recycle, CommitClaim, Pending
<1> QED
  BY <1>4, <1>5, <1>6, <1>7, <1>8 DEF Transact

Room == CacheLimit + Cardinality(Instance) - 1

FitsFor(j) ==
    Cardinality(Active(rows, Now(j))) + Cardinality(Adding(claim, rows, Now(j))) <= Room

LEMMA RowsFitFor == RowsFit <=> \A j \in Instance : FitsFor(j)
BY DEF RowsFit, FitsFor, Room

(* Nothing is added to the live rows and no claim becomes pending.         *)
LEMMA QuietFits ==
    ASSUME IInv, UsedIsFinite, NEW j \in Instance, FitsFor(j), UNCHANGED <<clock, rows>>,
           \A i \in Instance : Pending(claim'[i]) =>
               Pending(claim[i]) /\ claim[i].locked \subseteq claim'[i].locked
    PROVE  FitsFor(j)'
<1>1. Now(j)' = Now(j)
  BY DEF Now
<1> DEFINE t == Now(j)
<1>2. Adding(claim', rows, t) \in SUBSET Adding(claim, rows, t)
  BY DEF Adding, Replaces
<1>3. Room \in Int
  BY Limits DEF Room
<1>4. IsFiniteSet(Active(rows, t)) /\ IsFiniteSet(Adding(claim, rows, t))
  BY ActiveIsFinite, AddingIsFinite DEF UsedIsFinite
<1>5. Cardinality(Active(rows, t)) + Cardinality(Adding(claim, rows, t)) <= Room
  BY DEF FitsFor
<1> HIDE DEF t
<1>6. Cardinality(Active(rows, t)) + Cardinality(Adding(claim', rows, t)) <= Room
  BY <1>2, <1>3, <1>4, <1>5, FewerFit
<1>7. rows' = rows /\ Room' = Room
  BY DEF Room
<1> QED
  BY <1>1, <1>6, <1>7 DEF FitsFor, t

(* The claim of i has counted: it found room by its own clock, and what    *)
(* its clock takes for expired it has locked.                              *)
LEMMA CountedFits ==
    ASSUME IInv, UsedIsFinite, NEW i \in Instance, NEW j \in Instance, FitsFor(j),
           claim[i].step = "count", ~Full(View(i), claim[i].now),
           claim'[i].locked = claim[i].locked, UNCHANGED <<clock, rows>>,
           \A h \in Instance \ {i} : claim'[h] = claim[h]
    PROVE  FitsFor(j)'
<1>1. CASE Replaces(claim'[i], rows, Now(j))
  <2>1. Now(j)' = Now(j) /\ Room' = Room /\ rows' = rows
    BY DEF Now, Room
  <2> DEFINE t == Now(j)
  <2>2. Adding(claim', rows, t) \in SUBSET Adding(claim, rows, t)
    BY <1>1 DEF Adding
  <2>3. IsFiniteSet(Active(rows, t)) /\ IsFiniteSet(Adding(claim, rows, t)) /\ Room \in Int
    BY ActiveIsFinite, AddingIsFinite, Limits DEF UsedIsFinite, Room
  <2>4. Cardinality(Active(rows, t)) + Cardinality(Adding(claim, rows, t)) <= Room
    BY DEF FitsFor
  <2> HIDE DEF t
  <2>5. Cardinality(Active(rows, t)) + Cardinality(Adding(claim', rows, t)) <= Room
    BY <2>2, <2>3, <2>4, FewerFit
  <2> QED
    BY <2>1, <2>5 DEF FitsFor, t
<1>2. CASE ~Replaces(claim'[i], rows, Now(j))
  <2> DEFINE t == Now(j)
             A == Active(View(i), claim[i].now)
  <2>1. Active(rows, t) \in SUBSET A
    <3> SUFFICES ASSUME NEW k \in Key, rows[k] # Free, rows[k].expires > t PROVE k \in A
      BY DEF Active
    <3>1. k \notin claim[i].locked
      BY <1>2 DEF Replaces
    <3>2. rows[k].expires > claim[i].now
      BY <3>1 DEF IInv, OthersAreLive
    <3>3. View(i)[k] = rows[k]
      BY <3>1, ViewOf
    <3> QED
      BY <3>2, <3>3 DEF Active
  <2>2. Used(View(i)) \in SUBSET Used(rows)
    BY ViewOf DEF Used
  <2>3. IsFiniteSet(A) /\ Cardinality(A) \in Nat
    <3>1. IsFiniteSet(Used(View(i)))
      BY <2>2, FS_Subset DEF UsedIsFinite
    <3> QED
      BY <3>1, ActiveIsFinite
  <2>4. Cardinality(A) < CacheLimit
    BY <2>3, Limits DEF Full
  <2> HIDE DEF A
  <2>5. Cardinality(Active(rows, t)) <= Cardinality(A) /\ Cardinality(Active(rows, t)) \in Nat
    BY <2>1, <2>3, FS_Subset, FS_CardinalityType
  <2>6. /\ Cardinality(Adding(claim', rows, t)) \in Nat
        /\ Cardinality(Adding(claim', rows, t)) <= Cardinality(Instance)
    BY AddingIsFinite
  <2>7. Cardinality(Active(rows, t)) + Cardinality(Adding(claim', rows, t)) <= Room
    <3> HIDE DEF t
    <3> QED
      BY <2>3, <2>4, <2>5, <2>6, Limits DEF Room
  <2>8. Now(j)' = t /\ Room' = Room /\ rows' = rows
    BY DEF Now, Room
  <2> QED
    BY <2>7, <2>8 DEF FitsFor
<1> QED
  BY <1>1, <1>2

(* The transaction of i ends.  What another claim has locked it has not.   *)
LEMMA EndedFits ==
    ASSUME IInv, UsedIsFinite, NEW i \in Instance, NEW j \in Instance, FitsFor(j), Ends(i)
    PROVE  FitsFor(j)'
<1> DEFINE t == Now(j)
           A == Active(rows, t)
           U == Adding(claim, rows, t)
           A1 == Active(rows', t)
           U1 == Adding(claim', rows', t)
<1>1. Now(j)' = t /\ Room' = Room /\ rows' = View(i)
  BY DEF Now, Room, Ends
<1>2. /\ claim'[i].step = "idle" /\ \A h \in Instance \ {i} : claim'[h] = claim[h]
  BY FreeClaims DEF Ends, IInv
<1>3. U1 \in SUBSET (U \ {i})
  <2>1. ASSUME NEW h \in Instance \ {i}, ~Replaces(claim[h], rows', t)
        PROVE  ~Replaces(claim[h], rows, t)
    <3>1. ASSUME NEW k \in claim[h].locked PROVE rows'[k] = rows[k]
      <4>1. k \in Key /\ k \notin claim[i].locked
        BY <2>1, <3>1 DEF IInv, LocksAreExclusive, TypeOK
      <4> QED
        BY <1>1, <4>1, ViewOf
    <3> QED
      BY <2>1, <3>1 DEF Replaces
  <2> QED
    BY <1>2, <2>1 DEF Adding, Pending
<1>4. IsFiniteSet(A) /\ IsFiniteSet(U) /\ Room \in Int
  BY ActiveIsFinite, AddingIsFinite, Limits DEF UsedIsFinite, Room
<1>5. Cardinality(A) + Cardinality(U) <= Room
  BY DEF FitsFor
<1>6. CASE claim[i].step # "commit"
  <2>1. A1 \in SUBSET A
    BY <1>1, <1>6, ViewOf DEF Active
  <2>2. U1 \in SUBSET U
    BY <1>3
  <2> HIDE DEF A, U, A1, U1
  <2>3. Cardinality(A1) + Cardinality(U1) <= Room
    BY <1>4, <1>5, <2>1, <2>2, FewerFit
  <2> QED
    BY <1>1, <2>3 DEF FitsFor, A1, U1
<1>7. CASE claim[i].step = "commit"
  <2>1. \A k \in A1 : k = claim[i].key \/ (k \in A /\ k \notin claim[i].locked)
    BY <1>1, ViewOf DEF Active
  <2>2. CASE i \in U
    <3>1. A1 \in SUBSET (A \cup {claim[i].key})
      BY <2>1
    <3> HIDE DEF A, U, A1, U1
    <3>2. Cardinality(A1) + Cardinality(U1) <= Room
      BY ZenonT(40), <1>3, <1>4, <1>5, <2>2, <3>1, AddedFits
    <3> QED
      BY <1>1, <3>2 DEF FitsFor, A1, U1
  <2>3. CASE i \notin U
    <3>1. PICK gone \in claim[i].locked : rows[gone] # Free /\ rows[gone].expires > t
      BY <1>7, <2>3 DEF Adding, Pending, Replaces
    <3>2. gone \in A
      BY <3>1 DEF Active, IInv, TypeOK
    <3>3. A1 \in SUBSET ((A \ {gone}) \cup {claim[i].key})
      BY <2>1, <3>1
    <3>4. U1 \in SUBSET U
      BY <1>3
    <3> DEFINE key == claim[i].key
    <3> HIDE DEF A, U, A1, U1, key
    <3>5. A1 \in SUBSET ((A \ {gone}) \cup {key})
      BY <3>3 DEF key
    <3>6. Cardinality(A1) + Cardinality(U1) <= Room
      BY <1>4, <1>5, <3>2, <3>4, <3>5, ReplacedFits
    <3> QED
      BY <1>1, <3>6 DEF FitsFor, A1, U1
  <2> QED
    BY <2>2, <2>3
<1> QED
  BY <1>6, <1>7

LEMMA TickFits ==
    ASSUME IInv, UsedIsFinite, NEW j \in Instance, FitsFor(j), Tick
    PROVE  FitsFor(j)'
<1> DEFINE t == Now(j)
           t1 == Now(j)'
           A == Active(rows, t)
           U == Adding(claim, rows, t)
           A1 == Active(rows, t1)
           U1 == Adding(claim, rows, t1)
<1>1. /\ t \in Nat /\ t1 \in Nat /\ t <= t1
      /\ rows' = rows /\ claim' = claim /\ Room' = Room
  <2>1. clock \in Nat /\ clock' = clock + 1
    BY Times DEF Tick, IInv
  <2> QED
    BY <2>1 DEF Now, Tick, Room
<1>2. \A k \in Key : rows[k].expires \in Nat
  <2>1. \A k \in Key : rows[k] \in Entry
    BY DEF IInv, TypeOK
  <2>2. \A e \in Entry : e.expires \in Nat
    BY DEF Entry
  <2> QED
    BY <2>1, <2>2
<1> HIDE DEF t, t1
<1>3. A1 \in SUBSET A
  BY <1>1, <1>2 DEF Active
<1>4. \A i \in U1 \ U : \E k \in A \ A1 : k \in claim[i].locked
  <2> SUFFICES ASSUME NEW i \in U1 \ U PROVE \E k \in A \ A1 : k \in claim[i].locked
    OBVIOUS
  <2>1. i \in Instance /\ Replaces(claim[i], rows, t) /\ ~Replaces(claim[i], rows, t1)
    BY DEF Adding
  <2>2. PICK k \in claim[i].locked : rows[k] # Free /\ rows[k].expires > t
    BY <2>1 DEF Replaces
  <2>3. k \in Key
    BY <2>1, <2>2 DEF IInv, TypeOK
  <2> QED
    BY <2>1, <2>2, <2>3 DEF Active, Replaces
<1> DEFINE f == [i \in U1 \ U |-> CHOOSE k \in A \ A1 : k \in claim[i].locked]
<1>5. \A i \in U1 \ U : f[i] \in A \ A1 /\ f[i] \in claim[i].locked
  BY <1>4
<1>6. U1 \ U \subseteq Instance
  BY DEF Adding
<1>7. f \in Injection(U1 \ U, A \ A1)
  <2>1. f \in [U1 \ U -> A \ A1]
    BY <1>5
  <2> HIDE DEF f
  <2>2. ASSUME NEW h \in U1 \ U, NEW i \in U1 \ U, f[h] = f[i] PROVE h = i
    BY <1>5, <1>6, <2>2 DEF IInv, LocksAreExclusive
  <2> QED
    BY <2>1, <2>2 DEF Injection, IsInjective
<1>8. IsFiniteSet(A) /\ IsFiniteSet(U) /\ IsFiniteSet(U1) /\ Room \in Int
  BY ActiveIsFinite, AddingIsFinite, Limits DEF UsedIsFinite, Room
<1>9. Cardinality(A) + Cardinality(U) <= Room
  BY DEF FitsFor, t
<1> HIDE DEF A, U, A1, U1, f
<1>10. Cardinality(A1) + Cardinality(U1) <= Room
  BY <1>3, <1>7, <1>8, <1>9, ElapsedFits
<1> QED
  BY <1>1, <1>10 DEF FitsFor, A1, U1, t1


LEMMA RowsStep == ASSUME IInv, UsedIsFinite, RowsFit, Next PROVE RowsFit'
<1>1. \A j \in Instance : FitsFor(j)
  BY RowsFitFor
<1> SUFFICES ASSUME NEW j \in Instance PROVE FitsFor(j)'
  BY DEF RowsFit, FitsFor, Room
<1>2. claim \in [Instance -> ClaimType]
  BY DEF IInv, TypeOK, ClaimType
<1>3. ASSUME NEW i \in Instance, UNCHANGED <<clock, rows>>, ~Pending(claim'[i]),
             \A h \in Instance \ {i} : claim'[h] = claim[h]
      PROVE  FitsFor(j)'
  BY <1>1, <1>3, QuietFits
<1>4. CASE Tick
  BY <1>1, <1>4, TickFits
<1>5. ASSUME NEW i \in Instance, Authorize(i) PROVE FitsFor(j)'
  <2>1. claim'[i].step = "prune" /\ \A h \in Instance \ {i} : claim'[h] = claim[h]
    BY <1>5, AuthorizeShape DEF IInv
  <2> QED
    BY <1>3, <1>5, <2>1 DEF Authorize, Pending
<1>6. ASSUME NEW i \in Instance, claim' = [claim EXCEPT ![i] = NoClaim],
             UNCHANGED <<clock, rows>>
      PROVE  FitsFor(j)'
  <2>1. claim'[i].step = "idle" /\ \A h \in Instance \ {i} : claim'[h] = claim[h]
    BY <1>6, FreeClaims DEF IInv
  <2> QED
    BY <1>3, <1>6, <2>1 DEF Pending
<1>7. ASSUME NEW i \in Instance, Fail(i) \/ Crash(i) PROVE FitsFor(j)'
  BY <1>6, <1>7 DEF Fail, Crash, Answer
<1>8. ASSUME NEW i \in Instance, ClaimInMemory(i) PROVE FitsFor(j)'
  BY <1>6, <1>8, MemoryShape
<1>9. ASSUME NEW i \in Instance, Ends(i) PROVE FitsFor(j)'
  BY <1>1, <1>9, EndedFits
<1>10. ASSUME NEW i \in Instance, Transact(i), Stays(i) PROVE FitsFor(j)'
  <2>1. /\ UNCHANGED <<clock, rows>> /\ \A h \in Instance \ {i} : claim'[h] = claim[h]
        /\ claim[i].locked \subseteq claim'[i].locked
    BY <1>10 DEF Stays, GoesOn
  <2>2. CASE Pending(claim'[i]) => Pending(claim[i])
    BY <1>1, <2>1, <2>2, QuietFits
  <2>3. CASE Pending(claim'[i]) /\ ~Pending(claim[i])
    <3>1. /\ claim[i].step = "count" /\ ~Full(View(i), claim[i].now)
          /\ claim'[i].locked = claim[i].locked
      BY <1>10, <2>3, PendingStep
    <3> QED
      BY <1>1, <2>1, <3>1, CountedFits
  <2> QED
    BY <2>2, <2>3
<1>11. ASSUME NEW i \in Instance, Transact(i) PROVE FitsFor(j)'
  BY <1>8, <1>9, <1>10, <1>11, StatementShape DEF Transact
<1> QED
  BY <1>4, <1>5, <1>7, <1>11 DEF Next

LEMMA InitLimitInv == Init => LimitInv
<1> SUFFICES ASSUME Init PROVE LimitInv
  OBVIOUS
<1>1. rows = NoKeys /\ \A i \in Instance : entries[i] = NoKeys
  BY DEF Init
<1>2. Used(NoKeys) = {} /\ \A t : Active(NoKeys, t) = {}
  BY DEF Used, Active, NoKeys
<1>3. \A t : Adding(claim, rows, t) = {}
  BY DEF Init, Adding, Pending, NoClaim
<1>4. ASSUME NEW j \in Instance PROVE 1 <= Cardinality(Instance)
  <2>1. Instance # {}
    OBVIOUS
  <2> QED
    BY <2>1, Limits, FS_EmptySet
<1>5. RowsFit
  BY <1>1, <1>2, <1>3, <1>4, Limits, EmptyIsFinite DEF RowsFit
<1>6. EntriesFit
  BY <1>1, <1>2, Limits, EmptyIsFinite DEF EntriesFit
<1>7. UsedIsFinite
  BY <1>1, <1>2, EmptyIsFinite DEF UsedIsFinite
<1> QED
  BY <1>5, <1>6, <1>7 DEF LimitInv

(* Concurrent claims that count the live keys before they insert exceed    *)
(* the limit by one for each other instance, no more: a claim that has     *)
(* counted adds one row, or replaces one that is live for a slower clock   *)
(* (claim_mutation_replay and the in-memory claim).                        *)
THEOREM RegistryIsBounded == Spec => []LiveKeysBounded
<1>1. IInv /\ LimitInv /\ [Next]_vars => LimitInv'
  <2> SUFFICES ASSUME IInv, LimitInv, [Next]_vars PROVE LimitInv'
    OBVIOUS
  <2>1. CASE Next
    BY <2>1, UsedStep, RowsStep, EntriesStep DEF LimitInv
  <2>2. CASE UNCHANGED vars
    BY <2>2 DEF vars, LimitInv, UsedIsFinite, RowsFit, EntriesFit, Used, Active, Adding,
       Replaces, Now
  <2> QED
    BY <2>1, <2>2
<1>2. LimitInv => LiveKeysBounded
  <2> SUFFICES ASSUME LimitInv, NEW i \in Instance
               PROVE  /\ Cardinality(Active(rows, Now(i)))
                           <= CacheLimit + Cardinality(Instance) - 1
                      /\ Cardinality(Active(entries[i], 0)) <= CacheLimit
    BY DEF LiveKeysBounded
  <2>1. /\ Cardinality(Active(rows, Now(i))) \in Nat
        /\ Cardinality(Adding(claim, rows, Now(i))) \in Nat
    BY ActiveIsFinite, AddingIsFinite DEF LimitInv, UsedIsFinite
  <2> QED
    BY <2>1, Limits DEF LimitInv, RowsFit, EntriesFit
<1> QED
  BY <1>1, <1>2, InitLimitInv, GuardInvariant, PTL DEF Spec
=============================================================================
