----------------------------- MODULE ReplayGuard ----------------------------
(***************************************************************************)
(* authorize_mutation() and the MutationReplayGuard behind it: every       *)
(* mutation carries an idempotency key that may be used once per TTL.      *)
(*                                                                         *)
(* With persistence the keys are rows of mutation_replay_keys shared by    *)
(* all instances, and a claim is one READ COMMITTED transaction of several *)
(* statements; without it they are entries in the memory of one process    *)
(* and a claim runs under that process's lock.  A claim blocks its event   *)
(* loop, so an instance has at most one under way; a crash ends it.  Every *)
(* instance reads its own clock.                                           *)
(***************************************************************************)
EXTENDS Integers, Sequences, FiniteSets

CONSTANTS
    Instance, Key, Fingerprint,
    Request,     \* the requests there are: <<key, fingerprint>>
    TTL,         \* mutation_replay_ttl_seconds
    CacheLimit,  \* mutation_replay_cache_limit
    Ahead,       \* instances whose clock is one unit ahead
    MaxStall,    \* how long a claim's transaction may take
    MaxTime,     \* bound on the clock
    MaxClaims    \* bound on the number of accepted claims

ASSUME GuardAssumption ==
    /\ IsFiniteSet(Instance)
    /\ TTL \in Nat /\ CacheLimit \in Nat \ {0} /\ MaxStall \in Nat
    /\ MaxTime \in Nat /\ MaxClaims \in Nat
    /\ Request \subseteq Key \X Fingerprint
    /\ Ahead \subseteq Instance
    /\ "GONE" \notin Instance
    /\ MaxStall + 1 < TTL

VARIABLES
    clock,
    durable,   \* the guard has repositories; never changes
    rows,      \* mutation_replay_keys, committed
    entries,   \* _entries of each instance
    claim,     \* the claim of each instance and its open transaction
    answer,    \* the answer a request was given in the last step
    accepted   \* history: the claims that were accepted

vars == <<clock, durable, rows, entries, claim, answer, accepted>>

Free == [fingerprint |-> "NONE", expires |-> 0]
Entry == [fingerprint : Fingerprint \cup {"NONE"}, expires : 0 .. MaxTime + 1 + TTL]
NoKeys == [k \in Key |-> Free]

(* locked: the rows the transaction has deleted or written.                *)
NoClaim == [step |-> "idle", key |-> "NONE", fingerprint |-> "NONE", now |-> 0,
            locked |-> {}]
NoAnswer == <<"NONE", "NONE">>

(* A claim in the history whose process is gone, with all it remembered.   *)
Forgotten == [key |-> "NONE", at |-> 0, by |-> "GONE", fingerprint |-> "NONE", latest |-> 0]

Init ==
    /\ clock = 0
    /\ durable \in BOOLEAN
    /\ rows = NoKeys
    /\ entries = [i \in Instance |-> NoKeys]
    /\ claim = [i \in Instance |-> NoClaim]
    /\ answer = NoAnswer
    /\ accepted = <<>>

At(i, step) == claim[i].step = step

Now(i) == clock + IF i \in Ahead THEN 1 ELSE 0

(* What the clock that is furthest ahead shows.                            *)
Latest == clock + IF Ahead = {} THEN 0 ELSE 1

Tick ==
    /\ clock < MaxTime
    /\ \A i \in Instance : At(i, "idle") \/ Now(i) - claim[i].now < MaxStall
    /\ clock' = clock + 1
    /\ answer' = NoAnswer
    /\ UNCHANGED <<durable, rows, entries, claim, accepted>>

-----------------------------------------------------------------------------
Answer(i, result) ==
    /\ claim' = [claim EXCEPT ![i] = NoClaim]
    /\ answer' = <<i, result>>

(* _prune(): entries past their expiry are dropped.                        *)
Expired(keys, now) == {k \in Key : keys[k] # Free /\ keys[k].expires <= now}
Without(keys, gone) == [k \in Key |-> IF k \in gone THEN Free ELSE keys[k]]

Active(keys, now) == {k \in Key : keys[k] # Free /\ keys[k].expires > now}

(* Mutated form of Full: one more key than the limit is let in.            *)
FullAfter(keys, now) == Cardinality(Active(keys, now)) > CacheLimit

Full(keys, now) == Cardinality(Active(keys, now)) >= CacheLimit

(* Mutated form of Refusal: the fingerprint is compared with nothing.      *)
RefusalByKey(existing, fingerprint) == "REPLAY"

Refusal(existing, fingerprint) ==
    IF existing.fingerprint = fingerprint THEN "REPLAY"
                                          ELSE "REUSED_FOR_DIFFERENT_REQUEST"

(* The history of a claim: claimed_at is the time it began by the clock of  *)
(* its instance, latest what the furthest clock shows when it is accepted. *)
Accept(i) ==
    accepted' = Append(accepted, [key |-> claim[i].key, at |-> claim[i].now, by |-> i,
                                  fingerprint |-> claim[i].fingerprint,
                                  latest |-> Latest])

(* authorize_mutation() of a request that is authenticated and has a well- *)
(* formed key; it may have been sent before, here or elsewhere.  Any other *)
(* request is refused and changes nothing.  The claim reads the clock and  *)
(* then enters the lock or the transaction.                                *)
Authorize(i) ==
    /\ At(i, "idle")
    /\ Len(accepted) < MaxClaims
    /\ \E r \in Request :
         claim' = [claim EXCEPT ![i] = [step |-> "prune", key |-> r[1],
                     fingerprint |-> r[2], now |-> Now(i), locked |-> {}]]
    /\ answer' = NoAnswer
    /\ UNCHANGED <<clock, durable, rows, entries, accepted>>

(* claim() without repositories: one step, under the lock.                 *)
ClaimInMemory(i) ==
    LET now == claim[i].now
        k == claim[i].key
        f == claim[i].fingerprint
        kept == Without(entries[i], Expired(entries[i], now))
        result == CASE kept[k] # Free  -> Refusal(kept[k], f)
                    [] Full(kept, now) -> "CAPACITY_EXHAUSTED"
                    [] OTHER           -> "ACCEPTED"
        claimed == [kept EXCEPT ![k] = [fingerprint |-> f, expires |-> now + TTL]]
    IN
    /\ At(i, "prune")
    /\ ~durable
    /\ Answer(i, result)
    /\ entries' = [entries EXCEPT ![i] = IF result = "ACCEPTED" THEN claimed ELSE kept]
    /\ IF result = "ACCEPTED" THEN Accept(i) ELSE UNCHANGED accepted
    /\ UNCHANGED <<clock, durable, rows>>

-----------------------------------------------------------------------------
(* claim_mutation_replay(): the statements of the transaction              *)

Claimed(i) == [fingerprint |-> claim[i].fingerprint, expires |-> claim[i].now + TTL]

(* The table as the transaction of i sees it: the rows it deleted are gone *)
(* and the row it wrote is there.                                          *)
View(i) ==
    [k \in Key |-> IF k \notin claim[i].locked THEN rows[k]
                   ELSE IF k = claim[i].key /\ At(i, "commit") THEN Claimed(i) ELSE Free]

Statement(i, step) ==
    /\ At(i, step)
    /\ durable
    /\ UNCHANGED <<clock, durable, entries>>

Continue(i, step) ==
    /\ claim' = [claim EXCEPT ![i].step = step]
    /\ answer' = NoAnswer
    /\ UNCHANGED <<rows, accepted>>

(* A statement that meets a row another transaction changed waits for it;  *)
(* then it changes the rows itself.                                        *)
Write(i, keys, step) ==
    /\ \A j \in Instance \ {i} : claim[j].locked \cap keys = {}
    /\ claim' = [claim EXCEPT ![i].step = step, ![i].locked = @ \cup keys]
    /\ answer' = NoAnswer
    /\ UNCHANGED <<rows, accepted>>

(* Mutated form of Prunable: keys that expire within the window go too.    *)
PrunableEarly(i) == {k \in Key : rows[k] # Free /\ rows[k].expires < claim[i].now + TTL}

Prunable(i) == Expired(rows, claim[i].now)

(* _prune_expired_mutation_replays()                                       *)
Prune(i) ==
    /\ Statement(i, "prune")
    /\ Write(i, Prunable(i), "get")

(* The transaction's changes become visible and its locks are released.    *)
Commit(i) == rows' = View(i)

(* What _claim_durable() makes of a row it was handed; an expired one is   *)
(* answered ACCEPTED although it was not claimed.                          *)
Judge(i, row) ==
    /\ Commit(i)
    /\ IF row = Free THEN Answer(i, "CAPACITY_EXHAUSTED") /\ UNCHANGED accepted
       ELSE IF row.expires <= claim[i].now
            THEN Answer(i, "ACCEPTED") /\ Accept(i)
            ELSE Answer(i, Refusal(row, claim[i].fingerprint)) /\ UNCHANGED accepted

Existing(i) == View(i)[claim[i].key]

Get(i) ==
    /\ Statement(i, "get")
    /\ \/ Existing(i) # Free /\ Judge(i, Existing(i))
       \/ Existing(i) = Free /\ Continue(i, "count")

(* _active_mutation_replay_count()                                         *)
Count(i) ==
    /\ Statement(i, "count")
    /\ \/ Full(View(i), claim[i].now) /\ Judge(i, Free)
       \/ ~Full(View(i), claim[i].now) /\ Continue(i, "insert")

(* _insert_if_missing(): ON CONFLICT DO NOTHING waits for the transaction  *)
(* that has the key.                                                       *)
Insert(i) ==
    /\ Statement(i, "insert")
    /\ \/ Existing(i) # Free /\ Continue(i, "recycle")
       \/ Existing(i) = Free /\ Write(i, {claim[i].key}, "commit")

(* _replace_expired_mutation_replay(), or the row is read and judged.  A   *)
(* claim shorter than the window never meets a row that expired since.     *)
Recycle(i) ==
    /\ Statement(i, "recycle")
    /\ IF claim[i].key \in Expired(View(i), claim[i].now)
       THEN Write(i, {claim[i].key}, "commit")
       ELSE Judge(i, Existing(i))

CommitClaim(i) ==
    /\ Statement(i, "commit")
    /\ Commit(i)
    /\ Answer(i, "ACCEPTED")
    /\ Accept(i)

(* A statement fails (a lock cycle the database breaks, a lost connection):*)
(* the transaction is rolled back and the request fails.                   *)
Fail(i) ==
    /\ ~At(i, "idle")
    /\ Answer(i, "ERROR")
    /\ UNCHANGED <<clock, durable, rows, entries, accepted>>

(* The process ends and starts again; a guard without repositories forgets *)
(* what it accepted, and the history keeps no more than that they were.    *)
Crash(i) ==
    /\ claim' = [claim EXCEPT ![i] = NoClaim]
    /\ answer' = NoAnswer
    /\ entries' = [entries EXCEPT ![i] = NoKeys]
    /\ accepted' = IF durable THEN accepted
                   ELSE [n \in DOMAIN accepted |->
                           IF accepted[n].by = i THEN Forgotten ELSE accepted[n]]
    /\ UNCHANGED <<clock, durable, rows>>

Transact(i) ==
    \/ ClaimInMemory(i)
    \/ Prune(i) \/ Get(i) \/ Count(i) \/ Insert(i) \/ Recycle(i) \/ CommitClaim(i)

Next ==
    \/ Tick
    \/ \E i \in Instance : Authorize(i) \/ Transact(i) \/ Fail(i) \/ Crash(i)

Spec == Init /\ [][Next]_vars

-----------------------------------------------------------------------------
(* Properties                                                              *)

Result == {"ACCEPTED", "REPLAY", "REUSED_FOR_DIFFERENT_REQUEST",
           "CAPACITY_EXHAUSTED", "ERROR"}

TypeOK ==
    /\ clock \in 0 .. MaxTime
    /\ durable \in BOOLEAN
    /\ rows \in [Key -> Entry]
    /\ entries \in [Instance -> [Key -> Entry]]
    /\ claim \in [Instance ->
         [step : {"idle", "prune", "get", "count", "insert", "recycle", "commit"},
          key : Key \cup {"NONE"}, fingerprint : Fingerprint \cup {"NONE"},
          now : 0 .. MaxTime + 1, locked : SUBSET Key]]
    /\ answer \in {NoAnswer} \cup (Instance \X Result)

(* A key is accepted once per window, although the claims interleave       *)
(* statement by statement, instances crash in between and the clocks       *)
(* differ.  In memory, two acceptances by one process are TTL apart.  In   *)
(* the database, whoever accepts a key again, the window of the earlier    *)
(* acceptance is over by the clock that is furthest ahead: an instance may *)
(* find the row pruned by another whose clock or whose later claim says so *)
(* and accept the key although by its own time the window is still open.   *)
AcceptedOncePerWindow ==
    \A m, n \in 1 .. Len(accepted) :
        m < n /\ accepted[m].key = accepted[n].key =>
            IF durable
            THEN accepted[n].latest >= accepted[m].at + TTL
            ELSE accepted[m].by = accepted[n].by /\ accepted[m] # Forgotten
                   => accepted[n].at >= accepted[m].at + TTL

(* The registry is bounded: concurrent claims that count before they       *)
(* insert exceed the limit by one for each other instance, no more.        *)
LiveKeysBounded ==
    /\ \A i \in Instance :
         Cardinality(Active(rows, Now(i))) <= CacheLimit + Cardinality(Instance) - 1
    /\ \A i \in Instance : Cardinality(Active(entries[i], 0)) <= CacheLimit

(* A duplicate is told apart from a reused key, and neither is reported    *)
(* unless the key was accepted within the window of the refused request.   *)
RefusalIsJustified ==
    [][\A i \in Instance :
         LET c == claim[i]
             before == {n \in 1 .. Len(accepted) :
                          /\ accepted[n].key = c.key
                          /\ durable \/ accepted[n].by = i
                          /\ c.now < accepted[n].at + TTL}
         IN /\ answer' = <<i, "REPLAY">> =>
                 \E n \in before : accepted[n].fingerprint = c.fingerprint
            /\ answer' = <<i, "REUSED_FOR_DIFFERENT_REQUEST">> =>
                 \E n \in before : accepted[n].fingerprint # c.fingerprint]_vars
=============================================================================
