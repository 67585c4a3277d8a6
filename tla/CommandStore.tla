---------------------------- MODULE CommandStore ----------------------------
(***************************************************************************)
(* The durable queue of execution commands: ExecutionCommandRepository     *)
(* (src/app/persistence/execution_command_repository.py).                  *)
(*                                                                         *)
(* A command is the persisted permission to open one Binance Demo trade.   *)
(* Its row carries a state, the time it was created, the time it expires   *)
(* and the time it was last claimed; every change of state also appends    *)
(* one record to the command's transition history, in the transaction that *)
(* changes the row.  Each action below is one such transaction.            *)
(*                                                                         *)
(* Payload, prices, reasons and order identities are left out: nothing the *)
(* repository decides depends on them.                                     *)
(***************************************************************************)
EXTENDS Integers, Sequences, FiniteSets

CONSTANTS
    Command,       \* command identities (deterministic_execution_identity)
    ClaimTimeout,  \* claim_timeout_seconds: the age at which a claim is stale
    MaxLifetime,   \* bound: the longest time from created_at to expires_at
    MaxNow,        \* bound: the clock saturates here
    MaxRecords     \* bound: history records after which no transaction starts

ASSUME BoundsAssumption ==
    /\ ClaimTimeout \in Nat \ {0}
    /\ MaxLifetime \in Nat \ {0}
    /\ MaxNow \in Nat
    /\ MaxRecords \in Nat

VARIABLES
    now,     \* the clock every instance reads
    row,     \* the execution_commands table
    history  \* the execution_command_transitions table, by sequence number

storeVars == <<now, row, history>>

-----------------------------------------------------------------------------
(* States and the transition table.                                        *)

CommandState ==
    {"PENDING", "CLAIMED", "SUBMITTING", "ENTRY_CONFIRMED",
     "PROTECTION_PENDING", "PROTECTED", "COMPLETED", "BLOCKED", "FAILED",
     "RECOVERY_REQUIRED", "EXPIRED"}

Terminal == {"COMPLETED", "BLOCKED", "FAILED", "EXPIRED"}

(* The value of row[c].state before the row is inserted, and the          *)
(* from_state of the first history record.                                 *)
Absent == "ABSENT"

(* claimed_at of a row that was never claimed.                             *)
Never == -1

AllowedTransitions ==
    {<<"PENDING", "CLAIMED">>, <<"PENDING", "BLOCKED">>,
     <<"PENDING", "EXPIRED">>,
     <<"CLAIMED", "SUBMITTING">>, <<"CLAIMED", "BLOCKED">>,
     <<"CLAIMED", "FAILED">>, <<"CLAIMED", "RECOVERY_REQUIRED">>,
     <<"CLAIMED", "EXPIRED">>,
     <<"SUBMITTING", "ENTRY_CONFIRMED">>, <<"SUBMITTING", "BLOCKED">>,
     <<"SUBMITTING", "FAILED">>, <<"SUBMITTING", "RECOVERY_REQUIRED">>,
     <<"ENTRY_CONFIRMED", "PROTECTION_PENDING">>,
     <<"ENTRY_CONFIRMED", "RECOVERY_REQUIRED">>,
     <<"PROTECTION_PENDING", "PROTECTED">>,
     <<"PROTECTION_PENDING", "FAILED">>,
     <<"PROTECTION_PENDING", "RECOVERY_REQUIRED">>,
     <<"PROTECTED", "COMPLETED">>, <<"PROTECTED", "RECOVERY_REQUIRED">>,
     <<"RECOVERY_REQUIRED", "CLAIMED">>, <<"RECOVERY_REQUIRED", "BLOCKED">>,
     <<"RECOVERY_REQUIRED", "EXPIRED">>}

(* The targets the program passes to transition(); FAILED has edges in the *)
(* table and no caller.                                                    *)
WorkerTarget ==
    {"SUBMITTING", "ENTRY_CONFIRMED", "PROTECTION_PENDING", "PROTECTED",
     "COMPLETED", "BLOCKED", "RECOVERY_REQUIRED"}

Row == [state : CommandState \cup {Absent},
        createdAt : 0 .. MaxNow,
        expiresAt : Nat,
        claimedAt : (0 .. MaxNow) \cup {Never}]

NoRow == [state |-> Absent, createdAt |-> 0, expiresAt |-> 0,
          claimedAt |-> Never]

HistoryRecord == (CommandState \cup {Absent}) \X CommandState

-----------------------------------------------------------------------------
StoreInit ==
    /\ now = 0
    /\ row = [c \in Command |-> NoRow]
    /\ history = [c \in Command |-> <<>>]

(* Time passes; the clock stops moving at its bound.                       *)
Later == IF now < MaxNow THEN now + 1 ELSE now

(* Mutated form of Create: the insert overwrites the row that is there.    *)
CreateUpserts(c, lifetime) ==
    /\ row' = [row EXCEPT ![c] =
                  [state |-> "PENDING", createdAt |-> now,
                   expiresAt |-> now + lifetime, claimedAt |-> Never]]
    /\ history' = [history EXCEPT ![c] = <<<<Absent, "PENDING">>>>]
    /\ UNCHANGED now

(* create(): insert once by identity; a second create returns the row that *)
(* is there.  The caller has checked expires_at > created_at.              *)
Create(c, lifetime) ==
    /\ IF row[c].state = Absent
       THEN /\ row' = [row EXCEPT ![c] =
                          [state |-> "PENDING", createdAt |-> now,
                           expiresAt |-> now + lifetime, claimedAt |-> Never]]
            /\ history' = [history EXCEPT ![c] = <<<<Absent, "PENDING">>>>]
       ELSE UNCHANGED <<row, history>>
    /\ UNCHANGED now

(* Mutated form of Legal: only terminal states are closed.                 *)
LegalUnlessTerminal(c, to) == row[c].state \notin Terminal

(* _apply_transition(): the same state is silently accepted and changes    *)
(* nothing; an edge that is not in the table raises.                       *)
Legal(c, to) ==
    \/ row[c].state = to
    \/ <<row[c].state, to>> \in AllowedTransitions

ApplyTransition(c, to) ==
    IF row[c].state = to
    THEN UNCHANGED <<row, history>>
    ELSE /\ row' = [row EXCEPT ![c].state = to]
         /\ history' = [history EXCEPT ![c] =
                           Append(@, <<row[c].state, to>>)]

(* transition(): lock the row and apply; nobody's ownership of the claim   *)
(* is consulted.                                                           *)
Transition(c, to) ==
    /\ row[c].state # Absent
    /\ Legal(c, to)
    /\ ApplyTransition(c, to)
    /\ UNCHANGED now

(* Mutated form of Due: a command that needs recovery does not expire.     *)
DueExceptRecovery(c) ==
    /\ row[c].state \in {"PENDING", "CLAIMED"}
    /\ row[c].expiresAt <= now

(* _expire_due(): SUBMITTING and later states never expire.                *)
Due(c) ==
    /\ row[c].state \in {"PENDING", "CLAIMED", "RECOVERY_REQUIRED"}
    /\ row[c].expiresAt <= now

(* Mutated form of StaleClaim: the cutoff is compared one unit early.      *)
StaleClaimOffByOne(c) ==
    /\ row[c].state \in {"CLAIMED", "SUBMITTING"}
    /\ row[c].claimedAt # Never
    /\ row[c].claimedAt + ClaimTimeout <= now + 1

(* A claim is stale once it is ClaimTimeout old.                           *)
StaleClaim(c) ==
    /\ row[c].state \in {"CLAIMED", "SUBMITTING"}
    /\ row[c].claimedAt # Never
    /\ row[c].claimedAt + ClaimTimeout <= now

Claimable(c) ==
    /\ \/ row[c].state \in {"PENDING", "RECOVERY_REQUIRED"}
       \/ StaleClaim(c)
    /\ row[c].expiresAt > now

(* The rows the claim's SELECT ... ORDER BY created_at LIMIT 1 may return  *)
(* when the rows in skipped are locked by other transactions.              *)
Oldest(skipped) ==
    {c \in Command \ skipped :
        /\ Claimable(c)
        /\ \A d \in Command \ skipped :
              Claimable(d) => row[c].createdAt <= row[d].createdAt}

(* Mutated form of ClaimTrail: a stale claim leaves no record of its own.  *)
ClaimTrailWithoutStale(c) == Append(history[c], <<row[c].state, "CLAIMED">>)

(* The history after a claim: a stale claim is recorded as                 *)
(* RECOVERY_REQUIRED before it is re-claimed.                              *)
ClaimTrail(c) ==
    IF row[c].state \in {"CLAIMED", "SUBMITTING"}
    THEN Append(Append(history[c], <<row[c].state, "RECOVERY_REQUIRED">>),
                <<"RECOVERY_REQUIRED", "CLAIMED">>)
    ELSE Append(history[c], <<row[c].state, "CLAIMED">>)

(* Mutated form of ClaimedRow: claimed_at stores the time at which the     *)
(* claim goes stale.                                                       *)
ClaimedRowDeadline(c) ==
    [row[c] EXCEPT !.state = "CLAIMED", !.claimedAt = now + ClaimTimeout]

(* The row after a claim.                                                  *)
ClaimedRow(c) == [row[c] EXCEPT !.state = "CLAIMED", !.claimedAt = now]

(* One transaction of claim_next() in which the rows of skipped are locked *)
(* by others and the rows of claimed (one row or none) are claimed.        *)
ClaimTransaction(skipped, claimed) ==
    LET expired == {c \in Command \ skipped : Due(c)}
    IN  /\ row' = [c \in Command |->
                     IF c \in expired
                     THEN [row[c] EXCEPT !.state = "EXPIRED"]
                     ELSE IF c \in claimed
                     THEN ClaimedRow(c)
                     ELSE row[c]]
        /\ history' = [c \in Command |->
                         IF c \in expired
                         THEN Append(history[c], <<row[c].state, "EXPIRED">>)
                         ELSE IF c \in claimed
                         THEN ClaimTrail(c)
                         ELSE history[c]]
        /\ UNCHANGED now

ClaimNext(skipped, c) ==
    /\ c \in Oldest(skipped)
    /\ ClaimTransaction(skipped, {c})

ClaimNone(skipped) ==
    /\ Oldest(skipped) = {}
    /\ ClaimTransaction(skipped, {})

-----------------------------------------------------------------------------
(* The store on its own: any caller may make any of the calls the program  *)
(* makes, in any order.                                                    *)

HasRoom ==
    Cardinality(UNION {{c} \X DOMAIN history[c] : c \in Command}) < MaxRecords

StoreTick == now' = Later /\ UNCHANGED <<row, history>>

(* The clock outlives every command that is created.                       *)
StoreCreate ==
    \E c \in Command, lifetime \in 1 .. MaxLifetime :
        now + lifetime <= MaxNow /\ Create(c, lifetime)

StoreTransition == \E c \in Command, to \in WorkerTarget : Transition(c, to)

StoreClaim ==
    \E skipped \in SUBSET Command :
        \/ \E c \in Command : ClaimNext(skipped, c)
        \/ ClaimNone(skipped)

(* A call of the repository, however long the history has grown.           *)
StoreCall == StoreTick \/ StoreCreate \/ StoreTransition \/ StoreClaim

(* What a composition that uses the store must do with it: nothing but     *)
(* such calls.                                                             *)
StoreCalls == StoreInit /\ [][StoreCall]_storeVars

(* The same under the bound MaxRecords, for TLC.                           *)
StoreNext ==
    \/ StoreTick
    \/ StoreCreate
    \/ HasRoom /\ StoreTransition
    \/ HasRoom /\ StoreClaim

StoreSpec == StoreInit /\ [][StoreNext]_storeVars

-----------------------------------------------------------------------------
(* Properties.                                                             *)

(* Every row and every history record is well formed.                      *)
StoreTypeOK ==
    /\ now \in 0 .. MaxNow
    /\ row \in [Command -> Row]
    /\ history \in [Command -> Seq(HistoryRecord)]

(* The audit trail is a legal path: the records of a command chain one     *)
(* into the next, start with the insertion, use only edges of the          *)
(* transition table, and end in the state the row shows.  The stale-claim  *)
(* branch of claim_next writes row.state without _apply_transition, so     *)
(* nothing but its own bookkeeping keeps this true.                        *)
AuditTrailIsLegalPath ==
    \A c \in Command :
        IF row[c].state = Absent
        THEN history[c] = <<>>
        ELSE /\ Len(history[c]) >= 1
             /\ history[c][1] = <<Absent, "PENDING">>
             /\ \A i \in 2 .. Len(history[c]) :
                   /\ history[c][i] \in AllowedTransitions
                   /\ history[c][i][1] = history[c][i - 1][2]
             /\ row[c].state = history[c][Len(history[c])][2]

(* The stages a completed command went through, in order, since its last   *)
(* claim.                                                                  *)
Stages == <<"CLAIMED", "SUBMITTING", "ENTRY_CONFIRMED",
            "PROTECTION_PENDING", "PROTECTED", "COMPLETED">>

(* A command is completed only by walking every stage from one claim       *)
(* without a detour: the last six history records of a COMPLETED command   *)
(* are CLAIMED, SUBMITTING, ENTRY_CONFIRMED, PROTECTION_PENDING, PROTECTED *)
(* and COMPLETED, so a recovery in between restarts the walk.              *)
CompletedWalkedEveryStage ==
    \A c \in Command : row[c].state = "COMPLETED" =>
        LET h == history[c]
        IN  /\ Len(h) >= 6
            /\ \A i \in 1 .. 6 : h[Len(h) - 6 + i][2] = Stages[i]

(* A claim is exclusive for ClaimTimeout: while a command is CLAIMED or    *)
(* SUBMITTING, nobody else can claim it before its claim is that old, and  *)
(* nobody claims it at or after its expiry.                                *)
ClaimIsExclusive ==
    [][\A c \in Command :
         (/\ row'[c].state = "CLAIMED"
          /\ row'[c].claimedAt # row[c].claimedAt)
         => /\ row[c].expiresAt > now
            /\ row[c].state \in {"CLAIMED", "SUBMITTING"} =>
                  now - row[c].claimedAt >= ClaimTimeout]_storeVars

(* Terminal means terminal, and the trail is append-only: no later call,   *)
(* a repeated create included, moves a terminal command or rewrites a      *)
(* record.                                                                 *)
TrailOnlyGrows ==
    [][\A c \in Command :
         /\ row[c].state \in Terminal => row'[c] = row[c]
         /\ Len(history'[c]) >= Len(history[c])
         /\ \A i \in 1 .. Len(history[c]) :
               history'[c][i] = history[c][i]]_storeVars

=============================================================================
