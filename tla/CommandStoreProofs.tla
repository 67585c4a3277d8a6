------------------------- MODULE CommandStoreProofs -------------------------
(***************************************************************************)
(* What CommandStore guarantees for every set of commands, every claim     *)
(* timeout and every bound.                                                *)
(*                                                                         *)
(* A step changes each command's history in one of four ways: not at all,  *)
(* by the insertion record, by one record, or by the two records of a      *)
(* stale claim.  Extends names the shape all of them share, StepShape      *)
(* shows that every step has it for every command, and the invariants and  *)
(* action properties follow from the shape.                                *)
(***************************************************************************)
EXTENDS CommandStore, TLAPS

(* The audit trail of one command with state s and records h.              *)
Path(s, h) ==
    IF s = Absent
    THEN h = <<>>
    ELSE /\ Len(h) >= 1
         /\ h[1] = <<Absent, "PENDING">>
         /\ \A i \in 2 .. Len(h) :
               /\ h[i] \in AllowedTransitions
               /\ h[i][1] = h[i - 1][2]
         /\ s = h[Len(h)][2]

(* What one step may do to the row r and the records h of one command.     *)
Inserts(r, h, rr, hh) ==
    /\ r.state = Absent
    /\ rr.state = "PENDING"
    /\ hh = <<<<Absent, "PENDING">>>>

Moves(r, h, rr, hh) ==
    /\ <<r.state, rr.state>> \in AllowedTransitions
    /\ hh = Append(h, <<r.state, rr.state>>)

Reclaims(r, h, rr, hh) ==
    /\ r.state \in {"CLAIMED", "SUBMITTING"}
    /\ rr.state = "CLAIMED"
    /\ hh = Append(Append(h, <<r.state, "RECOVERY_REQUIRED">>),
                   <<"RECOVERY_REQUIRED", "CLAIMED">>)

Extends(r, h, rr, hh) ==
    \/ rr = r /\ hh = h
    \/ Inserts(r, h, rr, hh)
    \/ Moves(r, h, rr, hh)
    \/ Reclaims(r, h, rr, hh)

(* The bound MaxRecords only leaves calls out.                             *)
LEMMA NextIsCall == [StoreNext]_storeVars => [StoreCall]_storeVars
  BY DEF StoreNext, StoreCall

(* Every edge of the transition table joins two states and leaves a state  *)
(* that is not terminal.                                                   *)
LEMMA AllowedTransitionsType ==
    \A s, t : <<s, t>> \in AllowedTransitions =>
        /\ s \in CommandState /\ t \in CommandState
        /\ s \notin Terminal /\ s # t
        /\ <<s, t>> \in HistoryRecord
  BY SMT DEF AllowedTransitions, CommandState, Terminal, HistoryRecord

(* A claim transaction claims a set of claimable commands.                 *)
LEMMA ClaimShape ==
    StoreClaim =>
        \E skipped \in SUBSET Command, claimed \in SUBSET Command :
            /\ ClaimTransaction(skipped, claimed)
            /\ \A c \in claimed : Claimable(c)
<1> SUFFICES ASSUME StoreClaim
             PROVE  \E skipped \in SUBSET Command, claimed \in SUBSET Command :
                        /\ ClaimTransaction(skipped, claimed)
                        /\ \A c \in claimed : Claimable(c)
  OBVIOUS
<1>1. PICK skipped \in SUBSET Command :
        \/ \E c \in Command : ClaimNext(skipped, c)
        \/ ClaimNone(skipped)
  BY DEF StoreClaim
<1>2. CASE \E c \in Command : ClaimNext(skipped, c)
  <2>1. PICK c \in Command : ClaimNext(skipped, c)
    BY <1>2
  <2>2. Claimable(c) /\ ClaimTransaction(skipped, {c})
    BY <2>1 DEF ClaimNext, Oldest
  <2> QED
    BY <2>2
<1>3. CASE ClaimNone(skipped)
  <2>1. ClaimTransaction(skipped, {})
    BY <1>3 DEF ClaimNone
  <2> QED
    BY <2>1
<1> QED
  BY <1>1, <1>2, <1>3

(* Every store transaction keeps the table and the histories well typed.   *)
LEMMA TypeStep == StoreTypeOK /\ [StoreCall]_storeVars => StoreTypeOK'
<1> SUFFICES ASSUME StoreTypeOK, [StoreCall]_storeVars
             PROVE  StoreTypeOK'
  OBVIOUS
<1> USE BoundsAssumption
<1>1. CASE StoreTick
  BY <1>1 DEF StoreTick, Later, StoreTypeOK
<1>2. CASE StoreCreate
  <2>1. PICK c \in Command, lifetime \in 1 .. MaxLifetime : Create(c, lifetime)
    BY <1>2 DEF StoreCreate
  <2>2. CASE row[c].state = Absent
    <3>1. [state |-> "PENDING", createdAt |-> now,
           expiresAt |-> now + lifetime, claimedAt |-> Never] \in Row
      BY DEF StoreTypeOK, Row, CommandState
    <3>2. <<<<Absent, "PENDING">>>> \in Seq(HistoryRecord)
      BY DEF HistoryRecord, CommandState
    <3> QED
      BY <2>1, <2>2, <3>1, <3>2 DEF Create, StoreTypeOK
  <2>3. CASE row[c].state # Absent
    BY <2>1, <2>3 DEF Create, StoreTypeOK
  <2> QED
    BY <2>2, <2>3
<1>3. CASE StoreTransition
  <2>1. PICK c \in Command, to \in WorkerTarget : Transition(c, to)
    BY <1>3 DEF StoreTransition
  <2>2. CASE row[c].state = to
    BY <2>1, <2>2 DEF Transition, ApplyTransition, StoreTypeOK
  <2>3. CASE row[c].state # to
    <3>1. <<row[c].state, to>> \in HistoryRecord /\ to \in CommandState
      BY <2>1, <2>3, AllowedTransitionsType DEF Transition, Legal
    <3>2. row' \in [Command -> Row]
      <4>1. row' = [row EXCEPT ![c] = [row[c] EXCEPT !.state = to]]
        BY <2>1, <2>3 DEF Transition, ApplyTransition
      <4>2. [row[c] EXCEPT !.state = to] \in Row
        BY <3>1 DEF StoreTypeOK, Row
      <4> QED
        BY <4>1, <4>2 DEF StoreTypeOK
    <3>3. Append(history[c], <<row[c].state, to>>) \in Seq(HistoryRecord)
      BY <3>1 DEF StoreTypeOK
    <3> QED
      BY <2>1, <2>3, <3>2, <3>3 DEF Transition, ApplyTransition, StoreTypeOK
  <2> QED
    BY <2>2, <2>3
<1>4. CASE StoreClaim
  <2>1. PICK skipped \in SUBSET Command, claimed \in SUBSET Command :
          /\ ClaimTransaction(skipped, claimed)
          /\ \A c \in claimed : Claimable(c)
    BY <1>4, ClaimShape
  <2>2. ASSUME NEW c \in Command PROVE row'[c] \in Row
    BY <2>1 DEF ClaimTransaction, ClaimedRow, StoreTypeOK, Row, CommandState
  <2>3. ASSUME NEW c \in Command PROVE history'[c] \in Seq(HistoryRecord)
    <3>1. ASSUME Due(c)
          PROVE  Append(history[c], <<row[c].state, "EXPIRED">>)
                     \in Seq(HistoryRecord)
      BY <3>1 DEF Due, StoreTypeOK, HistoryRecord, CommandState
    <3>2. ASSUME c \in claimed
          PROVE  ClaimTrail(c) \in Seq(HistoryRecord)
      <4>1. /\ <<row[c].state, "CLAIMED">> \in HistoryRecord
            /\ <<row[c].state, "RECOVERY_REQUIRED">> \in HistoryRecord
            /\ <<"RECOVERY_REQUIRED", "CLAIMED">> \in HistoryRecord
        BY <2>1, <3>2 DEF Claimable, StaleClaim, HistoryRecord, CommandState
      <4>2. history[c] \in Seq(HistoryRecord)
        BY DEF StoreTypeOK
      <4> QED
        BY <4>1, <4>2 DEF ClaimTrail
    <3>3. history[c] \in Seq(HistoryRecord)
      BY DEF StoreTypeOK
    <3> QED
      BY <2>1, <3>1, <3>2, <3>3 DEF ClaimTransaction, ClaimedRow
  <2> QED
    BY <2>1, <2>2, <2>3 DEF ClaimTransaction, ClaimedRow, StoreTypeOK
<1>5. CASE UNCHANGED storeVars
  BY <1>5 DEF storeVars, StoreTypeOK
<1> QED
  BY <1>1, <1>2, <1>3, <1>4, <1>5 DEF StoreCall

(* The table, the histories and the clock are always well typed, whatever  *)
(* the callers of the repository do.                                       *)
THEOREM StoreTypeCorrect == StoreSpec => []StoreTypeOK
<1>1. StoreInit => StoreTypeOK
  BY BoundsAssumption DEF StoreInit, StoreTypeOK, NoRow, Row, Never
<1> QED
  BY <1>1, TypeStep, NextIsCall, PTL DEF StoreSpec

-----------------------------------------------------------------------------
(* Every step extends the row and the history of every command.            *)
LEMMA StepShape ==
    ASSUME StoreTypeOK, [StoreCall]_storeVars, NEW c \in Command
    PROVE  Extends(row[c], history[c], row'[c], history'[c])
<1>1. CASE StoreTick
  BY <1>1 DEF StoreTick, Extends
<1>2. CASE StoreCreate
  <2>1. PICK d \in Command, lifetime \in 1 .. MaxLifetime : Create(d, lifetime)
    BY <1>2 DEF StoreCreate
  <2>2. CASE d = c /\ row[c].state = Absent
    BY <2>1, <2>2 DEF Create, Extends, Inserts, StoreTypeOK
  <2>3. CASE ~(d = c /\ row[c].state = Absent)
    BY <2>1, <2>3 DEF Create, Extends, StoreTypeOK
  <2> QED
    BY <2>2, <2>3
<1>3. CASE StoreTransition
  <2>1. PICK d \in Command, to \in WorkerTarget : Transition(d, to)
    BY <1>3 DEF StoreTransition
  <2>2. CASE d = c /\ row[c].state # to
    <3>1. row'[c] = [row[c] EXCEPT !.state = to]
      BY <2>1, <2>2 DEF Transition, ApplyTransition, StoreTypeOK
    <3>2. row'[c].state = to
      BY <3>1 DEF StoreTypeOK, Row
    <3> QED
      BY <2>1, <2>2, <3>2
      DEF Transition, Legal, ApplyTransition, Extends, Moves, StoreTypeOK
  <2>3. CASE ~(d = c /\ row[c].state # to)
    BY <2>1, <2>3 DEF Transition, ApplyTransition, Extends, StoreTypeOK
  <2> QED
    BY <2>2, <2>3
<1>4. CASE StoreClaim
  <2>1. PICK skipped \in SUBSET Command, claimed \in SUBSET Command :
          /\ ClaimTransaction(skipped, claimed)
          /\ \A d \in claimed : Claimable(d)
    BY <1>4, ClaimShape
  <2>2. CASE c \notin skipped /\ Due(c)
    <3>1. /\ row'[c].state = "EXPIRED"
          /\ history'[c] = Append(history[c], <<row[c].state, "EXPIRED">>)
      BY <2>1, <2>2 DEF ClaimTransaction, ClaimedRow, StoreTypeOK, Row
    <3>2. <<row[c].state, "EXPIRED">> \in AllowedTransitions
      BY <2>2 DEF Due, AllowedTransitions
    <3> QED
      BY <3>1, <3>2 DEF Extends, Moves
  <2>3. CASE ~(c \notin skipped /\ Due(c)) /\ c \in claimed
    <3>1. row'[c].state = "CLAIMED" /\ history'[c] = ClaimTrail(c)
      BY <2>1, <2>3 DEF ClaimTransaction, ClaimedRow, StoreTypeOK, Row
    <3>2. CASE row[c].state \in {"CLAIMED", "SUBMITTING"}
      BY <3>1, <3>2 DEF ClaimTrail, Extends, Reclaims
    <3>3. CASE row[c].state \notin {"CLAIMED", "SUBMITTING"}
      <4>1. <<row[c].state, "CLAIMED">> \in AllowedTransitions
        BY <2>1, <2>3, <3>3 DEF Claimable, StaleClaim, AllowedTransitions
      <4> QED
        BY <3>1, <3>3, <4>1 DEF ClaimTrail, Extends, Moves
    <3> QED
      BY <3>2, <3>3
  <2>4. CASE ~(c \notin skipped /\ Due(c)) /\ c \notin claimed
    BY <2>1, <2>4 DEF ClaimTransaction, ClaimedRow, Extends
  <2> QED
    BY <2>2, <2>3, <2>4
<1>5. CASE UNCHANGED storeVars
  BY <1>5 DEF storeVars, Extends
<1> QED
  BY <1>1, <1>2, <1>3, <1>4, <1>5 DEF StoreCall

(* Appending a legal record that leaves the path's last state is a path.   *)
LEMMA PathAppend ==
    ASSUME NEW s, NEW t, NEW h \in Seq(HistoryRecord),
           s # Absent, t # Absent, Path(s, h), <<s, t>> \in AllowedTransitions
    PROVE  /\ Append(h, <<s, t>>) \in Seq(HistoryRecord)
           /\ Path(t, Append(h, <<s, t>>))
<1> DEFINE g == Append(h, <<s, t>>)
<1>1. <<s, t>> \in HistoryRecord
  BY AllowedTransitionsType
<1>2. /\ Len(h) >= 1 /\ Len(h) \in Nat
      /\ h[1] = <<Absent, "PENDING">>
      /\ \A i \in 2 .. Len(h) : /\ h[i] \in AllowedTransitions
                               /\ h[i][1] = h[i - 1][2]
      /\ s = h[Len(h)][2]
  BY DEF Path
<1>3. /\ g \in Seq(HistoryRecord)
      /\ Len(g) = Len(h) + 1
      /\ g[Len(h) + 1] = <<s, t>>
      /\ \A i \in 1 .. Len(h) : g[i] = h[i]
  BY <1>1
<1> HIDE DEF g
<1>4. g[1] = <<Absent, "PENDING">>
  BY <1>2, <1>3
<1>5. ASSUME NEW i \in 2 .. Len(g)
      PROVE  g[i] \in AllowedTransitions /\ g[i][1] = g[i - 1][2]
  <2>1. CASE i = Len(h) + 1
    <3>1. g[i] = <<s, t>> /\ i - 1 = Len(h) /\ i - 1 \in 1 .. Len(h)
      BY <1>2, <1>3, <2>1
    <3>2. g[i - 1] = h[Len(h)]
      BY <1>3, <3>1
    <3>3. g[i][1] = s
      BY <3>1
    <3> QED
      BY <1>2, <3>1, <3>2, <3>3
  <2>2. CASE i \in 2 .. Len(h)
    <3>1. i \in 1 .. Len(h) /\ i - 1 \in 1 .. Len(h)
      BY <1>2, <2>2
    <3> QED
      BY <1>2, <1>3, <2>2, <3>1
  <2> QED
    BY <1>2, <1>3, <2>1, <2>2
<1>6. t = g[Len(g)][2]
  BY <1>2, <1>3
<1>7. Path(t, g) /\ g \in Seq(HistoryRecord)
  BY <1>2, <1>3, <1>4, <1>5, <1>6 DEF Path
<1> QED
  BY <1>7 DEF g

(* Each of the four ways to extend a history keeps it a legal path.        *)
LEMMA ExtendsKeepsPath ==
    ASSUME NEW r \in Row, NEW h \in Seq(HistoryRecord), NEW rr, NEW hh,
           Path(r.state, h), Extends(r, h, rr, hh)
    PROVE  Path(rr.state, hh)
<1>1. CASE rr = r /\ hh = h
  BY <1>1
<1>2. CASE Inserts(r, h, rr, hh)
  BY <1>2 DEF Inserts, Path, Absent
<1>3. CASE Moves(r, h, rr, hh)
  <2>1. r.state # Absent /\ rr.state # Absent
    BY <1>3, AllowedTransitionsType DEF Moves, Absent, CommandState
  <2> QED
    BY <1>3, <2>1, PathAppend DEF Moves
<1>4. CASE Reclaims(r, h, rr, hh)
  <2> DEFINE g == Append(h, <<r.state, "RECOVERY_REQUIRED">>)
  <2>1. r.state # Absent /\ <<r.state, "RECOVERY_REQUIRED">> \in AllowedTransitions
    BY <1>4 DEF Reclaims, Absent, AllowedTransitions
  <2>2. g \in Seq(HistoryRecord) /\ Path("RECOVERY_REQUIRED", g)
    BY <2>1, PathAppend DEF Absent
  <2>3. <<"RECOVERY_REQUIRED", "CLAIMED">> \in AllowedTransitions
    BY DEF AllowedTransitions
  <2>4. Path("CLAIMED", Append(g, <<"RECOVERY_REQUIRED", "CLAIMED">>))
    BY <2>2, <2>3, PathAppend DEF Absent
  <2> QED
    BY <1>4, <2>4 DEF Reclaims
<1> QED
  BY <1>1, <1>2, <1>3, <1>4 DEF Extends

(* Every step of the store keeps every audit trail a legal path.           *)
LEMMA AuditTrailStep ==
    StoreTypeOK /\ AuditTrailIsLegalPath /\ [StoreCall]_storeVars
        => AuditTrailIsLegalPath'
<1> SUFFICES ASSUME StoreTypeOK, AuditTrailIsLegalPath, [StoreCall]_storeVars,
                    NEW c \in Command
             PROVE  Path(row'[c].state, history'[c])
  BY DEF AuditTrailIsLegalPath, Path
<1>1. Path(row[c].state, history[c])
  BY DEF AuditTrailIsLegalPath, Path
<1>2. row[c] \in Row /\ history[c] \in Seq(HistoryRecord)
  BY DEF StoreTypeOK
<1> QED
  BY <1>1, <1>2, StepShape, ExtendsKeepsPath

(* The transition history of every command is a legal path from its        *)
(* insertion to the state its row shows, through stale claims, concurrent  *)
(* claims, expiry and repeated creates.                                    *)
THEOREM AuditTrailCorrect == StoreSpec => []AuditTrailIsLegalPath
<1>1. StoreInit => AuditTrailIsLegalPath
  BY DEF StoreInit, AuditTrailIsLegalPath, NoRow
<1> QED
  BY <1>1, AuditTrailStep, NextIsCall, StoreTypeCorrect, PTL DEF StoreSpec

(* A path that ends in COMPLETED walked every stage since its last claim:  *)
(* each stage has exactly one predecessor in the transition table.         *)
LEMMA CompletedFromPath ==
    StoreTypeOK /\ AuditTrailIsLegalPath => CompletedWalkedEveryStage
<1> SUFFICES ASSUME StoreTypeOK, AuditTrailIsLegalPath,
                    NEW c \in Command, row[c].state = "COMPLETED"
             PROVE  LET h == history[c]
                    IN  /\ Len(h) >= 6
                        /\ \A i \in 1 .. 6 : h[Len(h) - 6 + i][2] = Stages[i]
  BY DEF CompletedWalkedEveryStage
<1> DEFINE h == history[c]
           n == Len(h)
<1>1. /\ n \in Nat /\ n >= 1
      /\ h[1][2] = "PENDING"
      /\ \A i \in 2 .. n : h[i] \in AllowedTransitions /\ h[i][1] = h[i - 1][2]
      /\ h[n][2] = "COMPLETED"
  BY DEF AuditTrailIsLegalPath, StoreTypeOK, Absent
<1> HIDE DEF h, n
<1>2. \A i \in 1 .. n : \A s, t :
        h[i][2] = t /\ t # "PENDING"
        /\ (\A e \in AllowedTransitions : e[2] = t => e[1] = s)
        => i - 1 \in 1 .. n /\ h[i - 1][2] = s
  BY <1>1
<1>3. \A e \in AllowedTransitions :
        /\ e[2] = "COMPLETED" => e[1] = "PROTECTED"
        /\ e[2] = "PROTECTED" => e[1] = "PROTECTION_PENDING"
        /\ e[2] = "PROTECTION_PENDING" => e[1] = "ENTRY_CONFIRMED"
        /\ e[2] = "ENTRY_CONFIRMED" => e[1] = "SUBMITTING"
        /\ e[2] = "SUBMITTING" => e[1] = "CLAIMED"
  BY DEF AllowedTransitions
<1>4. n - 1 \in 1 .. n /\ h[n - 1][2] = "PROTECTED"
  BY <1>1, <1>2, <1>3
<1>5. n - 2 \in 1 .. n /\ h[n - 2][2] = "PROTECTION_PENDING"
  <2>1. (n - 1) - 1 \in 1 .. n /\ h[(n - 1) - 1][2] = "PROTECTION_PENDING"
    BY <1>2, <1>3, <1>4
  <2> QED
    BY <1>1, <2>1
<1>6. n - 3 \in 1 .. n /\ h[n - 3][2] = "ENTRY_CONFIRMED"
  <2>1. (n - 2) - 1 \in 1 .. n /\ h[(n - 2) - 1][2] = "ENTRY_CONFIRMED"
    BY SMTT(30), <1>2, <1>3, <1>5
  <2> QED
    BY <1>1, <2>1
<1>7. n - 4 \in 1 .. n /\ h[n - 4][2] = "SUBMITTING"
  <2>1. (n - 3) - 1 \in 1 .. n /\ h[(n - 3) - 1][2] = "SUBMITTING"
    BY <1>2, <1>3, <1>6
  <2> QED
    BY <1>1, <2>1
<1>8. n - 5 \in 1 .. n /\ h[n - 5][2] = "CLAIMED"
  <2>1. (n - 4) - 1 \in 1 .. n /\ h[(n - 4) - 1][2] = "CLAIMED"
    BY <1>2, <1>3, <1>7
  <2> QED
    BY <1>1, <2>1
<1>9. n >= 6
  BY <1>1, <1>8
<1>10. ASSUME NEW i \in 1 .. 6 PROVE h[n - 6 + i][2] = Stages[i]
  BY <1>1, <1>4, <1>5, <1>6, <1>7, <1>8 DEF Stages
<1> QED
  BY <1>9, <1>10 DEF h, n

(* A COMPLETED command walked every stage from one claim.                  *)
THEOREM CompletedWalked == StoreSpec => []CompletedWalkedEveryStage
  BY StoreTypeCorrect, AuditTrailCorrect, CompletedFromPath, PTL

-----------------------------------------------------------------------------
(* No transaction rewrites a record or moves a terminal command.          *)
LEMMA TrailStep ==
    ASSUME StoreTypeOK, AuditTrailIsLegalPath, [StoreCall]_storeVars,
           NEW c \in Command
    PROVE  /\ row[c].state \in Terminal => row'[c] = row[c]
           /\ Len(history'[c]) >= Len(history[c])
           /\ \A i \in 1 .. Len(history[c]) :
                 history'[c][i] = history[c][i]
<1>1. Extends(row[c], history[c], row'[c], history'[c])
  BY StepShape
<1>2. history[c] \in Seq(HistoryRecord) /\ row[c] \in Row
  BY DEF StoreTypeOK
<1>3. CASE row'[c] = row[c] /\ history'[c] = history[c]
  BY <1>2, <1>3
<1>4. CASE Inserts(row[c], history[c], row'[c], history'[c])
  BY <1>4 DEF Inserts, AuditTrailIsLegalPath, Absent, Terminal
<1>5. CASE Moves(row[c], history[c], row'[c], history'[c])
  <2>1. /\ row[c].state \notin Terminal
        /\ <<row[c].state, row'[c].state>> \in HistoryRecord
    BY <1>5, AllowedTransitionsType DEF Moves
  <2> QED
    BY <1>2, <1>5, <2>1 DEF Moves
<1>6. CASE Reclaims(row[c], history[c], row'[c], history'[c])
  <2>1. /\ row[c].state \notin Terminal
        /\ <<row[c].state, "RECOVERY_REQUIRED">> \in HistoryRecord
        /\ <<"RECOVERY_REQUIRED", "CLAIMED">> \in HistoryRecord
    BY <1>6 DEF Reclaims, Terminal, HistoryRecord, CommandState
  <2>2. Append(history[c], <<row[c].state, "RECOVERY_REQUIRED">>)
            \in Seq(HistoryRecord)
    BY <1>2, <2>1
  <2> QED
    BY <1>2, <1>6, <2>1, <2>2 DEF Reclaims
<1> QED
  BY <1>1, <1>3, <1>4, <1>5, <1>6 DEF Extends

(* Histories are append-only and terminal commands never move: whatever    *)
(* the callers do, no transaction rewrites a record or revives a command.  *)
THEOREM TrailGrows == StoreSpec => TrailOnlyGrows
<1>1. StoreTypeOK /\ AuditTrailIsLegalPath /\ [StoreNext]_storeVars
        => [\A c \in Command :
              /\ row[c].state \in Terminal => row'[c] = row[c]
              /\ Len(history'[c]) >= Len(history[c])
              /\ \A i \in 1 .. Len(history[c]) :
                    history'[c][i] = history[c][i]]_storeVars
  BY TrailStep, NextIsCall
<1> QED
  BY <1>1, StoreTypeCorrect, AuditTrailCorrect, PTL DEF StoreSpec, TrailOnlyGrows

(* A claim is taken before the expiry and, over an earlier claim, only     *)
(* when that one is ClaimTimeout old.                                      *)
LEMMA ClaimStep ==
    ASSUME StoreTypeOK, [StoreCall]_storeVars, NEW c \in Command,
           row'[c].state = "CLAIMED", row'[c].claimedAt # row[c].claimedAt
    PROVE  /\ row[c].expiresAt > now
           /\ row[c].state \in {"CLAIMED", "SUBMITTING"} =>
                 now - row[c].claimedAt >= ClaimTimeout
<1>1. CASE StoreTick \/ UNCHANGED storeVars
  BY <1>1 DEF StoreTick, storeVars
<1>2. CASE StoreCreate
  <2>1. PICK d \in Command, lifetime \in 1 .. MaxLifetime : Create(d, lifetime)
    BY <1>2 DEF StoreCreate
  <2> QED
    BY <2>1 DEF Create, StoreTypeOK
<1>3. CASE StoreTransition
  <2>1. PICK d \in Command, to \in WorkerTarget : Transition(d, to)
    BY <1>3 DEF StoreTransition
  <2>2. row'[c] = row[c] \/ row'[c] = [row[c] EXCEPT !.state = to]
    BY <2>1 DEF Transition, ApplyTransition, StoreTypeOK
  <2> QED
    BY <2>2 DEF StoreTypeOK, Row
<1>4. CASE StoreClaim
  <2>1. PICK skipped \in SUBSET Command, claimed \in SUBSET Command :
          /\ ClaimTransaction(skipped, claimed)
          /\ \A d \in claimed : Claimable(d)
    BY <1>4, ClaimShape
  <2>2. c \in claimed
    BY <2>1 DEF ClaimTransaction, ClaimedRow, StoreTypeOK, Row
  <2>3. Claimable(c)
    BY <2>1, <2>2
  <2>4. row[c].state \in {"CLAIMED", "SUBMITTING"} =>
          /\ row[c].claimedAt # Never
          /\ row[c].claimedAt + ClaimTimeout <= now
    BY <2>3 DEF Claimable, StaleClaim
  <2> QED
    BY <2>3, <2>4, BoundsAssumption DEF Claimable, StoreTypeOK, Row
<1> QED
  BY <1>1, <1>2, <1>3, <1>4 DEF StoreCall

(* A claim is exclusive for ClaimTimeout and never taken at or after the   *)
(* command's expiry, however many workers call claim_next concurrently.    *)
THEOREM ClaimExclusive == StoreSpec => ClaimIsExclusive
<1>1. StoreTypeOK /\ [StoreNext]_storeVars
        => [\A c \in Command :
              (/\ row'[c].state = "CLAIMED"
               /\ row'[c].claimedAt # row[c].claimedAt)
              => /\ row[c].expiresAt > now
                 /\ row[c].state \in {"CLAIMED", "SUBMITTING"} =>
                       now - row[c].claimedAt >= ClaimTimeout]_storeVars
  BY ClaimStep, NextIsCall
<1> QED
  BY <1>1, StoreTypeCorrect, PTL DEF StoreSpec, ClaimIsExclusive
=============================================================================
