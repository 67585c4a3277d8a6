-------------------------- MODULE OrderAuditProofs --------------------------
(***************************************************************************)
(* Theorems about OrderAudit, for any number of overlapping audits and any *)
(* quantity: its types, that an audit record is true and readable, that    *)
(* the truth can always still be recorded, and that the records implement  *)
(* OrderLedger.                                                            *)
(*                                                                         *)
(* The argument: orders only grow and a terminal one is final (OrderGrows),*)
(* so evidence that was exact when it was verified never becomes false     *)
(* (EvidenceIsSound), and neither does a record written from it.           *)
(***************************************************************************)
EXTENDS OrderAudit, TLAPS

(* The fills of the trade's orders and the position add up, and the status *)
(* of an order tells how much of it was filled.                            *)
OrdersMatch ==
    /\ position + order["STOP_LOSS"].filled + order["TAKE_PROFIT"].filled
         + order["MANUAL_CLOSE"].filled = Quantity
    /\ \A k \in Kind :
         /\ order[k].status \in {"NEW", "PARTIALLY_FILLED", "FINISHED", "CANCELED"}
         /\ order[k].status = "NEW" => order[k].filled = 0
         /\ order[k].status = "PARTIALLY_FILLED" => order[k].filled \in 1 .. Quantity - 1
         /\ order[k].filled = Quantity => order[k].status = "FINISHED"
         /\ order[k].status = "FINISHED" =>
              \/ order[k].filled = Quantity
              \/ order[k].filled = 0 /\ order[Sibling(k)].filled = Quantity
    /\ order["MANUAL_CLOSE"].status \in {"NONE", "NEW", "FILLED", "EXPIRED"}
    /\ order["MANUAL_CLOSE"].status \in {"NONE", "NEW"}
         => order["MANUAL_CLOSE"].filled = 0

(* Nobody takes the trade for closed by hand, and no audit record of the   *)
(* close order exists, before the close filled and was completed.          *)
CloseIsProved ==
    /\ completed => order["MANUAL_CLOSE"] = [status |-> "FILLED", filled |-> Quantity]
    /\ trade.by = "MANUAL" => completed
    /\ \A a \in Auditor : /\ memory[a].by = "MANUAL" => completed
                          /\ audit[a].trade.by = "MANUAL" => completed
    /\ row["MANUAL_CLOSE"].form = "CANONICAL" => completed

(* What is said of order r is no more than what happened to it, and what   *)
(* is said to be final is.                                                 *)
Truthful(r, e) ==
    /\ e.executed <= order[r].filled
    /\ e.status \in Ended => /\ order[r].status = e.status
                             /\ order[r].filled = e.executed

(* Evidence, once verified, stays true, however late it is used.           *)
SoundEvidence(r, e) ==
    e # NoEvidence => /\ e.status # "NONE"
                      /\ Truthful(r, e)
                      /\ EconomicsValid(r, e.status, e.executed)

EvidenceIsSound ==
    \A a \in Auditor, r \in Role : SoundEvidence(r, audit[a].evidence[r])

(* An audit persists nothing it has not verified.                          *)
OnItsWay(x) ==
    LET seq == Expected(x.trade)
    IN  /\ x.at \in 1 .. Len(seq)
        /\ x.step = "idle" => x.at = 1
        /\ \A j \in 1 .. Len(seq) :
             x.step = "persist" \/ (x.step = "look" /\ j < x.at)
               => x.evidence[seq[j]] # NoEvidence

AuditProgresses == \A a \in Auditor : OnItsWay(audit[a])

(* An audit record is true and readable, and the fill rows of the order    *)
(* are those it counts.                                                    *)
FillsOf(r) == {f \in fills : f[1] = r}

SoundRecord(r, x) ==
    IF x.form = "CANONICAL"
    THEN /\ x.status # "NONE"
         /\ Truthful(r, x)
         /\ EconomicsValid(r, x.status, x.executed)
         /\ FillsOf(r) = {<<r, n>> : n \in 1 .. x.executed}
    ELSE FillsOf(r) = {}

RecordsAreSound == \A r \in Role : SoundRecord(r, row[r])

IInv ==
    /\ TypeOK
    /\ OrdersMatch
    /\ CloseIsProved
    /\ EvidenceIsSound
    /\ AuditProgresses
    /\ RecordsAreSound

-----------------------------------------------------------------------------
(* The model's operators.                                                  *)

LEMMA Siblings ==
    /\ Sibling("STOP_LOSS") = "TAKE_PROFIT"
    /\ Sibling("TAKE_PROFIT") = "STOP_LOSS"
  BY DEF Sibling, Kind

(* The roles an audit asks for, one by one.                                *)
LEMMA ExpectedShape ==
    ASSUME NEW t
    PROVE  /\ Len(Expected(t)) = IF t.by = "MANUAL" THEN 3 ELSE 2
           /\ Expected(t)[1] = "STOP_LOSS"
           /\ Expected(t)[2] = "TAKE_PROFIT"
           /\ t.by = "MANUAL" => Expected(t)[3] = "MANUAL_CLOSE"
<1>1. CASE t.by = "MANUAL"
  BY <1>1 DEF Expected
<1>2. CASE t.by # "MANUAL"
  BY <1>2 DEF Expected
<1> QED
  BY <1>1, <1>2

-----------------------------------------------------------------------------
(* Types and the exchange.                                                 *)

(* Every step of the exchange keeps the arithmetic of fills and position.  *)
LEMMA OrdersStep ==
    TypeOK /\ OrdersMatch /\ [Next]_vars
        => /\ OrdersMatch'
           /\ position' \in 0 .. Quantity
           /\ order' \in [Role -> Order]
<1> SUFFICES ASSUME TypeOK, OrdersMatch, [Next]_vars
             PROVE  /\ OrdersMatch'
                    /\ position' \in 0 .. Quantity
                    /\ order' \in [Role -> Order]
  OBVIOUS
<1> USE AuditAssumption, Siblings
<1>1. ASSUME NEW k \in Kind, Fill(k)
      PROVE  /\ OrdersMatch'
             /\ position' \in 0 .. Quantity
             /\ order' \in [Role -> Order]
  <2>1. order' \in [Role -> Order] /\ position' \in 0 .. Quantity
    BY <1>1 DEF Fill, TypeOK, OrdersMatch, Order, Role, Kind, Live, Ended
  <2>2. OrdersMatch'
    BY <1>1, <2>1 DEF Fill, TypeOK, OrdersMatch, Order, Role, Kind, Live, Ended
  <2> QED
    BY <2>1, <2>2
<1>2. ASSUME NEW k \in Kind, Drop(k)
      PROVE  /\ OrdersMatch'
             /\ position' \in 0 .. Quantity
             /\ order' \in [Role -> Order]
  BY <1>2 DEF Drop, TypeOK, OrdersMatch, Order, Role, Kind, Live, Ended
<1>3. ASSUME PlaceClose
      PROVE  /\ OrdersMatch'
             /\ position' \in 0 .. Quantity
             /\ order' \in [Role -> Order]
  BY <1>3 DEF PlaceClose, TypeOK, OrdersMatch, Order, Role, Kind, Live, Ended
<1>4. ASSUME MatchClose
      PROVE  /\ OrdersMatch'
             /\ position' \in 0 .. Quantity
             /\ order' \in [Role -> Order]
  BY <1>4 DEF MatchClose, TypeOK, OrdersMatch, Order, Role, Kind, Live, Ended
<1>5. CASE UNCHANGED exchange
  BY <1>5 DEF exchange, TypeOK, OrdersMatch
<1>6. UNCHANGED vars => UNCHANGED exchange
  BY DEF vars
<1>7. ASSUME NEW a \in Auditor,
             StoreClose(a) \/ Observe(a) \/ Restart(a) \/ Reconcile(a)
      PROVE  UNCHANGED exchange
  BY <1>7 DEF StoreClose, Observe, Restart, Reconcile, Begin, Look, Persist, Unverified
<1>8. RecordClose \/ CompleteClose => UNCHANGED exchange
  BY DEF RecordClose, CompleteClose
<1> QED
  BY <1>1, <1>2, <1>3, <1>4, <1>5, <1>6, <1>7, <1>8 DEF Next

(* No fill is undone and no order leaves a terminal status.                *)
LEMMA OrderGrows ==
    ASSUME TypeOK, OrdersMatch, [Next]_vars
    PROVE  \A r \in Role : /\ order'[r].filled >= order[r].filled
                           /\ order[r].status \in Ended => order'[r] = order[r]
<1> USE AuditAssumption
<1>1. ASSUME NEW k \in Kind, Fill(k)
      PROVE  \A r \in Role : /\ order'[r].filled >= order[r].filled
                             /\ order[r].status \in Ended => order'[r] = order[r]
  BY <1>1 DEF Fill, TypeOK, Order, Role, Kind, Live, Ended
<1>2. ASSUME NEW k \in Kind, Drop(k)
      PROVE  \A r \in Role : /\ order'[r].filled >= order[r].filled
                             /\ order[r].status \in Ended => order'[r] = order[r]
  BY <1>2 DEF Drop, TypeOK, Order, Role, Kind, Live, Ended
<1>3. CASE PlaceClose
  BY <1>3 DEF PlaceClose, TypeOK, Order, Role, Kind, Live, Ended
<1>4. CASE MatchClose
  BY <1>4 DEF MatchClose, TypeOK, OrdersMatch, Order, Role, Kind, Live, Ended
<1>5. CASE UNCHANGED exchange
  BY <1>5 DEF exchange, TypeOK, Order
<1>6. UNCHANGED vars => UNCHANGED exchange
  BY DEF vars
<1>7. ASSUME NEW a \in Auditor,
             StoreClose(a) \/ Observe(a) \/ Restart(a) \/ Reconcile(a)
      PROVE  UNCHANGED exchange
  BY <1>7 DEF StoreClose, Observe, Restart, Reconcile, Begin, Look, Persist, Unverified
<1>8. RecordClose \/ CompleteClose => UNCHANGED exchange
  BY DEF RecordClose, CompleteClose
<1> QED
  BY <1>1, <1>2, <1>3, <1>4, <1>5, <1>6, <1>7, <1>8 DEF Next

(* The trade records, which only the close route and the protective        *)
(* observer write.                                                         *)
LEMMA TradeTypeStep ==
    ASSUME TypeOK, OrdersMatch, [Next]_vars
    PROVE  /\ completed' \in BOOLEAN
           /\ trade' \in Trade
           /\ memory' \in [Auditor -> Trade]
<1>1. ASSUME NEW a \in Auditor, StoreClose(a)
      PROVE  completed' \in BOOLEAN /\ trade' \in Trade /\ memory' \in [Auditor -> Trade]
  BY <1>1 DEF StoreClose, TypeOK, Trade
<1>2. ASSUME NEW a \in Auditor, Observe(a)
      PROVE  completed' \in BOOLEAN /\ trade' \in Trade /\ memory' \in [Auditor -> Trade]
  <2>1. PICK k \in Kind :
          trade' = IF trade.by # "NONE" THEN trade
                   ELSE [by |-> IF order[k].filled = Quantity THEN k ELSE "NONE",
                         reason |-> k, exited |-> ExitQuantity(k)]
    BY <1>2 DEF Observe
  <2>2. ExitQuantity(k) \in 0 .. Quantity
    BY DEF ExitQuantity, TypeOK, Order, Role
  <2>3. trade' \in Trade
    BY <2>1, <2>2 DEF TypeOK, Trade
  <2> QED
    BY <1>2, <2>3 DEF Observe, TypeOK
<1>3. ASSUME NEW a \in Auditor, Restart(a)
      PROVE  completed' \in BOOLEAN /\ trade' \in Trade /\ memory' \in [Auditor -> Trade]
  BY <1>3 DEF Restart, database, TypeOK
<1>4. CompleteClose => completed' \in BOOLEAN /\ UNCHANGED <<trade, memory>>
  BY DEF CompleteClose
<1>5. ASSUME NEW a \in Auditor, Reconcile(a)
      PROVE  UNCHANGED <<completed, trade, memory>>
  BY <1>5 DEF Reconcile, Begin, Look, Persist, Unverified, database
<1>6. ASSUME NEW k \in Kind, Fill(k) \/ Drop(k)
      PROVE  UNCHANGED <<completed, trade, memory>>
  BY <1>6 DEF Fill, Drop, database
<1>7. PlaceClose \/ MatchClose \/ RecordClose => UNCHANGED <<completed, trade, memory>>
  BY DEF PlaceClose, MatchClose, RecordClose, database
<1>8. UNCHANGED vars => UNCHANGED <<completed, trade, memory>>
  BY DEF vars, database
<1>9. UNCHANGED <<completed, trade, memory>>
        => completed' \in BOOLEAN /\ trade' \in Trade /\ memory' \in [Auditor -> Trade]
  BY DEF TypeOK
<1> QED
  BY <1>1, <1>2, <1>3, <1>4, <1>5, <1>6, <1>7, <1>8, <1>9 DEF Next, TypeOK

(* Where an audit is, and which role it is at.                             *)
LEMMA CurrentRole ==
    ASSUME TypeOK, AuditProgresses, NEW a \in Auditor
    PROVE  /\ Current(a) \in Role
           /\ Current(a) \notin Kind => audit[a].trade.by = "MANUAL"
           /\ ~Last(a) => audit[a].at + 1 \in 1 .. 3
<1> DEFINE t == audit[a].trade
<1>1. /\ Len(Expected(t)) = IF t.by = "MANUAL" THEN 3 ELSE 2
      /\ Expected(t)[1] = "STOP_LOSS"
      /\ Expected(t)[2] = "TAKE_PROFIT"
      /\ t.by = "MANUAL" => Expected(t)[3] = "MANUAL_CLOSE"
  BY ExpectedShape
<1>2. audit[a].at \in 1 .. Len(Expected(t))
  BY DEF AuditProgresses, OnItsWay
<1> HIDE DEF t
<1>3. CASE t.by = "MANUAL"
  BY <1>1, <1>2, <1>3 DEF Current, Last, Role, Kind, t
<1>4. CASE t.by # "MANUAL"
  BY <1>1, <1>2, <1>4 DEF Current, Last, Role, Kind, t
<1> QED
  BY <1>3, <1>4

(* An audit that is idle, or begins, or is published, is well formed.      *)
AuditState == [step : {"idle", "look", "persist"}, at : 1 .. 3, trade : Trade,
               fills : [Role -> 0 .. Quantity], evidence : [Role -> Evidence]]

LEMMA NoAuditType == NoAudit \in AuditState
  BY AuditAssumption DEF NoAudit, AuditState, NoEvidence, Evidence, Trade

(* What each step of an audit leaves of it.                                *)
LEMMA AuditTypeStep ==
    ASSUME TypeOK, AuditProgresses, [Next]_vars
    PROVE  audit' \in [Auditor -> AuditState]
<1> USE NoAuditType
<1>0. audit \in [Auditor -> AuditState]
  BY DEF TypeOK, AuditState
<1>1. ASSUME NEW a \in Auditor, Begin(a)
      PROVE  audit' \in [Auditor -> AuditState]
  <2> DEFINE read == [r \in Role |-> IF r \in Kind \/ memory[a].by = "MANUAL"
                                     THEN order[r].filled ELSE 0]
  <2>1. read \in [Role -> 0 .. Quantity]
    BY AuditAssumption DEF TypeOK, Order
  <2>3. audit' = [audit EXCEPT ![a].step = "look", ![a].trade = memory[a],
                               ![a].fills = read]
    BY <1>1 DEF Begin
  <2> HIDE DEF read
  <2>2. memory[a] \in Trade
    BY DEF TypeOK
  <2> QED
    BY <1>0, <2>1, <2>2, <2>3 DEF AuditState
<1>2. ASSUME NEW a \in Auditor, Look(a)
      PROVE  audit' \in [Auditor -> AuditState]
  <2>1. CASE Publish(a)
    BY <1>0, <2>1 DEF Publish
  <2>2. CASE ~Publish(a)
    <3> DEFINE r == Current(a)
               e == [status |-> order[r].status, executed |-> audit[a].fills[r]]
    <3>1. r \in Role /\ (~Last(a) => audit[a].at + 1 \in 1 .. 3)
      BY CurrentRole
    <3>2. e \in Evidence
      BY <1>0, <3>1 DEF TypeOK, AuditState, Evidence, Order
    <3>3. Closing(audit[a].trade) \in Trade /\ audit[a].trade \in Trade
      BY <1>0, AuditAssumption DEF AuditState, Closing, NoAudit, Trade
    <3> HIDE DEF r, e
    <3> DEFINE new == [step |-> IF Last(a) THEN "persist" ELSE "look",
                       at |-> IF Last(a) THEN 1 ELSE audit[a].at + 1,
                       trade |-> IF Last(a) THEN Closing(audit[a].trade)
                                            ELSE audit[a].trade,
                       fills |-> audit[a].fills,
                       evidence |-> [audit[a].evidence EXCEPT ![r] = e]]
    <3>4. audit' = [audit EXCEPT ![a] = new]
      BY <1>0, <1>2, <2>2 DEF Look, r, e, AuditState
    <3>5. new \in AuditState
      BY <1>0, <3>1, <3>2, <3>3 DEF AuditState
    <3> QED
      BY <1>0, <3>4, <3>5
  <2> QED
    BY <2>1, <2>2
<1>3. ASSUME NEW a \in Auditor, Persist(a)
      PROVE  audit' \in [Auditor -> AuditState]
  <2>1. CASE Publish(a)
    BY <1>0, <2>1 DEF Publish
  <2>2. CASE ~Publish(a)
    <3>1. ~Last(a) /\ audit' = [audit EXCEPT ![a].at = @ + 1]
      BY <1>3, <2>2 DEF Persist
    <3>2. audit[a].at + 1 \in 1 .. 3
      BY <3>1, CurrentRole
    <3> QED
      BY <1>0, <3>1, <3>2 DEF AuditState
  <2> QED
    BY <2>1, <2>2
<1>4. ASSUME NEW a \in Auditor, Unverified(a) \/ Restart(a)
      PROVE  audit' \in [Auditor -> AuditState]
  BY <1>0, <1>4 DEF Unverified, Restart, Publish
<1>5. ASSUME NEW a \in Auditor, StoreClose(a) \/ Observe(a)
      PROVE  UNCHANGED audit
  BY <1>5 DEF StoreClose, Observe
<1>6. ASSUME NEW k \in Kind, Fill(k) \/ Drop(k)
      PROVE  UNCHANGED audit
  BY <1>6 DEF Fill, Drop
<1>7. PlaceClose \/ MatchClose \/ RecordClose \/ CompleteClose => UNCHANGED audit
  BY DEF PlaceClose, MatchClose, RecordClose, CompleteClose
<1>8. UNCHANGED vars => UNCHANGED audit
  BY DEF vars
<1> QED
  BY <1>0, <1>1, <1>2, <1>3, <1>4, <1>5, <1>6, <1>7, <1>8 DEF Next, Reconcile

(* A verified look: what it adds to the audit, and where it goes on.       *)
LEMMA LookEffect ==
    ASSUME TypeOK, AuditProgresses, NEW a \in Auditor, Look(a), ~Publish(a)
    PROVE  LET r == Current(a)
               e == [status |-> order[r].status, executed |-> audit[a].fills[r]]
           IN  /\ r \in Role
               /\ Verifies(r, order[r], audit[a].fills[r], audit[a].trade)
               /\ audit[a].step = "look"
               /\ audit'[a].evidence = [audit[a].evidence EXCEPT ![r] = e]
               /\ audit'[a].trade.by = audit[a].trade.by
               /\ audit'[a].step = IF Last(a) THEN "persist" ELSE "look"
               /\ audit'[a].at = IF Last(a) THEN 1 ELSE audit[a].at + 1
               /\ \A b \in Auditor \ {a} : audit'[b] = audit[b]
<1> DEFINE r == Current(a)
           e == [status |-> order[r].status, executed |-> audit[a].fills[r]]
<1>1. r \in Role
  BY CurrentRole
<1>2. audit \in [Auditor -> AuditState]
  BY DEF TypeOK, AuditState
<1>3. Closing(audit[a].trade).by = audit[a].trade.by
  BY DEF Closing, NoAudit
<1>4. Verifies(r, order[r], audit[a].fills[r], audit[a].trade) /\ audit[a].step = "look"
  BY DEF Look, At
<1>5. audit' = [audit EXCEPT
                 ![a].evidence[r] = e,
                 ![a].trade = IF Last(a) THEN Closing(@) ELSE @,
                 ![a].at = IF Last(a) THEN 1 ELSE @ + 1,
                 ![a].step = IF Last(a) THEN "persist" ELSE "look"]
  BY DEF Look
<1> HIDE DEF r, e
<1>6. /\ audit'[a].evidence = [audit[a].evidence EXCEPT ![r] = e]
      /\ audit'[a].trade.by = audit[a].trade.by
      /\ audit'[a].step = IF Last(a) THEN "persist" ELSE "look"
      /\ audit'[a].at = IF Last(a) THEN 1 ELSE audit[a].at + 1
      /\ \A b \in Auditor \ {a} : audit'[b] = audit[b]
  BY <1>2, <1>3, <1>5 DEF AuditState
<1> QED
  BY <1>1, <1>4, <1>6 DEF r, e

(* A written record: the evidence was acceptable to the row it replaces.   *)
LEMMA PersistEffect ==
    ASSUME TypeOK, AuditProgresses, NEW a \in Auditor, Persist(a), row' # row \/ fills' # fills
    PROVE  LET r == Current(a)
               e == audit[a].evidence[r]
           IN  /\ r \in Role
               /\ r \notin Kind => audit[a].trade.by = "MANUAL"
               /\ e # NoEvidence
               /\ Accepted(row[r], e)
               /\ row' = [row EXCEPT ![r] = Canonical(row[r], e)]
               /\ fills' = Recorded(r, e)
<1> DEFINE r == Current(a)
           e == audit[a].evidence[r]
<1>1. r \in Role /\ (r \notin Kind => audit[a].trade.by = "MANUAL")
  BY CurrentRole
<1>2. e # NoEvidence
  BY DEF Persist, At, AuditProgresses, OnItsWay, Current
<1>3. Accepted(row[r], e) /\ row' = [row EXCEPT ![r] = Canonical(@, e)]
      /\ fills' = Recorded(r, e)
  BY DEF Persist
<1> QED
  BY <1>1, <1>2, <1>3

(* The audit records and the fill rows keep their types.                   *)
LEMMA RowTypeStep ==
    ASSUME TypeOK, OrdersMatch, AuditProgresses, [Next]_vars
    PROVE  row' \in [Role -> Row] /\ fills' \subseteq Role \X (1 .. Quantity)
<1>1. CASE UNCHANGED <<row, fills>>
  BY <1>1 DEF TypeOK
<1>2. CASE RecordClose
  <2>1. PICK p \in Told :
          row' = [row EXCEPT !["MANUAL_CLOSE"] = [form |-> "LEGACY",
                               status |-> p.status, executed |-> p.filled]]
    BY <1>2 DEF RecordClose
  <2>2. p \in Order
    BY AuditAssumption DEF Told, TypeOK, Order, Role, Live
  <2> QED
    BY <1>2, <2>1, <2>2 DEF RecordClose, TypeOK, Row, Order
<1>3. ASSUME NEW a \in Auditor, Persist(a), ~UNCHANGED <<row, fills>>
      PROVE  row' \in [Role -> Row] /\ fills' \subseteq Role \X (1 .. Quantity)
  <2> DEFINE r == Current(a)
             e == audit[a].evidence[r]
  <2>1. /\ r \in Role /\ row' = [row EXCEPT ![r] = Canonical(row[r], e)]
        /\ fills' = Recorded(r, e)
    BY <1>3, PersistEffect
  <2>2. e \in Evidence
    BY <2>1 DEF TypeOK
  <2> HIDE DEF r, e
  <2>3. Canonical(row[r], e) \in Row
    BY <2>2 DEF Canonical, Row, Evidence
  <2>4. Recorded(r, e) \subseteq Role \X (1 .. Quantity)
    BY <2>1, <2>2, AuditAssumption DEF Recorded, Evidence, TypeOK
  <2> QED
    BY <2>1, <2>3, <2>4 DEF TypeOK
<1>4. ASSUME NEW a \in Auditor,
             StoreClose(a) \/ Observe(a) \/ Restart(a)
               \/ Begin(a) \/ Look(a) \/ Unverified(a)
      PROVE  UNCHANGED <<row, fills>>
  BY <1>4 DEF StoreClose, Observe, Restart, Begin, Look, Unverified, database
<1>5. ASSUME NEW k \in Kind, Fill(k) \/ Drop(k)
      PROVE  UNCHANGED <<row, fills>>
  BY <1>5 DEF Fill, Drop, database
<1>6. PlaceClose \/ MatchClose \/ CompleteClose => UNCHANGED <<row, fills>>
  BY DEF PlaceClose, MatchClose, CompleteClose, database
<1>7. UNCHANGED vars => UNCHANGED <<row, fills>>
  BY DEF vars, database
<1> QED
  BY <1>1, <1>2, <1>3, <1>4, <1>5, <1>6, <1>7 DEF Next, Reconcile

LEMMA TypeStep ==
    ASSUME TypeOK, OrdersMatch, AuditProgresses, [Next]_vars
    PROVE  TypeOK'
  BY OrdersStep, TradeTypeStep, AuditTypeStep, RowTypeStep DEF TypeOK, AuditState

-----------------------------------------------------------------------------
(* The inductive invariant, part by part.                                  *)

(* The audit of an instance is another only by its own steps.              *)
LEMMA AuditChanges ==
    ASSUME [Next]_vars
    PROVE  \/ UNCHANGED audit
           \/ \E a \in Auditor : \/ Restart(a) \/ Begin(a) \/ Look(a)
                                 \/ Persist(a) \/ Unverified(a)
<1>1. UNCHANGED vars => UNCHANGED audit
  BY DEF vars
<1>2. ASSUME NEW k \in Kind, Fill(k) \/ Drop(k)
      PROVE  UNCHANGED audit
  BY <1>2 DEF Fill, Drop
<1>3. PlaceClose \/ MatchClose \/ RecordClose \/ CompleteClose => UNCHANGED audit
  BY DEF PlaceClose, MatchClose, RecordClose, CompleteClose
<1>4. ASSUME NEW a \in Auditor, StoreClose(a) \/ Observe(a)
      PROVE  UNCHANGED audit
  BY <1>4 DEF StoreClose, Observe
<1> QED
  BY <1>1, <1>2, <1>3, <1>4 DEF Next, Reconcile

(* The records are written by the close route and by the audits.           *)
LEMMA RowChanges ==
    ASSUME [Next]_vars
    PROVE  \/ UNCHANGED <<row, fills>>
           \/ RecordClose
           \/ \E a \in Auditor : Persist(a)
<1>1. UNCHANGED vars => UNCHANGED <<row, fills>>
  BY DEF vars, database
<1>2. ASSUME NEW k \in Kind, Fill(k) \/ Drop(k)
      PROVE  UNCHANGED <<row, fills>>
  BY <1>2 DEF Fill, Drop, database
<1>3. PlaceClose \/ MatchClose \/ CompleteClose => UNCHANGED <<row, fills>>
  BY DEF PlaceClose, MatchClose, CompleteClose, database
<1>4. ASSUME NEW a \in Auditor,
             StoreClose(a) \/ Observe(a) \/ Restart(a)
               \/ Begin(a) \/ Look(a) \/ Unverified(a)
      PROVE  UNCHANGED <<row, fills>>
  BY <1>4 DEF StoreClose, Observe, Restart, Begin, Look, Unverified, database
<1> QED
  BY <1>1, <1>2, <1>3, <1>4 DEF Next, Reconcile

(* "Closed by hand" spreads only from a completed close.                   *)
LEMMA CloseIsProvedStep ==
    ASSUME TypeOK, OrdersMatch, CloseIsProved, AuditProgresses, [Next]_vars
    PROVE  CloseIsProved'
<1>0. CompleteClose \/ UNCHANGED completed
  <2>1. ASSUME NEW k \in Kind, Fill(k) \/ Drop(k)
        PROVE  UNCHANGED completed
    BY <2>1 DEF Fill, Drop, database
  <2>2. PlaceClose \/ MatchClose \/ RecordClose => UNCHANGED completed
    BY DEF PlaceClose, MatchClose, RecordClose, database
  <2>3. ASSUME NEW a \in Auditor,
               StoreClose(a) \/ Observe(a) \/ Restart(a) \/ Reconcile(a)
        PROVE  UNCHANGED completed
    BY <2>3 DEF StoreClose, Observe, Restart, Reconcile, Begin, Look, Persist,
                Unverified, database
  <2>4. UNCHANGED vars => UNCHANGED completed
    BY DEF vars, database
  <2> QED
    BY <2>1, <2>2, <2>3, <2>4 DEF Next
<1>1. completed => completed'
  BY <1>0 DEF CompleteClose
<1>2. completed' => order'["MANUAL_CLOSE"] = [status |-> "FILLED", filled |-> Quantity]
  <2>1. CASE completed
    BY <2>1, OrderGrows DEF CloseIsProved, Role, Ended
  <2>2. CASE CompleteClose
    BY <2>2 DEF CompleteClose, exchange
  <2> QED
    BY <1>0, <2>1, <2>2
<1>3. /\ trade'.by = "MANUAL" => completed'
      /\ \A a \in Auditor : memory'[a].by = "MANUAL" => completed'
  <2>1. ASSUME NEW a \in Auditor, StoreClose(a)
        PROVE  completed
    BY <2>1 DEF StoreClose
  <2>2. ASSUME NEW a \in Auditor, Observe(a)
        PROVE  /\ trade'.by = "MANUAL" => trade.by = "MANUAL"
               /\ memory' = [memory EXCEPT ![a] = trade']
    BY <2>2 DEF Observe, Kind
  <2>3. ASSUME NEW a \in Auditor, Restart(a)
        PROVE  UNCHANGED trade /\ memory' = [memory EXCEPT ![a] = trade']
    BY <2>3 DEF Restart, database
  <2>4. \/ UNCHANGED <<trade, memory>>
        \/ \E a \in Auditor : StoreClose(a) \/ Observe(a) \/ Restart(a)
    <3>1. ASSUME NEW k \in Kind, Fill(k) \/ Drop(k)
          PROVE  UNCHANGED <<trade, memory>>
      BY <3>1 DEF Fill, Drop, database
    <3>2. PlaceClose \/ MatchClose \/ RecordClose \/ CompleteClose
            => UNCHANGED <<trade, memory>>
      BY DEF PlaceClose, MatchClose, RecordClose, CompleteClose, database
    <3>3. ASSUME NEW a \in Auditor, Reconcile(a)
          PROVE  UNCHANGED <<trade, memory>>
      BY <3>3 DEF Reconcile, Begin, Look, Persist, Unverified, database
    <3>4. UNCHANGED vars => UNCHANGED <<trade, memory>>
      BY DEF vars, database
    <3> QED
      BY <3>1, <3>2, <3>3, <3>4 DEF Next
  <2> QED
    BY <1>1, <2>1, <2>2, <2>3, <2>4 DEF CloseIsProved, TypeOK
<1>4. \A b \in Auditor : audit'[b].trade.by = "MANUAL" => completed'
  <2>1. ASSUME NEW a \in Auditor, Publish(a)
        PROVE  \A b \in Auditor : audit'[b].trade.by = "MANUAL" => completed'
    BY <1>1, <2>1 DEF Publish, NoAudit, CloseIsProved, TypeOK
  <2>2. ASSUME NEW a \in Auditor, Begin(a)
        PROVE  \A b \in Auditor : audit'[b].trade.by = "MANUAL" => completed'
    BY <1>1, <2>2 DEF Begin, CloseIsProved, TypeOK
  <2>3. ASSUME NEW a \in Auditor, Look(a), ~Publish(a)
        PROVE  \A b \in Auditor : audit'[b].trade.by = "MANUAL" => completed'
    <3>1. audit'[a].trade.by = audit[a].trade.by
      BY <2>3, LookEffect
    <3>2. \A b \in Auditor \ {a} : audit'[b] = audit[b]
      BY <2>3, LookEffect
    <3> QED
      BY <1>1, <3>1, <3>2 DEF CloseIsProved
  <2>4. ASSUME NEW a \in Auditor, Persist(a), ~Publish(a)
        PROVE  \A b \in Auditor : audit'[b].trade.by = "MANUAL" => completed'
    BY <1>1, <2>4 DEF Persist, CloseIsProved, TypeOK
  <2>5. ASSUME NEW a \in Auditor, Restart(a) \/ Unverified(a)
        PROVE  Publish(a)
    BY <2>5 DEF Restart, Unverified, Publish
  <2>6. UNCHANGED audit =>
          \A b \in Auditor : audit'[b].trade.by = "MANUAL" => completed'
    BY <1>1 DEF CloseIsProved
  <2> QED
    BY <2>1, <2>2, <2>3, <2>4, <2>5, <2>6, AuditChanges
<1>5. row'["MANUAL_CLOSE"].form = "CANONICAL" => completed'
  <2>1. CASE UNCHANGED <<row, fills>>
    BY <1>1, <2>1 DEF CloseIsProved
  <2>2. CASE RecordClose
    BY <2>2 DEF RecordClose, TypeOK, Role
  <2>3. ASSUME NEW a \in Auditor, Persist(a), ~UNCHANGED <<row, fills>>
        PROVE  row'["MANUAL_CLOSE"].form = "CANONICAL" => completed'
    <3>1. /\ Current(a) \in Role
          /\ Current(a) \notin Kind => audit[a].trade.by = "MANUAL"
          /\ \A r \in Role : r # Current(a) => row'[r] = row[r]
      BY <2>3, PersistEffect DEF TypeOK
    <3>2. "MANUAL_CLOSE" \notin Kind /\ "MANUAL_CLOSE" \in Role
      BY DEF Kind, Role
    <3> QED
      BY <1>1, <3>1, <3>2 DEF CloseIsProved
  <2> QED
    BY <2>1, <2>2, <2>3, RowChanges
<1> QED
  BY <1>2, <1>3, <1>4, <1>5 DEF CloseIsProved

(* What was true of an order when it was verified is true for ever.        *)
LEMMA TruthfulStays ==
    ASSUME TypeOK, OrdersMatch, [Next]_vars,
           NEW r \in Role, NEW e, e.executed \in Nat, Truthful(r, e)
    PROVE  Truthful(r, e)'
<1>1. /\ order'[r].filled >= order[r].filled
      /\ order[r].status \in Ended => order'[r] = order[r]
  BY OrderGrows
<1>2. order[r].filled \in Nat /\ order'[r].filled \in Nat
  BY OrdersStep, AuditAssumption DEF TypeOK, Order
<1> QED
  BY <1>1, <1>2 DEF Truthful

LEMMA EvidenceIsSoundStep ==
    ASSUME TypeOK, OrdersMatch, CloseIsProved, EvidenceIsSound, AuditProgresses,
           [Next]_vars
    PROVE  EvidenceIsSound'
<1>0. EvidenceIsSound' <=>
        \A b \in Auditor, r \in Role : SoundEvidence(r, audit[b].evidence[r])'
  BY DEF EvidenceIsSound
<1>1. ASSUME NEW b \in Auditor, NEW r \in Role,
             audit'[b].evidence[r] = audit[b].evidence[r]
      PROVE  SoundEvidence(r, audit[b].evidence[r])'
  <2>1. PICK e : e = audit[b].evidence[r]
    OBVIOUS
  <2>2. SoundEvidence(r, e)
    BY <2>1 DEF EvidenceIsSound
  <2>3. e.executed \in Nat
    BY <2>1, AuditAssumption DEF TypeOK, Evidence
  <2>4. SoundEvidence(r, e)'
    BY <2>2, <2>3, TruthfulStays DEF SoundEvidence
  <2> QED
    BY <1>1, <2>1, <2>4
<1>2. ASSUME NEW b \in Auditor, audit'[b] = NoAudit, NEW r \in Role
      PROVE  SoundEvidence(r, audit[b].evidence[r])'
  <2>1. audit'[b].evidence[r] = NoEvidence
    BY <1>2 DEF NoAudit
  <2> QED
    BY <2>1 DEF SoundEvidence
<1>3. ASSUME NEW a \in Auditor, Look(a), ~Publish(a), NEW b \in Auditor, NEW r \in Role
      PROVE  SoundEvidence(r, audit[b].evidence[r])'
  <2>1. CASE b # a
    BY <1>1, <1>3, <2>1, LookEffect
  <2>2. CASE b = a /\ r # Current(a)
    <3>1. audit'[a].evidence[r] = audit[a].evidence[r]
      BY ZenonT(40), <1>3, <2>2, LookEffect DEF TypeOK
    <3> QED
      BY <1>1, <2>2, <3>1
  <2>3. CASE b = a /\ r = Current(a)
    <3>1. PICK e : e = [status |-> order[r].status, executed |-> audit[a].fills[r]]
      OBVIOUS
    <3>2. /\ Verifies(r, order[r], audit[a].fills[r], audit[a].trade)
          /\ audit'[b].evidence[r] = e
      BY ZenonT(40), <1>3, <2>3, <3>1, LookEffect DEF TypeOK
    <3>3. /\ EconomicsValid(r, e.status, e.executed)
          /\ e.executed = order[r].filled /\ e.status = order[r].status
      BY <3>1, <3>2 DEF Verifies, Explained
    <3>4. order[r].filled \in Nat
      BY AuditAssumption DEF TypeOK, Order
    <3>5. Truthful(r, e)
      BY <3>3, <3>4 DEF Truthful
    <3>6. Truthful(r, e)'
      BY <3>3, <3>4, <3>5, TruthfulStays
    <3>7. e.status # "NONE"
      <4>1. CASE r \in Kind
        BY <3>3, <4>1 DEF OrdersMatch
      <4>2. CASE r \notin Kind
        BY <2>3, <3>3, <4>2, CurrentRole DEF CloseIsProved, Role
      <4> QED
        BY <4>1, <4>2
    <3>8. SoundEvidence(r, e)'
      BY <3>3, <3>6, <3>7 DEF SoundEvidence
    <3> QED
      BY <3>2, <3>8
  <2> QED
    BY <2>1, <2>2, <2>3
<1>4. ASSUME NEW a \in Auditor, Publish(a), NEW b \in Auditor, NEW r \in Role
      PROVE  SoundEvidence(r, audit[b].evidence[r])'
  <2>1. CASE b = a
    BY <1>2, <1>4, <2>1 DEF Publish, TypeOK
  <2>2. CASE b # a
    <3>1. audit'[b] = audit[b]
      BY <1>4, <2>2 DEF Publish, TypeOK
    <3> QED
      BY <1>1, <3>1
  <2> QED
    BY <2>1, <2>2
<1>5. ASSUME NEW a \in Auditor, Begin(a) \/ (Persist(a) /\ ~Publish(a)),
             NEW b \in Auditor, NEW r \in Role
      PROVE  SoundEvidence(r, audit[b].evidence[r])'
  <2>1. CASE Begin(a)
    <3>1. audit'[b].evidence = audit[b].evidence
      BY <2>1 DEF Begin, TypeOK
    <3> QED
      BY <1>1, <3>1
  <2>2. CASE Persist(a) /\ ~Publish(a)
    <3>1. audit'[b].evidence = audit[b].evidence
      BY SMTT(40), <2>2 DEF Persist, TypeOK
    <3> QED
      BY <1>1, <3>1
  <2> QED
    BY <1>5, <2>1, <2>2
<1>6. ASSUME NEW a \in Auditor, Restart(a) \/ Unverified(a)
      PROVE  Publish(a)
  BY <1>6 DEF Restart, Unverified, Publish
<1>7. ASSUME UNCHANGED audit, NEW b \in Auditor, NEW r \in Role
      PROVE  SoundEvidence(r, audit[b].evidence[r])'
  BY <1>1, <1>7
<1> QED
  BY <1>0, <1>3, <1>4, <1>5, <1>6, <1>7, AuditChanges

(* The place of one audit among the orders it asks for.                    *)
LEMMA AuditProgressesStep ==
    ASSUME TypeOK, OrdersMatch, CloseIsProved, EvidenceIsSound, AuditProgresses,
           [Next]_vars
    PROVE  AuditProgresses'
<1>0. AuditProgresses' <=> \A b \in Auditor : OnItsWay(audit[b])'
  BY DEF AuditProgresses
<1>1. ASSUME NEW b \in Auditor, audit'[b] = audit[b]
      PROVE  OnItsWay(audit[b])'
  BY <1>1 DEF AuditProgresses
<1>2. OnItsWay(NoAudit)
  <2>1. NoAudit.at = 1 /\ NoAudit.step = "idle" /\ NoAudit.trade.by = "NONE"
    BY DEF NoAudit
  <2>2. Len(Expected(NoAudit.trade)) = 2
    BY <2>1, ExpectedShape
  <2> QED
    BY <2>1, <2>2 DEF OnItsWay
<1>3. ASSUME NEW a \in Auditor, Publish(a), NEW b \in Auditor
      PROVE  OnItsWay(audit[b])'
  BY <1>1, <1>2, <1>3 DEF Publish, TypeOK
<1>4. ASSUME NEW a \in Auditor, Begin(a), NEW b \in Auditor
      PROVE  OnItsWay(audit[b])'
  <2>1. /\ audit[a].step = "idle"
        /\ audit'[a].at = audit[a].at /\ audit'[a].step = "look"
        /\ \A c \in Auditor \ {a} : audit'[c] = audit[c]
    BY <1>4 DEF Begin, At, TypeOK
  <2>2. audit[a].at = 1
    BY <2>1 DEF AuditProgresses, OnItsWay
  <2>3. PICK x : x = audit'[a]
    OBVIOUS
  <2>4. Len(Expected(x.trade)) \in {2, 3}
    BY ExpectedShape
  <2>5. x.at = 1 /\ x.step = "look"
    BY <2>1, <2>2, <2>3
  <2>6. OnItsWay(x)
    BY <2>4, <2>5 DEF OnItsWay
  <2>7. OnItsWay(audit'[a])
    BY <2>3, <2>6
  <2> QED
    BY <1>1, <2>1, <2>7
<1>5. ASSUME NEW a \in Auditor, Look(a), ~Publish(a), NEW b \in Auditor
      PROVE  OnItsWay(audit[b])'
  <2> DEFINE seq == Expected(audit[a].trade)
             r == Current(a)
  <2>1. /\ audit[a].step = "look"
        /\ audit'[a].evidence
             = [audit[a].evidence EXCEPT ![r] = [status |-> order[r].status,
                                                 executed |-> audit[a].fills[r]]]
        /\ audit'[a].trade.by = audit[a].trade.by
        /\ audit'[a].step = IF Last(a) THEN "persist" ELSE "look"
        /\ audit'[a].at = IF Last(a) THEN 1 ELSE audit[a].at + 1
        /\ \A c \in Auditor \ {a} : audit'[c] = audit[c]
    BY <1>5, LookEffect
  <2>2. Expected(audit'[a].trade) = seq
    BY <2>1 DEF Expected
  <2>3. Len(seq) \in {2, 3}
    BY ExpectedShape
  <2>4. order[r].status # "NONE"
    BY CurrentRole DEF OrdersMatch, CloseIsProved, Role
  <2>5. audit'[a].evidence[r] # NoEvidence
    BY <2>1, <2>4, CurrentRole DEF NoEvidence, TypeOK
  <2>6. \A q \in Role : audit[a].evidence[q] # NoEvidence
                          => audit'[a].evidence[q] # NoEvidence
    BY <2>1, <2>5 DEF TypeOK
  <2>7. \A j \in 1 .. Len(seq) : seq[j] \in Role
    BY ExpectedShape, <2>3 DEF Role, Kind
  <2>8. r = seq[audit[a].at] /\ (Last(a) <=> audit[a].at = Len(seq))
    BY DEF Current, Last
  <2>9. /\ audit[a].at \in 1 .. Len(seq)
        /\ \A j \in 1 .. Len(seq) : j < audit[a].at => audit[a].evidence[seq[j]] # NoEvidence
    BY <2>1 DEF AuditProgresses, OnItsWay
  <2>10. \A j \in 1 .. Len(seq) : j <= audit[a].at => audit'[a].evidence[seq[j]] # NoEvidence
    <3> HIDE DEF seq, r
    <3> QED
      BY <2>3, <2>5, <2>6, <2>7, <2>8, <2>9
  <2>11. OnItsWay(audit'[a])
    <3> HIDE DEF seq, r
    <3>1. PICK x, n : x = audit'[a] /\ n = audit[a].at
      OBVIOUS
    <3>2. /\ Expected(x.trade) = seq
          /\ \/ n = Len(seq) /\ x.step = "persist" /\ x.at = 1
             \/ n # Len(seq) /\ x.step = "look" /\ x.at = n + 1
      BY <2>1, <2>2, <2>8, <3>1
    <3>3. /\ n \in 1 .. Len(seq)
          /\ \A j \in 1 .. Len(seq) : j <= n => x.evidence[seq[j]] # NoEvidence
      BY <2>9, <2>10, <3>1
    <3>4. OnItsWay(x)
      BY <2>3, <3>2, <3>3 DEF OnItsWay
    <3> QED
      BY <3>1, <3>4
  <2> QED
    BY <1>1, <2>1, <2>11
<1>6. ASSUME NEW a \in Auditor, Persist(a), ~Publish(a), NEW b \in Auditor
      PROVE  OnItsWay(audit[b])'
  <2>1. /\ audit[a].step = "persist" /\ ~Last(a)
        /\ audit' = [audit EXCEPT ![a].at = @ + 1]
    BY <1>6 DEF Persist, At
  <2>2. /\ audit'[a].step = "persist" /\ audit'[a].at = audit[a].at + 1
        /\ audit'[a].trade = audit[a].trade /\ audit'[a].evidence = audit[a].evidence
        /\ \A c \in Auditor \ {a} : audit'[c] = audit[c]
    BY <2>1 DEF TypeOK
  <2>3. Len(Expected(audit[a].trade)) \in {2, 3}
    BY ExpectedShape
  <2>4. OnItsWay(audit'[a])
    BY <2>1, <2>2, <2>3 DEF OnItsWay, AuditProgresses, Last
  <2> QED
    BY <1>1, <2>2, <2>4
<1>7. ASSUME NEW a \in Auditor, Restart(a) \/ Unverified(a)
      PROVE  Publish(a)
  BY <1>7 DEF Restart, Unverified, Publish
<1>8. ASSUME UNCHANGED audit, NEW b \in Auditor
      PROVE  OnItsWay(audit[b])'
  BY <1>1, <1>8
<1> QED
  BY <1>0, <1>3, <1>4, <1>5, <1>6, <1>7, <1>8, AuditChanges

LEMMA RecordsAreSoundStep ==
    ASSUME TypeOK, OrdersMatch, CloseIsProved, EvidenceIsSound, AuditProgresses,
           RecordsAreSound, [Next]_vars
    PROVE  RecordsAreSound'
<1>0. RecordsAreSound' <=> \A r \in Role : SoundRecord(r, row[r])'
  BY DEF RecordsAreSound
<1>1. ASSUME NEW r \in Role, row'[r] = row[r], FillsOf(r)' = FillsOf(r)
      PROVE  SoundRecord(r, row[r])'
  <2>1. PICK x : x = row[r]
    OBVIOUS
  <2>2. SoundRecord(r, x)
    BY <2>1 DEF RecordsAreSound
  <2>3. x.executed \in Nat
    BY <2>1, AuditAssumption DEF TypeOK, Row
  <2>4. SoundRecord(r, x)'
    BY <1>1, <2>2, <2>3, TruthfulStays DEF SoundRecord
  <2> QED
    BY <1>1, <2>1, <2>4
<1>2. CASE UNCHANGED <<row, fills>>
  BY <1>0, <1>1, <1>2 DEF FillsOf
<1>3. CASE RecordClose
  <2>1. /\ UNCHANGED fills /\ ~completed
        /\ row'["MANUAL_CLOSE"].form = "LEGACY"
        /\ \A r \in Role \ {"MANUAL_CLOSE"} : row'[r] = row[r]
    BY <1>3 DEF RecordClose, TypeOK, Role
  <2>2. FillsOf("MANUAL_CLOSE") = {}
    BY <2>1 DEF CloseIsProved, RecordsAreSound, SoundRecord, Role
  <2>3. SoundRecord("MANUAL_CLOSE", row["MANUAL_CLOSE"])'
    BY <2>1, <2>2 DEF SoundRecord, FillsOf
  <2> QED
    BY <1>0, <1>1, <2>1, <2>3 DEF FillsOf
<1>4. ASSUME NEW a \in Auditor, Persist(a), ~UNCHANGED <<row, fills>>
      PROVE  RecordsAreSound'
  <2>1. PICK r, e : r = Current(a) /\ e = audit[a].evidence[r]
    OBVIOUS
  <2>2. /\ r \in Role /\ e # NoEvidence
        /\ Accepted(row[r], e)
        /\ row' = [row EXCEPT ![r] = Canonical(row[r], e)]
        /\ fills' = Recorded(r, e)
    BY <1>4, <2>1, PersistEffect
  <2>3. e \in Evidence /\ SoundEvidence(r, e)
    BY <2>1, <2>2 DEF TypeOK, EvidenceIsSound
  <2>4. e.executed \in Nat
    BY <2>3, AuditAssumption DEF Evidence
  <2>5. /\ row'[r] = [form |-> "CANONICAL", status |-> e.status, executed |-> e.executed]
        /\ \A q \in Role \ {r} : row'[q] = row[q]
    BY <2>2 DEF Canonical, TypeOK
  <2>6. \A q \in Role \ {r} : FillsOf(q)' = FillsOf(q)
    BY <2>2 DEF FillsOf, Recorded
  <2>7. FillsOf(r)' = {<<r, n>> : n \in 1 .. e.executed}
    <3>1. FillsOf(r) \subseteq {<<r, n>> : n \in 1 .. e.executed}
      <4>1. CASE row[r].form = "CANONICAL"
        <5>1. e.executed >= row[r].executed /\ row[r].executed \in Nat
          BY <2>2, <4>1, AuditAssumption DEF Accepted, Progresses, TypeOK, Row
        <5>2. FillsOf(r) = {<<r, n>> : n \in 1 .. row[r].executed}
          BY <2>2, <4>1 DEF RecordsAreSound, SoundRecord
        <5> QED
          BY <2>4, <5>1, <5>2
      <4>2. CASE row[r].form # "CANONICAL"
        BY <2>2, <4>2 DEF RecordsAreSound, SoundRecord
      <4> QED
        BY <4>1, <4>2
    <3> QED
      BY <2>2, <3>1 DEF FillsOf, Recorded
  <2>8. Truthful(r, e)' /\ EconomicsValid(r, e.status, e.executed) /\ e.status # "NONE"
    BY <2>2, <2>3, <2>4, TruthfulStays DEF SoundEvidence
  <2>9. SoundRecord(r, row[r])'
    BY <2>5, <2>7, <2>8 DEF SoundRecord, Truthful
  <2> QED
    BY <1>0, <1>1, <2>2, <2>5, <2>6, <2>9
<1> QED
  BY <1>2, <1>3, <1>4, RowChanges

LEMMA InvariantInit == Init => IInv
<1> SUFFICES ASSUME Init PROVE IInv
  OBVIOUS
<1> USE AuditAssumption, Siblings
<1>1. /\ position \in 0 .. Quantity /\ completed \in BOOLEAN
      /\ order \in [Role -> Order] /\ row \in [Role -> Row]
      /\ fills \subseteq Role \X (1 .. Quantity)
  <2>1. order \in [Role -> Order]
    BY DEF Init, Order, Live
  <2>2. row \in [Role -> Row]
    BY DEF Init, Row, Live
  <2>3. position \in 0 .. Quantity
    BY DEF Init
  <2>4. completed \in BOOLEAN /\ fills \subseteq Role \X (1 .. Quantity)
    BY DEF Init
  <2> QED
    BY <2>1, <2>2, <2>3, <2>4
<1>2. trade \in Trade /\ memory \in [Auditor -> Trade]
  BY DEF Init, NoAudit, Trade
<1>3. audit \in [Auditor -> AuditState]
  BY NoAuditType DEF Init
<1>4. TypeOK
  BY <1>1, <1>2, <1>3 DEF TypeOK, AuditState
<1>5. OrdersMatch
  BY DEF Init, OrdersMatch, Role, Kind
<1>6. CloseIsProved
  BY DEF Init, CloseIsProved, NoAudit, Role, Kind
<1>7. EvidenceIsSound
  BY DEF Init, EvidenceIsSound, SoundEvidence, NoAudit
<1>8. AuditProgresses
  <2>1. NoAudit.at = 1 /\ NoAudit.step = "idle"
    BY DEF NoAudit
  <2>2. Len(Expected(NoAudit.trade)) \in {2, 3}
    BY ExpectedShape
  <2>3. OnItsWay(NoAudit)
    BY SMTT(30), <2>1, <2>2 DEF OnItsWay
  <2> QED
    BY <2>3 DEF Init, AuditProgresses
<1>9. RecordsAreSound
  BY DEF Init, RecordsAreSound, SoundRecord, FillsOf, Role, Kind
<1> QED
  BY <1>4, <1>5, <1>6, <1>7, <1>8, <1>9 DEF IInv

LEMMA InvariantStep == IInv /\ [Next]_vars => IInv'
  BY TypeStep, OrdersStep, CloseIsProvedStep, EvidenceIsSoundStep, AuditProgressesStep,
     RecordsAreSoundStep DEF IInv

(* The inductive invariant of the audit.                                   *)
THEOREM AuditInvariant == Spec => []IInv
<1> QED
  BY InvariantInit, InvariantStep, PTL DEF Spec

-----------------------------------------------------------------------------
(* The properties.                                                         *)

(* An audit record never claims more than the exchange executed, and a     *)
(* terminal one is final on the exchange too, however many audits overlap  *)
(* and however old the evidence is that they write.                        *)
THEOREM AuditRecordsAreTrue == Spec => []AuditedIsTrue
<1>1. IInv => AuditedIsTrue
  BY DEF IInv, RecordsAreSound, SoundRecord, Truthful, AuditedIsTrue
<1> QED
  BY <1>1, AuditInvariant, PTL

(* Every audit record can be read back, and the fill rows of its order are *)
(* exactly those it counts.                                                *)
THEOREM AuditRecordsAreReadable == Spec => []RecordsAreReadable
<1>1. IInv => RecordsAreReadable
  BY DEF IInv, RecordsAreSound, SoundRecord, FillsOf, RecordsAreReadable, Readable
<1> QED
  BY <1>1, AuditInvariant, PTL

(* No sequence of audits ends where the truth is refused: whatever was     *)
(* recorded, what the exchange says now is accepted, and an instance that  *)
(* observed the exit verifies it.                                          *)
THEOREM TruthStaysRecordable == Spec => []TruthIsAccepted
<1>1. ASSUME IInv, NEW k \in Kind
      PROVE  Accepted(row[k], [status |-> order[k].status, executed |-> order[k].filled])
  <2>1. CASE row[k].form = "CANONICAL"
    <3>1. /\ row[k].status # "NONE" /\ Truthful(k, row[k])
          /\ EconomicsValid(k, row[k].status, row[k].executed)
          /\ row[k].status \in {"NONE"} \cup Live \cup Ended
          /\ row[k].executed \in Nat /\ order[k].filled \in Nat
      BY <1>1, <2>1, AuditAssumption
      DEF IInv, RecordsAreSound, SoundRecord, TypeOK, Row, Order, Role
    <3>2. order[k].filled >= row[k].executed
      BY <3>1 DEF Truthful
    <3>3. StatusMayBecome(row[k].status, order[k].status)
      <4>1. CASE row[k].status \in Ended
        BY <3>1, <4>1 DEF Truthful, StatusMayBecome
      <4>2. CASE row[k].status = "PARTIALLY_FILLED"
        BY <1>1, <3>1, <3>2, <4>2, AuditAssumption
        DEF IInv, OrdersMatch, EconomicsValid, StatusMayBecome, Ended
      <4> QED
        BY <3>1, <4>1, <4>2 DEF Live, StatusMayBecome
    <3> QED
      BY <3>2, <3>3 DEF Accepted, Progresses
  <2> QED
    BY <2>1 DEF Accepted
<1>2. ASSUME IInv, NEW k \in Kind, NEW a \in Auditor, Informed(a)
      PROVE  Verifies(k, order[k], order[k].filled, memory[a])
  <2> USE AuditAssumption
  <2>1. RequestAgrees(k, memory[a]) /\ Explained(order[k], order[k].filled)
    BY DEF RequestAgrees, Explained, Kind
  <2>2. EconomicsValid(k, order[k].status, order[k].filled)
    BY <1>2 DEF IInv, OrdersMatch, EconomicsValid
  <2>3. ExitRecorded(k, order[k].status, order[k].filled, memory[a])
    <3> SUFFICES ASSUME order[k].status = "FINISHED"
                 PROVE  IF order[k].filled = 0 THEN memory[a].reason = Sibling(k)
                        ELSE memory[a].reason = k /\ memory[a].exited = order[k].filled
      BY DEF ExitRecorded
    <3>1. /\ Sibling(k) \in Kind /\ Sibling(Sibling(k)) = k /\ Sibling(k) # k
      BY Siblings DEF Kind
    <3>2. /\ position \in 0 .. Quantity
          /\ position + order[k].filled + order[Sibling(k)].filled
               + order["MANUAL_CLOSE"].filled = Quantity
          /\ \A r \in Role : order[r].filled \in 0 .. Quantity
      BY <1>2, Siblings DEF IInv, OrdersMatch, TypeOK, Order, Kind, Role
    <3>3. k \in Role /\ Sibling(k) \in Role /\ "MANUAL_CLOSE" \in Role
      BY <3>1 DEF Role
    <3>4. CASE order[k].filled = Quantity
      <4>1. order[Sibling(k)].filled = 0 /\ position = 0
        BY <3>2, <3>3, <3>4
      <4>2. Exit(k)
        BY <3>4, <4>1 DEF Exit
      <4> QED
        BY <1>2, <3>4, <4>2 DEF Informed
    <3>5. CASE order[k].filled = 0 /\ order[Sibling(k)].filled = Quantity
      <4>1. position = 0
        BY <3>2, <3>3, <3>5
      <4>2. order[Sibling(k)].status = "FINISHED"
        BY <1>2, <3>1, <3>5 DEF IInv, OrdersMatch
      <4>3. Exit(Sibling(k))
        BY <3>1, <3>5, <4>1, <4>2 DEF Exit
      <4> QED
        BY <1>2, <3>1, <3>5, <4>3 DEF Informed
    <3> QED
      BY <1>2, <3>4, <3>5 DEF IInv, OrdersMatch
  <2> QED
    BY <2>1, <2>2, <2>3 DEF Verifies
<1>3. IInv => TruthIsAccepted
  BY <1>1, <1>2 DEF TruthIsAccepted
<1> QED
  BY <1>3, AuditInvariant, PTL

-----------------------------------------------------------------------------
(* The refinement.                                                         *)

Abstract == [r \in Role |-> Audited(r)]

LEMMA LedgerStep == IInv /\ [Next]_vars => [Ledger!LedgerNext]_Abstract
<1> SUFFICES ASSUME IInv, [Next]_vars
             PROVE  Ledger!LedgerNext \/ UNCHANGED Abstract
  OBVIOUS
<1> USE AuditAssumption
<1>1. CASE UNCHANGED <<row, fills>>
  BY <1>1 DEF Abstract, Audited
<1>2. CASE RecordClose
  <2>1. row["MANUAL_CLOSE"].form # "CANONICAL"
    BY <1>2 DEF RecordClose, IInv, CloseIsProved
  <2>2. /\ row'["MANUAL_CLOSE"].form = "LEGACY"
        /\ \A r \in Role \ {"MANUAL_CLOSE"} : row'[r] = row[r]
    BY <1>2 DEF RecordClose, IInv, TypeOK, Role
  <2> QED
    BY <2>1, <2>2 DEF Abstract, Audited
<1>3. ASSUME NEW a \in Auditor, Persist(a), ~UNCHANGED <<row, fills>>
      PROVE  Ledger!LedgerNext \/ UNCHANGED Abstract
  <2>1. PICK r, e : r = Current(a) /\ e = audit[a].evidence[r]
    OBVIOUS
  <2>2. /\ r \in Role /\ e # NoEvidence
        /\ Accepted(row[r], e)
        /\ row' = [row EXCEPT ![r] = Canonical(row[r], e)]
    BY <1>3, <2>1, PersistEffect DEF IInv
  <2>3. e \in Evidence /\ SoundEvidence(r, e) /\ row[r] \in Row
    BY <2>1, <2>2 DEF IInv, TypeOK, EvidenceIsSound
  <2>4. /\ row'[r] = [form |-> "CANONICAL", status |-> e.status, executed |-> e.executed]
        /\ \A q \in Role \ {r} : row'[q] = row[q]
    BY <2>2 DEF Canonical, IInv, TypeOK
  <2>5. /\ e.status \in Live \cup Ended /\ e.executed \in 0 .. Quantity
        /\ Truthful(r, e) /\ EconomicsValid(r, e.status, e.executed)
    BY <2>2, <2>3 DEF SoundEvidence, Evidence
  <2>6. /\ Abstract'[r] = [status |-> e.status, executed |-> e.executed]
        /\ Abstract' = [Abstract EXCEPT ![r] = Abstract'[r]]
    <3>1. Abstract'[r] = [status |-> e.status, executed |-> e.executed]
      BY <2>2, <2>4 DEF Abstract, Audited
    <3>2. \A q \in Role \ {r} : Abstract'[q] = Abstract[q]
      BY <2>4 DEF Abstract, Audited
    <3>3. DOMAIN Abstract = Role /\ DOMAIN Abstract' = Role
          /\ Abstract = [q \in Role |-> Abstract[q]]
          /\ Abstract' = [q \in Role |-> Abstract'[q]]
      BY DEF Abstract
    <3> QED
      BY <2>2, <3>1, <3>2, <3>3
  <2>7. Abstract'[r] \in Ledger!Record
    BY <2>5, <2>6 DEF Ledger!Record, Ledger!Status, Ledger!Ended, Live, Ended
  <2>8. CASE row[r].form # "CANONICAL"
    <3>1. Abstract[r] = Ledger!NoRecord
      BY <2>2, <2>8 DEF Abstract, Audited, Ledger!NoRecord
    <3> QED
      BY <2>2, <2>6, <2>7, <3>1 DEF Ledger!LedgerNext, Ledger!Open, Abstract
  <2>9. CASE row[r].form = "CANONICAL"
    <3>1. Abstract[r] = [status |-> row[r].status, executed |-> row[r].executed]
      BY <2>2, <2>9 DEF Abstract, Audited
    <3>2. /\ row[r].status # "NONE" /\ Truthful(r, row[r])
          /\ row[r].status \in {"NONE"} \cup Live \cup Ended
          /\ row[r].executed \in Nat /\ order[r].filled \in Nat
      BY <2>2, <2>3, <2>9 DEF IInv, RecordsAreSound, SoundRecord, TypeOK, Row, Order
    <3>3. e.executed >= row[r].executed /\ StatusMayBecome(row[r].status, e.status)
      BY <2>2, <2>9 DEF Accepted, Progresses
    <3>4. CASE row[r].status \in Ended
      <4>1. e.status = row[r].status
        BY <3>3, <3>4 DEF StatusMayBecome, Ended
      <4>2. e.executed = row[r].executed
        BY <2>5, <3>2, <3>3, <3>4 DEF Truthful
      <4>3. Abstract'[r] = Abstract[r]
        BY <2>6, <3>1, <4>1, <4>2
      <4> QED
        BY <2>6, <4>3 DEF Abstract
    <3>5. CASE row[r].status \notin Ended
      <4>1. Ledger!Advance(r)
        BY <2>6, <2>7, <3>1, <3>2, <3>3, <3>5
        DEF Ledger!Advance, Ledger!Status, Ledger!Ended, Live, Ended, StatusMayBecome,
            Abstract
      <4> QED
        BY <2>2, <2>6, <4>1 DEF Ledger!LedgerNext, Abstract
    <3> QED
      BY <3>4, <3>5
  <2> QED
    BY <2>8, <2>9
<1> QED
  BY <1>1, <1>2, <1>3, RowChanges

(* The audit records of the detailed model implement OrderLedger: every    *)
(* step of an audit, of the close route and of the exchange opens one      *)
(* record, advances one, or leaves the ledger as it is.                    *)
THEOREM AuditImplementsLedger == Spec => ImplementsLedger
<1>1. Init => Ledger!LedgerInit
  BY DEF Init, Ledger!LedgerInit, Ledger!NoRecord, Audited
<1> QED
  BY <1>1, AuditInvariant, LedgerStep, PTL
  DEF Spec, ImplementsLedger, Ledger!LedgerSpec, Abstract
=============================================================================
