----------------------------- MODULE OrderAudit -----------------------------
(***************************************************************************)
(* The order audit: RuntimeOrderAuditService.reconcile() reads the fills   *)
(* and then, one call each, the orders of a trade from the exchange,       *)
(* verifies that they explain one another and writes one audit record per  *)
(* order, each in its own transaction.                                     *)
(*                                                                         *)
(* The reconciliation loop of every instance and both /order-audit routes  *)
(* call it, so several audits of one trade overlap, each working from the  *)
(* trade record its instance has in memory.  Meanwhile the protective      *)
(* orders fill, the trade is closed by hand, and the close route writes    *)
(* the row of its order in the older, unverified form.                     *)
(*                                                                         *)
(* Every order asks for Quantity; the fills of an order have the           *)
(* identities 1, 2, ... in the order of their execution.  Prices, sides    *)
(* and the identities that never change are left out, and so is the entry: *)
(* it is FILLED before there is a trade, so its evidence never changes.    *)
(***************************************************************************)
EXTENDS Integers, Sequences

CONSTANTS
    Auditor,   \* audits that may overlap, each in an instance of its own
    Quantity   \* executed_quantity of the trade

ASSUME AuditAssumption == Quantity \in Nat \ {0}

VARIABLES
    position,  \* what is left of the position on the exchange
    order,     \* the trade's orders on the exchange
    completed, \* the CLOSE intent is COMPLETED
    trade,     \* the trade's row
    memory,    \* the trade in the memory of each instance
    row,       \* the rows of exchange_orders
    fills,     \* the rows of fills that have an exchange trade id
    audit      \* what each audit has read, and its next step

exchange == <<position, order>>
database == <<completed, trade, row, fills>>
vars == <<exchange, database, memory, audit>>

Kind == {"STOP_LOSS", "TAKE_PROFIT"}
Role == Kind \cup {"MANUAL_CLOSE"}
Sibling(k) == CHOOSE s \in Kind : s # k

Live == {"NEW", "PARTIALLY_FILLED"}
Ended == {"FILLED", "FINISHED", "CANCELED", "EXPIRED"}

Order == [status : {"NONE"} \cup Live \cup Ended, filled : 0 .. Quantity]
Trade == [by : {"NONE", "MANUAL"} \cup Kind, reason : {"NONE"} \cup Kind,
          exited : 0 .. Quantity]
Row == [form : {"NONE", "LEGACY", "CANONICAL"},
        status : {"NONE"} \cup Live \cup Ended, executed : 0 .. Quantity]
Evidence == [status : {"NONE"} \cup Live \cup Ended, executed : 0 .. Quantity]

NoEvidence == [status |-> "NONE", executed |-> 0]
NoAudit == [step |-> "idle", at |-> 1,
            trade |-> [by |-> "NONE", reason |-> "NONE", exited |-> 0],
            fills |-> [r \in Role |-> 0], evidence |-> [r \in Role |-> NoEvidence]]

(* The trade was opened: activate() verified the entry, placed both        *)
(* protective orders and wrote a row for each.                             *)
Init ==
    /\ position = Quantity
    /\ order = [r \in Role |->
                  [status |-> IF r \in Kind THEN "NEW" ELSE "NONE", filled |-> 0]]
    /\ completed = FALSE
    /\ trade = NoAudit.trade
    /\ memory = [a \in Auditor |-> NoAudit.trade]
    /\ row = [r \in Role |->
                IF r \in Kind
                THEN [form |-> "LEGACY", status |-> "NEW", executed |-> Quantity]
                ELSE [form |-> "NONE", status |-> "NONE", executed |-> 0]]
    /\ fills = {}
    /\ audit = [a \in Auditor |-> NoAudit]

-----------------------------------------------------------------------------
(* The exchange                                                            *)

Fill(k) ==
    /\ order[k].status \in Live
    /\ position > 0
    /\ position' = position - 1
    /\ order' = [order EXCEPT ![k] =
                   [status |-> IF @.filled + 1 = Quantity THEN "FINISHED"
                                                          ELSE "PARTIALLY_FILLED",
                    filled |-> @.filled + 1]]
    /\ UNCHANGED <<database, memory, audit>>

(* A protective order with nothing left to reduce is cancelled by a        *)
(* request or dropped by the exchange; the unused sibling of a filled one  *)
(* may also be reported as FINISHED.                                       *)
Drop(k) ==
    /\ order[k].status \in Live
    /\ position = 0
    /\ \E s \in {"CANCELED", "FINISHED"} :
         /\ s = "FINISHED" => order[Sibling(k)].filled = Quantity
         /\ order' = [order EXCEPT ![k].status = s]
    /\ UNCHANGED <<position, database, memory, audit>>

(* The close order is accepted, then matched: reduce-only.                 *)
PlaceClose ==
    /\ order["MANUAL_CLOSE"].status = "NONE"
    /\ position > 0
    /\ order' = [order EXCEPT !["MANUAL_CLOSE"].status = "NEW"]
    /\ UNCHANGED <<position, database, memory, audit>>

MatchClose ==
    /\ order["MANUAL_CLOSE"].status = "NEW"
    /\ position' = 0
    /\ order' = [order EXCEPT !["MANUAL_CLOSE"] =
                   [status |-> IF position > 0 THEN "FILLED" ELSE "EXPIRED",
                    filled |-> position]]
    /\ UNCHANGED <<database, memory, audit>>

-----------------------------------------------------------------------------
(* What else writes the trade and the row of the close order.  The steps   *)
(* of these services are in TradeExit; here are their effects on what the  *)
(* audit reads.                                                            *)

(* What a close request may have been told about its order, now or long   *)
(* ago.                                                                    *)
Told ==
    IF order["MANUAL_CLOSE"].status = "NONE" THEN {}
    ELSE {order["MANUAL_CLOSE"], [status |-> "NEW", filled |-> 0]}

(* record_exchange_result() writes it, unless the intent is completed.     *)
RecordClose ==
    /\ ~completed
    /\ \E p \in Told :
         row' = [row EXCEPT !["MANUAL_CLOSE"] = [form |-> "LEGACY",
                              status |-> p.status, executed |-> p.filled]]
    /\ UNCHANGED <<exchange, completed, trade, fills, memory, audit>>

(* complete(): a close that filled the entry quantity was recorded.        *)
CompleteClose ==
    /\ ~completed
    /\ row["MANUAL_CLOSE"].form # "NONE"
    /\ order["MANUAL_CLOSE"] = [status |-> "FILLED", filled |-> Quantity]
    /\ completed' = TRUE
    /\ UNCHANGED <<exchange, trade, row, fills, memory, audit>>

(* store_trade() of the closed trade, in one instance's memory and the row.*)
StoreClose(a) ==
    /\ completed
    /\ memory[a].by # "MANUAL"
    /\ trade' = [trade EXCEPT !.by = "MANUAL"]
    /\ memory' = [memory EXCEPT ![a] = trade']
    /\ UNCHANGED <<exchange, completed, row, fills, audit>>

(* The one protective order that was filled, as _observe() proves it.      *)
Exit(k) ==
    /\ order[k].filled > 0
    /\ order[Sibling(k)].filled = 0
    /\ order[k].status \in {"FINISHED", "PARTIALLY_FILLED"}
    /\ position = Quantity - order[k].filled

(* The executed quantity of the exit, from the order itself.               *)
ExitQuantity(k) == order[k].filled

(* protective.reconcile() of the instance: an exit is written to the trade *)
(* unless it is closed, and the instance keeps what the row says.          *)
Observe(a) ==
    /\ memory[a].by = "NONE"
    /\ \E k \in Kind :
         /\ Exit(k)
         /\ trade' = IF trade.by # "NONE" THEN trade
                     ELSE [by |-> IF order[k].filled = Quantity THEN k ELSE "NONE",
                           reason |-> k, exited |-> ExitQuantity(k)]
    /\ memory' = [memory EXCEPT ![a] = trade']
    /\ UNCHANGED <<exchange, completed, row, fills, audit>>

(* The instance restarts and reads the trade from its row.                 *)
Restart(a) ==
    /\ memory' = [memory EXCEPT ![a] = trade]
    /\ audit' = [audit EXCEPT ![a] = NoAudit]
    /\ UNCHANGED <<exchange, database>>

-----------------------------------------------------------------------------
(* reconcile()                                                             *)

(* The orders _evidence_for_trade() asks for after the entry, in order.    *)
Expected(t) ==
    <<"STOP_LOSS", "TAKE_PROFIT">> \o (IF t.by = "MANUAL" THEN <<"MANUAL_CLOSE">> ELSE <<>>)

At(a, step) == audit[a].step = step
Current(a) == Expected(audit[a].trade)[audit[a].at]
Last(a) == audit[a].at = Len(Expected(audit[a].trade))

(* The report; with a finding it also shuts the recovery gate.             *)
Publish(a) == audit' = [audit EXCEPT ![a] = NoAudit]

(* What persisting still needs of the trade.                               *)
Closing(t) == [NoAudit.trade EXCEPT !.by = t.by]

(* The audit takes the trade from memory and reads user_trades(): the      *)
(* fills come first.                                                       *)
Begin(a) ==
    /\ At(a, "idle")
    /\ audit' = [audit EXCEPT ![a].step = "look", ![a].trade = memory[a],
                              ![a].fills = [r \in Role |->
                   IF r \in Kind \/ memory[a].by = "MANUAL" THEN order[r].filled ELSE 0]]
    /\ UNCHANGED <<exchange, database, memory>>

(* Mutated form of Explained: executedQty is not compared with the fills.  *)
ExplainedByFills(payload, n) == TRUE

(* _execution_economics(): the order's executedQty is the sum of its fills.*)
Explained(payload, n) == payload.filled = n

(* _requested_quantity(): the close was placed for the whole entry.        *)
RequestAgrees(r, t) == r = "MANUAL_CLOSE" => t.exited = 0

(* _validate_economics() without the trade: status and quantity agree.     *)
EconomicsValid(r, status, n) ==
    /\ status = "NEW" => n = 0
    /\ status = "PARTIALLY_FILLED" => n \in 1 .. Quantity - 1
    /\ status = "FILLED" => n = Quantity
    /\ status = "FINISHED" /\ r \notin Kind => n = Quantity

(* ... and with it: a FINISHED protective order is the recorded exit, or   *)
(* the unused sibling of the recorded exit.                                *)
ExitRecorded(r, status, n, t) ==
    status = "FINISHED" /\ r \in Kind =>
        IF n = 0 THEN t.reason = Sibling(r) ELSE t.reason = r /\ t.exited = n

(* _regular_evidence() and _algo_evidence(): a payload, the fills that     *)
(* were read before it and the trade record explain one another.           *)
Verifies(r, payload, n, t) ==
    /\ RequestAgrees(r, t)
    /\ Explained(payload, n)
    /\ EconomicsValid(r, payload.status, n)
    /\ ExitRecorded(r, payload.status, n, t)

(* query_order() or query_algo_order() and its verification.               *)
Look(a) ==
    LET r == Current(a)
        n == audit[a].fills[r]
        verified == Verifies(r, order[r], n, audit[a].trade)
    IN
    /\ At(a, "look")
    /\ \/ /\ verified
          /\ audit' = [audit EXCEPT
                 ![a].evidence[r] = [status |-> order[r].status, executed |-> n],
                 ![a].trade = IF Last(a) THEN Closing(@) ELSE @,
                 ![a].at = IF Last(a) THEN 1 ELSE @ + 1,
                 ![a].step = IF Last(a) THEN "persist" ELSE "look"]
       \/ ~verified /\ Publish(a)
    /\ UNCHANGED <<exchange, database, memory>>

(* Mutated form of StatusMayBecome: a partial fill can only be completed.  *)
StatusMayBecomeFilled(old, new) ==
    \/ old = new
    \/ old = "NEW"
    \/ old = "PARTIALLY_FILLED" /\ new \in {"FILLED", "FINISHED"}

(* _status_transition_allowed()                                            *)
StatusMayBecome(old, new) ==
    \/ old = new
    \/ old = "NEW"
    \/ old = "PARTIALLY_FILLED" /\ new \in Ended

(* Mutated form of Progresses: the executed quantity is not compared.      *)
ProgressesByStatus(old, e) == StatusMayBecome(old.status, e.status)

(* _validate_progression(): fills have identities 1 .. executed, so none   *)
(* is lost when the quantity does not go back.                             *)
Progresses(old, e) ==
    /\ e.executed >= old.executed
    /\ StatusMayBecome(old.status, e.status)

(* Mutated form of Canonical: an earlier canonical status is kept.         *)
CanonicalKeepingStatus(old, e) ==
    [form |-> "CANONICAL", executed |-> e.executed,
     status |-> IF old.form = "CANONICAL" THEN old.status ELSE e.status]

(* The row as the audit writes it, whatever was there.                     *)
Canonical(old, e) ==
    [form |-> "CANONICAL", status |-> e.status, executed |-> e.executed]

(* _persist_fill() of every fill: known ones are left alone.               *)
Recorded(r, e) == fills \cup {<<r, n>> : n \in 1 .. e.executed}

(* A row in the older form has nothing to progress from.                   *)
Accepted(old, e) == old.form = "CANONICAL" => Progresses(old, e)

(* One transaction of _persist(), with the row locked; the last one ends   *)
(* the audit.                                                              *)
Persist(a) ==
    LET r == Current(a)
        e == audit[a].evidence[r]
    IN
    /\ At(a, "persist")
    /\ \/ /\ Accepted(row[r], e)
          /\ row' = [row EXCEPT ![r] = Canonical(@, e)]
          /\ fills' = Recorded(r, e)
          /\ IF Last(a) THEN Publish(a)
             ELSE audit' = [audit EXCEPT ![a].at = @ + 1]
       \/ /\ ~Accepted(row[r], e)
          /\ Publish(a)
          /\ UNCHANGED <<row, fills>>
    /\ UNCHANGED <<exchange, completed, trade, memory>>

(* A call or a transaction fails: a finding for this trade.                *)
Unverified(a) ==
    /\ audit[a].step # "idle"
    /\ Publish(a)
    /\ UNCHANGED <<exchange, database, memory>>

Reconcile(a) == Begin(a) \/ Look(a) \/ Persist(a) \/ Unverified(a)

Next ==
    \/ \E k \in Kind : Fill(k) \/ Drop(k)
    \/ PlaceClose \/ MatchClose \/ RecordClose \/ CompleteClose
    \/ \E a \in Auditor : StoreClose(a) \/ Observe(a) \/ Restart(a) \/ Reconcile(a)

Spec == Init /\ [][Next]_vars

-----------------------------------------------------------------------------
(* Properties                                                              *)

TypeOK ==
    /\ position \in 0 .. Quantity
    /\ order \in [Role -> Order]
    /\ completed \in BOOLEAN
    /\ trade \in Trade
    /\ memory \in [Auditor -> Trade]
    /\ row \in [Role -> Row]
    /\ fills \subseteq Role \X (1 .. Quantity)
    /\ audit \in [Auditor -> [step : {"idle", "look", "persist"},
                              at : 1 .. 3, trade : Trade,
                              fills : [Role -> 0 .. Quantity],
                              evidence : [Role -> Evidence]]]

(* The instance knows of the exit there was.                               *)
Informed(a) ==
    \A k \in Kind :
        Exit(k) => memory[a].reason = k /\ memory[a].exited = order[k].filled

(* _record() repeats _validate_economics() on the stored status and        *)
(* quantity, without a trade.                                              *)
Readable(r) == EconomicsValid(r, row[r].status, row[r].executed)

(* The audit records as the abstract ledger sees them.                     *)
Audited(r) ==
    IF row[r].form = "CANONICAL"
    THEN [status |-> row[r].status, executed |-> row[r].executed]
    ELSE [status |-> "NONE", executed |-> 0]

Ledger == INSTANCE OrderLedger
            WITH Requested <- Quantity, ledger <- [r \in Role |-> Audited(r)]

(* Overlapping audits that work from older and newer evidence, restarts    *)
(* and the close route's own writes together still write an OrderLedger:   *)
(* no record is lost, goes back or changes after its terminal status       *)
(* (_validate_progression, _persist).                                      *)
ImplementsLedger == Ledger!LedgerSpec

(* An audit record never claims more than the exchange executed, and a     *)
(* terminal one tells the order's whole story, although fills and orders   *)
(* are read at different moments while they change.                        *)
AuditedIsTrue ==
    \A r \in Role : row[r].form = "CANONICAL" =>
        /\ row[r].executed <= order[r].filled
        /\ row[r].status \in Ended => /\ order[r].status = row[r].status
                                      /\ order[r].filled = row[r].executed

(* The record and the fill rows of an order agree, and records() finds the *)
(* record readable.                                                        *)
RecordsAreReadable ==
    \A r \in Role : row[r].form = "CANONICAL" =>
        /\ Readable(r)
        /\ {f \in fills : f[1] = r} = {<<r, n>> : n \in 1 .. row[r].executed}

(* No sequence of audits ends in a dead end: what the exchange says of a   *)
(* protective order now is acceptable to its record, and an instance that  *)
(* has observed the exit verifies it, so that "later exchange status/fill  *)
(* progress can still be recorded".                                        *)
TruthIsAccepted ==
    \A k \in Kind :
        LET truth == [status |-> order[k].status, executed |-> order[k].filled]
        IN /\ Accepted(row[k], truth)
           /\ \A a \in Auditor :
                Informed(a) => Verifies(k, order[k], order[k].filled, memory[a])
=============================================================================
