----------------------------- MODULE OrderLedger ----------------------------
(***************************************************************************)
(* What the order audit promises of its records, whoever writes them and   *)
(* in whatever order: BE-14's "field progression".  A record appears once, *)
(* its executed quantity never goes back and never exceeds the requested   *)
(* one, and nothing about it changes after a terminal status.              *)
(***************************************************************************)
EXTENDS Naturals

CONSTANTS
    Role,      \* the orders of a trade
    Requested  \* the quantity every one of them asked for

VARIABLE ledger  \* the audit record of each order

Ended == {"FILLED", "FINISHED", "CANCELED", "EXPIRED"}
Status == {"NEW", "PARTIALLY_FILLED"} \cup Ended

NoRecord == [status |-> "NONE", executed |-> 0]

Record == [status : Status, executed : 0 .. Requested]

LedgerInit == ledger = [r \in Role |-> NoRecord]

(* The order is verified for the first time.                               *)
Open(r) == ledger[r] = NoRecord /\ ledger'[r] \in Record

(* It is verified again, with more fills or a later status.                *)
Advance(r) ==
    /\ ledger[r].status \in Status \ Ended
    /\ ledger'[r] \in Record
    /\ ledger'[r].executed >= ledger[r].executed
    /\ ledger'[r].status = "NEW" => ledger[r].status = "NEW"

(* One record at a time.                                                   *)
LedgerNext ==
    \E r \in Role :
        /\ Open(r) \/ Advance(r)
        /\ ledger' = [ledger EXCEPT ![r] = ledger'[r]]

LedgerSpec == LedgerInit /\ [][LedgerNext]_ledger
=============================================================================
