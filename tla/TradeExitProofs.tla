---------------------------- MODULE TradeExitProofs ----------------------------
(***************************************************************************)
(* Theorems about TradeExit, for any number of instances, any quantity and *)
(* any number of faults and crashes: its types, that the position is never *)
(* turned round, that a durably closed trade is explained and stays        *)
(* closed, that a close has one outcome, and that the lifecycle events and *)
(* the trade's row agree.                                                  *)
(*                                                                         *)
(* The argument: fills are final and add up to the entry quantity, so at   *)
(* most one order can have filled all of it.  Every record of the trade    *)
(* that is anywhere under way names that order if it is closed (Sound),    *)
(* and what is closed by a protective order came from the row.  So the     *)
(* row, however late and by whom it is overwritten, is overwritten with a  *)
(* record that tells the same story.                                       *)
(***************************************************************************)
EXTENDS TradeExit, FiniteSetTheorems, FunctionTheorems, TLAPS

Protected == algo["STOP_LOSS"].filled + algo["TAKE_PROFIT"].filled

(* The fills of the three orders and the position add up, and the status   *)
(* of an order tells how much of it was filled.                            *)
FillsAddUp ==
    /\ position >= 0
    /\ position + Protected + close.filled = Quantity
    /\ close.status \in {"NONE", "NEW", "EXPIRED"} => close.filled = 0
    /\ close.status \in {"FILLED", "EXPIRED"} => position = 0
    /\ \A k \in Kind : algo[k].filled = Quantity <=> algo[k].status = "FINISHED"

(* A record of the trade counts no protective fill that did not happen,    *)
(* and names the order that filled the position if it is closed.           *)
Explained(t) ==
    \/ t.by = "MANUAL" /\ close.filled = Quantity
    \/ /\ t.by \in Kind /\ algo[t.by].filled = Quantity
       /\ t.exited = Quantity
       /\ row.lifecycle = "CLOSED"

Sound(t) ==
    /\ t.exited <= Protected
    /\ t.lifecycle = "CLOSED" => Explained(t)

RecordsAreSound ==
    /\ Sound(row)
    /\ Sound(intent.trade)
    /\ Sound(scan.trade)
    /\ \A i \in Instance : Sound(memory[i]) /\ Sound(request[i].trade)

(* What a request knows: a filled order is final, it goes on to complete   *)
(* an open trade only when the close filled it, and what it stores is the  *)
(* outcome of the completed intent.                                        *)
SoundRequest(r) ==
    /\ r.payload.status = "FILLED" => close = r.payload
    /\ r.step \in {"cancel stop", "cancel take", "complete"} /\ r.trade.lifecycle = "OPEN"
         => close.filled = Quantity
    /\ r.step \in {"store", "persist"}
         => intent.state = "COMPLETED" /\ r.trade = intent.trade

RequestsAreSound == \A i \in Instance : SoundRequest(request[i])

OutcomeIsFinal ==
    /\ intent.state = "COMPLETED" => intent.trade.lifecycle = "CLOSED"
    /\ OneOutcome

(* The reconciliation cycle cleans up after a protective close only, what  *)
(* it applies was filled, and a record it is about to store is closed, or  *)
(* is the row with a partial exit, which nobody else can close.            *)
ScanIsSound ==
    /\ rpc \in {"cleanup", "sweep"} =>
         scan.trade.lifecycle = "CLOSED" /\ scan.trade.by \in Kind
    /\ rpc \in {"sibling", "apply"} =>
         /\ scan.by \in Kind
         /\ scan.looked[scan.by].filled \in 1 .. algo[scan.by].filled
    /\ rpc \in {"store", "persist"} /\ scan.trade.lifecycle = "OPEN" =>
         scan.trade = row /\ row.exited > 0

IInv ==
    /\ TypeOK
    /\ FillsAddUp
    /\ RecordsAreSound
    /\ RequestsAreSound
    /\ OutcomeIsFinal
    /\ ScanIsSound
    /\ EventsMatchTrade


-----------------------------------------------------------------------------
(* The exchange.                                                           *)

LEMMA SiblingIsKind == \A k \in Kind : Sibling(k) \in Kind
<1> SUFFICES ASSUME NEW k \in Kind PROVE Sibling(k) \in Kind
  OBVIOUS
<1>1. \E s \in Kind : s # k
  BY DEF Kind
<1> QED
  BY <1>1 DEF Sibling

(* Only these steps change the exchange.                                   *)
LEMMA ExchangeChanges ==
    ASSUME [Next]_vars, ~UNCHANGED exchange
    PROVE  \/ \E k \in Kind : Fill(k) \/ Expire(k)
           \/ Match
           \/ \E i \in Instance : Accept(i) \/ CancelStop(i) \/ CancelTake(i)
           \/ Cleanup \/ CancelSibling
<1>1. ASSUME NEW i \in Instance, Close(i)
      PROVE  UNCHANGED exchange \/ Accept(i) \/ CancelStop(i) \/ CancelTake(i)
  BY <1>1 DEF Close, Prepare, Query, Refuse, Requery, Record, Complete, Mark,
              Store, Persist, GiveUp, FinalizationFails
<1>2. ASSUME NEW i \in Instance, Request(i) \/ Crash(i)
      PROVE  UNCHANGED exchange
  BY <1>2 DEF Request, Crash
<1>3. ASSUME Reconcile PROVE UNCHANGED exchange \/ Cleanup \/ CancelSibling
  BY <1>3 DEF Reconcile, Begin, ReadPositions, Sweep, LookStop, LookTake, Look,
              ReadFills, Apply, StoreObserved, PersistObserved, Publish,
              ReconcileOrders, ReconcilePositions, Unverified, Abort
<1> QED
  BY <1>1, <1>2, <1>3 DEF Next, vars

(* Fills are final: none is taken back, and a close that filled stays as   *)
(* it is.                                                                  *)
FillsGrow ==
    /\ position' <= position
    /\ \A k \in Kind : algo'[k].filled >= algo[k].filled
    /\ close.status = "FILLED" => close' = close

ExchangeOK ==
    /\ position \in -Quantity .. Quantity
    /\ algo \in [Kind -> Algo]
    /\ close \in Order

(* No step of the exchange, and no order or cancellation sent to it, fills *)
(* more than is left.                                                      *)
LEMMA ExchangeStep ==
    IInv /\ [Next]_vars => ExchangeOK' /\ FillsAddUp' /\ FillsGrow
<1> SUFFICES ASSUME IInv, [Next]_vars
             PROVE  ExchangeOK' /\ FillsAddUp' /\ FillsGrow
  OBVIOUS
<1>1. ExchangeOK /\ FillsAddUp /\ Quantity \in Nat \ {0}
  BY ExitAssumption DEF IInv, TypeOK, ExchangeOK
<1> USE DEF ExchangeOK, FillsAddUp, FillsGrow, Protected, Kind, Algo, Order
<1>2. CASE UNCHANGED exchange
  BY <1>1, <1>2 DEF exchange
<1>3. ASSUME NEW k \in Kind, Fill(k)
      PROVE  ExchangeOK' /\ FillsAddUp' /\ FillsGrow
  BY <1>1, <1>3 DEF Fill, OpenAlgos
<1>4. ASSUME NEW k \in Kind, k \in OpenAlgos, Cancelled(k), UNCHANGED <<position, close>>
      PROVE  ExchangeOK' /\ FillsAddUp' /\ FillsGrow
  BY <1>1, <1>4 DEF Cancelled, OpenAlgos
<1>5. ASSUME NEW k \in Kind, Expire(k)
      PROVE  ExchangeOK' /\ FillsAddUp' /\ FillsGrow
  BY <1>4, <1>5 DEF Expire, Cancelled
<1>6. ASSUME Matched, close.status \in {"NONE", "NEW"}, UNCHANGED algo
      PROVE  ExchangeOK' /\ FillsAddUp' /\ FillsGrow
  BY <1>1, <1>6 DEF Matched, Taken, ReduceOnly
<1>7. CASE Match
  BY <1>6, <1>7 DEF Match
<1>8. ASSUME NEW i \in Instance, Accept(i)
      PROVE  ExchangeOK' /\ FillsAddUp' /\ FillsGrow
  (* A reduce-only order is accepted while there is a position: there was  *)
  (* no order of that client id before.                                    *)
  <2>1. close.status = "NONE"
    BY <1>1, <1>8 DEF Accept, Acceptable, ReduceOnly
  <2>2. CASE Matched
    BY <1>6, <1>8, <2>1, <2>2 DEF Accept
  <2>3. CASE close' = [NoOrder EXCEPT !.status = "NEW"] /\ UNCHANGED position
    BY <1>1, <1>8, <2>1, <2>3 DEF Accept, NoOrder
  <2> QED
    BY <1>8, <2>2, <2>3 DEF Accept
<1>9. ASSUME NEW i \in Instance, CancelStop(i) \/ CancelTake(i)
      PROVE  ExchangeOK' /\ FillsAddUp' /\ FillsGrow
  BY <1>2, <1>4, <1>9 DEF CancelStop, CancelTake, Cancel, exchange
<1>10. CASE Cleanup \/ CancelSibling
  <2>1. PICK s : UNCHANGED exchange \/ (s \in OpenAlgos /\ Cancelled(s))
    BY <1>10 DEF Cleanup, CancelSibling, exchange
  <2>2. UNCHANGED <<position, close>>
    BY <1>10 DEF Cleanup, CancelSibling
  <2> QED
    BY <1>2, <1>4, <2>1, <2>2 DEF OpenAlgos
<1> QED
  BY <1>2, <1>3, <1>5, <1>7, <1>8, <1>9, <1>10, ExchangeChanges

-----------------------------------------------------------------------------
(* Types.                                                                  *)

RequestRecord == [step : Step, trade : Trade, payload : Order]
Scan == [trade : Trade, held : -Quantity .. Quantity, looked : [Kind -> Algo],
         by : {"NONE"} \cup Kind, cancelled : BOOLEAN, found : BOOLEAN,
         full : BOOLEAN, sweeping : BOOLEAN]

LEMMA ConstantTypes ==
    /\ NewTrade \in Trade
    /\ NoOrder \in Order
    /\ NoRequest \in RequestRecord
    /\ NoScan \in Scan
<1> USE ExitAssumption
<1>1. NewTrade \in Trade
  BY DEF NewTrade, Trade
<1>2. NoOrder \in Order
  BY DEF NoOrder, Order
<1>3. NoRequest \in RequestRecord
  BY <1>1, <1>2 DEF NoRequest, RequestRecord, Step
<1>4. [k \in Kind |-> NewAlgo] \in [Kind -> Algo]
  BY DEF NewAlgo, Algo
<1>5. NoScan \in Scan
  BY <1>1, <1>4 DEF NoScan, Scan
<1> QED
  BY <1>1, <1>2, <1>3, <1>5

(* The fills that the cycle observed become the protective quantity.       *)
LEMMA AppliedIsTrade ==
    ASSUME IInv, rpc = "apply", NEW t \in Trade
    PROVE  Applied(t) \in Trade
<1>1. scan.by \in Kind /\ scan.looked[scan.by].filled \in 0 .. Quantity
      /\ scan.cancelled \in BOOLEAN
  BY ExitAssumption DEF IInv, ScanIsSound, TypeOK, Algo
<1> QED
  BY <1>1 DEF Applied, Trade

LEMMA RequestTypes ==
    ASSUME IInv, NEW i \in Instance, Request(i) \/ Close(i)
    PROVE  TypeOK'
<1>1. ExchangeOK'
  BY ExchangeStep DEF Next
<1>2. /\ NewTrade \in Trade /\ NoRequest \in RequestRecord
      /\ request \in [Instance -> RequestRecord]
      /\ memory \in [Instance -> Trade]
      /\ intent \in [state : IntentState, trade : Trade]
      /\ NoOrder \in Order
  BY ConstantTypes DEF IInv, TypeOK, RequestRecord
<1>3. SUFFICES request' \in [Instance -> RequestRecord]
               /\ intent' \in [state : IntentState, trade : Trade]
               /\ orderRow' \in {"NONE", "NEW", "FILLED", "EXPIRED"}
               /\ row' \in Trade /\ memory' \in [Instance -> Trade]
               /\ returned' \subseteq Trade
               /\ faults' \in 0 .. MaxFaults
               /\ UNCHANGED <<events, cycle, crashes>>
  BY <1>1, <1>3 DEF IInv, TypeOK, ExchangeOK, RequestRecord, cycle
<1>4. /\ faults \in 0 .. MaxFaults /\ MaxFaults \in Nat
      /\ orderRow \in {"NONE", "NEW", "FILLED", "EXPIRED"}
      /\ row \in Trade /\ returned \subseteq Trade
      /\ close' \in Order
  BY <1>1, ExitAssumption DEF IInv, TypeOK, ExchangeOK
<1>5. ASSUME Fault \/ NoFault
      PROVE  faults' \in 0 .. MaxFaults /\ UNCHANGED crashes
  BY <1>4, <1>5 DEF Fault, NoFault, bounds
<1>6. ASSUME NEW s \in Step, Goto(i, s)
      PROVE  request' \in [Instance -> RequestRecord]
  BY <1>2, <1>6 DEF Goto, RequestRecord
<1>7. ASSUME End(i)
      PROVE  request' \in [Instance -> RequestRecord]
  BY <1>2, <1>7 DEF End
<1>8. ASSUME NEW p \in Order, NEW s \in Step,
             request' = [request EXCEPT ![i].payload = p, ![i].step = s]
      PROVE  request' \in [Instance -> RequestRecord]
  BY <1>2, <1>8 DEF RequestRecord
<1>9. ASSUME Replay(i) PROVE request' \in [Instance -> RequestRecord]
  BY <1>2, <1>9 DEF Replay, RequestRecord, Step
<1>10. ASSUME Found(i) PROVE request' \in [Instance -> RequestRecord]
  BY <1>8, <1>10 DEF Found, Step, IInv, TypeOK
<1> USE <1>2, <1>4 DEF database, client, bounds
<1>11. CASE Request(i)
  BY <1>11, ConstantTypes DEF Request, RequestRecord, Step
<1>12. CASE Prepare(i)
  <2>1. request' \in [Instance -> RequestRecord]
    BY <1>6, <1>7, <1>9, <1>12 DEF Prepare, Step
  <2>2. intent' \in [state : IntentState, trade : Trade]
    BY <1>12 DEF Prepare, IntentState
  <2> QED
    BY <1>5, <1>12, <2>1, <2>2 DEF Prepare
<1>13. CASE Query(i) \/ Requery(i)
  <2>1. request' \in [Instance -> RequestRecord]
    BY <1>6, <1>7, <1>10, <1>13 DEF Query, Requery, Step
  <2> QED
    BY <1>5, <1>13, <2>1 DEF Query, Requery
<1>14. CASE GiveUp(i) \/ FinalizationFails(i)
  <2>1. request' \in [Instance -> RequestRecord]
    BY <1>6, <1>7, <1>14 DEF GiveUp, FinalizationFails, Step
  <2> QED
    BY <1>5, <1>14, <2>1 DEF GiveUp, FinalizationFails
<1>15. CASE Accept(i)
  <2>1. request' \in [Instance -> RequestRecord]
    <3>1. CASE request' = [request EXCEPT ![i].payload = close', ![i].step = "record"]
      BY <1>8, <3>1 DEF Step
    <3> QED
      BY <1>6, <1>7, <1>15, <3>1 DEF Accept, Step
  <2> QED
    BY <1>5, <1>15, <2>1 DEF Accept
<1>16. CASE Refuse(i)
  <2>1. request' \in [Instance -> RequestRecord]
    BY <1>6, <1>16 DEF Refuse, Step
  <2>2. Fault \/ NoFault
    BY <1>16 DEF Refuse
  <2> QED
    BY <1>5, <1>16, <2>1, <2>2 DEF Refuse
<1>17. CASE Record(i)
  <2>1. request' \in [Instance -> RequestRecord]
    <3>1. CASE Replay(i)
      BY <1>9, <3>1
    <3>2. CASE ~Replay(i)
      <4>1. request[i].payload \in Order /\ NoOrder \in Order
        BY ConstantTypes DEF RequestRecord
      <4> QED
        BY <1>8, <1>17, <3>2, <4>1, ConstantTypes DEF Record, Step
    <3> QED
      BY <3>1, <3>2
  <2>2. request[i].payload.status \in {"NONE", "NEW", "FILLED", "EXPIRED"}
    BY DEF RequestRecord, Order
  <2>3. intent' \in [state : IntentState, trade : Trade]
    BY <1>17 DEF Record, IntentState
  <2>4. orderRow' \in {"NONE", "NEW", "FILLED", "EXPIRED"}
    BY <1>17, <2>2 DEF Record
  <2> QED
    BY <1>5, <1>17, <2>1, <2>3, <2>4 DEF Record
<1>18. CASE CancelStop(i) \/ CancelTake(i)
  <2>1. request' \in [Instance -> RequestRecord]
    BY <1>6, <1>18 DEF CancelStop, CancelTake, Cancel, Step
  <2>2. Fault \/ NoFault
    BY <1>18 DEF CancelStop, CancelTake, Cancel
  <2> QED
    BY <1>5, <1>18, <2>1, <2>2 DEF CancelStop, CancelTake, Cancel
<1>19. CASE Complete(i)
  <2>1. Outcome(i) \in Trade
    BY DEF Outcome, Trade, RequestRecord
  <2>2. intent' \in [state : IntentState, trade : Trade]
    BY <1>19, <2>1 DEF Complete, CompletedIntent, IntentState
  <2>3. request' \in [Instance -> RequestRecord]
    BY <1>19, <2>2 DEF Complete, RequestRecord, Step
  <2> QED
    BY <1>5, <1>19, <2>2, <2>3 DEF Complete
<1>20. CASE Mark(i)
  <2>1. intent' \in [state : IntentState, trade : Trade]
    BY <1>20 DEF Mark, IntentState
  <2>2. Fault \/ NoFault
    BY <1>20 DEF Mark
  <2> QED
    BY <1>5, <1>7, <1>20, <2>1, <2>2 DEF Mark
<1>21. CASE Store(i)
  <2>1. memory' \in [Instance -> Trade]
    BY <1>21 DEF Store, RequestRecord
  <2>2. request' \in [Instance -> RequestRecord]
    BY <1>6, <1>21 DEF Store, Step
  <2> QED
    BY <1>21, <2>1, <2>2 DEF Store
<1>22. CASE Persist(i)
  <2>1. row' \in Trade /\ returned' \subseteq Trade
    BY <1>22 DEF Persist, RequestRecord
  <2>2. Fault \/ NoFault
    BY <1>22 DEF Persist
  <2> QED
    BY <1>5, <1>7, <1>22, <2>1, <2>2 DEF Persist
<1> QED
  BY <1>11, <1>12, <1>13, <1>14, <1>15, <1>16, <1>17, <1>18, <1>19, <1>20, <1>21, <1>22
  DEF Close

LEMMA CycleTypes ==
    ASSUME IInv, Reconcile
    PROVE  TypeOK'
<1>1. ExchangeOK'
  BY ExchangeStep DEF Next
<1>2. /\ NoScan \in Scan /\ scan \in Scan /\ row \in Trade
      /\ memory \in [Instance -> Trade] /\ Leader \in Instance
      /\ rpc \in LoopStep /\ gate \in BOOLEAN /\ looping \in BOOLEAN
      /\ faults \in 0 .. MaxFaults /\ MaxFaults \in Nat
      /\ position \in -Quantity .. Quantity /\ algo \in [Kind -> Algo]
      /\ events \subseteq Kind \X (1 .. Quantity)
  BY ConstantTypes, ExitAssumption DEF IInv, TypeOK, Scan
<1>3. SUFFICES /\ scan' \in Scan /\ rpc' \in LoopStep
               /\ gate' \in BOOLEAN /\ looping' \in BOOLEAN
               /\ row' \in Trade /\ memory' \in [Instance -> Trade]
               /\ events' \subseteq Kind \X (1 .. Quantity)
               /\ faults' \in 0 .. MaxFaults
               /\ UNCHANGED <<intent, orderRow, client, crashes>>
  BY <1>1, <1>3 DEF IInv, TypeOK, ExchangeOK, Scan, client
<1>4. ASSUME Fault \/ NoFault
       PROVE  faults' \in 0 .. MaxFaults /\ UNCHANGED crashes
  BY <1>2, <1>4 DEF Fault, NoFault, bounds
<1> USE <1>2
    DEF Then, database, client, bounds, Scan, LoopStep, Report, Keep
<1>5. CASE Begin
  BY <1>5 DEF Begin
<1>6. CASE ReadPositions
  BY <1>6, <1>4 DEF ReadPositions, PendingCleanup
<1>7. CASE Abort
  BY <1>7, <1>4 DEF Abort
<1>8. CASE Unverified
  BY <1>8, <1>4 DEF Unverified
<1>9. CASE Cleanup
  BY <1>9, <1>4 DEF Cleanup
<1>10. CASE Sweep
  <2>1. row' \in Trade
    BY <1>10 DEF Sweep, Trade
  <2> QED
    BY <1>10, <1>4, <2>1 DEF Sweep
<1>11. CASE LookStop \/ LookTake
  BY <1>11, <1>4 DEF LookStop, LookTake, Look, Kind
<1>12. CASE ReadFills
  BY <1>12, <1>4 DEF ReadFills
<1>13. CASE CancelSibling
  <2>1. Fault \/ NoFault
    BY <1>13 DEF CancelSibling
  <2> DEFINE ended == scan.looked[Sibling(scan.by)].status \in {"CANCELED", "FINISHED"}
  <2>2. PICK b \in BOOLEAN : scan' = [scan EXCEPT !.cancelled = b]
    <3>1. ended \in BOOLEAN
      OBVIOUS
    <3>2. \/ scan' = [scan EXCEPT !.cancelled = TRUE]
          \/ scan' = [scan EXCEPT !.cancelled = FALSE]
          \/ scan' = [scan EXCEPT !.cancelled = ended]
      BY <1>13, Zenon DEF CancelSibling
    <3> HIDE DEF ended
    <3> QED
      BY <3>1, <3>2, Zenon
  <2> QED
    BY <1>4, <1>13, <2>1, <2>2 DEF CancelSibling
<1>14. CASE Apply
  <2>1. row' \in Trade
    BY <1>14, AppliedIsTrade DEF Apply
  <2>2. events' \subseteq Kind \X (1 .. Quantity)
    <3>1. scan.by \in Kind /\ scan.looked[scan.by].filled \in 0 .. Quantity
          /\ Quantity \in Nat
      BY <1>14, ExitAssumption DEF Apply, IInv, ScanIsSound, Algo
    <3> QED
      BY <1>14, <3>1 DEF Apply, Observed
  <2>3. scan' \in Scan /\ rpc' \in LoopStep
    BY <1>14, <2>1 DEF Apply
  <2> QED
    BY <1>14, <1>4, <2>1, <2>2, <2>3 DEF Apply
<1>15. CASE StoreObserved
  BY <1>15 DEF StoreObserved
<1>16. CASE PersistObserved
  BY <1>16, <1>4 DEF PersistObserved
<1>17. CASE Publish
  BY <1>17 DEF Publish
<1>18. CASE ReconcileOrders
  <2>1. gate' \in BOOLEAN /\ (Fault \/ NoFault)
    BY <1>18 DEF ReconcileOrders
  <2> QED
    BY <1>18, <1>4, <2>1 DEF ReconcileOrders
<1>19. CASE ReconcilePositions
  <2>1. gate' \in BOOLEAN /\ (Fault \/ NoFault)
    BY <1>19 DEF ReconcilePositions
  <2> QED
    BY <1>19, <1>4, <2>1 DEF ReconcilePositions
<1> QED
  BY <1>5, <1>6, <1>7, <1>8, <1>9, <1>10, <1>11, <1>12, <1>13, <1>14, <1>15,
     <1>16, <1>17, <1>18, <1>19 DEF Reconcile

LEMMA TypePreserved == IInv /\ [Next]_vars => TypeOK'
<1> SUFFICES ASSUME IInv, [Next]_vars PROVE TypeOK'
  OBVIOUS
<1>1. CASE UNCHANGED vars
  BY <1>1 DEF IInv, TypeOK, vars, exchange, database, client, cycle, bounds
<1>2. CASE (\E k \in Kind : Fill(k) \/ Expire(k)) \/ Match
  <2>1. UNCHANGED <<database, memory, client, cycle, bounds>>
    BY <1>2 DEF Fill, Expire, Match
  <2> QED
    BY <2>1, ExchangeStep
    DEF IInv, TypeOK, ExchangeOK, database, client, cycle, bounds
<1>3. ASSUME NEW i \in Instance, Crash(i) PROVE TypeOK'
  <2>1. memory' \in [Instance -> Trade]
    BY <1>3 DEF Crash, IInv, TypeOK
  <2>2. request' \in [Instance -> RequestRecord]
    BY <1>3, ConstantTypes DEF Crash, End, IInv, TypeOK, RequestRecord
  <2>3. scan' \in Scan /\ rpc' \in LoopStep
    BY <1>3, ConstantTypes DEF Crash, IInv, TypeOK, Scan, LoopStep, cycle
  <2>4. gate' \in BOOLEAN /\ looping' \in BOOLEAN
    BY <1>3 DEF Crash, IInv, TypeOK, cycle
  <2>5. crashes' \in 0 .. MaxCrashes
    BY <1>3, ExitAssumption DEF Crash, IInv, TypeOK
  <2> QED
    BY <1>3, <2>1, <2>2, <2>3, <2>4, <2>5
    DEF IInv, TypeOK, Crash, RequestRecord, Scan, exchange, database
<1> QED
  BY <1>1, <1>2, <1>3, RequestTypes, CycleTypes DEF Next

-----------------------------------------------------------------------------
(* The trade's row.                                                        *)

(* Only these steps write the trade's row or the events.                   *)
LEMMA RowChanges ==
    ASSUME [Next]_vars, ~UNCHANGED <<row, events>>
    PROVE  Sweep \/ Apply \/ PersistObserved \/ \E i \in Instance : Persist(i)
<1>1. ASSUME NEW i \in Instance, Close(i), ~Persist(i)
      PROVE  UNCHANGED <<row, events>>
  BY <1>1 DEF Close, Prepare, Query, Accept, Refuse, Requery, Record, CancelStop,
              CancelTake, Cancel, Complete, Mark, Store, GiveUp,
              FinalizationFails, database
<1>2. ASSUME NEW i \in Instance, Request(i) \/ Crash(i)
      PROVE  UNCHANGED <<row, events>>
  BY <1>2 DEF Request, Crash, database
<1>3. ASSUME Reconcile, ~Sweep, ~Apply, ~PersistObserved
      PROVE  UNCHANGED <<row, events>>
  BY <1>3 DEF Reconcile, Begin, ReadPositions, LookStop, LookTake, Look, Cleanup,
              ReadFills, CancelSibling, StoreObserved, Publish, ReconcileOrders,
              ReconcilePositions, Unverified, Abort, database
<1>4. ASSUME NEW k \in Kind, Fill(k) \/ Expire(k) PROVE UNCHANGED <<row, events>>
  BY <1>4 DEF Fill, Expire, database
<1>5. ASSUME Match PROVE UNCHANGED <<row, events>>
  BY <1>5 DEF Match, database
<1> QED
  BY <1>1, <1>2, <1>3, <1>4, <1>5 DEF Next, vars, database

(* Whoever writes a closed record over the row writes what the row says    *)
(* already, or closes by hand a trade of which no protective order filled  *)
(* anything.                                                               *)
LEMMA Overwrite ==
    ASSUME IInv, NEW t \in Trade, Sound(t), t.lifecycle = "CLOSED"
    PROVE  /\ t.exited = row.exited
           /\ row.lifecycle = "CLOSED" => t.by = row.by
<1>1. /\ row \in Trade /\ Sound(row) /\ close.filled \in Nat /\ position \in Nat
      /\ \A k \in Kind : algo[k].filled \in Nat
      /\ position + Protected + close.filled = Quantity
      /\ Quantity \in Nat \ {0}
  BY ExitAssumption DEF IInv, TypeOK, RecordsAreSound, FillsAddUp, Order, Algo
<1>2. t.exited \in Nat /\ row.exited \in Nat
  BY <1>1 DEF Trade
<1>3. Protected = algo["STOP_LOSS"].filled + algo["TAKE_PROFIT"].filled
  BY DEF Protected
<1>4. CASE t.by = "MANUAL" /\ close.filled = Quantity
  <2>1. Protected = 0
    BY <1>1, <1>3, <1>4 DEF Kind
  <2>2. t.exited = 0 /\ row.exited = 0
    BY <1>1, <1>2, <2>1 DEF Sound
  <2>3. \A k \in Kind : algo[k].filled # Quantity
    BY <1>1, <1>3, <2>1 DEF Kind
  <2> QED
    BY <1>1, <1>4, <2>2, <2>3 DEF Sound, Explained
<1>5. CASE /\ t.by \in Kind /\ algo[t.by].filled = Quantity
           /\ t.exited = Quantity /\ row.lifecycle = "CLOSED"
  <2>1. close.filled # Quantity
    BY <1>1, <1>3, <1>5 DEF Kind
  <2>2. \A k \in Kind : algo[k].filled = Quantity => k = t.by
    BY <1>1, <1>3, <1>5 DEF Kind
  <2> QED
    BY <1>1, <1>5, <2>1, <2>2 DEF Sound, Explained
<1> QED
  BY <1>4, <1>5 DEF Sound, Explained

(* What a request persists is closed and sound.                            *)
LEMMA PersistWritesClosed ==
    ASSUME IInv, NEW i \in Instance, Persist(i), row' # row
    PROVE  /\ row' = request[i].trade /\ row' \in Trade /\ UNCHANGED events
           /\ request[i].trade.lifecycle = "CLOSED"
           /\ Sound(request[i].trade)
BY DEF Persist, At, IInv, TypeOK, RequestsAreSound, SoundRequest, OutcomeIsFinal,
       RecordsAreSound

(* A durably closed row keeps its lifecycle, its closing order and its     *)
(* protective quantity.                                                    *)
LEMMA RowIsFinal ==
    ASSUME IInv, [Next]_vars, row.lifecycle = "CLOSED"
    PROVE  /\ row'.lifecycle = "CLOSED" /\ row'.by = row.by
           /\ row'.exited = row.exited
<1>1. CASE UNCHANGED row
  BY <1>1
<1>2. CASE Sweep
  BY <1>2 DEF Sweep, IInv, TypeOK, Trade
<1>3. CASE Apply
  BY <1>3 DEF Apply
<1>4. CASE PersistObserved
  (* An open record would be the row itself. *)
  <2>1. scan.trade \in Trade /\ Sound(scan.trade) /\ row' = scan.trade
    BY <1>4 DEF PersistObserved, IInv, TypeOK, RecordsAreSound
  <2>2. scan.trade.lifecycle = "CLOSED"
    BY <1>4, <2>1 DEF PersistObserved, IInv, ScanIsSound, Trade
  <2> QED
    BY <2>1, <2>2, Overwrite
<1>5. ASSUME NEW i \in Instance, Persist(i), row' # row
      PROVE  /\ row'.lifecycle = "CLOSED" /\ row'.by = row.by
             /\ row'.exited = row.exited
  <2>1. request[i].trade \in Trade
    BY DEF IInv, TypeOK
  <2> QED
    BY <1>5, <2>1, PersistWritesClosed, Overwrite
<1> QED
  BY <1>1, <1>2, <1>3, <1>4, <1>5, RowChanges

(* What a record says stays true, whatever happens.                        *)
LEMMA SoundStays ==
    ASSUME IInv, [Next]_vars, NEW t \in Trade, Sound(t)
    PROVE  Sound(t)'
<1>1. /\ FillsGrow /\ FillsAddUp' /\ ExchangeOK' /\ ExchangeOK /\ FillsAddUp
      /\ Quantity \in Nat \ {0}
  BY ExchangeStep, ExitAssumption DEF IInv, TypeOK, ExchangeOK
<1>2. /\ \A k \in Kind : /\ algo[k].filled \in Nat /\ algo'[k].filled \in 0 .. Quantity
                         /\ algo'[k].filled >= algo[k].filled
      /\ close.filled \in Nat /\ close'.filled \in Nat
      /\ t.exited \in Nat
  BY <1>1 DEF ExchangeOK, Algo, Order, Trade, FillsGrow
<1>3. (t.exited <= Protected)'
  BY <1>2 DEF Sound, Protected, Kind
<1>4. ASSUME close.filled = Quantity PROVE close'.filled = Quantity
  <2>1. close.status = "FILLED"
    BY <1>1, <1>4 DEF FillsAddUp, ExchangeOK, Order
  <2> QED
    BY <1>1, <1>4, <2>1 DEF FillsGrow
<1>5. ASSUME NEW k \in Kind, algo[k].filled = Quantity PROVE algo'[k].filled = Quantity
  BY <1>1, <1>2, <1>5
<1> QED
  BY <1>3, <1>4, <1>5, RowIsFinal DEF Sound, Explained

(* The events that _apply() writes are as many as the fills it counts.     *)
LEMMA ObservedCount ==
    ASSUME NEW k, NEW n \in Nat
    PROVE  Cardinality({<<k, m>> : m \in 1 .. n}) = n
<1> DEFINE S == {<<k, m>> : m \in 1 .. n}
           f == [m \in 1 .. n |-> <<k, m>>]
<1>1. f \in Bijection(1 .. n, S)
  <2>1. f \in [1 .. n -> S]
    OBVIOUS
  <2>2. \A a, b \in 1 .. n : f[a] = f[b] => a = b
    OBVIOUS
  <2>3. \A s \in S : \E m \in 1 .. n : f[m] = s
    OBVIOUS
  <2> QED
    BY <2>1, <2>2, <2>3, Fun_IsBij
<1>2. IsFiniteSet(1 .. n) /\ Cardinality(1 .. n) = n
  BY FS_Interval
<1> HIDE DEF f, S
<1>3. ExistsBijection(1 .. n, S)
  BY <1>1 DEF ExistsBijection
<1>4. Cardinality(S) = Cardinality(1 .. n)
  BY <1>2, <1>3, FS_Bijection
<1> QED
  BY <1>2, <1>4 DEF S

LEMMA RowStep ==
    IInv /\ [Next]_vars => Sound(row)' /\ EventsMatchTrade'
<1> SUFFICES ASSUME IInv, [Next]_vars PROVE Sound(row)' /\ EventsMatchTrade'
  OBVIOUS
<1>1. row \in Trade /\ Sound(row) /\ EventsMatchTrade
  BY DEF IInv, TypeOK, RecordsAreSound
<1>2. ASSUME NEW t \in Trade, row' = t, Sound(t), UNCHANGED events,
             t.exited = row.exited
      PROVE  Sound(row)' /\ EventsMatchTrade'
  <2>1. Sound(t)'
    BY <1>2, SoundStays
  <2> QED
    BY <1>1, <1>2, <2>1 DEF EventsMatchTrade, Sound, Explained
<1>3. CASE UNCHANGED <<row, events>>
  BY <1>1, <1>2, <1>3
<1>4. CASE Sweep
  <2>1. PICK t : t = [row EXCEPT !.swept = TRUE]
    OBVIOUS
  <2>2. /\ t \in Trade /\ t.exited = row.exited /\ t.lifecycle = row.lifecycle
        /\ t.by = row.by
    BY <1>1, <2>1 DEF Trade
  <2>3. Sound(t)
    BY <1>1, <2>2 DEF Sound, Explained
  <2> QED
    BY <1>2, <1>4, <2>1, <2>2, <2>3 DEF Sweep
<1>5. ASSUME Apply, ~UNCHANGED <<row, events>>
      PROVE  Sound(row)' /\ EventsMatchTrade'
  <2>1. /\ rpc = "apply" /\ row.lifecycle = "OPEN"
        /\ events' = Observed /\ row' = Applied(row)
        /\ UNCHANGED <<algo, close>>
    BY <1>5 DEF Apply, exchange
  <2>2. PICK k, n : k = scan.by /\ n = scan.looked[scan.by].filled
    OBVIOUS
  <2>3. k \in Kind /\ n \in 1 .. algo[k].filled /\ algo[k].filled \in 0 .. Quantity
        /\ Quantity \in Nat
    BY <2>1, <2>2, ExitAssumption DEF IInv, ScanIsSound, TypeOK, Algo
  <2>4. /\ row'.exited = n
        /\ row'.lifecycle = IF n = Quantity THEN "CLOSED" ELSE "OPEN"
        /\ n = Quantity => row'.by = k
    BY <1>1, <2>1, <2>2 DEF Applied, FullClose, Trade
  <2>5. Sound(row)'
    <3>1. n <= Protected
      BY <2>3, ExitAssumption DEF Protected, Kind, IInv, TypeOK, Algo
    <3>2. Protected' = Protected
      BY <2>1 DEF Protected
    <3>3. n = Quantity => algo'[k].filled = Quantity
      BY <2>1, <2>3
    <3> QED
      BY <2>3, <2>4, <3>1, <3>2, <3>3 DEF Sound, Explained
  <2>6. Cardinality(events') = n
    <3>1. events' = {<<k, m>> : m \in 1 .. n}
      BY <2>1, <2>2 DEF Observed
    <3>2. n \in Nat
      BY <2>3
    <3> QED
      BY <3>1, <3>2, ObservedCount, Zenon
  <2> QED
    BY <2>4, <2>5, <2>6 DEF EventsMatchTrade
<1>6. CASE PersistObserved
  <2>1. PICK t : t = scan.trade
    OBVIOUS
  <2>2. t \in Trade /\ Sound(t) /\ row' = t /\ UNCHANGED events
    BY <1>6, <2>1 DEF PersistObserved, IInv, TypeOK, RecordsAreSound
  <2>3. CASE t.lifecycle = "OPEN"
    BY <1>1, <1>2, <1>6, <2>1, <2>2, <2>3 DEF PersistObserved, IInv, ScanIsSound
  <2>4. CASE t.lifecycle = "CLOSED"
    BY <1>2, <2>2, <2>4, Overwrite
  <2> QED
    BY <2>2, <2>3, <2>4 DEF Trade
<1>7. ASSUME NEW i \in Instance, Persist(i), row' # row
      PROVE  Sound(row)' /\ EventsMatchTrade'
  <2>1. PICK t : t = request[i].trade
    OBVIOUS
  <2>2. t \in Trade /\ Sound(t) /\ row' = t /\ t.lifecycle = "CLOSED" /\ UNCHANGED events
    BY <1>7, <2>1, PersistWritesClosed DEF IInv, TypeOK
  <2> QED
    BY <1>2, <2>2, Overwrite
<1>8. ASSUME NEW i \in Instance, Persist(i), row' = row
      PROVE  UNCHANGED <<row, events>>
  BY <1>8 DEF Persist
<1> QED
  BY <1>3, <1>4, <1>5, <1>6, <1>7, <1>8, RowChanges

-----------------------------------------------------------------------------
(* The intent and the requests.                                            *)

LEMMA NewTradeIsSound == IInv /\ [Next]_vars => Sound(NewTrade)'
<1> SUFFICES ASSUME IInv, [Next]_vars PROVE Sound(NewTrade)'
  OBVIOUS
<1>1. 0 <= Protected
  BY ExitAssumption DEF IInv, TypeOK, Protected, Algo, Kind
<1>2. Sound(NewTrade) /\ NewTrade \in Trade
  BY <1>1, ConstantTypes DEF Sound, NewTrade
<1> QED
  BY <1>2, SoundStays

(* The outcome that a request calculates is that of a close that filled    *)
(* the position, or the record that was closed before the request came.    *)
LEMMA OutcomeIsSound ==
    ASSUME IInv, NEW i \in Instance, Complete(i)
    PROVE  Outcome(i) \in Trade /\ Sound(Outcome(i)) /\ Outcome(i).lifecycle = "CLOSED"
<1>1. PICK t : t = request[i].trade
  OBVIOUS
<1>2. /\ t \in Trade /\ Sound(t) /\ request[i].step = "complete"
      /\ t.lifecycle = "OPEN" => close.filled = Quantity
  BY <1>1 DEF Complete, At, IInv, TypeOK, RecordsAreSound, RequestsAreSound, SoundRequest
<1>3. CASE t.lifecycle = "CLOSED"
  BY <1>1, <1>2, <1>3 DEF Outcome
<1>4. CASE t.lifecycle = "OPEN"
  <2>1. PICK u : u = [t EXCEPT !.lifecycle = "CLOSED", !.by = "MANUAL", !.finalizer = i]
    OBVIOUS
  <2>2. /\ u \in Trade /\ u.lifecycle = "CLOSED" /\ u.by = "MANUAL"
        /\ u.exited = t.exited
    BY <1>2, <2>1 DEF Trade
  <2>3. Sound(u)
    BY <1>2, <1>4, <2>2 DEF Sound, Explained
  <2>4. Outcome(i) = u
    BY <1>1, <1>4, <2>1 DEF Outcome
  <2> QED
    BY <2>2, <2>3, <2>4
<1> QED
  BY <1>2, <1>3, <1>4 DEF Trade

LEMMA IntentChanges ==
    ASSUME [Next]_vars, intent' # intent
    PROVE  \E i \in Instance : Prepare(i) \/ Record(i) \/ Complete(i) \/ Mark(i)
<1>1. ASSUME NEW i \in Instance, Close(i)
      PROVE  UNCHANGED intent \/ Prepare(i) \/ Record(i) \/ Complete(i) \/ Mark(i)
  BY <1>1 DEF Close, Query, Accept, Refuse, Requery, CancelStop, CancelTake, Cancel,
              Store, Persist, GiveUp, FinalizationFails, database
<1>2. ASSUME NEW i \in Instance, Request(i) \/ Crash(i) PROVE UNCHANGED intent
  BY <1>2 DEF Request, Crash, database
<1>3. ASSUME Reconcile PROVE UNCHANGED intent
  BY <1>3 DEF Reconcile, Begin, ReadPositions, Cleanup, Sweep, LookStop, LookTake,
              Look, ReadFills, CancelSibling, Apply, StoreObserved,
              PersistObserved, Publish, ReconcileOrders, ReconcilePositions,
              Unverified, Abort, database
<1>4. ASSUME NEW k \in Kind, Fill(k) \/ Expire(k) PROVE UNCHANGED intent
  BY <1>4 DEF Fill, Expire, database
<1>5. ASSUME Match PROVE UNCHANGED intent
  BY <1>5 DEF Match, database
<1> QED
  BY <1>1, <1>2, <1>3, <1>4, <1>5 DEF Next, vars, database

(* A completed intent keeps its outcome; the outcome is closed and sound.  *)
LEMMA IntentStep ==
    IInv /\ [Next]_vars =>
        /\ intent.state = "COMPLETED" => intent' = intent
        /\ intent'.state = "COMPLETED" => intent'.trade.lifecycle = "CLOSED"
        /\ Sound(intent.trade)'
<1> SUFFICES ASSUME IInv, [Next]_vars
             PROVE  /\ intent.state = "COMPLETED" => intent' = intent
                    /\ intent'.state = "COMPLETED" => intent'.trade.lifecycle = "CLOSED"
                    /\ Sound(intent.trade)'
  OBVIOUS
<1>1. /\ intent \in [state : IntentState, trade : Trade]
      /\ intent.state = "COMPLETED" => intent.trade.lifecycle = "CLOSED"
  BY DEF IInv, TypeOK, OutcomeIsFinal
<1>2. PICK t : t = intent.trade
  OBVIOUS
<1>3. t \in Trade /\ Sound(t) /\ Sound(t)'
  BY <1>1, <1>2, SoundStays DEF IInv, RecordsAreSound
<1>4. CASE intent' = intent
  BY <1>1, <1>2, <1>3, <1>4 DEF Sound, Explained
<1>5. ASSUME NEW i \in Instance, Prepare(i) \/ Record(i) \/ Mark(i), intent' # intent
      PROVE  /\ intent.state # "COMPLETED" /\ intent'.state # "COMPLETED"
             /\ intent'.trade = t
  BY <1>1, <1>2, <1>5 DEF Prepare, Record, Mark
<1>6. ASSUME NEW i \in Instance, Complete(i), intent' # intent
      PROVE  /\ intent.state # "COMPLETED"
             /\ intent'.trade.lifecycle = "CLOSED" /\ Sound(intent.trade)'
  <2>1. PICK u : u = Outcome(i)
    OBVIOUS
  <2>2. u \in Trade /\ Sound(u)' /\ u.lifecycle = "CLOSED"
    BY <1>6, <2>1, OutcomeIsSound, SoundStays
  <2>3. intent.state # "COMPLETED" /\ intent' = [state |-> "COMPLETED", trade |-> u]
    BY <1>6, <2>1 DEF Complete, CompletedIntent
  <2> QED
    BY <2>2, <2>3 DEF Sound, Explained
<1> QED
  BY <1>3, <1>4, <1>5, <1>6, IntentChanges DEF Sound, Explained

(* What a request knows stays true while others work.                      *)
LEMMA SoundRequestStays ==
    ASSUME IInv, [Next]_vars, NEW r \in RequestRecord, SoundRequest(r)
    PROVE  SoundRequest(r)'
<1>1. FillsGrow /\ (intent.state = "COMPLETED" => intent' = intent)
  BY ExchangeStep, IntentStep
<1>2. close.filled = Quantity => close.status = "FILLED"
  BY ExitAssumption DEF IInv, FillsAddUp, TypeOK, Order
<1> QED
  BY <1>1, <1>2 DEF SoundRequest, FillsGrow

LEMMA ActorStep ==
    ASSUME IInv, NEW i \in Instance, Request(i) \/ Close(i) \/ Crash(i)
    PROVE  /\ SoundRequest(request[i])' /\ Sound(request[i].trade)'
           /\ \A j \in Instance \ {i} : request'[j] = request[j]
<1>1. PICK q, t, r : q = request[i] /\ t = q.trade /\ r = request'[i]
  OBVIOUS
<1>2. /\ q \in RequestRecord /\ SoundRequest(q) /\ SoundRequest(q)'
      /\ t \in Trade /\ Sound(t) /\ Sound(t)'
      /\ request \in [Instance -> RequestRecord]
      /\ NoRequest \in RequestRecord /\ NoOrder \in Order /\ NewTrade \in Trade
  BY <1>1, SoundRequestStays, SoundStays, ConstantTypes
  DEF IInv, TypeOK, RequestsAreSound, RecordsAreSound, Next, RequestRecord
<1>3. /\ FillsGrow /\ Sound(intent.trade)' /\ Sound(NewTrade)'
      /\ intent.state = "COMPLETED" => intent' = intent
  BY ExchangeStep, IntentStep, NewTradeIsSound DEF Next
<1>4. SUFFICES /\ SoundRequest(r)' /\ Sound(r.trade)'
               /\ \A j \in Instance \ {i} : request'[j] = request[j]
  BY <1>1, <1>4 DEF SoundRequest, Sound, Explained
<1>5. ASSUME End(i)
      PROVE  /\ SoundRequest(r)' /\ Sound(r.trade)'
             /\ \A j \in Instance \ {i} : request'[j] = request[j]
  <2>1. r = NoRequest /\ \A j \in Instance \ {i} : request'[j] = request[j]
    BY <1>1, <1>2, <1>5 DEF End
  <2> QED
    BY <1>3, <2>1 DEF NoRequest, NoOrder, SoundRequest
<1>6. ASSUME NEW s, Goto(i, s),
             s \in {"store", "persist"} => q.step \in {"store", "persist"},
             s \in {"cancel stop", "cancel take", "complete"} /\ t.lifecycle = "OPEN"
               => close.filled = Quantity
      PROVE  /\ SoundRequest(r)' /\ Sound(r.trade)'
             /\ \A j \in Instance \ {i} : request'[j] = request[j]
  <2>1. /\ r.step = s /\ r.trade = t /\ r.payload = q.payload
        /\ \A j \in Instance \ {i} : request'[j] = request[j]
    BY <1>1, <1>2, <1>6 DEF Goto, RequestRecord
  <2>2. close.filled = Quantity => close'.filled = Quantity
    <3>1. close.filled = Quantity => close.status = "FILLED"
      BY ExitAssumption DEF IInv, FillsAddUp, TypeOK, Order
    <3> QED
      BY <1>3, <3>1 DEF FillsGrow
  <2> QED
    BY <1>1, <1>2, <1>6, <2>1, <2>2 DEF SoundRequest
<1>7. ASSUME intent.state = "COMPLETED", Replay(i)
      PROVE  /\ SoundRequest(r)' /\ Sound(r.trade)'
             /\ \A j \in Instance \ {i} : request'[j] = request[j]
  <2>1. /\ r = [step |-> "store", trade |-> intent.trade, payload |-> NoOrder]
        /\ \A j \in Instance \ {i} : request'[j] = request[j]
    BY <1>1, <1>2, <1>7 DEF Replay
  <2>2. intent' = intent
    BY <1>3, <1>7
  <2> QED
    BY <1>3, <1>7, <2>1, <2>2 DEF SoundRequest, NoOrder, Sound, Explained
<1>8. ASSUME request' = [request EXCEPT ![i].payload = close', ![i].step = "record"]
      PROVE  /\ SoundRequest(r)' /\ Sound(r.trade)'
             /\ \A j \in Instance \ {i} : request'[j] = request[j]
  <2>1. /\ r.step = "record" /\ r.trade = t /\ r.payload = close'
        /\ \A j \in Instance \ {i} : request'[j] = request[j]
    BY <1>1, <1>2, <1>8 DEF RequestRecord
  <2> QED
    BY <1>2, <2>1 DEF SoundRequest
<1>9. CASE Request(i)
  <2>1. PICK m : m = memory[i]
    OBVIOUS
  <2>2. m \in Trade /\ Sound(m)'
    BY <1>9, <2>1, SoundStays DEF Next, IInv, TypeOK, RecordsAreSound
  <2>3. /\ r = [step |-> "prepare", trade |-> m, payload |-> NoOrder]
        /\ \A j \in Instance \ {i} : request'[j] = request[j]
    BY <1>1, <1>2, <1>9, <2>1 DEF Request
  <2> QED
    BY <2>2, <2>3 DEF SoundRequest, NoOrder
<1>10. CASE Crash(i)
  BY <1>5, <1>10 DEF Crash
<1>11. CASE Prepare(i)
  BY <1>1, <1>5, <1>6, <1>7, <1>11 DEF Prepare
<1>12. CASE Query(i) \/ Requery(i)
  <2>1. CASE Found(i)
    BY <1>8, <1>12, <2>1 DEF Query, Requery, Found, exchange
  <2> QED
    BY <1>5, <1>6, <1>12, <2>1 DEF Query, Requery
<1>13. CASE GiveUp(i) \/ FinalizationFails(i)
  BY <1>5, <1>6, <1>13 DEF GiveUp, FinalizationFails
<1>14. CASE Accept(i)
  BY <1>5, <1>6, <1>8, <1>14 DEF Accept
<1>15. CASE Refuse(i)
  BY <1>6, <1>15 DEF Refuse
<1>16. CASE Record(i)
  <2>1. CASE intent.state = "COMPLETED"
    BY <1>7, <1>16, <2>1 DEF Record
  <2>2. CASE intent.state # "COMPLETED"
    <3>1. /\ r.payload = NoOrder /\ r.trade = t
          /\ r.step = IF VerifiedCloseFill(q.payload) THEN "cancel stop" ELSE "mark"
          /\ \A j \in Instance \ {i} : request'[j] = request[j]
      <4>1. request' = [request EXCEPT ![i].payload = NoOrder, ![i].step =
                          IF VerifiedCloseFill(q.payload) THEN "cancel stop" ELSE "mark"]
        BY <1>1, <1>16, <2>2 DEF Record
      <4>2. r = [q EXCEPT !.payload = NoOrder, !.step =
                   IF VerifiedCloseFill(q.payload) THEN "cancel stop" ELSE "mark"]
        BY <1>1, <1>2, <4>1
      <4>3. \A j \in Instance \ {i} : request'[j] = request[j]
        BY <1>2, <4>1
      <4> QED
        BY <1>1, <1>2, <4>2, <4>3 DEF RequestRecord
    <3>2. VerifiedCloseFill(q.payload) => close'.filled = Quantity
      BY <1>2, <1>3 DEF VerifiedCloseFill, SoundRequest, FillsGrow
    <3>3. \/ r.step = "cancel stop" /\ close'.filled = Quantity
          \/ r.step = "mark"
      BY <3>1, <3>2
    <3>4. SoundRequest(r)'
      <4>1. NoOrder.status = "NONE"
        BY DEF NoOrder
      <4> QED
        BY <3>1, <3>3, <4>1 DEF SoundRequest
    <3>5. Sound(r.trade)'
      BY <1>2, <3>1
    <3> QED
      BY <3>1, <3>4, <3>5
  <2> QED
    BY <2>1, <2>2
<1>17. CASE CancelStop(i) \/ CancelTake(i)
  <2>1. PICK s \in {"cancel take", "complete"} :
            Goto(i, s) /\ q.step \in {"cancel stop", "cancel take"}
    BY <1>1, <1>17 DEF CancelStop, CancelTake, Cancel, At
  <2>2. t.lifecycle = "OPEN" => close.filled = Quantity
    BY <1>1, <1>2, <2>1 DEF SoundRequest
  <2> QED
    BY <1>6, <2>1, <2>2
<1>18. CASE Complete(i)
  <2>1. /\ r.step = "store" /\ r.trade = intent'.trade /\ r.payload = q.payload
        /\ \A j \in Instance \ {i} : request'[j] = request[j]
    BY <1>1, <1>2, <1>18 DEF Complete, RequestRecord
  <2>2. intent'.state = "COMPLETED"
    BY <1>18 DEF Complete, CompletedIntent
  <2> QED
    BY <1>2, <1>3, <2>1, <2>2 DEF SoundRequest, Sound, Explained
<1>19. CASE Mark(i)
  BY <1>5, <1>19 DEF Mark
<1>20. CASE Store(i)
  BY <1>1, <1>6, <1>20 DEF Store, At
<1>21. CASE Persist(i)
  BY <1>5, <1>21 DEF Persist
<1> QED
  BY <1>9, <1>10, <1>11, <1>12, <1>13, <1>14, <1>15, <1>16, <1>17, <1>18, <1>19,
     <1>20, <1>21 DEF Close


(* Only these steps change a request, what was returned, or memory.        *)
LEMMA ClientChanges ==
    ASSUME [Next]_vars, ~UNCHANGED <<request, returned, memory>>
    PROVE  \/ \E i \in Instance : Request(i) \/ Close(i) \/ Crash(i)
           \/ StoreObserved
<1>1. ASSUME Reconcile, ~StoreObserved
      PROVE  UNCHANGED <<request, returned, memory>>
  BY <1>1 DEF Reconcile, Begin, ReadPositions, Cleanup, Sweep, LookStop, LookTake,
              Look, ReadFills, CancelSibling, Apply, PersistObserved, Publish,
              ReconcileOrders, ReconcilePositions, Unverified, Abort, client
<1>2. ASSUME NEW k \in Kind, Fill(k) \/ Expire(k)
      PROVE  UNCHANGED <<request, returned, memory>>
  BY <1>2 DEF Fill, Expire, client
<1>3. ASSUME Match PROVE UNCHANGED <<request, returned, memory>>
  BY <1>3 DEF Match, client
<1> QED
  BY <1>1, <1>2, <1>3 DEF Next, vars, client

LEMMA RequestStep ==
    IInv /\ [Next]_vars =>
        RequestsAreSound' /\ \A i \in Instance : Sound(request[i].trade)'
<1> SUFFICES ASSUME IInv, [Next]_vars, NEW j \in Instance
             PROVE  SoundRequest(request[j])' /\ Sound(request[j].trade)'
  BY DEF RequestsAreSound
<1>1. PICK q, t : q = request[j] /\ t = q.trade
  OBVIOUS
<1>2. SoundRequest(q)' /\ Sound(t)'
  BY <1>1, SoundRequestStays, SoundStays
  DEF IInv, TypeOK, RequestsAreSound, RecordsAreSound, RequestRecord
<1>3. CASE request'[j] = request[j]
  BY <1>1, <1>2, <1>3 DEF SoundRequest, Sound, Explained
<1>4. ASSUME NEW i \in Instance, Request(i) \/ Close(i) \/ Crash(i)
      PROVE  request'[j] = request[j]
             \/ (SoundRequest(request[j])' /\ Sound(request[j].trade)')
  BY <1>4, ActorStep
<1>5. StoreObserved => request' = request
  BY DEF StoreObserved, client
<1> QED
  BY <1>3, <1>4, <1>5, ClientChanges

(* Memory takes over a record of the request, of the cycle, or the row.    *)
LEMMA MemoryStep ==
    IInv /\ [Next]_vars => \A j \in Instance : Sound(memory[j])'
<1> SUFFICES ASSUME IInv, [Next]_vars, NEW j \in Instance
             PROVE  Sound(memory[j])'
  OBVIOUS
<1>1. /\ memory \in [Instance -> Trade] /\ scan.trade \in Trade /\ row \in Trade
      /\ request[j].trade \in Trade
      /\ Sound(memory[j]) /\ Sound(request[j].trade) /\ Sound(scan.trade) /\ Sound(row)
  BY DEF IInv, TypeOK, RecordsAreSound
<1>2. memory'[j] \in {memory[j], request[j].trade, scan.trade, row}
  <2>1. ASSUME NEW i \in Instance, Close(i) \/ Request(i)
        PROVE  memory' = memory \/ Store(i)
    BY <2>1 DEF Close, Prepare, Query, Accept, Refuse, Requery, Record, CancelStop,
                CancelTake, Cancel, Complete, Mark, Persist, GiveUp,
                FinalizationFails, Request
  <2>2. ASSUME NEW i \in Instance, Store(i) \/ Crash(i) \/ StoreObserved
        PROVE  memory'[j] \in {memory[j], request[j].trade, scan.trade, row}
    BY <1>1, <2>2 DEF Store, Crash, StoreObserved
  <2> QED
    BY <2>1, <2>2, ClientChanges
<1>3. PICK t : t = memory'[j]
  OBVIOUS
<1>4. t \in Trade /\ Sound(t)'
  BY <1>1, <1>2, <1>3, SoundStays
<1> QED
  BY <1>3, <1>4 DEF Sound, Explained

(* What a client got is the outcome of the completed intent.               *)
LEMMA OutcomeStep == IInv /\ [Next]_vars => OutcomeIsFinal'
<1> SUFFICES ASSUME IInv, [Next]_vars PROVE OutcomeIsFinal'
  OBVIOUS
<1>1. ASSUME returned' \subseteq returned PROVE OneOutcome'
  BY <1>1, IntentStep DEF IInv, OutcomeIsFinal, OneOutcome
<1>2. ASSUME NEW i \in Instance, Persist(i) PROVE OneOutcome'
  <2>1. intent.state = "COMPLETED" /\ request[i].trade = intent.trade
    BY <1>2 DEF Persist, At, IInv, RequestsAreSound, SoundRequest
  <2>2. returned' \subseteq returned \cup {request[i].trade}
    BY <1>2 DEF Persist
  <2> QED
    BY <2>1, <2>2, IntentStep DEF IInv, OutcomeIsFinal, OneOutcome
<1>3. ASSUME NEW i \in Instance, Request(i) \/ Close(i) \/ Crash(i), ~Persist(i)
      PROVE  returned' = returned
  BY <1>3 DEF Close, Prepare, Query, Accept, Refuse, Requery, Record, CancelStop,
              CancelTake, Cancel, Complete, Mark, Store, GiveUp,
              FinalizationFails, Request, Crash
<1>4. StoreObserved => returned' = returned
  BY DEF StoreObserved, client
<1> QED
  BY <1>1, <1>2, <1>3, <1>4, ClientChanges, IntentStep DEF OutcomeIsFinal

-----------------------------------------------------------------------------
(* The reconciliation cycle.                                               *)

(* A partial exit rules out that the trade is closed by someone else.      *)
LEMMA PartialExitIsAlone ==
    ASSUME IInv, [Next]_vars, row.lifecycle = "OPEN", row.exited > 0,
           ~Sweep, ~Apply, ~PersistObserved
    PROVE  row' = row
<1>1. SUFFICES ASSUME NEW i \in Instance, Persist(i), row' # row
               PROVE  FALSE
  BY <1>1, RowChanges
<1>2. PICK t : t = request[i].trade
  OBVIOUS
<1>3. t \in Trade /\ Sound(t) /\ t.lifecycle = "CLOSED"
  BY <1>1, <1>2, PersistWritesClosed DEF IInv, TypeOK
<1>4. t.exited = row.exited /\ close.filled = Quantity
  BY <1>3, Overwrite DEF Sound, Explained
<1>5. t.exited <= Protected /\ row.exited \in Nat
      /\ Protected \in Nat /\ position \in Nat /\ Quantity \in Nat
  BY <1>3, ExitAssumption
  DEF Sound, IInv, TypeOK, Trade, FillsAddUp, Protected, Kind, Algo
<1> QED
  BY <1>4, <1>5 DEF IInv, FillsAddUp

LEMMA ScanStep == IInv /\ [Next]_vars => ScanIsSound' /\ Sound(scan.trade)'
<1> SUFFICES ASSUME IInv, [Next]_vars PROVE ScanIsSound' /\ Sound(scan.trade)'
  OBVIOUS
<1>1. PICK t, m : t = scan.trade /\ m = memory[Leader]
  OBVIOUS
<1>2. /\ scan \in Scan /\ t \in Trade /\ m \in Trade /\ row \in Trade
      /\ Sound(t) /\ Sound(t)' /\ Sound(m)' /\ Sound(NewTrade)' /\ Sound(row)'
      /\ ScanIsSound
  BY <1>1, ExitAssumption, SoundStays, NewTradeIsSound, RowStep
  DEF IInv, TypeOK, RecordsAreSound, Scan
<1>3. \A k \in Kind : algo[k].filled \in Nat /\ algo'[k].filled \in Nat
                      /\ algo'[k].filled >= algo[k].filled
  BY ExchangeStep, ExitAssumption DEF IInv, TypeOK, ExchangeOK, Algo, FillsGrow
<1>4. ASSUME NEW u, scan'.trade = u, Sound(u)' PROVE Sound(scan.trade)'
  BY <1>4 DEF Sound, Explained
<1>5. NoScan.trade = NewTrade /\ NoScan \in Scan
  BY ConstantTypes DEF NoScan
<1>6. ASSUME rpc' \in {"idle", "positions", "stop", "take", "fills", "report",
                       "orders", "ownership"},
             scan'.trade \in {t, m, NewTrade}
      PROVE  ScanIsSound' /\ Sound(scan.trade)'
  BY <1>2, <1>4, <1>6 DEF ScanIsSound
<1>7. CASE UNCHANGED <<rpc, scan>>
  <2>1. ~Sweep /\ ~Apply /\ ~PersistObserved
    BY <1>7 DEF Sweep, Apply, PersistObserved, Then, Report, Keep
  <2>2. rpc \in {"sibling", "apply"} =>
          scan.looked[scan.by].filled \in 1 .. algo'[scan.by].filled
    BY <1>2, <1>3 DEF ScanIsSound
  <2>3. rpc \in {"store", "persist"} /\ scan.trade.lifecycle = "OPEN" => row' = row
    BY <1>2, <2>1, PartialExitIsAlone DEF ScanIsSound
  <2>4. ScanIsSound'
    BY <1>2, <1>7, <2>2, <2>3 DEF ScanIsSound
  <2> QED
    BY <1>1, <1>2, <1>4, <1>7, <2>4
<1>8. CASE Begin \/ Abort \/ Publish \/ ReconcileOrders \/ ReconcilePositions
  <2>1. rpc' \in {"idle", "positions", "report", "orders", "ownership"}
    BY <1>8 DEF Begin, Abort, Publish, ReconcileOrders, ReconcilePositions, Then
  <2>2. scan'.trade \in {t, m, NewTrade}
    BY <1>1, <1>2, <1>5, <1>8
    DEF Begin, Abort, Publish, ReconcileOrders, ReconcilePositions, Scan
  <2> QED
    BY <1>6, <2>1, <2>2
<1>9. CASE Unverified
  <2>1. rpc' = "report" /\ scan'.trade = NewTrade
    BY <1>5, <1>9 DEF Unverified, Report, Then, Scan
  <2> QED
    BY <1>6, <2>1
<1>10. CASE ReadPositions
  <2>1. scan'.trade = t
    BY <1>1, <1>2, <1>10 DEF ReadPositions, Scan
  <2>2. CASE PendingCleanup(scan.trade)
    BY <1>1, <1>2, <1>4, <1>10, <2>1, <2>2
    DEF ReadPositions, PendingCleanup, ScanIsSound, Then
  <2>3. CASE ~PendingCleanup(scan.trade)
    BY <1>6, <1>10, <2>1, <2>3 DEF ReadPositions, Then
  <2> QED
    BY <2>2, <2>3
<1>11. CASE Cleanup
  <2>1. rpc = "cleanup" /\ rpc' = "sweep" /\ scan' = scan
    BY <1>11 DEF Cleanup, Then
  <2> QED
    BY <1>1, <1>2, <1>4, <2>1 DEF ScanIsSound
<1>12. CASE Sweep
  (* What a protective order closed is closed in the row. *)
  <2>1. t.lifecycle = "CLOSED" /\ t.by \in Kind
    BY <1>1, <1>2, <1>12 DEF Sweep, ScanIsSound
  <2>2. row.lifecycle = "CLOSED"
    BY <1>2, <2>1 DEF Sound, Explained, Kind
  <2>3. rpc' = "store" /\ scan'.trade = row' /\ row'.lifecycle = "CLOSED"
    BY <1>2, <1>12, <2>2, RowIsFinal DEF Sweep, Then, Scan
  <2> QED
    BY <1>2, <2>3 DEF ScanIsSound, Sound, Explained
<1>13. CASE LookStop \/ LookTake
  <2>1. rpc' \in {"take", "fills"} /\ scan'.trade = t
    BY <1>1, <1>2, <1>13 DEF LookStop, LookTake, Look, Then, Scan
  <2> QED
    BY <1>6, <2>1
<1>14. CASE ReadFills
  <2>1. CASE rpc' = "report" /\ scan'.trade = NewTrade
    BY <1>6, <2>1
  <2>2. ASSUME NEW k \in Kind, algo[k].filled > 0, Proved(k, algo[k].filled),
               scan' = [scan EXCEPT !.by = k], rpc' \in {"sibling", "apply"}
        PROVE  ScanIsSound' /\ Sound(scan.trade)'
    <3>1. scan'.by = k /\ scan'.looked = scan.looked /\ scan'.trade = t
      BY <1>1, <1>2, <2>2 DEF Scan
    <3>2. scan.looked[k].filled \in 1 .. algo'[k].filled
      BY <1>3, <2>2 DEF Proved
    <3> QED
      BY <1>2, <1>4, <2>2, <3>1, <3>2 DEF ScanIsSound
  <2> QED
    BY <1>5, <1>14, <2>1, <2>2 DEF ReadFills, Report, Then, Scan
<1>15. CASE CancelSibling
  <2>1. /\ rpc = "sibling" /\ rpc' = "apply"
        /\ scan'.by = scan.by /\ scan'.looked = scan.looked /\ scan'.trade = t
    BY <1>1, <1>2, <1>15 DEF CancelSibling, Then, Scan
  <2>2. scan.looked[scan.by].filled \in 1 .. algo'[scan.by].filled
    BY <1>2, <1>3, <2>1 DEF ScanIsSound
  <2> QED
    BY <1>2, <1>4, <2>1, <2>2 DEF ScanIsSound
<1>16. CASE Apply
  <2>1. CASE Report(TRUE)
    BY <1>5, <1>6, <2>1 DEF Report, Then, Scan
  <2>2. CASE row.lifecycle = "CLOSED"
    <3>1. rpc' = "store" /\ scan'.trade = row /\ row' = row
      BY <1>2, <1>5, <1>16, <2>2 DEF Apply, Keep, Then, Scan
    <3> QED
      BY <1>2, <2>2, <3>1 DEF ScanIsSound, Sound, Explained
  <2>3. CASE row.lifecycle = "OPEN" /\ row' = Applied(row) /\ Keep(row')
    <3>1. rpc' = "store" /\ scan'.trade = row'
      BY <1>5, <2>3 DEF Keep, Then, Scan
    <3>2. row'.exited = scan.looked[scan.by].filled
      BY <1>2, <2>3 DEF Applied, Trade
    <3>3. row'.exited > 0
      BY <1>2, <1>3, <1>16, <3>2 DEF Apply, ScanIsSound
    <3> QED
      BY <1>2, <3>1, <3>3 DEF ScanIsSound, Sound, Explained
  <2> QED
    BY <1>16, <2>1, <2>2, <2>3 DEF Apply
<1>17. CASE StoreObserved
  <2>1. /\ rpc = "store" /\ rpc' = "persist" /\ scan' = scan /\ row' = row
    BY <1>17 DEF StoreObserved, Then, database
  <2> QED
    BY <1>1, <1>2, <1>4, <2>1 DEF ScanIsSound
<1>18. CASE PersistObserved
  <2>1. rpc' = "report" /\ scan'.trade = t
    BY <1>1, <1>18 DEF PersistObserved, Then
  <2> QED
    BY <1>6, <2>1
<1>19. ASSUME NEW i \in Instance, Crash(i) PROVE ScanIsSound' /\ Sound(scan.trade)'
  <2>1. UNCHANGED <<rpc, scan>> \/ (rpc' = "idle" /\ scan'.trade = NewTrade)
    BY <1>5, <1>19 DEF Crash, cycle
  <2> QED
    BY <1>6, <1>7, <2>1
<1>20. ASSUME NEW i \in Instance, Request(i) \/ Close(i) PROVE UNCHANGED <<rpc, scan>>
  BY <1>20 DEF Request, Close, Prepare, Query, Accept, Refuse, Requery, Record,
               CancelStop, CancelTake, Cancel, Complete, Mark, Store, Persist,
               GiveUp, FinalizationFails, cycle
<1>21. ASSUME (\E k \in Kind : Fill(k) \/ Expire(k)) \/ Match
       PROVE  UNCHANGED <<rpc, scan>>
  BY <1>21 DEF Fill, Expire, Match, cycle
<1> QED
  BY <1>7, <1>8, <1>9, <1>10, <1>11, <1>12, <1>13, <1>14, <1>15, <1>16, <1>17, <1>18,
     <1>19, <1>20, <1>21 DEF Next, Reconcile, vars, cycle

-----------------------------------------------------------------------------
(* The inductive invariant holds in every state; with it the variables     *)
(* have their types, and the protective quantity that _apply() records     *)
(* never exceeds the entry quantity.                                       *)
THEOREM ExitInvariant == Spec => []IInv /\ []TypeOK
<1>1. Init => IInv
  <2> SUFFICES ASSUME Init PROVE IInv
    OBVIOUS
  <2>1. TypeOK
    BY ConstantTypes, ExitAssumption
    DEF Init, TypeOK, Scan, RequestRecord, NewAlgo, Algo, NoOrder, Order, IntentState, LoopStep
  <2>2. FillsAddUp
    BY ExitAssumption DEF Init, FillsAddUp, Protected, NewAlgo, NoOrder, Kind
  <2>3. Sound(NewTrade)
    BY DEF Init, Sound, NewTrade, Protected, NewAlgo, Kind
  <2>4. RecordsAreSound /\ RequestsAreSound
    BY <2>3 DEF Init, RecordsAreSound, RequestsAreSound, SoundRequest, NoRequest,
                NoOrder, NoScan
  <2>5. OutcomeIsFinal /\ ScanIsSound
    BY DEF Init, OutcomeIsFinal, OneOutcome, ScanIsSound
  <2>6. EventsMatchTrade
    BY FS_EmptySet DEF Init, EventsMatchTrade, NewTrade
  <2> QED
    BY <2>1, <2>2, <2>4, <2>5, <2>6 DEF IInv
<1>2. IInv /\ [Next]_vars => IInv'
  BY TypePreserved, ExchangeStep, RowStep, IntentStep, RequestStep, MemoryStep,
     OutcomeStep, ScanStep DEF IInv, RecordsAreSound
<1>3. IInv => TypeOK
  BY DEF IInv
<1> QED
  BY <1>1, <1>2, <1>3, PTL DEF Spec

(* However many instances and retries submit the close, its position is    *)
(* never turned round.                                                     *)
THEOREM PositionIsNotReversed == Spec => []NotReversed
<1>1. IInv => NotReversed
  BY DEF IInv, FillsAddUp, NotReversed
<1> QED
  BY <1>1, ExitInvariant, PTL

(* A durably closed trade has no position left and names the order that    *)
(* filled all of it.                                                       *)
THEOREM DurableCloseIsExplained == Spec => []ClosedIsExplained
<1>1. IInv => ClosedIsExplained
  <2> SUFFICES ASSUME IInv, row.lifecycle = "CLOSED"
               PROVE  /\ position = 0
                      /\ \/ row.by = "MANUAL" /\ close.filled = Quantity
                         \/ row.by \in Kind /\ algo[row.by].filled = Quantity
    BY DEF ClosedIsExplained
  <2>1. Explained(row)
    BY DEF IInv, RecordsAreSound, Sound
  <2>2. /\ close.filled \in Nat /\ position \in Nat
        /\ \A k \in Kind : algo[k].filled \in Nat
        /\ position + Protected + close.filled = Quantity
    BY ExitAssumption DEF IInv, TypeOK, FillsAddUp, Order, Algo
  <2>3. position = 0
    BY <2>1, <2>2, ExitAssumption DEF Explained, Protected, Kind
  <2> QED
    BY <2>1, <2>3 DEF Explained
<1> QED
  BY <1>1, ExitInvariant, PTL

(* Every client that asked for the close got the one durable outcome.      *)
THEOREM CloseHasOneOutcome == Spec => []OneOutcome
<1>1. IInv => OneOutcome
  BY DEF IInv, OutcomeIsFinal
<1> QED
  BY <1>1, ExitInvariant, PTL

(* The lifecycle events and the protective quantity of the row agree.      *)
THEOREM EventsAndRowAgree == Spec => []EventsMatchTrade
<1>1. IInv => EventsMatchTrade
  BY DEF IInv
<1> QED
  BY <1>1, ExitInvariant, PTL

(* No step reopens a durably closed trade or changes what closed it.       *)
THEOREM ClosedTradeStaysClosed == Spec => ClosedStaysClosed
<1>1. IInv /\ [Next]_vars =>
        [row.lifecycle = "CLOSED" => row'.lifecycle = "CLOSED" /\ row'.by = row.by]_vars
  BY RowIsFinal
<1> QED
  BY <1>1, ExitInvariant, PTL DEF Spec, ClosedStaysClosed
=============================================================================
