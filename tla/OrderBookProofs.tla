-------------------------- MODULE OrderBookProofs --------------------------
(***************************************************************************)
(* Proofs about OrderBook, for every catalogue, set of calls, number of    *)
(* processes and bound.                                                    *)
(*                                                                         *)
(* TypeOK needs InHand: a call past its first step holds an Order object.  *)
(* The order numbers need Numbering: the used numbers are an initial       *)
(* segment 1..n of the numbers, an inserting call's number lies at most    *)
(* one beyond it, and what a cancellation read is what the table still     *)
(* holds, but for the status, until an order is saved over another one.    *)
(* One placement at a time keeps the number of an inserting call unused    *)
(* (Serial), so that this never happens.                                   *)
(*                                                                         *)
(* The two laws of the stock are inductive with these: a step moves units  *)
(* between the shelves, the hands of a placement and the orders that       *)
(* stand, so the proof follows each of the three sums through each action. *)
(* A sum is a number of pairs, which the library's theorems on             *)
(* cardinalities can count: no induction is needed.                        *)
(***************************************************************************)
EXTENDS OrderBook, FiniteSetTheorems, TLAPS

USE OrderBookAssumption

InHand ==
  \A c \in Calls :
    /\ pc[c] \in Placing => row[c] \in Row /\ row[c].status = "CONFIRMED"
    /\ pc[c] \in Cancelling \cup {"inserting"} => num[c] \in Ids
    /\ pc[c] = "updating" => row[c] \in Row /\ row[c].status = "CANCELLED"

Numbering ==
  /\ \E n \in 0..MaxOrders : Used = 1..n
  /\ \A c \in Calls : pc[c] = "inserting" => \A i \in Ids : i < num[c] => i \in Used
  /\ \A c \in Calls : pc[c] \in Cancelling /\ row[c] # NoRow => num[c] \in Used
  /\ \A c \in Calls : pc[c] = "updating" => row[c].buyer = buyer[c]
  /\ "collision" \notin anomalies =>
       \A c \in Calls : pc[c] \in Cancelling /\ row[c] # NoRow =>
         /\ orders[num[c]].buyer = row[c].buyer
         /\ orders[num[c]].lines = row[c].lines

Serial ==
  slots = 1 =>
    /\ "collision" \notin anomalies
    /\ \A c, d \in InFlight : c = d
    /\ \A c \in Calls : pc[c] = "inserting" => num[c] \notin Used

-----------------------------------------------------------------------------
\* An order's lines are natural quantities.
LEMMA CartsAreNatural ==
  ASSUME NEW l \in Carts
  PROVE  l \in [Skus -> Nat] /\ l \in Baskets
BY DEF Carts

\* Counting a table that uses exactly the numbers 1..n gives n.
LEMMA NextIsFresh ==
  ASSUME NEW n \in Nat, Used = 1..n
  PROVE  NextOrderId = n + 1
<1>1. Cardinality(1..n) = n
  BY FS_Interval
<1>2. QED
  BY <1>1 DEF NextOrderId

LEMMA UsedFinite == IsFiniteSet(Used) /\ Cardinality(Used) \in Nat
<1>1. IsFiniteSet(Ids)
  BY FS_Interval DEF Ids
<1>2. Used \subseteq Ids
  BY DEF Used
<1>3. QED
  BY <1>1, <1>2, FS_Subset, FS_CardinalityType

\* A second placement starts only where none is in flight, with one slot.
LEMMA FreeSlot ==
  ASSUME slots = 1, Cardinality(InFlight) < slots
  PROVE  InFlight = {}
<1>1. IsFiniteSet(InFlight)
  BY FS_Subset DEF InFlight
<1>2. Cardinality(InFlight) = 0
  BY <1>1, FS_CardinalityType
<1>3. QED
  BY <1>1, <1>2, FS_EmptySet

-----------------------------------------------------------------------------
(***************************************************************************)
(* Types                                                                   *)
(***************************************************************************)
TypeInv == TypeOK /\ InHand

LEMMA InitTypeInv == Init => TypeInv
BY DEF Init, TypeInv, TypeOK, InHand, Ids, Placing, Cancelling, Over

LEMMA StepTypeInv == TypeInv /\ [Next]_vars => TypeInv'
<1> SUFFICES ASSUME TypeInv, [Next]_vars
             PROVE  TypeInv'
  OBVIOUS
<1> USE DEF TypeInv, TypeOK, InHand, Placing, Cancelling, Over, Anomalies,
            setup, Goto, Note
<1>1. ASSUME NEW c \in Calls, NEW cart \in Carts, PlaceReserve(c, cart)
      PROVE  TypeInv'
  <2>1. cart \in [Skus -> Nat]
    BY CartsAreNatural
  <2>2. stock' \in [Processes -> [Skus -> Nat]]
    BY <1>1, <2>1 DEF PlaceReserve, HasStock, Deduct
  <2>3. /\ row' \in [Calls -> Row \cup {NoRow}]
        /\ row'[c] \in Row /\ row'[c].status = "CONFIRMED"
    BY <1>1 DEF PlaceReserve, Row
  <2>4. QED
    BY <1>1, <2>2, <2>3 DEF PlaceReserve
<1>2. ASSUME NEW c \in Calls, PlaceReject(c)
      PROVE  TypeInv'
  BY <1>2 DEF PlaceReject
<1>3. ASSUME NEW c \in Calls, NEW basket \in Baskets, NEW s \in Skus,
             PlaceRejectNegative(c, basket, s)
      PROVE  TypeInv'
  <2>1. basket[s] \in Int
    OBVIOUS
  <2>2. stock[host[c]][s] - basket[s] \in Nat
    BY <1>3, <2>1 DEF PlaceRejectNegative
  <2>3. stock' \in [Processes -> [Skus -> Nat]]
    BY <1>3, <2>2 DEF PlaceRejectNegative
  <2>4. QED
    BY <1>3, <2>3 DEF PlaceRejectNegative
<1>4. ASSUME NEW c \in Calls, Number(c)
      PROVE  TypeInv'
  <2>1. NextOrderId \in Ids
    BY <1>4, UsedFinite DEF Number, NextOrderId, Ids
  <2>2. QED
    BY <1>4, <2>1 DEF Number
<1>5. ASSUME NEW c \in Calls, NumberFails(c)
      PROVE  TypeInv'
  <2>1. row[c].lines \in [Skus -> Nat]
    BY <1>5, CartsAreNatural DEF NumberFails, Row
  <2>2. stock' \in [Processes -> [Skus -> Nat]]
    BY <1>5, <2>1 DEF NumberFails, Restore
  <2>3. QED
    BY <1>5, <2>2 DEF NumberFails
<1>6. ASSUME NEW c \in Calls, NumberTimesOut(c)
      PROVE  TypeInv'
  BY <1>6 DEF NumberTimesOut
<1>7. ASSUME NEW c \in Calls, NEW reply \in {"placed", "failed"}, Insert(c, reply)
      PROVE  TypeInv'
  <2>1. orders' \in [Ids -> Row \cup {NoRow}]
    BY <1>7 DEF Insert
  <2>2. QED
    BY <1>7, <2>1 DEF Insert
<1>8. ASSUME NEW c \in Calls, InsertFails(c)
      PROVE  TypeInv'
  BY <1>8 DEF InsertFails
<1>9. ASSUME NEW c \in Calls, NEW i \in Ids, CancelRead(c, i)
      PROVE  TypeInv'
  BY <1>9 DEF CancelRead
<1>10. ASSUME NEW c \in Calls, CancelReadFails(c)
       PROVE  TypeInv'
  BY <1>10 DEF CancelReadFails
<1>11. ASSUME NEW c \in Calls, NEW blank \in BOOLEAN, CancelReject(c, blank)
       PROVE  TypeInv'
  BY <1>11 DEF CancelReject
<1>12. ASSUME NEW c \in Calls, CancelRestock(c)
       PROVE  TypeInv'
  <2>1. row[c] \in Row
    BY <1>12 DEF CancelRestock, Cancellable, Owned
  <2>2. row[c].lines \in [Skus -> Nat]
    BY <2>1, CartsAreNatural DEF Row
  <2>3. stock' \in [Processes -> [Skus -> Nat]]
    BY <1>12, <2>2 DEF CancelRestock, Restore
  <2>4. /\ row' \in [Calls -> Row \cup {NoRow}]
        /\ row'[c] \in Row /\ row'[c].status = "CANCELLED"
    BY <1>12, <2>1 DEF CancelRestock, Row
  <2>5. QED
    BY <1>12, <2>3, <2>4 DEF CancelRestock
<1>13. ASSUME NEW c \in Calls, NEW reply \in {"cancelled", "failed"}, CancelWrite(c, reply)
       PROVE  TypeInv'
  <2>1. orders' \in [Ids -> Row \cup {NoRow}]
    BY <1>13 DEF CancelWrite
  <2>2. QED
    BY <1>13, <2>1 DEF CancelWrite
<1>14. ASSUME NEW c \in Calls, CancelWriteFails(c)
       PROVE  TypeInv'
  BY <1>14 DEF CancelWriteFails
<1>15. ASSUME NEW p \in Processes, Restart(p)
       PROVE  TypeInv'
  BY <1>15 DEF Restart
<1>16. CASE UNCHANGED vars
  BY <1>16 DEF vars
<1>17. QED
  BY <1>1, <1>2, <1>3, <1>4, <1>5, <1>6, <1>7, <1>8, <1>9, <1>10, <1>11, <1>12,
     <1>13, <1>14, <1>15, <1>16 DEF Next, Place, Cancel

\* Every variable keeps its type; no stock table ever goes below zero.
THEOREM TypeCorrect == Spec => []TypeOK
<1>1. Spec => []TypeInv
  BY InitTypeInv, StepTypeInv, PTL DEF Spec
<1>2. QED
  BY <1>1, PTL DEF TypeInv

-----------------------------------------------------------------------------
(***************************************************************************)
(* Order numbers, and what cancellations hold                              *)
(***************************************************************************)
IInv == TypeInv /\ Numbering /\ Serial

LEMMA InitIInv == Init => IInv
<1> SUFFICES ASSUME Init PROVE IInv
  OBVIOUS
<1> USE DEF Init
<1>1. TypeInv
  BY InitTypeInv
<1>2. Used = {}
  BY DEF Used
<1>3. Numbering
  <2>1. Used = 1..0 /\ 0 \in 0..MaxOrders
    BY <1>2
  <2>2. QED
    BY <1>2, <2>1 DEF Numbering, Cancelling
<1>4. Serial
  BY DEF Serial, InFlight, Placing
<1>5. QED
  BY <1>1, <1>3, <1>4 DEF IInv

\* Saving row r under number k, at most one beyond the used numbers, keeps
\* them an initial segment.
LEMMA UsedAfterSave ==
  ASSUME TypeInv, NEW k \in Ids, NEW r \in Row, NEW n \in 0..MaxOrders,
         Used = 1..n, k <= n + 1, orders' = [orders EXCEPT ![k] = r]
  PROVE  /\ Used' = Used \cup {k}
         /\ \E m \in 0..MaxOrders : Used' = 1..m
<1>1. Used' = Used \cup {k}
  BY DEF TypeInv, TypeOK, Used
<1>2. CASE k <= n
  <2>1. Used' = 1..n
    BY <1>1, <1>2 DEF Ids
  <2>2. QED
    BY <1>1, <2>1
<1>3. CASE k = n + 1
  <2>1. Used' = 1..(n + 1)
    BY <1>1, <1>3
  <2>2. n + 1 \in 0..MaxOrders
    BY <1>3 DEF Ids
  <2>3. QED
    BY <1>1, <2>1, <2>2
<1>4. QED
  BY <1>2, <1>3 DEF Ids

LEMMA StepNumbering == IInv /\ [Next]_vars => Numbering'
<1> SUFFICES ASSUME IInv, [Next]_vars
             PROVE  Numbering'
  OBVIOUS
<1> USE DEF IInv, TypeInv, TypeOK, InHand, Numbering, Placing, Cancelling, Over,
            setup, Goto, Note
<1> PICK n \in 0..MaxOrders : Used = 1..n
  OBVIOUS
<1>0. ASSUME UNCHANGED orders
      PROVE  UNCHANGED Used
  BY <1>0 DEF Used
<1>1. ASSUME NEW c \in Calls, NEW cart \in Carts, PlaceReserve(c, cart)
      PROVE  Numbering'
  BY <1>0, <1>1 DEF PlaceReserve
<1>2. ASSUME NEW c \in Calls, PlaceReject(c)
      PROVE  Numbering'
  BY <1>0, <1>2 DEF PlaceReject
<1>3. ASSUME NEW c \in Calls, NEW basket \in Baskets, NEW s \in Skus,
             PlaceRejectNegative(c, basket, s)
      PROVE  Numbering'
  BY <1>0, <1>3 DEF PlaceRejectNegative
<1>4. ASSUME NEW c \in Calls, Number(c)
      PROVE  Numbering'
  <2>1. num'[c] = n + 1
    BY <1>4, NextIsFresh DEF Number
  <2>2. \A i \in Ids : i < num'[c] => i \in Used
    BY <2>1 DEF Ids
  <2>3. QED
    BY <1>0, <1>4, <2>2 DEF Number
<1>5. ASSUME NEW c \in Calls, NumberFails(c)
      PROVE  Numbering'
  BY <1>0, <1>5 DEF NumberFails
<1>6. ASSUME NEW c \in Calls, NumberTimesOut(c)
      PROVE  Numbering'
  BY <1>0, <1>6 DEF NumberTimesOut
<1>7. ASSUME NEW c \in Calls, NEW reply \in {"placed", "failed"}, Insert(c, reply)
      PROVE  Numbering'
  <2>1. num[c] \in Ids /\ row[c] \in Row
    BY <1>7 DEF Insert
  <2>2. num[c] <= n + 1
    <3>1. CASE num[c] = 1
      BY <3>1
    <3>2. CASE num[c] > 1
      <4>1. num[c] - 1 \in Ids /\ num[c] - 1 < num[c]
        BY <2>1, <3>2 DEF Ids
      <4>2. num[c] - 1 \in 1..n
        BY <1>7, <4>1 DEF Insert
      <4>3. QED
        BY <2>1, <4>2 DEF Ids
    <3>3. QED
      BY <2>1, <3>1, <3>2 DEF Ids
  <2>3. /\ Used' = Used \cup {num[c]}
        /\ \E m \in 0..MaxOrders : Used' = 1..m
    BY <1>7, <2>1, <2>2, UsedAfterSave DEF Insert
  <2>4. ASSUME "collision" \notin anomalies', NEW d \in Calls,
               pc'[d] \in Cancelling, row'[d] # NoRow
        PROVE  /\ orders'[num'[d]].buyer = row'[d].buyer
               /\ orders'[num'[d]].lines = row'[d].lines
    <3>1. "collision" \notin anomalies /\ orders[num[c]] = NoRow
      BY <1>7, <2>4 DEF Insert
    <3>2. pc[d] \in Cancelling /\ row[d] # NoRow /\ num[d] \in Used
      BY <1>7, <2>4 DEF Insert
    <3>3. num[d] # num[c]
      BY <3>1, <3>2 DEF Used
    <3>4. QED
      BY <1>7, <3>1, <3>2, <3>3 DEF Insert, Used
  <2>5. ASSUME NEW d \in Calls
        PROVE  /\ pc'[d] = "inserting" => pc[d] = "inserting"
               /\ pc'[d] \in Cancelling => pc[d] = pc'[d]
    BY <1>7 DEF Insert
  <2>6. UNCHANGED <<num, row, buyer>>
    BY <1>7 DEF Insert
  <2>7. QED
    BY <2>3, <2>4, <2>5, <2>6
<1>8. ASSUME NEW c \in Calls, InsertFails(c)
      PROVE  Numbering'
  BY <1>0, <1>8 DEF InsertFails
<1>9. ASSUME NEW c \in Calls, NEW i \in Ids, CancelRead(c, i)
      PROVE  Numbering'
  <2>1. row'[c] = orders[i] /\ num'[c] = i /\ pc'[c] = "deciding"
    BY <1>9 DEF CancelRead
  <2>2. row'[c] # NoRow => num'[c] \in Used
    BY <2>1 DEF Used
  <2>3. \A d \in Calls : d # c => UNCHANGED <<pc[d], num[d], row[d]>>
    BY <1>9 DEF CancelRead
  <2>4. UNCHANGED <<orders, buyer, anomalies>>
    BY <1>9 DEF CancelRead
  <2>5. QED
    BY <1>0, <2>1, <2>2, <2>3, <2>4, ZenonT(30)
<1>10. ASSUME NEW c \in Calls, CancelReadFails(c)
       PROVE  Numbering'
  BY <1>0, <1>10 DEF CancelReadFails
<1>11. ASSUME NEW c \in Calls, NEW blank \in BOOLEAN, CancelReject(c, blank)
       PROVE  Numbering'
  BY <1>0, <1>11 DEF CancelReject
<1>12. ASSUME NEW c \in Calls, CancelRestock(c)
       PROVE  Numbering'
  <2>1. row[c] \in Row /\ row[c] # NoRow /\ row[c].buyer = buyer[c]
    BY <1>12 DEF CancelRestock, Cancellable, Owned
  <2>2. /\ row'[c].buyer = row[c].buyer
        /\ row'[c].lines = row[c].lines
    BY <1>12, <2>1 DEF CancelRestock, Row
  <2>3. \A d \in Calls : d # c => UNCHANGED <<pc[d], row[d]>>
    BY <1>12 DEF CancelRestock
  <2>4. /\ UNCHANGED <<orders, num, buyer>>
        /\ pc[c] = "deciding" /\ pc'[c] = "updating"
        /\ "collision" \notin anomalies' => "collision" \notin anomalies
    BY <1>12 DEF CancelRestock
  <2>5. Used' = Used
    BY <1>0, <2>4
  <2>6. ASSUME NEW d \in Calls
        PROVE  /\ pc'[d] = "inserting" => pc[d] = "inserting"
               /\ pc'[d] \in Cancelling /\ row'[d] # NoRow
                    => /\ num[d] \in Used
                       /\ pc[d] \in Cancelling /\ row[d] # NoRow
                       /\ row'[d].buyer = row[d].buyer /\ row'[d].lines = row[d].lines
               /\ pc'[d] = "updating" => row'[d].buyer = buyer[d]
    <3>1. CASE d = c
      BY <2>1, <2>2, <2>4, <3>1
    <3>2. CASE d # c
      BY <2>3, <3>2
    <3>3. QED
      BY <3>1, <3>2
  <2>7. QED
    BY <2>4, <2>5, <2>6
<1>13. ASSUME NEW c \in Calls, NEW reply \in {"cancelled", "failed"}, CancelWrite(c, reply)
       PROVE  Numbering'
  <2>1. num[c] \in Used /\ row[c] \in Row /\ num[c] \in Ids
    BY <1>13 DEF CancelWrite
  <2>2. Used' = Used
    BY <1>13, <2>1 DEF CancelWrite, Used
  <2>3. ASSUME NEW d \in Calls
        PROVE  /\ pc'[d] = "inserting" => pc[d] = "inserting"
               /\ pc'[d] \in Cancelling => pc[d] = pc'[d]
    BY <1>13 DEF CancelWrite
  <2>4. UNCHANGED <<num, row, buyer, anomalies>>
    BY <1>13 DEF CancelWrite
  <2>5. "collision" \notin anomalies =>
          \A i \in Ids : i \in Used => /\ orders'[i].buyer = orders[i].buyer
                                     /\ orders'[i].lines = orders[i].lines
    BY <1>13, <2>1 DEF CancelWrite
  <2>6. Used \subseteq Ids
    BY DEF Used
  <2>7. ASSUME "collision" \notin anomalies', NEW d \in Calls,
               pc'[d] \in Cancelling, row'[d] # NoRow
        PROVE  /\ orders'[num'[d]].buyer = row'[d].buyer
               /\ orders'[num'[d]].lines = row'[d].lines
    BY <2>3, <2>4, <2>5, <2>6, <2>7
  <2>8. QED
    BY <2>2, <2>3, <2>4, <2>7
<1>14. ASSUME NEW c \in Calls, CancelWriteFails(c)
       PROVE  Numbering'
  BY <1>0, <1>14 DEF CancelWriteFails
<1>15. ASSUME NEW p \in Processes, Restart(p)
       PROVE  Numbering'
  BY <1>0, <1>15 DEF Restart
<1>16. CASE UNCHANGED vars
  BY <1>0, <1>16 DEF vars
<1>17. QED
  BY <1>1, <1>2, <1>3, <1>4, <1>5, <1>6, <1>7, <1>8, <1>9, <1>10, <1>11, <1>12,
     <1>13, <1>14, <1>15, <1>16 DEF Next, Place, Cancel

LEMMA StepSerial == IInv /\ [Next]_vars => Serial'
<1> SUFFICES ASSUME IInv, [Next]_vars, slots' = 1
             PROVE  /\ "collision" \notin anomalies'
                    /\ \A c, d \in InFlight' : c = d
                    /\ \A c \in Calls : pc'[c] = "inserting" => num'[c] \notin Used'
  BY DEF Serial
<1>s. slots = 1
  BY DEF Next, Place, Cancel, vars, setup, PlaceReserve, PlaceReject,
         PlaceRejectNegative, Number, NumberFails, NumberTimesOut, Insert,
         InsertFails, CancelRead, CancelReadFails, CancelReject, CancelRestock,
         CancelWrite, CancelWriteFails, Restart
<1> USE <1>s DEF IInv, TypeInv, TypeOK, InHand, Serial, InFlight, Placing,
                 Cancelling, Over, setup, Goto, Note
<1>0. ASSUME UNCHANGED orders
      PROVE  UNCHANGED Used
  BY <1>0 DEF Used
<1>1. ASSUME NEW c \in Calls, NEW cart \in Carts, PlaceReserve(c, cart)
      PROVE  /\ "collision" \notin anomalies'
             /\ \A d, e \in InFlight' : d = e
             /\ \A d \in Calls : pc'[d] = "inserting" => num'[d] \notin Used'
  <2>1. InFlight = {}
    BY <1>1, FreeSlot DEF PlaceReserve
  <2>2. InFlight' = {c}
    BY <1>1, <2>1 DEF PlaceReserve
  <2>3. QED
    BY <1>0, <1>1, <2>2 DEF PlaceReserve
<1>2. ASSUME NEW c \in Calls,
             \/ PlaceReject(c) \/ NumberFails(c) \/ NumberTimesOut(c)
             \/ InsertFails(c) \/ CancelReadFails(c) \/ CancelWriteFails(c)
             \/ CancelRestock(c)
             \/ \E blank \in BOOLEAN : CancelReject(c, blank)
             \/ \E i \in Ids : CancelRead(c, i)
             \/ \E b \in Baskets, s \in Skus : PlaceRejectNegative(c, b, s)
      PROVE  /\ "collision" \notin anomalies'
             /\ \A d, e \in InFlight' : d = e
             /\ \A d \in Calls : pc'[d] = "inserting" => num'[d] \notin Used'
  <2>1. UNCHANGED orders /\ "collision" \notin anomalies'
    BY <1>2 DEF PlaceReject, NumberFails, NumberTimesOut, InsertFails, CancelReadFails,
                CancelWriteFails, CancelRestock, CancelReject, CancelRead,
                PlaceRejectNegative
  <2>2. \A d \in Calls : pc'[d] \in Placing => pc'[d] = pc[d] /\ num'[d] = num[d]
    BY <1>2 DEF PlaceReject, NumberFails, NumberTimesOut, InsertFails, CancelReadFails,
                CancelWriteFails, CancelRestock, CancelReject, CancelRead,
                PlaceRejectNegative
  <2>3. QED
    BY <1>0, <2>1, <2>2
<1>3. ASSUME NEW c \in Calls, Number(c)
      PROVE  /\ "collision" \notin anomalies'
             /\ \A d, e \in InFlight' : d = e
             /\ \A d \in Calls : pc'[d] = "inserting" => num'[d] \notin Used'
  <2>1. PICK n \in 0..MaxOrders : Used = 1..n
    BY DEF Numbering
  <2>2. num'[c] = n + 1
    BY <1>3, <2>1, NextIsFresh DEF Number
  <2>3. num'[c] \notin Used'
    BY <1>0, <1>3, <2>1, <2>2 DEF Number
  <2>4. InFlight' = InFlight
    BY <1>3 DEF Number
  <2>5. \A d \in Calls : pc'[d] = "inserting" => d = c
    BY <1>3 DEF Number
  <2>6. QED
    BY <1>3, <2>3, <2>4, <2>5 DEF Number
<1>4. ASSUME NEW c \in Calls, NEW reply \in {"placed", "failed"}, Insert(c, reply)
      PROVE  /\ "collision" \notin anomalies'
             /\ \A d, e \in InFlight' : d = e
             /\ \A d \in Calls : pc'[d] = "inserting" => num'[d] \notin Used'
  <2>1. num[c] \in Ids /\ num[c] \notin Used
    BY <1>4 DEF Insert
  <2>2. "collision" \notin anomalies'
    BY <1>4, <2>1 DEF Insert, Used
  <2>3. \A d \in Calls : pc'[d] \notin Placing
    BY <1>4 DEF Insert
  <2>4. QED
    BY <2>2, <2>3
<1>5. ASSUME NEW c \in Calls, NEW reply \in {"cancelled", "failed"}, CancelWrite(c, reply)
      PROVE  /\ "collision" \notin anomalies'
             /\ \A d, e \in InFlight' : d = e
             /\ \A d \in Calls : pc'[d] = "inserting" => num'[d] \notin Used'
  <2>1. num[c] \in Used /\ row[c] \in Row /\ num[c] \in Ids
    BY <1>5 DEF CancelWrite, Numbering
  <2>2. Used' = Used
    BY <1>5, <2>1 DEF CancelWrite, Used
  <2>3. \A d \in Calls : pc'[d] \in Placing => pc'[d] = pc[d]
    BY <1>5 DEF CancelWrite
  <2>4. QED
    BY <1>5, <2>2, <2>3 DEF CancelWrite
<1>6. ASSUME NEW p \in Processes, Restart(p)
      PROVE  /\ "collision" \notin anomalies'
             /\ \A d, e \in InFlight' : d = e
             /\ \A d \in Calls : pc'[d] = "inserting" => num'[d] \notin Used'
  <2>1. \A d \in Calls : pc'[d] \in Placing => pc'[d] = pc[d]
    BY <1>6 DEF Restart
  <2>2. QED
    BY <1>0, <1>6, <2>1 DEF Restart
<1>7. CASE UNCHANGED vars
  BY <1>0, <1>7 DEF vars
<1>8. QED
  BY <1>1, <1>2, <1>3, <1>4, <1>5, <1>6, <1>7 DEF Next, Place, Cancel

\* The inductive invariant holds in every reachable state.
THEOREM Inductive == Spec => []IInv
<1>1. IInv /\ [Next]_vars => IInv'
  BY StepTypeInv, StepNumbering, StepSerial DEF IInv
<1>2. QED
  BY InitIInv, <1>1, PTL DEF Spec

\* With one placement at a time no order is ever saved over another one,
\* whatever database call fails or times out and whichever process restarts.
THEOREM SerialIsSafe == Spec => []SerialNeverCollides
<1>1. IInv => SerialNeverCollides
  BY DEF IInv, Serial, SerialNeverCollides
<1>2. QED
  BY <1>1, Inductive, PTL

-----------------------------------------------------------------------------
(***************************************************************************)
(* The order table implements the ledger                                   *)
(***************************************************************************)

\* One step of the order table, short of a collision, is a step of the ledger.
LEMMA StepLedger ==
  IInv /\ [Next]_vars => [Ledger!Next \/ "collision" \in anomalies']_orders
<1> SUFFICES ASSUME IInv, [Next]_vars, orders' # orders, "collision" \notin anomalies'
             PROVE  Ledger!Next
  OBVIOUS
<1> USE DEF IInv, TypeInv, TypeOK, InHand, Placing, Cancelling
<1>1. ASSUME NEW c \in Calls, NEW reply \in {"placed", "failed"}, Insert(c, reply)
      PROVE  Ledger!Next
  <2>1. num[c] \in Ids /\ row[c] \in Row /\ row[c].status = "CONFIRMED"
    BY <1>1 DEF Insert
  <2>2. orders[num[c]] = NoRow
    BY <1>1 DEF Insert, Note
  <2>3. \A j \in Ids : j < num[c] => orders[j] # NoRow
    BY <1>1 DEF Insert, Numbering, Used
  <2>4. PICK b \in Buyers, l \in Carts :
           row[c] = [buyer |-> b, lines |-> l, status |-> "CONFIRMED"]
    BY <2>1 DEF Row
  <2>5. orders' = [orders EXCEPT ![num[c]] =
                     [buyer |-> b, lines |-> l, status |-> "CONFIRMED"]]
    BY <1>1, <2>4 DEF Insert
  <2>6. Ledger!Place(num[c])
    BY <2>2, <2>3, <2>5 DEF Ledger!Place
  <2>7. QED
    BY <2>1, <2>6 DEF Ledger!Next
<1>2. ASSUME NEW c \in Calls, NEW reply \in {"cancelled", "failed"}, CancelWrite(c, reply)
      PROVE  Ledger!Next
  <2>1. /\ num[c] \in Used /\ num[c] \in Ids
        /\ row[c] \in Row /\ row[c] # NoRow /\ row[c].status = "CANCELLED"
    BY <1>2 DEF CancelWrite, Numbering
  <2>2. orders[num[c]] \in Row /\ orders[num[c]] # NoRow
    BY <2>1 DEF Used
  <2>3. "collision" \notin anomalies
    BY <1>2 DEF CancelWrite
  <2>4. /\ orders[num[c]].buyer = row[c].buyer
        /\ orders[num[c]].lines = row[c].lines
    BY <1>2, <2>1, <2>3 DEF CancelWrite, Numbering
  <2>5. row[c] = [orders[num[c]] EXCEPT !.status = "CANCELLED"]
    BY <2>1, <2>2, <2>4 DEF Row
  <2>6. orders' = [orders EXCEPT ![num[c]].status = "CANCELLED"]
    BY <1>2, <2>5 DEF CancelWrite
  <2>7. orders[num[c]].status = "CONFIRMED"
    <3>1. orders'[num[c]] # orders[num[c]]
      BY <1>2, <2>1 DEF CancelWrite
    <3>2. orders[num[c]] # row[c]
      BY <1>2, <2>1, <3>1 DEF CancelWrite
    <3>3. QED
      BY <2>1, <2>2, <2>4, <3>2 DEF Row
  <2>8. Ledger!Cancel(num[c])
    BY <2>2, <2>6, <2>7 DEF Ledger!Cancel
  <2>9. QED
    BY <2>1, <2>8 DEF Ledger!Next
<1>3. CASE UNCHANGED vars
  BY <1>3 DEF vars
<1>4. QED
  BY <1>1, <1>2, <1>3 DEF Next, Place, Cancel, PlaceReserve, PlaceReject,
     PlaceRejectNegative, Number, NumberFails, NumberTimesOut, InsertFails,
     CancelRead, CancelReadFails, CancelReject, CancelRestock, CancelWriteFails, Restart

\* Until an order is saved over another one, every change of the order table
\* is one the ledger allows.
THEOREM OrdersRefine == Spec => OrdersImplementLedger
BY Inductive, StepLedger, PTL DEF Spec, OrdersImplementLedger

-----------------------------------------------------------------------------
(***************************************************************************)
(* Who may cancel                                                          *)
(***************************************************************************)
LEMMA StepOwner ==
  ASSUME IInv, [Next]_vars, NEW i \in Ids, "collision" \notin anomalies,
         orders[i] # NoRow, orders[i].status = "CONFIRMED",
         orders'[i].status = "CANCELLED"
  PROVE  \E c \in Calls : /\ pc[c] = "updating" /\ pc'[c] # "updating"
                          /\ num[c] = i /\ buyer[c] = orders[i].buyer
<1> USE DEF IInv, TypeInv, TypeOK, InHand, Placing, Cancelling
<1>0. orders' # orders
  OBVIOUS
<1>1. ASSUME NEW c \in Calls, NEW reply \in {"placed", "failed"}, Insert(c, reply)
      PROVE  FALSE
  <2>1. row[c].status = "CONFIRMED" /\ orders'[i] \in {orders[i], row[c]}
    BY <1>1 DEF Insert
  <2>2. QED
    BY <2>1
<1>2. ASSUME NEW c \in Calls, NEW reply \in {"cancelled", "failed"}, CancelWrite(c, reply)
      PROVE  /\ pc[c] = "updating" /\ pc'[c] # "updating"
             /\ num[c] = i /\ buyer[c] = orders[i].buyer
  <2>1. pc[c] = "updating" /\ pc'[c] # "updating"
    BY <1>2 DEF CancelWrite, Goto
  <2>2. num[c] = i
    BY <1>0, <1>2 DEF CancelWrite
  <2>3. row[c] \in Row /\ row[c] # NoRow /\ row[c].buyer = buyer[c]
    BY <2>1 DEF Numbering
  <2>4. orders[i].buyer = row[c].buyer
    BY <2>1, <2>2, <2>3 DEF Numbering
  <2>5. QED
    BY <2>1, <2>2, <2>3, <2>4
<1>3. ~ UNCHANGED vars
  BY <1>0 DEF vars
<1>4. \/ \E c \in Calls, reply \in {"placed", "failed"} : Insert(c, reply)
      \/ \E c \in Calls, reply \in {"cancelled", "failed"} : CancelWrite(c, reply)
  BY <1>0, <1>3 DEF Next, Place, Cancel, PlaceReserve, PlaceReject,
     PlaceRejectNegative, Number, NumberFails, NumberTimesOut, InsertFails,
     CancelRead, CancelReadFails, CancelReject, CancelRestock, CancelWriteFails, Restart
<1>5. PICK c \in Calls : \E reply \in {"cancelled", "failed"} : CancelWrite(c, reply)
  BY <1>1, <1>4
<1>6. /\ pc[c] = "updating" /\ pc'[c] # "updating"
      /\ num[c] = i /\ buyer[c] = orders[i].buyer
  BY <1>2, <1>5
<1>7. QED
  BY <1>6

\* Until an order is saved over another one, an order is cancelled only by
\* the save of a cancellation its own buyer asked for.
THEOREM OwnerOnly == Spec => OnlyOwnerCancels
<1>1. IInv /\ [Next]_vars =>
        [\A i \in Ids :
           /\ "collision" \notin anomalies /\ orders[i] # NoRow /\ orders[i].status = "CONFIRMED"
           /\ orders'[i].status = "CANCELLED"
           => \E c \in Calls : /\ pc[c] = "updating" /\ pc'[c] # "updating"
                               /\ num[c] = i /\ buyer[c] = orders[i].buyer]_vars
  BY StepOwner
<1>2. QED
  BY Inductive, <1>1, PTL DEF Spec, OnlyOwnerCancels

-----------------------------------------------------------------------------
(***************************************************************************)
(* Sums, counted                                                           *)
(***************************************************************************)
Pairs(f) == UNION {{x} \X (1..f[x]) : x \in DOMAIN f}

LEMMA PairsFinite ==
  ASSUME NEW D, IsFiniteSet(D), NEW f \in [D -> Nat]
  PROVE  IsFiniteSet(Pairs(f)) /\ Total(f) = Cardinality(Pairs(f)) /\ Total(f) \in Nat
<1> DEFINE Column(x) == {x} \X (1..f[x])
           Columns == {Column(x) : x \in D}
<1>1. \A x \in D : IsFiniteSet(Column(x))
  <2> SUFFICES ASSUME NEW x \in D PROVE IsFiniteSet(Column(x))
    OBVIOUS
  <2>0. f[x] \in Int
    OBVIOUS
  <2>1. IsFiniteSet({x})
    BY FS_Singleton
  <2>2. IsFiniteSet(1..f[x])
    BY <2>0, FS_Interval
  <2>3. QED
    BY <2>1, <2>2, FS_Product
<1>2. IsFiniteSet(Columns)
  <2>1. [x \in D |-> Column(x)] \in Surjection(D, Columns)
    BY DEF Surjection
  <2>2. QED
    BY <2>1, FS_Surjection
<1>3. IsFiniteSet(UNION Columns)
  BY <1>1, <1>2, FS_UNION
<1>4. Pairs(f) = UNION Columns
  BY DEF Pairs
<1>5. Total(f) = Cardinality(Pairs(f))
  BY DEF Total, Pairs
<1>6. QED
  BY <1>3, <1>4, <1>5, FS_CardinalityType

\* One more summand.
LEMMA TotalAdd ==
  ASSUME NEW D, IsFiniteSet(D), NEW x, x \notin D,
         NEW f \in [D \cup {x} -> Nat], NEW g \in [D -> Nat],
         \A d \in D : g[d] = f[d]
  PROVE  Total(f) = Total(g) + f[x]
<1> DEFINE Column == {x} \X (1..f[x])
<1>1. IsFiniteSet(Column) /\ Cardinality(Column) = f[x]
  <2>1. IsFiniteSet({x}) /\ Cardinality({x}) = 1
    BY FS_Singleton
  <2>2. f[x] \in Nat
    OBVIOUS
  <2>3. IsFiniteSet(1..f[x]) /\ Cardinality(1..f[x]) = f[x]
    BY <2>2, FS_Interval
  <2>4. /\ IsFiniteSet({x} \X (1..f[x]))
        /\ Cardinality({x} \X (1..f[x])) = Cardinality({x}) * Cardinality(1..f[x])
    BY <2>1, <2>3, FS_Product
  <2>5. QED
    BY <2>1, <2>2, <2>3, <2>4
<1>2. IsFiniteSet(Pairs(g)) /\ Total(g) = Cardinality(Pairs(g)) /\ Total(g) \in Nat
  BY PairsFinite
<1>3. Pairs(f) = Pairs(g) \cup Column
  BY DEF Pairs
<1>4. Pairs(g) \cap Column = {}
  BY DEF Pairs
<1>5. Cardinality(Pairs(f)) = Total(g) + f[x]
  <2> HIDE DEF Column
  <2>1. Cardinality(Pairs(g) \cup Column)
          = Cardinality(Pairs(g)) + Cardinality(Column) - Cardinality(Pairs(g) \cap Column)
    BY <1>1, <1>2, FS_Union
  <2>2. Cardinality(Pairs(g) \cap Column) = 0
    BY <1>4, FS_EmptySet
  <2>3. QED
    BY <1>1, <1>2, <1>3, <2>1, <2>2
<1>6. QED
  BY <1>5 DEF Total, Pairs

\* A summand that changes.
LEMMA TotalChange ==
  ASSUME NEW D, IsFiniteSet(D), NEW x \in D,
         NEW f \in [D -> Nat], NEW g \in [D -> Nat],
         \A d \in D \ {x} : g[d] = f[d]
  PROVE  Total(g) - g[x] = Total(f) - f[x]
<1> DEFINE E == D \ {x}
           h == [d \in E |-> f[d]]
<1>1. IsFiniteSet(E) /\ x \notin E /\ D = E \cup {x}
  BY FS_RemoveElement
<1>2. h \in [E -> Nat] /\ Total(h) \in Nat
  BY <1>1, PairsFinite
<1>3. /\ f \in [E \cup {x} -> Nat] /\ \A d \in E : h[d] = f[d]
      /\ g \in [E \cup {x} -> Nat] /\ \A d \in E : h[d] = g[d]
  BY <1>1
<1>4. Total(f) = Total(h) + f[x] /\ Total(g) = Total(h) + g[x]
  <2> HIDE DEF E, h
  <2>1. QED
    BY <1>1, <1>2, <1>3, TotalAdd
<1>5. f[x] \in Nat /\ g[x] \in Nat
  OBVIOUS
<1>6. QED
  BY <1>2, <1>4, <1>5

\* Equal summands.
LEMMA TotalEven ==
  ASSUME NEW D, IsFiniteSet(D), NEW n \in Nat
  PROVE  Total([x \in D |-> n]) = Cardinality(D) * n
<1> DEFINE f == [x \in D |-> n]
<1>1. Pairs(f) = D \X (1..n)
  BY DEF Pairs
<1>2. IsFiniteSet(1..n) /\ Cardinality(1..n) = n
  BY FS_Interval
<1>3. Cardinality(D \X (1..n)) = Cardinality(D) * n
  BY <1>2, FS_Product
<1>4. QED
  BY <1>1, <1>3 DEF Total, Pairs

\* No summands.
LEMMA TotalNone ==
  ASSUME NEW f, DOMAIN f = {}
  PROVE  Total(f) = 0
BY FS_EmptySet DEF Total

-----------------------------------------------------------------------------
(***************************************************************************)
(* Stock                                                                   *)
(***************************************************************************)
OnShelf(s)   == [p \in Processes |-> stock[p][s]]
InHands(s)   == [c \in InFlight |-> row[c].lines[s]]
InOrders(s)  == [i \in Standing |-> orders[i].lines[s]]

LEMMA Sums ==
  ASSUME TypeInv, NEW s \in Skus
  PROVE  /\ IsFiniteSet(InFlight) /\ IsFiniteSet(Standing)
         /\ OnShelf(s) \in [Processes -> Nat] /\ Shelved(s) = Total(OnShelf(s)) /\ Shelved(s) \in Nat
         /\ InHands(s) \in [InFlight -> Nat] /\ Held(s) = Total(InHands(s)) /\ Held(s) \in Nat
         /\ InOrders(s) \in [Standing -> Nat] /\ Sold(s) = Total(InOrders(s)) /\ Sold(s) \in Nat
<1>1. IsFiniteSet(InFlight)
  BY FS_Subset DEF InFlight
<1>2. IsFiniteSet(Standing)
  <2>1. Standing \subseteq Used
    BY DEF Standing
  <2>2. QED
    BY <2>1, UsedFinite, FS_Subset
<1>3. OnShelf(s) \in [Processes -> Nat]
  BY DEF OnShelf, TypeInv, TypeOK
<1>4. \A r \in Row : r.lines[s] \in Nat
  BY CartsAreNatural DEF Row
<1>5. InHands(s) \in [InFlight -> Nat]
  <2>1. \A c \in InFlight : row[c] \in Row
    BY DEF InFlight, TypeInv, InHand
  <2>2. QED
    BY <1>4, <2>1 DEF InHands
<1>6. InOrders(s) \in [Standing -> Nat]
  <2>1. \A i \in Standing : orders[i] \in Row
    BY DEF Standing, Used, TypeInv, TypeOK
  <2>2. QED
    BY <1>4, <2>1 DEF InOrders
<1>7. /\ Total(OnShelf(s)) \in Nat /\ Total(InHands(s)) \in Nat
      /\ Total(InOrders(s)) \in Nat
  BY <1>1, <1>2, <1>3, <1>5, <1>6, PairsFinite
<1>8. QED
  BY <1>1, <1>2, <1>3, <1>5, <1>6, <1>7 DEF Shelved, Held, Sold, OnShelf, InHands, InOrders

LEMMA SumsAfter ==
  ASSUME TypeInv', NEW s \in Skus
  PROVE  /\ IsFiniteSet(InFlight') /\ IsFiniteSet(Standing')
         /\ OnShelf(s)' \in [Processes -> Nat] /\ Shelved(s)' = Total(OnShelf(s)') /\ Shelved(s)' \in Nat
         /\ InHands(s)' \in [InFlight' -> Nat] /\ Held(s)' = Total(InHands(s)') /\ Held(s)' \in Nat
         /\ InOrders(s)' \in [Standing' -> Nat] /\ Sold(s)' = Total(InOrders(s)') /\ Sold(s)' \in Nat
<1>1. (TypeInv =>
         /\ IsFiniteSet(InFlight) /\ IsFiniteSet(Standing)
         /\ OnShelf(s) \in [Processes -> Nat] /\ Shelved(s) = Total(OnShelf(s)) /\ Shelved(s) \in Nat
         /\ InHands(s) \in [InFlight -> Nat] /\ Held(s) = Total(InHands(s)) /\ Held(s) \in Nat
         /\ InOrders(s) \in [Standing -> Nat] /\ Sold(s) = Total(InOrders(s)) /\ Sold(s) \in Nat)'
  BY Sums, PTL
<1>2. QED
  BY <1>1

\* The stock of one process changes.
LEMMA ShelvedChanges ==
  ASSUME TypeInv, TypeInv', NEW s \in Skus, NEW p \in Processes,
         \A q \in Processes \ {p} : stock'[q][s] = stock[q][s]
  PROVE  Shelved(s)' - stock'[p][s] = Shelved(s) - stock[p][s]
<1>1. \A q \in Processes \ {p} : OnShelf(s)'[q] = OnShelf(s)[q]
  BY DEF OnShelf
<1>2. OnShelf(s) \in [Processes -> Nat] /\ OnShelf(s)' \in [Processes -> Nat]
  BY Sums, SumsAfter
<1>3. Total(OnShelf(s)') - OnShelf(s)'[p] = Total(OnShelf(s)) - OnShelf(s)[p]
  BY <1>1, <1>2, TotalChange
<1>4. OnShelf(s)'[p] = stock'[p][s] /\ OnShelf(s)[p] = stock[p][s]
  BY DEF OnShelf
<1>5. QED
  BY <1>3, <1>4, Sums, SumsAfter

LEMMA ShelvedStays ==
  ASSUME NEW s \in Skus, UNCHANGED stock
  PROVE  Shelved(s)' = Shelved(s)
BY DEF Shelved

\* A placement begins, goes on, ends.
LEMMA HeldGrows ==
  ASSUME TypeInv, TypeInv', NEW s \in Skus, NEW c, c \notin InFlight,
         InFlight' = InFlight \cup {c}, \A d \in InFlight : row'[d] = row[d]
  PROVE  Held(s)' = Held(s) + row'[c].lines[s]
<1>1. \A d \in InFlight : InHands(s)[d] = InHands(s)'[d]
  BY DEF InHands
<1>2. InHands(s) \in [InFlight -> Nat] /\ InHands(s)' \in [InFlight \cup {c} -> Nat]
  BY Sums, SumsAfter
<1>f. IsFiniteSet(InFlight)
  BY Sums
<1>3. Total(InHands(s)') = Total(InHands(s)) + InHands(s)'[c]
  BY <1>f, <1>1, <1>2, TotalAdd
<1>4. InHands(s)'[c] = row'[c].lines[s]
  BY DEF InHands
<1>5. QED
  BY <1>3, <1>4, Sums, SumsAfter

LEMMA HeldStays ==
  ASSUME NEW s \in Skus, InFlight' = InFlight, \A d \in InFlight : row'[d] = row[d]
  PROVE  Held(s)' = Held(s)
<1>1. [c \in InFlight' |-> row'[c].lines[s]] = [c \in InFlight |-> row[c].lines[s]]
  OBVIOUS
<1>2. QED
  BY <1>1 DEF Held

LEMMA HeldShrinks ==
  ASSUME TypeInv, TypeInv', NEW s \in Skus, NEW c \in InFlight,
         InFlight' = InFlight \ {c}, UNCHANGED row
  PROVE  Held(s)' = Held(s) - row[c].lines[s] /\ row[c].lines[s] \in Nat
<1>1. \A d \in InFlight' : InHands(s)'[d] = InHands(s)[d]
  BY DEF InHands
<1>2. InFlight = InFlight' \cup {c} /\ c \notin InFlight'
  OBVIOUS
<1>3. InHands(s) \in [InFlight' \cup {c} -> Nat] /\ InHands(s)' \in [InFlight' -> Nat]
  BY <1>2, Sums, SumsAfter
<1>f. IsFiniteSet(InFlight')
  BY SumsAfter
<1>4. Total(InHands(s)) = Total(InHands(s)') + InHands(s)[c]
  BY <1>f, <1>1, <1>2, <1>3, TotalAdd
<1>5. InHands(s)[c] = row[c].lines[s] /\ InHands(s)[c] \in Nat
  BY <1>3 DEF InHands
<1>6. QED
  BY <1>4, <1>5, Sums, SumsAfter

\* An order begins to stand, goes on standing, is replaced, stands no longer.
LEMMA SoldGrows ==
  ASSUME TypeInv, TypeInv', NEW s \in Skus, NEW i, i \notin Standing,
         Standing' = Standing \cup {i}, \A j \in Standing : orders'[j] = orders[j]
  PROVE  Sold(s)' = Sold(s) + orders'[i].lines[s]
<1>1. \A j \in Standing : InOrders(s)[j] = InOrders(s)'[j]
  BY DEF InOrders
<1>2. InOrders(s) \in [Standing -> Nat] /\ InOrders(s)' \in [Standing \cup {i} -> Nat]
  BY Sums, SumsAfter
<1>f. IsFiniteSet(Standing)
  BY Sums
<1>3. Total(InOrders(s)') = Total(InOrders(s)) + InOrders(s)'[i]
  <2> DEFINE D == Standing
             f == InOrders(s)'
             g == InOrders(s)
  <2>1. /\ IsFiniteSet(D) /\ i \notin D /\ g \in [D -> Nat] /\ f \in [D \cup {i} -> Nat]
        /\ \A j \in D : g[j] = f[j]
    BY <1>f, <1>1, <1>2
  <2>2. Total(f) = Total(g) + f[i]
    <3> HIDE DEF D, f, g
    <3>1. QED
      BY <2>1, TotalAdd, SMTT(30)
  <2>3. QED
    BY <2>2
<1>4. InOrders(s)'[i] = orders'[i].lines[s]
  BY DEF InOrders
<1>5. QED
  BY <1>3, <1>4, Sums, SumsAfter

LEMMA SoldStays ==
  ASSUME NEW s \in Skus, Standing' = Standing, \A j \in Standing : orders'[j] = orders[j]
  PROVE  Sold(s)' = Sold(s)
<1>1. [j \in Standing' |-> orders'[j].lines[s]] = [j \in Standing |-> orders[j].lines[s]]
  OBVIOUS
<1>2. QED
  BY <1>1 DEF Sold

LEMMA SoldChanges ==
  ASSUME TypeInv, TypeInv', NEW s \in Skus, NEW i \in Standing,
         Standing' = Standing, \A j \in Standing \ {i} : orders'[j] = orders[j]
  PROVE  Sold(s)' - orders'[i].lines[s] = Sold(s) - orders[i].lines[s]
<1>1. \A j \in Standing \ {i} : InOrders(s)'[j] = InOrders(s)[j]
  BY DEF InOrders
<1>2. InOrders(s) \in [Standing -> Nat] /\ InOrders(s)' \in [Standing -> Nat]
  BY Sums, SumsAfter
<1>3. Total(InOrders(s)') - InOrders(s)'[i] = Total(InOrders(s)) - InOrders(s)[i]
  BY <1>1, <1>2, Sums, TotalChange
<1>4. InOrders(s)'[i] = orders'[i].lines[s] /\ InOrders(s)[i] = orders[i].lines[s]
  BY DEF InOrders
<1>5. QED
  BY <1>3, <1>4, Sums, SumsAfter

LEMMA SoldShrinks ==
  ASSUME TypeInv, TypeInv', NEW s \in Skus, NEW i \in Standing,
         Standing' = Standing \ {i}, UNCHANGED orders
  PROVE  Sold(s)' = Sold(s) - orders[i].lines[s] /\ orders[i].lines[s] \in Nat
<1>1. \A j \in Standing' : InOrders(s)'[j] = InOrders(s)[j]
  BY DEF InOrders
<1>2. Standing = Standing' \cup {i} /\ i \notin Standing'
  OBVIOUS
<1>3. InOrders(s) \in [Standing' \cup {i} -> Nat] /\ InOrders(s)' \in [Standing' -> Nat]
  BY <1>2, Sums, SumsAfter
<1>f. IsFiniteSet(Standing')
  BY SumsAfter
<1>4. Total(InOrders(s)) = Total(InOrders(s)') + InOrders(s)[i]
  BY <1>f, <1>1, <1>2, <1>3, TotalAdd
<1>5. InOrders(s)[i] = orders[i].lines[s] /\ InOrders(s)[i] \in Nat
  BY <1>3 DEF InOrders
<1>6. QED
  BY <1>4, <1>5, Sums, SumsAfter

LEMMA StandingStays ==
  ASSUME UNCHANGED orders,
         \A d \in Calls : /\ pc'[d] = "updating" <=> pc[d] = "updating"
                          /\ pc[d] = "updating" => num'[d] = num[d]
  PROVE  Standing' = Standing
BY DEF Standing, Used

Creators == {"restart", "negative", "phantom", "overlap"}

\* No step of the code creates units, and none but those the anomalies name
\* destroys them.
LEMMA StepUnits ==
  ASSUME IInv, IInv', [Next]_vars, NEW s \in Skus, anomalies' \cap Creators = {}
  PROVE  Units(s)' <= Units(s) /\ (anomalies' = {} => Units(s)' = Units(s))
<1> DEFINE Goal == Units(s)' <= Units(s) /\ (anomalies' = {} => Units(s)' = Units(s))
<1>t. TypeInv /\ TypeInv' /\ Numbering
  BY DEF IInv
<1>n. /\ Shelved(s) \in Nat /\ Held(s) \in Nat /\ Sold(s) \in Nat
      /\ Shelved(s)' \in Nat /\ Held(s)' \in Nat /\ Sold(s)' \in Nat
  BY <1>t, Sums, SumsAfter
<1>u. /\ Units(s) = Shelved(s) + Held(s) + Sold(s)
      /\ Units(s)' = Shelved(s)' + Held(s)' + Sold(s)'
  BY DEF Units
<1>0. ASSUME UNCHANGED stock, InFlight' = InFlight, Standing' = Standing, UNCHANGED orders,
             \A d \in InFlight : row'[d] = row[d]
      PROVE  Goal
  BY <1>0, <1>n, <1>u, ShelvedStays, HeldStays, SoldStays
<1>1. ASSUME NEW c \in Calls, NEW cart \in Carts, PlaceReserve(c, cart)
      PROVE  Goal
  <2>1. /\ pc[c] = "idle" /\ row'[c].lines = cart /\ UNCHANGED <<orders, num>>
        /\ \A d \in InFlight : row'[d] = row[d]
        /\ InFlight' = InFlight \cup {c} /\ c \notin InFlight
    BY <1>1, <1>t DEF PlaceReserve, TypeInv, TypeOK, Goto, InFlight, Placing
  <2>2. Held(s)' = Held(s) + cart[s]
    BY <1>t, <2>1, HeldGrows
  <2>3. Standing' = Standing
    <3>1. \A d \in Calls : pc'[d] = "updating" <=> pc[d] = "updating"
      BY <1>1, <1>t DEF PlaceReserve, TypeInv, TypeOK, Goto
    <3>2. QED
      BY <2>1, <3>1, StandingStays
  <2>4. Sold(s)' = Sold(s)
    BY <2>1, <2>3, SoldStays
  <2>5. host[c] \in Processes /\ cart[s] \in Nat /\ stock[host[c]][s] \in Nat
    BY <1>t, CartsAreNatural DEF TypeInv, TypeOK
  <2>6. /\ stock'[host[c]][s] = stock[host[c]][s] - cart[s]
        /\ \A q \in Processes \ {host[c]} : stock'[q][s] = stock[q][s]
    BY <1>1, <1>t DEF PlaceReserve, Deduct, TypeInv, TypeOK
  <2>7. Shelved(s)' - stock'[host[c]][s] = Shelved(s) - stock[host[c]][s]
    BY <1>t, <2>5, <2>6, ShelvedChanges
  <2>8. QED
    BY <1>n, <1>u, <2>2, <2>4, <2>5, <2>6, <2>7
<1>2. ASSUME NEW c \in Calls,
             \/ PlaceReject(c) \/ CancelReadFails(c)
             \/ \E i \in Ids : CancelRead(c, i)
             \/ \E blank \in BOOLEAN : CancelReject(c, blank)
             \/ Number(c)
      PROVE  Goal
  <2>1. /\ UNCHANGED <<stock, orders>>
        /\ \A d \in Calls : pc[d] \in Placing <=> pc'[d] \in Placing
        /\ \A d \in Calls : pc[d] = "updating" <=> pc'[d] = "updating"
        /\ \A d \in Calls : pc[d] = "updating" => num'[d] = num[d]
        /\ \A d \in Calls : pc[d] \in Placing => row'[d] = row[d]
    BY <1>2, <1>t DEF PlaceReject, CancelReadFails, CancelRead, CancelReject, Number, Goto,
                      Placing, TypeInv, TypeOK
  <2>2. InFlight' = InFlight /\ \A d \in InFlight : row'[d] = row[d]
    BY <2>1 DEF InFlight
  <2>3. Standing' = Standing
    BY <2>1, StandingStays
  <2>4. QED
    BY <1>0, <2>1, <2>2, <2>3
<1>3. ASSUME NEW c \in Calls, NEW basket \in Baskets, NEW k \in Skus,
             PlaceRejectNegative(c, basket, k)
      PROVE  Goal
  BY <1>3 DEF PlaceRejectNegative, Note, Creators
<1>4. ASSUME NEW c \in Calls, pc[c] \in Placing, pc'[c] = "failed", UNCHANGED <<orders, num, row>>,
             \A d \in Calls \ {c} : pc'[d] = pc[d]
      PROVE  /\ Held(s)' = Held(s) - row[c].lines[s] /\ row[c].lines[s] \in Nat
             /\ Sold(s)' = Sold(s)
  <2>1. c \in InFlight /\ InFlight' = InFlight \ {c}
    BY <1>4 DEF InFlight, Placing
  <2>2. Standing' = Standing
    <3>1. \A d \in Calls : pc'[d] = "updating" <=> pc[d] = "updating"
      BY <1>4 DEF Placing
    <3>2. QED
      BY <1>4, <3>1, StandingStays
  <2>3. QED
    BY <1>4, <1>t, <2>1, <2>2, HeldShrinks, SoldStays
<1>5. ASSUME NEW c \in Calls, NumberFails(c)
      PROVE  Goal
  <2>1. /\ pc[c] \in Placing /\ pc'[c] = "failed" /\ UNCHANGED <<orders, num, row>>
        /\ \A d \in Calls \ {c} : pc'[d] = pc[d]
    BY <1>5, <1>t DEF NumberFails, Goto, Placing, TypeInv, TypeOK
  <2>2. /\ Held(s)' = Held(s) - row[c].lines[s] /\ row[c].lines[s] \in Nat
        /\ Sold(s)' = Sold(s)
    BY <1>4, <2>1
  <2>3. host[c] \in Processes /\ stock[host[c]][s] \in Nat
    BY <1>t DEF TypeInv, TypeOK
  <2>4. /\ stock'[host[c]][s] = stock[host[c]][s] + row[c].lines[s]
        /\ \A q \in Processes \ {host[c]} : stock'[q][s] = stock[q][s]
    BY <1>5, <1>t DEF NumberFails, Restore, TypeInv, TypeOK
  <2>5. Shelved(s)' - stock'[host[c]][s] = Shelved(s) - stock[host[c]][s]
    BY <1>t, <2>3, <2>4, ShelvedChanges
  <2>6. QED
    BY <1>n, <1>u, <2>2, <2>3, <2>4, <2>5
<1>6. ASSUME NEW c \in Calls, NumberTimesOut(c) \/ InsertFails(c)
      PROVE  Goal
  <2>1. /\ pc[c] \in Placing /\ pc'[c] = "failed" /\ UNCHANGED <<orders, num, row, stock>>
        /\ \A d \in Calls \ {c} : pc'[d] = pc[d]
        /\ anomalies' # {}
    BY <1>6, <1>t DEF NumberTimesOut, InsertFails, Goto, Note, Placing, TypeInv, TypeOK
  <2>2. /\ Held(s)' = Held(s) - row[c].lines[s] /\ row[c].lines[s] \in Nat
        /\ Sold(s)' = Sold(s)
    BY <1>4, <2>1
  <2>3. Shelved(s)' = Shelved(s)
    BY <2>1, ShelvedStays
  <2>4. QED
    BY <1>n, <1>u, <2>1, <2>2, <2>3
<1>7. ASSUME NEW c \in Calls, NEW reply \in {"placed", "failed"}, Insert(c, reply)
      PROVE  Goal
  <2> DEFINE i == num[c]
  <2>1. /\ pc[c] = "inserting" /\ pc'[c] = reply /\ UNCHANGED <<num, row, stock>>
        /\ \A d \in Calls \ {c} : pc'[d] = pc[d]
        /\ i \in Ids /\ row[c] \in Row /\ row[c].status = "CONFIRMED" /\ row[c] # NoRow
        /\ orders'[i] = row[c] /\ \A j \in Ids \ {i} : orders'[j] = orders[j]
    BY <1>7, <1>t DEF Insert, Goto, Placing, TypeInv, TypeOK, InHand
  <2>2. c \in InFlight /\ InFlight' = InFlight \ {c}
    BY <2>1 DEF InFlight, Placing
  <2>3. Held(s)' = Held(s) - row[c].lines[s] /\ row[c].lines[s] \in Nat
    BY <1>t, <2>1, <2>2, HeldShrinks
  <2>4. Shelved(s)' = Shelved(s)
    BY <2>1, ShelvedStays
  <2>5. \A d \in Calls : pc'[d] = "updating" <=> pc[d] = "updating"
    BY <2>1
  <2>6. \A j \in Ids \ {i} : j \in Standing' <=> j \in Standing
    BY <2>1, <2>5 DEF Standing, Used
  <2>7. Standing \subseteq Ids /\ Standing' \subseteq Ids
    BY DEF Standing, Used
  <2>8. CASE i \notin Standing'
    <3>1. PICK d \in Calls : pc[d] = "updating" /\ num[d] = i
      BY <2>1, <2>5, <2>8 DEF Standing, Used
    <3>2. i \notin Standing
      BY <3>1 DEF Standing
    <3>3. Standing' = Standing
      BY <2>6, <2>7, <2>8, <3>2
    <3>4. Sold(s)' = Sold(s)
      BY <2>1, <2>7, <3>2, <3>3, SoldStays
    <3>5. anomalies' # {}
      <4>1. orders[i] # NoRow
        BY <1>t, <3>1 DEF Numbering, TypeInv, InHand, Cancelling, Used
      <4>2. QED
        BY <1>7, <4>1 DEF Insert, Note
    <3>6. QED
      BY <1>n, <1>u, <2>3, <2>4, <3>4, <3>5
  <2>9. CASE i \in Standing' /\ i \notin Standing
    <3>1. Standing' = Standing \cup {i} /\ \A j \in Standing : orders'[j] = orders[j]
      BY <2>1, <2>6, <2>7, <2>9
    <3>2. Sold(s)' = Sold(s) + row[c].lines[s]
      BY <1>t, <2>1, <2>9, <3>1, SoldGrows
    <3>3. QED
      BY <1>n, <1>u, <2>3, <2>4, <3>2
  <2>10. CASE i \in Standing' /\ i \in Standing
    <3>1. Standing' = Standing /\ \A j \in Standing \ {i} : orders'[j] = orders[j]
      BY <2>1, <2>6, <2>7, <2>10
    <3>2. Sold(s)' - row[c].lines[s] = Sold(s) - orders[i].lines[s]
      BY <1>t, <2>1, <2>10, <3>1, SoldChanges
    <3>3. orders[i].lines[s] \in Nat
      <4>1. orders[i] \in Row
        BY <1>t, <2>10 DEF Standing, Used, TypeInv, TypeOK
      <4>2. QED
        BY <4>1, CartsAreNatural DEF Row
    <3>4. anomalies' # {}
      BY <1>7, <2>10 DEF Insert, Note, Standing, Used
    <3>5. QED
      BY <1>n, <1>u, <2>3, <2>4, <3>2, <3>3, <3>4
  <2>11. QED
    BY <2>8, <2>9, <2>10
<1>8. ASSUME NEW c \in Calls, CancelRestock(c)
      PROVE  Goal
  <2> DEFINE i == num[c]
  <2>1. /\ pc[c] = "deciding" /\ pc'[c] = "updating" /\ UNCHANGED <<num, orders>>
        /\ \A d \in Calls \ {c} : pc'[d] = pc[d] /\ row'[d] = row[d]
        /\ row[c] # NoRow /\ row[c] \in Row /\ row[c].status = "CONFIRMED"
    BY <1>8, <1>t DEF CancelRestock, Cancellable, Owned, Goto, TypeInv, TypeOK
  <2>2. orders[i] = row[c] /\ \A d \in Calls : pc[d] = "updating" => num[d] # i
    BY <1>8 DEF CancelRestock, Note, Creators
  <2>3. i \in Ids
    BY <1>t, <2>1 DEF TypeInv, InHand, Cancelling
  <2>4. i \in Standing /\ Standing' = Standing \ {i}
    BY <2>1, <2>2, <2>3 DEF Standing, Used
  <2>5. Sold(s)' = Sold(s) - row[c].lines[s] /\ row[c].lines[s] \in Nat
    BY <1>t, <2>1, <2>2, <2>4, SoldShrinks
  <2>6. InFlight' = InFlight /\ \A d \in InFlight : row'[d] = row[d]
    BY <2>1 DEF InFlight, Placing
  <2>7. Held(s)' = Held(s)
    BY <2>6, HeldStays
  <2>8. host[c] \in Processes /\ stock[host[c]][s] \in Nat
    BY <1>t DEF TypeInv, TypeOK
  <2>9. /\ stock'[host[c]][s] = stock[host[c]][s] + row[c].lines[s]
        /\ \A q \in Processes \ {host[c]} : stock'[q][s] = stock[q][s]
    BY <1>8, <1>t DEF CancelRestock, Restore, TypeInv, TypeOK
  <2>10. Shelved(s)' - stock'[host[c]][s] = Shelved(s) - stock[host[c]][s]
    BY <1>t, <2>8, <2>9, ShelvedChanges
  <2>11. QED
    BY <1>n, <1>u, <2>5, <2>7, <2>8, <2>9, <2>10
<1>9. ASSUME NEW c \in Calls, NEW reply \in {"cancelled", "failed"}, CancelWrite(c, reply)
      PROVE  Goal
  <2> DEFINE i == num[c]
  <2>1. /\ pc[c] = "updating" /\ pc'[c] = reply /\ UNCHANGED <<num, row, stock>>
        /\ \A d \in Calls \ {c} : pc'[d] = pc[d]
        /\ i \in Ids /\ row[c] \in Row /\ row[c].status = "CANCELLED"
        /\ orders'[i] = row[c] /\ \A j \in Ids \ {i} : orders'[j] = orders[j]
    BY <1>9, <1>t DEF CancelWrite, Goto, Cancelling, TypeInv, TypeOK, InHand
  <2>2. InFlight' = InFlight
    BY <2>1 DEF InFlight, Placing
  <2>3. i \notin Standing /\ i \notin Standing'
    BY <2>1 DEF Standing
  <2>4. \A j \in Ids \ {i} : j \in Standing' <=> j \in Standing
    BY <2>1 DEF Standing, Used
  <2>5. Standing \subseteq Ids /\ Standing' \subseteq Ids
    BY DEF Standing, Used
  <2>6. Standing' = Standing /\ \A j \in Standing : orders'[j] = orders[j]
    BY <2>1, <2>3, <2>4, <2>5, SMTT(30)
  <2>7. QED
    BY <1>n, <1>u, <2>1, <2>2, <2>6, ShelvedStays, HeldStays, SoldStays
<1>10. ASSUME NEW c \in Calls, CancelWriteFails(c)
       PROVE  Goal
  BY <1>10 DEF CancelWriteFails, Note, Creators
<1>11. ASSUME NEW p \in Processes, Restart(p)
       PROVE  Goal
  BY <1>11 DEF Restart, Note, Creators
<1>12. CASE UNCHANGED vars
  <2>1. UNCHANGED <<stock, orders, row>> /\ InFlight' = InFlight /\ Standing' = Standing
    BY <1>12 DEF vars, InFlight, Standing, Used
  <2>2. QED
    BY <1>0, <2>1
<1>13. QED
  BY <1>1, <1>2, <1>3, <1>5, <1>6, <1>7, <1>8, <1>9, <1>10, <1>11, <1>12
     DEF Next, Place, Cancel

-----------------------------------------------------------------------------
StockInv == IInv /\ StockConserved /\ NoPhantomStock

LEMMA InitStock == Init => StockConserved /\ NoPhantomStock
<1> SUFFICES ASSUME Init, NEW s \in Skus
             PROVE  Units(s) = Seeded /\ Seeded \in Nat
  BY DEF StockConserved, NoPhantomStock
<1>1. TypeInv
  BY InitTypeInv
<1>2. Shelved(s) = Seeded
  <2>1. [p \in Processes |-> stock[p][s]] = [p \in Processes |-> SeedStock]
    BY DEF Init
  <2>2. QED
    BY <2>1, TotalEven DEF Shelved, Seeded
<1>3. InFlight = {} /\ Standing = {}
  BY DEF Init, InFlight, Placing, Standing, Used
<1>4. Held(s) = 0 /\ Sold(s) = 0
  BY <1>3, TotalNone DEF Held, Sold
<1>5. QED
  BY <1>1, <1>2, <1>4, Sums DEF Units

LEMMA StepStock == StockInv /\ [Next]_vars /\ IInv' => (StockConserved /\ NoPhantomStock)'
<1> SUFFICES ASSUME StockInv, [Next]_vars, IInv'
             PROVE  (StockConserved /\ NoPhantomStock)'
  OBVIOUS
<1>1. anomalies \subseteq anomalies'
  BY DEF Next, Place, Cancel, vars, setup, Note, PlaceReserve, PlaceReject,
         PlaceRejectNegative, Number, NumberFails, NumberTimesOut, Insert,
         InsertFails, CancelRead, CancelReadFails, CancelReject, CancelRestock,
         CancelWrite, CancelWriteFails, Restart
<1>2. ASSUME NEW s \in Skus, anomalies' \cap Creators = {}
      PROVE  /\ Units(s)' <= Units(s) /\ (anomalies' = {} => Units(s)' = Units(s))
             /\ anomalies \cap Creators = {}
  BY <1>1, <1>2, StepUnits DEF StockInv
<1>3. ASSUME NEW s \in Skus
      PROVE  Units(s) \in Nat /\ Units(s)' \in Nat
  <2>1. TypeInv /\ TypeInv'
    BY DEF StockInv, IInv
  <2>2. /\ Shelved(s) \in Nat /\ Held(s) \in Nat /\ Sold(s) \in Nat
        /\ Shelved(s)' \in Nat /\ Held(s)' \in Nat /\ Sold(s)' \in Nat
    BY <2>1, Sums, SumsAfter
  <2>3. QED
    BY <2>2 DEF Units
<1>4. Seeded \in Nat /\ Seeded' = Seeded
  BY FS_CardinalityType DEF Seeded
<1>5. NoPhantomStock'
  <2> SUFFICES ASSUME anomalies' \cap Creators = {}, NEW s \in Skus
               PROVE  Units(s)' <= Seeded
    BY <1>4 DEF NoPhantomStock, Creators
  <2>1. Units(s)' <= Units(s) /\ anomalies \cap Creators = {}
    BY <1>2
  <2>2. Units(s) <= Seeded
    BY <2>1 DEF StockInv, NoPhantomStock, Creators
  <2>3. QED
    BY <1>3, <1>4, <2>1, <2>2
<1>6. StockConserved'
  <2> SUFFICES ASSUME anomalies' = {}, NEW s \in Skus
               PROVE  Units(s)' = Seeded
    BY <1>4 DEF StockConserved
  <2>1. Units(s)' = Units(s)
    BY <1>2
  <2>2. Units(s) = Seeded
    BY <1>1 DEF StockInv, StockConserved
  <2>3. QED
    BY <2>1, <2>2
<1>7. QED
  BY <1>5, <1>6

LEMMA StockInductive == Spec => []StockInv
<1>1. StockInv /\ [Next]_vars /\ IInv' => StockInv'
  BY StepStock DEF StockInv
<1>2. Init /\ IInv => StockInv
  BY InitStock DEF StockInv
<1>3. QED
  BY <1>1, <1>2, Inductive, PTL DEF Spec

\* Every unit of the seed is on a shelf, held or sold until an anomaly happens,
\* for every catalogue, set of processes, calls and interleaving.
THEOREM StockIsConserved == Spec => []StockConserved
BY StockInductive, PTL DEF StockInv

\* Failing and late database calls, and even orders saved over others, never
\* create units.
THEOREM NoUnitIsSoldTwice == Spec => []NoPhantomStock
BY StockInductive, PTL DEF StockInv
=============================================================================
