---------------------------- MODULE OrderLedger ----------------------------
(***************************************************************************)
(* What the order aggregate promises to its callers, with no process,      *)
(* repository or failure in sight: orders get consecutive numbers, are     *)
(* CONFIRMED when they appear, and the only thing that can happen to one   *)
(* afterwards is one cancellation, which leaves its buyer and its lines    *)
(* alone.  (The state machine of domain/order/order.py and the numbering   *)
(* both repositories implement.)                                           *)
(***************************************************************************)
EXTENDS Naturals

CONSTANTS Ids,      \* order numbers, 1..MaxOrders
          Buyers,   \* buyer ids
          Carts,    \* the contents an order can have
          NoRow     \* the number has not been used yet

VARIABLE ledger     \* order number |-> its row, or NoRow

Row == [buyer : Buyers, lines : Carts, status : {"CONFIRMED", "CANCELLED"}]

Init == ledger = [i \in Ids |-> NoRow]

\* Order.place: DRAFT -> CONFIRMED in one go, under the next unused number.
Place(i) ==
  /\ ledger[i] = NoRow
  /\ \A j \in Ids : j < i => ledger[j] # NoRow
  /\ \E b \in Buyers, l \in Carts :
       ledger' = [ledger EXCEPT ![i] =
                    [buyer |-> b, lines |-> l, status |-> "CONFIRMED"]]

\* Order.cancel: only a CONFIRMED order, and only its status changes.
Cancel(i) ==
  /\ ledger[i] # NoRow
  /\ ledger[i].status = "CONFIRMED"
  /\ ledger' = [ledger EXCEPT ![i].status = "CANCELLED"]

Next == \E i \in Ids : Place(i) \/ Cancel(i)

Spec == Init /\ [][Next]_ledger
=============================================================================
