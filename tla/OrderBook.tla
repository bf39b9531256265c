----------------------------- MODULE OrderBook -----------------------------
(***************************************************************************)
(* The order write path: PlaceOrderUseCase and CancelOrderUseCase over the *)
(* in-memory product repository (one stock table per process, reset to the *)
(* seed when the process starts) and the SQL order repository (shared by   *)
(* the API process and the workers).                                       *)
(*                                                                         *)
(* A use case is a coroutine: it runs without interruption between two     *)
(* awaits that really suspend, and those are the three database calls      *)
(* next_order_id, find_by_id and save.  Each stretch between two of them   *)
(* is one action; a database call can also fail, or be cut short by the    *)
(* tool timeout (asyncio.wait_for, whose CancelledError `except Exception` *)
(* does not catch), and a process can restart at any time.                 *)
(***************************************************************************)
EXTENDS Integers, FiniteSets

CONSTANTS Skus,              \* SKUs of the seed catalogue
          Buyers,
          Processes,         \* the API process and the workers
          Calls,             \* use case invocations, each used once
          Baskets,           \* order requests: SKU |-> quantity (0: no line)
          SeedStock,         \* stock of every SKU in the seed catalogue
          MaxOrders,         \* bound on the order numbers given out
          MaxConcurrency,    \* bound on the placements in flight at once
          NoRow

Ids == 1..MaxOrders

\* The requests every line of which OrderLine accepts (quantity > 0).
Carts == {b \in Baskets : (\A s \in Skus : b[s] >= 0) /\ (\E s \in Skus : b[s] > 0)}

Row == [buyer : Buyers, lines : Carts, status : {"CONFIRMED", "CANCELLED"}]

ASSUME OrderBookAssumption ==
  /\ NoRow \notin Row
  /\ Baskets \subseteq [Skus -> Int]
  /\ SeedStock \in Nat
  /\ MaxOrders \in Nat
  /\ MaxConcurrency \in Nat
  /\ IsFiniteSet(Calls) /\ IsFiniteSet(Processes)

VARIABLES
  orders,     \* the orders and order_lines tables
  stock,      \* process |-> its product repository's stock
  pc,         \* where each call is
  num,        \* order number the call works on (0: none yet)
  row,        \* the Order object the call holds: built, or read from the table
  host,       \* process the call runs in
  buyer,      \* buyer the session context names for the call
  slots,      \* placements the deployment runs at once (WORKER_CONCURRENCY)
  anomalies   \* history: which of the hazards below has happened so far

setup == <<host, buyer, slots>>
vars == <<orders, stock, pc, num, row, host, buyer, slots, anomalies>>

Placing    == {"numbering", "inserting"}
Cancelling == {"deciding", "updating"}
Over       == {"placed", "cancelled", "rejected", "failed", "lost"}

\* "leak": a placement ended without order or rollback.  "phantom": a
\* cancellation put stock back and then failed to save.  "overlap": two
\* cancellations of one order put its stock back.  "negative": a line with a
\* negative quantity was deducted.  "collision": an order was saved over
\* another one.  "restart": a stock table was reset.
Anomalies == {"leak", "phantom", "overlap", "negative", "collision", "restart"}

Init ==
  /\ orders = [i \in Ids |-> NoRow]
  /\ stock = [p \in Processes |-> [s \in Skus |-> SeedStock]]
  /\ pc = [c \in Calls |-> "idle"]
  /\ num = [c \in Calls |-> 0]
  /\ row = [c \in Calls |-> NoRow]
  /\ host \in [Calls -> Processes]
  /\ buyer \in [Calls -> Buyers]
  /\ slots \in 1..MaxConcurrency
  /\ anomalies = {}

-----------------------------------------------------------------------------
Used      == {i \in Ids : orders[i] # NoRow}
InFlight  == {c \in Calls : pc[c] \in Placing}

Goto(c, l)      == pc' = [pc EXCEPT ![c] = l]
Note(cond, a)   == anomalies' = IF cond THEN anomalies \cup {a} ELSE anomalies
Deduct(p, l)    == stock' = [stock EXCEPT ![p] = [s \in Skus |-> @[s] - l[s]]]
Restore(p, l)   == stock' = [stock EXCEPT ![p] = [s \in Skus |-> @[s] + l[s]]]

\* Sku.has_stock, of every line.
HasStock(p, l) == \A s \in Skus : l[s] <= stock[p][s]

(***************************************************************************)
(* PlaceOrderUseCase.execute                                               *)
(***************************************************************************)

\* Every line found, in stock and positive: the stock of all of them is
\* taken in one stretch, then the call waits for next_order_id.
PlaceReserve(c, cart) ==
  /\ pc[c] = "idle"
  /\ Cardinality(InFlight) < slots
  /\ HasStock(host[c], cart)
  /\ Deduct(host[c], cart)
  /\ row' = [row EXCEPT ![c] = [buyer |-> buyer[c], lines |-> cart, status |-> "CONFIRMED"]]
  /\ Goto(c, "numbering")
  /\ UNCHANGED <<orders, num, setup, anomalies>>

\* No line, an unknown product or SKU, a line short of stock or of quantity 0:
\* the lines already deducted are restored within the same stretch.
PlaceReject(c) ==
  /\ pc[c] = "idle"
  /\ Goto(c, "rejected")
  /\ UNCHANGED <<orders, stock, num, row, setup, anomalies>>

\* A line of negative quantity passes has_stock and is "deducted" before
\* OrderLine refuses it; the rollback restores the lines before it, and then
\* restore_stock refuses the negative quantity too.
PlaceRejectNegative(c, basket, s) ==
  /\ pc[c] = "idle"
  /\ basket[s] < 0
  /\ stock' = [stock EXCEPT ![host[c]][s] = @ - basket[s]]
  /\ Goto(c, "rejected")
  /\ Note(TRUE, "negative")
  /\ UNCHANGED <<orders, num, row, setup>>

\* SqlOrderRepository.next_order_id: the number of rows, plus one.  Defects:
\* cancelled orders are not counted; placements in flight are counted.
NextOrderId_Confirmed == Cardinality({i \in Used : orders[i].status = "CONFIRMED"}) + 1
NextOrderId_InFlight  == Cardinality(Used) + Cardinality(InFlight)
NextOrderId == Cardinality(Used) + 1

Number(c) ==
  /\ pc[c] = "numbering"
  /\ NextOrderId <= MaxOrders
  /\ num' = [num EXCEPT ![c] = NextOrderId]
  /\ Goto(c, "inserting")
  /\ UNCHANGED <<orders, stock, row, setup, anomalies>>

\* next_order_id raised: the whole reservation is rolled back.
\* Defect: the rollback is forgotten.
NumberFails_NoRollback(c) ==
  /\ pc[c] = "numbering"
  /\ Goto(c, "failed")
  /\ UNCHANGED <<orders, stock, num, row, setup, anomalies>>

NumberFails(c) ==
  /\ pc[c] = "numbering"
  /\ Restore(host[c], row[c].lines)
  /\ Goto(c, "failed")
  /\ UNCHANGED <<orders, num, row, setup, anomalies>>

\* The tool timeout fires while next_order_id is awaited: no rollback.
NumberTimesOut(c) ==
  /\ pc[c] = "numbering"
  /\ Goto(c, "failed")
  /\ Note(TRUE, "leak")
  /\ UNCHANGED <<orders, stock, num, row, setup>>

\* SqlOrderRepository.save: db.merge writes over a row with the same number.
\* The reply is "failed" when the timeout fires after the commit.
Insert(c, reply) ==
  /\ pc[c] = "inserting"
  /\ orders' = [orders EXCEPT ![num[c]] = row[c]]
  /\ Goto(c, reply)
  /\ Note(orders[num[c]] # NoRow, "collision")
  /\ UNCHANGED <<stock, num, row, setup>>

\* save raised, or timed out before its commit: it is outside the try block.
InsertFails(c) ==
  /\ pc[c] = "inserting"
  /\ Goto(c, "failed")
  /\ Note(TRUE, "leak")
  /\ UNCHANGED <<orders, stock, num, row, setup>>

(***************************************************************************)
(* CancelOrderUseCase.execute                                              *)
(***************************************************************************)

\* find_by_id builds a fresh Order from the row as it is now.
CancelRead(c, i) ==
  /\ pc[c] = "idle"
  /\ num' = [num EXCEPT ![c] = i]
  /\ row' = [row EXCEPT ![c] = orders[i]]
  /\ Goto(c, "deciding")
  /\ UNCHANGED <<orders, stock, setup, anomalies>>

\* find_by_id raised or timed out.
CancelReadFails(c) ==
  /\ pc[c] = "idle"
  /\ Goto(c, "failed")
  /\ UNCHANGED <<orders, stock, num, row, setup, anomalies>>

\* _require_owned, then the state check of Order.cancel.  Defects: any buyer
\* passes; any state passes.
Owned_Anyone(c)         == row[c] # NoRow
Owned(c)                == row[c] # NoRow /\ row[c].buyer = buyer[c]
Cancellable_AnyState(c) == Owned(c)
Cancellable(c)          == Owned(c) /\ row[c].status = "CONFIRMED"

\* Refused: not this buyer's order, not CONFIRMED, or a blank reason.
CancelReject(c, blankReason) ==
  /\ pc[c] = "deciding"
  /\ blankReason \/ ~Cancellable(c)
  /\ Goto(c, "rejected")
  /\ UNCHANGED <<orders, stock, num, row, setup, anomalies>>

\* The object becomes CANCELLED and its stock goes back, to this process's
\* table; the row is only written by the save that follows.
CancelRestock(c) ==
  /\ pc[c] = "deciding"
  /\ Cancellable(c)
  /\ row' = [row EXCEPT ![c].status = "CANCELLED"]
  /\ Restore(host[c], row[c].lines)
  /\ Goto(c, "updating")
  /\ Note(\/ orders[num[c]] # row[c]
          \/ \E d \in Calls : pc[d] = "updating" /\ num[d] = num[c], "overlap")
  /\ UNCHANGED <<orders, num, setup>>

CancelWrite(c, reply) ==
  /\ pc[c] = "updating"
  /\ orders' = [orders EXCEPT ![num[c]] = row[c]]
  /\ Goto(c, reply)
  /\ UNCHANGED <<stock, num, row, setup, anomalies>>

CancelWriteFails(c) ==
  /\ pc[c] = "updating"
  /\ Goto(c, "failed")
  /\ Note(TRUE, "phantom")
  /\ UNCHANGED <<orders, stock, num, row, setup>>

(***************************************************************************)
(* A process restarts: its calls are gone, its stock is the seed again.    *)
(***************************************************************************)
Restart(p) ==
  /\ stock' = [stock EXCEPT ![p] = [s \in Skus |-> SeedStock]]
  /\ pc' = [c \in Calls |-> IF host[c] = p /\ pc[c] \in Placing \cup Cancelling
                            THEN "lost" ELSE pc[c]]
  /\ Note(TRUE, "restart")
  /\ UNCHANGED <<orders, num, row, setup>>

-----------------------------------------------------------------------------
Place(c) ==
  \/ \E cart \in Carts : PlaceReserve(c, cart)
  \/ PlaceReject(c)
  \/ \E basket \in Baskets, s \in Skus : PlaceRejectNegative(c, basket, s)
  \/ Number(c)
  \/ NumberFails(c)
  \/ NumberTimesOut(c)
  \/ \E reply \in {"placed", "failed"} : Insert(c, reply)
  \/ InsertFails(c)

Cancel(c) ==
  \/ \E i \in Ids : CancelRead(c, i)
  \/ CancelReadFails(c)
  \/ \E blankReason \in BOOLEAN : CancelReject(c, blankReason)
  \/ CancelRestock(c)
  \/ \E reply \in {"cancelled", "failed"} : CancelWrite(c, reply)
  \/ CancelWriteFails(c)

Next ==
  \/ \E c \in Calls : Place(c) \/ Cancel(c)
  \/ \E p \in Processes : Restart(p)

Spec == Init /\ [][Next]_vars

(***************************************************************************)
(* Properties                                                              *)
(***************************************************************************)

\* Every variable has its type; in particular no stock table ever goes below
\* zero (Sku.deduct_stock), whatever the interleaving of calls and failures.
TypeOK ==
  /\ orders \in [Ids -> Row \cup {NoRow}]
  /\ stock \in [Processes -> [Skus -> Nat]]
  /\ pc \in [Calls -> {"idle"} \cup Placing \cup Cancelling \cup Over]
  /\ num \in [Calls -> Ids \cup {0}]
  /\ row \in [Calls -> Row \cup {NoRow}]
  /\ host \in [Calls -> Processes]
  /\ buyer \in [Calls -> Buyers]
  /\ slots \in 1..MaxConcurrency
  /\ anomalies \subseteq Anomalies

\* The sum of a function's natural numbers, counted as pairs, one per unit.
Total(f) == Cardinality(UNION {{x} \X (1..f[x]) : x \in DOMAIN f})

\* Units of s on the shelves, in the hands of an unfinished placement, and
\* sold: in a CONFIRMED order whose stock no cancellation has put back yet.
Shelved(s) == Total([p \in Processes |-> stock[p][s]])
Held(s)    == Total([c \in InFlight |-> row[c].lines[s]])
Standing   == {i \in Used : /\ orders[i].status = "CONFIRMED"
                            /\ \A c \in Calls : pc[c] = "updating" => num[c] # i}
Sold(s)    == Total([i \in Standing |-> orders[i].lines[s]])
Units(s)   == Shelved(s) + Held(s) + Sold(s)
Seeded     == Cardinality(Processes) * SeedStock

\* Stock is conserved: however placements, cancellations, rejections and
\* rollbacks interleave, every unit of the seed is on a shelf, held or sold,
\* unless one of the listed anomalies has happened (PlaceOrderUseCase and
\* CancelOrderUseCase: deduct, roll back, put back).
StockConserved == anomalies = {} => \A s \in Skus : Units(s) = Seeded

\* No unit is sold twice: failures and timeouts of the database calls of a
\* placement may lose units, never create them.  Only a restart, a negative
\* line, a cancellation that was not saved and two overlapping ones can.
NoPhantomStock ==
  anomalies \cap {"restart", "negative", "phantom", "overlap"} = {}
    => \A s \in Skus : Units(s) <= Seeded

\* One placement at a time never saves an order over another one, whatever
\* fails, times out or restarts in between: the numbers next_order_id counts
\* out are only unsafe when placements overlap, as its docstring warns.
SerialNeverCollides == slots = 1 => "collision" \notin anomalies

\* An order becomes CANCELLED only in the save of a cancellation that its own
\* buyer asked for (_require_owned, before any state changes), as long as no
\* order was saved over another one.
OnlyOwnerCancels ==
  [][\A i \in Ids :
       /\ "collision" \notin anomalies /\ orders[i] # NoRow /\ orders[i].status = "CONFIRMED"
       /\ orders'[i].status = "CANCELLED"
       => \E c \in Calls : /\ pc[c] = "updating" /\ pc'[c] # "updating"
                           /\ num[c] = i /\ buyer[c] = orders[i].buyer]_vars

\* Until an order is saved over another one, every step of the table is one
\* the order aggregate allows: consecutive numbers, CONFIRMED first, one
\* cancellation, nothing else rewritten and no row lost, through concurrent
\* calls, failures, timeouts and restarts.
Ledger == INSTANCE OrderLedger WITH ledger <- orders

OrdersImplementLedger ==
  [][Ledger!Next \/ "collision" \in anomalies']_orders
=============================================================================
