---------------------------- MODULE StocksProofs ----------------------------
(***************************************************************************)
(* The books of us-stock-hunter for any stocks, plans, scans, prices,      *)
(* limits and numbers of rows and crashes: the paper fund (PaperFund) and  *)
(* the scan with its messages (StockScan), each by an inductive invariant  *)
(* of its own, and together as the behaviours of MCStocks.                 *)
(***************************************************************************)
EXTENDS MCStocks, Extremes, SequenceTheorems

-----------------------------------------------------------------------------
(* The paper fund. *)

(* Only a filled order has a position, and no share of it is sold before.  *)
RowsWhole ==
  /\ \A o \in Rows : orders[o].status # "free" => orders[o].plan \in Plans
  /\ \A p \in Rows :
       IF positions[p].status = "free" THEN positions[p].shares = 0 /\ trades.sold[p] = 0
       ELSE /\ positions[p].plan \in Plans /\ positions[p].order \in Rows
            /\ orders[positions[p].order].status = "filled"

(* The fund is there before a run; what the run holds is what it read. *)
Unpositioned(o) == \A p \in Rows : positions[p].status # "free" => positions[p].order # o
Reserving == {"position", "buy", "pay"}
RunWhole ==
  /\ IsFiniteSet(Open)
  /\ cash \in Nat \cup {None} /\ equity \in Nat \cup {None}
  /\ cash = None => pc = "idle" /\ trades.paid = 0 /\ trades.got = 0
  /\ pc \in Reserving \cup {"sell", "credit"} => job \in Job
  /\ pc \in {"orders"} \cup Reserving => todo \subseteq Pending
  /\ pc = "buys" => list \in Seq(Plans)

(* Between the decision to fill an order and its position the slot, the    *)
(* symbol and the order are still free: no other run is under way.         *)
Filling ==
  pc = "position" =>
    /\ orders[job.row].status = "filled" /\ Unpositioned(job.row)
    /\ job.shares = orders[job.row].shares
    /\ Cardinality(Open) < MaxPositions /\ ~Held(orders[job.row].plan.symbol)

(* The shares of a sale have left the position and are not in the trades. *)
Selling ==
  pc = "sell" =>
    /\ positions[job.row].status # "free"
    /\ positions[job.row].shares + trades.sold[job.row] + job.shares
         <= orders[positions[job.row].order].shares

Books == SlotsKept /\ OnePositionPerOrder /\ NoShareSoldTwice /\ CashMatchesTrades /\ CashCovers
FundInv == TypeOK /\ RowsWhole /\ RunWhole /\ Filling /\ Selling /\ Books

LEMMA FundInit == ASSUME Init PROVE FundInv
<1> USE FundAssumption DEF Init
<1>1. TypeOK
  BY DEF TypeOK, Order, Position, Job, InitTrades, NothingMade, OrderStatus
<1>2. Open = {}
  BY DEF Open
<1>3. IsFiniteSet(Open) /\ Cardinality(Open) = 0
  BY <1>2, FS_EmptySet
<1>4. RowsWhole /\ RunWhole /\ Filling /\ Selling
  BY <1>3 DEF RowsWhole, RunWhole, Filling, Selling, InitTrades, Reserving
<1>5. Books
  BY <1>2, <1>3 DEF Books, SlotsKept, OnePositionPerOrder, NoShareSoldTwice, CashMatchesTrades,
                    CashCovers
<1> QED BY <1>1, <1>4, <1>5 DEF FundInv

(* With the tables as they were, what is said of them stays. *)
LEMMA TablesStay ==
    ASSUME FundInv, UNCHANGED <<orders, positions, trades>>
    PROVE  /\ Open' = Open /\ Pending' = Pending /\ RowsWhole'
           /\ SlotsKept' /\ OnePositionPerOrder' /\ NoShareSoldTwice'
<1>1. Open' = Open /\ Pending' = Pending
  BY DEF Open, Pending
<1>2. RowsWhole' /\ OnePositionPerOrder' /\ NoShareSoldTwice'
  BY DEF FundInv, Books, RowsWhole, OnePositionPerOrder, NoShareSoldTwice
<1>3. SlotsKept'
  BY <1>1 DEF FundInv, Books, SlotsKept
<1> QED BY <1>1, <1>2, <1>3

(* The steps of a run that read, and its beginning and end. *)
LEMMA InitFundStep == ASSUME FundInv, InitFund PROVE FundInv'
<1> USE FundAssumption
<1>1. TypeOK'
  BY DEF InitFund, FundInv, TypeOK, run
<1>2. RunWhole' /\ Filling' /\ Selling'
  BY TablesStay DEF InitFund, FundInv, RunWhole, Filling, Selling, Reserving, run
<1>3. CashMatchesTrades' /\ CashCovers'
  BY DEF InitFund, FundInv, RunWhole, CashMatchesTrades, CashCovers, Unbooked, run
<1> QED BY <1>1, <1>2, <1>3, TablesStay DEF InitFund, FundInv, Books

LEMMA StartRunStep ==
    ASSUME FundInv, NEW l \in Seq(Plans) \cup {None}, StartRun(l)
    PROVE  FundInv'
<1>1. TypeOK'
  BY DEF StartRun, FundInv, TypeOK, disk, Pending
<1>2. RunWhole' /\ Filling' /\ Selling'
  BY TablesStay DEF StartRun, FundInv, RunWhole, Filling, Selling, Reserving, disk
<1>3. CashMatchesTrades' /\ CashCovers'
  BY DEF StartRun, FundInv, Books, CashMatchesTrades, CashCovers, Unbooked, Reserving, disk
<1> QED BY <1>1, <1>2, <1>3, TablesStay DEF StartRun, FundInv, Books, disk

(* The steps between the parts of a run. *)
LEMMA TurnStep == ASSUME FundInv, OrdersDone \/ SellsDone \/ BuysDone PROVE FundInv'
<1>0. UNCHANGED <<disk, list, made, job, crashes>> /\ todo' \subseteq Open
      /\ pc' \in {"sells", "buys", "value"} /\ pc \in {"orders", "sells", "buys"}
      /\ (pc' = "buys" => list # None)
  BY DEF OrdersDone, SellsDone, BuysDone
<1>1. TypeOK'
  BY <1>0 DEF FundInv, TypeOK, disk, Open
<1>2. RunWhole' /\ Filling' /\ Selling'
  BY <1>0, TablesStay DEF FundInv, RunWhole, Filling, Selling, Reserving, TypeOK, disk
<1>3. CashMatchesTrades' /\ CashCovers'
  BY <1>0 DEF FundInv, Books, CashMatchesTrades, CashCovers, Unbooked, disk
<1> QED BY <1>0, <1>1, <1>2, <1>3, TablesStay DEF FundInv, Books, disk

LEMMA ValueStep == ASSUME FundInv, ValuePosition \/ Snapshot \/ Crash PROVE FundInv'
<1>0. cash # None /\ cash \in Nat
  BY FundAssumption DEF ValuePosition, Snapshot, Crash, FundInv, RunWhole
<1>1. CASE ValuePosition
  <2>1. PICK p \in todo, close \in Prices \cup {0} :
            /\ made' = [made EXCEPT !.worth = @ + positions[p].shares * close]
            /\ todo' = todo \ {p}
    BY <1>1 DEF ValuePosition
  <2>2. positions[p].shares \in Nat /\ made.worth \in Nat
    BY DEF FundInv, TypeOK, Position
  <2>3. made.worth + positions[p].shares * close \in Nat
    <3>1. close \in Nat
      BY FundAssumption
    <3>2. \A m, n, k \in Nat : m + n * k \in Nat
      OBVIOUS
    <3> QED BY <2>2, <3>1, <3>2
  <2>4. made' \in [count : Nat, reserved : Nat, worth : Nat]
    BY <2>1, <2>3 DEF FundInv, TypeOK
  <2>5. TypeOK'
    BY <1>1, <2>1, <2>4 DEF ValuePosition, FundInv, TypeOK, disk
  <2>6. RunWhole' /\ Filling' /\ Selling'
    BY <1>1, <2>1, TablesStay DEF ValuePosition, FundInv, RunWhole, Filling, Selling, Reserving, disk
  <2>7. CashMatchesTrades' /\ CashCovers'
    BY <1>1 DEF ValuePosition, FundInv, Books, CashMatchesTrades, CashCovers, Unbooked, disk
  <2> QED BY <1>1, <2>5, <2>6, <2>7, TablesStay DEF ValuePosition, FundInv, Books, disk
<1>2. CASE Snapshot
  <2>1. made.worth \in Nat /\ equity' \in Nat
    BY <1>0, <1>2 DEF Snapshot, FundInv, TypeOK
  <2>2. TypeOK'
    BY <1>2, <2>1, FundAssumption DEF Snapshot, Rest, NothingMade, FundInv, TypeOK
  <2>3. RunWhole' /\ Filling' /\ Selling'
    BY <1>0, <1>2, <2>1, TablesStay
    DEF Snapshot, Rest, FundInv, RunWhole, Filling, Selling, Reserving
  <2>4. CashMatchesTrades' /\ CashCovers'
    BY <1>0, <1>2 DEF Snapshot, Rest, FundInv, Books, CashMatchesTrades, CashCovers, Unbooked
  <2> QED BY <1>2, <2>2, <2>3, <2>4, TablesStay DEF Snapshot, FundInv, Books
<1>3. CASE Crash
  <2>1. TypeOK'
    BY <1>3, FundAssumption DEF Crash, Rest, NothingMade, FundInv, TypeOK, disk
  <2>2. RunWhole' /\ Filling' /\ Selling'
    BY <1>0, <1>3, TablesStay
    DEF Crash, Rest, FundInv, RunWhole, Filling, Selling, Reserving, disk
  <2>3. CashMatchesTrades' /\ CashCovers'
    BY <1>0, <1>3 DEF Crash, Rest, FundInv, TypeOK, Books, CashMatchesTrades, CashCovers, disk
  <2> QED BY <1>3, <2>1, <2>2, <2>3, TablesStay DEF Crash, FundInv, Books, disk
<1> QED BY <1>1, <1>2, <1>3

(* Orders: refused, filled, queued. *)
LEMMA OrdersMove ==
    ASSUME FundInv, UNCHANGED <<positions, trades>>, orders' \in [Rows -> Order],
           \A r \in Rows : orders[r].status = "filled" =>
               orders'[r].status = "filled" /\ orders'[r].shares = orders[r].shares,
           \A r \in Rows : orders'[r].status # "free" => orders'[r].plan \in Plans
    PROVE  /\ Open' = Open /\ RowsWhole'
           /\ SlotsKept' /\ OnePositionPerOrder' /\ NoShareSoldTwice'
<1>1. Open' = Open
  BY DEF Open
<1>2. RowsWhole' /\ OnePositionPerOrder'
  BY DEF FundInv, Books, RowsWhole, OnePositionPerOrder
<1>3. SlotsKept'
  BY <1>1 DEF FundInv, Books, SlotsKept
<1>4. NoShareSoldTwice'
  BY DEF FundInv, Books, RowsWhole, NoShareSoldTwice
<1> QED BY <1>1, <1>2, <1>3, <1>4

LEMMA ProcessStep == ASSUME FundInv, ProcessOrder PROVE FundInv'
<1>1. PICK o \in todo : Expire(o) \/ NoOpenPrice(o) \/ RefuseOrder(o) \/ FillOrder(o)
  BY DEF ProcessOrder
<1>2. /\ pc = "orders" /\ todo \subseteq Pending /\ UNCHANGED <<cash, positions, trades, equity, list, made, crashes>>
      /\ o \in Rows /\ orders[o].status = "pending" /\ orders[o] \in Order
      /\ cash \in Nat /\ cash # None
  BY FundAssumption DEF ProcessOrder, FundInv, RunWhole, Pending, TypeOK, Reserving
<1>3. CASE NoOpenPrice(o)
  <2>1. UNCHANGED orders /\ todo' \subseteq todo /\ UNCHANGED <<pc, job>>
    BY <1>3 DEF NoOpenPrice
  <2>2. TypeOK'
    BY <1>2, <2>1 DEF FundInv, TypeOK
  <2>3. RunWhole' /\ Filling' /\ Selling'
    BY <1>2, <2>1, TablesStay DEF FundInv, RunWhole, Filling, Selling, Reserving
  <2>4. CashMatchesTrades' /\ CashCovers'
    BY <1>2, <2>1 DEF FundInv, Books, CashMatchesTrades, CashCovers, Unbooked
  <2> QED BY <1>2, <2>1, <2>2, <2>3, <2>4, TablesStay DEF FundInv, Books
<1>4. CASE Expire(o) \/ RefuseOrder(o)
  <2>1. orders' = [orders EXCEPT ![o].status = "cancelled"] /\ todo' = todo \ {o} /\ UNCHANGED <<pc, job>>
    BY <1>4 DEF Expire, RefuseOrder, Cancel
  <2>2. orders' \in [Rows -> Order]
    BY <1>2, <2>1 DEF FundInv, TypeOK, Order, OrderStatus
  <2>3. /\ \A r \in Rows : r # o => orders'[r] = orders[r]
        /\ orders'[o].plan = orders[o].plan /\ orders'[o].status = "cancelled"
    BY <1>2, <2>1 DEF FundInv, TypeOK, Order
  <2>4. /\ Open' = Open /\ RowsWhole'
        /\ SlotsKept' /\ OnePositionPerOrder' /\ NoShareSoldTwice'
    BY <1>2, <2>2, <2>3, OrdersMove DEF FundInv, RowsWhole
  <2>5. TypeOK'
    BY <1>2, <2>1, <2>2 DEF FundInv, TypeOK
  <2>6. todo' \subseteq Pending'
    BY <1>2, <2>1, <2>3 DEF Pending
  <2>7. RunWhole' /\ Filling' /\ Selling'
    BY <1>2, <2>1, <2>4, <2>6 DEF FundInv, RunWhole, Filling, Selling, Reserving
  <2>8. CashMatchesTrades' /\ CashCovers'
    BY <1>2, <2>1 DEF FundInv, Books, CashMatchesTrades, CashCovers, Unbooked
  <2> QED BY <2>4, <2>5, <2>7, <2>8 DEF FundInv, Books
<1>5. CASE FillOrder(o)
  <2>1. PICK open \in Prices :
            /\ ~Refused(o, open)
            /\ job' = [row |-> o, shares |-> orders[o].shares, amount |-> Cost(o, open)]
    BY <1>5 DEF FillOrder
  <2>2. /\ orders' = [orders EXCEPT ![o].status = "filled"] /\ todo' = todo \ {o}
        /\ pc' = "position"
    BY <1>5 DEF FillOrder
  <2>3. orders' \in [Rows -> Order]
    BY <1>2, <2>2 DEF FundInv, TypeOK, Order, OrderStatus
  <2>4. /\ \A r \in Rows : r # o => orders'[r] = orders[r]
        /\ orders'[o].plan = orders[o].plan /\ orders'[o].status = "filled"
        /\ orders'[o].shares = orders[o].shares
    BY <1>2, <2>2 DEF FundInv, TypeOK, Order
  <2>5. /\ Open' = Open /\ RowsWhole'
        /\ SlotsKept' /\ OnePositionPerOrder' /\ NoShareSoldTwice'
    BY <1>2, <2>3, <2>4, OrdersMove DEF FundInv, RowsWhole
  <2>6. orders[o].shares \in Nat /\ open \in Nat
    BY <1>2, <2>1, FundAssumption DEF Order
  <2>7. Cost(o, open) \in Nat
    BY <2>6 DEF Cost
  <2>8. job' \in Job
    BY <1>2, <2>1, <2>6, <2>7 DEF Job
  <2>9. TypeOK'
    BY <1>2, <2>2, <2>3, <2>8 DEF FundInv, TypeOK
  <2>10. RunWhole' /\ Selling'
    <3>1. todo' \subseteq Pending'
      BY <1>2, <2>2, <2>4 DEF Pending
    <3> QED BY <1>2, <2>2, <2>5, <2>8, <3>1 DEF FundInv, RunWhole, Selling, Reserving
  <2>11. IsFiniteSet(Open) /\ Cardinality(Open) \in Nat /\ MaxPositions \in Nat
    BY FS_CardinalityType, FundAssumption DEF FundInv, RunWhole
  <2>12. Unpositioned(o)'
    BY <1>2 DEF Unpositioned, FundInv, RowsWhole
  <2>13. ~Held(orders[o].plan.symbol)' /\ Cardinality(Open) < MaxPositions
    <3>1. ~Held(orders[o].plan.symbol) /\ ~(Cardinality(Open) >= MaxPositions)
      BY <2>1 DEF Refused
    <3>2. ~Held(orders[o].plan.symbol)'
      BY <1>2, <2>4, <2>5, <3>1 DEF Held
    <3> QED BY <2>11, <3>1, <3>2
  <2>14. Filling'
    BY <1>2, <2>1, <2>2, <2>4, <2>5, <2>12, <2>13 DEF Filling, Unpositioned, Held
  <2>15. CashMatchesTrades' /\ CashCovers'
    BY <1>2, <2>1, <2>2, <2>7 DEF FundInv, Books, CashMatchesTrades, CashCovers, Unbooked, Refused
  <2> QED BY <2>5, <2>9, <2>10, <2>14, <2>15 DEF FundInv, Books
<1> QED BY <1>1, <1>3, <1>4, <1>5

LEMMA BuyStep == ASSUME FundInv, BuyNext PROVE FundInv'
<1>1. /\ pc = "buys" /\ list \in Seq(Plans) /\ list # <<>> /\ cash \in Nat /\ cash # None
      /\ UNCHANGED <<cash, positions, trades, equity, pc, todo, job, crashes>>
      /\ list' = Tail(list)
  BY FundAssumption DEF BuyNext, FundInv, RunWhole
<1>2. Head(list) \in Plans /\ list' \in Seq(Plans)
  BY <1>1
<1>3. Selling' /\ CashMatchesTrades' /\ CashCovers' /\ Filling'
  BY <1>1 DEF FundInv, Books, Selling, Filling, CashMatchesTrades, CashCovers, Unbooked
<1>4. CASE UNCHANGED <<orders, made>>
  <2>1. TypeOK'
    BY <1>1, <1>2, <1>4 DEF FundInv, TypeOK
  <2>2. RunWhole'
    BY <1>1, <1>2, <1>4, TablesStay DEF FundInv, RunWhole, Reserving
  <2> QED BY <1>1, <1>3, <1>4, <2>1, <2>2, TablesStay DEF FundInv, Books
<1>5. ASSUME ~PassOver(Head(list)), Queue(Head(list)) PROVE FundInv'
  <2> DEFINE plan == Head(list)
             n == Budget \div plan.trigger
  <2>1. PICK o \in Rows :
            /\ FirstOf(o, Free(orders))
            /\ orders' = [orders EXCEPT ![o] = NewOrder(plan, n)]
            /\ made' = [made EXCEPT !.count = @ + 1, !.reserved = @ + n * plan.trigger]
    BY <1>5 DEF Queue
  <2>2. plan.trigger \in Nat \ {0}
    BY <1>2, FundAssumption
  <2>3. Budget \in Int
    <3>1. Total \in Nat
      BY <1>1 DEF Total, FundInv, RunWhole
    <3>2. \A m, pct \in Nat : (m * pct) \div 100 \in Nat
      OBVIOUS
    <3>3. Reserve \in Nat /\ (Total * PosPct) \div 100 \in Nat
      BY <3>1, <3>2, FundAssumption DEF Reserve
    <3>4. made.reserved \in Nat
      BY DEF FundInv, TypeOK
    <3> QED BY <1>1, <3>3, <3>4 DEF Budget, Lesser
  <2>4. Budget >= plan.trigger
    BY <1>5, <2>2, <2>3 DEF PassOver
  <2>5. n \in Nat
    <3>1. \A m \in Int, k \in Nat \ {0} : m >= k => m \div k \in Nat
      OBVIOUS
    <3> HIDE DEF plan
    <3> QED BY <2>2, <2>3, <2>4, <3>1
  <2> HIDE DEF n
  <2>6. NewOrder(plan, n) \in Order
    BY <1>2, <2>5, FundAssumption DEF NewOrder, Order, OrderStatus
  <2>7. /\ orders' \in [Rows -> Order] /\ orders[o].status = "free"
        /\ \A r \in Rows : r # o => orders'[r] = orders[r]
        /\ orders'[o] = NewOrder(plan, n)
    BY <2>1, <2>6 DEF FundInv, TypeOK, FirstOf, Free
  <2>8. orders'[o].status = "pending" /\ orders'[o].plan \in Plans
    BY <1>2, <2>7 DEF NewOrder
  <2>9. /\ Open' = Open /\ RowsWhole'
        /\ SlotsKept' /\ OnePositionPerOrder' /\ NoShareSoldTwice'
    BY <1>1, <2>7, <2>8, OrdersMove DEF FundInv, RowsWhole
  <2>10. made' \in [count : Nat, reserved : Nat, worth : Nat]
    <3>1. \A m, k, l \in Nat : m + k * l \in Nat
      OBVIOUS
    <3>2. made \in [count : Nat, reserved : Nat, worth : Nat]
      BY DEF FundInv, TypeOK
    <3>3. made.count + 1 \in Nat /\ made.reserved + n * plan.trigger \in Nat
      BY <2>2, <2>5, <3>1, <3>2
    <3> HIDE DEF plan
    <3> QED BY <2>1, <3>2, <3>3
  <2>11. TypeOK'
    BY <1>1, <1>2, <2>7, <2>10 DEF FundInv, TypeOK
  <2>12. RunWhole'
    BY <1>1, <1>2, <2>9 DEF FundInv, RunWhole, Reserving
  <2> QED BY <1>3, <2>9, <2>11, <2>12 DEF FundInv, Books
<1> QED BY <1>4, <1>5 DEF BuyNext

-----------------------------------------------------------------------------
(* Positions: opened, valued, sold. *)
LEMMA InsertStep == ASSUME FundInv, InsertPosition PROVE FundInv'
<1>1. PICK p \in Rows :
          /\ FirstOf(p, Free(positions))
          /\ positions' = [positions EXCEPT ![p] = NewPosition(job.row, job.shares)]
          /\ job' = [job EXCEPT !.row = p]
  BY DEF InsertPosition
<1>2. /\ pc = "position" /\ pc' = "buy"
      /\ UNCHANGED <<cash, orders, trades, equity, todo, list, made, crashes>>
  BY DEF InsertPosition
<1>3. job \in Job /\ job.row \in Rows /\ job.shares \in Nat /\ job.amount \in Nat
  BY <1>2 DEF FundInv, RunWhole, Reserving, Job
<1>4. job' \in Job /\ job'.row = p /\ job'.amount = job.amount
  BY <1>1, <1>3 DEF Job
<1>5. /\ orders[job.row].status = "filled" /\ Unpositioned(job.row)
      /\ orders[job.row].plan \in Plans /\ job.shares = orders[job.row].shares
      /\ Cardinality(Open) < MaxPositions /\ ~Held(orders[job.row].plan.symbol)
  BY <1>2, <1>3 DEF FundInv, RowsWhole, Filling
<1> DEFINE new == NewPosition(job.row, job.shares)
<1>6. /\ new \in Position /\ new.status = "open" /\ new.order = job.row /\ new.shares = job.shares
      /\ new.plan = orders[job.row].plan
  BY <1>3, <1>5, FundAssumption DEF NewPosition, Position
<1> HIDE DEF new
<1>7. /\ positions' \in [Rows -> Position] /\ positions[p].status = "free"
      /\ \A r \in Rows : r # p => positions'[r] = positions[r]
      /\ positions'[p] = new
  BY <1>1, <1>6 DEF FundInv, TypeOK, FirstOf, Free, new
<1>8. Open' = Open \cup {p} /\ p \notin Open
  BY <1>6, <1>7 DEF Open
<1>9. /\ IsFiniteSet(Open) /\ Cardinality(Open) \in Nat
      /\ IsFiniteSet(Open') /\ Cardinality(Open') = Cardinality(Open) + 1
  BY <1>8, FS_AddElement, FS_CardinalityType DEF FundInv, RunWhole
<1>10. TypeOK'
  BY <1>2, <1>4, <1>7 DEF FundInv, TypeOK
<1>11. RowsWhole'
  <2>1. positions[p].shares = 0 /\ trades.sold[p] = 0
    BY <1>7 DEF FundInv, RowsWhole
  <2> QED BY <1>2, <1>3, <1>5, <1>6, <1>7 DEF FundInv, RowsWhole
<1>12. RunWhole'
  BY <1>2, <1>4, <1>9 DEF FundInv, RunWhole, Reserving, Pending
<1>13. Filling' /\ Selling'
  BY <1>2 DEF Filling, Selling
<1>14. SlotsKept'
  <2>1. Cardinality(Open') <= MaxPositions
    BY <1>5, <1>9, FundAssumption
  <2>2. \A q \in Open : positions[q].plan.symbol # new.plan.symbol /\ positions'[q] = positions[q]
    BY <1>5, <1>6, <1>7, <1>8 DEF Held, Open
  <2>3. \A q, r \in Open' : positions'[q].plan.symbol = positions'[r].plan.symbol => q = r
    BY <1>7, <1>8, <2>2 DEF FundInv, Books, SlotsKept
  <2> QED BY <2>1, <2>3 DEF SlotsKept
<1>15. OnePositionPerOrder'
  BY <1>5, <1>6, <1>7 DEF FundInv, Books, OnePositionPerOrder, Unpositioned
<1>16. NoShareSoldTwice'
  <2>1. trades.sold[p] = 0
    BY <1>7 DEF FundInv, RowsWhole
  <2>2. new.shares + trades.sold[p] <= orders[new.order].shares
    BY <1>3, <1>5, <1>6, <2>1
  <2> QED BY <1>2, <1>7, <2>2 DEF FundInv, Books, NoShareSoldTwice
<1>17. CashMatchesTrades' /\ CashCovers'
  BY <1>2, <1>4 DEF FundInv, Books, CashMatchesTrades, CashCovers, Unbooked
<1> QED BY <1>10, <1>11, <1>12, <1>13, <1>14, <1>15, <1>16, <1>17 DEF FundInv, Books

(* The purchase is written to the trades and then to the cash. *)
LEMMA PayStep == ASSUME FundInv, RecordBuy \/ Pay PROVE FundInv'
<1>1. /\ job \in Job /\ job.row \in Rows /\ job.shares \in Nat /\ job.amount \in Nat
      /\ cash \in Nat /\ cash # None /\ cash >= job.amount
  BY FundAssumption DEF RecordBuy, Pay, FundInv, Books, CashCovers, RunWhole, Reserving, Job
<1>2. CASE RecordBuy
  <2>1. /\ trades'.sold = trades.sold /\ trades'.got = trades.got
        /\ trades'.paid = trades.paid + job.amount
        /\ trades' \in [bought : [Rows -> Nat], sold : [Rows -> Nat], paid : Nat, got : Nat]
    <3>1. trades \in [bought : [Rows -> Nat], sold : [Rows -> Nat], paid : Nat, got : Nat]
      BY DEF FundInv, TypeOK
    <3>2. trades.bought[job.row] + job.shares \in Nat /\ trades.paid + job.amount \in Nat
      BY <1>1, <3>1
    <3>3. trades' = [trades EXCEPT !.bought = [trades.bought EXCEPT ![job.row] = @ + job.shares],
                                   !.paid = @ + job.amount]
      BY <1>2 DEF RecordBuy
    <3> QED BY <3>1, <3>2, <3>3
  <2>2. /\ pc = "buy" /\ pc' = "pay"
        /\ UNCHANGED <<cash, orders, positions, equity, todo, list, made, job, crashes>>
    BY <1>2 DEF RecordBuy
  <2>3. TypeOK'
    BY <2>1, <2>2 DEF FundInv, TypeOK
  <2>4. Open' = Open
    BY <2>2 DEF Open
  <2>5. RowsWhole' /\ OnePositionPerOrder' /\ NoShareSoldTwice'
    BY <2>1, <2>2 DEF FundInv, Books, RowsWhole, OnePositionPerOrder, NoShareSoldTwice
  <2>6. SlotsKept'
    BY <2>2, <2>4 DEF FundInv, Books, SlotsKept
  <2>7. RunWhole' /\ Filling' /\ Selling'
    BY <1>1, <2>2, <2>4 DEF FundInv, RunWhole, Filling, Selling, Reserving, Pending
  <2>8. CashMatchesTrades'
    <3>1. trades.paid \in Nat /\ trades.got \in Nat
      BY DEF FundInv, TypeOK
    <3>2. Unbooked = 0 /\ Unbooked' = -job.amount
      BY <2>2 DEF Unbooked
    <3>3. crashes = 0 => cash + 0 = Capital - trades.paid + trades.got
      BY <1>1, <3>2 DEF FundInv, Books, CashMatchesTrades
    <3>4. crashes = 0 => cash + (-job.amount) = Capital - (trades.paid + job.amount) + trades.got
      BY <1>1, <3>1, <3>3, FundAssumption
    <3> QED BY <2>1, <2>2, <3>2, <3>4 DEF CashMatchesTrades
  <2>9. CashCovers'
    BY <1>1, <2>2 DEF CashCovers
  <2> QED BY <2>3, <2>5, <2>6, <2>7, <2>8, <2>9 DEF FundInv, Books
<1>3. CASE Pay
  <2>1. cash' = cash - job.amount /\ cash' \in Nat /\ cash' # None
    BY <1>1, <1>3, FundAssumption DEF Pay
  <2>2. /\ pc = "pay" /\ pc' = "orders" /\ job' = None
        /\ UNCHANGED <<orders, positions, trades, equity, todo, list, made, crashes>>
    BY <1>3 DEF Pay
  <2>3. TypeOK'
    BY <2>1, <2>2 DEF FundInv, TypeOK
  <2>4. RunWhole' /\ Filling' /\ Selling'
    BY <2>1, <2>2, TablesStay DEF FundInv, RunWhole, Filling, Selling, Reserving
  <2>5. CashMatchesTrades'
    <3>1. trades.paid \in Nat /\ trades.got \in Nat
      BY DEF FundInv, TypeOK
    <3>2. Unbooked = -job.amount /\ Unbooked' = 0
      BY <2>2 DEF Unbooked
    <3>3. crashes = 0 => cash + (-job.amount) = Capital - trades.paid + trades.got
      BY <1>1, <3>2 DEF FundInv, Books, CashMatchesTrades
    <3>4. crashes = 0 => cash' + 0 = Capital - trades.paid + trades.got
      BY <1>1, <2>1, <3>1, <3>3, FundAssumption
    <3> QED BY <2>2, <3>2, <3>4 DEF CashMatchesTrades
  <2>6. CashCovers'
    BY <2>1, <2>2 DEF CashCovers
  <2> QED BY <2>2, <2>3, <2>4, <2>5, <2>6, TablesStay DEF FundInv, Books
<1> QED BY <1>2, <1>3

(* A sale: what is sold leaves the position. *)
LEMMA HalfFits == \A m \in Nat : m > 0 => Half(m) \in Nat /\ Half(m) <= m
<1>1. \A m \in Nat : m > 0 => m \div 2 \in Nat /\ m \div 2 <= m
  OBVIOUS
<1> QED BY <1>1 DEF Half

LEMMA EvaluateStep ==
    ASSUME FundInv, NEW p \in Rows, EvaluatePosition(p) \/ NoClosePrice(p)
    PROVE  FundInv'
<1>1. /\ pc = "sells" /\ todo' = todo \ {p}
      /\ UNCHANGED <<cash, orders, trades, equity, list, made, crashes>>
      /\ cash \in Nat /\ cash # None
  BY FundAssumption DEF EvaluatePosition, NoClosePrice, NextSell, FundInv, RunWhole
<1>2. CASE UNCHANGED <<positions, job, pc>>
  <2>1. TypeOK'
    BY <1>1, <1>2 DEF FundInv, TypeOK
  <2>2. RunWhole' /\ Filling' /\ Selling'
    BY <1>1, <1>2, TablesStay DEF FundInv, RunWhole, Filling, Selling, Reserving
  <2>3. CashMatchesTrades' /\ CashCovers'
    BY <1>1, <1>2 DEF FundInv, Books, CashMatchesTrades, CashCovers, Unbooked
  <2> QED BY <1>1, <1>2, <2>1, <2>2, <2>3, TablesStay DEF FundInv, Books
<1>3. ASSUME NEW close \in Prices, CloseAt(p, close) \/ CutAt(p, close) PROVE FundInv'
  <2> DEFINE old == positions[p]
  <2>1. /\ old \in Position /\ old.shares \in Nat /\ old.shares > 0 /\ old.status # "free"
        /\ old.plan \in Plans /\ old.order \in Rows /\ close \in Nat
    <3>1. old \in Position /\ old.shares > 0
      BY <1>3 DEF CloseAt, CutAt, FundInv, TypeOK
    <3>2. old.shares \in Nat
      BY <3>1 DEF Position
    <3>3. old.status # "free"
      BY <3>1 DEF FundInv, RowsWhole
    <3>4. old.plan \in Plans /\ old.order \in Rows
      BY <3>3 DEF FundInv, RowsWhole
    <3>5. close \in Nat
      BY FundAssumption
    <3> QED BY <3>1, <3>2, <3>3, <3>4, <3>5
  <2>2. PICK n \in Nat, new \in Position :
            /\ n <= old.shares /\ new.shares = old.shares - n
            /\ new.status # "free" /\ (new.status = "open" => old.status = "open")
            /\ new.plan = old.plan /\ new.order = old.order
            /\ positions' = [positions EXCEPT ![p] = new]
            /\ job' = [row |-> p, shares |-> n, amount |-> n * close] /\ pc' = "sell"
    <3>1. CASE CloseAt(p, close)
      <4> DEFINE new == [old EXCEPT !.status = "closed", !.shares = 0]
      <4>1. positions' = [positions EXCEPT ![p] = new]
        BY <2>1, <3>1 DEF CloseAt, ClosePosition, FundInv, TypeOK
      <4>2. new \in Position /\ new.shares = old.shares - old.shares /\ new.status = "closed"
            /\ new.plan = old.plan /\ new.order = old.order
        <5>1. new \in Position
          BY <2>1 DEF Position
        <5>2. new.shares = 0 /\ new.status = "closed" /\ new.plan = old.plan /\ new.order = old.order
          BY <2>1 DEF Position
        <5>3. \A m \in Nat : 0 = m - m
          OBVIOUS
        <5> HIDE DEF new, old
        <5> QED BY <2>1, <5>1, <5>2, <5>3
      <4>3. job' = [row |-> p, shares |-> old.shares, amount |-> old.shares * close] /\ pc' = "sell"
        BY <3>1 DEF CloseAt, Sale
      <4> HIDE DEF new, old
      <4>4. old.shares <= old.shares
        BY <2>1
      <4>5. new.status # "free" /\ (new.status = "open" => old.status = "open")
        BY <4>2
      <4> QED BY <2>1, <4>1, <4>2, <4>3, <4>4, <4>5, Zenon
    <3>2. CASE CutAt(p, close)
      <4> DEFINE n == Half(old.shares)
                 new == [old EXCEPT !.shares = old.shares - n, !.half = TRUE]
      <4>1. n \in Nat /\ n <= old.shares
        BY <2>1, HalfFits
      <4>2. positions' = [positions EXCEPT ![p] = new]
        BY <2>1, <3>2 DEF CutAt, FundInv, TypeOK
      <4>3. old.shares - n \in Nat
        BY <2>1, <4>1
      <4>4. new \in Position /\ new.shares = old.shares - n /\ new.status = old.status
            /\ new.plan = old.plan /\ new.order = old.order
        BY <2>1, <4>3 DEF Position
      <4>5. job' = [row |-> p, shares |-> n, amount |-> n * close] /\ pc' = "sell"
        BY <3>2 DEF CutAt, Sale
      <4> HIDE DEF new, n, old
      <4> QED BY <2>1, <4>1, <4>2, <4>4, <4>5
    <3> QED BY <1>3, <3>1, <3>2
  <2>3. /\ positions' \in [Rows -> Position] /\ positions'[p] = new
        /\ \A r \in Rows : r # p => positions'[r] = positions[r]
    BY <2>2 DEF FundInv, TypeOK
  <2>4. job' \in Job /\ job'.row = p /\ job'.shares = n
    <3>1. \A k, m \in Nat : k * m \in Nat
      OBVIOUS
    <3>2. n * close \in Nat
      BY <2>1, <3>1
    <3> QED BY <2>2, <3>2 DEF Job
  <2>5. Open' \subseteq Open
    BY <2>2, <2>3 DEF Open
  <2>6. IsFiniteSet(Open') /\ Cardinality(Open') <= Cardinality(Open)
        /\ Cardinality(Open) \in Nat /\ Cardinality(Open') \in Nat
    <3>1. IsFiniteSet(Open)
      BY DEF FundInv, RunWhole
    <3> QED BY <2>5, <3>1, FS_Subset, FS_CardinalityType
  <2>7. TypeOK'
    BY <1>1, <2>2, <2>3, <2>4 DEF FundInv, TypeOK
  <2>8. RowsWhole'
    BY <1>1, <2>1, <2>2, <2>3 DEF FundInv, RowsWhole
  <2>9. RunWhole' /\ Filling'
    BY <1>1, <2>2, <2>4, <2>6 DEF FundInv, RunWhole, Filling, Reserving
  <2>10. trades.sold[p] \in Nat /\ orders[old.order].shares \in Nat
         /\ old.shares + trades.sold[p] <= orders[old.order].shares
    BY <2>1 DEF FundInv, TypeOK, Order, Books, NoShareSoldTwice
  <2>11. new.shares \in Nat /\ new.shares + trades.sold[p] + n <= orders[new.order].shares
         /\ new.shares + trades.sold[p] <= orders[new.order].shares
    BY <2>1, <2>2, <2>10
  <2>12. Selling'
    BY <1>1, <2>2, <2>3, <2>4, <2>11 DEF Selling
  <2>13. NoShareSoldTwice'
    BY <1>1, <2>2, <2>3, <2>11 DEF FundInv, Books, NoShareSoldTwice
  <2>14. SlotsKept'
    <3>1. \A r \in Open' : positions'[r].plan = positions[r].plan
      BY <2>2, <2>3 DEF Open
    <3>2. Cardinality(Open') <= MaxPositions
      BY <2>6, FundAssumption DEF FundInv, Books, SlotsKept
    <3> QED BY <2>5, <3>1, <3>2 DEF FundInv, Books, SlotsKept
  <2>15. OnePositionPerOrder'
    BY <2>1, <2>2, <2>3 DEF FundInv, Books, OnePositionPerOrder
  <2>16. CashMatchesTrades' /\ CashCovers'
    BY <1>1, <2>2 DEF FundInv, Books, CashMatchesTrades, CashCovers, Unbooked
  <2> QED BY <2>7, <2>8, <2>9, <2>12, <2>13, <2>14, <2>15, <2>16 DEF FundInv, Books
<1> QED BY <1>1, <1>2, <1>3 DEF EvaluatePosition, NoClosePrice, KeepAt

LEMMA SellStep == ASSUME FundInv, RecordSell \/ Credit PROVE FundInv'
<1>1. /\ job \in Job /\ job.row \in Rows /\ job.shares \in Nat /\ job.amount \in Nat
      /\ cash \in Nat /\ cash # None
  BY FundAssumption DEF RecordSell, Credit, FundInv, RunWhole, Job
<1>2. trades.paid \in Nat /\ trades.got \in Nat
  BY DEF FundInv, TypeOK
<1>3. CASE RecordSell
  <2>1. /\ pc = "sell" /\ pc' = "credit"
        /\ UNCHANGED <<cash, orders, positions, equity, todo, list, made, job, crashes>>
    BY <1>3 DEF RecordSell
  <2>2. /\ trades' \in [bought : [Rows -> Nat], sold : [Rows -> Nat], paid : Nat, got : Nat]
        /\ trades'.paid = trades.paid /\ trades'.got = trades.got + job.amount
        /\ trades'.sold[job.row] = trades.sold[job.row] + job.shares
        /\ trades.sold[job.row] \in Nat
        /\ \A r \in Rows : r # job.row => trades'.sold[r] = trades.sold[r]
    <3>1. trades \in [bought : [Rows -> Nat], sold : [Rows -> Nat], paid : Nat, got : Nat]
      BY DEF FundInv, TypeOK
    <3>2. trades.sold[job.row] + job.shares \in Nat /\ trades.got + job.amount \in Nat
          /\ trades.sold[job.row] \in Nat
      BY <1>1, <3>1
    <3>3. trades' = [trades EXCEPT !.sold = [trades.sold EXCEPT ![job.row] = @ + job.shares],
                                   !.got = @ + job.amount]
      BY <1>3 DEF RecordSell
    <3> QED BY <1>1, <3>1, <3>2, <3>3
  <2>3. TypeOK'
    BY <2>1, <2>2 DEF FundInv, TypeOK
  <2>4. Open' = Open
    BY <2>1 DEF Open
  <2>5. /\ positions[job.row].status # "free"
        /\ positions[job.row].shares + trades.sold[job.row] + job.shares
             <= orders[positions[job.row].order].shares
        /\ positions[job.row].shares \in Nat
    BY <1>1, <2>1 DEF FundInv, Selling, TypeOK, Position
  <2>6. RowsWhole'
    BY <2>1, <2>2, <2>5 DEF FundInv, RowsWhole
  <2>7. OnePositionPerOrder'
    BY <2>1 DEF FundInv, Books, OnePositionPerOrder
  <2>8. NoShareSoldTwice'
    <3>1. positions[job.row].shares + trades'.sold[job.row] <= orders[positions[job.row].order].shares
      BY <1>1, <2>2, <2>5
    <3> QED BY <2>1, <2>2, <3>1 DEF FundInv, Books, NoShareSoldTwice
  <2>9. SlotsKept'
    BY <2>1, <2>4 DEF FundInv, Books, SlotsKept
  <2>10. RunWhole' /\ Filling' /\ Selling'
    BY <1>1, <2>1, <2>4 DEF FundInv, RunWhole, Filling, Selling, Reserving, Pending
  <2>11. CashMatchesTrades'
    <3>1. Unbooked = 0 /\ Unbooked' = job.amount
      BY <2>1 DEF Unbooked
    <3>2. crashes = 0 => cash + 0 = Capital - trades.paid + trades.got
      BY <1>1, <3>1 DEF FundInv, Books, CashMatchesTrades
    <3>3. crashes = 0 => cash + job.amount = Capital - trades.paid + (trades.got + job.amount)
      BY <1>1, <1>2, <3>2, FundAssumption
    <3> QED BY <2>1, <2>2, <3>1, <3>3 DEF CashMatchesTrades
  <2>12. CashCovers'
    BY <1>1, <2>1 DEF CashCovers
  <2> QED BY <2>3, <2>6, <2>7, <2>8, <2>9, <2>10, <2>11, <2>12 DEF FundInv, Books
<1>4. CASE Credit
  <2>1. cash' = cash + job.amount /\ cash' \in Nat /\ cash' # None
    BY <1>1, <1>4, FundAssumption DEF Credit
  <2>2. /\ pc = "credit" /\ pc' = "sells" /\ job' = None
        /\ UNCHANGED <<orders, positions, trades, equity, todo, list, made, crashes>>
    BY <1>4 DEF Credit
  <2>3. TypeOK'
    BY <2>1, <2>2 DEF FundInv, TypeOK
  <2>4. RunWhole' /\ Filling' /\ Selling'
    BY <2>1, <2>2, TablesStay DEF FundInv, RunWhole, Filling, Selling, Reserving
  <2>5. CashMatchesTrades'
    <3>1. Unbooked = job.amount /\ Unbooked' = 0
      BY <2>2 DEF Unbooked
    <3>2. crashes = 0 => cash + job.amount = Capital - trades.paid + trades.got
      BY <1>1, <3>1 DEF FundInv, Books, CashMatchesTrades
    <3>3. crashes = 0 => cash' + 0 = Capital - trades.paid + trades.got
      BY <1>1, <2>1, <3>2
    <3> QED BY <2>2, <3>1, <3>3 DEF CashMatchesTrades
  <2>6. CashCovers'
    BY <2>1, <2>2 DEF CashCovers
  <2> QED BY <2>2, <2>3, <2>4, <2>5, <2>6, TablesStay DEF FundInv, Books
<1> QED BY <1>3, <1>4

(* A day passes for the queued orders and the open positions. *)
LEMMA NextDayStep == ASSUME FundInv, NextDay PROVE FundInv'
<1>1. /\ pc = "idle" /\ UNCHANGED <<cash, trades, equity, pc, todo, list, made, job, crashes>>
  BY DEF NextDay, run
<1>2. /\ orders' \in [Rows -> Order]
      /\ \A o \in Rows : /\ orders'[o].status = orders[o].status /\ orders'[o].plan = orders[o].plan
                          /\ orders'[o].shares = orders[o].shares
  <2>1. \A o \in Rows : orders[o] \in Order /\ orders[o].age \in Nat
                        /\ Lesser(orders[o].age + 1, OrderDays + 1) \in 0..(OrderDays + 1)
    <3>1. \A o \in Rows : orders[o] \in Order
      BY DEF FundInv, TypeOK
    <3>2. \A o \in Rows : orders[o].age \in Nat
      BY <3>1, FundAssumption DEF Order
    <3>3. \A m, n \in Nat : Lesser(m + 1, n + 1) \in 0..(n + 1)
      BY DEF Lesser
    <3> QED BY <3>1, <3>2, <3>3, FundAssumption
  <2>2. \A o \in Rows :
          orders'[o] = IF orders[o].status # "pending" THEN orders[o]
                       ELSE [orders[o] EXCEPT !.age = Lesser(@ + 1, OrderDays + 1)]
    BY DEF NextDay
  <2>3. DOMAIN orders' = Rows /\ orders' = [o \in Rows |-> orders'[o]]
    BY DEF NextDay
  <2>4. \A o \in Rows : /\ orders'[o] \in Order
                        /\ orders'[o].status = orders[o].status /\ orders'[o].plan = orders[o].plan
                        /\ orders'[o].shares = orders[o].shares
    BY <2>1, <2>2 DEF Order
  <2> QED BY <2>3, <2>4
<1>3. /\ positions' \in [Rows -> Position]
      /\ \A p \in Rows : /\ positions'[p].status = positions[p].status
                          /\ positions'[p].plan = positions[p].plan
                          /\ positions'[p].order = positions[p].order
                          /\ positions'[p].shares = positions[p].shares
  <2>1. \A p \in Rows : positions[p] \in Position /\ positions[p].age \in Nat
                        /\ Lesser(positions[p].age + 1, HoldDays) \in 0..HoldDays
    <3>1. \A p \in Rows : positions[p] \in Position
      BY DEF FundInv, TypeOK
    <3>2. \A p \in Rows : positions[p].age \in Nat
      BY <3>1, FundAssumption DEF Position
    <3>3. \A m, n \in Nat : Lesser(m + 1, n) \in 0..n
      BY DEF Lesser
    <3> QED BY <3>1, <3>2, <3>3, FundAssumption
  <2>2. \A p \in Rows :
          positions'[p] = IF positions[p].status # "open" THEN positions[p]
                          ELSE [positions[p] EXCEPT !.age = Lesser(@ + 1, HoldDays)]
    BY DEF NextDay
  <2>3. DOMAIN positions' = Rows /\ positions' = [p \in Rows |-> positions'[p]]
    BY DEF NextDay
  <2>4. \A p \in Rows : /\ positions'[p] \in Position
                        /\ positions'[p].status = positions[p].status
                        /\ positions'[p].plan = positions[p].plan
                        /\ positions'[p].order = positions[p].order
                        /\ positions'[p].shares = positions[p].shares
    <3>1. \A pos \in Position, n \in 0..HoldDays :
            LET new == [pos EXCEPT !.age = n]
            IN  /\ new \in Position /\ new.status = pos.status /\ new.plan = pos.plan
                /\ new.order = pos.order /\ new.shares = pos.shares
      BY DEF Position
    <3> SUFFICES ASSUME NEW p \in Rows
                 PROVE  /\ positions'[p] \in Position
                        /\ positions'[p].status = positions[p].status
                        /\ positions'[p].plan = positions[p].plan
                        /\ positions'[p].order = positions[p].order
                        /\ positions'[p].shares = positions[p].shares
      OBVIOUS
    <3>2. CASE positions[p].status = "open"
      <4> DEFINE n == Lesser(positions[p].age + 1, HoldDays)
      <4>1. positions'[p] = [positions[p] EXCEPT !.age = n]
        BY <2>2, <3>2
      <4>2. positions[p] \in Position /\ n \in 0..HoldDays
        BY <2>1
      <4> HIDE DEF n
      <4> QED BY <3>1, <4>1, <4>2
    <3>3. CASE positions[p].status # "open"
      <4>1. positions'[p] = positions[p]
        BY <2>2, <3>3
      <4> QED BY <2>1, <4>1
    <3> QED BY <3>2, <3>3
  <2> QED BY <2>3, <2>4
<1>4. Open' = Open
  BY <1>3 DEF Open
<1>5. TypeOK'
  BY <1>1, <1>2, <1>3 DEF FundInv, TypeOK
<1>6. RowsWhole'
  BY <1>1, <1>2, <1>3 DEF FundInv, RowsWhole
<1>7. RunWhole' /\ Filling' /\ Selling'
  BY <1>1, <1>4 DEF FundInv, RunWhole, Filling, Selling, Reserving
<1>8. SlotsKept'
  <2>1. \A p \in Open : positions'[p].plan = positions[p].plan
    BY <1>3 DEF Open
  <2> QED BY <1>4, <2>1 DEF FundInv, Books, SlotsKept
<1>9. OnePositionPerOrder'
  BY <1>3 DEF FundInv, Books, OnePositionPerOrder
<1>10. NoShareSoldTwice'
  <2>1. \A p \in Rows : positions[p].status # "free" => positions[p].order \in Rows
    BY DEF FundInv, RowsWhole
  <2> QED BY <1>1, <1>2, <1>3, <2>1 DEF FundInv, Books, NoShareSoldTwice
<1>11. CashMatchesTrades' /\ CashCovers'
  BY <1>1 DEF FundInv, Books, CashMatchesTrades, CashCovers, Unbooked
<1> QED BY <1>5, <1>6, <1>7, <1>8, <1>9, <1>10, <1>11 DEF FundInv, Books

(* What the buy filter leaves of a scan is a list of plans. *)
LEMMA ShortlistsArePlans ==
    ASSUME NEW scan \in Scans, NEW l \in Shortlists(scan)
    PROVE  l \in Seq(Plans)
<1> DEFINE Kept == {i \in DOMAIN scan : Buyable(scan[i])}
<1>1. scan \in Seq(Signal)
  BY FundAssumption
<1>2. Cardinality(Kept) \in Nat
  <2>1. IsFiniteSet(1..Len(scan))
    BY <1>1, FS_Interval
  <2>2. Kept \subseteq 1..Len(scan)
    BY <1>1
  <2>3. IsFiniteSet(Kept)
    BY <2>1, <2>2, FS_Subset
  <2> QED BY <2>3, FS_CardinalityType
<1>3. PICK f \in [1..Cardinality(Kept) -> Kept] : l = [i \in 1..Cardinality(Kept) |-> scan[f[i]].plan]
  BY DEF Shortlists
<1>4. \A k \in Kept : scan[k].plan \in Plans
  <2>1. \A k \in DOMAIN scan : scan[k] \in Signal
    BY <1>1
  <2>2. \A sig \in Signal : sig.plan \in Plans
    BY DEF Signal
  <2> QED BY <2>1, <2>2
<1> HIDE DEF Kept
<1>5. \A i \in 1..Cardinality(Kept) : scan[f[i]].plan \in Plans
  BY <1>3, <1>4
<1>6. \A n \in Nat : [1..n -> Plans] \subseteq Seq(Plans)
  BY DEF Seq
<1> QED BY <1>2, <1>3, <1>5, <1>6

LEMMA FundNext == ASSUME FundInv, [Next]_vars PROVE FundInv'
<1>1. CASE UNCHANGED vars
  <2>1. UNCHANGED <<cash, orders, positions, trades, equity, pc, todo, list, made, job, crashes>>
    BY <1>1 DEF vars, disk, run
  <2>2. TypeOK'
    BY <2>1 DEF FundInv, TypeOK
  <2>3. RunWhole'
    BY <2>1, TablesStay DEF FundInv, RunWhole, Reserving
  <2>4. Filling'
    <3>1. Unpositioned(job.row)' = Unpositioned(job.row)
          /\ Held(orders[job.row].plan.symbol)' = Held(orders[job.row].plan.symbol)
      BY <2>1, TablesStay DEF Unpositioned, Held
    <3> QED BY <2>1, <3>1, TablesStay DEF FundInv, Filling
  <2>5. Selling' /\ CashMatchesTrades' /\ CashCovers'
    BY <2>1 DEF FundInv, Selling, Books, CashMatchesTrades, CashCovers, Unbooked
  <2> QED BY <2>1, <2>2, <2>3, <2>4, <2>5, TablesStay DEF FundInv, Books
<1>2. CASE StartRun(None)
  BY <1>2, StartRunStep
<1>3. ASSUME NEW scan \in Scans, NEW l \in Shortlists(scan), StartRun(l) PROVE FundInv'
  BY <1>3, ShortlistsArePlans, StartRunStep
<1>4. CASE Step
  BY <1>4, ProcessStep, InsertStep, PayStep, TurnStep, EvaluateStep, SellStep, BuyStep, ValueStep
  DEF Step
<1> QED BY <1>1, <1>2, <1>3, <1>4, InitFundStep, ValueStep, NextDayStep DEF Next

-----------------------------------------------------------------------------
(* The scan. *)

(* Its finite sets and their sizes are the fund's. *)
LEMMA SameFinite == \A S : Scan!IsFiniteSet(S) <=> IsFiniteSet(S)
BY DEF Scan!IsFiniteSet, IsFiniteSet

LEMMA SameCardinality == \A S : Scan!Cardinality(S) = Cardinality(S)
BY DEF Scan!Cardinality, Cardinality

(* A hit is one of a list once, and in no two lists of a scan. *)
Distinct(s) == \A i, j \in DOMAIN s : Scan!Same(s[i], s[j]) => i = j
Apart(s, t) == \A i \in DOMAIN s, j \in DOMAIN t : ~Scan!Same(s[i], t[j])

(* What the choice of a hit saw still holds when its message goes out: its  *)
(* result is saved, its cooldown over, and its score high enough.          *)
Due(h) ==
  /\ <<h.symbol, h.strategy, day>> \in results
  /\ \A d \in 0..(day - 1) :
       <<h.symbol, h.strategy, d>> \in results => day - d >= Cooldown[h.strategy]
  /\ \A p \in log : Scan!Same(p, h) /\ p.day = day => h.score >= p.score + Jump

Lined ==
  /\ step = "idle" => rows = <<>> /\ picks = <<>>
  /\ step = "send" => rows = <<>>
  /\ step = "record" => picks = <<>>
  /\ step = "result" => rows # <<>> /\ <<Head(rows).symbol, day>> \in signals
  /\ Distinct(rows) /\ Distinct(picks) /\ Apart(picks, rows)

Chosen ==
  /\ \A i \in DOMAIN picks : Due(picks[i])
  /\ step = "record" => \A i \in DOMAIN rows : Due(rows[i])

(* A message of before is in the log of pushes, or about to be. *)
Logged(m) == \E p \in log : Scan!Same(p, m) /\ p.day = m.day /\ p.score >= m.score
ToLog(m) == /\ step = "record" /\ m.day = day
            /\ \E k \in DOMAIN rows : Scan!Same(rows[k], m) /\ rows[k].score >= m.score
Remembered ==
  /\ \A i \in DOMAIN sent : sent[i].day <= day
  /\ faults = 0 => \A i \in DOMAIN sent : Logged(sent[i]) \/ ToLog(sent[i])

Messages == Scan!CooldownKept /\ Scan!RepeatsAreFaults /\ Scan!ResultsHaveSignals
ScanInv == Scan!TypeOK /\ Lined /\ Chosen /\ Remembered /\ Messages

LEMMA ScanInit == ASSUME Scan!Init PROVE ScanInv
<1> USE ScanConstants DEF Scan!ScanAssumption, Scan!Init
<1>1. Scan!TypeOK
  BY DEF Scan!TypeOK, Scan!Days
<1>2. Lined /\ Chosen /\ Remembered
  BY DEF Lined, Distinct, Apart, Chosen, Remembered
<1>3. Messages
  BY DEF Messages, Scan!CooldownKept, Scan!RepeatsAreFaults, Scan!Repeats, Scan!ResultsHaveSignals
<1> QED BY <1>1, <1>2, <1>3 DEF ScanInv

(* The messages stay, and what the rest says of them, while none is sent. *)
LEMMA MessagesStay ==
    ASSUME ScanInv, sent' = sent, signals \subseteq signals', results \subseteq results',
           faults' >= faults,
           \A r \in results' : <<r[1], r[3]>> \in signals'
    PROVE  Messages'
<1> USE DEF ScanInv, Messages
<1>1. Scan!CooldownKept'
  BY DEF Scan!CooldownKept
<1>2. Scan!RepeatsAreFaults'
  BY ScanConstants DEF Scan!TypeOK, Scan!RepeatsAreFaults, Scan!Repeats, Scan!ScanAssumption
<1>3. Scan!ResultsHaveSignals'
  BY DEF Scan!ResultsHaveSignals
<1> QED BY <1>1, <1>2, <1>3

(* One stock makes one hit of a strategy, so the hits are finite in number. *)
LEMMA HitsAreFinite ==
    ASSUME NEW hits \in SUBSET Scan!Hit,
           \A g, h \in hits : g.symbol = h.symbol /\ g.strategy = h.strategy => g = h
    PROVE  IsFiniteSet(hits)
<1> DEFINE T == Symbols \X Strategies
           f == [h \in hits |-> <<h.symbol, h.strategy>>]
<1>1. IsFiniteSet(T)
  <2>1. IsFiniteSet(Symbols) /\ IsFiniteSet(Strategies)
    BY ScanConstants, SameFinite DEF Scan!ScanAssumption
  <2> QED BY <2>1, FS_Product
<1>2. f \in [hits -> T]
  BY DEF Scan!Hit
<1>3. \A g, h \in hits : f[g] = f[h] => g = h
  OBVIOUS
<1> HIDE DEF f, T
<1>4. f \in Injection(hits, T)
  BY <1>2, <1>3 DEF Injection, IsInjective
<1> QED BY <1>1, <1>4, FS_Injection

LEMMA StartScanStep ==
    ASSUME ScanInv, NEW hits \in SUBSET Scan!Hit, Scan!StartScan(hits)
    PROVE  ScanInv'
<1> DEFINE best == Scan!Best(hits)
           n == Cardinality(best)
<1>1. /\ step = "idle" /\ step' = "signal" /\ picks' = <<>> /\ scans' = scans + 1
      /\ scans < MaxScans
      /\ UNCHANGED <<day, signals, results, log, evaluations, sent, faults>>
      /\ \A g, h \in hits : g.symbol = h.symbol /\ g.strategy = h.strategy => g = h
  BY DEF Scan!StartScan, Scan!tables
<1>2. best \subseteq hits /\ n \in Nat
  <2>1. IsFiniteSet(hits)
    BY <1>1, HitsAreFinite
  <2>2. best \subseteq hits
    BY DEF Scan!Best
  <2> HIDE DEF best
  <2>3. IsFiniteSet(best)
    BY <2>1, <2>2, FS_Subset
  <2> QED BY <2>2, <2>3, FS_CardinalityType
<1>0. rows' \in Scan!Lists(best)
  BY DEF Scan!StartScan
<1> HIDE DEF best
<1>3. PICK l \in [1..n -> best] : rows' = l /\ \A i, j \in 1..n : i < j => l[i] # l[j]
  BY <1>0, SameCardinality DEF Scan!Lists
<1> HIDE DEF n
<1>4. rows' \in Seq(Scan!Hit) /\ DOMAIN rows' = 1..n
  <2>1. \A i \in 1..n : l[i] \in Scan!Hit
    BY <1>2, <1>3
  <2>2. \A S : \A k \in Nat : [1..k -> S] \subseteq Seq(S)
    BY DEF Seq
  <2>3. l \in [1..n -> Scan!Hit]
    BY <1>3, <2>1
  <2> QED BY <1>2, <1>3, <2>2, <2>3
<1>5. Distinct(rows')
  <2> SUFFICES ASSUME NEW i \in 1..n, NEW j \in 1..n, Scan!Same(l[i], l[j]), i # j PROVE FALSE
    BY <1>3, <1>4 DEF Distinct
  <2>1. l[i] = l[j]
    BY <1>1, <1>2, <1>3 DEF Scan!Same
  <2>2. i < j \/ j < i
    BY <1>2
  <2> QED BY <1>3, <2>1, <2>2
<1>6. Scan!TypeOK'
  BY <1>1, <1>4, ScanConstants DEF ScanInv, Scan!TypeOK, Scan!ScanAssumption
<1>7. Lined'
  BY <1>1, <1>5 DEF Lined, Distinct, Apart
<1>8. Chosen' /\ Remembered'
  BY <1>1 DEF ScanInv, Chosen, Remembered, Logged, ToLog
<1>9. Messages'
  BY <1>1, ScanConstants, MessagesStay DEF ScanInv, Messages, Scan!ResultsHaveSignals, Scan!TypeOK, Scan!ScanAssumption
<1> QED BY <1>6, <1>7, <1>8, <1>9 DEF ScanInv

LEMMA SentAreTyped ==
    ASSUME ScanInv
    PROVE  \A i \in DOMAIN sent : sent[i] \in Scan!Push /\ sent[i].day \in Nat /\ sent[i].score \in Nat
<1>1. \A i \in DOMAIN sent : sent[i] \in Scan!Push
  BY DEF ScanInv, Scan!TypeOK
<1>2. \A p \in Scan!Push : p.day \in Nat /\ p.score \in Nat
  <2>1. MaxDay \in Nat /\ Scores \subseteq Nat
    BY ScanConstants DEF Scan!ScanAssumption
  <2>2. Scan!Days \subseteq Nat
    BY <2>1 DEF Scan!Days
  <2> QED BY <2>1, <2>2 DEF Scan!Push
<1> QED BY <1>1, <1>2

(* Steps that leave the lists and the messages alone. *)
LEMMA QuietStep ==
    ASSUME ScanInv, Scan!NoUniverse \/ (\E s \in signals : Scan!Evaluate(s)) \/ Scan!EndScan
    PROVE  ScanInv'
<1>1. /\ UNCHANGED <<day, signals, results, log, sent, rows, picks, faults>>
      /\ \/ step' = step /\ step = "idle"
         \/ step' = "idle" /\ step = "record" /\ rows = <<>>
      /\ scans' \in 0..MaxScans /\ evaluations' \subseteq Symbols \X Scan!Days
  BY ScanConstants DEF Scan!NoUniverse, Scan!Evaluate, Scan!Unevaluated, Scan!EndScan, Scan!tables,
                       ScanInv, Scan!TypeOK, Scan!ScanAssumption
<1>2. Scan!TypeOK'
  BY <1>1 DEF ScanInv, Scan!TypeOK
<1>3. Lined'
  BY <1>1 DEF ScanInv, Lined, Distinct, Apart
<1>4. Chosen'
  BY <1>1 DEF ScanInv, Chosen, Due
<1>5. Remembered'
  BY <1>1 DEF ScanInv, Remembered, Logged, ToLog
<1>6. Messages'
  BY <1>1, ScanConstants, MessagesStay DEF ScanInv, Messages, Scan!ResultsHaveSignals, Scan!TypeOK, Scan!ScanAssumption
<1> QED BY <1>2, <1>3, <1>4, <1>5, <1>6 DEF ScanInv

LEMMA ScanCrashStep == ASSUME ScanInv, Scan!Crash PROVE ScanInv'
<1>1. /\ UNCHANGED <<day, signals, results, log, evaluations, sent, scans>> /\ step' = "idle"
      /\ rows' = <<>> /\ picks' = <<>> /\ faults' = faults + 1 /\ faults' \in 0..MaxFaults /\ faults \in Nat
  BY ScanConstants DEF Scan!Crash, Scan!tables, ScanInv, Scan!TypeOK, Scan!ScanAssumption
<1>2. Scan!TypeOK'
  BY <1>1 DEF ScanInv, Scan!TypeOK
<1>3. Lined' /\ Chosen' /\ Remembered'
  BY <1>1 DEF ScanInv, Lined, Distinct, Apart, Chosen, Remembered
<1>4. Messages'
  BY <1>1, MessagesStay DEF ScanInv, Messages, Scan!ResultsHaveSignals
<1> QED BY <1>2, <1>3, <1>4 DEF ScanInv

LEMMA ScanDayStep == ASSUME ScanInv, Scan!NextDay PROVE ScanInv'
<1>1. /\ UNCHANGED <<signals, results, log, evaluations, sent, scans, step, rows, picks, faults>>
      /\ step = "idle" /\ day' = day + 1 /\ day' \in Scan!Days /\ day \in Nat
  BY ScanConstants DEF Scan!NextDay, Scan!tables, ScanInv, Scan!TypeOK, Scan!ScanAssumption, Scan!Days
<1>2. Scan!TypeOK'
  BY <1>1 DEF ScanInv, Scan!TypeOK
<1>3. Lined' /\ Chosen'
  BY <1>1 DEF ScanInv, Lined, Distinct, Apart, Chosen
<1>4. Remembered'
  <2>1. \A i \in DOMAIN sent : sent[i].day \in Nat
    BY SentAreTyped
  <2> QED BY <1>1, <2>1 DEF ScanInv, Remembered, Logged, ToLog
<1>5. Messages'
  BY <1>1, ScanConstants, MessagesStay DEF ScanInv, Messages, Scan!ResultsHaveSignals, Scan!TypeOK, Scan!ScanAssumption
<1> QED BY <1>2, <1>3, <1>4, <1>5 DEF ScanInv

(* The rows of a signal, of a result, and of the best scores. *)
LEMMA SaveSignalStep ==
    ASSUME ScanInv, Scan!SaveSignal \/ (\E S \in SUBSET Symbols : Scan!SaveTop(S))
    PROVE  ScanInv'
<1>0. day \in Scan!Days
  BY DEF ScanInv, Scan!TypeOK
<1>1. /\ UNCHANGED <<day, results, log, evaluations, sent, rows, picks, scans, faults>>
      /\ step = "signal" /\ signals \subseteq signals' /\ signals' \subseteq Symbols \X Scan!Days
      /\ \/ step' = "result" /\ rows # <<>> /\ <<Head(rows).symbol, day>> \in signals'
         \/ step' = "send" /\ rows = <<>>
  <2>1. CASE Scan!SaveSignal
    <3>1. rows \in Seq(Scan!Hit) /\ rows # <<>>
      BY <2>1 DEF Scan!SaveSignal, ScanInv, Scan!TypeOK
    <3>2. Head(rows) \in Scan!Hit
      BY <3>1
    <3>3. Head(rows).symbol \in Symbols
      BY <3>2 DEF Scan!Hit
    <3> QED BY <1>0, <2>1, <3>1, <3>3 DEF Scan!SaveSignal, ScanInv, Scan!TypeOK
  <2>2. CASE \E S \in SUBSET Symbols : Scan!SaveTop(S)
    BY <1>0, <2>2 DEF Scan!SaveTop, ScanInv, Scan!TypeOK
  <2> QED BY <2>1, <2>2
<1>2. Scan!TypeOK'
  BY <1>1 DEF ScanInv, Scan!TypeOK
<1>3. Lined'
  BY <1>1 DEF ScanInv, Lined, Distinct, Apart
<1>4. Chosen'
  BY <1>1 DEF ScanInv, Chosen, Due
<1>5. Remembered'
  BY <1>1 DEF ScanInv, Remembered, Logged, ToLog
<1>6. Messages'
  <2>1. faults' >= faults
    BY <1>1 DEF ScanInv, Scan!TypeOK
  <2>2. \A r \in results' : <<r[1], r[3]>> \in signals'
    BY <1>1 DEF ScanInv, Messages, Scan!ResultsHaveSignals
  <2> QED BY <1>1, <2>1, <2>2, MessagesStay
<1> QED BY <1>2, <1>3, <1>4, <1>5, <1>6 DEF ScanInv

(* The days since the last result bound the days since every one. *)
LEMMA CooldownOver ==
    ASSUME ScanInv, NEW h \in Scan!Hit, ~Scan!InCooldown(h)
    PROVE  \A d \in 0..(day - 1) :
             <<h.symbol, h.strategy, d>> \in results => day - d >= Cooldown[h.strategy]
<1> DEFINE D == {d \in 0..(day - 1) : <<h.symbol, h.strategy, d>> \in results}
<1>1. SUFFICES ASSUME NEW d \in D PROVE day - d >= Cooldown[h.strategy]
  OBVIOUS
<1>2. day \in Nat /\ Cooldown[h.strategy] \in Nat
  BY ScanConstants DEF ScanInv, Scan!TypeOK, Scan!Days, Scan!ScanAssumption, Scan!Hit
<1>3. D \in SUBSET Int /\ IsFiniteSet(D) /\ D # {}
  <2>1. IsFiniteSet(0..(day - 1))
    BY <1>2, FS_Interval
  <2>2. D \subseteq 0..(day - 1)
    OBVIOUS
  <2>3. IsFiniteSet(D)
    BY <2>1, <2>2, FS_Subset
  <2> QED BY <1>1, <1>2, <2>2, <2>3
<1>4. \A e \in D : e \in Nat
  BY <1>2
<1>5. Scan!LastDay(h) = CHOOSE x \in D : \A e \in D : e <= x
  BY <1>3 DEF Scan!LastDay
<1> HIDE DEF D
<1>6. \E x \in D : \A e \in D : e <= x
  <2>1. Max(D) \in D /\ \A y \in D : Max(D) >= y
    BY <1>3, MaxExists
  <2> QED BY <1>4, <2>1
<1>7. Scan!LastDay(h) \in D /\ d <= Scan!LastDay(h)
  BY <1>1, <1>5, <1>6
<1>8. Scan!LastDay(h) # None /\ d \in Nat /\ Scan!LastDay(h) \in Nat
  BY <1>1, <1>4, <1>7, FundAssumption
<1>9. ~(day - Scan!LastDay(h) < Cooldown[h.strategy])
  BY <1>8 DEF Scan!InCooldown
<1> QED BY <1>2, <1>7, <1>8, <1>9

LEMMA SaveResultStep == ASSUME ScanInv, Scan!SaveResult PROVE ScanInv'
<1> DEFINE h == Head(rows)
           row == <<h.symbol, h.strategy, day>>
<1>1. /\ step = "result" /\ step' = "signal" /\ rows' = Tail(rows)
      /\ results' = results \cup {row}
      /\ UNCHANGED <<day, signals, log, evaluations, sent, scans, faults>>
      /\ rows \in Seq(Scan!Hit) /\ rows # <<>> /\ picks \in Seq(Scan!Hit)
      /\ <<h.symbol, day>> \in signals
  BY DEF Scan!SaveResult, ScanInv, Scan!TypeOK, Lined
<1>2. /\ h \in Scan!Hit /\ h = rows[1] /\ rows' \in Seq(Scan!Hit) /\ 1 \in DOMAIN rows
      /\ \A i \in DOMAIN rows' : i \in Nat /\ i + 1 \in DOMAIN rows /\ rows'[i] = rows[i + 1] /\ i + 1 # 1
  <2>1. rows' \in Seq(Scan!Hit) /\ Len(rows') = Len(rows) - 1 /\ Len(rows) \in Nat /\ Len(rows) > 0
    BY <1>1
  <2>2. DOMAIN rows = 1..Len(rows) /\ DOMAIN rows' = 1..Len(rows')
    BY <1>1, <2>1
  <2>3. \A i \in 1..Len(rows') : rows'[i] = rows[i + 1]
    BY <1>1, <2>1
  <2> QED BY <1>1, <2>1, <2>2, <2>3
<1>3. \/ picks' = picks
      \/ picks' = Append(picks, h) /\ Scan!Eligible(h)
  BY DEF Scan!SaveResult
<1>4. row \in Symbols \X Strategies \X Scan!Days /\ day \in Nat
  BY <1>2 DEF Scan!Hit, ScanInv, Scan!TypeOK, Scan!Days
<1>5. /\ picks' \in Seq(Scan!Hit)
      /\ \A i \in DOMAIN picks' : \/ i \in DOMAIN picks /\ picks'[i] = picks[i]
                                  \/ i = Len(picks) + 1 /\ picks'[i] = h /\ Scan!Eligible(h)
  <2>1. CASE picks' = Append(picks, h) /\ Scan!Eligible(h)
    <3>1. picks' \in Seq(Scan!Hit) /\ Len(picks') = Len(picks) + 1 /\ Len(picks) \in Nat
      BY <1>1, <1>2, <2>1
    <3>2. DOMAIN picks' = 1..(Len(picks) + 1) /\ DOMAIN picks = 1..Len(picks)
      BY <1>1, <3>1
    <3>3. \A i \in 1..(Len(picks) + 1) : picks'[i] = IF i = Len(picks) + 1 THEN h ELSE picks[i]
      BY <1>1, <2>1, <3>1
    <3> QED BY <2>1, <3>1, <3>2, <3>3
  <2> QED BY <1>1, <1>3, <2>1
<1> HIDE DEF h
<1>6. Scan!TypeOK'
  BY <1>1, <1>2, <1>4, <1>5 DEF ScanInv, Scan!TypeOK
<1>7. Lined'
  <2>1. Distinct(rows) /\ Distinct(picks) /\ Apart(picks, rows)
    BY DEF ScanInv, Lined
  <2>2. Distinct(rows')
    <3> SUFFICES ASSUME NEW i \in DOMAIN rows', NEW j \in DOMAIN rows', Scan!Same(rows'[i], rows'[j])
                 PROVE  i = j
      BY DEF Distinct
    <3>1. i + 1 = j + 1
      BY <1>2, <2>1 DEF Distinct
    <3> QED BY <1>2, <3>1
  <2>3. Apart(picks', rows')
    <3> SUFFICES ASSUME NEW i \in DOMAIN picks', NEW j \in DOMAIN rows', Scan!Same(picks'[i], rows'[j])
                 PROVE  FALSE
      BY DEF Apart
    <3>1. rows'[j] = rows[j + 1] /\ j + 1 \in DOMAIN rows /\ j + 1 # 1
      BY <1>2
    <3> QED BY <1>2, <1>5, <2>1, <3>1 DEF Apart, Distinct
  <2>4. Distinct(picks')
    <3> SUFFICES ASSUME NEW i \in DOMAIN picks', NEW j \in DOMAIN picks', Scan!Same(picks'[i], picks'[j])
                 PROVE  i = j
      BY DEF Distinct
    <3>1. \A k \in DOMAIN picks : ~Scan!Same(picks[k], h) /\ ~Scan!Same(h, picks[k])
      BY <1>2, <2>1 DEF Apart, Scan!Same
    <3> QED BY <1>5, <2>1, <3>1 DEF Distinct
  <2> QED BY <1>1, <2>2, <2>3, <2>4 DEF Lined
<1>8. \A x : Due(x) => Due(x)'
  <2> SUFFICES ASSUME NEW x, Due(x) PROVE Due(x)'
    OBVIOUS
  <2>1. \A d \in 0..(day - 1) : <<x.symbol, x.strategy, d>> \in results' => <<x.symbol, x.strategy, d>> \in results
    BY <1>1, <1>4
  <2> QED BY <1>1, <2>1 DEF Due
<1>9. ASSUME NEW x, x = h, Scan!Eligible(h) PROVE Due(x)'
  <2>1. \A d \in 0..(day - 1) :
             <<h.symbol, h.strategy, d>> \in results => day - d >= Cooldown[h.strategy]
    BY <1>2, <1>9, CooldownOver DEF Scan!Eligible
  <2>2. \A p \in log : Scan!Same(p, h) /\ p.day = day => h.score >= p.score + Jump
    BY <1>9 DEF Scan!Eligible, Scan!ShouldPush, Scan!RowsOf, Scan!Same
  <2>3. \A d \in 0..(day - 1) : <<h.symbol, h.strategy, d>> \in results' => <<h.symbol, h.strategy, d>> \in results
    BY <1>1, <1>4
  <2> QED BY <1>1, <1>9, <2>1, <2>2, <2>3 DEF Due
<1>10. Chosen'
  <2>1. \A i \in DOMAIN picks' : Due(picks[i])'
    <3> SUFFICES ASSUME NEW i \in DOMAIN picks' PROVE Due(picks[i])'
      OBVIOUS
    <3>1. CASE i \in DOMAIN picks /\ picks'[i] = picks[i]
      <4>1. Due(picks[i])
        BY <3>1 DEF ScanInv, Chosen
      <4>2. PICK x : x = picks[i]
        OBVIOUS
      <4>3. Due(x)'
        BY <1>8, <4>1, <4>2
      <4> QED BY <3>1, <4>2, <4>3 DEF Due
    <3>2. CASE picks'[i] = h /\ Scan!Eligible(h)
      <4>1. PICK x : x = h
        OBVIOUS
      <4>2. Due(x)'
        BY <1>9, <3>2, <4>1
      <4> QED BY <3>2, <4>1, <4>2 DEF Due
    <3> QED BY <1>5, <3>1, <3>2
  <2> QED BY <1>1, <2>1 DEF Chosen, Due
<1>11. Remembered'
  BY <1>1 DEF ScanInv, Remembered, Logged, ToLog
<1>12. Messages'
  <2>1. faults' >= faults
    BY <1>1 DEF ScanInv, Scan!TypeOK
  <2>2. \A r \in results : <<r[1], r[3]>> \in signals
    BY DEF ScanInv, Messages, Scan!ResultsHaveSignals
  <2>3. <<row[1], row[3]>> = <<h.symbol, day>>
    OBVIOUS
  <2>4. \A r \in results' : <<r[1], r[3]>> \in signals'
    <3> HIDE DEF row
    <3> QED BY <1>1, <2>2, <2>3
  <2> QED BY <1>1, <2>1, <2>4, MessagesStay
<1> QED BY <1>6, <1>7, <1>10, <1>11, <1>12 DEF ScanInv

(* Messages are sent: none is old, none repeats one of the same pass. *)
LEMMA SendStep ==
    ASSUME ScanInv, NEW lost \in SUBSET DOMAIN picks, Scan!SendReport(lost)
    PROVE  ScanInv'
<1> DEFINE L == Len(sent)
<1>1. /\ step = "send" /\ step' = "record" /\ rows' = picks /\ picks' = <<>>
      /\ UNCHANGED <<day, signals, results, log, evaluations, scans>>
      /\ faults \in Nat /\ faults' \in 0..MaxFaults /\ faults' >= faults
      /\ picks \in Seq(Scan!Hit) /\ sent \in Seq(Scan!Push) /\ day \in Nat
  BY ScanConstants DEF Scan!SendReport, Scan!tables, ScanInv, Scan!TypeOK, Scan!Days, Scan!ScanAssumption
<1>0. PICK n \in Nat : \E f \in [1..n -> DOMAIN picks] :
        /\ \A i, j \in 1..n : i < j => f[i] < f[j]
        /\ sent' = sent \o [i \in 1..n |-> Scan!PushOf(picks[f[i]])]
  <2> DEFINE kept == DOMAIN picks \ lost
  <2>1. Cardinality(kept) \in Nat
    <3>0. Len(picks) \in Nat /\ DOMAIN picks = 1..Len(picks)
      BY <1>1
    <3>1. IsFiniteSet(1..Len(picks))
      BY <3>0, FS_Interval
    <3>2. IsFiniteSet(kept)
      BY <3>0, <3>1, FS_Subset
    <3> QED BY <3>2, FS_CardinalityType
  <2>2. PICK f \in [1..Cardinality(kept) -> kept] :
          /\ \A i, j \in 1..Cardinality(kept) : i < j => f[i] < f[j]
          /\ sent' = sent \o [i \in 1..Cardinality(kept) |-> Scan!PushOf(picks[f[i]])]
    BY SameCardinality DEF Scan!SendReport
  <2>3. f \in [1..Cardinality(kept) -> DOMAIN picks]
    BY <2>2
  <2> HIDE DEF kept
  <2> QED BY <2>1, <2>2, <2>3
<1>2. PICK f \in [1..n -> DOMAIN picks] :
        /\ \A i, j \in 1..n : i < j => f[i] < f[j]
        /\ sent' = sent \o [i \in 1..n |-> Scan!PushOf(picks[f[i]])]
  BY <1>0
<1>3. \A k \in DOMAIN picks : /\ picks[k] \in Scan!Hit /\ Scan!PushOf(picks[k]) \in Scan!Push
                              /\ Scan!PushOf(picks[k]).day = day
                              /\ Scan!PushOf(picks[k]).score = picks[k].score
                              /\ Scan!PushOf(picks[k]).symbol = picks[k].symbol
                              /\ Scan!PushOf(picks[k]).strategy = picks[k].strategy
  <2>1. \A k \in DOMAIN picks : picks[k] \in Scan!Hit
    BY <1>1
  <2> QED BY <2>1 DEF Scan!PushOf, Scan!Hit, Scan!Push, ScanInv, Scan!TypeOK
<1>4. /\ sent' \in Seq(Scan!Push) /\ L \in Nat /\ DOMAIN sent' = 1..(L + n) /\ DOMAIN sent = 1..L
      /\ \A j \in 1..L : sent'[j] = sent[j]
      /\ \A j \in (L + 1)..(L + n) : f[j - L] \in DOMAIN picks /\ sent'[j] = Scan!PushOf(picks[f[j - L]])
  <2> DEFINE new == [i \in 1..n |-> Scan!PushOf(picks[f[i]])]
  <2>1. new \in Seq(Scan!Push) /\ Len(new) = n
    <3>1. new \in [1..n -> Scan!Push]
      BY <1>2, <1>3
    <3>2. \A S : \A k \in Nat : \A g \in [1..k -> S] : g \in Seq(S) /\ Len(g) = k
      BY DEF Seq
    <3> QED BY <1>2, <3>1, <3>2
  <2>2. \A i \in 1..n : new[i] = Scan!PushOf(picks[f[i]])
    OBVIOUS
  <2> HIDE DEF new
  <2>3. /\ sent' \in Seq(Scan!Push) /\ Len(sent') = L + n /\ L \in Nat
        /\ \A j \in 1..(L + n) : sent'[j] = IF j <= L THEN sent[j] ELSE new[j - L]
    <3>1. sent' = sent \o new
      BY <1>2 DEF new
    <3> QED BY <1>1, <2>1, <3>1, ConcatProperties
  <2>4. DOMAIN sent' = 1..(L + n) /\ DOMAIN sent = 1..L
    BY <1>1, <2>3
  <2>5. \A j \in (L + 1)..(L + n) : j - L \in 1..n /\ j \in 1..(L + n) /\ ~(j <= L)
    BY <1>2, <2>3
  <2>6. \A j \in 1..L : j \in 1..(L + n) /\ j <= L
    BY <1>2, <2>3
  <2> QED BY <1>2, <2>2, <2>3, <2>4, <2>5, <2>6
<1> HIDE DEF L
<1>5. \A j \in DOMAIN sent' : j \in 1..L \/ j \in (L + 1)..(L + n)
  BY <1>2, <1>4
<1>6. Scan!TypeOK'
  BY <1>1, <1>4 DEF ScanInv, Scan!TypeOK
<1>7. Lined' /\ Chosen'
  BY <1>1 DEF ScanInv, Lined, Distinct, Apart, Chosen, Due
<1>8. Remembered'
  <2>1. \A j \in 1..L : sent'[j].day <= day' /\ (faults' = 0 => Logged(sent[j])')
    <3>1. \A j \in 1..L : sent[j].day <= day
      BY <1>4 DEF ScanInv, Remembered
    <3>2. faults' = 0 => faults = 0
      BY <1>1
    <3>3. step # "record"
      BY <1>1
    <3>4. faults = 0 => \A j \in DOMAIN sent : Logged(sent[j])
      BY <3>3 DEF ScanInv, Remembered, ToLog
    <3> QED BY <1>1, <1>4, <3>1, <3>2, <3>4 DEF Logged
  <2>2. \A j \in (L + 1)..(L + n) : sent'[j].day <= day' /\ ToLog(sent[j])'
    <3> SUFFICES ASSUME NEW j \in (L + 1)..(L + n) PROVE sent'[j].day <= day' /\ ToLog(sent[j])'
      OBVIOUS
    <3>1. PICK k \in DOMAIN picks : sent'[j] = Scan!PushOf(picks[k])
      BY <1>4
    <3>2. sent'[j].day = day /\ sent'[j].score = picks[k].score /\ Scan!Same(picks[k], sent'[j])
      BY <1>3, <3>1 DEF Scan!Same
    <3>3. picks[k].score \in Nat
      BY <1>3, ScanConstants DEF Scan!Hit, Scan!ScanAssumption
    <3> QED BY <1>1, <3>2, <3>3 DEF ToLog
  <2> QED BY <1>5, <2>1, <2>2 DEF Remembered
<1>9. Scan!CooldownKept'
  <2> SUFFICES ASSUME NEW i \in DOMAIN sent', NEW j \in DOMAIN sent',
                      Scan!Same(sent'[i], sent'[j]), sent'[i].day < sent'[j].day
               PROVE  sent'[j].day - sent'[i].day >= Cooldown[sent'[j].strategy]
    BY DEF Scan!CooldownKept
  <2>1. CASE i \in 1..L /\ j \in 1..L
    BY <1>4, <2>1 DEF ScanInv, Messages, Scan!CooldownKept
  <2>2. CASE i \in (L + 1)..(L + n)
    <3>1. sent'[i].day = day
      BY <1>3, <1>4, <2>2
    <3>2. sent'[j].day <= day /\ sent'[j].day \in Nat
      <4>1. sent'[j] \in Scan!Push
        BY <1>4
      <4> QED BY <1>1, <1>8, <4>1, ScanConstants DEF Remembered, Scan!Push, Scan!Days, Scan!ScanAssumption
    <3> QED BY <1>1, <3>1, <3>2
  <2>3. CASE i \in 1..L /\ j \in (L + 1)..(L + n)
    <3>1. PICK k \in DOMAIN picks : sent'[j] = Scan!PushOf(picks[k])
      BY <1>4, <2>3
    <3>2. sent'[j].day = day /\ sent'[j].strategy = picks[k].strategy /\ sent'[j].symbol = picks[k].symbol
      BY <1>3, <3>1
    <3>3. sent'[i] = sent[i] /\ <<sent[i].symbol, sent[i].strategy, sent[i].day>> \in results
          /\ sent[i].day \in Nat
      BY <1>4, <2>3, SentAreTyped DEF ScanInv, Messages, Scan!ResultsHaveSignals
    <3>4. sent[i].symbol = picks[k].symbol /\ sent[i].strategy = picks[k].strategy
          /\ sent[i].day \in 0..(day - 1)
      BY <1>1, <3>2, <3>3 DEF Scan!Same
    <3>5. Due(picks[k])
      BY DEF ScanInv, Chosen
    <3> QED BY <3>2, <3>3, <3>4, <3>5 DEF Due
  <2> QED BY <1>5, <2>1, <2>2, <2>3
<1>10. Scan!RepeatsAreFaults'
  <2> SUFFICES ASSUME faults' = 0, NEW j \in DOMAIN sent', NEW i \in 1..(j - 1),
                      Scan!Same(sent'[i], sent'[j]), sent'[i].day = sent'[j].day,
                      sent'[j].score < sent'[i].score + Jump
               PROVE  FALSE
    BY DEF Scan!RepeatsAreFaults, Scan!Repeats
  <2>1. faults = 0 /\ i < j /\ i \in Nat /\ j \in Nat /\ i \in DOMAIN sent'
    BY <1>1, <1>2, <1>4
  <2>2. CASE j \in 1..L
    <3>1. i \in 1..L
      BY <1>4, <2>1, <2>2
    <3> QED BY <1>4, <2>1, <2>2, <3>1 DEF ScanInv, Messages, Scan!RepeatsAreFaults, Scan!Repeats
  <2>3. CASE i \in (L + 1)..(L + n)
    <3>1. j \in (L + 1)..(L + n)
      BY <1>2, <1>4, <1>5, <2>1, <2>3
    <3>2. i - L \in 1..n /\ j - L \in 1..n /\ i - L < j - L
      BY <1>2, <1>4, <2>1, <2>3, <3>1
    <3>3. f[i - L] < f[j - L] /\ f[i - L] \in DOMAIN picks /\ f[j - L] \in DOMAIN picks
      BY <1>2, <3>2
    <3>4. Scan!Same(picks[f[i - L]], picks[f[j - L]])
      BY <1>3, <1>4, <2>3, <3>1, <3>3 DEF Scan!Same
    <3>5. f[i - L] = f[j - L]
      BY <3>3, <3>4 DEF ScanInv, Lined, Distinct
    <3>6. f[i - L] \in Nat
      BY <1>1, <3>3
    <3> QED BY <3>3, <3>5, <3>6
  <2>4. CASE i \in 1..L /\ j \in (L + 1)..(L + n)
    <3>1. PICK k \in DOMAIN picks : sent'[j] = Scan!PushOf(picks[k])
      BY <1>4, <2>4
    <3>2. /\ sent'[j].day = day /\ sent'[j].strategy = picks[k].strategy /\ sent'[j].symbol = picks[k].symbol
          /\ sent'[j].score = picks[k].score
      BY <1>3, <3>1
    <3>3. sent'[i] = sent[i] /\ Logged(sent[i])
      BY <1>1, <1>4, <2>1, <2>4 DEF ScanInv, Remembered, ToLog
    <3>4. PICK p \in log : Scan!Same(p, sent[i]) /\ p.day = sent[i].day /\ p.score >= sent[i].score
      BY <3>3 DEF Logged
    <3>5. picks[k].score >= p.score + Jump
      <4>1. Due(picks[k])
        BY DEF ScanInv, Chosen
      <4>2. Scan!Same(p, picks[k]) /\ p.day = day
        BY <3>2, <3>3, <3>4 DEF Scan!Same
      <4> QED BY <4>1, <4>2 DEF Due
    <3>6. p.score \in Nat /\ picks[k].score \in Nat /\ sent[i].score \in Nat /\ Jump \in Nat
      <4>1. p \in Scan!Push /\ sent[i] \in Scan!Push /\ picks[k] \in Scan!Hit
        BY <1>1, <1>3, <1>4, <2>4 DEF ScanInv, Scan!TypeOK
      <4> QED BY <4>1, ScanConstants DEF Scan!Push, Scan!Hit, Scan!ScanAssumption
    <3> QED BY <3>2, <3>3, <3>4, <3>5, <3>6
  <2> QED BY <1>5, <2>1, <2>2, <2>3, <2>4
<1>11. Scan!ResultsHaveSignals'
  <2>1. \A r \in results' : <<r[1], r[3]>> \in signals'
    BY <1>1 DEF ScanInv, Messages, Scan!ResultsHaveSignals
  <2>2. \A i \in DOMAIN sent' : <<sent'[i].symbol, sent'[i].strategy, sent'[i].day>> \in results
    <3> SUFFICES ASSUME NEW i \in DOMAIN sent'
                 PROVE  <<sent'[i].symbol, sent'[i].strategy, sent'[i].day>> \in results
      OBVIOUS
    <3>1. CASE i \in 1..L
      BY <1>4, <3>1 DEF ScanInv, Messages, Scan!ResultsHaveSignals
    <3>2. CASE i \in (L + 1)..(L + n)
      <4>1. PICK k \in DOMAIN picks : sent'[i] = Scan!PushOf(picks[k])
        BY <1>4, <3>2
      <4>2. Due(picks[k])
        BY DEF ScanInv, Chosen
      <4> QED BY <1>3, <4>1, <4>2 DEF Due
    <3> QED BY <1>5, <3>1, <3>2
  <2> QED BY <1>1, <2>1, <2>2 DEF Scan!ResultsHaveSignals
<1> QED BY <1>6, <1>7, <1>8, <1>9, <1>10, <1>11 DEF ScanInv, Messages

(* A message is noted: the row of its key is replaced by one with its score. *)
LEMMA RecordStep == ASSUME ScanInv, Scan!RecordPush PROVE ScanInv'
<1> DEFINE h == Head(rows)
           new == Scan!PushOf(h)
<1>1. /\ step = "record" /\ rows' = Tail(rows) /\ picks = <<>>
      /\ log' = (log \ Scan!RowsOf(h)) \cup {new}
      /\ UNCHANGED <<day, signals, results, evaluations, sent, step, picks, scans, faults>>
      /\ rows \in Seq(Scan!Hit) /\ rows # <<>>
  BY DEF Scan!RecordPush, ScanInv, Scan!TypeOK, Lined
<1>2. /\ h \in Scan!Hit /\ h = rows[1] /\ rows' \in Seq(Scan!Hit) /\ 1 \in DOMAIN rows
      /\ \A i \in DOMAIN rows' : i \in Nat /\ i + 1 \in DOMAIN rows /\ rows'[i] = rows[i + 1] /\ i + 1 # 1
      /\ \A i \in DOMAIN rows : i # 1 => i - 1 \in DOMAIN rows' /\ rows'[i - 1] = rows[i]
  <2>1. rows' \in Seq(Scan!Hit) /\ Len(rows') = Len(rows) - 1 /\ Len(rows) \in Nat /\ Len(rows) > 0
    BY <1>1
  <2>2. DOMAIN rows = 1..Len(rows) /\ DOMAIN rows' = 1..Len(rows')
    BY <1>1, <2>1
  <2>3. \A i \in 1..Len(rows') : rows'[i] = rows[i + 1]
    BY <1>1, <2>1
  <2> QED BY <1>1, <2>1, <2>2, <2>3
<1>3. /\ new \in Scan!Push /\ new.day = day /\ new.score = h.score /\ h.score \in Nat
      /\ new.symbol = h.symbol /\ new.strategy = h.strategy
  BY <1>2, ScanConstants DEF Scan!PushOf, Scan!Hit, Scan!Push, ScanInv, Scan!TypeOK, Scan!ScanAssumption
<1>4. Due(h)
  BY <1>1, <1>2 DEF ScanInv, Chosen
<1> HIDE DEF h, new
<1>5. Distinct(rows)
  BY DEF ScanInv, Lined
<1>6. Scan!TypeOK'
  BY <1>1, <1>2, <1>3 DEF ScanInv, Scan!TypeOK
<1>7. Lined'
  <2> SUFFICES ASSUME NEW i \in DOMAIN rows', NEW j \in DOMAIN rows', Scan!Same(rows'[i], rows'[j])
               PROVE  i = j
    BY <1>1 DEF Lined, Distinct, Apart
  <2>1. i + 1 = j + 1
    BY <1>2, <1>5 DEF Distinct
  <2> QED BY <1>2, <2>1
<1>8. Chosen'
  <2>1. \A i \in DOMAIN rows' : Due(rows[i])'
    <3> SUFFICES ASSUME NEW i \in DOMAIN rows' PROVE Due(rows[i])'
      OBVIOUS
    <3>1. rows'[i] = rows[i + 1] /\ Due(rows[i + 1]) /\ ~Scan!Same(h, rows[i + 1])
      BY <1>1, <1>2, <1>5 DEF ScanInv, Chosen, Distinct
    <3>2. \A p \in log' : Scan!Same(p, rows[i + 1]) /\ p.day = day => rows[i + 1].score >= p.score + Jump
      BY <1>1, <1>3, <3>1 DEF Due, Scan!Same
    <3> QED BY <1>1, <3>1, <3>2 DEF Due
  <2> QED BY <1>1, <2>1 DEF Chosen
<1>9. Remembered'
  <2>1. \A i \in DOMAIN sent : sent[i].day <= day
    BY DEF ScanInv, Remembered
  <2>2. ASSUME faults = 0, NEW i \in DOMAIN sent PROVE Logged(sent[i])' \/ ToLog(sent[i])'
    <3>1. CASE Logged(sent[i])
      <4>1. PICK p \in log : Scan!Same(p, sent[i]) /\ p.day = sent[i].day /\ p.score >= sent[i].score
        BY <3>1 DEF Logged
      <4>2. CASE p \in log'
        BY <1>1, <4>1, <4>2 DEF Logged
      <4>3. CASE p \notin log'
        <5>1. p.symbol = h.symbol /\ p.strategy = h.strategy /\ p.day = day
          BY <1>1, <4>3 DEF Scan!RowsOf
        <5>2. h.score >= p.score + Jump
          BY <1>4, <5>1 DEF Due, Scan!Same
        <5>3. p.score \in Nat /\ sent[i].score \in Nat /\ Jump \in Nat
          <6>1. p \in Scan!Push /\ sent[i] \in Scan!Push
            BY DEF ScanInv, Scan!TypeOK
          <6> QED BY <6>1, ScanConstants DEF Scan!Push, Scan!ScanAssumption
        <5>4. new \in log' /\ Scan!Same(new, sent[i]) /\ new.day = sent[i].day /\ new.score >= sent[i].score
          BY <1>1, <1>3, <4>1, <5>1, <5>2, <5>3 DEF Scan!Same
        <5> QED BY <1>1, <5>4 DEF Logged
      <4> QED BY <4>2, <4>3
    <3>2. CASE ToLog(sent[i])
      <4>1. PICK k \in DOMAIN rows : Scan!Same(rows[k], sent[i]) /\ rows[k].score >= sent[i].score
        BY <3>2 DEF ToLog
      <4>2. CASE k = 1
        <5>1. new \in log' /\ Scan!Same(new, sent[i]) /\ new.day = sent[i].day /\ new.score >= sent[i].score
          BY <1>1, <1>2, <1>3, <3>2, <4>1, <4>2 DEF Scan!Same, ToLog
        <5> QED BY <1>1, <5>1 DEF Logged
      <4>3. CASE k # 1
        <5>1. k - 1 \in DOMAIN rows' /\ rows'[k - 1] = rows[k]
          BY <1>2, <4>3
        <5> QED BY <1>1, <3>2, <4>1, <5>1 DEF ToLog
      <4> QED BY <4>2, <4>3
    <3> QED BY <2>2, <3>1, <3>2 DEF ScanInv, Remembered
  <2> QED BY <1>1, <2>1, <2>2 DEF Remembered, Logged, ToLog
<1>10. Messages'
  <2>1. faults' >= faults
    BY <1>1 DEF ScanInv, Scan!TypeOK
  <2>2. \A r \in results' : <<r[1], r[3]>> \in signals'
    BY <1>1 DEF ScanInv, Messages, Scan!ResultsHaveSignals
  <2> QED BY <1>1, <2>1, <2>2, MessagesStay
<1> QED BY <1>6, <1>7, <1>8, <1>9, <1>10 DEF ScanInv

LEMMA ScanNext == ASSUME ScanInv, [Scan!Next]_scanVars PROVE ScanInv'
<1>1. CASE UNCHANGED scanVars
  <2>1. UNCHANGED <<day, signals, results, log, evaluations, sent, step, rows, picks, scans, faults>>
    BY <1>1 DEF scanVars
  <2>2. Scan!TypeOK' /\ Lined' /\ Chosen' /\ Remembered'
    BY <2>1 DEF ScanInv, Scan!TypeOK, Lined, Distinct, Apart, Chosen, Due, Remembered, Logged, ToLog
  <2>3. faults' >= faults
    BY <2>1 DEF ScanInv, Scan!TypeOK
  <2>4. Messages'
    BY <2>1, <2>3, MessagesStay DEF ScanInv, Messages, Scan!ResultsHaveSignals
  <2> QED BY <2>2, <2>4 DEF ScanInv
<1>2. CASE \E hits \in SUBSET Scan!Hit : Scan!StartScan(hits)
  BY <1>2, StartScanStep
<1>3. CASE Scan!Step
  BY <1>3, SaveSignalStep, SaveResultStep, SendStep, RecordStep, QuietStep DEF Scan!Step
<1> QED BY <1>1, <1>2, <1>3, QuietStep, ScanCrashStep, ScanDayStep DEF Scan!Next

-----------------------------------------------------------------------------
(* Each behaviour is that of one part, and the other one rests. *)
StocksInv == FundInv /\ ScanInv

LEMMA StocksStep == StocksInv /\ [MCNext]_<<part, vars, scanVars>> => StocksInv'
<1> SUFFICES ASSUME StocksInv, [MCNext]_<<part, vars, scanVars>> PROVE StocksInv'
  OBVIOUS
<1>1. [Next]_vars /\ [Scan!Next]_scanVars
  BY DEF MCNext
<1> QED BY <1>1, FundNext, ScanNext DEF StocksInv

(* The tables hold what their columns admit and both processes are at a    *)
(* known step, for any stocks, plans, scans, limits and bounds.            *)
THEOREM StocksTypes == MCSpec => []StocksTypeOK
<1>1. MCInit => StocksInv
  BY FundInit, ScanInit DEF MCInit, StocksInv
<1>2. StocksInv => StocksTypeOK
  BY DEF StocksInv, FundInv, ScanInv, StocksTypeOK
<1> QED BY <1>1, <1>2, StocksStep, PTL DEF MCSpec

(* However runs and scans are repeated or broken off between two commits,  *)
(* the fund never exceeds its slots, opens one position an order, sells no *)
(* share twice and spends only cash it has; a scan's messages keep their   *)
(* cooldown, repeat only after a fault and rest on saved rows.             *)
THEOREM StocksBooks == MCSpec => []BooksAgree
<1>1. MCInit => StocksInv
  BY FundInit, ScanInit DEF MCInit, StocksInv
<1>2. StocksInv => BooksAgree
  BY DEF StocksInv, FundInv, Books, ScanInv, Messages, BooksAgree
<1> QED BY <1>1, <1>2, StocksStep, PTL DEF MCSpec
=============================================================================
