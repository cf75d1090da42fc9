-------------------------- MODULE LiveOrdersProofs --------------------------
(* What every operation on the order rows and on the exchange preserves: the *)
(* types, and what the committed rows say of the exchange.                   *)
EXTENDS LiveOrders, FiniteSums

-----------------------------------------------------------------------------
(* Types *)

\* What create_live_order inserts is a row (adapter.py, create_live_order).
LEMMA InitialRowType ==
    ASSUME NEW s \in Signals \cup {NoSignal}, NEW action \in Actions,
           NEW cost \in Costs \cup {0}, NEW aggressive \in BOOLEAN
    PROVE  InitialRow(s, action, cost, aggressive) \in Row
BY DEF InitialRow, Row, Statuses, OPEN_ORDER_STATUSES

\* A row stays a row when its status changes, the only thing most writes do.
LEMMA RowStatusType ==
    ASSUME NEW r \in Row, NEW st \in Statuses
    PROVE  [r EXCEPT !.status = st] \in Row
BY DEF Row

\* The answer of the exchange sets status and external_order_id together.
LEMMA RowAnswerType ==
    ASSUME NEW r \in Row, NEW st \in Statuses, NEW known \in BOOLEAN
    PROVE  [r EXCEPT !.status = st, !.external = known] \in Row
BY DEF Row

\* The first write of create_live_order keeps the table well formed.
LEMMA RequestOrderType ==
    ASSUME NEW o, NEW s \in Signals \cup {NoSignal}, NEW action \in Actions,
           NEW cost \in Costs \cup {0}, NEW aggressive \in BOOLEAN,
           TypeOKOrders, RequestOrder(o, s, action, cost, aggressive)
    PROVE  TypeOKOrders'
BY InitialRowType DEF TypeOKOrders, RequestOrder, FreshOrders

\* An answer of the exchange only changes the book.
LEMMA PlaceOrderType ==
    ASSUME NEW o, NEW answer, TypeOKOrders, PlaceOrder(o, answer)
    PROVE  TypeOKOrders'
<1>1. PICK placed \in {"absent", "resting"} : book' = [book EXCEPT ![o] = placed]
    BY DEF PlaceOrder
<1> QED BY <1>1 DEF TypeOKOrders, PlaceOrder

\* The second write of create_live_order keeps the table well formed.
LEMMA RecordOrderType ==
    ASSUME NEW o, NEW answer, TypeOKOrders, RecordOrder(o, answer)
    PROVE  TypeOKOrders'
<1>1. RecordedStatus(answer) \in Statuses
    BY DEF RecordedStatus, Statuses, OPEN_ORDER_STATUSES, TERMINAL_STATUSES
<1>2. PICK known \in BOOLEAN : known = (answer = "accepted")
    OBVIOUS
<1>3. tx' \in {tx, [tx EXCEPT ![o] = [tx[o] EXCEPT !.status = RecordedStatus(answer), !.external = known]]}
    BY <1>2 DEF RecordOrder, TypeOKOrders
<1>4. tx' \in [Orders -> Row]
  <2>1. CASE o \in Orders
    <3>1. [tx[o] EXCEPT !.status = RecordedStatus(answer), !.external = known] \in Row
        BY <1>1, <2>1, RowAnswerType DEF TypeOKOrders
    <3> QED BY <1>3, <3>1 DEF TypeOKOrders
  <2>2. CASE o \notin Orders
      BY <1>3, <2>2 DEF TypeOKOrders
  <2> QED BY <2>1, <2>2
<1> QED BY <1>4 DEF TypeOKOrders, RecordOrder

\* cancel_live_order writes a terminal status.
LEMMA CancelOrderType ==
    ASSUME NEW o, TypeOKOrders, CancelOrder(o)
    PROVE  TypeOKOrders'
<1>1. PICK answer \in {"canceled", "cancel_error"} : tx' = [tx EXCEPT ![o].status = answer]
    BY DEF CancelOrder
<1>2. tx' \in [Orders -> Row]
    BY <1>1, RowStatusType DEF TypeOKOrders, Statuses, TERMINAL_STATUSES
<1>3. db' \in {db, tx'}
    BY DEF CancelOrder
<1>4. book' \in [Orders -> {"absent", "resting", "gone"}]
    BY DEF CancelOrder, TypeOKOrders
<1> QED BY <1>2, <1>3, <1>4 DEF TypeOKOrders, CancelOrder

\* reconcile_live_order_fills never records more lots than an order has.
LEMMA ReconcileFillsType ==
    ASSUME TypeOKOrders, ReconcileFills
    PROVE  TypeOKOrders'
<1>1. PICK seenNow \in [Reconcilable -> 0..Lots] :
          /\ trades' = [o \in Orders |-> IF o \in Reconcilable THEN seenNow[o] ELSE trades[o]]
          /\ tx' = [o \in Orders |->
                IF o \in Reconcilable /\ seenNow[o] > 0
                THEN [tx[o] EXCEPT !.status = IF seenNow[o] = Lots THEN "filled" ELSE "partially_filled"]
                ELSE tx[o]]
          /\ db' = IF \E o \in Reconcilable : seenNow[o] > 0 THEN tx' ELSE db
    BY DEF ReconcileFills
<1>2. trades' \in [Orders -> 0..Lots]
    BY <1>1 DEF TypeOKOrders
<1>3. tx' \in [Orders -> Row]
  <2>1. ASSUME NEW o \in Orders, NEW st \in {"filled", "partially_filled"}
        PROVE  [tx[o] EXCEPT !.status = st] \in Row
      BY RowStatusType DEF TypeOKOrders, Statuses, OPEN_ORDER_STATUSES, TERMINAL_STATUSES
  <2> QED BY <1>1, <2>1 DEF TypeOKOrders
<1> QED BY <1>1, <1>2, <1>3 DEF TypeOKOrders, ReconcileFills

\* The exchange never trades more lots than an order has.
LEMMA ExchangeFillType ==
    ASSUME NEW o, TypeOKOrders, ExchangeFill(o)
    PROVE  TypeOKOrders'
<1>1. filled' \in [Orders -> 0..Lots]
  <2>1. CASE o \in Orders
      BY <2>1, OrdersAssumption DEF TypeOKOrders, ExchangeFill
  <2>2. CASE o \notin Orders
      BY <2>2 DEF TypeOKOrders, ExchangeFill
  <2> QED BY <2>1, <2>2
<1>2. book' \in [Orders -> {"absent", "resting", "gone"}]
    BY DEF TypeOKOrders, ExchangeFill
<1> QED BY <1>1, <1>2 DEF TypeOKOrders, ExchangeFill

\* The two ends of a managed_connection copy one table to the other.
LEMMA ConnectionType ==
    ASSUME TypeOKOrders, CommitConnection \/ RollbackConnection
    PROVE  TypeOKOrders'
BY DEF TypeOKOrders, CommitConnection, RollbackConnection

-----------------------------------------------------------------------------
(* The committed rows and the exchange *)

\* In a live run every write is committed at once; a dry run reaches neither
\* the exchange nor a trade; a refused row has no external id; an order on the
\* exchange has a committed row.
OrdersInv ==
    /\ ~DryRun => tx = db
    /\ DryRun => \A o \in Orders : book[o] = "absent" /\ filled[o] = 0 /\ trades[o] = 0
    /\ \A rows \in {tx, db}, o \in Orders :
          rows[o].status = "submit_error" => ~DryRun /\ ~rows[o].external
    /\ \A o \in Orders : book[o] # "absent" => Exists(db, o)

\* A committed row keeps its signal and its purpose; no trade is forgotten.
RowsKept ==
    \A o \in Orders :
        /\ Exists(db, o) => /\ Exists(db', o)
                            /\ db'[o].sig = db[o].sig
                            /\ db'[o].action = db[o].action
        /\ trades'[o] >= trades[o]

\* A first write adds a row: no id is used twice (adapter.py, create_live_order).
LEMMA RequestOrderKeeps ==
    ASSUME NEW o, NEW s, NEW action, NEW cost, NEW aggressive,
           TypeOKOrders, OrdersInv, RequestOrder(o, s, action, cost, aggressive)
    PROVE  OrdersInv' /\ (~DryRun => RowsKept)
<1>1. o \in Orders /\ ~Exists(tx, o)
    BY DEF RequestOrder, FreshOrders, Orders
<1>2. tx' = [tx EXCEPT ![o] = InitialRow(s, action, cost, aggressive)]
    BY DEF RequestOrder
<1>3. InitialRow(s, action, cost, aggressive).status \in {"open", "pending_submit"}
    BY DEF InitialRow
<1>4. \A p \in Orders : tx'[p] = IF p = o THEN InitialRow(s, action, cost, aggressive) ELSE tx[p]
    BY <1>2 DEF TypeOKOrders
<1>5. db' = IF DryRun THEN db ELSE tx'
    BY DEF RequestOrder
<1>6. UNCHANGED <<trades, book, filled>>
    BY DEF RequestOrder
<1>7. OrdersInv'
    BY <1>1, <1>3, <1>4, <1>5, <1>6 DEF OrdersInv, Exists
<1>8. ~DryRun => RowsKept
    BY <1>1, <1>4, <1>5, <1>6 DEF OrdersInv, RowsKept, Exists, TypeOKOrders
<1> QED BY <1>7, <1>8

\* An order whose row is committed may be placed.
LEMMA PlaceOrderKeeps ==
    ASSUME NEW o \in Orders, NEW answer, TypeOKOrders, OrdersInv,
           ~DryRun, Exists(db, o), PlaceOrder(o, answer)
    PROVE  OrdersInv' /\ RowsKept
BY DEF PlaceOrder, OrdersInv, RowsKept, TypeOKOrders

\* The answer is written over a row that exists.
LEMMA RecordOrderKeeps ==
    ASSUME NEW o \in Orders, NEW answer, TypeOKOrders, OrdersInv, Exists(tx, o), RecordOrder(o, answer)
    PROVE  OrdersInv' /\ (~DryRun => RowsKept)
<1>1. CASE DryRun
    BY <1>1 DEF RecordOrder, OrdersInv, Exists
<1>2. CASE ~DryRun
  <2>1. \A p \in Orders :
           /\ p # o => tx'[p] = tx[p]
           /\ tx'[o].status = RecordedStatus(answer)
           /\ tx'[o].external = (answer = "accepted")
           /\ tx'[o].sig = tx[o].sig
           /\ tx'[o].action = tx[o].action
           /\ tx'[o].cost = tx[o].cost
      BY <1>2 DEF RecordOrder, TypeOKOrders, Row
  <2>2. tx = db /\ db' = tx' /\ UNCHANGED <<trades, book, filled>>
      BY <1>2 DEF RecordOrder, OrdersInv
  <2>3. /\ RecordedStatus(answer) # "none"
        /\ RecordedStatus(answer) = "submit_error" => ~(answer = "accepted")
      BY DEF RecordedStatus
  <2>4. OrdersInv'
      BY <1>2, <2>1, <2>2, <2>3 DEF OrdersInv, Exists
  <2>5. RowsKept
      BY <2>1, <2>2, <2>3 DEF RowsKept, Exists, TypeOKOrders
  <2> QED BY <2>4, <2>5
<1> QED BY <1>1, <1>2

\* A cancel is written over a row that exists, whatever its status.
LEMMA CancelOrderKeeps ==
    ASSUME NEW o, TypeOKOrders, OrdersInv, CancelOrder(o)
    PROVE  OrdersInv' /\ (~DryRun => RowsKept)
<1>1. PICK answer \in {"canceled", "cancel_error"} :
          /\ tx' = [tx EXCEPT ![o].status = answer]
          /\ db' = IF DryRun THEN db ELSE tx'
    BY DEF CancelOrder
<1>2. Exists(tx, o) /\ UNCHANGED <<trades, filled>>
    BY DEF CancelOrder, Cancellable
<1>3. \A p \in Orders :
          /\ tx'[p].status = IF p = o THEN answer ELSE tx[p].status
          /\ tx'[p].sig = tx[p].sig /\ tx'[p].action = tx[p].action
          /\ tx'[p].external = tx[p].external
    BY <1>1 DEF TypeOKOrders, Row
<1>4. \A p \in Orders : book'[p] # "absent" => (p = o \/ book[p] # "absent") /\ ~DryRun
  <2>1. CASE DryRun
      BY <2>1 DEF CancelOrder, OrdersInv
  <2>2. CASE ~DryRun
    <3>1. PICK left : book' = [book EXCEPT ![o] = left]
        BY <2>2 DEF CancelOrder
    <3> QED BY <2>2, <3>1 DEF TypeOKOrders
  <2> QED BY <2>1, <2>2
<1>5. OrdersInv'
    BY <1>1, <1>2, <1>3, <1>4 DEF OrdersInv, Exists
<1>6. ~DryRun => RowsKept
    BY <1>1, <1>2, <1>3 DEF OrdersInv, RowsKept, Exists, TypeOKOrders
<1> QED BY <1>5, <1>6

\* A reconciliation only ever adds trades, to rows that are open.
LEMMA ReconcileFillsKeeps ==
    ASSUME TypeOKOrders, OrdersInv, ReconcileFills
    PROVE  OrdersInv' /\ (~DryRun => RowsKept)
<1>1. PICK seenNow \in [Reconcilable -> 0..Lots] :
          /\ \A o \in Reconcilable : seenNow[o] \in trades[o]..filled[o]
          /\ trades' = [o \in Orders |-> IF o \in Reconcilable THEN seenNow[o] ELSE trades[o]]
          /\ tx' = [o \in Orders |->
                IF o \in Reconcilable /\ seenNow[o] > 0
                THEN [tx[o] EXCEPT !.status = IF seenNow[o] = Lots THEN "filled" ELSE "partially_filled"]
                ELSE tx[o]]
          /\ db' = IF \E o \in Reconcilable : seenNow[o] > 0 THEN tx' ELSE db
    BY DEF ReconcileFills
<1>2. \A o \in Orders :
          /\ tx'[o].status \in {tx[o].status, "filled", "partially_filled"}
          /\ tx'[o].sig = tx[o].sig /\ tx'[o].action = tx[o].action
          /\ tx'[o].external = tx[o].external
    BY <1>1 DEF TypeOKOrders, Row
<1>3. UNCHANGED <<book, filled>>
    BY DEF ReconcileFills
<1>4. DryRun => \A o \in Orders : trades'[o] = 0
    BY <1>1, OrdersAssumption DEF OrdersInv, TypeOKOrders, Reconcilable
<1>5. \A o \in Orders : trades'[o] >= trades[o]
    BY <1>1, OrdersAssumption DEF TypeOKOrders, Reconcilable
<1>6. ~DryRun => db' = tx'
  <2>1. CASE \E o \in Reconcilable : seenNow[o] > 0
      BY <1>1, <2>1
  <2>2. CASE ~\E o \in Reconcilable : seenNow[o] > 0
    <3>1. tx' = tx
        BY <1>1, <2>2 DEF TypeOKOrders
    <3> QED BY <1>1, <2>2, <3>1 DEF OrdersInv
  <2> QED BY <2>1, <2>2
<1>7. db' \in {db, tx'}
    BY <1>1
<1>8. ~DryRun => RowsKept
    BY <1>2, <1>5, <1>6 DEF OrdersInv, RowsKept, Exists
<1>9. OrdersInv'
    BY <1>2, <1>3, <1>4, <1>6, <1>7 DEF OrdersInv, Exists
<1> QED BY <1>8, <1>9

\* A fill changes nothing but the exchange, and needs an order there.
LEMMA ExchangeFillKeeps ==
    ASSUME NEW o \in Orders, TypeOKOrders, OrdersInv, ExchangeFill(o)
    PROVE  OrdersInv' /\ RowsKept
<1>1. UNCHANGED <<tx, db, trades>> /\ book[o] = "resting"
    BY DEF ExchangeFill
<1>2. ~DryRun
    BY <1>1 DEF OrdersInv
<1>3. \A p \in Orders : book'[p] # "absent" => book[p] # "absent"
    BY <1>1 DEF ExchangeFill, TypeOKOrders
<1>4. RowsKept
    BY <1>1 DEF RowsKept, TypeOKOrders
<1> QED BY <1>1, <1>2, <1>3, <1>4 DEF OrdersInv

\* Nothing is ever rolled back in a live run.
LEMMA ConnectionKeeps ==
    ASSUME TypeOKOrders, OrdersInv, CommitConnection \/ RollbackConnection
    PROVE  OrdersInv' /\ (~DryRun => RowsKept)
<1>1. OrdersInv'
    BY DEF OrdersInv, CommitConnection, RollbackConnection, Exists
<1>2. ~DryRun => RowsKept
    BY DEF OrdersInv, CommitConnection, RollbackConnection, RowsKept, TypeOKOrders
<1> QED BY <1>1, <1>2

-----------------------------------------------------------------------------
(* The entries that count against a game's budget *)

\* The rows new count for a game nothing that the rows old do not, at its cost.
CountsWithin(new, old) ==
    \A g \in Games : \A o \in CountedEntries(new, g) :
        o \in CountedEntries(old, g) /\ new[o].cost = old[o].cost

\* No table counts an entry that neither table counted, nor at another cost.
CountsKept == \A new \in {tx', db'} : \E old \in {tx, db} : CountsWithin(new, old)

\* A row counts for a game if it exists, is an entry and was not refused.
LEMMA CountedWhen ==
    ASSUME NEW new, NEW old,
           \A o \in Orders :
              Exists(new, o) /\ new[o].action = "entry" /\ new[o].status \notin IGNORED_STATUSES =>
                 /\ Exists(old, o) /\ old[o].action = "entry" /\ old[o].status \notin IGNORED_STATUSES
                 /\ new[o].sig = old[o].sig /\ new[o].cost = old[o].cost
    PROVE  CountsWithin(new, old)
BY DEF CountedEntries, CountsWithin

\* A first write counts at most the new order, against the game of its signal,
\* at the cost it asks for.
LEMMA RequestOrderCounts ==
    ASSUME NEW o, NEW s, NEW action, NEW cost, NEW aggressive,
           TypeOKOrders, RequestOrder(o, s, action, cost, aggressive)
    PROVE  /\ db' \in {db, tx'} /\ o \in Orders /\ ~Exists(tx, o) /\ tx'[o].cost = cost
           /\ \A p \in Orders \ {o} : tx'[p] = tx[p]
           /\ \A g \in Games : CountedEntries(tx', g) \subseteq
                 CountedEntries(tx, g) \cup {p \in {o} : action = "entry" /\ GameOf[s] = g}
           /\ action # "entry" => CountsWithin(tx', tx)
<1>1. \A p \in Orders : tx'[p] = IF p = o THEN InitialRow(s, action, cost, aggressive) ELSE tx[p]
    BY DEF RequestOrder, TypeOKOrders
<1>2. InitialRow(s, action, cost, aggressive).action = action /\ InitialRow(s, action, cost, aggressive).sig = s
                                                     /\ InitialRow(s, action, cost, aggressive).cost = cost
    BY DEF InitialRow
<1>3. o \in Orders /\ ~Exists(tx, o)
    BY DEF RequestOrder, FreshOrders, Orders
<1>4. action # "entry" => CountsWithin(tx', tx)
    BY <1>1, <1>2 DEF CountedEntries, CountsWithin, Exists
<1> QED BY <1>1, <1>2, <1>3, <1>4 DEF RequestOrder, CountedEntries, Exists

\* A recorded answer counts nothing new, and a refused order not at all.
LEMMA RecordOrderCounts ==
    ASSUME NEW o \in Orders, NEW answer, TypeOKOrders, Exists(tx, o), tx[o].status \notin IGNORED_STATUSES,
           RecordOrder(o, answer)
    PROVE  /\ db' \in {db, tx'}
           /\ CountsWithin(tx', tx)
           /\ \A p \in Orders : Exists(tx, p) => Exists(tx', p) /\ tx'[p].cost = tx[p].cost
           /\ ~DryRun /\ answer = "failed" => \A g \in Games : o \notin CountedEntries(tx', g)
<1>1. CASE DryRun
    BY <1>1 DEF RecordOrder, CountsWithin
<1>2. CASE ~DryRun
  <2>1. \A p \in Orders :
           /\ p # o => tx'[p] = tx[p]
           /\ tx'[o].status = RecordedStatus(answer)
           /\ tx'[o].sig = tx[o].sig
           /\ tx'[o].action = tx[o].action
           /\ tx'[o].cost = tx[o].cost
      BY <1>2 DEF RecordOrder, TypeOKOrders, Row
  <2>2. \A p \in Orders :
           Exists(tx', p) /\ tx'[p].action = "entry" /\ tx'[p].status \notin IGNORED_STATUSES =>
              /\ Exists(tx, p) /\ tx[p].action = "entry" /\ tx[p].status \notin IGNORED_STATUSES
              /\ tx'[p].sig = tx[p].sig /\ tx'[p].cost = tx[p].cost
      BY <2>1 DEF Exists
  <2>3. CountsWithin(tx', tx)
      BY <2>2, CountedWhen
  <2>4. answer = "failed" => tx'[o].status \in IGNORED_STATUSES
      BY <2>1 DEF RecordedStatus, IGNORED_STATUSES
  <2>5. tx'[o].status # "none"
      BY <2>1 DEF RecordedStatus
  <2> QED BY <1>2, <2>1, <2>3, <2>4, <2>5 DEF RecordOrder, CountedEntries, Exists
<1> QED BY <1>1, <1>2

\* A cancel counts nothing new: a refused row cannot be cancelled.
LEMMA CancelOrderCounts ==
    ASSUME NEW o, TypeOKOrders, OrdersInv, CancelOrder(o)
    PROVE  CountsKept
<1>1. PICK answer \in {"canceled", "cancel_error"} :
          /\ tx' = [tx EXCEPT ![o].status = answer]
          /\ db' = IF DryRun THEN db ELSE tx'
    BY DEF CancelOrder
<1>2. Exists(tx, o) /\ (o \in Orders => tx[o].status \notin IGNORED_STATUSES)
    BY DEF CancelOrder, Cancellable, OrdersInv, IGNORED_STATUSES
<1>3. \A p \in Orders :
          /\ tx'[p].status = IF p = o THEN answer ELSE tx[p].status
          /\ tx'[p].sig = tx[p].sig /\ tx'[p].action = tx[p].action /\ tx'[p].cost = tx[p].cost
    BY <1>1 DEF TypeOKOrders, Row
<1>4. CountsWithin(tx', tx)
    BY <1>2, <1>3, CountedWhen DEF Exists
<1> QED BY <1>1, <1>4 DEF CountsKept, CountsWithin

\* A reconciliation writes open rows only, so it counts nothing new.
LEMMA ReconcileFillsCounts ==
    ASSUME TypeOKOrders, ReconcileFills
    PROVE  CountsKept
<1>1. PICK seenNow \in [Reconcilable -> 0..Lots] :
          /\ tx' = [o \in Orders |->
                IF o \in Reconcilable /\ seenNow[o] > 0
                THEN [tx[o] EXCEPT !.status = IF seenNow[o] = Lots THEN "filled" ELSE "partially_filled"]
                ELSE tx[o]]
          /\ db' = IF \E o \in Reconcilable : seenNow[o] > 0 THEN tx' ELSE db
    BY DEF ReconcileFills
<1>2. \A o \in Orders :
          /\ tx'[o].status = tx[o].status \/ tx[o].status \in OPEN_ORDER_STATUSES
          /\ tx'[o].sig = tx[o].sig /\ tx'[o].action = tx[o].action /\ tx'[o].cost = tx[o].cost
    BY <1>1 DEF TypeOKOrders, Row, Reconcilable, IsOpen
<1>3. CountsWithin(tx', tx)
    BY <1>2, CountedWhen DEF Exists, OPEN_ORDER_STATUSES, IGNORED_STATUSES
<1> QED BY <1>1, <1>3 DEF CountsKept, CountsWithin

\* Steps that leave both tables, or copy one to the other, count nothing new.
LEMMA TablesCopiedCounts ==
    ASSUME tx' \in {tx, db}, db' \in {tx, db}
    PROVE  CountsKept
BY DEF CountsKept, CountsWithin

-----------------------------------------------------------------------------
(* What a game is charged *)

\* The costs in rows, and what a set of orders costs.
CostsIn(rows) == [o \in Orders |-> rows[o].cost]
CostOf(rows, S) == TotalOf(CostsIn(rows), S)

\* The function that the fold of EntryNotional evaluates.
IsCost(it, rows, S) ==
    it = [s \in SUBSET S |-> IF s = {} THEN 0 ELSE rows[Picked(s)].cost + it[s \ {Picked(s)}]]

LEMMA OrdersFinite == IsFiniteSet(Orders)
BY OrdersAssumption, FS_Interval DEF Orders

\* The notional of a game is the cost of the entries counted for it.
LEMMA NotionalIsCost ==
    ASSUME NEW rows, NEW g
    PROVE  EntryNotional(rows, g) = CostOf(rows, CountedEntries(rows, g))
<1> DEFINE S == CountedEntries(rows, g)
           f == CostsIn(rows)
           folded == CHOOSE it : IsCost(it, rows, S)
           summed == CHOOSE it : IsTotal(it, f, S)
<1>1. EntryNotional(rows, g) = folded[S]
    BY DEF EntryNotional, MapThenSumSet, MapThenFoldSet, IsCost, Picked
<1>2. CostOf(rows, S) = summed[S]
    BY TotalIs DEF CostOf
<1>3. S \in SUBSET Orders /\ IsFiniteSet(S)
  <2>1. S \in SUBSET Orders
      BY DEF CountedEntries
  <2> HIDE DEF S
  <2> QED BY <2>1, OrdersFinite, FS_Subset
<1> HIDE DEF S
<1>4. ASSUME NEW it PROVE IsCost(it, rows, S) <=> IsTotal(it, f, S)
  <2>1. ASSUME NEW s \in SUBSET S
        PROVE  (IF s = {} THEN 0 ELSE rows[Picked(s)].cost + it[s \ {Picked(s)}]) =
               (IF s = {} THEN 0 ELSE f[Picked(s)] + it[s \ {Picked(s)}])
      BY <1>3, PickedIn DEF CostsIn
  <2> HIDE DEF f
  <2>2. [s \in SUBSET S |-> IF s = {} THEN 0 ELSE rows[Picked(s)].cost + it[s \ {Picked(s)}]] =
        [s \in SUBSET S |-> IF s = {} THEN 0 ELSE f[Picked(s)] + it[s \ {Picked(s)}]]
      BY <2>1
  <2> QED BY <2>2 DEF IsCost, IsTotal
<1>5. \E it : IsTotal(it, f, S)
    BY <1>3, TotalExists
<1>6. IsTotal(summed, f, S)
    BY <1>5, Zenon
<1>7. IsTotal(folded, f, S)
  <2>1. \E it : IsCost(it, rows, S)
      BY <1>4, <1>5
  <2>2. IsCost(folded, rows, S)
      BY <2>1, Zenon
  <2> HIDE DEF folded
  <2> QED BY <1>4, <2>2
<1>8. folded[S] = summed[S]
  <2> HIDE DEF folded, summed
  <2>1. S \in SUBSET S
      OBVIOUS
  <2> QED BY <1>3, <1>6, <1>7, <2>1, TotalsAgree
<1> QED BY <1>1, <1>2, <1>8 DEF S
=============================================================================
