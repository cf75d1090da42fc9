----------------------------- MODULE LiveOrders -----------------------------
(***************************************************************************)
(* The order rows of one live run and the exchange behind them             *)
(* (app/modules/nba/execution/adapter.py).                                 *)
(*                                                                         *)
(* A row of portfolio.orders goes through create_live_order,               *)
(* cancel_live_order and reconcile_live_order_fills.  The three functions  *)
(* share one connection, so the module keeps two copies of the table: tx,  *)
(* what that connection sees, and db, what has been committed.  The two    *)
(* differ only between a write and the commit that follows it; a rollback  *)
(* makes tx equal to db again.                                             *)
(*                                                                         *)
(* The exchange is outside the repository.  It is modelled from what the   *)
(* adapter relies on: an accepted order rests until it is filled or        *)
(* cancelled, fills come one lot at a time, and an answer may be lost.     *)
(***************************************************************************)
EXTENDS Naturals, FiniteSets, FiniteSetsExt

CONSTANTS
    Games,        \* games of the run
    Signals,      \* entry signals (family | game | side | state index)
    GameOf,       \* the game of a signal
    OutcomeOf,    \* the outcome (token) a signal buys
    NoSignal,     \* "no signal": the signal of a row that does not exist
    Costs,        \* notionals an entry can request
    MaxOrders,    \* bound: orders the run may create
    Lots,         \* lots in an order: a fill takes one lot
    DryRun        \* config.dry_run

ASSUME OrdersAssumption ==
    /\ GameOf \in [Signals -> Games]
    /\ NoSignal \notin Signals \cup Games
    /\ MaxOrders \in Nat
    /\ Lots \in Nat \ {0}
    /\ Costs \subseteq Nat \ {0}
    /\ DryRun \in BOOLEAN

\* The signature of an entry is its game, its outcome and "buy".
ASSUME OutcomeAssumption ==
    \A s, t \in Signals : OutcomeOf[s] = OutcomeOf[t] => GameOf[s] = GameOf[t]

VARIABLES
    tx,           \* portfolio.orders as the run's connection sees it
    db,           \* portfolio.orders, committed
    trades,       \* portfolio.trades: lots recorded per order
    book,         \* exchange: what became of each order
    filled        \* exchange: lots traded per order

ordersVars == <<tx, db, trades, book, filled>>

Orders == 1..MaxOrders
NoOrder == 0

OPEN_ORDER_STATUSES == {"open", "submitted", "partially_filled"}
TERMINAL_STATUSES == {"filled", "canceled", "cancel_error", "submit_error"}
IGNORED_STATUSES == {"submit_error"}
Statuses == {"none", "pending_submit"} \cup OPEN_ORDER_STATUSES \cup TERMINAL_STATUSES

Actions == {"entry", "exit", "target_exit"}

\* external: the order has an external_order_id; aggressive: order_type "market"
Row == [status: Statuses, sig: Signals \cup {NoSignal}, action: Actions,
        cost: Costs \cup {0}, external: BOOLEAN, aggressive: BOOLEAN]

NoRow == [status |-> "none", sig |-> NoSignal, action |-> "entry",
          cost |-> 0, external |-> FALSE, aggressive |-> FALSE]

InitOrders ==
    /\ tx = [o \in Orders |-> NoRow]
    /\ db = [o \in Orders |-> NoRow]
    /\ trades = [o \in Orders |-> 0]
    /\ book = [o \in Orders |-> "absent"]
    /\ filled = [o \in Orders |-> 0]

TypeOKOrders ==
    /\ tx \in [Orders -> Row]
    /\ db \in [Orders -> Row]
    /\ trades \in [Orders -> 0..Lots]
    /\ book \in [Orders -> {"absent", "resting", "gone"}]
    /\ filled \in [Orders -> 0..Lots]

-----------------------------------------------------------------------------
(* Reading the table *)

Exists(rows, o) == rows[o].status # "none"
IsOpen(rows, o) == rows[o].status \in OPEN_ORDER_STATUSES

\* The buy rows _run_game_entry_budget_state counts for game g.
CountedEntries(rows, g) ==
    {o \in Orders : /\ Exists(rows, o)
                    /\ rows[o].action = "entry"
                    /\ rows[o].status \notin IGNORED_STATUSES
                    /\ GameOf[rows[o].sig] = g}

EntryOrderCount(rows, g) == Cardinality(CountedEntries(rows, g))
EntryNotional(rows, g) == MapThenSumSet(LAMBDA o : rows[o].cost, CountedEntries(rows, g))

\* list_active_run_signatures, the buy side: outcomes with an open buy row.
ActiveSignatures(rows) ==
    {OutcomeOf[rows[o].sig] : o \in {p \in Orders : IsOpen(rows, p) /\ rows[p].action = "entry"}}

\* Bug variant: an id derived from the request, so that a later request can get
\* the row of an earlier one (TrackedOrdersDurable).
FreshOrdersDerived == Orders

\* order_id = uuid4(): an id no row has had.
FreshOrders == {o \in Orders : \A p \in Orders : Exists(tx, p) <=> p < o}

-----------------------------------------------------------------------------
(* create_live_order.  A live order is written, committed, placed and      *)
(* written again; a dry-run order is written as open and never placed.     *)

InitialRow(s, action, cost, aggressive) ==
    [status |-> IF DryRun THEN "open" ELSE "pending_submit",
     sig |-> s, action |-> action, cost |-> cost,
     external |-> FALSE, aggressive |-> aggressive]

\* Bug variant: the commit before the exchange is called is forgotten
\* (PlacedOrdersRecorded).
RequestOrderUncommitted(o, s, action, cost, aggressive) ==
    /\ o \in FreshOrders
    /\ tx' = [tx EXCEPT ![o] = InitialRow(s, action, cost, aggressive)]
    /\ UNCHANGED <<db, trades, book, filled>>

RequestOrder(o, s, action, cost, aggressive) ==
    /\ o \in FreshOrders
    /\ tx' = [tx EXCEPT ![o] = InitialRow(s, action, cost, aggressive)]
    /\ db' = IF DryRun THEN db ELSE tx'
    /\ UNCHANGED <<trades, book, filled>>

\* What the caller learns from the exchange.
Answers == {"accepted", "accepted_without_id", "failed"}

\* place_new_order: "failed" covers an order blocked before it is sent, one
\* the exchange refuses, and one it accepts although the answer is lost; an
\* answer without an id may come with or without an order on the book.
PlaceOrder(o, answer) ==
    /\ \E placed \in IF answer = "accepted" THEN {"resting"} ELSE {"absent", "resting"} :
          book' = [book EXCEPT ![o] = placed]
    /\ UNCHANGED <<tx, db, trades, filled>>

\* Bug variant: the exchange's own answer becomes the status (TypeOK).
RecordedStatusRaw(answer) == answer

RecordedStatus(answer) == IF answer = "failed" THEN "submit_error" ELSE "submitted"

RecordOrder(o, answer) ==
    /\ tx' = IF DryRun THEN tx
             ELSE [tx EXCEPT ![o].status = RecordedStatus(answer),
                             ![o].external = (answer = "accepted")]
    /\ db' = IF DryRun THEN db ELSE tx'
    /\ UNCHANGED <<trades, book, filled>>

-----------------------------------------------------------------------------
(* cancel_live_order *)

\* A missing row, or a live order without external_order_id, raises ValueError.
Cancellable(o) == Exists(tx, o) /\ (DryRun \/ tx[o].external)

CancelOrder(o) ==
    /\ Cancellable(o)
    /\ \E answer \in IF DryRun THEN {"canceled"} ELSE {"canceled", "cancel_error"} :
          /\ tx' = [tx EXCEPT ![o].status = answer]
          /\ db' = IF DryRun THEN db ELSE tx'
          /\ IF DryRun
             THEN UNCHANGED book
             ELSE \E left \in IF answer = "canceled" THEN {"gone"} ELSE {book[o], "gone"} :
                     book' = [book EXCEPT ![o] = left]
    /\ UNCHANGED <<trades, filled>>

-----------------------------------------------------------------------------
(* reconcile_live_order_fills: view_trades may lag behind the exchange, so  *)
(* the rows matched now get any number of lots up to what was traded.       *)

Reconcilable == {o \in Orders : IsOpen(tx, o) /\ tx[o].external}

ReconcileFills ==
    /\ \E seenNow \in [Reconcilable -> 0..Lots] :
          /\ \A o \in Reconcilable : seenNow[o] \in trades[o]..filled[o]
          /\ trades' = [o \in Orders |-> IF o \in Reconcilable THEN seenNow[o] ELSE trades[o]]
          /\ tx' = [o \in Orders |->
                IF o \in Reconcilable /\ seenNow[o] > 0
                THEN [tx[o] EXCEPT !.status = IF seenNow[o] = Lots THEN "filled" ELSE "partially_filled"]
                ELSE tx[o]]
          /\ db' = IF \E o \in Reconcilable : seenNow[o] > 0 THEN tx' ELSE db
    /\ UNCHANGED <<book, filled>>

-----------------------------------------------------------------------------
(* The exchange, and the two ends of a managed_connection *)

BoughtLots(oc) == MapThenSumSet(LAMBDA o : filled[o],
    {o \in Orders : Exists(db, o) /\ OutcomeOf[db[o].sig] = oc /\ db[o].action = "entry"})
SoldLots(oc) == MapThenSumSet(LAMBDA o : filled[o],
    {o \in Orders : Exists(db, o) /\ OutcomeOf[db[o].sig] = oc /\ db[o].action # "entry"})

\* A sell can only trade shares the account holds.
ExchangeFill(o) ==
    /\ book[o] = "resting"
    /\ filled[o] < Lots
    /\ db[o].action # "entry" =>
          BoughtLots(OutcomeOf[db[o].sig]) > SoldLots(OutcomeOf[db[o].sig])
    /\ filled' = [filled EXCEPT ![o] = @ + 1]
    /\ book' = [book EXCEPT ![o] = IF filled[o] + 1 = Lots THEN "gone" ELSE "resting"]
    /\ UNCHANGED <<tx, db, trades>>

CommitConnection == db' = tx /\ UNCHANGED <<tx, trades, book, filled>>
RollbackConnection == tx' = db /\ UNCHANGED <<db, trades, book, filled>>
=============================================================================
