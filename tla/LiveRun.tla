------------------------------- MODULE LiveRun -------------------------------
(***************************************************************************)
(* The cycle of one live run (LiveRunWorker in                             *)
(* app/modules/nba/execution/runner.py) over the order rows and the        *)
(* exchange of LiveOrders.                                                 *)
(*                                                                         *)
(* One loop thread repeats: reconcile the rows with the exchange, manage   *)
(* the open positions, manage the open orders, try new entries, persist a  *)
(* recovery snapshot.  Each `for` of the code is a phase (pc) with the     *)
(* items left to visit; create_live_order is split where it commits and    *)
(* where it talks to the exchange, because a crash or an exception there   *)
(* leaves a row and the exchange apart.                                    *)
(*                                                                         *)
(* Market data (prices, scores, order books, signal freshness) decides     *)
(* which branch a visit takes: it is a nondeterministic choice.            *)
(***************************************************************************)
EXTENDS LiveOrders

CONSTANTS
    MaxEntryOrders,    \* config.max_entry_orders_per_game
    MaxEntryNotional,  \* config.max_entry_notional_per_game_usd
    AnswersSeen,       \* answers place_new_order may give
    QuotesComplete,    \* TRUE: the order book always has a best bid
    MaxCrashes,        \* bound: crashes of the process
    CyclesRaise        \* TRUE: the database, the provider or the client may raise in a cycle

ASSUME RunAssumption ==
    /\ MaxEntryOrders \in Nat
    /\ MaxEntryNotional \in Nat
    /\ AnswersSeen \subseteq Answers
    /\ QuotesComplete \in BOOLEAN
    /\ MaxCrashes \in Nat
    /\ CyclesRaise \in BOOLEAN

VARIABLES
    pc,                \* where the loop thread is
    active_orders,     \* memory: tracked orders by key
    active_positions,  \* memory: signals with an open position
    seen_trades,       \* memory: lots of each order already handled (_seen_trade_ids)
    keys_todo,         \* keys the current `for` over the orders has left
    signals_todo,      \* signals the current `for` over positions or records has left
    stale_keys,        \* stale_order_keys of _reconcile_runtime_state
    run_orders,        \* the rows _process_new_entries read before its loop
    call,              \* the create_live_order in progress
    snapshot,          \* recovery_snapshot.json
    last_error,        \* self.last_error is not None: the last cycle raised
    crashes

cycleVars == <<keys_todo, signals_todo, stale_keys, run_orders, call>>
memoryVars == <<active_orders, active_positions, seen_trades>>
vars == <<ordersVars, pc, memoryVars, cycleVars, snapshot, crashes, last_error>>

\* An entry or an exit is tracked under its signal, a resting target under
\* "<signal>|target_exit".
Keys == Signals \X {"signal", "target"}
MainKey(s) == <<s, "signal">>
TargetKey(s) == <<s, "target">>

\* retried: market_retry_done.
Tracked == [order: Orders \cup {NoOrder}, action: Actions, retried: BOOLEAN]
NotTracked == [order |-> NoOrder, action |-> "entry", retried |-> FALSE]

Memory == [orders: [Keys -> Tracked], positions: SUBSET Signals]
EmptyMemory == [orders |-> [k \in Keys |-> NotTracked], positions |-> {}]

\* back: the phase create_live_order returns to.
Call == [order: Orders \cup {NoOrder}, sig: Signals \cup {NoSignal}, action: Actions,
         aggressive: BOOLEAN, answer: Answers \cup {"none"}, back: {"begin", "fills", "positions", "orders", "entries"}]
NoCall == [order |-> NoOrder, sig |-> NoSignal, action |-> "entry",
           aggressive |-> FALSE, answer |-> "none", back |-> "begin"]

InCycle == {"reconcile", "fills", "positions", "submit_exit", "orders",
            "entry_gate", "entries", "place", "record", "end"}

TypeOK ==
    /\ TypeOKOrders
    /\ pc \in {"down", "ended", "begin"} \cup InCycle
    /\ active_orders \in [Keys -> Tracked]
    /\ active_positions \subseteq Signals
    /\ seen_trades \in [Orders -> 0..Lots]
    /\ keys_todo \subseteq Keys
    /\ signals_todo \subseteq Signals
    /\ stale_keys \subseteq Keys
    /\ run_orders \in [Orders -> Row]
    /\ call \in Call
    /\ snapshot \in Memory
    /\ crashes \in 0..MaxCrashes
    /\ last_error \in BOOLEAN

NoRows == [o \in Orders |-> NoRow]

Init ==
    /\ InitOrders
    /\ pc = "down"
    /\ active_orders = EmptyMemory.orders
    /\ active_positions = {}
    /\ seen_trades = [o \in Orders |-> 0]
    /\ keys_todo = {} /\ signals_todo = {} /\ stale_keys = {}
    /\ run_orders = NoRows
    /\ call = NoCall
    /\ snapshot = EmptyMemory
    /\ crashes = 0 /\ last_error = FALSE

-----------------------------------------------------------------------------
(* What the worker has in memory *)

IsTracked(k) == active_orders[k].order # NoOrder
TrackedKeys == {k \in Keys : IsTracked(k)}

\* Bug variant: a resting target does not count (OneExitPerSignal).
HasActiveExitOfSignal(s) == IsTracked(MainKey(s)) /\ active_orders[MainKey(s)].action = "exit"

\* _active_exit_order_key(s) is not None
HasActiveExit(s) ==
    \E k \in {MainKey(s), TargetKey(s)} :
        IsTracked(k) /\ active_orders[k].action \in {"exit", "target_exit"}

ActiveExitKey(s) ==
    IF IsTracked(MainKey(s)) /\ active_orders[MainKey(s)].action = "exit"
    THEN MainKey(s) ELSE TargetKey(s)

GameHasOrder(g) == \E k \in TrackedKeys : GameOf[k[1]] = g
GameHasPosition(g) == \E s \in active_positions : GameOf[s] = g

Untrack(keys) == [k \in Keys |-> IF k \in keys THEN NotTracked ELSE active_orders[k]]
Track(k, o, action, retried) ==
    [active_orders EXCEPT ![k] = [order |-> o, action |-> action, retried |-> retried]]

\* The side kept with a tracked order.  _submit_exit_order copies the position
\* and does not reset its side, so an exit keeps the side of the entry.
TrackedSide(action) == IF action = "target_exit" THEN "sell" ELSE "buy"

\* What _persist_recovery_snapshot serialises.
MemoryNow == [orders |-> active_orders, positions |-> active_positions]

-----------------------------------------------------------------------------
(* The process and its loop thread: start, crash, the cycle's beginning and end *)

\* LiveRunService builds the worker, which loads the snapshot, and starts it.
Start ==
    /\ pc = "down"
    /\ pc' = "begin"
    /\ active_orders' = snapshot.orders
    /\ active_positions' = snapshot.positions
    /\ UNCHANGED <<ordersVars, seen_trades, cycleVars, snapshot, crashes, last_error>>

ForgetCycle ==
    /\ keys_todo' = {} /\ signals_todo' = {} /\ stale_keys' = {}
    /\ run_orders' = NoRows
    /\ call' = NoCall

\* The process dies.  The snapshot may be lost with it: a torn file does not
\* parse, and a run root dated on another day is not found.  The last error a
\* snapshot restores is not kept apart: it has either value.
Crash ==
    /\ pc # "down"
    /\ crashes < MaxCrashes
    /\ crashes' = crashes + 1
    /\ pc' = "down"
    /\ active_orders' = EmptyMemory.orders
    /\ active_positions' = {}
    /\ seen_trades' = [o \in Orders |-> 0]
    /\ snapshot' \in {snapshot, EmptyMemory}
    /\ ForgetCycle
    /\ RollbackConnection
    /\ last_error' \in BOOLEAN

\* _persist_recovery_snapshot: the capture thread and the pause / resume
\* endpoints persist too, and the file is written after the lock is released, so
\* an older text may overwrite the newer one.  Only a restart reads the file.
Persist ==
    \/ snapshot' = MemoryNow
    \/ crashes < MaxCrashes /\ UNCHANGED snapshot

CycleBegin ==
    /\ pc = "begin"
    /\ pc' = "reconcile"
    /\ UNCHANGED <<ordersVars, memoryVars, cycleVars, snapshot, crashes, last_error>>

\* The loop goes on with the next cycle, or its thread is gone: all games are
\* final, stop() was called, or a file of the run could not be written in the
\* except or finally clause, which nothing catches.
GoOn == pc' \in {"begin", "ended"}

\* managed_connection commits, then the snapshot is persisted.
CycleEnd ==
    /\ pc = "end"
    /\ GoOn
    /\ CommitConnection
    /\ Persist
    /\ ForgetCycle
    /\ last_error' = FALSE
    /\ UNCHANGED <<memoryVars, crashes>>

\* An exception in the cycle: managed_connection rolls back, the snapshot is
\* persisted as the memory stands.
CycleFails ==
    /\ GoOn
    /\ RollbackConnection
    /\ Persist
    /\ ForgetCycle
    /\ last_error' = TRUE
    /\ UNCHANGED <<memoryVars, crashes>>

\* The database, the provider or the exchange client raised.
CycleError ==
    /\ pc \in InCycle
    /\ CyclesRaise
    /\ CycleFails

\* The thread ends between two cycles: stop() was called, or the line that
\* announces a cycle could not be logged, outside the try.
LoopEnds ==
    /\ pc = "begin"
    /\ pc' = "ended"
    /\ Persist
    /\ UNCHANGED <<ordersVars, memoryVars, cycleVars, crashes, last_error>>

\* start() of a worker whose thread is gone: the worker keeps its memory, the
\* snapshot is not read.
Restart ==
    /\ pc = "ended"
    /\ pc' = "begin"
    /\ UNCHANGED <<ordersVars, memoryVars, cycleVars, snapshot, crashes, last_error>>

\* Another thread persists, at any time, the worker's own dictionaries.
PersistSnapshot ==
    /\ pc # "down"
    /\ crashes < MaxCrashes
    /\ snapshot' = MemoryNow
    /\ UNCHANGED <<ordersVars, pc, memoryVars, cycleVars, crashes, last_error>>

-----------------------------------------------------------------------------
(* create_live_order as the loop thread runs it *)

BeginCreate(s, action, cost, aggressive, back) ==
    \E o \in FreshOrders :
        /\ RequestOrder(o, s, action, cost, aggressive)
        /\ call' = [order |-> o, sig |-> s, action |-> action,
                    aggressive |-> aggressive, answer |-> "none", back |-> back]
        /\ pc' = IF DryRun THEN "record" ELSE "place"

Place ==
    /\ pc = "place"
    /\ \E answer \in AnswersSeen :
          /\ PlaceOrder(call.order, answer)
          /\ call' = [call EXCEPT !.answer = answer]
    /\ pc' = "record"
    /\ UNCHANGED <<memoryVars, keys_todo, signals_todo, stale_keys, run_orders, snapshot, crashes, last_error>>

\* The second upsert, then the caller tracks the order: an exit always, an
\* entry or a target only when its status is open.
Record ==
    /\ pc = "record"
    /\ RecordOrder(call.order, call.answer)
    /\ LET open == DryRun \/ RecordedStatus(call.answer) \in OPEN_ORDER_STATUSES
           key == IF call.action = "target_exit" THEN TargetKey(call.sig) ELSE MainKey(call.sig)
       IN  active_orders' = IF open \/ call.action = "exit"
                            THEN Track(key, call.order, call.action, call.aggressive)
                            ELSE active_orders
    /\ pc' = call.back
    /\ call' = NoCall
    /\ UNCHANGED <<active_positions, seen_trades, keys_todo, signals_todo, stale_keys, run_orders,
                   snapshot, crashes, last_error>>

-----------------------------------------------------------------------------
(* _reconcile_runtime_state *)

Reconcile ==
    /\ pc = "reconcile"
    /\ IF TrackedKeys # {} THEN ReconcileFills ELSE UNCHANGED ordersVars
    /\ pc' = "fills"
    /\ keys_todo' = TrackedKeys
    /\ UNCHANGED <<memoryVars, signals_todo, stale_keys, run_orders, call, snapshot, crashes, last_error>>

\* Bug variant: a row that is no longer open counts as a fill (PositionsBacked).
UnseenTradeWhenClosed(k) ==
    LET o == active_orders[k].order IN seen_trades[o] < trades[o] \/ ~IsOpen(tx, o)

UnseenTrade(k) == LET o == active_orders[k].order IN seen_trades[o] < trades[o]

\* _handle_trade_fill for a tracked side of "buy": the position is opened, or
\* overwritten, and a target rests unless an exit is tracked or no target
\* price is known.
OpenPosition(k) ==
    LET s == k[1] o == active_orders[k].order IN
    /\ pc = "fills" /\ k \in keys_todo /\ UnseenTrade(k)
    /\ TrackedSide(active_orders[k].action) = "buy"
    /\ seen_trades' = [seen_trades EXCEPT ![o] = @ + 1]
    /\ active_positions' = active_positions \cup {s}
    /\ stale_keys' = stale_keys \cup {k}
    /\ \/ /\ ~HasActiveExit(s)
          /\ BeginCreate(s, "target_exit", 0, FALSE, "fills")
       \/ UNCHANGED <<ordersVars, call, pc>>
    /\ UNCHANGED <<active_orders, keys_todo, signals_todo, run_orders, snapshot, crashes, last_error>>

\* _handle_trade_fill for a resting target: the position is closed.
ClosePosition(k) ==
    LET s == k[1] o == active_orders[k].order IN
    /\ pc = "fills" /\ k \in keys_todo /\ UnseenTrade(k)
    /\ TrackedSide(active_orders[k].action) = "sell"
    /\ seen_trades' = [seen_trades EXCEPT ![o] = @ + 1]
    /\ active_positions' = active_positions \ {s}
    /\ stale_keys' = stale_keys \cup {k}
    /\ UNCHANGED <<ordersVars, call, pc, active_orders, keys_todo, signals_todo, run_orders,
                   snapshot, crashes, last_error>>

\* Bug variants: only a missing row is stale (ImplementsOrderLedger), or a
\* missing row is skipped (PhantomDropped).
CheckStatusMissingOnly(k) ==
    /\ pc = "fills" /\ k \in keys_todo
    /\ ~UnseenTrade(k)
    /\ keys_todo' = keys_todo \ {k}
    /\ stale_keys' = IF Exists(tx, active_orders[k].order) THEN stale_keys ELSE stale_keys \cup {k}
    /\ UNCHANGED <<ordersVars, pc, memoryVars, signals_todo, run_orders, call, snapshot, crashes, last_error>>

CheckStatusSkipsMissing(k) ==
    /\ pc = "fills" /\ k \in keys_todo
    /\ ~UnseenTrade(k)
    /\ keys_todo' = keys_todo \ {k}
    /\ stale_keys' = IF tx[active_orders[k].order].status \in {"none"} \cup OPEN_ORDER_STATUSES
                     THEN stale_keys ELSE stale_keys \cup {k}
    /\ UNCHANGED <<ordersVars, pc, memoryVars, signals_todo, run_orders, call, snapshot, crashes, last_error>>

\* No unseen trade is left: a row that is missing or no longer open is stale.
CheckStatus(k) ==
    /\ pc = "fills" /\ k \in keys_todo
    /\ ~UnseenTrade(k)
    /\ keys_todo' = keys_todo \ {k}
    /\ stale_keys' = IF IsOpen(tx, active_orders[k].order) THEN stale_keys ELSE stale_keys \cup {k}
    /\ UNCHANGED <<ordersVars, pc, memoryVars, signals_todo, run_orders, call, snapshot, crashes, last_error>>

\* Bug variant: the stale keys are popped from a copy (EntryLeaves).
PopStaleKeysFromCopy ==
    /\ pc = "fills" /\ keys_todo = {}
    /\ stale_keys' = {}
    /\ pc' = "positions"
    /\ signals_todo' = active_positions
    /\ UNCHANGED <<ordersVars, memoryVars, keys_todo, run_orders, call, snapshot, crashes, last_error>>

PopStaleKeys ==
    /\ pc = "fills" /\ keys_todo = {}
    /\ active_orders' = Untrack(stale_keys)
    /\ stale_keys' = {}
    /\ pc' = "positions"
    /\ signals_todo' = active_positions
    /\ UNCHANGED <<ordersVars, active_positions, seen_trades, keys_todo, run_orders, call,
                   snapshot, crashes, last_error>>

-----------------------------------------------------------------------------
(* _process_open_positions *)

\* No state row, no exit reason, a stop still to be confirmed, or an exit that
\* is not a stop while another one works.
HoldPosition(s) ==
    /\ pc = "positions" /\ s \in signals_todo
    /\ signals_todo' = signals_todo \ {s}
    /\ UNCHANGED <<ordersVars, pc, memoryVars, keys_todo, stale_keys, run_orders, call,
                   snapshot, crashes, last_error>>

\* _submit_exit_order is about to run for s.
CallSubmitExit(s, aggressive, back) ==
    /\ pc' = "submit_exit"
    /\ call' = [NoCall EXCEPT !.sig = s, !.action = "exit", !.aggressive = aggressive, !.back = back]

ExitPosition(s, stop) ==
    /\ pc = "positions" /\ s \in signals_todo
    /\ ~HasActiveExit(s)
    /\ signals_todo' = signals_todo \ {s}
    /\ CallSubmitExit(s, stop, "positions")
    /\ UNCHANGED <<ordersVars, memoryVars, keys_todo, stale_keys, run_orders, snapshot, crashes, last_error>>

\* _cancel_active_exit_order succeeds: whatever the exchange answered, the
\* order is no longer tracked.  When it raises the stop waits (HoldPosition).
StopCancelsExit(s) ==
    /\ pc = "positions" /\ s \in signals_todo
    /\ HasActiveExit(s)
    /\ CancelOrder(active_orders[ActiveExitKey(s)].order)
    /\ active_orders' = Untrack({ActiveExitKey(s)})
    /\ signals_todo' = signals_todo \ {s}
    /\ CallSubmitExit(s, TRUE, "positions")
    /\ UNCHANGED <<active_positions, seen_trades, keys_todo, stale_keys, run_orders, snapshot, crashes, last_error>>

PositionsDone ==
    /\ pc = "positions" /\ signals_todo = {}
    /\ pc' = "orders"
    /\ keys_todo' = TrackedKeys
    /\ UNCHANGED <<ordersVars, memoryVars, signals_todo, stale_keys, run_orders, call, snapshot, crashes, last_error>>

(* _submit_exit_order *)
SubmitExit ==
    /\ pc = "submit_exit"
    /\ ~HasActiveExit(call.sig)
    /\ BeginCreate(call.sig, "exit", 0, call.aggressive, call.back)
    /\ UNCHANGED <<memoryVars, keys_todo, signals_todo, stale_keys, run_orders, snapshot, crashes, last_error>>

\* An exit is tracked already, or there is no best bid (or no order id left).
SubmitExitReturns ==
    /\ pc = "submit_exit"
    /\ HasActiveExit(call.sig) \/ ~QuotesComplete \/ FreshOrders = {}
    /\ pc' = call.back
    /\ call' = NoCall
    /\ UNCHANGED <<ordersVars, memoryVars, keys_todo, signals_todo, stale_keys, run_orders,
                   snapshot, crashes, last_error>>

-----------------------------------------------------------------------------
(* _process_open_orders: an entry is due after 15 s, an exit after 10 s *)

HoldOrder(k) ==
    /\ pc = "orders" /\ k \in keys_todo
    /\ keys_todo' = keys_todo \ {k}
    /\ UNCHANGED <<ordersVars, pc, memoryVars, signals_todo, stale_keys, run_orders, call,
                   snapshot, crashes, last_error>>

EntryTimeout(k) ==
    /\ pc = "orders" /\ k \in keys_todo
    /\ active_orders[k].action = "entry"
    /\ CancelOrder(active_orders[k].order)
    /\ keys_todo' = keys_todo \ {k}
    /\ UNCHANGED <<pc, memoryVars, signals_todo, stale_keys, run_orders, call, snapshot, crashes, last_error>>

\* The timed out exit stays tracked while _submit_exit_order runs.
ExitTimeout(k) ==
    /\ pc = "orders" /\ k \in keys_todo
    /\ active_orders[k].action = "exit" /\ ~active_orders[k].retried
    /\ CancelOrder(active_orders[k].order)
    /\ active_orders' = [active_orders EXCEPT ![k].retried = TRUE]
    /\ keys_todo' = keys_todo \ {k}
    /\ CallSubmitExit(k[1], TRUE, "orders")
    /\ UNCHANGED <<active_positions, seen_trades, signals_todo, stale_keys, run_orders, snapshot, crashes, last_error>>

\* cancel_live_order raises ValueError for a due order: the cycle ends there.
TimeoutRaises(k) ==
    /\ pc = "orders" /\ k \in keys_todo
    /\ \/ active_orders[k].action = "entry"
       \/ active_orders[k].action = "exit" /\ ~active_orders[k].retried
    /\ ~Cancellable(active_orders[k].order)
    /\ CycleFails

OrdersDone ==
    /\ pc = "orders" /\ keys_todo = {}
    /\ pc' = "entry_gate"
    /\ UNCHANGED <<ordersVars, memoryVars, cycleVars, snapshot, crashes, last_error>>

-----------------------------------------------------------------------------
(* _process_new_entries *)

\* entries_enabled is false, or the controllers produced no trade.
SkipEntries ==
    /\ pc = "entry_gate"
    /\ pc' = "end"
    /\ UNCHANGED <<ordersVars, memoryVars, cycleVars, snapshot, crashes, last_error>>

\* The rows are read once, before the loop over the records.
BeginEntries ==
    /\ pc = "entry_gate"
    /\ pc' = "entries"
    /\ run_orders' = tx
    /\ signals_todo' = Signals
    /\ UNCHANGED <<ordersVars, memoryVars, keys_todo, stale_keys, call, snapshot, crashes, last_error>>

SkipEntry(s) ==
    /\ pc = "entries" /\ s \in signals_todo
    /\ signals_todo' = signals_todo \ {s}
    /\ UNCHANGED <<ordersVars, pc, memoryVars, keys_todo, stale_keys, run_orders, call,
                   snapshot, crashes, last_error>>

\* The gates that read the worker's state and the rows it read.
SignalFree(s) == ~IsTracked(MainKey(s)) /\ s \notin active_positions

\* Bug variant: the gate on the rows is dropped (OneOpenEntry).
SignatureFreeOfPositions(s) == OutcomeOf[s] \notin {OutcomeOf[p] : p \in active_positions}

SignatureFree(s) ==
    /\ OutcomeOf[s] \notin ActiveSignatures(run_orders)
    /\ OutcomeOf[s] \notin {OutcomeOf[p] : p \in active_positions}

\* Bug variant: the gate on positions is dropped (SingleSignalPerGame).
GameFreeOfOrders(s) == ~GameHasOrder(GameOf[s])

GameFree(s) == ~GameHasOrder(GameOf[s]) /\ ~GameHasPosition(GameOf[s])
\* Bug variants: one order too many (EntryCountBudget), or the requested
\* notional compared without what this entry adds (EntryNotionalBudget).
BudgetLeftOffByOne(s, cost) ==
    /\ EntryOrderCount(run_orders, GameOf[s]) <= MaxEntryOrders
    /\ EntryNotional(run_orders, GameOf[s]) + cost <= MaxEntryNotional

BudgetLeftUnprojected(s, cost) ==
    /\ EntryOrderCount(run_orders, GameOf[s]) < MaxEntryOrders
    /\ EntryNotional(run_orders, GameOf[s]) < MaxEntryNotional

BudgetLeft(s, cost) ==
    /\ EntryOrderCount(run_orders, GameOf[s]) < MaxEntryOrders
    /\ EntryNotional(run_orders, GameOf[s]) + cost <= MaxEntryNotional

SubmitEntry(s, cost) ==
    /\ pc = "entries" /\ s \in signals_todo
    /\ SignalFree(s)
    /\ SignatureFree(s)
    /\ GameFree(s)
    /\ BudgetLeft(s, cost)
    /\ BeginCreate(s, "entry", cost, FALSE, "entries")
    /\ signals_todo' = signals_todo \ {s}
    /\ UNCHANGED <<memoryVars, keys_todo, stale_keys, run_orders, snapshot, crashes, last_error>>

EntriesDone ==
    /\ pc = "entries" /\ signals_todo = {}
    /\ pc' = "end"
    /\ UNCHANGED <<ordersVars, memoryVars, cycleVars, snapshot, crashes, last_error>>

-----------------------------------------------------------------------------
Fill(o) == ExchangeFill(o) /\ UNCHANGED <<pc, memoryVars, cycleVars, snapshot, crashes, last_error>>

OrderStep(k) ==
    \/ OpenPosition(k) \/ ClosePosition(k) \/ CheckStatus(k)
    \/ HoldOrder(k) \/ EntryTimeout(k) \/ ExitTimeout(k) \/ TimeoutRaises(k)

SignalStep(s) ==
    \/ HoldPosition(s) \/ StopCancelsExit(s) \/ SkipEntry(s)
    \/ \E stop \in BOOLEAN : ExitPosition(s, stop)
    \/ \E cost \in Costs : SubmitEntry(s, cost)

LoopStep ==
    \/ CycleBegin \/ CycleEnd
    \/ Reconcile \/ PopStaleKeys \/ PositionsDone \/ OrdersDone
    \/ SubmitExit \/ SubmitExitReturns
    \/ SkipEntries \/ BeginEntries \/ EntriesDone
    \/ Place \/ Record
    \/ \E k \in Keys : OrderStep(k)
    \/ \E s \in Signals : SignalStep(s)

Next ==
    \/ Start \/ Crash \/ CycleError \/ LoopEnds \/ Restart \/ PersistSnapshot
    \/ LoopStep
    \/ \E o \in Orders : Fill(o)

Spec == Init /\ [][Next]_vars

-----------------------------------------------------------------------------
(* Safety *)

\* A worker with memory m has an order or a position of signal s.
Works(m, s) ==
    \/ m.orders[MainKey(s)].order # NoOrder
    \/ m.orders[TargetKey(s)].order # NoOrder
    \/ s \in m.positions

\* A worker never works two signals of one game: the in-memory gates of
\* _process_new_entries (game_entry_order_exists, game_position_exists) keep it
\* so although fills, cancels, exits, exceptions and restarts move orders and
\* positions between them.  The same holds of what a restart would load.
SingleSignalPerGame ==
    \A m \in {MemoryNow, snapshot}, s, t \in Signals :
        Works(m, s) /\ Works(m, t) /\ GameOf[s] = GameOf[t] => s = t

\* The entries a game may ever get are bounded by the configuration across
\* crashes, exceptions and restarts, in the committed table and in what the
\* connection sees: each cycle counts the rows of the whole run again, and in a
\* cycle the game gate lets one entry through that the rows do not show yet.
EntryCountBudget ==
    \A rows \in {db, tx}, g \in Games : EntryOrderCount(rows, g) <= MaxEntryOrders

\* So is the notional the entries of a game ask for.
EntryNotionalBudget ==
    \A rows \in {db, tx}, g \in Games : EntryNotional(rows, g) <= MaxEntryNotional

\* No order reaches the exchange before its row is committed: whatever the
\* process loses afterwards, the table shows that the order was asked for.
PlacedOrdersRecorded ==
    \A o \in Orders : book[o] # "absent" => Exists(db, o)

\* A live worker, and the snapshot it may restart from, only know orders whose
\* row is committed, for the same signal and purpose: rows are committed before
\* memory refers to them, and never deleted.
TrackedOrdersDurable ==
    ~DryRun => \A m \in {MemoryNow, snapshot}, k \in Keys :
        LET t == m.orders[k] IN
        t.order # NoOrder => /\ Exists(db, t.order)
                             /\ db[t.order].sig = k[1]
                             /\ db[t.order].action = t.action

OpenEntry(rows, o) == IsOpen(rows, o) /\ rows[o].action = "entry"

\* No outcome ever has two open entries in the table, also when a restart without its
\* snapshot remembers neither: the loop goes by the rows it read before it, and the game
\* gate covers what it has added since.
OneOpenEntry ==
    \A rows \in {db, tx}, o, p \in Orders :
        /\ OpenEntry(rows, o) /\ OpenEntry(rows, p)
        /\ OutcomeOf[rows[o].sig] = OutcomeOf[rows[p].sig]
        => o = p

\* Signal s has an entry with a recorded trade.
Backed(s) ==
    \E o \in Orders : Exists(db, o) /\ trades[o] > 0 /\ db[o].sig = s /\ db[o].action = "entry"

\* No phantom position: a position, in memory or restored, stands for an entry
\* of its signal with a recorded trade, however often the worker crashed, the
\* snapshot went stale or an exit was mistaken for an entry.
PositionsBacked == \A s \in active_positions \cup snapshot.positions : Backed(s)

\* Memory m tracks an exit or a target under key k.
TracksExit(m, k) == m.orders[k].order # NoOrder /\ m.orders[k].action # "entry"

\* What a position holds is not offered twice by the worker: it never tracks an exit
\* and a resting target of one signal, nor would a restart, although a fill rests a
\* target while exits time out, stops cancel, and the two live under different keys.
OneExitPerSignal ==
    \A m \in {MemoryNow, snapshot}, s \in Signals :
        ~(TracksExit(m, MainKey(s)) /\ TracksExit(m, TargetKey(s)))

\* The loop of the code the thread is in, also while create_live_order runs.
Phase == IF pc \in {"submit_exit", "place", "record"} THEN call.back ELSE pc

\* An order whose row was rolled back stays in memory (create_live_order of a dry run
\* does not commit), and is gone before the loops that time out, retry and gate by what
\* memory tracks: a cycle that got past _reconcile_runtime_state only works orders that
\* have a row, whatever earlier cycles left.
PhantomDropped ==
    Phase \in {"positions", "orders", "entry_gate", "entries", "end"} =>
        \A k \in TrackedKeys : Exists(tx, active_orders[k].order)

(* Refinement *)

\* The run implements OrderLedger: the committed rows move along the life of an
\* order, and a game's entries are allotted one by one within the budget.  A row
\* that is filled, canceled, cancel_error or submit_error is never written again:
\* cancel_live_order updates without looking at the status, so this rests on
\* _reconcile_runtime_state dropping closed rows before any cancel.
Ledger == INSTANCE OrderLedger WITH
    MaxEntries <- MaxEntryOrders,
    NoGame <- NoSignal,
    status <- [o \in Orders |-> db[o].status],
    owner <- [o \in Orders |-> IF Exists(db, o) /\ db[o].action = "entry"
                               THEN GameOf[db[o].sig] ELSE NoSignal]
ImplementsOrderLedger == Ledger!Spec

-----------------------------------------------------------------------------
(* Liveness.  A loop thread that is alive goes on; that it ends, or is       *)
(* started again, is never required.  An order only gets older, so a visit   *)
(* of the order loop that recurs finds it due: strong fairness of the        *)
(* timeout, never of the exchange.                                           *)

FairSpec ==
    /\ Spec
    /\ WF_vars(LoopStep)
    /\ \A k \in Keys : SF_vars(EntryTimeout(k) \/ TimeoutRaises(k))
    /\ \A k \in Keys : SF_vars(ExitTimeout(k))

\* Nothing is promised of a loop that has ended or whose last cycle raised.
Halted == pc = "ended" \/ last_error

TracksEntry(k, o) == active_orders[k].order = o /\ active_orders[k].action = "entry"

\* While the loop goes on and its cycles succeed an entry does not stay tracked: it
\* fills, or is cancelled when it is due and dropped by the next reconciliation.
EntryLeaves ==
    \A k \in Keys, o \in Orders : TracksEntry(k, o) ~> (~TracksEntry(k, o) \/ Halted)
=============================================================================
