---------------------------- MODULE ManagerOrders ----------------------------
(***************************************************************************)
(* Orders of the global portfolio manager: POST                            *)
(* /v1/portfolio/manager/order-management with dry_run = false             *)
(* (app/api/routers/portfolio.py, apply_portfolio_manager_order_-          *)
(* management_order), and POST /v1/portfolio/manager/action-ledger, which  *)
(* records a plan in the same ledger without working it.                   *)
(*                                                                         *)
(* A call is one database transaction of one API thread, at READ           *)
(* COMMITTED, with a call of the exchange in its middle.  The order row is *)
(* named after the idempotency key, so a later call with the key finds it  *)
(* and replays its outcome instead of placing.                             *)
(*                                                                         *)
(* The kill switch, the gates, the risk limits and the rate limit refuse a *)
(* call before it has done anything; a refusal, an error of the database   *)
(* and the death of the process are all the rollback of Abort.             *)
(***************************************************************************)
CONSTANTS
    Handlers,     \* API threads
    Plans,        \* action plans
    Keys,         \* idempotency keys
    KeyOf,        \* the gate_snapshot.idempotency_key of a plan
    LedgerIds,    \* ids of the action ledger
    LedgerOf,     \* the ledger_id of a plan, made without its key: plans of two keys
                  \* may share one, plans of one key may have two
    Ids,          \* bound: orders the exchange may be sent
    NoPlan, NoId, NoHandler

ASSUME ManagerAssumption ==
    /\ KeyOf \in [Plans -> Keys]
    /\ LedgerOf \in [Plans -> LedgerIds]
    /\ "unused" \notin Keys
    /\ NoPlan \notin Plans
    /\ NoId \notin Ids
    /\ NoHandler \notin Handlers

Failed == "submit_error"
Unconfirmed == "submit_confirmation_missing"
Submitted == "submitted"
Executed == {Submitted, Unconfirmed, Failed}
OrderStatuses == Executed \cup {"none"}
Planned == "planned"    \* of a ledger entry: any status a plan may have

VARIABLES
    row,          \* portfolio.orders, committed: one row per key
    ledger,       \* portfolio.manager_action_ledger, committed: status per id
    ledger_lock,  \* the transaction that has written the entry of an id
    row_lock,     \* the transaction that has written the order row of a key
    exchange,     \* the order an id stands for: its key, or nothing yet
    step, plan,   \* of each handler: where it is, and the plan it works
    written,      \* the order row a handler will commit
    sent,         \* the order a handler's transaction has placed
    rewritten,    \* history: ledger ids whose execution was written over
    lost,         \* history: keys whose placing transaction was rolled back
    overlapped    \* history: keys two transactions found without a row

mgr_vars == <<row, ledger, ledger_lock, row_lock, exchange, step, plan, written, sent,
          rewritten, lost, overlapped>>

CallSteps == {"idle", "read", "ledger", "place", "row", "commit"}
InFlight == CallSteps \ {"idle"}
NoOrder == [status |-> "none", ext |-> NoId]
Rows == [status : OrderStatuses, ext : Ids \cup {NoId}]

ManagerTypeOK ==
    /\ row \in [Keys -> Rows]
    /\ ledger \in [LedgerIds -> OrderStatuses \cup {Planned}]
    /\ ledger_lock \in [LedgerIds -> Handlers \cup {NoHandler}]
    /\ row_lock \in [Keys -> Handlers \cup {NoHandler}]
    /\ exchange \in [Ids -> Keys \cup {"unused"}]
    /\ step \in [Handlers -> CallSteps]
    /\ plan \in [Handlers -> Plans \cup {NoPlan}]
    /\ written \in [Handlers -> Rows]
    /\ sent \in [Handlers -> Ids \cup {NoId}]
    /\ rewritten \subseteq LedgerIds
    /\ lost \subseteq Keys
    /\ overlapped \subseteq Keys

ManagerInit ==
    /\ row = [k \in Keys |-> NoOrder]
    /\ ledger = [l \in LedgerIds |-> "none"]
    /\ ledger_lock = [l \in LedgerIds |-> NoHandler]
    /\ row_lock = [k \in Keys |-> NoHandler]
    /\ exchange = [i \in Ids |-> "unused"]
    /\ step = [h \in Handlers |-> "idle"]
    /\ plan = [h \in Handlers |-> NoPlan]
    /\ written = [h \in Handlers |-> NoOrder]
    /\ sent = [h \in Handlers |-> NoId]
    /\ rewritten = {}
    /\ lost = {}
    /\ overlapped = {}

Goto(h, s) == step' = [step EXCEPT ![h] = s]
Key(h) == KeyOf[plan[h]]
Entry(h) == LedgerOf[plan[h]]

\* The handlers, other than h, that found no row for the key of h.
Rivals(h) == {g \in Handlers \ {h} : step[g] \in InFlight \ {"read"} /\ Key(g) = Key(h)}

\* The end of a transaction, committed or not.
EndCall(h) ==
    /\ Goto(h, "idle")
    /\ plan' = [plan EXCEPT ![h] = NoPlan]
    /\ written' = [written EXCEPT ![h] = NoOrder]
    /\ sent' = [sent EXCEPT ![h] = NoId]
    /\ ledger_lock' = [l \in LedgerIds |-> IF ledger_lock[l] = h THEN NoHandler ELSE ledger_lock[l]]
    /\ row_lock' = [k \in Keys |-> IF row_lock[k] = h THEN NoHandler ELSE row_lock[k]]
    /\ UNCHANGED exchange

\* An entry of the ledger gets the status given, whatever it shows by now.
SetLedger(l, status) ==
    /\ ledger' = [ledger EXCEPT ![l] = status]
    /\ rewritten' = IF ledger[l] \in Executed THEN rewritten \cup {l} ELSE rewritten

-----------------------------------------------------------------------------
(* apply_portfolio_manager_order_management_order *)

\* Runtime flag, kill switch, gates and request are in order.
Begin(h, p) ==
    /\ step[h] = "idle"
    /\ Goto(h, "read")
    /\ plan' = [plan EXCEPT ![h] = p]
    /\ UNCHANGED <<row, ledger, ledger_lock, row_lock, exchange, written, sent, rewritten,
                   lost, overlapped>>

\* Bug variant: a failed order may be placed again (PlacedOncePerKey).
ReplaysConfirmedOnly(h) == row[Key(h)].status \in {Submitted, Unconfirmed}

\* _fetch_portfolio_manager_order_by_id finds a row, whatever its status.
Replays(h) == row[Key(h)] # NoOrder

Replay(h) ==
    /\ step[h] = "read"
    /\ Replays(h)
    /\ EndCall(h)
    /\ UNCHANGED <<row, ledger, rewritten, lost, overlapped>>

FindNoRow(h) ==
    /\ step[h] = "read"
    /\ ~Replays(h)
    /\ Goto(h, "ledger")
    /\ overlapped' = IF Rivals(h) = {} THEN overlapped ELSE overlapped \cup {Key(h)}
    /\ UNCHANGED <<row, ledger, ledger_lock, row_lock, exchange, plan, written, sent,
                   rewritten, lost>>

\* Bug variant: the ledger entry is committed as soon as it is written
\* (LedgerWithOrder).
WriteLedgerCommitted(h) ==
    /\ step[h] = "ledger"
    /\ ledger_lock[Entry(h)] = NoHandler
    /\ SetLedger(Entry(h), Submitted)
    /\ Goto(h, "place")
    /\ UNCHANGED <<row, ledger_lock, row_lock, exchange, plan, written, sent, lost, overlapped>>

\* apply_portfolio_manager_action_ledger: an upsert waits for the transaction that
\* has written the same ledger_id.
WriteLedger(h) ==
    /\ step[h] = "ledger"
    /\ ledger_lock[Entry(h)] = NoHandler
    /\ ledger_lock' = [ledger_lock EXCEPT ![Entry(h)] = h]
    /\ Goto(h, "place")
    /\ UNCHANGED <<row, ledger, row_lock, exchange, plan, written, sent, rewritten, lost,
                   overlapped>>

\* The status and the id the row will have: what place_new_order answers.
Outcome(answer, i) ==
    [status |-> IF answer = "accepted" THEN Submitted
                ELSE IF answer = "accepted_no_id" THEN Unconfirmed ELSE Failed,
     ext |-> IF answer = "accepted" THEN i ELSE NoId]

Answers == {"accepted", "accepted_no_id", "refused", "lost_answer"}

\* The exchange names an order with an id it has not used.
Unused == {i \in Ids : exchange[i] = "unused"}
NewId == CHOOSE i \in Unused : TRUE

\* place_new_order.  An exception of the client is an answer without success,
\* although the order may have been taken.
Place(h, answer) ==
    /\ step[h] = "place"
    /\ answer = "refused" \/ Unused # {}
    /\ IF answer = "refused"
       THEN UNCHANGED <<exchange, sent>>
       ELSE /\ exchange' = [exchange EXCEPT ![NewId] = Key(h)]
            /\ sent' = [sent EXCEPT ![h] = NewId]
    /\ written' = [written EXCEPT ![h] = Outcome(answer, NewId)]
    /\ Goto(h, "row")
    /\ UNCHANGED <<row, ledger, ledger_lock, row_lock, plan, rewritten, lost, overlapped>>

\* upsert_order waits for the transaction that has written the same order_id.
WriteRow(h) ==
    /\ step[h] = "row"
    /\ row_lock[Key(h)] = NoHandler
    /\ row_lock' = [row_lock EXCEPT ![Key(h)] = h]
    /\ Goto(h, "commit")
    /\ UNCHANGED <<row, ledger, ledger_lock, exchange, plan, written, sent, rewritten, lost,
                   overlapped>>

\* Bug variant: the confirmed order is committed without its external id
\* (PlacedOrdersFound).
CommitWithoutId(h) ==
    /\ step[h] = "commit"
    /\ row' = [row EXCEPT ![Key(h)] = [written[h] EXCEPT !.ext = NoId]]
    /\ SetLedger(Entry(h), written[h].status)
    /\ EndCall(h)
    /\ UNCHANGED <<lost, overlapped>>

\* The event, finalize_portfolio_manager_action_ledger_execution and the commit.
Commit(h) ==
    /\ step[h] = "commit"
    /\ row' = [row EXCEPT ![Key(h)] = written[h]]
    /\ SetLedger(Entry(h), written[h].status)
    /\ EndCall(h)
    /\ UNCHANGED <<lost, overlapped>>

\* An HTTPException, an error of the database or the end of the process.
Abort(h) ==
    /\ step[h] \in InFlight
    /\ lost' = IF sent[h] = NoId THEN lost ELSE lost \cup {Key(h)}
    /\ EndCall(h)
    /\ UNCHANGED <<row, ledger, rewritten, overlapped>>

-----------------------------------------------------------------------------
\* record_portfolio_manager_action_ledger: a plan is recorded, in a transaction of its
\* own that looks at neither the switch nor the rows.
RecordLedger(p) ==
    /\ ledger_lock[LedgerOf[p]] = NoHandler
    /\ SetLedger(LedgerOf[p], Planned)
    /\ UNCHANGED <<row, ledger_lock, row_lock, exchange, step, plan, written, sent, lost,
                   overlapped>>

HandlerStep(h) ==
    \/ \E p \in Plans : Begin(h, p)
    \/ Replay(h) \/ FindNoRow(h) \/ WriteLedger(h) \/ WriteRow(h) \/ Commit(h) \/ Abort(h)
    \/ \E answer \in Answers : Place(h, answer)

ManagerNext ==
    \/ \E h \in Handlers : HandlerStep(h)
    \/ \E p \in Plans : RecordLedger(p)

ManagerSpec == ManagerInit /\ [][ManagerNext]_mgr_vars

-----------------------------------------------------------------------------
(* Properties *)

Orders(k) == {i \in Ids : exchange[i] = k}

\* A key brings two orders to the exchange only when two of its calls overlapped,
\* both before either had committed, or a call died after the exchange had taken
\* its order.  Retrying a call that ended, whatever its answer was, places nothing.
PlacedOncePerKey ==
    \A k \in Keys : k \notin lost \cup overlapped =>
        \A i, j \in Orders(k) : i = j

\* An order at the exchange can be found from the row of its key, or the row says
\* that the outcome is not known, or a call is still at it; again unless calls of
\* the key overlapped or died.
PlacedOrdersFound ==
    \A k \in Keys : k \notin lost \cup overlapped =>
        \A i \in Orders(k) :
            \/ row[k].ext = i
            \/ row[k].status \in {Unconfirmed, Failed}
            \/ \E h \in Handlers : sent[h] = i

\* The action ledger and the orders are committed together.  An execution the ledger
\* shows is the outcome of an order row of a key of the entry, or calls of that key
\* overlapped; and the outcome of every order row is shown by an entry of its key,
\* or a later call or a plan recorded afterwards has written over the entry.
ExecutionHasRow ==
    \A l \in LedgerIds : ledger[l] \in Executed =>
        \E p \in Plans : /\ LedgerOf[p] = l
                         /\ row[KeyOf[p]] # NoOrder
                         /\ row[KeyOf[p]].status = ledger[l] \/ KeyOf[p] \in overlapped
RowHasEntry ==
    \A k \in Keys : row[k] # NoOrder =>
        \E p \in Plans : /\ KeyOf[p] = k
                         /\ ledger[LedgerOf[p]] = row[k].status \/ LedgerOf[p] \in rewritten
LedgerWithOrder == ExecutionHasRow /\ RowHasEntry
=============================================================================
