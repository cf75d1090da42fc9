--------------------------- MODULE PortfolioTables ---------------------------
(***************************************************************************)
(* The writers of portfolio.orders and portfolio.trades: orders placed and *)
(* cancelled by hand, the rows of live runs, the mirror of the orders open *)
(* at the exchange, the portfolio sync, the reconciliation of live fills,  *)
(* and the reviewed backfills of statuses and of trades                    *)
(* (app/api/routers/portfolio.py, sync_portfolio.py, execution/adapter.py).*)
(*                                                                         *)
(* Each is a job of one thread and one transaction: it reads rows, asks    *)
(* the exchange, and writes what it concluded.  Other jobs and the         *)
(* exchange go on between those steps.  The writes of a job are one action:*)
(* nothing outside the database happens among them.                        *)
(*                                                                         *)
(* One exchange order may have several rows, since each source names its   *)
(* rows in its own way; a fill may have two, since the live run keeps the  *)
(* exchange's id and everything else hashes it.                            *)
(***************************************************************************)
EXTENDS Naturals, FiniteSets

CONSTANTS
    Externals,    \* orders at the exchange
    Lots,         \* the size of each; a fill is one lot
    Writers,      \* threads
    MaxJobs,      \* bound: jobs begun
    Unrecorded, Unlinked

ASSUME TablesAssumption ==
    /\ Lots \in Nat \ {0}
    /\ MaxJobs \in Nat
    /\ IsFiniteSet(Externals)

Sources == {"live", "manual", "mirror", "sync"}
RowIds == Externals \X Sources
Fills == Externals \X (1..Lots)

ASSUME LinkAssumption == {Unrecorded, Unlinked} \cap RowIds = {} /\ Unrecorded # Unlinked

\* The members of _OPEN_ORDER_STATUSES that the modelled code writes;
\* the live run's set lacks the last.
OPEN_ORDER_STATUSES == {"open", "submitted", "partially_filled"}
_OPEN_ORDER_STATUSES == OPEN_ORDER_STATUSES \cup {"pending_submit"}
Statuses == _OPEN_ORDER_STATUSES
    \cup {"none", "filled", "canceled", "expired", "submit_error", "cancel_error"}

VARIABLES
    state,        \* of each order at the exchange
    fills,        \* what the exchange has filled
    rows,         \* portfolio.orders: status, and whether external_order_id is set
    trades,       \* portfolio.trades: for each fill and kind of id, its order_id
    job,          \* of each writer: what it does, how far it is, what it has seen
    jobs,         \* jobs begun
    double_counted, \* history: rows a fill was linked to twice
    blind         \* history: rows expired by a job that had not seen the open orders

vars == <<state, fills, rows, trades, job, jobs, double_counted, blind>>

Kinds == {"raw", "hashed"}
NoRow == [status |-> "none", ext |-> FALSE]
Works == {"place", "cancel", "reconcile", "status", "trades", "mirror", "sync"}
NoBook == [x \in Externals |-> "unseen"]

Idle == [work |-> "idle", phase |-> "begin", row |-> Unlinked, status |-> "none", ext |-> FALSE,
         read |-> [r \in RowIds |-> NoRow], linked |-> [r \in RowIds |-> 0],
         book |-> NoBook, listed |-> {}, unread |-> TRUE]

Jobs == [work : Works \cup {"idle"}, phase : {"begin", "ask", "ask_trades", "write"},
         row : RowIds \cup {Unlinked}, status : Statuses, ext : BOOLEAN,
         read : [RowIds -> [status : Statuses, ext : BOOLEAN]], linked : [RowIds -> 0..2 * Lots],
         book : [Externals -> {"unseen", "resting", "filled", "canceled"}],
         listed : SUBSET Fills, unread : BOOLEAN]

TypeOK ==
    /\ state \in [Externals -> {"none", "resting", "filled", "canceled", "refused"}]
    /\ fills \subseteq Fills
    /\ rows \in [RowIds -> [status : Statuses, ext : BOOLEAN]]
    /\ trades \in [Fills \X Kinds -> RowIds \cup {Unrecorded, Unlinked}]
    /\ job \in [Writers -> Jobs]
    /\ jobs \in 0..MaxJobs
    /\ double_counted \subseteq RowIds
    /\ blind \subseteq RowIds

Init ==
    /\ state = [x \in Externals |-> "none"]
    /\ fills = {}
    /\ rows = [r \in RowIds |-> NoRow]
    /\ trades = [t \in Fills \X Kinds |-> Unrecorded]
    /\ job = [w \in Writers |-> Idle]
    /\ jobs = 0
    /\ double_counted = {}
    /\ blind = {}

-----------------------------------------------------------------------------
(* The exchange *)

FillsOf(x, seen) == {f \in seen : f[1] = x}

ExchangeFill(x) ==
    /\ state[x] = "resting"
    /\ LET n == Cardinality(FillsOf(x, fills)) + 1
       IN  /\ fills' = fills \cup {<<x, n>>}
           /\ state' = IF n = Lots THEN [state EXCEPT ![x] = "filled"] ELSE state
    /\ UNCHANGED <<rows, trades, job, jobs, double_counted, blind>>

\* view_orders and view_trades return an empty list when the call fails.
OpenOrders(failed) ==
    [x \in Externals |-> IF state[x] = "resting" /\ ~failed THEN "resting" ELSE "unseen"]
ListedTrades(failed) == IF failed THEN {} ELSE fills

-----------------------------------------------------------------------------
(* Jobs *)

Begins(w) == job[w] = Idle /\ jobs < MaxJobs /\ jobs' = jobs + 1
At(w, work, phase) == job[w].work = work /\ job[w].phase = phase
Ends(w) == job' = [job EXCEPT ![w] = Idle]

LinkedFills(r, tt) == {t \in DOMAIN tt : tt[t] = r}
DoublyLinked(r, tt) == \E f \in Fills : tt[<<f, "raw">>] = r /\ tt[<<f, "hashed">>] = r

\* The rows and trades a job leaves behind.
Writes(newrows, newtrades) ==
    /\ rows' = newrows
    /\ trades' = newtrades
    /\ double_counted' = double_counted \cup {r \in RowIds : DoublyLinked(r, newtrades)}
    /\ UNCHANGED <<state, fills, jobs>>

\* An exception, or an answer that ends the job: the transaction is rolled back.
Abandon(w) ==
    /\ job[w] # Idle
    /\ Ends(w)
    /\ UNCHANGED <<state, fills, rows, trades, jobs, double_counted, blind>>

(* create_manual_order, and create_live_order, which commits a row first *)

PlaceBegin(w, x, source) ==
    /\ Begins(w)
    /\ source \in {"live", "manual"}
    /\ state[x] = "none"
    /\ \A v \in Writers, s \in Sources : ~(job[v].work = "place" /\ job[v].row = <<x, s>>)
    /\ rows[<<x, "live">>] = NoRow      \* x is an order no one has worked on
    /\ job' = [job EXCEPT ![w] = [Idle EXCEPT !.work = "place", !.phase = "ask", !.row = <<x, source>>]]
    /\ rows' = IF source = "live"
               THEN [rows EXCEPT ![<<x, source>>] = [status |-> "pending_submit", ext |-> FALSE]]
               ELSE rows
    /\ UNCHANGED <<state, fills, trades, double_counted, blind>>

\* place_new_order, or nothing at all in a dry run of the manual endpoint.
PlaceAsk(w, answer) ==
    /\ At(w, "place", "ask")
    /\ answer = "dry_run" => job[w].row[2] = "manual"
    /\ state' = [state EXCEPT ![job[w].row[1]] =
                    IF answer \in {"refused", "dry_run"} THEN "refused" ELSE "resting"]
    /\ job' = [job EXCEPT ![w].phase = "write",
                          ![w].ext = (answer = "accepted"),
                          ![w].status = CASE answer \in {"accepted", "accepted_no_id"} -> "submitted"
                                          [] answer = "dry_run" -> "open"
                                          [] OTHER -> "submit_error"]
    /\ UNCHANGED <<fills, rows, trades, jobs, double_counted, blind>>

PlaceWrite(w) ==
    /\ At(w, "place", "write")
    /\ Writes([rows EXCEPT ![job[w].row] = [status |-> job[w].status, ext |-> job[w].ext]], trades)
    /\ Ends(w)
    /\ UNCHANGED blind

(* cancel_manual_order *)

\* A call without dry_run needs the external id; a dry run does not ask.
CancelBegin(w, r, dry_run) ==
    /\ Begins(w)
    /\ rows[r] # NoRow
    /\ dry_run \/ rows[r].ext
    /\ job' = [job EXCEPT ![w] = [Idle EXCEPT !.work = "cancel", !.row = r, !.status = "canceled",
                                              !.phase = IF dry_run THEN "write" ELSE "ask"]]
    /\ UNCHANGED <<state, fills, rows, trades, double_counted, blind>>

\* cancel_order: what does not rest any more cannot be cancelled, and the answer
\* may be a success all the same.
CancelAsk(w, success) ==
    LET x == job[w].row[1]
    IN  /\ At(w, "cancel", "ask")
        /\ \/ state' = [state EXCEPT ![x] = IF @ = "resting" THEN "canceled" ELSE @]
           \/ ~success /\ UNCHANGED state
        /\ job' = [job EXCEPT ![w].phase = "write",
                              ![w].status = IF success THEN "canceled" ELSE "cancel_error"]
        /\ UNCHANGED <<fills, rows, trades, jobs, double_counted, blind>>

CancelWrite(w) ==
    /\ At(w, "cancel", "write")
    /\ Writes([rows EXCEPT ![job[w].row].status = job[w].status], trades)
    /\ Ends(w)
    /\ UNCHANGED blind

-----------------------------------------------------------------------------
(* reconcile_live_order_fills *)

\* The rows a job found when it began.
Snapshot(w, work) ==
    job' = [job EXCEPT ![w] = [Idle EXCEPT !.work = work, !.phase = "ask", !.read = rows,
                                 !.linked = [r \in RowIds |-> Cardinality(LinkedFills(r, trades))]]]

ReadRows(w, work) ==
    /\ Begins(w)
    /\ Snapshot(w, work)
    /\ UNCHANGED <<state, fills, rows, trades, double_counted, blind>>

\* The live orders the reconciliation works on.
ReconcileRows(read) ==
    {r \in RowIds : r[2] = "live" /\ read[r].ext /\ read[r].status \in OPEN_ORDER_STATUSES}

\* Bug variant: the sum of the fills is not compared with the size of the order
\* (FilledOnlyByEvidence).
FillStatusUnsized(r, tt) == IF LinkedFills(r, tt) # {} THEN "filled" ELSE "partially_filled"

\* The sum of the trades linked to the order, against its size.
FillStatus(r, tt) ==
    IF Cardinality(LinkedFills(r, tt)) >= Lots THEN "filled" ELSE "partially_filled"

\* Bug variant: the rows are read after the exchange (ExpiredNotResting).
AskTradesThenRows(w, work, phase, failed) ==
    /\ At(w, work, phase)
    /\ job' = [job EXCEPT ![w].phase = "write", ![w].listed = ListedTrades(failed),
                          ![w].read = rows]
    /\ UNCHANGED <<state, fills, rows, trades, jobs, double_counted, blind>>

\* view_trades, at the end of what a job asks for.
AskTrades(w, work, phase, failed) ==
    /\ At(w, work, phase)
    /\ job' = [job EXCEPT ![w].phase = "write", ![w].listed = ListedTrades(failed)]
    /\ UNCHANGED <<state, fills, rows, trades, jobs, double_counted, blind>>

\* Each listed trade is upserted under the exchange's id, and the row gets the
\* status its trades call for, whatever its status is by now.
ReconcileWrite(w) ==
    LET matched == {f \in job[w].listed : <<f[1], "live">> \in ReconcileRows(job[w].read)}
        tt == [t \in DOMAIN trades |->
                  IF t[1] \in matched /\ t[2] = "raw" THEN <<t[1][1], "live">> ELSE trades[t]]
        touched == {<<f[1], "live">> : f \in matched}
    IN  /\ At(w, "reconcile", "write")
        /\ Writes([r \in RowIds |-> IF r \in touched
                                    THEN [rows[r] EXCEPT !.status = FillStatus(r, tt)]
                                    ELSE rows[r]], tt)
        /\ Ends(w)
        /\ UNCHANGED blind

-----------------------------------------------------------------------------
(* backfill_portfolio_order_statuses *)

\* The open orders the request names, which are orders that were placed, are added
\* to the exchange's.
Named == {x \in Externals : state[x] \notin {"none", "refused"}}
WithNamed(book, named) == [x \in Externals |-> IF x \in named THEN "resting" ELSE book[x]]

\* view_orders, whose failure passes for an empty list.
AskOrders(w, failed, named) ==
    /\ At(w, "status", "ask")
    /\ job' = [job EXCEPT ![w].phase = "ask_trades", ![w].unread = failed,
                          ![w].book = WithNamed(OpenOrders(failed), named)]
    /\ UNCHANGED <<state, fills, rows, trades, jobs, double_counted, blind>>

\* The request wants no evidence of the exchange, or view_open_positions raises and
\* what was read is dropped: there is only what the request says.
TakeRequestsWord(w, named) ==
    /\ At(w, "status", "ask")
    /\ job' = [job EXCEPT ![w].phase = "write", ![w].unread = TRUE,
                          ![w].book = WithNamed(NoBook, named)]
    /\ UNCHANGED <<state, fills, rows, trades, jobs, double_counted, blind>>

\* The fills counted for a row: the linked ones or those of the exchange, whichever
\* are more.
EffectiveFill(w, r) ==
    LET direct == IF job[w].read[r].ext THEN Cardinality(FillsOf(r[1], job[w].listed)) ELSE 0
    IN  IF direct > job[w].linked[r] THEN direct ELSE job[w].linked[r]

DirectLive(w, r) == job[w].read[r].ext /\ job[w].book[r[1]] = "resting"

\* Rows the backfill plans to close, by the status it plans.
PlannedFilled(w) ==
    {r \in RowIds : /\ job[w].read[r].status \in _OPEN_ORDER_STATUSES
                    /\ ~DirectLive(w, r)
                    /\ EffectiveFill(w, r) >= Lots}

\* expire: the request wants flat orders expired, and neither orders nor positions are
\* counted.  Counts given in the request take the place of what was read, so it may
\* be so although the exchange has listed orders.
PlannedExpired(w, expire) ==
    {r \in RowIds : /\ expire
                    /\ job[w].read[r].status \in _OPEN_ORDER_STATUSES
                    /\ job[w].read[r].ext
                    /\ ~DirectLive(w, r)
                    /\ EffectiveFill(w, r) = 0}

\* Bug variant: the row is updated whatever its status is by now (CancelKept).
UnchangedSinceRead(w) == {r \in RowIds : rows[r].status \in Statuses}

\* UPDATE ... WHERE order_id = ... AND status = old_status
StillAsRead(w) == {r \in RowIds : rows[r].status = job[w].read[r].status}

StatusWrite(w, expire) ==
    LET filled == PlannedFilled(w) \cap StillAsRead(w)
        expired == PlannedExpired(w, expire) \cap StillAsRead(w)
    IN  /\ At(w, "status", "write")
        /\ Writes([r \in RowIds |->
                     IF r \in filled THEN [rows[r] EXCEPT !.status = "filled"]
                     ELSE IF r \in expired THEN [rows[r] EXCEPT !.status = "expired"]
                     ELSE rows[r]], trades)
        /\ blind' = IF job[w].unread THEN blind \cup expired ELSE blind
        /\ Ends(w)

(* backfill_portfolio_order_trades *)

\* Each trade of the exchange goes to one of the rows of its order, the first with
\* no linked trade at the time the rows were read.
BackfillTargets(w, x) ==
    {r \in RowIds : r[1] = x /\ job[w].read[r].ext /\ job[w].linked[r] = 0}

TradesWrite(w, target) ==
    /\ At(w, "trades", "write")
    /\ \A x \in Externals :
           IF BackfillTargets(w, x) = {} THEN target[x] = Unlinked
           ELSE target[x] \in BackfillTargets(w, x)
    /\ Writes(rows, [t \in DOMAIN trades |->
                      IF t[1] \in job[w].listed /\ t[2] = "hashed" /\ target[t[1][1]] # Unlinked
                      THEN target[t[1][1]] ELSE trades[t]])
    /\ Ends(w)
    /\ UNCHANGED blind

-----------------------------------------------------------------------------
(* mirror_direct_open_portfolio_orders *)

MirrorAsk(w, failed) ==
    /\ job[w] = Idle
    /\ Begins(w)
    /\ job' = [job EXCEPT ![w] = [Idle EXCEPT !.work = "mirror", !.phase = "write",
                                              !.book = OpenOrders(failed)]]
    /\ UNCHANGED <<state, fills, rows, trades, double_counted, blind>>

MirrorWrite(w) ==
    /\ At(w, "mirror", "write")
    /\ Writes([r \in RowIds |-> IF r[2] = "mirror" /\ job[w].book[r[1]] = "resting"
                                THEN [status |-> "open", ext |-> TRUE] ELSE rows[r]], trades)
    /\ Ends(w)
    /\ UNCHANGED blind

(* run_portfolio_mirror_sync *)

\* The lists of the open, the filled and the cancelled orders; one that cannot be
\* fetched is taken for empty.  An order that moves from one to another in between
\* is in both, and the later wins.
SyncAsk(w, failing) ==
    /\ Begins(w)
    /\ job' = [job EXCEPT ![w] = [Idle EXCEPT !.work = "sync", !.phase = "ask_trades",
                  !.book = [x \in Externals |->
                      IF state[x] \in {"resting", "filled", "canceled"} \ failing
                      THEN state[x] ELSE "unseen"]]]
    /\ UNCHANGED <<state, fills, rows, trades, double_counted, blind>>

\* Bug variant: the status is stored in the exchange's words (PortfolioTypeOK).
SyncedRowVerbatim(seen) == [status |-> seen, ext |-> TRUE]

SyncedRow(seen) == [status |-> IF seen = "resting" THEN "open" ELSE seen, ext |-> TRUE]

\* The order rows first; a trade of an order that has no row of the sync is
\* upserted without one.
SyncWrite(w) ==
    LET synced == [r \in RowIds |-> IF r[2] = "sync" /\ job[w].book[r[1]] # "unseen"
                                    THEN SyncedRow(job[w].book[r[1]]) ELSE rows[r]]
    IN  /\ At(w, "sync", "write")
        /\ Writes(synced,
                  [t \in DOMAIN trades |->
                     IF t[1] \in job[w].listed /\ t[2] = "hashed"
                     THEN IF synced[<<t[1][1], "sync">>] # NoRow THEN <<t[1][1], "sync">>
                          ELSE Unlinked
                     ELSE trades[t]])
        /\ Ends(w)
        /\ UNCHANGED blind

-----------------------------------------------------------------------------
WriterStep(w) ==
    \/ \E x \in Externals, s \in Sources : PlaceBegin(w, x, s)
    \/ \E a \in {"accepted", "accepted_no_id", "refused", "lost_answer", "dry_run"} : PlaceAsk(w, a)
    \/ \E r \in RowIds, dry_run \in BOOLEAN : CancelBegin(w, r, dry_run)
    \/ \E success \in BOOLEAN : CancelAsk(w, success)
    \/ PlaceWrite(w) \/ CancelWrite(w)
    \/ \E work \in {"reconcile", "status", "trades"} : ReadRows(w, work)
    \/ \E failed \in BOOLEAN :
          \/ AskTrades(w, "reconcile", "ask", failed) \/ AskTrades(w, "trades", "ask", failed)
          \/ AskTrades(w, "status", "ask_trades", failed)
          \/ AskTrades(w, "sync", "ask_trades", failed)
          \/ MirrorAsk(w, failed)
    \/ \E named \in SUBSET Named :
          \/ \E failed \in BOOLEAN : AskOrders(w, failed, named)
          \/ TakeRequestsWord(w, named)
    \/ \E expire \in BOOLEAN : StatusWrite(w, expire)
    \/ \E target \in [Externals -> RowIds \cup {Unlinked}] : TradesWrite(w, target)
    \/ \E failing \in SUBSET {"resting", "filled", "canceled"} : SyncAsk(w, failing)
    \/ ReconcileWrite(w) \/ MirrorWrite(w) \/ SyncWrite(w)
    \/ Abandon(w)

Next == (\E x \in Externals : ExchangeFill(x)) \/ (\E w \in Writers : WriterStep(w))

Spec == Init /\ [][Next]_vars

-----------------------------------------------------------------------------
(* Properties *)

\* However the reads and writes of the jobs interleave, a row says "filled" of an
\* order that was not filled only if a fill has been linked to it twice, under the
\* exchange's id and under the hashed one.
FilledOnlyByEvidence ==
    \A r \in RowIds : rows[r].status = "filled" => state[r[1]] = "filled" \/ r \in double_counted

\* A row is expired while its order rests at the exchange only by a job that had not
\* seen the open orders: their read failed and passed for an empty list, or the
\* request alone said there were none.  Whatever counts a request gives, an order
\* that was listed as open is not expired, nor one placed after the rows were read.
ExpiredNotResting ==
    \A r \in RowIds : rows[r].status = "expired" => state[r[1]] # "resting" \/ r \in blind

\* A cancelled order of a run or of the operator is never expired, filled or opened
\* again by a backfill that had read it before the cancel; only another cancel says
\* otherwise, and of a live run's order the placement that was still waiting for its
\* answer, or a fill the reconciliation finds.
CancelKept ==
    [][\A r \in RowIds :
          r[2] \in {"live", "manual"} /\ rows[r].status = "canceled" =>
              \/ rows'[r].status \in {"canceled", "cancel_error"}
              \/ /\ r[2] = "live"
                 /\ \/ FillsOf(r[1], fills) # {}
                    \/ \E w \in Writers : At(w, "place", "write") /\ job[w].row = r]_vars

\* The status backfill "only updates open local orders to `filled` when full fill
\* evidence covers the requested size"
\* (app/docs/planning/janus_agentic_backend_operating_plan.md:156): what it is about to
\* close as filled was filled.
BackfillsOnlyFilled ==
    \A w \in Writers : At(w, "status", "write") =>
        \A r \in PlannedFilled(w) : state[r[1]] = "filled"
=============================================================================
