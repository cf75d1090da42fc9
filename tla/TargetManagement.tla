-------------------------- MODULE TargetManagement --------------------------
(***************************************************************************)
(* Which sleeve's shares a resting sell order covers                       *)
(* (app/modules/agentic/target_management.py,                              *)
(* build_target_management_evidence, for one token): the lots bought are   *)
(* cut to the open position and dealt to the plan's sleeves in order, and  *)
(* the sell orders of the token are dealt to the shares so assigned.       *)
(*                                                                         *)
(* An order is credited with the size it is listed with, which is the one  *)
(* it was placed with: shares a partial fill sold already count again.     *)
(* Sizes are whole shares.  The lots are one after another and a sleeve    *)
(* takes shares from the first that is left, so their total is enough; the *)
(* target price of a sleeve only says whether an order is priced below it. *)
(***************************************************************************)
EXTENDS Integers, Sequences

CONSTANTS
    MaxShares,       \* bound: of the position, of what was bought and of an order
    PlanSleeves,     \* bound: strategies of the plan that name the token
    OrderCount,      \* bound: resting sell orders
    MinSize          \* min_size, the least order the exchange takes

ASSUME TargetAssumption ==
    /\ MaxShares \in Nat /\ PlanSleeves \in Nat /\ OrderCount \in Nat
    /\ MinSize \in Nat \ {0}

Shares == 0..MaxShares
\* size: as listed.  sold: of them, no longer at the exchange, which nothing here reads.
\* low: priced below the sleeves' target.
SellOrders == {order \in [size : Shares, sold : Shares, low : BOOLEAN] : order.sold <= order.size}

VARIABLES
    position, purchases,  \* open position (0: none), shares bought by its trades
    entry_sizes,          \* of the sleeves, in the order of the plan
    sell_orders,          \* of each resting sell order, what of its size no row has taken
    free_lots,            \* shares no sleeve has taken yet
    evidence,             \* the sleeves' rows
    dealt                 \* all rows are built

tgt_vars == <<position, purchases, entry_sizes, sell_orders, free_lots, evidence, dealt>>

Lesser(x, y) == IF x <= y THEN x ELSE y

\* The sum of f over 1..n.
SumTo(f, n) ==
    LET sum[i \in 0..n] == IF i = 0 THEN 0 ELSE sum[i - 1] + f[i] IN sum[n]

Listed == SumTo([i \in DOMAIN sell_orders |-> sell_orders[i].size], Len(sell_orders))
Sold == SumTo([i \in DOMAIN sell_orders |-> sell_orders[i].sold], Len(sell_orders))

-----------------------------------------------------------------------------
(* _lots_by_token *)

\* Bug variant: the lots of trades are not cut to the position (AllocationMatches).
LotsUncapped == IF purchases >= position THEN purchases ELSE position

\* _cap_lots_to_open_positions and the remainder.  Without an open position nothing
\* is cut.
Lots == IF position = 0 THEN purchases ELSE position

-----------------------------------------------------------------------------
(* One sleeve *)

\* _take_orders: what a sleeve with that many shares takes of each order.
Dealt(need) == [i \in DOMAIN sell_orders |->
    LET before == SumTo([j \in DOMAIN sell_orders |-> sell_orders[j].size], i - 1)
    IN IF before >= need THEN 0 ELSE Lesser(sell_orders[i].size, need - before)]

\* Bug variant: any coverage will do (CoveredTokenIsCovered).
StatusByCoverage(allocated, coverage, stale) ==
    CASE allocated = 0 -> "no_position"
      [] allocated > 0 /\ coverage = 0 -> "target_missing"
      [] allocated > 0 /\ coverage > 0 -> IF stale THEN "target_stale" ELSE "target_covered"

\* target_status of _build_sleeve_evidence.
Status(allocated, coverage, stale) ==
    CASE allocated = 0 -> "no_position"
      [] allocated > 0 /\ coverage = 0 -> "target_missing"
      [] allocated > 0 /\ coverage > 0 /\ stale -> "target_stale"
      [] allocated > 0 /\ coverage > 0 /\ ~stale ->
            IF allocated - coverage >= MinSize THEN "target_missing" ELSE "target_covered"

\* Bug variant: the orders a sleeve is credited with stay for the next (CoveredOnce).
DealUndrawn(wanted) ==
    LET allocated == Lesser(wanted, free_lots)
        taken == Dealt(allocated)
        coverage == SumTo(taken, Len(sell_orders))
        stale == \E i \in DOMAIN sell_orders : taken[i] > 0 /\ sell_orders[i].low
        row == [allocated |-> allocated, coverage |-> coverage,
                status |-> Status(allocated, coverage, stale)]
    IN  /\ evidence' = Append(evidence, row)
        /\ free_lots' = free_lots - allocated
        /\ UNCHANGED sell_orders

\* _build_sleeve_evidence for a sleeve that wants so many shares.
Deal(wanted) ==
    LET allocated == Lesser(wanted, free_lots)
        taken == Dealt(allocated)
        coverage == SumTo(taken, Len(sell_orders))
        stale == \E i \in DOMAIN sell_orders : taken[i] > 0 /\ sell_orders[i].low
        row == [allocated |-> allocated, coverage |-> coverage,
                status |-> Status(allocated, coverage, stale)]
    IN  /\ evidence' = Append(evidence, row)
        /\ free_lots' = free_lots - allocated
        /\ sell_orders' = [i \in DOMAIN sell_orders |->
                              [sell_orders[i] EXCEPT !.size = @ - taken[i]]]

TargetInit ==
    /\ position \in Shares /\ purchases \in Shares
    /\ entry_sizes \in UNION {[1..n -> Shares] : n \in 0..PlanSleeves}
    /\ sell_orders \in UNION {[1..n -> SellOrders] : n \in 0..OrderCount}
    /\ free_lots = Lots
    /\ evidence = <<>>
    /\ dealt = FALSE

\* A strategy of the plan; _take_lots gives one without a size all there is.
DealToSleeve ==
    /\ Len(evidence) < Len(entry_sizes)
    /\ LET size == entry_sizes[Len(evidence) + 1] IN Deal(IF size = 0 THEN free_lots ELSE size)
    /\ UNCHANGED <<position, purchases, entry_sizes, dealt>>

\* The shares no strategy took are one more row.
DealExcess ==
    /\ entry_sizes # <<>>
    /\ Len(evidence) = Len(entry_sizes) /\ ~dealt
    /\ dealt' = TRUE
    /\ IF free_lots > 0 THEN Deal(free_lots)
       ELSE UNCHANGED <<free_lots, evidence, sell_orders>>
    /\ UNCHANGED <<position, purchases, entry_sizes>>

\* A position of a token no strategy names is one row, which all orders cover.
UnmappedRow ==
    LET low == \E i \in DOMAIN sell_orders : sell_orders[i].size > 0 /\ sell_orders[i].low
    IN [allocated |-> position, coverage |-> Listed, status |-> Status(position, Listed, low)]

DealUnmapped ==
    /\ entry_sizes = <<>> /\ ~dealt
    /\ dealt' = TRUE
    /\ IF position > 0
       THEN /\ evidence' = <<UnmappedRow>>
            /\ free_lots' = 0
            /\ sell_orders' = [i \in DOMAIN sell_orders |-> [sell_orders[i] EXCEPT !.size = 0]]
       ELSE UNCHANGED <<free_lots, evidence, sell_orders>>
    /\ UNCHANGED <<position, purchases, entry_sizes>>

TargetNext == DealToSleeve \/ DealExcess \/ DealUnmapped

TargetSpec == TargetInit /\ [][TargetNext]_tgt_vars

-----------------------------------------------------------------------------
(* Properties *)

Allocated == SumTo([i \in DOMAIN evidence |-> evidence[i].allocated], Len(evidence))
Covered == SumTo([i \in DOMAIN evidence |-> evidence[i].coverage], Len(evidence))

TgtTypeOK ==
    /\ {position, purchases, free_lots} \subseteq Nat
    /\ \A i \in DOMAIN sell_orders : sell_orders[i] \in [size : Nat, sold : Nat, low : BOOLEAN]
    /\ \A i \in DOMAIN evidence :
        /\ evidence[i].allocated \in Nat /\ evidence[i].coverage \in Nat
        /\ entry_sizes # <<>> => evidence[i].coverage <= evidence[i].allocated
        /\ evidence[i].status \in {"no_position", "target_missing", "target_stale",
                                   "target_covered"}
    /\ dealt \in BOOLEAN

\* When the account holds the token, its sleeves share exactly what it holds.  A token
\* whose position is closed keeps the lots of its purchases if the plan names it.
AllocationMatches ==
    dealt => Allocated = IF position > 0 THEN position
                         ELSE IF entry_sizes = <<>> THEN 0 ELSE purchases

\* Of the shares an order is listed with, those that are sold and were credited to a row
\* although the exchange no longer has them: what rests is taken first.
Credited(order) == IF order.sold > order.size THEN order.sold - order.size ELSE 0
Overcredited ==
    SumTo([i \in DOMAIN sell_orders |-> Credited(sell_orders[i])], Len(sell_orders))

\* If every row says that its target is covered, then what the exchange still holds of the
\* orders leaves less uncovered than one order and what partial fills have sold of the
\* listed orders: the orders are dealt in turn, so only the last row they reach is covered
\* in part.
CoveredTokenIsCovered ==
    /\ dealt
    /\ \A i \in DOMAIN evidence : evidence[i].status \in {"target_covered", "no_position"}
    => Allocated - (Covered - Overcredited) < MinSize + Sold

\* No share of a listed order covers two rows.
CoveredOnce == [][Covered' - Covered = Listed - Listed']_tgt_vars
=============================================================================
