----------------------------- MODULE EventBudget -----------------------------
(***************************************************************************)
(* The risk budget of one event and the sleeves that draw on it            *)
(* (app/modules/agentic/event_budget.py): derive_event_risk_budget, then   *)
(* the loop of evaluate_event_sleeve_transitions, one request a step.      *)
(*                                                                         *)
(* Money is in units of 1 / Whole^2 dollar, so that a share of a share of  *)
(* an amount is an integer; the rounding to six digits is left out.  The   *)
(* phases of a game are budgeted like the sides of its market, by the same *)
(* functions, and are not repeated.                                        *)
(***************************************************************************)
EXTENDS Integers, Sequences

CONSTANTS
    Whole,          \* 100 %
    Dollars,        \* bound: amounts of the account, of the policy and of profit
    Sleeves, Sides,
    Requests,       \* bound: SleeveTransitionRequests
    RequestCount,   \* bound: requests of one evaluation
    SideCaps, SleeveCaps,   \* what _cap_for_side and _cap_for_sleeve may answer
    Accounts,       \* bound: the arguments of derive_event_risk_budget
    NoAccount, NoCap

Percentages == 0..Whole

\* The policy, the account and the profit and loss of the event and the day.
AccountFields ==
    [value : Dollars, cash : Dollars, used : Dollars, absolute : Dollars,
     cap_pct : Percentages, cash_pct : Percentages, loss_pct : Percentages,
     addon_pct : Percentages, addon_max : Dollars,
     event_pnl : Dollars \cup {-d : d \in Dollars}, day_pnl : Dollars, unresolved : Dollars]

\* SleeveTransitionRequest.  candidate: it is an enabled buy or rebuy, with shares and a
\* price, that nothing pending, no open position and no cycle limit blocks.
RequestFields ==
    [sleeve : Sleeves, side : Sides, candidate : BOOLEAN, notional : Nat \ {0},
     side_used : Nat, sleeve_used : Nat]

ASSUME BudgetAssumption ==
    /\ Whole \in Nat \ {0} /\ RequestCount \in Nat
    /\ Dollars \subseteq Nat
    /\ Requests \subseteq RequestFields
    /\ \A a \in Accounts : a \in AccountFields
    /\ NoAccount \notin Accounts /\ NoCap \notin Nat
    /\ \A caps \in SideCaps : caps \in [Sides -> Nat \cup {NoCap}]
    /\ \A caps \in SleeveCaps : caps \in [Sleeves -> Nat \cup {NoCap}]

Money == Whole * Whole

VARIABLES
    account,        \* until the sleeves are looked at, what the budget is derived from
    event_cap,
    granted,        \* remaining_notional_usd of the snapshot
    remaining,      \* of it, while the requests are evaluated
    requests, next, \* the sleeves and the one to evaluate
    side_cap, sleeve_cap,
    side_usage, sleeve_usage,
    bought          \* history: the notional approved, in all, by side and by sleeve

budget_vars == <<account, event_cap, granted, remaining, requests, next, side_cap, sleeve_cap,
                 side_usage, sleeve_usage, bought>>

Smaller(x, y) == IF x <= y THEN x ELSE y
Larger(x, y) == IF x >= y THEN x ELSE y

-----------------------------------------------------------------------------
(* derive_event_risk_budget *)

BaseCap(a) == Whole * Smaller(Smaller(a.value * a.cap_pct, a.cash * a.cash_pct), a.absolute * Whole)

\* _apply_loss_cut
LossAdjusted(a) ==
    IF a.event_pnl >= a.unresolved THEN BaseCap(a) ELSE (BaseCap(a) \div Whole) * a.loss_pct

Profit(a) == Larger(a.event_pnl, 0) + a.day_pnl

\* Bug variant: what the event may still lose is not set against the profit
\* (CapLawful).
AddonGross(a) == Smaller(Profit(a) * a.addon_pct * Whole, a.addon_max * Money)

\* _profit_ratcheted_addon
Addon(a) ==
    IF a.unresolved >= Profit(a) THEN 0
    ELSE Smaller((Profit(a) - a.unresolved) * a.addon_pct * Whole, a.addon_max * Money)

EventCap(a) == Smaller(LossAdjusted(a) + Addon(a), a.cash * Money)

Free(a) == Larger(EventCap(a) - a.used * Money, 0)

-----------------------------------------------------------------------------
(* evaluate_event_sleeve_transitions *)

\* _initial_usage_by_key: the largest use its requests report.
ReportedOfSide(side) ==
    LET uses == {requests[i].side_used : i \in {j \in DOMAIN requests : requests[j].side = side}} IN
    IF uses = {} THEN 0 ELSE CHOOSE u \in uses : \A v \in uses : v <= u

\* The dictionary over the sleeve ids keeps the last report.
ReportedOfSleeve(sleeve) ==
    LET of == {i \in DOMAIN requests : requests[i].sleeve = sleeve} IN
    IF of = {} THEN 0 ELSE requests[CHOOSE i \in of : \A j \in of : j <= i].sleeve_used

Exceeds(notional, cap, used) == cap # NoCap /\ notional > Larger(cap - used, 0)

\* Bug variant: the caps of the sleeves are not looked at (BuysWithinCaps).
ApprovableBySide(r) ==
    /\ r.candidate /\ r.notional <= remaining
    /\ ~Exceeds(r.notional, side_cap[r.side], side_usage[r.side])

\* _buy_blockers; an exhausted budget leaves nothing.  No budget limits a reduction.
Approvable(r) ==
    /\ r.candidate /\ r.notional <= remaining
    /\ ~Exceeds(r.notional, side_cap[r.side], side_usage[r.side])
    /\ ~Exceeds(r.notional, sleeve_cap[r.sleeve], sleeve_usage[r.sleeve])

BudgetInit ==
    /\ account \in Accounts
    /\ event_cap = EventCap(account)
    /\ granted = Free(account) /\ remaining = granted
    /\ requests = <<>> /\ next = 0
    /\ side_cap \in SideCaps /\ sleeve_cap \in SleeveCaps
    /\ side_usage = [s \in Sides |-> 0] /\ sleeve_usage = [s \in Sleeves |-> 0]
    /\ bought = [all |-> 0, side |-> [s \in Sides |-> 0], sleeve |-> [s \in Sleeves |-> 0]]

\* The requests of the plan's sleeves are collected.
Collect(r) ==
    /\ next = 0 /\ Len(requests) < RequestCount
    /\ requests' = Append(requests, r)
    /\ account' = NoAccount
    /\ UNCHANGED <<event_cap, granted, remaining, next, side_cap, sleeve_cap, side_usage,
                   sleeve_usage, bought>>

BeginEvaluation ==
    /\ next = 0 /\ requests # <<>>
    /\ next' = 1
    /\ side_usage' = [s \in Sides |-> ReportedOfSide(s)]
    /\ sleeve_usage' = [s \in Sleeves |-> ReportedOfSleeve(s)]
    /\ UNCHANGED <<account, event_cap, granted, remaining, requests, side_cap, sleeve_cap, bought>>

Approve(r) ==
    /\ Approvable(r)
    /\ remaining' = remaining - r.notional
    /\ side_usage' = [side_usage EXCEPT ![r.side] = @ + r.notional]
    /\ sleeve_usage' = [sleeve_usage EXCEPT ![r.sleeve] = @ + r.notional]
    /\ bought' = [all |-> bought.all + r.notional,
                  side |-> [bought.side EXCEPT ![r.side] = @ + r.notional],
                  sleeve |-> [bought.sleeve EXCEPT ![r.sleeve] = @ + r.notional]]

\* Blocked, monitor only, or a reduction.
PassOver(r) ==
    /\ ~Approvable(r)
    /\ UNCHANGED <<remaining, side_usage, sleeve_usage, bought>>

Evaluate ==
    /\ next \in DOMAIN requests
    /\ next' = next + 1
    /\ Approve(requests[next]) \/ PassOver(requests[next])
    /\ UNCHANGED <<account, event_cap, granted, requests, side_cap, sleeve_cap>>

BudgetNext == BeginEvaluation \/ Evaluate \/ \E r \in Requests : Collect(r)

BudgetSpec == BudgetInit /\ [][BudgetNext]_budget_vars

-----------------------------------------------------------------------------
(* Properties *)

BudgetTypeOK ==
    /\ account \in Accounts \cup {NoAccount}
    /\ event_cap \in Nat /\ granted \in Nat /\ remaining \in Nat
    /\ requests \in Seq(Requests) /\ Len(requests) <= RequestCount
    /\ next \in 0..(Len(requests) + 1)
    /\ side_cap \in SideCaps /\ sleeve_cap \in SleeveCaps
    /\ side_usage \in [Sides -> Nat] /\ sleeve_usage \in [Sleeves -> Nat]
    /\ bought \in [all : Nat, side : [Sides -> Nat], sleeve : [Sleeves -> Nat]]

\* The event's cap stays within its cash; it exceeds the absolute cap only by realized
\* profit that is not needed for unresolved losses; and it is cut while the event has
\* lost and nothing was gained elsewhere.
CapLawful ==
    account # NoAccount =>
        /\ event_cap <= account.cash * Money
        /\ event_cap > account.absolute * Money => Profit(account) > account.unresolved
        /\ Profit(account) = 0 /\ account.event_pnl < 0 =>
            event_cap <= account.absolute * account.loss_pct * Whole

\* Together the approved buys stay within what the event had left.
ApprovedWithinBudget == bought.all <= granted

\* The approved buys of a side and what any request says was used before stay within
\* the side's cap; where that is over the cap already, nothing is approved.
SideWithinCap ==
    \A s \in Sides : side_cap[s] # NoCap /\ bought.side[s] > 0 =>
        \A i \in DOMAIN requests :
            requests[i].side = s => bought.side[s] + requests[i].side_used <= side_cap[s]

\* The same of a sleeve, as long as the requests that share its id agree on what it
\* has used before: the last report replaces the others.
SleeveWithinCap ==
    \A s \in Sleeves :
        LET of == {i \in DOMAIN requests : requests[i].sleeve = s} IN
        /\ sleeve_cap[s] # NoCap /\ bought.sleeve[s] > 0
        /\ \A i, j \in of : requests[i].sleeve_used = requests[j].sleeve_used
        => \A i \in of : bought.sleeve[s] + requests[i].sleeve_used <= sleeve_cap[s]

\* The approved buys stay within each of the three bounds.
BuysWithinCaps == ApprovedWithinBudget /\ SideWithinCap /\ SleeveWithinCap
=============================================================================
