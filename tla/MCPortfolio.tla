----------------------------- MODULE MCPortfolio -----------------------------
(***************************************************************************)
(* The portfolio API's modules side by side: the writers of the order and  *)
(* trade rows, the orders of the portfolio manager, the rate limit.  One   *)
(* of them takes its steps, the others keep their initial state.           *)
(***************************************************************************)
EXTENDS PortfolioTables, ManagerOrders, OrderRateLimiter, TLC

CONSTANTS h1, h2, p1, p2, p3, k1, k2, l1, l2

VARIABLE active

\* Two calls in flight; two plans share a key, a third has its own; the entry of the
\* third is that of one of the others.
MCHandlers == {h1, h2}
MCPlans == {p1, p2, p3}
MCKeys == {k1, k2}
MCKeyOf == (p1 :> k1) @@ (p2 :> k1) @@ (p3 :> k2)
MCLedgerIds == {l1, l2}
MCLedgerOf == (p1 :> l1) @@ (p2 :> l2) @@ (p3 :> l1)

Symmetry == Permutations(Writers)

PortfolioInit ==
    /\ active \in {"tables", "manager", "limiter"}
    /\ Init /\ ManagerInit /\ LimiterInit

PortfolioNext ==
    /\ UNCHANGED active
    /\ \/ /\ active = "tables" /\ Next
          /\ UNCHANGED <<mgr_vars, lim_vars>>
       \/ /\ active = "manager" /\ ManagerNext
          /\ UNCHANGED <<vars, lim_vars>>
       \/ /\ active = "limiter" /\ LimiterNext
          /\ UNCHANGED <<vars, mgr_vars>>

PortfolioSpec == PortfolioInit /\ [][PortfolioNext]_<<active, vars, mgr_vars, lim_vars>>

\* Every variable of the tables, of the manager and of the limiter stays in its type.
PortfolioTypeOK == TypeOK /\ ManagerTypeOK /\ LimTypeOK
=============================================================================
