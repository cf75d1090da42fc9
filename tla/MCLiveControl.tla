---------------------------- MODULE MCLiveControl ----------------------------
(***************************************************************************)
(* What steers live trading, side by side: the threads of a run and its    *)
(* snapshot, the runtime control, and the decisions of the strategy tick   *)
(* on budgets, signals and targets.  One of them takes its steps, the      *)
(* others keep their initial state.                                        *)
(***************************************************************************)
EXTENDS LiveRunControl, RuntimeControl, EventBudget, SignalAggregation, TargetManagement, TLC

CONSTANTS on, off, w1, w2, yes, no

VARIABLE active

\* Budget: one side and one sleeve have a cap of a dollar and a half.
MCSideCaps == {[s \in Sides |-> IF s = yes THEN 6 ELSE NoCap]}
MCSleeveCaps == {[s \in Sleeves |-> IF s = w1 THEN 6 ELSE NoCap]}
MCRequest(w, s, buys, n, u) ==
    [sleeve |-> w, side |-> s, candidate |-> buys, notional |-> n, side_used |-> u,
     sleeve_used |-> u]
MCRequests ==
    {MCRequest(w, s, TRUE, n, u) : w \in Sleeves, s \in Sides, n \in {2, 4}, u \in {0, 3}}
    \cup {MCRequest(w1, yes, FALSE, 2, u) : u \in {0, 3}}
MCAccounts ==
    [value : {2}, cash : {1, 2}, used : {0, 1}, absolute : {1}, cap_pct : {1, 2}, cash_pct : {2},
     loss_pct : {1}, addon_pct : {1, 2}, addon_max : {1}, event_pnl : {-1, 0, 2}, day_pnl : {0, 1},
     unresolved : {0, 2}]

\* Tokens and sleeves of the signals are alike.
Symmetry == Permutations(Tokens) \cup Permutations(SleeveIds)

OneBudget ==
    /\ account = CHOOSE a \in Accounts : TRUE
    /\ event_cap = EventCap(account)
    /\ granted = Free(account) /\ remaining = granted

NoTarget ==
    /\ position = 0 /\ purchases = 0
    /\ entry_sizes = <<>> /\ sell_orders = <<>>

LiveInit ==
    /\ active \in {"control", "runtime", "budget", "signals", "targets"}
    /\ active = "budget" \/ OneBudget
    /\ active = "targets" \/ NoTarget
    /\ ControlInit /\ RcInit /\ BudgetInit /\ AggInit /\ TargetInit

LiveNext ==
    /\ UNCHANGED active
    /\ \/ /\ active = "control" /\ ControlNext
          /\ UNCHANGED <<rc_vars, budget_vars, agg_vars, tgt_vars>>
       \/ /\ active = "runtime" /\ RcNext
          /\ UNCHANGED <<ctl_vars, budget_vars, agg_vars, tgt_vars>>
       \/ /\ active = "budget" /\ BudgetNext
          /\ UNCHANGED <<ctl_vars, rc_vars, agg_vars, tgt_vars>>
       \/ /\ active = "signals" /\ AggNext
          /\ UNCHANGED <<ctl_vars, rc_vars, budget_vars, tgt_vars>>
       \/ /\ active = "targets" /\ TargetNext
          /\ UNCHANGED <<ctl_vars, rc_vars, budget_vars, agg_vars>>

live_vars == <<active, ctl_vars, rc_vars, budget_vars, agg_vars, tgt_vars>>

LiveSpec == LiveInit /\ [][LiveNext]_live_vars

\* Every variable of the run's control, of the runtime control and of the decisions stays
\* in its type.
LiveTypeOK == ControlTypeOK /\ RcTypeOK /\ BudgetTypeOK /\ AggTypeOK /\ TgtTypeOK
=============================================================================
