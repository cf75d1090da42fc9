-------------------------- MODULE SignalAggregation --------------------------
(***************************************************************************)
(* The aggregation of the live signals of one event                        *)
(* (app/modules/agentic/signal_aggregation.py, aggregate_live_signals):    *)
(* each signal is screened in the order of the list, then the candidate    *)
(* order is chosen and the blockers decide whether it is proposed.         *)
(*                                                                         *)
(* The types rebuy and reduce, which group on their own beside buy and     *)
(* sell, are left out.  Source, price band and outcome are those of the    *)
(* token.  The confidence only breaks ties: any of the groups and any of   *)
(* the signals it may favour is chosen.                                    *)
(***************************************************************************)
EXTENDS Integers, Sequences, FiniteSets, Functions

CONSTANTS
    Tokens, SleeveIds,
    Times,          \* bound: when signals are emitted
    Cooldown,       \* cooldown_seconds
    SignalCount,    \* bound: signals of one call
    NoSignal, NoToken

ASSUME AggregationAssumption ==
    /\ Times \subseteq Nat /\ Cooldown \in Nat /\ SignalCount \in Nat
    /\ IsFiniteSet(SleeveIds)

\* exit: a reason code or the trigger source says that it is an exit, which a buy may say
\* too.  adds: the sleeve opted in to adding to a position.  scope is of a block, "none"
\* of an order signal.
LiveSignals ==
    [type : {"buy"}, token : Tokens, sleeve : SleeveIds, at : Times, exit : BOOLEAN,
     adds : BOOLEAN, scope : {"none"}]
    \cup [type : {"sell"}, token : Tokens, sleeve : SleeveIds, at : Times, exit : BOOLEAN,
          adds : {FALSE}, scope : {"none"}]
    \cup [type : {"block"}, token : {NoToken}, sleeve : SleeveIds, at : {0}, exit : {FALSE},
          adds : {FALSE}, scope : {"global", "local"}]

ASSUME NoSignalAssumption == NoSignal \notin LiveSignals

VARIABLES
    exposure,       \* of the decision: a position, an order or an intent blocks buys
    full,            \* the exposure and the candidate exceed event_cap_usd
    may_add,         \* control.allow_inventory_adding
    selected,       \* the signals kept, in order
    dropped,        \* the number of signals suppressed, of each sleeve
    candidate,      \* the signal the candidate order is built from
    proposed,       \* the group of signals of a proposed order, or the empty set
    blockers,       \* what keeps the candidate from being proposed
    decided

agg_vars == <<exposure, full, may_add, selected, dropped, candidate, proposed, blockers, decided>>

Elements(s) == {s[i] : i \in DOMAIN s}
Screened == Len(selected) + FoldFunction(+, 0, dropped)

AggTypeOK ==
    /\ exposure \in BOOLEAN /\ full \in BOOLEAN /\ may_add \in BOOLEAN /\ decided \in BOOLEAN
    /\ selected \in Seq(LiveSignals)
    /\ dropped \in [SleeveIds -> 0..SignalCount]
    /\ candidate \in LiveSignals \cup {NoSignal}
    /\ proposed \subseteq DOMAIN selected
    /\ candidate = NoSignal => proposed = {}
    /\ blockers \subseteq {"suppressed", "block", "conflict", "exposure", "budget"}

AggInit ==
    /\ exposure = FALSE /\ full = FALSE /\ may_add = FALSE
    /\ selected = <<>> /\ dropped = [s \in SleeveIds |-> 0]
    /\ candidate = NoSignal /\ proposed = {} /\ blockers = {}
    /\ decided = FALSE

-----------------------------------------------------------------------------
(* Screening *)

DedupeKey(s) == <<s.type, s.token, s.sleeve>>
Apart(s, t) == IF s.at > t.at THEN s.at - t.at ELSE t.at - s.at

\* Bug variant: only a later signal can be a duplicate (CooldownKept).
DuplicateWhenLater(s) ==
    \E i \in DOMAIN selected :
        /\ DedupeKey(selected[i]) = DedupeKey(s)
        /\ \A j \in DOMAIN selected : DedupeKey(selected[j]) = DedupeKey(s) => j <= i
        /\ s.at > selected[i].at /\ s.at - selected[i].at < Cooldown

\* The last signal kept with the key of s is within the cooldown.
Duplicate(s) ==
    \E i \in DOMAIN selected :
        /\ DedupeKey(selected[i]) = DedupeKey(s)
        /\ \A j \in DOMAIN selected : DedupeKey(selected[j]) = DedupeKey(s) => j <= i
        /\ Apart(s, selected[i]) <= Cooldown

Suppress(sleeve) ==
    /\ dropped' = [dropped EXCEPT ![sleeve] = @ + 1]
    /\ UNCHANGED selected

\* A signal of a disabled source, a stale one, or one of too little confidence.
DropUnusable(sleeve) ==
    /\ ~decided /\ Screened < SignalCount
    /\ Suppress(sleeve)
    /\ UNCHANGED <<exposure, full, may_add, candidate, proposed, blockers, decided>>

Screen(s) ==
    /\ ~decided /\ Screened < SignalCount
    /\ IF Duplicate(s)
       THEN Suppress(s.sleeve)
       ELSE selected' = Append(selected, s) /\ UNCHANGED dropped
    /\ UNCHANGED <<exposure, full, may_add, candidate, proposed, blockers, decided>>

-----------------------------------------------------------------------------
(* The decision *)

Actionable == {i \in DOMAIN selected : selected[i].type # "block"}
GroupOf(i) == {j \in Actionable : /\ selected[j].type = selected[i].type
                                  /\ selected[j].token = selected[i].token}
Groups == {GroupOf(i) : i \in Actionable}

\* _signal_group_exit_priority
ExitPriority(g) ==
    /\ \E i \in g : selected[i].type = "sell"
    /\ \E i \in g : selected[i].exit

\* Bug variant: the larger group comes first, an exit only among equals (ExitPrevails).
FirstBySize(g, h) ==
    \/ Cardinality(g) > Cardinality(h)
    \/ Cardinality(g) = Cardinality(h) /\ (ExitPriority(h) => ExitPriority(g))

\* The sort key of _candidate_group: g is not behind h.
First(g, h) ==
    \/ ExitPriority(g) /\ ~ExitPriority(h)
    \/ ExitPriority(g) = ExitPriority(h) /\ Cardinality(g) >= Cardinality(h)

CandidateGroups == {g \in Groups : \A h \in Groups : First(g, h)}

\* _conflict_groups, without those where _conflict_group_has_exit_priority: any of their
\* signals may say so.
ConflictScope(i) == {j \in Actionable : /\ selected[j].token = selected[i].token
                                        /\ selected[j].sleeve = selected[i].sleeve}
Conflict ==
    \E i, j \in Actionable :
        /\ j \in ConflictScope(i)
        /\ selected[i].type = "buy" /\ selected[j].type = "sell"
        /\ \A k \in ConflictScope(i) : ~selected[k].exit

\* _block_signal_scope
Blocks(s, g) ==
    /\ s.type = "block"
    /\ s.scope = "global" \/ \E i \in g : selected[i].sleeve = s.sleeve

\* _candidate_group_allows_inventory_adding: one signal of the group is enough.
MayAdd(g, allowed) == allowed \/ \E i \in g : selected[i].adds

\* Bug variant: a conflict is reported and the candidate proposed (ProposalSound).
BlockersUnconflicted(g, exposed, over, allowed) ==
    {b \in {"suppressed", "block", "exposure", "budget"} :
        \/ b = "suppressed" /\ \E s \in SleeveIds : dropped[s] > 0
        \/ b = "block" /\ \E s \in Elements(selected) : Blocks(s, g)
        \/ b = "exposure" /\ exposed /\ ~MayAdd(g, allowed) /\ \E i \in g : selected[i].type = "buy"
        \/ b = "budget" /\ over /\ g # {}}

\* The blockers whose detail does not say candidate_blocking = False.
Blockers(g, exposed, over, allowed) ==
    {b \in {"suppressed", "block", "conflict", "exposure", "budget"} :
        \/ b = "suppressed" /\ \E s \in SleeveIds : dropped[s] > 0
        \/ b = "block" /\ \E s \in Elements(selected) : Blocks(s, g)
        \/ b = "conflict" /\ Conflict
        \/ b = "exposure" /\ exposed /\ ~MayAdd(g, allowed) /\ \E i \in g : selected[i].type = "buy"
        \/ b = "budget" /\ over /\ g # {}}

Strongest(g) == {selected[i] : i \in g}

DecideFor(g) ==
    /\ blockers' = Blockers(g, exposure', full', may_add')
    /\ candidate' \in Strongest(g)
    /\ proposed' = IF blockers' = {} THEN g ELSE {}

Decide ==
    /\ ~decided
    /\ decided' = TRUE
    /\ exposure' \in BOOLEAN /\ full' \in BOOLEAN /\ may_add' \in BOOLEAN
    /\ \/ \E g \in CandidateGroups : DecideFor(g)
       \/ /\ Actionable = {}
          /\ blockers' = Blockers({}, exposure', full', may_add')
          /\ UNCHANGED <<candidate, proposed>>
    /\ UNCHANGED <<selected, dropped>>

AggNext ==
    \/ Decide
    \/ \E s \in LiveSignals : Screen(s)
    \/ \E sleeve \in SleeveIds : DropUnusable(sleeve)

AggSpec == AggInit /\ [][AggNext]_agg_vars

-----------------------------------------------------------------------------
(* Properties *)

\* Signals that are listed in the order of their times are proposed at most once per
\* cooldown and key.  A list in another order is not: a signal is compared only with
\* the last one kept.
CooldownKept ==
    (\A i, j \in DOMAIN selected : i < j => selected[i].at <= selected[j].at) =>
        \A i, j \in DOMAIN selected :
            i < j /\ DedupeKey(selected[i]) = DedupeKey(selected[j]) =>
                selected[j].at - selected[i].at > Cooldown

\* While a selected sell has exit priority, no buy is the candidate, however many
\* signals confirm it, on whatever token.
ExitPrevails ==
    decided /\ (\E i \in DOMAIN selected : selected[i].type = "sell" /\ selected[i].exit) =>
        candidate # NoSignal /\ candidate.type = "sell"

\* A proposed order is not one its own signals contradict: no block of the event or of a
\* sleeve that supports it, no order of its sleeve the other way on its token unless one of
\* that sleeve's signals on the token says exit (the buy's own, too), and no buy on top of a
\* position unless the control or a supporting sleeve allows it.
ProposalSound ==
    proposed # {} =>
        /\ \A s \in Elements(selected) : s.type = "block" =>
            s.scope = "local" /\ \A i \in proposed : selected[i].sleeve # s.sleeve
        /\ \A j \in Actionable :
            selected[j].token = candidate.token /\ selected[j].sleeve = candidate.sleeve
            /\ selected[j].type # candidate.type
            => \E k \in ConflictScope(j) : selected[k].exit
        /\ exposure /\ candidate.type = "buy" => may_add \/ \E i \in proposed : selected[i].adds

=============================================================================
