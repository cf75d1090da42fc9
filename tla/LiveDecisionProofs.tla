-------------------------- MODULE LiveDecisionProofs --------------------------
(***************************************************************************)
(* Proofs about the modules that decide on a live order of an event:       *)
(* EventBudget, RuntimeControl, SignalAggregation and TargetManagement,    *)
(* for any account, policy, requests, callers, fields, signals, positions, *)
(* plans and orders.                                                       *)
(*                                                                         *)
(* EventBudget: what is left and what was bought make up what was granted, *)
(* and the usage of a side or of a sleeve is what was reported of it and   *)
(* what was bought for it.  RuntimeControl: an update that is under way    *)
(* alone holds its own field and the other fields as they are in force.    *)
(* SignalAggregation: until the decision nothing is proposed; each         *)
(* property then follows from how the candidate and its blockers are made. *)
(* TargetManagement: a row is covered in full until the orders are used    *)
(* up; the sums are unfolded by induction over a set of numbers.           *)
(***************************************************************************)
EXTENDS EventBudget, RuntimeControl, SignalAggregation, TargetManagement,
        FiniteSums

(* Largest numbers *)

\* A set of numbers with a bound has a largest member.
LEMMA LargestNumber ==
    ASSUME NEW S, S \subseteq Nat, S # {}, NEW b \in Nat, \A n \in S : n <= b
    PROVE  \E m \in S : \A n \in S : n <= m
<1> DEFINE Bounds == {c \in Nat : \A n \in S : n <= c}
<1>1. PICK m \in Bounds : \A c \in Bounds : m <= c
  <2>1. Bounds \subseteq Nat /\ b \in Bounds
    OBVIOUS
  <2> QED BY <2>1, LeastNumber
<1>2. CASE m \in S
  BY <1>1, <1>2
<1>3. CASE m \notin S
  <2>1. \A n \in S : n <= m - 1
    BY <1>1, <1>3
  <2>2. m - 1 \in Nat
    <3>1. PICK n \in S : TRUE
      OBVIOUS
    <3>2. m \in Nat /\ n \in Nat /\ n <= m - 1
      BY <1>1, <2>1
    <3> QED BY <3>2
  <2>3. m - 1 \in Bounds
    BY <2>1, <2>2
  <2>4. m <= m - 1
    BY <1>1, <2>3
  <2> QED BY <1>1, <2>4
<1> QED BY <1>2, <1>3

\* The numbers of a list have a bound: the shortest beginning without one could do
\* without its last number.
LEMMA ListBounded ==
    ASSUME NEW n \in Nat, NEW f, \A i \in 1..n : f[i] \in Nat
    PROVE  \E b \in Nat : \A i \in 1..n : f[i] <= b
<1> DEFINE Bounded(m) == \E b \in Nat : \A i \in 1..m : f[i] <= b
           Unbounded == {m \in 0..n : ~ Bounded(m)}
<1>1. Bounded(0) /\ (Bounded(n) => \E b \in Nat : \A i \in 1..n : f[i] <= b)
  <2>1. \A i \in 1..0 : f[i] <= 0
    OBVIOUS
  <2> QED BY <2>1
<1>2. ASSUME NEW m \in 1..n, Bounded(m - 1) PROVE Bounded(m)
  <2>1. PICK b \in Nat : \A i \in 1..(m - 1) : f[i] <= b
    BY <1>2
  <2>2. f[m] \in Nat
    BY <1>2
  <2>3. PICK c \in Nat : b <= c /\ f[m] <= c
    BY <2>2
  <2>4. ASSUME NEW i \in 1..m PROVE f[i] <= c
    <3>1. CASE i = m
      BY <2>3, <3>1
    <3>2. CASE i # m
      <4>1. i \in 1..(m - 1) /\ i \in 1..n
        BY <1>2, <3>2
      <4>2. f[i] \in Nat /\ f[i] <= b
        BY <2>1, <4>1
      <4> QED BY <2>1, <2>3, <4>2
    <3> QED BY <3>1, <3>2
  <2> QED BY <2>3, <2>4
<1>3. Unbounded \subseteq Nat /\ \A m \in 0..n : m \in Unbounded <=> ~ Bounded(m)
  OBVIOUS
<1> HIDE DEF Bounded, Unbounded
<1>4. CASE n \notin Unbounded
  BY <1>1, <1>3, <1>4
<1>5. CASE n \in Unbounded
  <2>1. PICK m \in Unbounded : \A k \in Unbounded : m <= k
    BY <1>3, <1>5, LeastNumber
  <2>2. m \in 0..n /\ m # 0
    BY <1>1, <1>3, <1>5, <2>1
  <2>3. m \in 1..n /\ m - 1 \in 0..n /\ m - 1 \notin Unbounded
    BY <2>1, <2>2
  <2> QED BY <1>2, <1>3, <2>1, <2>2, <2>3
<1> QED BY <1>4, <1>5

-----------------------------------------------------------------------------
(* The usage a side or a sleeve starts from *)

RequestsOK == requests \in Seq(Requests)

LEMMA RequestFacts ==
    ASSUME RequestsOK
    PROVE  /\ Len(requests) \in Nat /\ DOMAIN requests = 1..Len(requests)
           /\ \A i \in DOMAIN requests :
                /\ requests[i] \in RequestFields
                /\ requests[i].side \in Sides /\ requests[i].sleeve \in Sleeves
                /\ requests[i].side_used \in Nat /\ requests[i].sleeve_used \in Nat
                /\ requests[i].notional \in Nat /\ requests[i].notional > 0
BY BudgetAssumption DEF RequestsOK, RequestFields

\* A side starts with the largest use its requests report.
LEMMA SideReport ==
    ASSUME RequestsOK, NEW s \in Sides
    PROVE  /\ ReportedOfSide(s) \in Nat
           /\ \A i \in DOMAIN requests :
                requests[i].side = s => requests[i].side_used <= ReportedOfSide(s)
<1> DEFINE uses == {requests[i].side_used : i \in {j \in DOMAIN requests : requests[j].side = s}}
<1>1. uses \subseteq Nat
  BY RequestFacts
<1>2. CASE uses = {}
  BY <1>2 DEF ReportedOfSide
<1>3. CASE uses # {}
  <2> DEFINE used == [i \in DOMAIN requests |-> requests[i].side_used]
  <2>1. PICK b \in Nat : \A i \in 1..Len(requests) : used[i] <= b
    BY RequestFacts, ListBounded
  <2>2. \A u \in uses : u <= b
    BY <2>1, RequestFacts
  <2>3. \E u \in uses : \A v \in uses : v <= u
    BY <1>1, <1>3, <2>2, LargestNumber
  <2> QED BY <1>1, <1>3, <2>3 DEF ReportedOfSide
<1> QED BY <1>2, <1>3

\* A sleeve starts with what the last of its requests reports.
LEMMA SleeveReport ==
    ASSUME RequestsOK, NEW s \in Sleeves
    PROVE  /\ ReportedOfSleeve(s) \in Nat
           /\ \A i \in DOMAIN requests : requests[i].sleeve = s =>
                \E k \in DOMAIN requests :
                    requests[k].sleeve = s /\ ReportedOfSleeve(s) = requests[k].sleeve_used
<1> DEFINE of == {i \in DOMAIN requests : requests[i].sleeve = s}
           last == CHOOSE i \in of : \A j \in of : j <= i
<1>1. of \subseteq Nat /\ \A i \in of : i <= Len(requests)
  BY RequestFacts
<1>2. CASE of = {}
  BY <1>2 DEF ReportedOfSleeve
<1>3. CASE of # {}
  <2>1. \E i \in of : \A j \in of : j <= i
    BY <1>1, <1>3, RequestFacts, LargestNumber
  <2>2. last \in of
    BY <2>1
  <2>3. ReportedOfSleeve(s) = requests[last].sleeve_used
    BY <1>3 DEF ReportedOfSleeve
  <2> QED BY <2>2, <2>3, RequestFacts
<1> QED BY <1>2, <1>3

-----------------------------------------------------------------------------
(* derive_event_risk_budget *)

LEMMA ProductNat == \A x, y \in Nat : x * y \in Nat
OBVIOUS

LEMMA ProductMonotone == \A x, y, z \in Nat : x <= y => x * z <= y * z
OBVIOUS

\* A share of an amount that is a multiple of Whole.
LEMMA WholeShare ==
    ASSUME NEW x \in Nat
    PROVE  (Whole * x) \div Whole = x
BY BudgetAssumption

\* The amounts of an account, multiplied out.
LEMMA AccountAmounts ==
    ASSUME NEW a \in Accounts
    PROVE  /\ a.value \in Nat /\ a.cash \in Nat /\ a.used \in Nat /\ a.absolute \in Nat
           /\ a.cap_pct \in Nat /\ a.cash_pct \in Nat /\ a.addon_pct \in Nat
           /\ a.loss_pct \in Nat /\ a.loss_pct <= Whole
           /\ a.addon_max \in Nat /\ a.day_pnl \in Nat /\ a.unresolved \in Nat
           /\ a.event_pnl \in Int
           /\ Whole \in Nat /\ Money \in Nat
<1>1. a \in AccountFields
  BY BudgetAssumption
<1>2. Percentages \subseteq Nat /\ \A p \in Percentages : p <= Whole
  BY BudgetAssumption DEF Percentages
<1>3. a.event_pnl \in Int
  <2>1. a.event_pnl \in Dollars \cup {-d : d \in Dollars}
    BY <1>1 DEF AccountFields
  <2>2. \A d \in Dollars : d \in Int /\ -d \in Int
    BY BudgetAssumption
  <2> QED BY <2>1, <2>2
<1>4. Whole \in Nat /\ Money \in Nat
  BY BudgetAssumption, ProductNat DEF Money
<1> QED BY <1>1, <1>2, <1>3, <1>4, BudgetAssumption DEF AccountFields

\* The cap before the loss cut is Whole times an amount within the absolute cap.
LEMMA BaseCapFacts ==
    ASSUME NEW a \in Accounts
    PROVE  \E x \in Nat : BaseCap(a) = Whole * x /\ x <= a.absolute * Whole
<1> DEFINE v == a.value * a.cap_pct
           c == a.cash * a.cash_pct
           m == a.absolute * Whole
           x == Smaller(Smaller(v, c), m)
<1>1. v \in Nat /\ c \in Nat /\ m \in Nat
  BY AccountAmounts, ProductNat
<1>2. BaseCap(a) = Whole * x
  BY DEF BaseCap
<1> HIDE DEF v, c, m
<1>3. x \in Nat /\ x <= m
  BY <1>1 DEF Smaller
<1> QED BY <1>2, <1>3 DEF m

\* The cut leaves a number, within the absolute cap and, of an event that has lost,
\* within the policy's share of it.
LEMMA LossAdjustedFacts ==
    ASSUME NEW a \in Accounts
    PROVE  /\ LossAdjusted(a) \in Nat
           /\ LossAdjusted(a) <= a.absolute * Money
           /\ a.event_pnl < a.unresolved =>
                LossAdjusted(a) <= (a.absolute * a.loss_pct) * Whole
<1>1. PICK x \in Nat : BaseCap(a) = Whole * x /\ x <= a.absolute * Whole
  BY BaseCapFacts
<1>2. BaseCap(a) \div Whole = x
  BY <1>1, WholeShare
<1> DEFINE m == a.absolute * Whole
<1>3. m \in Nat /\ x <= m
  BY <1>1, AccountAmounts, ProductNat
<1>4. Whole * x \in Nat /\ x * a.loss_pct \in Nat
  BY <1>1, AccountAmounts, ProductNat
<1>5. Whole * x <= m * Whole
  BY <1>1, AccountAmounts, ProductMonotone
<1>6. m * Whole = a.absolute * Money
  BY AccountAmounts DEF Money
<1>7. x * a.loss_pct <= x * Whole
  BY AccountAmounts
<1>8. x * a.loss_pct <= m * a.loss_pct
  BY <1>1, AccountAmounts, ProductMonotone
<1>9. m * a.loss_pct = (a.absolute * a.loss_pct) * Whole
  BY AccountAmounts
<1>10. x * Whole = Whole * x
  BY AccountAmounts
<1>11. m * Whole \in Nat /\ m * a.loss_pct \in Nat /\ x * Whole \in Nat
  BY <1>3, AccountAmounts, ProductNat
<1>12. LossAdjusted(a) = IF a.event_pnl >= a.unresolved THEN Whole * x ELSE x * a.loss_pct
  BY <1>1, <1>2 DEF LossAdjusted
<1>13. x * a.loss_pct <= m * Whole
  BY <1>4, <1>5, <1>7, <1>10, <1>11
<1> HIDE DEF m
<1>14. CASE a.event_pnl >= a.unresolved
  BY <1>4, <1>5, <1>6, <1>12, <1>14, AccountAmounts
<1>15. CASE ~ (a.event_pnl >= a.unresolved)
  BY <1>4, <1>6, <1>8, <1>9, <1>12, <1>13, <1>15
<1> QED BY <1>14, <1>15

LEMMA AddonFacts ==
    ASSUME NEW a \in Accounts
    PROVE  /\ Profit(a) \in Nat
           /\ Addon(a) \in Nat
           /\ a.unresolved >= Profit(a) => Addon(a) = 0
<1>1. Profit(a) \in Nat
  BY AccountAmounts DEF Profit, Larger
<1>2. a.unresolved >= Profit(a) => Addon(a) = 0
  BY DEF Addon
<1>3. CASE a.unresolved >= Profit(a)
  BY <1>1, <1>2, <1>3
<1>4. CASE ~ (a.unresolved >= Profit(a))
  <2> DEFINE gain == Profit(a) - a.unresolved
             share == gain * a.addon_pct * Whole
             most == a.addon_max * Money
  <2>1. gain \in Nat
    BY <1>1, <1>4, AccountAmounts
  <2>2. gain * a.addon_pct \in Nat /\ most \in Nat
    BY <2>1, AccountAmounts, ProductNat
  <2>3. share \in Nat
    BY <2>2, AccountAmounts, ProductNat
  <2>4. Addon(a) = Smaller(share, most)
    BY <1>4 DEF Addon
  <2> HIDE DEF share, most
  <2>5. Addon(a) \in Nat
    BY <2>2, <2>3, <2>4 DEF Smaller
  <2> QED BY <1>1, <1>2, <2>5
<1> QED BY <1>3, <1>4

\* What CapLawful says, of any account.
LEMMA EventCapLawful ==
    ASSUME NEW a \in Accounts
    PROVE  /\ EventCap(a) \in Nat
           /\ EventCap(a) <= a.cash * Money
           /\ EventCap(a) > a.absolute * Money => Profit(a) > a.unresolved
           /\ Profit(a) = 0 /\ a.event_pnl < 0 =>
                EventCap(a) <= a.absolute * a.loss_pct * Whole
<1> DEFINE whole_cash == a.cash * Money
           limit == a.absolute * Money
           cut == a.absolute * a.loss_pct * Whole
<1>1. whole_cash \in Nat /\ limit \in Nat /\ cut \in Nat
  BY AccountAmounts, ProductNat
<1>2. EventCap(a) = Smaller(LossAdjusted(a) + Addon(a), whole_cash)
  BY DEF EventCap
<1>3. LossAdjusted(a) <= limit /\ (a.event_pnl < a.unresolved => LossAdjusted(a) <= cut)
  BY LossAdjustedFacts
<1> HIDE DEF whole_cash, limit, cut
<1>4. EventCap(a) \in Nat /\ EventCap(a) <= whole_cash
      /\ EventCap(a) <= LossAdjusted(a) + Addon(a)
  BY <1>1, <1>2, LossAdjustedFacts, AddonFacts DEF Smaller
<1>5. EventCap(a) > limit => Profit(a) > a.unresolved
  BY <1>1, <1>3, <1>4, LossAdjustedFacts, AddonFacts, AccountAmounts
<1>6. Profit(a) = 0 /\ a.event_pnl < 0 => EventCap(a) <= cut
  BY <1>1, <1>3, <1>4, LossAdjustedFacts, AddonFacts, AccountAmounts
<1> QED BY <1>4, <1>5, <1>6 DEF whole_cash, limit, cut

LEMMA FreeNat ==
    ASSUME NEW a \in Accounts
    PROVE  Free(a) \in Nat
<1>1. a.used * Money \in Nat
  BY AccountAmounts, ProductNat
<1> QED BY <1>1, EventCapLawful DEF Free, Larger

-----------------------------------------------------------------------------
(* The evaluation *)

\* While the account is known the cap is the one derived from it.
CapDerived == account # NoAccount => event_cap = EventCap(account)

\* What is left and what was bought make up what was granted.
Balanced == remaining + bought.all = granted

\* The usage of a side or a sleeve is what was reported of it and bought for it.
UsageBooked ==
    IF next = 0
    THEN (\A s \in Sides : bought.side[s] = 0) /\ (\A s \in Sleeves : bought.sleeve[s] = 0)
    ELSE /\ \A s \in Sides : side_usage[s] = ReportedOfSide(s) + bought.side[s]
         /\ \A s \in Sleeves : sleeve_usage[s] = ReportedOfSleeve(s) + bought.sleeve[s]

\* Whatever has bought is within its cap.
UsageWithinCaps ==
    next # 0 =>
        /\ \A s \in Sides :
            side_cap[s] # NoCap /\ bought.side[s] > 0 => side_usage[s] <= side_cap[s]
        /\ \A s \in Sleeves :
            sleeve_cap[s] # NoCap /\ bought.sleeve[s] > 0 => sleeve_usage[s] <= sleeve_cap[s]

BudgetInv == BudgetTypeOK /\ CapDerived /\ Balanced /\ UsageBooked /\ UsageWithinCaps

LEMMA BudgetInvInit == BudgetInit => BudgetInv
<1> SUFFICES ASSUME BudgetInit PROVE BudgetInv
  OBVIOUS
<1>1. account \in Accounts /\ EventCap(account) \in Nat /\ Free(account) \in Nat
  BY EventCapLawful, FreeNat DEF BudgetInit
<1>2. <<>> \in Seq(Requests) /\ Len(<<>>) = 0
  OBVIOUS
<1>3. BudgetTypeOK
  BY <1>1, <1>2, BudgetAssumption DEF BudgetInit, BudgetTypeOK
<1> QED BY <1>1, <1>3 DEF BudgetInit, BudgetInv, CapDerived, Balanced, UsageBooked,
           UsageWithinCaps

LEMMA CollectStep ==
    ASSUME BudgetInv, NEW r \in Requests, Collect(r)
    PROVE  BudgetInv'
<1>1. requests' \in Seq(Requests) /\ Len(requests') = Len(requests) + 1 /\ Len(requests) \in Nat
  BY DEF BudgetInv, BudgetTypeOK, Collect
<1>2. BudgetTypeOK'
  BY <1>1, BudgetAssumption DEF BudgetInv, BudgetTypeOK, Collect
<1>3. CapDerived'
  BY DEF CapDerived, Collect
<1>4. Balanced' /\ UsageBooked' /\ UsageWithinCaps'
  BY DEF BudgetInv, Balanced, UsageBooked, UsageWithinCaps, Collect
<1> QED BY <1>2, <1>3, <1>4 DEF BudgetInv

LEMMA ReportsKept ==
    ASSUME UNCHANGED requests
    PROVE  /\ \A s \in Sides : ReportedOfSide(s)' = ReportedOfSide(s)
           /\ \A s \in Sleeves : ReportedOfSleeve(s)' = ReportedOfSleeve(s)
BY DEF ReportedOfSide, ReportedOfSleeve

LEMMA BeginStep ==
    ASSUME BudgetInv, BeginEvaluation
    PROVE  BudgetInv'
<1>1. RequestsOK /\ Len(requests) \in Nat
  BY DEF BudgetInv, BudgetTypeOK, RequestsOK
<1>2. side_usage' \in [Sides -> Nat] /\ sleeve_usage' \in [Sleeves -> Nat]
  BY <1>1, SideReport, SleeveReport DEF BeginEvaluation
<1>3. BudgetTypeOK'
  BY <1>1, <1>2, BudgetAssumption DEF BudgetInv, BudgetTypeOK, BeginEvaluation
<1>4. CapDerived' /\ Balanced'
  BY DEF BudgetInv, CapDerived, Balanced, BeginEvaluation, EventCap
<1>5. UsageBooked'
  <2>1. /\ \A s \in Sides : side_usage'[s] = ReportedOfSide(s) /\ ReportedOfSide(s) \in Nat
        /\ \A s \in Sleeves :
            sleeve_usage'[s] = ReportedOfSleeve(s) /\ ReportedOfSleeve(s) \in Nat
    BY <1>1, SideReport, SleeveReport DEF BeginEvaluation
  <2>2. /\ \A s \in Sides : bought'.side[s] = 0
        /\ \A s \in Sleeves : bought'.sleeve[s] = 0
        /\ next' = 1 /\ UNCHANGED requests
    BY DEF BudgetInv, UsageBooked, BeginEvaluation
  <2> QED BY <2>1, <2>2, ReportsKept DEF UsageBooked
<1>6. UsageWithinCaps'
  BY DEF BudgetInv, UsageBooked, UsageWithinCaps, BeginEvaluation
<1> QED BY <1>3, <1>4, <1>5, <1>6 DEF BudgetInv

\* A request that is approved fits into what is left and into its caps.
LEMMA ApprovedFits ==
    ASSUME BudgetInv, NEW r \in Requests, Approvable(r)
    PROVE  /\ r.side \in Sides /\ r.sleeve \in Sleeves /\ r.notional \in Nat /\ r.notional > 0
           /\ r.notional <= remaining
           /\ side_cap[r.side] # NoCap => side_usage[r.side] + r.notional <= side_cap[r.side]
           /\ sleeve_cap[r.sleeve] # NoCap =>
                sleeve_usage[r.sleeve] + r.notional <= sleeve_cap[r.sleeve]
<1>1. r \in RequestFields
  BY BudgetAssumption
<1>2. r.side \in Sides /\ r.sleeve \in Sleeves /\ r.notional \in Nat /\ r.notional > 0
  BY <1>1 DEF RequestFields
<1>3. /\ side_cap \in [Sides -> Nat \cup {NoCap}] /\ sleeve_cap \in [Sleeves -> Nat \cup {NoCap}]
      /\ side_usage[r.side] \in Nat /\ sleeve_usage[r.sleeve] \in Nat
  BY <1>2, BudgetAssumption DEF BudgetInv, BudgetTypeOK
<1>4. r.notional <= remaining
  BY DEF Approvable
<1>5. ASSUME side_cap[r.side] # NoCap
      PROVE side_usage[r.side] + r.notional <= side_cap[r.side]
  <2>1. side_cap[r.side] \in Nat
    BY <1>2, <1>3, <1>5
  <2> QED BY <1>2, <1>3, <1>5, <2>1 DEF Approvable, Exceeds, Larger
<1>6. ASSUME sleeve_cap[r.sleeve] # NoCap
      PROVE sleeve_usage[r.sleeve] + r.notional <= sleeve_cap[r.sleeve]
  <2>1. sleeve_cap[r.sleeve] \in Nat
    BY <1>2, <1>3, <1>6
  <2> QED BY <1>2, <1>3, <1>6, <2>1 DEF Approvable, Exceeds, Larger
<1> QED BY <1>2, <1>4, <1>5, <1>6

LEMMA ApproveStep ==
    ASSUME BudgetInv, NEW r \in Requests, Approve(r), next \in Nat \ {0}, next' = next + 1,
           UNCHANGED <<account, event_cap, granted, requests, side_cap, sleeve_cap>>
    PROVE  /\ remaining' \in Nat /\ side_usage' \in [Sides -> Nat]
           /\ sleeve_usage' \in [Sleeves -> Nat]
           /\ bought' \in [all : Nat, side : [Sides -> Nat], sleeve : [Sleeves -> Nat]]
           /\ Balanced' /\ UsageBooked' /\ UsageWithinCaps'
<1> DEFINE n == r.notional
<1>1. /\ r.side \in Sides /\ r.sleeve \in Sleeves /\ n \in Nat /\ n > 0 /\ n <= remaining
      /\ side_cap[r.side] # NoCap => side_usage[r.side] + n <= side_cap[r.side]
      /\ sleeve_cap[r.sleeve] # NoCap => sleeve_usage[r.sleeve] + n <= sleeve_cap[r.sleeve]
  BY ApprovedFits DEF Approve
<1>2. /\ remaining \in Nat /\ granted \in Nat /\ RequestsOK
      /\ side_usage \in [Sides -> Nat] /\ sleeve_usage \in [Sleeves -> Nat]
      /\ bought \in [all : Nat, side : [Sides -> Nat], sleeve : [Sleeves -> Nat]]
  BY DEF BudgetInv, BudgetTypeOK, RequestsOK
<1>3. /\ bought.all \in Nat /\ bought.side \in [Sides -> Nat]
      /\ bought.sleeve \in [Sleeves -> Nat]
  BY <1>2
<1>4. /\ remaining' = remaining - n
      /\ side_usage' = [side_usage EXCEPT ![r.side] = @ + n]
      /\ sleeve_usage' = [sleeve_usage EXCEPT ![r.sleeve] = @ + n]
      /\ bought' = [all |-> bought.all + n,
                    side |-> [bought.side EXCEPT ![r.side] = @ + n],
                    sleeve |-> [bought.sleeve EXCEPT ![r.sleeve] = @ + n]]
  BY DEF Approve
<1> HIDE DEF n
<1>5. remaining' \in Nat /\ side_usage' \in [Sides -> Nat] /\ sleeve_usage' \in [Sleeves -> Nat]
  BY <1>1, <1>2, <1>4
<1>6. /\ bought'.all = bought.all + n
      /\ bought'.side = [bought.side EXCEPT ![r.side] = @ + n]
      /\ bought'.sleeve = [bought.sleeve EXCEPT ![r.sleeve] = @ + n]
  BY <1>4
<1>7. bought' \in [all : Nat, side : [Sides -> Nat], sleeve : [Sleeves -> Nat]]
  <2>1. /\ bought.all + n \in Nat
        /\ [bought.side EXCEPT ![r.side] = @ + n] \in [Sides -> Nat]
        /\ [bought.sleeve EXCEPT ![r.sleeve] = @ + n] \in [Sleeves -> Nat]
    BY <1>1, <1>3
  <2> QED BY <1>4, <2>1
<1>8. Balanced'
  BY <1>1, <1>2, <1>3, <1>4, <1>6 DEF BudgetInv, Balanced
<1>9. \A s \in Sides :
        /\ side_usage'[s] = (IF s = r.side THEN side_usage[s] + n ELSE side_usage[s])
        /\ bought'.side[s] = (IF s = r.side THEN bought.side[s] + n ELSE bought.side[s])
        /\ side_usage[s] \in Nat /\ bought.side[s] \in Nat
  BY <1>2, <1>3, <1>4, <1>6
<1>10. \A s \in Sleeves :
        /\ sleeve_usage'[s] = (IF s = r.sleeve THEN sleeve_usage[s] + n ELSE sleeve_usage[s])
        /\ bought'.sleeve[s] = (IF s = r.sleeve THEN bought.sleeve[s] + n ELSE bought.sleeve[s])
        /\ sleeve_usage[s] \in Nat /\ bought.sleeve[s] \in Nat
  BY <1>2, <1>3, <1>4, <1>6
<1>11. UsageBooked'
  <2>1. next # 0 /\ next' # 0
    OBVIOUS
  <2>2. \A s \in Sides : side_usage'[s] = ReportedOfSide(s) + bought'.side[s]
    BY <1>1, <1>2, <1>9, <2>1, SideReport DEF BudgetInv, UsageBooked
  <2>3. \A s \in Sleeves : sleeve_usage'[s] = ReportedOfSleeve(s) + bought'.sleeve[s]
    BY <1>1, <1>2, <1>10, <2>1, SleeveReport DEF BudgetInv, UsageBooked
  <2> QED BY <2>1, <2>2, <2>3, ReportsKept DEF UsageBooked
<1>12. UsageWithinCaps'
  <2>1. \A s \in Sides :
          side_cap[s] # NoCap /\ bought'.side[s] > 0 => side_usage'[s] <= side_cap[s]
    BY <1>1, <1>9 DEF BudgetInv, UsageWithinCaps
  <2>2. \A s \in Sleeves :
          sleeve_cap[s] # NoCap /\ bought'.sleeve[s] > 0 => sleeve_usage'[s] <= sleeve_cap[s]
    BY <1>1, <1>10 DEF BudgetInv, UsageWithinCaps
  <2> QED BY <2>1, <2>2 DEF UsageWithinCaps
<1> QED BY <1>5, <1>7, <1>8, <1>11, <1>12

LEMMA EvaluateStep ==
    ASSUME BudgetInv, Evaluate
    PROVE  BudgetInv'
<1> DEFINE r == requests[next]
<1>1. /\ RequestsOK /\ Len(requests) \in Nat /\ next \in 1..Len(requests)
      /\ r \in Requests
  BY DEF BudgetInv, BudgetTypeOK, RequestsOK, Evaluate
<1>2. /\ next \in Nat \ {0} /\ next' = next + 1
      /\ UNCHANGED <<account, event_cap, granted, requests, side_cap, sleeve_cap>>
  BY <1>1 DEF Evaluate
<1>3. /\ remaining' \in Nat /\ side_usage' \in [Sides -> Nat]
      /\ sleeve_usage' \in [Sleeves -> Nat]
      /\ bought' \in [all : Nat, side : [Sides -> Nat], sleeve : [Sleeves -> Nat]]
      /\ Balanced' /\ UsageBooked' /\ UsageWithinCaps'
  <2>1. CASE Approve(r)
    BY <1>1, <1>2, <2>1, ApproveStep
  <2>2. CASE PassOver(r)
    <3>1. /\ UNCHANGED <<remaining, side_usage, sleeve_usage, bought>>
      BY <2>2 DEF PassOver
    <3>2. UsageBooked'
      BY <1>2, <3>1, ReportsKept DEF BudgetInv, UsageBooked
    <3>3. Balanced' /\ UsageWithinCaps'
      BY <1>2, <3>1 DEF BudgetInv, Balanced, UsageWithinCaps
    <3> QED BY <3>1, <3>2, <3>3 DEF BudgetInv, BudgetTypeOK
  <2> QED BY <2>1, <2>2 DEF Evaluate
<1>4. BudgetTypeOK'
  BY <1>1, <1>2, <1>3 DEF BudgetInv, BudgetTypeOK
<1>5. CapDerived'
  BY <1>2 DEF BudgetInv, CapDerived
<1> QED BY <1>3, <1>4, <1>5 DEF BudgetInv

LEMMA BudgetInvStep == BudgetInv /\ [BudgetNext]_budget_vars => BudgetInv'
<1> SUFFICES ASSUME BudgetInv, [BudgetNext]_budget_vars PROVE BudgetInv'
  OBVIOUS
<1>1. ASSUME NEW r \in Requests, Collect(r) PROVE BudgetInv'
  BY <1>1, CollectStep
<1>2. CASE BeginEvaluation
  BY <1>2, BeginStep
<1>3. CASE Evaluate
  BY <1>3, EvaluateStep
<1>4. CASE UNCHANGED budget_vars
  <2>1. UsageBooked'
    BY <1>4, ReportsKept DEF budget_vars, BudgetInv, UsageBooked
  <2> QED BY <1>4, <2>1 DEF budget_vars, BudgetInv, BudgetTypeOK, CapDerived, Balanced,
             UsageWithinCaps
<1> QED BY <1>1, <1>2, <1>3, <1>4 DEF BudgetNext

LEMMA BudgetInvHolds == BudgetSpec => []BudgetInv
BY BudgetInvInit, BudgetInvStep, PTL DEF BudgetSpec

\* Type correctness: neither the cap, nor what is left of it, nor a usage is negative.
THEOREM BudgetTypeCorrect == BudgetSpec => []BudgetTypeOK
<1>1. BudgetInv => BudgetTypeOK
  BY DEF BudgetInv
<1> QED BY <1>1, BudgetInvHolds, PTL

\* For every account and policy the cap of the event stays within the cash, exceeds the
\* absolute cap only by free profit, and is cut after a loss.
THEOREM CapIsLawful == BudgetSpec => []CapLawful
<1>1. BudgetInv => CapLawful
  BY EventCapLawful DEF BudgetInv, BudgetTypeOK, CapDerived, CapLawful
<1> QED BY <1>1, BudgetInvHolds, PTL

\* The buys that are approved together stay within what the event had left.
THEOREM BuysWithinBudget == BudgetSpec => []ApprovedWithinBudget
<1>1. BudgetInv => ApprovedWithinBudget
  BY DEF BudgetInv, BudgetTypeOK, Balanced, ApprovedWithinBudget
<1> QED BY <1>1, BudgetInvHolds, PTL

\* The buys of a side and what any of its requests reports stay within the side's cap.
THEOREM SidesWithinCaps == BudgetSpec => []SideWithinCap
<1>1. ASSUME BudgetInv, NEW s \in Sides, side_cap[s] # NoCap, bought.side[s] > 0,
             NEW i \in DOMAIN requests, requests[i].side = s
      PROVE bought.side[s] + requests[i].side_used <= side_cap[s]
  <2>1. RequestsOK /\ bought.side[s] \in Nat /\ side_usage[s] \in Nat
    BY <1>1 DEF BudgetInv, BudgetTypeOK, RequestsOK
  <2>2. side_cap[s] \in Nat
    BY <1>1, BudgetAssumption DEF BudgetInv, BudgetTypeOK
  <2>3. next # 0
    BY <1>1, <2>1 DEF BudgetInv, UsageBooked
  <2>4. side_usage[s] = ReportedOfSide(s) + bought.side[s] /\ side_usage[s] <= side_cap[s]
    BY <1>1, <2>3 DEF BudgetInv, UsageBooked, UsageWithinCaps
  <2>5. requests[i].side_used <= ReportedOfSide(s) /\ ReportedOfSide(s) \in Nat
        /\ requests[i].side_used \in Nat
    BY <1>1, <2>1, SideReport, RequestFacts
  <2> QED BY <2>1, <2>2, <2>4, <2>5
<1>2. BudgetInv => SideWithinCap
  BY <1>1 DEF SideWithinCap
<1> QED BY <1>2, BudgetInvHolds, PTL

\* The same of a sleeve whose requests agree on what it has used before.
THEOREM SleevesWithinCaps == BudgetSpec => []SleeveWithinCap
<1>1. ASSUME BudgetInv, NEW s \in Sleeves, sleeve_cap[s] # NoCap, bought.sleeve[s] > 0,
             \A j, k \in {j \in DOMAIN requests : requests[j].sleeve = s} :
                requests[j].sleeve_used = requests[k].sleeve_used,
             NEW i \in DOMAIN requests, requests[i].sleeve = s
      PROVE bought.sleeve[s] + requests[i].sleeve_used <= sleeve_cap[s]
  <2>1. RequestsOK /\ bought.sleeve[s] \in Nat /\ sleeve_usage[s] \in Nat
    BY <1>1 DEF BudgetInv, BudgetTypeOK, RequestsOK
  <2>2. sleeve_cap[s] \in Nat
    BY <1>1, BudgetAssumption DEF BudgetInv, BudgetTypeOK
  <2>3. next # 0
    BY <1>1, <2>1 DEF BudgetInv, UsageBooked
  <2>4. sleeve_usage[s] = ReportedOfSleeve(s) + bought.sleeve[s]
        /\ sleeve_usage[s] <= sleeve_cap[s]
    BY <1>1, <2>3 DEF BudgetInv, UsageBooked, UsageWithinCaps
  <2>5. requests[i].sleeve_used = ReportedOfSleeve(s) /\ requests[i].sleeve_used \in Nat
    BY <1>1, <2>1, SleeveReport, RequestFacts
  <2> QED BY <2>1, <2>2, <2>4, <2>5
<1>2. BudgetInv => SleeveWithinCap
  BY <1>1 DEF SleeveWithinCap
<1> QED BY <1>2, BudgetInvHolds, PTL

\* No sequence of approvals overdraws the event, a side of it or a sleeve.
THEOREM BuysStayWithinCaps == BudgetSpec => []BuysWithinCaps
<1>1. ApprovedWithinBudget /\ SideWithinCap /\ SleeveWithinCap => BuysWithinCaps
  BY DEF BuysWithinCaps
<1> QED BY <1>1, BuysWithinBudget, SidesWithinCaps, SleevesWithinCaps, PTL

-----------------------------------------------------------------------------
(* Runtime control: one updater at a time *)

Busy(u) == updating[u] # "idle"

BusyNamesField == \A u \in Updaters : Busy(u) => update[u] \in Updates

\* Two updates at once leave every field open.
OverlapRaces == \A u, v \in Updaters : Busy(u) /\ Busy(v) /\ u # v => raced = Fields

\* What an update is to write: its own field, and the others as they are in force.
WritesInForce ==
    \A u \in Updaters : Busy(u) => \A f \in Fields \ raced :
        config[u][f] = IF f = update[u].field THEN update[u].value ELSE in_force[f]

\* Before the file is opened the other fields are in force, and afterwards it is what was merged.
FileAgrees ==
    \A u \in Updaters : \A f \in Fields \ raced :
        /\ updating[u] = "merged" /\ f # update[u].field => Loaded[f] = in_force[f]
        /\ updating[u] = "written" => current = config[u]

RcInv == RcTypeOK /\ BusyNamesField /\ OverlapRaces /\ WritesInForce /\ FileAgrees /\ UpdatesKept

LEMMA LoadedIsConfig == ASSUME RcTypeOK PROVE Loaded \in Configs
BY RuntimeControlAssumption DEF RcTypeOK, Loaded, Defaults, Configs

LEMMA RcInvInit == RcInit => RcInv
<1> SUFFICES ASSUME RcInit PROVE RcInv
  OBVIOUS
<1>1. Defaults \in Configs
  BY RuntimeControlAssumption DEF Defaults, Configs
<1>2. RcTypeOK
  BY <1>1 DEF RcInit, RcTypeOK
<1>3. UpdatesKept
  BY DEF RcInit, UpdatesKept, Loaded
<1>4. \A u \in Updaters : updating[u] = "idle"
  BY DEF RcInit
<1> QED BY <1>2, <1>3, <1>4 DEF RcInv, Busy, BusyNamesField, OverlapRaces, WritesInForce, FileAgrees

LEMMA BeginUpdateStep ==
    ASSUME RcInv, NEW u \in Updaters, NEW x \in Updates, BeginUpdate(u, x)
    PROVE  RcInv'
<1>1. RcTypeOK /\ Loaded \in Configs /\ x.field \in Fields /\ x.value \in Settings
  BY LoadedIsConfig DEF RcInv, Updates
<1>2. Merged(x) \in Configs
  BY <1>1 DEF Merged, Configs
<1>3. /\ updating' \in [Updaters -> {"idle", "merged", "opened", "written"}]
      /\ config' \in [Updaters -> Configs]
      /\ update' \in [Updaters -> Updates \cup {NoUpdate}]
      /\ raced' \subseteq Fields
  BY <1>1, <1>2 DEF RcTypeOK, BeginUpdate
<1>4. RcTypeOK'
  BY <1>3 DEF RcInv, RcTypeOK, BeginUpdate
<1>5. \A v \in Updaters : v # u =>
        updating'[v] = updating[v] /\ update'[v] = update[v] /\ config'[v] = config[v]
  BY <1>1 DEF RcTypeOK, BeginUpdate
<1>6. updating'[u] = "merged" /\ update'[u] = x /\ config'[u] = Merged(x)
  BY <1>1 DEF RcTypeOK, BeginUpdate
<1>7. BusyNamesField'
  BY <1>5, <1>6 DEF RcInv, BusyNamesField, Busy
<1>8. \E v \in Updaters : updating'[v] # "idle"
  BY <1>6
<1>9. ~Quiet'
  BY <1>8 DEF Quiet
<1>10. CASE ~Quiet
  <2>1. raced' = Fields
    BY <1>10 DEF BeginUpdate
  <2> QED BY <1>4, <1>7, <1>9, <2>1 DEF RcInv, OverlapRaces, WritesInForce, FileAgrees, UpdatesKept
<1>11. CASE Quiet
  <2>1. raced' = raced \ {x.field} /\ in_force' = in_force /\ current' = current /\ Loaded' = Loaded
    BY <1>11 DEF BeginUpdate, Loaded
  <2>2. \A v \in Updaters : v # u => updating'[v] = "idle"
    BY <1>5, <1>11 DEF Quiet
  <2>3. OverlapRaces'
    BY <2>2 DEF OverlapRaces, Busy
  <2>4. \A f \in Fields \ raced' : f # x.field => Loaded[f] = in_force[f]
    BY <1>11, <2>1 DEF RcInv, UpdatesKept
  <2>5. \A f \in Fields : Merged(x)[f] = IF f = x.field THEN x.value ELSE Loaded[f]
    BY <1>1 DEF Merged, Configs
  <2>6. WritesInForce'
    BY <1>6, <2>1, <2>2, <2>4, <2>5 DEF WritesInForce, Busy
  <2>7. FileAgrees'
    BY <1>6, <2>1, <2>2, <2>4 DEF FileAgrees
  <2> QED BY <1>4, <1>7, <1>9, <2>3, <2>6, <2>7 DEF RcInv, UpdatesKept
<1> QED BY <1>10, <1>11

\* A step that leaves the updater of u busy.
LEMMA BusyStep ==
    ASSUME RcInv, NEW u \in Updaters, Busy(u),
           NEW p \in {"opened", "written"}, updating' = [updating EXCEPT ![u] = p],
           UNCHANGED <<config, update, in_force, raced>>,
           current' \in Configs \cup {TornConfig},
           p = "written" => raced = Fields \/ current' = config[u]
    PROVE  RcInv'
<1>1. RcTypeOK
  BY DEF RcInv
<1>2. updating' \in [Updaters -> {"idle", "merged", "opened", "written"}]
  BY <1>1 DEF RcTypeOK
<1>3. RcTypeOK'
  BY <1>1, <1>2 DEF RcTypeOK
<1>4. updating'[u] = p /\ \A v \in Updaters : v # u => updating'[v] = updating[v]
  BY <1>1 DEF RcTypeOK
<1>5. \A v \in Updaters : Busy(v)' <=> Busy(v)
  BY <1>4 DEF Busy
<1>6. BusyNamesField' /\ OverlapRaces' /\ WritesInForce'
  BY <1>5 DEF RcInv, BusyNamesField, OverlapRaces, WritesInForce
<1>7. UpdatesKept'
  BY <1>4 DEF UpdatesKept, Quiet
<1>8. FileAgrees'
  <2>1. CASE raced = Fields
    BY <2>1 DEF FileAgrees
  <2>2. CASE raced # Fields
    <3>1. \A v \in Updaters : v # u => updating'[v] = "idle"
      BY <1>4, <2>2 DEF RcInv, OverlapRaces, Busy
    <3>2. p = "written" => current' = config'[u]
      BY <2>2
    <3> QED BY <1>4, <3>1, <3>2 DEF FileAgrees
  <2> QED BY <2>1, <2>2
<1> QED BY <1>3, <1>6, <1>7, <1>8 DEF RcInv

LEMMA OpenStep ==
    ASSUME RcInv, NEW u \in Updaters, OpenCurrent(u) PROVE RcInv'
BY BusyStep DEF OpenCurrent, Busy

LEMMA FileWriteStep ==
    ASSUME RcInv, NEW u \in Updaters, WriteCurrent(u) PROVE RcInv'
<1>1. config[u] \in Configs /\ Busy(u)
  BY DEF RcInv, RcTypeOK, WriteCurrent, Busy
<1>2. current' \in Configs \cup {TornConfig} /\ (raced = Fields \/ current' = config[u])
  BY <1>1 DEF WriteCurrent
<1> QED BY <1>1, <1>2, BusyStep DEF WriteCurrent

\* A step that ends the update of u.
LEMMA EndStep ==
    ASSUME RcInv, NEW u \in Updaters, Busy(u),
           updating' = [updating EXCEPT ![u] = "idle"],
           update' = [update EXCEPT ![u] = NoUpdate],
           UNCHANGED <<current, config>>,
           in_force' \in Configs, raced \subseteq raced', raced' \subseteq Fields,
           \A f \in Fields \ raced' : Loaded[f] = in_force'[f]
    PROVE  RcInv'
<1>1. RcTypeOK
  BY DEF RcInv
<1>2. updating' \in [Updaters -> {"idle", "merged", "opened", "written"}]
      /\ update' \in [Updaters -> Updates \cup {NoUpdate}]
  BY <1>1 DEF RcTypeOK
<1>3. RcTypeOK'
  BY <1>1, <1>2 DEF RcTypeOK
<1>4. /\ updating'[u] = "idle"
      /\ \A v \in Updaters : v # u => updating'[v] = updating[v] /\ update'[v] = update[v]
  BY <1>1 DEF RcTypeOK
<1>5. BusyNamesField'
  BY <1>4 DEF RcInv, BusyNamesField, Busy
<1>6. \A v \in Updaters : updating'[v] # "idle" => raced = Fields /\ raced' = Fields
  BY <1>4 DEF RcInv, OverlapRaces, Busy
<1>7. OverlapRaces' /\ WritesInForce' /\ FileAgrees'
  BY <1>6 DEF OverlapRaces, WritesInForce, FileAgrees, Busy
<1>8. UpdatesKept'
  BY DEF UpdatesKept, Loaded
<1> QED BY <1>3, <1>5, <1>7, <1>8 DEF RcInv

LEMMA LogStep ==
    ASSUME RcInv, NEW u \in Updaters, LogUpdate(u) PROVE RcInv'
<1>1. RcTypeOK /\ Busy(u) /\ update[u] \in Updates /\ updating[u] = "written"
  BY DEF RcInv, BusyNamesField, Busy, LogUpdate
<1>2. update[u].field \in Fields /\ update[u].value \in Settings
  BY <1>1 DEF Updates
<1>3. in_force' \in Configs
  BY <1>1, <1>2 DEF RcTypeOK, Configs, LogUpdate
<1>4. \A f \in Fields : in_force'[f] = IF f = update[u].field THEN update[u].value ELSE in_force[f]
  BY <1>1, <1>2 DEF RcTypeOK, Configs, LogUpdate
<1>5. \A f \in Fields \ raced : Loaded[f] = config[u][f]
  BY <1>1, RuntimeControlAssumption DEF RcInv, RcTypeOK, FileAgrees, Loaded, Configs
<1>6. \A f \in Fields \ raced : Loaded[f] = in_force'[f]
  BY <1>1, <1>4, <1>5 DEF RcInv, WritesInForce
<1>7. raced' = raced /\ raced \subseteq Fields
  BY <1>1 DEF LogUpdate, RcTypeOK
<1> QED BY <1>1, <1>3, <1>6, <1>7, EndStep DEF LogUpdate

LEMMA FailStep ==
    ASSUME RcInv, NEW u \in Updaters, FailUpdate(u) PROVE RcInv'
<1>1. RcTypeOK /\ Busy(u) /\ update[u] \in Updates
  BY DEF RcInv, BusyNamesField, Busy, FailUpdate
<1>2. update[u].field \in Fields /\ raced \subseteq Fields
  BY <1>1 DEF Updates, RcTypeOK
<1>3. raced \subseteq raced' /\ raced' \subseteq Fields
  BY <1>2 DEF FailUpdate
<1>4. in_force' = in_force /\ in_force \in Configs
  BY <1>1 DEF RcTypeOK, FailUpdate
<1>5. \A f \in Fields \ raced' : Loaded[f] = in_force'[f]
  <2> SUFFICES ASSUME NEW f \in Fields \ raced' PROVE Loaded[f] = in_force[f]
    BY <1>4
  <2>1. updating[u] # "opened" /\ f \notin raced /\ f # update[u].field
    BY <1>3 DEF FailUpdate
  <2>2. updating[u] \in {"merged", "written"}
    BY <1>1, <2>1 DEF RcTypeOK, Busy
  <2>3. CASE updating[u] = "merged"
    BY <2>1, <2>3 DEF RcInv, FileAgrees
  <2>4. CASE updating[u] = "written"
    <3>1. current = config[u] /\ config[u] \in Configs
      BY <1>1, <2>1, <2>4 DEF RcInv, FileAgrees, RcTypeOK
    <3>2. Loaded = config[u]
      BY <3>1, RuntimeControlAssumption DEF Loaded, Configs
    <3> QED BY <1>1, <2>1, <3>2 DEF RcInv, WritesInForce
  <2> QED BY <2>2, <2>3, <2>4
<1> QED BY <1>1, <1>3, <1>4, <1>5, EndStep DEF FailUpdate

LEMMA RcInvStep == RcInv /\ [RcNext]_rc_vars => RcInv'
<1> SUFFICES ASSUME RcInv, [RcNext]_rc_vars PROVE RcInv'
  OBVIOUS
<1>1. ASSUME NEW u \in Updaters, NEW x \in Updates, BeginUpdate(u, x) PROVE RcInv'
  BY <1>1, BeginUpdateStep
<1>2. ASSUME NEW u \in Updaters, OpenCurrent(u) PROVE RcInv'
  BY <1>2, OpenStep
<1>3. ASSUME NEW u \in Updaters, WriteCurrent(u) PROVE RcInv'
  BY <1>3, FileWriteStep
<1>4. ASSUME NEW u \in Updaters, LogUpdate(u) PROVE RcInv'
  BY <1>4, LogStep
<1>5. ASSUME NEW u \in Updaters, FailUpdate(u) PROVE RcInv'
  BY <1>5, FailStep
<1>6. CASE UNCHANGED rc_vars
  BY <1>6 DEF rc_vars, RcInv, RcTypeOK, BusyNamesField, Busy, OverlapRaces, WritesInForce,
     FileAgrees, UpdatesKept, Loaded, Quiet
<1> QED BY <1>1, <1>2, <1>3, <1>4, <1>5, <1>6 DEF RcNext

LEMMA RcInvHolds == RcSpec => []RcInv
BY RcInvInit, RcInvStep, PTL DEF RcSpec

\* Type correctness: the file is a configuration, torn or missing.
THEOREM ControlFileTypeCorrect == RcSpec => []RcTypeOK
<1>1. RcInv => RcTypeOK
  BY DEF RcInv
<1> QED BY <1>1, RcInvHolds, PTL

\* For any number of callers and fields, a stored setting stays in force through the
\* updates of other fields, unless updates overlapped or one died with the file open.
THEOREM StoredStaysInForce == RcSpec => []UpdatesKept
<1>1. RcInv => UpdatesKept
  BY DEF RcInv
<1> QED BY <1>1, RcInvHolds, PTL

-----------------------------------------------------------------------------
(* Signal aggregation *)

AggTypes ==
    /\ exposure \in BOOLEAN /\ decided \in BOOLEAN
    /\ selected \in Seq(LiveSignals)
    /\ candidate \in LiveSignals \cup {NoSignal}

AggInv ==
    /\ AggTypes
    /\ ~decided => proposed = {}
    /\ CooldownKept /\ ExitPrevails /\ ProposalSound

LEMMA SignalFacts ==
    ASSUME NEW s \in LiveSignals
    PROVE  /\ s.type \in {"buy", "sell", "block"} /\ s.at \in Nat
           /\ s.type = "block" => s.scope \in {"global", "local"}
<1>1. Times \subseteq Nat
  BY AggregationAssumption
<1>2. CASE s \in [type : {"buy"}, token : Tokens, sleeve : SleeveIds, at : Times,
                  exit : BOOLEAN, adds : BOOLEAN, scope : {"none"}]
  <2>1. s.type = "buy" /\ s.at \in Times
    BY <1>2
  <2> QED BY <1>1, <2>1
<1>3. CASE s \in [type : {"sell"}, token : Tokens, sleeve : SleeveIds, at : Times,
                  exit : BOOLEAN, adds : {FALSE}, scope : {"none"}]
  <2>1. s.type = "sell" /\ s.at \in Times
    BY <1>3
  <2> QED BY <1>1, <2>1
<1>4. CASE s \in [type : {"block"}, token : {NoToken}, sleeve : SleeveIds, at : {0},
                  exit : {FALSE}, adds : {FALSE}, scope : {"global", "local"}]
  <2>1. s.type = "block" /\ s.at = 0 /\ s.scope \in {"global", "local"}
    BY <1>4
  <2> QED BY <2>1
<1> QED BY <1>2, <1>3, <1>4 DEF LiveSignals

LEMMA SelectedFacts ==
    ASSUME AggTypes
    PROVE  /\ Len(selected) \in Nat /\ DOMAIN selected = 1..Len(selected)
           /\ \A i \in DOMAIN selected : selected[i] \in LiveSignals
BY DEF AggTypes

LEMMA AggInvInit == AggInit => AggInv
<1> SUFFICES ASSUME AggInit PROVE AggInv
  OBVIOUS
<1>1. selected \in Seq(LiveSignals) /\ DOMAIN selected = {}
  BY DEF AggInit
<1>2. AggTypes
  BY <1>1 DEF AggInit, AggTypes
<1>3. CooldownKept
  BY <1>1 DEF CooldownKept
<1>4. ExitPrevails /\ ProposalSound
  BY DEF AggInit, ExitPrevails, ProposalSound
<1> QED BY <1>2, <1>3, <1>4 DEF AggInit, AggInv

\* A signal that is appended is further than the cooldown from all kept before it.
LEMMA AppendedIsApart ==
    ASSUME AggTypes, NEW s \in LiveSignals, ~Duplicate(s),
           NEW i \in DOMAIN selected, DedupeKey(selected[i]) = DedupeKey(s),
           \A j \in DOMAIN selected : selected[j].at <= s.at,
           \A j, k \in DOMAIN selected : j < k => selected[j].at <= selected[k].at
    PROVE  s.at - selected[i].at > Cooldown
<1> DEFINE K == {j \in DOMAIN selected : DedupeKey(selected[j]) = DedupeKey(s)}
<1>1. K \subseteq Nat /\ K # {} /\ Len(selected) \in Nat /\ \A j \in K : j <= Len(selected)
  BY SelectedFacts
<1>2. PICK m \in K : \A j \in K : j <= m
  <2> HIDE DEF K
  <2> QED BY <1>1, LargestNumber
<1>3. m \in DOMAIN selected /\ DedupeKey(selected[m]) = DedupeKey(s)
      /\ \A j \in DOMAIN selected : DedupeKey(selected[j]) = DedupeKey(s) => j <= m
  BY <1>2
<1>4. ~(Apart(s, selected[m]) <= Cooldown)
  BY <1>3 DEF Duplicate
<1>5. selected[m].at \in Nat /\ selected[i].at \in Nat /\ s.at \in Nat /\ Cooldown \in Nat
  BY <1>3, SelectedFacts, SignalFacts, AggregationAssumption
<1>6. selected[m].at <= s.at
  BY <1>3
<1>7. s.at - selected[m].at > Cooldown
  BY <1>4, <1>5, <1>6 DEF Apart
<1>8. i <= m /\ i \in Nat /\ m \in Nat
  BY <1>3, SelectedFacts
<1>9. selected[i].at <= selected[m].at
  BY <1>3, <1>5, <1>8
<1> QED BY <1>5, <1>7, <1>9

LEMMA AppendStep ==
    ASSUME AggInv, NEW s \in LiveSignals, ~decided, ~Duplicate(s),
           selected' = Append(selected, s)
    PROVE  selected' \in Seq(LiveSignals) /\ CooldownKept'
<1>1. selected' \in Seq(LiveSignals) /\ AggTypes
  BY DEF AggInv, AggTypes
<1> DEFINE n == Len(selected)
<1>2. /\ n \in Nat /\ DOMAIN selected = 1..n /\ DOMAIN selected' = 1..(n + 1)
      /\ selected'[n + 1] = s /\ \A i \in 1..n : selected'[i] = selected[i]
  BY <1>1 DEF AggTypes
<1> HIDE DEF n
<1>3. ASSUME \A i, j \in DOMAIN selected' : i < j => selected'[i].at <= selected'[j].at,
             NEW i \in DOMAIN selected', NEW j \in DOMAIN selected', i < j,
             DedupeKey(selected'[i]) = DedupeKey(selected'[j])
      PROVE  selected'[j].at - selected'[i].at > Cooldown
  <2>1. \A k, l \in DOMAIN selected : k < l => selected[k].at <= selected[l].at
    <3> SUFFICES ASSUME NEW k \in DOMAIN selected, NEW l \in DOMAIN selected, k < l
                 PROVE  selected[k].at <= selected[l].at
      OBVIOUS
    <3>1. k \in DOMAIN selected' /\ l \in DOMAIN selected'
          /\ selected'[k] = selected[k] /\ selected'[l] = selected[l]
      BY <1>2
    <3> QED BY <1>3, <3>1
  <2>2. \A k \in DOMAIN selected : selected[k].at <= s.at
    <3> SUFFICES ASSUME NEW k \in DOMAIN selected PROVE selected[k].at <= s.at
      OBVIOUS
    <3>1. k \in DOMAIN selected' /\ n + 1 \in DOMAIN selected' /\ k < n + 1
          /\ selected'[k] = selected[k] /\ selected'[n + 1] = s
      BY <1>2
    <3> QED BY <1>3, <3>1
  <2>3. i \in DOMAIN selected /\ selected'[i] = selected[i]
    BY <1>2, <1>3
  <2>4. CASE j \in DOMAIN selected
    <3>1. selected'[j] = selected[j]
      BY <1>2, <2>4
    <3> QED BY <1>3, <2>1, <2>3, <2>4, <3>1 DEF AggInv, CooldownKept
  <2>5. CASE j \notin DOMAIN selected
    <3>1. j = n + 1
      BY <1>2, <2>5
    <3>2. selected'[j] = s
      BY <1>2, <3>1
    <3>3. DedupeKey(selected[i]) = DedupeKey(s)
      BY <1>3, <2>3, <3>2
    <3>4. s.at - selected[i].at > Cooldown
      BY <1>1, <2>1, <2>2, <2>3, <3>3, AppendedIsApart
    <3> QED BY <2>3, <3>2, <3>4
  <2> QED BY <2>4, <2>5
<1>4. CooldownKept'
  BY <1>3 DEF CooldownKept
<1> QED BY <1>1, <1>4

LEMMA ScreenStep ==
    ASSUME AggInv, NEW s \in LiveSignals, Screen(s)
    PROVE  AggInv'
<1>1. selected' \in Seq(LiveSignals) /\ CooldownKept'
  <2>1. CASE Duplicate(s)
    BY <2>1 DEF Screen, Suppress, AggInv, AggTypes, CooldownKept
  <2>2. CASE ~Duplicate(s)
    BY <2>2, AppendStep DEF Screen
  <2> QED BY <2>1, <2>2
<1>2. ~decided /\ UNCHANGED <<exposure, may_add, candidate, proposed, decided>>
  BY DEF Screen
<1>3. AggTypes' /\ ExitPrevails' /\ ProposalSound'
  BY <1>1, <1>2 DEF AggInv, AggTypes, ExitPrevails, ProposalSound
<1> QED BY <1>1, <1>2, <1>3 DEF AggInv

\* The candidate comes from a group of one type and one token, which no group precedes.
LEMMA CandidateFacts ==
    ASSUME AggTypes, NEW g \in CandidateGroups, NEW c \in Strongest(g)
    PROVE  /\ c \in LiveSignals /\ g \subseteq Actionable
           /\ \A i \in g : selected[i].type = c.type /\ selected[i].token = c.token
           /\ \E i \in g : selected[i] = c
           /\ (\E i \in DOMAIN selected : selected[i].type = "sell" /\ selected[i].exit) =>
                c.type = "sell"
<1>1. PICK k \in Actionable : g = GroupOf(k)
  BY DEF CandidateGroups, Groups
<1>2. g \subseteq Actionable
      /\ \A i \in g : selected[i].type = selected[k].type /\ selected[i].token = selected[k].token
  BY <1>1 DEF GroupOf
<1>3. PICK i \in g : selected[i] = c
  BY DEF Strongest
<1>4. c \in LiveSignals
  BY <1>2, <1>3, SelectedFacts DEF Actionable
<1>5. ASSUME NEW e \in DOMAIN selected, selected[e].type = "sell", selected[e].exit
      PROVE  c.type = "sell"
  <2>1. e \in Actionable /\ e \in GroupOf(e)
    BY <1>5 DEF Actionable, GroupOf
  <2>2. GroupOf(e) \in Groups /\ ExitPriority(GroupOf(e))
    BY <1>5, <2>1 DEF Groups, ExitPriority
  <2>3. First(g, GroupOf(e))
    BY <2>2 DEF CandidateGroups
  <2>4. ExitPriority(g)
    BY <2>2, <2>3, Zenon DEF First
  <2> QED BY <1>2, <1>3, <2>4 DEF ExitPriority
<1> QED BY <1>2, <1>3, <1>4, <1>5

\* A group without blockers is not contradicted by the selected signals.
LEMMA UnblockedIsSound ==
    ASSUME AggTypes, NEW g \in CandidateGroups, NEW c \in Strongest(g), NEW exposed \in BOOLEAN,
           NEW over, NEW allowed, Blockers(g, exposed, over, allowed) = {}
    PROVE  /\ \A s \in Elements(selected) : s.type = "block" =>
                s.scope = "local" /\ \A i \in g : selected[i].sleeve # s.sleeve
           /\ \A j \in Actionable :
                selected[j].token = c.token /\ selected[j].sleeve = c.sleeve
                /\ selected[j].type # c.type
                => \E k \in ConflictScope(j) : selected[k].exit
           /\ exposed /\ c.type = "buy" => allowed \/ \E i \in g : selected[i].adds
<1>1. /\ "block" \notin Blockers(g, exposed, over, allowed)
      /\ "conflict" \notin Blockers(g, exposed, over, allowed)
      /\ "exposure" \notin Blockers(g, exposed, over, allowed)
  OBVIOUS
<1>2. /\ \A s \in Elements(selected) : ~Blocks(s, g)
      /\ ~Conflict
      /\ ~(exposed /\ ~MayAdd(g, allowed) /\ \E i \in g : selected[i].type = "buy")
  BY <1>1 DEF Blockers
<1>3. PICK m \in g : selected[m] = c
  BY CandidateFacts
<1>4. m \in Actionable /\ m \in DOMAIN selected /\ c \in LiveSignals
  BY CandidateFacts DEF Actionable
<1>5. ASSUME NEW s \in Elements(selected), s.type = "block"
      PROVE  s.scope = "local" /\ \A i \in g : selected[i].sleeve # s.sleeve
  <2>1. s \in LiveSignals
    BY <1>5, SelectedFacts DEF Elements
  <2> QED BY <1>2, <1>5, <2>1, SignalFacts DEF Blocks
<1>6. ASSUME NEW j \in Actionable, selected[j].token = c.token, selected[j].sleeve = c.sleeve,
             selected[j].type # c.type
      PROVE  \E k \in ConflictScope(j) : selected[k].exit
  <2>1. j \in DOMAIN selected /\ selected[j] \in LiveSignals /\ selected[j].type # "block"
    BY SelectedFacts DEF Actionable
  <2>2. c.type # "block"
    BY <1>3, <1>4 DEF Actionable
  <2>3. \/ c.type = "buy" /\ selected[j].type = "sell"
        \/ c.type = "sell" /\ selected[j].type = "buy"
    BY <1>4, <1>6, <2>1, <2>2, SignalFacts
  <2>4. /\ j \in ConflictScope(m) /\ m \in ConflictScope(j)
        /\ ConflictScope(m) = ConflictScope(j)
    BY <1>3, <1>4, <1>6 DEF ConflictScope
  <2> QED BY <1>2, <1>3, <1>4, <2>3, <2>4 DEF Conflict
<1>7. exposed /\ c.type = "buy" => allowed \/ \E i \in g : selected[i].adds
  BY <1>2, <1>3 DEF MayAdd
<1> QED BY <1>5, <1>6, <1>7

LEMMA SelectionKept ==
    ASSUME UNCHANGED selected
    PROVE  /\ Actionable' = Actionable /\ Elements(selected)' = Elements(selected)
           /\ \A j : ConflictScope(j)' = ConflictScope(j)
BY DEF Actionable, Elements, ConflictScope

LEMMA DecideStep ==
    ASSUME AggInv, Decide
    PROVE  AggInv'
<1>1. AggTypes /\ ~decided /\ decided' /\ UNCHANGED selected /\ exposure' \in BOOLEAN
  BY DEF AggInv, Decide
<1>2. CooldownKept'
  BY <1>1 DEF AggInv, CooldownKept
<1>3. ASSUME NEW g \in CandidateGroups, DecideFor(g)
      PROVE  AggInv'
  <2>1. candidate' \in Strongest(g) /\ blockers' = Blockers(g, exposure', full', may_add')
        /\ proposed' = IF blockers' = {} THEN g ELSE {}
    BY <1>3 DEF DecideFor
  <2>2. candidate' \in LiveSignals
    BY <1>1, <2>1, CandidateFacts
  <2>3. AggTypes'
    BY <1>1, <2>2 DEF AggTypes, Decide
  <2>4. ExitPrevails'
    <3>1. candidate' # NoSignal
      BY <2>2, NoSignalAssumption
    <3>2. (\E i \in DOMAIN selected : selected[i].type = "sell" /\ selected[i].exit) =>
            candidate'.type = "sell"
      BY <1>1, <2>1, CandidateFacts
    <3> QED BY <1>1, <3>1, <3>2 DEF ExitPrevails
  <2>5. ProposalSound'
    <3>1. CASE proposed' = {}
      BY <3>1 DEF ProposalSound
    <3>2. CASE proposed' # {}
      <4>1. proposed' = g /\ Blockers(g, exposure', full', may_add') = {}
        BY <2>1, <3>2
      <4> DEFINE c == candidate'
                 exposed == exposure'
                 over == full'
                 allowed == may_add'
      <4>2. c \in Strongest(g) /\ exposed \in BOOLEAN /\ Blockers(g, exposed, over, allowed) = {}
        BY <1>1, <2>1, <4>1
      <4>3. /\ \A s \in Elements(selected) : s.type = "block" =>
                  s.scope = "local" /\ \A i \in g : selected[i].sleeve # s.sleeve
            /\ \A j \in Actionable :
                  selected[j].token = c.token /\ selected[j].sleeve = c.sleeve
                  /\ selected[j].type # c.type
                  => \E k \in ConflictScope(j) : selected[k].exit
            /\ exposed /\ c.type = "buy" => allowed \/ \E i \in g : selected[i].adds
        <5> HIDE DEF c, exposed, over, allowed
        <5> QED BY <1>1, <4>2, UnblockedIsSound
      <4> QED BY <1>1, <4>1, <4>3, SelectionKept DEF ProposalSound
    <3> QED BY <3>1, <3>2
  <2> QED BY <1>1, <1>2, <2>3, <2>4, <2>5 DEF AggInv
<1>4. ASSUME Actionable = {}, UNCHANGED <<candidate, proposed>>
      PROVE  AggInv'
  <2>1. proposed' = {}
    BY <1>1, <1>4 DEF AggInv
  <2>2. \A i \in DOMAIN selected : selected[i].type = "block"
    BY <1>4 DEF Actionable
  <2>3. AggTypes'
    BY <1>1, <1>4 DEF AggTypes
  <2>4. ExitPrevails' /\ ProposalSound'
    BY <1>1, <2>1, <2>2 DEF ExitPrevails, ProposalSound
  <2> QED BY <1>1, <1>2, <2>3, <2>4 DEF AggInv
<1> QED BY <1>3, <1>4 DEF Decide

LEMMA AggInvStep == AggInv /\ [AggNext]_agg_vars => AggInv'
<1> SUFFICES ASSUME AggInv, [AggNext]_agg_vars PROVE AggInv'
  OBVIOUS
<1>1. CASE Decide
  BY <1>1, DecideStep
<1>2. ASSUME NEW s \in LiveSignals, Screen(s) PROVE AggInv'
  BY <1>2, ScreenStep
<1>3. ASSUME UNCHANGED <<exposure, may_add, selected, candidate, proposed, decided>> PROVE AggInv'
  BY <1>3, SelectionKept DEF AggInv, AggTypes, CooldownKept, ExitPrevails, ProposalSound
<1>4. ASSUME NEW sleeve \in SleeveIds, DropUnusable(sleeve) PROVE AggInv'
  BY <1>3, <1>4 DEF DropUnusable, Suppress
<1>5. CASE UNCHANGED agg_vars
  BY <1>3, <1>5 DEF agg_vars
<1> QED BY <1>1, <1>2, <1>4, <1>5 DEF AggNext

LEMMA AggInvHolds == AggSpec => []AggInv
BY AggInvInit, AggInvStep, PTL DEF AggSpec

\* For any list of signals in the order of their times, a signal is kept only when the
\* cooldown since every earlier one of its key is over.
THEOREM CooldownHolds == AggSpec => []CooldownKept
<1>1. AggInv => CooldownKept
  BY DEF AggInv
<1> QED BY <1>1, AggInvHolds, PTL

\* An exit prevails over any number of buys on any token.
THEOREM ExitComesFirst == AggSpec => []ExitPrevails
<1>1. AggInv => ExitPrevails
  BY DEF AggInv
<1> QED BY <1>1, AggInvHolds, PTL

\* No proposed order is contradicted by the signals it was selected with.
THEOREM ProposalsSound == AggSpec => []ProposalSound
<1>1. AggInv => ProposalSound
  BY DEF AggInv
<1> QED BY <1>1, AggInvHolds, PTL

(* The bounds of the aggregation *)

\* One sleeve has lost no more signals than all of them.
LEMMA DroppedBounded ==
    ASSUME AggTypeOK, NEW sleeve \in SleeveIds, Screened < SignalCount
    PROVE  dropped[sleeve] + 1 \in 0..SignalCount
<1> DEFINE all == TotalOf(dropped, SleeveIds)
           one == TotalOf(dropped, {sleeve})
<1>1. IsFiniteSet(SleeveIds) /\ SignalCount \in Nat
  BY AggregationAssumption
<1>2. DOMAIN dropped = SleeveIds /\ \A x \in SleeveIds : dropped[x] \in Nat
  BY DEF AggTypeOK
<1>3. one \in Nat /\ one <= all /\ all \in Nat
  <2>1. {sleeve} \in SUBSET SleeveIds /\ SleeveIds \in SUBSET SleeveIds
    OBVIOUS
  <2> QED BY <1>1, <1>2, <2>1, TotalOfPart, TotalNat
<1>4. one = dropped[sleeve]
  <2>1. {sleeve} \in SUBSET SleeveIds /\ {sleeve} \ {sleeve} = {}
    OBVIOUS
  <2>2. one = dropped[sleeve] + TotalOf(dropped, {sleeve} \ {sleeve})
    BY <1>1, <1>2, <2>1, TotalSplits
  <2>3. TotalOf(dropped, {}) = 0
    BY TotalOfNone
  <2>4. one = dropped[sleeve] + 0
    BY <2>1, <2>2, <2>3, Zenon
  <2>5. dropped[sleeve] \in Nat
    BY <1>2
  <2> HIDE DEF one
  <2> QED BY <2>4, <2>5
<1>5. Screened = Len(selected) + all /\ Len(selected) \in Nat
  <2>1. FoldFunction(+, 0, dropped) = TotalOf(dropped, DOMAIN dropped)
    BY DEF FoldFunction, FoldFunctionOnSet, MapThenFoldSet, TotalOf
  <2>2. Len(selected) \in Nat
    BY DEF AggTypeOK
  <2>3. Screened = Len(selected) + TotalOf(dropped, DOMAIN dropped)
    BY <2>1, Zenon DEF Screened
  <2> QED BY <1>2, <2>2, <2>3, Zenon
<1> HIDE DEF all, one
<1> QED BY <1>1, <1>2, <1>3, <1>4, <1>5

\* Screening is over once something is proposed.
AggBounds ==
    /\ AggTypeOK
    /\ ~decided => proposed = {}

LEMMA SuppressTypes ==
    ASSUME AggTypeOK, NEW sleeve \in SleeveIds, Screened < SignalCount, Suppress(sleeve)
    PROVE  dropped' \in [SleeveIds -> 0..SignalCount] /\ selected' = selected
BY DroppedBounded DEF Suppress, AggTypeOK

LEMMA SignalSleeve ==
    ASSUME NEW s \in LiveSignals
    PROVE  s.sleeve \in SleeveIds
BY DEF LiveSignals

LEMMA AggBoundsInit == AggInit => AggBounds
<1> SUFFICES ASSUME AggInit PROVE AggBounds
  OBVIOUS
<1>1. dropped \in [SleeveIds -> 0..SignalCount]
  BY AggregationAssumption DEF AggInit
<1>2. selected \in Seq(LiveSignals)
  BY DEF AggInit
<1> QED BY <1>1, <1>2 DEF AggInit, AggBounds, AggTypeOK

LEMMA AggBoundsStep == AggBounds /\ [AggNext]_agg_vars => AggBounds'
<1> SUFFICES ASSUME AggBounds, [AggNext]_agg_vars PROVE AggBounds'
  OBVIOUS
<1>0. AggTypeOK
  BY DEF AggBounds
<1>1. ASSUME ~decided, selected' \in Seq(LiveSignals), dropped' \in [SleeveIds -> 0..SignalCount],
             UNCHANGED <<exposure, full, may_add, candidate, proposed, blockers, decided>>
      PROVE  AggBounds'
  BY <1>1 DEF AggBounds, AggTypeOK
<1>2. ASSUME NEW s \in LiveSignals, Screen(s) PROVE AggBounds'
  <2>1. ~decided /\ Screened < SignalCount
        /\ UNCHANGED <<exposure, full, may_add, candidate, proposed, blockers, decided>>
    BY <1>2 DEF Screen
  <2>2. CASE Duplicate(s)
    <3>1. Suppress(s.sleeve)
      BY <1>2, <2>2 DEF Screen
    <3>2. dropped' \in [SleeveIds -> 0..SignalCount] /\ selected' = selected
      BY <1>0, <2>1, <3>1, SignalSleeve, SuppressTypes
    <3> QED BY <1>0, <1>1, <2>1, <3>2 DEF AggTypeOK
  <2>3. CASE ~Duplicate(s)
    <3>1. selected' \in Seq(LiveSignals) /\ dropped' = dropped
      BY <1>0, <1>2, <2>3 DEF Screen, AggTypeOK
    <3> QED BY <1>0, <1>1, <2>1, <3>1 DEF AggTypeOK
  <2> QED BY <2>2, <2>3
<1>3. ASSUME NEW sleeve \in SleeveIds, DropUnusable(sleeve) PROVE AggBounds'
  <2>1. dropped' \in [SleeveIds -> 0..SignalCount] /\ selected' = selected
    BY <1>0, <1>3, SuppressTypes DEF DropUnusable
  <2> QED BY <1>0, <1>1, <1>3, <2>1 DEF DropUnusable, AggTypeOK
<1>4. CASE Decide
  <2>1. /\ ~decided /\ decided' = TRUE /\ exposure' \in BOOLEAN /\ full' \in BOOLEAN
        /\ may_add' \in BOOLEAN
        /\ UNCHANGED <<selected, dropped>>
    BY <1>4 DEF Decide
  <2>2. AggTypes
    BY <1>0 DEF AggTypes, AggTypeOK
  <2>3. ASSUME NEW g \in CandidateGroups, DecideFor(g) PROVE AggBounds'
    <3>1. candidate' \in LiveSignals /\ g \subseteq DOMAIN selected
      BY <2>2, <2>3, CandidateFacts DEF DecideFor, Actionable
    <3>2. blockers' \subseteq {"suppressed", "block", "conflict", "exposure", "budget"}
      BY <2>3 DEF DecideFor, Blockers
    <3>3. proposed' \subseteq DOMAIN selected'
      BY <2>1, <2>3, <3>1 DEF DecideFor
    <3> QED BY <1>0, <2>1, <3>1, <3>2, <3>3, NoSignalAssumption DEF AggBounds, AggTypeOK
  <2>4. ASSUME blockers' = Blockers({}, exposure', full', may_add'),
               UNCHANGED <<candidate, proposed>>
        PROVE  AggBounds'
    <3>1. blockers' \subseteq {"suppressed", "block", "conflict", "exposure", "budget"}
      BY <2>4 DEF Blockers
    <3> QED BY <1>0, <2>1, <2>4, <3>1 DEF AggBounds, AggTypeOK
  <2> QED BY <1>4, <2>3, <2>4 DEF Decide
<1>5. CASE UNCHANGED agg_vars
  BY <1>5 DEF agg_vars, AggBounds, AggTypeOK
<1> QED BY <1>2, <1>3, <1>4, <1>5 DEF AggNext

\* The signals kept and suppressed, the candidate and its blockers stay in their types; no
\* sleeve loses more signals than a call has.
THEOREM AggregationTypeCorrect == AggSpec => []AggTypeOK
<1>1. AggBounds => AggTypeOK
  BY DEF AggBounds
<1> QED BY <1>1, AggBoundsInit, AggBoundsStep, PTL DEF AggSpec

-----------------------------------------------------------------------------
(* Target management: sums *)

Numbers(f, n) == \A i \in 1..n : f[i] \in Nat

IsSum(s, f, n) == s = [i \in 0..n |-> IF i = 0 THEN 0 ELSE s[i - 1] + f[i]]

LEMMA SumExists ==
    ASSUME NEW f, NEW N \in Nat, Numbers(f, N)
    PROVE  \E s \in [0..N -> Nat] : IsSum(s, f, N)
<1> DEFINE Good == {n \in Nat : n <= N => \E s \in [0..n -> Nat] : IsSum(s, f, n)}
<1>1. 0 \in Good
  <2>1. [i \in 0..0 |-> 0] \in [0..0 -> Nat] /\ IsSum([i \in 0..0 |-> 0], f, 0)
    BY DEF IsSum
  <2> QED BY <2>1
<1>2. ASSUME NEW n \in Nat, n \in Good PROVE n + 1 \in Good
  <2>1. SUFFICES ASSUME n + 1 <= N PROVE \E t \in [0..(n + 1) -> Nat] : IsSum(t, f, n + 1)
    OBVIOUS
  <2>2. PICK s \in [0..n -> Nat] : IsSum(s, f, n)
    BY <1>2, <2>1
  <2> DEFINE t == [i \in 0..(n + 1) |-> IF i = n + 1 THEN s[n] + f[n + 1] ELSE s[i]]
  <2>3. f[n + 1] \in Nat /\ s[n] \in Nat
    BY <2>1 DEF Numbers
  <2>4. t \in [0..(n + 1) -> Nat]
    BY <2>3
  <2>5. ASSUME NEW i \in 0..(n + 1) PROVE t[i] = IF i = 0 THEN 0 ELSE t[i - 1] + f[i]
    <3>1. CASE i = 0
      BY <2>2, <3>1 DEF IsSum
    <3>2. CASE i # 0 /\ i # n + 1
      <4>1. i \in 0..n /\ i - 1 \in 0..n /\ i - 1 \in 0..(n + 1) /\ i - 1 # n + 1
        BY <3>2
      <4>2. s[i] = s[i - 1] + f[i]
        BY <2>2, <3>2, <4>1 DEF IsSum
      <4> QED BY <3>2, <4>1, <4>2
    <3>3. CASE i = n + 1
      BY <3>3
    <3> QED BY <3>1, <3>2, <3>3
  <2>6. IsSum(t, f, n + 1)
    <3> HIDE DEF t
    <3> QED BY <2>4, <2>5 DEF IsSum
  <2> QED BY <2>4, <2>6
<1>3. \A n \in Nat : n \in Good
  <2> HIDE DEF Good
  <2> QED BY <1>1, <1>2, InductiveSet
<1> QED BY <1>3

\* Two sums of the same values agree where both are defined.
LEMMA SumsAgree ==
    ASSUME NEW f, NEW g, NEW s, NEW t, NEW m \in Nat, NEW n \in Nat, IsSum(s, f, m),
           IsSum(t, g, n), m <= n, \A i \in 1..m : f[i] = g[i]
    PROVE  \A i \in 0..m : s[i] = t[i]
<1> DEFINE Good == {i \in Nat : i <= m => s[i] = t[i]}
<1>1. 0 \in Good
  BY DEF IsSum
<1>2. ASSUME NEW i \in Nat, i \in Good PROVE i + 1 \in Good
  <2>1. SUFFICES ASSUME i + 1 <= m PROVE s[i + 1] = t[i + 1]
    OBVIOUS
  <2>2. i + 1 \in 0..m /\ i + 1 \in 0..n /\ i + 1 # 0 /\ (i + 1) - 1 = i /\ i + 1 \in 1..m
    BY <2>1
  <2>3. s[i + 1] = s[i] + f[i + 1] /\ t[i + 1] = t[i] + g[i + 1]
    BY <2>2 DEF IsSum
  <2>4. s[i] = t[i]
    BY <1>2, <2>1
  <2> QED BY <2>2, <2>3, <2>4
<1>3. \A i \in Nat : i \in Good
  <2> HIDE DEF Good
  <2> QED BY <1>1, <1>2, InductiveSet
<1> QED BY <1>3

LEMMA SumIs ==
    ASSUME NEW f, NEW n \in Nat, Numbers(f, n)
    PROVE  \E s \in [0..n -> Nat] : IsSum(s, f, n) /\ SumTo(f, n) = s[n]
<1> DEFINE sum == CHOOSE s : IsSum(s, f, n)
<1>1. SumTo(f, n) = sum[n]
  BY DEF SumTo, IsSum
<1>2. PICK s \in [0..n -> Nat] : IsSum(s, f, n)
  BY SumExists
<1>3. IsSum(sum, f, n)
  BY <1>2, Zenon
<1>4. \A i \in 0..n : s[i] = sum[i]
  <2> HIDE DEF sum
  <2> QED BY <1>2, <1>3, SumsAgree
<1> QED BY <1>1, <1>2, <1>4

LEMMA SumOfNone ==
    ASSUME NEW f
    PROVE  SumTo(f, 0) = 0
BY SumIs DEF Numbers, IsSum

LEMMA SumOfMore ==
    ASSUME NEW f, NEW n \in Nat, Numbers(f, n + 1)
    PROVE  SumTo(f, n) \in Nat /\ SumTo(f, n + 1) = SumTo(f, n) + f[n + 1]
<1>1. Numbers(f, n)
  BY DEF Numbers
<1>2. PICK s \in [0..n -> Nat] : IsSum(s, f, n) /\ SumTo(f, n) = s[n]
  BY <1>1, SumIs
<1>3. PICK t \in [0..(n + 1) -> Nat] : IsSum(t, f, n + 1) /\ SumTo(f, n + 1) = t[n + 1]
  BY SumIs
<1>4. s[n] = t[n]
  BY <1>2, <1>3, SumsAgree
<1>5. t[n + 1] = t[n] + f[n + 1]
  <2>1. n + 1 \in 0..(n + 1) /\ n + 1 # 0 /\ (n + 1) - 1 = n
    OBVIOUS
  <2> QED BY <1>3, <2>1 DEF IsSum
<1> QED BY <1>2, <1>3, <1>4, <1>5

LEMMA SumNat ==
    ASSUME NEW f, NEW n \in Nat, Numbers(f, n)
    PROVE  SumTo(f, n) \in Nat
BY SumIs

\* A sum depends on the values it adds.
LEMMA SumSame ==
    ASSUME NEW f, NEW g, NEW n \in Nat, Numbers(f, n), \A i \in 1..n : f[i] = g[i]
    PROVE  SumTo(f, n) = SumTo(g, n)
<1>1. Numbers(g, n)
  BY DEF Numbers
<1>2. PICK s \in [0..n -> Nat] : IsSum(s, f, n) /\ SumTo(f, n) = s[n]
  BY SumIs
<1>3. PICK t \in [0..n -> Nat] : IsSum(t, g, n) /\ SumTo(g, n) = t[n]
  BY <1>1, SumIs
<1> QED BY <1>2, <1>3, SumsAgree

\* What is taken from each value is taken from the sum.
LEMMA SumOfRest ==
    ASSUME NEW f, NEW g, NEW h, NEW N \in Nat, Numbers(f, N), Numbers(g, N), Numbers(h, N),
           \A i \in 1..N : f[i] = g[i] + h[i]
    PROVE  SumTo(f, N) = SumTo(g, N) + SumTo(h, N)
<1> DEFINE Good == {n \in Nat : n <= N => SumTo(f, n) = SumTo(g, n) + SumTo(h, n)}
<1>1. 0 \in Good
  BY SumOfNone
<1>2. ASSUME NEW n \in Nat, n \in Good PROVE n + 1 \in Good
  <2>1. SUFFICES ASSUME n + 1 <= N PROVE SumTo(f, n + 1) = SumTo(g, n + 1) + SumTo(h, n + 1)
    OBVIOUS
  <2>2. Numbers(f, n + 1) /\ Numbers(g, n + 1) /\ Numbers(h, n + 1) /\ n + 1 \in 1..N
    BY <2>1 DEF Numbers
  <2>3. /\ SumTo(f, n) \in Nat /\ SumTo(f, n + 1) = SumTo(f, n) + f[n + 1]
        /\ SumTo(g, n) \in Nat /\ SumTo(g, n + 1) = SumTo(g, n) + g[n + 1]
        /\ SumTo(h, n) \in Nat /\ SumTo(h, n + 1) = SumTo(h, n) + h[n + 1]
    BY <2>2, SumOfMore
  <2>4. f[n + 1] = g[n + 1] + h[n + 1] /\ g[n + 1] \in Nat /\ h[n + 1] \in Nat
    BY <2>2 DEF Numbers
  <2>5. SumTo(f, n) = SumTo(g, n) + SumTo(h, n)
    BY <1>2, <2>1
  <2> QED BY <2>3, <2>4, <2>5
<1>3. \A n \in Nat : n \in Good
  <2> HIDE DEF Good
  <2> QED BY <1>1, <1>2, InductiveSet
<1> QED BY <1>3

-----------------------------------------------------------------------------
(* Target management *)

Rows == [allocated : Nat, coverage : Nat,
         status : {"no_position", "target_missing", "target_stale", "target_covered"}]

OrderLots == [size : Nat, sold : Nat, low : BOOLEAN]

TgtTypes ==
    /\ position \in Nat /\ purchases \in Nat /\ free_lots \in Nat
    /\ entry_sizes \in Seq(Nat)
    /\ sell_orders \in Seq(OrderLots)
    /\ evidence \in Seq(Rows)
    /\ dealt \in BOOLEAN

OrderSizes == [i \in DOMAIN sell_orders |-> sell_orders[i].size]
AllocatedOf(rows) == [i \in DOMAIN rows |-> rows[i].allocated]
CoverageOf(rows) == [i \in DOMAIN rows |-> rows[i].coverage]

GoodRow(row) == row.status \in {"target_covered", "no_position"}

\* What is not yet in a row is still free.
AllDealt ==
    /\ ~dealt => free_lots + Allocated = Lots
    /\ ~dealt /\ entry_sizes = <<>> => evidence = <<>>
    /\ dealt => Len(evidence) >= Len(entry_sizes)

\* Good rows are covered in full until the orders are used up.
CoveredInTurn ==
    (\A i \in DOMAIN evidence : GoodRow(evidence[i])) =>
        /\ Allocated - Covered < MinSize
        /\ entry_sizes # <<>> => Allocated = Covered \/ Listed = 0

RowsWithinShares ==
    entry_sizes # <<>> =>
        \A i \in DOMAIN evidence : evidence[i].coverage <= evidence[i].allocated

TgtInv == TgtTypes /\ AllDealt /\ AllocationMatches /\ CoveredInTurn /\ RowsWithinShares

LEMMA ListIsSeq ==
    ASSUME NEW S, NEW n \in Nat, NEW f \in [1..n -> S]
    PROVE  f \in Seq(S) /\ Len(f) = n /\ DOMAIN f = 1..n
OBVIOUS

LEMMA OrderFacts ==
    ASSUME TgtTypes
    PROVE  /\ Len(sell_orders) \in Nat /\ DOMAIN sell_orders = 1..Len(sell_orders)
           /\ \A i \in DOMAIN sell_orders :
                sell_orders[i] \in OrderLots /\ OrderSizes[i] = sell_orders[i].size
           /\ Numbers(OrderSizes, Len(sell_orders))
           /\ Listed = SumTo(OrderSizes, Len(sell_orders)) /\ Listed \in Nat
<1>1. /\ Len(sell_orders) \in Nat /\ DOMAIN sell_orders = 1..Len(sell_orders)
      /\ \A i \in DOMAIN sell_orders : sell_orders[i] \in OrderLots
  BY DEF TgtTypes
<1>2. Listed = SumTo(OrderSizes, Len(sell_orders))
  BY DEF Listed, OrderSizes
<1>3. \A i \in DOMAIN sell_orders : OrderSizes[i] = sell_orders[i].size
  BY DEF OrderSizes
<1>4. Numbers(OrderSizes, Len(sell_orders))
  BY <1>1, <1>3 DEF Numbers, OrderLots
<1>5. Listed \in Nat
  BY <1>1, <1>2, <1>4, SumNat
<1> QED BY <1>1, <1>2, <1>3, <1>4, <1>5

\* The sums over the rows, and what a further row adds.
LEMMA RowSums ==
    ASSUME NEW rows \in Seq(Rows)
    PROVE  /\ SumTo(AllocatedOf(rows), Len(rows)) \in Nat
           /\ SumTo(CoverageOf(rows), Len(rows)) \in Nat
<1>1. /\ Len(rows) \in Nat /\ DOMAIN rows = 1..Len(rows)
      /\ \A i \in 1..Len(rows) : rows[i] \in Rows
  OBVIOUS
<1>2. Numbers(AllocatedOf(rows), Len(rows)) /\ Numbers(CoverageOf(rows), Len(rows))
  BY <1>1 DEF Numbers, AllocatedOf, CoverageOf, Rows
<1> QED BY <1>1, <1>2, SumNat

LEMMA RowAppended ==
    ASSUME NEW rows \in Seq(Rows), NEW row \in Rows, NEW more, more = Append(rows, row)
    PROVE  /\ more \in Seq(Rows)
           /\ SumTo(AllocatedOf(more), Len(more)) =
                SumTo(AllocatedOf(rows), Len(rows)) + row.allocated
           /\ SumTo(CoverageOf(more), Len(more)) =
                SumTo(CoverageOf(rows), Len(rows)) + row.coverage
<1> DEFINE n == Len(rows)
<1>1. /\ n \in Nat /\ DOMAIN rows = 1..n /\ \A i \in 1..n : rows[i] \in Rows
      /\ more \in Seq(Rows) /\ Len(more) = n + 1 /\ DOMAIN more = 1..(n + 1)
      /\ more[n + 1] = row /\ \A i \in 1..n : more[i] = rows[i]
  OBVIOUS
<1> HIDE DEF n
<1>2. \A i \in 1..(n + 1) : more[i].allocated \in Nat /\ more[i].coverage \in Nat
  <2>1. \A i \in 1..(n + 1) : more[i] \in Rows
    BY <1>1
  <2> QED BY <2>1 DEF Rows
<1>3. Numbers(AllocatedOf(more), n + 1) /\ Numbers(CoverageOf(more), n + 1)
  BY <1>1, <1>2 DEF Numbers, AllocatedOf, CoverageOf
<1>4. /\ SumTo(AllocatedOf(more), n + 1) = SumTo(AllocatedOf(more), n) + row.allocated
      /\ SumTo(CoverageOf(more), n + 1) = SumTo(CoverageOf(more), n) + row.coverage
  <2>1. AllocatedOf(more)[n + 1] = row.allocated /\ CoverageOf(more)[n + 1] = row.coverage
    BY <1>1 DEF AllocatedOf, CoverageOf
  <2> QED BY <1>1, <1>3, <2>1, SumOfMore
<1>5. Numbers(AllocatedOf(more), n) /\ Numbers(CoverageOf(more), n)
  BY <1>1, <1>3 DEF Numbers
<1>6. \A i \in 1..n : AllocatedOf(more)[i] = AllocatedOf(rows)[i]
                      /\ CoverageOf(more)[i] = CoverageOf(rows)[i]
  BY <1>1 DEF AllocatedOf, CoverageOf
<1>7. /\ SumTo(AllocatedOf(more), n) = SumTo(AllocatedOf(rows), n)
      /\ SumTo(CoverageOf(more), n) = SumTo(CoverageOf(rows), n)
  BY <1>1, <1>5, <1>6, SumSame
<1> QED BY <1>1, <1>4, <1>7 DEF n

\* The orders are dealt in turn: a row gets all it needs, or all that is left.
LEMMA DealtSum ==
    ASSUME TgtTypes, NEW need \in Nat
    PROVE  /\ \A i \in 1..Len(sell_orders) :
                Dealt(need)[i] \in Nat /\ Dealt(need)[i] <= OrderSizes[i]
           /\ SumTo(Dealt(need), Len(sell_orders)) = Lesser(need, Listed)
<1> DEFINE N == Len(sell_orders)
           taken == Dealt(need)
<1>1. /\ N \in Nat /\ DOMAIN sell_orders = 1..N /\ Numbers(OrderSizes, N)
      /\ Listed = SumTo(OrderSizes, N)
  BY OrderFacts
<1>2. ASSUME NEW i \in 1..N
      PROVE  /\ SumTo(OrderSizes, i - 1) \in Nat /\ OrderSizes[i] \in Nat
             /\ taken[i] = IF SumTo(OrderSizes, i - 1) >= need THEN 0
                           ELSE Lesser(OrderSizes[i], need - SumTo(OrderSizes, i - 1))
  <2>1. i - 1 \in Nat /\ Numbers(OrderSizes, i - 1) /\ OrderSizes[i] \in Nat
    BY <1>1 DEF Numbers
  <2>2. SumTo(OrderSizes, i - 1) \in Nat
    BY <2>1, SumNat
  <2> QED BY <1>1, <2>1, <2>2, OrderFacts DEF Dealt, OrderSizes
<1> HIDE DEF taken, N
<1>3. \A i \in 1..N : taken[i] \in Nat /\ taken[i] <= OrderSizes[i]
  BY <1>2 DEF Lesser
<1>4. Numbers(taken, N)
  BY <1>3 DEF Numbers
<1> DEFINE Good == {n \in Nat : n <= N =>
                        SumTo(taken, n) = Lesser(need, SumTo(OrderSizes, n))}
<1>5. 0 \in Good
  BY SumOfNone DEF Lesser
<1>6. ASSUME NEW n \in Nat, n \in Good PROVE n + 1 \in Good
  <2>1. SUFFICES ASSUME n + 1 <= N
                 PROVE  SumTo(taken, n + 1) = Lesser(need, SumTo(OrderSizes, n + 1))
    OBVIOUS
  <2>2. n + 1 \in 1..N /\ (n + 1) - 1 = n /\ Numbers(taken, n + 1) /\ Numbers(OrderSizes, n + 1)
    BY <1>1, <1>4, <2>1 DEF Numbers
  <2>3. /\ SumTo(taken, n) \in Nat /\ SumTo(taken, n + 1) = SumTo(taken, n) + taken[n + 1]
        /\ SumTo(OrderSizes, n) \in Nat
        /\ SumTo(OrderSizes, n + 1) = SumTo(OrderSizes, n) + OrderSizes[n + 1]
    BY <2>2, SumOfMore
  <2>4. SumTo(taken, n) = Lesser(need, SumTo(OrderSizes, n))
    BY <1>6, <1>1, <2>1
  <2>5. /\ OrderSizes[n + 1] \in Nat
        /\ taken[n + 1] = IF SumTo(OrderSizes, n) >= need THEN 0
                          ELSE Lesser(OrderSizes[n + 1], need - SumTo(OrderSizes, n))
    BY <1>2, <2>2
  <2> QED BY <2>3, <2>4, <2>5 DEF Lesser
<1>7. \A n \in Nat : n \in Good
  <2> HIDE DEF Good
  <2> QED BY <1>5, <1>6, InductiveSet
<1>8. SumTo(taken, N) = Lesser(need, Listed)
  BY <1>1, <1>7
<1> QED BY <1>3, <1>8 DEF taken, N

LEMMA StatusFacts ==
    ASSUME NEW allocated \in Nat, NEW coverage \in Nat, NEW stale \in BOOLEAN
    PROVE  /\ Status(allocated, coverage, stale) \in
                {"no_position", "target_missing", "target_stale", "target_covered"}
           /\ Status(allocated, coverage, stale) \in {"target_covered", "no_position"} =>
                allocated = 0 \/ (coverage > 0 /\ allocated - coverage < MinSize)
<1>1. CASE allocated = 0
  <2>1. Status(allocated, coverage, stale) = "no_position"
    BY <1>1 DEF Status
  <2> QED BY <1>1, <2>1
<1>2. CASE allocated > 0 /\ coverage = 0
  <2>1. Status(allocated, coverage, stale) = "target_missing"
    BY <1>2 DEF Status
  <2> QED BY <2>1
<1>3. CASE allocated > 0 /\ coverage > 0 /\ stale
  <2>1. Status(allocated, coverage, stale) = "target_stale"
    BY <1>3 DEF Status
  <2> QED BY <2>1
<1>4. CASE allocated > 0 /\ coverage > 0 /\ ~stale
  <2>1. Status(allocated, coverage, stale) =
            IF allocated - coverage >= MinSize THEN "target_missing" ELSE "target_covered"
    BY <1>4 DEF Status
  <2>2. MinSize \in Nat
    BY TargetAssumption
  <2> QED BY <1>4, <2>1, <2>2
<1> QED BY <1>1, <1>2, <1>3, <1>4

\* What the row of a sleeve has, and what is left after it.
LEMMA DealFacts ==
    ASSUME TgtTypes, NEW wanted \in Nat, Deal(wanted)
    PROVE  \E row \in Rows :
             /\ evidence' = Append(evidence, row)
             /\ row.allocated = Lesser(wanted, free_lots)
             /\ free_lots' = free_lots - row.allocated /\ free_lots' \in Nat
             /\ row.coverage = Lesser(row.allocated, Listed)
             /\ Listed' = Listed - row.coverage
             /\ GoodRow(row) => row.allocated = 0
                    \/ (row.coverage > 0 /\ row.allocated - row.coverage < MinSize)
             /\ sell_orders' \in Seq(OrderLots)
<1> DEFINE N == Len(sell_orders)
           allocated == Lesser(wanted, free_lots)
           taken == Dealt(allocated)
           coverage == SumTo(taken, N)
           stale == \E i \in DOMAIN sell_orders : taken[i] > 0 /\ sell_orders[i].low
           row == [allocated |-> allocated, coverage |-> coverage,
                   status |-> Status(allocated, coverage, stale)]
<1>1. allocated \in Nat /\ allocated <= free_lots /\ free_lots \in Nat
  BY DEF TgtTypes, Lesser
<1>2. /\ evidence' = Append(evidence, row)
      /\ free_lots' = free_lots - allocated
      /\ sell_orders' = [i \in DOMAIN sell_orders |->
                            [sell_orders[i] EXCEPT !.size = @ - taken[i]]]
  BY DEF Deal
<1> HIDE DEF allocated
<1>3. /\ \A i \in 1..N : taken[i] \in Nat /\ taken[i] <= OrderSizes[i]
      /\ coverage = Lesser(allocated, Listed)
  BY <1>1, DealtSum
<1>4. /\ N \in Nat /\ DOMAIN sell_orders = 1..N /\ Numbers(OrderSizes, N)
      /\ Listed = SumTo(OrderSizes, N) /\ Listed \in Nat
      /\ \A i \in 1..N : sell_orders[i] \in OrderLots
                         /\ OrderSizes[i] = sell_orders[i].size
  BY OrderFacts
<1>5. coverage \in Nat
  BY <1>1, <1>3, <1>4 DEF Lesser
<1>6. Status(allocated, coverage, stale) \in
            {"no_position", "target_missing", "target_stale", "target_covered"}
      /\ (GoodRow(row) => allocated = 0 \/ (coverage > 0 /\ allocated - coverage < MinSize))
  <2> HIDE DEF coverage, stale
  <2>1. stale \in BOOLEAN
    BY DEF stale
  <2> QED BY <1>1, <1>5, <2>1, StatusFacts DEF GoodRow
<1> HIDE DEF coverage, stale, taken, N
<1>7. row \in Rows
  BY <1>1, <1>5, <1>6 DEF Rows
<1>8. \A i \in 1..N : sell_orders'[i] \in OrderLots
                      /\ sell_orders'[i].size = OrderSizes[i] - taken[i]
  <2> SUFFICES ASSUME NEW i \in 1..N
               PROVE  sell_orders'[i] \in OrderLots
                      /\ sell_orders'[i].size = OrderSizes[i] - taken[i]
    OBVIOUS
  <2>1. sell_orders'[i] = [sell_orders[i] EXCEPT !.size = @ - taken[i]]
    BY <1>2, <1>4
  <2>2. sell_orders[i].size - taken[i] \in Nat
    BY <1>3, <1>4 DEF OrderLots
  <2> QED BY <1>4, <2>1, <2>2 DEF OrderLots
<1>9. sell_orders' \in Seq(OrderLots) /\ Len(sell_orders') = N
      /\ DOMAIN sell_orders' = 1..N
  <2>1. sell_orders' \in [1..N -> OrderLots]
    BY <1>2, <1>4, <1>8
  <2> QED BY <1>4, <2>1, ListIsSeq
<1>10. Listed' = Listed - coverage
  <2> DEFINE after == [i \in DOMAIN sell_orders' |-> sell_orders'[i].size]
  <2>1. Listed' = SumTo(after, N)
    BY <1>9 DEF Listed
  <2>2. ASSUME NEW i \in 1..N
        PROVE  /\ after[i] \in Nat /\ taken[i] \in Nat
               /\ OrderSizes[i] = after[i] + taken[i]
    <3>1. after[i] = OrderSizes[i] - taken[i]
      BY <1>8, <1>9
    <3>2. OrderSizes[i] \in Nat /\ taken[i] \in Nat /\ taken[i] <= OrderSizes[i]
      BY <1>3, <1>4 DEF Numbers
    <3> QED BY <3>1, <3>2
  <2> HIDE DEF after
  <2>3. Numbers(after, N) /\ Numbers(taken, N)
    BY <2>2 DEF Numbers
  <2>4. SumTo(OrderSizes, N) = SumTo(after, N) + SumTo(taken, N)
    BY <1>4, <2>2, <2>3, SumOfRest
  <2>5. SumTo(after, N) \in Nat
    BY <1>4, <2>3, SumNat
  <2> QED BY <1>4, <1>5, <2>1, <2>4, <2>5 DEF coverage
<1>11. /\ row.allocated = allocated /\ row.coverage = coverage
  OBVIOUS
<1>12. free_lots' \in Nat
  BY <1>1, <1>2
<1> HIDE DEF row
<1> QED BY <1>2, <1>3, <1>6, <1>7, <1>9, <1>10, <1>11, <1>12 DEF allocated

LEMMA SumsOfEvidence ==
    /\ Allocated = SumTo(AllocatedOf(evidence), Len(evidence))
    /\ Covered = SumTo(CoverageOf(evidence), Len(evidence))
BY DEF Allocated, Covered, AllocatedOf, CoverageOf

LEMMA EvidenceFacts ==
    ASSUME TgtTypes
    PROVE  /\ Allocated \in Nat /\ Covered \in Nat
           /\ Len(evidence) \in Nat /\ DOMAIN evidence = 1..Len(evidence)
           /\ \A i \in DOMAIN evidence : evidence[i] \in Rows
           /\ evidence = <<>> => Allocated = 0 /\ Covered = 0
<1>1. /\ Allocated \in Nat /\ Covered \in Nat
  BY RowSums, SumsOfEvidence DEF TgtTypes
<1>2. /\ Len(evidence) \in Nat /\ DOMAIN evidence = 1..Len(evidence)
      /\ \A i \in DOMAIN evidence : evidence[i] \in Rows
  BY DEF TgtTypes
<1>3. evidence = <<>> => Allocated = 0 /\ Covered = 0
  BY SumOfNone, SumsOfEvidence
<1> QED BY <1>1, <1>2, <1>3

\* A further row.
LEMMA RowAdded ==
    ASSUME TgtTypes, NEW row \in Rows, evidence' = Append(evidence, row)
    PROVE  /\ evidence' \in Seq(Rows) /\ Len(evidence') = Len(evidence) + 1
           /\ Allocated' = Allocated + row.allocated
           /\ Covered' = Covered + row.coverage
           /\ DOMAIN evidence' = 1..(Len(evidence) + 1)
           /\ evidence'[Len(evidence) + 1] = row
           /\ \A i \in DOMAIN evidence : i \in DOMAIN evidence' /\ evidence'[i] = evidence[i]
<1> DEFINE more == evidence'
<1>1. /\ more \in Seq(Rows)
      /\ SumTo(AllocatedOf(more), Len(more)) = Allocated + row.allocated
      /\ SumTo(CoverageOf(more), Len(more)) = Covered + row.coverage
  <2>1. evidence \in Seq(Rows) /\ more = Append(evidence, row)
    BY DEF TgtTypes
  <2> HIDE DEF more
  <2> QED BY <2>1, RowAppended, SumsOfEvidence
<1>2. /\ Allocated' = SumTo(AllocatedOf(more), Len(more))
      /\ Covered' = SumTo(CoverageOf(more), Len(more))
  BY DEF Allocated, Covered, AllocatedOf, CoverageOf
<1>3. /\ Len(evidence') = Len(evidence) + 1 /\ DOMAIN evidence' = 1..(Len(evidence) + 1)
      /\ evidence'[Len(evidence) + 1] = row
      /\ \A i \in DOMAIN evidence : i \in DOMAIN evidence' /\ evidence'[i] = evidence[i]
  BY DEF TgtTypes
<1> QED BY <1>1, <1>2, <1>3

LEMMA DealStep ==
    ASSUME TgtInv, NEW wanted \in Nat, Deal(wanted), entry_sizes # <<>>, ~dealt,
           UNCHANGED <<position, purchases, entry_sizes>>, dealt' \in BOOLEAN
    PROVE  /\ TgtTypes' /\ CoveredInTurn' /\ RowsWithinShares'
           /\ free_lots' + Allocated' = Lots
           /\ wanted >= free_lots => free_lots' = 0
           /\ Len(evidence') = Len(evidence) + 1
           /\ Covered' - Covered = Listed - Listed'
<1>1. TgtTypes /\ free_lots \in Nat
  BY DEF TgtInv, TgtTypes
<1>2. PICK row \in Rows :
        /\ evidence' = Append(evidence, row)
        /\ row.allocated = Lesser(wanted, free_lots)
        /\ free_lots' = free_lots - row.allocated /\ free_lots' \in Nat
        /\ row.coverage = Lesser(row.allocated, Listed)
        /\ Listed' = Listed - row.coverage
        /\ GoodRow(row) => row.allocated = 0
               \/ (row.coverage > 0 /\ row.allocated - row.coverage < MinSize)
        /\ sell_orders' \in Seq(OrderLots)
  BY <1>1, DealFacts
<1>3. row.allocated \in Nat /\ row.coverage \in Nat
  BY DEF Rows
<1>4. Listed \in Nat /\ Allocated \in Nat /\ Covered \in Nat /\ MinSize \in Nat /\ MinSize > 0
  BY <1>1, OrderFacts, EvidenceFacts, TargetAssumption
<1>5. /\ evidence' \in Seq(Rows) /\ Len(evidence') = Len(evidence) + 1
      /\ Allocated' = Allocated + row.allocated
      /\ Covered' = Covered + row.coverage
      /\ DOMAIN evidence' = 1..(Len(evidence) + 1)
      /\ evidence'[Len(evidence) + 1] = row
      /\ \A i \in DOMAIN evidence : i \in DOMAIN evidence' /\ evidence'[i] = evidence[i]
  BY <1>1, <1>2, RowAdded
<1>6. TgtTypes'
  BY <1>1, <1>2, <1>5 DEF TgtTypes
<1>7. /\ row.coverage = IF row.allocated <= Listed THEN row.allocated ELSE Listed
      /\ Listed' = Listed - row.coverage
      /\ Allocated' = Allocated + row.allocated
      /\ Covered' = Covered + row.coverage
  BY <1>2, <1>5 DEF Lesser
<1>8. free_lots' + Allocated' = Lots
  <2>1. free_lots + Allocated = Lots
    BY DEF TgtInv, AllDealt
  <2>2. free_lots' = free_lots - row.allocated /\ Allocated' = Allocated + row.allocated
    BY <1>2, <1>5
  <2> QED BY <1>1, <1>3, <1>4, <2>1, <2>2
<1>9. wanted >= free_lots => free_lots' = 0
  BY <1>1, <1>2 DEF Lesser
<1>10. CoveredInTurn'
  <2> SUFFICES ASSUME \A i \in DOMAIN evidence' : GoodRow(evidence'[i])
               PROVE  /\ Allocated' - Covered' < MinSize
                      /\ Allocated' = Covered' \/ Listed' = 0
    BY DEF CoveredInTurn
  <2>1. /\ Allocated - Covered < MinSize
        /\ Allocated = Covered \/ Listed = 0
    BY <1>5 DEF TgtInv, CoveredInTurn
  <2>2. row.allocated = 0
            \/ (row.coverage > 0 /\ row.allocated - row.coverage < MinSize)
    <3>1. Len(evidence) + 1 \in DOMAIN evidence'
      BY <1>1, <1>5, EvidenceFacts
    <3>2. GoodRow(row)
      BY <1>5, <3>1
    <3> QED BY <1>2, <3>2
  <2>3. CASE Listed = 0
    <3>1. row.coverage = 0 /\ row.allocated = 0
      BY <1>3, <1>7, <2>2, <2>3
    <3>2. Allocated' = Allocated /\ Covered' = Covered /\ Listed' = 0
      BY <1>4, <1>7, <2>3, <3>1
    <3> QED BY <2>1, <3>2
  <2>4. CASE Allocated = Covered /\ row.allocated <= Listed
    <3>1. row.coverage = row.allocated
      BY <1>7, <2>4
    <3>2. Allocated' = Covered' /\ Covered' = Allocated + row.allocated
      BY <1>7, <2>4, <3>1
    <3> QED BY <1>3, <1>4, <3>2
  <2>5. CASE Allocated = Covered /\ ~(row.allocated <= Listed)
    <3>1. row.coverage = Listed /\ Listed' = 0 /\ row.allocated # 0
      BY <1>3, <1>4, <1>7, <2>5
    <3>2. row.allocated - row.coverage < MinSize
      BY <2>2, <3>1
    <3>3. Allocated' - Covered' = row.allocated - row.coverage
      BY <1>3, <1>4, <1>7, <2>5
    <3> QED BY <3>1, <3>2, <3>3
  <2> QED BY <2>1, <2>3, <2>4, <2>5
<1>11. RowsWithinShares'
  <2>1. row.coverage <= row.allocated
    BY <1>3, <1>4, <1>7
  <2>2. ASSUME NEW i \in DOMAIN evidence' PROVE evidence'[i].coverage <= evidence'[i].allocated
    <3>1. CASE i \in DOMAIN evidence
      BY <1>5, <3>1 DEF TgtInv, RowsWithinShares
    <3>2. CASE i \notin DOMAIN evidence
      <4>1. i = Len(evidence) + 1
        BY <1>1, <1>5, <3>2, EvidenceFacts
      <4> QED BY <1>5, <2>1, <4>1
    <3> QED BY <3>1, <3>2
  <2> QED BY <2>2 DEF RowsWithinShares
<1>12. Covered' - Covered = Listed - Listed'
  BY <1>3, <1>4, <1>7
<1> QED BY <1>5, <1>6, <1>8, <1>9, <1>10, <1>11, <1>12

LEMMA TgtInvInit == TargetInit => TgtInv
<1> SUFFICES ASSUME TargetInit PROVE TgtInv
  OBVIOUS
<1>1. /\ Shares \subseteq Nat /\ SellOrders \subseteq OrderLots
      /\ position \in Nat /\ purchases \in Nat
  BY TargetAssumption DEF TargetInit, Shares, SellOrders, OrderLots
<1>2. entry_sizes \in Seq(Nat)
  <2>1. PICK n \in 0..PlanSleeves : entry_sizes \in [1..n -> Shares]
    BY DEF TargetInit
  <2>2. n \in Nat
    BY TargetAssumption
  <2>3. entry_sizes \in [1..n -> Nat]
    BY <1>1, <2>1
  <2> QED BY <2>2, <2>3, ListIsSeq
<1>3. sell_orders \in Seq(OrderLots)
  <2>1. PICK n \in 0..OrderCount : sell_orders \in [1..n -> SellOrders]
    BY DEF TargetInit
  <2>2. n \in Nat /\ sell_orders \in [1..n -> OrderLots]
    BY <1>1, <2>1, TargetAssumption
  <2> QED BY <2>2, ListIsSeq
<1>4. free_lots = Lots /\ Lots \in Nat /\ evidence = <<>> /\ dealt = FALSE
  BY <1>1 DEF TargetInit, Lots
<1>5. TgtTypes
  <2>1. <<>> \in Seq(Rows)
    OBVIOUS
  <2> QED BY <1>1, <1>2, <1>3, <1>4, <2>1 DEF TgtTypes
<1>6. Allocated = 0 /\ Covered = 0 /\ DOMAIN evidence = {}
  BY <1>4, <1>5, EvidenceFacts
<1>7. AllDealt /\ AllocationMatches /\ RowsWithinShares
  BY <1>4, <1>6 DEF AllDealt, AllocationMatches, RowsWithinShares
<1>8. CoveredInTurn
  BY <1>6, TargetAssumption DEF CoveredInTurn
<1> QED BY <1>5, <1>7, <1>8 DEF TgtInv

LEMMA PlanFacts ==
    ASSUME TgtTypes
    PROVE  /\ Len(entry_sizes) \in Nat /\ \A i \in 1..Len(entry_sizes) : entry_sizes[i] \in Nat
           /\ Len(entry_sizes) = 0 => entry_sizes = <<>>
BY DEF TgtTypes

LEMMA DealToSleeveStep ==
    ASSUME TgtInv, DealToSleeve
    PROVE  TgtInv' /\ Covered' - Covered = Listed - Listed'
<1>1. TgtTypes /\ free_lots \in Nat /\ dealt \in BOOLEAN
  BY DEF TgtInv, TgtTypes
<1>2. Len(evidence) \in Nat /\ Len(entry_sizes) \in Nat /\ Len(evidence) < Len(entry_sizes)
      /\ Len(evidence) + 1 \in 1..Len(entry_sizes)
  BY <1>1, EvidenceFacts, PlanFacts DEF DealToSleeve
<1>3. entry_sizes # <<>> /\ ~dealt /\ dealt' = dealt
      /\ UNCHANGED <<position, purchases, entry_sizes>>
  <2>1. entry_sizes # <<>>
    BY <1>2
  <2>2. ~dealt
    BY <1>2 DEF TgtInv, AllDealt
  <2> QED BY <2>1, <2>2 DEF DealToSleeve
<1>4. PICK wanted \in Nat : Deal(wanted)
  <2>1. entry_sizes[Len(evidence) + 1] \in Nat
    BY <1>1, <1>2, PlanFacts
  <2> QED BY <1>1, <2>1 DEF DealToSleeve
<1>5. /\ TgtTypes' /\ CoveredInTurn' /\ RowsWithinShares'
      /\ free_lots' + Allocated' = Lots
      /\ Covered' - Covered = Listed - Listed'
  BY <1>1, <1>3, <1>4, DealStep
<1>6. AllDealt' /\ AllocationMatches'
  BY <1>3, <1>5 DEF AllDealt, AllocationMatches, Lots
<1> QED BY <1>5, <1>6 DEF TgtInv

LEMMA DealExcessStep ==
    ASSUME TgtInv, DealExcess
    PROVE  TgtInv' /\ Covered' - Covered = Listed - Listed'
<1>1. TgtTypes /\ free_lots \in Nat /\ Allocated \in Nat /\ Covered \in Nat /\ Listed \in Nat
      /\ Len(evidence) \in Nat
  BY EvidenceFacts, OrderFacts DEF TgtInv, TgtTypes
<1>2. /\ entry_sizes # <<>> /\ ~dealt /\ dealt' = TRUE /\ Len(evidence) = Len(entry_sizes)
      /\ UNCHANGED <<position, purchases, entry_sizes>>
  BY DEF DealExcess
<1>3. CASE free_lots > 0
  <2>1. Deal(free_lots)
    BY <1>3 DEF DealExcess
  <2>2. /\ TgtTypes' /\ CoveredInTurn' /\ RowsWithinShares'
        /\ free_lots' + Allocated' = Lots
        /\ free_lots >= free_lots => free_lots' = 0
        /\ Len(evidence') = Len(evidence) + 1
        /\ Covered' - Covered = Listed - Listed'
    BY <1>1, <1>2, <2>1, DealStep
  <2>3. Allocated' = Lots
    <3>1. free_lots' = 0 /\ Allocated' \in Nat
      <4>1. Allocated' \in Nat
        <5> DEFINE more == evidence'
        <5>1. more \in Seq(Rows)
          BY <2>2 DEF TgtTypes
        <5>2. SumTo(AllocatedOf(more), Len(more)) \in Nat
          <6> HIDE DEF more
          <6> QED BY <5>1, RowSums
        <5> QED BY <5>2 DEF Allocated, AllocatedOf
      <4> QED BY <1>1, <2>2, <4>1
    <3> QED BY <2>2, <3>1
  <2>4. AllDealt' /\ AllocationMatches'
    BY <1>1, <1>2, <2>2, <2>3 DEF AllDealt, AllocationMatches, Lots, TgtInv, TgtTypes
  <2> QED BY <2>2, <2>4 DEF TgtInv
<1>4. CASE ~(free_lots > 0)
  <2>1. UNCHANGED <<free_lots, evidence, sell_orders>>
    BY <1>4 DEF DealExcess
  <2>2. Allocated' = Allocated /\ Covered' = Covered /\ Listed' = Listed
    BY <2>1 DEF Allocated, Covered, Listed
  <2>3. Allocated = Lots
    BY <1>1, <1>2, <1>4 DEF TgtInv, AllDealt
  <2>4. AllDealt' /\ AllocationMatches'
    BY <1>1, <1>2, <2>1, <2>2, <2>3 DEF AllDealt, AllocationMatches, Lots, TgtInv, TgtTypes
  <2>5. TgtTypes' /\ CoveredInTurn' /\ RowsWithinShares'
    BY <1>2, <2>1, <2>2 DEF TgtInv, TgtTypes, CoveredInTurn, RowsWithinShares
  <2> QED BY <1>1, <2>2, <2>4, <2>5 DEF TgtInv
<1> QED BY <1>3, <1>4

LEMMA SumOfZeros ==
    ASSUME NEW f, NEW n \in Nat, \A i \in 1..n : f[i] = 0
    PROVE  SumTo(f, n) = 0
<1>1. Numbers(f, n) /\ \A i \in 1..n : f[i] = f[i] + f[i]
  BY DEF Numbers
<1>2. SumTo(f, n) \in Nat /\ SumTo(f, n) = SumTo(f, n) + SumTo(f, n)
  BY <1>1, SumNat, SumOfRest
<1>3. \A x \in Nat : x = x + x => x = 0
  OBVIOUS
<1> QED BY <1>2, <1>3

LEMMA DealUnmappedStep ==
    ASSUME TgtInv, DealUnmapped
    PROVE  TgtInv' /\ Covered' - Covered = Listed - Listed'
<1>1. TgtTypes /\ position \in Nat /\ purchases \in Nat
  BY DEF TgtInv, TgtTypes
<1>2. /\ entry_sizes = <<>> /\ ~dealt /\ dealt' = TRUE
      /\ UNCHANGED <<position, purchases, entry_sizes>>
  BY DEF DealUnmapped
<1>3. evidence = <<>> /\ Allocated = 0 /\ Covered = 0 /\ Listed \in Nat /\ Len(entry_sizes) = 0
  BY <1>1, <1>2, EvidenceFacts, OrderFacts DEF TgtInv, AllDealt
<1>4. CASE position > 0
  <2> DEFINE row == UnmappedRow
  <2>1. /\ evidence' = <<row>> /\ free_lots' = 0
        /\ sell_orders' = [i \in DOMAIN sell_orders |-> [sell_orders[i] EXCEPT !.size = 0]]
    BY <1>4 DEF DealUnmapped
  <2>2. /\ row \in Rows /\ row.allocated = position /\ row.coverage = Listed
        /\ GoodRow(row) => position - Listed < MinSize
    <3> DEFINE low == \E i \in DOMAIN sell_orders :
                        sell_orders[i].size > 0 /\ sell_orders[i].low
    <3>1. row = [allocated |-> position, coverage |-> Listed,
                 status |-> Status(position, Listed, low)]
      BY DEF UnmappedRow
    <3>2. low \in BOOLEAN
      OBVIOUS
    <3> HIDE DEF low, row
    <3>3. /\ Status(position, Listed, low) \in
                {"no_position", "target_missing", "target_stale", "target_covered"}
          /\ Status(position, Listed, low) \in {"target_covered", "no_position"} =>
                position = 0 \/ (Listed > 0 /\ position - Listed < MinSize)
      BY <1>1, <1>3, <3>2, StatusFacts
    <3> QED BY <1>1, <1>3, <1>4, <3>1, <3>3 DEF Rows, GoodRow
  <2> HIDE DEF row
  <2>3. evidence' = Append(evidence, row)
    BY <1>3, <2>1
  <2>4. /\ evidence' \in Seq(Rows) /\ Len(evidence') = Len(evidence) + 1
        /\ Allocated' = Allocated + row.allocated
        /\ Covered' = Covered + row.coverage
        /\ DOMAIN evidence' = 1..(Len(evidence) + 1)
        /\ evidence'[Len(evidence) + 1] = row
    BY <1>1, <2>2, <2>3, RowAdded
  <2>5. Allocated' = position /\ Covered' = Listed
    BY <1>1, <1>3, <2>2, <2>4
  <2>6. /\ sell_orders' \in Seq(OrderLots) /\ Listed' = 0
    <3> DEFINE N == Len(sell_orders)
               after == [i \in DOMAIN sell_orders' |-> sell_orders'[i].size]
    <3>1. /\ N \in Nat /\ DOMAIN sell_orders = 1..N
          /\ \A i \in 1..N : sell_orders[i] \in OrderLots
      BY <1>1, OrderFacts
    <3>2. \A i \in 1..N : sell_orders'[i] \in OrderLots /\ sell_orders'[i].size = 0
      BY <2>1, <3>1 DEF OrderLots
    <3>3. sell_orders' \in [1..N -> OrderLots]
      BY <2>1, <3>1, <3>2
    <3>4. sell_orders' \in Seq(OrderLots) /\ Len(sell_orders') = N /\ DOMAIN sell_orders' = 1..N
      BY <3>1, <3>3, ListIsSeq
    <3>5. Listed' = SumTo(after, N)
      BY <3>4 DEF Listed
    <3>6. \A i \in 1..N : after[i] = 0
      BY <3>2, <3>4
    <3>7. SumTo(after, N) = 0
      <4> HIDE DEF after, N
      <4> QED BY <3>1, <3>6, SumOfZeros
    <3> QED BY <3>4, <3>5, <3>7
  <2>7. TgtTypes'
    BY <1>1, <1>2, <2>1, <2>4, <2>6 DEF TgtTypes
  <2>8. AllDealt' /\ AllocationMatches' /\ RowsWithinShares'
    BY <1>2, <1>3, <1>4, <2>4, <2>5 DEF AllDealt, AllocationMatches, RowsWithinShares
  <2>9. CoveredInTurn'
    <3>1. Len(evidence) + 1 \in DOMAIN evidence'
      BY <1>1, <2>4, EvidenceFacts
    <3> QED BY <1>2, <2>2, <2>4, <2>5, <3>1 DEF CoveredInTurn
  <2> QED BY <1>3, <2>5, <2>6, <2>7, <2>8, <2>9 DEF TgtInv
<1>5. CASE ~(position > 0)
  <2>1. UNCHANGED <<free_lots, evidence, sell_orders>>
    BY <1>5 DEF DealUnmapped
  <2>2. Allocated' = 0 /\ Covered' = Covered /\ Listed' = Listed
    BY <1>3, <2>1 DEF Allocated, Covered, Listed
  <2>3. AllDealt' /\ AllocationMatches'
    BY <1>1, <1>2, <1>3, <1>5, <2>1, <2>2 DEF AllDealt, AllocationMatches
  <2>4. TgtTypes' /\ CoveredInTurn' /\ RowsWithinShares'
    BY <1>2, <1>3, <2>1, <2>2 DEF TgtInv, TgtTypes, CoveredInTurn, RowsWithinShares
  <2> QED BY <1>3, <2>2, <2>3, <2>4 DEF TgtInv
<1> QED BY <1>4, <1>5

LEMMA TgtStutter ==
    ASSUME TgtInv, UNCHANGED tgt_vars
    PROVE  TgtInv' /\ Covered' = Covered /\ Listed' = Listed
<1>1. Allocated' = Allocated /\ Covered' = Covered /\ Listed' = Listed /\ Lots' = Lots
  BY DEF tgt_vars, Allocated, Covered, Listed, Lots
<1> QED BY <1>1 DEF tgt_vars, TgtInv, TgtTypes, AllDealt, AllocationMatches, CoveredInTurn,
                    RowsWithinShares

LEMMA TgtInvStep == TgtInv /\ [TargetNext]_tgt_vars => TgtInv'
BY DealToSleeveStep, DealExcessStep, DealUnmappedStep, TgtStutter DEF TargetNext

LEMMA TgtInvHolds == TargetSpec => []TgtInv
BY TgtInvInit, TgtInvStep, PTL DEF TargetSpec

\* Type correctness: no row is negative, and a sleeve's orders cover no more than its shares.
THEOREM TargetTypeCorrect == TargetSpec => []TgtTypeOK
<1>1. ASSUME TgtInv PROVE TgtTypeOK
  <2>1. /\ TgtTypes
        /\ \A i \in DOMAIN sell_orders : sell_orders[i] \in OrderLots
        /\ \A i \in DOMAIN evidence : evidence[i] \in Rows
    BY <1>1, OrderFacts, EvidenceFacts DEF TgtInv
  <2> QED BY <1>1, <2>1 DEF TgtInv, TgtTypes, TgtTypeOK, RowsWithinShares, OrderLots, Rows
<1> QED BY <1>1, TgtInvHolds, PTL

\* For any position, plan and orders, the sleeves share exactly what the account holds.
THEOREM SharesAllDealt == TargetSpec => []AllocationMatches
<1>1. TgtInv => AllocationMatches
  BY DEF TgtInv
<1> QED BY <1>1, TgtInvHolds, PTL

\* An order is credited with no more sold shares than it has.
LEMMA CreditBounded ==
    ASSUME TgtTypes
    PROVE  Overcredited \in Nat /\ Sold \in Nat /\ Overcredited <= Sold
<1> DEFINE N == Len(sell_orders)
           sold == [i \in DOMAIN sell_orders |-> sell_orders[i].sold]
           credited == [i \in DOMAIN sell_orders |-> Credited(sell_orders[i])]
           rest == [i \in DOMAIN sell_orders |-> sold[i] - credited[i]]
<1>1. /\ N \in Nat /\ DOMAIN sell_orders = 1..N
      /\ \A i \in 1..N : sell_orders[i] \in OrderLots
  BY DEF TgtTypes
<1>2. \A i \in 1..N : sold[i] \in Nat /\ credited[i] \in Nat /\ credited[i] <= sold[i]
  <2> SUFFICES ASSUME NEW i \in 1..N
               PROVE  sold[i] \in Nat /\ credited[i] \in Nat /\ credited[i] <= sold[i]
    OBVIOUS
  <2>1. sold[i] = sell_orders[i].sold /\ credited[i] = Credited(sell_orders[i])
    BY <1>1
  <2>2. sell_orders[i].sold \in Nat /\ sell_orders[i].size \in Nat
    BY <1>1 DEF OrderLots
  <2> QED BY <2>1, <2>2 DEF Credited
<1>3. \A i \in 1..N : rest[i] \in Nat /\ sold[i] = credited[i] + rest[i]
  BY <1>1, <1>2
<1>4. Numbers(sold, N) /\ Numbers(credited, N) /\ Numbers(rest, N)
  BY <1>2, <1>3 DEF Numbers
<1>5. Sold = SumTo(sold, N) /\ Overcredited = SumTo(credited, N)
  BY DEF Sold, Overcredited
<1> HIDE DEF N, sold, credited, rest
<1>6. SumTo(sold, N) = SumTo(credited, N) + SumTo(rest, N)
  BY <1>1, <1>3, <1>4, SumOfRest
<1>7. SumTo(sold, N) \in Nat /\ SumTo(credited, N) \in Nat /\ SumTo(rest, N) \in Nat
  BY <1>1, <1>4, SumNat
<1> QED BY <1>5, <1>6, <1>7

\* Rows that all say covered leave less than one order uncovered, beside what partial fills
\* have sold of the orders they count.
THEOREM CoveredRowsCover == TargetSpec => []CoveredTokenIsCovered
<1>1. TgtInv => CoveredTokenIsCovered
  <2> SUFFICES ASSUME TgtInv, dealt,
                      \A i \in DOMAIN evidence :
                         evidence[i].status \in {"target_covered", "no_position"}
               PROVE  Allocated - (Covered - Overcredited) < MinSize + Sold
    BY DEF CoveredTokenIsCovered
  <2>1. Allocated - Covered < MinSize
    BY DEF TgtInv, CoveredInTurn, GoodRow
  <2>2. Allocated \in Nat /\ Covered \in Nat /\ MinSize \in Nat
    BY SumsOfEvidence, RowSums, TargetAssumption DEF TgtInv, TgtTypes
  <2>3. Overcredited \in Nat /\ Sold \in Nat /\ Overcredited <= Sold
    BY CreditBounded DEF TgtInv
  <2> QED BY <2>1, <2>2, <2>3
<1> QED BY <1>1, TgtInvHolds, PTL

\* What the rows are credited with is taken from the orders, share by share.
THEOREM SharesCoverOnce == TargetSpec => CoveredOnce
<1>1. TgtInv /\ [TargetNext]_tgt_vars => [Covered' - Covered = Listed - Listed']_tgt_vars
  BY DealToSleeveStep, DealExcessStep, DealUnmappedStep DEF TargetNext
<1> QED BY <1>1, TgtInvHolds, PTL DEF TargetSpec, CoveredOnce
=============================================================================
