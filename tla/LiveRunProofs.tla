---------------------------- MODULE LiveRunProofs ----------------------------
(* What holds of a live run for every number of games, signals and orders. *)
EXTENDS LiveRun, LiveOrdersProofs

-----------------------------------------------------------------------------
(* Types of what the worker keeps *)

\* The values that stand for "nothing" are well typed.
LEMMA EmptyValuesType ==
    /\ NoRow \in Row
    /\ NoRows \in [Orders -> Row]
    /\ NoCall \in Call
    /\ NotTracked \in Tracked
    /\ EmptyMemory \in Memory
<1>1. NoRow \in Row
    BY DEF NoRow, Row, Statuses, Actions
<1>2. NoCall \in Call
    BY DEF NoCall, Call, Actions
<1>3. NotTracked \in Tracked
    BY DEF NotTracked, Tracked, Actions
<1>4. EmptyMemory \in Memory
    BY <1>3 DEF EmptyMemory, Memory
<1> QED BY <1>1, <1>2, <1>3, <1>4 DEF NoRows

\* The snapshot the worker persists is a memory it can load.
LEMMA MemoryNowType ==
    ASSUME TypeOK PROVE MemoryNow \in Memory
BY DEF TypeOK, MemoryNow, Memory

\* Popping keys and tracking an order keep active_orders well formed.
LEMMA TrackingType ==
    ASSUME TypeOK
    PROVE  /\ \A keys : Untrack(keys) \in [Keys -> Tracked]
           /\ \A k : \A o \in Orders \cup {NoOrder}, action \in Actions, retried \in BOOLEAN :
                 Track(k, o, action, retried) \in [Keys -> Tracked]
<1>1. NotTracked \in Tracked
    BY EmptyValuesType
<1>2. \A o \in Orders \cup {NoOrder}, action \in Actions, retried \in BOOLEAN :
          [order |-> o, action |-> action, retried |-> retried] \in Tracked
    BY DEF Tracked
<1> QED BY <1>1, <1>2 DEF TypeOK, Untrack, Track

\* create_live_order starts with a well-typed row and call.
LEMMA BeginCreateType ==
    ASSUME TypeOK,
           NEW s \in Signals \cup {NoSignal}, NEW action \in Actions, NEW cost \in Costs \cup {0},
           NEW aggressive \in BOOLEAN, NEW back \in {"begin", "fills", "positions", "orders", "entries"},
           BeginCreate(s, action, cost, aggressive, back)
    PROVE  TypeOKOrders' /\ call' \in Call /\ pc' \in InCycle
<1>1. PICK o \in FreshOrders :
          /\ RequestOrder(o, s, action, cost, aggressive)
          /\ call' = [order |-> o, sig |-> s, action |-> action,
                      aggressive |-> aggressive, answer |-> "none", back |-> back]
    BY DEF BeginCreate
<1>2. TypeOKOrders'
    BY <1>1, RequestOrderType DEF TypeOK
<1>3. call' \in Call
    BY <1>1 DEF Call, FreshOrders
<1> QED BY <1>2, <1>3 DEF BeginCreate, InCycle

\* The call of _submit_exit_order is well typed.
LEMMA CallSubmitExitType ==
    ASSUME NEW s \in Signals, NEW aggressive \in BOOLEAN, NEW back \in {"positions", "orders"},
           CallSubmitExit(s, aggressive, back)
    PROVE  call' \in Call /\ pc' \in InCycle
BY DEF CallSubmitExit, NoCall, Call, Actions, InCycle

\* Handling an unseen trade never counts past the trades recorded.
LEMMA SeenTradeType ==
    ASSUME TypeOK, NEW k, UnseenTrade(k)
    PROVE  [seen_trades EXCEPT ![active_orders[k].order] = @ + 1] \in [Orders -> 0..Lots]
<1> DEFINE o == active_orders[k].order
<1>1. CASE o \in Orders
    BY <1>1, OrdersAssumption DEF TypeOK, TypeOKOrders, UnseenTrade
<1>2. CASE o \notin Orders
    BY <1>2 DEF TypeOK
<1> QED BY <1>1, <1>2

\* A cycle that ends, or fails, leaves its variables empty.
LEMMA ForgetCycleType ==
    ASSUME ForgetCycle
    PROVE  /\ keys_todo' \subseteq Keys /\ signals_todo' \subseteq Signals
           /\ stale_keys' \subseteq Keys /\ run_orders' \in [Orders -> Row] /\ call' \in Call
BY EmptyValuesType DEF ForgetCycle

\* So does an exception, wherever it is raised.
LEMMA CycleFailsType ==
    ASSUME TypeOK, CycleFails
    PROVE  TypeOK'
<1>1. TypeOKOrders'
    BY ConnectionType DEF TypeOK, CycleFails, GoOn
<1>2. snapshot' \in Memory
    BY MemoryNowType DEF CycleFails, GoOn, Persist, TypeOK
<1> QED BY <1>1, <1>2, ForgetCycleType DEF TypeOK, CycleFails, GoOn, memoryVars

\* Every step keeps every variable among the values the code gives it.
LEMMA TypeStep ==
    ASSUME TypeOK, [Next]_vars PROVE TypeOK'
<1>1. CASE Start
    BY <1>1 DEF Start, TypeOK, TypeOKOrders, Memory, ordersVars, cycleVars
<1>2. CASE Crash
  <2>1. TypeOKOrders'
      BY <1>2, ConnectionType DEF Crash, TypeOK
  <2>2. active_orders' \in [Keys -> Tracked] /\ snapshot' \in Memory
      BY <1>2, EmptyValuesType DEF Crash, TypeOK, EmptyMemory
  <2>3. crashes' \in 0..MaxCrashes
      BY <1>2, RunAssumption DEF Crash, TypeOK
  <2>4. seen_trades' \in [Orders -> 0..Lots]
      BY <1>2, OrdersAssumption DEF Crash
  <2> QED BY <1>2, <2>1, <2>2, <2>3, <2>4, ForgetCycleType DEF Crash, TypeOK
<1>3. CASE CycleError
    BY <1>3, CycleFailsType DEF CycleError
<1>4. CASE PersistSnapshot \/ LoopEnds
    BY <1>4, MemoryNowType
    DEF PersistSnapshot, LoopEnds, Persist, TypeOK, TypeOKOrders, ordersVars, memoryVars, cycleVars
<1>5. CASE CycleBegin \/ Restart \/ SkipEntries \/ EntriesDone \/ OrdersDone
    BY <1>5 DEF CycleBegin, Restart, SkipEntries, EntriesDone, OrdersDone, InCycle,
                TypeOK, TypeOKOrders, ordersVars, memoryVars, cycleVars
<1>6. CASE CycleEnd
  <2>1. TypeOKOrders' /\ snapshot' \in Memory
      BY <1>6, ConnectionType, MemoryNowType DEF CycleEnd, GoOn, Persist, TypeOK
  <2> QED BY <1>6, <2>1, ForgetCycleType DEF CycleEnd, GoOn, TypeOK, memoryVars
<1>7. CASE Reconcile
  <2>1. TypeOKOrders'
      BY <1>7, ReconcileFillsType DEF Reconcile, TypeOK, TypeOKOrders, ordersVars
  <2> QED BY <1>7, <2>1 DEF Reconcile, TypeOK, TrackedKeys, InCycle, memoryVars
<1>8. CASE PopStaleKeys
    BY <1>8, TrackingType DEF PopStaleKeys, InCycle, TypeOK, TypeOKOrders, ordersVars
<1>9. CASE PositionsDone
    BY <1>9 DEF PositionsDone, TrackedKeys, InCycle, TypeOK, TypeOKOrders, ordersVars, memoryVars
<1>10. CASE SubmitExit
  <2>1. /\ call.sig \in Signals \cup {NoSignal} /\ call.aggressive \in BOOLEAN
        /\ call.back \in {"begin", "fills", "positions", "orders", "entries"}
      BY DEF TypeOK, Call
  <2>2. TypeOKOrders' /\ call' \in Call /\ pc' \in InCycle
      BY <1>10, <2>1, BeginCreateType DEF SubmitExit, Actions
  <2> QED BY <1>10, <2>2 DEF SubmitExit, TypeOK, memoryVars
<1>11. CASE SubmitExitReturns
    BY <1>11, EmptyValuesType
    DEF SubmitExitReturns, InCycle, TypeOK, TypeOKOrders, Call, ordersVars, memoryVars
<1>12. CASE BeginEntries
    BY <1>12 DEF BeginEntries, InCycle, TypeOK, TypeOKOrders, ordersVars, memoryVars
<1>13. CASE Place
  <2>1. PICK answer \in Answers : PlaceOrder(call.order, answer) /\ call' = [call EXCEPT !.answer = answer]
      BY <1>13, RunAssumption DEF Place
  <2>2. TypeOKOrders'
      BY <2>1, PlaceOrderType DEF TypeOK
  <2>3. call' \in Call
      BY <2>1 DEF TypeOK, Call
  <2> QED BY <1>13, <2>2, <2>3 DEF Place, InCycle, TypeOK, memoryVars
<1>14. CASE Record
  <2>1. TypeOKOrders'
      BY <1>14, RecordOrderType DEF Record, TypeOK
  <2>2. call.order \in Orders \cup {NoOrder} /\ call.action \in Actions /\ call.aggressive \in BOOLEAN
      BY DEF TypeOK, Call
  <2>3. active_orders' \in [Keys -> Tracked]
    <3>1. \A k : Track(k, call.order, call.action, call.aggressive) \in [Keys -> Tracked]
        BY <2>2, TrackingType
    <3> QED BY <1>14, <3>1 DEF Record, TypeOK
  <2>4. call' \in Call /\ pc' \in {"begin"} \cup InCycle
      BY <1>14, EmptyValuesType DEF Record, TypeOK, Call, InCycle
  <2> QED BY <1>14, <2>1, <2>3, <2>4 DEF Record, TypeOK
<1>15. ASSUME NEW k \in Keys, OrderStep(k) PROVE TypeOK'
  <2>1. CASE OpenPosition(k)
    <3>1. seen_trades' \in [Orders -> 0..Lots] /\ active_positions' \subseteq Signals
        BY <2>1, SeenTradeType DEF OpenPosition, TypeOK, Keys
    <3>2. TypeOKOrders' /\ call' \in Call /\ pc' \in InCycle
      <4>1. CASE BeginCreate(k[1], "target_exit", 0, FALSE, "fills")
          BY <4>1, BeginCreateType DEF Keys, Actions
      <4>2. CASE UNCHANGED <<ordersVars, call, pc>>
          BY <2>1, <4>2 DEF OpenPosition, InCycle, TypeOK, TypeOKOrders, ordersVars
      <4> QED BY <2>1, <4>1, <4>2 DEF OpenPosition
    <3> QED BY <2>1, <3>1, <3>2 DEF OpenPosition, TypeOK
  <2>2. CASE ClosePosition(k)
    <3>1. seen_trades' \in [Orders -> 0..Lots] /\ active_positions' \subseteq Signals
        BY <2>2, SeenTradeType DEF ClosePosition, TypeOK
    <3> QED BY <2>2, <3>1 DEF ClosePosition, TypeOK, TypeOKOrders, ordersVars
  <2>3. CASE CheckStatus(k) \/ HoldOrder(k)
      BY <2>3 DEF CheckStatus, HoldOrder, TypeOK, TypeOKOrders, ordersVars, memoryVars
  <2>4. CASE EntryTimeout(k)
    <3>1. TypeOKOrders'
        BY <2>4, CancelOrderType DEF EntryTimeout, TypeOK
    <3> QED BY <2>4, <3>1 DEF EntryTimeout, TypeOK, memoryVars
  <2>5. CASE ExitTimeout(k)
    <3>1. TypeOKOrders'
        BY <2>5, CancelOrderType DEF ExitTimeout, TypeOK
    <3>2. active_orders' \in [Keys -> Tracked]
        BY <2>5 DEF ExitTimeout, TypeOK, Tracked
    <3>3. call' \in Call /\ pc' \in InCycle
        BY <2>5, CallSubmitExitType DEF ExitTimeout, Keys
    <3> QED BY <2>5, <3>1, <3>2, <3>3 DEF ExitTimeout, TypeOK
  <2>6. CASE TimeoutRaises(k)
      BY <2>6, CycleFailsType DEF TimeoutRaises, TypeOK
  <2> QED BY <1>15, <2>1, <2>2, <2>3, <2>4, <2>5, <2>6 DEF OrderStep
<1>16. ASSUME NEW s \in Signals, SignalStep(s) PROVE TypeOK'
  <2>1. CASE HoldPosition(s) \/ SkipEntry(s)
      BY <2>1 DEF HoldPosition, SkipEntry, TypeOK, TypeOKOrders, ordersVars, memoryVars
  <2>2. ASSUME NEW stop \in BOOLEAN, ExitPosition(s, stop) PROVE TypeOK'
    <3>1. call' \in Call /\ pc' \in InCycle
        BY <2>2, CallSubmitExitType DEF ExitPosition
    <3> QED BY <2>2, <3>1 DEF ExitPosition, TypeOK, TypeOKOrders, ordersVars, memoryVars
  <2>3. CASE StopCancelsExit(s)
    <3>1. TypeOKOrders'
        BY <2>3, CancelOrderType DEF StopCancelsExit, TypeOK
    <3>2. call' \in Call /\ pc' \in InCycle
        BY <2>3, CallSubmitExitType DEF StopCancelsExit
    <3> QED BY <2>3, <3>1, <3>2, TrackingType DEF StopCancelsExit, TypeOK
  <2>4. ASSUME NEW cost \in Costs, SubmitEntry(s, cost) PROVE TypeOK'
    <3>1. TypeOKOrders' /\ call' \in Call /\ pc' \in InCycle
        BY <2>4, BeginCreateType DEF SubmitEntry, Actions
    <3> QED BY <2>4, <3>1 DEF SubmitEntry, TypeOK, memoryVars
  <2> QED BY <1>16, <2>1, <2>2, <2>3, <2>4 DEF SignalStep
<1>17. ASSUME NEW o \in Orders, Fill(o) PROVE TypeOK'
  <2>1. TypeOKOrders'
      BY <1>17, ExchangeFillType DEF Fill, TypeOK
  <2> QED BY <1>17, <2>1 DEF Fill, TypeOK, memoryVars, cycleVars
<1>18. CASE UNCHANGED vars
    BY <1>18 DEF vars, TypeOK, TypeOKOrders, ordersVars, memoryVars, cycleVars
<1> QED BY <1>1, <1>2, <1>3, <1>4, <1>5, <1>6, <1>7, <1>8, <1>9, <1>10, <1>11, <1>12,
           <1>13, <1>14, <1>15, <1>16, <1>17, <1>18 DEF Next, LoopStep

\* Every state of a run is well typed: every phase, order, signal and record of
\* the worker stays among the values its code gives it.
THEOREM TypeCorrect == Spec => []TypeOK
<1>1. Init => TypeOK
  <2>1. Init => TypeOKOrders
      BY EmptyValuesType, OrdersAssumption DEF Init, InitOrders, TypeOKOrders
  <2>2. Init => last_error \in BOOLEAN
      BY Zenon DEF Init
  <2>3. Init => crashes \in 0..MaxCrashes
      BY RunAssumption DEF Init
  <2> QED BY <2>1, <2>2, <2>3, EmptyValuesType, OrdersAssumption DEF Init, TypeOK, Memory, EmptyMemory
<1>2. TypeOK /\ [Next]_vars => TypeOK'
    BY TypeStep
<1> QED BY <1>1, <1>2, PTL DEF Spec

-----------------------------------------------------------------------------
(* The inductive invariants *)

Placing == pc \in {"place", "record"}
Exiting == pc = "submit_exit" \/ (Placing /\ call.action # "entry")

\* What a `for` has left to visit is still there, an exit is submitted for a
\* signal the worker works, an entry for one in a game it does not work.
SignalInv ==
    /\ SingleSignalPerGame
    /\ Phase \in {"fills", "orders"} => keys_todo \subseteq TrackedKeys
    /\ Phase = "positions" => signals_todo \subseteq active_positions
    /\ Placing => call.order \in Orders /\ call.sig \in Signals
    /\ Exiting => call.sig \in Signals /\ Works(MemoryNow, call.sig)
    /\ Placing /\ call.action = "entry" =>
          \A s \in Signals : GameOf[s] = GameOf[call.sig] => ~Works(MemoryNow, s)

\* While create_live_order runs, the row it wrote first is in the table.
RowsInv ==
    /\ OrdersInv
    /\ pc = "place" => ~DryRun
    /\ Placing => /\ call.order \in Orders
                  /\ tx[call.order].status = IF DryRun THEN "open" ELSE "pending_submit"
                  /\ tx[call.order].sig = call.sig
                  /\ tx[call.order].action = call.action

\* An exit is only ever submitted for a signal that was bought.
BackedInv ==
    /\ PositionsBacked
    /\ \A m \in {MemoryNow, snapshot}, k \in Keys :
          m.orders[k].order # NoOrder /\ m.orders[k].action # "entry" => Backed(k[1])
    /\ Exiting => Backed(call.sig)

\* While the entries are tried, the rows read before the loop still show every
\* counted entry of a game the worker does not work, but the one it submits.
CountInv ==
    /\ EntryCountBudget
    /\ Phase = "entries" => \A g \in Games :
          (\A s \in Signals : GameOf[s] = g => ~Works(MemoryNow, s)) =>
              CountedEntries(tx, g) \subseteq
                  CountedEntries(run_orders, g) \cup {o \in {call.order} : Placing /\ GameOf[call.sig] = g}

\* Until the last entry is tried, the rows read before the loop are still there
\* and cost what they did.
SeenInv == Phase = "entries" =>
    \A o \in Orders : Exists(run_orders, o) => Exists(tx, o) /\ tx[o].cost = run_orders[o].cost

-----------------------------------------------------------------------------
(* One signal per game *)

\* The keys of a signal are keys, and belong to no other signal.
LEMMA KeysOfSignals ==
    ASSUME NEW s \in Signals
    PROVE  MainKey(s) \in Keys /\ TargetKey(s) \in Keys /\ MainKey(s)[1] = s /\ TargetKey(s)[1] = s
BY DEF MainKey, TargetKey, Keys

\* A key that is tracked is one the worker works the signal of.
LEMMA TrackedKeyWorks ==
    ASSUME NEW k \in TrackedKeys
    PROVE  k[1] \in Signals /\ Works(MemoryNow, k[1])
<1>1. k \in Keys /\ active_orders[k].order # NoOrder
    BY DEF TrackedKeys, IsTracked
<1>2. k = MainKey(k[1]) \/ k = TargetKey(k[1])
    BY <1>1 DEF Keys, MainKey, TargetKey
<1> QED BY <1>1, <1>2 DEF Works, MemoryNow, Keys

\* A worker whose memory says nothing works nothing.
LEMMA EmptyMemoryWorks ==
    ASSUME NEW s \in Signals PROVE ~Works(EmptyMemory, s)
BY KeysOfSignals DEF Works, EmptyMemory, NotTracked

\* Nothing changes for the signals when the memory does not.
LEMMA MemoryFrame ==
    ASSUME UNCHANGED memoryVars
    PROVE  MemoryNow' = MemoryNow /\ TrackedKeys' = TrackedKeys
BY DEF memoryVars, MemoryNow, TrackedKeys, IsTracked

\* A memory that works no more signals than one before keeps one per game.
LEMMA StillSingle ==
    ASSUME SingleSignalPerGame,
           \A m \in {MemoryNow', snapshot'} : \E n \in {MemoryNow, snapshot} :
              \A s \in Signals : Works(m, s) => Works(n, s)
    PROVE  SingleSignalPerGame'
BY DEF SingleSignalPerGame

\* Popping keys works no new signal.
LEMMA UntrackWorks ==
    ASSUME NEW keys, NEW s \in Signals, active_orders' = Untrack(keys), UNCHANGED active_positions,
           Works(MemoryNow', s)
    PROVE  Works(MemoryNow, s)
BY KeysOfSignals DEF Works, MemoryNow, Untrack, NotTracked

\* A tracked exit is an order or a target of its signal.
LEMMA ActiveExitWorks ==
    ASSUME NEW s \in Signals, HasActiveExit(s)
    PROVE  Works(MemoryNow, s) /\ ActiveExitKey(s) \in Keys /\ ActiveExitKey(s)[1] = s
BY KeysOfSignals DEF HasActiveExit, IsTracked, Works, MemoryNow, ActiveExitKey

\* The state predicates of SignalInv read only the phase, the call and what a
\* loop has left: an action that leaves memory and snapshot alone keeps one
\* signal per game.
LEMMA SingleFrame ==
    ASSUME SingleSignalPerGame, UNCHANGED memoryVars, snapshot' \in {snapshot, MemoryNow}
    PROVE  SingleSignalPerGame'
BY MemoryFrame, StillSingle

\* SignalInv says nothing of a worker between two cycles.
LEMMA SignalInvOutside ==
    ASSUME SingleSignalPerGame', pc' \in {"down", "ended", "begin", "reconcile", "entry_gate", "end"}
    PROVE  SignalInv'
BY DEF SignalInv, Phase, Placing, Exiting

\* The gates of _process_new_entries let an entry through only into a game the
\* worker does not work.
LEMMA GameFreeWorks ==
    ASSUME NEW s \in Signals, NEW t \in Signals, GameOf[t] = GameOf[s], GameFree(s)
    PROVE  ~Works(MemoryNow, t)
<1>1. ~GameHasOrder(GameOf[s]) /\ ~GameHasPosition(GameOf[s])
    BY DEF GameFree
<1>2. MainKey(t) \notin TrackedKeys /\ TargetKey(t) \notin TrackedKeys
    BY <1>1, KeysOfSignals DEF GameHasOrder
<1> QED BY <1>1, <1>2, KeysOfSignals DEF Works, MemoryNow, TrackedKeys, IsTracked, GameHasPosition

\* What create_live_order puts in the call.
LEMMA BeginCreateCall ==
    ASSUME NEW s, NEW action, NEW cost, NEW aggressive, NEW back,
           BeginCreate(s, action, cost, aggressive, back)
    PROVE  /\ Placing' /\ Phase' = back
           /\ call'.order \in Orders /\ call'.sig = s /\ call'.action = action
BY DEF BeginCreate, Placing, Phase, FreshOrders

\* What _submit_exit_order is called with.
LEMMA CallSubmitExitCall ==
    ASSUME NEW s, NEW aggressive, NEW back, CallSubmitExit(s, aggressive, back)
    PROVE  pc' = "submit_exit" /\ ~Placing' /\ Exiting' /\ Phase' = back /\ call'.sig = s
BY DEF CallSubmitExit, NoCall, Placing, Exiting, Phase

\* Every step keeps SignalInv: an entry passes the gates of
\* _process_new_entries, everything else stays with the signals worked already.
LEMMA SignalInvStep ==
    ASSUME TypeOK, SignalInv, [Next]_vars
    PROVE  SignalInv'
<1>1. SingleSignalPerGame
    BY DEF SignalInv
<1>2. CASE Start
  <2>1. \A s \in Signals : Works(MemoryNow', s) => Works(snapshot, s)
      BY <1>2 DEF Start, Works, MemoryNow
  <2>2. SingleSignalPerGame'
      BY <1>1, <1>2, <2>1, StillSingle DEF Start
  <2> QED BY <1>2, <2>2, SignalInvOutside DEF Start
<1>3. CASE Crash
  <2>1. MemoryNow' = EmptyMemory /\ snapshot' \in {snapshot, EmptyMemory}
      BY <1>3 DEF Crash, MemoryNow, EmptyMemory
  <2>2. SingleSignalPerGame'
      BY <1>1, <2>1, EmptyMemoryWorks, StillSingle
  <2> QED BY <1>3, <2>2, SignalInvOutside DEF Crash
<1>4. CASE CycleError \/ CycleEnd \/ LoopEnds \/ \E k \in Keys : TimeoutRaises(k)
  <2>1. UNCHANGED memoryVars /\ snapshot' \in {snapshot, MemoryNow} /\ pc' \in {"begin", "ended"}
      BY <1>4 DEF CycleError, CycleEnd, LoopEnds, Persist, TimeoutRaises, CycleFails, GoOn
  <2> QED BY <1>1, <2>1, SingleFrame, SignalInvOutside
<1>5. CASE PersistSnapshot
  <2>1. UNCHANGED memoryVars /\ snapshot' = MemoryNow
      BY <1>5 DEF PersistSnapshot
  <2>2. SingleSignalPerGame'
      BY <1>1, <2>1, SingleFrame
  <2> QED BY <1>5, <2>1, <2>2, MemoryFrame
          DEF PersistSnapshot, SignalInv, Phase, Placing, Exiting, cycleVars, memoryVars
<1>6. CASE CycleBegin \/ Restart \/ SkipEntries \/ EntriesDone \/ OrdersDone
  <2>1. UNCHANGED memoryVars /\ snapshot' = snapshot /\ pc' \in {"begin", "reconcile", "end", "entry_gate"}
      BY <1>6 DEF CycleBegin, Restart, SkipEntries, EntriesDone, OrdersDone
  <2> QED BY <1>1, <2>1, SingleFrame, SignalInvOutside
<1>7. CASE Reconcile \/ PositionsDone
  <2>1. UNCHANGED memoryVars /\ snapshot' = snapshot /\ pc' \in {"fills", "orders"} /\ keys_todo' = TrackedKeys
      BY <1>7 DEF Reconcile, PositionsDone
  <2>2. SingleSignalPerGame'
      BY <1>1, <2>1, SingleFrame
  <2> QED BY <2>1, <2>2, MemoryFrame DEF SignalInv, Phase, Placing, Exiting
<1>8. CASE PopStaleKeys
  <2>1. \A s \in Signals : Works(MemoryNow', s) => Works(MemoryNow, s)
      BY <1>8, UntrackWorks DEF PopStaleKeys
  <2>2. SingleSignalPerGame'
      BY <1>1, <1>8, <2>1, StillSingle DEF PopStaleKeys
  <2> QED BY <1>8, <2>2 DEF PopStaleKeys, SignalInv, Phase, Placing, Exiting
<1>9. CASE SubmitExit
  <2>1. UNCHANGED memoryVars /\ snapshot' = snapshot /\ keys_todo' = keys_todo /\ signals_todo' = signals_todo
      BY <1>9 DEF SubmitExit, memoryVars
  <2>2. /\ Placing' /\ call'.order \in Orders /\ call'.sig = call.sig /\ call'.action = "exit"
        /\ Phase' = call.back
      BY <1>9, BeginCreateCall DEF SubmitExit
  <2>3. call.sig \in Signals /\ Works(MemoryNow, call.sig) /\ Phase = call.back
      BY <1>9 DEF SubmitExit, SignalInv, Exiting, Phase
  <2>4. SingleSignalPerGame'
      BY <1>1, <2>1, SingleFrame
  <2> QED BY <2>1, <2>2, <2>3, <2>4, MemoryFrame DEF SignalInv, memoryVars
<1>10. CASE SubmitExitReturns
  <2>1. UNCHANGED memoryVars /\ snapshot' = snapshot /\ keys_todo' = keys_todo /\ signals_todo' = signals_todo
      BY <1>10 DEF SubmitExitReturns, memoryVars
  <2>2. Phase' = Phase /\ ~Placing' /\ ~Exiting'
      BY <1>10 DEF SubmitExitReturns, Phase, Placing, Exiting, TypeOK, Call
  <2>3. SingleSignalPerGame'
      BY <1>1, <2>1, SingleFrame
  <2> QED BY <2>1, <2>2, <2>3, MemoryFrame DEF SignalInv, memoryVars
<1>11. CASE BeginEntries
  <2>1. UNCHANGED memoryVars /\ snapshot' = snapshot /\ pc' = "entries"
      BY <1>11 DEF BeginEntries
  <2>2. SingleSignalPerGame'
      BY <1>1, <2>1, SingleFrame
  <2> QED BY <2>1, <2>2 DEF SignalInv, Phase, Placing, Exiting
<1>12. CASE Place
  <2>1. /\ UNCHANGED memoryVars /\ snapshot' = snapshot /\ keys_todo' = keys_todo /\ signals_todo' = signals_todo
        /\ pc = "place" /\ pc' = "record"
        /\ call'.order = call.order /\ call'.sig = call.sig /\ call'.action = call.action /\ call'.back = call.back
      BY <1>12 DEF Place, TypeOK, Call
  <2>2. SingleSignalPerGame'
      BY <1>1, <2>1, SingleFrame
  <2> QED BY <2>1, <2>2, MemoryFrame DEF SignalInv, Phase, Placing, Exiting, memoryVars
<1>13. CASE Record
  <2>1. /\ Placing /\ call.order \in Orders /\ call.sig \in Signals
        /\ snapshot' = snapshot /\ active_positions' = active_positions
        /\ keys_todo' = keys_todo /\ signals_todo' = signals_todo
      BY <1>13 DEF Record, Placing, SignalInv
  <2>2. \E k \in {MainKey(call.sig), TargetKey(call.sig)} :
           active_orders' \in {active_orders, Track(k, call.order, call.action, call.aggressive)}
      BY <1>13 DEF Record
  <2>3. TrackedKeys \subseteq TrackedKeys'
      BY <2>1, <2>2 DEF TrackedKeys, IsTracked, Track, TypeOK, Orders, NoOrder
  <2>4. ASSUME NEW s \in Signals, s # call.sig, Works(MemoryNow', s) PROVE Works(MemoryNow, s)
      BY <2>1, <2>2, <2>4, KeysOfSignals DEF Works, MemoryNow, Track, TypeOK
  <2>5. SingleSignalPerGame'
    <3>1. CASE call.action = "entry"
      <4>1. \A s \in Signals : GameOf[s] = GameOf[call.sig] => ~Works(MemoryNow, s)
          BY <2>1, <3>1 DEF SignalInv
      <4> QED BY <1>1, <2>1, <2>4, <4>1 DEF SingleSignalPerGame
    <3>2. CASE call.action # "entry"
      <4>1. Works(MemoryNow, call.sig)
          BY <2>1, <3>2 DEF SignalInv, Exiting
      <4> QED BY <1>1, <2>1, <2>4, <4>1, StillSingle
    <3> QED BY <3>1, <3>2
  <2>6. Phase' = Phase /\ ~Placing' /\ ~Exiting'
      BY <1>13 DEF Record, Phase, Placing, Exiting, TypeOK, Call
  <2> QED BY <2>1, <2>3, <2>5, <2>6 DEF SignalInv
<1>14. ASSUME NEW k \in Keys, OrderStep(k) PROVE SignalInv'
  <2>1. CASE OpenPosition(k)
    <3>1. /\ Phase = "fills" /\ k \in TrackedKeys
          /\ snapshot' = snapshot /\ active_orders' = active_orders
          /\ active_positions' = active_positions \cup {k[1]}
          /\ keys_todo' = keys_todo
        BY <2>1 DEF OpenPosition, SignalInv, Phase
    <3>2. k[1] \in Signals /\ Works(MemoryNow, k[1])
        BY <3>1, TrackedKeyWorks
    <3>3. \A s \in Signals : Works(MemoryNow', s) <=> Works(MemoryNow, s)
        BY <3>1, <3>2 DEF Works, MemoryNow
    <3>4. SingleSignalPerGame' /\ TrackedKeys' = TrackedKeys
        BY <1>1, <3>1, <3>3, StillSingle DEF TrackedKeys, IsTracked
    <3>5. CASE BeginCreate(k[1], "target_exit", 0, FALSE, "fills")
      <4>1. /\ Placing' /\ Phase' = "fills"
            /\ call'.order \in Orders /\ call'.sig = k[1] /\ call'.action = "target_exit"
          BY <3>5, BeginCreateCall
      <4> QED BY <3>1, <3>2, <3>3, <3>4, <4>1 DEF SignalInv
    <3>6. CASE UNCHANGED <<ordersVars, call, pc>>
        BY <2>1, <3>1, <3>4, <3>6 DEF OpenPosition, SignalInv, Phase, Placing, Exiting
    <3> QED BY <2>1, <3>5, <3>6 DEF OpenPosition
  <2>2. CASE ClosePosition(k)
    <3>1. /\ pc = "fills" /\ pc' = pc /\ call' = call /\ keys_todo' = keys_todo
          /\ snapshot' = snapshot /\ active_orders' = active_orders
          /\ active_positions' = active_positions \ {k[1]}
        BY <2>2 DEF ClosePosition
    <3>2. \A s \in Signals : Works(MemoryNow', s) => Works(MemoryNow, s)
        BY <3>1 DEF Works, MemoryNow
    <3>3. SingleSignalPerGame' /\ TrackedKeys' = TrackedKeys
        BY <1>1, <3>1, <3>2, StillSingle DEF TrackedKeys, IsTracked
    <3> QED BY <3>1, <3>3 DEF SignalInv, Phase, Placing, Exiting
  <2>3. CASE CheckStatus(k) \/ HoldOrder(k) \/ EntryTimeout(k)
    <3>1. /\ UNCHANGED memoryVars /\ snapshot' = snapshot /\ pc' = pc /\ pc \in {"fills", "orders"}
          /\ call' = call /\ keys_todo' \subseteq keys_todo
        BY <2>3 DEF CheckStatus, HoldOrder, EntryTimeout
    <3>2. SingleSignalPerGame'
        BY <1>1, <3>1, SingleFrame
    <3> QED BY <3>1, <3>2, MemoryFrame DEF SignalInv, Phase, Placing, Exiting
  <2>4. CASE ExitTimeout(k)
    <3>1. /\ Phase = "orders" /\ k \in TrackedKeys /\ keys_todo' \subseteq keys_todo
          /\ snapshot' = snapshot /\ active_positions' = active_positions
          /\ active_orders' = [active_orders EXCEPT ![k].retried = TRUE]
        BY <2>4 DEF ExitTimeout, SignalInv, Phase
    <3>2. \A j \in Keys : active_orders'[j].order = active_orders[j].order
        BY <3>1 DEF TypeOK, Tracked
    <3>3. \A s \in Signals : Works(MemoryNow', s) <=> Works(MemoryNow, s)
        BY <3>1, <3>2, KeysOfSignals DEF Works, MemoryNow
    <3>4. SingleSignalPerGame' /\ TrackedKeys' = TrackedKeys
        BY <1>1, <3>1, <3>2, <3>3, StillSingle DEF TrackedKeys, IsTracked
    <3>5. Exiting' /\ ~Placing' /\ Phase' = "orders" /\ call'.sig = k[1]
        BY <2>4, CallSubmitExitCall DEF ExitTimeout
    <3>6. k[1] \in Signals /\ Works(MemoryNow, k[1])
        BY <3>1, TrackedKeyWorks
    <3> QED BY <3>1, <3>3, <3>4, <3>5, <3>6 DEF SignalInv, Phase
  <2> QED BY <1>4, <1>14, <2>1, <2>2, <2>3, <2>4 DEF OrderStep
<1>15. ASSUME NEW s \in Signals, SignalStep(s) PROVE SignalInv'
  <2>1. CASE HoldPosition(s) \/ SkipEntry(s)
    <3>1. /\ UNCHANGED memoryVars /\ snapshot' = snapshot /\ pc' = pc /\ pc \in {"positions", "entries"}
          /\ call' = call /\ signals_todo' \subseteq signals_todo
        BY <2>1 DEF HoldPosition, SkipEntry
    <3>2. SingleSignalPerGame'
        BY <1>1, <3>1, SingleFrame
    <3> QED BY <3>1, <3>2 DEF SignalInv, Phase, Placing, Exiting, memoryVars
  <2>2. ASSUME NEW stop \in BOOLEAN, ExitPosition(s, stop) PROVE SignalInv'
    <3>1. /\ UNCHANGED memoryVars /\ snapshot' = snapshot
          /\ s \in active_positions /\ signals_todo' \subseteq active_positions
        BY <2>2 DEF ExitPosition, SignalInv, Phase
    <3>2. Exiting' /\ ~Placing' /\ Phase' = "positions" /\ call'.sig = s
        BY <2>2, CallSubmitExitCall DEF ExitPosition
    <3>3. SingleSignalPerGame'
        BY <1>1, <3>1, SingleFrame
    <3>4. Works(MemoryNow', s)
        BY <3>1 DEF Works, MemoryNow, memoryVars
    <3> QED BY <3>1, <3>2, <3>3, <3>4 DEF SignalInv, memoryVars
  <2>3. CASE StopCancelsExit(s)
    <3>1. /\ snapshot' = snapshot /\ active_positions' = active_positions
          /\ active_orders' = Untrack({ActiveExitKey(s)})
          /\ s \in active_positions /\ signals_todo' \subseteq active_positions
        BY <2>3 DEF StopCancelsExit, SignalInv, Phase
    <3>2. Exiting' /\ ~Placing' /\ Phase' = "positions" /\ call'.sig = s
        BY <2>3, CallSubmitExitCall DEF StopCancelsExit
    <3>3. SingleSignalPerGame'
        BY <1>1, <3>1, UntrackWorks, StillSingle
    <3>4. Works(MemoryNow', s)
        BY <3>1 DEF Works, MemoryNow
    <3> QED BY <3>1, <3>2, <3>3, <3>4 DEF SignalInv
  <2>4. ASSUME NEW cost \in Costs, SubmitEntry(s, cost) PROVE SignalInv'
    <3>1. UNCHANGED memoryVars /\ snapshot' = snapshot
        BY <2>4 DEF SubmitEntry
    <3>2. /\ Placing' /\ Phase' = "entries"
          /\ call'.order \in Orders /\ call'.sig = s /\ call'.action = "entry"
        BY <2>4, BeginCreateCall DEF SubmitEntry
    <3>3. ASSUME NEW t \in Signals, GameOf[t] = GameOf[s] PROVE ~Works(MemoryNow, t)
        BY <2>4, <3>3, GameFreeWorks DEF SubmitEntry
    <3>4. SingleSignalPerGame'
        BY <1>1, <3>1, SingleFrame
    <3>5. ~Exiting'
        BY <3>2 DEF Exiting, Placing
    <3> QED BY <3>1, <3>2, <3>3, <3>4, <3>5, MemoryFrame DEF SignalInv
  <2> QED BY <1>15, <2>1, <2>2, <2>3, <2>4 DEF SignalStep
<1>16. ASSUME NEW o \in Orders, Fill(o) PROVE SignalInv'
  <2>1. UNCHANGED <<pc, memoryVars, cycleVars, snapshot>>
      BY <1>16 DEF Fill
  <2>2. SingleSignalPerGame'
      BY <1>1, <2>1, SingleFrame
  <2> QED BY <2>1, <2>2, MemoryFrame DEF SignalInv, Phase, Placing, Exiting, memoryVars, cycleVars
<1>17. CASE UNCHANGED vars
  <2>1. UNCHANGED <<pc, memoryVars, cycleVars, snapshot>>
      BY <1>17 DEF vars
  <2>2. SingleSignalPerGame'
      BY <1>1, <2>1, SingleFrame
  <2> QED BY <2>1, <2>2, MemoryFrame DEF SignalInv, Phase, Placing, Exiting, memoryVars, cycleVars
<1> QED BY <1>2, <1>3, <1>4, <1>5, <1>6, <1>7, <1>8, <1>9, <1>10, <1>11, <1>12, <1>13,
           <1>14, <1>15, <1>16, <1>17 DEF Next, LoopStep

\* A process that has not started works nothing.
LEMMA SignalInvInit ==
    ASSUME Init PROVE SignalInv
<1>1. MemoryNow = EmptyMemory /\ snapshot = EmptyMemory /\ pc = "down"
    BY DEF Init, MemoryNow, EmptyMemory
<1>2. SingleSignalPerGame
    BY <1>1, EmptyMemoryWorks DEF SingleSignalPerGame
<1> QED BY <1>1, <1>2 DEF SignalInv, Phase, Placing, Exiting

\* A worker never works two signals of one game, whatever crashes, loses its
\* snapshot or raises (_process_new_entries is the only way in).
THEOREM OneSignalPerGame == Spec => []SingleSignalPerGame
<1>1. Init => SignalInv
    BY SignalInvInit
<1>2. TypeOK /\ SignalInv /\ [Next]_vars => SignalInv'
    BY SignalInvStep
<1>3. SignalInv => SingleSignalPerGame
    BY DEF SignalInv
<1> QED BY <1>1, <1>2, <1>3, TypeCorrect, PTL DEF Spec

-----------------------------------------------------------------------------
(* The committed rows, the exchange and what the worker tracks *)

\* A step that leaves the orders alone keeps what is known of them.
LEMMA OrdersFrame ==
    ASSUME TypeOK, OrdersInv, UNCHANGED ordersVars
    PROVE  OrdersInv' /\ (~DryRun => RowsKept)
BY DEF OrdersInv, RowsKept, Exists, TypeOK, TypeOKOrders, ordersVars

\* Every step of the run keeps the committed rows and the exchange together.
LEMMA OrdersStep ==
    ASSUME TypeOK, RowsInv, [Next]_vars
    PROVE  OrdersInv' /\ (~DryRun => RowsKept)
<1>1. TypeOKOrders /\ OrdersInv
    BY DEF TypeOK, RowsInv
<1>2. ASSUME NEW s, NEW action, NEW cost, NEW aggressive, NEW back,
             BeginCreate(s, action, cost, aggressive, back)
      PROVE  OrdersInv' /\ (~DryRun => RowsKept)
    BY <1>1, <1>2, RequestOrderKeeps DEF BeginCreate
<1>3. CASE Crash \/ CycleError \/ CycleEnd
    BY <1>1, <1>3, ConnectionKeeps DEF Crash, CycleError, CycleEnd, CycleFails, GoOn
<1>4. CASE \/ Start \/ PersistSnapshot \/ CycleBegin \/ LoopEnds \/ Restart \/ SkipEntries \/ EntriesDone \/ OrdersDone
           \/ PopStaleKeys \/ PositionsDone \/ SubmitExitReturns \/ BeginEntries
  <2>1. UNCHANGED ordersVars
      BY <1>4 DEF Start, PersistSnapshot, CycleBegin, LoopEnds, Restart, SkipEntries, EntriesDone, OrdersDone,
                  PopStaleKeys, PositionsDone, SubmitExitReturns, BeginEntries
  <2> QED BY <1>1, <2>1, OrdersFrame
<1>5. CASE Reconcile
    BY <1>1, <1>5, ReconcileFillsKeeps, OrdersFrame DEF Reconcile
<1>6. CASE SubmitExit
    BY <1>2, <1>6 DEF SubmitExit
<1>7. CASE Place
  <2>1. ~DryRun /\ call.order \in Orders /\ Exists(db, call.order)
      BY <1>1, <1>7 DEF Place, RowsInv, Placing, OrdersInv, Exists
  <2> QED BY <1>1, <1>7, <2>1, PlaceOrderKeeps DEF Place
<1>8. CASE Record
  <2>1. call.order \in Orders /\ Exists(tx, call.order)
      BY <1>8 DEF Record, RowsInv, Placing, Exists
  <2> QED BY <1>1, <1>8, <2>1, RecordOrderKeeps DEF Record
<1>9. ASSUME NEW k \in Keys, OrderStep(k) PROVE OrdersInv' /\ (~DryRun => RowsKept)
  <2>1. CASE OpenPosition(k)
      BY <1>1, <1>2, <2>1, OrdersFrame DEF OpenPosition
  <2>2. CASE ClosePosition(k) \/ CheckStatus(k) \/ HoldOrder(k)
      BY <1>1, <2>2, OrdersFrame DEF ClosePosition, CheckStatus, HoldOrder
  <2>3. CASE EntryTimeout(k) \/ ExitTimeout(k)
      BY <1>1, <2>3, CancelOrderKeeps DEF EntryTimeout, ExitTimeout
  <2>4. CASE TimeoutRaises(k)
      BY <1>1, <2>4, ConnectionKeeps DEF TimeoutRaises, CycleFails, GoOn
  <2> QED BY <1>9, <2>1, <2>2, <2>3, <2>4 DEF OrderStep
<1>10. ASSUME NEW s \in Signals, SignalStep(s) PROVE OrdersInv' /\ (~DryRun => RowsKept)
  <2>1. CASE HoldPosition(s) \/ SkipEntry(s) \/ \E stop \in BOOLEAN : ExitPosition(s, stop)
      BY <1>1, <2>1, OrdersFrame DEF HoldPosition, SkipEntry, ExitPosition
  <2>2. CASE StopCancelsExit(s)
      BY <1>1, <2>2, CancelOrderKeeps DEF StopCancelsExit
  <2>3. CASE \E cost \in Costs : SubmitEntry(s, cost)
      BY <1>2, <2>3 DEF SubmitEntry
  <2> QED BY <1>10, <2>1, <2>2, <2>3 DEF SignalStep
<1>11. ASSUME NEW o \in Orders, Fill(o) PROVE OrdersInv' /\ (~DryRun => RowsKept)
    BY <1>1, <1>11, ExchangeFillKeeps DEF Fill
<1>12. CASE UNCHANGED vars
    BY <1>1, <1>12, OrdersFrame DEF vars
<1> QED BY <1>3, <1>4, <1>5, <1>6, <1>7, <1>8, <1>9, <1>10, <1>11, <1>12 DEF Next, LoopStep

\* The row create_live_order wrote first is there until it is recorded.
LEMMA RowsInvStep ==
    ASSUME TypeOK, RowsInv, [Next]_vars
    PROVE  RowsInv'
<1>1. OrdersInv'
    BY OrdersStep
<1>2. ASSUME NEW s, NEW action, NEW cost, NEW aggressive, NEW back,
             BeginCreate(s, action, cost, aggressive, back)
      PROVE  RowsInv'
  <2>1. PICK o \in Orders : /\ RequestOrder(o, s, action, cost, aggressive)
                            /\ call' = [order |-> o, sig |-> s, action |-> action,
                                        aggressive |-> aggressive, answer |-> "none", back |-> back]
      BY <1>2 DEF BeginCreate, FreshOrders
  <2>2. tx'[o] = InitialRow(s, action, cost, aggressive)
      BY <2>1 DEF RequestOrder, TypeOK, TypeOKOrders
  <2>3. pc' = IF DryRun THEN "record" ELSE "place"
      BY <1>2 DEF BeginCreate
  <2> QED BY <1>1, <2>1, <2>2, <2>3 DEF RowsInv, InitialRow
<1>3. CASE UNCHANGED <<tx, pc, call>>
    BY <1>1, <1>3 DEF RowsInv, Placing
<1>4. CASE ~Placing'
    BY <1>1, <1>4 DEF RowsInv, Placing
<1>5. CASE Place
  <2>1. /\ tx' = tx /\ pc = "place" /\ pc' = "record"
        /\ call'.order = call.order /\ call'.sig = call.sig /\ call'.action = call.action
      BY <1>5 DEF Place, PlaceOrder, TypeOK, Call
  <2> QED BY <1>1, <2>1 DEF RowsInv, Placing
<1>6. CASE Crash \/ CycleError \/ LoopEnds \/ Restart \/ LoopStep
  <2>1. CASE Crash \/ CycleError \/ CycleEnd \/ CycleBegin \/ LoopEnds \/ Restart \/ Reconcile \/ PopStaleKeys
             \/ PositionsDone \/ OrdersDone \/ SkipEntries \/ BeginEntries \/ EntriesDone
      BY <1>4, <2>1 DEF Placing, Crash, CycleError, CycleFails, GoOn, CycleEnd, CycleBegin, LoopEnds, Restart, Reconcile,
                        PopStaleKeys, PositionsDone, OrdersDone, SkipEntries, BeginEntries, EntriesDone
  <2>2. CASE SubmitExit
      BY <1>2, <2>2 DEF SubmitExit
  <2>3. CASE SubmitExitReturns \/ Record
      BY <1>4, <2>3 DEF SubmitExitReturns, Record, Placing, TypeOK, Call
  <2>4. ASSUME NEW k \in Keys, OrderStep(k) PROVE RowsInv'
    <3>1. CASE OpenPosition(k)
        BY <1>2, <1>3, <3>1 DEF OpenPosition, ordersVars
    <3>2. CASE OrderStep(k) /\ ~OpenPosition(k)
        BY <1>4, <3>2 DEF OrderStep, ClosePosition, CheckStatus, HoldOrder, EntryTimeout, ExitTimeout,
                          TimeoutRaises, CycleFails, GoOn, CallSubmitExit, Placing
    <3> QED BY <2>4, <3>1, <3>2
  <2>5. ASSUME NEW s \in Signals, SignalStep(s) PROVE RowsInv'
    <3>1. CASE \E cost \in Costs : SubmitEntry(s, cost)
        BY <1>2, <3>1 DEF SubmitEntry
    <3>2. CASE HoldPosition(s) \/ SkipEntry(s) \/ StopCancelsExit(s) \/ \E stop \in BOOLEAN : ExitPosition(s, stop)
        BY <1>4, <3>2 DEF HoldPosition, SkipEntry, StopCancelsExit, ExitPosition, CallSubmitExit, Placing
    <3> QED BY <2>5, <3>1, <3>2 DEF SignalStep
  <2> QED BY <1>5, <1>6, <2>1, <2>2, <2>3, <2>4, <2>5 DEF LoopStep
<1>7. CASE Start \/ PersistSnapshot \/ (\E o \in Orders : Fill(o)) \/ UNCHANGED vars
  <2>1. CASE Start
      BY <1>4, <2>1 DEF Start, Placing
  <2>2. CASE PersistSnapshot \/ (\E o \in Orders : Fill(o)) \/ UNCHANGED vars
      BY <1>3, <2>2 DEF PersistSnapshot, Fill, ExchangeFill, vars, ordersVars, cycleVars
  <2> QED BY <1>7, <2>1, <2>2
<1> QED BY <1>6, <1>7 DEF Next

\* Memory m tracks no order that memory n does not, under the same key.
Follows(m, n) ==
    \A k \in Keys : m.orders[k].order # NoOrder =>
        m.orders[k].order = n.orders[k].order /\ m.orders[k].action = n.orders[k].action

\* Every memory follows itself, and the empty one follows all.
LEMMA FollowsBasics ==
    ASSUME NEW n PROVE Follows(n, n) /\ Follows(EmptyMemory, n)
BY DEF Follows, EmptyMemory, NotTracked

\* Popping keys and marking an exit as retried track nothing new.
LEMMA UntrackFollows ==
    ASSUME TypeOK,
           \/ \E keys : active_orders' = Untrack(keys)
           \/ \E k \in Keys : active_orders' = [active_orders EXCEPT ![k].retried = TRUE]
    PROVE  Follows(MemoryNow', MemoryNow)
BY DEF Follows, MemoryNow, Untrack, NotTracked, TypeOK, Tracked

\* Only Record tracks an order that neither memory nor the snapshot tracked.
LEMMA MemoryStep ==
    ASSUME TypeOK, [Next]_vars, ~Record
    PROVE  \A m \in {MemoryNow', snapshot'} : \E n \in {MemoryNow, snapshot} : Follows(m, n)
<1>1. CASE active_orders' = active_orders /\ snapshot' \in {snapshot, MemoryNow}
  <2>1. Follows(MemoryNow', MemoryNow)
      BY <1>1 DEF Follows, MemoryNow
  <2> QED BY <1>1, <2>1, FollowsBasics
<1>2. CASE Follows(MemoryNow', MemoryNow) /\ snapshot' = snapshot
    BY <1>2, FollowsBasics
<1>3. CASE Start
  <2>1. Follows(MemoryNow', snapshot) /\ snapshot' = snapshot
      BY <1>3 DEF Start, Follows, MemoryNow
  <2> QED BY <2>1, FollowsBasics
<1>4. CASE Crash
  <2>1. MemoryNow' = EmptyMemory /\ snapshot' \in {snapshot, EmptyMemory}
      BY <1>4 DEF Crash, MemoryNow, EmptyMemory
  <2> QED BY <2>1, FollowsBasics
<1>5. CASE CycleError \/ PersistSnapshot \/ UNCHANGED vars \/ \E o \in Orders : Fill(o)
    BY <1>1, <1>5 DEF CycleError, CycleFails, GoOn, Persist, PersistSnapshot, vars, Fill, memoryVars
<1>6. CASE \/ CycleEnd \/ CycleBegin \/ LoopEnds \/ Restart \/ Reconcile \/ PositionsDone \/ OrdersDone \/ SkipEntries
           \/ BeginEntries \/ EntriesDone \/ SubmitExit \/ SubmitExitReturns \/ Place
    BY <1>1, <1>6 DEF CycleEnd, GoOn, Persist, CycleBegin, LoopEnds, Restart, Reconcile, PositionsDone, OrdersDone, SkipEntries,
                      BeginEntries, EntriesDone, SubmitExit, SubmitExitReturns, Place, memoryVars
<1>7. CASE PopStaleKeys
    BY <1>2, <1>7, UntrackFollows DEF PopStaleKeys
<1>8. ASSUME NEW k \in Keys, OrderStep(k)
      PROVE  \A m \in {MemoryNow', snapshot'} : \E n \in {MemoryNow, snapshot} : Follows(m, n)
  <2>1. CASE ExitTimeout(k)
      BY <1>2, <2>1, UntrackFollows DEF ExitTimeout
  <2>2. CASE OrderStep(k) /\ ~ExitTimeout(k)
      BY <1>1, <2>2 DEF OrderStep, OpenPosition, ClosePosition, CheckStatus, HoldOrder, EntryTimeout,
                        TimeoutRaises, CycleFails, GoOn, Persist, memoryVars
  <2> QED BY <1>8, <2>1, <2>2
<1>9. ASSUME NEW s \in Signals, SignalStep(s)
      PROVE  \A m \in {MemoryNow', snapshot'} : \E n \in {MemoryNow, snapshot} : Follows(m, n)
  <2>1. CASE StopCancelsExit(s)
      BY <1>2, <2>1, UntrackFollows DEF StopCancelsExit
  <2>2. CASE SignalStep(s) /\ ~StopCancelsExit(s)
      BY <1>1, <2>2 DEF SignalStep, HoldPosition, SkipEntry, ExitPosition, SubmitEntry, memoryVars
  <2> QED BY <1>9, <2>1, <2>2
<1> QED BY <1>3, <1>4, <1>5, <1>6, <1>7, <1>8, <1>9 DEF Next, LoopStep

\* Record tracks the order of the call, under a key of its signal.
LEMMA RecordTracks ==
    ASSUME TypeOK, Record
    PROVE  /\ snapshot' = snapshot /\ active_positions' = active_positions
           /\ \A k \in Keys :
                 \/ active_orders'[k] = active_orders[k]
                 \/ /\ active_orders'[k].order = call.order
                    /\ active_orders'[k].action = call.action
                    /\ k[1] = call.sig
<1>1. \E k \in {MainKey(call.sig), TargetKey(call.sig)} :
          active_orders' \in {active_orders, Track(k, call.order, call.action, call.aggressive)}
    BY DEF Record
<1>2. MainKey(call.sig)[1] = call.sig /\ TargetKey(call.sig)[1] = call.sig
    BY DEF MainKey, TargetKey
<1> QED BY <1>1, <1>2 DEF Record, Track, TypeOK

\* What is tracked keeps its committed row.
LEMMA DurableStep ==
    ASSUME TypeOK, RowsInv, RowsInv', TrackedOrdersDurable, [Next]_vars
    PROVE  TrackedOrdersDurable'
<1> SUFFICES ASSUME ~DryRun PROVE TrackedOrdersDurable'
    BY DEF TrackedOrdersDurable
<1>1. RowsKept
    BY OrdersStep
<1>2. ASSUME NEW m \in {MemoryNow, snapshot}, NEW k \in Keys, m.orders[k].order # NoOrder
      PROVE  /\ m.orders[k].order \in Orders
             /\ Exists(db', m.orders[k].order)
             /\ db'[m.orders[k].order].sig = k[1]
             /\ db'[m.orders[k].order].action = m.orders[k].action
  <2>1. m.orders[k].order \in Orders
      BY <1>2, MemoryNowType DEF TypeOK, Memory, Tracked
  <2>2. /\ Exists(db, m.orders[k].order)
        /\ db[m.orders[k].order].sig = k[1]
        /\ db[m.orders[k].order].action = m.orders[k].action
      BY <1>2 DEF TrackedOrdersDurable
  <2> QED BY <1>1, <2>1, <2>2 DEF RowsKept
<1>3. CASE ~Record
  <2>1. ASSUME NEW m \in {MemoryNow', snapshot'}, NEW k \in Keys, m.orders[k].order # NoOrder
        PROVE  /\ Exists(db', m.orders[k].order)
               /\ db'[m.orders[k].order].sig = k[1]
               /\ db'[m.orders[k].order].action = m.orders[k].action
    <3>1. PICK n \in {MemoryNow, snapshot} : Follows(m, n)
        BY <1>3, MemoryStep
    <3>2. m.orders[k].order = n.orders[k].order /\ m.orders[k].action = n.orders[k].action
        BY <2>1, <3>1 DEF Follows
    <3> QED BY <1>2, <2>1, <3>2
  <2> QED BY <2>1 DEF TrackedOrdersDurable
<1>4. CASE Record
  <2>1. /\ call.order \in Orders /\ Exists(db, call.order)
        /\ db[call.order].sig = call.sig /\ db[call.order].action = call.action
      BY <1>4 DEF Record, RowsInv, OrdersInv, Placing, Exists
  <2>2. /\ Exists(db', call.order)
        /\ db'[call.order].sig = call.sig /\ db'[call.order].action = call.action
      BY <1>1, <2>1 DEF RowsKept
  <2>3. ASSUME NEW m \in {MemoryNow', snapshot'}, NEW k \in Keys, m.orders[k].order # NoOrder
        PROVE  /\ Exists(db', m.orders[k].order)
               /\ db'[m.orders[k].order].sig = k[1]
               /\ db'[m.orders[k].order].action = m.orders[k].action
    <3>1. CASE \E n \in {MemoryNow, snapshot} : m.orders[k] = n.orders[k]
        BY <1>2, <2>3, <3>1
    <3>2. CASE m.orders[k].order = call.order /\ m.orders[k].action = call.action /\ k[1] = call.sig
        BY <2>2, <3>2
    <3> QED BY <1>4, <3>1, <3>2, RecordTracks DEF MemoryNow
  <2> QED BY <2>3 DEF TrackedOrdersDurable
<1> QED BY <1>3, <1>4

\* The rows start empty, with nothing on the exchange.
LEMMA RowsInit ==
    ASSUME Init PROVE RowsInv /\ TrackedOrdersDurable
<1>1. OrdersInv
    BY DEF Init, InitOrders, OrdersInv, NoRow, Exists
<1>2. TrackedOrdersDurable
    BY DEF Init, TrackedOrdersDurable, MemoryNow, EmptyMemory, NotTracked
<1> QED BY <1>1, <1>2 DEF Init, RowsInv, Placing

\* No order reaches the exchange before its row is committed
\* (adapter.py, create_live_order commits before place_new_order).
THEOREM PlacedRecorded == Spec => []PlacedOrdersRecorded
<1>1. TypeOK /\ RowsInv /\ [Next]_vars => RowsInv'
    BY RowsInvStep
<1>2. RowsInv => PlacedOrdersRecorded
    BY DEF RowsInv, OrdersInv, PlacedOrdersRecorded
<1>3. Init => RowsInv
    BY RowsInit
<1> QED BY <1>1, <1>2, <1>3, TypeCorrect, PTL DEF Spec

\* A live worker, and the snapshot it restarts from, know no order without a
\* committed row of the same signal and purpose (runner.py tracks an order
\* after create_live_order returned, rows are never deleted).
THEOREM TrackedDurable == Spec => []TrackedOrdersDurable
<1>1. TypeOK /\ RowsInv /\ [Next]_vars => RowsInv'
    BY RowsInvStep
<1>2. TypeOK /\ RowsInv /\ RowsInv' /\ TrackedOrdersDurable /\ [Next]_vars => TrackedOrdersDurable'
    BY DurableStep
<1>3. Init => RowsInv /\ TrackedOrdersDurable
    BY RowsInit
<1> QED BY <1>1, <1>2, <1>3, TypeCorrect, PTL DEF Spec

-----------------------------------------------------------------------------
(* No phantom position *)

\* Only OpenPosition adds a position to the memory or to the snapshot.
LEMMA PositionsStep ==
    ASSUME [Next]_vars, \A k \in Keys : ~OpenPosition(k)
    PROVE  active_positions' \cup snapshot'.positions \subseteq active_positions \cup snapshot.positions
<1>1. CASE active_positions' \subseteq active_positions /\ snapshot' \in {snapshot, MemoryNow}
    BY <1>1 DEF MemoryNow
<1>2. CASE Start \/ Crash
    BY <1>2 DEF Start, Crash, EmptyMemory
<1>3. CASE CycleError \/ PersistSnapshot \/ UNCHANGED vars \/ \E o \in Orders : Fill(o)
    BY <1>1, <1>3 DEF CycleError, CycleFails, GoOn, Persist, PersistSnapshot, vars, Fill, memoryVars
<1>4. CASE \/ CycleEnd \/ CycleBegin \/ LoopEnds \/ Restart \/ Reconcile \/ PositionsDone \/ OrdersDone \/ SkipEntries
           \/ BeginEntries \/ EntriesDone \/ SubmitExit \/ SubmitExitReturns \/ Place \/ Record \/ PopStaleKeys
    BY <1>1, <1>4 DEF CycleEnd, GoOn, Persist, CycleBegin, LoopEnds, Restart, Reconcile, PositionsDone, OrdersDone, SkipEntries, BeginEntries,
                      EntriesDone, SubmitExit, SubmitExitReturns, Place, Record, PopStaleKeys, memoryVars
<1>5. CASE \E k \in Keys : OrderStep(k)
    BY <1>1, <1>5 DEF OrderStep, ClosePosition, CheckStatus, HoldOrder, EntryTimeout,
                      ExitTimeout, TimeoutRaises, CycleFails, GoOn, Persist, memoryVars
<1>6. CASE \E s \in Signals : SignalStep(s)
    BY <1>1, <1>6 DEF SignalStep, HoldPosition, SkipEntry, ExitPosition, StopCancelsExit, SubmitEntry, memoryVars
<1> QED BY <1>2, <1>3, <1>4, <1>5, <1>6 DEF Next, LoopStep

\* Where the signal of an exit in progress comes from: the exit before, a
\* position, an exit that timed out, or a fill.
LEMMA ExitingStep ==
    ASSUME TypeOK, SignalInv, [Next]_vars, Exiting'
    PROVE  \/ Exiting /\ call'.sig = call.sig
           \/ call'.sig \in active_positions
           \/ \E k \in TrackedKeys : active_orders[k].action # "entry" /\ call'.sig = k[1]
           \/ \E k \in Keys : OpenPosition(k) /\ call'.sig = k[1]
<1> USE DEF Exiting, Placing
<1>1. CASE Start \/ Crash \/ CycleError
    BY <1>1 DEF Start, Crash, CycleError, CycleFails, GoOn
<1>2. CASE PersistSnapshot \/ UNCHANGED vars \/ \E o \in Orders : Fill(o)
    BY <1>2 DEF PersistSnapshot, vars, Fill, cycleVars
<1>3. CASE \/ CycleEnd \/ CycleBegin \/ LoopEnds \/ Restart \/ Reconcile \/ PositionsDone \/ OrdersDone \/ SkipEntries
           \/ BeginEntries \/ EntriesDone \/ PopStaleKeys
    BY <1>3 DEF CycleEnd, GoOn, CycleBegin, LoopEnds, Restart, Reconcile, PositionsDone, OrdersDone, SkipEntries,
                BeginEntries, EntriesDone, PopStaleKeys
<1>4. CASE SubmitExit
    BY <1>4, BeginCreateCall DEF SubmitExit
<1>5. CASE SubmitExitReturns \/ Record
    BY <1>5 DEF SubmitExitReturns, Record, TypeOK, Call
<1>6. CASE Place
    BY <1>6 DEF Place, TypeOK, Call
<1>7. ASSUME NEW k \in Keys, OrderStep(k)
      PROVE  \/ call'.sig \in active_positions
             \/ \E j \in TrackedKeys : active_orders[j].action # "entry" /\ call'.sig = j[1]
             \/ OpenPosition(k) /\ call'.sig = k[1]
  <2>1. CASE OpenPosition(k)
    <3>1. BeginCreate(k[1], "target_exit", 0, FALSE, "fills")
        BY <2>1 DEF OpenPosition
    <3> QED BY <2>1, <3>1, BeginCreateCall
  <2>2. CASE ExitTimeout(k)
    <3>1. k \in TrackedKeys
        BY <2>2 DEF ExitTimeout, SignalInv, Phase
    <3> QED BY <2>2, <3>1, CallSubmitExitCall DEF ExitTimeout
  <2>3. CASE ClosePosition(k) \/ CheckStatus(k) \/ HoldOrder(k) \/ EntryTimeout(k) \/ TimeoutRaises(k)
      BY <2>3 DEF ClosePosition, CheckStatus, HoldOrder, EntryTimeout, TimeoutRaises, CycleFails, GoOn
  <2> QED BY <1>7, <2>1, <2>2, <2>3 DEF OrderStep
<1>8. ASSUME NEW s \in Signals, SignalStep(s) PROVE call'.sig \in active_positions
  <2>1. CASE StopCancelsExit(s) \/ \E stop \in BOOLEAN : ExitPosition(s, stop)
      BY <2>1, CallSubmitExitCall DEF StopCancelsExit, ExitPosition, SignalInv, Phase
  <2>2. CASE HoldPosition(s) \/ SkipEntry(s)
      BY <2>2 DEF HoldPosition, SkipEntry
  <2>3. CASE \E cost \in Costs : SubmitEntry(s, cost)
    <3>1. Placing' /\ call'.action = "entry"
        BY <2>3, BeginCreateCall DEF SubmitEntry
    <3> QED BY <3>1
  <2> QED BY <1>8, <2>1, <2>2, <2>3 DEF SignalStep
<1> QED BY <1>1, <1>2, <1>3, <1>4, <1>5, <1>6, <1>7, <1>8 DEF Next, LoopStep

\* Every step keeps the positions and the exits backed by an entry that traded.
LEMMA BackedStep ==
    ASSUME TypeOK, SignalInv, RowsInv, TrackedOrdersDurable, BackedInv, [Next]_vars
    PROVE  BackedInv'
<1>1. ~DryRun => RowsKept
    BY OrdersStep
<1>2. ASSUME NEW s, Backed(s) PROVE Backed(s)'
  <2>1. PICK o \in Orders : Exists(db, o) /\ trades[o] > 0 /\ db[o].sig = s /\ db[o].action = "entry"
      BY <1>2 DEF Backed
  <2>2. ~DryRun
      BY <2>1 DEF RowsInv, OrdersInv
  <2>3. trades[o] \in Nat /\ trades'[o] >= trades[o] /\ trades'[o] > 0
    <3>1. trades'[o] >= trades[o] /\ trades[o] \in Nat
        BY <1>1, <2>2, OrdersAssumption DEF RowsKept, TypeOK, TypeOKOrders
    <3>2. trades'[o] \in Nat
        BY TypeStep, OrdersAssumption DEF TypeOK, TypeOKOrders
    <3> QED BY <2>1, <3>1, <3>2
  <2> QED BY <1>1, <2>1, <2>2, <2>3 DEF RowsKept, Backed
<1>3. ASSUME NEW k \in Keys, OpenPosition(k) PROVE Backed(k[1])
  <2> DEFINE o == active_orders[k].order
  <2>1. k \in TrackedKeys /\ UnseenTrade(k)
      BY <1>3 DEF OpenPosition, SignalInv, Phase
  <2>2. o \in Orders /\ o # NoOrder
      BY <2>1 DEF TrackedKeys, IsTracked, TypeOK, Tracked
  <2>3. trades[o] > 0 /\ ~DryRun
    <3>1. seen_trades[o] \in Nat /\ trades[o] \in Nat /\ seen_trades[o] < trades[o]
        BY <2>1, <2>2, OrdersAssumption DEF UnseenTrade, TypeOK, TypeOKOrders
    <3> QED BY <2>2, <3>1 DEF RowsInv, OrdersInv
  <2>4. CASE active_orders[k].action = "entry"
      BY <2>2, <2>3, <2>4 DEF TrackedOrdersDurable, MemoryNow, Backed
  <2>5. CASE active_orders[k].action # "entry"
      BY <2>2, <2>5 DEF BackedInv, MemoryNow
  <2> QED BY <2>4, <2>5
<1>4. PositionsBacked'
  <2>1. CASE \E k \in Keys : OpenPosition(k)
    <3>1. PICK k \in Keys : OpenPosition(k)
        BY <2>1
    <3>2. active_positions' = active_positions \cup {k[1]} /\ snapshot' = snapshot
        BY <3>1 DEF OpenPosition
    <3> QED BY <1>2, <1>3, <3>1, <3>2 DEF BackedInv, PositionsBacked
  <2>2. CASE \A k \in Keys : ~OpenPosition(k)
      BY <1>2, <2>2, PositionsStep DEF BackedInv, PositionsBacked
  <2> QED BY <2>1, <2>2
<1>5. ASSUME NEW m \in {MemoryNow', snapshot'}, NEW k \in Keys,
             m.orders[k].order # NoOrder, m.orders[k].action # "entry"
      PROVE  Backed(k[1])'
  <2>1. CASE ~Record
    <3>1. PICK n \in {MemoryNow, snapshot} : Follows(m, n)
        BY <2>1, MemoryStep
    <3>2. n.orders[k].order # NoOrder /\ n.orders[k].action # "entry"
        BY <1>5, <3>1 DEF Follows
    <3> QED BY <1>2, <3>2 DEF BackedInv
  <2>2. CASE Record
    <3>1. CASE \E n \in {MemoryNow, snapshot} : m.orders[k] = n.orders[k]
        BY <1>2, <1>5, <3>1 DEF BackedInv
    <3>2. CASE m.orders[k].action = call.action /\ k[1] = call.sig
        BY <1>2, <1>5, <2>2, <3>2 DEF BackedInv, Exiting, Placing, Record
    <3> QED BY <2>2, <3>1, <3>2, RecordTracks DEF MemoryNow
  <2> QED BY <2>1, <2>2
<1>6. ASSUME Exiting' PROVE Backed(call.sig)'
  <2>1. PICK s : s = call'.sig
      OBVIOUS
  <2>2. Backed(s)
    <3>1. CASE Exiting /\ s = call.sig
        BY <3>1 DEF BackedInv
    <3>2. CASE s \in active_positions
        BY <3>2 DEF BackedInv, PositionsBacked
    <3>3. CASE \E k \in TrackedKeys : active_orders[k].action # "entry" /\ s = k[1]
        BY <3>3 DEF BackedInv, MemoryNow, TrackedKeys, IsTracked
    <3>4. CASE \E k \in Keys : OpenPosition(k) /\ s = k[1]
        BY <1>3, <3>4
    <3> QED BY <1>6, <2>1, <3>1, <3>2, <3>3, <3>4, ExitingStep
  <2>3. Backed(s)'
      BY <1>2, <2>2
  <2> QED BY <2>1, <2>3 DEF Backed
<1> QED BY <1>4, <1>5, <1>6 DEF BackedInv

\* A position, in memory or restored, stands for an entry of its signal with a
\* recorded trade (_handle_trade_fill, also when it reads an exit as a buy).
THEOREM NoPhantomPosition == Spec => []PositionsBacked
<1>1. Init => SignalInv /\ RowsInv /\ TrackedOrdersDurable /\ BackedInv
  <2>1. Init => BackedInv
      BY DEF Init, BackedInv, PositionsBacked, MemoryNow, EmptyMemory, NotTracked, Exiting, Placing
  <2> QED BY <2>1, SignalInvInit, RowsInit
<1>2. TypeOK /\ SignalInv /\ [Next]_vars => SignalInv'
    BY SignalInvStep
<1>3. TypeOK /\ RowsInv /\ [Next]_vars => RowsInv'
    BY RowsInvStep
<1>4. TypeOK /\ RowsInv /\ RowsInv' /\ TrackedOrdersDurable /\ [Next]_vars => TrackedOrdersDurable'
    BY DurableStep
<1>5. TypeOK /\ SignalInv /\ RowsInv /\ TrackedOrdersDurable /\ BackedInv /\ [Next]_vars => BackedInv'
    BY BackedStep
<1>6. BackedInv => PositionsBacked
    BY DEF BackedInv
<1> QED BY <1>1, <1>2, <1>3, <1>4, <1>5, <1>6, TypeCorrect, PTL DEF Spec

-----------------------------------------------------------------------------
(* One exit per signal, and the retry that submits nothing *)

\* The retry of a timed out exit does not reach create_live_order.
RetryPlacesNothing == [][SubmitExit => call.back # "orders"]_vars

\* While an exit is created its signal has no other; when a retry is tried the
\* exit that timed out is still tracked.
ExitInv ==
    /\ OneExitPerSignal
    /\ Placing /\ call.action # "entry" => ~HasActiveExit(call.sig)
    /\ pc = "submit_exit" /\ call.back = "orders" => HasActiveExit(call.sig)

\* _active_exit_order_key finds what the worker tracks as an exit.
LEMMA TracksExitActive ==
    ASSUME TypeOK, NEW s \in Signals
    PROVE  HasActiveExit(s) <=> TracksExit(MemoryNow, MainKey(s)) \/ TracksExit(MemoryNow, TargetKey(s))
<1>1. \A k \in {MainKey(s), TargetKey(s)} :
          active_orders[k].action # "entry" /\ IsTracked(k) <=>
              active_orders[k].action \in {"exit", "target_exit"} /\ IsTracked(k)
    BY KeysOfSignals DEF TypeOK, Tracked, Actions, IsTracked
<1> QED BY <1>1 DEF HasActiveExit, TracksExit, IsTracked, MemoryNow

\* A memory that tracks nothing new keeps one exit per signal.
LEMMA StillOneExit ==
    ASSUME OneExitPerSignal,
           \A m \in {MemoryNow', snapshot'} : \E n \in {MemoryNow, snapshot} : Follows(m, n)
    PROVE  OneExitPerSignal'
BY KeysOfSignals DEF OneExitPerSignal, TracksExit, Follows

\* Record tracks the exit or the target of a signal that had neither.
LEMMA RecordKeepsOneExit ==
    ASSUME TypeOK, SignalInv, ExitInv, Record PROVE OneExitPerSignal'
<1> DEFINE key == IF call.action = "target_exit" THEN TargetKey(call.sig) ELSE MainKey(call.sig)
<1>1. call.sig \in Signals
    BY DEF Record, SignalInv, Placing
<1>2. snapshot' = snapshot /\ active_orders' \in {active_orders, Track(key, call.order, call.action, call.aggressive)}
    BY DEF Record
<1>3. key \in Keys /\ key[1] = call.sig
    BY <1>1, KeysOfSignals
<1>4. ASSUME NEW k \in Keys, TracksExit(MemoryNow', k)
      PROVE  TracksExit(MemoryNow, k) \/ (k = key /\ call.action # "entry")
    BY <1>2, <1>3, <1>4 DEF TracksExit, MemoryNow, Track, TypeOK
<1>5. ASSUME call.action # "entry"
      PROVE  ~TracksExit(MemoryNow, MainKey(call.sig)) /\ ~TracksExit(MemoryNow, TargetKey(call.sig))
    BY <1>1, <1>5, TracksExitActive DEF Record, ExitInv, Placing
<1>6. ASSUME NEW s \in Signals, TracksExit(MemoryNow', MainKey(s)), TracksExit(MemoryNow', TargetKey(s))
      PROVE  FALSE
  <2>1. MainKey(s) # TargetKey(s)
      BY DEF MainKey, TargetKey
  <2>2. CASE s = call.sig /\ call.action # "entry"
      BY <1>4, <1>5, <1>6, <2>1, <2>2, KeysOfSignals
  <2>3. CASE ~(s = call.sig /\ call.action # "entry")
    <3>1. TracksExit(MemoryNow, MainKey(s)) /\ TracksExit(MemoryNow, TargetKey(s))
        BY <1>3, <1>4, <1>6, <2>3, KeysOfSignals
    <3> QED BY <3>1 DEF ExitInv, OneExitPerSignal
  <2> QED BY <2>2, <2>3
<1>7. ASSUME NEW s \in Signals PROVE ~(TracksExit(snapshot', MainKey(s)) /\ TracksExit(snapshot', TargetKey(s)))
    BY <1>2 DEF ExitInv, OneExitPerSignal
<1> QED BY <1>6, <1>7 DEF OneExitPerSignal

\* Every step keeps the invariant of the exits.
LEMMA ExitInvStep ==
    ASSUME TypeOK, SignalInv, ExitInv, [Next]_vars PROVE ExitInv'
<1> DEFINE Create(s) == Placing' /\ call'.action # "entry" /\ s = call'.sig
           Retry(s) == pc' = "submit_exit" /\ call'.back = "orders" /\ s = call'.sig
<1>1. OneExitPerSignal'
    BY RecordKeepsOneExit, MemoryStep, StillOneExit DEF ExitInv
<1>2. ASSUME UNCHANGED active_orders, NEW s PROVE HasActiveExit(s)' <=> HasActiveExit(s)
    BY <1>2 DEF HasActiveExit, IsTracked
<1>3. ASSUME NEW s, Create(s) \/ Retry(s) PROVE (Create(s) => ~HasActiveExit(s)') /\ (Retry(s) => HasActiveExit(s)')
  <2> USE DEF Placing
  <2>1. CASE UNCHANGED <<pc, call, active_orders>>
      BY <1>2, <1>3, <2>1 DEF ExitInv
  <2>2. CASE PersistSnapshot \/ UNCHANGED vars \/ \E o \in Orders : Fill(o)
      BY <2>1, <2>2 DEF PersistSnapshot, Fill, vars, memoryVars, cycleVars
  <2>3. CASE \/ Start \/ Crash \/ CycleError \/ CycleEnd \/ CycleBegin \/ LoopEnds \/ Restart \/ Reconcile \/ PositionsDone
             \/ OrdersDone \/ SkipEntries \/ BeginEntries \/ EntriesDone \/ PopStaleKeys
      BY <1>3, <2>3 DEF Start, Crash, CycleError, CycleFails, GoOn, CycleEnd, CycleBegin, LoopEnds, Restart, Reconcile, PositionsDone,
                        OrdersDone, SkipEntries, BeginEntries, EntriesDone, PopStaleKeys
  <2>4. CASE SubmitExitReturns \/ Record
      BY <1>3, <2>4 DEF SubmitExitReturns, Record, TypeOK, Call
  <2>5. CASE SubmitExit
    <3>1. Placing' /\ call'.sig = call.sig /\ UNCHANGED active_orders
        BY <2>5, BeginCreateCall DEF SubmitExit, memoryVars
    <3> QED BY <1>2, <1>3, <2>5, <3>1 DEF SubmitExit
  <2>6. CASE Place
    <3>1. /\ Placing /\ UNCHANGED active_orders /\ pc' = "record"
          /\ call'.action = call.action /\ call'.sig = call.sig
        BY <2>6 DEF Place, memoryVars, TypeOK, Call
    <3> QED BY <1>2, <1>3, <3>1 DEF ExitInv
  <2>7. ASSUME NEW k \in Keys, OrderStep(k)
        PROVE  (Create(s) => ~HasActiveExit(s)') /\ (Retry(s) => HasActiveExit(s)')
    <3>1. CASE OpenPosition(k)
      <4>1. CASE UNCHANGED <<pc, call>>
          BY <2>1, <3>1, <4>1 DEF OpenPosition
      <4>2. CASE ~HasActiveExit(k[1]) /\ BeginCreate(k[1], "target_exit", 0, FALSE, "fills")
        <5>1. Placing' /\ call'.sig = k[1] /\ UNCHANGED active_orders
            BY <3>1, <4>2, BeginCreateCall DEF OpenPosition
        <5> QED BY <1>2, <4>2, <5>1
      <4> QED BY <3>1, <4>1, <4>2 DEF OpenPosition
    <3>2. CASE ExitTimeout(k)
      <4>1. k \in TrackedKeys /\ active_orders[k].action = "exit"
          BY <3>2 DEF ExitTimeout, SignalInv, Phase
      <4>2. pc' = "submit_exit" /\ call'.sig = k[1]
          BY <3>2, CallSubmitExitCall DEF ExitTimeout
      <4>3. IsTracked(k)' /\ active_orders'[k].action = "exit"
          BY <3>2, <4>1 DEF ExitTimeout, TrackedKeys, IsTracked, TypeOK, Tracked
      <4>4. k \in {MainKey(k[1]), TargetKey(k[1])}
          BY DEF Keys, MainKey, TargetKey
      <4>5. HasActiveExit(k[1])'
          BY <4>3, <4>4 DEF HasActiveExit, MainKey, TargetKey
      <4> QED BY <4>2, <4>5
    <3>3. CASE ClosePosition(k) \/ CheckStatus(k) \/ HoldOrder(k) \/ EntryTimeout(k) \/ TimeoutRaises(k)
        BY <1>3, <3>3 DEF ClosePosition, CheckStatus, HoldOrder, EntryTimeout, TimeoutRaises, CycleFails, GoOn
    <3> QED BY <2>7, <3>1, <3>2, <3>3 DEF OrderStep
  <2>8. ASSUME NEW t \in Signals, SignalStep(t)
        PROVE  ~Create(s) /\ ~Retry(s)
    <3>1. CASE StopCancelsExit(t) \/ \E stop \in BOOLEAN : ExitPosition(t, stop)
        BY <3>1 DEF StopCancelsExit, ExitPosition, CallSubmitExit, NoCall
    <3>2. CASE HoldPosition(t) \/ SkipEntry(t)
        BY <3>2 DEF HoldPosition, SkipEntry
    <3>3. CASE \E cost \in Costs : SubmitEntry(t, cost)
      <4>1. Placing' /\ call'.action = "entry"
          BY <3>3, BeginCreateCall DEF SubmitEntry
      <4> QED BY <4>1
    <3> QED BY <2>8, <3>1, <3>2, <3>3 DEF SignalStep
  <2> QED BY <1>3, <2>2, <2>3, <2>4, <2>5, <2>6, <2>7, <2>8 DEF Next, LoopStep
<1>4. PICK s : s = call'.sig
    OBVIOUS
<1>5. ASSUME Placing', call'.action # "entry" PROVE ~HasActiveExit(s)'
    BY <1>3, <1>4, <1>5
<1>6. ASSUME pc' = "submit_exit", call'.back = "orders" PROVE HasActiveExit(s)'
    BY <1>3, <1>4, <1>6
<1> QED BY <1>1, <1>4, <1>5, <1>6 DEF ExitInv, HasActiveExit, MainKey, TargetKey

\* The worker has not entered anything before it starts.
LEMMA ExitInvInit ==
    ASSUME Init PROVE ExitInv
<1>1. \A k \in Keys : ~TracksExit(EmptyMemory, k)
    BY DEF TracksExit, EmptyMemory, NotTracked
<1>2. MemoryNow = EmptyMemory /\ snapshot = EmptyMemory /\ pc = "down"
    BY DEF Init, MemoryNow, EmptyMemory
<1> QED BY <1>1, <1>2, KeysOfSignals DEF ExitInv, OneExitPerSignal, Placing

\* The worker never tracks a resting target beside an exit of the same signal,
\* in memory or in what it restarts from: a target is only placed when no exit
\* is tracked, and a stop unties the target before it submits (runner.py:3117,
\* 3021, 2424).
THEOREM OneExitTracked == Spec => []OneExitPerSignal
<1>1. Init => SignalInv /\ ExitInv
    BY SignalInvInit, ExitInvInit
<1>2. TypeOK /\ SignalInv /\ [Next]_vars => SignalInv'
    BY SignalInvStep
<1>3. TypeOK /\ SignalInv /\ ExitInv /\ [Next]_vars => ExitInv'
    BY ExitInvStep
<1>4. ExitInv => OneExitPerSignal
    BY DEF ExitInv
<1> QED BY <1>1, <1>2, <1>3, <1>4, TypeCorrect, PTL DEF Spec

\* _process_open_orders calls _submit_exit_order while the exit it cancelled is
\* still in active_orders, so the early return is always taken (runner.py:2290,
\* 3021): no retry ever sends an order, against the runbook's line 24, "after
\* 10s without fill, retry once with an aggressive market-emulated sell".
THEOREM RetryNeverPlaces == Spec => RetryPlacesNothing
<1>1. Init => SignalInv /\ ExitInv
    BY SignalInvInit, ExitInvInit
<1>2. TypeOK /\ SignalInv /\ [Next]_vars => SignalInv'
    BY SignalInvStep
<1>3. TypeOK /\ SignalInv /\ ExitInv /\ [Next]_vars => ExitInv'
    BY ExitInvStep
<1>4. ExitInv /\ [Next]_vars => [SubmitExit => call.back # "orders"]_vars
    BY DEF ExitInv, SubmitExit
<1> QED BY <1>1, <1>2, <1>3, <1>4, TypeCorrect, PTL DEF Spec, RetryPlacesNothing

-----------------------------------------------------------------------------
(* What closes a position *)

\* A position leaves the worker's memory only with the process, or with a recorded fill of a
\* resting target of its signal.
OnlyTargetsClose ==
    [][\A s \in active_positions \ active_positions' :
          \/ pc' = "down"
          \/ \E o \in Orders : /\ Exists(db, o) /\ db[o].sig = s /\ db[o].action = "target_exit"
                               /\ seen_trades[o] < trades[o]]_vars

\* There is no memory without a process.
DownEmpty == pc = "down" => active_positions = {}

LEMMA DownEmptyStep ==
    ASSUME TypeOK, DownEmpty, [Next]_vars PROVE DownEmpty'
<1> SUFFICES ASSUME pc' = "down" PROVE active_positions' = {}
    BY DEF DownEmpty
<1>1. CASE Crash
    BY <1>1 DEF Crash
<1>2. CASE UNCHANGED vars \/ PersistSnapshot \/ \E o \in Orders : Fill(o)
    BY <1>2 DEF vars, PersistSnapshot, Fill, memoryVars, DownEmpty
<1>3. ~Start /\ ~CycleError /\ ~LoopEnds /\ ~Restart
    BY DEF Start, CycleError, CycleFails, GoOn, LoopEnds, Restart
<1>4. ASSUME LoopStep PROVE FALSE
  <2>1. CASE \/ CycleBegin \/ CycleEnd \/ Reconcile \/ PopStaleKeys \/ PositionsDone \/ OrdersDone
             \/ SkipEntries \/ BeginEntries \/ EntriesDone
      BY <2>1 DEF CycleBegin, CycleEnd, GoOn, Reconcile, PopStaleKeys, PositionsDone, OrdersDone,
                  SkipEntries, BeginEntries, EntriesDone
  <2>2. CASE SubmitExit
    <3>1. Placing'
        BY <2>2, BeginCreateCall DEF SubmitExit
    <3> QED BY <3>1 DEF Placing
  <2>3. CASE SubmitExitReturns \/ Place \/ Record
      BY <2>3 DEF SubmitExitReturns, Place, Record, TypeOK, Call, InCycle
  <2>4. ASSUME NEW k \in Keys, OrderStep(k) PROVE FALSE
    <3>1. CASE OpenPosition(k)
      <4>1. pc' = "fills" \/ Placing'
          BY <3>1, BeginCreateCall DEF OpenPosition
      <4> QED BY <4>1 DEF Placing
    <3>2. CASE ExitTimeout(k)
        BY <3>2 DEF ExitTimeout, CallSubmitExit
    <3>3. CASE ClosePosition(k) \/ CheckStatus(k) \/ HoldOrder(k) \/ EntryTimeout(k) \/ TimeoutRaises(k)
        BY <3>3 DEF ClosePosition, CheckStatus, HoldOrder, EntryTimeout, TimeoutRaises, CycleFails, GoOn
    <3> QED BY <2>4, <3>1, <3>2, <3>3 DEF OrderStep
  <2>5. ASSUME NEW s \in Signals, SignalStep(s) PROVE FALSE
    <3>1. CASE StopCancelsExit(s) \/ \E stop \in BOOLEAN : ExitPosition(s, stop)
        BY <3>1 DEF StopCancelsExit, ExitPosition, CallSubmitExit
    <3>2. CASE HoldPosition(s) \/ SkipEntry(s)
        BY <3>2 DEF HoldPosition, SkipEntry
    <3>3. CASE \E cost \in Costs : SubmitEntry(s, cost)
      <4>1. Placing'
          BY <3>3, BeginCreateCall DEF SubmitEntry
      <4> QED BY <4>1 DEF Placing
    <3> QED BY <2>5, <3>1, <3>2, <3>3 DEF SignalStep
  <2> QED BY <1>4, <2>1, <2>2, <2>3, <2>4, <2>5 DEF LoopStep
<1> QED BY <1>1, <1>2, <1>3, <1>4 DEF Next

\* No step but ClosePosition and the end of the process takes a position away.
LEMMA PositionsLeave ==
    ASSUME DownEmpty, [Next]_vars, NEW s \in active_positions, s \notin active_positions', pc' # "down"
    PROVE  \E k \in Keys : ClosePosition(k) /\ s = k[1]
<1>1. ~Start /\ ~Crash
    BY DEF Start, Crash, DownEmpty
<1>2. ~CycleError /\ ~LoopEnds /\ ~Restart /\ ~PersistSnapshot /\ ~UNCHANGED vars /\ \A o \in Orders : ~Fill(o)
    BY DEF CycleError, CycleFails, LoopEnds, Restart, PersistSnapshot, vars, Fill, memoryVars
<1>3. LoopStep
    BY <1>1, <1>2 DEF Next
<1>4. ~(\/ CycleBegin \/ CycleEnd \/ Reconcile \/ PopStaleKeys \/ PositionsDone \/ OrdersDone
        \/ SkipEntries \/ BeginEntries \/ EntriesDone
        \/ SubmitExit \/ SubmitExitReturns \/ Place \/ Record)
    BY DEF CycleBegin, CycleEnd, GoOn, Reconcile, PopStaleKeys, PositionsDone, OrdersDone, SkipEntries,
           BeginEntries, EntriesDone, SubmitExit, SubmitExitReturns, Place, Record, memoryVars
<1>5. \A t \in Signals : ~SignalStep(t)
    BY DEF SignalStep, HoldPosition, StopCancelsExit, SkipEntry, ExitPosition, SubmitEntry, memoryVars
<1>6. PICK k \in Keys : OrderStep(k)
    BY <1>3, <1>4, <1>5 DEF LoopStep
<1>7. ClosePosition(k)
    BY <1>6 DEF OrderStep, OpenPosition, CheckStatus, HoldOrder, EntryTimeout, ExitTimeout,
                TimeoutRaises, CycleFails, GoOn, memoryVars
<1> QED BY <1>7 DEF ClosePosition

\* A position that leaves while the process goes on leaves by a fill of its target.
LEMMA PositionCloses ==
    ASSUME TypeOK, DownEmpty, SignalInv, RowsInv, TrackedOrdersDurable, [Next]_vars,
           NEW s \in active_positions, s \notin active_positions', pc' # "down"
    PROVE  \E o \in Orders : /\ Exists(db, o) /\ db[o].sig = s /\ db[o].action = "target_exit"
                             /\ seen_trades[o] < trades[o]
<1>1. PICK k \in Keys : ClosePosition(k) /\ s = k[1]
    BY PositionsLeave
<1> DEFINE o == active_orders[k].order
<1>2. /\ k \in TrackedKeys /\ active_orders[k].action = "target_exit"
      /\ seen_trades[o] < trades[o]
    BY <1>1 DEF ClosePosition, SignalInv, Phase, UnseenTrade, TrackedSide
<1>3. o \in Orders /\ o # NoOrder
    BY <1>2 DEF TrackedKeys, IsTracked, TypeOK, Tracked
<1>4. ~DryRun
  <2>1. seen_trades[o] \in Nat /\ trades[o] \in Nat /\ trades[o] > 0
      BY <1>2, <1>3, OrdersAssumption DEF TypeOK, TypeOKOrders
  <2> QED BY <1>3, <2>1 DEF RowsInv, OrdersInv
<1> QED BY <1>1, <1>2, <1>3, <1>4 DEF TrackedOrdersDurable, MemoryNow

\* An exit keeps the side "buy" of the position it was copied from, so its fill is
\* handled as that of an entry (runner.py:3082, 3238): however a stop or a normal exit is
\* filled, the worker goes on with the position; the fill of a target closes it.
THEOREM ClosedByTarget == Spec => OnlyTargetsClose
<1>1. Init => DownEmpty /\ SignalInv /\ RowsInv /\ TrackedOrdersDurable
    BY SignalInvInit, RowsInit DEF Init, DownEmpty
<1>2. TypeOK /\ DownEmpty /\ [Next]_vars => DownEmpty'
    BY DownEmptyStep
<1>3. TypeOK /\ SignalInv /\ [Next]_vars => SignalInv'
    BY SignalInvStep
<1>4. TypeOK /\ RowsInv /\ [Next]_vars => RowsInv'
    BY RowsInvStep
<1>5. TypeOK /\ RowsInv /\ RowsInv' /\ TrackedOrdersDurable /\ [Next]_vars => TrackedOrdersDurable'
    BY DurableStep
<1>6. TypeOK /\ DownEmpty /\ SignalInv /\ RowsInv /\ TrackedOrdersDurable /\ [Next]_vars =>
        [\A s \in active_positions \ active_positions' :
            \/ pc' = "down"
            \/ \E o \in Orders : /\ Exists(db, o) /\ db[o].sig = s /\ db[o].action = "target_exit"
                                 /\ seen_trades[o] < trades[o]]_vars
    BY PositionCloses
<1> QED BY <1>1, <1>2, <1>3, <1>4, <1>5, <1>6, TypeCorrect, PTL DEF Spec, OnlyTargetsClose

-----------------------------------------------------------------------------
(* The entries of a game stay within the budget *)

\* Only SubmitEntry makes a table count one more entry.
LEMMA CountsStep ==
    ASSUME TypeOK, RowsInv, [Next]_vars, \A s \in Signals, cost \in Costs : ~SubmitEntry(s, cost)
    PROVE  CountsKept
<1>1. TypeOKOrders /\ OrdersInv
    BY DEF TypeOK, RowsInv
<1>2. CASE tx' \in {tx, db} /\ db' \in {tx, db}
    BY <1>2, TablesCopiedCounts
<1>3. ASSUME NEW s, NEW action, NEW cost, NEW aggressive, NEW back,
             action # "entry", BeginCreate(s, action, cost, aggressive, back)
      PROVE  CountsKept
    BY <1>1, <1>3, RequestOrderCounts DEF BeginCreate, CountsKept, CountsWithin
<1>4. CASE \/ Start \/ Crash \/ CycleError \/ PersistSnapshot \/ UNCHANGED vars
           \/ \E o \in Orders : Fill(o)
    BY <1>2, <1>4 DEF Start, Crash, CycleError, CycleFails, GoOn, PersistSnapshot, vars, Fill, ExchangeFill,
                      ordersVars, RollbackConnection
<1>5. CASE \/ CycleEnd \/ CycleBegin \/ LoopEnds \/ Restart \/ SkipEntries \/ EntriesDone \/ OrdersDone \/ PopStaleKeys
           \/ PositionsDone \/ SubmitExitReturns \/ BeginEntries \/ Place
    BY <1>2, <1>5 DEF CycleEnd, GoOn, CommitConnection, CycleBegin, LoopEnds, Restart, SkipEntries, EntriesDone, OrdersDone, PopStaleKeys,
                      PositionsDone, SubmitExitReturns, BeginEntries, Place, PlaceOrder, ordersVars
<1>6. CASE Reconcile
    BY <1>1, <1>2, <1>6, ReconcileFillsCounts DEF Reconcile, ordersVars
<1>7. CASE SubmitExit
    BY <1>3, <1>7 DEF SubmitExit
<1>8. CASE Record
  <2>1. call.order \in Orders /\ Exists(tx, call.order) /\ tx[call.order].status \notin IGNORED_STATUSES
      BY <1>8 DEF Record, RowsInv, Placing, Exists, IGNORED_STATUSES
  <2> QED BY <1>1, <1>8, <2>1, RecordOrderCounts DEF Record, CountsKept, CountsWithin
<1>9. CASE \E k \in Keys : OrderStep(k)
  <2>1. PICK k \in Keys : OrderStep(k)
      BY <1>9
  <2>2. CASE OpenPosition(k)
      BY <1>2, <1>3, <2>2 DEF OpenPosition, ordersVars
  <2>3. CASE ClosePosition(k) \/ CheckStatus(k) \/ HoldOrder(k) \/ TimeoutRaises(k)
      BY <1>2, <2>3 DEF ClosePosition, CheckStatus, HoldOrder, TimeoutRaises, CycleFails, GoOn,
                        RollbackConnection, ordersVars
  <2>4. CASE EntryTimeout(k) \/ ExitTimeout(k)
      BY <1>1, <2>4, CancelOrderCounts DEF EntryTimeout, ExitTimeout
  <2> QED BY <2>1, <2>2, <2>3, <2>4 DEF OrderStep
<1>10. CASE \E s \in Signals : SignalStep(s)
  <2>1. PICK s \in Signals : SignalStep(s)
      BY <1>10
  <2>2. CASE HoldPosition(s) \/ SkipEntry(s) \/ \E stop \in BOOLEAN : ExitPosition(s, stop)
      BY <1>2, <2>2 DEF HoldPosition, SkipEntry, ExitPosition, ordersVars
  <2>3. CASE StopCancelsExit(s)
      BY <1>1, <2>3, CancelOrderCounts DEF StopCancelsExit
  <2> QED BY <2>1, <2>2, <2>3 DEF SignalStep
<1> QED BY <1>4, <1>5, <1>6, <1>7, <1>8, <1>9, <1>10 DEF Next, LoopStep

\* A set of orders within a set that is small enough is small enough.
LEMMA CountBound ==
    ASSUME NEW rows, NEW g, NEW S \in SUBSET Orders, CountedEntries(rows, g) \subseteq S
    PROVE  /\ IsFiniteSet(S) /\ Cardinality(S) \in Nat
           /\ EntryOrderCount(rows, g) \in Nat
           /\ EntryOrderCount(rows, g) <= Cardinality(S)
<1>1. IsFiniteSet(Orders)
    BY OrdersAssumption, FS_Interval DEF Orders
<1>2. IsFiniteSet(S)
    BY <1>1, FS_Subset
<1> QED BY <1>2, FS_Subset, FS_CardinalityType DEF EntryOrderCount

\* One more element is at most one more.
LEMMA CardinalityPlusOne ==
    ASSUME NEW S, NEW x, IsFiniteSet(S)
    PROVE  Cardinality(S \cup {x}) \in Nat /\ Cardinality(S \cup {x}) <= Cardinality(S) + 1
<1>1. Cardinality(S) \in Nat
    BY FS_CardinalityType
<1>2. Cardinality(S \cup {x}) = Cardinality(S) \/ Cardinality(S \cup {x}) = Cardinality(S) + 1
    BY FS_AddElement, Zenon
<1> QED BY <1>1, <1>2

\* The rows read before the loop show every counted entry of the game SubmitEntry
\* buys for, and the order it writes is the only one they may miss.
LEMMA SubmitEntryShown ==
    ASSUME TypeOK, CountInv, NEW s \in Signals, NEW cost \in Costs, SubmitEntry(s, cost)
    PROVE  /\ GameOf[s] \in Games
           /\ CountedEntries(tx, GameOf[s]) \subseteq CountedEntries(run_orders, GameOf[s])
           /\ \E o \in Orders :
                 /\ call'.order = o /\ call'.sig = s
                 /\ ~Exists(tx, o) /\ tx'[o].cost = cost /\ db' \in {db, tx'}
                 /\ \A p \in Orders \ {o} : tx'[p] = tx[p]
                 /\ \A g \in Games : CountedEntries(tx', g) \subseteq
                       CountedEntries(tx, g) \cup {p \in {o} : GameOf[s] = g}
<1>1. GameOf[s] \in Games
    BY OrdersAssumption
<1>2. PICK o \in FreshOrders :
         /\ RequestOrder(o, s, "entry", cost, FALSE)
         /\ call' = [order |-> o, sig |-> s, action |-> "entry",
                     aggressive |-> FALSE, answer |-> "none", back |-> "entries"]
  <2>1. BeginCreate(s, "entry", cost, FALSE, "entries")
      BY DEF SubmitEntry
  <2> QED BY <2>1 DEF BeginCreate
<1>3. /\ db' \in {db, tx'} /\ o \in Orders /\ ~Exists(tx, o) /\ tx'[o].cost = cost
      /\ \A p \in Orders \ {o} : tx'[p] = tx[p]
      /\ \A g \in Games : CountedEntries(tx', g) \subseteq
            CountedEntries(tx, g) \cup {p \in {o} : GameOf[s] = g}
  <2> DEFINE action == "entry"
             aggressive == FALSE
  <2>1. TypeOKOrders /\ RequestOrder(o, s, action, cost, aggressive) /\ action = "entry"
      BY <1>2 DEF TypeOK
  <2> HIDE DEF action, aggressive
  <2>2. /\ db' \in {db, tx'} /\ o \in Orders /\ ~Exists(tx, o) /\ tx'[o].cost = cost
        /\ \A p \in Orders \ {o} : tx'[p] = tx[p]
        /\ \A g \in Games : CountedEntries(tx', g) \subseteq
              CountedEntries(tx, g) \cup {p \in {o} : action = "entry" /\ GameOf[s] = g}
      BY <2>1, RequestOrderCounts
  <2> QED BY <2>1, <2>2
<1>4. CountedEntries(tx, GameOf[s]) \subseteq CountedEntries(run_orders, GameOf[s])
  <2>1. \A t \in Signals : GameOf[t] = GameOf[s] => ~Works(MemoryNow, t)
    <3>1. ASSUME NEW t \in Signals, GameOf[t] = GameOf[s] PROVE ~Works(MemoryNow, t)
        BY <3>1, GameFreeWorks DEF SubmitEntry
    <3> QED BY <3>1
  <2>2. Phase = "entries" /\ ~Placing
      BY DEF SubmitEntry, Phase, Placing
  <2> QED BY <1>1, <2>1, <2>2 DEF CountInv
<1> QED BY <1>1, <1>2, <1>3, <1>4

\* The entry SubmitEntry adds is one the rows read before the loop leave room for.
LEMMA SubmitEntryCounts ==
    ASSUME TypeOK, CountInv, NEW s \in Signals, NEW cost \in Costs, SubmitEntry(s, cost)
    PROVE  EntryCountBudget' /\ call'.sig = s /\ \A g \in Games :
              CountedEntries(tx', g) \subseteq
                  CountedEntries(tx, g) \cup {o \in {call'.order} : GameOf[s] = g}
<1>1. PICK o \in Orders : /\ call'.order = o /\ call'.sig = s /\ db' \in {db, tx'}
                          /\ \A g \in Games : CountedEntries(tx', g) \subseteq
                                CountedEntries(tx, g) \cup {p \in {o} : GameOf[s] = g}
    BY SubmitEntryShown
<1>2. /\ db' \in {db, tx'}
      /\ \A g \in Games : CountedEntries(tx', g) \subseteq CountedEntries(tx, g) \cup {p \in {o} : GameOf[s] = g}
    BY <1>1
<1>3. GameOf[s] \in Games
    BY SubmitEntryShown
<1>4. CountedEntries(tx, GameOf[s]) \subseteq CountedEntries(run_orders, GameOf[s])
    BY SubmitEntryShown
<1>5. EntryOrderCount(tx', GameOf[s]) <= MaxEntryOrders
  <2> DEFINE R == CountedEntries(run_orders, GameOf[s])
  <2>1. R \in SUBSET Orders /\ R \cup {o} \in SUBSET Orders
      BY DEF CountedEntries
  <2>2. CountedEntries(tx', GameOf[s]) \subseteq R \cup {o}
      BY <1>2, <1>3, <1>4
  <2>3. EntryOrderCount(tx', GameOf[s]) \in Nat /\ EntryOrderCount(tx', GameOf[s]) <= Cardinality(R \cup {o})
      BY <2>1, <2>2, CountBound
  <2>4. IsFiniteSet(R) /\ Cardinality(R) \in Nat
      BY <2>1, CountBound
  <2>5. Cardinality(R \cup {o}) \in Nat /\ Cardinality(R \cup {o}) <= Cardinality(R) + 1
      BY <2>4, CardinalityPlusOne
  <2>6. Cardinality(R) < MaxEntryOrders
      BY DEF SubmitEntry, BudgetLeft, EntryOrderCount
  <2> QED BY <2>3, <2>4, <2>5, <2>6, RunAssumption
<1>6. ASSUME NEW g \in Games, g # GameOf[s] PROVE EntryOrderCount(tx', g) <= MaxEntryOrders
  <2>1. CountedEntries(tx', g) \subseteq CountedEntries(tx, g) /\ CountedEntries(tx, g) \in SUBSET Orders
      BY <1>2, <1>6 DEF CountedEntries
  <2>2. EntryOrderCount(tx, g) <= MaxEntryOrders
      BY DEF CountInv, EntryCountBudget
  <2> QED BY <2>1, <2>2, CountBound, RunAssumption DEF EntryOrderCount
<1>7. EntryCountBudget'
    BY <1>2, <1>5, <1>6 DEF EntryCountBudget, CountInv
<1> QED BY <1>1, <1>2, <1>7

\* Recording an open order, or tracking any, works the signal of the call, and
\* drops no signal that was worked.
LEMMA RecordWorks ==
    ASSUME TypeOK, Record, call.order \in Orders, call.sig \in Signals
    PROVE  /\ DryRun \/ call.answer # "failed" \/ active_orders' # active_orders => Works(MemoryNow', call.sig)
           /\ \A s \in Signals : Works(MemoryNow, s) => Works(MemoryNow', s)
<1>1. PICK k \in {MainKey(call.sig), TargetKey(call.sig)} :
          /\ active_orders' \in {active_orders, Track(k, call.order, call.action, call.aggressive)}
          /\ DryRun \/ call.answer # "failed" =>
                active_orders' = Track(k, call.order, call.action, call.aggressive)
    BY DEF Record, RecordedStatus, OPEN_ORDER_STATUSES
<1>2. k \in Keys /\ call.order # NoOrder
    BY KeysOfSignals DEF Orders, NoOrder
<1>3. active_orders' = Track(k, call.order, call.action, call.aggressive) => Works(MemoryNow', call.sig)
    BY <1>1, <1>2 DEF Track, Works, MemoryNow, TypeOK
<1>4. \A j \in Keys : active_orders[j].order # NoOrder => active_orders'[j].order # NoOrder
    BY <1>1, <1>2 DEF Track, TypeOK
<1>5. \A s \in Signals : Works(MemoryNow, s) => Works(MemoryNow', s)
    BY <1>4, KeysOfSignals DEF Works, MemoryNow, Record
<1> QED BY <1>1, <1>3, <1>5

\* Working an order never leads to the entries.
LEMMA OrderStepPhase ==
    ASSUME NEW k \in Keys, OrderStep(k) PROVE Phase' # "entries"
<1>1. CASE OpenPosition(k)
  <2>1. pc = "fills" /\ (UNCHANGED <<pc, call>> \/ BeginCreate(k[1], "target_exit", 0, FALSE, "fills"))
      BY <1>1 DEF OpenPosition
  <2>2. CASE UNCHANGED <<pc, call>>
      BY <2>1, <2>2 DEF Phase
  <2>3. CASE BeginCreate(k[1], "target_exit", 0, FALSE, "fills")
    <3>1. Phase' = "fills"
        BY <2>3, BeginCreateCall
    <3> QED BY <3>1
  <2> QED BY <2>1, <2>2, <2>3
<1>2. CASE ExitTimeout(k)
  <2>1. CallSubmitExit(k[1], TRUE, "orders")
      BY <1>2 DEF ExitTimeout
  <2>2. Phase' = "orders"
      BY <2>1, CallSubmitExitCall
  <2> QED BY <2>2
<1>3. CASE ClosePosition(k) \/ CheckStatus(k) \/ HoldOrder(k) \/ EntryTimeout(k) \/ TimeoutRaises(k)
    BY <1>3 DEF ClosePosition, CheckStatus, HoldOrder, EntryTimeout, TimeoutRaises, CycleFails, GoOn, Phase
<1> QED BY <1>1, <1>2, <1>3 DEF OrderStep

\* The gap between the rows read before the loop and the table stays what
\* CountInv says, from reading the rows to the last entry tried.
LEMMA EntriesGapStep ==
    ASSUME TypeOK, TypeOK', SignalInv, RowsInv, CountInv, [Next]_vars, Phase' = "entries",
           NEW g \in Games, \A s \in Signals : GameOf[s] = g => ~Works(MemoryNow', s)
    PROVE  CountedEntries(tx', g) \subseteq
               CountedEntries(run_orders', g) \cup {o \in {call'.order} : Placing' /\ GameOf[call'.sig] = g}
<1>1. CASE BeginEntries
    BY <1>1 DEF BeginEntries, ordersVars
<1>2. ASSUME Phase = "entries", run_orders' = run_orders, UNCHANGED memoryVars,
             Placing => Placing' /\ call'.order = call.order /\ call'.sig = call.sig,
             CountedEntries(tx', g) \subseteq CountedEntries(tx, g) \cup
                 {o \in {call'.order} : Placing' /\ GameOf[call'.sig] = g}
      PROVE  CountedEntries(tx', g) \subseteq
                 CountedEntries(run_orders', g) \cup {o \in {call'.order} : Placing' /\ GameOf[call'.sig] = g}
  <2>1. \A s \in Signals : GameOf[s] = g => ~Works(MemoryNow, s)
      BY <1>2, MemoryFrame
  <2>2. CountedEntries(tx, g) \subseteq
            CountedEntries(run_orders, g) \cup {o \in {call.order} : Placing /\ GameOf[call.sig] = g}
      BY <1>2, <2>1 DEF CountInv
  <2> QED BY <1>2, <2>2
<1>3. CASE PersistSnapshot \/ UNCHANGED vars \/ \E o \in Orders : Fill(o)
  <2>1. UNCHANGED <<tx, pc, call, run_orders, memoryVars>>
      BY <1>3 DEF PersistSnapshot, vars, Fill, ExchangeFill, ordersVars, cycleVars
  <2> QED BY <1>2, <2>1 DEF Phase, Placing
<1>4. CASE \E s \in Signals : SkipEntry(s)
  <2>1. UNCHANGED <<tx, pc, call, run_orders, memoryVars>>
      BY <1>4 DEF SkipEntry, ordersVars
  <2> QED BY <1>2, <2>1 DEF Phase, Placing
<1>5. CASE \E s \in Signals, cost \in Costs : SubmitEntry(s, cost)
  <2>1. PICK s \in Signals, cost \in Costs : SubmitEntry(s, cost)
      BY <1>5
  <2>2. Phase = "entries" /\ ~Placing /\ run_orders' = run_orders /\ UNCHANGED memoryVars
      BY <2>1 DEF SubmitEntry, Phase, Placing, memoryVars
  <2>3. Placing'
      BY <2>1, BeginCreateCall DEF SubmitEntry
  <2>4. /\ call'.sig = s
        /\ CountedEntries(tx', g) \subseteq CountedEntries(tx, g) \cup {o \in {call'.order} : GameOf[s] = g}
      BY <2>1, SubmitEntryCounts
  <2> QED BY <1>2, <2>2, <2>3, <2>4
<1>6. CASE Place
  <2>1. /\ tx' = tx /\ run_orders' = run_orders /\ UNCHANGED memoryVars /\ pc = "place" /\ pc' = "record"
        /\ call'.order = call.order /\ call'.sig = call.sig /\ call'.back = call.back
      BY <1>6 DEF Place, PlaceOrder, TypeOK, Call
  <2> QED BY <1>2, <2>1 DEF Phase, Placing
<1>7. CASE SubmitExit
  <2>1. Phase = "entries" /\ ~Placing /\ run_orders' = run_orders /\ UNCHANGED memoryVars
      BY <1>7, BeginCreateCall DEF SubmitExit, Phase, Placing, memoryVars
  <2>2. CountedEntries(tx', g) \subseteq CountedEntries(tx, g)
    <3>1. PICK o : RequestOrder(o, call.sig, "exit", 0, call.aggressive)
        BY <1>7 DEF SubmitExit, BeginCreate
    <3> QED BY <3>1, RequestOrderCounts DEF TypeOK
  <2> QED BY <1>2, <2>1, <2>2
<1>8. CASE SubmitExitReturns
  <2>1. /\ tx' = tx /\ run_orders' = run_orders /\ UNCHANGED memoryVars
        /\ pc = "submit_exit" /\ pc' = call.back
      BY <1>8 DEF SubmitExitReturns, ordersVars
  <2> QED BY <1>2, <2>1 DEF Phase, Placing, TypeOK, Call
<1>9. CASE Record
  <2>1. /\ Placing /\ call.order \in Orders /\ call.sig \in Signals
        /\ Exists(tx, call.order) /\ tx[call.order].status \notin IGNORED_STATUSES
        /\ tx[call.order].action = call.action
      BY <1>9 DEF Record, RowsInv, SignalInv, Placing, Exists, IGNORED_STATUSES
  <2>2. Phase = "entries" /\ run_orders' = run_orders /\ ~Placing'
      BY <1>9 DEF Record, Phase, Placing, TypeOK, Call
  <2>3. /\ CountedEntries(tx', g) \subseteq CountedEntries(tx, g)
        /\ ~DryRun /\ call.answer = "failed" => call.order \notin CountedEntries(tx', g)
      BY <1>9, <2>1, RecordOrderCounts DEF Record, TypeOK, CountsWithin
  <2>4. CASE active_orders' = active_orders
    <3>1. UNCHANGED memoryVars
        BY <1>9, <2>4 DEF Record, memoryVars
    <3>2. \A s \in Signals : GameOf[s] = g => ~Works(MemoryNow, s)
        BY <3>1, MemoryFrame
    <3>3. CountedEntries(tx, g) \subseteq
              CountedEntries(run_orders, g) \cup {o \in {call.order} : GameOf[call.sig] = g}
        BY <2>1, <2>2, <3>2 DEF CountInv
    <3>4. CASE ~DryRun /\ call.answer = "failed"
        BY <2>2, <2>3, <3>3, <3>4
    <3>5. CASE DryRun \/ call.answer # "failed"
      <4>1. Works(MemoryNow', call.sig)
          BY <1>9, <2>1, <3>5, RecordWorks
      <4> QED BY <2>1, <2>2, <2>3, <3>3, <4>1
    <3> QED BY <3>4, <3>5
  <2>5. CASE active_orders' # active_orders
    <3>1. Works(MemoryNow', call.sig)
        BY <1>9, <2>1, <2>5, RecordWorks
    <3>2. GameOf[call.sig] # g
        BY <2>1, <3>1
    <3>3. \A s \in Signals : GameOf[s] = g => ~Works(MemoryNow, s)
        BY <1>9, <2>1, <3>2, RecordWorks
    <3>4. CountedEntries(tx, g) \subseteq CountedEntries(run_orders, g)
        BY <2>2, <3>2, <3>3 DEF CountInv
    <3> QED BY <2>2, <2>3, <3>4
  <2> QED BY <2>4, <2>5
<1>10. CASE Start \/ Crash \/ CycleError \/ CycleEnd \/ CycleBegin \/ LoopEnds \/ Restart \/ Reconcile \/ PopStaleKeys
            \/ PositionsDone \/ OrdersDone \/ SkipEntries \/ EntriesDone
    BY <1>10 DEF Phase, Start, Crash, CycleError, CycleFails, GoOn, CycleEnd, CycleBegin, LoopEnds, Restart, Reconcile, PopStaleKeys,
                 PositionsDone, OrdersDone, SkipEntries, EntriesDone
<1>11. CASE \E k \in Keys : OrderStep(k)
    BY <1>11, OrderStepPhase
<1>12. CASE \E s \in Signals : HoldPosition(s) \/ StopCancelsExit(s) \/ \E stop \in BOOLEAN : ExitPosition(s, stop)
    BY <1>12, CallSubmitExitCall DEF HoldPosition, StopCancelsExit, ExitPosition, Phase
<1> QED BY <1>1, <1>3, <1>4, <1>5, <1>6, <1>7, <1>8, <1>9, <1>10, <1>11, <1>12 DEF Next, LoopStep, SignalStep

\* Every step keeps the count of entries within the budget.
LEMMA CountStep ==
    ASSUME TypeOK, TypeOK', SignalInv, RowsInv, CountInv, [Next]_vars
    PROVE  CountInv'
<1>1. EntryCountBudget'
  <2>1. CASE \E s \in Signals, cost \in Costs : SubmitEntry(s, cost)
      BY <2>1, SubmitEntryCounts
  <2>2. CASE \A s \in Signals, cost \in Costs : ~SubmitEntry(s, cost)
    <3>1. CountsKept
        BY <2>2, CountsStep
    <3>2. ASSUME NEW new \in {tx', db'}, NEW g \in Games PROVE EntryOrderCount(new, g) <= MaxEntryOrders
      <4>1. PICK old \in {tx, db} : CountedEntries(new, g) \subseteq CountedEntries(old, g)
          BY <3>1, <3>2 DEF CountsKept, CountsWithin
      <4>2. CountedEntries(old, g) \in SUBSET Orders
          BY DEF CountedEntries
      <4>3. EntryOrderCount(new, g) \in Nat /\ Cardinality(CountedEntries(old, g)) \in Nat
            /\ EntryOrderCount(new, g) <= Cardinality(CountedEntries(old, g))
          BY <4>1, <4>2, CountBound
      <4>4. Cardinality(CountedEntries(old, g)) <= MaxEntryOrders
          BY <3>2 DEF CountInv, EntryCountBudget, EntryOrderCount
      <4> QED BY <4>3, <4>4, RunAssumption
    <3> QED BY <3>2 DEF EntryCountBudget
  <2> QED BY <2>1, <2>2
<1> QED BY <1>1, EntriesGapStep DEF CountInv

\* An empty table counts no entry.
LEMMA CountInit ==
    ASSUME Init PROVE CountInv
<1>1. tx = NoRows /\ db = NoRows
    BY DEF Init, InitOrders, NoRows
<1>2. \A g : CountedEntries(NoRows, g) = {}
    BY DEF CountedEntries, NoRows, NoRow, Exists
<1>3. EntryCountBudget
    BY <1>1, <1>2, FS_EmptySet, RunAssumption DEF EntryCountBudget, EntryOrderCount
<1> QED BY <1>3 DEF Init, CountInv, Phase

\* The entries a game may ever get are bounded by the configuration, across
\* crashes, exceptions and restarts (the gates of _process_new_entries).
THEOREM BudgetKept == Spec => []EntryCountBudget
<1>1. Init => SignalInv /\ RowsInv /\ CountInv
    BY SignalInvInit, RowsInit, CountInit
<1>2. TypeOK /\ SignalInv /\ [Next]_vars => SignalInv'
    BY SignalInvStep
<1>3. TypeOK /\ RowsInv /\ [Next]_vars => RowsInv'
    BY RowsInvStep
<1>4. TypeOK /\ TypeOK' /\ SignalInv /\ RowsInv /\ CountInv /\ [Next]_vars => CountInv'
    BY CountStep
<1>5. CountInv => EntryCountBudget
    BY DEF CountInv
<1> QED BY <1>1, <1>2, <1>3, <1>4, <1>5, TypeCorrect, PTL DEF Spec

-----------------------------------------------------------------------------
(* No outcome has two open entries *)

\* The rows new have no open entry that the rows old do not have.
OpenWithin(new, old) ==
    \A o \in Orders : OpenEntry(new, o) => OpenEntry(old, o) /\ new[o].sig = old[o].sig

\* No table has an open entry that neither table had.
OpenKept == \A new \in {tx', db'} : \E old \in {tx, db} : OpenWithin(new, old)

\* While an entry is created, its outcome has no other open entry.
OpenInv ==
    /\ OneOpenEntry
    /\ \A rows \in {db, tx}, o \in Orders : OpenEntry(rows, o) => rows[o].sig \in Signals
    /\ Placing /\ call.action = "entry" => \A o \in Orders :
          OpenEntry(tx, o) /\ OutcomeOf[tx[o].sig] = OutcomeOf[call.sig] => o = call.order

\* While the entries are tried, the rows read before the loop are as they were read; the
\* order being created is none of them.
ReadInv == Phase = "entries" =>
    /\ \A o \in Orders : Exists(run_orders, o) => tx[o] = run_orders[o]
    /\ Placing => ~Exists(run_orders, call.order)

\* The first write of an exit opens no entry; that of an entry at most its own.
LEMMA RequestOrderOpens ==
    ASSUME NEW o, NEW s, NEW action, NEW cost, NEW aggressive,
           TypeOKOrders, RequestOrder(o, s, action, cost, aggressive)
    PROVE  /\ o \in Orders /\ ~Exists(tx, o) /\ db' \in {db, tx'}
           /\ \A p \in Orders \ {o} : tx'[p] = tx[p]
           /\ tx'[o].sig = s /\ tx'[o].action = action
           /\ action # "entry" => OpenWithin(tx', tx)
           /\ OpenEntry(tx', o) => DryRun
<1>1. \A p \in Orders : tx'[p] = IF p = o THEN InitialRow(s, action, cost, aggressive) ELSE tx[p]
    BY DEF RequestOrder, TypeOKOrders
<1>2. o \in Orders /\ ~Exists(tx, o) /\ db' \in {db, tx'}
    BY DEF RequestOrder, FreshOrders, Orders
<1>3. /\ tx'[o].sig = s /\ tx'[o].action = action
      /\ ~DryRun => tx'[o].status = "pending_submit"
    BY <1>1, <1>2 DEF InitialRow
<1> QED BY <1>1, <1>2, <1>3 DEF OpenWithin, OpenEntry, IsOpen, OPEN_ORDER_STATUSES

\* A cancel closes; a reconciliation opens nothing that was not open.
LEMMA CancelOrderCloses ==
    ASSUME NEW o, TypeOKOrders, CancelOrder(o)
    PROVE  OpenWithin(tx', tx) /\ db' \in {db, tx'}
<1>1. PICK answer \in {"canceled", "cancel_error"} : tx' = [tx EXCEPT ![o].status = answer]
    BY DEF CancelOrder
<1>2. \A p \in Orders :
         /\ tx'[p].status = IF p = o THEN answer ELSE tx[p].status
         /\ tx'[p].sig = tx[p].sig /\ tx'[p].action = tx[p].action
    BY <1>1 DEF TypeOKOrders, Row
<1> QED BY <1>2 DEF CancelOrder, OpenWithin, OpenEntry, IsOpen, OPEN_ORDER_STATUSES

LEMMA ReconcileFillsCloses ==
    ASSUME TypeOKOrders, ReconcileFills
    PROVE  OpenWithin(tx', tx) /\ db' \in {db, tx'}
<1>1. PICK seenNow \in [Reconcilable -> 0..Lots] :
          /\ tx' = [o \in Orders |->
                IF o \in Reconcilable /\ seenNow[o] > 0
                THEN [tx[o] EXCEPT !.status = IF seenNow[o] = Lots THEN "filled" ELSE "partially_filled"]
                ELSE tx[o]]
          /\ db' = IF \E o \in Reconcilable : seenNow[o] > 0 THEN tx' ELSE db
    BY DEF ReconcileFills
<1>2. \A p \in Orders :
         /\ tx'[p].sig = tx[p].sig /\ tx'[p].action = tx[p].action
         /\ tx'[p].status = tx[p].status \/ IsOpen(tx, p)
    BY <1>1 DEF TypeOKOrders, Row, Reconcilable
<1> QED BY <1>1, <1>2 DEF OpenWithin, OpenEntry, IsOpen

\* Only SubmitEntry, in a dry run, and the answer to an entry open an entry.
LEMMA OpenStep ==
    ASSUME TypeOK, RowsInv, [Next]_vars, \A s \in Signals, cost \in Costs : ~SubmitEntry(s, cost),
           ~(Record /\ call.action = "entry")
    PROVE  OpenKept
<1>1. TypeOKOrders
    BY DEF TypeOK
<1>2. ASSUME tx' \in {tx, db} \/ OpenWithin(tx', tx), db' \in {tx, db, tx'} PROVE OpenKept
    BY <1>2 DEF OpenKept, OpenWithin
<1>3. ASSUME NEW s, NEW action, NEW cost, NEW aggressive, NEW back,
             action # "entry", BeginCreate(s, action, cost, aggressive, back)
      PROVE  OpenKept
    BY <1>1, <1>2, <1>3, RequestOrderOpens DEF BeginCreate
<1>4. CASE \/ Start \/ Crash \/ CycleError \/ PersistSnapshot \/ UNCHANGED vars
           \/ \E o \in Orders : Fill(o)
    BY <1>2, <1>4 DEF Start, Crash, CycleError, CycleFails, GoOn, PersistSnapshot, vars, Fill, ExchangeFill,
                      ordersVars, RollbackConnection
<1>5. CASE \/ CycleEnd \/ CycleBegin \/ LoopEnds \/ Restart \/ SkipEntries \/ EntriesDone \/ OrdersDone \/ PopStaleKeys
           \/ PositionsDone \/ SubmitExitReturns \/ BeginEntries \/ Place
    BY <1>2, <1>5 DEF CycleEnd, GoOn, CommitConnection, CycleBegin, LoopEnds, Restart, SkipEntries, EntriesDone, OrdersDone, PopStaleKeys,
                      PositionsDone, SubmitExitReturns, BeginEntries, Place, PlaceOrder, ordersVars
<1>6. CASE Reconcile
    BY <1>1, <1>2, <1>6, ReconcileFillsCloses DEF Reconcile, ordersVars
<1>7. CASE SubmitExit
    BY <1>3, <1>7 DEF SubmitExit
<1>8. CASE Record
  <2>1. /\ call.order \in Orders /\ tx[call.order].action = call.action /\ call.action # "entry"
        /\ RecordOrder(call.order, call.answer)
      BY <1>8 DEF Record, RowsInv, Placing
  <2>2. tx' = tx \/ \A p \in Orders : IF p = call.order THEN tx'[p].action = tx[p].action
                                                        ELSE tx'[p] = tx[p]
      BY <1>1, <2>1 DEF RecordOrder, TypeOKOrders, Row
  <2>3. OpenWithin(tx', tx)
    <3>1. ASSUME NEW p \in Orders, OpenEntry(tx', p) PROVE tx'[p] = tx[p]
        BY <2>1, <2>2, <3>1 DEF OpenEntry
    <3> QED BY <3>1 DEF OpenWithin, OpenEntry, IsOpen
  <2> QED BY <1>2, <2>1, <2>3 DEF RecordOrder
<1>9. CASE \E k \in Keys : OrderStep(k)
  <2>1. PICK k \in Keys : OrderStep(k)
      BY <1>9
  <2>2. CASE OpenPosition(k)
      BY <1>2, <1>3, <2>2 DEF OpenPosition, ordersVars
  <2>3. CASE ClosePosition(k) \/ CheckStatus(k) \/ HoldOrder(k) \/ TimeoutRaises(k)
      BY <1>2, <2>3 DEF ClosePosition, CheckStatus, HoldOrder, TimeoutRaises, CycleFails, GoOn,
                        RollbackConnection, ordersVars
  <2>4. CASE EntryTimeout(k) \/ ExitTimeout(k)
      BY <1>1, <1>2, <2>4, CancelOrderCloses DEF EntryTimeout, ExitTimeout
  <2> QED BY <2>1, <2>2, <2>3, <2>4 DEF OrderStep
<1>10. CASE \E s \in Signals : SignalStep(s)
  <2>1. PICK s \in Signals : SignalStep(s)
      BY <1>10
  <2>2. CASE HoldPosition(s) \/ SkipEntry(s) \/ \E stop \in BOOLEAN : ExitPosition(s, stop)
      BY <1>2, <2>2 DEF HoldPosition, SkipEntry, ExitPosition, ordersVars
  <2>3. CASE StopCancelsExit(s)
      BY <1>1, <1>2, <2>3, CancelOrderCloses DEF StopCancelsExit
  <2> QED BY <2>1, <2>2, <2>3 DEF SignalStep
<1> QED BY <1>4, <1>5, <1>6, <1>7, <1>8, <1>9, <1>10 DEF Next, LoopStep

\* Where the gates let an entry through, the table has no open entry of its outcome.
LEMMA SubmitEntryAlone ==
    ASSUME TypeOK, CountInv, ReadInv, OpenInv,
           NEW s \in Signals, NEW cost \in Costs, SubmitEntry(s, cost),
           NEW o \in Orders, OpenEntry(tx, o)
    PROVE  OutcomeOf[tx[o].sig] # OutcomeOf[s]
<1>1. SUFFICES ASSUME OutcomeOf[tx[o].sig] = OutcomeOf[s] PROVE FALSE
    OBVIOUS
<1>2. tx[o].sig \in Signals /\ GameOf[tx[o].sig] = GameOf[s]
    BY <1>1, OutcomeAssumption DEF OpenInv
<1>3. o \in CountedEntries(tx, GameOf[s])
    BY <1>2 DEF CountedEntries, OpenEntry, IsOpen, Exists, OPEN_ORDER_STATUSES, IGNORED_STATUSES
<1>4. o \in CountedEntries(run_orders, GameOf[s])
    BY <1>3, SubmitEntryShown
<1>5. Phase = "entries"
    BY DEF SubmitEntry, Phase
<1>6. tx[o] = run_orders[o]
    BY <1>4, <1>5 DEF ReadInv, CountedEntries
<1>7. OutcomeOf[s] \in ActiveSignatures(run_orders)
  <2>1. IsOpen(run_orders, o) /\ run_orders[o].action = "entry"
      BY <1>6 DEF OpenEntry, IsOpen
  <2> QED BY <1>1, <1>6, <2>1 DEF ActiveSignatures
<1> QED BY <1>7 DEF SubmitEntry, SignatureFree

\* Where the entries are tried, nothing is written but the order being created, which
\* the rows read before the loop do not have.
LEMMA ReadStep ==
    ASSUME TypeOK, RowsInv, ReadInv, [Next]_vars
    PROVE  ReadInv'
<1>1. SUFFICES ASSUME Phase' = "entries"
               PROVE  /\ \A o \in Orders : Exists(run_orders', o) => tx'[o] = run_orders'[o]
                      /\ Placing' => ~Exists(run_orders', call'.order)
    BY DEF ReadInv, Exists
<1>2. CASE BeginEntries
    BY <1>2 DEF BeginEntries, ordersVars, Placing
<1>3. ASSUME Phase = "entries", tx' = tx, run_orders' = run_orders,
             Placing' => Placing /\ call'.order = call.order
      PROVE  /\ \A o \in Orders : Exists(run_orders', o) => tx'[o] = run_orders'[o]
             /\ Placing' => ~Exists(run_orders', call'.order)
    BY <1>3 DEF ReadInv, Exists
<1>4. ASSUME NEW s, NEW action, NEW cost, NEW aggressive, NEW back, Phase = "entries",
             run_orders' = run_orders, BeginCreate(s, action, cost, aggressive, back)
      PROVE  /\ \A o \in Orders : Exists(run_orders', o) => tx'[o] = run_orders'[o]
             /\ Placing' => ~Exists(run_orders', call'.order)
  <2>1. PICK o : RequestOrder(o, s, action, cost, aggressive) /\ call'.order = o
      BY <1>4 DEF BeginCreate
  <2>2. o \in Orders /\ ~Exists(tx, o) /\ \A p \in Orders \ {o} : tx'[p] = tx[p]
      BY <2>1, RequestOrderOpens DEF TypeOK
  <2>3. ~Exists(run_orders, o)
      BY <1>4, <2>2 DEF ReadInv, Exists
  <2> QED BY <1>4, <2>1, <2>2, <2>3 DEF ReadInv, Exists
<1>5. CASE PersistSnapshot \/ UNCHANGED vars \/ (\E o \in Orders : Fill(o)) \/ \E s \in Signals : SkipEntry(s)
  <2>1. UNCHANGED <<tx, pc, call, run_orders>>
      BY <1>5 DEF PersistSnapshot, vars, Fill, ExchangeFill, ordersVars, cycleVars, SkipEntry
  <2>2. Phase = "entries"
      BY <1>1, <2>1 DEF Phase
  <2> QED BY <1>3, <2>1, <2>2 DEF Placing
<1>6. CASE \E s \in Signals, cost \in Costs : SubmitEntry(s, cost)
  <2>1. PICK s \in Signals, cost \in Costs : SubmitEntry(s, cost)
      BY <1>6
  <2>2. Phase = "entries" /\ run_orders' = run_orders /\ BeginCreate(s, "entry", cost, FALSE, "entries")
      BY <2>1 DEF SubmitEntry, Phase
  <2> QED BY <1>4, <2>2
<1>7. CASE Place
  <2>1. /\ tx' = tx /\ run_orders' = run_orders /\ pc = "place" /\ pc' = "record" /\ call'.back = call.back
        /\ call'.order = call.order
      BY <1>7 DEF Place, PlaceOrder, TypeOK, Call
  <2>2. Phase = "entries"
      BY <1>1, <2>1 DEF Phase
  <2> QED BY <1>3, <2>1, <2>2 DEF Placing
<1>8. CASE SubmitExit
  <2>1. /\ Phase = "entries" /\ run_orders' = run_orders
        /\ BeginCreate(call.sig, "exit", 0, call.aggressive, call.back)
      BY <1>1, <1>8, BeginCreateCall DEF SubmitExit, Phase
  <2> QED BY <1>4, <2>1
<1>9. CASE SubmitExitReturns
  <2>1. tx' = tx /\ run_orders' = run_orders /\ Phase = "entries" /\ ~Placing'
      BY <1>1, <1>9 DEF SubmitExitReturns, ordersVars, Phase, Placing, TypeOK, Call
  <2> QED BY <1>3, <2>1
<1>10. CASE Record
  <2>1. call.order \in Orders /\ Placing
      BY <1>10 DEF Record, RowsInv, Placing
  <2>2. Phase = "entries" /\ run_orders' = run_orders /\ ~Placing'
      BY <1>1, <1>10 DEF Record, Phase, Placing, TypeOK, Call
  <2>3. \A p \in Orders \ {call.order} : tx'[p] = tx[p]
      BY <1>10 DEF Record, RecordOrder, TypeOK, TypeOKOrders
  <2> QED BY <2>1, <2>2, <2>3 DEF ReadInv, Exists
<1>11. CASE Start \/ Crash \/ CycleError \/ CycleEnd \/ CycleBegin \/ LoopEnds \/ Restart \/ Reconcile \/ PopStaleKeys
            \/ PositionsDone \/ OrdersDone \/ SkipEntries \/ EntriesDone
    BY <1>1, <1>11 DEF Phase, Start, Crash, CycleError, CycleFails, GoOn, CycleEnd, CycleBegin, LoopEnds, Restart, Reconcile,
                 PopStaleKeys, PositionsDone, OrdersDone, SkipEntries, EntriesDone
<1>12. CASE \E k \in Keys : OrderStep(k)
    BY <1>1, <1>12, OrderStepPhase
<1>13. CASE \E s \in Signals : HoldPosition(s) \/ StopCancelsExit(s) \/ \E stop \in BOOLEAN : ExitPosition(s, stop)
    BY <1>1, <1>13, CallSubmitExitCall DEF HoldPosition, StopCancelsExit, ExitPosition, Phase
<1> QED BY <1>2, <1>5, <1>6, <1>7, <1>8, <1>9, <1>10, <1>11, <1>12, <1>13 DEF Next, LoopStep, SignalStep

\* A creation under way goes on with the same call and the same rows, or begins, or ends.
LEMMA PlacingStep ==
    ASSUME TypeOK, [Next]_vars, Placing', call'.action = "entry",
           \A s \in Signals, cost \in Costs : ~SubmitEntry(s, cost)
    PROVE  /\ Placing /\ UNCHANGED tx
           /\ call'.order = call.order /\ call'.sig = call.sig /\ call'.action = call.action
<1>1. CASE Place
    BY <1>1 DEF Place, PlaceOrder, Placing, TypeOK, Call
<1>2. CASE PersistSnapshot \/ UNCHANGED vars \/ \E o \in Orders : Fill(o)
  <2>1. UNCHANGED <<tx, pc, call>>
      BY <1>2 DEF PersistSnapshot, vars, Fill, ExchangeFill, ordersVars, cycleVars
  <2> QED BY <2>1 DEF Placing
<1>3. CASE SubmitExit
  <2>1. call'.action = "exit"
      BY <1>3, BeginCreateCall DEF SubmitExit
  <2> QED BY <2>1
<1>4. CASE \E k \in Keys : OrderStep(k)
  <2>1. PICK k \in Keys : OrderStep(k)
      BY <1>4
  <2>2. CASE OpenPosition(k)
    <3>1. CASE BeginCreate(k[1], "target_exit", 0, FALSE, "fills")
      <4>1. call'.action = "target_exit"
          BY <3>1, BeginCreateCall
      <4> QED BY <4>1
    <3>2. CASE UNCHANGED <<ordersVars, call, pc>>
        BY <2>2, <3>2 DEF OpenPosition, Placing
    <3> QED BY <2>2, <3>1, <3>2 DEF OpenPosition
  <2>3. CASE OrderStep(k) /\ ~OpenPosition(k)
      BY <2>3 DEF OrderStep, ClosePosition, CheckStatus, HoldOrder, EntryTimeout, ExitTimeout,
                  TimeoutRaises, CycleFails, GoOn, CallSubmitExit, Placing
  <2> QED BY <2>1, <2>2, <2>3
<1>5. CASE \E s \in Signals : SignalStep(s)
    BY <1>5 DEF SignalStep, HoldPosition, SkipEntry, StopCancelsExit, ExitPosition, CallSubmitExit, Placing
<1>6. CASE \/ Start \/ Crash \/ CycleError \/ CycleEnd \/ CycleBegin \/ LoopEnds \/ Restart \/ Reconcile \/ PopStaleKeys
           \/ PositionsDone \/ OrdersDone \/ SkipEntries \/ BeginEntries \/ EntriesDone
    BY <1>6 DEF Placing, Start, Crash, CycleError, CycleFails, GoOn, CycleEnd, CycleBegin, LoopEnds, Restart, Reconcile,
                PopStaleKeys, PositionsDone, OrdersDone, SkipEntries, BeginEntries, EntriesDone
<1>7. CASE SubmitExitReturns \/ Record
    BY <1>7 DEF SubmitExitReturns, Record, Placing, TypeOK, Call
<1> QED BY <1>1, <1>2, <1>3, <1>4, <1>5, <1>6, <1>7 DEF Next, LoopStep

\* Every step keeps one open entry per outcome.
LEMMA OpenInvStep ==
    ASSUME TypeOK, SignalInv, RowsInv, CountInv, ReadInv, OpenInv, [Next]_vars
    PROVE  OpenInv'
<1> DEFINE Alone(rows) ==
        \A o, p \in Orders :
            /\ OpenEntry(rows, o) /\ OpenEntry(rows, p)
            /\ OutcomeOf[rows[o].sig] = OutcomeOf[rows[p].sig]
            => o = p
           Signed(rows) == \A o \in Orders : OpenEntry(rows, o) => rows[o].sig \in Signals
<1>1. Alone(tx) /\ Alone(db) /\ Signed(tx) /\ Signed(db)
    BY DEF OpenInv, OneOpenEntry
<1>2. ASSUME NEW o \in Orders, NEW oc \in Signals, \A p \in Orders \ {o} : tx'[p] = tx[p], db' \in {db, tx'},
             OpenEntry(tx', o) => tx'[o].sig = oc,
             \A p \in Orders \ {o} : OpenEntry(tx, p) => OutcomeOf[tx[p].sig] # OutcomeOf[oc]
      PROVE  Alone(tx') /\ Alone(db') /\ Signed(tx') /\ Signed(db')
  <2>1. \A p \in Orders \ {o} : OpenEntry(tx', p) <=> OpenEntry(tx, p)
      BY <1>2 DEF OpenEntry, IsOpen
  <2>2. Alone(tx') /\ Signed(tx')
      BY <1>1, <1>2, <2>1
  <2> QED BY <1>1, <1>2, <2>2
<1>3. CASE \E s \in Signals, cost \in Costs : SubmitEntry(s, cost)
  <2>1. PICK s \in Signals, cost \in Costs : SubmitEntry(s, cost)
      BY <1>3
  <2>2. PICK o \in FreshOrders :
           /\ RequestOrder(o, s, "entry", cost, FALSE)
           /\ call' = [order |-> o, sig |-> s, action |-> "entry",
                       aggressive |-> FALSE, answer |-> "none", back |-> "entries"]
    <3>1. BeginCreate(s, "entry", cost, FALSE, "entries")
        BY <2>1 DEF SubmitEntry
    <3> QED BY <3>1 DEF BeginCreate
  <2>3. /\ o \in Orders /\ ~Exists(tx, o) /\ db' \in {db, tx'}
        /\ \A p \in Orders \ {o} : tx'[p] = tx[p]
        /\ tx'[o].sig = s
      BY <2>2, RequestOrderOpens DEF TypeOK
  <2>4. \A p \in Orders : OpenEntry(tx, p) => OutcomeOf[tx[p].sig] # OutcomeOf[s]
      BY <2>1, SubmitEntryAlone
  <2>5. Alone(tx') /\ Alone(db') /\ Signed(tx') /\ Signed(db')
      BY <1>2, <2>3, <2>4
  <2>6. \A p \in Orders : OpenEntry(tx', p) /\ OutcomeOf[tx'[p].sig] = OutcomeOf[s] => p = o
      BY <2>3, <2>4 DEF OpenEntry, IsOpen
  <2> QED BY <2>2, <2>5, <2>6 DEF OpenInv, OneOpenEntry
<1>4. CASE Record /\ call.action = "entry"
  <2>1. /\ Placing /\ call.order \in Orders /\ call.sig \in Signals /\ tx[call.order].sig = call.sig
        /\ RecordOrder(call.order, call.answer) /\ ~Placing'
      BY <1>4 DEF Record, RowsInv, SignalInv, Placing, TypeOK, Call
  <2>2. /\ \A p \in Orders \ {call.order} : tx'[p] = tx[p]
        /\ tx'[call.order].sig = call.sig
        /\ db' \in {db, tx'}
      BY <2>1 DEF RecordOrder, TypeOK, TypeOKOrders, Row
  <2>3. \A p \in Orders \ {call.order} : OpenEntry(tx, p) => OutcomeOf[tx[p].sig] # OutcomeOf[call.sig]
      BY <1>4, <2>1 DEF OpenInv
  <2>4. Alone(tx') /\ Alone(db') /\ Signed(tx') /\ Signed(db')
      BY <1>2, <2>1, <2>2, <2>3
  <2> QED BY <2>1, <2>4 DEF OpenInv, OneOpenEntry
<1>5. CASE /\ \A s \in Signals, cost \in Costs : ~SubmitEntry(s, cost)
           /\ ~(Record /\ call.action = "entry")
  <2>1. OpenKept
      BY <1>5, OpenStep
  <2>2. ASSUME NEW new \in {tx', db'} PROVE Alone(new) /\ Signed(new)
    <3>1. PICK old \in {tx, db} : OpenWithin(new, old)
        BY <2>1, <2>2 DEF OpenKept
    <3>2. Alone(old) /\ Signed(old)
        BY <1>1
    <3> QED BY <3>1, <3>2 DEF OpenWithin
  <2>3. ASSUME Placing', call'.action = "entry", NEW o \in Orders, OpenEntry(tx', o),
               OutcomeOf[tx'[o].sig] = OutcomeOf[call'.sig]
        PROVE  o = call'.order
    <3>1. /\ Placing /\ UNCHANGED tx
          /\ call'.order = call.order /\ call'.sig = call.sig /\ call'.action = call.action
        BY <1>5, <2>3, PlacingStep
    <3> QED BY <2>3, <3>1 DEF OpenInv, OpenEntry, IsOpen
  <2> QED BY <2>2, <2>3 DEF OpenInv, OneOpenEntry
<1> QED BY <1>3, <1>4, <1>5

\* No outcome ever has two open entries, however often the worker crashed, lost its
\* snapshot or raised (the signature gate of _process_new_entries, for any games and
\* signals); what docs promise of pending entries too fails only by rows left at
\* pending_submit.
THEOREM OutcomeEnteredOnce == Spec => []OneOpenEntry
<1>1. Init => SignalInv /\ RowsInv /\ CountInv
    BY SignalInvInit, RowsInit, CountInit
<1>2. Init => ReadInv /\ OpenInv
    BY DEF Init, InitOrders, ReadInv, OpenInv, OneOpenEntry, Phase, Placing, OpenEntry, IsOpen, NoRow,
           OPEN_ORDER_STATUSES
<1>3. TypeOK /\ SignalInv /\ [Next]_vars => SignalInv'
    BY SignalInvStep
<1>4. TypeOK /\ RowsInv /\ [Next]_vars => RowsInv'
    BY RowsInvStep
<1>5. TypeOK /\ TypeOK' /\ SignalInv /\ RowsInv /\ CountInv /\ [Next]_vars => CountInv'
    BY CountStep
<1>6. TypeOK /\ RowsInv /\ ReadInv /\ [Next]_vars => ReadInv'
    BY ReadStep
<1>7. TypeOK /\ SignalInv /\ RowsInv /\ CountInv /\ ReadInv /\ OpenInv /\ [Next]_vars => OpenInv'
    BY OpenInvStep
<1>8. OpenInv => OneOpenEntry
    BY DEF OpenInv
<1> QED BY <1>1, <1>2, <1>3, <1>4, <1>5, <1>6, <1>7, <1>8, TypeCorrect, PTL DEF Spec

-----------------------------------------------------------------------------
(* The notional of a game's entries stays within the budget too *)

\* Where the entries are tried, no step takes a row away or changes its cost.
LEMMA SeenStep ==
    ASSUME TypeOK, RowsInv, SeenInv, [Next]_vars
    PROVE  SeenInv'
<1>1. SUFFICES ASSUME Phase' = "entries"
               PROVE  \A o \in Orders : Exists(run_orders', o) =>
                         Exists(tx', o) /\ tx'[o].cost = run_orders'[o].cost
    BY DEF SeenInv, Exists
<1>2. CASE BeginEntries
    BY <1>2 DEF BeginEntries, ordersVars
<1>3. ASSUME Phase = "entries", run_orders' = run_orders,
             \A o \in Orders : Exists(tx, o) => Exists(tx', o) /\ tx'[o].cost = tx[o].cost
      PROVE  \A o \in Orders : Exists(run_orders', o) =>
                Exists(tx', o) /\ tx'[o].cost = run_orders'[o].cost
    BY <1>3 DEF SeenInv, Exists
<1>4. ASSUME NEW s, NEW action, NEW cost, NEW aggressive, NEW back,
             BeginCreate(s, action, cost, aggressive, back)
      PROVE  \A o \in Orders : Exists(tx, o) => Exists(tx', o) /\ tx'[o].cost = tx[o].cost
  <2>1. PICK o : RequestOrder(o, s, action, cost, aggressive)
      BY <1>4 DEF BeginCreate
  <2>2. ~Exists(tx, o) /\ \A p \in Orders \ {o} : tx'[p] = tx[p]
      BY <2>1, RequestOrderCounts DEF TypeOK
  <2> QED BY <2>2 DEF Exists
<1>5. CASE PersistSnapshot \/ UNCHANGED vars \/ (\E o \in Orders : Fill(o)) \/ \E s \in Signals : SkipEntry(s)
  <2>1. UNCHANGED <<tx, pc, call, run_orders>>
      BY <1>5 DEF PersistSnapshot, vars, Fill, ExchangeFill, ordersVars, cycleVars, SkipEntry
  <2>2. Phase = "entries"
      BY <1>1, <2>1 DEF Phase
  <2> QED BY <1>3, <2>1, <2>2 DEF Exists
<1>6. CASE \E s \in Signals, cost \in Costs : SubmitEntry(s, cost)
  <2>1. PICK s \in Signals, cost \in Costs : SubmitEntry(s, cost)
      BY <1>6
  <2>2. Phase = "entries" /\ run_orders' = run_orders /\ BeginCreate(s, "entry", cost, FALSE, "entries")
      BY <2>1 DEF SubmitEntry, Phase
  <2> QED BY <1>3, <1>4, <2>2
<1>7. CASE Place
  <2>1. /\ tx' = tx /\ run_orders' = run_orders /\ pc = "place" /\ pc' = "record" /\ call'.back = call.back
      BY <1>7 DEF Place, PlaceOrder, TypeOK, Call
  <2>2. Phase = "entries"
      BY <1>1, <2>1 DEF Phase
  <2> QED BY <1>3, <2>1, <2>2 DEF Exists
<1>8. CASE SubmitExit
  <2>1. /\ Phase = "entries" /\ run_orders' = run_orders
        /\ BeginCreate(call.sig, "exit", 0, call.aggressive, call.back)
      BY <1>1, <1>8, BeginCreateCall DEF SubmitExit, Phase
  <2> QED BY <1>3, <1>4, <2>1
<1>9. CASE SubmitExitReturns
  <2>1. tx' = tx /\ run_orders' = run_orders /\ Phase = "entries"
      BY <1>1, <1>9 DEF SubmitExitReturns, ordersVars, Phase, TypeOK, Call
  <2> QED BY <1>3, <2>1 DEF Exists
<1>10. CASE Record
  <2>1. /\ call.order \in Orders
        /\ Exists(tx, call.order) /\ tx[call.order].status \notin IGNORED_STATUSES
      BY <1>10 DEF Record, RowsInv, Placing, Exists, IGNORED_STATUSES
  <2>2. Phase = "entries" /\ run_orders' = run_orders
      BY <1>1, <1>10 DEF Record, Phase, TypeOK, Call
  <2>3. \A o \in Orders : Exists(tx, o) => Exists(tx', o) /\ tx'[o].cost = tx[o].cost
      BY <1>10, <2>1, RecordOrderCounts DEF Record, TypeOK
  <2> QED BY <1>3, <2>2, <2>3
<1>11. CASE Start \/ Crash \/ CycleError \/ CycleEnd \/ CycleBegin \/ LoopEnds \/ Restart \/ Reconcile \/ PopStaleKeys
            \/ PositionsDone \/ OrdersDone \/ SkipEntries \/ EntriesDone
    BY <1>1, <1>11 DEF Phase, Start, Crash, CycleError, CycleFails, GoOn, CycleEnd, CycleBegin, LoopEnds, Restart, Reconcile,
                 PopStaleKeys, PositionsDone, OrdersDone, SkipEntries, EntriesDone
<1>12. CASE \E k \in Keys : OrderStep(k)
    BY <1>1, <1>12, OrderStepPhase
<1>13. CASE \E s \in Signals : HoldPosition(s) \/ StopCancelsExit(s) \/ \E stop \in BOOLEAN : ExitPosition(s, stop)
    BY <1>1, <1>13, CallSubmitExitCall DEF HoldPosition, StopCancelsExit, ExitPosition, Phase
<1> QED BY <1>2, <1>5, <1>6, <1>7, <1>8, <1>9, <1>10, <1>11, <1>12, <1>13 DEF Next, LoopStep, SignalStep

\* Rows have costs, and the orders are finitely many.
LEMMA CostTypes ==
    ASSUME NEW rows \in [Orders -> Row]
    PROVE  /\ \A o \in Orders : CostsIn(rows)[o] = rows[o].cost /\ CostsIn(rows)[o] \in Nat
           /\ \A g : CountedEntries(rows, g) \in SUBSET Orders /\ IsFiniteSet(CountedEntries(rows, g))
<1>1. IsFiniteSet(Orders)
    BY OrdersFinite
<1>2. ASSUME NEW g PROVE CountedEntries(rows, g) \in SUBSET Orders /\ IsFiniteSet(CountedEntries(rows, g))
  <2>1. CountedEntries(rows, g) \in SUBSET Orders
      BY DEF CountedEntries
  <2> QED BY <1>1, <2>1, FS_Subset
<1>3. ASSUME NEW o \in Orders PROVE rows[o].cost \in Nat
  <2>1. rows[o] \in Row
      OBVIOUS
  <2>2. rows[o].cost \in Costs \cup {0}
      BY <2>1 DEF Row
  <2>3. Costs \subseteq Nat
      BY OrdersAssumption
  <2>4. \A c \in Costs \cup {0} : c \in Nat
      BY <2>3
  <2> QED BY <2>2, <2>4, Zenon
<1> QED BY <1>2, <1>3 DEF CostsIn

\* Rows that count nothing new for a game charge it no more.
LEMMA NotionalWithin ==
    ASSUME NEW new \in [Orders -> Row], NEW old \in [Orders -> Row], NEW g \in Games,
           \A o \in CountedEntries(new, g) : o \in CountedEntries(old, g) /\ new[o].cost = old[o].cost
    PROVE  EntryNotional(new, g) \in Nat /\ EntryNotional(old, g) \in Nat
           /\ EntryNotional(new, g) <= EntryNotional(old, g)
<1> DEFINE S == CountedEntries(new, g)
           U == CountedEntries(old, g)
<1>1. /\ IsFiniteSet(U) /\ S \in SUBSET U /\ U \in SUBSET U
      /\ \A o \in U : CostsIn(old)[o] \in Nat
      /\ \A o \in S : CostsIn(new)[o] = CostsIn(old)[o]
    BY CostTypes
<1> HIDE DEF S, U
<1>2. CostOf(new, S) \in Nat /\ CostOf(new, S) <= CostOf(old, U)
    BY <1>1, TotalOfPart DEF CostOf
<1>3. CostOf(old, U) \in Nat
    BY <1>1, TotalNat DEF CostOf
<1> QED BY <1>2, <1>3, NotionalIsCost DEF S, U

\* The entry SubmitEntry adds costs no more than the budget has left.
LEMMA SubmitEntryNotional ==
    ASSUME TypeOK, TypeOK', CountInv, SeenInv, EntryNotionalBudget,
           NEW s \in Signals, NEW cost \in Costs, SubmitEntry(s, cost)
    PROVE  EntryNotionalBudget'
<1> DEFINE game == GameOf[s]
<1>1. /\ game \in Games
      /\ CountedEntries(tx, game) \subseteq CountedEntries(run_orders, game)
    BY SubmitEntryShown
<1>2. PICK o \in Orders :
         /\ ~Exists(tx, o) /\ tx'[o].cost = cost /\ db' \in {db, tx'}
         /\ \A p \in Orders \ {o} : tx'[p] = tx[p]
         /\ \A g \in Games : CountedEntries(tx', g) \subseteq
               CountedEntries(tx, g) \cup {p \in {o} : GameOf[s] = g}
    BY SubmitEntryShown
<1>3. Phase = "entries"
    BY DEF SubmitEntry, Phase
<1>4. /\ tx' \in [Orders -> Row] /\ tx \in [Orders -> Row] /\ db \in [Orders -> Row]
      /\ run_orders \in [Orders -> Row]
    BY DEF TypeOK, TypeOKOrders
<1>5. cost \in Nat
    BY OrdersAssumption
<1>6. EntryNotional(tx', game) <= MaxEntryNotional
  <2> DEFINE R == CountedEntries(run_orders, game)
             S == CountedEntries(tx', game)
             T == R \cup {o}
             priced == [run_orders EXCEPT ![o] = tx'[o]]
  <2>1. R \in SUBSET Orders /\ IsFiniteSet(R) /\ IsFiniteSet(T) /\ o \notin R /\ T \in SUBSET Orders
    <3>1. o \notin R
        BY <1>2, <1>3 DEF SeenInv, CountedEntries
    <3> QED BY <1>4, <3>1, CostTypes, FS_AddElement
  <2>2. S \in SUBSET T
      BY <1>1, <1>2
  <2>3. priced \in [Orders -> Row] /\ \A p \in R : priced[p] = run_orders[p]
      BY <1>4, <2>1
  <2>4. priced[o].cost = cost
      BY <1>2, <1>4
  <2>5. ASSUME NEW p \in S PROVE tx'[p].cost = priced[p].cost
    <3>1. CASE p = o
        BY <1>4, <3>1
    <3>2. CASE p # o
      <4>1. p \in R /\ tx'[p] = tx[p]
          BY <1>2, <2>1, <2>2, <3>2
      <4>2. Exists(run_orders, p)
          BY <4>1 DEF CountedEntries
      <4>3. tx[p].cost = run_orders[p].cost
          BY <1>3, <2>1, <4>1, <4>2 DEF SeenInv
      <4> QED BY <2>3, <4>1, <4>3
    <3> QED BY <3>1, <3>2
  <2>6. CostOf(run_orders, R) + cost <= MaxEntryNotional
      BY NotionalIsCost DEF SubmitEntry, BudgetLeft
  <2> HIDE DEF R, S, T, priced
  <2>7. \A p \in T : CostsIn(priced)[p] \in Nat
      BY <2>1, <2>3, CostTypes
  <2>8. CostOf(tx', S) \in Nat /\ CostOf(tx', S) <= CostOf(priced, T)
    <3>1. \A p \in S : CostsIn(tx')[p] = CostsIn(priced)[p]
        BY <1>4, <2>1, <2>2, <2>3, <2>5, CostTypes
    <3> QED BY <2>1, <2>2, <2>7, <3>1, TotalOfPart DEF CostOf
  <2>9. CostOf(priced, T) = cost + CostOf(priced, R)
    <3>1. o \in T /\ T \ {o} = R
        BY <2>1 DEF T
    <3>2. \A part \in SUBSET T : \A x \in part :
              CostOf(priced, part) = CostsIn(priced)[x] + CostOf(priced, part \ {x})
        BY <2>1, <2>7, TotalSplits DEF CostOf
    <3>3. CostOf(priced, T) = CostsIn(priced)[o] + CostOf(priced, T \ {o})
        BY <3>1, <3>2
    <3>4. CostsIn(priced)[o] = cost
        BY <2>3, <2>4, CostTypes
    <3> QED BY <3>1, <3>3, <3>4
  <2>10. CostOf(priced, R) \in Nat /\ CostOf(priced, R) <= CostOf(run_orders, R)
         /\ CostOf(run_orders, R) \in Nat
    <3>1. \A p \in R : CostsIn(run_orders)[p] \in Nat /\ CostsIn(priced)[p] = CostsIn(run_orders)[p]
        BY <1>4, <2>1, <2>3, CostTypes
    <3>2. R \in SUBSET R
        OBVIOUS
    <3> QED BY <2>1, <3>1, <3>2, TotalOfPart, TotalNat DEF CostOf
  <2>11. CostOf(tx', S) = EntryNotional(tx', game)
      BY NotionalIsCost DEF S
  <2> QED BY <1>5, <2>6, <2>8, <2>9, <2>10, <2>11, RunAssumption
<1>7. ASSUME NEW g \in Games, g # game PROVE EntryNotional(tx', g) <= MaxEntryNotional
  <2>1. ASSUME NEW p \in CountedEntries(tx', g)
        PROVE  p \in CountedEntries(tx, g) /\ tx'[p].cost = tx[p].cost
    <3>1. p \in CountedEntries(tx, g)
        BY <1>2, <1>7, <2>1
    <3>2. p # o /\ p \in Orders
        BY <1>2, <3>1 DEF CountedEntries
    <3> QED BY <1>2, <3>1, <3>2
  <2>2. EntryNotional(tx', g) \in Nat /\ EntryNotional(tx, g) \in Nat
        /\ EntryNotional(tx', g) <= EntryNotional(tx, g)
      BY <1>4, <2>1, NotionalWithin
  <2>3. EntryNotional(tx, g) <= MaxEntryNotional
      BY DEF EntryNotionalBudget
  <2> QED BY <2>2, <2>3, RunAssumption
<1> QED BY <1>2, <1>6, <1>7 DEF EntryNotionalBudget

\* Every step keeps the notional within the budget.
LEMMA NotionalStep ==
    ASSUME TypeOK, TypeOK', RowsInv, CountInv, SeenInv, EntryNotionalBudget, [Next]_vars
    PROVE  EntryNotionalBudget'
<1>1. CASE \E s \in Signals, cost \in Costs : SubmitEntry(s, cost)
    BY <1>1, SubmitEntryNotional
<1>2. CASE \A s \in Signals, cost \in Costs : ~SubmitEntry(s, cost)
  <2>1. CountsKept
      BY <1>2, CountsStep
  <2>2. ASSUME NEW new \in {tx', db'}, NEW g \in Games PROVE EntryNotional(new, g) <= MaxEntryNotional
    <3>1. PICK old \in {tx, db} :
             \A o \in CountedEntries(new, g) : o \in CountedEntries(old, g) /\ new[o].cost = old[o].cost
        BY <2>1, <2>2 DEF CountsKept, CountsWithin
    <3>2. new \in [Orders -> Row] /\ old \in [Orders -> Row]
        BY <2>2, <3>1 DEF TypeOK, TypeOKOrders
    <3>3. EntryNotional(new, g) \in Nat /\ EntryNotional(old, g) \in Nat
          /\ EntryNotional(new, g) <= EntryNotional(old, g)
        BY <3>1, <3>2, NotionalWithin
    <3>4. EntryNotional(old, g) <= MaxEntryNotional
        BY <3>1 DEF EntryNotionalBudget
    <3> QED BY <3>3, <3>4, RunAssumption
  <2> QED BY <2>2 DEF EntryNotionalBudget
<1> QED BY <1>1, <1>2

\* The notional the entries of a game ask for stays within the configuration,
\* across crashes, exceptions and restarts (the gates of _process_new_entries).
THEOREM NotionalKept == Spec => []EntryNotionalBudget
<1>1. Init => SignalInv /\ RowsInv /\ CountInv /\ SeenInv /\ EntryNotionalBudget
  <2> SUFFICES ASSUME Init PROVE SignalInv /\ RowsInv /\ CountInv /\ SeenInv /\ EntryNotionalBudget
      OBVIOUS
  <2>1. SignalInv /\ RowsInv /\ CountInv
      BY SignalInvInit, RowsInit, CountInit
  <2>2. SeenInv
      BY DEF Init, SeenInv, Phase
  <2>3. tx = NoRows /\ db = NoRows
      BY DEF Init, InitOrders, NoRows
  <2>4. \A g : CountedEntries(NoRows, g) = {}
      BY DEF CountedEntries, NoRows, NoRow, Exists
  <2>5. \A g : EntryNotional(NoRows, g) = 0
      BY <2>4, NotionalIsCost, TotalOfNone DEF CostOf
  <2>6. EntryNotionalBudget
      BY <2>3, <2>5, RunAssumption DEF EntryNotionalBudget
  <2> QED BY <2>1, <2>2, <2>6
<1>2. TypeOK /\ SignalInv /\ [Next]_vars => SignalInv'
    BY SignalInvStep
<1>3. TypeOK /\ RowsInv /\ [Next]_vars => RowsInv'
    BY RowsInvStep
<1>4. TypeOK /\ TypeOK' /\ SignalInv /\ RowsInv /\ CountInv /\ [Next]_vars => CountInv'
    BY CountStep
<1>5. TypeOK /\ RowsInv /\ SeenInv /\ [Next]_vars => SeenInv'
    BY SeenStep
<1>6. TypeOK /\ TypeOK' /\ RowsInv /\ CountInv /\ SeenInv /\ EntryNotionalBudget /\ [Next]_vars
          => EntryNotionalBudget'
    BY NotionalStep
<1> QED BY <1>1, <1>2, <1>3, <1>4, <1>5, <1>6, TypeCorrect, PTL DEF Spec

-----------------------------------------------------------------------------
(* The run implements OrderLedger: the functions of the adapter.  All of it  *)
(* is about live runs; a dry run writes rows as "open" and commits them      *)
(* together, when the cycle ends.                                            *)

\* What the refinement mapping shows of the committed rows.
LedgerStatus == [o \in Orders |-> db[o].status]
LedgerOwner == [o \in Orders |-> IF Exists(db, o) /\ db[o].action = "entry"
                                 THEN GameOf[db[o].sig] ELSE NoSignal]
LedgerStep == [Ledger!Next]_<<LedgerStatus, LedgerOwner>>

\* Only a dry run writes a row as "open".
NoDryRow == \A o \in Orders : tx[o].status # "open"

\* A row that a cancel may write, or would raise for.
RowSafe(rows, o) == IsOpen(rows, o) \/ ~rows[o].external

\* A game is charged for the same rows when no entry comes, goes or changes.
LEMMA OwnerKept ==
    ASSUME \A o \in Orders :
              /\ Exists(db', o) /\ db'[o].action = "entry" <=> Exists(db, o) /\ db[o].action = "entry"
              /\ db'[o].sig = db[o].sig \/ ~(Exists(db, o) /\ db[o].action = "entry")
    PROVE  LedgerOwner' = LedgerOwner
BY DEF LedgerOwner

\* Without a write to the committed rows the ledger stutters.
LEMMA LedgerStutters ==
    ASSUME UNCHANGED db PROVE LedgerStep
BY DEF LedgerStep, LedgerStatus, LedgerOwner, Exists

\* Writing a request leaves the rows a cancel may reach as they were.
LEMMA RequestOrderSafe ==
    ASSUME ~DryRun, TypeOKOrders, NoDryRow,
           NEW o, NEW s, NEW action, NEW cost, NEW aggressive, RequestOrder(o, s, action, cost, aggressive)
    PROVE  NoDryRow' /\ \A p \in Orders : RowSafe(tx, p) => RowSafe(tx', p)
<1>1. \A p \in Orders : tx'[p] = IF p = o THEN InitialRow(s, action, cost, aggressive) ELSE tx[p]
    BY DEF RequestOrder, TypeOKOrders
<1>2. /\ InitialRow(s, action, cost, aggressive).status = "pending_submit"
      /\ InitialRow(s, action, cost, aggressive).external = FALSE
    BY DEF InitialRow
<1> QED BY <1>1, <1>2 DEF NoDryRow, RowSafe, IsOpen

\* A recorded order is open, or refused and without an external id.
LEMMA RecordOrderSafe ==
    ASSUME ~DryRun, TypeOKOrders, NoDryRow, NEW o \in Orders, NEW answer, RecordOrder(o, answer)
    PROVE  NoDryRow' /\ RowSafe(tx', o) /\ \A p \in Orders : RowSafe(tx, p) => RowSafe(tx', p)
<1>1. \A p \in Orders :
         /\ p # o => tx'[p] = tx[p]
         /\ tx'[o].status = RecordedStatus(answer)
         /\ tx'[o].external = (answer = "accepted")
    BY DEF RecordOrder, TypeOKOrders, Row
<1>2. RecordedStatus(answer) = IF answer = "failed" THEN "submit_error" ELSE "submitted"
    BY DEF RecordedStatus
<1>3. RowSafe(tx', o) /\ tx'[o].status # "open"
    BY <1>1, <1>2 DEF RowSafe, IsOpen, OPEN_ORDER_STATUSES
<1> QED BY <1>1, <1>3 DEF NoDryRow, RowSafe, IsOpen

\* A cancel writes the one row.
LEMMA CancelOrderSafe ==
    ASSUME TypeOKOrders, NoDryRow, NEW o \in Orders, CancelOrder(o)
    PROVE  NoDryRow' /\ \A p \in Orders : p # o /\ RowSafe(tx, p) => RowSafe(tx', p)
<1>1. PICK answer \in {"canceled", "cancel_error"} : tx' = [tx EXCEPT ![o].status = answer]
    BY DEF CancelOrder
<1>2. \A p \in Orders : /\ tx'[p].status = IF p = o THEN answer ELSE tx[p].status
                        /\ tx'[p].external = tx[p].external
    BY <1>1 DEF TypeOKOrders, Row
<1> QED BY <1>1, <1>2 DEF NoDryRow, RowSafe, IsOpen

\* A reconciliation writes "filled" and "partially_filled".
LEMMA ReconcileFillsSafe ==
    ASSUME TypeOKOrders, NoDryRow, ReconcileFills
    PROVE  NoDryRow'
<1>1. PICK seenNow \in [Reconcilable -> 0..Lots] :
          tx' = [o \in Orders |->
                IF o \in Reconcilable /\ seenNow[o] > 0
                THEN [tx[o] EXCEPT !.status = IF seenNow[o] = Lots THEN "filled" ELSE "partially_filled"]
                ELSE tx[o]]
    BY DEF ReconcileFills
<1>2. \A o \in Orders : tx'[o].status \in {tx[o].status, "filled", "partially_filled"}
    BY <1>1 DEF TypeOKOrders, Row
<1> QED BY <1>2 DEF NoDryRow

\* create_live_order for an exit or a target requests an exit.
LEMMA RequestOrderIsExit ==
    ASSUME ~DryRun, TypeOKOrders, OrdersInv,
           NEW o, NEW s, NEW action, NEW cost, NEW aggressive,
           action # "entry", RequestOrder(o, s, action, cost, aggressive)
    PROVE  LedgerStep
<1>1. o \in Orders /\ ~Exists(db, o) /\ db' = tx' /\ tx = db
    BY DEF RequestOrder, FreshOrders, Orders, OrdersInv
<1>2. \A p \in Orders : db'[p] = IF p = o THEN InitialRow(s, action, cost, aggressive) ELSE db[p]
    BY <1>1 DEF RequestOrder, TypeOKOrders
<1>3. /\ InitialRow(s, action, cost, aggressive).status = "pending_submit"
      /\ InitialRow(s, action, cost, aggressive).action = action
    BY DEF InitialRow
<1>4. LedgerOwner' = LedgerOwner
    BY <1>1, <1>2, <1>3, OwnerKept DEF Exists
<1>5. LedgerStatus[o] = "none" /\ LedgerStatus' = [LedgerStatus EXCEPT ![o] = "pending_submit"]
    BY <1>1, <1>2, <1>3 DEF LedgerStatus, Exists
<1>6. Ledger!RequestExit(o)
    BY <1>4, <1>5 DEF Ledger!RequestExit, LedgerStatus, LedgerOwner
<1> QED BY <1>1, <1>6 DEF LedgerStep, Ledger!Next

\* The ledger counts as the run does.
LEMMA SameCardinality ==
    ASSUME NEW S PROVE Ledger!Cardinality(S) = Cardinality(S)
BY Zenon DEF Ledger!Cardinality, Cardinality

\* create_live_order for an entry requests one, when the game has room.
LEMMA RequestOrderIsEntry ==
    ASSUME ~DryRun, TypeOKOrders, OrdersInv,
           NEW o, NEW s \in Signals, NEW cost, NEW aggressive,
           RequestOrder(o, s, "entry", cost, aggressive),
           EntryOrderCount(tx, GameOf[s]) < MaxEntryOrders
    PROVE  LedgerStep
<1> DEFINE g == GameOf[s]
<1>1. o \in Orders /\ ~Exists(db, o) /\ db' = tx' /\ tx = db
    BY DEF RequestOrder, FreshOrders, Orders, OrdersInv
<1>2. \A p \in Orders : db'[p] = IF p = o THEN InitialRow(s, "entry", cost, aggressive) ELSE db[p]
    BY <1>1 DEF RequestOrder, TypeOKOrders
<1>3. /\ InitialRow(s, "entry", cost, aggressive).status = "pending_submit"
      /\ InitialRow(s, "entry", cost, aggressive).action = "entry"
      /\ InitialRow(s, "entry", cost, aggressive).sig = s
    BY DEF InitialRow
<1>4. g \in Games /\ g # NoSignal
    BY OrdersAssumption
<1>5. LedgerStatus[o] = "none" /\ LedgerStatus' = [LedgerStatus EXCEPT ![o] = "pending_submit"]
    BY <1>1, <1>2, <1>3 DEF LedgerStatus, Exists
<1>6. LedgerOwner' = [LedgerOwner EXCEPT ![o] = g]
    BY <1>1, <1>2, <1>3 DEF LedgerOwner, Exists
<1>7. CountedEntries(tx, g) = {p \in Orders : LedgerOwner[p] = g /\ LedgerStatus[p] # "submit_error"}
    BY <1>1, <1>4 DEF CountedEntries, LedgerOwner, LedgerStatus, IGNORED_STATUSES
<1>8. Ledger!Charged(g) = CountedEntries(tx, g)
    BY <1>7 DEF Ledger!Charged, LedgerOwner, LedgerStatus
<1>9. Cardinality(Ledger!Charged(g)) < MaxEntryOrders
    BY <1>8 DEF EntryOrderCount
<1>10. Ledger!RequestEntry(o, g)
    BY <1>5, <1>6, <1>9, SameCardinality DEF Ledger!RequestEntry, LedgerStatus, LedgerOwner
<1> QED BY <1>1, <1>4, <1>10 DEF LedgerStep, Ledger!Next

\* The second write of create_live_order answers the request.
LEMMA RecordOrderAnswers ==
    ASSUME ~DryRun, TypeOKOrders, OrdersInv, NEW o \in Orders, NEW answer,
           tx[o].status = "pending_submit", RecordOrder(o, answer)
    PROVE  LedgerStep
<1>1. tx = db /\ db' = tx'
    BY DEF RecordOrder, OrdersInv
<1>2. \A p \in Orders :
         /\ db'[p].status = IF p = o THEN RecordedStatus(answer) ELSE db[p].status
         /\ db'[p].sig = db[p].sig /\ db'[p].action = db[p].action
    BY <1>1 DEF RecordOrder, TypeOKOrders, Row
<1>3. RecordedStatus(answer) \in {"submitted", "submit_error"}
    BY DEF RecordedStatus
<1>4. LedgerOwner' = LedgerOwner
    BY <1>1, <1>2, <1>3, OwnerKept DEF Exists
<1>5. LedgerStatus[o] = "pending_submit" /\ LedgerStatus' = [LedgerStatus EXCEPT ![o] = RecordedStatus(answer)]
    BY <1>1, <1>2 DEF LedgerStatus
<1>6. Ledger!Answer(o)
    BY <1>3, <1>4, <1>5 DEF Ledger!Answer, LedgerStatus, LedgerOwner
<1> QED BY <1>6 DEF LedgerStep, Ledger!Next

\* A cancel of an open row is one of the ledger.
LEMMA CancelOrderCancels ==
    ASSUME ~DryRun, TypeOKOrders, OrdersInv, NoDryRow, NEW o \in Orders, IsOpen(tx, o), CancelOrder(o)
    PROVE  LedgerStep
<1>1. PICK answer \in {"canceled", "cancel_error"} :
          tx' = [tx EXCEPT ![o].status = answer] /\ db' = tx' /\ tx = db
    BY DEF CancelOrder, OrdersInv
<1>2. \A p \in Orders :
         /\ db'[p].status = IF p = o THEN answer ELSE db[p].status
         /\ db'[p].sig = db[p].sig /\ db'[p].action = db[p].action
    BY <1>1 DEF TypeOKOrders, Row
<1>3. db[o].status \in {"submitted", "partially_filled"}
    BY <1>1 DEF IsOpen, NoDryRow, OPEN_ORDER_STATUSES
<1>4. LedgerOwner' = LedgerOwner
    BY <1>2, <1>3, OwnerKept DEF Exists
<1>5. /\ LedgerStatus[o] \in {"submitted", "partially_filled"}
      /\ LedgerStatus' = [LedgerStatus EXCEPT ![o] = answer]
    BY <1>2, <1>3 DEF LedgerStatus
<1>6. Ledger!Cancel(o)
    BY <1>4, <1>5 DEF Ledger!Cancel, Ledger!OpenStatus, LedgerStatus, LedgerOwner
<1> QED BY <1>6 DEF LedgerStep, Ledger!Next

\* A reconciliation reports trades of open rows.
LEMMA ReconcileFillsTrades ==
    ASSUME ~DryRun, TypeOKOrders, OrdersInv, NoDryRow, ReconcileFills
    PROVE  LedgerStep
<1>1. PICK seenNow \in [Reconcilable -> 0..Lots] :
          /\ tx' = [o \in Orders |->
                IF o \in Reconcilable /\ seenNow[o] > 0
                THEN [tx[o] EXCEPT !.status = IF seenNow[o] = Lots THEN "filled" ELSE "partially_filled"]
                ELSE tx[o]]
          /\ db' = IF \E o \in Reconcilable : seenNow[o] > 0 THEN tx' ELSE db
    BY DEF ReconcileFills
<1>2. tx = db
    BY DEF OrdersInv
<1>3. CASE db' = db
    BY <1>3, LedgerStutters
<1>4. CASE db' = tx'
  <2> DEFINE traded == {o \in Reconcilable : seenNow[o] > 0}
             new == [o \in traded |-> IF seenNow[o] = Lots THEN "filled" ELSE "partially_filled"]
  <2>1. \A o \in Orders :
           /\ db'[o].status = IF o \in traded THEN new[o] ELSE db[o].status
           /\ db'[o].sig = db[o].sig /\ db'[o].action = db[o].action
      BY <1>1, <1>2, <1>4 DEF TypeOKOrders, Row
  <2>2. \A o \in traded : o \in Orders /\ LedgerStatus[o] \in {"submitted", "partially_filled"} /\ Exists(db, o)
      BY <1>2 DEF Reconcilable, IsOpen, NoDryRow, OPEN_ORDER_STATUSES, LedgerStatus, Exists
  <2>3. new \in [traded -> {"partially_filled", "filled"}]
      OBVIOUS
  <2>4. \A o \in traded : new[o] # "none"
      OBVIOUS
  <2>5. LedgerOwner' = LedgerOwner
      BY <2>1, <2>2, <2>4, OwnerKept DEF Exists
  <2>6. LedgerStatus' = [o \in Orders |-> IF o \in traded THEN new[o] ELSE LedgerStatus[o]]
      BY <2>1 DEF LedgerStatus
  <2>7. traded \in SUBSET {o \in Orders : LedgerStatus[o] \in {"submitted", "partially_filled"}}
      BY <2>2
  <2>8. \E T \in SUBSET {o \in Orders : LedgerStatus[o] \in {"submitted", "partially_filled"}} :
           \E f \in [T -> {"partially_filled", "filled"}] :
              LedgerStatus' = [o \in Orders |-> IF o \in T THEN f[o] ELSE LedgerStatus[o]]
    <3> HIDE DEF traded, new
    <3> QED BY <2>3, <2>6, <2>7
  <2>9. Ledger!Trade
      BY <2>5, <2>8, Zenon DEF Ledger!Trade, Ledger!OpenStatus, LedgerStatus, LedgerOwner
  <2> QED BY <2>9 DEF LedgerStep, Ledger!Next
<1> QED BY <1>1, <1>3, <1>4

-----------------------------------------------------------------------------
(* No cancel is sent for a closed row *)

\* A target is tracked under its own key, everything else under the main one.
KeysFit ==
    \A m \in {MemoryNow, snapshot}, k \in Keys :
        m.orders[k].order # NoOrder => (m.orders[k].action = "target_exit" <=> k[2] = "target")

\* The keys a cancel of this cycle may still reach: those the reconciliation has
\* looked at and keeps, all while the positions are processed, then the ones
\* the loop over the orders has left.
DueKeys ==
    {k \in TrackedKeys : \/ Phase = "fills" /\ k \notin keys_todo \cup stale_keys
                         \/ Phase = "positions"
                         \/ Phase = "orders" /\ k \in keys_todo}

\* _reconcile_runtime_state has dropped what is closed.
CancelInv ==
    /\ NoDryRow
    /\ KeysFit
    /\ \A k \in DueKeys : RowSafe(tx, active_orders[k].order)

\* The order of a tracked key is an order.
LEMMA TrackedOrder ==
    ASSUME TypeOK, NEW k \in TrackedKeys
    PROVE  k \in Keys /\ active_orders[k].order \in Orders
BY DEF TrackedKeys, IsTracked, TypeOK, Tracked

\* No order is tracked twice: its row says which signal and purpose it has.
LEMMA TrackedOnce ==
    ASSUME ~DryRun, TypeOK, TrackedOrdersDurable, KeysFit,
           NEW j \in TrackedKeys, NEW k \in TrackedKeys, active_orders[j].order = active_orders[k].order
    PROVE  j = k
<1>1. /\ j \in Keys /\ k \in Keys
      /\ active_orders[j].order # NoOrder /\ active_orders[k].order # NoOrder
    BY DEF TrackedKeys, IsTracked
<1>2. /\ db[active_orders[j].order].sig = j[1] /\ db[active_orders[k].order].sig = k[1]
      /\ db[active_orders[j].order].action = active_orders[j].action
      /\ db[active_orders[k].order].action = active_orders[k].action
    BY <1>1 DEF TrackedOrdersDurable, MemoryNow
<1>3. /\ active_orders[j].action = "target_exit" <=> j[2] = "target"
      /\ active_orders[k].action = "target_exit" <=> k[2] = "target"
    BY <1>1 DEF KeysFit, MemoryNow
<1> QED BY <1>1, <1>2, <1>3 DEF Keys

\* The exit a stop cancels is tracked.
LEMMA ActiveExitTracked ==
    ASSUME KeysFit, NEW s \in Signals, HasActiveExit(s)
    PROVE  ActiveExitKey(s) \in TrackedKeys
<1>1. MainKey(s) \in Keys /\ TargetKey(s) \in Keys
    BY KeysOfSignals
<1>2. IsTracked(MainKey(s)) => active_orders[MainKey(s)].action # "target_exit"
    BY <1>1 DEF KeysFit, MemoryNow, IsTracked, MainKey
<1> QED BY <1>1, <1>2 DEF HasActiveExit, ActiveExitKey, TrackedKeys

\* A cancel that is sent finds an open row.
LEMMA CancelFindsOpen ==
    ASSUME ~DryRun, TypeOK, CancelInv, NEW k \in DueKeys, CancelOrder(active_orders[k].order)
    PROVE  active_orders[k].order \in Orders /\ IsOpen(tx, active_orders[k].order)
<1>1. active_orders[k].order \in Orders
    BY TrackedOrder DEF DueKeys
<1>2. tx[active_orders[k].order].external
    BY DEF CancelOrder, Cancellable
<1> QED BY <1>1, <1>2 DEF CancelInv, RowSafe

\* The row of a key stays safe when it was due before and its row stays safe.
LEMMA DueFrame ==
    ASSUME TypeOK, CancelInv,
           \A k \in DueKeys' : k \in DueKeys /\ active_orders'[k].order = active_orders[k].order,
           \A p \in Orders : RowSafe(tx, p) => RowSafe(tx', p)
    PROVE  \A k \in DueKeys' : RowSafe(tx', active_orders'[k].order)
<1> SUFFICES ASSUME NEW k \in DueKeys' PROVE RowSafe(tx', active_orders'[k].order)
    OBVIOUS
<1>1. k \in DueKeys /\ active_orders'[k].order = active_orders[k].order
    OBVIOUS
<1>2. active_orders[k].order \in Orders /\ RowSafe(tx, active_orders[k].order)
    BY <1>1, TrackedOrder DEF DueKeys, CancelInv
<1> QED BY <1>1, <1>2

\* A cancel leaves the other keys that are due safe.
LEMMA DueCancel ==
    ASSUME ~DryRun, TypeOK, TrackedOrdersDurable, CancelInv, NEW j \in DueKeys,
           CancelOrder(active_orders[j].order),
           \A k \in DueKeys' : k \in DueKeys \ {j} /\ active_orders'[k].order = active_orders[k].order
    PROVE  NoDryRow' /\ \A k \in DueKeys' : RowSafe(tx', active_orders'[k].order)
<1>1. j \in TrackedKeys /\ active_orders[j].order \in Orders
    BY TrackedOrder DEF DueKeys
<1>2. NoDryRow' /\ \A p \in Orders : p # active_orders[j].order /\ RowSafe(tx, p) => RowSafe(tx', p)
    BY <1>1, CancelOrderSafe DEF TypeOK, CancelInv
<1>3. ASSUME NEW k \in DueKeys' PROVE RowSafe(tx', active_orders'[k].order)
  <2>1. k \in DueKeys /\ k # j /\ active_orders'[k].order = active_orders[k].order
      BY <1>3
  <2>2. k \in TrackedKeys /\ active_orders[k].order \in Orders /\ RowSafe(tx, active_orders[k].order)
      BY <2>1, TrackedOrder DEF DueKeys, CancelInv
  <2>3. active_orders[k].order # active_orders[j].order
      BY <1>1, <2>1, <2>2, TrackedOnce DEF CancelInv
  <2> QED BY <1>2, <2>1, <2>2, <2>3
<1> QED BY <1>2, <1>3

\* Every order is tracked under the key of its purpose.
LEMMA KeysFitStep ==
    ASSUME TypeOK, SignalInv, KeysFit, [Next]_vars PROVE KeysFit'
<1>1. CASE ~Record
  <2>1. ASSUME NEW m \in {MemoryNow', snapshot'}, NEW k \in Keys, m.orders[k].order # NoOrder
        PROVE  m.orders[k].action = "target_exit" <=> k[2] = "target"
    <3>1. PICK n \in {MemoryNow, snapshot} : Follows(m, n)
        BY <1>1, MemoryStep
    <3>2. m.orders[k].order = n.orders[k].order /\ m.orders[k].action = n.orders[k].action
        BY <2>1, <3>1 DEF Follows
    <3> QED BY <2>1, <3>2 DEF KeysFit
  <2> QED BY <2>1 DEF KeysFit
<1>2. CASE Record
  <2> DEFINE key == IF call.action = "target_exit" THEN TargetKey(call.sig) ELSE MainKey(call.sig)
  <2>1. active_orders' \in {active_orders, Track(key, call.order, call.action, call.aggressive)}
      BY <1>2 DEF Record
  <2>2. call.action = "target_exit" <=> key[2] = "target"
      BY DEF MainKey, TargetKey
  <2>3. \A k \in Keys : \/ active_orders'[k] = active_orders[k]
                        \/ k = key /\ active_orders'[k].action = call.action
    <3> HIDE DEF key
    <3> QED BY <2>1 DEF Track, TypeOK
  <2>4. snapshot' = snapshot
      BY <1>2 DEF Record
  <2> HIDE DEF key
  <2> QED BY <2>2, <2>3, <2>4 DEF KeysFit, MemoryNow
<1> QED BY <1>1, <1>2

\* What a step of a live run does to CancelInv and to the ledger.
StepKept == CancelInv' /\ LedgerStep

\* A step that writes no row, and makes no further key due.
LEMMA StepWithoutWrite ==
    ASSUME TypeOK, CancelInv, KeysFit', UNCHANGED <<tx, db>>,
           \A k \in DueKeys' : k \in DueKeys /\ active_orders'[k].order = active_orders[k].order
    PROVE  StepKept
<1>1. NoDryRow' /\ \A p \in Orders : RowSafe(tx, p) => RowSafe(tx', p)
    BY DEF CancelInv, NoDryRow
<1> QED BY <1>1, DueFrame, LedgerStutters DEF StepKept, CancelInv

\* A step out of the loops a cancel may come from, without a write.
LEMMA StepOutside ==
    ASSUME CancelInv, KeysFit', UNCHANGED <<tx, db>>, Phase' \notin {"fills", "positions", "orders"}
    PROVE  StepKept
BY LedgerStutters DEF StepKept, CancelInv, NoDryRow, DueKeys

\* The tables are the same in a live run, so both ends of a connection, and a
\* failed cycle, write nothing.
LEMMA ConnectionIdle ==
    ASSUME ~DryRun, RowsInv, CommitConnection \/ RollbackConnection
    PROVE  UNCHANGED <<tx, db>>
BY DEF RowsInv, OrdersInv, CommitConnection, RollbackConnection

\* create_live_order begins: nothing further becomes due.
LEMMA StepBeginCreate ==
    ASSUME ~DryRun, TypeOK, RowsInv, CancelInv, KeysFit',
           NEW s \in Signals, NEW action, NEW cost, NEW aggressive, NEW back,
           BeginCreate(s, action, cost, aggressive, back),
           action = "entry" => EntryOrderCount(tx, GameOf[s]) < MaxEntryOrders,
           \A k \in DueKeys' : k \in DueKeys /\ active_orders'[k].order = active_orders[k].order
    PROVE  StepKept
<1>1. PICK o : RequestOrder(o, s, action, cost, aggressive)
    BY DEF BeginCreate
<1>2. TypeOKOrders /\ OrdersInv /\ NoDryRow
    BY DEF TypeOK, RowsInv, CancelInv
<1>3. NoDryRow' /\ \A p \in Orders : RowSafe(tx, p) => RowSafe(tx', p)
    BY <1>1, <1>2, RequestOrderSafe
<1>4. LedgerStep
  <2>1. CASE action = "entry"
      BY <1>1, <1>2, <2>1, RequestOrderIsEntry
  <2>2. CASE action # "entry"
      BY <1>1, <1>2, <2>2, RequestOrderIsExit
  <2> QED BY <2>1, <2>2
<1> QED BY <1>3, <1>4, DueFrame DEF StepKept, CancelInv

\* A cancel of an order that is due, which is not due again in this cycle.
LEMMA StepCancel ==
    ASSUME ~DryRun, TypeOK, RowsInv, TrackedOrdersDurable, CancelInv, KeysFit',
           NEW j \in DueKeys, CancelOrder(active_orders[j].order),
           \A k \in DueKeys' : k \in DueKeys \ {j} /\ active_orders'[k].order = active_orders[k].order
    PROVE  StepKept
<1>1. active_orders[j].order \in Orders /\ IsOpen(tx, active_orders[j].order)
    BY CancelFindsOpen
<1>2. LedgerStep
    BY <1>1, CancelOrderCancels DEF TypeOK, RowsInv, CancelInv
<1>3. NoDryRow' /\ \A k \in DueKeys' : RowSafe(tx', active_orders'[k].order)
    BY DueCancel
<1> QED BY <1>2, <1>3 DEF StepKept, CancelInv

\* The rows read before the entries are tried leave room for one that passes
\* the gates.
LEMMA SubmitEntryHasRoom ==
    ASSUME TypeOK, CountInv, NEW s \in Signals, NEW cost \in Costs, SubmitEntry(s, cost)
    PROVE  EntryOrderCount(tx, GameOf[s]) < MaxEntryOrders
<1>1. \A t \in Signals : GameOf[t] = GameOf[s] => ~Works(MemoryNow, t)
  <2>1. ASSUME NEW t \in Signals, GameOf[t] = GameOf[s] PROVE ~Works(MemoryNow, t)
      BY <2>1, GameFreeWorks DEF SubmitEntry
  <2> QED BY <2>1
<1>2. Phase = "entries" /\ ~Placing /\ GameOf[s] \in Games
    BY OrdersAssumption DEF SubmitEntry, Phase, Placing
<1>3. CountedEntries(tx, GameOf[s]) \subseteq CountedEntries(run_orders, GameOf[s])
    BY <1>1, <1>2 DEF CountInv
<1>4. CountedEntries(run_orders, GameOf[s]) \in SUBSET Orders
    BY DEF CountedEntries
<1>5. /\ EntryOrderCount(tx, GameOf[s]) \in Nat /\ Cardinality(CountedEntries(run_orders, GameOf[s])) \in Nat
      /\ EntryOrderCount(tx, GameOf[s]) <= Cardinality(CountedEntries(run_orders, GameOf[s]))
    BY <1>3, <1>4, CountBound
<1>6. Cardinality(CountedEntries(run_orders, GameOf[s])) < MaxEntryOrders
    BY DEF SubmitEntry, BudgetLeft, EntryOrderCount
<1> QED BY <1>5, <1>6, RunAssumption

\* Every step of a live run is one of the ledger, or none, and leaves no closed
\* row for a cancel to reach.
LEMMA CancelStep ==
    ASSUME ~DryRun, TypeOK, SignalInv, RowsInv, TrackedOrdersDurable, CountInv, CancelInv, [Next]_vars
    PROVE  StepKept
<1>1. KeysFit' /\ TypeOKOrders /\ OrdersInv
    BY KeysFitStep DEF CancelInv, TypeOK, RowsInv
<1>2. CASE Start \/ Crash \/ CycleError \/ CycleEnd \/ \E k \in Keys : TimeoutRaises(k)
  <2>1. UNCHANGED <<tx, db>>
      BY <1>2, ConnectionIdle DEF Start, Crash, CycleError, CycleEnd, TimeoutRaises, CycleFails, GoOn, ordersVars
  <2>2. Phase' \in {"down", "ended", "begin"}
      BY <1>2 DEF Start, Crash, CycleError, CycleEnd, TimeoutRaises, CycleFails, GoOn, Phase
  <2> QED BY <1>1, <2>1, <2>2, StepOutside
<1>3. CASE CycleBegin \/ LoopEnds \/ Restart \/ OrdersDone \/ SkipEntries \/ BeginEntries \/ EntriesDone
  <2>1. UNCHANGED <<tx, db>> /\ Phase' \in {"begin", "ended", "reconcile", "entry_gate", "entries", "end"}
      BY <1>3 DEF CycleBegin, LoopEnds, Restart, OrdersDone, SkipEntries, BeginEntries, EntriesDone, ordersVars, Phase
  <2> QED BY <1>1, <2>1, StepOutside
<1>4. CASE PersistSnapshot \/ UNCHANGED vars \/ \E o \in Orders : Fill(o)
  <2>1. UNCHANGED <<tx, db, pc, memoryVars, cycleVars>>
      BY <1>4 DEF PersistSnapshot, vars, Fill, ExchangeFill, ordersVars
  <2>2. DueKeys' = DueKeys /\ active_orders' = active_orders
      BY <2>1 DEF DueKeys, TrackedKeys, IsTracked, Phase, memoryVars, cycleVars
  <2> QED BY <1>1, <2>1, <2>2, StepWithoutWrite
<1>5. CASE Reconcile
  <2>1. Phase' = "fills" /\ keys_todo' = TrackedKeys /\ active_orders' = active_orders
      BY <1>5 DEF Reconcile, Phase, memoryVars
  <2>2. DueKeys' = {}
      BY <2>1 DEF DueKeys, TrackedKeys, IsTracked
  <2>3. CASE UNCHANGED ordersVars
      BY <1>1, <2>2, <2>3, StepWithoutWrite DEF ordersVars
  <2>4. CASE ReconcileFills
    <3>1. NoDryRow' /\ LedgerStep
        BY <1>1, <2>4, ReconcileFillsSafe, ReconcileFillsTrades DEF CancelInv
    <3> QED BY <1>1, <2>2, <3>1 DEF StepKept, CancelInv
  <2> QED BY <1>5, <2>3, <2>4 DEF Reconcile
<1>6. CASE PopStaleKeys
  <2>1. /\ UNCHANGED <<tx, db>> /\ Phase = "fills" /\ keys_todo = {}
        /\ active_orders' = Untrack(stale_keys)
      BY <1>6 DEF PopStaleKeys, ordersVars, Phase
  <2>2. ASSUME NEW k \in DueKeys' PROVE k \in DueKeys /\ active_orders'[k].order = active_orders[k].order
    <3>1. k \in Keys /\ active_orders'[k].order # NoOrder
        BY <2>2 DEF DueKeys, TrackedKeys, IsTracked
    <3>2. k \notin stale_keys /\ active_orders'[k] = active_orders[k]
        BY <2>1, <3>1 DEF Untrack, NotTracked
    <3> QED BY <2>1, <3>1, <3>2 DEF DueKeys, TrackedKeys, IsTracked
  <2> QED BY <1>1, <2>1, <2>2, StepWithoutWrite
<1>7. CASE PositionsDone
  <2>1. UNCHANGED <<tx, db>> /\ Phase = "positions" /\ Phase' = "orders" /\ active_orders' = active_orders
      BY <1>7 DEF PositionsDone, ordersVars, Phase, memoryVars
  <2>2. DueKeys' \subseteq DueKeys
      BY <2>1 DEF DueKeys, TrackedKeys, IsTracked
  <2> QED BY <1>1, <2>1, <2>2, StepWithoutWrite
<1>8. CASE SubmitExit
  <2>1. /\ active_orders' = active_orders /\ keys_todo' = keys_todo /\ stale_keys' = stale_keys
        /\ BeginCreate(call.sig, "exit", 0, call.aggressive, call.back)
        /\ Phase = call.back /\ call.sig \in Signals
      BY <1>8 DEF SubmitExit, memoryVars, Phase, SignalInv, Exiting
  <2>2. Phase' = Phase
      BY <2>1, BeginCreateCall
  <2>3. DueKeys' = DueKeys
      BY <2>1, <2>2 DEF DueKeys, TrackedKeys, IsTracked
  <2> QED BY <1>1, <2>1, <2>3, StepBeginCreate
<1>9. CASE SubmitExitReturns \/ Place
  <2>1. /\ UNCHANGED <<tx, db>> /\ active_orders' = active_orders /\ keys_todo' = keys_todo /\ stale_keys' = stale_keys
        /\ Phase' = Phase
      BY <1>9 DEF SubmitExitReturns, Place, PlaceOrder, ordersVars, memoryVars, Phase, TypeOK, Call
  <2>2. DueKeys' = DueKeys
      BY <2>1 DEF DueKeys, TrackedKeys, IsTracked
  <2> QED BY <1>1, <2>1, <2>2, StepWithoutWrite
<1>10. CASE Record
  <2>1. /\ call.order \in Orders /\ tx[call.order].status = "pending_submit"
        /\ RecordOrder(call.order, call.answer)
        /\ keys_todo' = keys_todo /\ stale_keys' = stale_keys /\ Phase' = Phase
      BY <1>10 DEF Record, RowsInv, Placing, Phase, TypeOK, Call
  <2>2. LedgerStep
      BY <1>1, <2>1, RecordOrderAnswers
  <2>3. NoDryRow' /\ RowSafe(tx', call.order) /\ \A p \in Orders : RowSafe(tx, p) => RowSafe(tx', p)
      BY <1>1, <2>1, RecordOrderSafe DEF CancelInv
  <2>4. ASSUME NEW k \in DueKeys' PROVE RowSafe(tx', active_orders'[k].order)
    <3>1. k \in Keys /\ active_orders'[k].order # NoOrder
        BY <2>4 DEF DueKeys, TrackedKeys, IsTracked
    <3>2. CASE active_orders'[k].order = call.order
        BY <2>3, <3>2
    <3>3. CASE active_orders'[k] = active_orders[k]
      <4>1. k \in DueKeys
          BY <2>1, <2>4, <3>1, <3>3 DEF DueKeys, TrackedKeys, IsTracked
      <4>2. active_orders[k].order \in Orders /\ RowSafe(tx, active_orders[k].order)
          BY <4>1, TrackedOrder DEF DueKeys, CancelInv
      <4> QED BY <2>3, <3>3, <4>2
    <3> QED BY <1>10, <3>1, <3>2, <3>3, RecordTracks
  <2> QED BY <1>1, <2>2, <2>3, <2>4 DEF StepKept, CancelInv
<1>11. ASSUME NEW k \in Keys, OrderStep(k) PROVE StepKept
  <2>1. CASE OpenPosition(k)
    <3>1. /\ active_orders' = active_orders /\ keys_todo' = keys_todo /\ stale_keys' = stale_keys \cup {k}
          /\ Phase = "fills" /\ k[1] \in Signals
        BY <2>1 DEF OpenPosition, Phase, Keys
    <3>2. CASE BeginCreate(k[1], "target_exit", 0, FALSE, "fills")
      <4>1. Phase' = "fills"
          BY <3>2, BeginCreateCall
      <4>2. DueKeys' \subseteq DueKeys
          BY <3>1, <4>1 DEF DueKeys, TrackedKeys, IsTracked
      <4> QED BY <1>1, <3>1, <3>2, <4>2, StepBeginCreate
    <3>3. CASE UNCHANGED <<ordersVars, call, pc>>
      <4>1. DueKeys' \subseteq DueKeys
          BY <3>1, <3>3 DEF DueKeys, TrackedKeys, IsTracked, Phase
      <4> QED BY <1>1, <3>1, <3>3, <4>1, StepWithoutWrite DEF ordersVars
    <3> QED BY <2>1, <3>2, <3>3 DEF OpenPosition
  <2>2. CASE ClosePosition(k) \/ HoldOrder(k)
    <3>1. /\ UNCHANGED <<tx, db>> /\ active_orders' = active_orders /\ Phase' = Phase
          /\ Phase = "fills" => keys_todo' = keys_todo /\ stale_keys \subseteq stale_keys'
          /\ Phase = "orders" => keys_todo' \subseteq keys_todo
        BY <2>2 DEF ClosePosition, HoldOrder, ordersVars, memoryVars, Phase
    <3>2. DueKeys' \subseteq DueKeys
        BY <3>1 DEF DueKeys, TrackedKeys, IsTracked
    <3> QED BY <1>1, <3>1, <3>2, StepWithoutWrite
  <2>3. CASE CheckStatus(k)
    <3>1. /\ UNCHANGED <<tx, db>> /\ active_orders' = active_orders /\ Phase = "fills" /\ Phase' = "fills"
          /\ keys_todo' = keys_todo \ {k}
          /\ stale_keys' = IF IsOpen(tx, active_orders[k].order) THEN stale_keys ELSE stale_keys \cup {k}
        BY <2>3 DEF CheckStatus, ordersVars, memoryVars, Phase
    <3>2. ASSUME NEW j \in DueKeys' PROVE RowSafe(tx', active_orders'[j].order)
      <4>1. j \in TrackedKeys /\ j \notin keys_todo' /\ j \notin stale_keys'
          BY <3>1, <3>2 DEF DueKeys, TrackedKeys, IsTracked
      <4>2. CASE j = k
          BY <3>1, <4>1, <4>2 DEF RowSafe
      <4>3. CASE j # k
        <5>1. j \notin keys_todo /\ j \notin stale_keys
            BY <3>1, <4>1, <4>3
        <5>2. j \in DueKeys
            BY <3>1, <4>1, <5>1 DEF DueKeys
        <5> QED BY <3>1, <5>2 DEF CancelInv
      <4> QED BY <4>2, <4>3
    <3>3. NoDryRow' /\ LedgerStep
        BY <3>1, LedgerStutters DEF CancelInv, NoDryRow
    <3> QED BY <1>1, <3>2, <3>3 DEF StepKept, CancelInv
  <2>4. CASE EntryTimeout(k) \/ ExitTimeout(k)
    <3>1. /\ Phase = "orders" /\ k \in keys_todo /\ keys_todo' = keys_todo \ {k}
          /\ CancelOrder(active_orders[k].order)
        BY <2>4 DEF EntryTimeout, ExitTimeout, Phase
    <3>2. Phase' = "orders"
        BY <2>4, CallSubmitExitCall DEF EntryTimeout, ExitTimeout, Phase
    <3>3. \A j \in Keys : active_orders'[j].order = active_orders[j].order
      <4>1. active_orders' = active_orders \/ active_orders' = [active_orders EXCEPT ![k].retried = TRUE]
          BY <2>4 DEF EntryTimeout, ExitTimeout, memoryVars
      <4> QED BY <4>1 DEF TypeOK, Tracked
    <3>4. k \in DueKeys
        BY <3>1 DEF DueKeys, SignalInv
    <3>5. \A j \in DueKeys' : j \in DueKeys \ {k} /\ active_orders'[j].order = active_orders[j].order
        BY <3>1, <3>2, <3>3 DEF DueKeys, TrackedKeys, IsTracked
    <3> QED BY <1>1, <3>1, <3>4, <3>5, StepCancel
  <2> QED BY <1>2, <1>11, <2>1, <2>2, <2>3, <2>4 DEF OrderStep
<1>12. ASSUME NEW s \in Signals, SignalStep(s) PROVE StepKept
  <2>1. CASE HoldPosition(s) \/ SkipEntry(s) \/ \E stop \in BOOLEAN : ExitPosition(s, stop)
    <3>1. /\ UNCHANGED <<tx, db>> /\ active_orders' = active_orders /\ Phase \in {"positions", "entries"}
        BY <2>1 DEF HoldPosition, SkipEntry, ExitPosition, ordersVars, memoryVars, Phase
    <3>2. Phase' = Phase
        BY <2>1, CallSubmitExitCall DEF HoldPosition, SkipEntry, ExitPosition, Phase
    <3>3. DueKeys' = DueKeys
        BY <3>1, <3>2 DEF DueKeys, TrackedKeys, IsTracked
    <3> QED BY <1>1, <3>1, <3>3, StepWithoutWrite
  <2>2. CASE StopCancelsExit(s)
    <3> DEFINE j == ActiveExitKey(s)
    <3>1. /\ Phase = "positions" /\ CancelOrder(active_orders[j].order) /\ active_orders' = Untrack({j})
          /\ j \in TrackedKeys
        BY <2>2, ActiveExitTracked DEF StopCancelsExit, Phase, CancelInv
    <3>2. Phase' = "positions"
        BY <2>2, CallSubmitExitCall DEF StopCancelsExit
    <3> HIDE DEF j
    <3>3. j \in DueKeys
        BY <3>1 DEF DueKeys
    <3>4. ASSUME NEW k \in DueKeys'
          PROVE  k \in DueKeys \ {j} /\ active_orders'[k].order = active_orders[k].order
      <4>1. k \in Keys /\ active_orders'[k].order # NoOrder
          BY <3>4 DEF DueKeys, TrackedKeys, IsTracked
      <4>2. k # j /\ active_orders'[k] = active_orders[k]
          BY <3>1, <4>1 DEF Untrack, NotTracked
      <4> QED BY <3>1, <4>1, <4>2 DEF DueKeys, TrackedKeys, IsTracked
    <3> QED BY <1>1, <3>1, <3>3, <3>4, StepCancel
  <2>3. ASSUME NEW cost \in Costs, SubmitEntry(s, cost) PROVE StepKept
    <3>1. BeginCreate(s, "entry", cost, FALSE, "entries") /\ EntryOrderCount(tx, GameOf[s]) < MaxEntryOrders
        BY <2>3, SubmitEntryHasRoom DEF SubmitEntry
    <3>2. Phase' = "entries"
        BY <3>1, BeginCreateCall
    <3>3. DueKeys' = {}
        BY <3>2 DEF DueKeys
    <3> QED BY <1>1, <3>1, <3>3, StepBeginCreate
  <2> QED BY <1>12, <2>1, <2>2, <2>3 DEF SignalStep
<1> QED BY <1>2, <1>3, <1>4, <1>5, <1>6, <1>7, <1>8, <1>9, <1>10, <1>11, <1>12 DEF Next, LoopStep

\* Before the first order the ledger is empty.
LEMMA LedgerInit ==
    ASSUME Init PROVE CancelInv /\ Ledger!Init
<1>1. \A o \in Orders : tx[o] = NoRow /\ db[o] = NoRow
    BY DEF Init, InitOrders
<1>2. Ledger!Init
    BY <1>1 DEF Ledger!Init, Exists, NoRow
<1>3. NoDryRow /\ KeysFit /\ DueKeys = {}
    BY <1>1 DEF Init, NoDryRow, NoRow, KeysFit, MemoryNow, EmptyMemory, NotTracked, DueKeys, Phase
<1> QED BY <1>2, <1>3 DEF CancelInv

\* A live run implements the abstract ledger: its committed rows move along the
\* life of an order, no closed row is written again although cancel_live_order
\* does not look at the status, and entries are allotted within the budget.
THEOREM LedgerImplemented ==
    ASSUME ~DryRun PROVE Spec => ImplementsOrderLedger
<1>1. Init => SignalInv /\ RowsInv /\ TrackedOrdersDurable /\ CountInv
    BY SignalInvInit, RowsInit, CountInit
<1>2. Init => CancelInv /\ Ledger!Init
    BY LedgerInit
<1>3. TypeOK /\ SignalInv /\ [Next]_vars => SignalInv'
    BY SignalInvStep
<1>4. TypeOK /\ RowsInv /\ [Next]_vars => RowsInv'
    BY RowsInvStep
<1>5. TypeOK /\ RowsInv /\ RowsInv' /\ TrackedOrdersDurable /\ [Next]_vars => TrackedOrdersDurable'
    BY DurableStep
<1>6. TypeOK /\ TypeOK' /\ SignalInv /\ RowsInv /\ CountInv /\ [Next]_vars => CountInv'
    BY CountStep
<1>7. TypeOK /\ SignalInv /\ RowsInv /\ TrackedOrdersDurable /\ CountInv /\ CancelInv /\ [Next]_vars
      => CancelInv' /\ LedgerStep
    BY CancelStep DEF StepKept
<1> QED BY <1>1, <1>2, <1>3, <1>4, <1>5, <1>6, <1>7, TypeCorrect, PTL
        DEF Spec, ImplementsOrderLedger, Ledger!Spec, LedgerStep, LedgerStatus, LedgerOwner
-----------------------------------------------------------------------------
(* Orders the worker has forgotten *)

\* Order o was committed, but neither the worker nor the snapshot it restarts from tracks
\* it, and it is not being placed: a partial fill popped it, its answer was lost, or the
\* process died before it was tracked.
Forgotten(o) ==
    /\ Exists(db, o)
    /\ \A m \in {MemoryNow, snapshot}, k \in Keys : m.orders[k].order # o
    /\ ~(Placing /\ call.order = o)

\* A forgotten order is never tracked again, and what is on the exchange of it stays there
\* until it is filled.
ForgottenForGood ==
    [][\A o \in Orders :
          Forgotten(o) => Forgotten(o)' /\ (book'[o] = book[o] \/ filled'[o] = Lots)]_vars

\* An order that is neither tracked nor being placed: create_live_order takes another id,
\* cancel_live_order another row.
LEMMA ExchangeLeavesOthers ==
    ASSUME TypeOK, SignalInv, RowsInv, KeysFit, ~DryRun, [Next]_vars,
           NEW o \in Orders, Exists(tx, o), ~(Placing /\ call.order = o),
           \A k \in Keys : active_orders[k].order # o
    PROVE  ~(Placing' /\ call'.order = o) /\ (book'[o] = book[o] \/ filled'[o] = Lots)
<1> DEFINE Left == ~(Placing' /\ call'.order = o) /\ (book'[o] = book[o] \/ filled'[o] = Lots)
<1>1. ASSUME UNCHANGED book, ~Placing' \/ (Placing /\ call'.order = call.order) PROVE Left
    BY <1>1
<1>2. ASSUME NEW s, NEW action, NEW cost, NEW aggressive, NEW back,
             BeginCreate(s, action, cost, aggressive, back)
      PROVE  Left
  <2>1. PICK p \in FreshOrders : RequestOrder(p, s, action, cost, aggressive) /\ call'.order = p
      BY <1>2 DEF BeginCreate
  <2>2. ~Exists(tx, p)
      BY <2>1, OrdersAssumption DEF FreshOrders, Orders
  <2>3. p # o
      BY <2>2
  <2> QED BY <2>1, <2>3 DEF RequestOrder
<1>3. ASSUME NEW p \in Orders, p # o, CancelOrder(p), ~Placing' PROVE Left
    BY <1>3 DEF CancelOrder, TypeOK, TypeOKOrders
<1>4. CASE Start \/ Crash \/ CycleError
    BY <1>1, <1>4 DEF Start, Crash, CycleError, CycleFails, GoOn, RollbackConnection, ordersVars, Placing
<1>5. CASE PersistSnapshot \/ UNCHANGED vars
    BY <1>1, <1>5 DEF PersistSnapshot, vars, ordersVars, cycleVars, Placing
<1>6. CASE \E p \in Orders : Fill(p)
  <2>1. UNCHANGED <<pc, call>>
      BY <1>6 DEF Fill, cycleVars
  <2>2. book'[o] = book[o] \/ filled'[o] = Lots
      BY <1>6 DEF Fill, ExchangeFill, TypeOK, TypeOKOrders
  <2> QED BY <2>1, <2>2 DEF Placing
<1>7. CASE \/ CycleEnd \/ CycleBegin \/ LoopEnds \/ Restart \/ SkipEntries \/ EntriesDone \/ OrdersDone \/ PopStaleKeys
           \/ PositionsDone \/ BeginEntries \/ Reconcile
    BY <1>1, <1>7 DEF CycleEnd, GoOn, CommitConnection, CycleBegin, LoopEnds, Restart, SkipEntries, EntriesDone, OrdersDone,
                      PopStaleKeys, PositionsDone, BeginEntries, Reconcile, ReconcileFills, ordersVars, Placing
<1>8. CASE SubmitExit
    BY <1>2, <1>8 DEF SubmitExit
<1>9. CASE SubmitExitReturns \/ Record
  <2>1. UNCHANGED book
      BY <1>9 DEF SubmitExitReturns, Record, RecordOrder, ordersVars
  <2>2. ~Placing'
      BY <1>9 DEF SubmitExitReturns, Record, Placing, TypeOK, Call
  <2> QED BY <1>1, <2>1, <2>2
<1>10. CASE Place
  <2>1. Placing /\ call'.order = call.order
      BY <1>10 DEF Place, Placing, TypeOK, Call
  <2>2. book'[o] = book[o]
      BY <1>10, <2>1 DEF Place, PlaceOrder, TypeOK, TypeOKOrders
  <2> QED BY <2>1, <2>2
<1>11. ASSUME NEW k \in Keys, OrderStep(k) PROVE Left
  <2>1. CASE OpenPosition(k)
      BY <1>1, <1>2, <2>1 DEF OpenPosition, ordersVars, Placing
  <2>2. CASE ClosePosition(k) \/ CheckStatus(k) \/ HoldOrder(k) \/ TimeoutRaises(k)
      BY <1>1, <2>2 DEF ClosePosition, CheckStatus, HoldOrder, TimeoutRaises, CycleFails, GoOn,
                        RollbackConnection, ordersVars, Placing
  <2>3. CASE EntryTimeout(k) \/ ExitTimeout(k)
    <3>1. CancelOrder(active_orders[k].order) /\ pc = "orders" /\ k \in keys_todo
        BY <2>3 DEF EntryTimeout, ExitTimeout
    <3>2. ~Placing'
        BY <2>3 DEF EntryTimeout, ExitTimeout, CallSubmitExit, Placing
    <3>3. k \in TrackedKeys
        BY <3>1 DEF SignalInv, Phase
    <3>4. active_orders[k].order \in Orders
        BY <3>3, TrackedOrder
    <3> QED BY <1>3, <3>1, <3>2, <3>4
  <2> QED BY <1>11, <2>1, <2>2, <2>3 DEF OrderStep
<1>12. ASSUME NEW s \in Signals, SignalStep(s) PROVE Left
  <2>1. CASE HoldPosition(s) \/ SkipEntry(s) \/ \E stop \in BOOLEAN : ExitPosition(s, stop)
      BY <1>1, <2>1 DEF HoldPosition, SkipEntry, ExitPosition, CallSubmitExit, ordersVars, Placing
  <2>2. CASE StopCancelsExit(s)
    <3>1. CancelOrder(active_orders[ActiveExitKey(s)].order) /\ HasActiveExit(s) /\ ~Placing'
        BY <2>2 DEF StopCancelsExit, CallSubmitExit, Placing
    <3>2. ActiveExitKey(s) \in TrackedKeys
        BY <3>1, ActiveExitTracked
    <3>3. active_orders[ActiveExitKey(s)].order \in Orders
        BY <3>2, TrackedOrder
    <3>4. ActiveExitKey(s) \in Keys
        BY <3>2, TrackedOrder
    <3> QED BY <1>3, <3>1, <3>3, <3>4
  <2>3. CASE \E cost \in Costs : SubmitEntry(s, cost)
      BY <1>2, <2>3 DEF SubmitEntry
  <2> QED BY <1>12, <2>1, <2>2, <2>3 DEF SignalStep
<1> QED BY <1>4, <1>5, <1>6, <1>7, <1>8, <1>9, <1>10, <1>11, <1>12 DEF Next, LoopStep

\* No memory takes up an order it did not track, but the one being recorded.
LEMMA ForgottenStep ==
    ASSUME TypeOK, SignalInv, RowsInv, KeysFit, ~DryRun, [Next]_vars, NEW o \in Orders, Forgotten(o)
    PROVE  Forgotten(o)' /\ (book'[o] = book[o] \/ filled'[o] = Lots)
<1>1. Exists(db', o)
    BY OrdersStep DEF RowsKept, Forgotten
<1>2. ~(Placing' /\ call'.order = o) /\ (book'[o] = book[o] \/ filled'[o] = Lots)
    BY ExchangeLeavesOthers DEF Forgotten, RowsInv, OrdersInv, MemoryNow
<1>3. ASSUME NEW m \in {MemoryNow', snapshot'}, NEW k \in Keys PROVE m.orders[k].order # o
  <2>1. o # NoOrder
      BY OrdersAssumption DEF Orders, NoOrder
  <2>2. CASE ~Record
    <3>1. PICK n \in {MemoryNow, snapshot} : Follows(m, n)
        BY <2>2, MemoryStep
    <3> QED BY <2>1, <3>1 DEF Follows, Forgotten
  <2>3. CASE Record
      BY <2>3, RecordTracks DEF Forgotten, MemoryNow, Record, Placing
  <2> QED BY <2>2, <2>3
<1> QED BY <1>1, <1>2, <1>3 DEF Forgotten

\* What a partial fill, a lost answer or a crash leaves on the exchange without a tracked
\* order stays there: no restart tracks it again and no timeout or stop of the run cancels
\* it (runner.py:2261, adapter.py:453, 469).
THEOREM ForgottenStays ==
    ASSUME ~DryRun PROVE Spec => ForgottenForGood
<1>1. Init => SignalInv /\ RowsInv /\ KeysFit
    BY SignalInvInit, RowsInit, LedgerInit DEF CancelInv
<1>2. TypeOK /\ SignalInv /\ [Next]_vars => SignalInv'
    BY SignalInvStep
<1>3. TypeOK /\ RowsInv /\ [Next]_vars => RowsInv'
    BY RowsInvStep
<1>4. TypeOK /\ SignalInv /\ KeysFit /\ [Next]_vars => KeysFit'
    BY KeysFitStep
<1>5. TypeOK /\ SignalInv /\ RowsInv /\ KeysFit /\ [Next]_vars =>
        [\A o \in Orders :
            Forgotten(o) => Forgotten(o)' /\ (book'[o] = book[o] \/ filled'[o] = Lots)]_vars
    BY ForgottenStep
<1> QED BY <1>1, <1>2, <1>3, <1>4, <1>5, TypeCorrect, PTL DEF Spec, ForgottenForGood
-----------------------------------------------------------------------------
(* After the reconciliation a cycle only works orders that have a row *)

\* The phases behind _reconcile_runtime_state.
WorkPhases == {"positions", "orders", "entry_gate", "entries", "end"}

\* What the loop over the tracked orders has visited, and not found stale, has a row.
PhantomInv ==
    /\ PhantomDropped
    /\ Phase = "fills" =>
          \A k \in TrackedKeys : k \in keys_todo \cup stale_keys \/ Exists(tx, active_orders[k].order)

\* No step tracks another order under a key, and every row is still there.
NothingNew ==
    /\ \A k \in Keys : active_orders'[k].order \in {NoOrder, active_orders[k].order}
    /\ \A o \in Orders : Exists(tx, o) => Exists(tx', o)

\* A cycle that has not reached the loops, or has left them, owes nothing.
LEMMA PhantomOutside ==
    ASSUME Phase' \notin WorkPhases \cup {"fills"} PROVE PhantomInv'
BY DEF PhantomInv, PhantomDropped, WorkPhases

\* Behind the reconciliation it is enough that nothing new is tracked.
LEMMA PhantomWorked ==
    ASSUME TypeOK, PhantomInv, NothingNew, Phase \in WorkPhases, Phase' \in WorkPhases
    PROVE  PhantomInv'
<1>1. ASSUME NEW k \in TrackedKeys' PROVE Exists(tx', active_orders'[k].order)
  <2>1. k \in TrackedKeys /\ active_orders'[k].order = active_orders[k].order
      BY <1>1 DEF NothingNew, TrackedKeys, IsTracked
  <2>2. active_orders[k].order \in Orders
      BY <2>1 DEF TrackedKeys, IsTracked, TypeOK, Tracked
  <2> QED BY <2>1, <2>2 DEF NothingNew, PhantomInv, PhantomDropped, WorkPhases
<1> QED BY <1>1 DEF PhantomInv, PhantomDropped, WorkPhases, Exists

\* While the fills are handled, visited keys stay visited.
LEMMA PhantomFills ==
    ASSUME TypeOK, PhantomInv, NothingNew, Phase = "fills", Phase' = "fills",
           \A k \in TrackedKeys : k \in keys_todo \cup stale_keys =>
               k \in keys_todo' \cup stale_keys' \/ Exists(tx, active_orders[k].order)
    PROVE  PhantomInv'
<1>1. ASSUME NEW k \in TrackedKeys', k \notin keys_todo' \cup stale_keys'
      PROVE  Exists(tx', active_orders'[k].order)
  <2>1. k \in TrackedKeys /\ active_orders'[k].order = active_orders[k].order
      BY <1>1 DEF NothingNew, TrackedKeys, IsTracked
  <2>2. active_orders[k].order \in Orders
      BY <2>1 DEF TrackedKeys, IsTracked, TypeOK, Tracked
  <2>3. Exists(tx, active_orders[k].order)
      BY <1>1, <2>1 DEF PhantomInv
  <2> QED BY <2>1, <2>2, <2>3 DEF NothingNew
<1> QED BY <1>1 DEF PhantomInv, PhantomDropped, Exists

\* What create_live_order begins with adds a row and tracks nothing.
LEMMA BeginCreateNothingNew ==
    ASSUME TypeOK, NEW s, NEW action, NEW cost, NEW aggressive, NEW back,
           BeginCreate(s, action, cost, aggressive, back), UNCHANGED active_orders
    PROVE  NothingNew
<1>1. PICK o : RequestOrder(o, s, action, cost, aggressive)
    BY DEF BeginCreate
<1>2. ~Exists(tx, o) /\ \A p \in Orders \ {o} : tx'[p] = tx[p]
    BY <1>1, RequestOrderCounts DEF TypeOK
<1> QED BY <1>2 DEF NothingNew, Exists

\* A cancel rewrites a row that exists.
LEMMA CancelKeepsRows ==
    ASSUME TypeOK, NEW o, CancelOrder(o)
    PROVE  \A p \in Orders : Exists(tx, p) => Exists(tx', p)
<1>1. PICK answer \in {"canceled", "cancel_error"} : tx' = [tx EXCEPT ![o].status = answer]
    BY DEF CancelOrder
<1> QED BY <1>1 DEF Exists, TypeOK, TypeOKOrders, Row

\* The answer is written over the row of the call, and the call's order is tracked.
LEMMA PhantomRecord ==
    ASSUME TypeOK, RowsInv, PhantomInv, Record PROVE PhantomInv'
<1>1. /\ call.order \in Orders /\ Exists(tx, call.order)
      /\ Phase' = Phase /\ keys_todo' = keys_todo /\ stale_keys' = stale_keys
    BY DEF Record, RowsInv, Placing, Phase, Exists, TypeOK, Call
<1>2. \A o \in Orders : Exists(tx, o) => Exists(tx', o)
  <2>1. CASE DryRun
      BY <2>1 DEF Record, RecordOrder
  <2>2. CASE ~DryRun
    <3>1. \A o \in Orders : tx'[o].status \in {tx[o].status, RecordedStatus(call.answer)}
        BY <1>1, <2>2 DEF Record, RecordOrder, TypeOK, TypeOKOrders, Row
    <3> QED BY <3>1 DEF Exists, RecordedStatus
  <2> QED BY <2>1, <2>2
<1>3. ASSUME NEW k \in TrackedKeys', active_orders'[k] # active_orders[k]
      PROVE  Exists(tx', active_orders'[k].order)
  <2>1. active_orders'[k].order = call.order
      BY <1>3, RecordTracks DEF TrackedKeys
  <2> QED BY <1>1, <1>2, <2>1
<1>4. ASSUME NEW k \in TrackedKeys', active_orders'[k] = active_orders[k]
      PROVE  /\ Phase \in WorkPhases => Exists(tx', active_orders'[k].order)
             /\ Phase = "fills" => k \in keys_todo \cup stale_keys \/ Exists(tx', active_orders'[k].order)
  <2>1. k \in TrackedKeys /\ active_orders[k].order \in Orders
      BY <1>4 DEF TrackedKeys, IsTracked, TypeOK, Tracked
  <2> QED BY <1>2, <1>4, <2>1 DEF PhantomInv, PhantomDropped, WorkPhases
<1> QED BY <1>1, <1>3, <1>4 DEF PhantomInv, PhantomDropped, WorkPhases, Exists

\* Every step keeps it: only _reconcile_runtime_state leads to the loops.
LEMMA PhantomStep ==
    ASSUME TypeOK, SignalInv, RowsInv, PhantomInv, [Next]_vars PROVE PhantomInv'
<1>1. CASE Start \/ Crash \/ CycleError \/ LoopEnds \/ Restart \/ CycleBegin \/ CycleEnd
  <2>1. Phase' \in {"down", "ended", "begin", "reconcile"}
      BY <1>1 DEF Start, Crash, CycleError, CycleFails, GoOn, LoopEnds, Restart, CycleBegin, CycleEnd, Phase
  <2> QED BY <2>1, PhantomOutside DEF WorkPhases
<1>2. CASE PersistSnapshot \/ UNCHANGED vars \/ \E o \in Orders : Fill(o)
  <2>1. UNCHANGED <<tx, pc, call, active_orders, keys_todo, stale_keys>>
      BY <1>2 DEF PersistSnapshot, vars, Fill, ExchangeFill, ordersVars, memoryVars, cycleVars
  <2> QED BY <2>1 DEF PhantomInv, PhantomDropped, Phase, TrackedKeys, IsTracked, Exists
<1>3. CASE Reconcile
  <2>1. Phase' = "fills" /\ keys_todo' = TrackedKeys /\ UNCHANGED active_orders
      BY <1>3 DEF Reconcile, Phase, memoryVars
  <2> QED BY <2>1 DEF PhantomInv, PhantomDropped, TrackedKeys, IsTracked
<1>4. CASE PopStaleKeys
  <2>1. /\ Phase = "fills" /\ Phase' = "positions" /\ keys_todo = {} /\ tx' = tx
        /\ active_orders' = Untrack(stale_keys)
      BY <1>4 DEF PopStaleKeys, Phase, ordersVars
  <2>2. ASSUME NEW k \in TrackedKeys' PROVE Exists(tx, active_orders'[k].order)
    <3>1. k \in TrackedKeys \ stale_keys /\ active_orders'[k] = active_orders[k]
        BY <2>1, <2>2 DEF TrackedKeys, IsTracked, Untrack, NotTracked
    <3> QED BY <2>1, <3>1 DEF PhantomInv
  <2> QED BY <2>1, <2>2 DEF PhantomInv, PhantomDropped, Exists
<1>5. CASE PositionsDone \/ OrdersDone \/ SkipEntries \/ BeginEntries \/ EntriesDone
  <2>1. Phase \in WorkPhases /\ Phase' \in WorkPhases /\ UNCHANGED <<tx, active_orders>>
      BY <1>5 DEF PositionsDone, OrdersDone, SkipEntries, BeginEntries, EntriesDone, Phase, WorkPhases,
                  ordersVars, memoryVars
  <2> QED BY <2>1, PhantomWorked DEF NothingNew
<1>6. ASSUME NothingNew, Phase' = Phase, UNCHANGED <<keys_todo, stale_keys>> PROVE PhantomInv'
    BY <1>6, PhantomOutside, PhantomWorked, PhantomFills
<1>7. CASE SubmitExit
  <2>1. NothingNew
      BY <1>7, BeginCreateNothingNew DEF SubmitExit, memoryVars
  <2>2. Phase' = Phase /\ UNCHANGED <<keys_todo, stale_keys>>
      BY <1>7, BeginCreateCall DEF SubmitExit, Phase
  <2> QED BY <1>6, <2>1, <2>2
<1>8. CASE SubmitExitReturns \/ Place
  <2>1. Phase' = Phase /\ UNCHANGED <<tx, active_orders, keys_todo, stale_keys>>
      BY <1>8 DEF SubmitExitReturns, Place, PlaceOrder, Phase, TypeOK, Call, ordersVars, memoryVars
  <2> QED BY <1>6, <2>1 DEF NothingNew
<1>9. CASE Record
    BY <1>9, PhantomRecord
<1>10. ASSUME NEW k \in Keys, OrderStep(k) PROVE PhantomInv'
  <2>1. CASE OpenPosition(k)
    <3>1. Phase = "fills" /\ UNCHANGED <<keys_todo, active_orders>> /\ stale_keys' = stale_keys \cup {k}
        BY <2>1 DEF OpenPosition, Phase
    <3>2. NothingNew /\ Phase' = "fills"
      <4>1. CASE BeginCreate(k[1], "target_exit", 0, FALSE, "fills")
          BY <3>1, <4>1, BeginCreateNothingNew, BeginCreateCall
      <4>2. CASE UNCHANGED <<ordersVars, call, pc>>
          BY <3>1, <4>2 DEF NothingNew, Phase, ordersVars
      <4> QED BY <2>1, <4>1, <4>2 DEF OpenPosition
    <3> QED BY <3>1, <3>2, PhantomFills
  <2>2. CASE ClosePosition(k)
    <3>1. /\ Phase = "fills" /\ Phase' = "fills" /\ UNCHANGED <<tx, keys_todo, active_orders>>
          /\ stale_keys' = stale_keys \cup {k}
        BY <2>2 DEF ClosePosition, Phase, ordersVars
    <3> QED BY <3>1, PhantomFills DEF NothingNew
  <2>3. CASE CheckStatus(k)
    <3>1. /\ Phase = "fills" /\ Phase' = "fills" /\ UNCHANGED <<tx, active_orders>>
          /\ keys_todo' = keys_todo \ {k} /\ stale_keys \subseteq stale_keys'
          /\ k \in stale_keys' \/ IsOpen(tx, active_orders[k].order)
        BY <2>3 DEF CheckStatus, Phase, ordersVars, memoryVars
    <3>2. IsOpen(tx, active_orders[k].order) => Exists(tx, active_orders[k].order)
        BY DEF IsOpen, Exists, OPEN_ORDER_STATUSES
    <3> QED BY <3>1, <3>2, PhantomFills DEF NothingNew
  <2>4. CASE HoldOrder(k)
    <3>1. Phase = "orders" /\ Phase' = "orders" /\ UNCHANGED <<tx, active_orders>>
        BY <2>4 DEF HoldOrder, Phase, ordersVars, memoryVars
    <3> QED BY <3>1, PhantomWorked DEF NothingNew, WorkPhases
  <2>5. CASE EntryTimeout(k) \/ ExitTimeout(k)
    <3>1. Phase = "orders" /\ CancelOrder(active_orders[k].order)
        BY <2>5 DEF EntryTimeout, ExitTimeout, Phase
    <3>2. Phase' = "orders"
        BY <2>5, CallSubmitExitCall DEF EntryTimeout, ExitTimeout, Phase
    <3>3. \A j \in Keys : active_orders'[j].order = active_orders[j].order
      <4>1. CASE EntryTimeout(k)
          BY <4>1 DEF EntryTimeout, memoryVars
      <4>2. CASE ExitTimeout(k)
        <5>1. active_orders' = [active_orders EXCEPT ![k].retried = TRUE]
            BY <4>2 DEF ExitTimeout
        <5>2. active_orders \in [Keys -> Tracked]
            BY DEF TypeOK
        <5> QED BY <5>1, <5>2 DEF Tracked
      <4> QED BY <2>5, <4>1, <4>2
    <3>4. NothingNew
        BY <3>1, <3>3, CancelKeepsRows DEF NothingNew
    <3> QED BY <3>1, <3>2, <3>4, PhantomWorked DEF WorkPhases
  <2>6. CASE TimeoutRaises(k)
    <3>1. Phase' \in {"begin", "ended"}
        BY <2>6 DEF TimeoutRaises, CycleFails, GoOn, Phase
    <3> QED BY <3>1, PhantomOutside DEF WorkPhases
  <2> QED BY <1>10, <2>1, <2>2, <2>3, <2>4, <2>5, <2>6 DEF OrderStep
<1>11. ASSUME NEW s \in Signals, SignalStep(s) PROVE PhantomInv'
  <2>1. CASE HoldPosition(s) \/ SkipEntry(s)
    <3>1. Phase \in WorkPhases /\ Phase' = Phase /\ UNCHANGED <<tx, active_orders>>
        BY <2>1 DEF HoldPosition, SkipEntry, Phase, WorkPhases, ordersVars, memoryVars
    <3> QED BY <3>1, PhantomWorked DEF NothingNew
  <2>2. CASE \E stop \in BOOLEAN : ExitPosition(s, stop)
    <3>1. Phase = "positions" /\ Phase' = "positions" /\ UNCHANGED <<tx, active_orders>>
        BY <2>2, CallSubmitExitCall DEF ExitPosition, Phase, ordersVars, memoryVars
    <3> QED BY <3>1, PhantomWorked DEF NothingNew, WorkPhases
  <2>3. CASE StopCancelsExit(s)
    <3>1. Phase = "positions" /\ Phase' = "positions" /\ CancelOrder(active_orders[ActiveExitKey(s)].order)
        BY <2>3, CallSubmitExitCall DEF StopCancelsExit, Phase
    <3>2. \A j \in Keys : active_orders'[j].order \in {NoOrder, active_orders[j].order}
        BY <2>3 DEF StopCancelsExit, Untrack, NotTracked
    <3> QED BY <3>1, <3>2, CancelKeepsRows, PhantomWorked DEF NothingNew, WorkPhases
  <2>4. ASSUME NEW cost \in Costs, SubmitEntry(s, cost) PROVE PhantomInv'
    <3>1. Phase = "entries" /\ BeginCreate(s, "entry", cost, FALSE, "entries") /\ UNCHANGED active_orders
        BY <2>4 DEF SubmitEntry, Phase, memoryVars
    <3>2. NothingNew /\ Phase' = "entries"
        BY <3>1, BeginCreateNothingNew, BeginCreateCall
    <3> QED BY <3>1, <3>2, PhantomWorked DEF WorkPhases
  <2> QED BY <1>11, <2>1, <2>2, <2>3, <2>4 DEF SignalStep
<1> QED BY <1>1, <1>2, <1>3, <1>4, <1>5, <1>7, <1>8, <1>9, <1>10, <1>11 DEF Next, LoopStep

\* An order whose row a rolled back cycle took away is never timed out, retried or counted
\* by a later cycle: _reconcile_runtime_state drops it first, in dry runs too (runner.py:2246).
THEOREM PhantomGone == Spec => []PhantomDropped
<1>1. Init => SignalInv /\ RowsInv
    BY SignalInvInit, RowsInit
<1>2. Init => PhantomInv
    BY DEF Init, PhantomInv, PhantomDropped, Phase
<1>3. TypeOK /\ SignalInv /\ [Next]_vars => SignalInv'
    BY SignalInvStep
<1>4. TypeOK /\ RowsInv /\ [Next]_vars => RowsInv'
    BY RowsInvStep
<1>5. TypeOK /\ SignalInv /\ RowsInv /\ PhantomInv /\ [Next]_vars => PhantomInv'
    BY PhantomStep
<1>6. PhantomInv => PhantomDropped
    BY DEF PhantomInv
<1> QED BY <1>1, <1>2, <1>3, <1>4, <1>5, <1>6, TypeCorrect, PTL DEF Spec
=============================================================================
