----------------------- MODULE LiveStrategyWorkerProofs -----------------------
(* LiveStrategyWorker for any number of API threads and loop threads. *)
EXTENDS LiveStrategyWorker, TLAPS

\* What the endpoints override self._config.execute with.
LEMMA OverrideType ==
    ASSUME config \in BOOLEAN, NEW overrides \in {{}, {TRUE}, {FALSE}}, Override(overrides)
    PROVE  config' \in BOOLEAN
<1>1. CASE overrides = {}
    BY <1>1 DEF Override
<1>2. CASE overrides = {TRUE} \/ overrides = {FALSE}
  <2>1. (CHOOSE e \in overrides : TRUE) \in BOOLEAN
      BY <1>2
  <2> QED BY <1>2, <2>1 DEF Override
<1> QED BY <1>1, <1>2

\* The worker's fields, the threads and the calls keep to the values the code
\* gives them.
THEOREM WorkerTypeCorrect == Spec => []TypeOK
<1>1. Init => TypeOK
    BY DEF Init, TypeOK
<1>2. TypeOK /\ [Next]_vars => TypeOK'
  <2> SUFFICES ASSUME TypeOK, [Next]_vars PROVE TypeOK'
      OBVIOUS
  <2>1. ASSUME NEW t \in Threads, LoopStep(t) PROVE TypeOK'
      BY <2>1 DEF TypeOK, LoopStep, LoopTest, LoopConfig, LoopTick, LoopDies, LoopWait, LoopGoto,
             LoopSteps
  <2>2. ASSUME NEW c \in Callers, StopBegin(c) \/ JoinReturns(c) \/ StopSettle(c) \/ ManualTickEnds(c)
        PROVE  TypeOK'
    <3>1. CASE StopBegin(c)
        BY <3>1 DEF TypeOK, StopBegin, Goto
    <3>2. CASE StopSettle(c)
        BY <3>2 DEF TypeOK, StopSettle, Goto, Alive
    <3>3. CASE JoinReturns(c) \/ ManualTickEnds(c)
        BY <3>3 DEF TypeOK, JoinReturns, ManualTickEnds, Goto
    <3> QED BY <2>2, <3>1, <3>2, <3>3
  <2>3. ASSUME NEW c \in Callers, NEW overrides \in {{}, {TRUE}, {FALSE}},
               StartAgain(c, overrides) \/ ManualTick(c, overrides)
        PROVE  TypeOK'
      BY <2>3, OverrideType DEF TypeOK, StartAgain, ManualTick, Goto
  <2>4. ASSUME NEW c \in Callers, NEW overrides \in {{}, {TRUE}, {FALSE}}, NEW t \in Threads,
               StartThread(c, overrides, t)
        PROVE  TypeOK'
      BY <2>4, OverrideType DEF TypeOK, StartThread, LoopGoto, LoopSteps
  <2>5. CASE UNCHANGED vars
      BY <2>5 DEF TypeOK, vars
  <2> QED BY <2>1, <2>2, <2>3, <2>4, <2>5 DEF Next
<1> QED BY <1>1, <1>2, PTL DEF Spec

\* A loop that self._thread does not name was forgotten by a stop(): start()
\* looks at the thread and replaces it under one lock.
THEOREM NoSecondLoop == Spec => []ExtraLoopOnlyByStop
<1>1. Init => ExtraLoopOnlyByStop
    BY DEF Init, ExtraLoopOnlyByStop, Alive, LoopSteps
<1>2. TypeOK /\ ExtraLoopOnlyByStop /\ [Next]_vars => ExtraLoopOnlyByStop'
  <2> SUFFICES ASSUME TypeOK, ExtraLoopOnlyByStop, [Next]_vars PROVE ExtraLoopOnlyByStop'
      OBVIOUS
  <2>1. ASSUME NEW u \in Threads, LoopStep(u) PROVE ExtraLoopOnlyByStop'
    <3>1. loop[u] \in LoopSteps
        BY <2>1 DEF LoopStep, LoopTest, LoopConfig, LoopTick, LoopDies, LoopWait, LoopSteps
    <3>2. \A t \in Threads : t # u => loop'[t] = loop[t]
        BY <2>1 DEF TypeOK, LoopStep, LoopTest, LoopConfig, LoopTick, LoopDies, LoopWait, LoopGoto
    <3>3. UNCHANGED <<thread, orphaned>>
        BY <2>1 DEF LoopStep, LoopTest, LoopConfig, LoopTick, LoopDies, LoopWait
    <3> QED BY <3>1, <3>2, <3>3, WorkerAssumption DEF ExtraLoopOnlyByStop, Alive
  <2>2. ASSUME NEW c \in Callers, StopSettle(c) PROVE ExtraLoopOnlyByStop'
      BY <2>2 DEF TypeOK, StopSettle, ExtraLoopOnlyByStop, Alive
  <2>3. ASSUME NEW c \in Callers, NEW overrides, NEW u \in Threads, StartThread(c, overrides, u)
        PROVE  ExtraLoopOnlyByStop'
      BY <2>3, WorkerAssumption DEF TypeOK, StartThread, LoopGoto, ExtraLoopOnlyByStop, Alive
  <2>4. ASSUME UNCHANGED <<thread, loop, orphaned>> PROVE ExtraLoopOnlyByStop'
      BY <2>4 DEF ExtraLoopOnlyByStop, Alive
  <2>5. ASSUME NEW c \in Callers, NEW overrides,
               \/ StopBegin(c) \/ JoinReturns(c) \/ ManualTickEnds(c)
               \/ StartAgain(c, overrides) \/ ManualTick(c, overrides)
        PROVE  ExtraLoopOnlyByStop'
      BY <2>4, <2>5 DEF StopBegin, JoinReturns, ManualTickEnds, StartAgain, ManualTick
  <2>6. CASE UNCHANGED vars
      BY <2>4, <2>6 DEF vars
  <2> QED BY <2>1, <2>2, <2>3, <2>5, <2>6 DEF Next
<1> QED BY <1>1, <1>2, WorkerTypeCorrect, PTL DEF Spec

(* Calls that do not overlap *)

\* One call after another: what a stop() has joined is still the thread, and only the
\* thread is alive.
SerialInv ==
    /\ \A c \in Callers : call[c] \in {"join", "settle"} => joined[c] = thread
    /\ \A t \in Threads : Alive(t) => t = thread

\* The loop that RunningLoopReported misses takes two API threads: as long as the endpoints
\* are called one after another, a loop in its tick is the one the worker reports.
THEOREM SerialCallsLoseNoLoop ==
    (\A c, d \in Callers : c = d) => (Spec => []RunningLoopReported)
<1> SUFFICES ASSUME \A c, d \in Callers : c = d PROVE Spec => []RunningLoopReported
    OBVIOUS
<1>1. Init => SerialInv
    BY DEF Init, SerialInv, Alive, LoopSteps
<1>2. TypeOK /\ SerialInv /\ [Next]_vars => SerialInv'
  <2> SUFFICES ASSUME TypeOK, SerialInv, [Next]_vars PROVE SerialInv'
      OBVIOUS
  <2>1. ASSUME NEW u \in Threads, LoopStep(u) PROVE SerialInv'
    <3>1. loop[u] \in LoopSteps
        BY <2>1 DEF LoopStep, LoopTest, LoopConfig, LoopTick, LoopDies, LoopWait, LoopSteps
    <3>2. \A t \in Threads : t # u => loop'[t] = loop[t]
        BY <2>1 DEF TypeOK, LoopStep, LoopTest, LoopConfig, LoopTick, LoopDies, LoopWait, LoopGoto
    <3>3. UNCHANGED <<thread, call, joined>>
        BY <2>1 DEF LoopStep, LoopTest, LoopConfig, LoopTick, LoopDies, LoopWait
    <3> QED BY <3>1, <3>2, <3>3, WorkerAssumption DEF SerialInv, Alive
  <2>2. ASSUME NEW c \in Callers, StopBegin(c) PROVE SerialInv'
    <3>1. joined'[c] = thread' /\ UNCHANGED <<thread, loop>>
        BY <2>2 DEF TypeOK, StopBegin
    <3> QED BY <3>1 DEF SerialInv, Alive
  <2>3. ASSUME NEW c \in Callers, JoinReturns(c) PROVE SerialInv'
    <3>1. call[c] = "join" /\ UNCHANGED <<thread, loop, joined>>
        BY <2>3 DEF JoinReturns
    <3> QED BY <3>1 DEF SerialInv, Alive
  <2>4. ASSUME NEW c \in Callers, StopSettle(c) PROVE SerialInv'
    <3>1. joined[c] = thread /\ call'[c] = "idle" /\ UNCHANGED loop
        BY <2>4 DEF TypeOK, StopSettle, Goto, SerialInv
    <3>2. \A t \in Threads : Alive(t) => t = thread'
        BY <2>4, <3>1 DEF StopSettle, SerialInv
    <3> QED BY <3>1, <3>2 DEF SerialInv, Alive
  <2>5. ASSUME NEW c \in Callers, NEW overrides,
               ManualTickEnds(c) \/ StartAgain(c, overrides) \/ ManualTick(c, overrides)
        PROVE  SerialInv'
    <3>1. UNCHANGED <<thread, loop, joined>> /\ call'[c] \in {"idle", "tick"}
        BY <2>5 DEF TypeOK, ManualTickEnds, StartAgain, ManualTick, Goto
    <3> QED BY <3>1 DEF SerialInv, Alive
  <2>6. ASSUME NEW c \in Callers, NEW overrides, NEW u \in Threads, StartThread(c, overrides, u)
        PROVE  SerialInv'
    <3>1. /\ call'[c] = "idle" /\ thread' = u
          /\ \A t \in Threads : t # u => ~Alive(t) /\ loop'[t] = loop[t]
        BY <2>6 DEF TypeOK, StartThread, LoopGoto, SerialInv
    <3> QED BY <3>1, WorkerAssumption DEF SerialInv, Alive
  <2>7. CASE UNCHANGED vars
      BY <2>7 DEF SerialInv, Alive, vars
  <2> QED BY <2>1, <2>2, <2>3, <2>4, <2>5, <2>6, <2>7 DEF Next
<1>3. SerialInv => RunningLoopReported
  <2> SUFFICES ASSUME SerialInv, NEW t \in Threads, loop[t] = "tick" PROVE Alive(thread)
      BY DEF RunningLoopReported
  <2>1. Alive(t)
      BY WorkerAssumption DEF Alive, LoopSteps
  <2> QED BY <2>1 DEF SerialInv
<1> QED BY <1>1, <1>2, <1>3, WorkerTypeCorrect, PTL DEF Spec

(* The end of the loops *)

Ending(t, step) == stop_event /\ loop[t] = step
Over(t) == ~stop_event \/ ~Alive(t)

\* While the event is set nothing moves a loop thread but its own steps.
LEMMA LoopMovesItself ==
    ASSUME TypeOK, [Next]_vars, NEW t \in Threads, Alive(t)
    PROVE  LoopStep(t) \/ loop'[t] = loop[t]
<1>1. loop[t] # "unborn"
    BY DEF Alive, LoopSteps
<1>2. ASSUME NEW u \in Threads, LoopStep(u), u # t PROVE loop'[t] = loop[t]
    BY <1>2 DEF TypeOK, LoopStep, LoopTest, LoopConfig, LoopTick, LoopDies, LoopWait, LoopGoto
<1>3. ASSUME NEW c, NEW overrides, NEW u \in Threads, StartThread(c, overrides, u)
      PROVE  loop'[t] = loop[t]
    BY <1>1, <1>3 DEF TypeOK, StartThread, LoopGoto
<1>4. ASSUME NEW c, NEW overrides,
             \/ StopBegin(c) \/ JoinReturns(c) \/ StopSettle(c) \/ ManualTickEnds(c)
             \/ StartAgain(c, overrides) \/ ManualTick(c, overrides)
      PROVE  loop'[t] = loop[t]
    BY <1>4 DEF StopBegin, JoinReturns, StopSettle, ManualTickEnds, StartAgain, ManualTick
<1>5. CASE UNCHANGED vars
    BY <1>5 DEF vars
<1> QED BY <1>2, <1>3, <1>4, <1>5 DEF Next

\* With the event set a loop thread goes through the rest of its round and ends.
LEMMA RestOfRound ==
    ASSUME NEW t \in Threads, LoopStep(t)
    PROVE  /\ TypeOK /\ Ending(t, "config") => Ending(t, "tick")'
           /\ TypeOK /\ Ending(t, "tick") => Ending(t, "wait")' \/ Over(t)'
           /\ TypeOK /\ Ending(t, "wait") => Ending(t, "test")'
           /\ TypeOK /\ Ending(t, "test") => Over(t)'
    BY DEF TypeOK, LoopStep, LoopTest, LoopConfig, LoopTick, LoopDies, LoopWait, LoopGoto, Ending,
           Over, Alive, LoopSteps

\* No other step takes it out of its place, but a start() may clear the event.
LEMMA StaysInPlace ==
    ASSUME TypeOK, [Next]_vars, NEW t \in Threads, NEW step \in LoopSteps, Ending(t, step)
    PROVE  LoopStep(t) \/ Ending(t, step)' \/ Over(t)'
<1>1. Alive(t)
    BY WorkerAssumption DEF Ending, Alive
<1> QED BY <1>1, LoopMovesItself DEF Ending, Over

\* stop() needs no second try: of any number of loops each ends unless a start() clears the
\* event again, those a stop() gave up joining and those that were forgotten included.
THEOREM StopEndsEveryLoop == FairSpec => StopEndsLoops
<1> SUFFICES ASSUME NEW t \in Threads
             PROVE  FairSpec => (stop_event /\ Alive(t) ~> ~stop_event \/ ~Alive(t))
    BY DEF StopEndsLoops
<1>1. FairSpec => Spec /\ LoopGoesOn(t)
    BY DEF FairSpec
<1>2. \A step \in LoopSteps : Ending(t, step) => Alive(t)
    BY WorkerAssumption DEF Ending, Alive
<1>3. FairSpec => (Ending(t, "test") ~> Over(t))
  <2>1. TypeOK /\ Ending(t, "test") /\ [Next]_vars => Ending(t, "test")' \/ Over(t)'
      BY StaysInPlace, RestOfRound DEF LoopSteps
  <2>2. TypeOK /\ Ending(t, "test") /\ <<LoopStep(t)>>_vars => Over(t)'
      BY RestOfRound
  <2>3. Ending(t, "test") => Alive(t)
      BY <1>2 DEF LoopSteps
  <2> QED BY <1>1, <2>1, <2>2, <2>3, WorkerTypeCorrect, PTL DEF Spec, LoopGoesOn
<1>4. FairSpec => (Ending(t, "wait") ~> Ending(t, "test") \/ Over(t))
  <2>1. TypeOK /\ Ending(t, "wait") /\ [Next]_vars
          => Ending(t, "wait")' \/ Ending(t, "test")' \/ Over(t)'
      BY StaysInPlace, RestOfRound DEF LoopSteps
  <2>2. TypeOK /\ Ending(t, "wait") /\ <<LoopStep(t)>>_vars => Ending(t, "test")'
      BY RestOfRound
  <2>3. Ending(t, "wait") => Alive(t)
      BY <1>2 DEF LoopSteps
  <2> QED BY <1>1, <2>1, <2>2, <2>3, WorkerTypeCorrect, PTL DEF Spec, LoopGoesOn
<1>5. FairSpec => (Ending(t, "tick") ~> Ending(t, "wait") \/ Over(t))
  <2>1. TypeOK /\ Ending(t, "tick") /\ [Next]_vars
          => Ending(t, "tick")' \/ Ending(t, "wait")' \/ Over(t)'
      BY StaysInPlace, RestOfRound DEF LoopSteps
  <2>2. TypeOK /\ Ending(t, "tick") /\ <<LoopStep(t)>>_vars => Ending(t, "wait")' \/ Over(t)'
      BY RestOfRound
  <2>3. Ending(t, "tick") => Alive(t)
      BY <1>2 DEF LoopSteps
  <2> QED BY <1>1, <2>1, <2>2, <2>3, WorkerTypeCorrect, PTL DEF Spec, LoopGoesOn
<1>6. FairSpec => (Ending(t, "config") ~> Ending(t, "tick") \/ Over(t))
  <2>1. TypeOK /\ Ending(t, "config") /\ [Next]_vars
          => Ending(t, "config")' \/ Ending(t, "tick")' \/ Over(t)'
      BY StaysInPlace, RestOfRound DEF LoopSteps
  <2>2. TypeOK /\ Ending(t, "config") /\ <<LoopStep(t)>>_vars => Ending(t, "tick")'
      BY RestOfRound
  <2>3. Ending(t, "config") => Alive(t)
      BY <1>2 DEF LoopSteps
  <2> QED BY <1>1, <2>1, <2>2, <2>3, WorkerTypeCorrect, PTL DEF Spec, LoopGoesOn
<1>7. stop_event /\ Alive(t)
        => Ending(t, "test") \/ Ending(t, "wait") \/ Ending(t, "tick") \/ Ending(t, "config")
    BY DEF Alive, LoopSteps, Ending
<1>8. Over(t) => ~stop_event \/ ~Alive(t)
    BY DEF Over
<1> QED BY <1>3, <1>4, <1>5, <1>6, <1>7, <1>8, PTL
=============================================================================
