-------------------------- MODULE LiveStrategyWorker --------------------------
(***************************************************************************)
(* The live strategy worker (app/modules/agentic/live_strategy_worker.py): *)
(* one loop thread that runs a strategy tick in a subprocess, waits and    *)
(* runs the next, controlled by the endpoints start, stop and tick.        *)
(*                                                                         *)
(* The endpoints run in the thread pool of the API, so their calls         *)
(* interleave.  A stretch under self._lock is one action; stop() joins the *)
(* thread, and run_once() runs its tick, without the lock.  Counters and   *)
(* the last result, which nothing reads back, are left out.                *)
(***************************************************************************)
CONSTANTS
    Callers,      \* API threads
    Threads,      \* bound: loop threads start() may create
    NoThread

ASSUME WorkerAssumption == NoThread \notin Threads

VARIABLES
    thread,       \* self._thread
    stop_event,
    config,       \* self._config.execute: whether a tick may place orders
    loop,         \* where each loop thread is
    using,        \* the config a loop thread read for its tick
    call,         \* where each caller is
    joined,       \* the thread stop() took to join
    orphaned      \* history: loops a stop() forgot while they ran

vars == <<thread, stop_event, config, loop, using, call, joined, orphaned>>

LoopSteps == {"test", "config", "tick", "wait"}

\* is_alive()
Alive(t) == t # NoThread /\ loop[t] \in LoopSteps

TypeOK ==
    /\ thread \in Threads \cup {NoThread}
    /\ stop_event \in BOOLEAN
    /\ config \in BOOLEAN
    /\ loop \in [Threads -> {"unborn", "dead"} \cup LoopSteps]
    /\ using \in [Threads -> BOOLEAN]
    /\ call \in [Callers -> {"idle", "join", "settle", "tick"}]
    /\ joined \in [Callers -> Threads \cup {NoThread}]
    /\ orphaned \subseteq Threads

\* The configuration comes from the environment.
Init ==
    /\ thread = NoThread
    /\ stop_event = FALSE
    /\ config \in BOOLEAN
    /\ loop = [t \in Threads |-> "unborn"]
    /\ using = [t \in Threads |-> FALSE]
    /\ call = [c \in Callers |-> "idle"]
    /\ joined = [c \in Callers |-> NoThread]
    /\ orphaned = {}

Goto(c, step) == call' = [call EXCEPT ![c] = step]
LoopGoto(t, step) == loop' = [loop EXCEPT ![t] = step]

-----------------------------------------------------------------------------
(* start: overrides is {} or the one value execute is overridden with *)

Override(overrides) == config' = IF overrides = {} THEN config ELSE CHOOSE e \in overrides : TRUE

StartAgain(c, overrides) ==
    /\ call[c] = "idle"
    /\ Alive(thread)
    /\ Override(overrides)
    /\ UNCHANGED <<thread, stop_event, loop, using, call, joined, orphaned>>

\* Bug variant: start() no longer looks for a living thread (ExtraLoopOnlyByStop).
StartThreadAlways(c, overrides, t) ==
    /\ call[c] = "idle"
    /\ loop[t] = "unborn"
    /\ Override(overrides)
    /\ stop_event' = FALSE
    /\ thread' = t
    /\ LoopGoto(t, "test")
    /\ UNCHANGED <<using, call, joined, orphaned>>

StartThread(c, overrides, t) ==
    /\ call[c] = "idle"
    /\ ~Alive(thread)
    /\ loop[t] = "unborn"
    /\ Override(overrides)
    /\ stop_event' = FALSE
    /\ thread' = t
    /\ LoopGoto(t, "test")
    /\ UNCHANGED <<using, call, joined, orphaned>>

(* stop *)

StopBegin(c) ==
    /\ call[c] = "idle"
    /\ stop_event' = TRUE
    /\ joined' = [joined EXCEPT ![c] = thread]
    /\ Goto(c, IF Alive(thread) THEN "join" ELSE "settle")
    /\ UNCHANGED <<thread, config, loop, using, orphaned>>

\* Bug variant: the caller leaves while the thread is alive (TypeOK).
JoinReturnsPending(c) ==
    /\ call[c] = "join"
    /\ Goto(c, IF Alive(joined[c]) THEN "stop_pending" ELSE "settle")
    /\ UNCHANGED <<thread, stop_event, config, loop, using, joined, orphaned>>

\* join(timeout=5.0): the thread has ended, or five seconds have passed.
JoinReturns(c) ==
    /\ call[c] = "join"
    /\ Goto(c, "settle")
    /\ UNCHANGED <<thread, stop_event, config, loop, using, joined, orphaned>>

StopSettle(c) ==
    /\ call[c] = "settle"
    /\ IF Alive(joined[c])
       THEN UNCHANGED <<thread, orphaned>>
       ELSE /\ thread' = NoThread
            /\ orphaned' = IF Alive(thread) THEN orphaned \cup {thread} ELSE orphaned
    /\ joined' = [joined EXCEPT ![c] = NoThread]
    /\ Goto(c, "idle")
    /\ UNCHANGED <<stop_event, config, loop, using>>

(* run_once: the overrides stay in self._config *)

ManualTick(c, overrides) ==
    /\ call[c] = "idle"
    /\ Override(overrides)
    /\ Goto(c, "tick")
    /\ UNCHANGED <<thread, stop_event, loop, using, joined, orphaned>>

ManualTickEnds(c) ==
    /\ call[c] = "tick"
    /\ Goto(c, "idle")
    /\ UNCHANGED <<thread, stop_event, config, loop, using, joined, orphaned>>

-----------------------------------------------------------------------------
(* _run_loop *)

\* Bug variant: while True (StopEndsLoops).
LoopTestForever(t) ==
    /\ loop[t] = "test"
    /\ LoopGoto(t, "config")
    /\ UNCHANGED <<thread, stop_event, config, using, call, joined, orphaned>>

LoopTest(t) ==
    /\ loop[t] = "test"
    /\ LoopGoto(t, IF stop_event THEN "dead" ELSE "config")
    /\ UNCHANGED <<thread, stop_event, config, using, call, joined, orphaned>>

LoopConfig(t) ==
    /\ loop[t] = "config"
    /\ using' = [using EXCEPT ![t] = config]
    /\ LoopGoto(t, "tick")
    /\ UNCHANGED <<thread, stop_event, config, call, joined, orphaned>>

\* The subprocess ends, or subprocess.run kills it after timeout_seconds; an exception of
\* the subprocess becomes a result.
LoopTick(t) ==
    /\ loop[t] = "tick"
    /\ LoopGoto(t, "wait")
    /\ using' = [using EXCEPT ![t] = FALSE]
    /\ UNCHANGED <<thread, stop_event, config, call, joined, orphaned>>

\* An OSError of _discover_current_event_ids or of _persist_worker_tick, which nothing
\* catches, ends the thread.
LoopDies(t) ==
    /\ loop[t] = "tick"
    /\ LoopGoto(t, "dead")
    /\ using' = [using EXCEPT ![t] = FALSE]
    /\ UNCHANGED <<thread, stop_event, config, call, joined, orphaned>>

\* stop_event.wait: the interval has passed, or the event is set.
LoopWait(t) ==
    /\ loop[t] = "wait"
    /\ LoopGoto(t, "test")
    /\ UNCHANGED <<thread, stop_event, config, using, call, joined, orphaned>>

LoopStep(t) == LoopTest(t) \/ LoopConfig(t) \/ LoopTick(t) \/ LoopDies(t) \/ LoopWait(t)

Next ==
    \/ \E t \in Threads : LoopStep(t)
    \/ \E c \in Callers :
          \/ StopBegin(c) \/ JoinReturns(c) \/ StopSettle(c) \/ ManualTickEnds(c)
          \/ \E overrides \in {{}, {TRUE}, {FALSE}} :
                \/ StartAgain(c, overrides)
                \/ ManualTick(c, overrides)
                \/ \E t \in Threads : StartThread(c, overrides, t)

Spec == Init /\ [][Next]_vars

\* A tick has a timeout and a wait an interval, so a loop thread does not stay for ever where
\* it is: weak fairness of LoopStep(t), with Alive(t) for what enables it.
LoopGoesOn(t) == ([]<>~Alive(t)) \/ ([]<><<LoopStep(t)>>_vars)

FairSpec == Spec /\ \A t \in Threads : LoopGoesOn(t)

-----------------------------------------------------------------------------
(* Properties *)

\* A loop runs that self._thread does not name only if a stop() forgot it: the
\* thread it had joined was over, and a start() had put another in its place.
\* Starts alone, however they interleave with stops and ticks, never make two.
ExtraLoopOnlyByStop ==
    \A t \in Threads : Alive(t) => t = thread \/ t \in orphaned

\* stop() needs no second try: once the event is set, every loop ends unless a
\* start() clears it again, also a loop that stop() gave up joining and one that
\* was forgotten.
StopEndsLoops ==
    \A t \in Threads : (stop_event /\ Alive(t)) ~> (~stop_event \/ ~Alive(t))

\* "stop reports pending when tick is still running": the status is "running" and
\* worker_thread_alive is true while a loop is in its tick
\* (tests/app/modules/agentic/test_live_strategy_worker_pytest.py:131-151).
RunningLoopReported ==
    (\E t \in Threads : loop[t] = "tick") => Alive(thread)
=============================================================================
