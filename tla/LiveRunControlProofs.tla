------------------------ MODULE LiveRunControlProofs ------------------------
(***************************************************************************)
(* Proofs about LiveRunControl: one invariant of the writers of the        *)
(* snapshot, one of the two threads, and one of what is known of a pause.  *)
(***************************************************************************)
EXTENDS MCLiveControl, LiveDecisionProofs

(* The writers and the process *)

\* Without a process nothing runs, asks or writes.
NoProcess ==
    ~worker => /\ loop = "none" /\ capture = "none" /\ api = "idle"
               /\ \A w \in Writers : ~Pending(w)

\* The loop writes where it persists, the API while a request is at it.
WriterAtIt ==
    /\ Pending("loop") => loop \in {"persist", "closing"}
    /\ Pending("api") => api # "idle"

WriterInv == ControlTypeOK /\ NoProcess /\ WriterAtIt

LEMMA RecoveredType == ControlTypeOK => Recovered \in Snapshots
BY ControlAssumption DEF Recovered, Snapshots, RunStatuses

LEMMA WriterInit == ControlInit => WriterInv
BY ControlAssumption DEF ControlInit, WriterInv, ControlTypeOK, NoProcess, WriterAtIt, Writers,
   Pending, RunStatuses, LoopPlaces

\* A taken text is a snapshot.
LEMMA TakeTypes ==
    ASSUME ControlTypeOK, NEW w \in Writers, NEW s \in RunStatuses, NEW e \in BOOLEAN, Take(w, s, e)
    PROVE  /\ text' \in [Writers -> Snapshots \cup {NoText}]
           /\ text'[w] = [status |-> s, entries |-> e] /\ text'[w] # NoText
           /\ \A v \in Writers : v # w => text'[v] = text[v]
           /\ mixed' \subseteq opened' /\ opened' \subseteq Writers /\ older' \subseteq Writers
           /\ \A v \in opened' \cup older' : text'[v] # NoText
           /\ UNCHANGED <<opened, mixed, snapshot_file, outrun>>
<1>1. [status |-> s, entries |-> e] \in Snapshots
  BY DEF Snapshots
<1>2. [status |-> s, entries |-> e] # NoText
  BY <1>1, ControlAssumption
<1> QED BY <1>1, <1>2 DEF ControlTypeOK, Take, Pending

\* A closed file leaves the other writers where they are.
LEMMA DropTypes ==
    ASSUME ControlTypeOK, NEW w \in Writers, Drop(w)
    PROVE  /\ text' \in [Writers -> Snapshots \cup {NoText}]
           /\ text'[w] = NoText /\ \A v \in Writers : v # w => text'[v] = text[v]
           /\ mixed' \subseteq opened' /\ opened' \subseteq Writers /\ older' \subseteq Writers
           /\ \A v \in opened' \cup older' : text'[v] # NoText
BY DEF ControlTypeOK, Drop

\* The types of everything but the texts and the file.
ThreadTypes ==
    /\ worker \in BOOLEAN /\ entries_enabled \in BOOLEAN /\ stop_event \in BOOLEAN
    /\ status \in RunStatuses
    /\ loop \in LoopPlaces
    /\ capture \in {"none", "test", "pass", "wait", "leaving"}
    /\ api \in {"idle", "load", "pause", "resume"}
    /\ wanted \in {"no", "yes", "undone"}
    /\ paused \in BOOLEAN /\ forgotten \in BOOLEAN /\ uncaptured \in BOOLEAN /\ died \in BOOLEAN

TextTypes ==
    /\ text \in [Writers -> Snapshots \cup {NoText}]
    /\ mixed \subseteq opened /\ opened \subseteq Writers /\ older \subseteq Writers
    /\ \A w \in opened \cup older : text[w] # NoText
    /\ snapshot_file \in Snapshots \cup {Unparsable, Missing}
    /\ outrun \in BOOLEAN

LEMMA TypesInTwo ==
    /\ ControlTypeOK <=> ThreadTypes /\ TextTypes
    /\ ControlTypeOK' <=> ThreadTypes' /\ TextTypes'
BY DEF ControlTypeOK, ThreadTypes, TextTypes

\* The steps that leave the snapshot and its texts alone.
QuietStep ==
    \/ LoopStarts \/ LoopTest \/ LoopStops \/ AllGamesFinished \/ LoopSleeps \/ LoopWakes
    \/ LoopReturns \/ LoopDies \/ \E outcome \in {"running", "created"} : CycleEnds(outcome)
    \/ CaptureTest \/ CaptureFails \/ CaptureWakes \/ CaptureReturns
    \/ Start \/ StartAgain \/ RequestStop \/ PauseEntries \/ ResumeEntries

LEMMA StepKinds ==
    ASSUME [ControlNext]_ctl_vars
    PROVE  \/ QuietStep \/ LoopPersists \/ CapturePersists \/ PersistCommand
           \/ Restore \/ Create \/ Die \/ UNCHANGED ctl_vars
           \/ \E w \in Writers : Open(w) \/ Write(w) \/ WriteFails(w)
BY DEF ControlNext, LoopStep, CaptureStep, OperatorStep, WriteStep, QuietStep

LEMMA WriterStep == WriterInv /\ [ControlNext]_ctl_vars => WriterInv'
<1> SUFFICES ASSUME WriterInv, [ControlNext]_ctl_vars PROVE WriterInv'
  OBVIOUS
<1> USE DEF WriterInv
<1>1. CASE QuietStep
  <2>2. UNCHANGED <<text, opened, mixed, older, snapshot_file, outrun>>
    BY <1>1 DEF QuietStep, LoopStarts, LoopTest, LoopStops, AllGamesFinished, LoopSleeps,
       LoopWakes, LoopReturns, LoopDies, CycleEnds, CaptureTest, CaptureFails, CaptureWakes,
       CaptureReturns, Start, StartAgain, RequestStop, PauseEntries, ResumeEntries, writing
  <2>3. ControlTypeOK'
    <3> USE RecoveredType, TypesInTwo DEF ThreadTypes, Snapshots
    <3>1. TextTypes'
      BY <2>2 DEF TextTypes
    <3>2. CASE LoopStarts \/ LoopTest \/ LoopStops \/ LoopSleeps \/ LoopWakes \/ LoopReturns
      BY <3>1, <3>2 DEF LoopStarts, LoopTest, LoopStops, LoopSleeps, LoopWakes, LoopReturns,
         loop_only, history, LoopPlaces, RunStatuses
    <3>3. CASE AllGamesFinished
      BY <3>1, <3>3 DEF AllGamesFinished, LoopPlaces, RunStatuses
    <3>9. CASE LoopDies
      BY <3>1, <3>9 DEF LoopDies, LoopPlaces
    <3>4. CASE \E outcome \in {"running", "created"} : CycleEnds(outcome)
      BY <3>1, <3>4 DEF CycleEnds, loop_only, history, LoopPlaces, RunStatuses
    <3>5. CASE CaptureTest \/ CaptureFails \/ CaptureWakes \/ CaptureReturns
      BY <3>1, <3>5 DEF CaptureTest, CaptureFails, CaptureRaises, CaptureWakes, CaptureReturns,
         capture_only
    <3>7. CASE Start \/ StartAgain
      BY <3>1, <3>7 DEF Start, StartAgain, StartThreads, LoopPlaces
    <3>8. CASE RequestStop \/ PauseEntries \/ ResumeEntries
      BY <3>1, <3>8 DEF RequestStop, PauseEntries, ResumeEntries, history
    <3> QED BY <1>1, <3>2, <3>3, <3>4, <3>5, <3>7, <3>8, <3>9 DEF QuietStep
  <2>4. NoProcess'
    BY <1>1, <2>2 DEF NoProcess, Pending, QuietStep, LoopStarts, LoopTest, LoopStops,
       AllGamesFinished, LoopSleeps, LoopWakes, LoopReturns, LoopDies, CycleEnds, CaptureTest,
       CaptureFails, CaptureRaises, CaptureWakes, CaptureReturns, Start, StartAgain, RequestStop,
       PauseEntries, ResumeEntries, StartThreads, loop_only, capture_only, history
  <2>5. WriterAtIt'
    BY <1>1, <2>2 DEF WriterAtIt, NoProcess, Writers, Pending, QuietStep, LoopStarts, LoopTest,
       LoopStops, AllGamesFinished, LoopSleeps, LoopWakes, LoopReturns, LoopDies, CycleEnds,
       CaptureTest, CaptureFails, CaptureWakes, CaptureReturns, Start, StartAgain, RequestStop,
       PauseEntries, ResumeEntries, StartThreads, loop_only, capture_only, history
  <2> QED BY <2>3, <2>4, <2>5
<1>2. CASE LoopPersists
  <2>1. Take("loop", status, entries_enabled) /\ UNCHANGED <<status, loop, loop_only>>
        /\ loop \in {"persist", "closing"}
    BY <1>2 DEF LoopPersists
  <2>2. ControlTypeOK'
    <3>1. TextTypes'
      BY <2>1, TakeTypes, TypesInTwo DEF ThreadTypes, TextTypes, Writers
    <3>2. ThreadTypes'
      BY <2>1, TypesInTwo DEF ThreadTypes, loop_only, history
    <3> QED BY <3>1, <3>2, TypesInTwo
  <2> QED BY <2>1, <2>2, TakeTypes DEF ControlTypeOK, NoProcess, WriterAtIt, Pending, Writers,
             loop_only
<1>3. CASE CapturePersists
  <2>1. Take("capture", status, entries_enabled) /\ UNCHANGED <<capture, uncaptured, capture_only>>
        /\ capture = "pass"
    BY <1>3 DEF CapturePersists
  <2>2. ControlTypeOK'
    BY <2>1, TakeTypes DEF ControlTypeOK, Writers, capture_only
  <2> QED BY <2>1, <2>2, TakeTypes DEF ControlTypeOK, NoProcess, WriterAtIt, Pending, Writers,
             capture_only
<1>4. CASE PersistCommand
  <2>1. Take("api", status, entries_enabled) /\ api \in {"pause", "resume"}
        /\ UNCHANGED <<worker, status, entries_enabled, stop_event, loop, capture, api, history>>
    BY <1>4 DEF PersistCommand
  <2>2. ControlTypeOK'
    BY <2>1, TakeTypes DEF ControlTypeOK, Writers, history
  <2> QED BY <2>1, <2>2, TakeTypes DEF ControlTypeOK, NoProcess, WriterAtIt, Pending, Writers
<1>5. CASE Restore
  <2>1. Recovered.status \in RunStatuses /\ Recovered.entries \in BOOLEAN
    BY RecoveredType DEF Snapshots
  <2>2. /\ worker' /\ ~worker /\ loop' = loop /\ entries_enabled' \in BOOLEAN
        /\ forgotten' \in BOOLEAN
        /\ UNCHANGED <<stop_event, capture, paused, uncaptured, wanted, died>>
    BY <1>5, <2>1 DEF Restore, ControlTypeOK
  <2>3. CASE Recovered.status = "running"
    <3>1. Take("api", "stopped", Recovered.entries) /\ status' = "stopped" /\ api' = "load"
      BY <1>5, <2>3 DEF Restore
    <3>2. ControlTypeOK'
      BY <2>1, <2>2, <3>1, TakeTypes DEF ControlTypeOK, Writers, RunStatuses
    <3> QED BY <2>1, <2>2, <3>1, <3>2, TakeTypes DEF NoProcess, WriterAtIt, Pending, Writers,
               RunStatuses
  <2>4. CASE Recovered.status # "running"
    BY <1>5, <2>1, <2>2, <2>4 DEF Restore, writing, ControlTypeOK, NoProcess, WriterAtIt, Pending,
       Writers
  <2> QED BY <2>3, <2>4
<1>6. CASE Die
  BY <1>6, ControlAssumption DEF Die, ControlTypeOK, NoProcess, WriterAtIt, Pending, Writers,
     RunStatuses, LoopPlaces
<1>7. CASE UNCHANGED ctl_vars
  BY <1>7 DEF ctl_vars, ControlTypeOK, NoProcess, WriterAtIt, Pending
<1>8. ASSUME NEW w \in Writers, Open(w) PROVE WriterInv'
  BY <1>8 DEF Open, history, ControlTypeOK, NoProcess, WriterAtIt, Pending
<1>9. ASSUME NEW w \in Writers, Write(w) PROVE WriterInv'
  <2>1. Drop(w) /\ Pending(w) /\ snapshot_file' \in Snapshots \cup {Unparsable}
        /\ outrun' \in BOOLEAN
        /\ UNCHANGED <<worker, status, entries_enabled, stop_event, uncaptured, wanted>>
    BY <1>9 DEF Write, ControlTypeOK, Pending
  <2>2. /\ w = "api" => Acknowledged
        /\ w = "loop" => /\ loop' = IF loop = "closing" THEN "ending" ELSE "done"
                         /\ UNCHANGED <<capture, api, paused, forgotten, died>>
        /\ w = "capture" => capture' = "wait" /\ UNCHANGED <<loop, api, paused, forgotten, died>>
    BY <1>9 DEF Write
  <2>3. worker
    BY <2>1 DEF NoProcess
  <2>4. ControlTypeOK'
    <3>1. TextTypes'
      BY <2>1, DropTypes, TypesInTwo DEF TextTypes
    <3>2. CASE w = "api"
      BY <2>1, <2>2, <3>1, <3>2, TypesInTwo DEF ThreadTypes, Acknowledged
    <3>3. CASE w = "loop"
      BY <2>1, <2>2, <3>1, <3>3, TypesInTwo DEF ThreadTypes, LoopPlaces
    <3>4. CASE w = "capture"
      BY <2>1, <2>2, <3>1, <3>4, TypesInTwo DEF ThreadTypes
    <3> QED BY <3>2, <3>3, <3>4 DEF Writers
  <2>5. WriterAtIt'
    BY <2>1, <2>2, DropTypes DEF WriterAtIt, Pending, Acknowledged, Writers
  <2> QED BY <2>1, <2>3, <2>4, <2>5 DEF NoProcess
<1>10. ASSUME NEW w \in Writers, WriteFails(w) PROVE WriterInv'
  <2>1. Drop(w) /\ Pending(w)
        /\ UNCHANGED <<worker, status, entries_enabled, stop_event, snapshot_file, outrun, paused,
                       forgotten, wanted>>
    BY <1>10 DEF WriteFails
  <2>2. /\ w = "api" => api' = "idle" /\ UNCHANGED <<loop, capture, uncaptured, died>>
        /\ w = "loop" => loop' = "none" /\ died' = TRUE /\ UNCHANGED <<capture, uncaptured, api>>
        /\ w = "capture" => CaptureRaises /\ UNCHANGED <<loop, api, died>>
    BY <1>10 DEF WriteFails
  <2>3. worker
    BY <2>1 DEF NoProcess
  <2>4. ControlTypeOK'
    <3>1. TextTypes'
      BY <2>1, DropTypes, TypesInTwo DEF TextTypes
    <3>2. CASE w = "api"
      BY <2>1, <2>2, <3>1, <3>2, TypesInTwo DEF ThreadTypes
    <3>3. CASE w = "loop"
      BY <2>1, <2>2, <3>1, <3>3, TypesInTwo DEF ThreadTypes, LoopPlaces
    <3>4. CASE w = "capture"
      <4>1. capture' \in {"wait", "leaving"} /\ uncaptured' \in BOOLEAN
        BY <2>2, <3>4, TypesInTwo DEF CaptureRaises, ThreadTypes
      <4> QED BY <2>1, <2>2, <3>1, <3>4, <4>1, TypesInTwo DEF ThreadTypes
    <3> QED BY <3>2, <3>3, <3>4 DEF Writers
  <2>5. WriterAtIt'
    BY <2>1, <2>2, DropTypes DEF WriterAtIt, Pending, Writers
  <2> QED BY <2>1, <2>3, <2>4, <2>5 DEF NoProcess
<1>11. CASE Create
  <2>1. /\ ~worker /\ worker' /\ loop' = "new" /\ stop_event' = FALSE /\ wanted' = "yes"
        /\ capture' \in {"none", "test", "pass", "wait", "leaving"} /\ uncaptured' \in BOOLEAN
        /\ died' = FALSE /\ UNCHANGED <<api, paused>>
    BY <1>11 DEF Create, StartThreads, ControlTypeOK
  <2>2. /\ status' \in RunStatuses /\ entries_enabled' \in BOOLEAN /\ forgotten' \in BOOLEAN
        /\ UNCHANGED <<text, opened, mixed, older>>
        /\ snapshot_file' \in Snapshots \cup {Unparsable, Missing} /\ outrun' \in BOOLEAN
    <3>1. CASE SameDay
      <4>1. Recovered.status \in RunStatuses /\ Recovered.entries \in BOOLEAN
        BY RecoveredType DEF Snapshots
      <4>2. /\ status' = Recovered.status /\ entries_enabled' = Recovered.entries
            /\ forgotten' \in BOOLEAN
            /\ UNCHANGED <<text, opened, mixed, older, snapshot_file, outrun>>
        BY <3>1 DEF SameDay, writing, ControlTypeOK
      <4> QED BY <4>1, <4>2 DEF ControlTypeOK
    <3>2. CASE NextDay
      BY <3>2, ControlAssumption DEF NextDay, ControlTypeOK, RunStatuses
    <3> QED BY <1>11, <3>1, <3>2 DEF Create
  <2>3. ControlTypeOK'
    BY <2>1, <2>2 DEF ControlTypeOK, LoopPlaces
  <2>4. NoProcess' /\ WriterAtIt'
    BY <2>1, <2>2 DEF NoProcess, WriterAtIt, Pending, Writers
  <2> QED BY <2>3, <2>4
<1> QED BY <1>1, <1>2, <1>3, <1>4, <1>5, <1>6, <1>7, <1>8, <1>9, <1>10, <1>11, StepKinds

LEMMA WriterInvHolds == ControlSpec => []WriterInv
BY WriterInit, WriterStep, PTL DEF ControlSpec

\* Type correctness: the threads, the texts and the files stay what the code can make
\* of them; no writer has a file open with nothing to write.
THEOREM ControlTypeCorrect == ControlSpec => []ControlTypeOK
<1>1. WriterInv => ControlTypeOK
  BY DEF WriterInv
<1> QED BY <1>1, WriterInvHolds, PTL

-----------------------------------------------------------------------------
(* The two threads *)

\* The loop closes with the status "stopped", and works with another one once it has
\* set its own.
LoopStatus ==
    /\ loop \in {"closing", "ending"} => status = "stopped"
    /\ loop \in Working \ {"new"} => status # "stopped"

\* A run that is wanted has no stop event, and a loop that works or has died.
WantedWorks ==
    wanted = "yes" => ~stop_event /\ (loop \in Working \/ (loop = "none" /\ died))

\* A run that reports running has a loop thread, unless it died.
StatusWorks == worker /\ status = "running" => loop # "none" \/ died

ThreadInv == WriterInv /\ LoopStatus /\ WantedWorks /\ LoopIsCaptured /\ StatusWorks

ThreadFacts == LoopStatus /\ WantedWorks /\ LoopIsCaptured /\ StatusWorks

LEMMA ThreadInit == ControlInit => ThreadInv
BY WriterInit DEF ControlInit, ThreadInv, LoopStatus, WantedWorks, LoopIsCaptured, StatusWorks,
   Working

\* Steps that leave the threads and what is asked of them alone.
LEMMA ThreadsKept ==
    ASSUME ThreadInv,
           UNCHANGED <<worker, status, stop_event, loop, capture, uncaptured, wanted, died>>
    PROVE  ThreadFacts'
BY DEF ThreadInv, ThreadFacts, LoopStatus, WantedWorks, LoopIsCaptured, StatusWorks

LEMMA ThreadStep == ThreadInv /\ [ControlNext]_ctl_vars => ThreadInv'
<1> SUFFICES ASSUME ThreadInv, [ControlNext]_ctl_vars PROVE ThreadFacts'
  BY WriterStep DEF ThreadInv, ThreadFacts
<1> USE DEF ThreadFacts, LoopStatus, WantedWorks, LoopIsCaptured, StatusWorks, Working
<1>1. CASE QuietStep
  <2>1. CASE LoopStarts \/ LoopTest \/ LoopStops \/ LoopSleeps \/ LoopWakes \/ LoopReturns
    BY <2>1 DEF ThreadInv, LoopStarts, LoopTest, LoopStops, LoopSleeps, LoopWakes, LoopReturns,
       loop_only, history
  <2>2. CASE AllGamesFinished
    BY <2>2 DEF ThreadInv, AllGamesFinished
  <2>8. CASE LoopDies
    BY <2>8 DEF ThreadInv, LoopDies
  <2>3. CASE \E outcome \in {"running", "created"} : CycleEnds(outcome)
    BY <2>3 DEF ThreadInv, CycleEnds, loop_only, history
  <2>4. CASE CaptureTest \/ CaptureFails \/ CaptureWakes \/ CaptureReturns
    <3>1. UNCHANGED <<worker, status, stop_event, loop, wanted, died>>
      BY <2>4 DEF CaptureTest, CaptureFails, CaptureWakes, CaptureReturns, capture_only
    <3>2. LoopIsCaptured'
      <4>1. CASE CaptureTest
        <5>1. CASE stop_event \/ status = "stopped"
          <6>1. capture' = "leaving" /\ (uncaptured' <=> (uncaptured \/ (~stop_event /\ loop = "new")))
            BY <4>1, <5>1 DEF CaptureTest
          <6> QED BY <3>1, <5>1, <6>1 DEF ThreadInv
        <5>2. CASE ~(stop_event \/ status = "stopped")
          BY <3>1, <4>1, <5>2 DEF CaptureTest, ThreadInv
        <5> QED BY <5>1, <5>2
      <4>2. CASE CaptureFails \/ CaptureReturns
        BY <3>1, <4>2 DEF CaptureFails, CaptureRaises, CaptureReturns, ThreadInv
      <4>3. CASE CaptureWakes
        BY <3>1, <4>3 DEF CaptureWakes, ThreadInv
      <4> QED BY <2>4, <4>1, <4>2, <4>3
    <3> QED BY <3>1, <3>2 DEF ThreadInv
  <2>6. CASE Start \/ StartAgain
    <3>1. CASE Start
      <4>1. /\ ~stop_event' /\ loop' = "new" /\ UNCHANGED status
            /\ capture' = (IF capture = "none" THEN "test" ELSE capture)
            /\ uncaptured' <=> capture = "leaving"
        BY <3>1 DEF Start, StartThreads
      <4> QED BY <4>1
    <3>2. CASE StartAgain
      <4>1. /\ loop # "none" /\ UNCHANGED <<worker, status, stop_event, loop, capture, uncaptured, died>>
            /\ wanted' = IF stop_event \/ loop \notin Working THEN "undone" ELSE "yes"
        BY <3>2 DEF StartAgain
      <4> QED BY <4>1 DEF ThreadInv
    <3> QED BY <2>6, <3>1, <3>2
  <2>7. CASE RequestStop \/ PauseEntries \/ ResumeEntries
    BY <2>7, ThreadsKept DEF ThreadInv, RequestStop, PauseEntries, ResumeEntries, history
  <2> QED BY <1>1, <2>1, <2>2, <2>3, <2>4, <2>6, <2>7, <2>8 DEF QuietStep
<1>9. CASE Create
  <2>1. ~stop_event' /\ loop' = "new" /\ capture' = "test"
    BY <1>9 DEF ThreadInv, WriterInv, NoProcess, Create, StartThreads
  <2> QED BY <2>1
<1>2. CASE LoopPersists \/ CapturePersists \/ PersistCommand
  BY <1>2, ThreadsKept DEF LoopPersists, CapturePersists, PersistCommand, loop_only, capture_only,
     history
<1>3. CASE Restore
  BY <1>3 DEF ThreadInv, WriterInv, NoProcess, Restore
<1>4. CASE Die
  BY <1>4 DEF Die
<1>5. CASE UNCHANGED ctl_vars
  BY <1>5, ThreadsKept DEF ctl_vars
<1>6. ASSUME NEW w \in Writers, Open(w) PROVE ThreadFacts'
  BY <1>6, ThreadsKept DEF Open, history
<1>7. ASSUME NEW w \in Writers, Write(w) PROVE ThreadFacts'
  <2>1. Pending(w) /\ UNCHANGED <<worker, status, stop_event, uncaptured, wanted>>
    BY <1>7 DEF Write, ThreadInv, WriterInv, ControlTypeOK, Pending
  <2>2. CASE w = "api"
    BY <1>7, <2>1, <2>2, ThreadsKept DEF Write, Acknowledged
  <2>3. CASE w = "loop"
    <3>1. loop \in {"persist", "closing"}
      BY <2>1, <2>3 DEF ThreadInv, WriterInv, WriterAtIt
    <3>2. loop' = (IF loop = "closing" THEN "ending" ELSE "done") /\ UNCHANGED <<capture, died>>
      BY <1>7, <2>3 DEF Write
    <3> QED BY <2>1, <3>1, <3>2 DEF ThreadInv
  <2>4. CASE w = "capture"
    <3>1. capture' = "wait" /\ UNCHANGED <<loop, died>>
      BY <1>7, <2>4 DEF Write
    <3> QED BY <2>1, <3>1 DEF ThreadInv
  <2> QED BY <2>2, <2>3, <2>4 DEF Writers
<1>8. ASSUME NEW w \in Writers, WriteFails(w) PROVE ThreadFacts'
  <2>1. Pending(w) /\ UNCHANGED <<worker, status, stop_event, wanted>>
    BY <1>8 DEF WriteFails
  <2>2. CASE w = "api"
    BY <1>8, <2>1, <2>2, ThreadsKept DEF WriteFails
  <2>3. CASE w = "loop"
    <3>1. loop \in {"persist", "closing"}
      BY <2>1, <2>3 DEF ThreadInv, WriterInv, WriterAtIt
    <3>2. loop' = "none" /\ died' = TRUE /\ UNCHANGED <<capture, uncaptured>>
      BY <1>8, <2>3 DEF WriteFails
    <3> QED BY <2>1, <3>1, <3>2 DEF ThreadInv
  <2>4. CASE w = "capture"
    <3>1. CaptureRaises /\ UNCHANGED <<loop, died>>
      BY <1>8, <2>4 DEF WriteFails
    <3>2. capture' = "leaving" => uncaptured'
      BY <3>1 DEF CaptureRaises
    <3>3. capture' \in {"wait", "leaving"}
      BY <3>1 DEF CaptureRaises
    <3> QED BY <2>1, <3>1, <3>2, <3>3 DEF ThreadInv
  <2> QED BY <2>2, <2>3, <2>4 DEF Writers
<1> QED BY <1>1, <1>2, <1>3, <1>4, <1>5, <1>6, <1>7, <1>8, <1>9, StepKinds

LEMMA ThreadInvHolds == ControlSpec => []ThreadInv
BY ThreadInit, ThreadStep, PTL DEF ControlSpec

\* A loop that goes on has its capture thread, with the three exceptions the history
\* records.
THEOREM LoopKeepsCapture == ControlSpec => []LoopIsCaptured
<1>1. ThreadInv => LoopIsCaptured
  BY DEF ThreadInv
<1> QED BY <1>1, ThreadInvHolds, PTL

\* A started run has its loop until it is stopped or its games are finished, and one that
\* reports running has a loop thread, unless an error of the disk has ended it.
THEOREM RunKeepsLoop == ControlSpec => []RunHasLoop
<1>1. ThreadInv => RunHasLoop
  BY DEF ThreadInv, StatusWorks, WantedWorks, Working, RunHasLoop
<1> QED BY <1>1, ThreadInvHolds, PTL

-----------------------------------------------------------------------------
(* A pause *)

Known == paused /\ ~forgotten

\* The texts that are not older than another say that entries are off.
TextsSayOff == \A w \in Writers \ older : Pending(w) => ~text[w].entries

\* While a pause is under way entries are off, and what was taken last says so.
PauseUnderWay ==
    api = "pause" => ~entries_enabled /\ (Pending("api") => ~text["api"].entries /\ TextsSayOff)

\* After it, so does the file, unless it is torn or an older text was written last.
FileSaysOff ==
    Known /\ ~outrun =>
        snapshot_file = Unparsable \/ (snapshot_file \in Snapshots /\ ~snapshot_file.entries)

PauseInv ==
    WriterInv /\ PauseUnderWay /\ FileSaysOff /\ (Known => TextsSayOff) /\ PauseSurvives

PauseFacts == PauseUnderWay /\ FileSaysOff /\ (Known => TextsSayOff) /\ PauseSurvives

LEMMA PauseInit == ControlInit => PauseInv
BY WriterInit DEF ControlInit, PauseInv, PauseUnderWay, FileSaysOff, TextsSayOff, PauseSurvives, Known

LEMMA PauseKept ==
    ASSUME PauseInv, UNCHANGED <<worker, entries_enabled, api, text, older, outrun, snapshot_file,
                                 paused, forgotten>>
    PROVE  PauseFacts'
BY DEF PauseInv, PauseFacts, PauseUnderWay, FileSaysOff, TextsSayOff, PauseSurvives, Known, Pending

\* A text taken while entries are off says so.
LEMMA TakeKept ==
    ASSUME PauseInv, NEW w \in Writers, worker, Take(w, status, entries_enabled),
           UNCHANGED <<worker, entries_enabled, api, paused, forgotten>>
    PROVE  PauseFacts'
<1>1. /\ status \in RunStatuses /\ entries_enabled \in BOOLEAN /\ ControlTypeOK
  BY DEF PauseInv, WriterInv, ControlTypeOK
<1>2. /\ text'[w] = [status |-> status, entries |-> entries_enabled]
      /\ \A v \in Writers : v # w => text'[v] = text[v]
      /\ UNCHANGED <<snapshot_file, outrun>>
      /\ older' = {u \in Writers \ {w} : Pending(u)}
  BY <1>1, TakeTypes DEF Take
<1>3. ~entries_enabled => TextsSayOff' /\ ~(text'[w].entries)
  BY <1>2 DEF TextsSayOff, Pending
<1>4. PauseUnderWay'
  <2> SUFFICES ASSUME api = "pause" PROVE PauseUnderWay'
    BY DEF PauseUnderWay
  <2>1. ~entries_enabled
    BY DEF PauseInv, PauseUnderWay
  <2>2. CASE w = "api"
    BY <1>3, <2>1, <2>2 DEF PauseUnderWay
  <2>3. CASE w # "api"
    BY <1>2, <1>3, <2>1, <2>3 DEF PauseInv, PauseUnderWay, Pending, Writers
  <2> QED BY <2>2, <2>3
<1>5. Known => ~entries_enabled
  BY DEF PauseInv, PauseSurvives, Known
<1> QED BY <1>2, <1>3, <1>4, <1>5 DEF PauseInv, PauseFacts, FileSaysOff, PauseSurvives, Known

\* What a process that reads the file finds, if the pause is to be known.
LEMMA RecoveredOff ==
    ASSUME PauseInv, paused, ~(forgotten \/ outrun \/ snapshot_file = Unparsable)
    PROVE  ~Recovered.entries /\ snapshot_file \in Snapshots /\ ~snapshot_file.entries
BY DEF PauseInv, FileSaysOff, Known, Recovered

LEMMA PauseStep == PauseInv /\ [ControlNext]_ctl_vars => PauseInv'
<1> SUFFICES ASSUME PauseInv, [ControlNext]_ctl_vars PROVE PauseFacts'
  BY WriterStep DEF PauseInv, PauseFacts
<1>0. Recovered.entries \in BOOLEAN /\ Recovered.status \in RunStatuses
  BY RecoveredType DEF PauseInv, WriterInv, Snapshots
<1>1. CASE QuietStep
  <2>1. CASE LoopStarts \/ LoopTest \/ LoopStops \/ LoopSleeps \/ LoopWakes \/ LoopReturns
    BY <2>1, PauseKept DEF LoopStarts, LoopTest, LoopStops, LoopSleeps, LoopWakes, LoopReturns,
       loop_only, history, writing
  <2>2. CASE AllGamesFinished
    BY <2>2, PauseKept DEF AllGamesFinished, writing
  <2>5. CASE LoopDies
    BY <2>5, PauseKept DEF LoopDies, writing
  <2>3. CASE \E outcome \in {"running", "created"} : CycleEnds(outcome)
    BY <2>3, PauseKept DEF CycleEnds, loop_only, history, writing
  <2>4. CASE CaptureTest \/ CaptureFails \/ CaptureWakes \/ CaptureReturns
    BY <2>4, PauseKept DEF CaptureTest, CaptureFails, CaptureWakes, CaptureReturns, capture_only,
       writing
  <2>6. CASE Start \/ StartAgain
    BY <2>6, PauseKept DEF Start, StartAgain, writing
  <2>7. CASE RequestStop
    BY <2>7, PauseKept DEF RequestStop, writing
  <2>8. CASE PauseEntries
    <3>1. ~Pending("api")
      BY <2>8 DEF PauseEntries, PauseInv, WriterInv, WriterAtIt
    <3> QED BY <2>8, <3>1 DEF PauseEntries, PauseInv, PauseFacts, PauseUnderWay, FileSaysOff,
               TextsSayOff, PauseSurvives, Known, Pending, writing, history
  <2>9. CASE ResumeEntries
    BY <2>9 DEF ResumeEntries, PauseFacts, PauseUnderWay, FileSaysOff, PauseSurvives, Known
  <2> QED BY <1>1, <2>1, <2>2, <2>3, <2>4, <2>5, <2>6, <2>7, <2>8, <2>9 DEF QuietStep
<1>11. CASE Create
  <2>1. ~worker /\ UNCHANGED <<api, paused>>
    BY <1>11 DEF Create
  <2>2. api # "pause" /\ \A w \in Writers : ~Pending(w)
    BY <2>1 DEF PauseInv, WriterInv, NoProcess
  <2>3. CASE SameDay
    <3>1. /\ entries_enabled' = Recovered.entries
          /\ forgotten' = (paused /\ (forgotten \/ outrun \/ snapshot_file = Unparsable))
          /\ UNCHANGED <<text, older, outrun, snapshot_file>>
      BY <2>3 DEF SameDay, writing
    <3>2. Known' => ~Recovered.entries /\ Known /\ ~outrun
      BY <2>1, <3>1, RecoveredOff DEF Known
    <3> QED BY <1>0, <2>1, <2>2, <3>1, <3>2 DEF PauseInv, PauseFacts, PauseUnderWay, FileSaysOff,
               TextsSayOff, PauseSurvives, Known, Pending
  <2>4. CASE NextDay
    <3>1. ~Known' /\ (paused' => forgotten')
      BY <2>1, <2>4 DEF NextDay, Known
    <3> QED BY <2>1, <2>2, <3>1 DEF PauseFacts, PauseUnderWay, FileSaysOff, PauseSurvives
  <2> QED BY <1>11, <2>3, <2>4 DEF Create
<1>2. CASE LoopPersists
  <2>1. worker /\ "loop" \in Writers
    BY <1>2 DEF LoopPersists, PauseInv, WriterInv, NoProcess, Writers
  <2> QED BY <1>2, <2>1, TakeKept DEF LoopPersists, loop_only, history
<1>3. CASE CapturePersists
  <2>1. worker /\ "capture" \in Writers
    BY <1>3 DEF CapturePersists, PauseInv, WriterInv, NoProcess, Writers
  <2> QED BY <1>3, <2>1, TakeKept DEF CapturePersists, capture_only
<1>4. CASE PersistCommand
  <2>1. worker /\ "api" \in Writers
    BY <1>4 DEF PersistCommand, PauseInv, WriterInv, NoProcess, Writers
  <2> QED BY <1>4, <2>1, TakeKept DEF PersistCommand, history
<1>5. CASE Restore
  <2>1. /\ ~worker /\ entries_enabled' = Recovered.entries
        /\ forgotten' = (paused /\ (forgotten \/ outrun \/ snapshot_file = Unparsable))
        /\ paused' = paused
    BY <1>5 DEF Restore
  <2>2. api = "idle" /\ \A w \in Writers : ~Pending(w)
    BY <2>1 DEF PauseInv, WriterInv, NoProcess
  <2>3. Known' => ~Recovered.entries /\ Known /\ ~outrun
    BY <2>1, RecoveredOff DEF Known
  <2>4. CASE Recovered.status = "running"
    <3>1. Take("api", "stopped", Recovered.entries) /\ api' = "load"
      BY <1>5, <2>4 DEF Restore
    <3>2. /\ text'["api"].entries = Recovered.entries
          /\ \A v \in Writers : v # "api" => text'[v] = text[v]
          /\ UNCHANGED <<snapshot_file, outrun>>
      <4>1. "api" \in Writers /\ "stopped" \in RunStatuses /\ ControlTypeOK
        BY DEF PauseInv, WriterInv, Writers, RunStatuses
      <4>2. text'["api"] = [status |-> "stopped", entries |-> Recovered.entries]
        BY <1>0, <3>1, <4>1, TakeTypes
      <4> QED BY <1>0, <3>1, <4>1, <4>2, TakeTypes
    <3>3. Known' => TextsSayOff'
      BY <2>2, <2>3, <3>2 DEF TextsSayOff, Pending
    <3> QED BY <1>0, <2>1, <2>3, <3>1, <3>2, <3>3 DEF PauseInv, PauseFacts, PauseUnderWay,
               FileSaysOff, PauseSurvives, Known
  <2>5. CASE Recovered.status # "running"
    <3>1. UNCHANGED <<api, text, older, outrun, snapshot_file>>
      BY <1>5, <2>5 DEF Restore, writing
    <3> QED BY <1>0, <2>1, <2>2, <2>3, <3>1 DEF PauseInv, PauseFacts, PauseUnderWay, FileSaysOff,
               TextsSayOff, PauseSurvives, Known, Pending
  <2> QED BY <2>4, <2>5
<1>6. CASE Die
  BY <1>6 DEF Die, PauseInv, PauseFacts, PauseUnderWay, FileSaysOff, TextsSayOff, PauseSurvives,
     Known, Pending
<1>7. CASE UNCHANGED ctl_vars
  BY <1>7, PauseKept DEF ctl_vars
<1>8. ASSUME NEW w \in Writers, Open(w) PROVE PauseFacts'
  <2>1. /\ snapshot_file' = Unparsable
        /\ UNCHANGED <<worker, entries_enabled, api, text, older, outrun, paused, forgotten>>
    BY <1>8 DEF Open, history
  <2> QED BY <2>1 DEF PauseInv, PauseFacts, PauseUnderWay, FileSaysOff, TextsSayOff,
             PauseSurvives, Known, Pending
<1>9. ASSUME NEW w \in Writers, Write(w) PROVE PauseFacts'
  <2>1. /\ Drop(w) /\ Pending(w) /\ text[w] \in Snapshots
        /\ snapshot_file' \in {text[w], Unparsable}
        /\ outrun' = (paused /\ w \in older)
        /\ UNCHANGED <<worker, entries_enabled>>
    BY <1>9 DEF Write, PauseInv, WriterInv, ControlTypeOK, Pending
  <2>2. /\ text'[w] = NoText /\ \A v \in Writers : v # w => text'[v] = text[v]
        /\ older' = older \ {w}
    BY <2>1, DropTypes DEF PauseInv, WriterInv, Drop
  <2>3. TextsSayOff => TextsSayOff'
    BY <2>2 DEF TextsSayOff, Pending
  <2>4. CASE w = "api"
    <3>1. Acknowledged
      BY <1>9, <2>4 DEF Write
    <3>2. CASE api = "pause"
      <4>1. ~entries_enabled /\ ~text[w].entries /\ TextsSayOff
        BY <2>1, <2>4, <3>2 DEF PauseInv, PauseUnderWay
      <4>2. api' = "idle"
        BY <3>1 DEF Acknowledged
      <4>3. FileSaysOff'
        BY <2>1, <4>1 DEF FileSaysOff
      <4> QED BY <2>1, <2>3, <4>1, <4>2, <4>3 DEF PauseFacts, PauseUnderWay, PauseSurvives
    <3>3. CASE api = "resume"
      BY <3>1, <3>3 DEF Acknowledged, PauseFacts, PauseUnderWay, FileSaysOff, PauseSurvives, Known
    <3>4. CASE api \notin {"pause", "resume"}
      <4>1. api' = "idle" /\ paused' = paused /\ (forgotten' <=> forgotten)
        BY <3>1, <3>4 DEF Acknowledged, PauseInv, WriterInv, ControlTypeOK
      <4>2. Known /\ ~outrun' => ~text[w].entries
        BY <2>1 DEF PauseInv, TextsSayOff, Known
      <4>3. FileSaysOff'
        BY <2>1, <4>1, <4>2 DEF FileSaysOff, Known
      <4> QED BY <2>1, <2>3, <4>1, <4>3 DEF PauseInv, PauseFacts, PauseUnderWay, PauseSurvives, Known
    <3> QED BY <3>2, <3>3, <3>4
  <2>5. CASE w # "api"
    <3>1. UNCHANGED <<api, paused, forgotten>>
      BY <1>9, <2>5 DEF Write, Writers
    <3>2. Known /\ ~outrun' => ~text[w].entries
      BY <2>1 DEF PauseInv, TextsSayOff, Known
    <3>3. PauseUnderWay'
      BY <2>1, <2>2, <2>3, <2>5, <3>1 DEF PauseInv, PauseUnderWay, Pending, Writers
    <3>4. FileSaysOff'
      BY <2>1, <3>1, <3>2 DEF FileSaysOff, Known
    <3> QED BY <2>1, <2>3, <3>1, <3>3, <3>4 DEF PauseInv, PauseFacts, PauseSurvives, Known
  <2> QED BY <2>4, <2>5
<1>10. ASSUME NEW w \in Writers, WriteFails(w) PROVE PauseFacts'
  <2>1. /\ Drop(w) /\ UNCHANGED <<worker, entries_enabled, snapshot_file, outrun, paused, forgotten>>
    BY <1>10 DEF WriteFails
  <2>2. /\ text'[w] = NoText /\ \A v \in Writers : v # w => text'[v] = text[v]
        /\ older' = older \ {w}
    BY <2>1, DropTypes DEF PauseInv, WriterInv, Drop
  <2>3. TextsSayOff => TextsSayOff'
    BY <2>2 DEF TextsSayOff, Pending
  <2>4. PauseUnderWay'
    <3>1. CASE w = "api"
      BY <1>10, <3>1 DEF WriteFails, PauseUnderWay
    <3>2. CASE w # "api"
      <4>1. api' = api
        BY <1>10, <3>2 DEF WriteFails, Writers
      <4> QED BY <2>1, <2>2, <2>3, <3>2, <4>1 DEF PauseInv, PauseUnderWay, Pending, Writers
    <3> QED BY <3>1, <3>2
  <2> QED BY <2>1, <2>3, <2>4 DEF PauseInv, PauseFacts, FileSaysOff, PauseSurvives, Known
<1> QED BY <1>1, <1>2, <1>3, <1>4, <1>5, <1>6, <1>7, <1>8, <1>9, <1>10, <1>11, StepKinds

\* A pause the operator got an answer to lasts until a resume, whatever the threads
\* write and whenever the process dies, unless it dies with a torn file or after a
\* slower thread had written an older text, or the run is created again on another day.
THEOREM PauseLasts == ControlSpec => []PauseSurvives
<1>1. PauseInv => PauseSurvives
  BY DEF PauseInv
<1> QED BY <1>1, PauseInit, PauseStep, PTL DEF ControlSpec

(* What steers live trading, side by side *)

\* What runs side by side is each of the five: what is proved of the run's control, of the
\* runtime control, of budgets, of signals or of targets holds of them as they are checked.
THEOREM LiveComposes ==
    LiveSpec => ControlSpec /\ RcSpec /\ BudgetSpec /\ AggSpec /\ TargetSpec
<1>1. LiveInit => ControlInit /\ RcInit /\ BudgetInit /\ AggInit /\ TargetInit
    BY DEF LiveInit
<1>2. [LiveNext]_live_vars
        => /\ [ControlNext]_ctl_vars /\ [RcNext]_rc_vars /\ [BudgetNext]_budget_vars
           /\ [AggNext]_agg_vars /\ [TargetNext]_tgt_vars
    BY DEF LiveNext, live_vars
<1> QED
    BY <1>1, <1>2, PTL
       DEF LiveSpec, ControlSpec, RcSpec, BudgetSpec, AggSpec, TargetSpec

\* Threads, snapshot, control file, budgets, signals and targets all stay in their types.
THEOREM LiveTypeCorrect == LiveSpec => []LiveTypeOK
<1>1. ControlTypeOK /\ RcTypeOK /\ BudgetTypeOK /\ AggTypeOK /\ TgtTypeOK => LiveTypeOK
    BY DEF LiveTypeOK
<1> QED
    BY <1>1, LiveComposes, ControlTypeCorrect, ControlFileTypeCorrect, BudgetTypeCorrect,
       AggregationTypeCorrect, TargetTypeCorrect, PTL
=============================================================================
