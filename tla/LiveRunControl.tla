--------------------------- MODULE LiveRunControl ---------------------------
(***************************************************************************)
(* The threads of one live run and its recovery snapshot:                  *)
(* app/modules/nba/execution/runner.py (LiveRunWorker: start,              *)
(* request_stop, pause_entries, resume_entries, the loop and the order     *)
(* book capture) and service.py (LiveRunService: create, restore).         *)
(*                                                                         *)
(* LiveRun models what a cycle does to the orders; this module models      *)
(* which threads run and what the snapshot says of them.  The snapshot is  *)
(* taken under the worker's lock and written after it, by three threads,   *)
(* with write_text: open truncates, the text follows, and two writers at   *)
(* once may leave a mixture of their texts.                                *)
(***************************************************************************)
EXTENDS Naturals

CONSTANTS
    ConfigEntries,   \* config.entries_enabled of the run
    NoText,          \* of a writer with nothing to write
    Unparsable,      \* a snapshot file that is no JSON
    Missing

Writers == {"api", "loop", "capture"}

VARIABLES
    worker,          \* the process holds a LiveRunWorker of the run
    status, entries_enabled, stop_event,
    loop, capture,   \* where the two threads of the run are
    api,             \* what the operator's request is doing
    text,            \* the snapshot a writer has taken and not yet written
    opened,          \* the writers whose file is open
    mixed,           \* of them, those that share the file with another
    older,           \* the writers whose text is not the last one taken
    snapshot_file,
    paused,          \* history: the last entries command acknowledged was a pause
    outrun,          \* history: an older text was written over the one with the pause
    forgotten,       \* history: the worker was restored from such a file, from a torn
                     \* one, or on another day from none
    uncaptured,      \* history: why no capture thread may run beside the loop
    wanted,          \* history: a start was acknowledged, and the run neither stopped
                     \* nor completed since; "undone" if it found the loop on its way out
    died             \* history: an error of the disk ended the loop thread

ctl_vars == <<worker, status, entries_enabled, stop_event, loop, capture, api, text, opened, mixed,
              older, snapshot_file, paused, outrun, forgotten, uncaptured, wanted, died>>
writing == <<text, opened, mixed, older, snapshot_file, outrun>>
history == <<paused, forgotten, uncaptured, wanted, died>>

\* Every reader of the status treats "starting" as "running", "completed" as "stopped"
\* and "error" as "created".
RunStatuses == {"created", "running", "stopped"}
Snapshots == [status : RunStatuses, entries : BOOLEAN]

ASSUME ControlAssumption ==
    /\ ConfigEntries \in BOOLEAN
    /\ Unparsable # Missing
    /\ {NoText, Unparsable, Missing} \cap Snapshots = {}

LoopPlaces == {"none", "new", "test", "cycle", "persist", "done", "wait", "closing", "ending"}
Working == {"new", "test", "cycle", "persist", "done", "wait"}

ControlTypeOK ==
    /\ worker \in BOOLEAN /\ entries_enabled \in BOOLEAN /\ stop_event \in BOOLEAN
    /\ status \in RunStatuses
    /\ loop \in LoopPlaces
    /\ capture \in {"none", "test", "pass", "wait", "leaving"}
    /\ api \in {"idle", "load", "pause", "resume"}
    /\ text \in [Writers -> Snapshots \cup {NoText}]
    /\ mixed \subseteq opened /\ opened \subseteq Writers /\ older \subseteq Writers
    /\ \A w \in opened \cup older : text[w] # NoText
    /\ snapshot_file \in Snapshots \cup {Unparsable, Missing}
    /\ wanted \in {"no", "yes", "undone"}
    /\ \A flag \in {paused, outrun, forgotten, uncaptured, died} : flag \in BOOLEAN

ControlInit ==
    /\ worker = FALSE
    /\ status = "created" /\ entries_enabled = ConfigEntries /\ stop_event = FALSE
    /\ loop = "none" /\ capture = "none" /\ api = "idle"
    /\ text = [w \in Writers |-> NoText]
    /\ opened = {} /\ mixed = {} /\ older = {}
    /\ snapshot_file = Missing
    /\ paused = FALSE /\ outrun = FALSE /\ forgotten = FALSE /\ uncaptured = FALSE
    /\ wanted = "no" /\ died = FALSE

-----------------------------------------------------------------------------
(* _persist_recovery_snapshot *)

Pending(w) == text[w] # NoText

\* The payload is built under the lock.
Take(w, s, e) ==
    /\ ~Pending(w)
    /\ text' = [text EXCEPT ![w] = [status |-> s, entries |-> e]]
    /\ older' = {u \in Writers \ {w} : Pending(u)}
    /\ UNCHANGED <<opened, mixed, snapshot_file, outrun>>

\* write_text opens the file, which empties it.
Open(w) ==
    /\ Pending(w) /\ w \notin opened
    /\ opened' = opened \cup {w}
    /\ mixed' = IF opened = {} THEN mixed ELSE opened'
    /\ snapshot_file' = Unparsable
    /\ UNCHANGED <<worker, status, entries_enabled, stop_event, loop, capture, api, text, older,
                   outrun, history>>

\* Bug variant: the end of a write is not seen by the next one (LiveTypeOK).
DropText(w) ==
    /\ text' = [text EXCEPT ![w] = NoText]
    /\ opened' = opened \ {w} /\ UNCHANGED <<mixed, older>>

\* The file is closed.
Drop(w) ==
    /\ text' = [text EXCEPT ![w] = NoText]
    /\ opened' = opened \ {w} /\ mixed' = mixed \ {w} /\ older' = older \ {w}

\* The operator's request returns.
Acknowledged ==
    /\ api' = "idle"
    /\ paused' = IF api = "pause" THEN ~entries_enabled
                 ELSE IF api = "resume" THEN FALSE ELSE paused
    /\ forgotten' = (forgotten /\ api # "pause")
    /\ UNCHANGED <<loop, capture, died>>

Write(w) ==
    /\ w \in opened
    /\ snapshot_file' \in {text[w]} \cup (IF w \in mixed THEN {Unparsable} ELSE {})
    /\ outrun' = (paused /\ w \in older)
    /\ Drop(w)
    /\ CASE w = "api" -> Acknowledged
         [] w = "loop" -> /\ loop' = IF loop = "closing" THEN "ending" ELSE "done"
                          /\ UNCHANGED <<capture, api, paused, forgotten, died>>
         [] w = "capture" -> capture' = "wait" /\ UNCHANGED <<loop, api, paused, forgotten, died>>
    /\ UNCHANGED <<worker, status, entries_enabled, stop_event, uncaptured, wanted>>

\* An exception in a pass is written to the log, and an OSError of that write ends the
\* thread.
CaptureRaises ==
    /\ capture' \in {"wait", "leaving"}
    /\ uncaptured' = (uncaptured \/ capture' = "leaving")

\* An OSError.  A request answers 500, the loop thread ends: the snapshot is written in
\* its finally clause.
WriteFails(w) ==
    /\ Pending(w)
    /\ Drop(w)
    /\ CASE w = "api" -> api' = "idle" /\ UNCHANGED <<loop, capture, uncaptured, died>>
         [] w = "loop" -> loop' = "none" /\ died' = TRUE /\ UNCHANGED <<capture, uncaptured, api>>
         [] w = "capture" -> CaptureRaises /\ UNCHANGED <<loop, api, died>>
    /\ UNCHANGED <<worker, status, entries_enabled, stop_event, snapshot_file, outrun, paused,
                   forgotten, wanted>>

-----------------------------------------------------------------------------
(* LiveRunService *)

\* What _load_recovery_snapshot finds; a file that does not parse is ignored.
Recovered ==
    IF snapshot_file \in Snapshots THEN snapshot_file
    ELSE [status |-> "created", entries |-> ConfigEntries]

\* Bug variant: a restored run keeps the status of the run that died
\* (RunHasLoop).
RestoreAsSaved ==
    /\ ~worker
    /\ worker' = TRUE
    /\ status' = Recovered.status /\ entries_enabled' = Recovered.entries
    /\ forgotten' = (paused /\ (forgotten \/ outrun \/ snapshot_file = Unparsable))
    /\ UNCHANGED <<stop_event, loop, capture, api, writing, paused, uncaptured, wanted,
                   died>>

\* require_run: _load_worker_from_disk, in the directory of the latest day, and
\* mark_restored_inactive.
Restore ==
    /\ ~worker
    /\ worker' = TRUE
    /\ entries_enabled' = Recovered.entries
    /\ forgotten' = (paused /\ (forgotten \/ outrun \/ snapshot_file = Unparsable))
    /\ IF Recovered.status = "running"
       THEN /\ status' = "stopped" /\ api' = "load"
            /\ Take("api", "stopped", Recovered.entries)
       ELSE status' = Recovered.status /\ UNCHANGED <<api, writing>>
    /\ UNCHANGED <<stop_event, loop, capture, paused, uncaptured, wanted, died>>

\* Bug variant: only the loop thread is started again (LoopIsCaptured).
StartLoopOnly ==
    /\ loop' = "new"
    /\ UNCHANGED capture
    /\ uncaptured' = (capture = "leaving")
    /\ wanted' = "yes" /\ died' = FALSE

\* What start() does to the threads when the loop is not alive.
StartThreads ==
    /\ loop' = "new"
    /\ capture' = IF capture = "none" THEN "test" ELSE capture
    /\ uncaptured' = (capture = "leaving")
    /\ wanted' = "yes" /\ died' = FALSE

\* The directory of a run is named after the UTC day: on another day the worker is
\* made in a new one, which is the one found from then on.
NextDay ==
    /\ status' = "created" /\ entries_enabled' = ConfigEntries
    /\ snapshot_file' = Missing /\ outrun' = FALSE
    /\ forgotten' = paused
    /\ UNCHANGED <<text, opened, mixed, older>>

SameDay ==
    /\ status' = Recovered.status /\ entries_enabled' = Recovered.entries
    /\ forgotten' = (paused /\ (forgotten \/ outrun \/ snapshot_file = Unparsable))
    /\ UNCHANGED writing

\* start_or_resume_run on a run the process does not hold.
Create ==
    /\ ~worker
    /\ worker' = TRUE
    /\ SameDay \/ NextDay
    /\ stop_event' = FALSE
    /\ StartThreads
    /\ UNCHANGED <<api, paused>>

\* Bug variant: a stop that was asked for before is kept (RunHasLoop).
StartKeepsStop ==
    /\ worker /\ api = "idle" /\ loop = "none"
    /\ StartThreads
    /\ UNCHANGED <<worker, status, entries_enabled, stop_event, api, writing, paused, forgotten>>

\* start, no loop thread alive.
Start ==
    /\ worker /\ api = "idle" /\ loop = "none"
    /\ stop_event' = FALSE
    /\ StartThreads
    /\ UNCHANGED <<worker, status, entries_enabled, api, writing, paused, forgotten>>

\* start, the loop thread is alive: nothing happens.
StartAgain ==
    /\ worker /\ api = "idle" /\ loop # "none"
    /\ wanted' = IF stop_event \/ loop \notin Working THEN "undone" ELSE "yes"
    /\ UNCHANGED <<worker, status, entries_enabled, stop_event, loop, capture, api, writing, paused,
                   forgotten, uncaptured, died>>

RequestStop ==
    /\ worker /\ api = "idle"
    /\ stop_event' = TRUE
    /\ wanted' = "no"
    /\ UNCHANGED <<worker, status, entries_enabled, loop, capture, api, writing, paused, forgotten,
                   uncaptured, died>>

\* Bug variant: a pause is not persisted (PauseSurvives).
PauseEntriesInMemory ==
    /\ worker /\ api = "idle"
    /\ entries_enabled' = FALSE
    /\ paused' = TRUE /\ forgotten' = FALSE
    /\ UNCHANGED <<worker, status, stop_event, loop, capture, api, writing, uncaptured, wanted, died>>

PauseEntries ==
    /\ worker /\ api = "idle"
    /\ entries_enabled' = FALSE /\ api' = "pause"
    /\ UNCHANGED <<worker, status, stop_event, loop, capture, writing, history>>

ResumeEntries ==
    /\ worker /\ api = "idle"
    /\ entries_enabled' = TRUE /\ api' = "resume"
    /\ paused' = FALSE
    /\ UNCHANGED <<worker, status, stop_event, loop, capture, writing, forgotten, uncaptured, wanted, died>>

\* pause_entries and resume_entries persist in a lock section of their own.
PersistCommand ==
    /\ api \in {"pause", "resume"}
    /\ Take("api", status, entries_enabled)
    /\ UNCHANGED <<worker, status, entries_enabled, stop_event, loop, capture, api, history>>

Die ==
    /\ worker
    /\ worker' = FALSE
    /\ status' = "created" /\ entries_enabled' = ConfigEntries /\ stop_event' = FALSE
    /\ loop' = "none" /\ capture' = "none" /\ api' = "idle"
    /\ text' = [w \in Writers |-> NoText]
    /\ opened' = {} /\ mixed' = {} /\ older' = {}
    /\ uncaptured' = FALSE /\ wanted' = "no" /\ died' = FALSE
    /\ UNCHANGED <<snapshot_file, outrun, paused, forgotten>>

-----------------------------------------------------------------------------
(* The two threads *)

loop_only == <<worker, entries_enabled, stop_event, capture, api, history>>
capture_only == <<worker, status, entries_enabled, stop_event, loop, api, paused, forgotten, wanted, died>>

LoopStarts ==
    /\ loop = "new"
    /\ status' = "running" /\ loop' = "test"
    /\ UNCHANGED <<loop_only, writing>>

LoopTest ==
    /\ loop = "test" /\ ~stop_event
    /\ loop' = "cycle"
    /\ UNCHANGED <<status, loop_only, writing>>

LoopStops ==
    /\ loop \in {"test", "wait"} /\ stop_event
    /\ status' = "stopped" /\ loop' = "closing"
    /\ UNCHANGED <<loop_only, writing>>

CycleEnds(outcome) ==
    /\ loop = "cycle" /\ outcome \in {"running", "created"}
    /\ status' = outcome /\ loop' = "persist"
    /\ UNCHANGED <<loop_only, writing>>

LoopPersists ==
    /\ loop \in {"persist", "closing"}
    /\ Take("loop", status, entries_enabled)
    /\ UNCHANGED <<status, loop, loop_only>>

AllGamesFinished ==
    /\ loop = "done"
    /\ status' = "stopped" /\ loop' = "closing"
    /\ wanted' = "no"
    /\ UNCHANGED <<worker, entries_enabled, stop_event, capture, api, paused, forgotten, uncaptured,
                   died, writing>>

LoopSleeps ==
    /\ loop = "done"
    /\ loop' = "wait"
    /\ UNCHANGED <<status, loop_only, writing>>

LoopWakes ==
    /\ loop = "wait" /\ ~stop_event
    /\ loop' = "test"
    /\ UNCHANGED <<status, loop_only, writing>>

\* An OSError of a log line, of the heartbeat, of the error trace or of the trace of
\* events, which nothing catches.
LoopDies ==
    /\ loop \in {"test", "persist", "done", "closing"} /\ ~Pending("loop")
    /\ loop' = "none" /\ died' = TRUE
    /\ UNCHANGED <<worker, status, entries_enabled, stop_event, capture, api, paused, forgotten,
                   uncaptured, wanted, writing>>

LoopReturns ==
    /\ loop = "ending"
    /\ loop' = "none"
    /\ UNCHANGED <<status, loop_only, writing>>

\* The stop event, and then the status.
CaptureTest ==
    /\ capture = "test"
    /\ IF stop_event \/ status = "stopped"
       THEN /\ capture' = "leaving"
            /\ uncaptured' = (uncaptured \/ (~stop_event /\ loop = "new"))
       ELSE capture' = "pass" /\ UNCHANGED uncaptured
    /\ UNCHANGED <<capture_only, writing>>

CapturePersists ==
    /\ capture = "pass"
    /\ Take("capture", status, entries_enabled)
    /\ UNCHANGED <<capture, uncaptured, capture_only>>

\* The pass raised before its end.
CaptureFails ==
    /\ capture = "pass" /\ ~Pending("capture")
    /\ CaptureRaises
    /\ UNCHANGED <<capture_only, writing>>

CaptureWakes ==
    /\ capture = "wait"
    /\ capture' = IF stop_event THEN "leaving" ELSE "test"
    /\ UNCHANGED <<uncaptured, capture_only, writing>>

CaptureReturns ==
    /\ capture = "leaving"
    /\ capture' = "none"
    /\ UNCHANGED <<uncaptured, capture_only, writing>>

LoopStep ==
    \/ LoopStarts \/ LoopTest \/ LoopStops \/ LoopPersists \/ AllGamesFinished \/ LoopSleeps
    \/ LoopWakes \/ LoopReturns \/ LoopDies
    \/ \E outcome \in {"running", "created"} : CycleEnds(outcome)
CaptureStep == CaptureTest \/ CapturePersists \/ CaptureFails \/ CaptureWakes \/ CaptureReturns
OperatorStep ==
    \/ Restore \/ Create \/ Start \/ StartAgain \/ RequestStop \/ PauseEntries \/ ResumeEntries
    \/ PersistCommand
WriteStep == \E w \in Writers : Open(w) \/ Write(w) \/ WriteFails(w)

ControlNext == LoopStep \/ CaptureStep \/ OperatorStep \/ WriteStep \/ Die

ControlSpec == ControlInit /\ [][ControlNext]_ctl_vars

-----------------------------------------------------------------------------
(* Properties *)

\* A pause the operator got an answer to lasts until a resume, across crashes and
\* restarts, unless the process died with a torn file or after a slower thread had
\* written an older text over the one with the pause, or the run was created again on
\* another UTC day, when it finds no snapshot.
PauseSurvives == worker /\ paused /\ entries_enabled => forgotten

\* A loop that goes on has its capture thread, unless that thread read the status of
\* an earlier life before the loop had set its own, was on its way out when start()
\* asked whether it was alive, or could not write to the log what had gone wrong.
LoopIsCaptured ==
    loop \in Working /\ ~stop_event /\ capture \in {"none", "leaving"} => uncaptured

\* A run has its loop, unless an error of the disk ended the thread: one that was started
\* and that nobody asked to stop, until its games are finished (but a start() during the end
\* of the loop starts nothing); and one that reports running, in the process that started
\* it and in the one that restored it from disk.
RunHasLoop ==
    /\ wanted = "yes" /\ loop = "none" => died
    /\ worker /\ status = "running" => loop # "none" \/ died
=============================================================================
