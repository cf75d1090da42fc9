--------------------------- MODULE ControllerQueue ---------------------------
(***************************************************************************)
(* The controller queue (app/runtime/controller_queue.py): a directory of  *)
(* lock files by which parallel controllers claim issues, files and        *)
(* runtimes, a directory of released locks, and an append-only ledger.     *)
(*                                                                         *)
(* Nothing locks the directory.  claim_lock and release_lock are sequences *)
(* of file operations of a process that may die between any two of them,   *)
(* so each file operation is an action: Path.write_text first truncates    *)
(* the file (Torn), then fills it.  Reading the directory is one step.     *)
(***************************************************************************)
EXTENDS Naturals, FiniteSets

CONSTANTS
    Controllers,   \* processes that run tools/controller_queue.py
    LockIds,
    NoLock,
    Resources,     \* issues, files, modules, events, runtimes, ...
    MaxClaims,     \* bound: claims that pass the check
    MaxCrashes     \* bound: processes that die in a call

ASSUME QueueAssumption ==
    /\ IsFiniteSet(Controllers)
    /\ NoLock \notin LockIds
    /\ MaxClaims \in Nat
    /\ MaxCrashes \in Nat

VARIABLES
    active,        \* active_locks/<lock_id>.json
    completed,     \* completed_locks/<day>/<lock_id>.json, of the latest day
    ledger,        \* pass ledger: entries per lock and outcome
    pc,            \* where each controller is in its call
    lock,          \* the lock_id of the call
    claims,        \* the resource_claims of the call
    reply,         \* what its last call returned
    created,       \* history: times the file of a lock came into being
    claimed,       \* claims that passed the check
    crashes

queueVars == <<active, completed, ledger>>
callVars == <<pc, lock, claims, reply>>
vars == <<queueVars, callVars, created, claimed, crashes>>

Absent == [state |-> "absent"]
Torn == [state |-> "torn"]

\* racing (history): locks whose claim had passed its check, and was not yet
\* written, when this one was.
Payloads == [state : {"lock"}, claims : SUBSET Resources, stale : BOOLEAN, racing : SUBSET LockIds]
Files == {Absent, Torn} \cup Payloads

InClaim == {"exists", "open", "write", "ledger_claim"}
InRelease == {"archive_open", "archive_write", "unlink", "ledger_release"}
Replies == {"none", "claimed", "blocked_duplicate_lock", "blocked_stale_lock", "blocked_dirty_worktree",
            "blocked_existing_lock_id", "released", "already_released", "missing_active_lock", "error"}

TypeOK ==
    /\ active \in [LockIds -> Files]
    /\ completed \in [LockIds -> {"absent", "torn", "lock"}]
    /\ ledger \in [LockIds -> [claimed : 0..MaxClaims, released : 0..MaxClaims]]
    /\ pc \in [Controllers -> {"idle"} \cup InClaim \cup InRelease]
    /\ lock \in [Controllers -> LockIds \cup {NoLock}]
    /\ claims \in [Controllers -> SUBSET Resources]
    /\ reply \in [Controllers -> Replies]
    /\ created \in [LockIds -> 0..MaxClaims]
    /\ claimed \in 0..MaxClaims
    /\ crashes \in 0..MaxCrashes

Init ==
    /\ active = [l \in LockIds |-> Absent]
    /\ completed = [l \in LockIds |-> "absent"]
    /\ ledger = [l \in LockIds |-> [claimed |-> 0, released |-> 0]]
    /\ pc = [c \in Controllers |-> "idle"]
    /\ lock = [c \in Controllers |-> NoLock]
    /\ claims = [c \in Controllers |-> {}]
    /\ reply = [c \in Controllers |-> "none"]
    /\ created = [l \in LockIds |-> 0]
    /\ claimed = 0
    /\ crashes = 0

-----------------------------------------------------------------------------
(* active_locks and find_conflicts: files that do not parse are passed over *)

Readable(l) == active[l].state = "lock"
\* Bug variant: a stale lock no longer blocks a claim (OverlapOnlyByRace).
ConflictsNotStale(wanted) ==
    {l \in LockIds : Readable(l) /\ ~active[l].stale /\ active[l].claims \cap wanted # {}}

Conflicts(wanted) == {l \in LockIds : Readable(l) /\ active[l].claims \cap wanted # {}}
LiveConflicts(wanted) == {l \in Conflicts(wanted) : ~active[l].stale}

Goto(c, step) == pc' = [pc EXCEPT ![c] = step]
Return(c, answer) ==
    /\ Goto(c, "idle")
    /\ reply' = [reply EXCEPT ![c] = answer]
    /\ lock' = [lock EXCEPT ![c] = NoLock]
    /\ claims' = [claims EXCEPT ![c] = {}]

\* The stale_after_utc of a lock passes.
GrowStale(l) ==
    /\ Readable(l) /\ ~active[l].stale
    /\ active' = [active EXCEPT ![l].stale = TRUE]
    /\ UNCHANGED <<completed, ledger, callVars, created, claimed, crashes>>

-----------------------------------------------------------------------------
(* claim_lock *)

CheckBlocked(c, wanted) ==
    /\ pc[c] = "idle"
    /\ \/ LiveConflicts(wanted) # {} /\ Return(c, "blocked_duplicate_lock")
       \/ /\ LiveConflicts(wanted) = {} /\ Conflicts(wanted) # {}
          /\ Return(c, "blocked_stale_lock")
       \/ Conflicts(wanted) = {} /\ Return(c, "blocked_dirty_worktree")
    /\ UNCHANGED <<queueVars, created, claimed, crashes>>

CheckPasses(c, l, wanted) ==
    /\ pc[c] = "idle"
    /\ claimed < MaxClaims
    /\ Conflicts(wanted) = {}
    /\ claimed' = claimed + 1
    /\ lock' = [lock EXCEPT ![c] = l]
    /\ claims' = [claims EXCEPT ![c] = wanted]
    /\ Goto(c, "exists")
    /\ reply' = [reply EXCEPT ![c] = "none"]
    /\ UNCHANGED <<queueVars, created, crashes>>

\* path.exists(), for a lock_id that may have been given by the caller.
LookForPath(c) ==
    /\ pc[c] = "exists"
    /\ IF active[lock[c]] = Absent
       THEN Goto(c, "open") /\ UNCHANGED <<lock, claims, reply>>
       ELSE Return(c, "blocked_existing_lock_id")
    /\ UNCHANGED <<queueVars, created, claimed, crashes>>

OpenLock(c) ==
    /\ pc[c] = "open"
    /\ active' = [active EXCEPT ![lock[c]] = Torn]
    /\ created' = IF active[lock[c]] = Absent THEN [created EXCEPT ![lock[c]] = @ + 1] ELSE created
    /\ Goto(c, "write")
    /\ UNCHANGED <<completed, ledger, lock, claims, reply, claimed, crashes>>

Racing(c) == {lock[d] : d \in {e \in Controllers \ {c} : pc[e] \in {"exists", "open", "write"}}}

\* A file unlinked in between is gone; over the text of another writer of the
\* same lock_id the text may come out mixed.
WriteLock(c) ==
    LET l == lock[c]
        payload == [state |-> "lock", claims |-> claims[c], stale |-> FALSE, racing |-> Racing(c)] IN
    /\ pc[c] = "write"
    /\ active' \in IF active[l] = Absent THEN {active}
                   ELSE {[active EXCEPT ![l] = text] : text \in {payload} \cup IF Readable(l) THEN {Torn} ELSE {}}
    /\ Goto(c, "ledger_claim")
    /\ UNCHANGED <<completed, ledger, lock, claims, reply, created, claimed, crashes>>

LedgerClaim(c) ==
    /\ pc[c] = "ledger_claim"
    /\ ledger' = [ledger EXCEPT ![lock[c]].claimed = @ + 1]
    /\ Return(c, "claimed")
    /\ UNCHANGED <<active, completed, created, claimed, crashes>>

-----------------------------------------------------------------------------
(* release_lock, by any controller: its own lock, or a stale one reviewed *)

\* Bug variant: the lock is unlinked without the archived copy (ClaimTraceable).
ReadActiveNoArchive(c, l) ==
    /\ pc[c] = "idle"
    /\ Readable(l)
    /\ lock' = [lock EXCEPT ![c] = l]
    /\ Goto(c, "unlink")
    /\ reply' = [reply EXCEPT ![c] = "none"]
    /\ UNCHANGED <<queueVars, claims, created, claimed, crashes>>

ReadActive(c, l) ==
    /\ pc[c] = "idle"
    /\ Readable(l)
    /\ lock' = [lock EXCEPT ![c] = l]
    /\ Goto(c, "archive_open")
    /\ reply' = [reply EXCEPT ![c] = "none"]
    /\ UNCHANGED <<queueVars, claims, created, claimed, crashes>>

\* The active file is missing or does not parse.
ReadFails(c, l) ==
    /\ pc[c] = "idle"
    /\ ~Readable(l)
    /\ Return(c, IF completed[l] # "absent" THEN "already_released" ELSE "missing_active_lock")
    /\ UNCHANGED <<queueVars, created, claimed, crashes>>

OpenCompleted(c) ==
    /\ pc[c] = "archive_open"
    /\ completed' = [completed EXCEPT ![lock[c]] = "torn"]
    /\ Goto(c, "archive_write")
    /\ UNCHANGED <<active, ledger, lock, claims, reply, created, claimed, crashes>>

WriteCompleted(c) ==
    /\ pc[c] = "archive_write"
    /\ completed' = [completed EXCEPT ![lock[c]] = "lock"]
    /\ Goto(c, "unlink")
    /\ UNCHANGED <<active, ledger, lock, claims, reply, created, claimed, crashes>>

\* Bug variant: unlink(missing_ok=True) (ReleasedOncePerLock, TypeOK).
UnlinkMissingOk(c) ==
    /\ pc[c] = "unlink"
    /\ Goto(c, "ledger_release")
    /\ active' = [active EXCEPT ![lock[c]] = Absent]
    /\ UNCHANGED <<completed, ledger, lock, claims, reply, created, claimed, crashes>>

\* unlink raises FileNotFoundError when another release was faster.
UnlinkActive(c) ==
    /\ pc[c] = "unlink"
    /\ IF active[lock[c]] = Absent
       THEN Return(c, "error")
       ELSE Goto(c, "ledger_release") /\ UNCHANGED <<lock, claims, reply>>
    /\ active' = [active EXCEPT ![lock[c]] = Absent]
    /\ UNCHANGED <<completed, ledger, created, claimed, crashes>>

LedgerRelease(c) ==
    /\ pc[c] = "ledger_release"
    /\ ledger' = [ledger EXCEPT ![lock[c]].released = @ + 1]
    /\ Return(c, "released")
    /\ UNCHANGED <<active, completed, created, claimed, crashes>>

-----------------------------------------------------------------------------
\* The process dies in its call.
Crash(c) ==
    /\ pc[c] # "idle"
    /\ crashes < MaxCrashes
    /\ crashes' = crashes + 1
    /\ Return(c, "none")
    /\ UNCHANGED <<queueVars, created, claimed>>

Next ==
    \/ \E l \in LockIds : GrowStale(l)
    \/ \E c \in Controllers :
          \/ LookForPath(c) \/ OpenLock(c) \/ WriteLock(c) \/ LedgerClaim(c)
          \/ OpenCompleted(c) \/ WriteCompleted(c) \/ UnlinkActive(c) \/ LedgerRelease(c)
          \/ Crash(c)
          \/ \E wanted \in (SUBSET Resources) \ {{}} :
                \/ CheckBlocked(c, wanted)
                \/ \E l \in LockIds : CheckPasses(c, l, wanted)
          \/ \E l \in LockIds : ReadActive(c, l) \/ ReadFails(c, l)

Spec == Init /\ [][Next]_vars

-----------------------------------------------------------------------------
(* Properties *)

\* Two readable locks share a resource only if their claims raced: each passed
\* its check before the other was written.  No lock that was there to be seen,
\* live or stale, is ever overlapped, whatever was released, reused or torn.
OverlapOnlyByRace ==
    \A l, m \in LockIds :
        (/\ l # m /\ Readable(l) /\ Readable(m)
         /\ active[l].claims \cap active[m].claims # {})
        => l \in active[m].racing \/ m \in active[l].racing

\* The ledger shows at most one release per lock file that ever existed,
\* although two controllers may release a lock at once, or one after a crash.
ReleasedOncePerLock == \A l \in LockIds : ledger[l].released <= created[l]

\* A lock the ledger shows as claimed leaves a trace: its file is among the
\* active locks or among the completed ones, also when a release dies half way.
\* A lock file unlinked while it is written again is the exception: a release
\* was under way.
ClaimTraceable ==
    \A l \in LockIds :
        ledger[l].claimed > 0 => active[l] # Absent \/ completed[l] # "absent"
=============================================================================
