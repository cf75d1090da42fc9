------------------------ MODULE ControllerQueueProofs ------------------------
(* ControllerQueue for any controllers, locks and resources. *)
EXTENDS ControllerQueue, FiniteSetTheorems, TLAPS

\* The type invariant without the bounds on the counters, which hold because
\* claims and releases pair up with lock files (Counts, below).
QueueType ==
    /\ active \in [LockIds -> Files]
    /\ completed \in [LockIds -> {"absent", "torn", "lock"}]
    /\ ledger \in [LockIds -> [claimed : Nat, released : Nat]]
    /\ pc \in [Controllers -> {"idle"} \cup InClaim \cup InRelease]
    /\ lock \in [Controllers -> LockIds \cup {NoLock}]
    /\ claims \in [Controllers -> SUBSET Resources]
    /\ reply \in [Controllers -> Replies]
    /\ created \in [LockIds -> Nat]
    /\ claimed \in 0..MaxClaims
    /\ crashes \in 0..MaxCrashes
    /\ \A c \in Controllers : pc[c] # "idle" => lock[c] \in LockIds

\* A call that returns leaves well-typed fields behind.
LEMMA ReturnType ==
    ASSUME QueueType, NEW c \in Controllers, NEW answer \in Replies, Return(c, answer)
    PROVE  /\ pc' \in [Controllers -> {"idle"} \cup InClaim \cup InRelease]
           /\ lock' \in [Controllers -> LockIds \cup {NoLock}]
           /\ claims' \in [Controllers -> SUBSET Resources]
           /\ reply' \in [Controllers -> Replies]
           /\ \A d \in Controllers : pc'[d] # "idle" => lock'[d] \in LockIds
BY DEF QueueType, Return, Goto

\* So does a step to another point of the call.
LEMMA GotoType ==
    ASSUME QueueType, NEW c \in Controllers, NEW step \in InClaim \cup InRelease, Goto(c, step),
           lock' \in [Controllers -> LockIds \cup {NoLock}], lock'[c] \in LockIds,
           \A d \in Controllers : d # c => lock'[d] = lock[d]
    PROVE  /\ pc' \in [Controllers -> {"idle"} \cup InClaim \cup InRelease]
           /\ \A d \in Controllers : pc'[d] # "idle" => lock'[d] \in LockIds
BY DEF QueueType, Goto

\* The text of a lock file.
LEMMA PayloadType ==
    ASSUME QueueType, NEW c \in Controllers, pc[c] = "write",
           NEW text \in {[state |-> "lock", claims |-> claims[c], stale |-> FALSE, racing |-> Racing(c)], Torn}
    PROVE  text \in Files
<1>1. Racing(c) \subseteq LockIds
    BY DEF QueueType, Racing
<1>2. [state |-> "lock", claims |-> claims[c], stale |-> FALSE, racing |-> Racing(c)] \in Payloads
    BY <1>1 DEF QueueType, Payloads
<1> QED BY <1>2 DEF Files

\* Every step keeps every variable among the values the code gives it.
LEMMA QueueTypeStep ==
    ASSUME QueueType, [Next]_vars
    PROVE  QueueType'
<1> USE QueueAssumption
<1>1. ASSUME NEW l \in LockIds, GrowStale(l) PROVE QueueType'
  <2>1. active[l] \in Payloads
      BY <1>1 DEF GrowStale, Readable, QueueType, Files, Absent, Torn
  <2>2. [active[l] EXCEPT !.stale = TRUE] \in Files
      BY <2>1 DEF Payloads, Files
  <2> QED BY <1>1, <2>2 DEF GrowStale, QueueType, callVars
<1>2. ASSUME NEW c \in Controllers, NEW wanted \in SUBSET Resources, CheckBlocked(c, wanted) PROVE QueueType'
    BY <1>2, ReturnType DEF CheckBlocked, QueueType, queueVars, Replies
<1>3. ASSUME NEW c \in Controllers, NEW wanted \in SUBSET Resources, NEW l \in LockIds, CheckPasses(c, l, wanted)
      PROVE  QueueType'
    BY <1>3, GotoType DEF CheckPasses, QueueType, queueVars, InClaim, Replies
<1>4. ASSUME NEW c \in Controllers, LookForPath(c) PROVE QueueType'
    BY <1>4, ReturnType, GotoType DEF LookForPath, QueueType, queueVars, InClaim, Replies
<1>5. ASSUME NEW c \in Controllers, OpenLock(c) PROVE QueueType'
  <2>1. lock[c] \in LockIds /\ Torn \in Files
      BY <1>5 DEF OpenLock, QueueType, Files
  <2> QED BY <1>5, <2>1, GotoType DEF OpenLock, QueueType, InClaim
<1>6. ASSUME NEW c \in Controllers, WriteLock(c) PROVE QueueType'
  <2>1. lock[c] \in LockIds
      BY <1>6 DEF WriteLock, QueueType
  <2>2. active' \in [LockIds -> Files]
    <3>1. CASE active' = active
        BY <3>1 DEF QueueType
    <3>2. CASE active' # active
      <4> DEFINE payload == [state |-> "lock", claims |-> claims[c], stale |-> FALSE, racing |-> Racing(c)]
      <4>1. PICK text \in {payload, Torn} : active' = [active EXCEPT ![lock[c]] = text]
          BY <1>6, <3>2 DEF WriteLock
      <4>2. text \in Files
          BY <1>6, PayloadType DEF WriteLock
      <4> QED BY <2>1, <4>1, <4>2 DEF QueueType
    <3> QED BY <3>1, <3>2
  <2> QED BY <1>6, <2>1, <2>2, GotoType DEF WriteLock, QueueType, InClaim
<1>7. ASSUME NEW c \in Controllers, LedgerClaim(c) PROVE QueueType'
  <2>1. lock[c] \in LockIds
      BY <1>7 DEF LedgerClaim, QueueType
  <2>2. ledger' \in [LockIds -> [claimed : Nat, released : Nat]]
      BY <1>7, <2>1 DEF LedgerClaim, QueueType
  <2> QED BY <1>7, <2>2, ReturnType DEF LedgerClaim, QueueType, Replies
<1>8. ASSUME NEW c \in Controllers, NEW l \in LockIds, ReadActive(c, l) PROVE QueueType'
    BY <1>8, GotoType DEF ReadActive, QueueType, queueVars, InRelease, Replies
<1>9. ASSUME NEW c \in Controllers, NEW l \in LockIds, ReadFails(c, l) PROVE QueueType'
    BY <1>9, ReturnType DEF ReadFails, QueueType, queueVars, Replies
<1>10. ASSUME NEW c \in Controllers, OpenCompleted(c) \/ WriteCompleted(c) PROVE QueueType'
  <2>1. lock[c] \in LockIds
      BY <1>10 DEF OpenCompleted, WriteCompleted, QueueType
  <2> QED BY <1>10, <2>1, GotoType DEF OpenCompleted, WriteCompleted, QueueType, InRelease
<1>11. ASSUME NEW c \in Controllers, UnlinkActive(c) PROVE QueueType'
  <2>1. lock[c] \in LockIds /\ Absent \in Files
      BY <1>11 DEF UnlinkActive, QueueType, Files
  <2> QED BY <1>11, <2>1, ReturnType, GotoType DEF UnlinkActive, QueueType, InRelease, Replies
<1>12. ASSUME NEW c \in Controllers, LedgerRelease(c) PROVE QueueType'
  <2>1. lock[c] \in LockIds
      BY <1>12 DEF LedgerRelease, QueueType
  <2>2. ledger' \in [LockIds -> [claimed : Nat, released : Nat]]
      BY <1>12, <2>1 DEF LedgerRelease, QueueType
  <2> QED BY <1>12, <2>2, ReturnType DEF LedgerRelease, QueueType, Replies
<1>13. ASSUME NEW c \in Controllers, Crash(c) PROVE QueueType'
    BY <1>13, ReturnType DEF Crash, QueueType, queueVars, Replies
<1>14. CASE UNCHANGED vars
    BY <1>14 DEF QueueType, vars, queueVars, callVars
<1> QED BY <1>1, <1>2, <1>3, <1>4, <1>5, <1>6, <1>7, <1>8, <1>9, <1>10, <1>11, <1>12, <1>13, <1>14 DEF Next

-----------------------------------------------------------------------------
(* OverlapOnlyByRace *)

\* A claim that passed its check and is not yet written overlaps a lock only if
\* that lock was written meanwhile, and then the lock counted it as racing.
PendingClaimsSeen ==
    \A c \in Controllers, l \in LockIds :
        /\ pc[c] \in {"exists", "open", "write"}
        /\ Readable(l)
        /\ active[l].claims \cap claims[c] # {}
        => lock[c] \in active[l].racing

OverlapInv == OverlapOnlyByRace /\ PendingClaimsSeen

\* A step that brings no readable lock and no claim keeps OverlapInv.
LEMMA OverlapFrame ==
    ASSUME QueueType, OverlapInv,
           \A l \in LockIds : Readable(l)' => /\ Readable(l)
                                              /\ active'[l].claims = active[l].claims
                                              /\ active'[l].racing = active[l].racing,
           \A c \in Controllers : pc'[c] \in {"exists", "open", "write"} =>
               pc[c] \in {"exists", "open", "write"} /\ lock'[c] = lock[c] /\ claims'[c] = claims[c]
    PROVE  OverlapInv'
BY DEF OverlapInv, OverlapOnlyByRace, PendingClaimsSeen

\* Every step keeps OverlapInv: a check sees every readable lock, stale or not,
\* and a lock that is written counts the claims that are on their way.
LEMMA OverlapStep ==
    ASSUME QueueType, OverlapInv, [Next]_vars
    PROVE  OverlapInv'
<1>1. ASSUME NEW l \in LockIds, GrowStale(l) PROVE OverlapInv'
  <2>1. active[l] \in Payloads
      BY <1>1 DEF GrowStale, Readable, QueueType, Files, Absent, Torn
  <2>2. \A m \in LockIds : Readable(m)' => /\ Readable(m)
                                          /\ active'[m].claims = active[m].claims
                                          /\ active'[m].racing = active[m].racing
      BY <1>1, <2>1 DEF GrowStale, Readable, QueueType, Payloads
  <2> QED BY <1>1, <2>2, OverlapFrame DEF GrowStale, callVars
<1>2. ASSUME NEW c \in Controllers, NEW wanted \in SUBSET Resources, NEW l \in LockIds, CheckPasses(c, l, wanted)
      PROVE  OverlapInv'
  <2>1. \A m \in LockIds : Readable(m) => active[m].claims \cap wanted = {}
      BY <1>2 DEF CheckPasses, Conflicts
  <2>2. claims'[c] = wanted /\ \A d \in Controllers \ {c} :
            pc'[d] = pc[d] /\ lock'[d] = lock[d] /\ claims'[d] = claims[d]
      BY <1>2 DEF CheckPasses, Goto, QueueType
  <2>3. active' = active
      BY <1>2 DEF CheckPasses, queueVars
  <2> QED BY <2>1, <2>2, <2>3 DEF OverlapInv, OverlapOnlyByRace, PendingClaimsSeen, Readable
<1>3. ASSUME NEW c \in Controllers, WriteLock(c) PROVE OverlapInv'
  <2> DEFINE l == lock[c]
             payload == [state |-> "lock", claims |-> claims[c], stale |-> FALSE, racing |-> Racing(c)]
  <2>1. l \in LockIds /\ pc[c] = "write"
      BY <1>3 DEF WriteLock, QueueType
  <2>2. /\ UNCHANGED <<lock, claims>> /\ pc'[c] = "ledger_claim"
        /\ \A d \in Controllers \ {c} : pc'[d] = pc[d]
      BY <1>3 DEF WriteLock, Goto, QueueType
  <2>3. CASE active' = active \/ active' = [active EXCEPT ![l] = Torn]
    <3>1. \A m \in LockIds : Readable(m)' => Readable(m) /\ active'[m] = active[m]
        BY <2>1, <2>3 DEF QueueType, Readable, Torn
    <3>2. \A d \in Controllers : pc'[d] \in {"exists", "open", "write"} =>
              pc[d] \in {"exists", "open", "write"} /\ lock'[d] = lock[d] /\ claims'[d] = claims[d]
        BY <2>2
    <3>3. \A m \in LockIds : Readable(m)' => /\ Readable(m)
                                            /\ active'[m].claims = active[m].claims
                                            /\ active'[m].racing = active[m].racing
        BY <3>1
    <3> QED BY <3>2, <3>3, OverlapFrame
  <2>4. CASE active' = [active EXCEPT ![l] = payload]
    <3>1. active'[l] = payload /\ \A m \in LockIds \ {l} : active'[m] = active[m]
        BY <2>1, <2>4 DEF QueueType
    <3>2. \A m \in LockIds \ {l} : Readable(m) /\ active[m].claims \cap payload.claims # {} => l \in active[m].racing
        BY <2>1 DEF OverlapInv, PendingClaimsSeen
    <3>3. OverlapOnlyByRace'
        BY <3>1, <3>2 DEF OverlapInv, OverlapOnlyByRace, Readable
    <3>4. \A d \in Controllers \ {c} : pc[d] \in {"exists", "open", "write"} => lock[d] \in payload.racing
        BY DEF Racing
    <3>5. PendingClaimsSeen'
        BY <2>2, <3>1, <3>4 DEF OverlapInv, PendingClaimsSeen, Readable
    <3> QED BY <3>3, <3>5 DEF OverlapInv
  <2> QED BY <1>3, <2>3, <2>4 DEF WriteLock
<1>4. ASSUME NEW c \in Controllers, OpenLock(c) \/ UnlinkActive(c) PROVE OverlapInv'
  <2>1. \A m \in LockIds : Readable(m)' => Readable(m) /\ active'[m] = active[m]
      BY <1>4 DEF OpenLock, UnlinkActive, Readable, QueueType, Torn, Absent
  <2> QED BY <1>4, <2>1, OverlapFrame DEF OpenLock, UnlinkActive, Goto, Return, QueueType
<1>5. SUFFICES ASSUME active' = active,
                      \A d \in Controllers : pc'[d] \in {"exists", "open", "write"} =>
                          pc[d] \in {"exists", "open", "write"} /\ lock'[d] = lock[d] /\ claims'[d] = claims[d]
               PROVE  OverlapInv'
  <2>1. CASE \E c \in Controllers :
                 \/ LookForPath(c) \/ LedgerClaim(c) \/ OpenCompleted(c) \/ WriteCompleted(c)
                 \/ LedgerRelease(c) \/ Crash(c)
      BY <1>5, <2>1 DEF LookForPath, LedgerClaim, OpenCompleted, WriteCompleted, LedgerRelease, Crash,
                        Goto, Return, queueVars, QueueType
  <2>2. CASE \E c \in Controllers, wanted \in SUBSET Resources : CheckBlocked(c, wanted)
      BY <1>5, <2>2 DEF CheckBlocked, Goto, Return, queueVars, QueueType
  <2>3. CASE \E c \in Controllers, l \in LockIds : ReadActive(c, l) \/ ReadFails(c, l)
      BY <1>5, <2>3 DEF ReadActive, ReadFails, Goto, Return, queueVars, QueueType
  <2>4. CASE UNCHANGED vars
      BY <1>5, <2>4 DEF vars, queueVars, callVars
  <2> QED BY <1>1, <1>2, <1>3, <1>4, <2>1, <2>2, <2>3, <2>4 DEF Next
<1> QED BY <1>5, OverlapFrame DEF Readable

LEMMA QueueInit == Init => QueueType /\ OverlapInv
BY QueueAssumption DEF Init, QueueType, Files, Replies, OverlapInv, OverlapOnlyByRace, PendingClaimsSeen, Readable, Absent

\* Whatever runs in parallel, dies, releases or re-uses a lock_id: two readable
\* locks overlap only when their claims were in flight at the same time.
THEOREM OverlapsRaced == Spec => []OverlapOnlyByRace
<1>1. QueueType /\ OverlapInv /\ [Next]_vars => (QueueType /\ OverlapInv)'
    BY QueueTypeStep, OverlapStep
<1>2. OverlapInv => OverlapOnlyByRace
    BY DEF OverlapInv
<1> QED BY QueueInit, <1>1, <1>2, PTL DEF Spec

-----------------------------------------------------------------------------
(* ClaimTraceable *)

\* The lock's file is among the active or the completed locks.
Traced(l) == active[l] # Absent \/ completed[l] # "absent"

\* A claim that has opened its file finds it, or an archived copy, until its
\* ledger entry; a release unlinks only after it has archived.
CallsTraced ==
    \A c \in Controllers :
        /\ pc[c] \in {"write", "ledger_claim"} => Traced(lock[c])
        /\ pc[c] \in {"archive_write", "unlink"} => completed[lock[c]] # "absent"

TraceInv == ClaimTraceable /\ CallsTraced

\* A trace is never lost: nothing deletes a completed lock, and an active one
\* is unlinked by a call that has archived it.
LEMMA TraceStays ==
    ASSUME QueueType, TraceInv, [Next]_vars, NEW l \in LockIds
    PROVE  /\ completed[l] # "absent" => completed'[l] # "absent"
           /\ Traced(l) => Traced(l)'
<1>1. CASE UNCHANGED <<active, completed>>
    BY <1>1 DEF Traced
<1>2. CASE \E c \in Controllers : OpenLock(c) \/ WriteLock(c)
  <2>1. PICK c \in Controllers : OpenLock(c) \/ WriteLock(c)
      BY <1>2
  <2>2. lock[c] \in LockIds /\ completed' = completed
      BY <2>1 DEF OpenLock, WriteLock, QueueType
  <2>3. active[l] # Absent => active'[l] # Absent
      BY <2>1, <2>2 DEF OpenLock, WriteLock, QueueType, Torn, Absent
  <2> QED BY <2>2, <2>3 DEF Traced
<1>3. CASE \E c \in Controllers : OpenCompleted(c) \/ WriteCompleted(c)
    BY <1>3 DEF OpenCompleted, WriteCompleted, Traced, QueueType
<1>4. CASE \E c \in Controllers : UnlinkActive(c)
    BY <1>4 DEF UnlinkActive, Traced, QueueType, TraceInv, CallsTraced
<1>5. CASE \E m \in LockIds : GrowStale(m)
  <2>1. PICK m \in LockIds : GrowStale(m)
      BY <1>5
  <2>2. active[m] \in Payloads
      BY <2>1 DEF GrowStale, Readable, QueueType, Files, Absent, Torn
  <2>3. [active[m] EXCEPT !.stale = TRUE].state = "lock"
      BY <2>2 DEF Payloads
  <2>4. completed' = completed /\ (active[l] # Absent => active'[l] # Absent)
      BY <2>1, <2>3 DEF GrowStale, QueueType, Absent
  <2> QED BY <2>4 DEF Traced
<1>6. CASE \E c \in Controllers : LookForPath(c) \/ LedgerClaim(c) \/ LedgerRelease(c) \/ Crash(c)
    BY <1>1, <1>6 DEF LookForPath, LedgerClaim, LedgerRelease, Crash, queueVars
<1>7. CASE \E c \in Controllers, wanted \in SUBSET Resources, m \in LockIds :
               CheckBlocked(c, wanted) \/ CheckPasses(c, m, wanted) \/ ReadActive(c, m) \/ ReadFails(c, m)
    BY <1>1, <1>7 DEF CheckBlocked, CheckPasses, ReadActive, ReadFails, queueVars
<1>8. CASE UNCHANGED vars
    BY <1>1, <1>8 DEF vars, queueVars
<1> QED BY <1>2, <1>3, <1>4, <1>5, <1>6, <1>7, <1>8 DEF Next

\* Where a call in one of those steps was before the step.
CallOrigin(c) ==
    /\ pc'[c] \in {"write", "ledger_claim"} =>
          lock'[c] = lock[c] /\ (pc[c] \in {"write", "ledger_claim"} \/ OpenLock(c))
    /\ pc'[c] \in {"archive_write", "unlink"} =>
          lock'[c] = lock[c] /\ (pc[c] \in {"archive_write", "unlink"} \/ OpenCompleted(c))

\* A call reaches them only by its open, or by opening the archive.
LEMMA CallOrigins ==
    ASSUME QueueType, [Next]_vars, NEW c \in Controllers
    PROVE  CallOrigin(c)
<1>1. CASE \E l \in LockIds : GrowStale(l)
    BY <1>1 DEF GrowStale, callVars, CallOrigin
<1>2. ASSUME NEW d \in Controllers,
             LookForPath(d) \/ OpenLock(d) \/ WriteLock(d) \/ LedgerClaim(d)
      PROVE  CallOrigin(c)
    BY <1>2 DEF LookForPath, OpenLock, WriteLock, LedgerClaim, Goto, Return, QueueType, CallOrigin
<1>3. ASSUME NEW d \in Controllers,
             OpenCompleted(d) \/ WriteCompleted(d) \/ UnlinkActive(d) \/ LedgerRelease(d) \/ Crash(d)
      PROVE  CallOrigin(c)
    BY <1>3 DEF OpenCompleted, WriteCompleted, UnlinkActive, LedgerRelease, Crash, Goto, Return, QueueType, CallOrigin
<1>4. ASSUME NEW d \in Controllers, NEW wanted \in SUBSET Resources, NEW l \in LockIds,
             CheckPasses(d, l, wanted) \/ ReadActive(d, l) \/ ReadFails(d, l)
      PROVE  CallOrigin(c)
    BY <1>4 DEF CheckPasses, ReadActive, ReadFails, Goto, Return, QueueType, CallOrigin
<1>5. ASSUME NEW d \in Controllers, NEW wanted \in SUBSET Resources, CheckBlocked(d, wanted)
      PROVE  CallOrigin(c)
    BY <1>5 DEF CheckBlocked, Goto, Return, QueueType, CallOrigin
<1>6. CASE UNCHANGED vars
    BY <1>6 DEF vars, callVars, CallOrigin
<1> QED BY <1>1, <1>2, <1>3, <1>4, <1>5, <1>6 DEF Next

LEMMA CallsTracedStep ==
    ASSUME QueueType, TraceInv, [Next]_vars
    PROVE  CallsTraced'
<1> SUFFICES ASSUME NEW c \in Controllers
             PROVE  /\ pc'[c] \in {"write", "ledger_claim"} => Traced(lock[c])'
                    /\ pc'[c] \in {"archive_write", "unlink"} => completed'[lock'[c]] # "absent"
    BY DEF CallsTraced
<1>1. CallOrigin(c)
    BY CallOrigins
<1>2. pc[c] # "idle" => lock[c] \in LockIds
    BY DEF QueueType
<1>3. ASSUME pc'[c] \in {"write", "ledger_claim"} PROVE Traced(lock[c])'
  <2>1. CASE pc[c] \in {"write", "ledger_claim"}
      BY <1>1, <1>2, <1>3, <2>1, TraceStays DEF TraceInv, CallsTraced, CallOrigin, Traced
  <2>2. CASE OpenLock(c)
      BY <1>2, <2>2 DEF OpenLock, QueueType, Traced, Torn, Absent
  <2> QED BY <1>1, <1>3, <2>1, <2>2 DEF CallOrigin
<1>4. ASSUME pc'[c] \in {"archive_write", "unlink"} PROVE completed'[lock'[c]] # "absent"
  <2>1. CASE pc[c] \in {"archive_write", "unlink"}
      BY <1>1, <1>2, <1>4, <2>1, TraceStays DEF TraceInv, CallsTraced, CallOrigin
  <2>2. CASE OpenCompleted(c)
      BY <1>2, <2>2 DEF OpenCompleted, QueueType
  <2> QED BY <1>1, <1>4, <2>1, <2>2 DEF CallOrigin
<1> QED BY <1>3, <1>4

\* The ledger shows a lock as claimed only once its claim is through.
LEMMA ClaimTraceableStep ==
    ASSUME QueueType, TraceInv, [Next]_vars
    PROVE  ClaimTraceable'
<1> SUFFICES ASSUME NEW l \in LockIds, ledger'[l].claimed > 0
             PROVE  Traced(l)'
    BY DEF ClaimTraceable, Traced
<1>1. CASE ledger' = ledger
    BY <1>1, TraceStays DEF TraceInv, ClaimTraceable, Traced
<1>2. CASE \E c \in Controllers : LedgerClaim(c)
  <2>1. PICK c \in Controllers : LedgerClaim(c)
      BY <1>2
  <2>2. lock[c] \in LockIds /\ Traced(lock[c])
      BY <2>1 DEF LedgerClaim, QueueType, TraceInv, CallsTraced
  <2>3. l # lock[c] => ledger'[l] = ledger[l]
      BY <2>1, <2>2 DEF LedgerClaim, QueueType
  <2> QED BY <2>2, <2>3, TraceStays DEF TraceInv, ClaimTraceable, Traced
<1>3. CASE \E c \in Controllers : LedgerRelease(c)
  <2>1. PICK c \in Controllers : LedgerRelease(c)
      BY <1>3
  <2>2. lock[c] \in LockIds
      BY <2>1 DEF LedgerRelease, QueueType
  <2>3. ledger'[l].claimed = ledger[l].claimed
      BY <2>1, <2>2 DEF LedgerRelease, QueueType
  <2> QED BY <2>3, TraceStays DEF TraceInv, ClaimTraceable, Traced
<1>4. CASE \E c \in Controllers :
               \/ LookForPath(c) \/ OpenLock(c) \/ WriteLock(c)
               \/ OpenCompleted(c) \/ WriteCompleted(c) \/ UnlinkActive(c) \/ Crash(c)
    BY <1>1, <1>4 DEF LookForPath, OpenLock, WriteLock, OpenCompleted, WriteCompleted, UnlinkActive, Crash, queueVars
<1>5. CASE \E c \in Controllers, wanted \in SUBSET Resources, m \in LockIds :
               CheckBlocked(c, wanted) \/ CheckPasses(c, m, wanted) \/ ReadActive(c, m) \/ ReadFails(c, m)
    BY <1>1, <1>5 DEF CheckBlocked, CheckPasses, ReadActive, ReadFails, queueVars
<1>6. CASE \E m \in LockIds : GrowStale(m)
    BY <1>1, <1>6 DEF GrowStale
<1>7. CASE UNCHANGED vars
    BY <1>1, <1>7 DEF vars, queueVars
<1> QED BY <1>2, <1>3, <1>4, <1>5, <1>6, <1>7 DEF Next

LEMMA TraceInit == Init => TraceInv
BY DEF Init, TraceInv, ClaimTraceable, CallsTraced

\* Whoever dies half way, and however often a lock_id is used again: a lock that
\* the ledger shows as claimed has a file, active or completed.
THEOREM ClaimsTraced == Spec => []ClaimTraceable
<1>1. QueueType /\ TraceInv /\ [Next]_vars => (QueueType /\ TraceInv)'
    BY QueueTypeStep, ClaimTraceableStep, CallsTracedStep DEF TraceInv
<1>2. TraceInv => ClaimTraceable
    BY DEF TraceInv
<1> QED BY QueueInit, TraceInit, <1>1, <1>2, PTL DEF Spec
-----------------------------------------------------------------------------
(* The counters *)

\* The calls for a lock that may still create its file, that have claimed it and will
\* say so, that have unlinked it and will say so.
Opening(l) == {c \in Controllers : lock[c] = l /\ pc[c] \in {"exists", "open"}}
Claiming(l) == {c \in Controllers : lock[c] = l /\ pc[c] \in InClaim}
Unlinked(l) == {c \in Controllers : lock[c] = l /\ pc[c] = "ledger_release"}

One(b) == IF b THEN 1 ELSE 0

\* Each release in the ledger, each one under way and the file itself stand for another
\* creation of the file; each creation and each claim for another claim that passed.
Counts ==
    \A l \in LockIds :
        /\ ledger[l].released + Cardinality(Unlinked(l)) + One(active[l] # Absent) <= created[l]
        /\ created[l] + Cardinality(Opening(l)) <= claimed
        /\ ledger[l].claimed + Cardinality(Claiming(l)) <= claimed

LEMMA CallsFinite ==
    ASSUME NEW S \in SUBSET Controllers
    PROVE  IsFiniteSet(S) /\ Cardinality(S) \in Nat
<1>1. IsFiniteSet(S)
    BY FS_Subset, QueueAssumption
<1> QED BY <1>1, FS_CardinalityType

\* Sets that agree but for one element differ by it in number.
LEMMA OneMoves ==
    ASSUME NEW S \in SUBSET Controllers, NEW T \in SUBSET Controllers, NEW c, S \ {c} = T \ {c}
    PROVE  Cardinality(T) + One(c \in S) = Cardinality(S) + One(c \in T)
<1>1. /\ Cardinality(S \ {c}) = IF c \in S THEN Cardinality(S) - 1 ELSE Cardinality(S)
      /\ Cardinality(T \ {c}) = IF c \in T THEN Cardinality(T) - 1 ELSE Cardinality(T)
    BY CallsFinite, FS_RemoveElement
<1>2. Cardinality(S) \in Nat /\ Cardinality(T) \in Nat
    BY CallsFinite
<1> QED BY <1>1, <1>2 DEF One

\* What the step of one call does to the numbers of calls.
CallCounts(c, l) ==
    /\ Cardinality(Unlinked(l))' + One(lock[c] = l /\ pc[c] = "ledger_release")
         = Cardinality(Unlinked(l)) + One(lock'[c] = l /\ pc'[c] = "ledger_release")
    /\ Cardinality(Opening(l))' + One(lock[c] = l /\ pc[c] \in {"exists", "open"})
         = Cardinality(Opening(l)) + One(lock'[c] = l /\ pc'[c] \in {"exists", "open"})
    /\ Cardinality(Claiming(l))' + One(lock[c] = l /\ pc[c] \in InClaim)
         = Cardinality(Claiming(l)) + One(lock'[c] = l /\ pc'[c] \in InClaim)

Numbers(l) ==
    {Cardinality(Unlinked(l)), Cardinality(Opening(l)), Cardinality(Claiming(l))} \subseteq Nat

LEMMA CallMoves ==
    ASSUME NEW c \in Controllers, NEW l,
           \A d \in Controllers \ {c} : pc'[d] = pc[d] /\ lock'[d] = lock[d]
    PROVE  CallCounts(c, l)
<1>1. Unlinked(l) \ {c} = Unlinked(l)' \ {c} /\ Opening(l) \ {c} = Opening(l)' \ {c}
      /\ Claiming(l) \ {c} = Claiming(l)' \ {c}
    BY DEF Unlinked, Opening, Claiming
<1>2. \A S \in {Unlinked(l), Unlinked(l)', Opening(l), Opening(l)', Claiming(l), Claiming(l)'} :
          S \in SUBSET Controllers
    BY DEF Unlinked, Opening, Claiming
<1>3. Cardinality(Unlinked(l)') + One(c \in Unlinked(l))
        = Cardinality(Unlinked(l)) + One(c \in Unlinked(l)')
    BY <1>1, <1>2, OneMoves
<1>4. Cardinality(Opening(l)') + One(c \in Opening(l))
        = Cardinality(Opening(l)) + One(c \in Opening(l)')
    BY <1>1, <1>2, OneMoves
<1>5. Cardinality(Claiming(l)') + One(c \in Claiming(l))
        = Cardinality(Claiming(l)) + One(c \in Claiming(l)')
    BY <1>1, <1>2, OneMoves
<1>6. /\ c \in Unlinked(l) <=> lock[c] = l /\ pc[c] = "ledger_release"
      /\ c \in Unlinked(l)' <=> lock'[c] = l /\ pc'[c] = "ledger_release"
      /\ c \in Opening(l) <=> lock[c] = l /\ pc[c] \in {"exists", "open"}
      /\ c \in Opening(l)' <=> lock'[c] = l /\ pc'[c] \in {"exists", "open"}
      /\ c \in Claiming(l) <=> lock[c] = l /\ pc[c] \in InClaim
      /\ c \in Claiming(l)' <=> lock'[c] = l /\ pc'[c] \in InClaim
    BY DEF Unlinked, Opening, Claiming
<1> QED BY <1>3, <1>4, <1>5, <1>6 DEF CallCounts, One

LEMMA NumbersNat == ASSUME NEW l PROVE Numbers(l) /\ Numbers(l)'
<1>1. \A S \in {Unlinked(l), Unlinked(l)', Opening(l), Opening(l)', Claiming(l), Claiming(l)'} :
          S \in SUBSET Controllers
    BY DEF Unlinked, Opening, Claiming
<1> QED BY <1>1, CallsFinite DEF Numbers

CountsAt(l) ==
    /\ ledger[l].released + Cardinality(Unlinked(l)) + One(active[l] # Absent) <= created[l]
    /\ created[l] + Cardinality(Opening(l)) <= claimed
    /\ ledger[l].claimed + Cardinality(Claiming(l)) <= claimed

LEMMA CountsStep ==
    ASSUME QueueType, QueueType', Counts, [Next]_vars
    PROVE  Counts'
<1> SUFFICES ASSUME NEW l \in LockIds PROVE CountsAt(l)'
    BY DEF Counts, CountsAt
<1>1. CountsAt(l)
    BY DEF Counts, CountsAt
<1>2. /\ {ledger[l].released, ledger[l].claimed, created[l], claimed} \subseteq Nat
      /\ {ledger'[l].released, ledger'[l].claimed, created'[l], claimed'} \subseteq Nat
    BY QueueAssumption DEF QueueType
<1>3. Numbers(l) /\ Numbers(l)'
    BY NumbersNat
<1> USE <1>1, <1>2, <1>3 DEF Numbers, CountsAt
\* Steps of one call c that change neither the ledger nor the files' existence.
<1>4. ASSUME NEW c \in Controllers,
             LookForPath(c) \/ WriteLock(c) \/ OpenCompleted(c) \/ WriteCompleted(c) \/ Crash(c)
      PROVE  CountsAt(l)'
  <2>1. CallCounts(c, l)
      BY <1>4, CallMoves DEF LookForPath, WriteLock, OpenCompleted, WriteCompleted, Crash, Goto,
         Return, QueueType
  <2>2. UNCHANGED <<ledger, created, claimed>> /\ (active'[l] # Absent <=> active[l] # Absent)
      BY <1>4 DEF LookForPath, WriteLock, OpenCompleted, WriteCompleted, Crash, queueVars, Absent,
         Torn, QueueType
  <2>3. /\ pc'[c] = "ledger_release" => lock'[c] = lock[c] /\ pc[c] = "ledger_release"
        /\ pc'[c] \in {"exists", "open"} => lock'[c] = lock[c] /\ pc[c] \in {"exists", "open"}
        /\ pc'[c] \in InClaim => lock'[c] = lock[c] /\ pc[c] \in InClaim
      BY <1>4 DEF LookForPath, WriteLock, OpenCompleted, WriteCompleted, Crash, Goto, Return,
         QueueType, InClaim
  <2> QED BY <2>1, <2>2, <2>3 DEF CallCounts, One
<1>5. ASSUME NEW c \in Controllers, OpenLock(c) PROVE CountsAt(l)'
  <2>1. CallCounts(c, l)
      BY <1>5, CallMoves DEF OpenLock, Goto, QueueType
  <2>2. /\ UNCHANGED <<ledger, claimed, lock>> /\ pc[c] = "open" /\ pc'[c] = "write"
        /\ lock[c] # l => active'[l] = active[l] /\ created'[l] = created[l]
        /\ lock[c] = l => active'[l] # Absent
                          /\ created'[l] = created[l] + One(active[l] = Absent)
      BY <1>5 DEF OpenLock, Goto, QueueType, Torn, Absent, One
  <2> QED BY <2>1, <2>2 DEF CallCounts, One, InClaim
<1>6. ASSUME NEW c \in Controllers, LedgerClaim(c) PROVE CountsAt(l)'
  <2>1. CallCounts(c, l)
      BY <1>6, CallMoves DEF LedgerClaim, Goto, Return, QueueType
  <2>2. /\ UNCHANGED <<active, created, claimed>> /\ pc[c] = "ledger_claim" /\ pc'[c] = "idle"
        /\ ledger'[l].released = ledger[l].released
        /\ ledger'[l].claimed = ledger[l].claimed + One(lock[c] = l)
      BY <1>6 DEF LedgerClaim, Goto, Return, QueueType, One
  <2> QED BY <2>1, <2>2 DEF CallCounts, One, InClaim
<1>7. ASSUME NEW c \in Controllers, UnlinkActive(c) PROVE CountsAt(l)'
  <2>1. CallCounts(c, l)
      BY <1>7, CallMoves DEF UnlinkActive, Goto, Return, QueueType
  <2>2. /\ UNCHANGED <<ledger, created, claimed>> /\ pc[c] = "unlink"
        /\ lock[c] # l => active'[l] = active[l]
        /\ lock[c] = l => active'[l] = Absent
        /\ pc'[c] \in {"idle", "ledger_release"}
        /\ pc'[c] = "ledger_release" => lock'[c] = lock[c] /\ active[lock[c]] # Absent
      BY <1>7 DEF UnlinkActive, Goto, Return, QueueType
  <2> QED BY <2>1, <2>2 DEF CallCounts, One, InClaim
<1>8. ASSUME NEW c \in Controllers, LedgerRelease(c) PROVE CountsAt(l)'
  <2>1. CallCounts(c, l)
      BY <1>8, CallMoves DEF LedgerRelease, Goto, Return, QueueType
  <2>2. /\ UNCHANGED <<active, created, claimed>> /\ pc[c] = "ledger_release" /\ pc'[c] = "idle"
        /\ ledger'[l].claimed = ledger[l].claimed
        /\ ledger'[l].released = ledger[l].released + One(lock[c] = l)
      BY <1>8 DEF LedgerRelease, Goto, Return, QueueType, One
  <2> QED BY <2>1, <2>2 DEF CallCounts, One, InClaim
<1>9. ASSUME NEW c \in Controllers, NEW wanted \in SUBSET Resources, NEW m \in LockIds,
             CheckPasses(c, m, wanted)
      PROVE  CountsAt(l)'
  <2>1. CallCounts(c, l)
      BY <1>9, CallMoves DEF CheckPasses, Goto, QueueType
  <2>2. /\ UNCHANGED <<active, ledger, created>> /\ claimed' = claimed + 1
        /\ pc[c] = "idle" /\ pc'[c] = "exists"
      BY <1>9 DEF CheckPasses, Goto, QueueType, queueVars
  <2> QED BY <2>1, <2>2 DEF CallCounts, One, InClaim
\* Calls that end at once, and releases that begin.
<1>10. ASSUME NEW c \in Controllers, NEW wanted \in SUBSET Resources, NEW m \in LockIds,
              CheckBlocked(c, wanted) \/ ReadActive(c, m) \/ ReadFails(c, m)
       PROVE  CountsAt(l)'
  <2>1. CallCounts(c, l)
      BY <1>10, CallMoves DEF CheckBlocked, ReadActive, ReadFails, Goto, Return, QueueType
  <2>2. /\ UNCHANGED <<active, ledger, created, claimed>>
        /\ pc[c] = "idle" /\ pc'[c] \in {"idle", "archive_open"}
      BY <1>10 DEF CheckBlocked, ReadActive, ReadFails, Goto, Return, QueueType, queueVars
  <2> QED BY <2>1, <2>2 DEF CallCounts, One, InClaim
<1>11. ASSUME NEW m \in LockIds, GrowStale(m) PROVE CountsAt(l)'
  <2>1. active[m] \in Payloads
      BY <1>11 DEF GrowStale, Readable, QueueType, Files, Absent, Torn
  <2>2. [active[m] EXCEPT !.stale = TRUE].state = "lock"
      BY <2>1 DEF Payloads
  <2>3. /\ UNCHANGED <<ledger, pc, lock, created, claimed>>
        /\ active'[l] # Absent => active[l] # Absent
      BY <1>11, <2>2 DEF GrowStale, Readable, callVars, QueueType, Absent
  <2>4. UNCHANGED <<Unlinked(l), Opening(l), Claiming(l)>>
      BY <2>3 DEF Unlinked, Opening, Claiming
  <2> QED BY <2>3, <2>4 DEF One
<1>12. CASE UNCHANGED vars
  <2>1. UNCHANGED <<Unlinked(l), Opening(l), Claiming(l)>>
      BY <1>12 DEF vars, callVars, Unlinked, Opening, Claiming
  <2> QED BY <1>12, <2>1 DEF vars, queueVars
<1>13. CASE \E c \in Controllers, wanted \in (SUBSET Resources) \ {{}} :
                CheckBlocked(c, wanted) \/ \E m \in LockIds : CheckPasses(c, m, wanted)
    BY <1>9, <1>10, <1>13
<1> QED BY <1>4, <1>5, <1>6, <1>7, <1>8, <1>10, <1>11, <1>12, <1>13 DEF Next

LEMMA CountsInit == Init => Counts
<1> SUFFICES ASSUME Init, NEW l \in LockIds PROVE CountsAt(l)
    BY DEF Counts, CountsAt
<1>1. Unlinked(l) = {} /\ Opening(l) = {} /\ Claiming(l) = {}
    BY DEF Init, Unlinked, Opening, Claiming, InClaim
<1> QED BY <1>1, FS_EmptySet DEF Init, CountsAt, One

LEMMA CountsHold == Spec => [](QueueType /\ Counts)
<1>1. QueueType /\ Counts /\ [Next]_vars => (QueueType /\ Counts)'
    BY QueueTypeStep, CountsStep
<1> QED BY QueueInit, CountsInit, <1>1, PTL DEF Spec

\* Two releases of one lock, or a release after one that died, never put more releases
\* into the ledger than there were lock files.
THEOREM ReleasesCounted == Spec => []ReleasedOncePerLock
<1>1. QueueType /\ Counts => ReleasedOncePerLock
  <2> SUFFICES ASSUME QueueType, Counts, NEW l \in LockIds PROVE ledger[l].released <= created[l]
      BY DEF ReleasedOncePerLock
  <2>1. Numbers(l) /\ ledger[l].released \in Nat /\ created[l] \in Nat
      BY NumbersNat DEF QueueType
  <2> QED BY <2>1 DEF Counts, Numbers, One
<1> QED BY <1>1, CountsHold, PTL

\* Type correctness, with the bounds on the counters: the ledger never shows more claims
\* or releases than claims that passed the check.
THEOREM QueueTypeCorrect == Spec => []TypeOK
<1>1. ASSUME QueueType, Counts PROVE TypeOK
  <2>1. ASSUME NEW l \in LockIds
        PROVE  /\ created[l] \in 0..MaxClaims
               /\ ledger[l].claimed \in 0..MaxClaims /\ ledger[l].released \in 0..MaxClaims
    <3>1. /\ Numbers(l) /\ claimed \in 0..MaxClaims
          /\ {ledger[l].released, ledger[l].claimed, created[l]} \subseteq Nat
        BY <1>1, NumbersNat DEF QueueType
    <3> QED BY <1>1, <3>1, QueueAssumption DEF Counts, Numbers, One
  <2>2. created \in [LockIds -> 0..MaxClaims]
      BY <1>1, <2>1 DEF QueueType
  <2>3. ledger \in [LockIds -> [claimed : 0..MaxClaims, released : 0..MaxClaims]]
    <3>1. \A l \in LockIds : ledger[l] \in [claimed : 0..MaxClaims, released : 0..MaxClaims]
        BY <1>1, <2>1 DEF QueueType
    <3> QED BY <1>1, <3>1 DEF QueueType
  <2> QED BY <1>1, <2>2, <2>3 DEF QueueType, TypeOK
<1>2. QueueType /\ Counts => TypeOK
    BY <1>1
<1> QED BY <1>2, CountsHold, PTL

-----------------------------------------------------------------------------
(* A claim that died while it wrote *)

\* The file of lock l does not parse, and no call is past its look for it.
Abandoned(l) ==
    /\ active[l] = Torn
    /\ \A c \in Controllers : lock[c] = l => pc[c] \in {"idle", "exists"}

\* What an abandoned lock leaves in the directories and in the ledger is never touched.
AbandonedStays ==
    [][\A l \in LockIds :
          Abandoned(l) => Abandoned(l)' /\ UNCHANGED <<active[l], completed[l], ledger[l]>>]_vars

\* A torn file exists and is not readable, so a call of its lock_id ends where it begins.
LEMMA AbandonedStep ==
    ASSUME QueueType, [Next]_vars, NEW l \in LockIds, Abandoned(l)
    PROVE  Abandoned(l)' /\ UNCHANGED <<active[l], completed[l], ledger[l]>>
<1> USE DEF Abandoned, Torn, Absent, Readable, Return, Goto, QueueType, queueVars, callVars
<1>1. ASSUME NEW m \in LockIds, GrowStale(m)
      PROVE  Abandoned(l)' /\ UNCHANGED <<active[l], completed[l], ledger[l]>>
    BY <1>1 DEF GrowStale
<1>2. ASSUME NEW c \in Controllers, NEW wanted, CheckBlocked(c, wanted) \/ \E m \in LockIds : CheckPasses(c, m, wanted)
      PROVE  Abandoned(l)' /\ UNCHANGED <<active[l], completed[l], ledger[l]>>
    BY <1>2, QueueAssumption DEF CheckBlocked, CheckPasses
<1>3. ASSUME NEW c \in Controllers, LookForPath(c) \/ Crash(c)
      PROVE  Abandoned(l)' /\ UNCHANGED <<active[l], completed[l], ledger[l]>>
    BY <1>3, QueueAssumption DEF LookForPath, Crash
<1>4. ASSUME NEW c \in Controllers, OpenLock(c) \/ WriteLock(c) \/ LedgerClaim(c)
      PROVE  Abandoned(l)' /\ UNCHANGED <<active[l], completed[l], ledger[l]>>
  <2>1. lock[c] # l
      BY <1>4 DEF OpenLock, WriteLock, LedgerClaim
  <2> QED BY <1>4, <2>1, QueueAssumption DEF OpenLock, WriteLock, LedgerClaim
<1>5. ASSUME NEW c \in Controllers, OpenCompleted(c) \/ WriteCompleted(c) \/ UnlinkActive(c) \/ LedgerRelease(c)
      PROVE  Abandoned(l)' /\ UNCHANGED <<active[l], completed[l], ledger[l]>>
  <2>1. lock[c] # l
      BY <1>5 DEF OpenCompleted, WriteCompleted, UnlinkActive, LedgerRelease
  <2> QED BY <1>5, <2>1, QueueAssumption DEF OpenCompleted, WriteCompleted, UnlinkActive, LedgerRelease
<1>6. ASSUME NEW c \in Controllers, NEW m \in LockIds, ReadActive(c, m) \/ ReadFails(c, m)
      PROVE  Abandoned(l)' /\ UNCHANGED <<active[l], completed[l], ledger[l]>>
    BY <1>6, QueueAssumption DEF ReadActive, ReadFails
<1>7. CASE UNCHANGED vars
    BY <1>7 DEF vars
<1> QED BY <1>1, <1>2, <1>3, <1>4, <1>5, <1>6, <1>7 DEF Next

\* A claim that dies between the truncation of its file and the text blocks its lock_id for
\* ever: no later claim writes that file, no release reads or archives it, and as the file
\* is not readable it guards nothing (controller_queue.py:412, 419, 448).
THEOREM TornLockStays == Spec => AbandonedStays
<1>1. Init => QueueType
    BY QueueInit
<1>2. QueueType /\ [Next]_vars => QueueType'
    BY QueueTypeStep
<1>3. QueueType /\ [Next]_vars =>
        [\A l \in LockIds : Abandoned(l) => Abandoned(l)' /\ UNCHANGED <<active[l], completed[l], ledger[l]>>]_vars
    BY AbandonedStep
<1> QED BY <1>1, <1>2, <1>3, PTL DEF Spec, AbandonedStays
=============================================================================
