SPECIFICATION Spec
CONSTANTS
    c1 = c1  c2 = c2  l1 = l1  l2 = l2  file = file  issue = issue  NoLock = NoLock
    Controllers <- TwoControllers
    LockIds <- TwoLocks
    Resources <- TwoResources
    MaxClaims = 3
    MaxCrashes = 1
SYMMETRY Symmetry
INVARIANTS TypeOK OverlapOnlyByRace ReleasedOncePerLock ClaimTraceable
