--------------------------- MODULE OrderRateLimiter ---------------------------
(***************************************************************************)
(* The rate limit of order operations of one account and action:           *)
(* InMemoryRateLimiter.check of app/api/guards.py, called by every API     *)
(* thread that places or cancels.  The clock is read before the lock is    *)
(* taken, so threads may enter in another order than their times.          *)
(***************************************************************************)
EXTENDS Integers, Sequences, Functions

CONSTANTS
    Threads,
    MaxOps, Window,   \* max_ops and window_sec
    LastTime,         \* bound: of the clock
    NotRead

ASSUME LimiterAssumption ==
    /\ MaxOps \in Nat \ {0} /\ Window \in Nat /\ LastTime \in Nat
    /\ NotRead \notin Nat

VARIABLES
    clock,      \* time.monotonic()
    read,       \* of each thread between the reading of the clock and the lock
    entries,    \* the deque of the key
    admitted,   \* history: operations allowed, by the time of their check
    reordered   \* history: a check entered after one with a later time

lim_vars == <<clock, read, entries, admitted, reordered>>

LimTypeOK ==
    /\ clock \in 0..LastTime
    /\ read \in [Threads -> 0..LastTime \cup {NotRead}]
    /\ entries \in Seq(0..LastTime)
    /\ Len(entries) <= MaxOps
    /\ admitted \in [0..LastTime -> Nat]
    /\ reordered \in BOOLEAN

LimiterInit ==
    /\ clock = 0
    /\ read = [t \in Threads |-> NotRead]
    /\ entries = <<>>
    /\ admitted = [u \in 0..LastTime |-> 0]
    /\ reordered = FALSE

Tick ==
    /\ clock < LastTime
    /\ clock' = clock + 1
    /\ UNCHANGED <<read, entries, admitted, reordered>>

ReadClock(t) ==
    /\ read[t] = NotRead
    /\ read' = [read EXCEPT ![t] = clock]
    /\ UNCHANGED <<clock, entries, admitted, reordered>>

\* The entries from the first one in S on; what is behind it stays, whatever its time.
From(S) ==
    IF S = {} THEN <<>>
    ELSE SubSeq(entries, CHOOSE i \in S : \A j \in S : i <= j, Len(entries))

\* Bug variant: an entry leaves when it is as old as the window (WindowKept).
KeptAfterExclusive(now) == From({i \in DOMAIN entries : entries[i] > now - Window})

\* The deque without the entries before its first one that is not before the floor.
KeptAfter(now) == From({i \in DOMAIN entries : entries[i] >= now - Window})

Allowed(queue) == Len(queue) < MaxOps

Check(t) ==
    /\ read[t] # NotRead
    /\ read' = [read EXCEPT ![t] = NotRead]
    /\ LET queue == KeptAfter(read[t]) IN
       IF Allowed(queue)
       THEN /\ entries' = Append(queue, read[t])
            /\ admitted' = [admitted EXCEPT ![read[t]] = @ + 1]
       ELSE entries' = queue /\ UNCHANGED admitted
    /\ reordered' = (reordered \/ \E u \in (read[t] + 1)..LastTime : admitted[u] > 0)
    /\ UNCHANGED clock

LimiterNext == Tick \/ \E t \in Threads : ReadClock(t) \/ Check(t)

LimiterSpec == LimiterInit /\ [][LimiterNext]_lim_vars

-----------------------------------------------------------------------------
(* Properties *)

\* No window holds more operations than the limit, unless a check entered after one
\* with a later time, which may have removed entries the earlier one still counts.
WindowKept ==
    ~reordered => \A u \in 0..LastTime :
        FoldFunctionOnSet(+, 0, admitted, (0..LastTime) \cap (u..(u + Window))) <= MaxOps
=============================================================================
