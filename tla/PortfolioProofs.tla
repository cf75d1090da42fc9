--------------------------- MODULE PortfolioProofs ---------------------------
(***************************************************************************)
(* Proofs about the modules of the portfolio API: PortfolioTables,         *)
(* ManagerOrders and OrderRateLimiter, for any orders, sizes, threads,     *)
(* jobs, handlers, plans, keys and limits.                                 *)
(*                                                                         *)
(* PortfolioTables: the invariant says what a job may still rely on of     *)
(* what it has read: what is settled at the exchange stays settled, and    *)
(* what is counted of a row's fills is filled or counted twice.            *)
(* ManagerOrders: of each key whose calls neither overlapped nor died half *)
(* way, at most one call is past the look for a row, then there is no row  *)
(* yet, and an order at the exchange is that call's or is in the row.      *)
(* OrderRateLimiter: what was admitted since a time that a later check     *)
(* still counts is in the deque.                                           *)
(***************************************************************************)
EXTENDS MCPortfolio, FunctionTheorems, FiniteSums

(* PortfolioTables *)

Known(x) == state[x] # "none"
Settled(x) == state[x] \notin {"none", "resting"}

\* The fills of an order are the first ones; with the last the order is filled.
FillsInv ==
    \A x \in Externals : \E n \in 0..Lots :
        FillsOf(x, fills) = {x} \X (1..n) /\ (n = Lots => state[x] = "filled")

\* A trade is of a fill, and linked to a row of its order.
Linkage(tt) ==
    \A t \in Fills \X Kinds : tt[t] \in RowIds => t[1] \in fills /\ tt[t][1] = t[1][1]

TradesInv ==
    /\ Linkage(trades)
    /\ \A r \in RowIds : DoublyLinked(r, trades) => r \in double_counted

RowsInv ==
    /\ \A r \in RowIds : rows[r].ext => Known(r[1])
    /\ \A x \in Externals : rows[<<x, "manual">>] # NoRow => Known(x)
    /\ \A r \in RowIds :
        rows[r].status = "filled" => state[r[1]] = "filled" \/ r \in double_counted
    /\ \A r \in RowIds : rows[r].status = "expired" => Settled(r[1]) \/ r \in blind

\* A placement has its order to itself, and a manual one no row yet.
PlaceOK(j) ==
    j.work = "place" =>
        /\ j.row \in RowIds /\ j.row[2] \in {"live", "manual"} /\ j.phase \in {"ask", "write"}
        /\ j.phase = "ask" => ~Known(j.row[1])
        /\ j.phase = "write" => Known(j.row[1]) /\ j.status \in {"submitted", "open", "submit_error"}
        /\ j.row[2] = "manual" => rows[j.row] = NoRow

CancelOK(j) ==
    j.work = "cancel" =>
        j.row \in RowIds /\ rows[j.row] # NoRow /\ j.status \in {"canceled", "cancel_error"}

\* What a job has read and seen.
SeenOK(j) ==
    /\ \A r \in RowIds : j.read[r].ext => Known(r[1])
    /\ \A r \in RowIds :
        j.linked[r] >= Lots => state[r[1]] = "filled" \/ r \in double_counted
    /\ \A x \in Externals :
        /\ j.book[x] # "unseen" => Known(x)
        /\ j.book[x] = "filled" => state[x] = "filled"
    /\ ~j.unread => \A r \in RowIds :
        j.read[r].ext /\ j.book[r[1]] # "resting" => Settled(r[1])
    /\ j.listed \subseteq fills

JobInv ==
    /\ \A w \in Writers : PlaceOK(job[w]) /\ CancelOK(job[w]) /\ SeenOK(job[w])
    /\ \A v, w \in Writers :
        job[v].work = "place" /\ job[w].work = "place" /\ job[v].row[1] = job[w].row[1] => v = w

TablesInv == TypeOK /\ FillsInv /\ TradesInv /\ RowsInv /\ JobInv

-----------------------------------------------------------------------------
(* Jobs *)

LEMMA JobFields ==
    ASSUME NEW j \in Jobs
    PROVE  /\ j.work \in Works \cup {"idle"} /\ j.phase \in {"begin", "ask", "ask_trades", "write"}
           /\ j.row \in RowIds \cup {Unlinked} /\ j.status \in Statuses /\ j.ext \in BOOLEAN
           /\ j.read \in [RowIds -> [status : Statuses, ext : BOOLEAN]]
           /\ j.linked \in [RowIds -> 0..2 * Lots]
           /\ j.book \in [Externals -> {"unseen", "resting", "filled", "canceled"}]
           /\ j.listed \in SUBSET Fills /\ j.unread \in BOOLEAN
BY DEF Jobs

LEMMA IdleJob == Idle \in Jobs
<1>1. 0 \in 0..2 * Lots
  BY TablesAssumption
<1>2. NoRow \in [status : Statuses, ext : BOOLEAN]
  BY DEF NoRow, Statuses
<1>3. {} \in SUBSET Fills
  OBVIOUS
<1> QED BY <1>1, <1>2, <1>3 DEF Idle, Jobs, NoBook, Statuses

\* An idle job promises nothing.
LEMMA IdleOK == PlaceOK(Idle) /\ CancelOK(Idle) /\ SeenOK(Idle)
                /\ PlaceOK(Idle)' /\ CancelOK(Idle)' /\ SeenOK(Idle)'
BY TablesAssumption DEF Idle, PlaceOK, CancelOK, SeenOK, NoRow, NoBook, RowIds

\* What has happened at the exchange and in the trades has happened.
Forward ==
    /\ \A x \in Externals :
        /\ Known(x) => Known(x)'
        /\ Settled(x) => Settled(x)'
        /\ state[x] = "filled" => state'[x] = "filled"
    /\ fills \subseteq fills'
    /\ double_counted \subseteq double_counted'

LEMMA RowOrder == \A r \in RowIds : r[1] \in Externals /\ r[2] \in Sources
BY DEF RowIds

\* What a job has seen stays true.
LEMMA SeenKept ==
    ASSUME Forward, NEW v \in Writers, SeenOK(job[v]),
           job'[v].read = job[v].read, job'[v].linked = job[v].linked,
           job'[v].book = job[v].book, job'[v].unread = job[v].unread,
           job'[v].listed = job[v].listed
    PROVE  SeenOK(job[v])'
<1>1. /\ \A r \in RowIds : job[v].read[r].ext => Known(r[1])
      /\ \A r \in RowIds :
            job[v].linked[r] >= Lots => state[r[1]] = "filled" \/ r \in double_counted
      /\ \A x \in Externals :
            /\ job[v].book[x] # "unseen" => Known(x)
            /\ job[v].book[x] = "filled" => state[x] = "filled"
      /\ ~job[v].unread => \A r \in RowIds :
            job[v].read[r].ext /\ job[v].book[r[1]] # "resting" => Settled(r[1])
      /\ job[v].listed \subseteq fills
  BY DEF SeenOK
<1>2. \A r \in RowIds : job'[v].read[r].ext => Known(r[1])'
  BY <1>1, RowOrder DEF Forward
<1>3. \A r \in RowIds :
        job'[v].linked[r] >= Lots => state'[r[1]] = "filled" \/ r \in double_counted'
  BY <1>1, RowOrder DEF Forward
<1>4. \A x \in Externals :
        /\ job'[v].book[x] # "unseen" => Known(x)'
        /\ job'[v].book[x] = "filled" => state'[x] = "filled"
  BY <1>1 DEF Forward
<1>5. ~job'[v].unread => \A r \in RowIds :
        job'[v].read[r].ext /\ job'[v].book[r[1]] # "resting" => Settled(r[1])'
  BY <1>1, RowOrder DEF Forward
<1>6. job'[v].listed \subseteq fills'
  BY <1>1 DEF Forward
<1> QED BY <1>2, <1>3, <1>4, <1>5, <1>6 DEF SeenOK

\* A job that only looked at the lists of the exchange.
LEMMA SeenBook ==
    ASSUME NEW v \in Writers,
           job'[v].read = Idle.read, job'[v].linked = Idle.linked,
           job'[v].unread = TRUE, job'[v].listed = {},
           \A x \in Externals : /\ job'[v].book[x] # "unseen" => Known(x)'
                                /\ job'[v].book[x] = "filled" => state'[x] = "filled"
    PROVE  SeenOK(job[v])'
<1>1. \A r \in RowIds : ~job'[v].read[r].ext /\ ~(job'[v].linked[r] >= Lots)
  BY TablesAssumption DEF Idle, NoRow
<1> QED BY <1>1 DEF SeenOK

\* A job that does not move relies on what goes on.
LEMMA JobKept ==
    ASSUME JobInv, Forward, NEW v \in Writers, job'[v] = job[v],
           job[v].work = "place" =>
                /\ Known(job[v].row[1])' <=> Known(job[v].row[1])
                /\ job[v].row[2] = "manual" => rows'[job[v].row] = rows[job[v].row],
           \A r \in RowIds : rows[r] # NoRow => rows'[r] # NoRow
    PROVE  (PlaceOK(job[v]) /\ CancelOK(job[v]) /\ SeenOK(job[v]))'
<1>1. PlaceOK(job[v]) /\ CancelOK(job[v]) /\ SeenOK(job[v])
  BY DEF JobInv
<1>2. PlaceOK(job[v])'
  BY <1>1 DEF PlaceOK, Known
<1>3. CancelOK(job[v])'
  BY <1>1 DEF CancelOK
<1>4. SeenOK(job[v])'
  BY <1>1, SeenKept
<1> QED BY <1>2, <1>3, <1>4

\* The jobs after a step of w: the others rely on what goes on.
LEMMA JobStep ==
    ASSUME JobInv, Forward, NEW w \in Writers,
           \A v \in Writers \ {w} : job'[v] = job[v],
           (PlaceOK(job[w]) /\ CancelOK(job[w]) /\ SeenOK(job[w]))',
           job'[w].work = "place" => \A v \in Writers \ {w} :
                job[v].work = "place" => job[v].row[1] # job'[w].row[1],
           \A v \in Writers \ {w} : job[v].work = "place" =>
                /\ Known(job[v].row[1])' <=> Known(job[v].row[1])
                /\ job[v].row[2] = "manual" => rows'[job[v].row] = rows[job[v].row],
           \A r \in RowIds : rows[r] # NoRow => rows'[r] # NoRow
    PROVE  JobInv'
<1>1. ASSUME NEW v \in Writers, v # w
      PROVE (PlaceOK(job[v]) /\ CancelOK(job[v]) /\ SeenOK(job[v]))'
  <2>1. job'[v] = job[v]
    BY <1>1
  <2> QED BY <1>1, <2>1, JobKept
<1>2. \A v \in Writers : (PlaceOK(job[v]) /\ CancelOK(job[v]) /\ SeenOK(job[v]))'
  BY <1>1
<1>3. ASSUME NEW u \in Writers, NEW v \in Writers, job'[u].work = "place", job'[v].work = "place",
             job'[u].row[1] = job'[v].row[1]
      PROVE u = v
  BY <1>3 DEF JobInv
<1> QED BY <1>2, <1>3 DEF JobInv

-----------------------------------------------------------------------------
(* Fills and linked trades *)

LEMMA FillSets ==
    ASSUME NEW x, NEW n \in Nat
    PROVE  IsFiniteSet({x} \X (1..n)) /\ Cardinality({x} \X (1..n)) = n
<1> DEFINE f == [i \in 1..n |-> <<x, i>>]
<1>1. IsFiniteSet(1..n) /\ Cardinality(1..n) = n
  BY FS_Interval
<1>2. f \in Bijection(1..n, {x} \X (1..n))
  <2>1. f \in [1..n -> {x} \X (1..n)]
    OBVIOUS
  <2>2. \A i, j \in 1..n : f[i] = f[j] => i = j
    OBVIOUS
  <2>3. \A t \in {x} \X (1..n) : \E i \in 1..n : f[i] = t
    <3>1. ASSUME NEW t \in {x} \X (1..n) PROVE t[2] \in 1..n /\ f[t[2]] = t
      OBVIOUS
    <3> QED BY <3>1
  <2> QED BY <2>1, <2>2, <2>3, Fun_IsBij
<1>3. ExistsBijection(1..n, {x} \X (1..n))
  BY <1>2 DEF ExistsBijection
<1> QED BY <1>1, <1>3, FS_Bijection

\* How many fills an order has.
LEMMA FillCount ==
    ASSUME FillsInv, NEW x \in Externals
    PROVE  /\ IsFiniteSet(FillsOf(x, fills)) /\ Cardinality(FillsOf(x, fills)) \in 0..Lots
           /\ FillsOf(x, fills) = {x} \X (1..Cardinality(FillsOf(x, fills)))
           /\ Cardinality(FillsOf(x, fills)) >= Lots => state[x] = "filled"
<1>1. PICK n \in 0..Lots : FillsOf(x, fills) = {x} \X (1..n) /\ (n = Lots => state[x] = "filled")
  BY DEF FillsInv
<1>2. IsFiniteSet(FillsOf(x, fills)) /\ Cardinality(FillsOf(x, fills)) = n
  <2>1. n \in Nat
    BY <1>1, TablesAssumption
  <2>2. IsFiniteSet({x} \X (1..n)) /\ Cardinality({x} \X (1..n)) = n
    BY <2>1, FillSets
  <2> QED BY <1>1, <2>2
<1> QED BY <1>1, <1>2, TablesAssumption

LEMMA SomeFillsCount ==
    ASSUME FillsInv, NEW x \in Externals, NEW seen, seen \subseteq fills,
           Cardinality(FillsOf(x, seen)) >= Lots
    PROVE  state[x] = "filled"
<1>1. FillsOf(x, seen) \in SUBSET FillsOf(x, fills)
  BY DEF FillsOf
<1>2. IsFiniteSet(FillsOf(x, fills)) /\ Cardinality(FillsOf(x, fills)) \in Nat
  BY FillCount, TablesAssumption
<1>3. Cardinality(FillsOf(x, seen)) <= Cardinality(FillsOf(x, fills))
      /\ IsFiniteSet(FillsOf(x, seen))
  BY <1>1, <1>2, FS_Subset
<1>4. Cardinality(FillsOf(x, seen)) \in Nat
  BY <1>3, FS_CardinalityType
<1> QED BY <1>2, <1>3, <1>4, FillCount, TablesAssumption

\* As many linked trades as the order has lots are all its fills, or one of them twice.
LEMMA LinkedEvidence ==
    ASSUME FillsInv, fills \subseteq Fills, NEW tt \in [Fills \X Kinds -> RowIds \cup {Unrecorded, Unlinked}],
           Linkage(tt), NEW r \in RowIds, IsFiniteSet(LinkedFills(r, tt)),
           Cardinality(LinkedFills(r, tt)) >= Lots
    PROVE  state[r[1]] = "filled" \/ DoublyLinked(r, tt)
<1> SUFFICES ASSUME state[r[1]] # "filled" PROVE DoublyLinked(r, tt)
  OBVIOUS
<1> DEFINE x == r[1]
           S == LinkedFills(r, tt)
           T == FillsOf(x, fills)
           f == [t \in S |-> t[1]]
<1>1. x \in Externals
  BY DEF RowIds
<1>2. IsFiniteSet(T) /\ Cardinality(T) \in Nat /\ Cardinality(T) < Lots
  BY <1>1, FillCount, TablesAssumption
<1>3. \A t \in S : t \in Fills \X Kinds /\ tt[t] = r /\ t[1] \in T
  BY DEF LinkedFills, Linkage, FillsOf
<1>4. f \in [S -> T]
  BY <1>3
<1>5. IsFiniteSet(S) /\ Cardinality(S) \in Nat
  BY FS_CardinalityType
<1>6. Cardinality(T) < Cardinality(S)
  BY <1>2, <1>5, TablesAssumption
<1>7. PICK t \in S, u \in S : t # u /\ f[t] = f[u]
  <2> HIDE DEF S, T, f
  <2>1. \E t, u \in S : t # u /\ f[t] = f[u]
    BY <1>2, <1>4, <1>5, <1>6, FS_PigeonHole
  <2> QED BY <2>1
<1>8. t[1] = u[1] /\ t[2] \in Kinds /\ u[2] \in Kinds /\ t = <<t[1], t[2]>> /\ u = <<u[1], u[2]>>
  BY <1>3, <1>7
<1>9. t[2] # u[2] /\ t[1] \in Fills /\ tt[<<t[1], t[2]>>] = r /\ tt[<<t[1], u[2]>>] = r
  BY <1>3, <1>7, <1>8
<1> QED BY <1>8, <1>9 DEF DoublyLinked, Kinds

\* A row has at most two trades of each fill.
LEMMA LinkedBound ==
    ASSUME NEW tt \in [Fills \X Kinds -> RowIds \cup {Unrecorded, Unlinked}], Linkage(tt),
           NEW r \in RowIds
    PROVE  IsFiniteSet(LinkedFills(r, tt)) /\ Cardinality(LinkedFills(r, tt)) \in 0..2 * Lots
<1> DEFINE x == r[1]
           S == LinkedFills(r, tt)
           raw == {t \in S : t[2] = "raw"}
           hashed == {t \in S : t[2] = "hashed"}
           f == [t \in S |-> IF t[2] = "raw" THEN t[1][2] ELSE Lots + t[1][2]]
<1>1. \A t \in S : /\ t \in Fills \X Kinds /\ t[1] \in Fills /\ t[1][1] = x /\ t[1][2] \in 1..Lots
                    /\ t[2] \in {"raw", "hashed"} /\ t = <<t[1], t[2]>> /\ t[1] = <<t[1][1], t[1][2]>>
  BY DEF LinkedFills, Linkage, Fills, Kinds
<1>2. f \in [S -> 1..2 * Lots]
  BY <1>1, TablesAssumption
<1>3. ASSUME NEW t \in S, NEW u \in S, f[t] = f[u] PROVE t = u
  <2>1. t[1][2] = u[1][2] /\ t[2] = u[2]
    BY <1>1, <1>3, TablesAssumption
  <2> QED BY <1>1, <2>1
<1>4. f \in Injection(S, 1..2 * Lots)
  <2> HIDE DEF S, f
  <2> QED BY <1>2, <1>3, Fun_IsInj
<1>5. IsFiniteSet(1..2 * Lots) /\ Cardinality(1..2 * Lots) = 2 * Lots
  BY FS_Interval, TablesAssumption
<1>6. IsFiniteSet(S) /\ Cardinality(S) <= 2 * Lots
  <2> HIDE DEF S, f
  <2> QED BY <1>4, <1>5, FS_Injection
<1>7. Cardinality(S) \in Nat
  BY <1>6, FS_CardinalityType
<1> QED BY <1>6, <1>7, TablesAssumption

\* A row has no more linked trades than evidence for them.
LEMMA RowEvidence ==
    ASSUME TablesInv, NEW r \in RowIds
    PROVE  /\ Cardinality(LinkedFills(r, trades)) \in 0..2 * Lots
           /\ Cardinality(LinkedFills(r, trades)) >= Lots =>
                state[r[1]] = "filled" \/ r \in double_counted
<1>1. /\ trades \in [Fills \X Kinds -> RowIds \cup {Unrecorded, Unlinked}] /\ Linkage(trades)
      /\ FillsInv /\ fills \subseteq Fills
  BY DEF TablesInv, TypeOK, TradesInv
<1>2. IsFiniteSet(LinkedFills(r, trades)) /\ Cardinality(LinkedFills(r, trades)) \in 0..2 * Lots
  BY <1>1, LinkedBound
<1>3. Cardinality(LinkedFills(r, trades)) >= Lots => state[r[1]] = "filled" \/ DoublyLinked(r, trades)
  BY <1>1, <1>2, LinkedEvidence
<1> QED BY <1>2, <1>3 DEF TablesInv, TradesInv

-----------------------------------------------------------------------------
(* Steps that write nothing *)

LEMMA QuietStep ==
    ASSUME TablesInv, NEW w \in Writers,
           UNCHANGED <<state, fills, rows, trades, double_counted, blind>>,
           jobs' \in 0..MaxJobs, job'[w] \in Jobs, job' = [job EXCEPT ![w] = job'[w]],
           job'[w].work # "place", CancelOK(job[w])', SeenOK(job[w])'
    PROVE  TablesInv'
<1>1. TypeOK'
  BY DEF TablesInv, TypeOK
<1>2. FillsInv' /\ TradesInv' /\ RowsInv'
  BY DEF TablesInv, FillsInv, TradesInv, Linkage, RowsInv, Known, Settled
<1>3. JobInv'
  <2>1. JobInv /\ Forward /\ \A v \in Writers \ {w} : job'[v] = job[v]
    BY DEF TablesInv, TypeOK, Forward, Known, Settled
  <2>2. (PlaceOK(job[w]) /\ CancelOK(job[w]) /\ SeenOK(job[w]))'
    BY DEF PlaceOK
  <2>3. \A v \in Writers \ {w} : job[v].work = "place" =>
                /\ Known(job[v].row[1])' <=> Known(job[v].row[1])
                /\ job[v].row[2] = "manual" => rows'[job[v].row] = rows[job[v].row]
    <3>1. state' = state /\ rows' = rows
      OBVIOUS
    <3> QED BY <2>1, <3>1 DEF Known
  <2> QED BY <2>1, <2>2, <2>3, JobStep
<1> QED BY <1>1, <1>2, <1>3 DEF TablesInv

LEMMA ForwardQuiet ==
    ASSUME UNCHANGED <<state, fills, double_counted>>
    PROVE  Forward
BY DEF Forward, Known, Settled

LEMMA BeginType ==
    ASSUME TypeOK, NEW w \in Writers, Begins(w) PROVE jobs' \in 0..MaxJobs
BY TablesAssumption DEF TypeOK, Begins

LEMMA AbandonKept ==
    ASSUME TablesInv, NEW w \in Writers, Abandon(w) PROVE TablesInv'
<1>1. /\ UNCHANGED <<state, fills, rows, trades, double_counted, blind>>
      /\ jobs' \in 0..MaxJobs /\ job' = [job EXCEPT ![w] = Idle] /\ job'[w] = Idle
  BY DEF Abandon, Ends, TablesInv, TypeOK
<1>2. Idle \in Jobs /\ Idle.work = "idle"
  BY IdleJob DEF Idle
<1>3. CancelOK(job[w])' /\ SeenOK(job[w])'
  BY <1>1, IdleOK DEF CancelOK, SeenOK
<1> QED BY <1>1, <1>2, <1>3, QuietStep

LEMMA ReadRowsKept ==
    ASSUME TablesInv, NEW w \in Writers, NEW work \in {"reconcile", "status", "trades"},
           ReadRows(w, work)
    PROVE  TablesInv'
<1> DEFINE linked == [r \in RowIds |-> Cardinality(LinkedFills(r, trades))]
           j == [Idle EXCEPT !.work = work, !.phase = "ask", !.read = rows, !.linked = linked]
<1>1. /\ UNCHANGED <<state, fills, rows, trades, double_counted, blind>>
      /\ job' = [job EXCEPT ![w] = j] /\ jobs' \in 0..MaxJobs
  BY BeginType DEF ReadRows, Snapshot, TablesInv
<1>2. job'[w] = j
  BY <1>1 DEF TablesInv, TypeOK
<1>3. linked \in [RowIds -> 0..2 * Lots]
  BY RowEvidence
<1>4. rows \in [RowIds -> [status : Statuses, ext : BOOLEAN]]
  BY DEF TablesInv, TypeOK
<1>5. j \in Jobs
  <2> HIDE DEF linked
  <2> QED BY <1>3, <1>4, IdleJob DEF Jobs, Works
<1>6. j.work = work /\ j.read = rows /\ j.linked = linked /\ j.book = NoBook /\ j.unread /\ j.listed = {}
  BY DEF Idle
<1>7. CancelOK(job[w])'
  BY <1>2, <1>6 DEF CancelOK
<1>8. SeenOK(job[w])'
  <2>1. \A r \in RowIds : job'[w].read[r].ext => Known(r[1])'
    BY <1>1, <1>2, <1>6 DEF TablesInv, RowsInv, Known
  <2>2. \A r \in RowIds :
            job'[w].linked[r] >= Lots => state'[r[1]] = "filled" \/ r \in double_counted'
    <3>1. \A r \in RowIds : job'[w].linked[r] = Cardinality(LinkedFills(r, trades))
      BY <1>2, <1>6
    <3>2. state' = state /\ double_counted' = double_counted
      BY <1>1
    <3> QED BY <3>1, <3>2, RowEvidence
  <2>3. \A x \in Externals : job'[w].book[x] = "unseen"
    BY <1>2, <1>6 DEF NoBook
  <2> QED BY <2>1, <2>2, <2>3, <1>2, <1>6 DEF SeenOK
<1>9. job'[w].work # "place" /\ job'[w] \in Jobs /\ job' = [job EXCEPT ![w] = job'[w]]
  BY <1>1, <1>2, <1>5, <1>6
<1> QED BY <1>1, <1>7, <1>8, <1>9, QuietStep

LEMMA AskTradesKept ==
    ASSUME TablesInv, NEW w \in Writers, NEW work \in Works \ {"place", "cancel"}, NEW phase,
           NEW failed \in BOOLEAN, AskTrades(w, work, phase, failed)
    PROVE  TablesInv'
<1> DEFINE j == [job[w] EXCEPT !.phase = "write", !.listed = ListedTrades(failed)]
<1>1. /\ UNCHANGED <<state, fills, rows, trades, double_counted, blind>>
      /\ jobs' \in 0..MaxJobs /\ job[w] \in Jobs /\ job[w].work = work
  BY DEF AskTrades, At, TablesInv, TypeOK
<1>2. job' = [job EXCEPT ![w] = j] /\ job'[w] = j
  BY DEF AskTrades, TablesInv, TypeOK
<1>3. ListedTrades(failed) \subseteq fills /\ fills \subseteq Fills
  BY DEF ListedTrades, TablesInv, TypeOK
<1>5. j \in Jobs
  BY <1>1, <1>3 DEF Jobs
<1>6. /\ j.work = work /\ j.read = job[w].read /\ j.linked = job[w].linked /\ j.book = job[w].book
      /\ j.unread = job[w].unread /\ j.listed = ListedTrades(failed)
  BY <1>1 DEF Jobs
<1>7. CancelOK(job[w])' /\ job'[w].work # "place"
  BY <1>2, <1>6 DEF CancelOK
<1>8. SeenOK(job[w])
  BY DEF TablesInv, JobInv
<1>9. SeenOK(job[w])'
  <2>1. \A r \in RowIds : job'[w].read[r].ext => Known(r[1])'
    BY <1>1, <1>2, <1>6, <1>8 DEF SeenOK, Known
  <2>2. \A r \in RowIds :
            job'[w].linked[r] >= Lots => state'[r[1]] = "filled" \/ r \in double_counted'
    BY <1>1, <1>2, <1>6, <1>8 DEF SeenOK
  <2>3. \A x \in Externals :
            /\ job'[w].book[x] # "unseen" => Known(x)'
            /\ job'[w].book[x] = "filled" => state'[x] = "filled"
    BY <1>1, <1>2, <1>6, <1>8 DEF SeenOK, Known
  <2>4. ~job'[w].unread => \A r \in RowIds :
            job'[w].read[r].ext /\ job'[w].book[r[1]] # "resting" => Settled(r[1])'
    BY <1>1, <1>2, <1>6, <1>8 DEF SeenOK, Settled
  <2>5. job'[w].listed \subseteq fills'
    BY <1>1, <1>2, <1>3, <1>6
  <2> QED BY <2>1, <2>2, <2>3, <2>4, <2>5 DEF SeenOK
<1>10. job'[w] \in Jobs /\ job' = [job EXCEPT ![w] = job'[w]]
  BY <1>2, <1>5
<1> QED BY <1>1, <1>7, <1>9, <1>10, QuietStep

\* What a request names is known to the exchange, none of it as filled.
LEMMA NamedBook ==
    ASSUME NEW book \in [Externals -> {"unseen", "resting", "filled", "canceled"}],
           NEW named \in SUBSET Named,
           \A x \in Externals : book[x] # "unseen" => state[x] = "resting",
           \A x \in Externals : book[x] # "filled"
    PROVE  /\ WithNamed(book, named) \in [Externals -> {"unseen", "resting", "filled", "canceled"}]
           /\ \A x \in Externals :
                /\ WithNamed(book, named)[x] # "unseen" => Known(x)
                /\ WithNamed(book, named)[x] # "filled"
                /\ WithNamed(book, named)[x] = "unseen" => book[x] = "unseen"
BY DEF WithNamed, Named, Known

\* The orders a job sees, in the list or in the request.
LEMMA BookKept ==
    ASSUME TablesInv, NEW w \in Writers, job[w].work = "status",
           NEW j \in Jobs, job' = [job EXCEPT ![w] = j],
           j.work = "status", j.read = job[w].read, j.linked = job[w].linked,
           j.listed = job[w].listed,
           \A x \in Externals : (j.book[x] # "unseen" => Known(x)) /\ j.book[x] # "filled",
           ~j.unread => \A x \in Externals : state[x] = "resting" => j.book[x] = "resting",
           jobs' \in 0..MaxJobs,
           UNCHANGED <<state, fills, rows, trades, double_counted, blind>>
    PROVE  TablesInv'
<1>1. job'[w] = j
  BY DEF TablesInv, TypeOK
<1>2. CancelOK(job[w])' /\ job'[w].work # "place"
  BY <1>1 DEF CancelOK
<1>3. SeenOK(job[w])
  BY DEF TablesInv, JobInv
<1>4. SeenOK(job[w])'
  <2>1. \A r \in RowIds : job'[w].read[r].ext => Known(r[1])'
    BY <1>1, <1>3 DEF SeenOK, Known
  <2>2. \A r \in RowIds :
            job'[w].linked[r] >= Lots => state'[r[1]] = "filled" \/ r \in double_counted'
    BY <1>1, <1>3 DEF SeenOK
  <2>3. \A x \in Externals :
            /\ job'[w].book[x] # "unseen" => Known(x)'
            /\ job'[w].book[x] = "filled" => state'[x] = "filled"
    BY <1>1 DEF Known
  <2>4. ~job'[w].unread => \A r \in RowIds :
            job'[w].read[r].ext /\ job'[w].book[r[1]] # "resting" => Settled(r[1])'
    <3> SUFFICES ASSUME ~j.unread, NEW r \in RowIds, job[w].read[r].ext, j.book[r[1]] # "resting"
                 PROVE  Settled(r[1])'
      BY <1>1
    <3>1. Known(r[1]) /\ r[1] \in Externals
      BY <1>3, RowOrder DEF SeenOK
    <3> QED BY <3>1 DEF Known, Settled
  <2>5. job'[w].listed \subseteq fills'
    BY <1>1, <1>3 DEF SeenOK
  <2> QED BY <2>1, <2>2, <2>3, <2>4, <2>5 DEF SeenOK
<1>5. job'[w] \in Jobs /\ job' = [job EXCEPT ![w] = job'[w]]
  BY <1>1
<1> QED BY <1>2, <1>4, <1>5, QuietStep

LEMMA AskOrdersKept ==
    ASSUME TablesInv, NEW w \in Writers, NEW failed \in BOOLEAN,
           NEW named \in SUBSET Named, AskOrders(w, failed, named)
    PROVE  TablesInv'
<1> DEFINE book == WithNamed(OpenOrders(failed), named)
           j == [job[w] EXCEPT !.phase = "ask_trades", !.unread = failed, !.book = book]
<1>1. /\ UNCHANGED <<state, fills, rows, trades, double_counted, blind>>
      /\ jobs' \in 0..MaxJobs /\ job[w] \in Jobs /\ job[w].work = "status"
  BY DEF AskOrders, At, TablesInv, TypeOK
<1>2. job' = [job EXCEPT ![w] = j]
  BY DEF AskOrders, TablesInv, TypeOK
<1>3. /\ OpenOrders(failed) \in [Externals -> {"unseen", "resting", "filled", "canceled"}]
      /\ \A x \in Externals : OpenOrders(failed)[x] # "filled"
      /\ \A x \in Externals : OpenOrders(failed)[x] # "unseen" => state[x] = "resting"
      /\ ~failed => \A x \in Externals : state[x] = "resting" => OpenOrders(failed)[x] = "resting"
  BY DEF OpenOrders
<1>4. /\ book \in [Externals -> {"unseen", "resting", "filled", "canceled"}]
      /\ \A x \in Externals : (book[x] # "unseen" => Known(x)) /\ book[x] # "filled"
      /\ ~failed => \A x \in Externals : state[x] = "resting" => book[x] = "resting"
  BY <1>3, NamedBook DEF WithNamed
<1> HIDE DEF book
<1>5. j \in Jobs
  BY <1>1, <1>4 DEF Jobs
<1>6. /\ j.work = "status" /\ j.read = job[w].read /\ j.linked = job[w].linked
      /\ j.book = book /\ j.unread = failed /\ j.listed = job[w].listed
  BY <1>1 DEF Jobs
<1> HIDE DEF j
<1> QED BY <1>1, <1>2, <1>4, <1>5, <1>6, BookKept

LEMMA TakeRequestsWordKept ==
    ASSUME TablesInv, NEW w \in Writers, NEW named \in SUBSET Named,
           TakeRequestsWord(w, named)
    PROVE  TablesInv'
<1> DEFINE book == WithNamed(NoBook, named)
           j == [job[w] EXCEPT !.phase = "write", !.unread = TRUE, !.book = book]
<1>1. /\ UNCHANGED <<state, fills, rows, trades, double_counted, blind>>
      /\ jobs' \in 0..MaxJobs /\ job[w] \in Jobs /\ job[w].work = "status"
  BY DEF TakeRequestsWord, At, TablesInv, TypeOK
<1>2. job' = [job EXCEPT ![w] = j]
  BY DEF TakeRequestsWord, TablesInv, TypeOK
<1>3. /\ book \in [Externals -> {"unseen", "resting", "filled", "canceled"}]
      /\ \A x \in Externals : (book[x] # "unseen" => Known(x)) /\ book[x] # "filled"
  BY NamedBook DEF NoBook
<1> HIDE DEF book
<1>4. j \in Jobs
  BY <1>1, <1>3 DEF Jobs
<1>5. /\ j.work = "status" /\ j.read = job[w].read /\ j.linked = job[w].linked
      /\ j.book = book /\ j.unread /\ j.listed = job[w].listed
  BY <1>1 DEF Jobs
<1> HIDE DEF j
<1> QED BY <1>1, <1>2, <1>3, <1>4, <1>5, BookKept

\* A job that begins with the lists of the exchange.
LEMMA BookBegins ==
    ASSUME TablesInv, NEW w \in Writers, NEW work \in {"mirror", "sync"},
           NEW phase \in {"ask_trades", "write"},
           NEW book \in [Externals -> {"unseen", "resting", "filled", "canceled"}],
           \A x \in Externals : book[x] # "unseen" => state[x] = book[x],
           job' = [job EXCEPT ![w] = [Idle EXCEPT !.work = work, !.phase = phase, !.book = book]],
           jobs' \in 0..MaxJobs,
           UNCHANGED <<state, fills, rows, trades, double_counted, blind>>
    PROVE  TablesInv'
<1> DEFINE j == [Idle EXCEPT !.work = work, !.phase = phase, !.book = book]
<1>1. job'[w] = j /\ job' = [job EXCEPT ![w] = j]
  BY DEF TablesInv, TypeOK
<1>2. j \in Jobs
  BY IdleJob DEF Jobs, Works
<1>3. /\ j.work = work /\ j.book = book /\ j.read = Idle.read /\ j.linked = Idle.linked
      /\ j.unread = TRUE /\ j.listed = {}
  BY DEF Idle
<1>4. \A x \in Externals : /\ job'[w].book[x] # "unseen" => Known(x)'
                           /\ job'[w].book[x] = "filled" => state'[x] = "filled"
  <2>1. state' = state /\ job'[w].book = book
    BY <1>1, <1>3
  <2> QED BY <2>1 DEF Known
<1>5. SeenOK(job[w])'
  BY <1>1, <1>3, <1>4, SeenBook
<1>6. CancelOK(job[w])' /\ job'[w].work # "place"
  BY <1>1, <1>3 DEF CancelOK
<1>7. job'[w] \in Jobs /\ job' = [job EXCEPT ![w] = job'[w]]
  BY <1>1, <1>2
<1> QED BY <1>5, <1>6, <1>7, QuietStep

LEMMA MirrorAskKept ==
    ASSUME TablesInv, NEW w \in Writers, NEW failed \in BOOLEAN, MirrorAsk(w, failed)
    PROVE  TablesInv'
<1>1. /\ OpenOrders(failed) \in [Externals -> {"unseen", "resting", "filled", "canceled"}]
      /\ \A x \in Externals : OpenOrders(failed)[x] # "unseen" => state[x] = OpenOrders(failed)[x]
  BY DEF OpenOrders
<1>2. jobs' \in 0..MaxJobs
  BY BeginType DEF MirrorAsk, TablesInv
<1> QED BY <1>1, <1>2, BookBegins DEF MirrorAsk

LEMMA SyncAskKept ==
    ASSUME TablesInv, NEW w \in Writers, NEW failing \in SUBSET {"resting", "filled", "canceled"},
           SyncAsk(w, failing)
    PROVE  TablesInv'
<1> DEFINE book == [x \in Externals |->
                      IF state[x] \in {"resting", "filled", "canceled"} \ failing
                      THEN state[x] ELSE "unseen"]
<1>1. /\ book \in [Externals -> {"unseen", "resting", "filled", "canceled"}]
      /\ \A x \in Externals : book[x] # "unseen" => state[x] = book[x]
  OBVIOUS
<1>2. jobs' \in 0..MaxJobs
  BY BeginType DEF SyncAsk, TablesInv
<1>3. /\ job' = [job EXCEPT ![w] = [Idle EXCEPT !.work = "sync", !.phase = "ask_trades", !.book = book]]
      /\ UNCHANGED <<state, fills, rows, trades, double_counted, blind>>
  BY DEF SyncAsk
<1> HIDE DEF book
<1> QED BY <1>1, <1>2, <1>3, BookBegins

LEMMA CancelBeginKept ==
    ASSUME TablesInv, NEW w \in Writers, NEW r \in RowIds, NEW dry_run \in BOOLEAN,
           CancelBegin(w, r, dry_run)
    PROVE  TablesInv'
<1> DEFINE p == IF dry_run THEN "write" ELSE "ask"
           j == [Idle EXCEPT !.work = "cancel", !.row = r, !.status = "canceled", !.phase = p]
<1>1. /\ UNCHANGED <<state, fills, rows, trades, double_counted, blind>>
      /\ job' = [job EXCEPT ![w] = j] /\ rows[r] # NoRow /\ jobs' \in 0..MaxJobs
  BY BeginType DEF CancelBegin, TablesInv
<1>2. job'[w] = j
  BY <1>1 DEF TablesInv, TypeOK
<1>3. p \in {"ask", "write"} /\ "canceled" \in Statuses
  BY DEF Statuses
<1> HIDE DEF p
<1>4. j \in Jobs
  BY <1>3, IdleJob DEF Jobs, Works
<1>5. /\ j.work = "cancel" /\ j.row = r /\ j.status = "canceled" /\ j.book = NoBook
      /\ j.read = Idle.read /\ j.linked = Idle.linked /\ j.unread = TRUE /\ j.listed = {}
  BY DEF Idle
<1>6. CancelOK(job[w])' /\ job'[w].work # "place"
  BY <1>1, <1>2, <1>5 DEF CancelOK
<1>7. \A x \in Externals : /\ job'[w].book[x] # "unseen" => Known(x)'
                           /\ job'[w].book[x] = "filled" => state'[x] = "filled"
  BY <1>2, <1>5 DEF NoBook
<1>8. SeenOK(job[w])'
  BY <1>2, <1>5, <1>7, SeenBook
<1>9. job'[w] \in Jobs /\ job' = [job EXCEPT ![w] = job'[w]]
  BY <1>1, <1>2, <1>4
<1> QED BY <1>1, <1>6, <1>8, <1>9, QuietStep

-----------------------------------------------------------------------------
(* Steps of the exchange, and of placements and cancels *)

LEMMA CancelAskKept ==
    ASSUME TablesInv, NEW w \in Writers, NEW success \in BOOLEAN, CancelAsk(w, success)
    PROVE  TablesInv'
<1> DEFINE x == job[w].row[1]
           s == IF success THEN "canceled" ELSE "cancel_error"
           j == [job[w] EXCEPT !.phase = "write", !.status = s]
<1>1. /\ UNCHANGED <<fills, rows, trades, jobs, double_counted, blind>>
      /\ job[w].work = "cancel" /\ job[w] \in Jobs /\ jobs' \in 0..MaxJobs
      /\ job[w].row \in RowIds /\ x \in Externals /\ rows[job[w].row] # NoRow
  BY RowOrder DEF CancelAsk, At, TablesInv, TypeOK, JobInv, CancelOK
<1>2. job' = [job EXCEPT ![w] = j] /\ job'[w] = j
  BY DEF CancelAsk, TablesInv, TypeOK
<1>3. s \in {"canceled", "cancel_error"} /\ s \in Statuses
  BY DEF Statuses
<1> HIDE DEF s
<1>4. /\ j \in Jobs /\ j.work = "cancel" /\ j.row = job[w].row /\ j.status = s
      /\ j.read = job[w].read /\ j.linked = job[w].linked /\ j.book = job[w].book
      /\ j.unread = job[w].unread /\ j.listed = job[w].listed
  BY <1>1, <1>3 DEF Jobs
<1>5. /\ \A y \in Externals : state'[y] = state[y] \/ (state[y] = "resting" /\ state'[y] = "canceled")
      /\ state' \in [Externals -> {"none", "resting", "filled", "canceled", "refused"}]
  BY DEF CancelAsk, TablesInv, TypeOK
<1>6. Forward
  BY <1>1, <1>5 DEF Forward, Known, Settled
<1>7. TypeOK'
  BY <1>1, <1>2, <1>4, <1>5 DEF TablesInv, TypeOK
<1>8. FillsInv'
  BY <1>1, <1>5 DEF TablesInv, FillsInv
<1>9. TradesInv'
  BY <1>1 DEF TablesInv, TradesInv, Linkage
<1>10. RowsInv'
  BY <1>1, <1>6, RowOrder DEF TablesInv, RowsInv, Forward
<1>11. JobInv'
  <2>1. SeenOK(job[w])'
    BY <1>2, <1>4, <1>6, SeenKept DEF TablesInv, JobInv
  <2>2. PlaceOK(job[w])' /\ CancelOK(job[w])' /\ job'[w].work # "place"
    BY <1>1, <1>2, <1>3, <1>4 DEF PlaceOK, CancelOK
  <2>3. \A v \in Writers \ {w} : job'[v] = job[v]
    BY <1>2 DEF TablesInv, TypeOK
  <2>4. \A v \in Writers \ {w} : job[v].work = "place" =>
                /\ Known(job[v].row[1])' <=> Known(job[v].row[1])
                /\ job[v].row[2] = "manual" => rows'[job[v].row] = rows[job[v].row]
    <3>1. \A v \in Writers : job[v].work = "place" => job[v].row[1] \in Externals
      BY RowOrder DEF TablesInv, JobInv, PlaceOK
    <3> QED BY <1>1, <1>5, <2>3, <3>1 DEF Known
  <2> QED BY <1>1, <1>6, <2>1, <2>2, <2>3, <2>4, JobStep DEF TablesInv
<1> QED BY <1>7, <1>8, <1>9, <1>10, <1>11 DEF TablesInv

LEMMA PlaceAskKept ==
    ASSUME TablesInv, NEW w \in Writers,
           NEW answer \in {"accepted", "accepted_no_id", "refused", "lost_answer", "dry_run"},
           PlaceAsk(w, answer)
    PROVE  TablesInv'
<1> DEFINE x == job[w].row[1]
           to == IF answer \in {"refused", "dry_run"} THEN "refused" ELSE "resting"
<1>1. /\ UNCHANGED <<fills, rows, trades, jobs, double_counted, blind>>
      /\ job[w].work = "place" /\ job[w] \in Jobs /\ jobs' \in 0..MaxJobs
      /\ job[w].row \in RowIds /\ job[w].row[2] \in {"live", "manual"} /\ x \in Externals
      /\ state[x] = "none"
  BY RowOrder DEF PlaceAsk, At, TablesInv, TypeOK, JobInv, PlaceOK, Known
<1>2. PICK s \in {"submitted", "open", "submit_error"}, e \in BOOLEAN :
        job' = [job EXCEPT ![w] = [job[w] EXCEPT !.phase = "write", !.ext = e, !.status = s]]
  <2> DEFINE s == CASE answer \in {"accepted", "accepted_no_id"} -> "submitted"
                    [] answer = "dry_run" -> "open"
                    [] OTHER -> "submit_error"
  <2>1. job' = [job EXCEPT ![w] = [job[w] EXCEPT !.phase = "write", !.ext = (answer = "accepted"),
                                                 !.status = s]]
    BY DEF PlaceAsk, TablesInv, TypeOK
  <2>2. s \in {"submitted", "open", "submit_error"} /\ (answer = "accepted") \in BOOLEAN
    OBVIOUS
  <2> HIDE DEF s
  <2> QED BY <2>1, <2>2
<1> DEFINE j == [job[w] EXCEPT !.phase = "write", !.ext = e, !.status = s]
<1>3. job' = [job EXCEPT ![w] = j] /\ job'[w] = j
  BY <1>2 DEF TablesInv, TypeOK
<1>4. s \in Statuses
  BY DEF Statuses, _OPEN_ORDER_STATUSES, OPEN_ORDER_STATUSES
<1>5. /\ j \in Jobs /\ j.work = "place" /\ j.row = job[w].row /\ j.status = s /\ j.phase = "write"
      /\ j.read = job[w].read /\ j.linked = job[w].linked /\ j.book = job[w].book
      /\ j.unread = job[w].unread /\ j.listed = job[w].listed
  BY <1>1, <1>4 DEF Jobs
<1>6. /\ \A y \in Externals : y # x => state'[y] = state[y]
      /\ state'[x] \in {"refused", "resting"}
      /\ state' \in [Externals -> {"none", "resting", "filled", "canceled", "refused"}]
  BY <1>1 DEF PlaceAsk, TablesInv, TypeOK
<1>7. Forward
  BY <1>1, <1>6 DEF Forward, Known, Settled
<1>8. TypeOK'
  BY <1>1, <1>3, <1>5, <1>6 DEF TablesInv, TypeOK
<1>9. FillsInv'
  BY <1>1, <1>6 DEF TablesInv, FillsInv
<1>10. TradesInv'
  BY <1>1 DEF TablesInv, TradesInv, Linkage
<1>11. RowsInv'
  BY <1>1, <1>7, RowOrder DEF TablesInv, RowsInv, Forward
<1>12. JobInv'
  <2>1. SeenOK(job[w])'
    BY <1>3, <1>5, <1>7, SeenKept DEF TablesInv, JobInv
  <2>2. PlaceOK(job[w])'
    <3>1. job[w].row[2] = "manual" => rows[job[w].row] = NoRow
      BY <1>1 DEF TablesInv, JobInv, PlaceOK
    <3>2. state'[x] # "none"
      BY <1>6
    <3> QED BY <1>1, <1>3, <1>5, <3>1, <3>2 DEF PlaceOK, Known
  <2>3. CancelOK(job[w])'
    BY <1>3, <1>5 DEF CancelOK
  <2>4. \A v \in Writers \ {w} : job'[v] = job[v]
    BY <1>3 DEF TablesInv, TypeOK
  <2>5. \A v \in Writers \ {w} : job[v].work = "place" =>
            job[v].row[1] # x /\ job[v].row[1] \in Externals
    BY <1>1, RowOrder DEF TablesInv, JobInv, PlaceOK
  <2>6. \A v \in Writers \ {w} : job[v].work = "place" =>
                /\ Known(job[v].row[1])' <=> Known(job[v].row[1])
                /\ job[v].row[2] = "manual" => rows'[job[v].row] = rows[job[v].row]
    BY <1>1, <1>6, <2>4, <2>5 DEF Known
  <2>7. job'[w].row[1] = x
    BY <1>3, <1>5
  <2> QED BY <1>1, <1>7, <2>1, <2>2, <2>3, <2>4, <2>5, <2>6, <2>7, JobStep DEF TablesInv
<1> QED BY <1>8, <1>9, <1>10, <1>11, <1>12 DEF TablesInv

LEMMA PlaceBeginKept ==
    ASSUME TablesInv, NEW w \in Writers, NEW x \in Externals, NEW source \in Sources,
           PlaceBegin(w, x, source)
    PROVE  TablesInv'
<1> DEFINE j == [Idle EXCEPT !.work = "place", !.phase = "ask", !.row = <<x, source>>]
           new == [status |-> "pending_submit", ext |-> FALSE]
<1>1. /\ UNCHANGED <<state, fills, trades, double_counted, blind>>
      /\ job' = [job EXCEPT ![w] = j] /\ jobs' \in 0..MaxJobs
      /\ source \in {"live", "manual"} /\ state[x] = "none" /\ rows[<<x, "live">>] = NoRow
  BY BeginType DEF PlaceBegin, TablesInv
<1>2. job'[w] = j
  BY <1>1 DEF TablesInv, TypeOK
<1>3. <<x, source>> \in RowIds /\ <<x, "live">> \in RowIds
  BY DEF RowIds, Sources
<1>4. j \in Jobs
  BY <1>3, IdleJob DEF Jobs, Works
<1>5. /\ j.work = "place" /\ j.row = <<x, source>> /\ j.phase = "ask" /\ j.book = NoBook
      /\ j.read = Idle.read /\ j.linked = Idle.linked /\ j.unread = TRUE /\ j.listed = {}
  BY DEF Idle
<1>6. rows' = [rows EXCEPT ![<<x, "live">>] = new] \/ rows' = rows
  BY <1>1 DEF PlaceBegin
<1>7. new \in [status : Statuses, ext : BOOLEAN] /\ new # NoRow
  <2>1. new.status = "pending_submit" /\ NoRow.status = "none"
    BY DEF NoRow
  <2>2. "pending_submit" \in Statuses
    BY DEF Statuses, _OPEN_ORDER_STATUSES
  <2> QED BY <2>1, <2>2
<1>8. /\ rows' \in [RowIds -> [status : Statuses, ext : BOOLEAN]]
      /\ \A r \in RowIds : rows'[r] = rows[r] \/ (r = <<x, "live">> /\ rows'[r] = new)
  <2> HIDE DEF new
  <2>1. rows \in [RowIds -> [status : Statuses, ext : BOOLEAN]]
    BY DEF TablesInv, TypeOK
  <2>2. CASE rows' = rows
    BY <2>1, <2>2
  <2>3. CASE rows' = [rows EXCEPT ![<<x, "live">>] = new]
    <3> DEFINE l == <<x, "live">>
    <3>1. l \in RowIds /\ rows' = [rows EXCEPT ![l] = new]
      BY <1>3, <2>3
    <3> HIDE DEF l
    <3>2. rows' \in [RowIds -> [status : Statuses, ext : BOOLEAN]]
          /\ \A r \in RowIds : rows'[r] = rows[r] \/ (r = l /\ rows'[r] = new)
      BY <1>7, <2>1, <3>1
    <3> QED BY <3>2 DEF l
  <2> QED BY <1>6, <2>2, <2>3
<1>9. TypeOK'
  BY <1>1, <1>2, <1>4, <1>8 DEF TablesInv, TypeOK
<1>10. FillsInv' /\ TradesInv'
  BY <1>1 DEF TablesInv, FillsInv, TradesInv, Linkage
<1>11. RowsInv'
  <2>1. \A r \in RowIds : rows'[r].ext => Known(r[1])'
    BY <1>1, <1>8 DEF TablesInv, RowsInv, Known
  <2>2. \A y \in Externals : rows'[<<y, "manual">>] # NoRow => Known(y)'
    <3>1. \A y \in Externals : <<y, "manual">> \in RowIds /\ <<y, "manual">> # <<x, "live">>
      BY DEF RowIds, Sources
    <3> QED BY <1>1, <1>8, <3>1 DEF TablesInv, RowsInv, Known
  <2>3. \A r \in RowIds :
            rows'[r].status = "filled" => state'[r[1]] = "filled" \/ r \in double_counted'
    BY <1>1, <1>8 DEF TablesInv, RowsInv
  <2>4. \A r \in RowIds : rows'[r].status = "expired" => Settled(r[1])' \/ r \in blind'
    BY <1>1, <1>8 DEF TablesInv, RowsInv, Settled
  <2> QED BY <2>1, <2>2, <2>3, <2>4 DEF RowsInv
<1>12. JobInv'
  <2>1. Forward
    BY <1>1, ForwardQuiet
  <2>2. PlaceOK(job[w])'
    <3>1. ~Known(x)'
      BY <1>1 DEF Known
    <3>2. source = "manual" => rows'[<<x, source>>] = NoRow
      <4> SUFFICES ASSUME source = "manual" PROVE rows'[<<x, "manual">>] = NoRow
        OBVIOUS
      <4>1. rows'[<<x, "manual">>] = rows[<<x, "manual">>]
        BY <1>3, <1>8
      <4> QED BY <1>1, <4>1 DEF TablesInv, RowsInv, Known
    <3>3. /\ job'[w].row = <<x, source>> /\ job'[w].row \in RowIds /\ job'[w].row[1] = x
          /\ job'[w].row[2] = source /\ job'[w].phase = "ask"
      BY <1>2, <1>3, <1>5
    <3> QED BY <1>1, <3>1, <3>2, <3>3 DEF PlaceOK
  <2>3. CancelOK(job[w])'
    BY <1>2, <1>5 DEF CancelOK
  <2>4. \A y \in Externals : /\ job'[w].book[y] # "unseen" => Known(y)'
                             /\ job'[w].book[y] = "filled" => state'[y] = "filled"
    BY <1>2, <1>5 DEF NoBook
  <2>5. SeenOK(job[w])'
    BY <1>2, <1>5, <2>4, SeenBook
  <2>6. \A v \in Writers \ {w} : job'[v] = job[v]
    BY <1>1 DEF TablesInv, TypeOK
  <2>7. \A v \in Writers \ {w} : job[v].work = "place" => job[v].row[1] # job'[w].row[1]
    <3> SUFFICES ASSUME NEW v \in Writers \ {w}, job[v].work = "place", job[v].row[1] = x
                 PROVE FALSE
      BY <1>2, <1>5
    <3>1. job[v].row \in RowIds
      BY DEF TablesInv, JobInv, PlaceOK
    <3>2. job[v].row = <<x, job[v].row[2]>> /\ job[v].row[2] \in Sources
      BY <3>1 DEF RowIds
    <3> QED BY <3>2 DEF PlaceBegin
  <2>8. \A v \in Writers \ {w} : job[v].work = "place" =>
                /\ Known(job[v].row[1])' <=> Known(job[v].row[1])
                /\ job[v].row[2] = "manual" => rows'[job[v].row] = rows[job[v].row]
    <3>1. \A v \in Writers : job[v].work = "place" => job[v].row \in RowIds
      BY DEF TablesInv, JobInv, PlaceOK
    <3>2. \A v \in Writers : job[v].work = "place" /\ job[v].row[2] = "manual" =>
                job[v].row # <<x, "live">>
      OBVIOUS
    <3> QED BY <1>1, <1>8, <2>6, <3>1, <3>2 DEF Known
  <2>9. \A r \in RowIds : rows[r] # NoRow => rows'[r] # NoRow
    BY <1>7, <1>8
  <2> QED BY <2>1, <2>2, <2>3, <2>5, <2>6, <2>7, <2>8, <2>9, JobStep DEF TablesInv
<1> QED BY <1>9, <1>10, <1>11, <1>12 DEF TablesInv

LEMMA ExchangeFillKept ==
    ASSUME TablesInv, NEW x \in Externals, ExchangeFill(x)
    PROVE  TablesInv'
<1> DEFINE m == Cardinality(FillsOf(x, fills))
           n == m + 1
<1>1. /\ UNCHANGED <<rows, trades, job, jobs, double_counted, blind>>
      /\ state[x] = "resting" /\ fills' = fills \cup {<<x, n>>}
      /\ state' = IF n = Lots THEN [state EXCEPT ![x] = "filled"] ELSE state
  BY DEF ExchangeFill
<1>2. m \in 0..Lots /\ FillsOf(x, fills) = {x} \X (1..m) /\ (m >= Lots => state[x] = "filled")
  BY FillCount DEF TablesInv
<1> HIDE DEF m
<1>3. n \in 1..Lots
  BY <1>1, <1>2, TablesAssumption
<1>4. /\ \A y \in Externals :
            state'[y] = state[y] \/ (y = x /\ n = Lots /\ state'[y] = "filled")
      /\ n = Lots => state'[x] = "filled"
      /\ state' \in [Externals -> {"none", "resting", "filled", "canceled", "refused"}]
  BY <1>1 DEF TablesInv, TypeOK
<1>5. Forward
  BY <1>1, <1>4 DEF Forward, Known, Settled
<1>6. TypeOK'
  BY <1>1, <1>3, <1>4 DEF TablesInv, TypeOK, Fills
<1>7. FillsInv'
  <2> SUFFICES ASSUME NEW y \in Externals
               PROVE \E k \in 0..Lots : /\ FillsOf(y, fills') = {y} \X (1..k)
                                        /\ k = Lots => state'[y] = "filled"
    BY DEF FillsInv
  <2>1. CASE y = x
    <3>1. FillsOf(x, fills') = FillsOf(x, fills) \cup {<<x, n>>}
      BY <1>1 DEF FillsOf
    <3>2. {x} \X (1..m) \cup {<<x, n>>} = {x} \X (1..n)
      BY <1>2, TablesAssumption
    <3>3. FillsOf(x, fills') = {x} \X (1..n) /\ n \in 0..Lots
      BY <1>2, <1>3, <3>1, <3>2
    <3> QED BY <1>4, <2>1, <3>3
  <2>2. CASE y # x
    <3>1. FillsOf(y, fills') = FillsOf(y, fills)
      BY <1>1, <2>2 DEF FillsOf
    <3>2. PICK k \in 0..Lots : /\ FillsOf(y, fills) = {y} \X (1..k)
                               /\ k = Lots => state[y] = "filled"
      BY DEF TablesInv, FillsInv
    <3> QED BY <1>4, <2>2, <3>1, <3>2
  <2> QED BY <2>1, <2>2
<1>8. TradesInv'
  BY <1>1 DEF TablesInv, TradesInv, Linkage
<1>9. RowsInv'
  <2>1. \A r \in RowIds : rows'[r].ext => Known(r[1])'
    BY <1>1, <1>5, RowOrder DEF TablesInv, RowsInv, Forward
  <2>2. \A y \in Externals : rows'[<<y, "manual">>] # NoRow => Known(y)'
    BY <1>1, <1>5 DEF TablesInv, RowsInv, Forward
  <2>3. \A r \in RowIds :
            rows'[r].status = "filled" => state'[r[1]] = "filled" \/ r \in double_counted'
    BY <1>1, <1>5, RowOrder DEF TablesInv, RowsInv, Forward
  <2>4. \A r \in RowIds : rows'[r].status = "expired" => Settled(r[1])' \/ r \in blind'
    BY <1>1, <1>5, RowOrder DEF TablesInv, RowsInv, Forward
  <2> QED BY <2>1, <2>2, <2>3, <2>4 DEF RowsInv
<1>10. JobInv'
  <2>1. ASSUME NEW v \in Writers PROVE (PlaceOK(job[v]) /\ CancelOK(job[v]) /\ SeenOK(job[v]))'
    <3>1. job[v].work = "place" => job[v].row[1] \in Externals
      BY RowOrder DEF TablesInv, JobInv, PlaceOK
    <3>2. job[v].work = "place" => /\ Known(job[v].row[1])' <=> Known(job[v].row[1])
                                   /\ job[v].row[2] = "manual" => rows'[job[v].row] = rows[job[v].row]
      BY <1>1, <1>4, <3>1 DEF Known
    <3>3. JobInv /\ job'[v] = job[v] /\ \A r \in RowIds : rows[r] # NoRow => rows'[r] # NoRow
      BY <1>1 DEF TablesInv
    <3> QED BY <1>5, <3>2, <3>3, JobKept
  <2> QED BY <1>1, <2>1 DEF TablesInv, JobInv
<1> QED BY <1>6, <1>7, <1>8, <1>9, <1>10 DEF TablesInv

-----------------------------------------------------------------------------
(* Steps that write *)

\* What the rows and trades a job leaves behind must satisfy.
LEMMA WriteStep ==
    ASSUME TablesInv, NEW w \in Writers, Writes(rows', trades'), Ends(w),
           rows' \in [RowIds -> [status : Statuses, ext : BOOLEAN]],
           trades' \in [Fills \X Kinds -> RowIds \cup {Unrecorded, Unlinked}],
           Linkage(trades'), blind' \subseteq RowIds,
           \A r \in RowIds : rows'[r].ext => Known(r[1]),
           \A r \in RowIds :
              rows'[r].status = "filled" => state[r[1]] = "filled" \/ r \in double_counted',
           \A r \in RowIds : rows'[r].status = "expired" => Settled(r[1]) \/ r \in blind',
           \A r \in RowIds : rows[r] # NoRow => rows'[r] # NoRow,
           \A r \in RowIds : r[2] = "manual" /\ rows[r] = NoRow =>
              rows'[r] = NoRow \/ (At(w, "place", "write") /\ job[w].row = r)
    PROVE  TablesInv'
<1>1. /\ UNCHANGED <<state, fills, jobs>> /\ job' = [job EXCEPT ![w] = Idle]
      /\ double_counted' = double_counted \cup {r \in RowIds : DoublyLinked(r, trades')}
  BY DEF Writes, Ends
<1>2. TypeOK'
  BY <1>1, IdleJob DEF TablesInv, TypeOK
<1>3. FillsInv'
  BY <1>1 DEF TablesInv, FillsInv
<1>4. TradesInv'
  BY <1>1 DEF TradesInv, Linkage
<1>5. RowsInv'
  <2>1. \A r \in RowIds : rows'[r].ext => Known(r[1])'
    BY <1>1 DEF Known
  <2>2. \A x \in Externals : rows'[<<x, "manual">>] # NoRow => Known(x)'
    <3> SUFFICES ASSUME NEW x \in Externals, rows'[<<x, "manual">>] # NoRow, ~Known(x)
                 PROVE FALSE
      BY <1>1 DEF Known
    <3> DEFINE r == <<x, "manual">>
    <3>1. r \in RowIds /\ r[1] = x /\ r[2] = "manual"
      BY DEF RowIds, Sources
    <3>2. rows[r] = NoRow
      BY DEF TablesInv, RowsInv
    <3>3. job[w].work = "place" /\ job[w].phase = "write" /\ job[w].row = r
      BY <3>1, <3>2 DEF At
    <3>4. PlaceOK(job[w])
      BY DEF TablesInv, JobInv
    <3> QED BY <3>1, <3>3, <3>4 DEF PlaceOK
  <2>3. \A r \in RowIds :
            rows'[r].status = "filled" => state'[r[1]] = "filled" \/ r \in double_counted'
    BY <1>1
  <2>4. \A r \in RowIds : rows'[r].status = "expired" => Settled(r[1])' \/ r \in blind'
    BY <1>1 DEF Settled
  <2> QED BY <2>1, <2>2, <2>3, <2>4 DEF RowsInv
<1>6. JobInv'
  <2>1. Forward /\ job'[w] = Idle /\ \A v \in Writers \ {w} : job'[v] = job[v]
    BY <1>1 DEF Forward, Known, Settled, TablesInv, TypeOK
  <2>2. (PlaceOK(job[w]) /\ CancelOK(job[w]) /\ SeenOK(job[w]))' /\ job'[w].work # "place"
    <3>1. job'[w].work = "idle"
      BY <2>1 DEF Idle
    <3> QED BY <2>1, <3>1, IdleOK DEF PlaceOK, CancelOK, SeenOK
  <2>3. \A v \in Writers \ {w} : job[v].work = "place" =>
                /\ Known(job[v].row[1])' <=> Known(job[v].row[1])
                /\ job[v].row[2] = "manual" => rows'[job[v].row] = rows[job[v].row]
    <3> SUFFICES ASSUME NEW v \in Writers \ {w}, job[v].work = "place", job[v].row[2] = "manual"
                 PROVE rows'[job[v].row] = rows[job[v].row]
      BY <1>1, <2>1 DEF Known
    <3>1. job[v].row \in RowIds /\ rows[job[v].row] = NoRow
      BY DEF TablesInv, JobInv, PlaceOK
    <3>2. ~(At(w, "place", "write") /\ job[w].row = job[v].row)
      BY DEF TablesInv, JobInv, At
    <3> QED BY <3>1, <3>2
  <2> QED BY <2>1, <2>2, <2>3, JobStep DEF TablesInv
<1> QED BY <1>2, <1>3, <1>4, <1>5, <1>6 DEF TablesInv

\* What holds of the rows and trades a step leaves as they are.
LEMMA AsBefore ==
    ASSUME TablesInv, double_counted \subseteq double_counted'
    PROVE  /\ rows \in [RowIds -> [status : Statuses, ext : BOOLEAN]]
           /\ trades \in [Fills \X Kinds -> RowIds \cup {Unrecorded, Unlinked}]
           /\ Linkage(trades) /\ blind \subseteq RowIds
           /\ \A r \in RowIds : /\ rows[r].ext => Known(r[1])
                                /\ rows[r].status = "filled" =>
                                      state[r[1]] = "filled" \/ r \in double_counted'
                                /\ rows[r].status = "expired" => Settled(r[1]) \/ r \in blind
BY DEF TablesInv, TypeOK, TradesInv, RowsInv

\* One row changes.
LEMMA OneRow ==
    ASSUME TablesInv, NEW w \in Writers, NEW l \in RowIds,
           NEW new \in [status : Statuses, ext : BOOLEAN],
           Writes([rows EXCEPT ![l] = new], trades), Ends(w), UNCHANGED blind,
           new.status \notin {"none", "filled", "expired"},
           new.ext => Known(l[1]),
           l[2] = "manual" /\ rows[l] = NoRow => At(w, "place", "write") /\ job[w].row = l
    PROVE  TablesInv'
<1>1. /\ rows' = [rows EXCEPT ![l] = new] /\ trades' = trades /\ Writes(rows', trades')
      /\ double_counted \subseteq double_counted'
  BY DEF Writes
<1>2. new # NoRow
  BY DEF NoRow
<1>3. \A r \in RowIds : (r # l /\ rows'[r] = rows[r]) \/ (r = l /\ rows'[r] = new)
  BY <1>1, AsBefore
<1>4. rows' \in [RowIds -> [status : Statuses, ext : BOOLEAN]]
  BY <1>1, AsBefore
<1>5. /\ trades' \in [Fills \X Kinds -> RowIds \cup {Unrecorded, Unlinked}]
      /\ Linkage(trades') /\ blind' \subseteq RowIds
  BY <1>1, AsBefore
<1>6. \A r \in RowIds : /\ rows'[r].ext => Known(r[1])
                        /\ rows'[r].status = "filled" => state[r[1]] = "filled" \/ r \in double_counted'
                        /\ rows'[r].status = "expired" => Settled(r[1]) \/ r \in blind'
  BY <1>1, <1>3, AsBefore
<1>7. \A r \in RowIds : rows[r] # NoRow => rows'[r] # NoRow
  BY <1>2, <1>3
<1>8. \A r \in RowIds : r[2] = "manual" /\ rows[r] = NoRow =>
              rows'[r] = NoRow \/ (At(w, "place", "write") /\ job[w].row = r)
  BY <1>3
<1> QED BY <1>1, <1>4, <1>5, <1>6, <1>7, <1>8, WriteStep

LEMMA PlaceWriteKept ==
    ASSUME TablesInv, NEW w \in Writers, PlaceWrite(w) PROVE TablesInv'
<1> DEFINE l == job[w].row
           new == [status |-> job[w].status, ext |-> job[w].ext]
<1>1. /\ Writes([rows EXCEPT ![l] = new], trades) /\ Ends(w) /\ UNCHANGED blind
      /\ At(w, "place", "write")
  BY DEF PlaceWrite
<1>2. job[w] \in Jobs /\ PlaceOK(job[w]) /\ job[w].work = "place" /\ job[w].phase = "write"
  BY <1>1 DEF At, TablesInv, TypeOK, JobInv
<1>3. l \in RowIds /\ Known(l[1]) /\ job[w].status \in {"submitted", "open", "submit_error"}
  BY <1>2 DEF PlaceOK
<1>4. new \in [status : Statuses, ext : BOOLEAN] /\ new.status = job[w].status
  BY <1>2, JobFields
<1> HIDE DEF new, l
<1> QED BY <1>1, <1>3, <1>4, OneRow DEF l

LEMMA CancelWriteKept ==
    ASSUME TablesInv, NEW w \in Writers, CancelWrite(w) PROVE TablesInv'
<1> DEFINE l == job[w].row
           new == [status |-> job[w].status, ext |-> rows[l].ext]
<1>1. /\ Writes([rows EXCEPT ![l].status = job[w].status], trades) /\ Ends(w) /\ UNCHANGED blind
      /\ At(w, "cancel", "write")
  BY DEF CancelWrite
<1>2. job[w] \in Jobs /\ CancelOK(job[w]) /\ job[w].work = "cancel"
  BY <1>1 DEF At, TablesInv, TypeOK, JobInv
<1>3. l \in RowIds /\ rows[l] # NoRow /\ job[w].status \in {"canceled", "cancel_error"}
  BY <1>2 DEF CancelOK
<1>4. rows \in [RowIds -> [status : Statuses, ext : BOOLEAN]] /\ (rows[l].ext => Known(l[1]))
  BY <1>3 DEF TablesInv, TypeOK, RowsInv
<1>5. /\ new \in [status : Statuses, ext : BOOLEAN] /\ new.status = job[w].status
      /\ new.ext = rows[l].ext
  BY <1>2, <1>3, <1>4, JobFields
<1>6. [rows EXCEPT ![l].status = job[w].status] = [rows EXCEPT ![l] = new]
  <2>1. [rows[l] EXCEPT !.status = job[w].status] = new
    BY <1>3, <1>4
  <2> QED BY <2>1, <1>3, <1>4
<1> HIDE DEF new, l
<1> QED BY <1>1, <1>3, <1>4, <1>5, <1>6, OneRow

LEMMA MirrorWriteKept ==
    ASSUME TablesInv, NEW w \in Writers, MirrorWrite(w) PROVE TablesInv'
<1> DEFINE new == [status |-> "open", ext |-> TRUE]
           nr == [r \in RowIds |-> IF r[2] = "mirror" /\ job[w].book[r[1]] = "resting"
                                   THEN new ELSE rows[r]]
<1>1. Writes(nr, trades) /\ Ends(w) /\ UNCHANGED blind
  BY DEF MirrorWrite
<1>2. /\ rows' = nr /\ trades' = trades /\ Writes(rows', trades')
      /\ double_counted \subseteq double_counted'
  BY <1>1 DEF Writes
<1>3. /\ new.status = "open" /\ new.ext /\ new # NoRow
      /\ new \in [status : Statuses, ext : BOOLEAN]
  <2>1. "open" \in Statuses
    BY DEF Statuses, _OPEN_ORDER_STATUSES, OPEN_ORDER_STATUSES
  <2> QED BY <2>1 DEF NoRow
<1>4. \A r \in RowIds : job[w].book[r[1]] = "resting" => Known(r[1])
  BY RowOrder DEF TablesInv, JobInv, SeenOK
<1> HIDE DEF new
<1>5. \A r \in RowIds : \/ rows'[r] = rows[r]
                        \/ rows'[r] = new /\ r[2] = "mirror" /\ Known(r[1])
  BY <1>2, <1>4
<1>6. rows' \in [RowIds -> [status : Statuses, ext : BOOLEAN]]
  BY <1>2, <1>3, AsBefore
<1>7. /\ trades' \in [Fills \X Kinds -> RowIds \cup {Unrecorded, Unlinked}]
      /\ Linkage(trades') /\ blind' \subseteq RowIds
  BY <1>1, <1>2, AsBefore
<1>8. \A r \in RowIds : /\ rows'[r].ext => Known(r[1])
                        /\ rows'[r].status = "filled" => state[r[1]] = "filled" \/ r \in double_counted'
                        /\ rows'[r].status = "expired" => Settled(r[1]) \/ r \in blind'
  BY <1>1, <1>2, <1>3, <1>5, AsBefore
<1>9. \A r \in RowIds : rows[r] # NoRow => rows'[r] # NoRow
  BY <1>3, <1>5
<1>10. \A r \in RowIds : r[2] = "manual" /\ rows[r] = NoRow =>
              rows'[r] = NoRow \/ (At(w, "place", "write") /\ job[w].row = r)
  BY <1>5
<1> QED BY <1>1, <1>2, <1>6, <1>7, <1>8, <1>9, <1>10, WriteStep

LEMMA SyncWriteKept ==
    ASSUME TablesInv, NEW w \in Writers, SyncWrite(w) PROVE TablesInv'
<1> DEFINE book == job[w].book
           synced == [r \in RowIds |-> IF r[2] = "sync" /\ book[r[1]] # "unseen"
                                       THEN SyncedRow(book[r[1]]) ELSE rows[r]]
           nt == [t \in DOMAIN trades |->
                     IF t[1] \in job[w].listed /\ t[2] = "hashed"
                     THEN IF synced[<<t[1][1], "sync">>] # NoRow THEN <<t[1][1], "sync">>
                          ELSE Unlinked
                     ELSE trades[t]]
<1>1. Writes(synced, nt) /\ Ends(w) /\ UNCHANGED blind
  BY DEF SyncWrite
<1>2. /\ rows' = synced /\ trades' = nt /\ Writes(rows', trades')
      /\ double_counted \subseteq double_counted'
  BY <1>1 DEF Writes
<1>3. /\ book \in [Externals -> {"unseen", "resting", "filled", "canceled"}]
      /\ \A x \in Externals : /\ book[x] # "unseen" => Known(x)
                              /\ book[x] = "filled" => state[x] = "filled"
      /\ job[w].listed \subseteq fills
  <2>1. job[w] \in Jobs /\ SeenOK(job[w])
    BY DEF TablesInv, TypeOK, JobInv
  <2> QED BY <2>1, JobFields DEF SeenOK
<1>4. ASSUME NEW seen \in {"resting", "filled", "canceled"}
      PROVE /\ SyncedRow(seen) \in [status : Statuses, ext : BOOLEAN]
            /\ SyncedRow(seen).status \in {"open", "filled", "canceled"}
            /\ SyncedRow(seen).status = "filled" => seen = "filled"
            /\ SyncedRow(seen) # NoRow
  <2>1. {"open", "filled", "canceled"} \subseteq Statuses
    BY DEF Statuses, _OPEN_ORDER_STATUSES, OPEN_ORDER_STATUSES
  <2> QED BY <2>1 DEF SyncedRow, NoRow
<1>5. ASSUME NEW r \in RowIds
      PROVE \/ rows'[r] = rows[r]
            \/ /\ r[2] = "sync" /\ Known(r[1]) /\ rows'[r] # NoRow
               /\ rows'[r] \in [status : Statuses, ext : BOOLEAN]
               /\ rows'[r].status \in {"open", "filled", "canceled"}
               /\ rows'[r].status = "filled" => state[r[1]] = "filled"
  <2>1. CASE r[2] = "sync" /\ book[r[1]] # "unseen"
    <3>1. book[r[1]] \in {"resting", "filled", "canceled"}
      BY <1>3, <2>1, RowOrder
    <3>2. rows'[r] = SyncedRow(book[r[1]])
      BY <1>2, <2>1
    <3>3. Known(r[1]) /\ (book[r[1]] = "filled" => state[r[1]] = "filled")
      BY <1>3, <2>1, RowOrder
    <3> QED BY <1>4, <2>1, <3>1, <3>2, <3>3
  <2>2. CASE ~(r[2] = "sync" /\ book[r[1]] # "unseen")
    BY <1>2, <2>2
  <2> QED BY <2>1, <2>2
<1>6. rows' \in [RowIds -> [status : Statuses, ext : BOOLEAN]]
  <2>1. \A r \in RowIds : rows'[r] \in [status : Statuses, ext : BOOLEAN]
    BY <1>2, <1>5, AsBefore
  <2>2. rows' = [r \in RowIds |-> rows'[r]]
    BY <1>2
  <2> QED BY <2>1, <2>2
<1>7. ASSUME NEW t \in Fills \X Kinds
      PROVE \/ nt[t] = trades[t] \/ nt[t] = Unlinked
            \/ t[1] \in fills /\ nt[t] = <<t[1][1], "sync">> /\ nt[t] \in RowIds /\ nt[t][1] = t[1][1]
  <2>1. <<t[1][1], "sync">> \in RowIds /\ t \in DOMAIN trades
    BY <1>2, AsBefore DEF RowIds, Sources, Fills
  <2> HIDE DEF synced
  <2> QED BY <1>3, <2>1
<1>8. nt \in [Fills \X Kinds -> RowIds \cup {Unrecorded, Unlinked}]
  <2>1. DOMAIN trades = Fills \X Kinds
    BY <1>2, AsBefore
  <2>2. \A t \in Fills \X Kinds : nt[t] \in RowIds \cup {Unrecorded, Unlinked}
    <3> HIDE DEF nt
    <3> QED BY <1>2, <1>7, AsBefore
  <2>3. nt = [t \in Fills \X Kinds |-> nt[t]]
    BY <2>1
  <2> HIDE DEF nt
  <2> QED BY <2>2, <2>3
<1>9. Linkage(nt)
  <2> HIDE DEF nt
  <2> QED BY <1>2, <1>7, AsBefore, LinkAssumption DEF Linkage
<1>10. trades' \in [Fills \X Kinds -> RowIds \cup {Unrecorded, Unlinked}] /\ Linkage(trades')
  <2>1. trades' = nt
    BY <1>2
  <2> HIDE DEF nt
  <2> QED BY <1>8, <1>9, <2>1
<1>11. \A r \in RowIds : /\ rows'[r].ext => Known(r[1])
                         /\ rows'[r].status = "filled" => state[r[1]] = "filled" \/ r \in double_counted'
                         /\ rows'[r].status = "expired" => Settled(r[1]) \/ r \in blind'
  BY <1>1, <1>2, <1>5, AsBefore
<1>12. \A r \in RowIds : rows[r] # NoRow => rows'[r] # NoRow
  BY <1>5
<1>13. \A r \in RowIds : r[2] = "manual" /\ rows[r] = NoRow =>
              rows'[r] = NoRow \/ (At(w, "place", "write") /\ job[w].row = r)
  BY <1>5
<1>14. Writes(rows', trades') /\ Ends(w) /\ blind' \subseteq RowIds
  BY <1>1, <1>2, AsBefore
<1> HIDE DEF nt, synced
<1> QED BY <1>6, <1>10, <1>11, <1>12, <1>13, <1>14, WriteStep

\* A row with another status.
LEMMA Restated ==
    ASSUME TablesInv, NEW r \in RowIds, NEW s \in Statuses \ {"none"}
    PROVE  /\ [rows[r] EXCEPT !.status = s] \in [status : Statuses, ext : BOOLEAN]
           /\ [rows[r] EXCEPT !.status = s].status = s
           /\ [rows[r] EXCEPT !.status = s].ext = rows[r].ext
           /\ [rows[r] EXCEPT !.status = s] # NoRow
<1>1. rows[r] \in [status : Statuses, ext : BOOLEAN]
  BY DEF TablesInv, TypeOK
<1>2. /\ [rows[r] EXCEPT !.status = s] \in [status : Statuses, ext : BOOLEAN]
      /\ [rows[r] EXCEPT !.status = s].status = s
      /\ [rows[r] EXCEPT !.status = s].ext = rows[r].ext
  BY <1>1
<1> QED BY <1>2 DEF NoRow

LEMMA StatusWriteKept ==
    ASSUME TablesInv, NEW w \in Writers, NEW expire \in BOOLEAN, StatusWrite(w, expire)
    PROVE  TablesInv'
<1> DEFINE filled == PlannedFilled(w) \cap StillAsRead(w)
           expired == PlannedExpired(w, expire) \cap StillAsRead(w)
           nr == [r \in RowIds |->
                     IF r \in filled THEN [rows[r] EXCEPT !.status = "filled"]
                     ELSE IF r \in expired THEN [rows[r] EXCEPT !.status = "expired"]
                     ELSE rows[r]]
<1>1. /\ At(w, "status", "write") /\ Writes(nr, trades) /\ Ends(w)
      /\ blind' = IF job[w].unread THEN blind \cup expired ELSE blind
  BY DEF StatusWrite
<1>2. /\ rows' = nr /\ trades' = trades /\ Writes(rows', trades')
      /\ double_counted \subseteq double_counted'
  BY <1>1 DEF Writes
<1>3. job[w] \in Jobs /\ SeenOK(job[w]) /\ fills \subseteq Fills
  BY DEF TablesInv, TypeOK, JobInv
<1>4. ASSUME NEW r \in filled
      PROVE /\ r \in RowIds /\ rows[r] # NoRow
            /\ state[r[1]] = "filled" \/ r \in double_counted
  <2>1. /\ r \in RowIds /\ rows[r].status \in _OPEN_ORDER_STATUSES
        /\ EffectiveFill(w, r) >= Lots
    BY DEF PlannedFilled, StillAsRead
  <2>2. rows[r] # NoRow
    BY <2>1 DEF NoRow, _OPEN_ORDER_STATUSES, OPEN_ORDER_STATUSES
  <2>3. CASE job[w].linked[r] >= Lots
    BY <1>3, <2>1, <2>2, <2>3 DEF SeenOK
  <2>4. CASE Cardinality(FillsOf(r[1], job[w].listed)) >= Lots
    <3>1. job[w].listed \subseteq fills /\ r[1] \in Externals /\ FillsInv
      BY <1>3, <2>1, RowOrder DEF SeenOK, TablesInv
    <3>2. state[r[1]] = "filled"
      BY <2>4, <3>1, SomeFillsCount
    <3> QED BY <2>1, <2>2, <3>2
  <2>5. ~(0 >= Lots)
    BY TablesAssumption
  <2> QED BY <2>1, <2>3, <2>4, <2>5 DEF EffectiveFill
<1>5. ASSUME NEW r \in expired
      PROVE /\ r \in RowIds /\ rows[r] # NoRow
            /\ ~job[w].unread => Settled(r[1])
  <2>1. /\ r \in RowIds /\ rows[r].status \in _OPEN_ORDER_STATUSES
        /\ job[w].read[r].ext /\ job[w].book[r[1]] # "resting"
    BY DEF PlannedExpired, StillAsRead, DirectLive
  <2>2. rows[r] # NoRow
    BY <2>1 DEF NoRow, _OPEN_ORDER_STATUSES, OPEN_ORDER_STATUSES
  <2> QED BY <1>3, <2>1, <2>2 DEF SeenOK
<1>6. \A r \in expired : r \in blind' \/ Settled(r[1])
  BY <1>1, <1>5
<1>7. blind \subseteq blind' /\ blind' \subseteq RowIds
  BY <1>1, <1>2, <1>5, AsBefore
<1>8. {"filled", "expired"} \subseteq Statuses \ {"none"}
  BY DEF Statuses
<1> HIDE DEF filled, expired
<1>9. ASSUME NEW r \in RowIds
      PROVE \/ rows'[r] = rows[r]
            \/ /\ rows'[r] \in [status : Statuses, ext : BOOLEAN]
               /\ rows'[r].status = "filled" /\ r \in filled
               /\ rows'[r].ext = rows[r].ext /\ rows'[r] # NoRow
            \/ /\ rows'[r] \in [status : Statuses, ext : BOOLEAN]
               /\ rows'[r].status = "expired" /\ r \in expired
               /\ rows'[r].ext = rows[r].ext /\ rows'[r] # NoRow
  <2>1. CASE r \in filled
    <3>1. rows'[r] = [rows[r] EXCEPT !.status = "filled"]
      BY <1>2, <2>1
    <3> QED BY <1>8, <2>1, <3>1, Restated
  <2>2. CASE r \notin filled /\ r \in expired
    <3>1. rows'[r] = [rows[r] EXCEPT !.status = "expired"]
      BY <1>2, <2>2
    <3> QED BY <1>8, <2>2, <3>1, Restated
  <2>3. CASE r \notin filled /\ r \notin expired
    BY <1>2, <2>3
  <2> QED BY <2>1, <2>2, <2>3
<1>10. rows' \in [RowIds -> [status : Statuses, ext : BOOLEAN]]
  <2>1. \A r \in RowIds : rows'[r] \in [status : Statuses, ext : BOOLEAN]
    BY <1>2, <1>9, AsBefore
  <2>2. rows' = [r \in RowIds |-> rows'[r]]
    BY <1>2
  <2> QED BY <2>1, <2>2
<1> HIDE DEF nr
<1>11. /\ trades' \in [Fills \X Kinds -> RowIds \cup {Unrecorded, Unlinked}]
       /\ Linkage(trades')
  BY <1>2, AsBefore
<1>12. \A r \in RowIds : /\ rows'[r].ext => Known(r[1])
                         /\ rows'[r].status = "filled" => state[r[1]] = "filled" \/ r \in double_counted'
                         /\ rows'[r].status = "expired" => Settled(r[1]) \/ r \in blind'
  <2> SUFFICES ASSUME NEW r \in RowIds
               PROVE /\ rows'[r].ext => Known(r[1])
                     /\ rows'[r].status = "filled" => state[r[1]] = "filled" \/ r \in double_counted'
                     /\ rows'[r].status = "expired" => Settled(r[1]) \/ r \in blind'
    OBVIOUS
  <2>1. CASE rows'[r] = rows[r]
    BY <1>2, <1>7, <2>1, AsBefore
  <2>2. CASE rows'[r].status = "filled" /\ r \in filled /\ rows'[r].ext = rows[r].ext
    BY <1>2, <1>4, <2>2, AsBefore
  <2>3. CASE rows'[r].status = "expired" /\ r \in expired /\ rows'[r].ext = rows[r].ext
    BY <1>2, <1>6, <2>3, AsBefore
  <2> QED BY <1>9, <2>1, <2>2, <2>3
<1>13. \A r \in RowIds : rows[r] # NoRow => rows'[r] # NoRow
  BY <1>9
<1>14. \A r \in RowIds : r[2] = "manual" /\ rows[r] = NoRow =>
              rows'[r] = NoRow \/ (At(w, "place", "write") /\ job[w].row = r)
  BY <1>4, <1>5, <1>9
<1> QED BY <1>1, <1>2, <1>7, <1>10, <1>11, <1>12, <1>13, <1>14, WriteStep

LEMMA TradesWriteKept ==
    ASSUME TablesInv, NEW w \in Writers, NEW target \in [Externals -> RowIds \cup {Unlinked}],
           TradesWrite(w, target)
    PROVE  TablesInv'
<1> DEFINE nt == [t \in DOMAIN trades |->
                      IF t[1] \in job[w].listed /\ t[2] = "hashed" /\ target[t[1][1]] # Unlinked
                      THEN target[t[1][1]] ELSE trades[t]]
<1>1. Writes(rows, nt) /\ Ends(w) /\ UNCHANGED blind
  BY DEF TradesWrite
<1>2. /\ rows' = rows /\ trades' = nt /\ Writes(rows', trades')
      /\ double_counted \subseteq double_counted'
  BY <1>1 DEF Writes
<1>3. \A x \in Externals : target[x] # Unlinked => target[x] \in RowIds /\ target[x][1] = x
  BY DEF TradesWrite, BackfillTargets
<1>4. job[w].listed \subseteq fills /\ DOMAIN trades = Fills \X Kinds
  BY <1>2, AsBefore DEF TablesInv, JobInv, SeenOK
<1>5. ASSUME NEW t \in Fills \X Kinds
      PROVE \/ nt[t] = trades[t]
            \/ t[1] \in fills /\ nt[t] \in RowIds /\ nt[t][1] = t[1][1]
  <2>1. t[1][1] \in Externals
    BY DEF Fills
  <2> QED BY <1>3, <1>4, <2>1
<1>6. nt \in [Fills \X Kinds -> RowIds \cup {Unrecorded, Unlinked}]
  <2>1. nt = [t \in Fills \X Kinds |-> nt[t]]
    BY <1>4
  <2> HIDE DEF nt
  <2>2. \A t \in Fills \X Kinds : nt[t] \in RowIds \cup {Unrecorded, Unlinked}
    BY <1>2, <1>5, AsBefore
  <2> QED BY <2>1, <2>2
<1> HIDE DEF nt
<1>7. Linkage(nt)
  BY <1>2, <1>5, AsBefore DEF Linkage
<1>8. /\ rows' \in [RowIds -> [status : Statuses, ext : BOOLEAN]] /\ blind' \subseteq RowIds
      /\ trades' \in [Fills \X Kinds -> RowIds \cup {Unrecorded, Unlinked}] /\ Linkage(trades')
  BY <1>1, <1>2, <1>6, <1>7, AsBefore
<1>9. \A r \in RowIds : /\ rows'[r].ext => Known(r[1])
                        /\ rows'[r].status = "filled" => state[r[1]] = "filled" \/ r \in double_counted'
                        /\ rows'[r].status = "expired" => Settled(r[1]) \/ r \in blind'
  BY <1>1, <1>2, AsBefore
<1> QED BY <1>1, <1>2, <1>8, <1>9, WriteStep

LEMMA ReconcileWriteKept ==
    ASSUME TablesInv, NEW w \in Writers, ReconcileWrite(w) PROVE TablesInv'
<1> DEFINE matched == {f \in job[w].listed : <<f[1], "live">> \in ReconcileRows(job[w].read)}
           touched == {<<f[1], "live">> : f \in matched}
           nt == [t \in DOMAIN trades |->
                     IF t[1] \in matched /\ t[2] = "raw" THEN <<t[1][1], "live">> ELSE trades[t]]
           nr == [r \in RowIds |-> IF r \in touched THEN [rows[r] EXCEPT !.status = FillStatus(r, nt)]
                                   ELSE rows[r]]
<1>1. Writes(nr, nt) /\ Ends(w) /\ UNCHANGED blind
  BY DEF ReconcileWrite
<1>2. /\ rows' = nr /\ trades' = nt /\ Writes(rows', trades')
      /\ double_counted \subseteq double_counted'
      /\ \A r \in RowIds : DoublyLinked(r, nt) => r \in double_counted'
  BY <1>1 DEF Writes
<1>3. matched \subseteq fills /\ fills \subseteq Fills /\ DOMAIN trades = Fills \X Kinds
  BY <1>2, AsBefore DEF TablesInv, TypeOK, JobInv, SeenOK
<1> HIDE DEF matched
<1>4. ASSUME NEW r \in touched PROVE r[2] = "live"
  <2>1. PICK f \in matched : r = <<f[1], "live">>
    OBVIOUS
  <2> QED BY <2>1
<1>5. ASSUME NEW t \in Fills \X Kinds
      PROVE \/ nt[t] = trades[t]
            \/ t[1] \in fills /\ nt[t] = <<t[1][1], "live">> /\ nt[t] \in RowIds /\ nt[t][1] = t[1][1]
  <2>1. <<t[1][1], "live">> \in RowIds
    BY DEF Fills, RowIds, Sources
  <2> QED BY <1>3, <2>1
<1>6. nt \in [Fills \X Kinds -> RowIds \cup {Unrecorded, Unlinked}]
  <2>1. nt = [t \in Fills \X Kinds |-> nt[t]]
    BY <1>3
  <2> HIDE DEF nt
  <2>2. \A t \in Fills \X Kinds : nt[t] \in RowIds \cup {Unrecorded, Unlinked}
    BY <1>2, <1>5, AsBefore
  <2> QED BY <2>1, <2>2
<1> HIDE DEF touched
<1>7. \A r \in RowIds : \/ rows'[r] = rows[r]
                        \/ r[2] = "live" /\ rows'[r] = [rows[r] EXCEPT !.status = FillStatus(r, nt)]
  <2> HIDE DEF nt
  <2> QED BY <1>2, <1>4
<1>8. rows' = [r \in RowIds |-> rows'[r]]
  BY <1>2
<1>9. trades' = nt
  BY <1>2
<1> HIDE DEF nt, nr
<1>10. Linkage(nt)
  BY <1>2, <1>5, AsBefore DEF Linkage
<1>11. ASSUME NEW r \in RowIds
       PROVE /\ FillStatus(r, nt) \in {"filled", "partially_filled"}
             /\ FillStatus(r, nt) = "filled" => state[r[1]] = "filled" \/ r \in double_counted'
  <2>1. IsFiniteSet(LinkedFills(r, nt)) /\ FillsInv
    BY <1>6, <1>10, LinkedBound DEF TablesInv
  <2>2. Cardinality(LinkedFills(r, nt)) >= Lots => state[r[1]] = "filled" \/ DoublyLinked(r, nt)
    BY <1>3, <1>6, <1>10, <2>1, LinkedEvidence
  <2> QED BY <1>2, <2>2 DEF FillStatus
<1>12. {"filled", "partially_filled"} \subseteq Statuses \ {"none"}
  BY DEF Statuses, _OPEN_ORDER_STATUSES, OPEN_ORDER_STATUSES
<1>13. ASSUME NEW r \in RowIds
       PROVE \/ rows'[r] = rows[r]
             \/ /\ r[2] = "live" /\ rows'[r] \in [status : Statuses, ext : BOOLEAN]
                /\ rows'[r].status \in {"filled", "partially_filled"}
                /\ rows'[r].status = "filled" => state[r[1]] = "filled" \/ r \in double_counted'
                /\ rows'[r].ext = rows[r].ext /\ rows'[r] # NoRow
  <2>1. FillStatus(r, nt) \in Statuses \ {"none"}
    BY <1>11, <1>12
  <2> DEFINE s == FillStatus(r, nt)
  <2>2. /\ [rows[r] EXCEPT !.status = s] \in [status : Statuses, ext : BOOLEAN]
        /\ [rows[r] EXCEPT !.status = s].status = s
        /\ [rows[r] EXCEPT !.status = s].ext = rows[r].ext
        /\ [rows[r] EXCEPT !.status = s] # NoRow
    <3> HIDE DEF s
    <3> QED BY <2>1, Restated DEF s
  <2> QED BY <1>7, <1>11, <2>2
<1>14. rows' \in [RowIds -> [status : Statuses, ext : BOOLEAN]]
  <2>1. \A r \in RowIds : rows'[r] \in [status : Statuses, ext : BOOLEAN]
    BY <1>2, <1>13, AsBefore
  <2> QED BY <1>8, <2>1
<1>15. /\ trades' \in [Fills \X Kinds -> RowIds \cup {Unrecorded, Unlinked}]
       /\ Linkage(trades') /\ blind' \subseteq RowIds
  BY <1>1, <1>2, <1>6, <1>9, <1>10, AsBefore
<1>16. \A r \in RowIds : /\ rows'[r].ext => Known(r[1])
                         /\ rows'[r].status = "filled" => state[r[1]] = "filled" \/ r \in double_counted'
                         /\ rows'[r].status = "expired" => Settled(r[1]) \/ r \in blind'
  BY <1>1, <1>2, <1>13, AsBefore
<1>17. \A r \in RowIds : rows[r] # NoRow => rows'[r] # NoRow
  BY <1>13
<1>18. \A r \in RowIds : r[2] = "manual" /\ rows[r] = NoRow =>
              rows'[r] = NoRow \/ (At(w, "place", "write") /\ job[w].row = r)
  BY <1>13
<1> QED BY <1>1, <1>2, <1>14, <1>15, <1>16, <1>17, <1>18, WriteStep

-----------------------------------------------------------------------------
(* The theorems *)

LEMMA InitKeeps == Init => TablesInv
<1> SUFFICES ASSUME Init PROVE TablesInv
  OBVIOUS
<1> USE DEF Init
<1>1. NoRow \in [status : Statuses, ext : BOOLEAN]
  BY DEF NoRow, Statuses
<1>2. TypeOK
  BY <1>1, IdleJob, TablesAssumption DEF TypeOK
<1>3. FillsInv
  <2> SUFFICES ASSUME NEW x \in Externals
               PROVE \E n \in 0..Lots : /\ FillsOf(x, fills) = {x} \X (1..n)
                                        /\ n = Lots => state[x] = "filled"
    BY DEF FillsInv
  <2>1. FillsOf(x, fills) = {} /\ {x} \X (1..0) = {}
    BY DEF FillsOf
  <2>2. 0 \in 0..Lots /\ 0 # Lots
    BY TablesAssumption
  <2> QED BY <2>1, <2>2
<1>4. TradesInv
  <2>1. \A t \in Fills \X Kinds : trades[t] = Unrecorded /\ trades[t] \notin RowIds
    BY LinkAssumption
  <2>2. \A f \in Fills : <<f, "raw">> \in Fills \X Kinds
    BY DEF Kinds
  <2> QED BY <2>1, <2>2 DEF TradesInv, Linkage, DoublyLinked
<1>5. RowsInv
  <2>1. \A x \in Externals : <<x, "manual">> \in RowIds
    BY DEF RowIds, Sources
  <2> QED BY <2>1 DEF RowsInv, NoRow
<1>6. JobInv
  <2>1. \A w \in Writers : job[w] = Idle /\ job[w].work # "place"
    BY DEF Idle
  <2> QED BY <2>1, IdleOK DEF JobInv
<1> QED BY <1>2, <1>3, <1>4, <1>5, <1>6 DEF TablesInv

LEMMA WriterKeeps ==
    ASSUME TablesInv, NEW w \in Writers, WriterStep(w) PROVE TablesInv'
<1>1. CASE \E x \in Externals, s \in Sources : PlaceBegin(w, x, s)
  BY <1>1, PlaceBeginKept
<1>2. CASE \E a \in {"accepted", "accepted_no_id", "refused", "lost_answer", "dry_run"} : PlaceAsk(w, a)
  BY <1>2, PlaceAskKept
<1>3. CASE \E r \in RowIds, dry_run \in BOOLEAN : CancelBegin(w, r, dry_run)
  BY <1>3, CancelBeginKept
<1>4. CASE \E success \in BOOLEAN : CancelAsk(w, success)
  BY <1>4, CancelAskKept
<1>5. CASE PlaceWrite(w)
  BY <1>5, PlaceWriteKept
<1>6. CASE CancelWrite(w)
  BY <1>6, CancelWriteKept
<1>7. CASE \E work \in {"reconcile", "status", "trades"} : ReadRows(w, work)
  BY <1>7, ReadRowsKept
<1>8. ASSUME NEW failed \in BOOLEAN,
             \/ AskTrades(w, "reconcile", "ask", failed) \/ AskTrades(w, "trades", "ask", failed)
             \/ AskTrades(w, "status", "ask_trades", failed)
             \/ AskTrades(w, "sync", "ask_trades", failed)
      PROVE TablesInv'
  <2>1. {"reconcile", "trades", "status", "sync"} \subseteq Works \ {"place", "cancel"}
    BY DEF Works
  <2> QED BY <1>8, <2>1, AskTradesKept
<1>9. CASE \E failed \in BOOLEAN : MirrorAsk(w, failed)
  BY <1>9, MirrorAskKept
<1>10. CASE \E named \in SUBSET Named :
                \/ \E failed \in BOOLEAN : AskOrders(w, failed, named)
                \/ TakeRequestsWord(w, named)
  BY <1>10, AskOrdersKept, TakeRequestsWordKept
<1>11. CASE \E expire \in BOOLEAN : StatusWrite(w, expire)
  BY <1>11, StatusWriteKept
<1>12. CASE \E target \in [Externals -> RowIds \cup {Unlinked}] : TradesWrite(w, target)
  BY <1>12, TradesWriteKept
<1>13. CASE \E failing \in SUBSET {"resting", "filled", "canceled"} : SyncAsk(w, failing)
  BY <1>13, SyncAskKept
<1>14. CASE ReconcileWrite(w)
  BY <1>14, ReconcileWriteKept
<1>15. CASE MirrorWrite(w)
  BY <1>15, MirrorWriteKept
<1>16. CASE SyncWrite(w)
  BY <1>16, SyncWriteKept
<1>17. CASE Abandon(w)
  BY <1>17, AbandonKept
<1> QED BY <1>1, <1>2, <1>3, <1>4, <1>5, <1>6, <1>7, <1>8, <1>9, <1>10, <1>11, <1>12, <1>13,
           <1>14, <1>15, <1>16, <1>17 DEF WriterStep

LEMMA StutterKeeps == TablesInv /\ UNCHANGED vars => TablesInv'
<1> SUFFICES ASSUME TablesInv, UNCHANGED vars PROVE TablesInv'
  OBVIOUS
<1>1. /\ state' = state /\ fills' = fills /\ rows' = rows /\ trades' = trades /\ job' = job
      /\ jobs' = jobs /\ double_counted' = double_counted /\ blind' = blind
  BY DEF vars
<1> QED BY <1>1 DEF TablesInv, TypeOK, FillsInv, TradesInv, Linkage, RowsInv, JobInv, PlaceOK,
                    CancelOK, SeenOK, Known, Settled

LEMMA TablesInvHolds == Spec => []TablesInv
<1>1. TablesInv /\ [Next]_vars => TablesInv'
  BY WriterKeeps, ExchangeFillKept, StutterKeeps DEF Next
<1> QED BY <1>1, InitKeeps, PTL DEF Spec

\* The variables keep their types, for any number of orders, lots, threads and jobs:
\* in particular no writer stores a status in the words of the exchange.
THEOREM TablesTypeCorrect == Spec => []TypeOK
<1>1. TablesInv => TypeOK
  BY DEF TablesInv
<1> QED BY <1>1, TablesInvHolds, PTL

\* A row says "filled" of an order that was not filled only where a fill has been
\* linked to it twice, however many jobs interleave.
THEOREM FilledHasEvidence == Spec => []FilledOnlyByEvidence
<1>1. TablesInv => FilledOnlyByEvidence
  BY DEF TablesInv, RowsInv, FilledOnlyByEvidence
<1> QED BY <1>1, TablesInvHolds, PTL

\* A row is expired while its order rests only after a failed read of the exchange
\* was taken for an empty list.
THEOREM ExpiredIsSettled == Spec => []ExpiredNotResting
<1>1. TablesInv => ExpiredNotResting
  BY DEF TablesInv, RowsInv, ExpiredNotResting, Settled
<1> QED BY <1>1, TablesInvHolds, PTL

\* What a step may make of a cancelled row.
KeptRow(r) ==
    r[2] \in {"live", "manual"} /\ rows[r].status = "canceled" =>
        \/ rows'[r].status \in {"canceled", "cancel_error"}
        \/ /\ r[2] = "live"
           /\ \/ FillsOf(r[1], fills) # {}
              \/ \E w \in Writers : At(w, "place", "write") /\ job[w].row = r

LEMMA SameRow ==
    ASSUME NEW r, rows'[r] = rows[r] PROVE KeptRow(r)
BY DEF KeptRow

LEMMA WriterKeepsCancels ==
    ASSUME TablesInv, NEW w \in Writers, WriterStep(w), NEW r \in RowIds
    PROVE  KeptRow(r)
<1>0. rows \in [RowIds -> [status : Statuses, ext : BOOLEAN]]
  BY DEF TablesInv, TypeOK
<1>1. CASE \E x \in Externals, s \in Sources : PlaceBegin(w, x, s)
  <2>1. PICK x \in Externals, s \in Sources : PlaceBegin(w, x, s)
    BY <1>1
  <2>2. CASE r = <<x, "live">>
    <3>1. rows[r].status = "none"
      BY <2>1, <2>2 DEF PlaceBegin, NoRow
    <3> QED BY <3>1 DEF KeptRow
  <2>3. CASE r # <<x, "live">>
    <3>1. s = "live" => r # <<x, s>>
      BY <2>3
    <3>2. rows'[r] = rows[r]
      BY <1>0, <2>1, <3>1 DEF PlaceBegin
    <3> QED BY <3>2, SameRow
  <2> QED BY <2>2, <2>3
<1>2. CASE PlaceWrite(w)
  <2>1. CASE r = job[w].row
    <3>1. At(w, "place", "write") /\ PlaceOK(job[w])
      BY <1>2 DEF PlaceWrite, TablesInv, JobInv
    <3>2. r[2] = "manual" => rows[r].status = "none"
      BY <2>1, <3>1 DEF PlaceOK, At, NoRow
    <3> QED BY <2>1, <3>1, <3>2 DEF KeptRow
  <2>2. CASE r # job[w].row
    <3>1. rows'[r] = rows[r]
      BY <1>0, <1>2, <2>2 DEF PlaceWrite, Writes
    <3> QED BY <3>1, SameRow
  <2> QED BY <2>1, <2>2
<1>3. CASE CancelWrite(w)
  <2>1. At(w, "cancel", "write") /\ CancelOK(job[w])
    BY <1>3 DEF CancelWrite, TablesInv, JobInv
  <2>2. rows' = [rows EXCEPT ![job[w].row].status = job[w].status]
    BY <1>3 DEF CancelWrite, Writes
  <2>3. rows'[r] = rows[r] \/ rows'[r].status = job[w].status
    BY <1>0, <2>2
  <2>4. job[w].status \in {"canceled", "cancel_error"}
    BY <2>1 DEF CancelOK, At
  <2> QED BY <2>3, <2>4, SameRow DEF KeptRow
<1>4. CASE \E expire \in BOOLEAN : StatusWrite(w, expire)
  <2>1. PICK expire \in BOOLEAN : StatusWrite(w, expire)
    BY <1>4
  <2> DEFINE filled == PlannedFilled(w) \cap StillAsRead(w)
             expired == PlannedExpired(w, expire) \cap StillAsRead(w)
  <2>2. r \in filled \cup expired => rows[r].status \in _OPEN_ORDER_STATUSES
    BY DEF PlannedFilled, PlannedExpired, StillAsRead
  <2>3. r \notin filled \cup expired => rows'[r] = rows[r]
    <3>1. rows' = [q \in RowIds |->
                     IF q \in filled THEN [rows[q] EXCEPT !.status = "filled"]
                     ELSE IF q \in expired THEN [rows[q] EXCEPT !.status = "expired"]
                     ELSE rows[q]]
      BY <2>1 DEF StatusWrite, Writes
    <3> HIDE DEF filled, expired
    <3> QED BY <3>1
  <2>4. "canceled" \notin _OPEN_ORDER_STATUSES
    BY DEF _OPEN_ORDER_STATUSES, OPEN_ORDER_STATUSES
  <2> QED BY <2>2, <2>3, <2>4, SameRow DEF KeptRow
<1>5. CASE ReconcileWrite(w)
  <2> DEFINE matched == {f \in job[w].listed : <<f[1], "live">> \in ReconcileRows(job[w].read)}
             touched == {<<f[1], "live">> : f \in matched}
             nt == [t \in DOMAIN trades |->
                     IF t[1] \in matched /\ t[2] = "raw" THEN <<t[1][1], "live">> ELSE trades[t]]
  <2>1. rows' = [q \in RowIds |-> IF q \in touched THEN [rows[q] EXCEPT !.status = FillStatus(q, nt)]
                                  ELSE rows[q]]
    BY <1>5 DEF ReconcileWrite, Writes
  <2>2. matched \subseteq fills
    BY DEF TablesInv, JobInv, SeenOK
  <2> HIDE DEF matched, nt
  <2>3. ASSUME r \in touched PROVE r[2] = "live" /\ FillsOf(r[1], fills) # {}
    <3>1. PICK f \in matched : r = <<f[1], "live">>
      BY <2>3
    <3>2. f \in FillsOf(r[1], fills)
      BY <2>2, <3>1 DEF FillsOf
    <3> QED BY <3>1, <3>2
  <2> HIDE DEF touched
  <2>4. r \notin touched => rows'[r] = rows[r]
    BY <2>1
  <2> QED BY <2>3, <2>4, SameRow DEF KeptRow
<1>6. CASE MirrorWrite(w)
  <2>1. r[2] # "mirror" => rows'[r] = rows[r]
    BY <1>6 DEF MirrorWrite, Writes
  <2> QED BY <2>1, SameRow DEF KeptRow
<1>7. CASE SyncWrite(w)
  <2>1. r[2] # "sync" => rows'[r] = rows[r]
    BY <1>7 DEF SyncWrite, Writes
  <2> QED BY <2>1, SameRow DEF KeptRow
<1>8. ASSUME rows' = rows PROVE KeptRow(r)
  BY <1>8, SameRow
<1>9. CASE \E a \in {"accepted", "accepted_no_id", "refused", "lost_answer", "dry_run"} : PlaceAsk(w, a)
  BY <1>8, <1>9 DEF PlaceAsk
<1>10. CASE \/ \E q \in RowIds, dry_run \in BOOLEAN : CancelBegin(w, q, dry_run)
            \/ \E success \in BOOLEAN : CancelAsk(w, success)
  BY <1>8, <1>10 DEF CancelBegin, CancelAsk
<1>11. CASE \/ \E work \in {"reconcile", "status", "trades"} : ReadRows(w, work)
            \/ \E failing \in SUBSET {"resting", "filled", "canceled"} : SyncAsk(w, failing)
            \/ Abandon(w)
  BY <1>8, <1>11 DEF ReadRows, SyncAsk, Abandon
<1>12. CASE \E failed \in BOOLEAN :
              \/ AskTrades(w, "reconcile", "ask", failed) \/ AskTrades(w, "trades", "ask", failed)
              \/ AskTrades(w, "status", "ask_trades", failed)
              \/ AskTrades(w, "sync", "ask_trades", failed)
              \/ MirrorAsk(w, failed)
  BY <1>8, <1>12 DEF AskTrades, MirrorAsk
<1>14. CASE \E named \in SUBSET Named :
              \/ \E failed \in BOOLEAN : AskOrders(w, failed, named)
              \/ TakeRequestsWord(w, named)
  BY <1>8, <1>14 DEF AskOrders, TakeRequestsWord
<1>13. CASE \E target \in [Externals -> RowIds \cup {Unlinked}] : TradesWrite(w, target)
  BY <1>8, <1>13 DEF TradesWrite, Writes
<1> QED BY <1>1, <1>2, <1>3, <1>4, <1>5, <1>6, <1>7, <1>9, <1>10, <1>11, <1>12, <1>13,
           <1>14 DEF WriterStep

\* No backfill that had read a cancelled row before its cancel changes it again.
THEOREM CancelIsKept == Spec => CancelKept
<1>1. TablesInv /\ [Next]_vars => [\A r \in RowIds : KeptRow(r)]_vars
  <2> SUFFICES ASSUME TablesInv, Next, NEW r \in RowIds PROVE KeptRow(r)
    OBVIOUS
  <2>1. ASSUME NEW x \in Externals, ExchangeFill(x) PROVE KeptRow(r)
    BY <2>1, SameRow DEF ExchangeFill
  <2> QED BY <2>1, WriterKeepsCancels DEF Next
<1>2. Spec => [][\A r \in RowIds : KeptRow(r)]_vars
  BY <1>1, TablesInvHolds, PTL DEF Spec
<1> QED BY <1>2 DEF CancelKept, KeptRow

-----------------------------------------------------------------------------
(* ManagerOrders *)

\* A call in flight works a plan.
TypeInv ==
    /\ ManagerTypeOK
    /\ \A h \in Handlers : step[h] \in InFlight => plan[h] \in Plans

\* EndCall keeps the types.
LEMMA EndTypes ==
    ASSUME NEW h \in Handlers, TypeInv, EndCall(h)
    PROVE  /\ ledger_lock' \in [LedgerIds -> Handlers \cup {NoHandler}]
           /\ row_lock' \in [Keys -> Handlers \cup {NoHandler}]
           /\ exchange' \in [Ids -> Keys \cup {"unused"}]
           /\ step' \in [Handlers -> CallSteps]
           /\ plan' \in [Handlers -> Plans \cup {NoPlan}]
           /\ written' \in [Handlers -> Rows]
           /\ sent' \in [Handlers -> Ids \cup {NoId}]
           /\ \A g \in Handlers : step'[g] \in InFlight => plan'[g] \in Plans
BY DEF TypeInv, ManagerTypeOK, EndCall, Goto, CallSteps, InFlight, Rows, NoOrder, OrderStatuses

\* A status written over an entry.
LEMMA LedgerTypes ==
    ASSUME TypeInv, NEW l \in LedgerIds, NEW status \in OrderStatuses \cup {Planned},
           SetLedger(l, status)
    PROVE  /\ ledger' \in [LedgerIds -> OrderStatuses \cup {Planned}]
           /\ rewritten' \subseteq LedgerIds
BY DEF TypeInv, ManagerTypeOK, SetLedger

\* What the exchange call leaves in the row is a row.
LEMMA OutcomeTyped ==
    ASSUME NEW answer \in Answers, answer # "refused" => Unused # {}
    PROVE  /\ Outcome(answer, NewId) \in Rows
           /\ Outcome(answer, NewId).status # "none"
           /\ answer # "refused" => NewId \in Ids /\ exchange[NewId] = "unused"
<1>1. answer # "refused" => NewId \in Unused
  BY DEF NewId
<1>2. answer # "refused" => NewId \in Ids /\ exchange[NewId] = "unused"
  BY <1>1 DEF Unused
<1>3. CASE answer = "accepted"
  BY <1>2, <1>3 DEF Outcome, Rows, OrderStatuses, Executed, Submitted
<1>4. CASE answer = "accepted_no_id"
  BY <1>2, <1>4 DEF Outcome, Rows, OrderStatuses, Executed, Unconfirmed
<1>5. CASE answer \in {"refused", "lost_answer"}
  BY <1>2, <1>5 DEF Outcome, Rows, OrderStatuses, Executed, Failed
<1> QED BY <1>3, <1>4, <1>5 DEF Answers

LEMMA TypesInit == ManagerInit => TypeInv
BY ManagerAssumption DEF ManagerInit, TypeInv, ManagerTypeOK, CallSteps, InFlight, Rows, NoOrder,
   OrderStatuses

LEMMA TypesStep == TypeInv /\ [ManagerNext]_mgr_vars => TypeInv'
<1> SUFFICES ASSUME TypeInv, [ManagerNext]_mgr_vars PROVE TypeInv'
  OBVIOUS
<1> USE ManagerAssumption DEF TypeInv, ManagerTypeOK, CallSteps, InFlight, Goto
<1>1. ASSUME NEW h \in Handlers, NEW p \in Plans, Begin(h, p) PROVE TypeInv'
  BY <1>1 DEF Begin
<1>2. ASSUME NEW h \in Handlers, Replay(h) PROVE TypeInv'
  BY <1>2, EndTypes DEF Replay
<1>3. ASSUME NEW h \in Handlers, FindNoRow(h) PROVE TypeInv'
  BY <1>3 DEF FindNoRow, Key
<1>4. ASSUME NEW h \in Handlers, WriteLedger(h) PROVE TypeInv'
  BY <1>4 DEF WriteLedger, Entry
<1>5. ASSUME NEW h \in Handlers, NEW answer \in Answers, Place(h, answer) PROVE TypeInv'
  <2>1. answer # "refused" => Unused # {}
    BY <1>5 DEF Place
  <2>2. Outcome(answer, NewId) \in Rows /\ (answer # "refused" => NewId \in Ids)
    BY <2>1, OutcomeTyped
  <2>3. plan[h] \in Plans /\ Key(h) \in Keys
    BY <1>5 DEF Place, Key
  <2> QED BY <1>5, <2>2, <2>3 DEF Place
<1>6. ASSUME NEW h \in Handlers, WriteRow(h) PROVE TypeInv'
  BY <1>6 DEF WriteRow
<1>7. ASSUME NEW h \in Handlers, Commit(h) PROVE TypeInv'
  <2>1. written[h] \in Rows /\ written[h].status \in OrderStatuses \cup {Planned}
    BY DEF Rows
  <2>2. plan[h] \in Plans /\ Entry(h) \in LedgerIds
    BY <1>7 DEF Commit, Entry
  <2> QED BY <1>7, <2>1, <2>2, EndTypes, LedgerTypes DEF Commit
<1>8. ASSUME NEW h \in Handlers, Abort(h) PROVE TypeInv'
  BY <1>8, EndTypes DEF Abort, Key
<1>9. ASSUME NEW p \in Plans, RecordLedger(p) PROVE TypeInv'
  <2>1. Planned \in OrderStatuses \cup {Planned} /\ LedgerOf[p] \in LedgerIds
    OBVIOUS
  <2> QED BY <1>9, <2>1, LedgerTypes DEF RecordLedger
<1>10. CASE UNCHANGED mgr_vars
  BY <1>10 DEF mgr_vars
<1> QED BY <1>1, <1>2, <1>3, <1>4, <1>5, <1>6, <1>7, <1>8, <1>9, <1>10 DEF ManagerNext, HandlerStep

\* Type correctness: rows, ledger entries, locks and the places of the calls stay what
\* the code can make them.
THEOREM ManagerTypeCorrect == ManagerSpec => []ManagerTypeOK
<1>1. ManagerSpec => []TypeInv
  BY TypesInit, TypesStep, PTL DEF ManagerSpec
<1> QED BY <1>1, PTL DEF TypeInv

-----------------------------------------------------------------------------
(* Calls of one key *)

\* The row a call is about to commit has an outcome, and so has every committed row.
OutcomeKnown ==
    /\ \A h \in Handlers : step[h] \in {"row", "commit"} => written[h].status \in Executed
    /\ \A k \in Keys : row[k] # NoOrder => row[k].status \in Executed

Past == {"ledger", "place", "row", "commit"}

\* Of the calls of a key at most one is past the look for a row, or they overlap.
OnePast ==
    \A h, g \in Handlers :
        step[h] \in Past /\ step[g] \in Past /\ Key(h) = Key(g) /\ Key(h) \notin overlapped => h = g

\* That call has no row to find.
NoRowYet ==
    \A h \in Handlers : step[h] \in Past /\ Key(h) \notin overlapped => row[Key(h)] = NoOrder

CallInv == TypeInv /\ OutcomeKnown /\ OnePast /\ NoRowYet

LEMMA CallInit == ManagerInit => CallInv
BY TypesInit, ManagerAssumption DEF ManagerInit, CallInv, OutcomeKnown, OnePast, NoRowYet, Past

\* An action that takes no call past the look for a row, and commits none.
LEMMA CallsStay ==
    ASSUME CallInv, row' = row, overlapped \subseteq overlapped',
           \A h \in Handlers :
               /\ step'[h] \in Past => step[h] \in Past /\ plan'[h] = plan[h]
               /\ step'[h] \in {"row", "commit"} =>
                    (step[h] \in {"row", "commit"} /\ written'[h] = written[h])
                    \/ written'[h].status \in Executed
    PROVE  OutcomeKnown' /\ OnePast' /\ NoRowYet'
BY DEF CallInv, OutcomeKnown, OnePast, NoRowYet, Key

\* The end of a call, whatever it leaves.
LEMMA EndStays ==
    ASSUME CallInv, NEW h \in Handlers, EndCall(h)
    PROVE  \A g \in Handlers :
               /\ step'[g] \in Past => g # h /\ step[g] \in Past /\ plan'[g] = plan[g]
               /\ step'[g] \in {"row", "commit"} =>
                    step[g] \in {"row", "commit"} /\ written'[g] = written[g]
BY DEF CallInv, TypeInv, ManagerTypeOK, EndCall, Goto, Past

\* A call that finds no row is the only one of its key past that look, or the key's
\* calls have overlapped.
LEMMA FindNoRowStays ==
    ASSUME CallInv, NEW h \in Handlers, FindNoRow(h)
    PROVE  OutcomeKnown' /\ OnePast' /\ NoRowYet'
<1> USE DEF CallInv, TypeInv, ManagerTypeOK
<1>1. /\ step[h] = "read" /\ row[Key(h)] = NoOrder
      /\ step' = [step EXCEPT ![h] = "ledger"]
      /\ UNCHANGED <<row, plan, written>>
      /\ overlapped' = IF Rivals(h) = {} THEN overlapped ELSE overlapped \cup {Key(h)}
  BY DEF FindNoRow, Replays, Goto
<1>2. \A g \in Handlers : Key(g)' = Key(g) /\ (g # h => step'[g] = step[g])
  BY <1>1 DEF Key
<1>3. ASSUME Key(h) \notin overlapped', NEW g \in Handlers, g # h, step[g] \in Past
      PROVE Key(g) # Key(h)
  <2>1. Rivals(h) = {}
    BY <1>1, <1>3
  <2> QED BY <1>3, <2>1 DEF Rivals, Past, InFlight, CallSteps
<1>4. OnePast'
  BY <1>1, <1>2, <1>3 DEF OnePast
<1>5. OutcomeKnown' /\ NoRowYet'
  BY <1>1, <1>2 DEF OutcomeKnown, NoRowYet, Past
<1> QED BY <1>4, <1>5

\* The row committed is the first of its key, or the key's calls have overlapped.
LEMMA CommitStays ==
    ASSUME CallInv, NEW h \in Handlers, Commit(h)
    PROVE  /\ OutcomeKnown' /\ OnePast' /\ NoRowYet'
           /\ plan[h] \in Plans /\ Key(h) \in Keys /\ Entry(h) \in LedgerIds
           /\ row' = [row EXCEPT ![Key(h)] = written[h]]
           /\ written[h].status \in Executed /\ written[h] # NoOrder
           /\ row[Key(h)] = NoOrder \/ Key(h) \in overlapped
<1> USE DEF CallInv, TypeInv, ManagerTypeOK
<1>1. /\ plan[h] \in Plans /\ Key(h) \in Keys /\ Entry(h) \in LedgerIds
      /\ step[h] = "commit" /\ step[h] \in Past
      /\ row' = [row EXCEPT ![Key(h)] = written[h]] /\ UNCHANGED overlapped
  BY ManagerAssumption DEF Commit, Key, Entry, InFlight, CallSteps, Past
<1>2. written[h].status \in Executed /\ written[h] # NoOrder
  BY <1>1 DEF OutcomeKnown, NoOrder, Executed, Submitted, Unconfirmed, Failed
<1>3. \A k \in Keys : row'[k] = IF k = Key(h) THEN written[h] ELSE row[k]
  BY <1>1
<1>4. \A g \in Handlers :
        /\ step'[g] \in Past => g # h /\ step[g] \in Past /\ plan'[g] = plan[g]
        /\ step'[g] \in {"row", "commit"} =>
             step[g] \in {"row", "commit"} /\ written'[g] = written[g]
  BY EndStays DEF Commit
<1>5. OutcomeKnown'
  BY <1>2, <1>3, <1>4 DEF OutcomeKnown
<1>6. OnePast'
  BY <1>1, <1>4 DEF OnePast, Key
<1>7. NoRowYet'
  <2> SUFFICES ASSUME NEW g \in Handlers, step'[g] \in Past, Key(g)' \notin overlapped
               PROVE (row[Key(g)])' = NoOrder
    BY <1>1 DEF NoRowYet
  <2>1. g # h /\ step[g] \in Past /\ Key(g)' = Key(g)
    BY <1>4 DEF Key
  <2>2. Key(g) \in Keys /\ Key(g) # Key(h)
    BY <1>1, <2>1, ManagerAssumption DEF OnePast, Key, Past, InFlight, CallSteps
  <2> QED BY <1>3, <2>1, <2>2 DEF NoRowYet
<1>8. row[Key(h)] = NoOrder \/ Key(h) \in overlapped
  BY <1>1 DEF NoRowYet
<1> QED BY <1>1, <1>2, <1>5, <1>6, <1>7, <1>8

LEMMA CallStep == CallInv /\ [ManagerNext]_mgr_vars => CallInv'
<1> SUFFICES ASSUME CallInv, [ManagerNext]_mgr_vars PROVE OutcomeKnown' /\ OnePast' /\ NoRowYet'
  BY TypesStep DEF CallInv
<1>0. step \in [Handlers -> CallSteps] /\ plan \in [Handlers -> Plans \cup {NoPlan}]
      /\ written \in [Handlers -> Rows]
  BY DEF CallInv, TypeInv, ManagerTypeOK
<1>1. ASSUME NEW h \in Handlers, NEW p \in Plans, Begin(h, p)
      PROVE OutcomeKnown' /\ OnePast' /\ NoRowYet'
  BY <1>0, <1>1, CallsStay DEF Begin, Goto, Past
<1>2. ASSUME NEW h \in Handlers, Replay(h) \/ Abort(h)
      PROVE OutcomeKnown' /\ OnePast' /\ NoRowYet'
  BY <1>2, EndStays, CallsStay DEF Replay, Abort
<1>3. ASSUME NEW h \in Handlers, FindNoRow(h) PROVE OutcomeKnown' /\ OnePast' /\ NoRowYet'
  BY <1>3, FindNoRowStays
<1>4. ASSUME NEW h \in Handlers, WriteLedger(h) PROVE OutcomeKnown' /\ OnePast' /\ NoRowYet'
  BY <1>0, <1>4, CallsStay DEF WriteLedger, Goto, Past
<1>5. ASSUME NEW h \in Handlers, NEW answer \in Answers, Place(h, answer)
      PROVE OutcomeKnown' /\ OnePast' /\ NoRowYet'
  <2>1. answer # "refused" => Unused # {}
    BY <1>5 DEF Place
  <2>2. Outcome(answer, NewId).status \in Executed
    BY <2>1, OutcomeTyped DEF Rows, OrderStatuses
  <2> QED BY <1>0, <1>5, <2>2, CallsStay DEF Place, Goto, Past
<1>6. ASSUME NEW h \in Handlers, WriteRow(h) PROVE OutcomeKnown' /\ OnePast' /\ NoRowYet'
  BY <1>0, <1>6, CallsStay DEF WriteRow, Goto, Past
<1>7. ASSUME NEW h \in Handlers, Commit(h) PROVE OutcomeKnown' /\ OnePast' /\ NoRowYet'
  BY <1>7, CommitStays
<1>8. ASSUME NEW p \in Plans, RecordLedger(p) PROVE OutcomeKnown' /\ OnePast' /\ NoRowYet'
  BY <1>8, CallsStay DEF RecordLedger
<1>9. CASE UNCHANGED mgr_vars
  BY <1>9, CallsStay DEF mgr_vars
<1> QED BY <1>1, <1>2, <1>3, <1>4, <1>5, <1>6, <1>7, <1>8, <1>9 DEF ManagerNext, HandlerStep

-----------------------------------------------------------------------------
(* The action ledger and the order rows *)

LedgerInv == CallInv /\ LedgerWithOrder

LEMMA LedgerInit == ManagerInit => LedgerInv
BY CallInit DEF ManagerInit, LedgerInv, LedgerWithOrder, ExecutionHasRow, RowHasEntry, Executed,
   Submitted, Unconfirmed, Failed

\* What is said of the ledger and the rows depends on little.
LEMMA LedgerStays ==
    ASSUME LedgerInv, UNCHANGED <<row, ledger, rewritten>>, overlapped \subseteq overlapped'
    PROVE  LedgerWithOrder'
BY DEF LedgerInv, LedgerWithOrder, ExecutionHasRow, RowHasEntry

\* A plan recorded writes over an execution or over none.
LEMMA RecordLedgerStep ==
    ASSUME LedgerInv, NEW p \in Plans, RecordLedger(p)
    PROVE  LedgerWithOrder'
<1> USE ManagerAssumption DEF LedgerInv, CallInv, TypeInv, ManagerTypeOK
<1>1. /\ UNCHANGED <<row, overlapped>>
      /\ \A l \in LedgerIds : ledger'[l] = IF l = LedgerOf[p] THEN Planned ELSE ledger[l]
      /\ \A l \in LedgerIds : ledger[l] \in Executed => ledger'[l] = ledger[l] \/ l \in rewritten'
      /\ rewritten \subseteq rewritten'
  BY DEF RecordLedger, SetLedger
<1>2. Planned \notin Executed
  BY DEF Planned, Executed, Submitted, Unconfirmed, Failed
<1>3. ExecutionHasRow'
  BY <1>1, <1>2 DEF LedgerWithOrder, ExecutionHasRow
<1>4. RowHasEntry'
  <2> SUFFICES ASSUME NEW k \in Keys, row[k] # NoOrder
               PROVE \E q \in Plans : /\ KeyOf[q] = k
                                      /\ ledger'[LedgerOf[q]] = row[k].status \/ LedgerOf[q] \in rewritten'
    BY <1>1 DEF RowHasEntry
  <2>1. PICK q \in Plans : /\ KeyOf[q] = k
                           /\ ledger[LedgerOf[q]] = row[k].status \/ LedgerOf[q] \in rewritten
    BY DEF LedgerWithOrder, RowHasEntry
  <2>2. row[k].status \in Executed /\ LedgerOf[q] \in LedgerIds
    BY DEF OutcomeKnown
  <2> QED BY <1>1, <2>1, <2>2
<1> QED BY <1>3, <1>4 DEF LedgerWithOrder

\* A commit writes the row and the entry of its plan with one outcome; what it writes
\* over is a row of overlapping calls, or an execution marked as written over.
LEMMA CommitLedgerStep ==
    ASSUME LedgerInv, NEW h \in Handlers, Commit(h)
    PROVE  LedgerWithOrder'
<1> USE ManagerAssumption DEF LedgerInv, CallInv, TypeInv, ManagerTypeOK
<1>1. /\ plan[h] \in Plans /\ Key(h) \in Keys /\ Entry(h) \in LedgerIds
      /\ written[h].status \in Executed /\ written[h] # NoOrder
      /\ row[Key(h)] = NoOrder \/ Key(h) \in overlapped
      /\ KeyOf[plan[h]] = Key(h) /\ LedgerOf[plan[h]] = Entry(h)
  BY CommitStays DEF Key, Entry
<1>2. /\ UNCHANGED overlapped
      /\ \A k \in Keys : row'[k] = IF k = Key(h) THEN written[h] ELSE row[k]
      /\ \A l \in LedgerIds : ledger'[l] = IF l = Entry(h) THEN written[h].status ELSE ledger[l]
      /\ \A l \in LedgerIds : ledger[l] \in Executed => ledger'[l] = ledger[l] \/ l \in rewritten'
      /\ rewritten \subseteq rewritten'
  BY <1>1, CommitStays DEF Commit, SetLedger
<1>3. ExecutionHasRow'
  <2> SUFFICES ASSUME NEW l \in LedgerIds, ledger'[l] \in Executed
               PROVE \E p \in Plans : /\ LedgerOf[p] = l
                                      /\ row'[KeyOf[p]] # NoOrder
                                      /\ row'[KeyOf[p]].status = ledger'[l] \/ KeyOf[p] \in overlapped
    BY <1>2 DEF ExecutionHasRow
  <2>1. CASE l = Entry(h)
    BY <1>1, <1>2, <2>1
  <2>2. CASE l # Entry(h)
    <3>1. PICK p \in Plans : /\ LedgerOf[p] = l
                             /\ row[KeyOf[p]] # NoOrder
                             /\ row[KeyOf[p]].status = ledger[l] \/ KeyOf[p] \in overlapped
      BY <1>2, <2>2 DEF LedgerWithOrder, ExecutionHasRow
    <3>2. KeyOf[p] \in Keys /\ ledger'[l] = ledger[l]
      BY <1>2, <2>2
    <3> QED BY <1>1, <1>2, <3>1, <3>2
  <2> QED BY <2>1, <2>2
<1>4. RowHasEntry'
  <2> SUFFICES ASSUME NEW k \in Keys, row'[k] # NoOrder
               PROVE \E p \in Plans : /\ KeyOf[p] = k
                                      /\ ledger'[LedgerOf[p]] = row'[k].status \/ LedgerOf[p] \in rewritten'
    BY DEF RowHasEntry
  <2>1. CASE k = Key(h)
    BY <1>1, <1>2, <2>1
  <2>2. CASE k # Key(h)
    <3>1. PICK p \in Plans : /\ KeyOf[p] = k
                             /\ ledger[LedgerOf[p]] = row[k].status \/ LedgerOf[p] \in rewritten
      BY <1>2, <2>2 DEF LedgerWithOrder, RowHasEntry
    <3>2. row[k].status \in Executed /\ LedgerOf[p] \in LedgerIds /\ row'[k] = row[k]
      BY <1>2, <2>2 DEF OutcomeKnown
    <3> QED BY <1>2, <3>1, <3>2
  <2> QED BY <2>1, <2>2
<1> QED BY <1>3, <1>4 DEF LedgerWithOrder

LEMMA LedgerStep == LedgerInv /\ [ManagerNext]_mgr_vars => LedgerInv'
<1> SUFFICES ASSUME LedgerInv, [ManagerNext]_mgr_vars PROVE LedgerWithOrder'
  BY CallStep DEF LedgerInv
<1>1. ASSUME NEW h \in Handlers, HandlerStep(h), ~Commit(h) PROVE LedgerWithOrder'
  <2>1. UNCHANGED <<row, ledger, rewritten>> /\ overlapped \subseteq overlapped'
    BY <1>1 DEF HandlerStep, Begin, Replay, FindNoRow, WriteLedger, WriteRow, Abort, Place
  <2> QED BY <2>1, LedgerStays
<1>2. ASSUME NEW h \in Handlers, Commit(h) PROVE LedgerWithOrder'
  BY <1>2, CommitLedgerStep
<1>3. ASSUME NEW p \in Plans, RecordLedger(p) PROVE LedgerWithOrder'
  BY <1>3, RecordLedgerStep
<1>4. CASE UNCHANGED mgr_vars
  BY <1>4, LedgerStays DEF mgr_vars
<1> QED BY <1>1, <1>2, <1>3, <1>4 DEF ManagerNext

\* An execution that the action ledger shows is the outcome of an order row of the
\* entry's keys, and the outcome of every order row is shown by an entry or was written
\* over, for any handlers, plans, keys and ledger ids, whichever calls overlap, fail or
\* die and whatever is recorded in between.
THEOREM LedgerAgrees == ManagerSpec => []LedgerWithOrder
<1>1. ManagerSpec => []LedgerInv
  BY LedgerInit, LedgerStep, PTL DEF ManagerSpec
<1> QED BY <1>1, PTL DEF LedgerInv

-----------------------------------------------------------------------------
(* One order per idempotency key *)

Sane(k) == k \notin lost \cup overlapped

\* An order a call has sent is one of its key, until the call ends.
SentOfKey ==
    \A h \in Handlers : sent[h] # NoId =>
        step[h] \in {"row", "commit"} /\ exchange[sent[h]] = Key(h)

\* What a call will commit names the order it sent, or admits that it does not know.
WrittenNamesOrder ==
    \A h \in Handlers : step[h] \in {"row", "commit"} =>
        written[h].ext = sent[h] \/ written[h].status \in {Unconfirmed, Failed}

\* An order of a sane key has a row, or the call that sent it is still at it.
OrdersAccounted ==
    \A i \in Ids : exchange[i] # "unused" /\ Sane(exchange[i]) =>
        row[exchange[i]] # NoOrder \/ \E h \in Handlers : sent[h] = i

KeyInv ==
    /\ LedgerInv
    /\ SentOfKey /\ WrittenNamesOrder /\ OrdersAccounted
    /\ PlacedOncePerKey /\ PlacedOrdersFound

LEMMA KeyInit == ManagerInit => KeyInv
BY LedgerInit, ManagerAssumption DEF ManagerInit, KeyInv, SentOfKey, WrittenNamesOrder,
   OrdersAccounted, PlacedOncePerKey, PlacedOrdersFound, Orders

\* An action that neither touches the rows nor the exchange keeps what is said of them.
LEMMA OrdersKept ==
    ASSUME KeyInv, UNCHANGED <<row, exchange, sent, lost>>, overlapped \subseteq overlapped'
    PROVE  OrdersAccounted' /\ PlacedOncePerKey' /\ PlacedOrdersFound'
BY DEF KeyInv, OrdersAccounted, PlacedOncePerKey, PlacedOrdersFound, Orders, Sane

\* An action that ends no call that has sent keeps what is said of those.
LEMMA CallsKept ==
    ASSUME KeyInv, UNCHANGED <<exchange, sent>>,
           \A h \in Handlers :
               /\ step[h] \in {"row", "commit"} => step'[h] \in {"row", "commit"} /\ plan'[h] = plan[h]
               /\ step'[h] \in {"row", "commit"} =>
                    step[h] \in {"row", "commit"} /\ written'[h] = written[h]
    PROVE  SentOfKey' /\ WrittenNamesOrder'
BY DEF KeyInv, SentOfKey, WrittenNamesOrder, Key

\* The end of a call that has sent nothing.
LEMMA EndKept ==
    ASSUME KeyInv, NEW h \in Handlers, EndCall(h), sent[h] = NoId,
           UNCHANGED <<row, lost, overlapped>>
    PROVE  SentOfKey' /\ WrittenNamesOrder' /\ OrdersAccounted'
           /\ PlacedOncePerKey' /\ PlacedOrdersFound'
<1>1. sent' = sent /\ exchange' = exchange
  BY DEF KeyInv, LedgerInv, CallInv, TypeInv, ManagerTypeOK, EndCall
<1>2. \A g \in Handlers : step'[g] = (IF g = h THEN "idle" ELSE step[g])
  BY DEF KeyInv, LedgerInv, CallInv, TypeInv, ManagerTypeOK, EndCall, Goto
<1>3. \A g \in Handlers : plan'[g] = (IF g = h THEN NoPlan ELSE plan[g])
                          /\ (g # h => written'[g] = written[g])
  BY DEF KeyInv, LedgerInv, CallInv, TypeInv, ManagerTypeOK, EndCall
<1>4. OrdersAccounted' /\ PlacedOncePerKey' /\ PlacedOrdersFound'
  BY <1>1, OrdersKept
<1>5. SentOfKey' /\ WrittenNamesOrder'
  BY <1>1, <1>2, <1>3 DEF KeyInv, SentOfKey, WrittenNamesOrder, Key
<1> QED BY <1>4, <1>5

KeyFacts == SentOfKey /\ WrittenNamesOrder /\ OrdersAccounted
            /\ PlacedOncePerKey /\ PlacedOrdersFound

\* The row a call will write names the order it sent, or admits that it does not know.
LEMMA OutcomeNames ==
    ASSUME NEW answer \in Answers, NEW i
    PROVE  /\ Outcome(answer, i).ext = i \/ Outcome(answer, i).status \in {Unconfirmed, Failed}
           /\ answer = "refused" => Outcome(answer, i).status = Failed
<1>1. CASE answer = "accepted"
  BY <1>1 DEF Outcome
<1>2. CASE answer = "accepted_no_id"
  BY <1>2 DEF Outcome
<1>3. CASE answer \in {"refused", "lost_answer"}
  BY <1>3 DEF Outcome
<1> QED BY <1>1, <1>2, <1>3 DEF Answers

\* A call of a sane key that is about to place is the only one of it: the exchange
\* has no order of the key yet.
LEMMA NothingPlaced ==
    ASSUME KeyInv, NEW h \in Handlers, step[h] = "place", Key(h) \in Keys, Sane(Key(h))
    PROVE  Orders(Key(h)) = {}
<1> SUFFICES ASSUME NEW j \in Ids, exchange[j] = Key(h) PROVE FALSE
  BY DEF Orders
<1>1. row[Key(h)] = NoOrder
  BY DEF KeyInv, LedgerInv, CallInv, NoRowYet, Past, Sane
<1>2. PICK g \in Handlers : sent[g] = j
  BY <1>1, ManagerAssumption DEF KeyInv, OrdersAccounted
<1>3. step[g] \in {"row", "commit"} /\ Key(g) = Key(h)
  BY <1>2, ManagerAssumption DEF KeyInv, SentOfKey
<1>4. g = h
  BY <1>3 DEF KeyInv, LedgerInv, CallInv, OnePast, Past, Sane
<1> QED BY <1>3, <1>4

\* An order i of the key k reaches the exchange.
LEMMA SentStep ==
    ASSUME KeyInv, NEW h \in Handlers, NEW k \in Keys, NEW i \in Ids, k = Key(h),
           step[h] = "place", exchange[i] = "unused", sent[h] = NoId,
           exchange' = [exchange EXCEPT ![i] = k], sent' = [sent EXCEPT ![h] = i],
           exchange \in [Ids -> Keys \cup {"unused"}], sent \in [Handlers -> Ids \cup {NoId}],
           UNCHANGED <<row, lost, overlapped>>
    PROVE  OrdersAccounted' /\ PlacedOncePerKey' /\ PlacedOrdersFound'
<1>1. \A j \in Ids : exchange'[j] = IF j = i THEN k ELSE exchange[j]
  OBVIOUS
<1>2. sent'[h] = i /\ \A g \in Handlers, j \in Ids : sent[g] = j => sent'[g] = j
  BY ManagerAssumption
<1>3. \A c \in Keys : (Sane(c))' <=> Sane(c)
  BY DEF Sane
<1>4. Sane(k) => \A j \in Ids : exchange[j] # k
  BY NothingPlaced DEF Orders
<1>5. OrdersAccounted'
  <2> SUFFICES ASSUME NEW j \in Ids, exchange'[j] # "unused", (Sane(exchange[j]))'
               PROVE row'[exchange'[j]] # NoOrder \/ \E g \in Handlers : sent'[g] = j
    BY DEF OrdersAccounted
  <2>1. CASE j = i
    BY <1>2, <2>1
  <2>2. CASE j # i
    <3>1. exchange'[j] = exchange[j] /\ exchange[j] \in Keys
      BY <1>1, <2>2
    <3>2. Sane(exchange[j])
      BY <3>1 DEF Sane
    <3> QED BY <1>2, <3>1, <3>2 DEF KeyInv, OrdersAccounted
  <2> QED BY <2>1, <2>2
<1>6. PlacedOncePerKey'
  <2> SUFFICES ASSUME NEW c \in Keys, Sane(c), NEW x \in Ids, NEW y \in Ids,
                      exchange'[x] = c, exchange'[y] = c
               PROVE x = y
    BY DEF PlacedOncePerKey, Orders, Sane
  <2>1. CASE c = k
    BY <1>1, <1>4, <2>1
  <2>2. CASE c # k
    <3>1. exchange[x] = c /\ exchange[y] = c
      BY <1>1, <2>2
    <3> QED BY <3>1 DEF KeyInv, PlacedOncePerKey, Orders, Sane
  <2> QED BY <2>1, <2>2
<1>7. PlacedOrdersFound'
  <2> SUFFICES ASSUME NEW c \in Keys, Sane(c), NEW x \in Ids, exchange'[x] = c
               PROVE \/ row[c].ext = x
                     \/ row[c].status \in {Unconfirmed, Failed}
                     \/ \E g \in Handlers : sent'[g] = x
    BY DEF PlacedOrdersFound, Orders, Sane
  <2>1. CASE x = i
    BY <1>2, <2>1
  <2>2. CASE x # i
    <3>1. exchange[x] = c
      BY <1>1, <2>2
    <3>2. \/ row[c].ext = x
          \/ row[c].status \in {Unconfirmed, Failed}
          \/ \E g \in Handlers : sent[g] = x
      BY <3>1 DEF KeyInv, PlacedOrdersFound, Orders, Sane
    <3> QED BY <1>2, <3>2
  <2> QED BY <2>1, <2>2
<1> QED BY <1>5, <1>6, <1>7

LEMMA PlaceStep ==
    ASSUME KeyInv, NEW h \in Handlers, NEW answer \in Answers, Place(h, answer)
    PROVE  KeyFacts'
<1> USE DEF LedgerInv, CallInv, TypeInv, ManagerTypeOK
<1>1. /\ plan[h] \in Plans /\ Key(h) \in Keys /\ step[h] = "place"
      /\ step' = [step EXCEPT ![h] = "row"]
      /\ written' = [written EXCEPT ![h] = Outcome(answer, NewId)]
      /\ UNCHANGED <<row, plan, lost, overlapped>>
  BY ManagerAssumption DEF KeyInv, Place, Key, InFlight, CallSteps, Goto
<1>2. answer # "refused" => NewId \in Ids /\ exchange[NewId] = "unused"
  BY OutcomeTyped DEF Place
<1>3. \A g \in Handlers : Key(g)' = Key(g)
  BY <1>1 DEF Key
<1>5. CASE answer = "refused"
  <2>1. UNCHANGED <<exchange, sent>>
    BY <1>5 DEF Place
  <2>2. Outcome(answer, NewId).status = Failed
    BY <1>5, OutcomeNames
  <2>3. SentOfKey' /\ WrittenNamesOrder'
    BY <1>1, <1>3, <2>1, <2>2 DEF KeyInv, SentOfKey, WrittenNamesOrder
  <2> QED BY <1>1, <2>1, <2>3, OrdersKept DEF KeyFacts
<1>6. CASE answer # "refused"
  <2> DEFINE k == Key(h)
             i == NewId
  <2>1. /\ exchange' = [exchange EXCEPT ![i] = k]
        /\ sent' = [sent EXCEPT ![h] = i]
    BY <1>6 DEF Place
  <2>2. i \in Ids /\ exchange[i] = "unused" /\ i # NoId /\ k \in Keys
    BY <1>1, <1>2, <1>6, ManagerAssumption
  <2>3. Outcome(answer, i).ext = i \/ Outcome(answer, i).status \in {Unconfirmed, Failed}
    BY OutcomeNames
  <2>4. WrittenNamesOrder'
    BY <1>1, <2>1, <2>3 DEF KeyInv, WrittenNamesOrder
  <2>5. \A g \in Handlers : sent[g] # i
    BY <2>2, ManagerAssumption DEF KeyInv, SentOfKey, Key, InFlight
  <2>6. SentOfKey'
    BY <1>1, <1>3, <2>1, <2>2, <2>5 DEF KeyInv, SentOfKey
  <2>7. sent[h] = NoId
    BY <1>1 DEF KeyInv, SentOfKey
  <2>8. /\ exchange \in [Ids -> Keys \cup {"unused"}]
        /\ sent \in [Handlers -> Ids \cup {NoId}]
    BY DEF KeyInv
  <2>9. OrdersAccounted' /\ PlacedOncePerKey' /\ PlacedOrdersFound'
    <3> HIDE DEF k, i
    <3>1. k = Key(h)
      BY DEF k
    <3> QED BY <1>1, <2>1, <2>2, <2>7, <2>8, <3>1, SentStep
  <2> QED BY <2>4, <2>6, <2>9 DEF KeyFacts
<1> QED BY <1>5, <1>6

\* A committed row is the one the call was to write: of a sane key it is the first,
\* and it names the order or admits that it does not know.
LEMMA CommitStep ==
    ASSUME KeyInv, NEW h \in Handlers, Commit(h)
    PROVE  KeyFacts'
<1> USE DEF LedgerInv, CallInv, TypeInv, ManagerTypeOK
<1> DEFINE k == Key(h)
<1>1. /\ plan[h] \in Plans /\ k \in Keys /\ step[h] = "commit"
      /\ row' = [row EXCEPT ![k] = written[h]]
      /\ UNCHANGED <<exchange, lost, overlapped>>
      /\ sent' = [sent EXCEPT ![h] = NoId]
      /\ step' = [step EXCEPT ![h] = "idle"]
      /\ plan' = [plan EXCEPT ![h] = NoPlan]
      /\ written' = [written EXCEPT ![h] = NoOrder]
  BY ManagerAssumption DEF KeyInv, Commit, EndCall, Key, InFlight, CallSteps, Goto
<1>2. written[h] # NoOrder
  BY CommitStays DEF KeyInv
<1>3. \A g \in Handlers \ {h} :
        /\ step'[g] = step[g] /\ Key(g)' = Key(g)
        /\ sent'[g] = sent[g] /\ written'[g] = written[g]
  BY <1>1 DEF Key, KeyInv
<1>4. \A c \in Keys : row'[c] = IF c = k THEN written[h] ELSE row[c]
  BY <1>1 DEF KeyInv
<1>5. \A c : (Sane(c))' <=> Sane(c)
  BY <1>1 DEF Sane
<1>6. step'[h] = "idle" /\ sent'[h] = NoId
  BY <1>1 DEF KeyInv
<1>9. SentOfKey' /\ WrittenNamesOrder'
  BY <1>1, <1>3, <1>6 DEF KeyInv, SentOfKey, WrittenNamesOrder
<1>10. OrdersAccounted'
  <2> SUFFICES ASSUME NEW j \in Ids, exchange[j] # "unused", Sane(exchange[j])
               PROVE row'[exchange[j]] # NoOrder \/ \E g \in Handlers : sent'[g] = j
    BY <1>1, <1>5 DEF OrdersAccounted
  <2>1. exchange[j] \in Keys
    BY DEF KeyInv
  <2>2. CASE exchange[j] = k
    BY <1>2, <1>4, <2>1, <2>2
  <2>3. CASE exchange[j] # k
    <3>1. CASE row[exchange[j]] # NoOrder
      BY <1>4, <2>1, <2>3, <3>1
    <3>2. ASSUME NEW g \in Handlers, sent[g] = j PROVE sent'[g] = j
      BY <1>3, <2>3, <3>2, ManagerAssumption DEF KeyInv, SentOfKey
    <3> QED BY <3>1, <3>2 DEF KeyInv, OrdersAccounted
  <2> QED BY <2>2, <2>3
<1>11. PlacedOncePerKey'
  BY <1>1, <1>5 DEF KeyInv, PlacedOncePerKey, Orders, Sane
<1>12. PlacedOrdersFound'
  <2> SUFFICES ASSUME NEW c \in Keys, Sane(c), NEW x \in Ids, exchange[x] = c
               PROVE \/ row'[c].ext = x
                     \/ row'[c].status \in {Unconfirmed, Failed}
                     \/ \E g \in Handlers : sent'[g] = x
    BY <1>1 DEF PlacedOrdersFound, Orders, Sane
  <2>1. CASE c = k
    <3>1. row[k] = NoOrder
      BY <1>1, <2>1 DEF KeyInv, NoRowYet, Past, Sane
    <3>2. exchange[x] # "unused"
      BY ManagerAssumption
    <3>3. PICK g \in Handlers : sent[g] = x
      BY <2>1, <3>1, <3>2 DEF KeyInv, OrdersAccounted
    <3>4. step[g] \in Past /\ Key(g) = k
      BY <2>1, <3>3, ManagerAssumption DEF KeyInv, SentOfKey, Past
    <3>5. g = h
      BY <1>1, <2>1, <3>4 DEF KeyInv, OnePast, Past, Sane
    <3>6. written[h].ext = x \/ written[h].status \in {Unconfirmed, Failed}
      BY <1>1, <3>3, <3>5 DEF KeyInv, WrittenNamesOrder
    <3> QED BY <1>4, <2>1, <3>6
  <2>2. CASE c # k
    <3>1. \/ row[c].ext = x
          \/ row[c].status \in {Unconfirmed, Failed}
          \/ \E g \in Handlers : sent[g] = x
      BY DEF KeyInv, PlacedOrdersFound, Orders, Sane
    <3>2. ASSUME NEW g \in Handlers, sent[g] = x PROVE sent'[g] = x
      BY <1>3, <2>2, <3>2, ManagerAssumption DEF KeyInv, SentOfKey
    <3> QED BY <1>4, <2>2, <3>1, <3>2
  <2> QED BY <2>1, <2>2
<1> QED BY <1>9, <1>10, <1>11, <1>12 DEF KeyFacts

\* The key of a call that dies after it has sent an order is lost from then on.
LEMMA AbortStep ==
    ASSUME KeyInv, NEW h \in Handlers, Abort(h)
    PROVE  KeyFacts'
<1> USE DEF LedgerInv, CallInv, TypeInv, ManagerTypeOK
<1>1. CASE sent[h] = NoId
  BY <1>1, EndKept DEF Abort, KeyFacts
<1>2. CASE sent[h] # NoId
  <2> DEFINE k == Key(h)
  <2>1. /\ lost' = lost \cup {k}
        /\ UNCHANGED <<row, exchange, overlapped>>
        /\ sent' = [sent EXCEPT ![h] = NoId]
        /\ step' = [step EXCEPT ![h] = "idle"]
        /\ plan' = [plan EXCEPT ![h] = NoPlan]
        /\ written' = [written EXCEPT ![h] = NoOrder]
    BY <1>2 DEF KeyInv, Abort, EndCall, Goto
  <2>2. \A g \in Handlers \ {h} :
          /\ step'[g] = step[g] /\ Key(g)' = Key(g)
          /\ sent'[g] = sent[g] /\ written'[g] = written[g]
    BY <2>1 DEF Key, KeyInv
  <2>3. step'[h] = "idle" /\ sent'[h] = NoId
    BY <2>1 DEF KeyInv
  <2>4. \A c : (Sane(c))' => Sane(c) /\ c # k
    BY <2>1 DEF Sane
  <2>6. SentOfKey' /\ WrittenNamesOrder'
    BY <2>1, <2>2, <2>3 DEF KeyInv, SentOfKey, WrittenNamesOrder
  <2>7. ASSUME NEW j \in Ids, exchange[j] # k, NEW g \in Handlers, sent[g] = j
        PROVE sent'[g] = j
    BY <2>2, <2>7, ManagerAssumption DEF KeyInv, SentOfKey
  <2>8. OrdersAccounted'
    <3> SUFFICES ASSUME NEW j \in Ids, exchange[j] # "unused", (Sane(exchange[j]))'
                 PROVE row[exchange[j]] # NoOrder \/ \E g \in Handlers : sent'[g] = j
      BY <2>1 DEF OrdersAccounted
    <3>1. Sane(exchange[j]) /\ exchange[j] # k
      BY <2>1, <2>4 DEF Sane
    <3> QED BY <2>7, <3>1 DEF KeyInv, OrdersAccounted
  <2>9. PlacedOncePerKey' /\ PlacedOrdersFound'
    <3>1. ASSUME NEW c \in Keys, c \notin lost' \cup overlapped'
          PROVE Sane(c) /\ c # k
      BY <2>1, <3>1 DEF Sane
    <3>2. PlacedOncePerKey'
      BY <2>1, <3>1 DEF KeyInv, PlacedOncePerKey, Orders, Sane
    <3>3. PlacedOrdersFound'
      BY <2>1, <2>7, <3>1 DEF KeyInv, PlacedOrdersFound, Orders, Sane
    <3> QED BY <3>2, <3>3
  <2> QED BY <2>6, <2>8, <2>9 DEF KeyFacts
<1> QED BY <1>1, <1>2

LEMMA KeyStep == KeyInv /\ [ManagerNext]_mgr_vars => KeyInv'
<1> SUFFICES ASSUME KeyInv, [ManagerNext]_mgr_vars PROVE KeyFacts'
  BY LedgerStep DEF KeyInv, KeyFacts
<1> USE DEF LedgerInv, CallInv, TypeInv, ManagerTypeOK
<1>1. ASSUME NEW h \in Handlers, NEW p \in Plans,
             Begin(h, p) \/ FindNoRow(h) \/ WriteLedger(h) \/ WriteRow(h)
      PROVE KeyFacts'
  <2>1. UNCHANGED <<row, exchange, sent, lost, written>> /\ overlapped \subseteq overlapped'
    BY <1>1 DEF Begin, FindNoRow, WriteLedger, WriteRow
  <2>2. \A g \in Handlers :
          /\ step[g] \in {"row", "commit"} => step'[g] \in {"row", "commit"} /\ plan'[g] = plan[g]
          /\ step'[g] \in {"row", "commit"} => step[g] \in {"row", "commit"}
    BY <1>1 DEF KeyInv, Begin, FindNoRow, WriteLedger, WriteRow, Goto
  <2> QED BY <2>1, <2>2, OrdersKept, CallsKept DEF KeyFacts
<1>2. ASSUME NEW h \in Handlers, Replay(h) PROVE KeyFacts'
  <2>1. sent[h] = NoId
    BY <1>2 DEF KeyInv, SentOfKey, Replay
  <2> QED BY <1>2, <2>1, EndKept DEF Replay, KeyFacts
<1>3. ASSUME NEW h \in Handlers, NEW answer \in Answers, Place(h, answer) PROVE KeyFacts'
  BY <1>3, PlaceStep
<1>4. ASSUME NEW h \in Handlers, Commit(h) PROVE KeyFacts'
  BY <1>4, CommitStep
<1>5. ASSUME NEW h \in Handlers, Abort(h) PROVE KeyFacts'
  BY <1>5, AbortStep
<1>6. CASE (\E p \in Plans : RecordLedger(p)) \/ UNCHANGED mgr_vars
  <2>1. UNCHANGED <<row, exchange, sent, lost, overlapped, step, plan, written>>
    BY <1>6 DEF RecordLedger, mgr_vars
  <2> QED BY <2>1, OrdersKept, CallsKept DEF KeyFacts
<1>7. ASSUME NEW h \in Handlers, HandlerStep(h) PROVE KeyFacts'
  <2>1. CASE \E p \in Plans : Begin(h, p)
    BY <1>1, <2>1
  <2>2. CASE FindNoRow(h) \/ WriteLedger(h) \/ WriteRow(h)
    <3>1. plan[h] \in Plans
      BY <2>2 DEF KeyInv, FindNoRow, WriteLedger, WriteRow, InFlight, CallSteps
    <3> QED BY <1>1, <2>2, <3>1
  <2> QED BY <1>2, <1>3, <1>4, <1>5, <1>7, <2>1, <2>2 DEF HandlerStep
<1> QED BY <1>6, <1>7 DEF ManagerNext

\* A key brings at most one order to the exchange, unless two of its calls overlapped
\* or one died with its order sent.
THEOREM KeyPlacesOnce == ManagerSpec => []PlacedOncePerKey
<1>1. ManagerSpec => []KeyInv
  BY KeyInit, KeyStep, PTL DEF ManagerSpec
<1> QED BY <1>1, PTL DEF KeyInv

\* An order at the exchange is named by the row of its key, or the row admits that the
\* outcome is unknown, or its call is still at it; with the same exceptions.
THEOREM KeyFindsOrder == ManagerSpec => []PlacedOrdersFound
<1>1. ManagerSpec => []KeyInv
  BY KeyInit, KeyStep, PTL DEF ManagerSpec
<1> QED BY <1>1, PTL DEF KeyInv

-----------------------------------------------------------------------------
(* OrderRateLimiter *)

Times == 0..LastTime
Since(g) == {v \in Times : v >= g}
NoneAfter(t) == \A v \in Times : admitted[v] > 0 => v <= t

\* While the checks come in the order of their times, what was admitted since
\* any time that a later check still counts is in the deque, behind the entries
\* that are older than that.
DequeCounts ==
    \A t \in Times, g \in Int, k \in 0..Len(entries) :
        NoneAfter(t) /\ g >= t - Window /\ (\A i \in 1..k : entries[i] < g) =>
            TotalOf(admitted, Since(g)) <= Len(entries) - k

LimInv == LimTypeOK /\ WindowKept /\ (~reordered => DequeCounts)

LEMMA TimesFinite == IsFiniteSet(Times) /\ \A g : Since(g) \in SUBSET Times
BY LimiterAssumption, FS_Interval DEF Times, Since

\* The property, with its fold as a sum, before and after a step.
WindowOf(u) == Times \cap (u..(u + Window))

LEMMA WindowSums ==
    /\ WindowKept <=> (~reordered => \A u \in Times : TotalOf(admitted, WindowOf(u)) <= MaxOps)
    /\ WindowKept' <=> (~reordered' => \A u \in Times : TotalOf(admitted', WindowOf(u)) <= MaxOps)
<1>1. WindowKept <=> (~reordered => \A u \in Times : TotalOf(admitted, WindowOf(u)) <= MaxOps)
    BY DEF WindowKept, TotalOf, WindowOf, Times, FoldFunctionOnSet, MapThenFoldSet
<1>2. WindowKept' <=> (~reordered' => \A u \in Times : TotalOf(admitted', WindowOf(u)) <= MaxOps)
    BY DEF WindowKept, TotalOf, WindowOf, Times, FoldFunctionOnSet, MapThenFoldSet
<1> QED BY <1>1, <1>2

LEMMA LimInvInit == LimiterInit => LimInv
<1> SUFFICES ASSUME LimiterInit PROVE LimInv
    OBVIOUS
<1>1. LimTypeOK
    BY LimiterAssumption DEF LimiterInit, LimTypeOK
<1>2. \A S \in SUBSET Times : TotalOf(admitted, S) = 0
  <2>1. \A v \in Times : admitted[v] = 0
      BY DEF LimiterInit, Times
  <2> QED BY <2>1, TimesFinite, FS_Subset, TotalOfZeros
<1>3. WindowKept
  <2>1. \A u \in Times : TotalOf(admitted, WindowOf(u)) = 0
      BY <1>2 DEF WindowOf
  <2> QED BY <2>1, WindowSums, LimiterAssumption
<1>4. DequeCounts
  <2>1. \A g : TotalOf(admitted, Since(g)) = 0
      BY <1>2, TimesFinite
  <2>2. Len(entries) = 0
      BY DEF LimiterInit
  <2> QED BY <2>1, <2>2 DEF DequeCounts
<1> QED BY <1>1, <1>3, <1>4 DEF LimInv

\* What a check drops are the first entries, all before its floor.
LEMMA KeptIsTail ==
    ASSUME LimTypeOK, NEW now \in Times
    PROVE  \E p \in 0..Len(entries) :
              /\ KeptAfter(now) \in Seq(Times)
              /\ Len(KeptAfter(now)) = Len(entries) - p
              /\ \A i \in 1..(Len(entries) - p) : KeptAfter(now)[i] = entries[i + p]
              /\ \A i \in 1..p : entries[i] < now - Window
              /\ p = 0 => KeptAfter(now) = entries
<1> DEFINE S == {i \in DOMAIN entries : entries[i] >= now - Window}
<1>1. entries \in Seq(Times) /\ Len(entries) \in Nat /\ DOMAIN entries = 1..Len(entries)
    BY DEF LimTypeOK, Times
<1>2. CASE S = {}
  <2>1. KeptAfter(now) = <<>>
      BY <1>2 DEF KeptAfter, From
  <2>2. \A i \in 1..Len(entries) : entries[i] < now - Window
    <3>1. ASSUME NEW i \in 1..Len(entries) PROVE entries[i] < now - Window
      <4>1. entries[i] \in Times /\ ~(entries[i] >= now - Window)
          BY <1>1, <1>2
      <4> QED BY <4>1, LimiterAssumption DEF Times
    <3> QED BY <3>1
  <2>3. Len(entries) = 0 => entries = <<>>
      BY <1>1
  <2> DEFINE p == Len(entries)
  <2>4. /\ p \in 0..Len(entries) /\ Len(entries) - p = 0
        /\ KeptAfter(now) \in Seq(Times) /\ Len(KeptAfter(now)) = 0
        /\ \A i \in 1..p : entries[i] < now - Window
        /\ p = 0 => KeptAfter(now) = entries
      BY <1>1, <2>1, <2>2, <2>3
  <2> HIDE DEF p
  <2>5. \A i \in 1..(Len(entries) - p) : KeptAfter(now)[i] = entries[i + p]
      BY <2>4
  <2> QED BY <2>4, <2>5
<1>3. CASE S # {}
  <2> DEFINE m == CHOOSE i \in S : \A j \in S : i <= j
  <2>1. m \in S /\ \A j \in S : m <= j
    <3>1. S \subseteq Nat
        BY <1>1
    <3>2. \E i \in S : \A j \in S : i <= j
      <4> HIDE DEF S
      <4> QED BY <1>3, <3>1, LeastNumber
    <3> QED BY <3>2
  <2>2. KeptAfter(now) = SubSeq(entries, m, Len(entries))
      BY <1>3 DEF KeptAfter, From
  <2> HIDE DEF m
  <2>3. m \in 1..Len(entries) /\ m - 1 \in 0..Len(entries)
      BY <1>1, <2>1
  <2>4. /\ KeptAfter(now) \in Seq(Times)
        /\ Len(KeptAfter(now)) = Len(entries) - (m - 1)
        /\ \A i \in 1..(Len(entries) - (m - 1)) : KeptAfter(now)[i] = entries[i + (m - 1)]
      BY <1>1, <2>2, <2>3
  <2>5. \A i \in 1..(m - 1) : entries[i] < now - Window
    <3>1. ASSUME NEW i \in 1..(m - 1) PROVE entries[i] < now - Window
      <4>1. i \in DOMAIN entries /\ i \notin S
          BY <1>1, <2>1, <2>3
      <4>2. entries[i] \in Times /\ ~(entries[i] >= now - Window)
          BY <1>1, <4>1
      <4> QED BY <4>2, LimiterAssumption DEF Times
    <3> QED BY <3>1
  <2>6. m - 1 = 0 => KeptAfter(now) = entries
      BY <1>1, <2>2, <2>3
  <2> QED BY <2>3, <2>4, <2>5, <2>6
<1> QED BY <1>2, <1>3

\* An admitted operation is counted; a refused check changes nothing.
LEMMA CheckStep ==
    ASSUME LimInv, NEW t \in Threads, Check(t)
    PROVE  LimInv'
<1>1. PICK r \in Times : r = read[t]
    BY DEF LimInv, LimTypeOK, Check, Times
<1> DEFINE queue == KeptAfter(r)
<1>2. PICK p \in 0..Len(entries) :
         /\ queue \in Seq(Times)
         /\ Len(queue) = Len(entries) - p
         /\ \A i \in 1..(Len(entries) - p) : queue[i] = entries[i + p]
         /\ \A i \in 1..p : entries[i] < r - Window
         /\ p = 0 => queue = entries
    BY <1>1, KeptIsTail DEF LimInv
<1>3. /\ entries \in Seq(Times) /\ Len(entries) \in Nat /\ Len(entries) <= MaxOps
      /\ admitted \in [Times -> Nat] /\ MaxOps \in Nat /\ MaxOps > 0 /\ Window \in Nat /\ LastTime \in Nat
    BY LimiterAssumption DEF LimInv, LimTypeOK, Times
<1>4. CASE ~Allowed(queue)
  <2>1. entries' = queue /\ admitted' = admitted
      BY <1>1, <1>4 DEF Check
  <2>2. p = 0
      BY <1>2, <1>3, <1>4 DEF Allowed
  <2>3. entries' = entries
      BY <1>2, <2>1, <2>2
  <2>4. reordered => reordered'
      BY DEF Check
  <2>5. LimTypeOK'
      BY <2>1, <2>3 DEF LimInv, LimTypeOK, Check
  <2>6. WindowKept'
      BY <2>1, <2>4, WindowSums DEF LimInv
  <2>7. ~reordered' => DequeCounts'
      BY <2>1, <2>3, <2>4 DEF LimInv, DequeCounts, NoneAfter
  <2> QED BY <2>5, <2>6, <2>7 DEF LimInv
<1>5. CASE Allowed(queue)
  <2>1. entries' = Append(queue, r) /\ admitted' = [admitted EXCEPT ![r] = @ + 1]
      BY <1>1, <1>5 DEF Check
  <2> HIDE DEF queue
  <2>2. /\ entries' \in Seq(Times) /\ Len(entries') = Len(queue) + 1
        /\ entries'[Len(queue) + 1] = r
        /\ \A i \in 1..Len(queue) : entries'[i] = queue[i]
    <3>1. queue \in Seq(Times)
        BY <1>2
    <3> QED BY <1>1, <2>1, <3>1
  <2>3. Len(entries') <= MaxOps
      BY <1>2, <1>3, <1>5, <2>2 DEF Allowed
  <2>4. LimTypeOK'
    <3>1. admitted' \in [Times -> Nat]
        BY <1>1, <1>3, <2>1
    <3>2. clock' \in 0..LastTime /\ read' \in [Threads -> 0..LastTime \cup {NotRead}] /\ reordered' \in BOOLEAN
        BY DEF LimInv, LimTypeOK, Check
    <3> QED BY <2>2, <2>3, <3>1, <3>2 DEF LimTypeOK, Times
  <2>5. \A S \in SUBSET Times :
           /\ TotalOf(admitted, S) \in Nat
           /\ TotalOf(admitted', S) = IF r \in S THEN TotalOf(admitted, S) + 1 ELSE TotalOf(admitted, S)
    <3>1. /\ \A v \in Times : admitted[v] \in Nat /\ admitted'[v] \in Nat
          /\ admitted'[r] = admitted[r] + 1
          /\ \A v \in Times \ {r} : admitted'[v] = admitted[v]
        BY <1>1, <1>3, <2>1
    <3>2. IsFiniteSet(Times)
        BY TimesFinite
    <3> QED BY <1>1, <3>1, <3>2, TotalPlusOne
  <2>6. SUFFICES ASSUME ~reordered' PROVE WindowKept' /\ DequeCounts'
      BY <2>4, WindowSums DEF LimInv
  <2>7. DequeCounts /\ NoneAfter(r)
    <3>1. ~reordered /\ \A u \in (r + 1)..LastTime : ~(admitted[u] > 0)
        BY <1>1, <2>6 DEF Check
    <3>2. ASSUME NEW v \in Times, admitted[v] > 0 PROVE v <= r
        BY <1>1, <1>3, <3>1, <3>2 DEF Times
    <3> QED BY <3>1, <3>2 DEF LimInv, NoneAfter
  <2>8. ASSUME NEW u \in Times, NEW g \in Int, NEW k \in 0..Len(entries'),
               NoneAfter(u)', g >= u - Window, \A i \in 1..k : entries'[i] < g
        PROVE  TotalOf(admitted', Since(g)) <= Len(entries') - k
    <3>1. r <= u
      <4>1. admitted'[r] > 0
          BY <1>1, <1>3, <2>1
      <4> QED BY <1>1, <2>8, <4>1 DEF NoneAfter
    <3>2. g >= r - Window
        BY <1>1, <1>3, <2>8, <3>1 DEF Times
    <3>3. Since(g) \in SUBSET Times
        BY TimesFinite
    <3>4. Times \subseteq Int /\ r - Window \in Int
        BY <1>1, <1>3 DEF Times
    <3>5. ASSUME NEW j \in 0..Len(queue), \A i \in 1..j : entries'[i] < g
          PROVE  TotalOf(admitted, Since(g)) <= Len(queue) - j
      <4>1. ASSUME NEW i \in 1..(j + p) PROVE entries[i] < g
        <5>1. CASE i <= p
          <6>1. i \in 1..p /\ i \in 1..Len(entries)
              BY <1>2, <1>3, <3>5, <4>1, <5>1
          <6>2. entries[i] < r - Window /\ entries[i] \in Times
              BY <1>2, <1>3, <6>1
          <6>3. entries[i] \in Int /\ r - Window \in Int
              BY <3>4, <6>2
          <6>4. \A a, b, c \in Int : a < b /\ c >= b => a < c
              OBVIOUS
          <6> QED BY <3>2, <6>2, <6>3, <6>4, Zenon
        <5>2. CASE i > p
          <6>1. i - p \in 1..j /\ i - p \in 1..Len(queue) /\ (i - p) + p = i /\ i - p \in 1..(Len(entries) - p)
              BY <1>2, <1>3, <3>5, <5>2
          <6>2. entries'[i - p] < g /\ entries'[i - p] = queue[i - p] /\ queue[i - p] = entries[(i - p) + p]
              BY <1>2, <2>2, <3>5, <6>1
          <6> QED BY <6>1, <6>2
        <5> QED BY <5>1, <5>2
      <4>2. j + p \in 0..Len(entries)
          BY <1>2, <1>3, <3>5
      <4>3. TotalOf(admitted, Since(g)) <= Len(entries) - (j + p)
          BY <1>1, <2>7, <3>2, <4>1, <4>2 DEF DequeCounts
      <4>4. TotalOf(admitted, Since(g)) \in Nat
          BY <2>5, <3>3
      <4> QED BY <1>2, <1>3, <4>3, <4>4
    <3>6. Len(queue) \in Nat /\ TotalOf(admitted, Since(g)) \in Nat
        BY <1>2, <1>3, <2>5, <3>3
    <3>7. CASE k <= Len(queue)
      <4>1. TotalOf(admitted, Since(g)) <= Len(queue) - k
          BY <2>8, <3>5, <3>6, <3>7
      <4>2. TotalOf(admitted', Since(g)) <= TotalOf(admitted, Since(g)) + 1
            /\ TotalOf(admitted', Since(g)) \in Nat
          BY <2>5, <3>3, <3>6
      <4> QED BY <2>2, <3>6, <3>7, <4>1, <4>2
    <3>8. CASE k = Len(queue) + 1
      <4>1. r < g
          BY <2>2, <2>8, <3>6, <3>8
      <4>2. r \notin Since(g)
          BY <1>1, <4>1 DEF Since, Times
      <4>3. TotalOf(admitted', Since(g)) = TotalOf(admitted, Since(g))
          BY <2>5, <3>3, <4>2
      <4>4. TotalOf(admitted, Since(g)) <= Len(queue) - Len(queue)
        <5>1. Len(queue) \in 0..Len(queue) /\ \A i \in 1..Len(queue) : entries'[i] < g
            BY <2>8, <3>6, <3>8
        <5> QED BY <3>5, <5>1
      <4> QED BY <2>2, <3>6, <3>8, <4>3, <4>4
    <3> QED BY <2>2, <2>8, <3>6, <3>7, <3>8
  <2>9. DequeCounts'
      BY <2>8 DEF DequeCounts
  <2>10. ASSUME NEW u \in Times PROVE TotalOf(admitted', WindowOf(u)) <= MaxOps
    <3> DEFINE W == WindowOf(u)
    <3>1. W \in SUBSET Times /\ u \in Nat /\ Since(u) \in SUBSET Times /\ W \in SUBSET Since(u)
        BY TimesFinite DEF Times, Since, WindowOf
    <3>2. TotalOf(admitted', W) <= MaxOps
      <4>1. CASE r \notin W
        <5>1. TotalOf(admitted', W) = TotalOf(admitted, W)
          <6> HIDE DEF W
          <6> QED BY <2>5, <3>1, <4>1
        <5>2. TotalOf(admitted, W) <= MaxOps
            BY <2>6, WindowSums DEF LimInv, Check
        <5> QED BY <5>1, <5>2
      <4>2. CASE r \in W
        <5>1. u >= r - Window
            BY <1>1, <1>3, <3>1, <4>2 DEF Times, WindowOf
        <5>2. NoneAfter(r)'
          <6>1. ASSUME NEW v \in Times, admitted'[v] > 0 PROVE v <= r
            <7>1. v # r => admitted'[v] = admitted[v]
                BY <1>3, <2>1
            <7> QED BY <1>1, <2>7, <6>1, <7>1 DEF NoneAfter, Times
          <6> QED BY <6>1 DEF NoneAfter
        <5>3. TotalOf(admitted', Since(u)) <= Len(entries')
          <6>1. 0 \in 0..Len(entries') /\ u \in Int /\ \A i \in 1..0 : entries'[i] < u
              BY <2>2, <3>1
          <6>2. TotalOf(admitted', Since(u)) <= Len(entries') - 0
              BY <1>1, <2>8, <5>1, <5>2, <6>1
          <6> QED BY <2>2, <6>2
        <5>4. TotalOf(admitted', W) <= TotalOf(admitted', Since(u))
              /\ TotalOf(admitted', W) \in Nat /\ TotalOf(admitted', Since(u)) \in Nat
          <6>1. \A v \in Since(u) : admitted'[v] \in Nat
              BY <2>4, <3>1 DEF LimTypeOK, Times
          <6>2. IsFiniteSet(Since(u))
              BY <3>1, TimesFinite, FS_Subset
          <6>3. Since(u) \in SUBSET Since(u)
              OBVIOUS
          <6> HIDE DEF W
          <6> QED BY <3>1, <6>1, <6>2, <6>3, TotalOfPart, TotalNat
        <5> QED BY <1>3, <2>2, <2>3, <5>3, <5>4
      <4> QED BY <4>1, <4>2
    <3> QED BY <3>2
  <2>11. WindowKept'
      BY <2>10, WindowSums
  <2> QED BY <2>9, <2>11
<1> QED BY <1>4, <1>5

LEMMA LimInvStep == LimInv /\ [LimiterNext]_lim_vars => LimInv'
<1> SUFFICES ASSUME LimInv, [LimiterNext]_lim_vars PROVE LimInv'
    OBVIOUS
<1>1. ASSUME UNCHANGED <<entries, admitted, reordered>>, LimTypeOK' PROVE LimInv'
  <2>1. WindowKept'
      BY <1>1, WindowSums DEF LimInv
  <2>2. ~reordered' => DequeCounts'
      BY <1>1 DEF LimInv, DequeCounts, NoneAfter
  <2> QED BY <1>1, <2>1, <2>2 DEF LimInv
<1>2. CASE Tick
  <2>1. LimTypeOK'
      BY <1>2, LimiterAssumption DEF LimInv, LimTypeOK, Tick
  <2> QED BY <1>1, <1>2, <2>1 DEF Tick
<1>3. ASSUME NEW t \in Threads, ReadClock(t) PROVE LimInv'
    BY <1>1, <1>3 DEF LimInv, LimTypeOK, ReadClock
<1>4. CASE UNCHANGED lim_vars
    BY <1>1, <1>4 DEF LimInv, LimTypeOK, lim_vars
<1> QED BY <1>2, <1>3, <1>4, CheckStep DEF LimiterNext

\* No window holds more operations than the limit (InMemoryRateLimiter.check),
\* for any threads, limit and window, unless a check came after a later one.
THEOREM LimitHolds == LimiterSpec => []WindowKept
<1>1. LimInv => WindowKept
    BY DEF LimInv
<1> QED BY <1>1, LimInvInit, LimInvStep, PTL DEF LimiterSpec

\* The limiter's deque, clock and counts stay in their types (InMemoryRateLimiter),
\* for any threads, limit and window.
THEOREM LimiterTypeCorrect == LimiterSpec => []LimTypeOK
<1>1. LimInv => LimTypeOK
    BY DEF LimInv
<1> QED BY <1>1, LimInvInit, LimInvStep, PTL DEF LimiterSpec

(* The three side by side *)

\* What runs side by side is each of the three: what is proved of one of them holds of
\* the portfolio API as it is checked.
THEOREM PortfolioComposes == PortfolioSpec => Spec /\ ManagerSpec /\ LimiterSpec
<1>1. PortfolioInit => Init /\ ManagerInit /\ LimiterInit
    BY DEF PortfolioInit
<1>2. [PortfolioNext]_<<active, vars, mgr_vars, lim_vars>>
        => [Next]_vars /\ [ManagerNext]_mgr_vars /\ [LimiterNext]_lim_vars
    BY DEF PortfolioNext
<1> QED BY <1>1, <1>2, PTL DEF PortfolioSpec, Spec, ManagerSpec, LimiterSpec

\* Rows, trades, jobs, calls, ledger and deque all stay in their types, for any orders,
\* sizes, threads, handlers, plans, keys and limits.
THEOREM PortfolioTypeCorrect == PortfolioSpec => []PortfolioTypeOK
<1>1. TypeOK /\ ManagerTypeOK /\ LimTypeOK => PortfolioTypeOK
    BY DEF PortfolioTypeOK
<1> QED
    BY <1>1, PortfolioComposes, TablesTypeCorrect, ManagerTypeCorrect, LimiterTypeCorrect, PTL
=============================================================================
