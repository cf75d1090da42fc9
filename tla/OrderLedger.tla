----------------------------- MODULE OrderLedger -----------------------------
(***************************************************************************)
(* What a run of orders promises to whoever reads portfolio.orders: the    *)
(* life of a row, and an allowance of entries per game.  Nothing is said   *)
(* of threads, memory, connections or the exchange.                        *)
(***************************************************************************)
EXTENDS Naturals, FiniteSets

CONSTANTS
    Orders,       \* order ids
    Games,
    NoGame,       \* the owner of an exit order, and of an id not used yet
    MaxEntries    \* entries a game may be allotted

VARIABLES
    status,       \* the status of each row, "none" before it exists
    owner         \* the game an entry row is charged to

OpenStatus == {"submitted", "partially_filled"}

Init ==
    /\ status = [o \in Orders |-> "none"]
    /\ owner = [o \in Orders |-> NoGame]

\* The entries charged to g: all but the refused ones.
Charged(g) == {o \in Orders : owner[o] = g /\ status[o] # "submit_error"}

RequestEntry(o, g) ==
    /\ status[o] = "none"
    /\ Cardinality(Charged(g)) < MaxEntries
    /\ status' = [status EXCEPT ![o] = "pending_submit"]
    /\ owner' = [owner EXCEPT ![o] = g]

RequestExit(o) ==
    /\ status[o] = "none"
    /\ status' = [status EXCEPT ![o] = "pending_submit"]
    /\ UNCHANGED owner

Answer(o) ==
    /\ status[o] = "pending_submit"
    /\ \E s \in {"submitted", "submit_error"} : status' = [status EXCEPT ![o] = s]
    /\ UNCHANGED owner

Cancel(o) ==
    /\ status[o] \in OpenStatus
    /\ \E s \in {"canceled", "cancel_error"} : status' = [status EXCEPT ![o] = s]
    /\ UNCHANGED owner

\* One reconciliation may report fills of several open orders.
Trade ==
    /\ \E traded \in SUBSET {o \in Orders : status[o] \in OpenStatus} :
          \E new \in [traded -> {"partially_filled", "filled"}] :
              status' = [o \in Orders |-> IF o \in traded THEN new[o] ELSE status[o]]
    /\ UNCHANGED owner

Next ==
    \/ Trade
    \/ \E o \in Orders :
          \/ RequestExit(o) \/ Answer(o) \/ Cancel(o)
          \/ \E g \in Games : RequestEntry(o, g)

Spec == Init /\ [][Next]_<<status, owner>>
=============================================================================
