---------------------------- MODULE LiveRunClaims ----------------------------
(***************************************************************************)
(* What the documents say of a live run and LiveRun does not do.  Each     *)
(* formula states a line of                                                *)
(* app/docs/reference/live_playoff_validation_runbook.md.                  *)
(***************************************************************************)
EXTENDS LiveRun

PendingEntry(o) ==
    /\ Exists(db, o)
    /\ db[o].action = "entry"
    /\ db[o].status \in {"pending_submit"} \cup OPEN_ORDER_STATUSES

\* Line 76, after a restart: "no duplicate pending entry is created for a
\* game/outcome/side already present in DB or the local recovery snapshot".
\* A row left at pending_submit is in the table, but no gate of
\* _process_new_entries looks at that status.
NoDuplicatePendingEntry ==
    \A o, p \in Orders :
        PendingEntry(o) /\ PendingEntry(p) /\ OutcomeOf[db[o].sig] = OutcomeOf[db[p].sig] => o = p

\* Line 21: "cancel unfilled entry after `15s`, then re-evaluate on the next
\* cycle".  An entry the exchange acknowledged without an id cannot be
\* cancelled: cancel_live_order raises, which ends every later cycle as well.
UnfilledEntryCanceled ==
    \A k \in Keys, o \in Orders :
        (TracksEntry(k, o) /\ db[o].status = "submitted") ~> pc \in {"entry_gate", "ended"}
=============================================================================
