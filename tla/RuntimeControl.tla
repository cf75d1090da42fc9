---------------------------- MODULE RuntimeControl ----------------------------
(***************************************************************************)
(* The runtime control of one event: update_event_control_config and       *)
(* load_event_control_config of app/modules/agentic/runtime_control.py     *)
(* over write_json and read_json of store.py.                              *)
(*                                                                         *)
(* An update reads current.json, merges the fields it names, writes the    *)
(* file and appends to the update log; no lock is held.  A file that is    *)
(* missing or does not parse is the default configuration, which enables   *)
(* the event.                                                              *)
(***************************************************************************)
CONSTANTS
    Updaters,          \* callers of update_event_control_config
    Fields,            \* enabled, the toggles, the parameters
    Settings, Default, \* the values of a field and its default
    NoConfig, TornConfig, NoUpdate

ASSUME RuntimeControlAssumption ==
    /\ Default \in Settings
    /\ NoConfig # TornConfig
    /\ {NoConfig, TornConfig} \cap [Fields -> Settings] = {}

VARIABLES
    current,     \* current.json
    updating,    \* of each updater: how far it is
    config,      \* the configuration it has merged
    update,      \* the field it changes and its value
    in_force,    \* history: the last stored value of each field
    raced        \* history: fields an overlapping or failed update may have changed

rc_vars == <<current, updating, config, update, in_force, raced>>

Configs == [Fields -> Settings]
Defaults == [f \in Fields |-> Default]
Updates == [field : Fields, value : Settings]

RcTypeOK ==
    /\ current \in Configs \cup {NoConfig, TornConfig}
    /\ updating \in [Updaters -> {"idle", "merged", "opened", "written"}]
    /\ config \in [Updaters -> Configs]
    /\ update \in [Updaters -> Updates \cup {NoUpdate}]
    /\ in_force \in Configs
    /\ raced \subseteq Fields

RcInit ==
    /\ current = NoConfig
    /\ updating = [u \in Updaters |-> "idle"]
    /\ config = [u \in Updaters |-> Defaults]
    /\ update = [u \in Updaters |-> NoUpdate]
    /\ in_force = Defaults
    /\ raced = {}

\* load_event_control_config
Loaded == IF current \in {NoConfig, TornConfig} THEN Defaults ELSE current

Quiet == \A u \in Updaters : updating[u] = "idle"

\* Bug variant: the fields an update does not name get their defaults (UpdatesKept).
MergedOverDefaults(x) == [Defaults EXCEPT ![x.field] = x.value]

Merged(x) == [Loaded EXCEPT ![x.field] = x.value]

BeginUpdate(u, x) ==
    /\ updating[u] = "idle"
    /\ updating' = [updating EXCEPT ![u] = "merged"]
    /\ update' = [update EXCEPT ![u] = x]
    /\ config' = [config EXCEPT ![u] = Merged(x)]
    /\ raced' = IF Quiet THEN raced \ {x.field} ELSE Fields
    /\ UNCHANGED <<current, in_force>>

\* write_text opens the file, which empties it.
OpenCurrent(u) ==
    /\ updating[u] = "merged"
    /\ updating' = [updating EXCEPT ![u] = "opened"]
    /\ current' = TornConfig
    /\ UNCHANGED <<config, update, in_force, raced>>

\* Two updates at once may leave a mixture of their texts.
WriteCurrent(u) ==
    /\ updating[u] = "opened"
    /\ updating' = [updating EXCEPT ![u] = "written"]
    /\ current' \in {config[u]} \cup (IF raced = Fields THEN {TornConfig} ELSE {})
    /\ UNCHANGED <<config, update, in_force, raced>>

\* The entry of the update log, and the answer "stored".
LogUpdate(u) ==
    /\ updating[u] = "written"
    /\ updating' = [updating EXCEPT ![u] = "idle"]
    /\ in_force' = [in_force EXCEPT ![update[u].field] = update[u].value]
    /\ update' = [update EXCEPT ![u] = NoUpdate]
    /\ UNCHANGED <<current, config, raced>>

\* An error of the disk or the end of the process: nothing is answered.
FailUpdate(u) ==
    /\ updating[u] # "idle"
    /\ updating' = [updating EXCEPT ![u] = "idle"]
    /\ raced' = IF updating[u] = "opened" THEN Fields ELSE raced \cup {update[u].field}
    /\ update' = [update EXCEPT ![u] = NoUpdate]
    /\ UNCHANGED <<current, config, in_force>>

RcNext ==
    \E u \in Updaters :
        \/ \E x \in Updates : BeginUpdate(u, x)
        \/ OpenCurrent(u) \/ WriteCurrent(u) \/ LogUpdate(u) \/ FailUpdate(u)

RcSpec == RcInit /\ [][RcNext]_rc_vars

-----------------------------------------------------------------------------
(* Properties *)

\* A setting that was answered "stored" stays in force through any number of updates of
\* other fields, as long as the updates came one after another and none of them died
\* with the file open; an update that did not answer leaves only its own field open.
UpdatesKept ==
    Quiet => \A f \in Fields \ raced : Loaded[f] = in_force[f]
=============================================================================
