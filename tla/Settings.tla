------------------------------ MODULE Settings ------------------------------
(***************************************************************************)
(* The settings files (crates/coding-agent/src/core/settings.rs), shared   *)
(* by the processes that run at the same time: the legacy JSON file and    *)
(* its migration, the global and the project YAML layer, saves, and the    *)
(* watcher one process may start.                                          *)
(*                                                                         *)
(* A layer maps each key to a value or Unset.  A file holds a layer, or is *)
(* Missing or Invalid.  Only the global directory has a legacy file.       *)
(***************************************************************************)
EXTENDS Integers, FiniteSets

CONSTANTS
  Processes, Keys, Values,
  MaxWrites   \* bound: saves by processes and edits by the user

VARIABLES
  json, backup,    \* settings.json, settings.json.bak
  yaml,            \* scope |-> settings.yaml
  proc,            \* what each process is at, and holds
  watch,           \* the watcher of one process
  writes,          \* saves and edits so far
  base,            \* ghost: the global values the files hold at first
  set,             \* ghost: the keys of the global layer set since
  failed           \* ghost: a migration could not write the YAML file

vars == <<json, backup, yaml, proc, watch, writes, base, set, failed>>

Scopes == {"global", "project"}
Unset == 0
Missing == [file |-> "missing"]
Invalid == [file |-> "invalid"]
Layer(l) == [file |-> "layer", has |-> l]
Empty == [k \in Keys |-> Unset]

\* load_yaml_layer
Loads(f) == f # Invalid
LayerOf(f) == IF f = Missing THEN Empty ELSE f.has

\* Settings::merge: a layer above contributes the keys it sets.
Merge(lower, upper) == [k \in Keys |-> IF upper[k] = Unset THEN lower[k] ELSE upper[k]]

Off == [at |-> "off"]

Init ==
  /\ json \in {Missing, Invalid} \cup {Layer([k \in Keys |-> v]) : v \in Values}
  /\ backup = Missing
  /\ \E g \in {Missing} \cup {Layer([k \in Keys |-> v]) : v \in Values} :
       yaml = [s \in Scopes |-> IF s = "global" THEN g ELSE Missing]
  /\ proc = [p \in Processes |-> Off]
  /\ watch = Off
  /\ writes = 0
  /\ base = LayerOf(IF yaml["global"] = Missing /\ json # Invalid THEN json ELSE yaml["global"])
  /\ set = {}
  /\ failed = FALSE

-----------------------------------------------------------------------------
(* from_paths: migrate_legacy_json_settings, then load_layers. *)

At(p, where) == proc' = [proc EXCEPT ![p] = [at |-> where]]

\* The YAML file is looked for first, then the JSON file.
CheckYaml(p) ==
  /\ proc[p].at = "off"
  /\ At(p, IF yaml["global"] # Missing THEN "load" ELSE "json")
  /\ UNCHANGED <<json, backup, yaml, watch, writes, base, set, failed>>

\* Mutant: the JSON file is moved out of the way as soon as it is read.
ReadJson_Moves(p) ==
  /\ proc[p].at = "json"
  /\ IF json \in {Missing, Invalid}
       THEN At(p, "load") /\ UNCHANGED <<json, backup>>
       ELSE /\ proc' = [proc EXCEPT ![p] = [at |-> "persist", read |-> json]]
            /\ json' = Missing /\ backup' = json
  /\ UNCHANGED <<yaml, watch, writes, base, set, failed>>

ReadJson(p) ==
  /\ proc[p].at = "json"
  /\ IF json \in {Missing, Invalid}
       THEN At(p, "load")
       ELSE proc' = [proc EXCEPT ![p] = [at |-> "persist", read |-> json]]
  /\ UNCHANGED <<json, backup, yaml, watch, writes, base, set, failed>>

\* A write of a YAML file changes its time, which the next poll notices.
Written == watch' = IF watch = Off THEN Off ELSE [watch EXCEPT !.unseen = TRUE]

\* A temporary file renamed into place, over whatever is there by now.
PersistYaml(p) ==
  /\ proc[p].at = "persist"
  /\ \/ /\ yaml' = [yaml EXCEPT !["global"] = proc[p].read]
        /\ At(p, "rename") /\ Written /\ UNCHANGED failed
     \/ At(p, "load") /\ failed' = TRUE /\ UNCHANGED <<yaml, watch>>
  /\ UNCHANGED <<json, backup, writes, base, set>>

RenameJson(p) ==
  /\ proc[p].at = "rename"
  /\ At(p, "load")
  /\ \/ json # Missing /\ backup' = json /\ json' = Missing
     \/ UNCHANGED <<json, backup>>
  /\ UNCHANGED <<yaml, watch, writes, base, set, failed>>

Load(p) ==
  /\ proc[p].at = "load"
  /\ \/ /\ \A s \in Scopes : Loads(yaml[s])
        /\ proc' = [proc EXCEPT ![p] = [at |-> "ready", layer |-> [s \in Scopes |-> LayerOf(yaml[s])]]]
     \/ /\ \E s \in Scopes : ~Loads(yaml[s])
        /\ proc' = [proc EXCEPT ![p] = Off]
  /\ UNCHANGED <<json, backup, yaml, watch, writes, base, set, failed>>

\* The process ends, or is killed, anywhere; the watcher ends with it.
Stop(p) ==
  /\ proc[p] # Off
  /\ proc' = [proc EXCEPT ![p] = Off]
  /\ watch' = IF watch # Off /\ watch.of = p THEN Off ELSE watch
  /\ UNCHANGED <<json, backup, yaml, writes, base, set, failed>>

-----------------------------------------------------------------------------
(* apply_setting_by_id and save: the whole layer, as this process holds it.*)

Save(p, scope, key, value) ==
  /\ proc[p].at = "ready" /\ writes < MaxWrites
  /\ LET new == [proc[p].layer[scope] EXCEPT ![key] = value] IN
     /\ proc' = [proc EXCEPT ![p].layer[scope] = new]
     /\ \/ yaml' = [yaml EXCEPT ![scope] = Layer(new)] /\ Written
        \/ UNCHANGED <<yaml, watch>>
  /\ set' = IF scope = "global" THEN set \cup {key} ELSE set
  /\ writes' = writes + 1
  /\ UNCHANGED <<json, backup, base, failed>>

\* A file that sets one key.
Setting(k, v) == Layer([Empty EXCEPT ![k] = v])

\* The user edits the project file by hand, and may leave it malformed.
UserEdits(f) ==
  /\ writes < MaxWrites /\ f # yaml["project"]
  /\ yaml' = [yaml EXCEPT !["project"] = f]
  /\ Written
  /\ writes' = writes + 1
  /\ UNCHANGED <<json, backup, proc, base, set, failed>>

-----------------------------------------------------------------------------
(* watch *)

\* The watcher starts from the settings loaded before; the poll from the files now.
Watch(p) ==
  /\ proc[p].at = "ready" /\ watch = Off
  /\ LET known == Merge(proc[p].layer["global"], proc[p].layer["project"]) IN
     watch' = [at |-> "idle", of |-> p, unseen |-> FALSE, event |-> FALSE, current |-> known,
               read |-> Empty, heard |-> yaml = [s \in Scopes |-> Layer(proc[p].layer[s])]]
  /\ UNCHANGED <<json, backup, yaml, proc, writes, base, set, failed>>

\* PollWatcher: an event for files written since the poll before.
Poll ==
  /\ watch # Off /\ watch.unseen
  /\ watch' = [watch EXCEPT !.unseen = FALSE, !.event = TRUE]
  /\ UNCHANGED <<json, backup, yaml, proc, writes, base, set, failed>>

\* The first event, then those of the window; it ends when none comes.
Debounce ==
  /\ watch # Off /\ watch.event /\ watch.at \in {"idle", "window"}
  /\ watch' = [watch EXCEPT !.at = "window", !.event = FALSE]
  /\ UNCHANGED <<json, backup, yaml, proc, writes, base, set, failed>>

\* Settings::load reads the global file, then the project file.
ReloadGlobal ==
  /\ watch # Off /\ watch.at = "window" /\ ~watch.event
  /\ watch' = IF Loads(yaml["global"])
                THEN [watch EXCEPT !.at = "reading", !.read = LayerOf(yaml["global"])]
                ELSE [watch EXCEPT !.at = "idle"]
  /\ UNCHANGED <<json, backup, yaml, proc, writes, base, set, failed>>

\* Mutant: events that came while the files were read are taken as served.
Reloaded_Served(w) == [w EXCEPT !.at = "idle", !.event = FALSE]

\* Events that came while the files were read start another window.
Reloaded(w) == [w EXCEPT !.at = "idle"]

ReloadProject ==
  /\ watch # Off /\ watch.at = "reading"
  /\ watch' = Reloaded(IF Loads(yaml["project"])
                         THEN [watch EXCEPT !.current = Merge(watch.read, LayerOf(yaml["project"])),
                                            !.heard = TRUE]
                         ELSE watch)
  /\ UNCHANGED <<json, backup, yaml, proc, writes, base, set, failed>>

StopWatching ==
  /\ watch # Off
  /\ watch' = Off
  /\ UNCHANGED <<json, backup, yaml, proc, writes, base, set, failed>>

Next ==
  \/ \E p \in Processes :
       \/ CheckYaml(p) \/ ReadJson(p) \/ PersistYaml(p) \/ RenameJson(p) \/ Load(p)
       \/ Stop(p) \/ Watch(p)
       \/ \E s \in Scopes, k \in Keys, v \in Values : Save(p, s, k, v)
  \/ \E f \in {Missing, Invalid} \cup {Setting(k, v) : k \in Keys, v \in Values} :
       UserEdits(f)
  \/ Poll \/ Debounce \/ ReloadGlobal \/ ReloadProject \/ StopWatching

Spec == Init /\ [][Next]_vars

-----------------------------------------------------------------------------
(* No setting is lost in the move from JSON to YAML, with processes that   *)
(* start, migrate and are killed at any moment: a key nobody has set has   *)
(* in every process, and in the file a process would read next, the value  *)
(* it had at first, unless a migration could not write; and even then some *)
(* file still holds it (migrate_legacy_json_settings, from_paths, save).   *)
(* Where the JSON file is malformed there is nothing to move.              *)
LegacyKept ==
  \A k \in Keys \ set :
    /\ ~failed =>
         /\ \A p \in Processes : proc[p].at = "ready" => proc[p].layer["global"][k] = base[k]
         /\ LayerOf(IF yaml["global"] = Missing /\ json # Invalid THEN json ELSE yaml["global"])[k] = base[k]
    /\ base[k] # Unset => \E f \in {json, backup, yaml["global"]} : f.file = "layer" /\ f.has[k] = base[k]

(* What subscribers were told last is what the files say, once the files   *)
(* are at rest and well-formed: a change made while the watcher waits or   *)
(* reads is seen by a later poll (watch).  It takes that the files had not *)
(* changed between the load and the start of the watcher, or have since.   *)
WatcherCatchesUp ==
  (/\ watch # Off /\ watch.heard
   /\ watch.at = "idle" /\ ~watch.event /\ ~watch.unseen
   /\ \A s \in Scopes : Loads(yaml[s]))
  => watch.current = Merge(LayerOf(yaml["global"]), LayerOf(yaml["project"]))
=============================================================================
