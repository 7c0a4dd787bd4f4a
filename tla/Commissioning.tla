--------------------------- MODULE Commissioning ---------------------------
(***************************************************************************)
(* Connecting the buildings to a Metasys system: the credentials           *)
(* (connection_store.py), the object each logical key of a building is     *)
(* read from (metasys_object_store.py), the automatic mapping              *)
(* (bms_auto_connect.py, metasys_auto_mapper.py) and the handlers of       *)
(* app/api/jci.py.                                                         *)
(*                                                                         *)
(* A discovery awaits the system; mapping and storing what it found is one *)
(* piece, which reads the file again.  The file is overwritten in place,   *)
(* so a process that dies there leaves one that cannot be read.  Which     *)
(* free object the name patterns choose for a key is left open.            *)
(***************************************************************************)
EXTENDS Integers

CONSTANTS
  Building,    \* BUILDING_REGISTRY
  Key,         \* LOGICAL_KEYS
  Object,
  System,      \* Metasys servers, by their credentials
  ObjectsOf(_),\* what a discovery finds on a server
  Configured,  \* the server the settings name, or None
  Default,     \* metasys_objects of the registry, by building and key
  Task,        \* requests and start-up tasks that may run at a time
  None

Map == [Key -> Object \cup {None}]
NoMap == [k \in Key |-> None]

Idle == [doing |-> "nothing", system |-> None, building |-> None, merge |-> TRUE]
Running == [doing : {"saving", "connecting", "mapping"}, system : System \cup {None},
            building : Building \cup {None}, merge : BOOLEAN]

CommissioningAssumption ==
  /\ None \notin Object /\ None \notin System /\ None \notin Building
  /\ Default \in [Building -> Map]
  /\ Configured \in System \cup {None}
  /\ \A s \in System : ObjectsOf(s) \subseteq Object

VARIABLES
  metasys,     \* what connection_store.get_metasys returns
  saved,       \* the row of bms_connections in Supabase
  overrides,   \* metasys_objects.json
  tasks,       \* what each task awaits
  hand         \* history: what an engineer mapped and nobody asked to replace

vars == <<metasys, saved, overrides, tasks, hand>>

Init ==
  /\ metasys = Configured
  /\ saved = None
  /\ overrides = [b \in Building |-> NoMap]
  /\ tasks = [t \in Task |-> Idle]
  /\ hand = [b \in Building |-> NoMap]

Await(t, task) ==
  /\ tasks[t] = Idle
  /\ tasks' = [tasks EXCEPT ![t] = task]

Done(t) == tasks' = [tasks EXCEPT ![t] = Idle]

-----------------------------------------------------------------------------
(* The maps. *)

(* get_metasys_objects: overrides over the registry's defaults. *)
Objects(b) == [k \in Key |-> IF overrides[b][k] # None THEN overrides[b][k] ELSE Default[b][k]]

(* Slip: a discovery starts from nothing, as if it were always forced. *)
KeptNone(map, merge) == NoMap

Kept(map, merge) == IF merge THEN map ELSE NoMap

(* suggest_mappings: the keys that are kept, and for each of the others an  *)
(* object that no key has.                                                  *)
Suggestions(found, map, merge) ==
  LET kept == Kept(map, merge)
      used == {kept[k] : k \in Key}
  IN  {m \in [Key -> found \cup (used \ {None}) \cup {None}] :
         /\ \A k \in Key : IF kept[k] # None THEN m[k] = kept[k]
                           ELSE m[k] = None \/ m[k] \in found \ used
         /\ \A k, l \in Key : k # l /\ kept[k] = None /\ kept[l] = None /\ m[k] # None
                              => m[k] # m[l]}

(* Stored for the buildings of a discovery.  Unless it was asked to replace *)
(* what is mapped, it took nothing from an engineer.                        *)
Remapped(B, found, merge) ==
  /\ \E m \in [B -> UNION {Suggestions(found, Objects(b), merge) : b \in B}] :
       /\ \A b \in B : m[b] \in Suggestions(found, Objects(b), merge)
       /\ overrides' = [b \in Building |-> IF b \in B THEN m[b] ELSE overrides[b]]
  /\ hand' = IF merge THEN hand ELSE [b \in Building |-> IF b \in B THEN NoMap ELSE hand[b]]

(* PUT objects: the map is replaced by the engineer's. *)
PutObjects(b, map) ==
  /\ overrides' = [overrides EXCEPT ![b] = map]
  /\ hand' = [hand EXCEPT ![b] = map]
  /\ UNCHANGED <<metasys, saved, tasks>>

-----------------------------------------------------------------------------
(* The credentials. *)

(* save-credentials, once the server passed the connection test: used from  *)
(* now on, and sent to Supabase.                                            *)
SaveCredentials(t, s) ==
  /\ Await(t, [doing |-> "saving", system |-> s, building |-> None, merge |-> TRUE])
  /\ metasys' = s
  /\ UNCHANGED <<saved, overrides, hand>>

(* Stored or not, whatever the answer; then auto-connect, by the            *)
(* credentials in use by now.                                               *)
CredentialsSaved(t) ==
  /\ tasks[t].doing = "saving"
  /\ saved' \in {saved, tasks[t].system}
  /\ tasks' = [tasks EXCEPT ![t] =
       [doing |-> "connecting", system |-> metasys, building |-> None, merge |-> TRUE]]
  /\ UNCHANGED <<metasys, overrides, hand>>

(* POST auto-connect, refused without credentials, and objects/auto-map. *)
AutoConnect(t, merge) ==
  /\ metasys # None
  /\ Await(t, [doing |-> "connecting", system |-> metasys, building |-> None, merge |-> merge])
  /\ UNCHANGED <<metasys, saved, overrides, hand>>

AutoMap(t, b, merge) ==
  /\ Await(t, [doing |-> "mapping", system |-> metasys, building |-> b, merge |-> merge])
  /\ UNCHANGED <<metasys, saved, overrides, hand>>

(* get_objects answers the task, which maps all buildings or its one. *)
Discovered(t) ==
  /\ tasks[t].doing \in {"connecting", "mapping"}
  /\ tasks[t].system # None
  /\ Done(t)
  /\ Remapped(IF tasks[t].doing = "mapping" THEN {tasks[t].building} ELSE Building,
              ObjectsOf(tasks[t].system), tasks[t].merge)
  /\ UNCHANGED <<metasys, saved>>

DiscoveryFails(t) ==
  /\ tasks[t].doing \in {"connecting", "mapping"}
  /\ Done(t)
  /\ UNCHANGED <<metasys, saved, overrides, hand>>

(* Start-up loads the row, unless there is none or Supabase does not        *)
(* answer, and starts an auto-connect.                                      *)
Loaded ==
  /\ metasys' \in {Configured} \cup ({saved} \ {None})
  /\ \E t \in Task :
       tasks' = [u \in Task |->
         IF u = t /\ metasys' # None
         THEN [doing |-> "connecting", system |-> metasys', building |-> None, merge |-> TRUE]
         ELSE Idle]
  /\ UNCHANGED saved

Restart == Loaded /\ UNCHANGED <<overrides, hand>>

(* The process dies while it writes the file: all overrides are lost.  The  *)
(* history of what was mapped by hand begins anew, so what this loses is    *)
(* not counted against HandMappedStands.                                    *)
DiesWriting ==
  /\ Loaded
  /\ overrides' = [b \in Building |-> NoMap]
  /\ hand' = [b \in Building |-> NoMap]

Next ==
  \/ Restart \/ DiesWriting
  \/ \E b \in Building, map \in Map : PutObjects(b, map)
  \/ \E t \in Task :
       \/ \E s \in System : SaveCredentials(t, s)
       \/ \E merge \in BOOLEAN :
            \/ AutoConnect(t, merge)
            \/ \E b \in Building : AutoMap(t, b, merge)
       \/ CredentialsSaved(t) \/ Discovered(t) \/ DiscoveryFails(t)

Spec == Init /\ [][Next]_vars

-----------------------------------------------------------------------------
TypeOK ==
  /\ metasys \in System \cup {None}
  /\ saved \in System \cup {None}
  /\ overrides \in [Building -> Map]
  /\ tasks \in [Task -> Running \cup {Idle}]
  /\ hand \in [Building -> Map]

(***************************************************************************)
(* What an engineer mapped by hand is read from then on, until an engineer *)
(* maps the building again or asks a discovery to replace what it finds:   *)
(* although discoveries that merge are started by every restart and every  *)
(* change of credentials and finish at any later time.  That the file may  *)
(* be lost in a crash while it is written, with every mapping in it, is    *)
(* outside the property: DiesWriting clears the history with the file.     *)
(***************************************************************************)
HandMappedStands ==
  \A b \in Building, k \in Key : hand[b][k] # None => Objects(b)[k] = hand[b][k]
=============================================================================
