------------------------------ MODULE Collection ------------------------------
(***************************************************************************)
(* Collection configuration end to end: the cloud of CollectionConfig and  *)
(* gateways that fetch what it serves, keep it in a local file and collect *)
(* by it (buildopt-edge/app/main.py, telemetry/uploader.py,                *)
(* storage/collection_config_cache.py), and that report the points they    *)
(* collect back to the registry at every start.                            *)
(*                                                                         *)
(* There is no bootstrap mapping file.  A gateway awaits the answer to its *)
(* fetch, and nothing of the cloud depends on what it does with it, so the *)
(* answer and its use are one step.                                        *)
(***************************************************************************)
EXTENDS CollectionConfig

VARIABLES
  edge,       \* per gateway: process, mapping in use, _active_config_version
  cache,      \* per gateway: active_collection_config.json
  report,     \* per gateway: discovery batch on the wire
  collected,  \* history: newest version each gateway has collected by
  calm        \* engineers at rest, nothing fails any more

edgeVars == <<edge, cache, report, collected>>
allVars == <<vars, edgeVars, calm>>

NoConfig == <<>>
ToSetOf(c) == {c[k] : k \in DOMAIN c}

Down == [phase |-> "down", mapping |-> NoConfig, version |-> 0]

InitAll ==
  /\ Init
  /\ edge = [g \in Gateway |-> Down]
  /\ cache = [g \in Gateway |-> [mapping |-> NoConfig, version |-> 0]]
  /\ report = [g \in Gateway |-> {}]
  /\ collected = [g \in Gateway |-> 0]
  /\ calm = FALSE

(* A handler runs to its end before the process takes up another request. *)
ServerFree == \E s \in Server : At(s, "idle")

Goto(g, phase) == edge' = [edge EXCEPT ![g].phase = phase]

-----------------------------------------------------------------------------
(***************************************************************************)
(* GET /gateways/{id}/collection-config: the active version of exactly     *)
(* this gateway, else what is approved now, without a version.  Version 0  *)
(* stands for none.                                                        *)
(***************************************************************************)
(* Slip: a gateway is served the active version of the building as well. *)
ActiveOfBuilding(g) ==
  Newest({i \in DOMAIN versions : /\ InScope(g, versions[i].scope)
                                  /\ versions[i].status = "ACTIVE"})

ActiveOf(g) == Newest(Active(g))

Served(g) ==
  IF ActiveOf(g) # 0
  THEN {[mapping |-> versions[ActiveOf(g)].config, version |-> ActiveOf(g)]}
  ELSE {[mapping |-> c, version |-> 0] : c \in Configs(g)}

Latest(m, n) == IF m < n THEN n ELSE m

(* Slips: only an answer with a version is written to the file; one without *)
(* is written with the version known before.                               *)
AdoptVersioned(g, a, phase) ==
  /\ edge' = [edge EXCEPT ![g] = [phase |-> phase, mapping |-> a.mapping,
                version |-> IF a.version = 0 THEN @.version ELSE a.version]]
  /\ cache' = IF a.version \in {0, edge[g].version} THEN cache
              ELSE [cache EXCEPT ![g] = a]
  /\ collected' = [collected EXCEPT ![g] = Latest(@, a.version)]

AdoptKeepingVersion(g, a, phase) ==
  /\ edge' = [edge EXCEPT ![g] = [phase |-> phase, mapping |-> a.mapping,
                version |-> IF a.version = 0 THEN @.version ELSE a.version]]
  /\ cache' = [cache EXCEPT ![g] = [mapping |-> a.mapping, version |-> edge'[g].version]]
  /\ collected' = [collected EXCEPT ![g] = Latest(@, a.version)]

(***************************************************************************)
(* fetch_collection_config with a valid answer: a new version, or an       *)
(* answer without one, is written to the file first; for the version it    *)
(* already has the gateway writes nothing.                                 *)
(***************************************************************************)
Adopt(g, a, phase) ==
  /\ edge' = [edge EXCEPT ![g] = [phase |-> phase, mapping |-> a.mapping,
                version |-> IF a.version = 0 THEN @.version ELSE a.version]]
  /\ cache' = IF a.version # 0 /\ a.version = edge[g].version THEN cache
              ELSE [cache EXCEPT ![g] = a]
  /\ collected' = [collected EXCEPT ![g] = Latest(@, a.version)]

(* CloudUploader.__init__ takes the version of a usable file. *)
Boot(g) ==
  /\ edge[g].phase = "down"
  /\ edge' = [edge EXCEPT ![g] = [phase |-> "starting", mapping |-> NoConfig,
                                  version |-> cache[g].version]]
  /\ UNCHANGED <<vars, cache, report, collected, calm>>

(* resolve_collection_mapping, then sync_discovery of what is mapped. *)
StartFromCloud(g) ==
  /\ edge[g].phase = "starting" /\ ServerFree
  /\ \E a \in Served(g) :
       /\ a.mapping # NoConfig
       /\ Adopt(g, a, "sync")
       /\ report' = [report EXCEPT ![g] = ToSetOf(a.mapping)]
  /\ UNCHANGED <<vars, calm>>

(* The cloud refuses or fails the request, or serves an empty mapping. *)
NothingServed(g) == ServerFree /\ (~ calm \/ \E a \in Served(g) : a.mapping = NoConfig)

StartFromCache(g) ==
  /\ edge[g].phase = "starting" /\ NothingServed(g)
  /\ cache[g].mapping # NoConfig
  /\ edge' = [edge EXCEPT ![g] = [phase |-> "sync", mapping |-> cache[g].mapping,
                version |-> IF cache[g].version = 0 THEN @.version ELSE cache[g].version]]
  /\ report' = [report EXCEPT ![g] = ToSetOf(cache[g].mapping)]
  /\ collected' = [collected EXCEPT ![g] = Latest(@, cache[g].version)]
  /\ UNCHANGED <<vars, cache, calm>>

StartUnconfigured(g) ==
  /\ edge[g].phase = "starting" /\ NothingServed(g)
  /\ cache[g].mapping = NoConfig
  /\ Goto(g, "running")
  /\ UNCHANGED <<vars, cache, report, collected, calm>>

(* The discovery batch is taken up, or refused or lost. *)
TakeReport(s, g) ==
  /\ BeginDiscovery(s, report[g])
  /\ report' = [report EXCEPT ![g] = {}]
  /\ UNCHANGED <<edge, cache, collected, calm>>

LoseReport(g) ==
  /\ ~ calm /\ report[g] # {}
  /\ report' = [report EXCEPT ![g] = {}]
  /\ UNCHANGED <<vars, edge, cache, collected, calm>>

(* The answer to the batch, which sync_discovery's caller ignores. *)
Synced(g) ==
  /\ edge[g].phase = "sync" /\ report[g] = {}
  /\ \A s \in Server : ~ At(s, "discover")
  /\ Goto(g, "running")
  /\ UNCHANGED <<vars, cache, report, collected, calm>>

(***************************************************************************)
(* An exception before the loop ends the process: the fetch raises (cloud  *)
(* unreachable, timeout), the file cannot be written, or the discovery     *)
(* batch raises.                                                           *)
(***************************************************************************)
StartDies(g) ==
  /\ ~ calm /\ edge[g].phase \in {"starting", "sync"}
  /\ edge' = [edge EXCEPT ![g] = Down]
  /\ UNCHANGED <<vars, cache, report, collected, calm>>

(* The process dies in the loop; dying before it is no other than StartDies. *)
EdgeCrash(g) ==
  /\ ~ calm /\ edge[g].phase = "running"
  /\ edge' = [edge EXCEPT ![g] = Down]
  /\ UNCHANGED <<vars, cache, report, collected, calm>>

(***************************************************************************)
(* maybe_refresh_collection_mapping, every 20th cycle of the loop.  An     *)
(* answer without a mapping, a refusal or an exception, that of the file   *)
(* included, changes nothing.                                              *)
(***************************************************************************)
RefreshFails(g) ==
  /\ edge[g].phase = "running"
  /\ UNCHANGED allVars

(* Slip: a gateway that has a mapping keeps it. *)
RefreshUnconfigured(g) ==
  /\ edge[g].phase = "running" /\ ServerFree
  /\ edge[g].mapping = NoConfig
  /\ \E a \in Served(g) :
       /\ a.mapping # NoConfig
       /\ Adopt(g, a, "running")
  /\ UNCHANGED <<vars, report, calm>>

Refresh(g) ==
  /\ edge[g].phase = "running" /\ ServerFree
  /\ \E a \in Served(g) :
       /\ a.mapping # NoConfig
       /\ Adopt(g, a, "running")
  /\ UNCHANGED <<vars, report, calm>>

-----------------------------------------------------------------------------
Cloud(step) == step /\ UNCHANGED <<edgeVars, calm>>

(* Handlers under way have ended, one way or the other. *)
CalmDown ==
  /\ ~ calm
  /\ \A s \in Server : At(s, "idle")
  /\ calm' = TRUE
  /\ UNCHANGED <<vars, edgeVars>>

Start(g) ==
  \/ Boot(g)
  \/ StartFromCloud(g) \/ StartFromCache(g) \/ StartUnconfigured(g)
  \/ Synced(g)

NextAll ==
  \/ \E g \in Gateway :
       \/ Start(g) \/ Refresh(g) \/ RefreshFails(g)
       \/ StartDies(g) \/ EdgeCrash(g) \/ LoseReport(g)
  \/ \E s \in Server, g \in Gateway : TakeReport(s, g)
  \/ \E s \in Server : Cloud(Serve(s))
  \/ ~ calm /\ \E s \in Server : Cloud(Request(s)) \/ Cloud(Fault(s))
  \/ CalmDown

SpecAll == InitAll /\ [][NextAll]_allVars

(***************************************************************************)
(* Fairness: a gateway that died is started again (restart: unless-stopped *)
(* in its docker-compose.yml), its start-up awaits nothing for ever, its   *)
(* loop comes to a refresh again and again, and a server that is up takes  *)
(* up requests and finishes them.                                          *)
(***************************************************************************)
Fairness ==
  /\ \A g \in Gateway : WF_allVars(Start(g) \/ Refresh(g))
  /\ \A s \in Server :
       WF_allVars(Cloud(Serve(s)) \/ \E g \in Gateway : TakeReport(s, g))

LiveSpecAll == SpecAll /\ Fairness

-----------------------------------------------------------------------------
(* Types of the gateways' state. *)
TypeOK ==
  /\ ConfigTypeOK
  /\ edge \in [Gateway -> [phase : {"down", "starting", "sync", "running"},
                           mapping : Config, version : Nat]]
  /\ cache \in [Gateway -> [mapping : Config, version : Nat]]
  /\ report \in [Gateway -> SUBSET Point]
  /\ collected \in [Gateway -> Nat]
  /\ calm \in BOOLEAN

(***************************************************************************)
(* What a gateway collects or would collect after a restart an engineer    *)
(* approved, whether it was published, served unpublished or cached.       *)
(***************************************************************************)
CollectsApproved ==
  \A g \in Gateway :
    WasApproved(edge[g].mapping) /\ WasApproved(cache[g].mapping)

(***************************************************************************)
(* The file holds what the running gateway collects by, so a restart       *)
(* without the cloud goes on with it: the shortcut for a known version     *)
(* never leaves another mapping in the file.                               *)
(***************************************************************************)
RestartResumes ==
  \A g \in Gateway :
    edge[g].phase \in {"sync", "running"} => edge[g].mapping = cache[g].mapping

(***************************************************************************)
(* A version names one mapping everywhere: the file never pairs a version  *)
(* with the mapping of another, or with an unpublished one.                *)
(***************************************************************************)
CachedVersionIsPublished ==
  \A g \in Gateway : cache[g].version # 0 =>
    /\ cache[g].version \in DOMAIN versions
    /\ cache[g].mapping = versions[cache[g].version].config

(***************************************************************************)
(* A gateway never returns to an older version than one it has collected   *)
(* by, across refreshes, restarts, failed publishes and rollbacks.         *)
(***************************************************************************)
NeverOlder ==
  \A g \in Gateway : {edge[g].version, cache[g].version} \subseteq {0, collected[g]}

(***************************************************************************)
(* Once nothing fails any more every gateway that has an active version    *)
(* comes to run by it and stays with it, however it was started and        *)
(* whatever its file holds.                                                *)
(***************************************************************************)
RunsActive(g) ==
  edge[g].phase = "running" /\ edge[g].mapping = versions[ActiveOf(g)].config

Converges ==
  \A g \in Gateway : <>[](calm /\ ActiveOf(g) # 0 => RunsActive(g))

(***************************************************************************)
(* The whole of it, requests, failures, files and restarts, implements the *)
(* rollout of configurations as ConfigRollout promises it.                 *)
(***************************************************************************)
Rollout == INSTANCE ConfigRollout WITH
  approvals <- approved,
  releases <- versions,
  runs <- [g \in Gateway |-> edge[g].mapping],
  keeps <- [g \in Gateway |-> cache[g].mapping],
  newest <- collected

RolloutSpec == Rollout!Spec

(* Inductive, for any number of servers and gateways. *)
IInvAll == IInv /\ TypeOK /\ CollectsApproved /\ CachedVersionIsPublished

(***************************************************************************)
(* With one server process, or over SQLite.  What a gateway has collected  *)
(* by was in force in its own scope.  A gateway that was served without a  *)
(* version after one has the older one in memory alone: that one is        *)
(* superseded and no publish under way can bring it back, so the shortcut  *)
(* for a known version is never taken for it.                              *)
(***************************************************************************)
CollectedWasInForce ==
  \A g \in Gateway : collected[g] # 0 =>
    /\ collected[g] \in DOMAIN versions
    /\ versions[collected[g]].scope = g
    /\ versions[collected[g]].status # "DRAFT"

InMemoryAlone(g) == edge[g].version # 0 /\ cache[g].version = 0

Gone(version) ==
  /\ versions[version].status = "SUPERSEDED"
  /\ \A s \in Server :
       task[s].step \in {"insert", "supersede", "activate", "restore"} =>
         task[s].prev # version

RowIsDraft(t) ==
  t.step \in {"supersede", "activate"} =>
    t.row \in DOMAIN versions /\ versions[t.row].status = "DRAFT"

StartsEmpty ==
  \A g \in Gateway : edge[g].phase = "starting" => edge[g].mapping = NoConfig

Forward ==
  /\ NoneReactivated /\ RestartResumes /\ NeverOlder
  /\ CollectedWasInForce /\ StartsEmpty
  /\ \A g \in Gateway : InMemoryAlone(g) => Gone(edge[g].version)

(* Inductive for one server process, and over SQLite for any number.       *)
IInvOne == IInvAll /\ IInvAlone /\ Forward /\ \A s \in Server : RowIsDraft(task[s])

IInvSqlite == IInvAll /\ Forward /\ store = "sqlite"

(***************************************************************************)
(* For the rollout besides: the draft of a publish is for its scope, where *)
(* nothing is active any more once the others have made way, and the       *)
(* version to restore is no draft.                                         *)
(***************************************************************************)
RollsOut(t) ==
  /\ t.step \in {"supersede", "activate"} => versions[t.row].scope = t.scope
  /\ t.step = "activate" => Active(t.scope) = {}
  /\ t.step \in {"insert", "supersede", "activate", "restore"} /\ t.prev # 0 =>
       versions[t.prev].status # "DRAFT"

IInvRollout == IInvOne /\ \A s \in Server : RollsOut(task[s])

-----------------------------------------------------------------------------
(* Statements of the documentation the code does not keep. *)

(***************************************************************************)
(* "Approved / Rejected - explicit engineer decisions"                     *)
(* (docs/SEMANTIC_OPERATIONS.md): a decided point changes its status only  *)
(* by an engineer's request.                                               *)
(***************************************************************************)
DecisionsStand ==
  [][\A p \in Point :
       meta[p].status \in {"APPROVED", "REJECTED"} /\ meta'[p] # meta[p] =>
         \E s \in Server : At(s, "update") /\ task[s].point = p]_allVars

(***************************************************************************)
(* "Bootstrap mapped_points.json first; else cloud-approved config with     *)
(* local cache fallback" (docstring of resolve_collection_mapping): a      *)
(* gateway that is started with a usable file comes to run.                *)
(***************************************************************************)
StartsFromCache ==
  \A g \in Gateway :
    (edge[g].phase = "down" /\ cache[g].mapping # NoConfig) ~> (edge[g].phase = "running")
=============================================================================
