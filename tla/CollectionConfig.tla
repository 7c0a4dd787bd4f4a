-------------------------- MODULE CollectionConfig --------------------------
(***************************************************************************)
(* The cloud's side of collection configuration: engineers decide which    *)
(* source point a semantic key is read from (semantic_mapping_service.py), *)
(* discovery batches refresh the registry (api/discovery.py), and publish  *)
(* turns the approvals of a scope into a config version                    *)
(* (collection_config_service.py) over either telemetry store: SQLite,     *)
(* which publishes in one transaction, or PostgREST, which takes four      *)
(* requests and tries to undo them when one of them raises.                *)
(*                                                                         *)
(* A scope is a gateway, or Building for a publish without a gateway_id.   *)
(* The order of versions is that of created_at.  Points are registered.    *)
(***************************************************************************)
EXTENDS Integers, Sequences, FiniteSetsExt

CONSTANTS
  Server,        \* server processes
  Gateway,
  Building,      \* the scope of a publish without a gateway_id
  Point,         \* source points in the registry
  GatewayOf(_),  \* the gateway a point is reported by
  Key,           \* semantic keys
  NoKey,         \* metadata without a semantic_key
  Stores,        \* the store backends to consider: "sqlite", "postgrest"
  MaxVersions,   \* bound: versions after which no publish starts
  MaxDecisions   \* bound: decisions the engineers make

ASSUME ConfigAssumption ==
  /\ Building \notin Gateway
  /\ \A p \in Point : GatewayOf(p) \in Gateway
  /\ NoKey \notin Key
  /\ Stores \subseteq {"sqlite", "postgrest"}
  /\ MaxVersions \in Nat /\ MaxDecisions \in Nat

VARIABLES
  store,      \* the backend in use
  meta,       \* raw_points.metadata: mapping_status and semantic_key
  versions,   \* table collection_config_versions, by created_at
  task,       \* per server, the handler it is running
  approved,   \* history: key and point of every approval
  decisions   \* history: decisions made

vars == <<store, meta, versions, task, approved, decisions>>

Scope == Gateway \cup {Building}
Meta == [status : {"NEW", "UNMAPPED", "REVIEW_REQUIRED", "APPROVED", "REJECTED"},
         key : Key \cup {NoKey}]
Config == UNION {[K -> Point] : K \in SUBSET Key}
Version == [scope : Scope, revision : Nat \ {0}, config : Config,
            status : {"DRAFT", "ACTIVE", "SUPERSEDED"}]

Idle == [step |-> "idle"]

(***************************************************************************)
(* update, audit: a decision; discover: a discovery batch; the others: a   *)
(* publish, up to its single insert (sqlite, or nothing approved) or on    *)
(* through find, insert, supersede, activate and perhaps restore.          *)
(***************************************************************************)
Task ==
  {Idle}
  \cup [step : {"update"}, point : Point, meta : Meta]
  \cup [step : {"audit"}]
  \cup [step : {"discover"}, todo : SUBSET Point]
  \cup [step : {"revision"}, scope : Scope, config : Config]
  \cup [step : {"publish"}, scope : Scope, config : Config, revision : Nat \ {0}]
  \cup [step : {"insert"}, scope : Scope, config : Config, revision : Nat \ {0},
        prev : Nat]
  \cup [step : {"supersede", "activate"}, scope : Scope, row : Nat, prev : Nat]
  \cup [step : {"restore"}, prev : Nat]

Init ==
  /\ store \in Stores
  /\ meta = [p \in Point |-> [status |-> "NEW", key |-> NoKey]]
  /\ versions = <<>>
  /\ task = [s \in Server |-> Idle]
  /\ approved = {}
  /\ decisions = 0

At(s, step) == task[s].step = step
Begin(s, t) == task' = [task EXCEPT ![s] = t]
Return(s) == Begin(s, Idle)

(***************************************************************************)
(* A raising request to PostgREST may have taken effect all the same; a    *)
(* raising SQLite statement has not.                                       *)
(***************************************************************************)
MayTakeEffect == store = "postgrest"

-----------------------------------------------------------------------------
(* Decisions of the engineers. *)

Approve(m, k) == [status |-> "APPROVED", key |-> k]

Reject(m) == [m EXCEPT !.status = "REJECTED"]
Revert == [status |-> "UNMAPPED", key |-> NoKey]

(* An edit sends what was decided back to review; what was never mapped too. *)
Edit(m, k) ==
  [status |-> IF m.status \in {"NEW", "APPROVED", "REJECTED"} THEN "REVIEW_REQUIRED"
              ELSE m.status,
   key |-> k]

Outcomes(m) ==
  {Reject(m), Revert, Edit(m, m.key)} \cup {Approve(m, k) : k \in Key}
                                      \cup {Edit(m, k) : k \in Key}

(***************************************************************************)
(* approve, reject, edit and revert read the point, compute its metadata   *)
(* from what they read, and store it.                                      *)
(***************************************************************************)
Decide(s, p, m) ==
  /\ At(s, "idle")
  /\ decisions < MaxDecisions
  /\ m \in Outcomes(meta[p])
  /\ decisions' = decisions + 1
  /\ Begin(s, [step |-> "update", point |-> p, meta |-> m])
  /\ UNCHANGED <<store, meta, versions, approved>>

StoreMeta(p, m) ==
  /\ meta' = [meta EXCEPT ![p] = m]
  /\ approved' = IF m.status = "APPROVED" THEN approved \cup {<<m.key, p>>} ELSE approved

Update(s) ==
  /\ At(s, "update")
  /\ StoreMeta(task[s].point, task[s].meta)
  /\ Begin(s, [step |-> "audit"])
  /\ UNCHANGED <<store, versions, decisions>>

(***************************************************************************)
(* The audit event is inserted on its own, after the metadata.  No handler *)
(* of this workflow reads semantic_audit_log, so its rows are left out.    *)
(***************************************************************************)
Record(s) ==
  /\ At(s, "audit")
  /\ Return(s)
  /\ UNCHANGED <<store, meta, versions, approved, decisions>>

(* Before the metadata is stored, after it, or in the audit. *)
DecisionRaises(s) ==
  /\ task[s].step \in {"update", "audit"}
  /\ \/ UNCHANGED <<meta, approved>>
     \/ /\ At(s, "update") /\ MayTakeEffect
        /\ StoreMeta(task[s].point, task[s].meta)
  /\ Return(s)
  /\ UNCHANGED <<store, versions, decisions>>

-----------------------------------------------------------------------------
(* Discovery: the registry row of each point of the batch is overwritten,  *)
(* metadata included; one that raises is counted rejected.                 *)

BeginDiscovery(s, points) ==
  /\ At(s, "idle")
  /\ points # {}
  /\ Begin(s, [step |-> "discover", todo |-> points])
  /\ UNCHANGED <<store, meta, versions, approved, decisions>>

Discover(s, p) ==
  /\ At(s, "discover")
  /\ p \in task[s].todo
  /\ meta' = [meta EXCEPT ![p] = [status |-> "NEW", key |-> NoKey]]
  /\ IF task[s].todo = {p} THEN Return(s)
     ELSE Begin(s, [task[s] EXCEPT !.todo = @ \ {p}])
  /\ UNCHANGED <<store, versions, approved, decisions>>

DiscoverRaises(s, p) ==
  /\ At(s, "discover")
  /\ p \in task[s].todo
  /\ IF task[s].todo = {p} THEN Return(s)
     ELSE Begin(s, [task[s] EXCEPT !.todo = @ \ {p}])
  /\ UNCHANGED <<store, meta, versions, approved, decisions>>

-----------------------------------------------------------------------------
(* Publishing. *)

InScope(scope, of) == of \in {scope, Building}

(* Slip: what was rejected or is under review is collected too. *)
CollectedAnyStatus(scope, k) ==
  {p \in Point : InScope(GatewayOf(p), scope) /\ meta[p].key = k}

Collected(scope, k) ==
  {p \in Point : /\ InScope(GatewayOf(p), scope)
                 /\ meta[p].status = "APPROVED" /\ meta[p].key = k}

(***************************************************************************)
(* build_collection_config: when several points are approved for a key the *)
(* last one listed is taken, and the list is in no order that matters.     *)
(***************************************************************************)
Configs(scope) ==
  LET keys == {k \in Key : Collected(scope, k) # {}}
  IN  {c \in [keys -> Point] : \A k \in keys : c[k] \in Collected(scope, k)}

OfScope(scope) == {i \in DOMAIN versions : InScope(versions[i].scope, scope)}
Active(scope) == {i \in OfScope(scope) : versions[i].status = "ACTIVE"}

(* 0 for none; get_active_config_version takes the newest. *)
Newest(rows) == IF rows = {} THEN 0 ELSE Max(rows)
Oldest(rows) == IF rows = {} THEN 0 ELSE Min(rows)

(* Slip: the oldest active version is the one to restore. *)
PreviousOldest(scope) == Oldest(Active(scope))
Previous(scope) == Newest(Active(scope))

(* Slips: the last revision is used again; only active versions count. *)
LastRevision(scope) == Max({0} \cup {versions[i].revision : i \in OfScope(scope)})
NextActiveRevision(scope) ==
  1 + Max({0} \cup {versions[i].revision : i \in Active(scope)})

NextRevision(scope) == 1 + Max({0} \cup {versions[i].revision : i \in OfScope(scope)})

Row(t, status) ==
  [scope |-> t.scope, revision |-> t.revision, config |-> t.config, status |-> status]

(* Slip: only the newest active version is superseded. *)
SupersededNewest(scope) ==
  [i \in DOMAIN versions |->
     IF i = Newest(Active(scope)) THEN [versions[i] EXCEPT !.status = "SUPERSEDED"]
     ELSE versions[i]]

Superseded(scope) ==
  [i \in DOMAIN versions |->
     IF i \in Active(scope) THEN [versions[i] EXCEPT !.status = "SUPERSEDED"]
     ELSE versions[i]]

WithStatus(row, status) == [versions EXCEPT ![row].status = status]

StartPublish(s, scope) ==
  /\ At(s, "idle")
  /\ Len(versions) < MaxVersions
  /\ \E c \in Configs(scope) :
       Begin(s, [step |-> "revision", scope |-> scope, config |-> c])
  /\ UNCHANGED <<store, meta, versions, approved, decisions>>

ReadRevision(s) ==
  /\ At(s, "revision")
  /\ Begin(s, [step |-> "publish", scope |-> task[s].scope, config |-> task[s].config,
               revision |-> NextRevision(task[s].scope)])
  /\ UNCHANGED <<store, meta, versions, approved, decisions>>

(* insert_config_version: nothing is approved in the scope. *)
PublishDraft(s) ==
  /\ At(s, "publish")
  /\ task[s].config = <<>>
  /\ versions' = Append(versions, Row(task[s], "DRAFT"))
  /\ Return(s)
  /\ UNCHANGED <<store, meta, approved, decisions>>

(* publish_active_config_version of SQLite: one transaction. *)
PublishActive(s) ==
  /\ At(s, "publish")
  /\ task[s].config # <<>> /\ store = "sqlite"
  /\ versions' = Append(Superseded(task[s].scope), Row(task[s], "ACTIVE"))
  /\ Return(s)
  /\ UNCHANGED <<store, meta, approved, decisions>>

(* publish_active_config_version of PostgREST: get the version to restore, *)
(* insert a draft, supersede, activate.                                    *)
FindPrevious(s) ==
  /\ At(s, "publish")
  /\ task[s].config # <<>> /\ store = "postgrest"
  /\ Begin(s, [step |-> "insert", scope |-> task[s].scope, config |-> task[s].config,
               revision |-> task[s].revision, prev |-> Previous(task[s].scope)])
  /\ UNCHANGED <<store, meta, versions, approved, decisions>>

InsertDraft(s) ==
  /\ At(s, "insert")
  /\ versions' = Append(versions, Row(task[s], "DRAFT"))
  /\ Begin(s, [step |-> "supersede", scope |-> task[s].scope, row |-> Len(versions) + 1,
               prev |-> task[s].prev])
  /\ UNCHANGED <<store, meta, approved, decisions>>

Supersede(s) ==
  /\ At(s, "supersede")
  /\ versions' = Superseded(task[s].scope)
  /\ Begin(s, [task[s] EXCEPT !.step = "activate"])
  /\ UNCHANGED <<store, meta, approved, decisions>>

Activate(s) ==
  /\ At(s, "activate")
  /\ versions' = WithStatus(task[s].row, "ACTIVE")
  /\ Return(s)
  /\ UNCHANGED <<store, meta, approved, decisions>>

(* The except clause: the version found at the start is made active again. *)
Restore(s) ==
  /\ At(s, "restore")
  /\ versions' = IF task[s].prev = 0 THEN versions ELSE WithStatus(task[s].prev, "ACTIVE")
  /\ Return(s)
  /\ UNCHANGED <<store, meta, approved, decisions>>

(***************************************************************************)
(* A read that raises ends the publish; so does the insert.  Supersede and *)
(* activate go on to restore; when restore raises too, that is swallowed.  *)
(***************************************************************************)
PublishRaises(s) ==
  /\ \/ /\ task[s].step \in {"revision", "publish"}
        /\ \/ versions' = versions
           \/ /\ At(s, "publish") /\ MayTakeEffect /\ task[s].config = <<>>
              /\ versions' = Append(versions, Row(task[s], "DRAFT"))
        /\ Return(s)
     \/ /\ At(s, "insert")
        /\ versions' \in {versions, Append(versions, Row(task[s], "DRAFT"))}
        /\ Return(s)
     \/ /\ At(s, "supersede")
        /\ versions' \in {versions, Superseded(task[s].scope)}
        /\ Begin(s, [step |-> "restore", prev |-> task[s].prev])
     \/ /\ At(s, "activate")
        /\ versions' \in {versions, WithStatus(task[s].row, "ACTIVE")}
        /\ Begin(s, [step |-> "restore", prev |-> task[s].prev])
     \/ /\ At(s, "restore")
        /\ versions' = versions
        /\ Return(s)
  /\ UNCHANGED <<store, meta, approved, decisions>>

-----------------------------------------------------------------------------
(* The process dies. *)
Crash(s) ==
  /\ ~ At(s, "idle")
  /\ Return(s)
  /\ UNCHANGED <<store, meta, versions, approved, decisions>>

Serve(s) ==
  \/ Update(s) \/ Record(s)
  \/ \E p \in Point : Discover(s, p)
  \/ ReadRevision(s) \/ PublishDraft(s) \/ PublishActive(s)
  \/ FindPrevious(s) \/ InsertDraft(s) \/ Supersede(s) \/ Activate(s) \/ Restore(s)

Fault(s) ==
  \/ DecisionRaises(s) \/ PublishRaises(s) \/ Crash(s)
  \/ \E p \in Point : DiscoverRaises(s, p)

Request(s) ==
  \/ \E p \in Point, m \in Meta : Decide(s, p, m)
  \/ \E scope \in Scope : StartPublish(s, scope)

Next ==
  \E s \in Server :
    \/ Request(s) \/ Serve(s) \/ Fault(s)
    \/ \E points \in SUBSET Point : BeginDiscovery(s, points)

Spec == Init /\ [][Next]_vars

-----------------------------------------------------------------------------
(* Types of the tables and of the handlers' places. *)
ConfigTypeOK ==
  /\ store \in Stores
  /\ meta \in [Point -> Meta]
  /\ versions \in Seq(Version)
  /\ task \in [Server -> Task]
  /\ approved \subseteq Key \X Point
  /\ decisions \in 0..MaxDecisions

(***************************************************************************)
(* Over SQLite a scope never has two active versions, however publishes of *)
(* gateways and of the whole building alternate.                           *)
(***************************************************************************)
OneActive ==
  store = "sqlite" =>
    \A i, j \in DOMAIN versions :
      (/\ versions[i].status = "ACTIVE" /\ versions[j].status = "ACTIVE"
       /\ versions[i].scope = versions[j].scope) => i = j

(***************************************************************************)
(* The rollback of a failed publish never brings back a configuration over *)
(* a newer one of its scope that had been in force: no version is active   *)
(* while a later one of the same scope is already superseded.              *)
(***************************************************************************)
NoneReactivated ==
  \A i, j \in DOMAIN versions :
    (/\ i < j /\ versions[i].scope = versions[j].scope
     /\ versions[j].status = "SUPERSEDED") => versions[i].status # "ACTIVE"

(***************************************************************************)
(* Revisions identify the versions of a scope and grow with them, drafts   *)
(* and failed publishes included.                                          *)
(***************************************************************************)
RevisionsGrow ==
  \A i, j \in DOMAIN versions :
    (i < j /\ versions[i].scope = versions[j].scope) =>
      versions[i].revision < versions[j].revision

(* An engineer once approved the point of every key. *)
WasApproved(config) == \A k \in DOMAIN config : <<k, config[k]>> \in approved

(***************************************************************************)
(* Whatever a version collects an engineer once approved: no rejection,    *)
(* edit, revert or rediscovery turns into a collected point.               *)
(***************************************************************************)
PublishedWasApproved == \A i \in DOMAIN versions : WasApproved(versions[i].config)

-----------------------------------------------------------------------------
(* The inductive invariant: what the approvals in the registry and in the  *)
(* hands of a handler rest on, and how far revisions can have got.         *)
RegistryApproved ==
  \A p \in Point : meta[p].status = "APPROVED" => <<meta[p].key, p>> \in approved

TaskSound(t) ==
  /\ t.step = "update" /\ t.meta.status = "APPROVED" => t.meta.key \in Key
  /\ t.step \in {"revision", "publish", "insert"} => WasApproved(t.config)
  /\ t.step \in {"publish", "insert"} => t.revision <= Len(versions) + 1
  /\ store = "sqlite" => t.step \notin {"insert", "supersede", "activate", "restore"}

VersionsSound ==
  /\ PublishedWasApproved /\ OneActive
  /\ \A i \in DOMAIN versions : versions[i].revision <= i

IInv ==
  /\ ConfigTypeOK /\ RegistryApproved /\ VersionsSound
  /\ \A s \in Server : TaskSound(task[s])

(***************************************************************************)
(* With one server process nothing happens to the versions between two     *)
(* steps of a publish: the revision it has read is above those of its      *)
(* scope, and the version it would restore is followed by drafts only, or  *)
(* by the one that was to replace it.                                      *)
(***************************************************************************)
TaskAhead(t) ==
  t.step \in {"publish", "insert"} =>
    \A i \in OfScope(t.scope) : versions[i].revision < t.revision

RestoreSafe(t) ==
  t.step \in {"insert", "supersede", "activate", "restore"} /\ t.prev # 0 =>
    /\ t.prev \in DOMAIN versions
    /\ \A j \in DOMAIN versions :
         j > t.prev /\ versions[j].scope = versions[t.prev].scope =>
           \/ versions[j].status = "DRAFT"
           \/ versions[j].status = "ACTIVE" /\ t.step = "restore"

RowIsLast(t) == t.step \in {"supersede", "activate"} => t.row = Len(versions)

IInvAlone ==
  /\ IInv /\ RevisionsGrow /\ NoneReactivated
  /\ \A s \in Server : TaskAhead(task[s]) /\ RestoreSafe(task[s]) /\ RowIsLast(task[s])
=============================================================================
