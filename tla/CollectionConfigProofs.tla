----------------------- MODULE CollectionConfigProofs -----------------------
(***************************************************************************)
(* Theorems about CollectionConfig, for any number of servers, gateways,   *)
(* points and keys and over both stores.                                   *)
(*                                                                         *)
(* Every action gives one server a new task and leaves the tables sound,   *)
(* which is all the invariant needs (Preserved); the rest is to show it of *)
(* each action.                                                            *)
(***************************************************************************)
EXTENDS CollectionConfig, TLAPS, WellFoundedInduction

(* A set of naturals has a least member. *)
LEMMA LeastExists ==
  ASSUME NEW N \in SUBSET Nat, N # {}
  PROVE  \E m \in N : \A n \in N : m <= n
<1>1. IsWellFoundedOn(OpToRel(<, Nat), Nat)
  BY NatLessThanWellFounded
<1>2. PICK m \in N : \A n \in N : ~ (<<n, m>> \in OpToRel(<, Nat))
  BY <1>1, WFMin, Zenon
<1>3. ASSUME NEW n \in N PROVE m <= n
  <2>1. n < m => <<n, m>> \in OpToRel(<, Nat)
    BY DEF OpToRel
  <2>2. ~ (n < m)
    BY <1>2, <2>1
  <2> QED
    BY <2>2
<1> QED
  BY <1>3

(***************************************************************************)
(* Max is the maximum of a bounded set: the least of its upper bounds is   *)
(* one of its members.                                                     *)
(***************************************************************************)
LEMMA MaxBounded ==
  ASSUME NEW hi \in Nat, NEW S \in SUBSET (0..hi), S # {}
  PROVE  Max(S) \in S /\ \A x \in S : x <= Max(S)
<1> DEFINE Bounds == {n \in Nat : \A x \in S : x <= n}
<1>1. hi \in Bounds /\ Bounds \subseteq Nat
  OBVIOUS
<1>2. PICK b \in Bounds : \A n \in Bounds : b <= n
  BY <1>1, LeastExists
<1>3. b \in S
  <2>1. SUFFICES ASSUME b \notin S PROVE FALSE
    OBVIOUS
  <2>2. \A x \in S : x < b
    BY <2>1
  <2>3. b # 0
    <3>1. PICK x : x \in S
      OBVIOUS
    <3>2. x \in 0..hi
      BY <3>1
    <3> QED
      BY <3>1, <3>2, <2>2
  <2>4. b - 1 \in Bounds
    BY <2>2, <2>3
  <2> QED
    BY <2>4, <1>2
<1>4. \A x \in S : b >= x
  OBVIOUS
<1>5. Max(S) \in S /\ \A x \in S : Max(S) >= x
  BY <1>3, <1>4, Zenon DEF Max
<1>6. S \subseteq Nat
  OBVIOUS
<1> QED
  BY <1>5, <1>6

(* Rows of a scope are rows of the table. *)
LEMMA RowsOfScope ==
  ASSUME versions \in Seq(Version), NEW scope
  PROVE  /\ OfScope(scope) \subseteq 1..Len(versions)
         /\ Active(scope) \subseteq 1..Len(versions)
BY DEF OfScope, Active

(* Previous names a row, or none. *)
LEMMA PreviousType ==
  ASSUME versions \in Seq(Version), NEW scope
  PROVE  Previous(scope) \in 0..Len(versions)
<1>1. CASE Active(scope) = {}
  BY <1>1 DEF Previous, Newest
<1>2. CASE Active(scope) # {}
  <2>1. Active(scope) \in SUBSET (0..Len(versions)) /\ Len(versions) \in Nat
    BY RowsOfScope
  <2>2. Max(Active(scope)) \in Active(scope)
    BY <1>2, <2>1, MaxBounded
  <2> QED
    BY <1>2, <2>1, <2>2 DEF Previous, Newest
<1> QED
  BY <1>1, <1>2

(* A new revision is above those of its scope and not far above the table. *)
LEMMA RevisionType ==
  ASSUME versions \in Seq(Version), VersionsSound, NEW scope
  PROVE  /\ NextRevision(scope) \in Nat \ {0}
         /\ NextRevision(scope) <= Len(versions) + 1
         /\ \A i \in OfScope(scope) : versions[i].revision < NextRevision(scope)
<1> DEFINE Revisions == {0} \cup {versions[i].revision : i \in OfScope(scope)}
<1>1. \A i \in OfScope(scope) : /\ i \in 1..Len(versions)
                                /\ versions[i].revision \in Nat
                                /\ versions[i].revision <= i
  <2>1. \A i \in OfScope(scope) : i \in 1..Len(versions)
    BY RowsOfScope
  <2>2. \A i \in 1..Len(versions) : versions[i] \in Version
    OBVIOUS
  <2>3. \A i \in 1..Len(versions) : versions[i].revision <= i
    BY DEF VersionsSound
  <2> QED
    BY <2>1, <2>2, <2>3 DEF Version
<1>2. Revisions \in SUBSET (0..Len(versions)) /\ Revisions # {} /\ Len(versions) \in Nat
  BY <1>1
<1>3. Max(Revisions) \in Revisions /\ \A x \in Revisions : x <= Max(Revisions)
  BY <1>2, MaxBounded
<1>4. NextRevision(scope) = 1 + Max(Revisions)
  BY DEF NextRevision
<1>5. Max(Revisions) \in 0..Len(versions)
  BY <1>2, <1>3
<1>6. \A i \in OfScope(scope) : versions[i].revision <= Max(Revisions)
  BY <1>3
<1> HIDE DEF Revisions
<1>7. NextRevision(scope) \in Nat \ {0} /\ NextRevision(scope) <= Len(versions) + 1
  BY <1>2, <1>4, <1>5
<1> QED
  BY <1>1, <1>4, <1>5, <1>6, <1>7

-----------------------------------------------------------------------------
(* The place of a task says which record it is. *)
LEMMA TaskFields ==
  ASSUME NEW t \in Task
  PROVE  /\ t.step = "update" => t.point \in Point /\ t.meta \in Meta
         /\ t.step = "discover" => t.todo \in SUBSET Point
         /\ t.step \in {"revision", "publish", "insert"} =>
              t.scope \in Scope /\ t.config \in Config
         /\ t.step \in {"publish", "insert"} => t.revision \in Nat \ {0}
         /\ t.step = "insert" => t.prev \in Nat
         /\ t.step \in {"supersede", "activate"} =>
              t.scope \in Scope /\ t.row \in Nat /\ t.prev \in Nat
         /\ t.step = "restore" => t.prev \in Nat
BY DEF Task, Idle

(* Idle is a task, and a sound one. *)
LEMMA IdleTask == Idle \in Task /\ TaskSound(Idle)
BY DEF Task, Idle, TaskSound

(***************************************************************************)
(* What every step preserves: a server goes on with a sound task, nothing  *)
(* leaves the tables, and what they gain is sound.                         *)
(***************************************************************************)
LEMMA Preserved ==
  ASSUME IInv, NEW s \in Server, NEW t \in Task, Begin(s, t), TaskSound(t)',
         store' = store, approved \subseteq approved', approved' \subseteq Key \X Point,
         meta' \in [Point -> Meta], RegistryApproved',
         versions' \in Seq(Version), Len(versions) <= Len(versions'), VersionsSound',
         decisions' \in 0..MaxDecisions
  PROVE  IInv'
<1>1. task' \in [Server -> Task] /\ \A r \in Server : task'[r] = IF r = s THEN t ELSE task[r]
  BY DEF IInv, ConfigTypeOK, Begin
<1>2. ConfigTypeOK'
  BY <1>1 DEF IInv, ConfigTypeOK
<1>3. ASSUME NEW r \in Server PROVE TaskSound(task[r])'
  <2>1. CASE r = s
    <3>1. task'[r] = t
      BY <1>1, <2>1
    <3> QED
      BY <3>1 DEF TaskSound, WasApproved
  <2>2. CASE r # s
    <3>1. task'[r] = task[r] /\ task[r] \in Task /\ TaskSound(task[r])
      BY <1>1, <2>2 DEF IInv, ConfigTypeOK
    <3>2. Len(versions) \in Nat /\ Len(versions') \in Nat
      BY DEF IInv, ConfigTypeOK
    <3>3. task[r].step \in {"publish", "insert"} => task[r].revision \in Nat
      BY <3>1, TaskFields
    <3> QED
      BY <3>1, <3>2, <3>3 DEF TaskSound, WasApproved
  <2> QED
    BY <2>1, <2>2
<1> QED
  BY <1>2, <1>3 DEF IInv

(* The same for a step that leaves the tables alone. *)
LEMMA TablesUntouched ==
  ASSUME IInv, NEW s \in Server, NEW t \in Task, Begin(s, t), TaskSound(t),
         UNCHANGED <<store, meta, versions, approved>>, decisions' \in 0..MaxDecisions
  PROVE  IInv'
<1>1. TaskSound(t)' /\ RegistryApproved' /\ VersionsSound'
  BY DEF IInv, TaskSound, WasApproved, RegistryApproved, VersionsSound, OneActive,
         PublishedWasApproved
<1>2. /\ approved' \subseteq Key \X Point /\ meta' \in [Point -> Meta]
      /\ versions' \in Seq(Version) /\ Len(versions) <= Len(versions')
      /\ store' = store /\ approved \subseteq approved'
  BY DEF IInv, ConfigTypeOK
<1> QED
  BY <1>1, <1>2, Preserved

(* A handler that returns leaves no task to be sound. *)
LEMMA Returns ==
  ASSUME IInv, NEW s \in Server, Return(s),
         UNCHANGED <<store, meta, versions, approved, decisions>>
  PROVE  IInv'
<1>1. PICK t : t = Idle
  OBVIOUS
<1>2. t \in Task /\ TaskSound(t) /\ Begin(s, t)
  BY <1>1, IdleTask DEF Return
<1>3. decisions' \in 0..MaxDecisions
  BY DEF IInv, ConfigTypeOK
<1> QED
  BY <1>2, <1>3, TablesUntouched

-----------------------------------------------------------------------------
(* Decisions: an approval names a key, so it can be entered as one. *)
LEMMA DecideSound ==
  ASSUME IInv, NEW s \in Server, NEW p \in Point, NEW m \in Meta, Decide(s, p, m)
  PROVE  IInv'
<1>1. PICK t : t = [step |-> "update", point |-> p, meta |-> m]
  OBVIOUS
<1>2. t \in Task /\ Begin(s, t)
  BY <1>1 DEF Task, Decide
<1>3. m.status = "APPROVED" => m.key \in Key
  BY DEF Decide, Outcomes, Approve, Reject, Revert, Edit, Meta, IInv, ConfigTypeOK
<1>4. TaskSound(t)
  BY <1>1, <1>3 DEF TaskSound
<1>5. decisions' \in 0..MaxDecisions
  BY ConfigAssumption DEF Decide, IInv, ConfigTypeOK
<1> QED
  BY <1>2, <1>4, <1>5, TablesUntouched DEF Decide

(* Storing the metadata of a decision keeps the registry's approvals entered. *)
LEMMA StoreMetaSound ==
  ASSUME IInv, NEW p \in Point, NEW m \in Meta, StoreMeta(p, m),
         m.status = "APPROVED" => m.key \in Key
  PROVE  /\ meta' \in [Point -> Meta] /\ RegistryApproved'
         /\ approved \subseteq approved' /\ approved' \subseteq Key \X Point
<1>1. meta' \in [Point -> Meta] /\ \A q \in Point : meta'[q] = IF q = p THEN m ELSE meta[q]
  BY DEF IInv, ConfigTypeOK, StoreMeta
<1>2. approved \subseteq approved' /\ approved' \subseteq Key \X Point
  BY DEF IInv, ConfigTypeOK, StoreMeta
<1>3. RegistryApproved'
  BY <1>1, <1>2 DEF IInv, StoreMeta, RegistryApproved
<1> QED
  BY <1>1, <1>2, <1>3

(* What was approved stays so, and so do the versions that rest on it. *)
LEMMA MoreApprovals ==
  ASSUME IInv, approved \subseteq approved', UNCHANGED <<store, versions>>
  PROVE  VersionsSound' /\ versions' \in Seq(Version) /\ Len(versions) <= Len(versions')
<1>1. PublishedWasApproved'
  BY DEF IInv, VersionsSound, PublishedWasApproved, WasApproved
<1>2. OneActive' /\ \A i \in DOMAIN versions' : versions'[i].revision <= i
  BY DEF IInv, VersionsSound, OneActive
<1>3. versions' \in Seq(Version) /\ Len(versions) <= Len(versions')
  BY DEF IInv, ConfigTypeOK
<1> QED
  BY <1>1, <1>2, <1>3 DEF VersionsSound

(* A decision that is stored, whatever becomes of the handler. *)
LEMMA DecisionStored ==
  ASSUME IInv, NEW s \in Server, At(s, "update"), StoreMeta(task[s].point, task[s].meta),
         NEW t \in Task, t.step \in {"audit", "idle"}, Begin(s, t),
         UNCHANGED <<store, versions, decisions>>
  PROVE  IInv'
<1>1. task[s] \in Task /\ TaskSound(task[s]) /\ task[s].step = "update"
  BY DEF IInv, ConfigTypeOK, At
<1>2. PICK p \in Point, m \in Meta : p = task[s].point /\ m = task[s].meta
  BY <1>1, TaskFields
<1>3. m.status = "APPROVED" => m.key \in Key
  BY <1>1, <1>2 DEF TaskSound
<1>4. StoreMeta(p, m)
  BY <1>2
<1>5. /\ meta' \in [Point -> Meta] /\ RegistryApproved'
      /\ approved \subseteq approved' /\ approved' \subseteq Key \X Point
  BY <1>3, <1>4, StoreMetaSound
<1>6. VersionsSound' /\ versions' \in Seq(Version) /\ Len(versions) <= Len(versions')
  BY <1>5, MoreApprovals
<1>7. TaskSound(t)'
  BY DEF TaskSound
<1>8. store' = store /\ decisions' \in 0..MaxDecisions
  BY DEF IInv, ConfigTypeOK
<1> QED
  BY <1>5, <1>6, <1>7, <1>8, Preserved

LEMMA UpdateSound ==
  ASSUME IInv, NEW s \in Server, Update(s)
  PROVE  IInv'
<1>1. PICK t : t = [step |-> "audit"]
  OBVIOUS
<1>2. t \in Task /\ t.step = "audit" /\ Begin(s, t)
  BY <1>1 DEF Task, Update
<1> QED
  BY <1>2, DecisionStored DEF Update

LEMMA DecisionRaisesSound ==
  ASSUME IInv, NEW s \in Server, DecisionRaises(s)
  PROVE  IInv'
<1>1. CASE UNCHANGED <<meta, approved>>
  BY <1>1, Returns DEF DecisionRaises
<1>2. CASE At(s, "update") /\ StoreMeta(task[s].point, task[s].meta)
  <2>1. PICK t : t = Idle
    OBVIOUS
  <2>2. t \in Task /\ t.step = "idle" /\ Begin(s, t)
    BY <2>1, IdleTask DEF DecisionRaises, Return, Idle
  <2> QED
    BY <1>2, <2>2, DecisionStored DEF DecisionRaises
<1> QED
  BY <1>1, <1>2 DEF DecisionRaises

-----------------------------------------------------------------------------
(* Discovery. *)
LEMMA BeginDiscoverySound ==
  ASSUME IInv, NEW s \in Server, NEW points \in SUBSET Point, BeginDiscovery(s, points)
  PROVE  IInv'
<1>1. PICK t : t = [step |-> "discover", todo |-> points]
  OBVIOUS
<1>2. t \in Task /\ TaskSound(t) /\ Begin(s, t)
  BY <1>1 DEF Task, TaskSound, BeginDiscovery
<1>3. decisions' \in 0..MaxDecisions
  BY DEF BeginDiscovery, IInv, ConfigTypeOK
<1> QED
  BY <1>2, <1>3, TablesUntouched DEF BeginDiscovery

(* What is left of a batch is a batch, or the handler returns. *)
LEMMA RestOfBatch ==
  ASSUME IInv, NEW s \in Server, At(s, "discover"), NEW p \in Point,
         IF task[s].todo = {p} THEN Return(s)
         ELSE Begin(s, [task[s] EXCEPT !.todo = @ \ {p}])
  PROVE  \E t \in Task : Begin(s, t) /\ t.step \in {"idle", "discover"}
<1>1. CASE task[s].todo = {p}
  <2>1. Idle \in Task /\ Idle.step = "idle"
    BY DEF Task, Idle
  <2>2. Begin(s, Idle)
    BY <1>1 DEF Return
  <2> QED
    BY <2>1, <2>2
<1>2. CASE task[s].todo # {p}
  <2>1. PICK t : t = [task[s] EXCEPT !.todo = @ \ {p}]
    OBVIOUS
  <2>2. task[s] \in [step : {"discover"}, todo : SUBSET Point]
    BY DEF IInv, ConfigTypeOK, Task, Idle, At
  <2>3. t \in [step : {"discover"}, todo : SUBSET Point]
    BY <2>1, <2>2
  <2>4. t \in Task /\ t.step = "discover"
    BY <2>3 DEF Task
  <2>5. Begin(s, t)
    BY <1>2, <2>1
  <2> QED
    BY <2>4, <2>5
<1> QED
  BY <1>1, <1>2

LEMMA DiscoverSound ==
  ASSUME IInv, NEW s \in Server, NEW p \in Point, Discover(s, p)
  PROVE  IInv'
<1>1. PICK t \in Task : Begin(s, t) /\ t.step \in {"idle", "discover"}
  BY RestOfBatch DEF Discover
<1>2. TaskSound(t)'
  BY <1>1 DEF TaskSound
<1>3. PICK m : m = [status |-> "NEW", key |-> NoKey]
  OBVIOUS
<1>4. m \in Meta /\ m.status # "APPROVED" /\ meta' = [meta EXCEPT ![p] = m]
  BY <1>3 DEF Meta, Discover
<1>5. meta' \in [Point -> Meta]
  BY <1>4 DEF IInv, ConfigTypeOK
<1>6. approved' = approved /\ store' = store /\ versions' = versions
  BY DEF Discover
<1>7. RegistryApproved'
  BY <1>4, <1>6 DEF IInv, ConfigTypeOK, RegistryApproved
<1>8. VersionsSound' /\ versions' \in Seq(Version) /\ Len(versions) <= Len(versions')
  BY <1>6, MoreApprovals
<1>9. approved' \subseteq Key \X Point /\ decisions' \in 0..MaxDecisions
  BY <1>6 DEF IInv, ConfigTypeOK, Discover
<1> QED
  BY <1>1, <1>2, <1>5, <1>6, <1>7, <1>8, <1>9, Preserved

LEMMA DiscoverRaisesSound ==
  ASSUME IInv, NEW s \in Server, NEW p \in Point, DiscoverRaises(s, p)
  PROVE  IInv'
<1>1. PICK t \in Task : Begin(s, t) /\ t.step \in {"idle", "discover"}
  BY RestOfBatch DEF DiscoverRaises
<1>2. TaskSound(t)
  BY <1>1 DEF TaskSound
<1>3. decisions' \in 0..MaxDecisions
  BY DEF DiscoverRaises, IInv, ConfigTypeOK
<1> QED
  BY <1>1, <1>2, <1>3, TablesUntouched DEF DiscoverRaises

-----------------------------------------------------------------------------
(* Publishing: a config is built of approvals only. *)
LEMMA ConfigsApproved ==
  ASSUME IInv, NEW scope, NEW c \in Configs(scope)
  PROVE  c \in Config /\ WasApproved(c)
<1> DEFINE keys == {k \in Key : Collected(scope, k) # {}}
<1>1. c \in [keys -> Point] /\ \A k \in keys : c[k] \in Collected(scope, k)
  BY DEF Configs
<1>2. keys \in SUBSET Key
  OBVIOUS
<1>3. c \in Config
  BY <1>1, <1>2 DEF Config
<1>4. ASSUME NEW k \in DOMAIN c PROVE <<k, c[k]>> \in approved
  <2>1. c[k] \in Point /\ meta[c[k]].status = "APPROVED" /\ meta[c[k]].key = k
    BY <1>1 DEF Collected
  <2> QED
    BY <2>1 DEF IInv, RegistryApproved
<1> QED
  BY <1>3, <1>4 DEF WasApproved

LEMMA StartPublishSound ==
  ASSUME IInv, NEW s \in Server, NEW scope \in Scope, StartPublish(s, scope)
  PROVE  IInv'
<1>1. PICK c \in Configs(scope) :
        Begin(s, [step |-> "revision", scope |-> scope, config |-> c])
  BY DEF StartPublish
<1>2. c \in Config /\ WasApproved(c)
  BY ConfigsApproved
<1>3. PICK t : t = [step |-> "revision", scope |-> scope, config |-> c]
  OBVIOUS
<1>4. t \in Task /\ Begin(s, t)
  BY <1>1, <1>2, <1>3 DEF Task
<1>5. TaskSound(t)
  BY <1>2, <1>3 DEF TaskSound
<1>6. decisions' \in 0..MaxDecisions
  BY DEF StartPublish, IInv, ConfigTypeOK
<1> QED
  BY <1>4, <1>5, <1>6, TablesUntouched DEF StartPublish

LEMMA ReadRevisionSound ==
  ASSUME IInv, NEW s \in Server, ReadRevision(s)
  PROVE  IInv'
<1>1. task[s] \in Task /\ TaskSound(task[s]) /\ task[s].step = "revision"
  BY DEF IInv, ConfigTypeOK, ReadRevision, At
<1>2. PICK scope \in Scope, c \in Config : scope = task[s].scope /\ c = task[s].config
  BY <1>1, TaskFields
<1>3. WasApproved(c)
  BY <1>1, <1>2 DEF TaskSound
<1>4. NextRevision(scope) \in Nat \ {0} /\ NextRevision(scope) <= Len(versions) + 1
  BY RevisionType DEF IInv, ConfigTypeOK
<1>5. PICK r : r = NextRevision(scope)
  OBVIOUS
<1>6. PICK t : t = [step |-> "publish", scope |-> scope, config |-> c, revision |-> r]
  OBVIOUS
<1>7. t \in Task
  BY <1>4, <1>5, <1>6 DEF Task
<1>8. Begin(s, t)
  BY <1>2, <1>5, <1>6 DEF ReadRevision
<1>9. TaskSound(t)
  BY <1>3, <1>4, <1>5, <1>6 DEF TaskSound
<1>10. decisions' \in 0..MaxDecisions
  BY DEF ReadRevision, IInv, ConfigTypeOK
<1> QED
  BY <1>7, <1>8, <1>9, <1>10, TablesUntouched DEF ReadRevision

LEMMA FindPreviousSound ==
  ASSUME IInv, NEW s \in Server, FindPrevious(s)
  PROVE  IInv'
<1>1. task[s] \in Task /\ TaskSound(task[s]) /\ task[s].step = "publish"
  BY DEF IInv, ConfigTypeOK, FindPrevious, At
<1>2. PICK scope \in Scope, c \in Config, r \in Nat \ {0} :
        scope = task[s].scope /\ c = task[s].config /\ r = task[s].revision
  BY <1>1, TaskFields
<1>3. PICK v \in Nat : v = Previous(scope)
  BY PreviousType DEF IInv, ConfigTypeOK
<1>4. PICK t : t = [step |-> "insert", scope |-> scope, config |-> c, revision |-> r,
                    prev |-> v]
  OBVIOUS
<1>5. t \in Task
  BY <1>4 DEF Task
<1>6. Begin(s, t)
  BY <1>2, <1>3, <1>4 DEF FindPrevious
<1>7. TaskSound(t)
  BY <1>1, <1>2, <1>4 DEF TaskSound, FindPrevious
<1>8. decisions' \in 0..MaxDecisions
  BY DEF FindPrevious, IInv, ConfigTypeOK
<1> QED
  BY <1>5, <1>6, <1>7, <1>8, TablesUntouched DEF FindPrevious

-----------------------------------------------------------------------------
(* The table with other statuses. *)
Relabelled(table) ==
  /\ table \in Seq(Version) /\ Len(table) = Len(versions)
  /\ \A i \in 1..Len(versions) : /\ table[i].scope = versions[i].scope
                                  /\ table[i].revision = versions[i].revision
                                  /\ table[i].config = versions[i].config

(* Supersede, activate and restore change statuses only. *)
LEMMA SupersededRelabels ==
  ASSUME versions \in Seq(Version), NEW scope
  PROVE  Relabelled(Superseded(scope))
<1>1. PICK table : table = Superseded(scope)
  OBVIOUS
<1>2. DOMAIN table = 1..Len(versions)
  BY <1>1 DEF Superseded
<1>3. ASSUME NEW i \in 1..Len(versions)
      PROVE  /\ table[i] \in Version /\ table[i].scope = versions[i].scope
             /\ table[i].revision = versions[i].revision
             /\ table[i].config = versions[i].config
  <2>1. versions[i] \in Version
    OBVIOUS
  <2>2. table[i] \in {versions[i], [versions[i] EXCEPT !.status = "SUPERSEDED"]}
    BY <1>1 DEF Superseded
  <2> QED
    BY <2>1, <2>2 DEF Version
<1>4. table \in Seq(Version) /\ Len(table) = Len(versions)
  <2>1. Len(versions) \in Nat /\ table = [i \in 1..Len(versions) |-> table[i]]
    BY <1>1, <1>2 DEF Superseded
  <2>2. table \in [1..Len(versions) -> Version]
    BY <1>2, <1>3, <2>1
  <2> QED
    BY <1>2, <2>1, <2>2
<1> QED
  BY <1>1, <1>3, <1>4 DEF Relabelled

LEMMA WithStatusRelabels ==
  ASSUME versions \in Seq(Version), NEW row, NEW status \in {"DRAFT", "ACTIVE", "SUPERSEDED"}
  PROVE  Relabelled(WithStatus(row, status))
<1>1. PICK table : table = WithStatus(row, status)
  OBVIOUS
<1>2. DOMAIN table = 1..Len(versions)
  BY <1>1 DEF WithStatus
<1>3. ASSUME NEW i \in 1..Len(versions)
      PROVE  /\ table[i] \in Version /\ table[i].scope = versions[i].scope
             /\ table[i].revision = versions[i].revision
             /\ table[i].config = versions[i].config
  <2>1. versions[i] \in Version
    OBVIOUS
  <2>2. table[i] \in {versions[i], [versions[i] EXCEPT !.status = status]}
    BY <1>1 DEF WithStatus
  <2> QED
    BY <2>1, <2>2 DEF Version
<1>4. table \in Seq(Version) /\ Len(table) = Len(versions)
  <2>1. Len(versions) \in Nat /\ versions \in [1..Len(versions) -> Version]
    OBVIOUS
  <2>2. table \in [1..Len(versions) -> Version]
    <3>1. CASE row \in 1..Len(versions)
      <4>1. PICK v : v = [versions[row] EXCEPT !.status = status]
        OBVIOUS
      <4>2. v \in Version
        BY <2>1, <3>1, <4>1 DEF Version
      <4>3. table = [versions EXCEPT ![row] = v]
        BY <1>1, <4>1 DEF WithStatus
      <4> QED
        BY <2>1, <4>2, <4>3
    <3>2. CASE row \notin 1..Len(versions)
      <4>1. table = [versions EXCEPT ![row] = [versions[row] EXCEPT !.status = status]]
        BY <1>1 DEF WithStatus
      <4>2. table = versions
        BY <2>1, <3>2, <4>1
      <4> QED
        BY <2>1, <4>2
    <3> QED
      BY <3>1, <3>2
  <2> QED
    BY <1>2, <2>1, <2>2
<1> QED
  BY <1>1, <1>3, <1>4 DEF Relabelled

LEMMA SameRelabels ==
  ASSUME versions \in Seq(Version)
  PROVE  Relabelled(versions)
BY DEF Relabelled

(***************************************************************************)
(* A step of a publish that leaves other statuses, or appends a version    *)
(* besides: the table stays sound if, over SQLite, one active version is   *)
(* still all a scope has.                                                  *)
(***************************************************************************)
LEMMA RelabelledSound ==
  ASSUME IInv, UNCHANGED <<store, approved>>, Relabelled(versions'), OneActive'
  PROVE  VersionsSound' /\ versions' \in Seq(Version) /\ Len(versions) <= Len(versions')
<1>1. /\ versions' \in Seq(Version) /\ Len(versions') = Len(versions)
      /\ versions \in Seq(Version) /\ Len(versions) \in Nat
      /\ \A i \in 1..Len(versions) : /\ versions'[i].revision = versions[i].revision
                                      /\ versions'[i].config = versions[i].config
  BY DEF Relabelled, IInv, ConfigTypeOK
<1>2. PublishedWasApproved'
  BY <1>1 DEF IInv, VersionsSound, PublishedWasApproved, WasApproved
<1>3. \A i \in DOMAIN versions' : versions'[i].revision <= i
  BY <1>1 DEF IInv, VersionsSound
<1> QED
  BY <1>1, <1>2, <1>3 DEF VersionsSound

LEMMA AppendedSound ==
  ASSUME IInv, UNCHANGED <<store, approved>>, NEW table, Relabelled(table),
         NEW row \in Version, row.revision <= Len(versions) + 1, WasApproved(row.config),
         versions' = Append(table, row), OneActive'
  PROVE  VersionsSound' /\ versions' \in Seq(Version) /\ Len(versions) <= Len(versions')
<1>1. /\ table \in Seq(Version) /\ Len(table) = Len(versions)
      /\ versions \in Seq(Version) /\ Len(versions) \in Nat
      /\ \A i \in 1..Len(versions) : /\ table[i].revision = versions[i].revision
                                      /\ table[i].config = versions[i].config
  BY DEF Relabelled, IInv, ConfigTypeOK
<1>2. versions' \in Seq(Version) /\ Len(versions') = Len(versions) + 1
  BY <1>1
<1>3. ASSUME NEW i \in DOMAIN versions'
      PROVE  /\ i \in 1..Len(versions) => versions'[i] = table[i]
             /\ i \notin 1..Len(versions) => i = Len(versions) + 1 /\ versions'[i] = row
  BY <1>1, <1>2
<1>4. ASSUME NEW i \in DOMAIN versions'
      PROVE  versions'[i].revision <= i /\ WasApproved(versions'[i].config)
  <2>1. CASE i \in 1..Len(versions)
    BY <1>1, <1>3, <2>1 DEF IInv, VersionsSound, PublishedWasApproved
  <2>2. CASE i \notin 1..Len(versions)
    BY <1>3, <2>2
  <2> QED
    BY <2>1, <2>2
<1>5. PublishedWasApproved'
  BY <1>4 DEF PublishedWasApproved, WasApproved
<1> QED
  BY <1>1, <1>2, <1>4, <1>5 DEF VersionsSound

(* A publish goes on, or returns, with a table that is sound. *)
LEMMA Publishes ==
  ASSUME IInv, NEW s \in Server, NEW t \in Task, Begin(s, t),
         t.step \in {"idle", "supersede", "activate", "restore"},
         store = "sqlite" => t.step = "idle",
         UNCHANGED <<store, meta, approved, decisions>>,
         VersionsSound', versions' \in Seq(Version), Len(versions) <= Len(versions')
  PROVE  IInv'
<1>1. TaskSound(t)'
  BY DEF TaskSound
<1>2. /\ store' = store /\ approved \subseteq approved' /\ approved' \subseteq Key \X Point
      /\ meta' \in [Point -> Meta] /\ decisions' \in 0..MaxDecisions /\ RegistryApproved'
  BY DEF IInv, ConfigTypeOK, RegistryApproved
<1> QED
  BY <1>1, <1>2, Preserved

(* Appending a draft. *)
LEMMA DraftSound ==
  ASSUME IInv, NEW s \in Server, task[s].step \in {"publish", "insert"},
         versions' = Append(versions, Row(task[s], "DRAFT")), UNCHANGED <<store, approved>>
  PROVE  VersionsSound' /\ versions' \in Seq(Version) /\ Len(versions) <= Len(versions')
<1>1. task[s] \in Task /\ TaskSound(task[s]) /\ versions \in Seq(Version)
  BY DEF IInv, ConfigTypeOK
<1>2. PICK row : row = Row(task[s], "DRAFT")
  OBVIOUS
<1>3. row \in Version /\ row.status = "DRAFT"
  BY <1>1, <1>2, TaskFields DEF Row, Version
<1>4. row.revision <= Len(versions) + 1 /\ WasApproved(row.config)
  BY <1>1, <1>2 DEF TaskSound, Row
<1>5. OneActive'
  <2>1. \A i \in DOMAIN versions' : versions'[i].status = "ACTIVE" =>
          i \in DOMAIN versions /\ versions'[i] = versions[i]
    BY <1>1, <1>2, <1>3
  <2> QED
    BY <2>1 DEF IInv, VersionsSound, OneActive
<1>6. versions' = Append(versions, row) /\ Relabelled(versions)
  BY <1>1, <1>2, SameRelabels
<1> QED
  BY <1>3, <1>4, <1>5, <1>6, AppendedSound

(* Over PostgREST no number of active versions is promised. *)
LEMMA RelabelledElsewhere ==
  ASSUME IInv, store # "sqlite", UNCHANGED <<store, approved>>, Relabelled(versions')
  PROVE  VersionsSound' /\ versions' \in Seq(Version) /\ Len(versions) <= Len(versions')
<1>1. OneActive'
  BY DEF OneActive
<1> QED
  BY <1>1, RelabelledSound

LEMMA PublishDraftSound ==
  ASSUME IInv, NEW s \in Server, PublishDraft(s)
  PROVE  IInv'
<1>1. PICK t : t = Idle
  OBVIOUS
<1>2. t \in Task /\ t.step = "idle" /\ Begin(s, t)
  BY <1>1, IdleTask DEF PublishDraft, Return, Idle
<1>3. VersionsSound' /\ versions' \in Seq(Version) /\ Len(versions) <= Len(versions')
  BY DraftSound DEF PublishDraft, At
<1> QED
  BY <1>2, <1>3, Publishes DEF PublishDraft

(* The transaction of SQLite: the only active version of its scope is the new one. *)
LEMMA PublishActiveSound ==
  ASSUME IInv, NEW s \in Server, PublishActive(s)
  PROVE  IInv'
<1>1. task[s] \in Task /\ TaskSound(task[s]) /\ task[s].step = "publish"
  BY DEF IInv, ConfigTypeOK, PublishActive, At
<1>2. PICK row : row = Row(task[s], "ACTIVE")
  OBVIOUS
<1>3. row \in Version /\ row.scope = task[s].scope
  BY <1>1, <1>2, TaskFields DEF Row, Version
<1>4. row.revision <= Len(versions) + 1 /\ WasApproved(row.config)
  BY <1>1, <1>2 DEF TaskSound, Row
<1>5. PICK table : table = Superseded(task[s].scope)
  OBVIOUS
<1>6. Relabelled(table) /\ versions \in Seq(Version)
  BY <1>5, SupersededRelabels DEF IInv, ConfigTypeOK
<1>7. versions' = Append(table, row) /\ UNCHANGED <<store, approved>>
  BY <1>2, <1>5 DEF PublishActive
<1>8. ASSUME NEW i \in DOMAIN versions', versions'[i].status = "ACTIVE"
      PROVE  \/ i = Len(versions) + 1 /\ versions'[i].scope = task[s].scope
             \/ /\ i \in DOMAIN versions /\ versions[i].status = "ACTIVE"
                /\ versions'[i].scope = versions[i].scope
                /\ versions[i].scope # task[s].scope
  <2>1. CASE i = Len(versions) + 1
    BY <1>3, <1>6, <1>7, <2>1 DEF Relabelled
  <2>2. CASE i # Len(versions) + 1
    <3>1. i \in 1..Len(versions) /\ versions'[i] = table[i]
      BY <1>6, <1>7, <2>2 DEF Relabelled
    <3>2. versions[i] \in Version
      BY <1>6, <3>1
    <3>3. table[i].status = "ACTIVE"
      BY <1>8, <3>1
    <3>4. i \notin Active(task[s].scope) /\ table[i] = versions[i]
      BY <1>5, <3>1, <3>2, <3>3 DEF Superseded, Version
    <3>5. versions[i].scope # task[s].scope
      BY <3>1, <3>3, <3>4 DEF Active, OfScope, InScope
    <3> QED
      BY <3>1, <3>3, <3>4, <3>5
  <2> QED
    BY <2>1, <2>2
<1>9. OneActive'
  BY <1>8 DEF IInv, VersionsSound, OneActive, PublishActive
<1>10. VersionsSound' /\ versions' \in Seq(Version) /\ Len(versions) <= Len(versions')
  BY <1>3, <1>4, <1>6, <1>7, <1>9, AppendedSound
<1>11. PICK t : t = Idle
  OBVIOUS
<1>12. t \in Task /\ t.step = "idle" /\ Begin(s, t)
  BY <1>11, IdleTask DEF PublishActive, Return, Idle
<1> QED
  BY <1>10, <1>12, Publishes DEF PublishActive

-----------------------------------------------------------------------------
(* The requests to PostgREST. *)
LEMMA NotSQLite ==
  ASSUME IInv, NEW s \in Server,
         task[s].step \in {"insert", "supersede", "activate", "restore"}
  PROVE  store # "sqlite" /\ task[s] \in Task
BY DEF IInv, ConfigTypeOK, TaskSound

LEMMA InsertDraftSound ==
  ASSUME IInv, NEW s \in Server, InsertDraft(s)
  PROVE  IInv'
<1>1. store # "sqlite" /\ task[s] \in Task /\ task[s].step = "insert"
  BY NotSQLite DEF InsertDraft, At
<1>2. PICK scope \in Scope, v \in Nat : scope = task[s].scope /\ v = task[s].prev
  BY <1>1, TaskFields
<1>3. PICK n \in Nat : n = Len(versions) + 1
  BY DEF IInv, ConfigTypeOK
<1>4. PICK t : t = [step |-> "supersede", scope |-> scope, row |-> n, prev |-> v]
  OBVIOUS
<1>5. t \in Task /\ t.step = "supersede"
  BY <1>4 DEF Task
<1>6. Begin(s, t)
  BY <1>2, <1>3, <1>4 DEF InsertDraft
<1>7. VersionsSound' /\ versions' \in Seq(Version) /\ Len(versions) <= Len(versions')
  BY <1>1, DraftSound DEF InsertDraft
<1> QED
  BY <1>1, <1>5, <1>6, <1>7, Publishes DEF InsertDraft

LEMMA SupersedeSound ==
  ASSUME IInv, NEW s \in Server, Supersede(s)
  PROVE  IInv'
<1>1. store # "sqlite" /\ task[s] \in Task /\ task[s].step = "supersede"
  BY NotSQLite DEF Supersede, At
<1>2. Relabelled(versions')
  BY SupersededRelabels DEF IInv, ConfigTypeOK, Supersede
<1>3. VersionsSound' /\ versions' \in Seq(Version) /\ Len(versions) <= Len(versions')
  BY <1>1, <1>2, RelabelledElsewhere DEF Supersede
<1>4. PICK t : t = [task[s] EXCEPT !.step = "activate"]
  OBVIOUS
<1>5. task[s] \in [step : {"supersede", "activate"}, scope : Scope, row : Nat, prev : Nat]
  BY <1>1 DEF Task, Idle
<1>6. t \in Task /\ t.step = "activate" /\ Begin(s, t)
  BY <1>4, <1>5 DEF Task, Supersede
<1> QED
  BY <1>1, <1>3, <1>6, Publishes DEF Supersede

LEMMA ActivateSound ==
  ASSUME IInv, NEW s \in Server, Activate(s)
  PROVE  IInv'
<1>1. store # "sqlite"
  BY NotSQLite DEF Activate, At
<1>2. Relabelled(versions')
  BY WithStatusRelabels DEF IInv, ConfigTypeOK, Activate
<1>3. VersionsSound' /\ versions' \in Seq(Version) /\ Len(versions) <= Len(versions')
  BY <1>1, <1>2, RelabelledElsewhere DEF Activate
<1>4. PICK t : t = Idle
  OBVIOUS
<1>5. t \in Task /\ t.step = "idle" /\ Begin(s, t)
  BY <1>4, IdleTask DEF Activate, Return, Idle
<1> QED
  BY <1>3, <1>5, Publishes DEF Activate

LEMMA RestoreSound ==
  ASSUME IInv, NEW s \in Server, Restore(s)
  PROVE  IInv'
<1>1. store # "sqlite"
  BY NotSQLite DEF Restore, At
<1>2. Relabelled(versions')
  BY WithStatusRelabels, SameRelabels DEF IInv, ConfigTypeOK, Restore
<1>3. VersionsSound' /\ versions' \in Seq(Version) /\ Len(versions) <= Len(versions')
  BY <1>1, <1>2, RelabelledElsewhere DEF Restore
<1>4. PICK t : t = Idle
  OBVIOUS
<1>5. t \in Task /\ t.step = "idle" /\ Begin(s, t)
  BY <1>4, IdleTask DEF Restore, Return, Idle
<1> QED
  BY <1>3, <1>5, Publishes DEF Restore

(* A request that raises: the handler ends, or goes on to restore. *)
LEMMA PublishRaisesSound ==
  ASSUME IInv, NEW s \in Server, PublishRaises(s)
  PROVE  IInv'
<1>1. UNCHANGED <<store, meta, approved, decisions>> /\ versions \in Seq(Version)
  BY DEF PublishRaises, IInv, ConfigTypeOK
<1>2. CASE versions' = versions /\ Return(s)
  BY <1>1, <1>2, Returns
<1>3. CASE /\ task[s].step \in {"publish", "insert"} /\ Return(s)
           /\ versions' = Append(versions, Row(task[s], "DRAFT"))
  <2>1. PICK t : t = Idle
    OBVIOUS
  <2>2. t \in Task /\ t.step = "idle" /\ Begin(s, t)
    BY <1>3, <2>1, IdleTask DEF Return, Idle
  <2>3. VersionsSound' /\ versions' \in Seq(Version) /\ Len(versions) <= Len(versions')
    BY <1>1, <1>3, DraftSound
  <2> QED
    BY <1>1, <2>2, <2>3, Publishes
<1>4. CASE /\ task[s].step \in {"supersede", "activate"}
           /\ versions' \in {versions, Superseded(task[s].scope),
                             WithStatus(task[s].row, "ACTIVE")}
           /\ Begin(s, [step |-> "restore", prev |-> task[s].prev])
  <2>1. store # "sqlite" /\ task[s] \in Task
    BY <1>4, NotSQLite
  <2>2. PICK v \in Nat : v = task[s].prev
    BY <1>4, <2>1, TaskFields
  <2>3. PICK t : t = [step |-> "restore", prev |-> v]
    OBVIOUS
  <2>4. t \in Task /\ t.step = "restore" /\ Begin(s, t)
    BY <1>4, <2>2, <2>3 DEF Task
  <2>5. Relabelled(versions')
    BY <1>1, <1>4, SameRelabels, SupersededRelabels, WithStatusRelabels
  <2>6. VersionsSound' /\ versions' \in Seq(Version) /\ Len(versions) <= Len(versions')
    BY <1>1, <2>1, <2>5, RelabelledElsewhere
  <2> QED
    BY <1>1, <2>1, <2>4, <2>6, Publishes
<1> QED
  BY <1>2, <1>3, <1>4 DEF PublishRaises, At

-----------------------------------------------------------------------------
(* An empty registry, no versions and no handlers. *)
LEMMA InitIInv == Init => IInv
<1> SUFFICES ASSUME Init PROVE IInv
  OBVIOUS
<1>1. ConfigTypeOK
  BY ConfigAssumption, IdleTask DEF Init, ConfigTypeOK, Meta
<1>2. RegistryApproved /\ VersionsSound
  BY DEF Init, RegistryApproved, VersionsSound, PublishedWasApproved, OneActive
<1>3. \A s \in Server : TaskSound(task[s])
  BY IdleTask DEF Init
<1> QED
  BY <1>1, <1>2, <1>3 DEF IInv

LEMMA NextIInv == IInv /\ [Next]_vars => IInv'
<1> SUFFICES ASSUME IInv, [Next]_vars PROVE IInv'
  OBVIOUS
<1>1. CASE UNCHANGED vars
  BY <1>1 DEF vars, IInv, ConfigTypeOK, RegistryApproved, VersionsSound, TaskSound,
     PublishedWasApproved, WasApproved, OneActive
<1>2. ASSUME NEW s \in Server, Request(s) PROVE IInv'
  BY <1>2, DecideSound, StartPublishSound DEF Request
<1>3. ASSUME NEW s \in Server, Serve(s) PROVE IInv'
  <2>1. CASE Update(s)
    BY <2>1, UpdateSound
  <2>2. CASE Record(s)
    BY <2>2, Returns DEF Record
  <2>3. CASE \E p \in Point : Discover(s, p)
    BY <2>3, DiscoverSound
  <2>4. CASE ReadRevision(s) \/ PublishDraft(s) \/ PublishActive(s)
    BY <2>4, ReadRevisionSound, PublishDraftSound, PublishActiveSound
  <2>5. CASE FindPrevious(s) \/ InsertDraft(s) \/ Supersede(s) \/ Activate(s) \/ Restore(s)
    BY <2>5, FindPreviousSound, InsertDraftSound, SupersedeSound, ActivateSound, RestoreSound
  <2> QED
    BY <1>3, <2>1, <2>2, <2>3, <2>4, <2>5 DEF Serve
<1>4. ASSUME NEW s \in Server, Fault(s) PROVE IInv'
  <2>1. CASE DecisionRaises(s) \/ PublishRaises(s)
    BY <2>1, DecisionRaisesSound, PublishRaisesSound
  <2>2. CASE Crash(s)
    BY <2>2, Returns DEF Crash
  <2>3. CASE \E p \in Point : DiscoverRaises(s, p)
    BY <2>3, DiscoverRaisesSound
  <2> QED
    BY <1>4, <2>1, <2>2, <2>3 DEF Fault
<1>5. ASSUME NEW s \in Server, NEW points \in SUBSET Point, BeginDiscovery(s, points)
      PROVE  IInv'
  BY <1>5, BeginDiscoverySound
<1> QED
  BY <1>1, <1>2, <1>3, <1>4, <1>5 DEF Next

(***************************************************************************)
(* The invariant holds whatever decisions, discovery batches, publishes,   *)
(* exceptions and crashes interleave in any number of server processes.    *)
(***************************************************************************)
THEOREM ConfigInvariance == Spec => []IInv
  BY InitIInv, NextIInv, PTL DEF Spec

(* The tables and the handlers' places keep their types. *)
THEOREM ConfigTypes == Spec => []ConfigTypeOK
<1>1. IInv => ConfigTypeOK
  BY DEF IInv
<1> QED
  BY <1>1, ConfigInvariance, PTL

(* Over SQLite a scope never has two active versions. *)
THEOREM ActiveIsUnique == Spec => []OneActive
<1>1. IInv => OneActive
  BY DEF IInv, VersionsSound
<1> QED
  BY <1>1, ConfigInvariance, PTL

(* Whatever a version collects an engineer once approved. *)
THEOREM PublishesApprovals == Spec => []PublishedWasApproved
<1>1. IInv => PublishedWasApproved
  BY DEF IInv, VersionsSound
<1> QED
  BY <1>1, ConfigInvariance, PTL

-----------------------------------------------------------------------------
(***************************************************************************)
(* One server process.  What its task must be sound for besides.           *)
(***************************************************************************)
AloneSound(t) == TaskAhead(t) /\ RestoreSafe(t) /\ RowIsLast(t)

LEMMA AloneGoesOn ==
  ASSUME NEW w \in Server, Server = {w}, IInvAlone, IInv', NEW t, Begin(w, t),
         AloneSound(t)', RevisionsGrow', NoneReactivated'
  PROVE  IInvAlone'
<1>1. task'[w] = t
  BY DEF IInvAlone, IInv, ConfigTypeOK, Begin
<1>2. (TaskAhead(task[w]) /\ RestoreSafe(task[w]) /\ RowIsLast(task[w]))'
  BY <1>1 DEF AloneSound, TaskAhead, RestoreSafe, RowIsLast, OfScope
<1> QED
  BY <1>2 DEF IInvAlone

(* A step that leaves the versions alone. *)
LEMMA AloneKeepsVersions ==
  ASSUME NEW w \in Server, Server = {w}, IInvAlone, IInv', NEW t, Begin(w, t),
         AloneSound(t), versions' = versions
  PROVE  IInvAlone'
<1>1. AloneSound(t)'
  BY DEF AloneSound, TaskAhead, RestoreSafe, RowIsLast, OfScope
<1>2. RevisionsGrow' /\ NoneReactivated'
  BY DEF IInvAlone, RevisionsGrow, NoneReactivated
<1> QED
  BY <1>1, <1>2, AloneGoesOn

(* Most tasks carry neither a revision nor a version to restore. *)
LEMMA AloneElsewhere ==
  ASSUME NEW t, t.step \notin {"publish", "insert", "supersede", "activate", "restore"}
  PROVE  AloneSound(t) /\ AloneSound(t)'
BY DEF AloneSound, TaskAhead, RestoreSafe, RowIsLast

(* The versions are types and indices the provers can use. *)
LEMMA AloneTypes ==
  ASSUME IInvAlone
  PROVE  /\ IInv /\ versions \in Seq(Version) /\ Len(versions) \in Nat
         /\ DOMAIN versions = 1..Len(versions)
         /\ \A i \in DOMAIN versions : versions[i] \in Version /\ versions[i].revision \in Nat
<1>1. IInv /\ versions \in Seq(Version)
  BY DEF IInvAlone, IInv, ConfigTypeOK
<1>2. Len(versions) \in Nat /\ DOMAIN versions = 1..Len(versions)
  BY <1>1
<1>3. \A i \in DOMAIN versions : versions[i] \in Version
  BY <1>1
<1>4. \A v \in Version : v.revision \in Nat
  BY DEF Version
<1> QED
  BY <1>1, <1>2, <1>3, <1>4

(***************************************************************************)
(* Superseding a scope supersedes with a version every older one of its    *)
(* scope.                                                                  *)
(***************************************************************************)
LEMMA SupersededOrder ==
  ASSUME IInv, NoneReactivated, NEW scope, NEW table, table = Superseded(scope),
         NEW i \in DOMAIN versions, NEW j \in DOMAIN versions, i < j,
         versions[i].scope = versions[j].scope, table[j].status = "SUPERSEDED"
  PROVE  table[i].status # "ACTIVE"
<1>1. versions[i] \in Version /\ versions[j] \in Version
  BY DEF IInv, ConfigTypeOK
<1>2. /\ table[i] = IF i \in Active(scope) THEN [versions[i] EXCEPT !.status = "SUPERSEDED"]
                    ELSE versions[i]
      /\ table[j] = IF j \in Active(scope) THEN [versions[j] EXCEPT !.status = "SUPERSEDED"]
                    ELSE versions[j]
  BY DEF Superseded
<1>3. CASE i \in Active(scope)
  BY <1>1, <1>2, <1>3 DEF Version
<1>4. CASE i \notin Active(scope) /\ j \in Active(scope)
  <2>1. i \in OfScope(scope)
    BY <1>4 DEF Active, OfScope
  <2> QED
    BY <1>2, <1>4, <2>1 DEF Active
<1>5. CASE i \notin Active(scope) /\ j \notin Active(scope)
  BY <1>2, <1>5 DEF NoneReactivated
<1> QED
  BY <1>3, <1>4, <1>5

(* Relabelling keeps the revisions. *)
LEMMA RelabelledGrow ==
  ASSUME IInvAlone, Relabelled(versions')
  PROVE  RevisionsGrow' /\ DOMAIN versions' = DOMAIN versions
<1>1. /\ DOMAIN versions' = DOMAIN versions
      /\ \A i \in DOMAIN versions : /\ versions'[i].scope = versions[i].scope
                                    /\ versions'[i].revision = versions[i].revision
  BY AloneTypes DEF Relabelled
<1> QED
  BY <1>1 DEF IInvAlone, RevisionsGrow

(* So does appending a version with the revision the handler has read. *)
LEMMA AppendedGrow ==
  ASSUME IInvAlone, NEW w \in Server, task[w].step \in {"publish", "insert"},
         NEW table, Relabelled(table), NEW status,
         versions' = Append(table, Row(task[w], status))
  PROVE  /\ RevisionsGrow' /\ DOMAIN versions' = 1..(Len(versions) + 1)
         /\ versions'[Len(versions) + 1] = Row(task[w], status)
         /\ \A i \in DOMAIN versions : versions'[i] = table[i]
<1>1. /\ DOMAIN versions' = 1..(Len(versions) + 1)
      /\ versions'[Len(versions) + 1] = Row(task[w], status)
      /\ \A i \in DOMAIN versions : versions'[i] = table[i]
  BY AloneTypes DEF Relabelled
<1>2. ASSUME NEW i \in DOMAIN versions', NEW j \in DOMAIN versions', i < j,
             versions'[i].scope = versions'[j].scope
      PROVE  versions'[i].revision < versions'[j].revision
  <2>1. i \in DOMAIN versions /\ versions'[i] = table[i]
    BY <1>1, <1>2, AloneTypes
  <2>2. CASE j \in DOMAIN versions
    <3>1. /\ table[i].scope = versions[i].scope /\ table[i].revision = versions[i].revision
          /\ table[j].scope = versions[j].scope /\ table[j].revision = versions[j].revision
      BY <2>1, <2>2, AloneTypes DEF Relabelled
    <3> QED
      BY <1>1, <1>2, <2>1, <2>2, <3>1 DEF IInvAlone, RevisionsGrow
  <2>3. CASE j = Len(versions) + 1
    <3>1. versions'[j].revision = task[w].revision /\ versions'[j].scope = task[w].scope
      BY <1>1, <2>3 DEF Row
    <3>2. versions[i].scope = task[w].scope /\ versions'[i].revision = versions[i].revision
      BY <1>2, <2>1, <3>1, AloneTypes DEF Relabelled
    <3>3. i \in OfScope(task[w].scope)
      BY <2>1, <3>2 DEF OfScope, InScope
    <3> QED
      BY <3>1, <3>2, <3>3 DEF IInvAlone, TaskAhead
  <2> QED
    BY <1>1, <2>2, <2>3, AloneTypes
<1>3. RevisionsGrow'
  BY <1>2 DEF RevisionsGrow
<1> QED
  BY <1>1, <1>3

-----------------------------------------------------------------------------
(* The steps of a publish by the only server. *)
LEMMA AloneReadRevision ==
  ASSUME NEW w \in Server, Server = {w}, IInvAlone, IInv', ReadRevision(w)
  PROVE  IInvAlone'
<1>1. PICK scope, c, r : scope = task[w].scope /\ c = task[w].config /\ r = NextRevision(scope)
  OBVIOUS
<1>2. PICK t : t = [step |-> "publish", scope |-> scope, config |-> c, revision |-> r]
  OBVIOUS
<1>3. Begin(w, t) /\ versions' = versions
  BY <1>1, <1>2 DEF ReadRevision
<1>4. \A i \in OfScope(scope) : versions[i].revision < r
  BY <1>1, AloneTypes, RevisionType DEF IInv
<1>5. AloneSound(t)
  BY <1>2, <1>4 DEF AloneSound, TaskAhead, RestoreSafe, RowIsLast
<1> QED
  BY <1>3, <1>5, AloneKeepsVersions

(* The newest active version of a scope is followed by drafts only. *)
LEMMA AloneFindPrevious ==
  ASSUME NEW w \in Server, Server = {w}, IInvAlone, IInv', FindPrevious(w)
  PROVE  IInvAlone'
<1>1. PICK scope, c, r, v :
        /\ scope = task[w].scope /\ c = task[w].config
        /\ r = task[w].revision /\ v = Previous(scope)
  OBVIOUS
<1>2. PICK t : t = [step |-> "insert", scope |-> scope, config |-> c, revision |-> r,
                    prev |-> v]
  OBVIOUS
<1>3. Begin(w, t) /\ versions' = versions /\ task[w].step = "publish"
  BY <1>1, <1>2 DEF FindPrevious, At
<1>4. TaskAhead(t)
  BY <1>1, <1>2, <1>3 DEF IInvAlone, TaskAhead
<1>5. ASSUME v # 0
      PROVE  v \in Active(scope) /\ \A j \in Active(scope) : j <= v
  <2>1. Active(scope) # {} /\ v = Max(Active(scope))
    BY <1>1, <1>5 DEF Previous, Newest
  <2>2. Active(scope) \in SUBSET (0..Len(versions)) /\ Len(versions) \in Nat
    BY AloneTypes, RowsOfScope
  <2> QED
    BY <2>1, <2>2, MaxBounded
<1>6. ASSUME v # 0, NEW j \in DOMAIN versions, j > v,
             versions[j].scope = versions[v].scope
      PROVE  versions[j].status = "DRAFT"
  <2>1. v \in DOMAIN versions /\ versions[v].status = "ACTIVE" /\ v \in OfScope(scope)
    BY <1>5, <1>6 DEF Active, OfScope
  <2>2. j \in OfScope(scope)
    BY <1>6, <2>1 DEF OfScope
  <2>3. versions[j].status # "ACTIVE"
    <3>1. SUFFICES ASSUME versions[j].status = "ACTIVE" PROVE FALSE
      OBVIOUS
    <3>2. j \in Active(scope)
      BY <2>2, <3>1 DEF Active
    <3>3. j <= v /\ j \in Nat /\ v \in Nat
      BY <1>5, <1>6, <2>1, <3>2, AloneTypes
    <3> QED
      BY <1>6, <3>3
  <2>4. v < j
    BY <1>6, <2>1, AloneTypes
  <2>5. versions[j].status # "SUPERSEDED"
    BY <1>6, <2>1, <2>4 DEF IInvAlone, NoneReactivated
  <2> QED
    BY <2>3, <2>5, AloneTypes DEF Version
<1>7. RestoreSafe(t)
  BY <1>2, <1>5, <1>6 DEF RestoreSafe, Active, OfScope
<1>8. RowIsLast(t)
  BY <1>2 DEF RowIsLast
<1> QED
  BY <1>3, <1>4, <1>7, <1>8, AloneKeepsVersions DEF AloneSound

(* A draft at the end supersedes nothing and is no version to go back to. *)
LEMMA DraftOrder ==
  ASSUME IInvAlone, NEW w \in Server, task[w].step \in {"publish", "insert"},
         versions' = Append(versions, Row(task[w], "DRAFT"))
  PROVE  /\ RevisionsGrow' /\ NoneReactivated' /\ Len(versions') = Len(versions) + 1
         /\ DOMAIN versions' = 1..(Len(versions) + 1)
         /\ versions'[Len(versions) + 1].status = "DRAFT"
         /\ \A i \in DOMAIN versions : versions'[i] = versions[i]
<1>1. /\ RevisionsGrow' /\ DOMAIN versions' = 1..(Len(versions) + 1)
      /\ versions'[Len(versions) + 1] = Row(task[w], "DRAFT")
      /\ \A i \in DOMAIN versions : versions'[i] = versions[i]
  BY AloneTypes, SameRelabels, AppendedGrow
<1>2. versions'[Len(versions) + 1].status = "DRAFT"
  BY <1>1 DEF Row
<1>3. NoneReactivated'
  <2>1. ASSUME NEW i \in DOMAIN versions', NEW j \in DOMAIN versions', i < j,
               versions'[i].scope = versions'[j].scope, versions'[j].status = "SUPERSEDED"
        PROVE  versions'[i].status # "ACTIVE"
    <3>1. j \in DOMAIN versions /\ i \in DOMAIN versions
      BY <1>1, <1>2, <2>1, AloneTypes
    <3> QED
      BY <1>1, <2>1, <3>1 DEF IInvAlone, NoneReactivated
  <2> QED
    BY <2>1 DEF NoneReactivated
<1>4. Len(versions') = Len(versions) + 1
  BY AloneTypes
<1> QED
  BY <1>1, <1>2, <1>3, <1>4

LEMMA AloneDraft ==
  ASSUME NEW w \in Server, Server = {w}, IInvAlone, IInv',
         task[w].step \in {"publish", "insert"}, Return(w),
         versions' = Append(versions, Row(task[w], "DRAFT"))
  PROVE  IInvAlone'
<1>1. PICK t : t = Idle
  OBVIOUS
<1>2. Begin(w, t) /\ AloneSound(t)'
  BY <1>1, AloneElsewhere DEF Return, Idle
<1> QED
  BY <1>2, DraftOrder, AloneGoesOn

LEMMA AloneInsertDraft ==
  ASSUME NEW w \in Server, Server = {w}, IInvAlone, IInv', InsertDraft(w)
  PROVE  IInvAlone'
<1>1. PICK scope, n, v : scope = task[w].scope /\ n = Len(versions) + 1 /\ v = task[w].prev
  OBVIOUS
<1>2. PICK t : t = [step |-> "supersede", scope |-> scope, row |-> n, prev |-> v]
  OBVIOUS
<1>3. Begin(w, t) /\ task[w].step = "insert"
  BY <1>1, <1>2 DEF InsertDraft, At
<1>4. /\ RevisionsGrow' /\ NoneReactivated' /\ Len(versions') = Len(versions) + 1
      /\ DOMAIN versions' = 1..(Len(versions) + 1)
      /\ versions'[Len(versions) + 1].status = "DRAFT"
      /\ \A i \in DOMAIN versions : versions'[i] = versions[i]
  BY <1>3, DraftOrder DEF InsertDraft
<1>5. v # 0 => /\ v \in DOMAIN versions
               /\ \A j \in DOMAIN versions :
                    j > v /\ versions[j].scope = versions[v].scope =>
                      versions[j].status = "DRAFT"
  BY <1>1, <1>3 DEF IInvAlone, RestoreSafe
<1>6. RestoreSafe(t)'
  <2>1. ASSUME v # 0, NEW j \in DOMAIN versions', j > v,
               versions'[j].scope = versions'[v].scope
        PROVE  versions'[j].status = "DRAFT"
    <3>1. CASE j \in DOMAIN versions
      BY <1>4, <1>5, <2>1, <3>1
    <3>2. CASE j = Len(versions) + 1
      BY <1>4, <3>2
    <3> QED
      BY <1>4, <2>1, <3>1, <3>2, AloneTypes
  <2>2. v # 0 => v \in DOMAIN versions'
    BY <1>4, <1>5, AloneTypes
  <2> QED
    BY <1>2, <2>1, <2>2 DEF RestoreSafe
<1>7. TaskAhead(t)' /\ RowIsLast(t)'
  BY <1>1, <1>2, <1>4 DEF TaskAhead, RowIsLast
<1> QED
  BY <1>3, <1>4, <1>6, <1>7, AloneGoesOn DEF AloneSound

(* The transaction of SQLite. *)
LEMMA AlonePublishActive ==
  ASSUME NEW w \in Server, Server = {w}, IInvAlone, IInv', PublishActive(w)
  PROVE  IInvAlone'
<1>1. PICK scope, table : scope = task[w].scope /\ table = Superseded(scope)
  OBVIOUS
<1>2. task[w].step = "publish" /\ versions' = Append(table, Row(task[w], "ACTIVE"))
  BY <1>1 DEF PublishActive, At
<1>3. Relabelled(table)
  BY <1>1, AloneTypes, SupersededRelabels
<1>4. /\ RevisionsGrow' /\ DOMAIN versions' = 1..(Len(versions) + 1)
      /\ versions'[Len(versions) + 1] = Row(task[w], "ACTIVE")
      /\ \A i \in DOMAIN versions : versions'[i] = table[i]
  BY <1>2, <1>3, AppendedGrow
<1>5. ASSUME NEW i \in DOMAIN versions', NEW j \in DOMAIN versions', i < j,
             versions'[i].scope = versions'[j].scope, versions'[j].status = "SUPERSEDED"
      PROVE  versions'[i].status # "ACTIVE"
  <2>1. j # Len(versions) + 1
    BY <1>4, <1>5 DEF Row
  <2>2. i \in DOMAIN versions /\ j \in DOMAIN versions
    BY <1>4, <1>5, <2>1, AloneTypes
  <2>3. versions[i].scope = versions[j].scope /\ table[j].status = "SUPERSEDED"
    BY <1>3, <1>4, <1>5, <2>2, AloneTypes DEF Relabelled
  <2> QED
    BY <1>1, <1>4, <1>5, <2>2, <2>3, SupersededOrder DEF IInvAlone
<1>6. NoneReactivated'
  BY <1>5 DEF NoneReactivated
<1>7. PICK t : t = Idle
  OBVIOUS
<1>8. Begin(w, t) /\ AloneSound(t)'
  BY <1>7, AloneElsewhere DEF PublishActive, Return, Idle
<1> QED
  BY <1>4, <1>6, <1>8, AloneGoesOn

(* What the supersede request does, whether or not it raises. *)
LEMMA SupersedeOrder ==
  ASSUME NEW w \in Server, IInvAlone, task[w].step = "supersede",
         versions' = Superseded(task[w].scope)
  PROVE  /\ RevisionsGrow' /\ NoneReactivated' /\ Len(versions') = Len(versions)
         /\ DOMAIN versions' = DOMAIN versions
         /\ task[w].prev # 0 =>
              \A j \in DOMAIN versions :
                j > task[w].prev /\ versions'[j].scope = versions'[task[w].prev].scope =>
                  versions'[j].status = "DRAFT"
<1>1. Relabelled(versions')
  BY AloneTypes, SupersededRelabels
<1>2. RevisionsGrow' /\ DOMAIN versions' = DOMAIN versions /\ Len(versions') = Len(versions)
  BY <1>1, RelabelledGrow DEF Relabelled
<1>3. NoneReactivated'
  <2>1. ASSUME NEW i \in DOMAIN versions, NEW j \in DOMAIN versions, i < j,
               versions'[i].scope = versions'[j].scope, versions'[j].status = "SUPERSEDED"
        PROVE  versions'[i].status # "ACTIVE"
    <3>1. versions[i].scope = versions[j].scope
      BY <1>1, <2>1, AloneTypes DEF Relabelled
    <3>2. PICK scope : scope = task[w].scope
      OBVIOUS
    <3>3. PICK table : table = versions'
      OBVIOUS
    <3>4. table = Superseded(scope) /\ table[j].status = "SUPERSEDED"
      BY <2>1, <3>2, <3>3
    <3>5. table[i].status # "ACTIVE"
      BY <2>1, <3>1, <3>4, SupersededOrder DEF IInvAlone
    <3> QED
      BY <3>3, <3>5
  <2> QED
    BY <1>2, <2>1 DEF NoneReactivated
<1>4. ASSUME task[w].prev # 0, NEW j \in DOMAIN versions, j > task[w].prev,
             versions'[j].scope = versions'[task[w].prev].scope
      PROVE  versions'[j].status = "DRAFT"
  <2>1. task[w].prev \in DOMAIN versions
    BY <1>4 DEF IInvAlone, RestoreSafe
  <2>2. versions[j].scope = versions[task[w].prev].scope
    BY <1>1, <1>4, <2>1, AloneTypes DEF Relabelled
  <2>3. versions[j].status = "DRAFT"
    BY <1>4, <2>2 DEF IInvAlone, RestoreSafe
  <2>4. j \notin Active(task[w].scope)
    BY <2>3 DEF Active
  <2>5. versions'[j] = versions[j]
    BY <2>4 DEF Superseded
  <2> QED
    BY <2>3, <2>5
<1> QED
  BY <1>2, <1>3, <1>4

(* What the activate request does: the new version is the last one. *)
LEMMA ActivateOrder ==
  ASSUME NEW w \in Server, IInvAlone, task[w].step = "activate",
         versions' = WithStatus(task[w].row, "ACTIVE")
  PROVE  /\ RevisionsGrow' /\ NoneReactivated'
         /\ DOMAIN versions' = DOMAIN versions
         /\ task[w].prev # 0 =>
              \A j \in DOMAIN versions :
                j > task[w].prev /\ versions'[j].scope = versions'[task[w].prev].scope =>
                  versions'[j].status \in {"DRAFT", "ACTIVE"}
<1>1. Relabelled(versions')
  BY AloneTypes, WithStatusRelabels
<1>2. RevisionsGrow' /\ DOMAIN versions' = DOMAIN versions
  BY <1>1, RelabelledGrow
<1>3. task[w].row = Len(versions)
  BY DEF IInvAlone, RowIsLast
<1>4. ASSUME NEW i \in DOMAIN versions
      PROVE  versions'[i].status = IF i = Len(versions) THEN "ACTIVE" ELSE versions[i].status
  <2>1. versions[i] \in Version
    BY AloneTypes
  <2>2. versions'[i] = IF i = task[w].row THEN [versions[i] EXCEPT !.status = "ACTIVE"]
                       ELSE versions[i]
    BY DEF WithStatus
  <2> QED
    BY <1>3, <2>1, <2>2 DEF Version
<1>5. NoneReactivated'
  <2>1. ASSUME NEW i \in DOMAIN versions, NEW j \in DOMAIN versions, i < j,
               versions'[i].scope = versions'[j].scope, versions'[j].status = "SUPERSEDED"
        PROVE  versions'[i].status # "ACTIVE"
    <3>1. versions[i].scope = versions[j].scope /\ i # Len(versions)
      BY <1>1, <2>1, AloneTypes DEF Relabelled
    <3>2. versions[j].status = "SUPERSEDED" /\ versions'[i].status = versions[i].status
      BY <1>4, <2>1, <3>1
    <3> QED
      BY <2>1, <3>1, <3>2 DEF IInvAlone, NoneReactivated
  <2> QED
    BY <1>2, <2>1 DEF NoneReactivated
<1>6. ASSUME task[w].prev # 0, NEW j \in DOMAIN versions, j > task[w].prev,
             versions'[j].scope = versions'[task[w].prev].scope
      PROVE  versions'[j].status \in {"DRAFT", "ACTIVE"}
  <2>1. task[w].prev \in DOMAIN versions
    BY <1>6 DEF IInvAlone, RestoreSafe
  <2>2. versions[j].scope = versions[task[w].prev].scope
    BY <1>1, <1>6, <2>1, AloneTypes DEF Relabelled
  <2>3. versions[j].status = "DRAFT"
    BY <1>6, <2>2 DEF IInvAlone, RestoreSafe
  <2> QED
    BY <1>4, <2>3
<1> QED
  BY <1>2, <1>5, <1>6

(* A failed publish on its way to restore. *)
LEMMA AloneToRestore ==
  ASSUME NEW w \in Server, Server = {w}, IInvAlone, IInv',
         task[w].step \in {"supersede", "activate"},
         Begin(w, [step |-> "restore", prev |-> task[w].prev]),
         RevisionsGrow', NoneReactivated', DOMAIN versions' = DOMAIN versions,
         task[w].prev # 0 =>
           \A j \in DOMAIN versions :
             j > task[w].prev /\ versions'[j].scope = versions'[task[w].prev].scope =>
               versions'[j].status \in {"DRAFT", "ACTIVE"}
  PROVE  IInvAlone'
<1>1. PICK v : v = task[w].prev
  OBVIOUS
<1>2. PICK t : t = [step |-> "restore", prev |-> v]
  OBVIOUS
<1>3. Begin(w, t)
  BY <1>1, <1>2
<1>4. v # 0 => v \in DOMAIN versions
  BY <1>1 DEF IInvAlone, RestoreSafe
<1>5. RestoreSafe(t)'
  BY <1>1, <1>2, <1>4 DEF RestoreSafe
<1>6. TaskAhead(t)' /\ RowIsLast(t)'
  BY <1>2 DEF TaskAhead, RowIsLast
<1> QED
  BY <1>3, <1>5, <1>6, AloneGoesOn DEF AloneSound

LEMMA AloneSupersede ==
  ASSUME NEW w \in Server, Server = {w}, IInvAlone, IInv', Supersede(w)
  PROVE  IInvAlone'
<1>1. task[w].step = "supersede" /\ versions' = Superseded(task[w].scope)
  BY DEF Supersede, At
<1>2. /\ RevisionsGrow' /\ NoneReactivated' /\ Len(versions') = Len(versions)
      /\ DOMAIN versions' = DOMAIN versions
      /\ task[w].prev # 0 =>
           \A j \in DOMAIN versions :
             j > task[w].prev /\ versions'[j].scope = versions'[task[w].prev].scope =>
               versions'[j].status = "DRAFT"
  BY <1>1, SupersedeOrder
<1>3. task[w] \in [step : {"supersede", "activate"}, scope : Scope, row : Nat, prev : Nat]
  BY <1>1, AloneTypes DEF IInv, ConfigTypeOK, Task, Idle
<1>4. PICK t : t = [task[w] EXCEPT !.step = "activate"]
  OBVIOUS
<1>5. /\ Begin(w, t) /\ t.step = "activate"
      /\ t.row = task[w].row /\ t.prev = task[w].prev
  BY <1>3, <1>4 DEF Supersede
<1>6. RestoreSafe(t)'
  <2>1. task[w].prev # 0 => task[w].prev \in DOMAIN versions
    BY <1>1 DEF IInvAlone, RestoreSafe
  <2> QED
    BY <1>2, <1>5, <2>1 DEF RestoreSafe
<1>7. RowIsLast(t)'
  BY <1>1, <1>2, <1>5 DEF IInvAlone, RowIsLast
<1>8. TaskAhead(t)'
  BY <1>5 DEF TaskAhead
<1> QED
  BY <1>2, <1>5, <1>6, <1>7, <1>8, AloneGoesOn DEF AloneSound

LEMMA AloneActivate ==
  ASSUME NEW w \in Server, Server = {w}, IInvAlone, IInv', Activate(w)
  PROVE  IInvAlone'
<1>1. RevisionsGrow' /\ NoneReactivated'
  BY ActivateOrder DEF Activate, At
<1>2. PICK t : t = Idle
  OBVIOUS
<1>3. Begin(w, t) /\ AloneSound(t)'
  BY <1>2, AloneElsewhere DEF Activate, Return, Idle
<1> QED
  BY <1>1, <1>3, AloneGoesOn

(* The rollback: what follows the restored version in its scope was never in force, *)
(* or is the one that was to replace it.                                            *)
LEMMA AloneRestore ==
  ASSUME NEW w \in Server, Server = {w}, IInvAlone, IInv', Restore(w)
  PROVE  IInvAlone'
<1>1. PICK t : t = Idle
  OBVIOUS
<1>2. Begin(w, t) /\ AloneSound(t) /\ AloneSound(t)' /\ task[w].step = "restore"
  BY <1>1, AloneElsewhere DEF Restore, Return, Idle, At
<1>3. CASE task[w].prev = 0
  BY <1>2, <1>3, AloneKeepsVersions DEF Restore
<1>4. CASE task[w].prev # 0
  <2>1. PICK v : v = task[w].prev
    OBVIOUS
  <2>2. versions' = WithStatus(v, "ACTIVE")
    BY <1>4, <2>1 DEF Restore
  <2>3. Relabelled(versions')
    BY <2>2, AloneTypes, WithStatusRelabels
  <2>4. RevisionsGrow' /\ DOMAIN versions' = DOMAIN versions
    BY <2>3, RelabelledGrow
  <2>5. ASSUME NEW i \in DOMAIN versions
        PROVE  versions'[i].status = IF i = v THEN "ACTIVE" ELSE versions[i].status
    <3>1. versions[i] \in Version
      BY AloneTypes
    <3>2. versions'[i] = IF i = v THEN [versions[i] EXCEPT !.status = "ACTIVE"]
                         ELSE versions[i]
      BY <2>2 DEF WithStatus
    <3> QED
      BY <3>1, <3>2 DEF Version
  <2>6. ASSUME NEW i \in DOMAIN versions, NEW j \in DOMAIN versions, i < j,
               versions'[i].scope = versions'[j].scope, versions'[j].status = "SUPERSEDED"
        PROVE  versions'[i].status # "ACTIVE"
    <3>1. versions[i].scope = versions[j].scope
      BY <2>3, <2>6, AloneTypes DEF Relabelled
    <3>2. versions[j].status = "SUPERSEDED"
      BY <2>5, <2>6
    <3>3. i # v
      <4>1. SUFFICES ASSUME i = v PROVE FALSE
        OBVIOUS
      <4>2. j > v
        BY <2>6, <4>1, AloneTypes
      <4>3. versions[j].status \in {"DRAFT", "ACTIVE"}
        BY <1>2, <1>4, <2>1, <3>1, <4>1, <4>2 DEF IInvAlone, RestoreSafe
      <4> QED
        BY <3>2, <4>3
    <3> QED
      BY <2>5, <2>6, <3>1, <3>2, <3>3 DEF IInvAlone, NoneReactivated
  <2>7. NoneReactivated'
    BY <2>4, <2>6 DEF NoneReactivated
  <2> QED
    BY <1>2, <2>4, <2>7, AloneGoesOn
<1> QED
  BY <1>3, <1>4

LEMMA AlonePublishRaises ==
  ASSUME NEW w \in Server, Server = {w}, IInvAlone, IInv', PublishRaises(w)
  PROVE  IInvAlone'
<1>1. PICK t : t = Idle
  OBVIOUS
<1>2. AloneSound(t)
  BY <1>1, AloneElsewhere DEF Idle
<1>3. CASE Return(w) /\ versions' = versions
  BY <1>1, <1>2, <1>3, AloneKeepsVersions DEF Return
<1>4. CASE /\ Return(w) /\ task[w].step \in {"publish", "insert"}
           /\ versions' = Append(versions, Row(task[w], "DRAFT"))
  BY <1>4, AloneDraft
<1>5. CASE /\ Begin(w, [step |-> "restore", prev |-> task[w].prev])
           /\ task[w].step \in {"supersede", "activate"} /\ versions' = versions
  <2>1. RevisionsGrow' /\ NoneReactivated' /\ DOMAIN versions' = DOMAIN versions
    BY <1>5 DEF IInvAlone, RevisionsGrow, NoneReactivated
  <2>2. task[w].prev # 0 =>
          \A j \in DOMAIN versions :
            j > task[w].prev /\ versions'[j].scope = versions'[task[w].prev].scope =>
              versions'[j].status \in {"DRAFT", "ACTIVE"}
    BY <1>5 DEF IInvAlone, RestoreSafe
  <2> QED
    BY <1>5, <2>1, <2>2, AloneToRestore
<1>6. CASE /\ Begin(w, [step |-> "restore", prev |-> task[w].prev])
           /\ task[w].step = "supersede" /\ versions' = Superseded(task[w].scope)
  BY <1>6, SupersedeOrder, AloneToRestore
<1>7. CASE /\ Begin(w, [step |-> "restore", prev |-> task[w].prev])
           /\ task[w].step = "activate" /\ versions' = WithStatus(task[w].row, "ACTIVE")
  BY <1>7, ActivateOrder, AloneToRestore
<1> QED
  BY <1>3, <1>4, <1>5, <1>6, <1>7 DEF PublishRaises, At

(* The steps that have nothing to do with a revision or a version to restore. *)
LEMMA AloneOtherwise ==
  ASSUME NEW w \in Server, Server = {w}, IInvAlone, IInv', versions' = versions,
         \E t : /\ Begin(w, t)
               /\ t.step \notin {"publish", "insert", "supersede", "activate", "restore"}
  PROVE  IInvAlone'
<1>1. PICK t : /\ Begin(w, t)
               /\ t.step \notin {"publish", "insert", "supersede", "activate", "restore"}
  OBVIOUS
<1>2. AloneSound(t)
  BY <1>1, AloneElsewhere
<1> QED
  BY <1>1, <1>2, AloneKeepsVersions

LEMMA AloneReturns ==
  ASSUME NEW w \in Server, Server = {w}, IInvAlone, IInv', versions' = versions, Return(w)
  PROVE  IInvAlone'
<1>1. Idle.step = "idle" /\ Begin(w, Idle)
  BY DEF Idle, Return
<1> QED
  BY <1>1, AloneOtherwise

LEMMA NextIInvAlone ==
  ASSUME NEW w \in Server, Server = {w}, IInvAlone, [Next]_vars
  PROVE  IInvAlone'
<1>1. IInv'
  BY NextIInv DEF IInvAlone
<1>2. CASE UNCHANGED vars
  BY <1>2 DEF vars, IInvAlone, IInv, ConfigTypeOK, RegistryApproved, VersionsSound, TaskSound,
     PublishedWasApproved, WasApproved, OneActive, RevisionsGrow, NoneReactivated, TaskAhead,
     RestoreSafe, RowIsLast, OfScope
<1>3. ASSUME NEW p \in Point, NEW m \in Meta, Decide(w, p, m) PROVE IInvAlone'
  <2>1. PICK t : t = [step |-> "update", point |-> p, meta |-> m]
    OBVIOUS
  <2>2. Begin(w, t) /\ t.step = "update" /\ versions' = versions
    BY <1>3, <2>1 DEF Decide
  <2> QED
    BY <1>1, <2>2, AloneOtherwise
<1>4. ASSUME NEW scope \in Scope, StartPublish(w, scope) PROVE IInvAlone'
  <2>1. PICK c : Begin(w, [step |-> "revision", scope |-> scope, config |-> c])
    BY <1>4 DEF StartPublish
  <2>2. PICK t : t = [step |-> "revision", scope |-> scope, config |-> c]
    OBVIOUS
  <2>3. Begin(w, t) /\ t.step = "revision" /\ versions' = versions
    BY <1>4, <2>1, <2>2 DEF StartPublish
  <2> QED
    BY <1>1, <2>3, AloneOtherwise
<1>5. CASE Update(w)
  <2>1. PICK t : t = [step |-> "audit"]
    OBVIOUS
  <2>2. Begin(w, t) /\ t.step = "audit" /\ versions' = versions
    BY <1>5, <2>1 DEF Update
  <2> QED
    BY <1>1, <2>2, AloneOtherwise
<1>6. ASSUME NEW points \in SUBSET Point, BeginDiscovery(w, points) PROVE IInvAlone'
  <2>1. PICK t : t = [step |-> "discover", todo |-> points]
    OBVIOUS
  <2>2. Begin(w, t) /\ t.step = "discover" /\ versions' = versions
    BY <1>6, <2>1 DEF BeginDiscovery
  <2> QED
    BY <1>1, <2>2, AloneOtherwise
<1>7. ASSUME NEW p \in Point, Discover(w, p) \/ DiscoverRaises(w, p) PROVE IInvAlone'
  <2>1. PICK t \in Task : Begin(w, t) /\ t.step \in {"idle", "discover"}
    BY <1>7, RestOfBatch DEF IInvAlone, Discover, DiscoverRaises
  <2>2. versions' = versions
    BY <1>7 DEF Discover, DiscoverRaises
  <2> QED
    BY <1>1, <2>1, <2>2, AloneOtherwise
<1>8. CASE Record(w) \/ DecisionRaises(w) \/ Crash(w)
  BY <1>1, <1>8, AloneReturns DEF Record, DecisionRaises, Crash
<1>9. CASE ReadRevision(w) \/ FindPrevious(w)
  BY <1>1, <1>9, AloneReadRevision, AloneFindPrevious
<1>10. CASE PublishDraft(w)
  BY <1>1, <1>10, AloneDraft DEF PublishDraft, At
<1>11. CASE PublishActive(w) \/ InsertDraft(w) \/ Supersede(w)
  BY <1>1, <1>11, AlonePublishActive, AloneInsertDraft, AloneSupersede
<1>12. CASE Activate(w) \/ Restore(w) \/ PublishRaises(w)
  BY <1>1, <1>12, AloneActivate, AloneRestore, AlonePublishRaises
<1> QED
  BY <1>2, <1>3, <1>4, <1>5, <1>6, <1>7, <1>8, <1>9, <1>10, <1>11, <1>12
     DEF Next, Request, Serve, Fault

LEMMA InitIInvAlone ==
  ASSUME NEW w \in Server, Server = {w}
  PROVE  Init => IInvAlone
<1>1. ASSUME Init PROVE RevisionsGrow /\ NoneReactivated
  BY <1>1 DEF Init, RevisionsGrow, NoneReactivated
<1>2. ASSUME Init, NEW s \in Server PROVE AloneSound(task[s])
  <2>1. PICK t : t = Idle
    OBVIOUS
  <2>2. task[s] = t /\ t.step = "idle"
    BY <1>2, <2>1 DEF Init, Idle
  <2> QED
    BY <2>2 DEF AloneSound, TaskAhead, RestoreSafe, RowIsLast
<1> QED
  BY <1>1, <1>2, InitIInv DEF IInvAlone, AloneSound

(***************************************************************************)
(* With one server process the revisions of a scope grow with its          *)
(* versions, whatever publishes fail or are cut short.                     *)
(***************************************************************************)
THEOREM RevisionsAreFresh ==
  ASSUME NEW CONSTANT w \in Server, Server = {w}
  PROVE  Spec => []RevisionsGrow
<1>1. IInvAlone /\ [Next]_vars => IInvAlone'
  BY NextIInvAlone
<1>2. IInvAlone => RevisionsGrow
  BY DEF IInvAlone
<1> QED
  BY <1>1, <1>2, InitIInvAlone, PTL DEF Spec

(***************************************************************************)
(* With one server process no failed publish brings a version back over a  *)
(* newer one of its scope that has been in force.                          *)
(***************************************************************************)
THEOREM RollbackIsSafe ==
  ASSUME NEW CONSTANT w \in Server, Server = {w}
  PROVE  Spec => []NoneReactivated
<1>1. IInvAlone /\ [Next]_vars => IInvAlone'
  BY NextIInvAlone
<1>2. IInvAlone => NoneReactivated
  BY DEF IInvAlone
<1> QED
  BY <1>1, <1>2, InitIInvAlone, PTL DEF Spec

-----------------------------------------------------------------------------
(* Over SQLite a publish is one insert, by however many servers. *)
LEMMA SqliteStep ==
  ASSUME IInv, store = "sqlite", [Next]_vars
  PROVE  /\ store' = "sqlite"
         /\ \/ versions' = versions
            \/ \E s \in Server :
                 \/ versions' = Append(versions, Row(task[s], "DRAFT"))
                 \/ versions' = Append(Superseded(task[s].scope), Row(task[s], "ACTIVE"))
<1>1. \A s \in Server : task[s].step \notin {"insert", "supersede", "activate", "restore"}
  BY DEF IInv, TaskSound
<1>2. ASSUME NEW s \in Server, Request(s) \/ DecisionRaises(s) \/ Crash(s)
      PROVE  UNCHANGED <<store, versions>>
  BY <1>2 DEF Request, Decide, StartPublish, DecisionRaises, Crash
<1>3. ASSUME NEW s \in Server, NEW p \in Point, Discover(s, p) \/ DiscoverRaises(s, p)
      PROVE  UNCHANGED <<store, versions>>
  BY <1>3 DEF Discover, DiscoverRaises
<1>4. ASSUME NEW s \in Server, Update(s) \/ Record(s) \/ ReadRevision(s) \/ FindPrevious(s)
      PROVE  UNCHANGED <<store, versions>>
  BY <1>4 DEF Update, Record, ReadRevision, FindPrevious
<1>5. ASSUME NEW s \in Server, NEW points \in SUBSET Point, BeginDiscovery(s, points)
      PROVE  UNCHANGED <<store, versions>>
  BY <1>5 DEF BeginDiscovery
<1>6. ASSUME NEW s \in Server, PublishDraft(s)
      PROVE  store' = store /\ versions' = Append(versions, Row(task[s], "DRAFT"))
  BY <1>6 DEF PublishDraft
<1>7. ASSUME NEW s \in Server, PublishActive(s)
      PROVE  /\ store' = store
             /\ versions' = Append(Superseded(task[s].scope), Row(task[s], "ACTIVE"))
  BY <1>7 DEF PublishActive
<1>8. ASSUME NEW s \in Server,
             InsertDraft(s) \/ Supersede(s) \/ Activate(s) \/ Restore(s)
      PROVE  FALSE
  BY <1>1, <1>8 DEF InsertDraft, Supersede, Activate, Restore, At
<1>9. ASSUME NEW s \in Server, PublishRaises(s)
      PROVE  UNCHANGED <<store, versions>>
  BY <1>1, <1>9 DEF PublishRaises, At, MayTakeEffect
<1>10. CASE UNCHANGED vars
  BY <1>10 DEF vars
<1>11. ASSUME NEW s \in Server, Serve(s) \/ Fault(s)
       PROVE  /\ store' = store
              /\ \/ versions' = versions
                 \/ versions' = Append(versions, Row(task[s], "DRAFT"))
                 \/ versions' = Append(Superseded(task[s].scope), Row(task[s], "ACTIVE"))
  BY <1>2, <1>3, <1>4, <1>6, <1>7, <1>8, <1>9, <1>11 DEF Serve, Fault
<1> QED
  BY <1>2, <1>5, <1>10, <1>11 DEF Next

(* Neither insert brings a superseded version back over a newer one. *)
LEMMA SqliteOrder ==
  ASSUME IInv, NoneReactivated, store = "sqlite", [Next]_vars
  PROVE  NoneReactivated'
<1>1. /\ versions \in Seq(Version) /\ Len(versions) \in Nat
      /\ DOMAIN versions = 1..Len(versions)
  BY DEF IInv, ConfigTypeOK
<1>2. CASE versions' = versions
  BY <1>2 DEF NoneReactivated
<1>3. ASSUME NEW s \in Server, NEW table, NEW row,
             versions' = Append(table, row), row.status # "SUPERSEDED",
             table \in Seq(Version), Len(table) = Len(versions),
             \A i \in DOMAIN versions : table[i].scope = versions[i].scope,
             \A i, j \in DOMAIN versions :
               (/\ i < j /\ versions[i].scope = versions[j].scope
                /\ table[j].status = "SUPERSEDED") => table[i].status # "ACTIVE"
      PROVE  NoneReactivated'
  <2>1. /\ DOMAIN versions' = 1..(Len(versions) + 1) /\ versions'[Len(versions) + 1] = row
        /\ \A i \in DOMAIN versions : versions'[i] = table[i]
    BY <1>1, <1>3
  <2>2. ASSUME NEW i \in DOMAIN versions', NEW j \in DOMAIN versions', i < j,
               versions'[i].scope = versions'[j].scope, versions'[j].status = "SUPERSEDED"
        PROVE  versions'[i].status # "ACTIVE"
    <3>1. j # Len(versions) + 1
      BY <1>3, <2>1, <2>2
    <3>2. i \in DOMAIN versions /\ j \in DOMAIN versions
      BY <1>1, <2>1, <2>2, <3>1
    <3> QED
      BY <1>3, <2>1, <2>2, <3>2
  <2> QED
    BY <2>2 DEF NoneReactivated
<1>4. ASSUME NEW s \in Server, versions' = Append(versions, Row(task[s], "DRAFT"))
      PROVE  NoneReactivated'
  <2>1. PICK table, row : table = versions /\ row = Row(task[s], "DRAFT")
    OBVIOUS
  <2>2. row.status # "SUPERSEDED" /\ versions' = Append(table, row)
    BY <1>4, <2>1 DEF Row
  <2>3. \A i, j \in DOMAIN versions :
          (/\ i < j /\ versions[i].scope = versions[j].scope
           /\ table[j].status = "SUPERSEDED") => table[i].status # "ACTIVE"
    BY <2>1 DEF NoneReactivated
  <2> QED
    BY <1>1, <1>3, <2>1, <2>2, <2>3
<1>5. ASSUME NEW s \in Server,
             versions' = Append(Superseded(task[s].scope), Row(task[s], "ACTIVE"))
      PROVE  NoneReactivated'
  <2>1. PICK table, row : table = Superseded(task[s].scope) /\ row = Row(task[s], "ACTIVE")
    OBVIOUS
  <2>2. row.status # "SUPERSEDED" /\ versions' = Append(table, row)
    BY <1>5, <2>1 DEF Row
  <2>3. /\ table \in Seq(Version) /\ Len(table) = Len(versions)
        /\ \A i \in DOMAIN versions : table[i].scope = versions[i].scope
    BY <1>1, <2>1, SupersededRelabels DEF Relabelled
  <2>4. PICK scope : scope = task[s].scope
    OBVIOUS
  <2>5. \A i, j \in DOMAIN versions :
          (/\ i < j /\ versions[i].scope = versions[j].scope
           /\ table[j].status = "SUPERSEDED") => table[i].status # "ACTIVE"
    BY <2>1, <2>4, SupersededOrder
  <2> QED
    BY <1>3, <2>2, <2>3, <2>5
<1> QED
  BY <1>2, <1>4, <1>5, SqliteStep

(***************************************************************************)
(* Over SQLite any number of servers publish and fail without bringing a   *)
(* version back over a newer one of its scope: what one server at a time   *)
(* is needed for over PostgREST the transaction gives here.                *)
(***************************************************************************)
THEOREM SqliteNeverReactivates == Spec /\ store = "sqlite" => []NoneReactivated
<1> DEFINE Inv == IInv /\ NoneReactivated /\ store = "sqlite"
<1>1. Init /\ store = "sqlite" => Inv
  BY InitIInv DEF Init, NoneReactivated
<1>2. Inv /\ [Next]_vars => Inv'
  BY NextIInv, SqliteStep, SqliteOrder
<1>3. Inv => NoneReactivated
  OBVIOUS
<1> QED
  BY <1>1, <1>2, <1>3, PTL DEF Spec
=============================================================================
