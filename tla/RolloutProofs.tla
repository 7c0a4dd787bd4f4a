---------------------------- MODULE RolloutProofs ----------------------------
(***************************************************************************)
(* Cloud and gateways implement ConfigRollout, with one server process, as *)
(* deployed, and for any number of gateways, points and failures.  The     *)
(* invariants of CollectionProofs are joined by RollsOut, which says what  *)
(* the steps of a publish over PostgREST rest on; then every step is shown *)
(* to be one of the rollout or none: those of the cloud by what they do to *)
(* the versions, those of a gateway by what it collects by afterwards.     *)
(***************************************************************************)
EXTENDS CollectionProofs

-----------------------------------------------------------------------------
(* The invariant of publishing. *)

LEMMA OnlyTaskRollsOut ==
  ASSUME NEW w \in Server, Server = {w}, NEW t, Begin(w, t), task \in [Server -> Task],
         RollsOut(t)'
  PROVE  \A s \in Server : RollsOut(task[s])'
BY DEF Begin

(* A handler that is not between the requests of a publish. *)
LEMMA OtherwiseRollsOut ==
  ASSUME NEW w \in Server, Server = {w}, NEW t, Begin(w, t), task \in [Server -> Task],
         t.step \notin Publishing
  PROVE  \A s \in Server : RollsOut(task[s])'
<1>1. RollsOut(t)'
  BY DEF RollsOut, Publishing
<1> QED
  BY <1>1, OnlyTaskRollsOut

(* The version to restore, as it is found and as long as it is in hand. *)
LEMMA PreviousIsActive ==
  ASSUME IInvAlone, NEW scope
  PROVE  Previous(scope) # 0 => versions[Previous(scope)].status = "ACTIVE"
<1> DEFINE rows == Active(scope)
           v == Previous(scope)
<1>1. versions \in Seq(Version) /\ Len(versions) \in Nat
  BY AloneTypes
<1>2. rows \in SUBSET (0..Len(versions))
  BY <1>1, RowsOfScope
<1>3. rows # {} => v \in rows
  BY <1>1, <1>2, MaxBounded DEF Previous, Newest
<1>4. rows = {} => v = 0
  BY DEF Previous, Newest
<1> QED
  BY <1>3, <1>4 DEF Active

(* What is appended is found at the end, and nothing else changes. *)
LEMMA AppendedIsLast ==
  ASSUME IInvAlone, NEW row, versions' = Append(versions, row)
  PROVE  /\ versions'[Len(versions) + 1] = row
         /\ \A i \in DOMAIN versions : versions'[i] = versions[i]
BY AloneTypes

(* Once the active versions have made way there are none. *)
LEMMA NoneActiveLeft ==
  ASSUME IInvAlone, NEW scope, versions' = Superseded(scope)
  PROVE  Active(scope)' = {}
<1>1. ASSUME NEW i \in Active(scope)' PROVE FALSE
  <2>1. /\ i \in DOMAIN versions /\ InScope(versions'[i].scope, scope)
        /\ versions'[i].status = "ACTIVE"
    BY DEF Active, OfScope, Superseded
  <2>2. /\ versions[i] \in Version
        /\ versions'[i] = IF i \in Active(scope) THEN [versions[i] EXCEPT !.status = "SUPERSEDED"]
                          ELSE versions[i]
    BY <2>1, AloneTypes DEF Superseded
  <2>3. CASE i \in Active(scope)
    BY <2>1, <2>2, <2>3 DEF Version
  <2>4. CASE i \notin Active(scope)
    BY <2>1, <2>2, <2>4 DEF Active, OfScope
  <2> QED
    BY <2>3, <2>4
<1> QED
  BY <1>1

LEMMA PublishRollsOut ==
  ASSUME NEW w \in Server, Server = {w}, IInvRollout,
         FindPrevious(w) \/ InsertDraft(w) \/ Supersede(w)
  PROVE  \A s \in Server : RollsOut(task[s])'
<1>1. /\ IInvAlone /\ task \in [Server -> Task] /\ task[w] \in Task
      /\ RollsOut(task[w]) /\ RestoreSafe(task[w]) /\ RowIsDraft(task[w])
      /\ versions \in Seq(Version) /\ DOMAIN versions = 1..Len(versions) /\ Len(versions) \in Nat
  BY AloneTypes DEF IInvRollout, IInvOne, IInvAll, IInvAlone, IInv, ConfigTypeOK
<1>2. CASE FindPrevious(w)
  <2>1. PICK scope, c, r, v : /\ scope = task[w].scope /\ c = task[w].config
                              /\ r = task[w].revision /\ v = Previous(task[w].scope)
    OBVIOUS
  <2>2. PICK t : t = [step |-> "insert", scope |-> scope, config |-> c, revision |-> r,
                      prev |-> v]
    OBVIOUS
  <2>3. Begin(w, t) /\ versions' = versions /\ t.step = "insert" /\ t.prev = v
    BY <1>2, <2>1, <2>2 DEF FindPrevious
  <2>4. v # 0 => versions[v].status = "ACTIVE"
    BY <1>1, <2>1, PreviousIsActive
  <2>5. RollsOut(t)'
    BY <2>3, <2>4 DEF RollsOut
  <2> QED
    BY <1>1, <2>3, <2>5, OnlyTaskRollsOut
<1>3. CASE InsertDraft(w)
  <2>1. PICK scope, n, v : scope = task[w].scope /\ n = Len(versions) + 1 /\ v = task[w].prev
    OBVIOUS
  <2>2. PICK t : t = [step |-> "supersede", scope |-> scope, row |-> n, prev |-> v]
    OBVIOUS
  <2>3. /\ Begin(w, t) /\ t.step = "supersede" /\ t.row = n /\ t.prev = v /\ t.scope = scope
        /\ task[w].step = "insert"
    BY <1>3, <2>1, <2>2 DEF InsertDraft, At
  <2>4. versions' = Append(versions, Row(task[w], "DRAFT"))
    BY <1>3 DEF InsertDraft
  <2>5. versions'[n].scope = scope
    BY <1>1, <2>1, <2>4, AppendedIsLast DEF Row
  <2>6. v # 0 => versions'[v].status # "DRAFT"
    BY <1>1, <2>1, <2>3, <2>4, AppendedIsLast DEF RollsOut, RestoreSafe
  <2>7. RollsOut(t)'
    BY <2>3, <2>5, <2>6 DEF RollsOut
  <2> QED
    BY <1>1, <2>3, <2>7, OnlyTaskRollsOut
<1>4. CASE Supersede(w)
  <2>1. task[w].step = "supersede" /\ versions' = Superseded(task[w].scope)
    BY <1>4 DEF Supersede, At
  <2>2. PICK t : t = [task[w] EXCEPT !.step = "activate"]
    OBVIOUS
  <2>3. /\ Begin(w, t) /\ t.step = "activate" /\ t.scope = task[w].scope
        /\ t.row = task[w].row /\ t.prev = task[w].prev
    BY <1>1, <1>4, <2>1, <2>2 DEF Supersede, Task, Idle
  <2>4. versions'[t.row].scope = t.scope
    BY <1>1, <2>1, <2>3, SupersededRipens DEF RollsOut, RowIsDraft
  <2>5. Active(t.scope)' = {}
    BY <1>1, <2>1, <2>3, NoneActiveLeft
  <2>6. t.prev # 0 => versions'[t.prev].status # "DRAFT"
    BY <1>1, <2>1, <2>3, SupersededRipens DEF RollsOut, RestoreSafe
  <2>7. RollsOut(t)'
    BY <2>3, <2>4, <2>5, <2>6 DEF RollsOut
  <2> QED
    BY <1>1, <2>3, <2>7, OnlyTaskRollsOut
<1> QED
  BY <1>2, <1>3, <1>4

LEMMA PublishRaisesRollsOut ==
  ASSUME NEW w \in Server, Server = {w}, IInvRollout, PublishRaises(w)
  PROVE  \A s \in Server : RollsOut(task[s])'
<1>1. /\ IInvAlone /\ task \in [Server -> Task] /\ task[w] \in Task
      /\ RollsOut(task[w]) /\ RestoreSafe(task[w]) /\ RowIsDraft(task[w])
      /\ versions \in Seq(Version) /\ DOMAIN versions = 1..Len(versions) /\ Len(versions) \in Nat
  BY AloneTypes DEF IInvRollout, IInvOne, IInvAll, IInvAlone, IInv, ConfigTypeOK
<1>2. PICK t : t = Idle
  OBVIOUS
<1>3. CASE Return(w)
  BY <1>1, <1>2, <1>3, OtherwiseRollsOut DEF Return, Idle, Publishing
<1>4. CASE ~ Return(w)
  <2>1. PICK v : v = task[w].prev
    OBVIOUS
  <2>2. PICK t2 : t2 = [step |-> "restore", prev |-> v]
    OBVIOUS
  <2>3. /\ task[w].step \in {"supersede", "activate"}
        /\ Begin(w, t2) /\ t2.step = "restore" /\ t2.prev = v
        /\ versions' \in {versions, Superseded(task[w].scope), WithStatus(task[w].row, "ACTIVE")}
    BY <1>4, <2>1, <2>2 DEF PublishRaises, At
  <2>4. v # 0 => v \in DOMAIN versions /\ versions[v].status # "DRAFT"
    BY <1>1, <2>1, <2>3 DEF RollsOut, RestoreSafe
  <2>5. v # 0 => versions'[v].status # "DRAFT"
    BY <1>1, <2>3, <2>4, SupersededRipens, WithStatusRipens
  <2>6. RollsOut(t2)'
    BY <2>3, <2>5 DEF RollsOut
  <2> QED
    BY <1>1, <2>3, <2>6, OnlyTaskRollsOut
<1> QED
  BY <1>3, <1>4

(* No other step of the server begins the requests of a publish. *)
LEMMA OtherSteps ==
  ASSUME NEW w \in Server, Server = {w}, IInv, Next
  PROVE  \/ FindPrevious(w) \/ InsertDraft(w) \/ Supersede(w) \/ PublishRaises(w)
         \/ \E t : Begin(w, t) /\ t.step \notin Publishing
<1> DEFINE Goes == \E t : Begin(w, t) /\ t.step \notin Publishing
<1>1. ASSUME NEW p \in Point, NEW m \in Meta, Decide(w, p, m) PROVE Goes
  <2>1. PICK t : t = [step |-> "update", point |-> p, meta |-> m]
    OBVIOUS
  <2> QED
    BY <1>1, <2>1 DEF Decide, Publishing
<1>2. ASSUME NEW scope \in Scope, StartPublish(w, scope) PROVE Goes
  <2>1. PICK c : Begin(w, [step |-> "revision", scope |-> scope, config |-> c])
    BY <1>2 DEF StartPublish
  <2>2. PICK t : t = [step |-> "revision", scope |-> scope, config |-> c]
    OBVIOUS
  <2> QED
    BY <2>1, <2>2 DEF Publishing
<1>3. CASE Update(w)
  <2>1. PICK t : t = [step |-> "audit"]
    OBVIOUS
  <2> QED
    BY <1>3, <2>1 DEF Update, Publishing
<1>4. ASSUME NEW points \in SUBSET Point, BeginDiscovery(w, points) PROVE Goes
  <2>1. PICK t : t = [step |-> "discover", todo |-> points]
    OBVIOUS
  <2> QED
    BY <1>4, <2>1 DEF BeginDiscovery, Publishing
<1>5. ASSUME NEW p \in Point, Discover(w, p) \/ DiscoverRaises(w, p) PROVE Goes
  <2>1. PICK t \in Task : Begin(w, t) /\ t.step \in {"idle", "discover"}
    BY <1>5, RestOfBatch DEF Discover, DiscoverRaises
  <2> QED
    BY <2>1 DEF Publishing
<1>6. CASE ReadRevision(w)
  <2>1. PICK scope, c, r : /\ scope = task[w].scope /\ c = task[w].config
                           /\ r = NextRevision(task[w].scope)
    OBVIOUS
  <2>2. PICK t : t = [step |-> "publish", scope |-> scope, config |-> c, revision |-> r]
    OBVIOUS
  <2> QED
    BY <1>6, <2>1, <2>2 DEF ReadRevision, Publishing
<1>7. CASE Return(w)
  <2>1. PICK t : t = Idle
    OBVIOUS
  <2> QED
    BY <1>7, <2>1 DEF Return, Idle, Publishing
<1>8. CASE \/ Record(w) \/ DecisionRaises(w) \/ Crash(w) \/ PublishDraft(w)
           \/ PublishActive(w) \/ Activate(w) \/ Restore(w)
  BY <1>7, <1>8 DEF Record, DecisionRaises, Crash, PublishDraft, PublishActive, Activate, Restore
<1> QED
  BY <1>1, <1>2, <1>3, <1>4, <1>5, <1>6, <1>8 DEF Next, Request, Serve, Fault

LEMMA NextIInvRollout ==
  ASSUME NEW w \in Server, Server = {w}, IInvRollout, [NextAll]_allVars
  PROVE  IInvRollout'
<1>1. IInvOne /\ IInvAll /\ IInv /\ task \in [Server -> Task]
  BY DEF IInvRollout, IInvOne, IInvAll, IInv, ConfigTypeOK
<1>2. IInvOne' /\ [Next]_vars
  BY <1>1, NextIInvOne, CloudStep
<1>3. CASE UNCHANGED vars
  BY <1>2, <1>3 DEF IInvRollout, RollsOut, Active, OfScope, vars
<1>4. CASE Next
  <2>1. \A s \in Server : RollsOut(task[s])'
    BY <1>1, <1>4, OtherSteps, PublishRollsOut, PublishRaisesRollsOut, OtherwiseRollsOut
  <2> QED
    BY <1>2, <2>1 DEF IInvRollout
<1> QED
  BY <1>2, <1>3, <1>4

LEMMA InitIInvRollout ==
  ASSUME NEW w \in Server, Server = {w}
  PROVE  InitAll => IInvRollout
<1> SUFFICES ASSUME InitAll PROVE IInvRollout
  OBVIOUS
<1>1. PICK t : t = Idle
  OBVIOUS
<1>2. t.step = "idle" /\ \A s \in Server : task[s] = t
  BY <1>1 DEF InitAll, Init, Idle
<1> QED
  BY <1>2, InitIInvOne DEF IInvRollout, RollsOut

-----------------------------------------------------------------------------
(* The steps of the cloud. *)

LEMMA RetiredIsSuperseded ==
  ASSUME NEW scope
  PROVE  Rollout!Retired(scope) = Superseded(scope)
BY DEF Rollout!Retired, Rollout!Covers, Rollout!Status, Superseded, Active, OfScope, InScope

(* What a step of the server does to the versions, and where it stands. *)
LEMMA CloudMoves ==
  ASSUME NEW w \in Server, Server = {w}, [Next]_vars
  PROVE  \/ versions' = versions
         \/ /\ approved' = approved
            /\ \/ /\ task[w].step \in {"publish", "insert"}
                  /\ versions' = Append(versions, Row(task[w], "DRAFT"))
               \/ /\ task[w].step = "publish"
                  /\ versions' = Append(Superseded(task[w].scope), Row(task[w], "ACTIVE"))
               \/ /\ task[w].step = "supersede"
                  /\ versions' = Superseded(task[w].scope)
               \/ /\ task[w].step = "activate"
                  /\ versions' = WithStatus(task[w].row, "ACTIVE")
               \/ /\ task[w].step = "restore" /\ task[w].prev # 0
                  /\ versions' = WithStatus(task[w].prev, "ACTIVE")
<1>1. CASE Request(w) \/ \E points \in SUBSET Point : BeginDiscovery(w, points)
  BY <1>1 DEF Request, Decide, StartPublish, BeginDiscovery
<1>2. CASE Serve(w)
  BY <1>2 DEF Serve, Update, Record, Discover, ReadRevision, PublishDraft, PublishActive,
     FindPrevious, InsertDraft, Supersede, Activate, Restore, At
<1>3. CASE Fault(w)
  BY <1>3 DEF Fault, DecisionRaises, Crash, DiscoverRaises, PublishRaises, At
<1>4. CASE UNCHANGED vars
  BY <1>4 DEF vars
<1> QED
  BY <1>1, <1>2, <1>3, <1>4 DEF Next

(* A release that is drafted or published is approved, and newer than those *)
(* it covers.                                                              *)
LEMMA ReleasesAreFresh ==
  ASSUME NEW w \in Server, IInvAlone, task[w].step \in {"publish", "insert"}, NEW status
  PROVE  Rollout!Fresh(Row(task[w], status))
<1>1. WasApproved(task[w].config)
  BY AloneTypes DEF IInv, TaskSound
<1>2. \A i \in OfScope(task[w].scope) : versions[i].revision < task[w].revision
  BY DEF IInvAlone, TaskAhead
<1>3. /\ Row(task[w], status).scope = task[w].scope
      /\ Row(task[w], status).config = task[w].config
      /\ Row(task[w], status).revision = task[w].revision
  BY DEF Row
<1>4. Rollout!Approved(task[w].config)
  BY <1>1 DEF Rollout!Approved, WasApproved
<1>5. \A i \in DOMAIN versions : Rollout!Covers(task[w].scope, i) => i \in OfScope(task[w].scope)
  BY DEF Rollout!Covers, OfScope, InScope
<1> QED
  BY <1>2, <1>3, <1>4, <1>5 DEF Rollout!Fresh

LEMMA AppendIsRelease ==
  ASSUME NEW w \in Server, IInvAlone,
         \/ /\ task[w].step \in {"publish", "insert"}
            /\ versions' = Append(versions, Row(task[w], "DRAFT"))
         \/ /\ task[w].step = "publish"
            /\ versions' = Append(Superseded(task[w].scope), Row(task[w], "ACTIVE"))
  PROVE  /\ Len(versions') = Len(versions) + 1
         /\ \/ Rollout!Drafted(versions'[Len(versions')])
            \/ Rollout!Published(versions'[Len(versions')])
<1>1. /\ versions \in Seq(Version) /\ Len(versions) \in Nat /\ DOMAIN versions = 1..Len(versions)
  BY AloneTypes
<1>2. CASE /\ task[w].step \in {"publish", "insert"}
           /\ versions' = Append(versions, Row(task[w], "DRAFT"))
  <2>1. PICK r : r = Row(task[w], "DRAFT")
    OBVIOUS
  <2>2. Rollout!Fresh(r) /\ r.status = "DRAFT"
    BY <1>2, <2>1, ReleasesAreFresh DEF Row
  <2>3. Len(versions') = Len(versions) + 1 /\ versions'[Len(versions')] = r
    BY <1>1, <1>2, <2>1
  <2> QED
    BY <1>2, <2>1, <2>2, <2>3 DEF Rollout!Drafted
<1>3. CASE /\ task[w].step = "publish"
           /\ versions' = Append(Superseded(task[w].scope), Row(task[w], "ACTIVE"))
  <2>1. PICK r : r = Row(task[w], "ACTIVE")
    OBVIOUS
  <2>2. Rollout!Fresh(r) /\ r.status = "ACTIVE" /\ r.scope = task[w].scope
    BY <1>3, <2>1, ReleasesAreFresh DEF Row
  <2>3. PICK table : table = Superseded(task[w].scope)
    OBVIOUS
  <2>4. table \in Seq(Version) /\ Len(table) = Len(versions)
    BY <1>1, <2>3, SupersededRelabels DEF Relabelled
  <2>5. versions' = Append(table, r)
    BY <1>3, <2>1, <2>3
  <2>6. Len(versions') = Len(versions) + 1 /\ versions'[Len(versions')] = r
    BY <1>1, <2>4, <2>5
  <2>7. Rollout!Published(r)
    BY <2>2, <2>3, <2>5, RetiredIsSuperseded DEF Rollout!Published
  <2> QED
    BY <2>6, <2>7
<1> QED
  BY <1>2, <1>3

(* A restore brings the version back, or changes nothing. *)
LEMMA RestoreIsReturn ==
  ASSUME NEW w \in Server, IInvRollout, task[w].step = "restore", task[w].prev # 0,
         versions' = WithStatus(task[w].prev, "ACTIVE")
  PROVE  versions' = versions \/ \E i \in DOMAIN versions : Rollout!Returns(i)
<1>1. PICK v : v = task[w].prev
  OBVIOUS
<1>2. /\ versions \in Seq(Version) /\ v \in DOMAIN versions /\ versions[v].status # "DRAFT"
      /\ \A j \in DOMAIN versions :
           j > v /\ versions[j].scope = versions[v].scope => versions[j].status # "SUPERSEDED"
  BY <1>1, AloneTypes DEF IInvRollout, IInvOne, IInvAlone, RestoreSafe, RollsOut
<1>3. versions[v] \in Version /\ versions' = [versions EXCEPT ![v].status = "ACTIVE"]
  BY <1>1, <1>2 DEF WithStatus
<1>4. CASE versions[v].status = "ACTIVE"
  <2>1. [versions[v] EXCEPT !.status = "ACTIVE"] = versions[v]
    BY <1>3, <1>4 DEF Version
  <2>2. versions' = versions
    BY <1>2, <1>3, <2>1
  <2> QED
    BY <2>2
<1>5. CASE versions[v].status = "SUPERSEDED"
  BY <1>2, <1>3, <1>5 DEF Rollout!Returns, Rollout!Status, Rollout!EntersForce
<1> QED
  BY <1>2, <1>3, <1>4, <1>5 DEF Version

LEMMA CloudRollsOut ==
  ASSUME NEW w \in Server, Server = {w}, IInvRollout, [Next]_vars,
         UNCHANGED <<edge, cache, collected>>
  PROVE  Rollout!Approves \/ Rollout!Publishing
<1>1. /\ IInvAlone /\ IInv /\ RollsOut(task[w]) /\ RowIsDraft(task[w]) /\ RowIsLast(task[w])
      /\ versions \in Seq(Version) /\ Len(versions) \in Nat /\ DOMAIN versions = 1..Len(versions)
  BY AloneTypes DEF IInvRollout, IInvOne, IInvAlone
<1>2. UNCHANGED Rollout!gateways
  BY DEF Rollout!gateways
<1>3. CASE versions' = versions
  BY <1>1, <1>2, <1>3, CloudGrows DEF Rollout!Approves, Grows
<1>4. CASE /\ approved' = approved
           /\ \/ /\ task[w].step \in {"publish", "insert"}
                 /\ versions' = Append(versions, Row(task[w], "DRAFT"))
              \/ /\ task[w].step = "publish"
                 /\ versions' = Append(Superseded(task[w].scope), Row(task[w], "ACTIVE"))
  BY <1>1, <1>2, <1>4, AppendIsRelease DEF Rollout!Publishing
<1>5. ASSUME task[w].step \in {"supersede", "activate"}
      PROVE  /\ versions # <<>> /\ Rollout!Last = task[w].row
             /\ versions[task[w].row].status = "DRAFT"
             /\ versions[task[w].row].scope = task[w].scope
  BY <1>1, <1>5 DEF RollsOut, RowIsDraft, RowIsLast, Rollout!Last
<1>6. CASE /\ approved' = approved /\ task[w].step = "supersede"
           /\ versions' = Superseded(task[w].scope)
  <2>1. Rollout!MakesWay
    BY <1>5, <1>6, RetiredIsSuperseded DEF Rollout!MakesWay, Rollout!Status
  <2> QED
    BY <1>2, <1>6, <2>1 DEF Rollout!Publishing
<1>7. CASE /\ approved' = approved /\ task[w].step = "activate"
           /\ versions' = WithStatus(task[w].row, "ACTIVE")
  <2>1. \A i \in DOMAIN versions :
          Rollout!Covers(task[w].scope, i) => versions[i].status # "ACTIVE"
    BY <1>1, <1>7 DEF RollsOut, Active, OfScope, InScope, Rollout!Covers
  <2>2. Rollout!Follows
    BY <1>5, <1>7, <2>1 DEF Rollout!Follows, Rollout!Status, Rollout!EntersForce, WithStatus
  <2> QED
    BY <1>2, <1>7, <2>2 DEF Rollout!Publishing
<1>8. CASE /\ approved' = approved /\ task[w].step = "restore" /\ task[w].prev # 0
           /\ versions' = WithStatus(task[w].prev, "ACTIVE")
  <2>1. versions' = versions \/ \E i \in DOMAIN versions : Rollout!Returns(i)
    BY <1>8, RestoreIsReturn
  <2> QED
    BY <1>2, <1>3, <1>8, <2>1 DEF Rollout!Publishing
<1> QED
  BY <1>3, <1>4, <1>6, <1>7, <1>8, CloudMoves

-----------------------------------------------------------------------------
(* The steps of the gateways. *)

(* What becomes of the mappings of all gateways when one goes on. *)
LEMMA OneMapping ==
  ASSUME IInvAll, NEW g \in Gateway, NEW e, edge' = [edge EXCEPT ![g] = e]
  PROVE  [h \in Gateway |-> edge'[h].mapping]
           = [[h \in Gateway |-> edge[h].mapping] EXCEPT ![g] = e.mapping]
BY DEF IInvAll, TypeOK

(* A gateway that got an answer collects by the newest version in force, or *)
(* by what is approved where there is none.                                *)
LEMMA AdoptTakes ==
  ASSUME IInvRollout, RestartResumes', NeverOlder', UNCHANGED vars, NEW g \in Gateway,
         NEW a \in Served(g), a.mapping # NoConfig,
         NEW phase \in {"sync", "running"}, Adopt(g, a, phase)
  PROVE  Rollout!Collecting(g)
<1> DEFINE runs == [h \in Gateway |-> edge[h].mapping]
           keeps == [h \in Gateway |-> cache[h].mapping]
<1>1. /\ IInvAll /\ IInvAlone /\ IInv
      /\ edge \in [Gateway -> EdgeState] /\ cache \in [Gateway -> FileState]
      /\ collected \in [Gateway -> Nat]
      /\ DOMAIN versions = 1..Len(versions) /\ Len(versions) \in Nat
  BY AloneTypes DEF IInvRollout, IInvOne, IInvAll, TypeOK, EdgeState, FileState
<1>2. PICK n : n = IF a.version = 0 THEN edge[g].version ELSE a.version
  OBVIOUS
<1>3. PICK e : e = [phase |-> phase, mapping |-> a.mapping, version |-> n]
  OBVIOUS
<1>4. edge' = [edge EXCEPT ![g] = e]
  BY <1>2, <1>3 DEF Adopt
<1>5. edge'[g] = e /\ e.mapping = a.mapping /\ e.version = n /\ e.phase = phase
  BY <1>1, <1>3, <1>4
<1>6. runs' = [runs EXCEPT ![g] = a.mapping]
  BY <1>1, <1>4, <1>5, OneMapping
<1>7. keeps' = [keeps EXCEPT ![g] = a.mapping]
  <2>1. cache'[g].mapping = a.mapping
    BY <1>5 DEF RestartResumes
  <2>2. \A h \in Gateway : h # g => cache'[h] = cache[h]
    BY <1>1 DEF Adopt
  <2> QED
    BY <2>1, <2>2
<1>8. collected' = [collected EXCEPT ![g] = Latest(collected[g], a.version)]
  BY DEF Adopt
<1>9. /\ a.version \in Nat
      /\ a.version # 0 =>
           /\ a.version \in DOMAIN versions /\ versions[a.version].scope = g
           /\ versions[a.version].status = "ACTIVE"
           /\ a.mapping = versions[a.version].config
      /\ \A i \in DOMAIN versions :
           versions[i].scope = g /\ versions[i].status = "ACTIVE" => i <= a.version
  BY <1>1, ServedIsNewest
<1>10. Rollout!CollectsBy(g, a.mapping)
  BY <1>6, <1>7 DEF Rollout!CollectsBy
<1>11. UNCHANGED <<approved, versions>>
  BY DEF vars
<1>12. CASE a.version # 0
  <2>1. collected'[g] = Latest(collected[g], a.version) /\ a.version = collected'[g]
    BY <1>1, <1>2, <1>5, <1>8, <1>12 DEF NeverOlder
  <2>2. collected[g] <= a.version
    BY <1>1, <1>9, <2>1 DEF Latest
  <2>3. Rollout!Takes(g, a.version)
    <3>1. a.version \in Rollout!InForce(g) /\ \A j \in Rollout!InForce(g) : j <= a.version
      BY <1>9, <1>12 DEF Rollout!InForce, Rollout!Status
    <3>2. Rollout!CollectsBy(g, versions[a.version].config)
      BY <1>9, <1>10, <1>12 DEF Rollout!CollectsBy
    <3>3. collected' = [collected EXCEPT ![g] = a.version]
      BY <1>8, <2>1, <1>1
    <3> QED
      BY <2>2, <3>1, <3>2, <3>3 DEF Rollout!Takes
  <2> QED
    BY <1>9, <1>11, <1>12, <2>3 DEF Rollout!Collecting
<1>13. CASE a.version = 0
  <2>1. collected' = collected
    BY <1>1, <1>8, <1>13 DEF Latest
  <2>2. Rollout!InForce(g) = {}
    BY <1>1, <1>9, <1>13 DEF Rollout!InForce, Rollout!Status
  <2>3. Rollout!Approved(a.mapping)
    BY <1>1, ServedSound DEF WasApproved, Rollout!Approved
  <2>4. Rollout!TakesUnreleased(g, a.mapping)
    BY <1>10, <2>1, <2>2, <2>3
       DEF Rollout!TakesUnreleased, Rollout!Nothing, NoConfig
  <2>5. runs'[g] = a.mapping
    BY <1>5
  <2> QED
    BY <1>11, <2>4, <2>5 DEF Rollout!Collecting
<1> QED
  BY <1>12, <1>13

LEMMA StopIsStop ==
  ASSUME IInvRollout, UNCHANGED <<vars, cache, collected>>, NEW g \in Gateway,
         NEW e, edge' = [edge EXCEPT ![g] = e], e.mapping = NoConfig
  PROVE  Rollout!Collecting(g)
<1>1. [h \in Gateway |-> edge'[h].mapping]
        = [[h \in Gateway |-> edge[h].mapping] EXCEPT ![g] = NoConfig]
  BY OneMapping DEF IInvRollout, IInvOne
<1>2. Rollout!Stops(g)
  BY <1>1 DEF Rollout!Stops, Rollout!Nothing, NoConfig
<1> QED
  BY <1>2 DEF Rollout!Collecting, vars

LEMMA GatewayRollsOut ==
  ASSUME IInvRollout, RestartResumes', NeverOlder', NEW g \in Gateway, GatewaySteps(g)
  PROVE  Rollout!Collecting(g) \/ UNCHANGED Rollout!vars
<1>1. /\ IInvAll /\ edge \in [Gateway -> EdgeState] /\ collected \in [Gateway -> Nat]
      /\ HoldsSound(g, edge[g], cache[g], collected[g])
  BY HeldSound DEF IInvRollout, IInvOne, IInvAll, TypeOK, EdgeState
<1>2. CASE Boot(g)
  <2>1. PICK e : e = [phase |-> "starting", mapping |-> NoConfig, version |-> cache[g].version]
    OBVIOUS
  <2>2. /\ edge' = [edge EXCEPT ![g] = e] /\ e.mapping = NoConfig
        /\ UNCHANGED <<vars, cache, collected>>
    BY <1>2, <2>1 DEF Boot
  <2> QED
    BY <2>2, StopIsStop
<1>3. CASE StartFromCloud(g)
  BY <1>3, AdoptTakes DEF StartFromCloud, vars
<1>4. CASE Refresh(g)
  BY <1>4, AdoptTakes DEF Refresh, vars
<1>5. CASE StartFromCache(g)
  <2>1. PICK n : n = IF cache[g].version = 0 THEN edge[g].version ELSE cache[g].version
    OBVIOUS
  <2>2. PICK e : e = [phase |-> "sync", mapping |-> cache[g].mapping, version |-> n]
    OBVIOUS
  <2>3. edge' = [edge EXCEPT ![g] = e] /\ e.mapping = cache[g].mapping
    BY <1>5, <2>1, <2>2 DEF StartFromCache
  <2>4. [h \in Gateway |-> edge'[h].mapping]
          = [[h \in Gateway |-> edge[h].mapping] EXCEPT ![g] = cache[g].mapping]
    BY <1>1, <2>3, OneMapping
  <2>5. edge[g].mapping = NoConfig
    BY <1>1, <1>5 DEF StartFromCache, HoldsSound
  <2>6. collected' = collected
    <3>1. Latest(collected[g], cache[g].version) = collected[g]
      BY <1>1 DEF HoldsSound, Latest
    <3> QED
      BY <1>1, <1>5, <3>1 DEF StartFromCache
  <2>7. UNCHANGED <<vars, cache>>
    BY <1>5 DEF StartFromCache
  <2>8. Rollout!Resumes(g)
    BY <2>4, <2>5, <2>6, <2>7 DEF Rollout!Resumes, Rollout!Nothing, NoConfig
  <2> QED
    BY <2>7, <2>8 DEF Rollout!Collecting, vars
<1>6. CASE StartUnconfigured(g) \/ Synced(g)
  <2>1. PICK e : e = [edge[g] EXCEPT !.phase = "running"]
    OBVIOUS
  <2>2. edge' = [edge EXCEPT ![g] = e] /\ e.mapping = edge[g].mapping
    BY <1>1, <1>6, <2>1 DEF StartUnconfigured, Synced, Goto, EdgeState
  <2>3. [h \in Gateway |-> edge'[h].mapping] = [h \in Gateway |-> edge[h].mapping]
    BY <1>1, <2>2
  <2>4. UNCHANGED <<vars, cache, collected>>
    BY <1>6 DEF StartUnconfigured, Synced
  <2> QED
    BY <2>3, <2>4 DEF Rollout!vars, Rollout!gateways, vars
<1>7. CASE StartDies(g) \/ EdgeCrash(g)
  <2>1. PICK e : e = Down
    OBVIOUS
  <2>2. /\ edge' = [edge EXCEPT ![g] = e] /\ e.mapping = NoConfig
        /\ UNCHANGED <<vars, cache, collected>>
    BY <1>7, <2>1 DEF StartDies, EdgeCrash, Down
  <2> QED
    BY <2>2, StopIsStop
<1> QED
  BY <1>2, <1>3, <1>4, <1>5, <1>6, <1>7 DEF GatewaySteps, Start

-----------------------------------------------------------------------------
LEMMA RolloutStep ==
  ASSUME NEW w \in Server, Server = {w}, IInvRollout, [NextAll]_allVars
  PROVE  [Rollout!Next]_(Rollout!vars)
<1>1. [Next]_vars /\ RestartResumes' /\ NeverOlder'
  <2>1. IInvOne /\ IInvAll
    BY DEF IInvRollout, IInvOne
  <2>2. IInvOne'
    BY <2>1, NextIInvOne
  <2> QED
    BY <2>1, <2>2, CloudStep DEF IInvOne, Forward
<1>2. CASE UNCHANGED <<edge, cache, collected>>
  BY <1>1, <1>2, CloudRollsOut DEF Rollout!Next
<1>3. ASSUME NEW g \in Gateway, GatewaySteps(g)
      PROVE  [Rollout!Next]_(Rollout!vars)
  BY <1>1, <1>3, GatewayRollsOut DEF Rollout!Next
<1> QED
  BY <1>2, <1>3, OtherwiseGatewaysStay

LEMMA RolloutStarts == InitAll => Rollout!Init
<1> SUFFICES ASSUME InitAll PROVE Rollout!Init
  OBVIOUS
<1>1. PICK e : e = Down
  OBVIOUS
<1>2. e.mapping = NoConfig /\ \A g \in Gateway : edge[g] = e
  BY <1>1 DEF InitAll, Down
<1>3. \A g \in Gateway : cache[g].mapping = NoConfig
  BY DEF InitAll
<1>4. /\ [g \in Gateway |-> edge[g].mapping] = [g \in Gateway |-> <<>>]
      /\ [g \in Gateway |-> cache[g].mapping] = [g \in Gateway |-> <<>>]
  BY <1>2, <1>3 DEF NoConfig
<1> QED
  BY <1>4 DEF InitAll, Init, Rollout!Init, Rollout!Nothing

(***************************************************************************)
(* With one server process, as deployed, cloud and gateways together       *)
(* implement the rollout of configurations: whatever requests fail or take *)
(* effect although they raised, wherever a process dies and is started     *)
(* again, a release makes way only for the draft that is to follow it and  *)
(* comes back only while none of its scope was in force after it, and a    *)
(* gateway takes up the newest release in force in its scope, resumes what *)
(* it collected by, or stops.                                              *)
(***************************************************************************)
THEOREM ImplementsRollout ==
  ASSUME NEW CONSTANT w \in Server, Server = {w}
  PROVE  SpecAll => RolloutSpec
<1>1. IInvRollout /\ [NextAll]_allVars => IInvRollout'
  BY NextIInvRollout
<1>2. IInvRollout /\ [NextAll]_allVars => [Rollout!Next]_(Rollout!vars)
  BY RolloutStep
<1> QED
  BY <1>1, <1>2, InitIInvRollout, RolloutStarts, PTL DEF SpecAll, RolloutSpec, Rollout!Spec
=============================================================================
