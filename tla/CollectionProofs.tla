--------------------------- MODULE CollectionProofs ---------------------------
(***************************************************************************)
(* Theorems about Collection, for any number of servers and gateways.      *)
(* What the cloud's own invariant says carries over, since no step of a    *)
(* gateway is more to the cloud than a discovery batch; the rest rests on  *)
(* the cloud's approvals and published configs never being taken back.     *)
(***************************************************************************)
EXTENDS Collection, CollectionConfigProofs

(* Approvals stay entered, and published configs stay as they are. *)
Grows ==
  /\ approved \subseteq approved'
  /\ DOMAIN versions \subseteq DOMAIN versions'
  /\ \A i \in DOMAIN versions : versions'[i].config = versions[i].config

LEMMA RelabelledGrows ==
  ASSUME IInv, UNCHANGED approved, Relabelled(versions')
  PROVE  Grows
<1>1. versions \in Seq(Version) /\ Len(versions) \in Nat /\ DOMAIN versions = 1..Len(versions)
  BY DEF IInv, ConfigTypeOK
<1> QED
  BY <1>1 DEF Relabelled, Grows

LEMMA AppendedGrows ==
  ASSUME IInv, UNCHANGED approved, NEW table, Relabelled(table), NEW row,
         versions' = Append(table, row)
  PROVE  Grows
<1>1. versions \in Seq(Version) /\ Len(versions) \in Nat /\ DOMAIN versions = 1..Len(versions)
  BY DEF IInv, ConfigTypeOK
<1> QED
  BY <1>1 DEF Relabelled, Grows

LEMMA CloudGrows ==
  ASSUME IInv, [Next]_vars
  PROVE  Grows
<1>1. versions \in Seq(Version) /\ Relabelled(versions)
  BY SameRelabels DEF IInv, ConfigTypeOK
<1>2. CASE approved \subseteq approved' /\ versions' = versions
  BY <1>2 DEF Grows
<1>3. CASE /\ UNCHANGED approved
           /\ \E s \in Server : \E status : versions' = Append(versions, Row(task[s], status))
  BY <1>1, <1>3, AppendedGrows
<1>4. CASE /\ UNCHANGED approved
           /\ \E scope, row : versions' = Append(Superseded(scope), row)
  BY <1>1, <1>4, AppendedGrows, SupersededRelabels
<1>5. CASE /\ UNCHANGED approved
           /\ \/ \E scope : versions' = Superseded(scope)
              \/ \E row : versions' = WithStatus(row, "ACTIVE")
  BY <1>1, <1>5, RelabelledGrows, SupersededRelabels, WithStatusRelabels
<1>6. CASE UNCHANGED vars
  BY <1>2, <1>6 DEF vars
<1>7. ASSUME NEW s \in Server, Request(s) PROVE Grows
  BY <1>2, <1>7 DEF Request, Decide, StartPublish
<1>8. ASSUME NEW s \in Server, Serve(s) PROVE Grows
  <2>1. CASE Update(s)
    BY <1>2, <2>1 DEF Update, StoreMeta
  <2>2. CASE Record(s) \/ ReadRevision(s) \/ FindPrevious(s)
    BY <1>2, <2>2 DEF Record, ReadRevision, FindPrevious
  <2>3. CASE \E p \in Point : Discover(s, p)
    BY <1>2, <2>3 DEF Discover
  <2>4. CASE PublishDraft(s) \/ InsertDraft(s)
    BY <1>3, <2>4 DEF PublishDraft, InsertDraft
  <2>5. CASE PublishActive(s)
    BY <1>4, <2>5 DEF PublishActive
  <2>6. CASE Supersede(s) \/ Activate(s)
    BY <1>5, <2>6 DEF Supersede, Activate
  <2>7. CASE Restore(s)
    BY <1>2, <1>5, <2>7 DEF Restore
  <2> QED
    BY <1>8, <2>1, <2>2, <2>3, <2>4, <2>5, <2>6, <2>7 DEF Serve
<1>9. ASSUME NEW s \in Server, Fault(s) PROVE Grows
  <2>1. CASE DecisionRaises(s)
    BY <1>2, <2>1 DEF DecisionRaises, StoreMeta
  <2>2. CASE Crash(s) \/ \E p \in Point : DiscoverRaises(s, p)
    BY <1>2, <2>2 DEF Crash, DiscoverRaises
  <2>3. CASE PublishRaises(s)
    <3>1. /\ approved' = approved
          /\ \/ versions' = versions
             \/ versions' = Append(versions, Row(task[s], "DRAFT"))
             \/ versions' = Superseded(task[s].scope)
             \/ versions' = WithStatus(task[s].row, "ACTIVE")
      BY <2>3 DEF PublishRaises
    <3> QED
      BY <1>2, <1>3, <1>5, <3>1
  <2> QED
    BY <1>9, <2>1, <2>2, <2>3 DEF Fault
<1>10. ASSUME NEW s \in Server, NEW points \in SUBSET Point, BeginDiscovery(s, points)
       PROVE  Grows
  BY <1>2, <1>10 DEF BeginDiscovery
<1> QED
  BY <1>6, <1>7, <1>8, <1>9, <1>10 DEF Next

-----------------------------------------------------------------------------
(* What is served an engineer approved, and a version comes with its config. *)
LEMMA ServedSound ==
  ASSUME IInv, NEW g \in Gateway, NEW a \in Served(g)
  PROVE  /\ a \in [mapping : Config, version : Nat] /\ WasApproved(a.mapping)
         /\ a.version # 0 => /\ a.version \in DOMAIN versions
                            /\ a.mapping = versions[a.version].config
<1>1. versions \in Seq(Version) /\ Len(versions) \in Nat /\ DOMAIN versions = 1..Len(versions)
  BY DEF IInv, ConfigTypeOK
<1>2. CASE ActiveOf(g) # 0
  <2>1. PICK n : n = ActiveOf(g)
    OBVIOUS
  <2>2. a = [mapping |-> versions[n].config, version |-> n]
    BY <1>2, <2>1 DEF Served
  <2>3. n \in DOMAIN versions
    <3>1. Active(g) # {} /\ n = Max(Active(g))
      BY <1>2, <2>1 DEF ActiveOf, Newest
    <3>2. Active(g) \in SUBSET (0..Len(versions)) /\ Active(g) \subseteq DOMAIN versions
      BY <1>1, RowsOfScope
    <3> QED
      BY <1>1, <3>1, <3>2, MaxBounded
  <2>4. versions[n] \in Version /\ n \in Nat
    BY <1>1, <2>3
  <2>5. versions[n].config \in Config
    BY <2>4 DEF Version
  <2>6. WasApproved(versions[n].config)
    BY <2>3 DEF IInv, VersionsSound, PublishedWasApproved
  <2> QED
    BY <2>2, <2>3, <2>4, <2>5, <2>6
<1>3. CASE ActiveOf(g) = 0
  <2>1. PICK c \in Configs(g) : a = [mapping |-> c, version |-> 0]
    BY <1>3 DEF Served
  <2>2. c \in Config /\ WasApproved(c)
    BY ConfigsApproved
  <2> QED
    BY <2>1, <2>2
<1> QED
  BY <1>2, <1>3

(* The points of a config are registered. *)
LEMMA ReportType ==
  ASSUME NEW c \in Config
  PROVE  ToSetOf(c) \in SUBSET Point
BY DEF Config, ToSetOf

(* An empty mapping is a config, and nobody had to approve it. *)
LEMMA NoConfigSound == NoConfig \in Config /\ WasApproved(NoConfig)
<1>1. DOMAIN NoConfig = {} /\ NoConfig \in [{} -> Point]
  BY DEF NoConfig
<1>2. {} \in SUBSET Key
  OBVIOUS
<1>3. NoConfig \in Config
  BY <1>1, <1>2 DEF Config
<1>4. WasApproved(NoConfig)
  BY <1>1 DEF WasApproved
<1> QED
  BY <1>3, <1>4

EdgeState == [phase : {"down", "starting", "sync", "running"}, mapping : Config, version : Nat]
FileState == [mapping : Config, version : Nat]

(* The file pairs a version with the config published under it. *)
FileSound(c) ==
  c.version # 0 => /\ c.version \in DOMAIN versions
                   /\ c.mapping = versions[c.version].config

(***************************************************************************)
(* A step of a gateway, to which the cloud is as it was: what it collects  *)
(* by and what it has in its file must be sound.                           *)
(***************************************************************************)
LEMMA GatewayGoesOn ==
  ASSUME IInvAll, UNCHANGED vars, NEW g \in Gateway,
         NEW e \in EdgeState, edge' = [edge EXCEPT ![g] = e], WasApproved(e.mapping),
         NEW c \in FileState, cache' = [cache EXCEPT ![g] = c], WasApproved(c.mapping),
         FileSound(c),
         report' \in [Gateway -> SUBSET Point], collected' \in [Gateway -> Nat],
         calm' \in BOOLEAN
  PROVE  IInvAll'
<1>1. /\ edge \in [Gateway -> EdgeState] /\ cache \in [Gateway -> FileState]
      /\ IInv /\ ConfigTypeOK
  BY DEF IInvAll, TypeOK, EdgeState, FileState
<1>2. /\ edge' \in [Gateway -> EdgeState] /\ cache' \in [Gateway -> FileState]
      /\ \A h \in Gateway : /\ edge'[h] = IF h = g THEN e ELSE edge[h]
                            /\ cache'[h] = IF h = g THEN c ELSE cache[h]
  BY <1>1
<1>3. IInv' /\ ConfigTypeOK'
  BY <1>1, NextIInv DEF IInv
<1>4. TypeOK'
  BY <1>2, <1>3 DEF TypeOK, EdgeState, FileState
<1>5. CollectsApproved'
  <2>1. approved' = approved
    BY DEF vars
  <2>2. ASSUME NEW h \in Gateway
        PROVE  WasApproved(edge'[h].mapping) /\ WasApproved(cache'[h].mapping)
    BY <1>2 DEF IInvAll, CollectsApproved
  <2> QED
    BY <2>1, <2>2 DEF CollectsApproved, WasApproved
<1>6. CachedVersionIsPublished'
  <2>1. versions' = versions
    BY DEF vars
  <2>2. ASSUME NEW h \in Gateway PROVE FileSound(cache'[h])
    BY <1>2 DEF IInvAll, CachedVersionIsPublished, FileSound
  <2> QED
    BY <2>1, <2>2 DEF CachedVersionIsPublished, FileSound
<1> QED
  BY <1>3, <1>4, <1>5, <1>6 DEF IInvAll

(* A step of the cloud, to which the gateways are as they were. *)
LEMMA CloudGoesOn ==
  ASSUME IInvAll, [Next]_vars, UNCHANGED <<edge, cache, collected>>,
         report' \in [Gateway -> SUBSET Point], calm' \in BOOLEAN
  PROVE  IInvAll'
<1>1. IInv' /\ ConfigTypeOK' /\ Grows
  BY NextIInv, CloudGrows DEF IInvAll, IInv
<1>2. TypeOK'
  BY <1>1 DEF IInvAll, TypeOK
<1>3. CollectsApproved'
  BY <1>1 DEF IInvAll, CollectsApproved, WasApproved, Grows
<1>4. CachedVersionIsPublished'
  BY <1>1 DEF IInvAll, CachedVersionIsPublished, Grows
<1> QED
  BY <1>1, <1>2, <1>3, <1>4 DEF IInvAll

LEMMA GatewayTypes ==
  ASSUME IInvAll, NEW g \in Gateway
  PROVE  /\ IInv /\ edge[g] \in EdgeState /\ cache[g] \in FileState
         /\ FileSound(cache[g])
         /\ WasApproved(edge[g].mapping) /\ WasApproved(cache[g].mapping)
         /\ cache = [cache EXCEPT ![g] = cache[g]]
         /\ report \in [Gateway -> SUBSET Point] /\ collected \in [Gateway -> Nat]
         /\ calm \in BOOLEAN
<1>1. /\ IInv /\ edge \in [Gateway -> EdgeState] /\ cache \in [Gateway -> FileState]
      /\ report \in [Gateway -> SUBSET Point] /\ collected \in [Gateway -> Nat]
      /\ calm \in BOOLEAN
  BY DEF IInvAll, TypeOK, EdgeState, FileState
<1>2. FileSound(cache[g])
  BY DEF IInvAll, CachedVersionIsPublished, FileSound
<1>3. WasApproved(edge[g].mapping) /\ WasApproved(cache[g].mapping)
  BY DEF IInvAll, CollectsApproved
<1> QED
  BY <1>1, <1>2, <1>3

LEMMA AdoptSound ==
  ASSUME IInvAll, UNCHANGED vars, NEW g \in Gateway, NEW a \in Served(g),
         NEW phase \in {"sync", "running"}, Adopt(g, a, phase),
         report' \in [Gateway -> SUBSET Point], calm' \in BOOLEAN
  PROVE  IInvAll'
<1>1. /\ a \in FileState /\ WasApproved(a.mapping) /\ FileSound(a)
  BY GatewayTypes, ServedSound DEF FileState, FileSound
<1>2. PICK e : e = [phase |-> phase, mapping |-> a.mapping,
                    version |-> IF a.version = 0 THEN edge[g].version ELSE a.version]
  OBVIOUS
<1>3. e \in EdgeState /\ WasApproved(e.mapping)
  BY <1>1, <1>2, GatewayTypes DEF EdgeState, FileState
<1>4. edge' = [edge EXCEPT ![g] = e]
  BY <1>2 DEF Adopt
<1>5. PICK c : c = IF a.version # 0 /\ a.version = edge[g].version THEN cache[g] ELSE a
  OBVIOUS
<1>6. /\ c \in FileState /\ WasApproved(c.mapping) /\ FileSound(c)
  BY <1>1, <1>5, GatewayTypes
<1>7. cache' = [cache EXCEPT ![g] = c]
  <2>1. CASE a.version # 0 /\ a.version = edge[g].version
    BY <1>5, <2>1, GatewayTypes DEF Adopt
  <2>2. CASE ~ (a.version # 0 /\ a.version = edge[g].version)
    BY <1>5, <2>2 DEF Adopt
  <2> QED
    BY <2>1, <2>2
<1>8. collected' \in [Gateway -> Nat]
  <2>1. a.version \in Nat /\ collected \in [Gateway -> Nat]
    BY <1>1, GatewayTypes DEF FileState
  <2>2. collected[g] \in Nat /\ Latest(collected[g], a.version) \in Nat
    BY <2>1 DEF Latest
  <2>3. collected' = [collected EXCEPT ![g] = Latest(collected[g], a.version)]
    BY DEF Adopt
  <2> QED
    BY <2>1, <2>2, <2>3
<1> QED
  BY <1>3, <1>4, <1>6, <1>7, <1>8, GatewayGoesOn

(* A step that changes the process only, and forgets no approval. *)
LEMMA ProcessGoesOn ==
  ASSUME IInvAll, UNCHANGED vars, NEW g \in Gateway,
         NEW e \in EdgeState, edge' = [edge EXCEPT ![g] = e], WasApproved(e.mapping),
         cache' = cache, report' \in [Gateway -> SUBSET Point],
         collected' \in [Gateway -> Nat], calm' \in BOOLEAN
  PROVE  IInvAll'
<1>1. PICK c : c = cache[g]
  OBVIOUS
<1>2. c \in FileState /\ WasApproved(c.mapping) /\ FileSound(c)
  BY <1>1, GatewayTypes
<1>3. cache' = [cache EXCEPT ![g] = c]
  BY <1>1, GatewayTypes
<1> QED
  BY <1>2, <1>3, GatewayGoesOn

LEMMA GotoSound ==
  ASSUME IInvAll, UNCHANGED vars, NEW g \in Gateway, Goto(g, "running"),
         UNCHANGED <<cache, report, collected, calm>>
  PROVE  IInvAll'
<1>1. PICK e : e = [edge[g] EXCEPT !.phase = "running"]
  OBVIOUS
<1>2. e \in EdgeState /\ WasApproved(e.mapping)
  BY <1>1, GatewayTypes DEF EdgeState
<1>3. edge' = [edge EXCEPT ![g] = e]
  BY <1>1 DEF Goto
<1> QED
  BY <1>2, <1>3, GatewayTypes, ProcessGoesOn

LEMMA DiesSound ==
  ASSUME IInvAll, UNCHANGED vars, NEW g \in Gateway, edge' = [edge EXCEPT ![g] = Down],
         UNCHANGED <<cache, report, collected, calm>>
  PROVE  IInvAll'
<1>1. PICK e : e = Down
  OBVIOUS
<1>2. e \in EdgeState /\ WasApproved(e.mapping)
  BY <1>1, NoConfigSound DEF EdgeState, Down
<1>3. edge' = [edge EXCEPT ![g] = e]
  BY <1>1
<1> QED
  BY <1>2, <1>3, GatewayTypes, ProcessGoesOn

LEMMA BootSound ==
  ASSUME IInvAll, NEW g \in Gateway, Boot(g)
  PROVE  IInvAll'
<1>1. PICK e : e = [phase |-> "starting", mapping |-> NoConfig, version |-> cache[g].version]
  OBVIOUS
<1>2. e \in EdgeState /\ WasApproved(e.mapping)
  BY <1>1, GatewayTypes, NoConfigSound DEF EdgeState, FileState
<1>3. edge' = [edge EXCEPT ![g] = e]
  BY <1>1 DEF Boot
<1> QED
  BY <1>2, <1>3, GatewayTypes, ProcessGoesOn DEF Boot

LEMMA StartFromCacheSound ==
  ASSUME IInvAll, NEW g \in Gateway, StartFromCache(g)
  PROVE  IInvAll'
<1>1. PICK e : e = [phase |-> "sync", mapping |-> cache[g].mapping,
                    version |-> IF cache[g].version = 0 THEN edge[g].version
                                ELSE cache[g].version]
  OBVIOUS
<1>2. e \in EdgeState /\ WasApproved(e.mapping)
  BY <1>1, GatewayTypes DEF EdgeState, FileState
<1>3. edge' = [edge EXCEPT ![g] = e]
  BY <1>1 DEF StartFromCache
<1>4. PICK r : r = ToSetOf(cache[g].mapping)
  OBVIOUS
<1>5. r \in SUBSET Point
  BY <1>4, GatewayTypes, ReportType DEF FileState
<1>6. report' \in [Gateway -> SUBSET Point]
  <2>1. report' = [report EXCEPT ![g] = r]
    BY <1>4 DEF StartFromCache
  <2> QED
    BY <1>5, <2>1, GatewayTypes
<1>7. collected' \in [Gateway -> Nat]
  <2>1. cache[g].version \in Nat /\ collected \in [Gateway -> Nat]
    BY GatewayTypes DEF FileState
  <2>2. collected[g] \in Nat /\ Latest(collected[g], cache[g].version) \in Nat
    BY <2>1 DEF Latest
  <2>3. collected' = [collected EXCEPT ![g] = Latest(collected[g], cache[g].version)]
    BY DEF StartFromCache
  <2> QED
    BY <2>1, <2>2, <2>3
<1> QED
  BY <1>2, <1>3, <1>6, <1>7, GatewayTypes, ProcessGoesOn DEF StartFromCache

LEMMA StartFromCloudSound ==
  ASSUME IInvAll, NEW g \in Gateway, StartFromCloud(g)
  PROVE  IInvAll'
<1>1. PICK a \in Served(g) : /\ Adopt(g, a, "sync")
                             /\ report' = [report EXCEPT ![g] = ToSetOf(a.mapping)]
  BY DEF StartFromCloud
<1>2. a.mapping \in Config
  BY GatewayTypes, ServedSound
<1>3. PICK r \in SUBSET Point : r = ToSetOf(a.mapping)
  BY <1>2, ReportType
<1>4. report' = [report EXCEPT ![g] = r]
  BY <1>1, <1>3
<1>5. report' \in [Gateway -> SUBSET Point] /\ calm' \in BOOLEAN /\ UNCHANGED vars
  BY <1>4, GatewayTypes DEF StartFromCloud
<1> QED
  BY <1>1, <1>5, AdoptSound

-----------------------------------------------------------------------------
(* To the cloud every step is one of its own, or none. *)
LEMMA CloudStep ==
  ASSUME IInvAll, [NextAll]_allVars
  PROVE  [Next]_vars
<1>1. CASE UNCHANGED allVars
  BY <1>1 DEF allVars
<1>2. ASSUME NEW g \in Gateway,
             \/ Start(g) \/ Refresh(g) \/ RefreshFails(g)
             \/ StartDies(g) \/ EdgeCrash(g) \/ LoseReport(g)
      PROVE  UNCHANGED vars
  BY <1>2 DEF Start, Boot, StartFromCloud, StartFromCache, StartUnconfigured, Synced,
     Refresh, RefreshFails, StartDies, EdgeCrash, LoseReport, allVars
<1>3. ASSUME NEW s \in Server, NEW g \in Gateway, TakeReport(s, g) PROVE Next
  <2>1. report[g] \in SUBSET Point /\ BeginDiscovery(s, report[g])
    BY <1>3, GatewayTypes DEF TakeReport
  <2> QED
    BY <2>1 DEF Next
<1>4. ASSUME NEW s \in Server, Cloud(Serve(s)) \/ Cloud(Request(s)) \/ Cloud(Fault(s))
      PROVE  Next
  BY <1>4 DEF Cloud, Next
<1>5. CASE CalmDown
  BY <1>5 DEF CalmDown
<1> QED
  BY <1>1, <1>2, <1>3, <1>4, <1>5 DEF NextAll

LEMMA InitIInvAll == InitAll => IInvAll
<1> SUFFICES ASSUME InitAll PROVE IInvAll
  OBVIOUS
<1>1. IInv /\ ConfigTypeOK
  BY InitIInv DEF InitAll, IInv
<1>2. PICK e : e = Down
  OBVIOUS
<1>3. e \in EdgeState /\ WasApproved(e.mapping)
  BY <1>2, NoConfigSound DEF EdgeState, Down
<1>4. PICK c : c = [mapping |-> NoConfig, version |-> 0]
  OBVIOUS
<1>5. c \in FileState /\ WasApproved(c.mapping) /\ c.version = 0
  BY <1>4, NoConfigSound DEF FileState
<1>6. edge = [g \in Gateway |-> e] /\ cache = [g \in Gateway |-> c]
  BY <1>2, <1>4 DEF InitAll
<1>7. TypeOK
  <2>1. edge \in [Gateway -> EdgeState] /\ cache \in [Gateway -> FileState]
    BY <1>3, <1>5, <1>6
  <2>2. report \in [Gateway -> SUBSET Point] /\ collected \in [Gateway -> Nat] /\ calm \in BOOLEAN
    BY DEF InitAll
  <2> QED
    BY <1>1, <2>1, <2>2 DEF TypeOK, EdgeState, FileState
<1>8. CollectsApproved /\ CachedVersionIsPublished
  BY <1>3, <1>5, <1>6 DEF CollectsApproved, CachedVersionIsPublished
<1> QED
  BY <1>1, <1>7, <1>8 DEF IInvAll

LEMMA NextIInvAll ==
  ASSUME IInvAll, [NextAll]_allVars
  PROVE  IInvAll'
<1>1. [Next]_vars
  BY CloudStep
<1>2. /\ report \in [Gateway -> SUBSET Point] /\ collected \in [Gateway -> Nat]
      /\ calm \in BOOLEAN
  BY DEF IInvAll, TypeOK
<1>3. CASE UNCHANGED allVars
  BY <1>1, <1>2, <1>3, CloudGoesOn DEF allVars, edgeVars
<1>4. ASSUME NEW g \in Gateway, Start(g) PROVE IInvAll'
  <2>1. CASE Boot(g)
    BY <2>1, BootSound
  <2>2. CASE StartFromCloud(g)
    BY <2>2, StartFromCloudSound
  <2>3. CASE StartFromCache(g)
    BY <2>3, StartFromCacheSound
  <2>4. CASE StartUnconfigured(g) \/ Synced(g)
    BY <2>4, GotoSound DEF StartUnconfigured, Synced
  <2> QED
    BY <1>4, <2>1, <2>2, <2>3, <2>4 DEF Start
<1>5. ASSUME NEW g \in Gateway, Refresh(g) PROVE IInvAll'
  <2>1. PICK a \in Served(g) : Adopt(g, a, "running")
    BY <1>5 DEF Refresh
  <2>2. report' = report /\ calm' = calm /\ UNCHANGED vars
    BY <1>5 DEF Refresh
  <2> QED
    BY <1>2, <2>1, <2>2, AdoptSound
<1>6. ASSUME NEW g \in Gateway, StartDies(g) \/ EdgeCrash(g) PROVE IInvAll'
  BY <1>6, DiesSound DEF StartDies, EdgeCrash
<1>7. ASSUME NEW g \in Gateway, LoseReport(g) PROVE IInvAll'
  BY <1>1, <1>2, <1>7, CloudGoesOn DEF LoseReport
<1>8. ASSUME NEW g \in Gateway, NEW s \in Server, TakeReport(s, g) PROVE IInvAll'
  BY <1>1, <1>2, <1>8, CloudGoesOn DEF TakeReport
<1>9. ASSUME NEW s \in Server, Cloud(Serve(s)) \/ Cloud(Request(s)) \/ Cloud(Fault(s))
      PROVE  IInvAll'
  BY <1>1, <1>2, <1>9, CloudGoesOn DEF Cloud, edgeVars
<1>10. CASE CalmDown
  BY <1>1, <1>2, <1>10, CloudGoesOn DEF CalmDown, edgeVars
<1> QED
  BY <1>3, <1>4, <1>5, <1>6, <1>7, <1>8, <1>9, <1>10 DEF NextAll, RefreshFails

(* The invariant of the cloud and its gateways, for any number of both. *)
THEOREM CollectionInvariance == SpecAll => []IInvAll
<1>1. IInvAll /\ [NextAll]_allVars => IInvAll'
  BY NextIInvAll
<1> QED
  BY <1>1, InitIInvAll, PTL DEF SpecAll

(***************************************************************************)
(* The cloud among its gateways behaves as CollectionConfig says, so its   *)
(* theorems hold of the composed system.                                   *)
(***************************************************************************)
THEOREM CloudIsCollectionConfig == SpecAll => Spec
<1>1. InitAll => Init
  BY DEF InitAll
<1>2. IInvAll /\ [NextAll]_allVars => [Next]_vars
  BY CloudStep
<1> QED
  BY <1>1, <1>2, CollectionInvariance, PTL DEF SpecAll, Spec

(* The state of cloud and gateways keeps its types. *)
THEOREM CollectionTypes == SpecAll => []TypeOK
<1>1. IInvAll => TypeOK
  BY DEF IInvAll
<1> QED
  BY <1>1, CollectionInvariance, PTL

(* What a gateway collects, or would after a restart, an engineer approved. *)
THEOREM GatewaysCollectApprovals == SpecAll => []CollectsApproved
<1>1. IInvAll => CollectsApproved
  BY DEF IInvAll
<1> QED
  BY <1>1, CollectionInvariance, PTL

(* The file never pairs a version with another mapping than the published one. *)
THEOREM FilesNamePublished == SpecAll => []CachedVersionIsPublished
<1>1. IInvAll => CachedVersionIsPublished
  BY DEF IInvAll
<1> QED
  BY <1>1, CollectionInvariance, PTL

-----------------------------------------------------------------------------
(***************************************************************************)
(* One server process.  What a step of it does to the statuses: what was   *)
(* in force stays known as such, and only a restore takes a version out of *)
(* its retirement.                                                         *)
(***************************************************************************)
Publishing == {"insert", "supersede", "activate", "restore"}

Ripens(w) ==
  \A i \in DOMAIN versions :
    /\ i \in DOMAIN versions' /\ versions'[i].scope = versions[i].scope
    /\ versions[i].status # "DRAFT" => versions'[i].status # "DRAFT"
    /\ versions[i].status = "SUPERSEDED" =>
         \/ versions'[i].status = "SUPERSEDED"
         \/ task[w].step = "restore" /\ task[w].prev = i

(* A publish takes the version to restore from the active ones, and keeps it. *)
HandsOn(w, t) ==
  t.step \in Publishing =>
    \/ t.prev = 0
    \/ task[w].step \in Publishing /\ t.prev = task[w].prev
    \/ versions[t.prev].status = "ACTIVE"

LEMMA SupersededRipens ==
  ASSUME versions \in Seq(Version), NEW scope, NEW i \in DOMAIN versions
  PROVE  /\ i \in DOMAIN Superseded(scope)
         /\ Superseded(scope)[i].scope = versions[i].scope
         /\ Superseded(scope)[i].status = "DRAFT" <=> versions[i].status = "DRAFT"
         /\ versions[i].status = "SUPERSEDED" => Superseded(scope)[i].status = "SUPERSEDED"
<1>1. versions[i] \in Version
  OBVIOUS
<1>2. i \in Active(scope) => versions[i].status = "ACTIVE"
  BY DEF Active
<1>3. PICK row : row = Superseded(scope)[i]
  OBVIOUS
<1>4. row = IF i \in Active(scope) THEN [versions[i] EXCEPT !.status = "SUPERSEDED"]
            ELSE versions[i]
  BY <1>3 DEF Superseded
<1>5. i \in DOMAIN Superseded(scope)
  BY DEF Superseded
<1> QED
  BY <1>1, <1>2, <1>3, <1>4, <1>5 DEF Version

LEMMA WithStatusRipens ==
  ASSUME versions \in Seq(Version), NEW n, NEW i \in DOMAIN versions
  PROVE  /\ i \in DOMAIN WithStatus(n, "ACTIVE")
         /\ WithStatus(n, "ACTIVE")[i].scope = versions[i].scope
         /\ WithStatus(n, "ACTIVE")[i].status =
              IF i = n THEN "ACTIVE" ELSE versions[i].status
<1>1. versions[i] \in Version
  OBVIOUS
<1>2. PICK row : row = WithStatus(n, "ACTIVE")[i]
  OBVIOUS
<1>3. row = IF i = n THEN [versions[i] EXCEPT !.status = "ACTIVE"] ELSE versions[i]
  BY <1>2 DEF WithStatus
<1>4. i \in DOMAIN WithStatus(n, "ACTIVE")
  BY DEF WithStatus
<1> QED
  BY <1>1, <1>2, <1>3, <1>4 DEF Version

(* A step of the server that ripens the versions keeps the invariant. *)
LEMMA RipeGoesOn ==
  ASSUME NEW w \in Server, Server = {w}, IInvOne, IInvAll', IInvAlone',
         UNCHANGED <<edge, cache, collected>>, Ripens(w),
         NEW t, Begin(w, t), HandsOn(w, t), RowIsDraft(t)'
  PROVE  IInvOne'
<1>1. /\ IInvAll /\ RestartResumes /\ NeverOlder /\ CollectedWasInForce /\ StartsEmpty
      /\ \A g \in Gateway : InMemoryAlone(g) => Gone(edge[g].version)
  BY DEF IInvOne, Forward
<1>2. task'[w] = t
  BY <1>1 DEF IInvAll, IInv, ConfigTypeOK, Begin
<1>3. RestartResumes' /\ NeverOlder' /\ StartsEmpty'
  BY <1>1 DEF RestartResumes, NeverOlder, StartsEmpty
<1>4. CollectedWasInForce'
  BY <1>1 DEF CollectedWasInForce, Ripens
<1>5. RowIsDraft(task[w])'
  BY <1>2 DEF RowIsDraft
<1>6. ASSUME NEW g \in Gateway, InMemoryAlone(g)' PROVE Gone(edge[g].version)'
  <2>1. InMemoryAlone(g) /\ edge'[g].version = edge[g].version
    BY <1>6 DEF InMemoryAlone
  <2>2. PICK n : n = edge[g].version
    OBVIOUS
  <2>3. n # 0 /\ n = collected[g] /\ n \in DOMAIN versions
    BY <1>1, <2>1, <2>2 DEF InMemoryAlone, NeverOlder, CollectedWasInForce
  <2>4. /\ versions[n].status = "SUPERSEDED"
        /\ task[w].step \in Publishing => task[w].prev # n
    BY <1>1, <2>1, <2>2 DEF Gone, Publishing
  <2>5. versions'[n].status = "SUPERSEDED"
    BY <2>3, <2>4 DEF Ripens, Publishing
  <2>6. t.step \in Publishing => t.prev # n
    BY <2>3, <2>4 DEF HandsOn
  <2> QED
    BY <1>2, <2>1, <2>2, <2>5, <2>6 DEF Gone, Publishing
<1>7. NoneReactivated'
  BY DEF IInvAlone
<1> QED
  BY <1>3, <1>4, <1>5, <1>6, <1>7 DEF IInvOne, Forward

-----------------------------------------------------------------------------
(* The steps of the server. *)

(* Those that leave the versions alone and are no part of a replacement. *)
LEMMA OtherwiseRipe ==
  ASSUME NEW w \in Server, Server = {w}, IInvOne, IInvAll', IInvAlone',
         UNCHANGED <<edge, cache, collected>>, versions' = versions,
         \E t : Begin(w, t) /\ t.step \notin Publishing
  PROVE  IInvOne'
<1>1. PICK t : Begin(w, t) /\ t.step \notin Publishing
  OBVIOUS
<1>2. Ripens(w)
  BY DEF Ripens
<1>3. HandsOn(w, t) /\ RowIsDraft(t)'
  BY <1>1 DEF HandsOn, RowIsDraft, Publishing
<1> QED
  BY <1>1, <1>2, <1>3, RipeGoesOn

LEMMA ReturnRipe ==
  ASSUME NEW w \in Server, Server = {w}, IInvOne, IInvAll', IInvAlone',
         UNCHANGED <<edge, cache, collected>>, Ripens(w), Return(w)
  PROVE  IInvOne'
<1>1. PICK t : t = Idle
  OBVIOUS
<1>2. Begin(w, t) /\ t.step = "idle"
  BY <1>1 DEF Return, Idle
<1>3. HandsOn(w, t) /\ RowIsDraft(t)'
  BY <1>2 DEF HandsOn, RowIsDraft, Publishing
<1> QED
  BY <1>2, <1>3, RipeGoesOn

LEMMA AppendRipens ==
  ASSUME IInv, NEW w, NEW status,
         \/ versions' = Append(versions, Row(task[w], status))
         \/ versions' = Append(Superseded(task[w].scope), Row(task[w], status))
  PROVE  /\ Ripens(w) /\ DOMAIN versions' = 1..(Len(versions) + 1)
         /\ versions'[Len(versions) + 1].status = status
<1>1. /\ versions \in Seq(Version) /\ Len(versions) \in Nat
      /\ DOMAIN versions = 1..Len(versions)
  BY DEF IInv, ConfigTypeOK
<1>2. PICK row : row = Row(task[w], status)
  OBVIOUS
<1>3. row.status = status
  BY <1>2 DEF Row
<1>4. CASE versions' = Append(versions, Row(task[w], status))
  <2>1. /\ DOMAIN versions' = 1..(Len(versions) + 1)
        /\ versions'[Len(versions) + 1] = row
        /\ \A i \in DOMAIN versions : versions'[i] = versions[i]
    BY <1>1, <1>2, <1>4
  <2> QED
    BY <1>1, <1>3, <2>1 DEF Ripens
<1>5. CASE versions' = Append(Superseded(task[w].scope), Row(task[w], status))
  <2>1. PICK table : table = Superseded(task[w].scope)
    OBVIOUS
  <2>2. table \in Seq(Version) /\ Len(table) = Len(versions)
    BY <1>1, <2>1, SupersededRelabels DEF Relabelled
  <2>3. /\ DOMAIN versions' = 1..(Len(versions) + 1)
        /\ versions'[Len(versions) + 1] = row
        /\ \A i \in DOMAIN versions : versions'[i] = table[i]
    BY <1>1, <1>2, <1>5, <2>1, <2>2
  <2>4. ASSUME NEW i \in DOMAIN versions
        PROVE  /\ table[i].scope = versions[i].scope
               /\ table[i].status = "DRAFT" <=> versions[i].status = "DRAFT"
               /\ versions[i].status = "SUPERSEDED" => table[i].status = "SUPERSEDED"
    BY <1>1, <2>1, SupersededRipens
  <2> QED
    BY <1>1, <1>3, <2>3, <2>4 DEF Ripens
<1> QED
  BY <1>4, <1>5

LEMMA FindPreviousRipe ==
  ASSUME NEW w \in Server, Server = {w}, IInvOne, IInvAll', IInvAlone',
         UNCHANGED <<edge, cache, collected>>, FindPrevious(w)
  PROVE  IInvOne'
<1>1. PICK scope, c, r, v : /\ scope = task[w].scope /\ c = task[w].config
                            /\ r = task[w].revision /\ v = Previous(task[w].scope)
  OBVIOUS
<1>2. PICK t : t = [step |-> "insert", scope |-> scope, config |-> c, revision |-> r,
                    prev |-> v]
  OBVIOUS
<1>3. Begin(w, t) /\ versions' = versions /\ t.step = "insert" /\ t.prev = v
  BY <1>1, <1>2 DEF FindPrevious
<1>4. v = 0 \/ versions[v].status = "ACTIVE"
  <2>1. versions \in Seq(Version) /\ Len(versions) \in Nat
    BY AloneTypes DEF IInvOne
  <2>2. PICK rows : rows = Active(task[w].scope)
    OBVIOUS
  <2>3. rows \in SUBSET (0..Len(versions))
    BY <2>1, <2>2, RowsOfScope
  <2>4. rows # {} => v \in rows
    BY <1>1, <2>1, <2>2, <2>3, MaxBounded DEF Previous, Newest
  <2>5. rows = {} => v = 0
    BY <1>1, <2>2 DEF Previous, Newest
  <2> QED
    BY <2>2, <2>4, <2>5 DEF Active
<1>5. Ripens(w)
  BY <1>3 DEF Ripens
<1>6. HandsOn(w, t) /\ RowIsDraft(t)'
  BY <1>3, <1>4 DEF HandsOn, RowIsDraft
<1> QED
  BY <1>3, <1>5, <1>6, RipeGoesOn

LEMMA InsertDraftRipe ==
  ASSUME NEW w \in Server, Server = {w}, IInvOne, IInvAll', IInvAlone',
         UNCHANGED <<edge, cache, collected>>, InsertDraft(w)
  PROVE  IInvOne'
<1>1. PICK scope, n, v : scope = task[w].scope /\ n = Len(versions) + 1 /\ v = task[w].prev
  OBVIOUS
<1>2. PICK t : t = [step |-> "supersede", scope |-> scope, row |-> n, prev |-> v]
  OBVIOUS
<1>3. /\ Begin(w, t) /\ t.step = "supersede" /\ t.row = n /\ t.prev = v
      /\ task[w].step = "insert"
  BY <1>1, <1>2 DEF InsertDraft, At
<1>4. Ripens(w) /\ n \in DOMAIN versions' /\ versions'[n].status = "DRAFT"
  <2>1. IInvAlone /\ IInv /\ versions' = Append(versions, Row(task[w], "DRAFT"))
    BY DEF IInvOne, IInvAll, InsertDraft
  <2>2. /\ Ripens(w) /\ DOMAIN versions' = 1..(Len(versions) + 1)
        /\ versions'[Len(versions) + 1].status = "DRAFT"
    BY <2>1, AppendRipens
  <2>3. Len(versions) + 1 \in 1..(Len(versions) + 1)
    BY <2>1, AloneTypes
  <2> QED
    BY <1>1, <2>2, <2>3
<1>5. HandsOn(w, t) /\ RowIsDraft(t)'
  BY <1>1, <1>3, <1>4 DEF HandsOn, RowIsDraft, Publishing
<1> QED
  BY <1>3, <1>4, <1>5, RipeGoesOn

LEMMA SupersedeRipens ==
  ASSUME IInvAlone, NEW w, versions' = Superseded(task[w].scope)
  PROVE  /\ Ripens(w)
         /\ \A i \in DOMAIN versions : versions[i].status = "DRAFT" =>
              i \in DOMAIN versions' /\ versions'[i].status = "DRAFT"
<1>1. versions \in Seq(Version)
  BY AloneTypes
<1>2. ASSUME NEW i \in DOMAIN versions
      PROVE  /\ i \in DOMAIN versions'
             /\ versions'[i].scope = versions[i].scope
             /\ versions'[i].status = "DRAFT" <=> versions[i].status = "DRAFT"
             /\ versions[i].status = "SUPERSEDED" => versions'[i].status = "SUPERSEDED"
  BY <1>1, SupersededRipens
<1> QED
  BY <1>2 DEF Ripens

LEMMA SupersedeRipe ==
  ASSUME NEW w \in Server, Server = {w}, IInvOne, IInvAll', IInvAlone',
         UNCHANGED <<edge, cache, collected>>, Supersede(w)
  PROVE  IInvOne'
<1>1. task[w] \in Task /\ task[w].step = "supersede"
  BY DEF Supersede, At, IInvOne, IInvAll, IInv, ConfigTypeOK
<1>2. PICK t : t = [task[w] EXCEPT !.step = "activate"]
  OBVIOUS
<1>3. /\ Begin(w, t) /\ t.step = "activate"
      /\ t.row = task[w].row /\ t.prev = task[w].prev
  BY <1>1, <1>2 DEF Supersede, Task, Idle
<1>4. task[w].row \in DOMAIN versions /\ versions[task[w].row].status = "DRAFT"
  BY <1>1 DEF IInvOne, RowIsDraft
<1>5. Ripens(w) /\ task[w].row \in DOMAIN versions' /\ versions'[task[w].row].status = "DRAFT"
  BY <1>4, SupersedeRipens DEF Supersede, IInvOne
<1>6. HandsOn(w, t) /\ RowIsDraft(t)'
  BY <1>1, <1>3, <1>5 DEF HandsOn, RowIsDraft, Publishing
<1> QED
  BY <1>3, <1>5, <1>6, RipeGoesOn

LEMMA ActivateRipens ==
  ASSUME NEW w \in Server, IInvOne, task[w].step = "activate",
         versions' = WithStatus(task[w].row, "ACTIVE")
  PROVE  Ripens(w)
<1>1. versions \in Seq(Version) /\ versions[task[w].row].status = "DRAFT"
  BY AloneTypes DEF IInvOne, RowIsDraft
<1>2. ASSUME NEW i \in DOMAIN versions
      PROVE  /\ i \in DOMAIN versions' /\ versions'[i].scope = versions[i].scope
             /\ versions'[i].status = IF i = task[w].row THEN "ACTIVE" ELSE versions[i].status
  BY <1>1, WithStatusRipens
<1> QED
  BY <1>1, <1>2 DEF Ripens

LEMMA RestoreRipe ==
  ASSUME NEW w \in Server, Server = {w}, IInvOne, IInvAll', IInvAlone',
         UNCHANGED <<edge, cache, collected>>, Restore(w)
  PROVE  IInvOne'
<1>1. versions \in Seq(Version) /\ task[w].step = "restore"
  BY AloneTypes DEF IInvOne, Restore, At
<1>2. CASE task[w].prev = 0
  BY <1>2, ReturnRipe DEF Restore, Ripens
<1>3. CASE task[w].prev # 0
  <2>1. versions' = WithStatus(task[w].prev, "ACTIVE")
    BY <1>3 DEF Restore
  <2>2. ASSUME NEW i \in DOMAIN versions
        PROVE  /\ i \in DOMAIN versions' /\ versions'[i].scope = versions[i].scope
               /\ versions'[i].status = IF i = task[w].prev THEN "ACTIVE" ELSE versions[i].status
    BY <1>1, <2>1, WithStatusRipens
  <2>3. Ripens(w)
    BY <1>1, <2>2 DEF Ripens
  <2> QED
    BY <2>3, ReturnRipe DEF Restore
<1> QED
  BY <1>2, <1>3

LEMMA PublishRaisesRipe ==
  ASSUME NEW w \in Server, Server = {w}, IInvOne, IInvAll', IInvAlone',
         UNCHANGED <<edge, cache, collected>>, PublishRaises(w)
  PROVE  IInvOne'
<1>1. IInvAlone /\ IInv
  BY DEF IInvOne, IInvAll
<1>2. Ripens(w)
  <2>1. CASE versions' = Append(versions, Row(task[w], "DRAFT"))
    BY <1>1, <2>1, AppendRipens
  <2>2. CASE versions' = Superseded(task[w].scope)
    BY <1>1, <2>2, SupersedeRipens
  <2>3. CASE task[w].step = "activate" /\ versions' = WithStatus(task[w].row, "ACTIVE")
    BY <2>3, ActivateRipens
  <2>4. CASE versions' = versions
    BY <2>4 DEF Ripens
  <2> QED
    BY <2>1, <2>2, <2>3, <2>4 DEF PublishRaises, At
<1>3. CASE Return(w)
  BY <1>2, <1>3, ReturnRipe
<1>4. CASE /\ task[w].step \in {"supersede", "activate"}
           /\ Begin(w, [step |-> "restore", prev |-> task[w].prev])
  <2>1. PICK v : v = task[w].prev
    OBVIOUS
  <2>2. PICK t : t = [step |-> "restore", prev |-> v]
    OBVIOUS
  <2>3. Begin(w, t) /\ t.step = "restore" /\ t.prev = v
    BY <1>4, <2>1, <2>2
  <2>4. HandsOn(w, t) /\ RowIsDraft(t)'
    BY <1>4, <2>1, <2>3 DEF HandsOn, RowIsDraft, Publishing
  <2> QED
    BY <1>2, <2>3, <2>4, RipeGoesOn
<1> QED
  BY <1>3, <1>4 DEF PublishRaises, At

LEMMA CloudKeepsOne ==
  ASSUME NEW w \in Server, Server = {w}, IInvOne, IInvAll', IInvAlone',
         UNCHANGED <<edge, cache, collected>>, [Next]_vars
  PROVE  IInvOne'
<1>1. IInvAlone /\ IInv
  BY DEF IInvOne, IInvAll
<1>2. CASE UNCHANGED vars
  BY <1>2 DEF vars, IInvOne, Forward, NoneReactivated, RestartResumes, NeverOlder,
     CollectedWasInForce, StartsEmpty, RowIsDraft, InMemoryAlone, Gone
<1>3. ASSUME NEW p \in Point, NEW m \in Meta, Decide(w, p, m) PROVE IInvOne'
  <2>1. PICK t : t = [step |-> "update", point |-> p, meta |-> m]
    OBVIOUS
  <2>2. Begin(w, t) /\ t.step = "update" /\ versions' = versions
    BY <1>3, <2>1 DEF Decide
  <2> QED
    BY <2>2, OtherwiseRipe DEF Publishing
<1>4. ASSUME NEW scope \in Scope, StartPublish(w, scope) PROVE IInvOne'
  <2>1. PICK c : Begin(w, [step |-> "revision", scope |-> scope, config |-> c])
    BY <1>4 DEF StartPublish
  <2>2. PICK t : t = [step |-> "revision", scope |-> scope, config |-> c]
    OBVIOUS
  <2>3. Begin(w, t) /\ t.step = "revision" /\ versions' = versions
    BY <1>4, <2>1, <2>2 DEF StartPublish
  <2> QED
    BY <2>3, OtherwiseRipe DEF Publishing
<1>5. CASE Update(w)
  <2>1. PICK t : t = [step |-> "audit"]
    OBVIOUS
  <2>2. Begin(w, t) /\ t.step = "audit" /\ versions' = versions
    BY <1>5, <2>1 DEF Update
  <2> QED
    BY <2>2, OtherwiseRipe DEF Publishing
<1>6. ASSUME NEW points \in SUBSET Point, BeginDiscovery(w, points) PROVE IInvOne'
  <2>1. PICK t : t = [step |-> "discover", todo |-> points]
    OBVIOUS
  <2>2. Begin(w, t) /\ t.step = "discover" /\ versions' = versions
    BY <1>6, <2>1 DEF BeginDiscovery
  <2> QED
    BY <2>2, OtherwiseRipe DEF Publishing
<1>7. ASSUME NEW p \in Point, Discover(w, p) \/ DiscoverRaises(w, p) PROVE IInvOne'
  <2>1. PICK t \in Task : Begin(w, t) /\ t.step \in {"idle", "discover"}
    BY <1>1, <1>7, RestOfBatch DEF IInvAlone, Discover, DiscoverRaises
  <2>2. versions' = versions
    BY <1>7 DEF Discover, DiscoverRaises
  <2> QED
    BY <2>1, <2>2, OtherwiseRipe DEF Publishing
<1>8. CASE Record(w) \/ DecisionRaises(w) \/ Crash(w)
  <2>1. Return(w) /\ Ripens(w)
    BY <1>8 DEF Record, DecisionRaises, Crash, Ripens
  <2> QED
    BY <2>1, ReturnRipe
<1>9. CASE ReadRevision(w)
  <2>1. PICK scope, c, r : /\ scope = task[w].scope /\ c = task[w].config
                           /\ r = NextRevision(task[w].scope)
    OBVIOUS
  <2>2. PICK t : t = [step |-> "publish", scope |-> scope, config |-> c, revision |-> r]
    OBVIOUS
  <2>3. Begin(w, t) /\ t.step = "publish" /\ versions' = versions
    BY <1>9, <2>1, <2>2 DEF ReadRevision
  <2> QED
    BY <2>3, OtherwiseRipe DEF Publishing
<1>10. CASE PublishDraft(w) \/ PublishActive(w)
  <2>1. Return(w) /\ Ripens(w)
    BY <1>1, <1>10, AppendRipens DEF PublishDraft, PublishActive
  <2> QED
    BY <2>1, ReturnRipe
<1>11. CASE FindPrevious(w) \/ InsertDraft(w) \/ Supersede(w)
  BY <1>11, FindPreviousRipe, InsertDraftRipe, SupersedeRipe
<1>12. CASE Activate(w)
  BY <1>12, ActivateRipens, ReturnRipe DEF Activate, At
<1>13. CASE Restore(w) \/ PublishRaises(w)
  BY <1>13, RestoreRipe, PublishRaisesRipe
<1> QED
  BY <1>2, <1>3, <1>4, <1>5, <1>6, <1>7, <1>8, <1>9, <1>10, <1>11, <1>12, <1>13
     DEF Next, Request, Serve, Fault

-----------------------------------------------------------------------------
(* The steps of the gateways, to which the cloud is as it was. *)

NobodyPublishes == \A s \in Server : task[s].step \notin Publishing

(* What a gateway must hold in memory, in its file and as its newest version. *)
HoldsSound(g, e, c, n) ==
  /\ e.phase \in {"sync", "running"} => e.mapping = c.mapping
  /\ e.phase = "starting" => e.mapping = NoConfig
  /\ {e.version, c.version} \subseteq {0, n}
  /\ n # 0 => /\ n \in DOMAIN versions /\ versions[n].scope = g
              /\ versions[n].status # "DRAFT"
  /\ e.version # 0 /\ c.version = 0 => Gone(e.version)

LEMMA HeldSound ==
  ASSUME Forward, NEW g \in Gateway
  PROVE  HoldsSound(g, edge[g], cache[g], collected[g])
BY DEF Forward, RestartResumes, NeverOlder, CollectedWasInForce, StartsEmpty, InMemoryAlone,
   HoldsSound

LEMMA GatewayGoesForward ==
  ASSUME IInvAll, Forward, UNCHANGED vars, NEW g \in Gateway,
         NEW e, edge' = [edge EXCEPT ![g] = e], NEW c, cache' = [cache EXCEPT ![g] = c],
         NEW n, collected' = [collected EXCEPT ![g] = n], HoldsSound(g, e, c, n)
  PROVE  Forward'
<1>1. /\ \A h \in Gateway : /\ edge'[h] = IF h = g THEN e ELSE edge[h]
                            /\ cache'[h] = IF h = g THEN c ELSE cache[h]
                            /\ collected'[h] = IF h = g THEN n ELSE collected[h]
      /\ versions' = versions /\ task' = task
  BY DEF IInvAll, TypeOK, vars
<1>2. ASSUME NEW h \in Gateway PROVE HoldsSound(h, edge'[h], cache'[h], collected'[h])
  BY <1>1, HeldSound
<1>3. RestartResumes' /\ NeverOlder' /\ StartsEmpty'
  BY <1>2 DEF HoldsSound, RestartResumes, NeverOlder, StartsEmpty
<1>4. CollectedWasInForce'
  BY <1>1, <1>2 DEF HoldsSound, CollectedWasInForce
<1>5. NoneReactivated'
  BY <1>1 DEF Forward, NoneReactivated
<1>6. ASSUME NEW h \in Gateway, InMemoryAlone(h)' PROVE Gone(edge[h].version)'
  BY <1>1, <1>2, <1>6 DEF HoldsSound, InMemoryAlone, Gone
<1> QED
  BY <1>3, <1>4, <1>5, <1>6 DEF Forward

(* The version served is the newest of the gateway's own active ones. *)
LEMMA ServedIsNewest ==
  ASSUME IInv, NEW g \in Gateway, NEW a \in Served(g)
  PROVE  /\ a.version \in Nat
         /\ a.version # 0 =>
              /\ a.version \in DOMAIN versions /\ versions[a.version].scope = g
              /\ versions[a.version].status = "ACTIVE"
              /\ a.mapping = versions[a.version].config
         /\ \A i \in DOMAIN versions :
              versions[i].scope = g /\ versions[i].status = "ACTIVE" => i <= a.version
<1>1. /\ versions \in Seq(Version) /\ Len(versions) \in Nat
      /\ DOMAIN versions = 1..Len(versions)
  BY DEF IInv, ConfigTypeOK
<1>2. PICK rows : rows = Active(g)
  OBVIOUS
<1>3. \A i : i \in rows <=> /\ i \in DOMAIN versions /\ versions[i].scope = g
                            /\ versions[i].status = "ACTIVE"
  BY <1>2, ConfigAssumption DEF Active, OfScope, InScope
<1>4. PICK n : n = ActiveOf(g)
  OBVIOUS
<1>5. CASE rows = {}
  <2>1. n = 0
    BY <1>2, <1>4, <1>5 DEF ActiveOf, Newest
  <2>2. a.version = 0
    BY <1>4, <2>1 DEF Served
  <2> QED
    BY <1>3, <1>5, <2>2
<1>6. CASE rows # {}
  <2>1. n \in rows /\ \A i \in rows : i <= n
    <3>1. rows \in SUBSET (0..Len(versions))
      BY <1>1, <1>3
    <3> QED
      BY <1>1, <1>2, <1>4, <1>6, <3>1, MaxBounded DEF ActiveOf, Newest
  <2>2. n # 0
    BY <1>1, <1>3, <2>1
  <2>3. a = [mapping |-> versions[n].config, version |-> n]
    BY <1>4, <2>2 DEF Served
  <2> QED
    BY <1>1, <1>3, <2>1, <2>3
<1> QED
  BY <1>5, <1>6

LEMMA AdoptGoesForward ==
  ASSUME IInvAll, Forward, UNCHANGED vars, NobodyPublishes,
         NEW g \in Gateway, NEW a \in Served(g),
         NEW phase \in {"sync", "running"}, Adopt(g, a, phase)
  PROVE  Forward'
<1>1. /\ HoldsSound(g, edge[g], cache[g], collected[g]) /\ collected[g] \in Nat
      /\ IInv /\ FileSound(cache[g]) /\ versions \in Seq(Version)
      /\ DOMAIN versions = 1..Len(versions) /\ Len(versions) \in Nat
      /\ cache = [cache EXCEPT ![g] = cache[g]]
  <2>1. collected[g] \in Nat
    BY GatewayTypes
  <2>2. IInv /\ versions \in Seq(Version)
    BY DEF IInvAll, IInv, ConfigTypeOK
  <2> QED
    BY <2>1, <2>2, HeldSound, GatewayTypes
<1>2. /\ a.version \in Nat
      /\ a.version # 0 =>
           /\ a.version \in DOMAIN versions /\ versions[a.version].scope = g
           /\ versions[a.version].status = "ACTIVE"
           /\ a.mapping = versions[a.version].config
      /\ \A i \in DOMAIN versions :
           versions[i].scope = g /\ versions[i].status = "ACTIVE" => i <= a.version
  BY <1>1, ServedIsNewest
<1>3. \A s \in Server : task[s].step \notin Publishing
  BY DEF NobodyPublishes
<1>4. PICK v, u, m : v = edge[g].version /\ u = collected[g] /\ m = a.mapping
  OBVIOUS
<1>5. u # 0 => /\ u \in DOMAIN versions /\ versions[u].scope = g
               /\ versions[u].status \in {"ACTIVE", "SUPERSEDED"}
  <2>1. u # 0 => u \in DOMAIN versions /\ versions[u].scope = g /\ versions[u].status # "DRAFT"
    BY <1>1, <1>4 DEF HoldsSound
  <2>2. u \in DOMAIN versions => versions[u] \in Version
    BY <1>1
  <2> QED
    BY <2>1, <2>2 DEF Version
<1>6. CASE a.version = 0
  <2>1. PICK e : e = [phase |-> phase, mapping |-> m, version |-> v]
    OBVIOUS
  <2>2. PICK c : c = a
    OBVIOUS
  <2>3. edge' = [edge EXCEPT ![g] = e] /\ cache' = [cache EXCEPT ![g] = c]
    BY <1>4, <1>6, <2>1, <2>2 DEF Adopt
  <2>4. collected' = [collected EXCEPT ![g] = u]
    <3>1. Latest(collected[g], a.version) = u
      BY <1>1, <1>4, <1>6 DEF Latest
    <3> QED
      BY <3>1 DEF Adopt
  <2>5. v \in {0, u}
    BY <1>1, <1>4 DEF HoldsSound
  <2>6. u # 0 => versions[u].status = "SUPERSEDED"
    BY <1>1, <1>2, <1>5, <1>6
  <2>7. u # 0 => Gone(u)
    BY <1>3, <2>6 DEF Gone, Publishing
  <2>8. HoldsSound(g, e, c, u)
    BY <1>4, <1>5, <1>6, <2>1, <2>2, <2>5, <2>7 DEF HoldsSound
  <2> QED
    BY <2>3, <2>4, <2>8, GatewayGoesForward
<1>7. CASE a.version # 0
  <2>1. PICK n : n = a.version
    OBVIOUS
  <2>2. PICK e : e = [phase |-> phase, mapping |-> m, version |-> n]
    OBVIOUS
  <2>3. edge' = [edge EXCEPT ![g] = e]
    BY <1>4, <1>7, <2>1, <2>2 DEF Adopt
  <2>4. u <= n
    <3>1. CASE u = 0 \/ versions[u].status = "ACTIVE"
      BY <1>1, <1>2, <1>4, <1>5, <2>1, <3>1
    <3>2. CASE u # 0 /\ versions[u].status = "SUPERSEDED" /\ n < u
      BY <1>1, <1>2, <1>5, <1>7, <2>1, <3>2 DEF Forward, NoneReactivated
    <3> QED
      BY <1>1, <1>2, <1>4, <1>5, <2>1, <3>1, <3>2
  <2>5. collected' = [collected EXCEPT ![g] = n]
    <3>1. Latest(collected[g], a.version) = n
      BY <1>1, <1>2, <1>4, <2>1, <2>4 DEF Latest
    <3> QED
      BY <3>1 DEF Adopt
  <2>6. CASE n # v
    <3>1. PICK c : c = a
      OBVIOUS
    <3>2. cache' = [cache EXCEPT ![g] = c]
      BY <1>4, <2>1, <2>6, <3>1 DEF Adopt
    <3>3. HoldsSound(g, e, c, n)
      BY <1>2, <1>4, <1>7, <2>1, <2>2, <3>1 DEF HoldsSound
    <3> QED
      BY <2>3, <2>5, <3>2, <3>3, GatewayGoesForward
  <2>7. CASE n = v
    <3>1. PICK c : c = cache[g]
      OBVIOUS
    <3>2. cache' = [cache EXCEPT ![g] = c]
      BY <1>1, <1>4, <1>7, <2>1, <2>7, <3>1 DEF Adopt
    <3>3. c.version = n
      <4>1. c.version \in {0, u} /\ v \in {0, u}
        BY <1>1, <1>4, <3>1 DEF HoldsSound
      <4>2. c.version # 0
        BY <1>1, <1>2, <1>4, <1>7, <2>1, <2>7, <3>1 DEF HoldsSound, Gone
      <4> QED
        BY <1>7, <2>1, <2>7, <4>1, <4>2
    <3>4. c.mapping = m
      BY <1>1, <1>2, <1>4, <1>7, <2>1, <3>1, <3>3 DEF FileSound
    <3>5. HoldsSound(g, e, c, n)
      BY <1>2, <1>7, <2>1, <2>2, <3>3, <3>4 DEF HoldsSound
    <3> QED
      BY <2>3, <2>5, <3>2, <3>5, GatewayGoesForward
  <2> QED
    BY <2>6, <2>7
<1> QED
  BY <1>6, <1>7

(* A step that changes the process only. *)
LEMMA ProcessGoesForward ==
  ASSUME IInvAll, Forward, UNCHANGED vars, NEW g \in Gateway,
         NEW e, edge' = [edge EXCEPT ![g] = e],
         UNCHANGED cache, collected' = [collected EXCEPT ![g] = collected[g]],
         HoldsSound(g, e, cache[g], collected[g])
  PROVE  Forward'
<1>1. PICK c, n : c = cache[g] /\ n = collected[g]
  OBVIOUS
<1>2. cache' = [cache EXCEPT ![g] = c]
  BY <1>1, GatewayTypes
<1>3. collected' = [collected EXCEPT ![g] = n] /\ HoldsSound(g, e, c, n)
  BY <1>1
<1> QED
  BY <1>2, <1>3, GatewayGoesForward

LEMMA SameCollected ==
  ASSUME IInvAll, NEW g \in Gateway, collected' = collected
  PROVE  collected' = [collected EXCEPT ![g] = collected[g]]
BY DEF IInvAll, TypeOK

LEMMA StartGoesForward ==
  ASSUME IInvAll, Forward, ServerFree => NobodyPublishes, NEW g \in Gateway, Start(g)
  PROVE  Forward'
<1>1. HoldsSound(g, edge[g], cache[g], collected[g])
  BY HeldSound
<1>2. edge[g] \in EdgeState /\ collected[g] \in Nat
  BY GatewayTypes
<1>3. CASE Boot(g)
  <2>1. PICK e : e = [phase |-> "starting", mapping |-> NoConfig, version |-> cache[g].version]
    OBVIOUS
  <2>2. edge' = [edge EXCEPT ![g] = e] /\ UNCHANGED vars /\ UNCHANGED cache
    BY <1>3, <2>1 DEF Boot
  <2>3. HoldsSound(g, e, cache[g], collected[g])
    BY <1>1, <2>1 DEF HoldsSound
  <2> QED
    BY <1>3, <2>2, <2>3, SameCollected, ProcessGoesForward DEF Boot
<1>4. CASE StartFromCloud(g)
  BY <1>4, AdoptGoesForward DEF StartFromCloud
<1>5. CASE StartFromCache(g)
  <2>1. PICK v : v = IF cache[g].version = 0 THEN edge[g].version ELSE cache[g].version
    OBVIOUS
  <2>2. PICK e : e = [phase |-> "sync", mapping |-> cache[g].mapping, version |-> v]
    OBVIOUS
  <2>3. edge' = [edge EXCEPT ![g] = e] /\ UNCHANGED vars /\ UNCHANGED cache
    BY <1>5, <2>1, <2>2 DEF StartFromCache
  <2>4. HoldsSound(g, e, cache[g], collected[g])
    BY <1>1, <2>1, <2>2 DEF HoldsSound
  <2>5. collected' = [collected EXCEPT ![g] = collected[g]]
    <3>1. Latest(collected[g], cache[g].version) = collected[g]
      BY <1>1, <1>2 DEF HoldsSound, Latest
    <3> QED
      BY <1>5, <3>1 DEF StartFromCache
  <2> QED
    BY <2>3, <2>4, <2>5, ProcessGoesForward
<1>6. CASE StartUnconfigured(g) \/ Synced(g)
  <2>1. PICK e : e = [edge[g] EXCEPT !.phase = "running"]
    OBVIOUS
  <2>2. /\ edge' = [edge EXCEPT ![g] = e] /\ UNCHANGED vars
        /\ UNCHANGED cache /\ UNCHANGED collected
    BY <1>6, <2>1 DEF StartUnconfigured, Synced, Goto
  <2>3. /\ e.phase = "running" /\ e.mapping = edge[g].mapping
        /\ e.version = edge[g].version
    BY <1>2, <2>1 DEF EdgeState
  <2>4. e.mapping = cache[g].mapping
    BY <1>1, <1>6, <2>3 DEF StartUnconfigured, Synced, HoldsSound
  <2>5. HoldsSound(g, e, cache[g], collected[g])
    BY <1>1, <2>3, <2>4 DEF HoldsSound
  <2> QED
    BY <2>2, <2>5, SameCollected, ProcessGoesForward
<1> QED
  BY <1>3, <1>4, <1>5, <1>6 DEF Start

LEMMA DiesGoesForward ==
  ASSUME IInvAll, Forward, NEW g \in Gateway, StartDies(g) \/ EdgeCrash(g)
  PROVE  Forward'
<1>1. HoldsSound(g, edge[g], cache[g], collected[g])
  BY HeldSound
<1>2. PICK e : e = Down
  OBVIOUS
<1>3. /\ edge' = [edge EXCEPT ![g] = e] /\ UNCHANGED vars
      /\ UNCHANGED cache /\ UNCHANGED collected
  BY <1>2 DEF StartDies, EdgeCrash
<1>4. HoldsSound(g, e, cache[g], collected[g])
  BY <1>1, <1>2 DEF HoldsSound, Down
<1> QED
  BY <1>3, <1>4, SameCollected, ProcessGoesForward

(* A step of a gateway, by itself. *)
GatewaySteps(g) == Start(g) \/ Refresh(g) \/ StartDies(g) \/ EdgeCrash(g)

LEMMA GatewayStepsForward ==
  ASSUME IInvAll, Forward, ServerFree => NobodyPublishes, NEW g \in Gateway, GatewaySteps(g)
  PROVE  Forward' /\ UNCHANGED vars
<1>1. UNCHANGED vars
  BY DEF GatewaySteps, Start, Boot, StartFromCloud, StartFromCache, StartUnconfigured, Synced,
     Refresh, StartDies, EdgeCrash
<1> QED
  BY <1>1, StartGoesForward, AdoptGoesForward, DiesGoesForward DEF GatewaySteps, Refresh

(* Every other step leaves the gateways as they are. *)
LEMMA OtherwiseGatewaysStay ==
  ASSUME [NextAll]_allVars, \A g \in Gateway : ~ GatewaySteps(g)
  PROVE  UNCHANGED <<edge, cache, collected>>
<1>1. ASSUME NEW g \in Gateway, RefreshFails(g) \/ LoseReport(g)
      PROVE  UNCHANGED <<edge, cache, collected>>
  BY <1>1 DEF RefreshFails, LoseReport, allVars, edgeVars
<1>2. ASSUME NEW s \in Server, NEW g \in Gateway, TakeReport(s, g)
      PROVE  UNCHANGED <<edge, cache, collected>>
  BY <1>2 DEF TakeReport
<1>3. ASSUME NEW s \in Server, Cloud(Serve(s)) \/ Cloud(Request(s)) \/ Cloud(Fault(s))
      PROVE  UNCHANGED <<edge, cache, collected>>
  BY <1>3 DEF Cloud, edgeVars
<1>4. CASE CalmDown \/ UNCHANGED allVars
  BY <1>4 DEF CalmDown, allVars, edgeVars
<1> QED
  BY <1>1, <1>2, <1>3, <1>4 DEF NextAll, GatewaySteps

LEMMA NextIInvOne ==
  ASSUME NEW w \in Server, Server = {w}, IInvOne, [NextAll]_allVars
  PROVE  IInvOne'
<1>1. [Next]_vars /\ IInvAll'
  BY CloudStep, NextIInvAll DEF IInvOne
<1>2. IInvAlone'
  BY <1>1, NextIInvAlone DEF IInvOne
<1>3. CASE \A g \in Gateway : ~ GatewaySteps(g)
  BY <1>1, <1>2, <1>3, OtherwiseGatewaysStay, CloudKeepsOne
<1>4. ASSUME NEW g \in Gateway, GatewaySteps(g) PROVE IInvOne'
  <2>1. ServerFree => NobodyPublishes
    BY DEF ServerFree, NobodyPublishes, At, Publishing
  <2>2. Forward' /\ UNCHANGED vars
    BY <1>4, <2>1, GatewayStepsForward DEF IInvOne
  <2>3. \A s \in Server : RowIsDraft(task[s])'
    BY <2>2 DEF vars, IInvOne, RowIsDraft
  <2> QED
    BY <1>1, <1>2, <2>2, <2>3 DEF IInvOne
<1> QED
  BY <1>3, <1>4

LEMMA InitForward == InitAll => Forward
<1> SUFFICES ASSUME InitAll PROVE Forward
  OBVIOUS
<1>1. PICK e : e = Down
  OBVIOUS
<1>2. e.phase = "down" /\ e.version = 0 /\ \A g \in Gateway : edge[g] = e
  BY <1>1 DEF InitAll, Down
<1>3. \A g \in Gateway : cache[g].version = 0 /\ collected[g] = 0
  BY DEF InitAll
<1>4. RestartResumes /\ NeverOlder /\ CollectedWasInForce /\ StartsEmpty
  BY <1>2, <1>3 DEF RestartResumes, NeverOlder, CollectedWasInForce, StartsEmpty
<1>5. \A g \in Gateway : ~ InMemoryAlone(g)
  BY <1>2 DEF InMemoryAlone
<1>6. NoneReactivated
  BY DEF InitAll, Init, NoneReactivated
<1> QED
  BY <1>4, <1>5, <1>6 DEF Forward

LEMMA InitIInvOne ==
  ASSUME NEW w \in Server, Server = {w}
  PROVE  InitAll => IInvOne
<1> SUFFICES ASSUME InitAll PROVE IInvOne
  OBVIOUS
<1>1. IInvAll /\ IInvAlone /\ Forward
  BY InitIInvAll, InitIInvAlone, InitForward DEF InitAll
<1>2. PICK t : t = Idle
  OBVIOUS
<1>3. t.step = "idle" /\ \A s \in Server : task[s] = t
  BY <1>2 DEF InitAll, Init, Idle
<1>4. \A s \in Server : RowIsDraft(task[s])
  BY <1>3 DEF RowIsDraft
<1> QED
  BY <1>1, <1>4 DEF IInvOne

(***************************************************************************)
(* With one server process, as deployed: the file holds what the running   *)
(* gateway collects by, so that a restart without the cloud goes on.       *)
(***************************************************************************)
THEOREM RestartsResume ==
  ASSUME NEW CONSTANT w \in Server, Server = {w}
  PROVE  SpecAll => []RestartResumes
<1>1. IInvOne /\ [NextAll]_allVars => IInvOne'
  BY NextIInvOne
<1>2. IInvOne => RestartResumes
  BY DEF IInvOne, Forward
<1> QED
  BY <1>1, <1>2, InitIInvOne, PTL DEF SpecAll

(***************************************************************************)
(* With one server process a gateway never returns to an older version     *)
(* than it has collected by, whatever publishes fail and roll back.        *)
(***************************************************************************)
THEOREM GatewaysMoveForward ==
  ASSUME NEW CONSTANT w \in Server, Server = {w}
  PROVE  SpecAll => []NeverOlder
<1>1. IInvOne /\ [NextAll]_allVars => IInvOne'
  BY NextIInvOne
<1>2. IInvOne => NeverOlder
  BY DEF IInvOne, Forward
<1> QED
  BY <1>1, <1>2, InitIInvOne, PTL DEF SpecAll

-----------------------------------------------------------------------------
(***************************************************************************)
(* Over SQLite, with any number of servers: nothing is between the steps   *)
(* of a publish, so a retired version stays retired.                       *)
(***************************************************************************)
LEMMA SqliteGoesForward ==
  ASSUME IInvSqlite, [Next]_vars, IInvAll', UNCHANGED <<edge, cache, collected>>
  PROVE  IInvSqlite'
<1>1. IInv /\ Forward /\ store = "sqlite"
  BY DEF IInvSqlite, IInvAll
<1>2. /\ store' = "sqlite"
      /\ \/ versions' = versions
         \/ \E s \in Server :
              \/ versions' = Append(versions, Row(task[s], "DRAFT"))
              \/ versions' = Append(Superseded(task[s].scope), Row(task[s], "ACTIVE"))
  BY <1>1, SqliteStep
<1>3. /\ \A s \in Server : task[s].step \notin Publishing
      /\ \A s \in Server : task'[s].step \notin Publishing
  BY <1>1, <1>2 DEF IInvAll, IInv, TaskSound, Publishing
<1>4. \A i \in DOMAIN versions :
        /\ i \in DOMAIN versions' /\ versions'[i].scope = versions[i].scope
        /\ versions[i].status # "DRAFT" => versions'[i].status # "DRAFT"
        /\ versions[i].status = "SUPERSEDED" => versions'[i].status = "SUPERSEDED"
  <2>1. CASE versions' = versions
    BY <2>1
  <2>2. ASSUME NEW s \in Server,
               \/ versions' = Append(versions, Row(task[s], "DRAFT"))
               \/ versions' = Append(Superseded(task[s].scope), Row(task[s], "ACTIVE"))
        PROVE  Ripens(s)
    BY <1>1, <2>2, AppendRipens
  <2> QED
    BY <1>2, <1>3, <2>1, <2>2 DEF Ripens, Publishing
<1>5. NoneReactivated'
  BY <1>1, SqliteOrder DEF Forward
<1>6. RestartResumes' /\ NeverOlder' /\ StartsEmpty'
  BY <1>1 DEF Forward, RestartResumes, NeverOlder, StartsEmpty
<1>7. CollectedWasInForce'
  BY <1>1, <1>4 DEF Forward, CollectedWasInForce
<1>8. ASSUME NEW g \in Gateway, InMemoryAlone(g)' PROVE Gone(edge[g].version)'
  <2>1. InMemoryAlone(g) /\ edge'[g].version = edge[g].version
    BY <1>8 DEF InMemoryAlone
  <2>2. PICK n : n = edge[g].version
    OBVIOUS
  <2>3. n # 0 /\ n = collected[g] /\ n \in DOMAIN versions
    BY <1>1, <2>1, <2>2 DEF InMemoryAlone, Forward, NeverOlder, CollectedWasInForce
  <2>4. versions[n].status = "SUPERSEDED"
    BY <1>1, <2>1, <2>2 DEF Forward, Gone
  <2> QED
    BY <1>3, <1>4, <2>1, <2>2, <2>3, <2>4 DEF Gone, Publishing
<1> QED
  BY <1>2, <1>5, <1>6, <1>7, <1>8 DEF IInvSqlite, Forward

LEMMA NextIInvSqlite ==
  ASSUME IInvSqlite, [NextAll]_allVars
  PROVE  IInvSqlite'
<1>1. [Next]_vars /\ IInvAll'
  BY CloudStep, NextIInvAll DEF IInvSqlite
<1>2. CASE \A g \in Gateway : ~ GatewaySteps(g)
  BY <1>1, <1>2, OtherwiseGatewaysStay, SqliteGoesForward
<1>3. ASSUME NEW g \in Gateway, GatewaySteps(g) PROVE IInvSqlite'
  <2>1. NobodyPublishes
    BY DEF IInvSqlite, IInvAll, IInv, TaskSound, NobodyPublishes, Publishing
  <2>2. Forward' /\ UNCHANGED vars
    BY <1>3, <2>1, GatewayStepsForward DEF IInvSqlite
  <2> QED
    BY <1>1, <2>2 DEF IInvSqlite, vars
<1> QED
  BY <1>2, <1>3

(***************************************************************************)
(* Over SQLite, however many server processes there are, no version is     *)
(* active while a later one of its scope is superseded, the file holds     *)
(* what the running gateway collects by, and a gateway never returns to an *)
(* older version than it has collected by.                                 *)
(***************************************************************************)
THEOREM SqliteMovesForward ==
  SpecAll /\ store = "sqlite" => [](NoneReactivated /\ RestartResumes /\ NeverOlder)
<1>1. IInvSqlite /\ [NextAll]_allVars => IInvSqlite'
  BY NextIInvSqlite
<1>2. InitAll /\ store = "sqlite" => IInvSqlite
  BY InitIInvAll, InitForward DEF IInvSqlite
<1>3. IInvSqlite => NoneReactivated /\ RestartResumes /\ NeverOlder
  BY DEF IInvSqlite, Forward
<1> QED
  BY <1>1, <1>2, <1>3, PTL DEF SpecAll
=============================================================================
