---------------------------- MODULE ConfigRollout ----------------------------
(***************************************************************************)
(* What publishing a configuration promises the gateways, seen from        *)
(* outside: releases are drafted from approvals, enter force, make way for *)
(* a successor and may return while it has not been in force; a gateway    *)
(* collects by the newest release in force in its own scope, or, where     *)
(* there is none, by what is approved; it keeps what it collects by over   *)
(* its restarts, and never goes back to an older release.  There are no    *)
(* handlers, requests, failures or files.                                  *)
(***************************************************************************)
EXTENDS Naturals, Sequences

CONSTANTS
  Gateway,
  Building    \* the scope of a release for all gateways of the building

VARIABLES
  approvals,  \* key and point of every approval there was
  releases,   \* all releases, in their order
  runs,       \* per gateway: the mapping it collects by
  keeps,      \* per gateway: the mapping it would resume
  newest      \* per gateway: the newest release it has collected by

gateways == <<runs, keeps, newest>>
vars == <<approvals, releases, gateways>>

Nothing == <<>>

Init ==
  /\ approvals = {}
  /\ releases = <<>>
  /\ runs = [g \in Gateway |-> Nothing]
  /\ keeps = [g \in Gateway |-> Nothing]
  /\ newest = [g \in Gateway |-> 0]

Approved(config) == \A k \in DOMAIN config : <<k, config[k]>> \in approvals

(* Engineers approve; what they take back stays in the history. *)
Approves == approvals \subseteq approvals' /\ UNCHANGED <<releases, gateways>>

-----------------------------------------------------------------------------
(* Releases. *)

Covers(scope, i) == scope \in {releases[i].scope, Building}
Status(i) == releases[i].status
Last == Len(releases)

Retired(scope) ==
  [i \in DOMAIN releases |->
     IF Covers(scope, i) /\ Status(i) = "ACTIVE"
     THEN [releases[i] EXCEPT !.status = "SUPERSEDED"] ELSE releases[i]]

EntersForce(i) == releases' = [releases EXCEPT ![i].status = "ACTIVE"]

(* A release names what was approved, and is the newest of those it covers. *)
Fresh(r) ==
  /\ Approved(r.config)
  /\ \A i \in DOMAIN releases : Covers(r.scope, i) => releases[i].revision < r.revision

Drafted(r) ==
  /\ Fresh(r) /\ r.status = "DRAFT"
  /\ releases' = Append(releases, r)

(* In one step: those it covers make way, and it enters force. *)
Published(r) ==
  /\ Fresh(r) /\ r.status = "ACTIVE"
  /\ releases' = Append(Retired(r.scope), r)

(* In two: nothing makes way but for a draft that is the last release. *)
MakesWay ==
  /\ releases # <<>> /\ Status(Last) = "DRAFT"
  /\ releases' = Retired(releases[Last].scope)

Follows ==
  /\ releases # <<>> /\ Status(Last) = "DRAFT"
  /\ \A i \in DOMAIN releases : Covers(releases[Last].scope, i) => Status(i) # "ACTIVE"
  /\ EntersForce(Last)

(* Back after a failure, unless a later one has been in force and retired. *)
Returns(i) ==
  /\ Status(i) = "SUPERSEDED"
  /\ \A j \in DOMAIN releases :
       j > i /\ releases[j].scope = releases[i].scope => Status(j) # "SUPERSEDED"
  /\ EntersForce(i)

Publishing ==
  /\ \/ /\ Len(releases') = Len(releases) + 1
        /\ LET r == releases'[Len(releases')] IN Drafted(r) \/ Published(r)
     \/ MakesWay \/ Follows
     \/ \E i \in DOMAIN releases : Returns(i)
  /\ UNCHANGED <<approvals, gateways>>

-----------------------------------------------------------------------------
(* Gateways. *)

InForce(g) == {i \in DOMAIN releases : releases[i].scope = g /\ Status(i) = "ACTIVE"}

CollectsBy(g, config) ==
  /\ runs' = [runs EXCEPT ![g] = config]
  /\ keeps' = [keeps EXCEPT ![g] = config]

(* The newest in force in its scope, and never older than it had before. *)
Takes(g, i) ==
  /\ i \in InForce(g) /\ \A j \in InForce(g) : j <= i
  /\ newest[g] <= i
  /\ CollectsBy(g, releases[i].config)
  /\ newest' = [newest EXCEPT ![g] = i]

(* Where none is in force. *)
TakesUnreleased(g, config) ==
  /\ InForce(g) = {}
  /\ Approved(config) /\ config # Nothing
  /\ CollectsBy(g, config)
  /\ UNCHANGED newest

(* It dies, or is started with nothing yet. *)
Stops(g) ==
  /\ runs' = [runs EXCEPT ![g] = Nothing]
  /\ UNCHANGED <<keeps, newest>>

Resumes(g) ==
  /\ runs[g] = Nothing
  /\ runs' = [runs EXCEPT ![g] = keeps[g]]
  /\ UNCHANGED <<keeps, newest>>

Collecting(g) ==
  /\ \/ \E i \in DOMAIN releases : Takes(g, i)
     \/ TakesUnreleased(g, runs'[g])
     \/ Stops(g) \/ Resumes(g)
  /\ UNCHANGED <<approvals, releases>>

Next == Approves \/ Publishing \/ \E g \in Gateway : Collecting(g)

Spec == Init /\ [][Next]_vars
=============================================================================
