---------------------------- MODULE ServicesProofs --------------------------
(***************************************************************************)
(* Proofs about CloudServices, for every value of its constants.  Each     *)
(* part is treated alone: the steps of the others leave its state as it    *)
(* was, and a behaviour never changes the part it follows (PartSteps).  So *)
(* for each part there is an invariant about its variables, shown to hold  *)
(* initially and to be preserved by its steps, and a theorem.              *)
(***************************************************************************)
EXTENDS CloudServices, FiniteSetTheorems, SequenceTheorems, WellFoundedInduction, TLAPS

(* A behaviour follows one part for good, and takes the steps of its module. *)
LEMMA PartSteps ==
  ASSUME [Next]_vars
  PROVE  /\ part' = part
         /\ part = "operations" => Ops!Next \/ UNCHANGED operations
         /\ part = "faults" => Rows!Next \/ UNCHANGED storedRows
         /\ part = "recommendations" => Desk!Next \/ UNCHANGED desk
         /\ part = "savings" => Money!Next \/ UNCHANGED money
         /\ part = "evaluation" => Rules!Next \/ UNCHANGED rules
         /\ part = "fleet" => Edges!Next \/ UNCHANGED edges
         /\ part = "health" => Health!Next \/ UNCHANGED current
         /\ part = "snapshots" => Snapshots!Next \/ UNCHANGED snapshots
         /\ part = "commissioning" => Setup!Next \/ UNCHANGED setup
         /\ part = "agent" => Agent!Next \/ UNCHANGED agent
         /\ part = "buildings" => Owners!Next \/ UNCHANGED owners
<1> USE DEF Operating, ButOperations, KeepingFaults, Recommending, Saving, Evaluating,
            Connecting, ButFleet, Watching, Showing, SettingUp, Pushing, Registering, others
<1>1. CASE Next
  BY <1>1 DEF Next
<1>2. CASE UNCHANGED vars
  BY <1>2 DEF vars
<1> QED
  BY <1>1, <1>2

-----------------------------------------------------------------------------
(* Recommendations. *)

Approved == {"APPROVED", "SCHEDULED", "IMPLEMENTED", "MONITORING", "VERIFIED"}

(* Only the step to APPROVED enters the states of Approved from outside,    *)
(* and only the step to REJECTED takes an approval back.                    *)
DeskInv ==
  /\ storedRecs \in [Desk!Recs -> Desk!State \cup {None}]
  /\ storedDecision \in [Desk!Recs -> {"none", "approved", "rejected"}]
  /\ \A r \in Desk!Recs : storedRecs[r] \in Approved => storedDecision[r] = "approved"

LEMMA DeskStart ==
  ASSUME PartsAssumption, Init
  PROVE  DeskInv
BY DEF PartsAssumption, Init, DeskInv, Approved, Desk!Init, Desk!RecommendationsAssumption, Desk!State

LEMMA DeskInvariant ==
  ASSUME PartsAssumption, DeskInv, Desk!Next \/ UNCHANGED desk
  PROVE  DeskInv'
<1>0. None \notin Desk!State
  BY DEF PartsAssumption, Desk!RecommendationsAssumption
<1>1. ASSUME NEW f \in StoredSubject, Desk!Generate(f)
      PROVE  DeskInv'
  <2>1. CASE UNCHANGED desk
    BY <2>1 DEF DeskInv, desk
  <2>2. CASE /\ \E n \in Desk!Free(f) : storedRecs' = [storedRecs EXCEPT ![<<f, n>>] = "RECOMMENDED"]
             /\ UNCHANGED storedDecision
    <3>1. PICK n \in Desk!Free(f) : storedRecs' = [storedRecs EXCEPT ![<<f, n>>] = "RECOMMENDED"]
      BY <2>2
    <3>2. "RECOMMENDED" \in Desk!State /\ "RECOMMENDED" \notin Approved
      BY DEF Desk!State, Approved
    <3> QED
      BY <2>2, <3>1, <3>2 DEF DeskInv
  <2> QED
    BY <1>1, <2>1, <2>2 DEF Desk!Generate, Desk!Upserted, Desk!vars, desk
<1>2. ASSUME NEW r \in Desk!Recs, NEW s \in Desk!State, Desk!Transition(r, s)
      PROVE  DeskInv'
  <2>1. /\ storedRecs' = [storedRecs EXCEPT ![r] = s]
        /\ storedDecision' = [storedDecision EXCEPT ![r] = Desk!Decided(s, @)]
        /\ s \in Desk!Valid(storedRecs[r]) /\ storedRecs[r] \in Desk!State
    BY <1>2 DEF Desk!Transition, Desk!Upserted, Desk!Made, DeskInv
  <2>2. Desk!Decided(s, storedDecision[r]) \in {"none", "approved", "rejected"}
    BY DEF Desk!Decided, DeskInv
  <2>3. s \in Approved => Desk!Decided(s, storedDecision[r]) = "approved"
    BY <2>1 DEF Desk!Valid, Desk!Decided, Desk!State, Approved, DeskInv
  <2> QED
    BY <2>1, <2>2, <2>3 DEF DeskInv
<1> QED
  BY <1>1, <1>2 DEF Desk!Next, DeskInv, desk

(* No recommendation comes to be implemented, monitored or verified on an   *)
(* approval that a later rejection took back: VALID_TRANSITIONS of          *)
(* recommendations_store.py leaves REJECTED only to states before APPROVED. *)
THEOREM NothingWithoutApproval == Spec => []ImplementedWasApproved
<1> DEFINE Inv == part = "recommendations" => DeskInv
<1>1. Init => Inv
  BY DeskStart, PartsAssumption
<1>2. Inv /\ [Next]_vars => Inv'
  BY PartSteps, DeskInvariant, PartsAssumption
<1>3. Inv => ImplementedWasApproved
  BY DEF DeskInv, ImplementedWasApproved, Desk!ImplementedWasApproved, Desk!Made, Approved
<1> QED
  BY <1>1, <1>2, <1>3, PTL DEF Spec

-----------------------------------------------------------------------------
(* Rows of faults. *)

RowsInv ==
  /\ storedFaults \in [Rows!FaultId -> Rows!Row \cup {None}]
  /\ storedAudit \in [Rows!FaultId -> Rows!FAULT_STATUSES \cup {None}]
  /\ storedUnaudited \subseteq Rows!FaultId
  /\ Rows!AuditTells

LEMMA RowsStart ==
  ASSUME PartsAssumption, Init
  PROVE  RowsInv
BY DEF PartsAssumption, Init, RowsInv, Rows!Init, Rows!AuditTells, Rows!Stored, Rows!FaultsAssumption

(* Whatever was stored, a detection leaves a row that is DETECTED. *)
LEMMA DetectionsAreDetected ==
  ASSUME RowsInv, NEW c \in StoredCondition
  PROVE  LET row == Rows!Detected(Rows!IdOf(c), c)
         IN  row \in Rows!Row /\ row.status = "DETECTED"
<1>1. Rows!IdOf(c) \in Rows!FaultId /\ c.building \in Rows!Building
  BY DEF Rows!FaultId, Rows!Building
<1>2. CASE storedFaults[Rows!IdOf(c)] = None
  BY <1>1, <1>2 DEF Rows!Detected, Rows!Fresh, Rows!Row, Rows!FAULT_STATUSES
<1>3. CASE storedFaults[Rows!IdOf(c)] # None
  <2>1. storedFaults[Rows!IdOf(c)] \in Rows!Row
    BY <1>1, <1>3 DEF RowsInv
  <2> QED
    BY <1>3, <2>1 DEF Rows!Detected, Rows!OnConflict, Rows!Merged, Rows!Row, Rows!FAULT_STATUSES
<1> QED
  BY <1>2, <1>3

LEMMA RowsInvariant ==
  ASSUME PartsAssumption, RowsInv, Rows!Next \/ UNCHANGED storedRows
  PROVE  RowsInv'
<1>1. ASSUME NEW c \in StoredCondition, Rows!Upsert(c)
      PROVE  RowsInv'
  <2>1. Rows!IdOf(c) \in Rows!FaultId
    BY DEF Rows!FaultId
  <2>2. PICK row \in Rows!Row : /\ row.status = "DETECTED"
                                /\ storedFaults' = [storedFaults EXCEPT ![Rows!IdOf(c)] = row]
    BY <1>1, DetectionsAreDetected DEF Rows!Upsert
  <2> QED
    BY <1>1, <2>1, <2>2 DEF RowsInv, Rows!AuditTells, Rows!Stored, Rows!Upsert
<1>2. ASSUME NEW C \in SUBSET StoredCondition, Rows!Evaluate(C)
      PROVE  RowsInv'
  <2>1. ASSUME NEW f \in Rows!FaultId
        PROVE  \/ storedFaults'[f] = storedFaults[f]
               \/ storedFaults'[f] \in Rows!Row /\ storedFaults'[f].status = "DETECTED"
    <3>1. CASE \E c \in C : Rows!IdOf(c) = f
      <4>1. PICK c \in C : c = CHOOSE d \in C : Rows!IdOf(d) = f
        BY <3>1
      <4>2. Rows!IdOf(c) = f
        BY <3>1, <4>1
      <4>3. storedFaults'[f] = Rows!Detected(f, c)
        BY <1>2, <3>1, <4>1 DEF Rows!Evaluate
      <4> QED
        BY <4>2, <4>3, DetectionsAreDetected
    <3>2. CASE ~ \E c \in C : Rows!IdOf(c) = f
      BY <1>2, <3>2 DEF Rows!Evaluate
    <3> QED
      BY <3>1, <3>2
  <2>2. storedFaults' = [f \in Rows!FaultId |-> storedFaults'[f]]
    BY <1>2 DEF Rows!Evaluate
  <2>3. storedFaults' \in [Rows!FaultId -> Rows!Row \cup {None}]
    <3>1. \A f \in Rows!FaultId : storedFaults'[f] \in Rows!Row \cup {None}
      BY <2>1 DEF RowsInv
    <3> QED
      BY <2>2, <3>1
  <2>4. UNCHANGED <<storedAudit, storedUnaudited>>
    BY <1>2 DEF Rows!Evaluate
  <2> QED
    BY <2>1, <2>3, <2>4 DEF RowsInv, Rows!AuditTells, Rows!Stored
<1>3. ASSUME NEW f \in Rows!FaultId, NEW s \in Rows!FAULT_STATUSES,
             Rows!Transition(f, s) \/ Rows!TransitionUnaudited(f, s)
      PROVE  RowsInv'
  <2>1. storedFaults[f] \in Rows!Row
    BY <1>3 DEF Rows!Transition, Rows!TransitionUnaudited, Rows!Stored, RowsInv
  <2>2. Rows!Moved(f, s) \in Rows!Row /\ Rows!Moved(f, s).status = s
    BY <2>1 DEF Rows!Moved, Rows!OnConflict, Rows!Row
  <2>3. CASE Rows!Transition(f, s)
    BY <2>2, <2>3 DEF RowsInv, Rows!AuditTells, Rows!Stored, Rows!Transition
  <2>4. CASE Rows!TransitionUnaudited(f, s)
    BY <2>2, <2>4 DEF RowsInv, Rows!AuditTells, Rows!Stored, Rows!TransitionUnaudited
  <2> QED
    BY <1>3, <2>3, <2>4
<1>4. CASE UNCHANGED storedRows
  BY <1>4 DEF storedRows, RowsInv, Rows!AuditTells, Rows!Stored
<1> QED
  BY <1>1, <1>2, <1>3, <1>4 DEF Rows!Next

LEMMA OtherPartsKeepRows ==
  ASSUME [Next]_vars, part # "faults"
  PROVE  UNCHANGED storedRows
BY DEF Next, vars, Operating, ButOperations, KeepingFaults, Recommending, Saving, Evaluating,
       Connecting, ButFleet, Watching, Showing, SettingUp, Pushing, Registering, others

(* The audit trail of fdd_fault_store.py names the status of every fault    *)
(* that an engineer moved, unless the event of that move was not written.   *)
THEOREM TrailIsTrue == Spec => []AuditTells
<1> DEFINE Inv == part = "faults" => RowsInv
<1>1. Init => Inv
  BY RowsStart, PartsAssumption
<1>2. Inv /\ [Next]_vars => Inv'
  BY PartSteps, RowsInvariant, PartsAssumption
<1>3. Inv => AuditTells
  BY DEF RowsInv, AuditTells
<1> QED
  BY <1>1, <1>2, <1>3, PTL DEF Spec

(* A row once stored is only ever written with its status changed. *)
LEMMA RowsKeepFirstSeen ==
  ASSUME PartsAssumption, RowsInv, Rows!Next \/ UNCHANGED storedRows
  PROVE  Rows!FirstSeenKept
<1> SUFFICES ASSUME NEW f \in Rows!Stored
             PROVE  /\ storedFaults'[f] # None
                    /\ storedFaults'[f].building = storedFaults[f].building
                    /\ storedFaults'[f].seen = storedFaults[f].seen
  BY DEF Rows!FirstSeenKept
<1>1. f \in Rows!FaultId /\ storedFaults[f] \in Rows!Row /\ None \notin Rows!Row
  BY DEF Rows!Stored, RowsInv, PartsAssumption, Rows!FaultsAssumption
<1>2. \/ storedFaults'[f] = storedFaults[f]
      \/ \E s \in Rows!FAULT_STATUSES : storedFaults'[f] = [storedFaults[f] EXCEPT !.status = s]
  <2>1. \A c : Rows!IdOf(c) = f => Rows!Detected(f, c) = [storedFaults[f] EXCEPT !.status = "DETECTED"]
    BY <1>1 DEF Rows!Stored, Rows!Detected, Rows!OnConflict, Rows!Merged
  <2>2. ASSUME NEW c \in StoredCondition, Rows!Upsert(c)
        PROVE  storedFaults'[f] = storedFaults[f] \/ (storedFaults'[f] = Rows!Detected(f, c) /\ Rows!IdOf(c) = f)
    BY <1>1, <2>2 DEF Rows!Upsert, RowsInv
  <2>3. ASSUME NEW C, Rows!Evaluate(C)
        PROVE  storedFaults'[f] = storedFaults[f] \/ \E c : storedFaults'[f] = Rows!Detected(f, c) /\ Rows!IdOf(c) = f
    BY <1>1, <2>3 DEF Rows!Evaluate
  <2>4. ASSUME NEW g \in Rows!FaultId, NEW s \in Rows!FAULT_STATUSES,
               Rows!Transition(g, s) \/ Rows!TransitionUnaudited(g, s)
        PROVE  storedFaults'[f] = storedFaults[f] \/ storedFaults'[f] = [storedFaults[f] EXCEPT !.status = s]
    BY <1>1, <2>4 DEF Rows!Transition, Rows!TransitionUnaudited, Rows!Moved, Rows!OnConflict, RowsInv
  <2> QED
    BY <2>1, <2>2, <2>3, <2>4 DEF Rows!Next, storedRows, Rows!FAULT_STATUSES
<1> QED
  BY <1>1, <1>2 DEF Rows!Row

(* A fault stored in fdd_faults keeps its building and the time of its      *)
(* first detection through every detection and transition, although         *)
(* upsert_fault computes a new time for one that was resolved: the upsert   *)
(* of telemetry_store.py does not write it.                                 *)
THEOREM FirstDetectionStands == Spec => Rows!FirstSeenStands
<1> DEFINE Inv == part = "faults" => RowsInv
<1>1. Init => Inv
  BY RowsStart, PartsAssumption
<1>2. Inv /\ [Next]_vars => Inv'
  BY PartSteps, RowsInvariant, PartsAssumption
<1>3. Inv /\ [Next]_vars => [Rows!FirstSeenKept]_storedRows
  <2>1. CASE part = "faults"
    BY <2>1, PartSteps, RowsKeepFirstSeen, PartsAssumption
  <2>2. CASE part # "faults"
    BY <2>2, OtherPartsKeepRows
  <2> QED
    BY <2>1, <2>2
<1> QED
  BY <1>1, <1>2, <1>3, PTL DEF Spec, Rows!FirstSeenStands, Rows!vars, storedRows

-----------------------------------------------------------------------------
(* Savings. *)

MoneyInv ==
  /\ opps \in [Opportunity -> Money!Row \cup {None}]
  /\ measured \in [Opportunity -> Money!Energies]
  /\ Money!AmountIsMeasured

LEMMA MoneyStart ==
  ASSUME PartsAssumption, Init
  PROVE  MoneyInv
BY DEF PartsAssumption, Init, MoneyInv, Money!Init, Money!AmountIsMeasured, Money!Made,
       Money!SavingsAssumption, Money!Energies

LEMMA MoneyInvariant ==
  ASSUME PartsAssumption, MoneyInv, Money!Next \/ UNCHANGED money
  PROVE  MoneyInv'
<1>0. Energy \subseteq Nat /\ None \notin Nat /\ None \notin Money!Row
  BY DEF PartsAssumption, Money!SavingsAssumption
<1>1. ASSUME NEW o \in Opportunity, NEW e \in Energy, Money!Compute(o, e)
      PROVE  MoneyInv'
  <2>1. PICK row : /\ row \in Money!Row
                   /\ row.amount = None
                   /\ opps' = [opps EXCEPT ![o] = row]
    <3> DEFINE new == [state |-> "POTENTIAL", baseline |-> e,
                       actual |-> None, after |-> None, amount |-> None]
    <3>1. new \in Money!Row
      BY DEF Money!Row, Money!State, Money!Energies
    <3>2. CASE o \in Money!Made /\ backend = "sqlite"
      <4>1. opps[o] \in Money!Row
        BY <3>2 DEF Money!Made, MoneyInv
      <4>2. opps' = [opps EXCEPT ![o] = [new EXCEPT !.baseline = opps[o].baseline]]
        BY <1>1, <3>2 DEF Money!Compute, Money!Upserted
      <4>3. /\ [new EXCEPT !.baseline = opps[o].baseline] \in Money!Row
            /\ [new EXCEPT !.baseline = opps[o].baseline].amount = None
        BY <3>1, <4>1 DEF Money!Row
      <4> HIDE DEF new
      <4> QED
        BY <4>2, <4>3
    <3>3. CASE ~(o \in Money!Made /\ backend = "sqlite")
      <4>1. opps' = [opps EXCEPT ![o] = new]
        BY <1>1, <3>3 DEF Money!Compute, Money!Upserted
      <4> QED
        BY <3>1, <4>1
    <3> QED
      BY <3>2, <3>3
  <2>2. measured' = [measured EXCEPT ![o] = None]
    BY <1>1 DEF Money!Compute
  <2> QED
    BY <2>1, <2>2 DEF MoneyInv, Money!AmountIsMeasured, Money!Made, Money!Energies
<1>2. ASSUME NEW o \in Opportunity, NEW s \in Money!State, Money!Transition(o, s)
      PROVE  MoneyInv'
  <2>1. opps[o] \in Money!Row
    BY <1>2 DEF Money!Transition, Money!Made, MoneyInv
  <2>2. PICK row : /\ row \in Money!Row
                   /\ row.baseline = opps[o].baseline /\ row.after = opps[o].after
                   /\ row.amount = opps[o].amount
                   /\ opps' = [opps EXCEPT ![o] = row]
    <3>1. opps' = [opps EXCEPT ![o] = [opps[o] EXCEPT !.state = s]]
      BY <1>2 DEF Money!Transition
    <3> QED
      BY <2>1, <3>1 DEF Money!Row
  <2>3. UNCHANGED measured
    BY <1>2 DEF Money!Transition
  <2> QED
    BY <2>1, <2>2, <2>3, <1>0 DEF MoneyInv, Money!AmountIsMeasured, Money!Made
<1>3. ASSUME NEW o \in Opportunity, NEW e \in Energy, NEW d \in Days, Money!Verify(o, e, d)
      PROVE  MoneyInv'
  <2>1. opps[o] \in Money!Row
    BY <1>3 DEF Money!Verify, Money!Made, MoneyInv
  <2>2. CASE d < Money!MIN_DAYS
    <3>1. /\ opps' = [opps EXCEPT ![o] = Money!Monitored(opps[o], e)]
          /\ UNCHANGED measured
      BY <1>3, <2>2 DEF Money!Verify
    <3> DEFINE row == Money!Monitored(opps[o], e)
    <3>2. /\ row \in Money!Row
          /\ row.baseline = opps[o].baseline /\ row.after = opps[o].after
          /\ row.amount = opps[o].amount
      BY <2>1 DEF Money!Monitored, Money!Row, Money!State, Money!Energies
    <3>3. opps' = [opps EXCEPT ![o] = row]
      BY <3>1
    <3> HIDE DEF row
    <3> QED
      BY <2>1, <3>1, <3>2, <3>3, <1>0 DEF MoneyInv, Money!AmountIsMeasured, Money!Made
  <2>3. CASE ~(d < Money!MIN_DAYS)
    <3>1. /\ opps' = [opps EXCEPT ![o] = Money!Verified(opps[o], e)]
          /\ measured' = [measured EXCEPT ![o] = e]
      BY <1>3, <2>3 DEF Money!Verify
    <3>2. opps[o].baseline \in Nat /\ e \in Nat /\ e # None
      BY <1>0, <2>1 DEF Money!Row
    <3>3. Money!Avoided(opps[o].baseline, e) \in Nat
      BY <3>2 DEF Money!Avoided
    <3> DEFINE row == Money!Verified(opps[o], e)
    <3>4. /\ row \in Money!Row
          /\ row.baseline = opps[o].baseline /\ row.after = e
          /\ row.amount = Money!Avoided(opps[o].baseline, e)
      BY <2>1, <3>3 DEF Money!Verified, Money!Row, Money!State, Money!Energies
    <3>5. opps' = [opps EXCEPT ![o] = row]
      BY <3>1
    <3> HIDE DEF row
    <3> QED
      BY <3>1, <3>2, <3>4, <3>5, <1>0 DEF MoneyInv, Money!AmountIsMeasured, Money!Made, Money!Energies
  <2> QED
    BY <2>2, <2>3
<1>4. CASE UNCHANGED money
  BY <1>4 DEF money, MoneyInv, Money!AmountIsMeasured, Money!Made
<1> QED
  BY <1>1, <1>2, <1>3, <1>4 DEF Money!Next

(* The amount savings_mv_engine.py stores is that of the last measurement   *)
(* of MIN_DAYS or more, against the baseline of the row, whatever verify,   *)
(* recompute and transitions came between.                                  *)
THEOREM AmountsAreMeasured == Spec => []AmountIsMeasured
<1> DEFINE Inv == part = "savings" => MoneyInv
<1>1. Init => Inv
  BY MoneyStart, PartsAssumption
<1>2. Inv /\ [Next]_vars => Inv'
  BY PartSteps, MoneyInvariant, PartsAssumption
<1>3. Inv => AmountIsMeasured
  BY DEF MoneyInv, AmountIsMeasured
<1> QED
  BY <1>1, <1>2, <1>3, PTL DEF Spec

-----------------------------------------------------------------------------
(* Commissioning. *)

(* What an engineer mapped is what the overrides hold, so the defaults play *)
(* no part for it.                                                          *)
SetupInv ==
  /\ overrides = [b \in LiveBuilding |-> overrides[b]]
  /\ hand = [b \in LiveBuilding |-> hand[b]]
  /\ \A b \in LiveBuilding, k \in Key : hand[b][k] # None => overrides[b][k] = hand[b][k]

LEMMA SetupStart ==
  ASSUME Init
  PROVE  SetupInv
BY DEF Init, SetupInv, Setup!Init, Setup!NoMap

(* A discovery that merges leaves every key that is mapped as it is. *)
LEMMA MergeKeeps ==
  ASSUME SetupInv, NEW B, NEW names, NEW merge, Setup!Remapped(B, names, merge)
  PROVE  SetupInv'
<1>1. PICK m : /\ \A b \in B : m[b] \in Setup!Suggestions(names, Setup!Objects(b), merge)
               /\ overrides' = [b \in LiveBuilding |-> IF b \in B THEN m[b] ELSE overrides[b]]
  BY DEF Setup!Remapped
<1>2. CASE merge
  <2>1. hand' = hand
    BY <1>2 DEF Setup!Remapped
  <2>2. ASSUME NEW b \in LiveBuilding, NEW k \in Key, hand[b][k] # None
        PROVE  overrides'[b][k] = hand[b][k]
    <3>1. Setup!Objects(b)[k] = hand[b][k]
      BY <2>2 DEF SetupInv, Setup!Objects
    <3>2. CASE b \in B
      <4>1. m[b] \in Setup!Suggestions(names, Setup!Objects(b), merge)
        BY <1>1, <3>2
      <4>2. m[b][k] = Setup!Objects(b)[k]
        BY <1>2, <2>2, <3>1, <4>1 DEF Setup!Suggestions, Setup!Kept
      <4> QED
        BY <1>1, <3>1, <3>2, <4>2
    <3>3. CASE b \notin B
      BY <1>1, <2>2, <3>3 DEF SetupInv
    <3> QED
      BY <3>2, <3>3
  <2> QED
    BY <1>1, <2>1, <2>2 DEF SetupInv
<1>3. CASE ~merge
  <2>1. hand' = [b \in LiveBuilding |-> IF b \in B THEN Setup!NoMap ELSE hand[b]]
    BY <1>3 DEF Setup!Remapped
  <2>2. ASSUME NEW b \in LiveBuilding, NEW k \in Key, hand'[b][k] # None
        PROVE  overrides'[b][k] = hand'[b][k]
    <3>1. b \notin B
      BY <2>1, <2>2 DEF Setup!NoMap
    <3> QED
      BY <1>1, <2>1, <2>2, <3>1 DEF SetupInv
  <2> QED
    BY <1>1, <2>1, <2>2 DEF SetupInv
<1> QED
  BY <1>2, <1>3

LEMMA SetupInvariant ==
  ASSUME SetupInv, Setup!Next \/ UNCHANGED setup
  PROVE  SetupInv'
<1>1. CASE Setup!DiesWriting
  BY <1>1 DEF Setup!DiesWriting, Setup!NoMap, SetupInv
<1>2. ASSUME NEW b \in LiveBuilding, NEW map \in Setup!Map, Setup!PutObjects(b, map)
      PROVE  SetupInv'
  BY <1>2 DEF Setup!PutObjects, SetupInv
<1>3. ASSUME NEW t \in SetupTask, Setup!Discovered(t)
      PROVE  SetupInv'
  BY <1>3, MergeKeeps DEF Setup!Discovered
<1>4. CASE UNCHANGED <<overrides, hand>>
  BY <1>4 DEF SetupInv
<1> QED
  BY <1>1, <1>2, <1>3, <1>4
  DEF Setup!Next, Setup!Restart, Setup!SaveCredentials, Setup!AutoConnect, Setup!AutoMap,
      Setup!CredentialsSaved, Setup!DiscoveryFails, setup

(* What an engineer mapped with PUT objects of api/jci.py stays until one   *)
(* replaces it, whatever discoveries metasys_auto_mapper.py merges.         *)
THEOREM HandMappedIsKept == Spec => []HandMappedStands
<1> DEFINE Inv == part = "commissioning" => SetupInv
<1>1. Init => Inv
  BY SetupStart
<1>2. Inv /\ [Next]_vars => Inv'
  BY PartSteps, SetupInvariant
<1>3. Inv => HandMappedStands
  BY DEF SetupInv, HandMappedStands, Setup!HandMappedStands, Setup!Objects
<1> QED
  BY <1>1, <1>2, <1>3, PTL DEF Spec

-----------------------------------------------------------------------------
(* Snapshots. *)

SnapshotsInv ==
  /\ cache = [b \in LiveBuilding |-> cache[b]]
  /\ series = [b \in LiveBuilding |-> series[b]]
  /\ Snapshots!OnlyReported

LEMMA SnapshotsStart ==
  ASSUME Init
  PROVE  SnapshotsInv
BY DEF Init, SnapshotsInv, Snapshots!Init, Snapshots!OnlyReported

(* What is found outside demo mode was reported, and is not simulated. *)
LEMMA FoundIsReported ==
  ASSUME SnapshotsInv, ~demo, NEW b \in LiveBuilding, Snapshots!Found(b) # None
  PROVE  b \in reported /\ Snapshots!Found(b).from # "simulator"
<1>1. CASE cache[b] # None
  BY <1>1 DEF SnapshotsInv, Snapshots!OnlyReported, Snapshots!Found
<1>2. CASE cache[b] = None
  <2>1. Snapshots!Found(b) = Snapshots!LatestSnapshot(b)
    BY <1>2 DEF Snapshots!Found
  <2>2. series[b] = {"number"} /\ Snapshots!Found(b) = Snapshots!Of("defaults")
    BY <2>1 DEF Snapshots!LatestSnapshot
  <2> QED
    BY <2>2 DEF SnapshotsInv, Snapshots!OnlyReported, Snapshots!Of
<1> QED
  BY <1>1, <1>2

(* A field that is written for a building that reported. *)
LEMMA WritesOfReporters ==
  ASSUME SnapshotsInv, NEW b \in LiveBuilding, Snapshots!WritePoints(b), b \in reported',
         reported \subseteq reported'
  PROVE  /\ series' = [c \in LiveBuilding |-> series'[c]]
         /\ \A c \in LiveBuilding : series'[c] # {} => c \in reported'
BY DEF SnapshotsInv, Snapshots!WritePoints, Snapshots!OnlyReported

LEMMA SnapshotsInvariant ==
  ASSUME SnapshotsInv, Snapshots!Next \/ UNCHANGED snapshots
  PROVE  SnapshotsInv'
<1> USE DEF Snapshots!Cached, Snapshots!Reports, Snapshots!refrigeration
<1>1. CASE Snapshots!Restart
  BY <1>1 DEF Snapshots!Restart, SnapshotsInv, Snapshots!OnlyReported
<1>2. ASSUME NEW b \in LiveBuilding, Snapshots!IngestSnapshot(b) \/ Snapshots!MetasysAnswers(b)
      PROVE  SnapshotsInv'
  <2>1. /\ cache' = [cache EXCEPT ![b] = Snapshots!Of("building")]
        /\ Snapshots!WritePoints(b) /\ reported' = reported \cup {b} /\ UNCHANGED demo
    BY <1>2 DEF Snapshots!IngestSnapshot, Snapshots!MetasysAnswers
  <2>2. Snapshots!Of("building").from = "building"
    BY DEF Snapshots!Of
  <2> QED
    BY <2>1, <2>2, WritesOfReporters DEF SnapshotsInv, Snapshots!OnlyReported
<1>3. ASSUME NEW b \in LiveBuilding, Snapshots!IngestTelemetry(b)
      PROVE  SnapshotsInv'
  BY <1>3 DEF Snapshots!IngestTelemetry, SnapshotsInv, Snapshots!OnlyReported
<1>4. ASSUME NEW b \in LiveBuilding, Snapshots!Expires(b)
      PROVE  SnapshotsInv'
  BY <1>4 DEF Snapshots!Expires, SnapshotsInv, Snapshots!OnlyReported
<1>5. ASSUME NEW b \in LiveBuilding, Snapshots!Read(b)
      PROVE  SnapshotsInv'
  BY <1>5, FoundIsReported DEF Snapshots!Read, SnapshotsInv, Snapshots!OnlyReported
<1>6. ASSUME NEW b \in LiveBuilding, Snapshots!LiveRead(b)
      PROVE  SnapshotsInv'
  <2>1. CASE demo
    BY <1>6, <2>1 DEF Snapshots!LiveRead, Snapshots!Shown, SnapshotsInv, Snapshots!OnlyReported
  <2>2. CASE ~demo
    <3>1. cache' = [cache EXCEPT ![b] = Snapshots!Found(b)]
      BY <1>6, <2>2 DEF Snapshots!LiveRead, Snapshots!Shown, Snapshots!Found
    <3> QED
      BY <1>6, <2>2, <3>1, FoundIsReported DEF Snapshots!LiveRead, SnapshotsInv, Snapshots!OnlyReported
  <2> QED
    BY <2>1, <2>2
<1>7. ASSUME NEW b \in LiveBuilding, Snapshots!PollScans(b)
      PROVE  SnapshotsInv'
  <2>1. /\ cache' = [cache EXCEPT ![b] = Snapshots!Found(b)]
        /\ Snapshots!WritePoints(b) /\ UNCHANGED <<demo, reported>>
        /\ ~demo /\ Snapshots!Found(b) # None
    BY <1>7 DEF Snapshots!PollScans
  <2>2. b \in reported /\ Snapshots!Found(b).from # "simulator"
    BY <2>1, FoundIsReported
  <2> QED
    BY <2>1, <2>2, WritesOfReporters DEF SnapshotsInv, Snapshots!OnlyReported
<1>8. ASSUME NEW b \in LiveBuilding, Snapshots!PollSimulates(b)
      PROVE  SnapshotsInv'
  BY <1>8 DEF Snapshots!PollSimulates, SnapshotsInv, Snapshots!OnlyReported
<1>9. ASSUME NEW b \in LiveBuilding,
             \/ Snapshots!RefrigerationPolled(b) \/ Snapshots!RefrigerationAnswers(b)
             \/ \E s \in Snapshots!Source : Snapshots!PutConnection(b, s)
      PROVE  SnapshotsInv'
  <2>1. /\ UNCHANGED <<demo, cache>>
        /\ \/ UNCHANGED <<series, reported>>
           \/ Snapshots!WritePoints(b) /\ reported' = reported \cup {b}
    BY <1>9 DEF Snapshots!RefrigerationPolled, Snapshots!RefrigerationAnswers,
                Snapshots!PutConnection, Snapshots!PollPlant, Snapshots!PlantRead
  <2>2. CASE UNCHANGED <<series, reported>>
    BY <2>1, <2>2 DEF SnapshotsInv, Snapshots!OnlyReported
  <2>3. CASE Snapshots!WritePoints(b) /\ reported' = reported \cup {b}
    BY <2>1, <2>3, WritesOfReporters DEF SnapshotsInv, Snapshots!OnlyReported
  <2> QED
    BY <2>1, <2>2, <2>3
<1>10. CASE UNCHANGED snapshots
  BY <1>10 DEF snapshots, SnapshotsInv, Snapshots!OnlyReported
<1> QED
  BY <1>1, <1>2, <1>3, <1>4, <1>5, <1>6, <1>7, <1>8, <1>9, <1>10 DEF Snapshots!Next

(* Outside demo mode nothing the simulator made enters live_cache, and      *)
(* neither live_cache nor the time series has anything of a building that   *)
(* never reported; the numbers of one that did may still be constants of    *)
(* influx_client.py.                                                        *)
THEOREM SnapshotsAreReported == Spec => []OnlyReported
<1> DEFINE Inv == part = "snapshots" => SnapshotsInv
<1>1. Init => Inv
  BY SnapshotsStart
<1>2. Inv /\ [Next]_vars => Inv'
  BY PartSteps, SnapshotsInvariant
<1>3. Inv => OnlyReported
  BY DEF SnapshotsInv, OnlyReported
<1> QED
  BY <1>1, <1>2, <1>3, PTL DEF Spec

-----------------------------------------------------------------------------
(* The fleet. *)

(* A gateway that is listed is registered, where its report said it is.     *)
ListedInv ==
  /\ gateways = [g \in Gateway |-> gateways[g]]
  /\ beats = [g \in Gateway |-> beats[g]]
  /\ \A g \in Gateway : beats[g] # None => beats[g].scope \in Scope /\ beats[g].scope = gateways[g]

EdgesInv ==
  /\ \A m \in late : m.gateway \in Gateway /\ m.scope \in Scope
  /\ scope \in [Gateway -> Scope]
  /\ ListedInv

LEMMA EdgesStart ==
  ASSUME Init
  PROVE  EdgesInv
BY DEF Init, EdgesInv, ListedInv, Edges!Init

(* A report that is recorded is recorded under the registered scope.        *)
LEMMA RecordingKeeps ==
  ASSUME PartsAssumption, ListedInv, NEW g \in Gateway, NEW s \in Scope, NEW status,
         Edges!RecordGateway(g, s, status)
  PROVE  ListedInv'
<1>1. None \notin Scope
  BY DEF PartsAssumption, Edges!FleetAssumption
<1>2. /\ gateways[g] \in {None, s}
      /\ gateways' = [gateways EXCEPT ![g] = IF @ = None THEN s ELSE @]
      /\ beats' = [beats EXCEPT ![g] = [scope |-> s, status |-> status, age |-> "120s"]]
  BY DEF Edges!RecordGateway, Edges!Authorized, Edges!Register, Edges!Recorded
<1>3. gateways'[g] = s /\ beats'[g].scope = s
  BY <1>2 DEF ListedInv
<1>4. \A h \in Gateway \ {g} : gateways'[h] = gateways[h] /\ beats'[h] = beats[h]
  BY <1>2 DEF ListedInv
<1> QED
  BY <1>2, <1>3, <1>4 DEF ListedInv

(* One that is refused registers a gateway that no report is listed for.    *)
LEMMA RefusingKeeps ==
  ASSUME PartsAssumption, ListedInv, NEW g \in Gateway, NEW s \in Scope, Edges!Refused(g, s)
  PROVE  ListedInv'
<1>1. None \notin Scope
  BY DEF PartsAssumption, Edges!FleetAssumption
<1>2. CASE UNCHANGED gateways
  BY <1>2 DEF ListedInv, Edges!Refused
<1>3. CASE Edges!Register(g, s) /\ gateways[g] = None
  <2>1. gateways' = [gateways EXCEPT ![g] = s] /\ beats' = beats
    BY <1>3 DEF Edges!Register, Edges!Refused, ListedInv
  <2>2. beats[g] = None
    BY <1>1, <1>3 DEF ListedInv
  <2> QED
    BY <2>1, <2>2 DEF ListedInv
<1>4. CASE Edges!Register(g, s) /\ gateways[g] # None
  <2>1. gateways' = gateways
    BY <1>4 DEF Edges!Register, ListedInv
  <2> QED
    BY <1>2, <2>1
<1> QED
  BY <1>2, <1>3, <1>4 DEF Edges!Refused

LEMMA UnansweredKeeps ==
  ASSUME PartsAssumption, ListedInv, NEW g \in Gateway, NEW s \in Scope, Edges!Unanswered(g, s)
  PROVE  ListedInv'
BY RecordingKeeps, RefusingKeeps DEF Edges!Unanswered

LEMMA StepsOfGateways ==
  ASSUME PartsAssumption, EdgesInv, NEW g \in Gateway, Edges!Step(g)
  PROVE  EdgesInv'
<1>1. scope[g] \in Scope
  BY DEF EdgesInv
<1>2. CASE Edges!PollUploads(g)
  <2>1. ListedInv'
    <3>1. \/ Edges!RecordGateway(g, scope[g], "ONLINE") \/ UNCHANGED <<gateways, beats>>
          \/ Edges!Refused(g, scope[g]) \/ Edges!Unanswered(g, scope[g])
      BY <1>2 DEF Edges!PollUploads
    <3>2. CASE UNCHANGED <<gateways, beats>>
      BY <3>2 DEF EdgesInv, ListedInv
    <3> QED
      BY <1>1, <3>1, <3>2, RecordingKeeps, RefusingKeeps, UnansweredKeeps DEF EdgesInv
  <2> QED
    BY <1>2, <2>1 DEF Edges!PollUploads, EdgesInv
<1>3. CASE Edges!SendBeat(g)
  <2>1. CASE /\ \/ \E status \in Edges!Drifted(say[g].status) : Edges!RecordGateway(g, scope[g], status)
                \/ Edges!Refused(g, scope[g])
             /\ UNCHANGED late
    <3>1. ListedInv'
      BY <1>1, <2>1, RecordingKeeps, RefusingKeeps DEF EdgesInv
    <3> QED
      BY <1>3, <2>1, <3>1 DEF Edges!SendBeat, EdgesInv
  <2>2. CASE /\ late' = late \cup {[gateway |-> g, scope |-> scope[g], status |-> say[g].status]}
             /\ UNCHANGED <<gateways, beats>>
    BY <1>1, <1>3, <2>2 DEF Edges!SendBeat, EdgesInv, ListedInv
  <2> QED
    BY <1>3, <2>1, <2>2 DEF Edges!SendBeat
<1>4. CASE Edges!RowTaken(g)
  <2>1. ListedInv'
    BY <1>1, <1>4, RecordingKeeps DEF Edges!RowTaken, EdgesInv
  <2> QED
    BY <1>4, <2>1 DEF Edges!RowTaken, EdgesInv
<1>5. CASE Edges!RowRefused(g)
  <2>1. ListedInv'
    BY <1>1, <1>5, RefusingKeeps DEF Edges!RowRefused, EdgesInv
  <2> QED
    BY <1>5, <2>1 DEF Edges!RowRefused, EdgesInv
<1>6. CASE Edges!RowRaises(g)
  <2>1. ListedInv'
    BY <1>1, <1>6, UnansweredKeeps DEF Edges!RowRaises, EdgesInv
  <2> QED
    BY <1>6, <2>1 DEF Edges!RowRaises, EdgesInv
<1>7. CASE Edges!PollFails(g) \/ Edges!ReplayEnds(g)
  BY <1>7 DEF Edges!PollFails, Edges!ReplayEnds, Edges!cloud, EdgesInv, ListedInv
<1> QED
  BY <1>2, <1>3, <1>4, <1>5, <1>6, <1>7 DEF Edges!Step

LEMMA EdgesInvariant ==
  ASSUME PartsAssumption, EdgesInv, Edges!Next \/ UNCHANGED edges
  PROVE  EdgesInv'
<1>1. ASSUME NEW g \in Gateway, Edges!Step(g)
      PROVE  EdgesInv'
  BY <1>1, StepsOfGateways
<1>2. ASSUME NEW g \in Gateway, Edges!ConnectorChanges(g) \/ Edges!Dies(g)
      PROVE  EdgesInv'
  BY <1>2 DEF Edges!ConnectorChanges, Edges!Dies, Edges!cloud, EdgesInv, ListedInv
<1>3. ASSUME NEW g \in Gateway, Edges!Starts(g)
      PROVE  EdgesInv'
  BY <1>3 DEF Edges!Starts, Edges!cloud, EdgesInv, ListedInv
<1>4. ASSUME NEW g \in Gateway, Edges!Ages(g)
      PROVE  EdgesInv'
  <2>1. PICK a : beats' = [beats EXCEPT ![g] = [beats[g] EXCEPT !.age = a]]
    BY <1>4 DEF Edges!Ages
  <2>2. beats[g] # None /\ UNCHANGED <<late, scope, gateways>>
    BY <1>4 DEF Edges!Ages, Edges!edge
  <2>3. [beats[g] EXCEPT !.age = a].scope = beats[g].scope
    OBVIOUS
  <2> QED
    BY <2>1, <2>2, <2>3 DEF EdgesInv, ListedInv
<1>5. ASSUME NEW m \in late, Edges!Arrives(m)
      PROVE  EdgesInv'
  <2>1. ListedInv'
    BY <1>5, RecordingKeeps, RefusingKeeps DEF Edges!Arrives, EdgesInv
  <2> QED
    BY <1>5, <2>1 DEF Edges!Arrives, Edges!edge, EdgesInv
<1>6. CASE Edges!CloudRestarts
  BY <1>6 DEF Edges!CloudRestarts, Edges!edge, EdgesInv, ListedInv
<1>7. CASE \/ Edges!Midnight
           \/ \E t \in Token : Edges!Revoke(t) \/ \E d \in Lifetime : Edges!Issue(t, d)
  BY <1>7 DEF Edges!Midnight, Edges!Revoke, Edges!Issue, Edges!edge, EdgesInv, ListedInv
<1>8. CASE UNCHANGED edges
  BY <1>8 DEF edges, EdgesInv, ListedInv
<1> QED
  BY <1>1, <1>2, <1>3, <1>4, <1>5, <1>6, <1>7, <1>8 DEF Edges!Next

(* GET /gateways lists a gateway under the tenant and building that the     *)
(* table gateways binds it to (validate_gateway_scope), for any number of   *)
(* gateways, with heartbeats late and gateways moved.                       *)
THEOREM ListedAsRegistered == Spec => []BeatsAreRegistered
<1> DEFINE Inv == part = "fleet" => EdgesInv
<1>1. Init => Inv
  BY EdgesStart
<1>2. Inv /\ [Next]_vars => Inv'
  BY PartSteps, EdgesInvariant, PartsAssumption
<1>3. Inv => BeatsAreRegistered
  BY DEF EdgesInv, ListedInv, BeatsAreRegistered, Edges!BeatsAreRegistered
<1> QED
  BY <1>1, <1>2, <1>3, PTL DEF Spec

-----------------------------------------------------------------------------
(* Buildings and accounts. *)

Asked ==
  {Owners!Idle}
    \cup [step : {"connecting", "inserting", "testing"}, account : Account, building : OwnedBuilding]
    \cup [step : {"recording"}, account : Account, building : OwnedBuilding, connected : BOOLEAN]
    \cup [step : {"profile"}, account : Account, building : OwnedBuilding, profile : Profile]

Creating(q) == request[q].step \in {"connecting", "inserting"}

(* What is stored, or about to be, as connected was reached. *)
ReachedInv ==
  /\ rows \in [OwnedBuilding -> Owners!Row \cup {None}]
  /\ memory \in [OwnedBuilding -> Owners!Row \cup {None}]
  /\ request \in [Request -> Asked]
  /\ \A b \in OwnedBuilding : rows[b] # None /\ rows[b].connected => b \in tested
  /\ \A b \in OwnedBuilding : memory[b] # None /\ memory[b].connected => b \in tested
  /\ \A q \in Request :
       request[q].step = "recording" /\ request[q].connected => request[q].building \in tested

(* A row that is about to be inserted is the first of its building, and no  *)
(* other request creates that building: so owners stay.                     *)
FirstInv ==
  /\ \A q \in Request : Creating(q) => rows[request[q].building] = None
  /\ \A q, p \in Request :
       Creating(q) /\ Creating(p) /\ request[q].building = request[p].building => q = p

ServedInv ==
  /\ served \in Owners!Service \cup {None}
  /\ Owners!OwnAndTested

OwnersInv == ReachedInv /\ FirstInv /\ ServedInv

LEMMA OwnersStart ==
  ASSUME PartsAssumption, Init
  PROVE  OwnersInv
<1>1. Owners!Init /\ Owners!BuildingsAssumption
  BY DEF Init, PartsAssumption
<1>2. ReachedInv
  BY <1>1 DEF Owners!Init, Owners!BuildingsAssumption, ReachedInv, Asked, Owners!Idle
<1>3. FirstInv /\ ServedInv
  BY <1>1 DEF Owners!Init, FirstInv, ServedInv, Owners!OwnAndTested, Owners!Idle, Creating
<1> QED
  BY <1>2, <1>3 DEF OwnersInv

(* No row changes its owner, and no building becomes unreached: what was    *)
(* served stays served to the right accounts.                               *)
LEMMA ServedStays ==
  ASSUME ServedInv, served' = served, tested \subseteq tested',
         \A b \in OwnedBuilding : rows[b] # None => rows'[b] # None /\ rows'[b].owner = rows[b].owner
  PROVE  ServedInv'
<1>1. \A a \in Account : Owners!Owned(a) \subseteq Owners!Owned(a)'
  BY DEF Owners!Owned
<1> QED
  BY <1>1 DEF ServedInv, Owners!OwnAndTested, Owners!Service

(* A status or a profile that is written changes nothing else of a row.     *)
LEMMA RowsWritten ==
  ASSUME PartsAssumption, NEW table \in [OwnedBuilding -> Owners!Row \cup {None}], NEW b \in OwnedBuilding
  PROVE  /\ \A connected \in BOOLEAN :
              LET new == Owners!WithStatus(table, b, connected) IN
              /\ new \in [OwnedBuilding -> Owners!Row \cup {None}]
              /\ \A c \in OwnedBuilding : table[c] = None => new[c] = None
              /\ \A c \in OwnedBuilding : table[c] # None =>
                   /\ new[c] # None /\ new[c].owner = table[c].owner
                   /\ new[c].connected = IF c = b THEN connected ELSE table[c].connected
         /\ \A profile \in Profile :
              LET new == Owners!WithProfile(table, b, profile) IN
              /\ new \in [OwnedBuilding -> Owners!Row \cup {None}]
              /\ \A c \in OwnedBuilding : table[c] = None => new[c] = None
              /\ \A c \in OwnedBuilding : table[c] # None =>
                   /\ new[c] # None /\ new[c].owner = table[c].owner
                   /\ new[c].connected = table[c].connected
<1>1. None \notin Owners!Row
  BY DEF PartsAssumption, Owners!BuildingsAssumption
<1>2. CASE table[b] = None
  BY <1>2 DEF Owners!WithStatus, Owners!WithProfile
<1>3. CASE table[b] # None
  <2>1. table[b] \in Owners!Row
    BY <1>3
  <2>2. \A connected \in BOOLEAN :
          /\ [table[b] EXCEPT !.connected = connected] \in Owners!Row
          /\ [table[b] EXCEPT !.connected = connected].owner = table[b].owner
          /\ [table[b] EXCEPT !.connected = connected].connected = connected
    BY <2>1 DEF Owners!Row
  <2>3. \A profile \in Profile :
          /\ [table[b] EXCEPT !.profile = profile] \in Owners!Row
          /\ [table[b] EXCEPT !.profile = profile].owner = table[b].owner
          /\ [table[b] EXCEPT !.profile = profile].connected = table[b].connected
    BY <2>1 DEF Owners!Row
  <2>4. /\ \A connected : Owners!WithStatus(table, b, connected)
                            = [table EXCEPT ![b] = [table[b] EXCEPT !.connected = connected]]
        /\ \A profile : Owners!WithProfile(table, b, profile)
                            = [table EXCEPT ![b] = [table[b] EXCEPT !.profile = profile]]
    BY <1>3 DEF Owners!WithStatus, Owners!WithProfile
  <2>5. ASSUME NEW row \in Owners!Row, row.owner = table[b].owner, NEW new, new = [table EXCEPT ![b] = row]
        PROVE  /\ new \in [OwnedBuilding -> Owners!Row \cup {None}]
               /\ \A c \in OwnedBuilding : table[c] = None => new[c] = None
               /\ \A c \in OwnedBuilding : table[c] # None =>
                    /\ new[c] # None /\ new[c].owner = table[c].owner
                    /\ new[c].connected = IF c = b THEN row.connected ELSE table[c].connected
    BY <1>1, <1>3, <2>5
  <2>6. ASSUME NEW connected \in BOOLEAN
        PROVE  LET new == Owners!WithStatus(table, b, connected) IN
               /\ new \in [OwnedBuilding -> Owners!Row \cup {None}]
               /\ \A c \in OwnedBuilding : table[c] = None => new[c] = None
               /\ \A c \in OwnedBuilding : table[c] # None =>
                    /\ new[c] # None /\ new[c].owner = table[c].owner
                    /\ new[c].connected = IF c = b THEN connected ELSE table[c].connected
    <3> DEFINE row == [table[b] EXCEPT !.connected = connected]
    <3>1. row \in Owners!Row /\ row.owner = table[b].owner /\ row.connected = connected
      BY <2>2, <2>6
    <3>2. Owners!WithStatus(table, b, connected) = [table EXCEPT ![b] = row]
      BY <2>4
    <3> HIDE DEF row
    <3> QED
      BY <3>1, <3>2, <2>5
  <2>7. ASSUME NEW profile \in Profile
        PROVE  LET new == Owners!WithProfile(table, b, profile) IN
               /\ new \in [OwnedBuilding -> Owners!Row \cup {None}]
               /\ \A c \in OwnedBuilding : table[c] = None => new[c] = None
               /\ \A c \in OwnedBuilding : table[c] # None =>
                    /\ new[c] # None /\ new[c].owner = table[c].owner
                    /\ new[c].connected = table[c].connected
    <3> DEFINE row == [table[b] EXCEPT !.profile = profile]
    <3>1. row \in Owners!Row /\ row.owner = table[b].owner /\ row.connected = table[b].connected
      BY <2>3, <2>7
    <3>2. Owners!WithProfile(table, b, profile) = [table EXCEPT ![b] = row]
      BY <2>4
    <3> HIDE DEF row
    <3> QED
      BY <3>1, <3>2, <2>5
  <2> QED
    BY <2>6, <2>7
<1> QED
  BY <1>2, <1>3

LEMMA CreateKeeps ==
  ASSUME OwnersInv, NEW q \in Request, NEW a \in Account, NEW b \in OwnedBuilding,
         NEW credentials \in BOOLEAN, Owners!Create(q, a, b, credentials)
  PROVE  OwnersInv'
<1>1. PICK step \in {"connecting", "inserting"} :
        request' = [request EXCEPT ![q] = Owners!At(step, a, b)]
  BY DEF Owners!Create, Owners!Goes
<1>2. UNCHANGED <<rows, memory, tested, served>>
  BY DEF Owners!Create, Owners!tables, Owners!history
<1>3. rows[b] = None /\ \A p \in Request : request[p] # Owners!Idle => request[p].building # b
  BY DEF Owners!Create, Owners!Drawn
<1>4. Owners!At(step, a, b) \in Asked /\ Owners!At(step, a, b).building = b
  BY DEF Owners!At, Asked
<1>5. \A p \in Request : Creating(p) => request[p] # Owners!Idle
  BY DEF Creating, Owners!Idle
<1>6. ReachedInv'
  <2>1. Owners!At(step, a, b).step # "recording"
    BY DEF Owners!At
  <2> QED
    BY <1>1, <1>2, <1>4, <2>1 DEF OwnersInv, ReachedInv
<1>7. FirstInv'
  BY <1>1, <1>2, <1>3, <1>4, <1>5 DEF OwnersInv, ReachedInv, FirstInv, Creating
<1>8. ServedInv'
  BY <1>2, ServedStays DEF OwnersInv
<1> QED
  BY <1>6, <1>7, <1>8 DEF OwnersInv

LEMMA SavingKeeps ==
  ASSUME OwnersInv, NEW q \in Request, Owners!SaveConnection(q)
  PROVE  OwnersInv'
<1>1. /\ request[q].step = "connecting" /\ UNCHANGED <<rows, memory, tested, served>>
      /\ \/ request' = [request EXCEPT ![q] = [request[q] EXCEPT !.step = "inserting"]]
         \/ request' = [request EXCEPT ![q] = Owners!Idle]
  BY DEF Owners!SaveConnection, Owners!Goes, Owners!Ends, Owners!process, Owners!history
<1>2. request[q] \in [step : {"connecting", "inserting", "testing"}, account : Account, building : OwnedBuilding]
  BY <1>1 DEF OwnersInv, ReachedInv, Asked, Owners!Idle
<1>3. PICK r \in Asked : /\ request' = [request EXCEPT ![q] = r]
                         /\ \/ r.step = "inserting" /\ r.building = request[q].building
                            \/ r.step = "idle"
  <2>1. [request[q] EXCEPT !.step = "inserting"] \in Asked
    BY <1>2 DEF Asked
  <2>2. [request[q] EXCEPT !.step = "inserting"].step = "inserting"
        /\ [request[q] EXCEPT !.step = "inserting"].building = request[q].building
    BY <1>2
  <2>3. Owners!Idle \in Asked /\ Owners!Idle.step = "idle"
    BY DEF Asked, Owners!Idle
  <2> QED
    BY <1>1, <2>1, <2>2, <2>3
<1>4. ReachedInv'
  BY <1>1, <1>3 DEF OwnersInv, ReachedInv
<1>5. FirstInv'
  BY <1>1, <1>3 DEF OwnersInv, ReachedInv, FirstInv, Creating
<1>6. ServedInv'
  BY <1>1, ServedStays DEF OwnersInv
<1> QED
  BY <1>4, <1>5, <1>6 DEF OwnersInv

(* A request that ends, or goes on without creating a building.             *)
LEMMA OthersCreate ==
  ASSUME OwnersInv, NEW q \in Request, NEW r, r.step \notin {"connecting", "inserting"},
         request' = [request EXCEPT ![q] = r],
         \A b \in OwnedBuilding : rows[b] = None => rows'[b] = None
  PROVE  FirstInv'
<1>1. \A p \in Request : Creating(p)' => Creating(p) /\ request'[p] = request[p]
  BY DEF OwnersInv, ReachedInv, Creating
<1>2. \A p \in Request : Creating(p) => request[p].building \in OwnedBuilding
  BY DEF OwnersInv, ReachedInv, Creating, Asked, Owners!Idle
<1> QED
  BY <1>1, <1>2 DEF OwnersInv, FirstInv

LEMMA InsertKeeps ==
  ASSUME PartsAssumption, OwnersInv, NEW q \in Request, Owners!InsertRow(q)
  PROVE  OwnersInv'
<1> DEFINE b == request[q].building
           row == Owners!NewRow(request[q].account)
<1>1. /\ request[q].step = "inserting"
      /\ request' = [request EXCEPT ![q] = Owners!Idle]
      /\ UNCHANGED <<tested, served>>
      /\ rows' = rows \/ rows' = [rows EXCEPT ![b] = row]
      /\ memory' = memory \/ memory' = [memory EXCEPT ![b] = row]
  BY DEF Owners!InsertRow, Owners!Ends, Owners!Goes, Owners!history, Owners!With
<1>2. request[q].account \in Account /\ b \in OwnedBuilding /\ rows[b] = None
  BY <1>1 DEF OwnersInv, ReachedInv, FirstInv, Creating, Asked, Owners!Idle
<1>3. row \in Owners!Row /\ row.connected = FALSE /\ row # None
  <2>1. "building_only" \in Profile /\ None \notin Owners!Row
    BY DEF PartsAssumption, Owners!BuildingsAssumption
  <2>2. row \in Owners!Row /\ row.connected = FALSE
    BY <1>2, <2>1 DEF Owners!NewRow, Owners!Row
  <2> QED
    BY <2>1, <2>2
<1>4. Owners!Idle \in Asked /\ Owners!Idle.step = "idle"
  BY DEF Asked, Owners!Idle
<1> HIDE DEF row
<1>5. ReachedInv'
  BY <1>1, <1>2, <1>3, <1>4 DEF OwnersInv, ReachedInv
<1>6. FirstInv'
  <2>1. \A p \in Request : Creating(p)' => Creating(p) /\ request'[p] = request[p] /\ p # q
    BY <1>1, <1>4 DEF OwnersInv, ReachedInv, Creating
  <2>2. \A p \in Request : Creating(p)' => request[p].building # b /\ request[p].building \in OwnedBuilding
    BY <1>1, <2>1 DEF OwnersInv, ReachedInv, FirstInv, Creating, Asked, Owners!Idle
  <2>3. \A c \in OwnedBuilding : c # b => rows'[c] = rows[c]
    BY <1>1 DEF OwnersInv, ReachedInv
  <2> QED
    BY <2>1, <2>2, <2>3 DEF OwnersInv, FirstInv
<1>7. ServedInv'
  <2>1. \A c \in OwnedBuilding : rows[c] # None => rows'[c] = rows[c]
    BY <1>1, <1>2 DEF OwnersInv, ReachedInv
  <2> QED
    BY <1>1, <2>1, ServedStays DEF OwnersInv
<1> QED
  BY <1>5, <1>6, <1>7 DEF OwnersInv

LEMMA TestsKeep ==
  ASSUME PartsAssumption, OwnersInv, NEW q \in Request,
         \/ \E a \in Account, b \in OwnedBuilding : Owners!Test(q, a, b)
         \/ Owners!Raises(q)
  PROVE  OwnersInv'
<1>1. PICK r \in Asked : /\ request' = [request EXCEPT ![q] = r]
                         /\ r.step \in {"testing", "idle"}
  BY DEF Owners!Test, Owners!Raises, Owners!Ends, Owners!Goes, Owners!At, Owners!Idle, Asked
<1>2. UNCHANGED <<rows, memory, tested, served>>
  BY DEF Owners!Test, Owners!Raises, Owners!tables, Owners!process, Owners!history
<1>3. ReachedInv'
  BY <1>1, <1>2 DEF OwnersInv, ReachedInv
<1>4. FirstInv'
  BY <1>1, <1>2, OthersCreate
<1>5. ServedInv'
  BY <1>2, ServedStays DEF OwnersInv
<1> QED
  BY <1>3, <1>4, <1>5 DEF OwnersInv

(* The answer of the building system reaches the copy in memory first, and  *)
(* the row when the table takes it.                                         *)
LEMMA TestConnectionKeeps ==
  ASSUME PartsAssumption, OwnersInv, NEW q \in Request, Owners!TestConnection(q)
  PROVE  OwnersInv'
<1>1. PICK reached \in BOOLEAN :
        /\ request[q].step = "testing"
        /\ tested' = tested \cup IF reached THEN {request[q].building} ELSE {}
        /\ memory' = Owners!WithStatus(memory, request[q].building, reached)
        /\ request' = [request EXCEPT ![q] =
             [step |-> "recording", account |-> request[q].account,
              building |-> request[q].building, connected |-> reached]]
        /\ UNCHANGED <<rows, served>>
  BY DEF Owners!TestConnection, Owners!StatusOf, Owners!Goes, Owners!tables
<1>2. request[q].account \in Account /\ request[q].building \in OwnedBuilding
  BY <1>1 DEF OwnersInv, ReachedInv, Asked, Owners!Idle
<1> DEFINE r == [step |-> "recording", account |-> request[q].account,
                 building |-> request[q].building, connected |-> reached]
<1>3. r \in Asked /\ r.step = "recording" /\ r.connected = reached /\ r.building = request[q].building
  BY <1>2 DEF Asked
<1>4. request' = [request EXCEPT ![q] = r]
  BY <1>1
<1> HIDE DEF r
<1>5. ReachedInv'
  <2>1. memory \in [OwnedBuilding -> Owners!Row \cup {None}]
    BY DEF OwnersInv, ReachedInv
  <2>2. /\ memory' \in [OwnedBuilding -> Owners!Row \cup {None}]
        /\ \A c \in OwnedBuilding : memory[c] = None => memory'[c] = None
        /\ \A c \in OwnedBuilding : memory[c] # None =>
             memory'[c].connected = IF c = request[q].building THEN reached ELSE memory[c].connected
    BY <1>1, <1>2, <2>1, RowsWritten
  <2>3. \A c \in OwnedBuilding : memory'[c] # None /\ memory'[c].connected => c \in tested'
    BY <1>1, <2>2 DEF OwnersInv, ReachedInv
  <2> QED
    BY <1>1, <1>3, <1>4, <2>2, <2>3 DEF OwnersInv, ReachedInv
<1>6. FirstInv'
  BY <1>1, <1>3, <1>4, OthersCreate
<1>7. ServedInv'
  BY <1>1, ServedStays DEF OwnersInv
<1> QED
  BY <1>5, <1>6, <1>7 DEF OwnersInv

LEMMA UpdatesKeep ==
  ASSUME PartsAssumption, OwnersInv, NEW q \in Request,
         Owners!UpdateStatus(q) \/ Owners!PatchProfile(q)
  PROVE  OwnersInv'
<1> DEFINE b == request[q].building
<1>1. /\ request' = [request EXCEPT ![q] = Owners!Idle]
      /\ UNCHANGED <<memory, tested, served>>
      /\ b \in OwnedBuilding
      /\ \/ rows' = rows
         \/ /\ request[q].step = "recording" /\ request[q].connected \in BOOLEAN
            /\ rows' = Owners!WithStatus(rows, b, request[q].connected)
         \/ /\ request[q].profile \in Profile
            /\ rows' = Owners!WithProfile(rows, b, request[q].profile)
  BY DEF Owners!UpdateStatus, Owners!PatchProfile, Owners!Ends, Owners!Goes, Owners!process, Owners!history,
         OwnersInv, ReachedInv, Asked, Owners!Idle
<1>2. rows \in [OwnedBuilding -> Owners!Row \cup {None}]
  BY DEF OwnersInv, ReachedInv
<1>3. /\ rows' \in [OwnedBuilding -> Owners!Row \cup {None}]
      /\ \A c \in OwnedBuilding : rows[c] = None => rows'[c] = None
      /\ \A c \in OwnedBuilding : rows[c] # None =>
           /\ rows'[c] # None /\ rows'[c].owner = rows[c].owner
           /\ \/ rows'[c].connected = rows[c].connected
              \/ /\ c = b /\ request[q].step = "recording"
                 /\ rows'[c].connected = request[q].connected
  BY <1>1, <1>2, RowsWritten
<1>4. Owners!Idle \in Asked /\ Owners!Idle.step = "idle"
  BY DEF Asked, Owners!Idle
<1>5. \A c \in OwnedBuilding : rows'[c] # None /\ rows'[c].connected => c \in tested
  BY <1>3 DEF OwnersInv, ReachedInv
<1>6. ReachedInv'
  BY <1>1, <1>3, <1>4, <1>5 DEF OwnersInv, ReachedInv
<1>7. FirstInv'
  BY <1>1, <1>3, <1>4, OthersCreate
<1>8. ServedInv'
  BY <1>1, <1>3, ServedStays DEF OwnersInv
<1> QED
  BY <1>6, <1>7, <1>8 DEF OwnersInv

LEMMA ProfilesKeep ==
  ASSUME PartsAssumption, OwnersInv, NEW q \in Request, NEW a \in Account, NEW b \in OwnedBuilding,
         NEW profile \in Profile, Owners!UpdateProfile(q, a, b, profile)
  PROVE  OwnersInv'
<1>1. UNCHANGED <<rows, tested, served>>
  BY DEF Owners!UpdateProfile, Owners!tables, Owners!history
<1>2. ServedInv'
  BY <1>1, ServedStays DEF OwnersInv
<1>3. CASE memory[b] = None
  <2> DEFINE r == [step |-> "profile", account |-> a, building |-> b, profile |-> profile]
  <2>1. request' = [request EXCEPT ![q] = r] /\ UNCHANGED memory
    BY <1>3 DEF Owners!UpdateProfile, Owners!Goes
  <2>2. r \in Asked /\ r.step = "profile"
    BY DEF Asked
  <2> HIDE DEF r
  <2>3. ReachedInv'
    BY <1>1, <2>1, <2>2 DEF OwnersInv, ReachedInv
  <2> QED
    BY <1>1, <1>2, <2>1, <2>2, <2>3, OthersCreate DEF OwnersInv
<1>4. CASE memory[b] # None
  <2>1. memory' = Owners!WithProfile(memory, b, profile) /\ UNCHANGED request
    BY <1>4 DEF Owners!UpdateProfile
  <2>2. memory \in [OwnedBuilding -> Owners!Row \cup {None}]
    BY DEF OwnersInv, ReachedInv
  <2>3. /\ memory' \in [OwnedBuilding -> Owners!Row \cup {None}]
        /\ \A c \in OwnedBuilding : memory[c] = None => memory'[c] = None
        /\ \A c \in OwnedBuilding : memory[c] # None => memory'[c].connected = memory[c].connected
    BY <2>1, <2>2, RowsWritten
  <2>4. ReachedInv'
    BY <1>1, <2>1, <2>3 DEF OwnersInv, ReachedInv
  <2>5. FirstInv'
    BY <1>1, <2>1 DEF OwnersInv, FirstInv, Creating
  <2> QED
    BY <1>2, <2>4, <2>5 DEF OwnersInv
<1> QED
  BY <1>3, <1>4

(* What is served is of a building of the account, or goes to an            *)
(* administrator; and GET /live finds a row that says connected.            *)
LEMMA ServingKeeps ==
  ASSUME OwnersInv, NEW a \in Account, NEW b \in OwnedBuilding, Owners!Live(a, b) \/ Owners!Stream(a, b)
  PROVE  OwnersInv'
<1>1. PICK path \in {"live", "stream"} :
        /\ Owners!Serves(a, b, path)
        /\ path = "live" => Owners!Live(a, b)
  BY DEF Owners!Live, Owners!Stream
<1> DEFINE s == [account |-> a, building |-> b, by |-> path]
<1>2. UNCHANGED <<rows, memory, request, tested>> /\ served' = s
  BY <1>1 DEF Owners!Serves, Owners!tables, Owners!process
<1>3. s \in Owners!Service /\ s.account = a /\ s.building = b /\ s.by = path
  BY DEF Owners!Service
<1> HIDE DEF s
<1>4. b \in Owners!Owned(a) \/ a \in Administrator
  BY DEF Owners!Live, Owners!Stream, Owners!MayAccess, Owners!Accessible, Owners!ContextIds
<1>5. path = "live" => b \in tested
  BY <1>1 DEF Owners!Live, Owners!Get, OwnersInv, ReachedInv
<1>6. ServedInv'
  <2>1. \A c : Owners!Owned(c)' = Owners!Owned(c)
    BY <1>2 DEF Owners!Owned
  <2> QED
    BY <1>2, <1>3, <1>4, <1>5, <2>1 DEF OwnersInv, ServedInv, Owners!OwnAndTested
<1> QED
  BY <1>2, <1>6 DEF OwnersInv, ReachedInv, FirstInv, Creating

LEMMA OwnersInvariant ==
  ASSUME PartsAssumption, OwnersInv, Owners!Next \/ UNCHANGED owners
  PROVE  OwnersInv'
<1>1. CASE Owners!Restart
  <2>1. /\ memory' = [b \in OwnedBuilding |-> None] /\ request' = [q \in Request |-> Owners!Idle]
        /\ UNCHANGED <<rows, tested, served>>
    BY <1>1 DEF Owners!Restart, Owners!tables, Owners!history
  <2>2. ReachedInv'
    BY <2>1 DEF OwnersInv, ReachedInv, Asked, Owners!Idle
  <2>3. FirstInv'
    BY <2>1 DEF FirstInv, Creating, Owners!Idle
  <2> QED
    BY <2>1, <2>2, <2>3, ServedStays DEF OwnersInv
<1>2. CASE UNCHANGED owners
  <2>1. UNCHANGED <<rows, memory, request, tested, served>>
    BY <1>2 DEF owners
  <2> QED
    BY <2>1, ServedStays DEF OwnersInv, ReachedInv, FirstInv, Creating
<1>3. CASE \E q \in Request :
             \/ Owners!SaveConnection(q) \/ Owners!InsertRow(q)
             \/ Owners!TestConnection(q) \/ Owners!UpdateStatus(q)
             \/ Owners!PatchProfile(q) \/ Owners!Raises(q)
  BY <1>3, SavingKeeps, InsertKeeps, TestConnectionKeeps, UpdatesKeep, TestsKeep
<1>4. CASE \E q \in Request, a \in Account, b \in OwnedBuilding :
             \/ \E credentials \in BOOLEAN : Owners!Create(q, a, b, credentials)
             \/ Owners!Test(q, a, b)
             \/ \E profile \in Profile : Owners!UpdateProfile(q, a, b, profile)
  BY <1>4, CreateKeeps, TestsKeep, ProfilesKeep
<1> QED
  BY <1>1, <1>2, <1>3, <1>4, ServingKeeps DEF Owners!Next

(* GET /buildings/{id}/live and its stream serve an account its own         *)
(* buildings, or an administrator, and GET /live only what test-connection  *)
(* has reached, although rows, copies in memory and credentials are written *)
(* by calls that may fail.                                                  *)
THEOREM ServedIsOwnAndTested == Spec => []OwnAndTested
<1> DEFINE Inv == part = "buildings" => OwnersInv
<1>1. Init => Inv
  BY OwnersStart, PartsAssumption
<1>2. Inv /\ [Next]_vars => Inv'
  BY PartSteps, OwnersInvariant, PartsAssumption
<1>3. Inv => OwnAndTested
  BY DEF OwnersInv, ServedInv, OwnAndTested
<1> QED
  BY <1>1, <1>2, <1>3, PTL DEF Spec

-----------------------------------------------------------------------------
(* Fault detection in operation. *)

(* Every list a task holds is one that may be shown. *)
Good(list) ==
  /\ \A a, b \in list : Ops!Live!SameTitle(a.cond, b.cond) => a = b
  /\ \A a \in list : a.cond \in FddCondition => Ops!Recorded(a.cond)

ListsInv ==
  /\ Good(alerts)
  /\ copy = [t \in Ops!Live!Task |-> copy[t]]
  /\ \A t \in Ops!Live!Task : Good(copy[t])
  /\ \A c \in results \cup found : Ops!Recorded(c)
  /\ left \subseteq FddCondition

RowsTyped ==
  /\ faults \in [Ops!Store!FaultId -> Ops!Store!Row \cup {None}]
  /\ recs \in [Ops!Desk!Recs -> Ops!Desk!State \cup {None}]

OpsInv == ListsInv /\ RowsTyped

LEMMA OpsStart ==
  ASSUME Init
  PROVE  OpsInv
<1>1. Ops!Live!Init /\ Ops!Store!Init /\ Ops!Desk!Init
  BY DEF Init, Ops!Init
<1>2. RowsTyped
  BY <1>1 DEF Ops!Store!Init, Ops!Desk!Init, RowsTyped
<1>3. ListsInv
  BY <1>1 DEF Ops!Live!Init, ListsInv, Good
<1> QED
  BY <1>2, <1>3 DEF OpsInv

(* The row of a fault is there once it is reported, and none is deleted.    *)
LEMMA UpsertRecords ==
  ASSUME PartsAssumption, RowsTyped, NEW c \in FddCondition, Ops!Store!Upsert(c)
  PROVE  /\ faults' \in [Ops!Store!FaultId -> Ops!Store!Row \cup {None}]
         /\ Ops!Store!IdOf(c) \in Ops!Store!Stored'
         /\ Ops!Store!Stored \subseteq Ops!Store!Stored'
<1> DEFINE f == Ops!Store!IdOf(c)
           row == Ops!Store!Detected(f, c)
<1>1. f \in Ops!Store!FaultId /\ c.building \in Ops!Store!Building
  BY DEF Ops!Store!FaultId, Ops!Store!Building
<1>2. row \in Ops!Store!Row
  <2>1. CASE faults[f] = None
    BY <1>1, <2>1 DEF Ops!Store!Detected, Ops!Store!Fresh, Ops!Store!Row, Ops!Store!FAULT_STATUSES
  <2>2. CASE faults[f] # None
    <3>1. faults[f] \in Ops!Store!Row
      BY <1>1, <2>2 DEF RowsTyped
    <3> QED
      BY <2>2, <3>1 DEF Ops!Store!Detected, Ops!Store!OnConflict, Ops!Store!Merged, Ops!Store!Row,
                        Ops!Store!FAULT_STATUSES
  <2> QED
    BY <2>1, <2>2
<1>3. None \notin Ops!Store!Row
  BY DEF PartsAssumption, Ops!OperationsAssumption, Ops!Store!FaultsAssumption
<1>4. faults' = [faults EXCEPT ![f] = row]
  BY DEF Ops!Store!Upsert
<1> HIDE DEF row
<1> QED
  BY <1>1, <1>2, <1>3, <1>4 DEF RowsTyped, Ops!Store!Stored

(* So is its first recommendation, unless none is made for its rule.        *)
LEMMA RecommendRecords ==
  ASSUME PartsAssumption, RowsTyped, NEW c \in FddCondition,
         Ops!Recommend(c) \/ UNCHANGED <<recs, decision>>
  PROVE  /\ recs' \in [Ops!Desk!Recs -> Ops!Desk!State \cup {None}]
         /\ Ops!Recommend(c) => c.rule \in InfoRule \/ recs'[<<Ops!Store!IdOf(c), 1>>] # None
         /\ \A r \in Ops!Desk!Recs : recs[r] # None => recs'[r] # None
<1> DEFINE f == Ops!Store!IdOf(c)
<1>1. /\ f \in Ops!Store!FaultId
      /\ MaxRecs \in Nat /\ MaxRecs >= 1 /\ None \notin Ops!Desk!State
  BY DEF Ops!Store!FaultId, PartsAssumption, Ops!OperationsAssumption, Ops!Desk!RecommendationsAssumption
<1>2. "RECOMMENDED" \in Ops!Desk!State
  BY DEF Ops!Desk!State
<1>3. CASE UNCHANGED <<recs, decision>> /\ (Ops!Recommend(c) => c.rule \in InfoRule)
  BY <1>3 DEF RowsTyped
<1>4. CASE Ops!Desk!Generate(f)
  <2>1. CASE Ops!Desk!Free(f) = {} /\ UNCHANGED recs
    <3>1. recs[<<f, 1>>] # None
      BY <1>1, <2>1 DEF Ops!Desk!Free
    <3> QED
      BY <2>1, <3>1 DEF RowsTyped
  <2>2. ASSUME NEW n \in Ops!Desk!Free(f), \A other \in Ops!Desk!Free(f) : n <= other,
               recs' = [recs EXCEPT ![<<f, n>>] = "RECOMMENDED"]
        PROVE  /\ recs' \in [Ops!Desk!Recs -> Ops!Desk!State \cup {None}]
               /\ recs'[<<f, 1>>] # None
               /\ \A r \in Ops!Desk!Recs : recs[r] # None => recs'[r] # None
    <3>1. n \in 1..MaxRecs /\ <<f, n>> \in Ops!Desk!Recs /\ <<f, 1>> \in Ops!Desk!Recs
      BY <1>1 DEF Ops!Desk!Free, Ops!Desk!Recs
    <3>2. n = 1 \/ recs[<<f, 1>>] # None
      BY <1>1, <2>2, <3>1 DEF Ops!Desk!Free
    <3> QED
      BY <1>1, <1>2, <2>2, <3>1, <3>2 DEF RowsTyped
  <2> QED
    BY <1>4, <2>1, <2>2 DEF Ops!Desk!Generate, Ops!Desk!Upserted, Ops!Desk!vars
<1> QED
  BY <1>3, <1>4 DEF Ops!Recommend, Ops!desk

LEMMA RecordedStays ==
  ASSUME PartsAssumption, RowsTyped, Ops!Store!Stored \subseteq Ops!Store!Stored',
         \A r \in Ops!Desk!Recs : recs[r] # None => recs'[r] # None,
         NEW c, Ops!Recorded(c)
  PROVE  Ops!Recorded(c)'
<1>1. MaxRecs \in Nat /\ MaxRecs >= 1
  BY DEF PartsAssumption, Ops!OperationsAssumption, Ops!Desk!RecommendationsAssumption
<1>2. <<Ops!Store!IdOf(c), 1>> \in Ops!Desk!Recs
  BY <1>1 DEF Ops!Recorded, Ops!Store!Stored, Ops!Desk!Recs
<1> QED
  BY <1>2 DEF Ops!Recorded

-----------------------------------------------------------------------------
(* An alert that is raised has a title of its own in its list. *)
LEMMA RaisingKeeps ==
  ASSUME NEW list, NEW c, NEW t,
         \A a, b \in list : Ops!Live!SameTitle(a.cond, b.cond) => a = b
  PROVE  LET new == list \cup Ops!Live!Raised(list, c, t) IN
         /\ \A a, b \in new : Ops!Live!SameTitle(a.cond, b.cond) => a = b
         /\ \A a \in new : a \in list \/ a.cond = c
<1>1. CASE Ops!Live!Titled(list, c)
  BY <1>1 DEF Ops!Live!Raised
<1>2. CASE ~Ops!Live!Titled(list, c)
  <2> DEFINE a == [cond |-> c, by |-> t]
  <2>1. list \cup Ops!Live!Raised(list, c, t) = list \cup {a} /\ a.cond = c
    BY <1>2 DEF Ops!Live!Raised
  <2>2. \A b \in list : ~Ops!Live!SameTitle(b.cond, c) /\ ~Ops!Live!SameTitle(c, b.cond)
    BY <1>2 DEF Ops!Live!Titled, Ops!Live!SameTitle
  <2> HIDE DEF a
  <2> QED
    BY <2>1, <2>2
<1> QED
  BY <1>1, <1>2

(* A scan adds alerts for conditions of the poll, each of its own title.    *)
LEMMA ScanningKeeps ==
  ASSUME PartsAssumption, NEW list, Good(list), NEW buildings, NEW t
  PROVE  Good(Ops!Live!Scanned(list, buildings, t))
<1> DEFINE C == UNION {Ops!Live!Evaluate(b) : b \in buildings}
           new == Ops!Live!Scanned(list, buildings, t)
<1>1. C \subseteq PollCondition
  BY DEF Ops!Live!Evaluate
<1>2. \A a \in new :
        \/ a \in list
        \/ /\ a.cond \in C /\ ~Ops!Live!Titled(list, a.cond)
           /\ a = [cond |-> a.cond, by |-> t]
  BY DEF Ops!Live!Scanned, Ops!Live!Raised
<1>3. /\ PollCondition \cap FddCondition = {}
      /\ \A c, d \in PollCondition : c.building = d.building /\ c.rule = d.rule => c = d
  BY DEF PartsAssumption, Ops!OperationsAssumption, Ops!Live!AlertsAssumption, Ops!Live!Condition
<1>4. ASSUME NEW a \in new, NEW b \in new, Ops!Live!SameTitle(a.cond, b.cond)
      PROVE  a = b
  <2>1. CASE a \in list /\ b \in list
    BY <1>4, <2>1 DEF Good
  <2>2. CASE a \in list /\ b \notin list
    BY <1>2, <1>4, <2>2 DEF Ops!Live!Titled
  <2>3. CASE a \notin list /\ b \in list
    BY <1>2, <1>4, <2>3 DEF Ops!Live!Titled, Ops!Live!SameTitle
  <2>4. CASE a \notin list /\ b \notin list
    <3>1. a.cond = b.cond
      BY <1>1, <1>2, <1>3, <1>4, <2>4 DEF Ops!Live!SameTitle
    <3> QED
      BY <1>2, <2>4, <3>1
  <2> QED
    BY <2>1, <2>2, <2>3, <2>4
<1>5. ASSUME NEW a \in new, a.cond \in FddCondition
      PROVE  Ops!Recorded(a.cond)
  BY <1>1, <1>2, <1>3, <1>5 DEF Good
<1> QED
  BY <1>4, <1>5 DEF Good

(* What a step of a job leaves in the lists, before its rows are written.   *)
Listed(t, list, listing) ==
  /\ alerts' = listing
  /\ copy' = [copy EXCEPT ![t] = list]
  /\ left' \subseteq FddCondition
  /\ results' \cup found' \subseteq results \cup found

LEMMA ListedKeeps ==
  ASSUME ListsInv, NEW t \in Ops!Live!Task, NEW list, Good(list), NEW listing, Good(listing),
         Listed(t, list, listing), UNCHANGED <<faults, recs>>
  PROVE  ListsInv'
<1>1. \A c : Ops!Recorded(c)' <=> Ops!Recorded(c)
  BY DEF Ops!Recorded, Ops!Store!Stored
<1>2. Good(list)' /\ Good(listing)' /\ \A u \in Ops!Live!Task : Good(copy[u])'
  BY <1>1 DEF ListsInv, Listed, Good, Ops!Live!SameTitle
<1> QED
  BY <1>1, <1>2 DEF ListsInv, Listed

LEMMA EmptyIsGood == Good({})
BY DEF Good

(* A poll's scan ends in the shown list, or waits with its copy. *)
LEMMA PollRunsKeeps ==
  ASSUME PartsAssumption, ListsInv, NEW t \in Ops!Live!Poller, NEW list, Good(list), NEW first,
         Ops!Live!PollRuns(t, list, first), UNCHANGED <<prone, present, results, faults, recs>>
  PROVE  ListsInv'
<1>1. t \in Ops!Live!Task
  BY DEF Ops!Live!Task
<1>2. PICK stop, seen :
        IF stop <= NumBuildings
        THEN /\ copy' = [copy EXCEPT ![t] = Ops!Live!Scanned(list, seen, t)]
             /\ UNCHANGED <<alerts, left, found>>
        ELSE /\ alerts' = Ops!Live!Scanned(list, seen, t)
             /\ IF t = "boot" THEN Ops!Live!FddBegins(t, alerts')
                ELSE Ops!Live!Finish(t) /\ UNCHANGED <<left, found>>
  BY DEF Ops!Live!PollRuns, Ops!Live!SetAlerts
<1> DEFINE new == Ops!Live!Scanned(list, seen, t)
<1>3. Good(new)
  BY ScanningKeeps
<1> HIDE DEF new
<1>4. CASE stop <= NumBuildings
  <2>1. Listed(t, new, alerts)
    BY <1>2, <1>4 DEF Listed, ListsInv, new
  <2> QED
    BY <1>1, <1>3, <2>1, ListedKeeps DEF ListsInv
<1>5. CASE ~(stop <= NumBuildings) /\ t = "boot"
  <2>1. Listed(t, new, new)
    BY <1>2, <1>5 DEF Listed, ListsInv, new, Ops!Live!FddBegins
  <2> QED
    BY <1>1, <1>3, <2>1, ListedKeeps
<1>6. CASE ~(stop <= NumBuildings) /\ t # "boot"
  <2>1. Listed(t, {}, new)
    BY <1>2, <1>6 DEF Listed, ListsInv, new, Ops!Live!Finish
  <2> QED
    BY <1>1, <1>3, <2>1, ListedKeeps, EmptyIsGood
<1> QED
  BY <1>4, <1>5, <1>6

LEMMA PollStepsKeep ==
  ASSUME PartsAssumption, OpsInv, NEW t \in Ops!Live!Poller, Ops!PollStep(t)
  PROVE  OpsInv'
<1>1. UNCHANGED <<prone, present, results, faults, recs>>
  BY DEF Ops!PollStep, Ops!NoRow, Ops!store, Ops!desk, Ops!Live!PollScans, Ops!Live!PollResumes,
         Ops!Live!world
<1>2. Good(alerts) /\ Good(copy[t])
  BY DEF OpsInv, ListsInv, Ops!Live!Task
<1>3. ListsInv'
  <2>1. CASE Ops!Live!PollScans(t)
    BY <1>1, <1>2, <2>1, PollRunsKeeps DEF Ops!Live!PollScans, OpsInv
  <2>2. CASE Ops!Live!PollResumes(t)
    <3>1. PICK seen : Ops!Live!PollRuns(t, Ops!Live!Scanned(copy[t], seen, t), at[t] + 1)
      BY <2>2 DEF Ops!Live!PollResumes
    <3>2. Good(Ops!Live!Scanned(copy[t], seen, t))
      BY <1>2, ScanningKeeps
    <3> QED
      BY <1>1, <3>1, <3>2, PollRunsKeeps DEF OpsInv
  <2> QED
    BY <2>1, <2>2 DEF Ops!PollStep
<1> QED
  BY <1>1, <1>3 DEF OpsInv, RowsTyped

(* A task that begins, ends or is given up.                                 *)
LEMMA TurnsKeep ==
  ASSUME OpsInv,
         \/ Ops!FddStart
         \/ \E t \in Ops!Live!Task : Ops!FddEnds(t)
         \/ \E t \in Ops!Live!Poller : Ops!PollRaises(t)
  PROVE  OpsInv'
<1>1. UNCHANGED <<faults, recs>>
  BY DEF Ops!FddStart, Ops!FddEnds, Ops!PollRaises, Ops!NoRow, Ops!store, Ops!desk
<1>2. \E t \in Ops!Live!Task : \E list \in {alerts, {}}, listing \in {alerts, copy[t]} : Listed(t, list, listing)
  <2>1. CASE Ops!FddStart
    <3>1. "fdd" \in Ops!Live!Task /\ Listed("fdd", alerts, alerts)
      BY <2>1 DEF Ops!FddStart, Ops!Live!FddStart, Ops!Live!FddBegins, Ops!Live!cache, Ops!Live!Task,
                  Listed, ListsInv, OpsInv
    <3> QED
      BY <3>1
  <2>2. ASSUME NEW t \in Ops!Live!Task, Ops!FddEnds(t)
        PROVE  Listed(t, {}, copy[t])
    BY <2>2 DEF Ops!FddEnds, Ops!Live!FddEnds, Ops!Live!Finish, Ops!Live!SetAlerts, Listed, ListsInv, OpsInv
  <2>3. ASSUME NEW t \in Ops!Live!Poller, Ops!PollRaises(t)
        PROVE  t \in Ops!Live!Task /\ Listed(t, {}, alerts)
    BY <2>3 DEF Ops!PollRaises, Ops!Live!PollRaises, Ops!Live!Finish, Ops!Live!cache, Ops!Live!Task,
                Listed, ListsInv, OpsInv
  <2> QED
    BY <2>1, <2>2, <2>3
<1>3. PICK t \in Ops!Live!Task : \E list, listing : Good(list) /\ Good(listing) /\ Listed(t, list, listing)
  BY <1>2, EmptyIsGood DEF OpsInv, ListsInv
<1>4. PICK list, listing : Good(list) /\ Good(listing) /\ Listed(t, list, listing)
  BY <1>3
<1>5. ListsInv'
  BY <1>1, <1>4, ListedKeeps DEF OpsInv
<1> QED
  BY <1>1, <1>5 DEF OpsInv, RowsTyped

(* The rows of a condition are written with its entry in the lists of the   *)
(* cycle, or, when the cycle raises, perhaps without.                       *)
LEMMA ReportsKeep ==
  ASSUME PartsAssumption, OpsInv, NEW t \in Ops!Live!Task, NEW c \in FddCondition, Ops!FddReports(t, c)
  PROVE  OpsInv'
<1>1. /\ RowsTyped'
      /\ \A d : Ops!Recorded(d) => Ops!Recorded(d)'
      /\ Ops!Recorded(c)'
  <2>1. Ops!Store!Upsert(c) /\ Ops!Recommend(c)
    BY DEF Ops!FddReports
  <2> QED
    BY <2>1, UpsertRecords, RecommendRecords, RecordedStays DEF OpsInv, RowsTyped, Ops!Recorded
<1>2. /\ alerts' = alerts /\ results' = results /\ left' \subseteq left
      /\ \/ UNCHANGED <<found, copy>>
         \/ /\ found' = found \cup {c}
            /\ copy' = [copy EXCEPT ![t] = copy[t] \cup Ops!Live!Raised(copy[t], c, t)]
  BY DEF Ops!FddReports, Ops!Live!FddReports, Ops!Live!cache
<1>3. ASSUME NEW list, Good(list)
      PROVE  Good(list)'
  BY <1>1, <1>3 DEF Good, Ops!Live!SameTitle
<1>4. ASSUME NEW list, Good(list)
      PROVE  Good(list \cup Ops!Live!Raised(list, c, t))'
  <2> DEFINE new == list \cup Ops!Live!Raised(list, c, t)
  <2>1. /\ \A a, b \in new : Ops!Live!SameTitle(a.cond, b.cond) => a = b
        /\ \A a \in new : a \in list \/ a.cond = c
    BY <1>4, RaisingKeeps DEF Good
  <2> HIDE DEF new
  <2>2. Good(new)'
    BY <1>1, <1>4, <2>1 DEF Good, Ops!Live!SameTitle
  <2> QED
    BY <2>2 DEF new
<1>5. Good(alerts)'
  BY <1>2, <1>3 DEF OpsInv, ListsInv, Good
<1>6. ASSUME NEW u \in Ops!Live!Task
      PROVE  Good(copy[u])'
  BY <1>2, <1>3, <1>4 DEF OpsInv, ListsInv, Good
<1> QED
  BY <1>1, <1>2, <1>5, <1>6 DEF OpsInv, ListsInv

LEMMA MishapsKeep ==
  ASSUME PartsAssumption, OpsInv, NEW t \in Ops!Live!Task, Ops!FddRaises(t)
  PROVE  OpsInv'
<1>1. /\ RowsTyped'
      /\ \A d : Ops!Recorded(d) => Ops!Recorded(d)'
  <2>1. CASE UNCHANGED <<faults, recs>>
    BY <2>1 DEF OpsInv, RowsTyped, Ops!Recorded, Ops!Store!Stored
  <2>2. CASE \E c \in left : Ops!Store!Upsert(c) /\ (Ops!Recommend(c) \/ UNCHANGED <<recs, decision>>)
    <3>1. PICK c \in FddCondition : Ops!Store!Upsert(c) /\ (Ops!Recommend(c) \/ UNCHANGED <<recs, decision>>)
      BY <2>2 DEF OpsInv, ListsInv
    <3> QED
      BY <3>1, UpsertRecords, RecommendRecords, RecordedStays DEF OpsInv, RowsTyped
  <2> QED
    BY <2>1, <2>2 DEF Ops!FddRaises, Ops!store, Ops!desk
<1>2. /\ UNCHANGED <<alerts, results>> /\ left' = {} /\ found' = {}
      /\ copy' = [copy EXCEPT ![t] = {}]
  BY DEF Ops!FddRaises, Ops!Live!FddRaises, Ops!Live!Finish, Ops!Live!cache
<1>3. ASSUME NEW list, Good(list)
      PROVE  Good(list)'
  BY <1>1, <1>3 DEF Good, Ops!Live!SameTitle
<1>4. Good(alerts)' /\ \A u \in Ops!Live!Task : Good(copy[u])'
  BY <1>2, <1>3 DEF OpsInv, ListsInv, Good
<1> QED
  BY <1>1, <1>2, <1>4 DEF OpsInv, ListsInv

LEMMA OpsInvariant ==
  ASSUME PartsAssumption, OpsInv, Ops!Next \/ UNCHANGED operations
  PROVE  OpsInv'
<1>1. CASE Ops!Restart
  <2>1. /\ alerts' = {} /\ results' = {} /\ left' = {} /\ found' = {}
        /\ copy' = [t \in Ops!Live!Task |-> {}] /\ UNCHANGED <<faults, recs>>
    BY <1>1 DEF Ops!Restart, Ops!Live!Restart, Ops!store, Ops!desk
  <2> QED
    BY <2>1 DEF OpsInv, ListsInv, RowsTyped, Good
<1>2. CASE Ops!ConditionChanges \/ Ops!PollStart \/ UNCHANGED operations
  <2>1. UNCHANGED <<alerts, results, copy, left, found, faults, recs>>
    BY <1>2 DEF Ops!ConditionChanges, Ops!PollStart, Ops!NoRow, Ops!store, Ops!desk, operations,
                Ops!Live!ConditionChanges, Ops!Live!PollStart, Ops!Live!cache, Ops!Live!jobs
  <2> QED
    BY <2>1 DEF OpsInv, ListsInv, RowsTyped, Good, Ops!Recorded, Ops!Store!Stored
<1>3. CASE \E t \in Ops!Live!Poller : Ops!PollStep(t) \/ Ops!PollRaises(t)
  BY <1>3, PollStepsKeep, TurnsKeep
<1>4. CASE \E t \in Ops!Live!Task : Ops!FddEnds(t) \/ Ops!FddRaises(t)
  BY <1>4, TurnsKeep, MishapsKeep
<1>5. CASE \E t \in Ops!Live!Task, c \in FddCondition : Ops!FddReports(t, c)
  BY <1>5, ReportsKeep
<1>6. CASE Ops!FddStart
  BY <1>6, TurnsKeep
<1> QED
  BY <1>1, <1>2, <1>3, <1>4, <1>5, <1>6 DEF Ops!Next

LEMMA OpsAlways == Spec => [](part = "operations" => OpsInv)
<1> DEFINE Inv == part = "operations" => OpsInv
<1>1. Init => Inv
  BY OpsStart
<1>2. Inv /\ [Next]_vars => Inv'
  BY PartSteps, OpsInvariant, PartsAssumption
<1> QED
  BY <1>1, <1>2, PTL DEF Spec

(* live_cache never lists two alerts of one title and building, whichever   *)
(* copies run_poll_cycle and run_fdd_cycle extend and write back.           *)
THEOREM TitlesAreUnique == Spec => []OneAlertPerTitle
<1>1. (part = "operations" => OpsInv) => OneAlertPerTitle
  BY DEF OpsInv, ListsInv, Good, OneAlertPerTitle, Ops!OneAlertPerTitle, Ops!Live!OneAlertPerTitle
<1> QED
  BY <1>1, OpsAlways, PTL

(* What GET /alerts/fdd lists, and every alert the FDD job raised, has its  *)
(* rows in fdd_faults and recommendations, in whatever cycle it was listed  *)
(* and wherever a cycle raised.                                             *)
THEOREM ListedHasRows == Spec => []ListedIsRecorded
<1>1. (part = "operations" => OpsInv) => ListedIsRecorded
  BY DEF OpsInv, ListsInv, Good, ListedIsRecorded, Ops!ListedIsRecorded
<1> QED
  BY <1>1, OpsAlways, PTL

-----------------------------------------------------------------------------
(* The health of points. *)

(* A source's clock runs ahead of the cloud's by MaxAhead at most, so the   *)
(* source of a value cannot say that it is younger than that.               *)
Lag(row) == row.source # None => row.received <= row.source + MaxAhead

HealthInv ==
  /\ Health!TypeOK
  /\ \A p \in Point : current[p] # None => Lag(current[p])

LEMMA HealthStart ==
  ASSUME Init
  PROVE  HealthInv
BY DEF Init, Health!Init, HealthInv, Health!TypeOK

LEMMA OlderRows ==
  ASSUME PartsAssumption, NEW row \in Health!Row, Lag(row)
  PROVE  LET older == [row EXCEPT !.source = Health!Older(@), !.received = Health!Older(@)] IN
         older \in Health!Row /\ Lag(older)
<1>1. MaxAhead \in Nat /\ MaxAge \in Nat /\ MaxAge > 3 + MaxAhead /\ None \notin Int
  BY DEF PartsAssumption, Health!HealthAssumption
<1>2. row.received \in 0..MaxAge /\ row.source \in (-MaxAhead..MaxAge) \cup {None}
  BY DEF Health!Row, Health!Ages, Health!SourceAges
<1>3. row.received # None
  BY <1>1, <1>2
<1>4. /\ Health!Older(row.received) \in 0..MaxAge
      /\ Health!Older(row.source) \in (-MaxAhead..MaxAge) \cup {None}
      /\ Health!Older(row.source) # None => Health!Older(row.received) <= Health!Older(row.source) + MaxAhead
  BY <1>1, <1>2, <1>3 DEF Lag, Health!Older
<1> QED
  BY <1>4 DEF Lag, Health!Row, Health!Ages, Health!SourceAges

LEMMA HealthInvariant ==
  ASSUME PartsAssumption, HealthInv, Health!Next \/ UNCHANGED current
  PROVE  HealthInv'
<1>0. MaxAhead \in Nat /\ MaxAge \in Nat /\ MaxAge > 3 + MaxAhead /\ None \notin Int
  BY DEF PartsAssumption, Health!HealthAssumption
<1>1. CASE Health!Tick
  <2>1. ASSUME NEW p \in Point
        PROVE  /\ current'[p] \in Health!Row \cup {None}
               /\ current'[p] # None => Lag(current'[p])
    <3>1. CASE current[p] = None
      BY <1>1, <3>1 DEF Health!Tick, Health!Known
    <3>2. CASE current[p] # None
      <4>1. current[p] \in Health!Row /\ Lag(current[p])
        BY <3>2 DEF HealthInv, Health!TypeOK
      <4>2. current'[p] = [current[p] EXCEPT !.source = Health!Older(@), !.received = Health!Older(@)]
        BY <1>1, <3>2 DEF Health!Tick, Health!Known
      <4> QED
        BY <4>1, <4>2, OlderRows
    <3> QED
      BY <3>1, <3>2
  <2>2. current' = [p \in Point |-> current'[p]]
    BY <1>1 DEF Health!Tick
  <2> QED
    BY <2>1, <2>2 DEF HealthInv, Health!TypeOK
<1>2. ASSUME NEW p \in Point, NEW v \in {"number", "text"}, NEW s \in Health!SourceAges, NEW q \in Quality,
             Health!Receive(p, v, s, q)
      PROVE  HealthInv'
  <2> DEFINE row == [value |-> v, source |-> s, received |-> 0, quality |-> q,
                     freshness |-> Health!ComputeFreshness(0)]
  <2>1. current' = [current EXCEPT ![p] = row]
    BY <1>2 DEF Health!Receive
  <2>2. row \in Health!Row /\ Lag(row)
    BY <1>0 DEF Lag, Health!Row, Health!Ages, Health!SourceAges, Health!Freshness, Health!ComputeFreshness
  <2> HIDE DEF row
  <2> QED
    BY <2>1, <2>2 DEF HealthInv, Health!TypeOK
<1>3. CASE UNCHANGED current
  BY <1>3 DEF HealthInv, Health!TypeOK
<1> QED
  BY <1>1, <1>2, <1>3 DEF Health!Next

(* A point whose health is GOOD was heard of lately. *)
LEMMA GoodIsHeard ==
  ASSUME PartsAssumption, HealthInv, NEW p \in Point, Health!RegistryPointHealth(p) = "GOOD"
  PROVE  p \in Health!Known /\ ~Health!Silent(p, 3 + MaxAhead)
<1>1. p \in Health!Known
  BY DEF Health!RegistryPointHealth, Health!Status, Health!AssessPoint
<1>2. current[p] \in Health!Row /\ Lag(current[p])
  BY <1>1 DEF HealthInv, Health!TypeOK, Health!Known
<1>3. Health!Status(p) = "GOOD"
  BY <1>1, <1>2 DEF Health!RegistryPointHealth, Health!Status, Health!AssessPoint, Health!FreshnessState,
                    Health!Row, Health!Freshness
<1>4. ~(Health!AssessedAge(p) > 3)
  BY <1>1, <1>2, <1>3 DEF Health!Status, Health!AssessPoint, Health!Row
<1>5. MaxAhead \in Nat /\ MaxAge \in Nat /\ None \notin Int
  BY DEF PartsAssumption, Health!HealthAssumption
<1>6. current[p].received <= 3 + MaxAhead
  BY <1>2, <1>4, <1>5 DEF Health!AssessedAge, Lag, Health!Row, Health!Ages, Health!SourceAges
<1> QED
  BY <1>1, <1>2, <1>5, <1>6 DEF Health!Silent, Health!Row, Health!Ages

LEMMA HealthOfTheBuilding ==
  ASSUME PartsAssumption, HealthInv
  PROVE  Health!HealthTellsAge
<1> DEFINE good == {p \in Point : Health!RegistryPointHealth(p) = "GOOD"}
           lately == {p \in Health!Known : ~Health!Silent(p, 3 + MaxAhead)}
<1>0. /\ \A S : Health!IsFiniteSet(S) <=> IsFiniteSet(S)
      /\ \A S : Health!Cardinality(S) = Cardinality(S)
  BY DEF IsFiniteSet, Health!IsFiniteSet, Cardinality, Health!Cardinality
<1>1. IsFiniteSet(Point)
  BY <1>0 DEF PartsAssumption, Health!HealthAssumption
<1>2. good \subseteq lately /\ lately \subseteq Point
  BY GoodIsHeard DEF Health!Known
<1>3. IsFiniteSet(lately) /\ IsFiniteSet(good) /\ Cardinality(good) <= Cardinality(lately)
  BY <1>1, <1>2, FS_Subset
<1>4. Cardinality(good) \in Nat /\ Cardinality(lately) \in Nat /\ Cardinality(Point) \in Nat
  BY <1>1, <1>3, FS_CardinalityType
<1>5. Health!AggregateHealth = "GOOD" => 10 * Cardinality(good) >= 9 * Cardinality(Point)
  BY <1>0 DEF Health!AggregateHealth, Health!Count
<1> QED
  BY <1>0, <1>3, <1>4, <1>5 DEF Health!HealthTellsAge

(* A building that data_health_engine.py calls GOOD was heard of from nine  *)
(* in ten of its points within three intervals and the time source clocks   *)
(* run ahead, for any number of points.                                     *)
THEOREM GoodHealthIsRecent == Spec => []HealthTellsAge
<1> DEFINE Inv == part = "health" => HealthInv
<1>1. Init => Inv
  BY HealthStart
<1>2. Inv /\ [Next]_vars => Inv'
  BY PartSteps, HealthInvariant, PartsAssumption
<1>3. Inv => HealthTellsAge
  BY HealthOfTheBuilding, PartsAssumption DEF HealthTellsAge
<1> QED
  BY <1>1, <1>2, <1>3, PTL DEF Spec

-----------------------------------------------------------------------------
(* The older gateway. *)

(* A row has been tried at least once for every row behind it.              *)
Tried(least) == \A i \in DOMAIN pending : pending[i].attempts >= Len(pending) - i + least

(* Within a round, the rows before agentAt were tried once more, and those  *)
(* that stayed may be tried again.                                          *)
AgentInv ==
  /\ pending \in Seq(Agent!Row) /\ Len(pending) <= MaxRetries
  /\ agentAt \in Nat \ {0} /\ agentTodo \in Nat
  /\ Tried(0)
  /\ agentPc = "flushing" =>
       /\ agentAt + agentTodo = Len(pending) + 1
       /\ \A i \in 1..agentAt - 1 :
            pending[i].attempts >= Len(pending) - i + 1 /\ pending[i].attempts < MaxRetries
  /\ agentPc = "pushing" =>
       \A i \in DOMAIN pending :
            pending[i].attempts >= Len(pending) - i + 1 /\ pending[i].attempts < MaxRetries

LEMMA AgentStart ==
  ASSUME PartsAssumption, Init
  PROVE  AgentInv
<1>1. pending = <<>> /\ agentPc = "sleeping" /\ agentAt = 1 /\ agentTodo = 0
  BY DEF Init, Agent!Init
<1>2. MaxRetries \in Nat
  BY DEF PartsAssumption, Agent!AgentAssumption
<1> QED
  BY <1>1, <1>2 DEF AgentInv, Tried

LEMMA RemoveAtProperties ==
  ASSUME NEW S, NEW s \in Seq(S), NEW i \in 1..Len(s)
  PROVE  /\ Agent!RemoveAt(s, i) \in Seq(S)
         /\ Len(Agent!RemoveAt(s, i)) = Len(s) - 1
         /\ \A j \in 1..Len(s) - 1 : Agent!RemoveAt(s, i)[j] = IF j < i THEN s[j] ELSE s[j + 1]
<1> DEFINE front == SubSeq(s, 1, i - 1)
           back == SubSeq(s, i + 1, Len(s))
<1>1. /\ front \in Seq(S) /\ Len(front) = i - 1
      /\ \A j \in 1..i - 1 : front[j] = s[j]
  BY SubSeqProperties
<1>2. /\ back \in Seq(S) /\ Len(back) = Len(s) - i
      /\ \A j \in 1..Len(s) - i : back[j] = s[j + i]
  BY SubSeqProperties
<1>3. Agent!RemoveAt(s, i) = front \o back
  BY DEF Agent!RemoveAt
<1> HIDE DEF front, back
<1>4. /\ front \o back \in Seq(S) /\ Len(front \o back) = Len(front) + Len(back)
      /\ \A j \in 1..Len(front) + Len(back) :
           (front \o back)[j] = IF j <= Len(front) THEN front[j] ELSE back[j - Len(front)]
  BY <1>1, <1>2, ConcatProperties
<1>5. Len(s) \in Nat /\ i \in Nat
  BY LenProperties
<1>6. ASSUME NEW j \in 1..Len(s) - 1
      PROVE  (front \o back)[j] = IF j < i THEN s[j] ELSE s[j + 1]
  <2>1. CASE j < i
    BY <1>1, <1>2, <1>4, <1>5, <1>6, <2>1
  <2>2. CASE ~(j < i)
    <3>1. j - (i - 1) \in 1..Len(s) - i /\ (j - (i - 1)) + i = j + 1
      BY <1>5, <1>6, <2>2
    <3>2. back[j - (i - 1)] = s[j + 1]
      BY <1>2, <3>1
    <3> QED
      BY <1>1, <1>2, <1>4, <1>5, <1>6, <2>2, <3>2
  <2> QED
    BY <2>1, <2>2
<1> QED
  BY <1>1, <1>2, <1>3, <1>4, <1>5, <1>6

(* A row that was tried keeps its place with one attempt more, or leaves.   *)
LEMMA BumpedRow ==
  ASSUME AgentInv, NEW i \in DOMAIN pending, pending[i].attempts < MaxAttempts, MaxAttempts \in Nat
  PROVE  LET bumped == [pending EXCEPT ![i].attempts = @ + 1] IN
         /\ bumped \in Seq(Agent!Row) /\ Len(bumped) = Len(pending)
         /\ \A j \in DOMAIN pending : j # i => bumped[j] = pending[j]
         /\ bumped[i].attempts = pending[i].attempts + 1
<1> DEFINE row == [pending[i] EXCEPT !.attempts = @ + 1]
           bumped == [pending EXCEPT ![i] = row]
<1>1. pending[i] \in Agent!Row
  BY DEF AgentInv
<1>2. row \in Agent!Row /\ row.attempts = pending[i].attempts + 1
  BY <1>1 DEF Agent!Row
<1> HIDE DEF row
<1>3. /\ bumped \in Seq(Agent!Row) /\ Len(bumped) = Len(pending)
      /\ \A j \in DOMAIN pending : j # i => bumped[j] = pending[j]
      /\ bumped[i] = row
  BY <1>2, ExceptSeq DEF AgentInv
<1> QED
  BY <1>2, <1>3 DEF row

LEMMA AgentConstants ==
  ASSUME PartsAssumption
  PROVE  /\ MaxRetries \in Nat \ {0} /\ Limit \in Nat /\ MaxAttempts \in Nat
         /\ MaxRetries <= Limit /\ MaxRetries <= MaxAttempts
BY DEF PartsAssumption, Agent!AgentAssumption

LEMMA RowsOfTheTable ==
  ASSUME PartsAssumption, AgentInv
  PROVE  /\ Len(pending) \in Nat /\ DOMAIN pending = 1..Len(pending)
         /\ \A i \in 1..Len(pending) :
              /\ pending[i] \in Agent!Row /\ pending[i].attempts \in Nat
              /\ pending[i].attempts >= Len(pending) - i
<1>1. Len(pending) \in Nat /\ DOMAIN pending = 1..Len(pending)
  BY LenProperties DEF AgentInv
<1>2. ASSUME NEW i \in 1..Len(pending)
      PROVE  /\ pending[i] \in Agent!Row /\ pending[i].attempts \in Nat
             /\ pending[i].attempts >= Len(pending) - i
  <2>1. pending[i] \in Agent!Row
    BY <1>1, <1>2 DEF AgentInv
  <2>2. pending[i].attempts \in Nat
    BY <2>1, AgentConstants DEF Agent!Row
  <2>3. pending[i].attempts >= Len(pending) - i + 0
    BY <1>1, <1>2 DEF AgentInv, Tried
  <2> QED
    BY <1>1, <1>2, <2>1, <2>2, <2>3
<1> QED
  BY <1>1, <1>2

LEMMA BeginKeeps ==
  ASSUME PartsAssumption, AgentInv, Agent!Begin
  PROVE  AgentInv'
<1>1. /\ UNCHANGED pending /\ agentPc' = "flushing" /\ agentAt' = 1
      /\ agentTodo' = IF Len(pending) < Limit THEN Len(pending) ELSE Limit
  BY DEF Agent!Begin
<1>2. Len(pending) \in Nat /\ agentTodo' = Len(pending)
  BY <1>1, AgentConstants, LenProperties DEF AgentInv
<1> QED
  BY <1>1, <1>2 DEF AgentInv, Tried

(* A row leaves: those behind it move up, and there is one less to come.    *)
LEMMA LeavingKeeps ==
  ASSUME PartsAssumption, AgentInv, agentPc = "flushing", agentTodo > 0,
         pending' = Agent!RemoveAt(pending, agentAt),
         agentAt' = agentAt, agentTodo' = agentTodo - 1, agentPc' = agentPc
  PROVE  AgentInv'
<1> DEFINE n == Len(pending)
<1>1. n \in Nat /\ DOMAIN pending = 1..n /\ agentAt \in 1..n
  BY LenProperties DEF AgentInv
<1>2. /\ pending' \in Seq(Agent!Row) /\ Len(pending') = n - 1
      /\ \A j \in 1..n - 1 : pending'[j] = IF j < agentAt THEN pending[j] ELSE pending[j + 1]
  BY <1>1, RemoveAtProperties DEF AgentInv
<1>3. DOMAIN pending' = 1..n - 1
  BY <1>1, <1>2, LenProperties
<1>4. \A j \in 1..n : pending[j].attempts \in Nat /\ pending[j].attempts >= n - j
  BY RowsOfTheTable
<1>5. ASSUME NEW j \in 1..n - 1
      PROVE  pending'[j].attempts >= (n - 1) - j
  <2>1. CASE j < agentAt
    BY <1>1, <1>2, <1>4, <1>5, <2>1
  <2>2. CASE ~(j < agentAt)
    <3>1. j + 1 \in 1..n /\ pending'[j] = pending[j + 1]
      BY <1>1, <1>2, <1>5, <2>2
    <3>2. pending[j + 1].attempts >= n - (j + 1)
      BY <1>4, <3>1
    <3> QED
      BY <1>1, <1>4, <1>5, <3>1, <3>2
  <2> QED
    BY <2>1, <2>2
<1>6. ASSUME NEW j \in 1..agentAt - 1
      PROVE  pending'[j].attempts >= (n - 1) - j + 1 /\ pending'[j].attempts < MaxRetries
  <2>1. j \in 1..n /\ j \in 1..n - 1 /\ pending'[j] = pending[j]
    BY <1>1, <1>2, <1>6
  <2>2. pending[j].attempts >= n - j + 1 /\ pending[j].attempts < MaxRetries
    BY <1>6 DEF AgentInv
  <2> QED
    BY <1>1, <1>4, <1>6, <2>1, <2>2
<1>7. agentAt' + agentTodo' = (n - 1) + 1 /\ agentTodo' \in Nat /\ n - 1 <= MaxRetries
  BY <1>1, AgentConstants DEF AgentInv
<1>8. Tried(0)'
  <2>1. ASSUME NEW j \in 1..n - 1
        PROVE  pending'[j].attempts >= (n - 1) - j + 0
    BY <1>1, <1>5, <2>1
  <2> QED
    BY <1>2, <1>3, <2>1 DEF Tried
<1> QED
  BY <1>1, <1>2, <1>6, <1>7, <1>8 DEF AgentInv

(* A row stays, with an attempt more, and may be tried again. *)
LEMMA StayingKeeps ==
  ASSUME PartsAssumption, AgentInv, agentPc = "flushing", agentTodo > 0,
         pending[agentAt].attempts + 1 < MaxRetries,
         pending' = Agent!Bumped,
         agentAt' = agentAt + 1, agentTodo' = agentTodo - 1, agentPc' = agentPc
  PROVE  AgentInv'
<1> DEFINE n == Len(pending)
<1>1. n \in Nat /\ DOMAIN pending = 1..n /\ agentAt \in 1..n
  BY LenProperties DEF AgentInv
<1>2. \A j \in 1..n : pending[j].attempts \in Nat /\ pending[j].attempts >= n - j
  BY RowsOfTheTable
<1>3. /\ pending' \in Seq(Agent!Row) /\ Len(pending') = n
      /\ \A j \in 1..n : j # agentAt => pending'[j] = pending[j]
      /\ pending'[agentAt].attempts = pending[agentAt].attempts + 1
  BY <1>1, <1>2, AgentConstants, BumpedRow DEF Agent!Bumped
<1>4. DOMAIN pending' = 1..n
  BY <1>1, <1>3, LenProperties
<1>5. ASSUME NEW j \in 1..n
      PROVE  pending'[j].attempts >= n - j + 0
  <2>1. CASE j = agentAt
    BY <1>1, <1>2, <1>3, <2>1
  <2>2. CASE j # agentAt
    BY <1>1, <1>2, <1>3, <1>5, <2>2
  <2> QED
    BY <2>1, <2>2
<1>6. ASSUME NEW j \in 1..agentAt
      PROVE  pending'[j].attempts >= n - j + 1 /\ pending'[j].attempts < MaxRetries
  <2>1. CASE j = agentAt
    BY <1>1, <1>2, <1>3, <2>1
  <2>2. CASE j # agentAt
    <3>1. j \in 1..n /\ j \in 1..agentAt - 1
      BY <1>1, <1>6, <2>2
    <3> QED
      BY <1>3, <2>2, <3>1 DEF AgentInv
  <2> QED
    BY <2>1, <2>2
<1>7. Tried(0)'
  BY <1>3, <1>4, <1>5 DEF Tried
<1>8. /\ agentAt' \in Nat \ {0} /\ agentTodo' \in Nat /\ agentAt' + agentTodo' = n + 1
      /\ agentAt' - 1 = agentAt
  BY <1>1 DEF AgentInv
<1> QED
  BY <1>1, <1>3, <1>6, <1>7, <1>8 DEF AgentInv

LEMMA FlushKeeps ==
  ASSUME PartsAssumption, AgentInv, Agent!Flush
  PROVE  AgentInv'
<1>1. /\ agentPc = "flushing" /\ agentTodo > 0 /\ agentTodo' = agentTodo - 1 /\ agentPc' = agentPc
      /\ \/ pending' = Agent!RemoveAt(pending, agentAt) /\ agentAt' = agentAt
         \/ /\ ~(pending[agentAt].attempts + 1 >= MaxRetries)
            /\ pending' = Agent!Bumped /\ agentAt' = agentAt + 1
  BY DEF Agent!Flush, Agent!AfterSuccess, Agent!AfterFailure
<1>2. CASE pending' = Agent!RemoveAt(pending, agentAt) /\ agentAt' = agentAt
  BY <1>1, <1>2, LeavingKeeps
<1>3. CASE /\ ~(pending[agentAt].attempts + 1 >= MaxRetries)
           /\ pending' = Agent!Bumped /\ agentAt' = agentAt + 1
  <2>1. agentAt \in DOMAIN pending
    BY <1>1, LenProperties DEF AgentInv
  <2>2. pending[agentAt].attempts \in Nat
    BY <2>1, RowsOfTheTable
  <2>3. pending[agentAt].attempts + 1 < MaxRetries
    BY <1>3, <2>2, AgentConstants
  <2> QED
    BY <1>1, <1>3, <2>3, StayingKeeps
<1> QED
  BY <1>1, <1>2, <1>3

(* The snapshots of the table become older ones.                            *)
LEMMA ReadKeeps ==
  ASSUME AgentInv, Agent!ReadSensors
  PROVE  AgentInv'
<1> DEFINE n == Len(pending)
<1>1. n \in Nat /\ DOMAIN pending = 1..n
  BY LenProperties DEF AgentInv
<1>2. /\ agentPc = "flushing" /\ agentTodo = 0 /\ agentPc' = "pushing"
      /\ UNCHANGED <<agentAt, agentTodo>>
      /\ pending' = [i \in 1..n |-> [pending[i] EXCEPT !.snap = Agent!Aged(@)]]
  BY <1>1 DEF Agent!ReadSensors
<1>3. ASSUME NEW i \in 1..n
      PROVE  pending'[i] \in Agent!Row /\ pending'[i].attempts = pending[i].attempts
  <2>1. pending[i] \in Agent!Row
    BY <1>1 DEF AgentInv
  <2>2. Agent!Aged(pending[i].snap) \in Agent!Snapshot
    BY <2>1 DEF Agent!Aged, Agent!Row, Agent!Snapshot
  <2> QED
    BY <1>2, <2>1, <2>2 DEF Agent!Row
<1>4. pending' \in [1..n -> Agent!Row]
  BY <1>2, <1>3
<1>5. pending' \in Seq(Agent!Row) /\ Len(pending') = n /\ DOMAIN pending' = 1..n
  BY <1>1, <1>4
<1>6. agentAt - 1 = n
  BY <1>1, <1>2 DEF AgentInv
<1>7. \A i \in 1..n : pending'[i].attempts >= n - i + 1 /\ pending'[i].attempts < MaxRetries
  BY <1>1, <1>2, <1>3, <1>6 DEF AgentInv
<1> QED
  BY <1>1, <1>2, <1>3, <1>5, <1>7 DEF AgentInv, Tried

(* Before a snapshot is added, every row has been tried once more, so the   *)
(* first one, and with it the table, leaves room for it.                    *)
LEMMA PushKeeps ==
  ASSUME PartsAssumption, AgentInv, Agent!Push
  PROVE  AgentInv'
<1> DEFINE n == Len(pending)
<1>1. n \in Nat /\ DOMAIN pending = 1..n
  BY LenProperties DEF AgentInv
<1>2. /\ agentPc = "pushing" /\ agentPc' = "sleeping" /\ UNCHANGED <<agentAt, agentTodo>>
      /\ \/ UNCHANGED pending
         \/ pending' = Append(pending, [snap |-> "newest", attempts |-> 0])
  BY DEF Agent!Push, Agent!Enqueue
<1>3. CASE UNCHANGED pending
  BY <1>2, <1>3 DEF AgentInv, Tried
<1>4. CASE pending' = Append(pending, [snap |-> "newest", attempts |-> 0])
  <2> DEFINE row == [snap |-> "newest", attempts |-> 0]
  <2>1. row \in Agent!Row /\ row.attempts = 0
    BY AgentConstants DEF Agent!Row, Agent!Snapshot
  <2> HIDE DEF row
  <2>2. /\ pending' \in Seq(Agent!Row) /\ Len(pending') = n + 1
        /\ \A i \in 1..n : pending'[i] = pending[i]
        /\ pending'[n + 1] = row
    BY <1>4, <2>1, AppendProperties DEF AgentInv, row
  <2>3. DOMAIN pending' = 1..n + 1
    BY <1>1, <2>2, LenProperties
  <2>4. n < MaxRetries
    <3>1. CASE n = 0
      BY <3>1, AgentConstants
    <3>2. CASE n # 0
      <4>1. 1 \in DOMAIN pending /\ pending[1].attempts \in Nat
        BY <1>1, <3>2, RowsOfTheTable
      <4>2. pending[1].attempts >= n - 1 + 1 /\ pending[1].attempts < MaxRetries
        BY <1>2, <4>1 DEF AgentInv
      <4> QED
        BY <1>1, <4>1, <4>2, AgentConstants
    <3> QED
      BY <3>1, <3>2
  <2>5. ASSUME NEW i \in 1..n + 1
        PROVE  pending'[i].attempts >= (n + 1) - i
    <3>1. CASE i = n + 1
      BY <1>1, <2>1, <2>2, <3>1
    <3>2. CASE i # n + 1
      <4>1. i \in 1..n /\ pending[i].attempts \in Nat
        BY <1>1, <2>5, <3>2, RowsOfTheTable
      <4>2. pending[i].attempts >= n - i + 1
        BY <1>1, <1>2, <4>1 DEF AgentInv
      <4> QED
        BY <1>1, <2>2, <4>1, <4>2
    <3> QED
      BY <3>1, <3>2
  <2>6. n + 1 <= MaxRetries
    BY <1>1, <2>4, AgentConstants
  <2> QED
    BY <1>2, <2>2, <2>3, <2>5, <2>6 DEF AgentInv, Tried
<1> QED
  BY <1>2, <1>3, <1>4

LEMMA CrashKeeps ==
  ASSUME PartsAssumption, AgentInv, Agent!Crash
  PROVE  AgentInv'
<1> DEFINE n == Len(pending)
<1>1. n \in Nat /\ DOMAIN pending = 1..n
  BY LenProperties DEF AgentInv
<1>2. /\ agentPc' = "sleeping" /\ agentAt' = 1 /\ agentTodo' = 0
      /\ \/ UNCHANGED pending
         \/ /\ agentPc = "flushing" /\ agentTodo > 0
            /\ pending[agentAt].attempts < MaxAttempts /\ pending' = Agent!Bumped
  BY DEF Agent!Crash
<1>3. CASE UNCHANGED pending
  BY <1>2, <1>3 DEF AgentInv, Tried
<1>4. CASE /\ agentPc = "flushing" /\ agentTodo > 0
           /\ pending[agentAt].attempts < MaxAttempts /\ pending' = Agent!Bumped
  <2>1. agentAt \in 1..n
    BY <1>1, <1>4 DEF AgentInv
  <2>2. \A j \in 1..n : pending[j].attempts \in Nat /\ pending[j].attempts >= n - j
    BY RowsOfTheTable
  <2>3. /\ pending' \in Seq(Agent!Row) /\ Len(pending') = n
        /\ \A j \in 1..n : j # agentAt => pending'[j] = pending[j]
        /\ pending'[agentAt].attempts = pending[agentAt].attempts + 1
    BY <1>1, <1>4, <2>1, AgentConstants, BumpedRow DEF Agent!Bumped
  <2>4. DOMAIN pending' = 1..n
    BY <1>1, <2>3, LenProperties
  <2>5. ASSUME NEW j \in 1..n
        PROVE  pending'[j].attempts >= n - j + 0
    BY <1>1, <2>1, <2>2, <2>3, <2>5
  <2> QED
    BY <1>2, <2>3, <2>4, <2>5 DEF AgentInv, Tried
<1> QED
  BY <1>2, <1>3, <1>4

LEMMA AgentInvariant ==
  ASSUME PartsAssumption, AgentInv, Agent!Next \/ UNCHANGED agent
  PROVE  AgentInv'
<1>1. CASE Agent!NoSensors
  BY <1>1 DEF Agent!NoSensors, AgentInv, Tried
<1>2. CASE UNCHANGED <<pending, agentPc, agentAt, agentTodo>>
  BY <1>2 DEF AgentInv, Tried
<1>3. CASE Agent!Round
  BY <1>1, <1>3, BeginKeeps, FlushKeeps, ReadKeeps, PushKeeps DEF Agent!Round
<1> QED
  BY <1>2, <1>3, CrashKeeps
  DEF Agent!Next, Agent!NetworkChanges, Agent!CloudRestarts, Agent!PushArrives, Agent!agent, agent

(* pending_snapshots of edge/agent.py, which nothing trims, never holds     *)
(* more rows than INGEST_MAX_RETRIES, as long as that is within the limit   *)
(* of dequeue_batch, wherever crashes cut a round short.                    *)
THEOREM PendingStaysShort == Spec => []PendingBounded
<1> DEFINE Inv == part = "agent" => AgentInv
<1>1. Init => Inv
  BY AgentStart, PartsAssumption
<1>2. Inv /\ [Next]_vars => Inv'
  BY PartSteps, AgentInvariant, PartsAssumption
<1>3. Inv => PendingBounded
  BY DEF AgentInv, PendingBounded, Agent!PendingBounded
<1> QED
  BY <1>1, <1>2, <1>3, PTL DEF Spec

-----------------------------------------------------------------------------
(* What the rules are evaluated on. *)

(* Each point is listed once. *)
RulesInv ==
  /\ listed \in Seq(EvaluatedPoint)
  /\ \A i, j \in DOMAIN listed : listed[i] = listed[j] => i = j
  /\ mapping \in [EvaluatedPoint -> Rules!Mapping \cup {None}]
  /\ evaluated \in [EvaluatedPoint -> Rules!Current \cup {None}]

LEMMA RulesStart ==
  ASSUME Init
  PROVE  RulesInv
BY DEF Init, Rules!Init, RulesInv

LEMMA ListFirstKeeps ==
  ASSUME RulesInv, NEW p \in EvaluatedPoint, Rules!ListFirst(p)
  PROVE  /\ listed' \in Seq(EvaluatedPoint)
         /\ \A i, j \in DOMAIN listed' : listed'[i] = listed'[j] => i = j
<1>1. ASSUME NEW rest \in Seq(EvaluatedPoint), listed' = <<p>> \o rest,
             \A i, j \in 1..Len(rest) : rest[i] = rest[j] => i = j,
             \A i \in 1..Len(rest) : rest[i] # p
      PROVE  /\ listed' \in Seq(EvaluatedPoint)
             /\ \A i, j \in DOMAIN listed' : listed'[i] = listed'[j] => i = j
  <2>1. /\ listed' \in Seq(EvaluatedPoint) /\ Len(listed') = Len(rest) + 1
        /\ listed'[1] = p /\ \A i \in 1..Len(rest) : listed'[i + 1] = rest[i]
    BY <1>1
  <2>2. \A i \in DOMAIN listed' : i = 1 \/ (i - 1 \in 1..Len(rest) /\ listed'[i] = rest[i - 1])
    BY <2>1
  <2> QED
    BY <1>1, <2>1, <2>2
<1>2. CASE p \notin Rules!Listed /\ listed' = <<p>> \o listed
  BY <1>1, <1>2 DEF RulesInv, Rules!Listed, Rules!Range
<1>3. ASSUME NEW i \in DOMAIN listed, listed[i] = p, listed' = <<p>> \o Rules!RemoveAt(listed, i)
      PROVE  /\ listed' \in Seq(EvaluatedPoint)
             /\ \A m, n \in DOMAIN listed' : listed'[m] = listed'[n] => m = n
  <2> DEFINE rest == Rules!RemoveAt(listed, i)
  <2>1. rest = Agent!RemoveAt(listed, i)
    BY DEF Agent!RemoveAt, Rules!RemoveAt
  <2>2. i \in 1..Len(listed) /\ Len(listed) \in Nat
    BY DEF RulesInv
  <2>3. /\ rest \in Seq(EvaluatedPoint) /\ Len(rest) = Len(listed) - 1
        /\ \A j \in 1..Len(listed) - 1 : rest[j] = IF j < i THEN listed[j] ELSE listed[j + 1]
    <3> HIDE DEF rest
    <3>1. listed \in Seq(EvaluatedPoint)
      BY DEF RulesInv
    <3> QED
      BY <2>1, <2>2, <3>1, RemoveAtProperties
  <2> HIDE DEF rest
  <2>4. \A m, n \in 1..Len(listed) : listed[m] = listed[n] => m = n
    BY DEF RulesInv
  <2>5. \A j \in 1..Len(rest) : rest[j] # p
    BY <1>3, <2>2, <2>3, <2>4
  <2>6. \A m, n \in 1..Len(rest) : rest[m] = rest[n] => m = n
    BY <2>2, <2>3, <2>4
  <2> QED
    BY <1>1, <1>3, <2>3, <2>5, <2>6 DEF rest
<1> QED
  BY <1>2, <1>3 DEF Rules!ListFirst

LEMMA RulesInvariant ==
  ASSUME RulesInv, Rules!Next \/ UNCHANGED rules
  PROVE  RulesInv'
<1>1. ASSUME NEW p \in EvaluatedPoint, Rules!Discover(p)
      PROVE  RulesInv'
  BY <1>1, ListFirstKeeps DEF Rules!Discover, RulesInv
<1>2. ASSUME NEW p \in EvaluatedPoint, Rules!TakeBack(p)
      PROVE  RulesInv'
  BY <1>2 DEF Rules!TakeBack, RulesInv
<1>3. ASSUME NEW p \in EvaluatedPoint, NEW reading \in Rules!Current, Rules!Receive(p, reading)
      PROVE  RulesInv'
  BY <1>3, ListFirstKeeps DEF Rules!Receive, RulesInv
<1>4. ASSUME NEW p \in EvaluatedPoint, NEW m \in Rules!Mapping, Rules!Approve(p, m)
      PROVE  RulesInv'
  BY <1>4 DEF Rules!Approve, RulesInv
<1>5. CASE UNCHANGED rules
  BY <1>5 DEF rules, RulesInv
<1> QED
  BY <1>1, <1>2, <1>3, <1>4, <1>5 DEF Rules!Next

(* A set of naturals has a least member. *)
LEMMA LeastMember ==
  ASSUME NEW N \in SUBSET Nat, N # {}
  PROVE  \E m \in N : \A n \in N : m <= n
<1>1. IsWellFoundedOn(OpToRel(<, Nat), Nat)
  BY NatLessThanWellFounded
<1>2. PICK m \in N : \A n \in N : ~ (<<n, m>> \in OpToRel(<, Nat))
  BY <1>1, WFMin, Zenon
<1>3. ASSUME NEW n \in N PROVE m <= n
  <2>1. n < m => <<n, m>> \in OpToRel(<, Nat)
    BY DEF OpToRel
  <2>2. ~ (n < m)
    BY <1>2, <2>1
  <2> QED
    BY <2>2
<1> QED
  BY <1>3

(* Positions of a list have a last one: the least of their bounds.          *)
LEMMA LastPosition ==
  ASSUME NEW n \in Nat, NEW S \in SUBSET (1..n), S # {}
  PROVE  \E i \in S : \A j \in S : j <= i
<1> DEFINE Bounds == {b \in Nat : \A x \in S : x <= b}
<1>1. n \in Bounds /\ Bounds \subseteq Nat
  OBVIOUS
<1>2. PICK b \in Bounds : \A c \in Bounds : b <= c
  BY <1>1, LeastMember
<1>3. b \in S
  <2>1. SUFFICES ASSUME b \notin S PROVE FALSE
    OBVIOUS
  <2>2. \A x \in S : x < b
    BY <2>1
  <2>3. b - 1 \in Bounds
    <3>1. PICK x : x \in S
      OBVIOUS
    <3> QED
      BY <2>2, <3>1
  <2> QED
    BY <2>3, <1>2
<1> QED
  BY <1>3

(* A key is read from a point that is considered and approved for it.       *)
LEMMA ReadingsAreSources ==
  ASSUME RulesInv, NEW only, NEW k \in Rules!Keys(only)
  PROVE  LET p == Rules!Readings(only)[k]
         IN  p \in EvaluatedPoint /\ Rules!Considered(p, only) /\ mapping[p].key = k
<1> DEFINE S == Rules!Sources(k, only)
<1>1. S \subseteq 1..Len(listed) /\ Len(listed) \in Nat /\ S # {}
  BY DEF Rules!Sources, Rules!Keys, RulesInv
<1>2. \E i \in S : \A j \in S : j <= i
  BY <1>1, LastPosition
<1>3. PICK i \in S : Rules!Readings(only)[k] = listed[i]
  BY <1>2 DEF Rules!Readings
<1> QED
  BY <1>1, <1>3 DEF Rules!Sources, RulesInv

LEMMA RulesOfInputs ==
  ASSUME PartsAssumption
  PROVE  /\ None \notin Equipment \cup Input
         /\ \A r \in Rule : r \subseteq Input /\ r # {} /\ IsFiniteSet(r)
<1>1. IsFiniteSet(Input)
  BY DEF PartsAssumption, Rules!EvaluationAssumption, Rules!IsFiniteSet, IsFiniteSet
<1>2. None \notin Equipment \cup Input /\ \A r \in Rule : r \subseteq Input /\ r # {}
  BY DEF PartsAssumption, Rules!EvaluationAssumption
<1> QED
  BY <1>1, <1>2, FS_Subset

(* The inputs of a rule are complete, or the rule is not evaluated.         *)
LEMMA ReadyInputs ==
  ASSUME NEW r, r # {}, NEW readings
  PROVE  Rules!Readiness(r, readings) \notin {"BLOCKED", "INSUFFICIENT_DATA"}
           <=> r \subseteq DOMAIN readings
<1> DEFINE missing == r \ DOMAIN readings
<1>1. CASE missing = r
  BY <1>1 DEF Rules!Readiness
<1>2. CASE missing # r /\ missing # {}
  BY <1>2 DEF Rules!Readiness
<1>3. CASE missing = {}
  <2>1. Rules!Readiness(r, readings) \in {"PARTIAL", "READY"}
    BY <1>3 DEF Rules!Readiness
  <2> QED
    BY <1>3, <2>1
<1> QED
  BY <1>1, <1>2, <1>3

(* A report is of a rule whose inputs were read from points of the equipment. *)
LEMMA ReportsShown ==
  ASSUME PartsAssumption, RulesInv, NEW only, NEW r \in Rule, NEW e \in Equipment,
         <<r, e>> \in Rules!Reported(only)
  PROVE  Rules!Evident(r, e, only) /\ r \subseteq Rules!MappedKeys(e)
<1> DEFINE readings == Rules!Readings(only)
           mine == Rules!OfEquipment(readings, e)
           f == [k \in r |-> readings[k]]
<1>1. r \subseteq DOMAIN mine /\ Rules!Broken(Rules!Observed(r, mine))
  BY RulesOfInputs, ReadyInputs DEF Rules!Reported, Rules!Fault
<1>2. ASSUME NEW k \in r
      PROVE  /\ k \in Rules!Keys(only) /\ mine[k] = readings[k]
             /\ mapping[readings[k]].equipment = e
  BY <1>1, <1>2 DEF Rules!OfEquipment, Rules!Readings
<1>3. ASSUME NEW k \in r
      PROVE  /\ f[k] \in EvaluatedPoint /\ Rules!Considered(f[k], only)
             /\ mapping[f[k]] = [key |-> k, equipment |-> e]
  <2>1. /\ readings[k] \in EvaluatedPoint /\ Rules!Considered(readings[k], only)
        /\ mapping[readings[k]].key = k
    BY <1>2, ReadingsAreSources
  <2>2. mapping[readings[k]] \in Rules!Mapping
    BY <2>1 DEF Rules!Considered, RulesInv
  <2> HIDE DEF readings
  <2> QED
    BY <1>2, <2>1, <2>2 DEF Rules!Mapping
<1>4. Rules!Observed(r, mine) = [k \in r |-> evaluated[f[k]].value]
  BY <1>2 DEF Rules!Observed
<1>5. Rules!Evident(r, e, only)
  <2>1. f \in [r -> EvaluatedPoint]
    BY <1>3
  <2> HIDE DEF f
  <2> QED
    BY <1>1, <1>3, <1>4, <2>1 DEF Rules!Evident
<1>6. r \subseteq Rules!MappedKeys(e)
  <2>1. ASSUME NEW k \in r PROVE k \in Rules!MappedKeys(e)
    <3>1. f[k] \in Rules!Listed /\ mapping[f[k]] # None
      BY <1>3 DEF Rules!Considered
    <3>2. mapping[f[k]].key = k /\ mapping[f[k]].equipment = e
      <4>1. mapping[f[k]] = [key |-> k, equipment |-> e]
        BY <1>3
      <4> HIDE DEF f
      <4> QED
        BY <4>1
    <3>3. f[k] \in EvaluatedPoint
      BY <1>3
    <3> HIDE DEF f
    <3>4. f[k] \in {q \in Rules!Listed : mapping[q] # None /\ mapping[q].equipment = e}
      BY <3>1, <3>2
    <3> QED
      BY <3>2, <3>4 DEF Rules!MappedKeys
  <2> QED
    BY <2>1
<1> QED
  BY <1>5, <1>6

(* No input of a rule is missing where all of them are approved.            *)
LEMMA CoverageIsReady ==
  ASSUME PartsAssumption, NEW r \in Rule, NEW e, r \subseteq Rules!MappedKeys(e)
  PROVE  Rules!Coverage(r, e) = "READY"
<1>1. r \cap Rules!MappedKeys(e) = r
  OBVIOUS
<1>2. Cardinality(r) \in Nat
  BY RulesOfInputs, FS_CardinalityType
<1>3. Rules!Cardinality(r) = Cardinality(r)
  BY DEF Rules!Cardinality, Cardinality
<1>4. \A low : Cardinality(r) \notin low..(Cardinality(r) - 1)
  BY <1>2
<1> QED
  BY <1>1, <1>3, <1>4, Zenon DEF Rules!Coverage

(* With one point per key that is the point the key is read from.           *)
LEMMA ShownIsReported ==
  ASSUME PartsAssumption, RulesInv, NEW only, Rules!Unambiguous(only),
         NEW r \in Rule, NEW e \in Equipment, Rules!Evident(r, e, only)
  PROVE  <<r, e>> \in Rules!Reported(only)
<1> DEFINE readings == Rules!Readings(only)
           mine == Rules!OfEquipment(readings, e)
<1>1. PICK f \in [r -> EvaluatedPoint] :
        /\ \A k \in r : /\ Rules!Considered(f[k], only)
                        /\ mapping[f[k]] = [key |-> k, equipment |-> e]
        /\ Rules!Broken([k \in r |-> evaluated[f[k]].value])
  BY DEF Rules!Evident
<1>2. ASSUME NEW k \in r
      PROVE  /\ k \in Rules!Keys(only) /\ readings[k] = f[k]
             /\ mapping[f[k]].equipment = e
  <2>0. mapping[f[k]].key = k /\ mapping[f[k]].equipment = e
    <3>1. mapping[f[k]] = [key |-> k, equipment |-> e]
      BY <1>1
    <3> QED
      BY <3>1
  <2>1. PICK i \in DOMAIN listed : listed[i] = f[k]
    BY <1>1 DEF Rules!Considered, Rules!Listed, Rules!Range
  <2>2. i \in Rules!Sources(k, only)
    <3>1. Rules!Considered(listed[i], only)
      BY <1>1, <2>1
    <3> QED
      BY <2>0, <2>1, <3>1 DEF Rules!Sources
  <2>3. k \in Rules!Keys(only)
    BY <2>2, RulesOfInputs DEF Rules!Keys
  <2>4. /\ readings[k] \in EvaluatedPoint /\ Rules!Considered(readings[k], only)
        /\ mapping[readings[k]].key = k
    BY <2>3, ReadingsAreSources
  <2> HIDE DEF readings
  <2> QED
    BY <1>1, <2>0, <2>3, <2>4 DEF Rules!Unambiguous
<1>3. /\ DOMAIN readings = Rules!Keys(only)
      /\ DOMAIN mine = {k \in DOMAIN readings : e # None /\ mapping[readings[k]].equipment = e}
      /\ \A k \in DOMAIN mine : mine[k] = readings[k]
  BY DEF Rules!Readings, Rules!OfEquipment
<1> HIDE DEF readings, mine
<1>4. \A k \in r : k \in DOMAIN mine /\ mine[k] = f[k]
  BY <1>1, <1>2, <1>3, RulesOfInputs
<1>5. Rules!Observed(r, mine) = [k \in r |-> evaluated[f[k]].value]
  BY <1>4 DEF Rules!Observed
<1>6. Rules!Fault(r, mine)
  BY <1>1, <1>4, <1>5, RulesOfInputs, ReadyInputs DEF Rules!Fault
<1> QED
  BY <1>6 DEF Rules!Reported, readings, mine

(* A fault is reported for an equipment when its own approved points show   *)
(* it, and only then, although the readings of the whole building are       *)
(* gathered by meaning alone: for any points, equipment and rules, in any   *)
(* order of discoveries, readings and decisions.                            *)
THEOREM ReportsMatchEvidence == Spec => []ReportsAreExact
<1> DEFINE Inv == part = "evaluation" => RulesInv
<1>1. Init => Inv
  BY RulesStart
<1>2. Inv /\ [Next]_vars => Inv'
  BY PartSteps, RulesInvariant
<1>3. Inv => ReportsAreExact
  <2>1. SUFFICES ASSUME RulesInv
                 PROVE  Rules!ReportsAreSound /\ Rules!ReportsAreComplete
    BY DEF ReportsAreExact
  <2>2. ASSUME NEW only \in Rules!Calls, NEW report \in Rules!Reported(only)
        PROVE  /\ Rules!Evident(report[1], report[2], only)
               /\ Rules!Coverage(report[1], report[2]) = "READY"
    <3>1. report[1] \in Rule /\ report[2] \in Equipment /\ report = <<report[1], report[2]>>
      BY DEF Rules!Reported
    <3>2. Rules!Evident(report[1], report[2], only) /\ report[1] \subseteq Rules!MappedKeys(report[2])
      BY <2>1, <3>1, ReportsShown, PartsAssumption
    <3> QED
      BY <3>1, <3>2, CoverageIsReady, PartsAssumption
  <2>3. Rules!ReportsAreSound
    BY <2>2 DEF Rules!ReportsAreSound
  <2>4. Rules!ReportsAreComplete
    BY <2>1, ShownIsReported, PartsAssumption DEF Rules!ReportsAreComplete
  <2> QED
    BY <2>3, <2>4
<1> QED
  BY <1>1, <1>2, <1>3, PTL DEF Spec

=============================================================================
