-------------------------- MODULE EdgeQueueProofs --------------------------
(***************************************************************************)
(* Proofs about the gateway's queue for every set of readings, every       *)
(* dedupe key and every value of the limits.                               *)
(***************************************************************************)
EXTENDS EdgeQueue, FiniteSetTheorems, WellFoundedInduction, TLAPS

-----------------------------------------------------------------------------
(* Arithmetic: the backoff delay stays between 0 and max_backoff_seconds.  *)

(* A power of two is a natural number: it counts the subsets of 1..n. *)
LEMMA PowerOfTwo == ASSUME NEW n \in Nat PROVE 2^n \in Nat
<1>1. IsFiniteSet(1..n) /\ Cardinality(1..n) = n
  BY FS_Interval
<1>2. IsFiniteSet(SUBSET (1..n)) /\ Cardinality(SUBSET (1..n)) = 2^n
  BY <1>1, FS_SUBSET, Zenon
<1> QED
  BY <1>2, FS_CardinalityType, Zenon

(* schedule_retry never waits longer than max_backoff_seconds. *)
LEMMA BackoffType ==
  ASSUME NEW a \in Nat
  PROVE  Backoff(a) \in 0..MaxBackoff
<1>1. Lesser(a, BackoffSteps) \in Nat
  BY QueueAssumption DEF Lesser
<1>2. 2^Lesser(a, BackoffSteps) \in Nat
  BY <1>1, PowerOfTwo
<1> DEFINE p == 2^Lesser(a, BackoffSteps)
<1>3. p \in Nat
  BY <1>2
<1> HIDE DEF p
<1>4. BackoffBase * p \in Nat
  BY <1>3, QueueAssumption
<1>5. Lesser(MaxBackoff, BackoffBase * p) \in 0..MaxBackoff
  BY <1>4, QueueAssumption DEF Lesser
<1> QED
  BY <1>5 DEF Backoff, p

-----------------------------------------------------------------------------
(* Facts about _trim. *)

(* The set of ids is a finite set of naturals. *)
LEMMA IdsFinite ==
  ASSUME NEW ids, NEW hi \in Nat, ids \subseteq 1..hi
  PROVE  IsFiniteSet(ids) /\ ids \in SUBSET Nat /\ Cardinality(ids) \in Nat
<1>1. IsFiniteSet(1..hi)
  BY FS_Interval
<1>2. IsFiniteSet(ids)
  BY <1>1, FS_Subset
<1> QED
  BY <1>2, FS_CardinalityType

(* A finite non-empty set of ids has an oldest one. *)
LEMMA OldestExists ==
  ASSUME NEW ids \in SUBSET Nat, ids # {}
  PROVE  \E m \in ids : \A i \in ids : m <= i
<1>1. IsWellFoundedOn(OpToRel(<, Nat), Nat)
  BY NatLessThanWellFounded
<1>2. PICK m \in ids : \A y \in ids : ~ (<<y, m>> \in OpToRel(<, Nat))
  BY <1>1, WFMin, Zenon
<1>3. ASSUME NEW i \in ids PROVE m <= i
  <2>1. m \in Nat /\ i \in Nat
    OBVIOUS
  <2>2. i < m => <<i, m>> \in OpToRel(<, Nat)
    BY <2>1 DEF OpToRel
  <2>3. <<i, m>> \notin OpToRel(<, Nat)
    BY <1>2, <1>3
  <2>4. ~ (i < m)
    BY <2>2, <2>3
  <2> QED
    BY <2>1, <2>4
<1> QED
  BY <1>3

(* A row that is kept is younger than every row that is dropped. *)
LEMMA DroppedAreOlder ==
  ASSUME NEW ids \in SUBSET Nat, IsFiniteSet(ids),
         NEW t \in ids \ Kept(ids), NEW i \in Kept(ids)
  PROVE  t < i
<1> DEFINE Younger(x) == {j \in ids : j > x}
<1>1. i \in ids /\ i \in Nat /\ t \in Nat /\ i # t
  BY DEF Kept
<1>2. Cardinality(Younger(i)) < MaxRows /\ ~ (Cardinality(Younger(t)) < MaxRows)
  BY DEF Kept
<1>3. \A x \in ids : IsFiniteSet(Younger(x)) /\ Cardinality(Younger(x)) \in Nat
  BY FS_Subset, FS_CardinalityType
<1>4. ASSUME i < t PROVE FALSE
  <2>1. ASSUME NEW j \in Younger(t) PROVE j \in Younger(i)
    <3>1. j \in ids /\ j \in Nat /\ j > t
      OBVIOUS
    <3>2. j > i
      BY <1>1, <1>4, <3>1
    <3> QED
      BY <3>1, <3>2
  <2>2. Cardinality(Younger(t)) <= Cardinality(Younger(i))
    BY <1>1, <1>3, <2>1, FS_Subset
  <2>3. Cardinality(Younger(t)) \in Nat /\ Cardinality(Younger(i)) \in Nat
    BY <1>1, <1>3
  <2> QED
    BY <1>2, <2>2, <2>3, QueueAssumption
<1> QED
  BY <1>1, <1>4

(***************************************************************************)
(* _trim restores the bound however far it was exceeded: counting the kept *)
(* rows that are younger numbers the kept rows one to one from 0 to        *)
(* MaxRows - 1.                                                            *)
(***************************************************************************)
LEMMA TrimRestoresBound ==
  ASSUME NEW ids \in SUBSET Nat, IsFiniteSet(ids)
  PROVE  /\ IsFiniteSet(Kept(ids)) /\ Cardinality(Kept(ids)) \in Nat
         /\ Cardinality(Kept(ids)) <= MaxRows
<1> DEFINE Younger(x) == {j \in ids : j > x}
           rank == [i \in Kept(ids) |-> Cardinality(Younger(i))]
           Ranks == 0..(MaxRows - 1)
<1>1. \A x \in ids : IsFiniteSet(Younger(x)) /\ Cardinality(Younger(x)) \in Nat
  BY FS_Subset, FS_CardinalityType
<1>2. \A i \in Kept(ids) : i \in ids /\ i \in Nat /\ Cardinality(Younger(i)) < MaxRows
  BY DEF Kept
<1>3. rank \in [Kept(ids) -> Ranks]
  <2>1. \A i \in Kept(ids) : Cardinality(Younger(i)) \in Ranks
    BY <1>1, <1>2, QueueAssumption
  <2> QED
    BY <2>1
<1>4. ASSUME NEW a \in Kept(ids), NEW b \in Kept(ids), a < b
      PROVE  Cardinality(Younger(b)) < Cardinality(Younger(a))
  <2>1. /\ a \in ids /\ b \in ids /\ a \in Nat /\ b \in Nat
        /\ IsFiniteSet(Younger(a)) /\ Cardinality(Younger(a)) \in Nat
        /\ Cardinality(Younger(b)) \in Nat
    BY <1>1, <1>2
  <2>2. b \in Younger(a)
    BY <1>4, <2>1
  <2>3. ASSUME NEW j \in Younger(b) PROVE j \in Younger(a) \ {b}
    <3>1. j \in ids /\ j \in Nat /\ j > b
      OBVIOUS
    <3> QED
      BY <1>4, <2>1, <3>1
  <2>4. /\ IsFiniteSet(Younger(a) \ {b})
        /\ Cardinality(Younger(a) \ {b}) = Cardinality(Younger(a)) - 1
    BY <2>1, <2>2, FS_RemoveElement
  <2>5. Younger(b) \subseteq Younger(a) \ {b}
    BY <2>3
  <2>6. Cardinality(Younger(b)) <= Cardinality(Younger(a) \ {b})
    BY <2>4, <2>5, FS_Subset
  <2> QED
    BY <2>1, <2>4, <2>6
<1>5. rank \in Injection(Kept(ids), Ranks)
  <2>1. ASSUME NEW a \in Kept(ids), NEW b \in Kept(ids), rank[a] = rank[b]
        PROVE  a = b
    <3>1. /\ a \in Nat /\ b \in Nat
          /\ Cardinality(Younger(a)) \in Nat /\ Cardinality(Younger(b)) \in Nat
          /\ Cardinality(Younger(a)) = Cardinality(Younger(b))
      BY <1>1, <1>2, <2>1
    <3>2. ~ (a < b) /\ ~ (b < a)
      BY <1>4, <3>1
    <3> QED
      BY <3>1, <3>2
  <2> QED
    BY <1>3, <2>1 DEF Injection, IsInjective
<1>6. IsFiniteSet(Ranks) /\ Cardinality(Ranks) = MaxRows
  BY FS_Interval, QueueAssumption
<1>7. IsFiniteSet(Kept(ids)) /\ Cardinality(Kept(ids)) <= Cardinality(Ranks)
  BY <1>5, <1>6, FS_Injection
<1> QED
  BY <1>6, <1>7, FS_CardinalityType

(* A finite non-empty set of ids has a youngest one. *)
LEMMA YoungestExists ==
  ASSUME NEW hi \in Nat, NEW ids \in SUBSET (1..hi), ids # {}
  PROVE  \E m \in ids : \A i \in ids : i <= m
<1> DEFINE mirror == {hi - i : i \in ids}
<1>1. mirror \in SUBSET Nat /\ mirror # {}
  <2>1. \A i \in ids : hi - i \in Nat
    OBVIOUS
  <2>2. PICK i \in ids : TRUE
    OBVIOUS
  <2>3. hi - i \in mirror
    BY <2>2
  <2> QED
    BY <2>1, <2>3
<1>2. PICK n \in mirror : \A k \in mirror : n <= k
  BY <1>1, OldestExists
<1>3. PICK m \in ids : n = hi - m
  BY <1>2
<1>4. ASSUME NEW i \in ids PROVE i <= m
  <2>1. hi - i \in mirror /\ hi - i >= n
    BY <1>2
  <2> QED
    BY <1>3, <2>1
<1> QED
  BY <1>4

(* _trim drops no more than the excess: it leaves the table exactly full. *)
LEMMA TrimDropsOnlyExcess ==
  ASSUME NEW hi \in Nat, NEW ids \in SUBSET (1..hi), Kept(ids) # ids
  PROVE  /\ Cardinality(Kept(ids)) = MaxRows
         /\ Cardinality(ids) > MaxRows
<1> DEFINE Younger(x) == {j \in ids : j > x}
<1>1. IsFiniteSet(ids) /\ ids \in SUBSET Nat /\ Cardinality(ids) \in Nat
  BY IdsFinite
<1>2. Kept(ids) \subseteq ids
  BY DEF Kept
<1>3. ids \ Kept(ids) # {} /\ ids \ Kept(ids) \in SUBSET (1..hi)
  BY <1>2
<1>4. PICK t \in ids \ Kept(ids) : \A i \in ids \ Kept(ids) : i <= t
  BY <1>3, YoungestExists
<1>5. ~ (Cardinality(Younger(t)) < MaxRows)
  BY <1>4 DEF Kept
<1>6. Younger(t) \subseteq Kept(ids)
  <2>1. ASSUME NEW j \in ids, j > t PROVE j \in Kept(ids)
    BY <1>1, <1>4, <2>1
  <2> QED
    BY <2>1
<1>7. /\ IsFiniteSet(Kept(ids)) /\ Cardinality(Kept(ids)) \in Nat
      /\ Cardinality(Kept(ids)) <= MaxRows
  BY <1>1, TrimRestoresBound
<1>8. /\ Cardinality(Younger(t)) <= Cardinality(Kept(ids))
      /\ Cardinality(Younger(t)) \in Nat
  BY <1>6, <1>7, FS_Subset, FS_CardinalityType
<1>9. Cardinality(Kept(ids)) = MaxRows
  BY <1>5, <1>7, <1>8, QueueAssumption
<1>10. Kept(ids) \subseteq ids \ {t}
  BY <1>2, <1>4
<1>11. /\ IsFiniteSet(ids \ {t})
       /\ Cardinality(ids \ {t}) = Cardinality(ids) - 1
  BY <1>1, <1>4, FS_RemoveElement
<1>12. Cardinality(Kept(ids)) <= Cardinality(ids \ {t})
  BY <1>10, <1>11, FS_Subset
<1> QED
  BY <1>1, <1>9, <1>11, <1>12, QueueAssumption

-----------------------------------------------------------------------------
(* The inductive invariant. *)

(* An empty table satisfies the invariant. *)
LEMMA InitIInv == Init => IInv
<1> SUFFICES ASSUME Init PROVE IInv
  OBVIOUS
<1>1. Ids = {}
  BY DEF Init, Ids
<1>2. rows \in [Ids -> Row]
  BY <1>1 DEF Init
<1>3. Cardinality(Ids) <= MaxRows + untrimmed
  BY <1>1, FS_EmptySet, QueueAssumption DEF Init
<1>4. 1..lastId = {}
  BY DEF Init
<1>5. TypeOK
  <2>1. lastId \in Nat
    BY QueueAssumption DEF Init
  <2>3. overflow \in BOOLEAN
    BY DEF Init
  <2>2. Ids \subseteq 1..lastId /\ trimmed \subseteq 1..lastId /\ acked \subseteq 1..lastId
    BY <1>1 DEF Init
  <2>4. untrimmed \in 0..lastId
    BY DEF Init
  <2> QED
    BY <1>2, <2>1, <2>2, <2>3, <2>4 DEF TypeOK
<1>6. WellKeyed(rows)
  BY <1>1 DEF WellKeyed, Ids
<1>7. OldestDroppedFirst /\ NoSilentDeletion
  BY <1>1, <1>4 DEF Init, OldestDroppedFirst, NoSilentDeletion
<1> QED
  BY <1>3, <1>5, <1>6, <1>7 DEF IInv, DepthBounded

(* A table, with hi the last id handed out, that may replace rows. *)
Sound(table, hi) ==
  /\ DOMAIN table \subseteq 1..hi
  /\ table \in [DOMAIN table -> Row]
  /\ WellKeyed(table)
  /\ trimmed \subseteq 1..hi /\ acked \subseteq 1..hi
  /\ \A t \in trimmed, i \in DOMAIN table : t < i
  /\ 1..hi = DOMAIN table \cup trimmed \cup acked
  /\ DOMAIN table \cap (trimmed \cup acked) = {}
  /\ trimmed \cap acked = {}

(* The table an insertion commits. *)
LEMMA InsertedSound ==
  ASSUME IInv, NEW e \in Event, Conflicts(e) = {}
  PROVE  /\ DOMAIN Inserted(e) = Ids \cup {lastId + 1}
         /\ Sound(Inserted(e), lastId + 1)
<1> DEFINE new   == lastId + 1
           table == Inserted(e)
<1>1. /\ lastId \in Nat /\ Ids \subseteq 1..lastId /\ rows \in [Ids -> Row]
      /\ trimmed \subseteq 1..lastId /\ acked \subseteq 1..lastId
  BY QueueAssumption DEF IInv, TypeOK
<1>2. table = [i \in Ids \cup {new} |-> IF i \in Ids THEN rows[i] ELSE Fresh(e)]
  BY DEF Inserted
<1>3. new \notin 1..lastId /\ 1..new = 1..lastId \cup {new}
  BY <1>1
<1>4. DOMAIN table = Ids \cup {new}
  BY <1>2
<1>5. Fresh(e) \in Row
  BY QueueAssumption DEF Fresh, Row, AttemptCap, Key
<1>6. table \in [DOMAIN table -> Row]
  BY <1>1, <1>2, <1>5
<1>7. WellKeyed(table)
  <2>1. /\ table[new].key = KeyOf(e) /\ table[new].event = e /\ table[new].payload = e
        /\ \A i \in Ids : table[i] = rows[i]
    BY <1>1, <1>2, <1>3 DEF Fresh
  <2>2. \A i \in Ids : rows[i].key # KeyOf(e)
    BY DEF Conflicts
  <2>3. WellKeyed(rows) /\ DOMAIN rows = Ids
    BY DEF IInv, Ids
  <2> HIDE DEF table
  <2> QED
    BY <1>4, <2>1, <2>2, <2>3 DEF WellKeyed
<1>8. \A t \in trimmed, i \in Ids \cup {new} : t < i
  <2>1. \A t \in trimmed : t \in Nat /\ t <= lastId
    BY <1>1
  <2>2. \A t \in trimmed : t < new
    BY <1>1, <2>1
  <2> QED
    BY <2>2 DEF IInv, OldestDroppedFirst
<1>9. /\ 1..lastId = Ids \cup trimmed \cup acked
      /\ Ids \cap (trimmed \cup acked) = {}
      /\ trimmed \cap acked = {}
  BY DEF IInv, NoSilentDeletion
<1> HIDE DEF table, new
<1>10. /\ DOMAIN table \subseteq 1..new
       /\ trimmed \subseteq 1..new /\ acked \subseteq 1..new
       /\ 1..new = DOMAIN table \cup trimmed \cup acked
       /\ DOMAIN table \cap (trimmed \cup acked) = {}
  BY <1>1, <1>3, <1>4, <1>9
<1>11. Sound(table, new)
  BY <1>4, <1>6, <1>7, <1>8, <1>9, <1>10 DEF Sound
<1> QED
  BY <1>4, <1>11 DEF table, new

(* The table a refresh commits: same ids, event_ids and keys. *)
LEMMA RefreshedSound ==
  ASSUME IInv, NEW e \in Event
  PROVE  DOMAIN Refreshed(e) = Ids /\ Sound(Refreshed(e), lastId)
<1> DEFINE table == Refreshed(e)
<1>1. /\ lastId \in Nat
      /\ Ids \subseteq 1..lastId /\ rows \in [Ids -> Row]
      /\ trimmed \subseteq 1..lastId /\ acked \subseteq 1..lastId
  BY QueueAssumption DEF IInv, TypeOK
<1>2. table = [i \in Ids |-> IF i \in Conflicts(e)
                            THEN [rows[i] EXCEPT !.payload = e, !.wait = 0]
                            ELSE rows[i]]
  BY DEF Refreshed
<1>3. DOMAIN table = Ids
  BY <1>2
<1>4. \A i \in Ids : /\ table[i] \in Row
                     /\ table[i].event = rows[i].event
                     /\ table[i].key = rows[i].key
                     /\ table[i].payload = IF i \in Conflicts(e) THEN e ELSE rows[i].payload
  <2> SUFFICES ASSUME NEW i \in Ids
               PROVE  /\ table[i] \in Row
                      /\ table[i].event = rows[i].event
                      /\ table[i].key = rows[i].key
                      /\ table[i].payload = IF i \in Conflicts(e) THEN e ELSE rows[i].payload
    OBVIOUS
  <2>1. rows[i] \in Row /\ 0 \in 0..MaxBackoff
    BY <1>1, QueueAssumption
  <2>2. CASE i \in Conflicts(e)
    <3>1. table[i] = [rows[i] EXCEPT !.payload = e, !.wait = 0]
      BY <1>2, <2>2
    <3> QED
      BY <2>1, <2>2, <3>1 DEF Row
  <2>3. CASE i \notin Conflicts(e)
    <3>1. table[i] = rows[i]
      BY <1>2, <2>3
    <3> QED
      BY <2>1, <2>3, <3>1
  <2> QED
    BY <2>2, <2>3
<1>5. WellKeyed(rows) /\ DOMAIN rows = Ids
  BY DEF IInv, Ids
<1>6. \A i \in Conflicts(e) : i \in Ids /\ rows[i].key = KeyOf(e)
  BY <1>5 DEF Conflicts, WellKeyed
<1>7. table \in [Ids -> Row]
  BY <1>2, <1>4
<1> HIDE DEF table
<1>8. WellKeyed(table)
  BY <1>3, <1>4, <1>5, <1>6 DEF WellKeyed
<1>9. /\ \A t \in trimmed, i \in Ids : t < i
      /\ 1..lastId = Ids \cup trimmed \cup acked
      /\ Ids \cap (trimmed \cup acked) = {}
      /\ trimmed \cap acked = {}
  BY DEF IInv, OldestDroppedFirst, NoSilentDeletion
<1>10. Sound(table, lastId)
  BY <1>1, <1>3, <1>7, <1>8, <1>9 DEF Sound
<1> QED
  BY <1>3, <1>10 DEF table

(* The commit and the trailing _trim re-establish the invariant. *)
LEMMA CommitKeepsIInv ==
  ASSUME NEW table, NEW hi \in Nat, Sound(table, hi),
         lastId' = hi, acked' = acked, overflow \in BOOLEAN, CommitAndTrim(table)
  PROVE  IInv'
<1> DEFINE ids == DOMAIN table
           K   == Kept(ids)
<1>1. hi \in Nat
  BY QueueAssumption
<1>2. IsFiniteSet(ids) /\ ids \in SUBSET Nat /\ Cardinality(ids) \in Nat
  BY <1>1, IdsFinite DEF Sound
<1>3. K \subseteq ids
  BY DEF Kept
<1>4. /\ rows' = [i \in K |-> table[i]]
      /\ trimmed' = trimmed \cup (ids \ K)
      /\ overflow' \in BOOLEAN
      /\ untrimmed' = 0
  BY DEF CommitAndTrim, Only
<1>5. Ids' = K
  BY <1>4 DEF Ids
<1>6. Cardinality(K) <= MaxRows + 0
  BY <1>2, TrimRestoresBound, QueueAssumption
<1>7. \A t \in ids \ K, i \in K : t < i
  BY <1>2, DroppedAreOlder
<1> HIDE DEF K, ids
<1>8. TypeOK'
  <2>1. rows' \in [K -> Row]
    BY <1>3, <1>4 DEF ids, Sound
  <2>2. K \subseteq 1..hi /\ trimmed' \subseteq 1..hi /\ acked' \subseteq 1..hi
    BY <1>3, <1>4 DEF ids, Sound
  <2>3. untrimmed' \in 0..lastId'
    BY <1>1, <1>4
  <2> QED
    BY <2>1, <2>2, <2>3, <1>4, <1>5 DEF TypeOK
<1>9. DepthBounded'
  BY <1>4, <1>5, <1>6 DEF DepthBounded
<1>10. WellKeyed(rows)'
  <2>1. \A i \in K : rows'[i] = table[i] /\ i \in DOMAIN table
    BY <1>3, <1>4 DEF ids
  <2>2. DOMAIN rows' = K
    BY <1>4
  <2> QED
    BY <2>1, <2>2 DEF WellKeyed, Sound
<1>11. OldestDroppedFirst'
  <2> SUFFICES ASSUME NEW t \in trimmed', NEW i \in K PROVE t < i
    BY <1>5 DEF OldestDroppedFirst
  <2>1. CASE t \in trimmed
    BY <2>1, <1>3 DEF ids, Sound
  <2>2. CASE t \in ids \ K
    BY <2>2, <1>7
  <2> QED
    BY <1>4, <2>1, <2>2
<1>12. NoSilentDeletion'
  BY <1>3, <1>4, <1>5 DEF NoSilentDeletion, ids, Sound
<1> QED
  BY <1>8, <1>9, <1>10, <1>11, <1>12 DEF IInv

(* A commit that drops rows raises the flag and leaves the table exactly full. *)
LEMMA CommitDropsExcess ==
  ASSUME NEW table, NEW hi \in Nat, DOMAIN table \subseteq 1..hi,
         CommitAndTrim(table), trimmed' # trimmed
  PROVE  overflow' /\ Cardinality(DOMAIN rows') = MaxRows
<1> DEFINE ids == DOMAIN table
<1>1. Kept(ids) # ids
  BY DEF CommitAndTrim
<1>2. Cardinality(Kept(ids)) = MaxRows /\ Cardinality(ids) > MaxRows
  BY <1>1, TrimDropsOnlyExcess
<1>3. DOMAIN rows' = Kept(ids)
  BY DEF CommitAndTrim, Only
<1>4. overflow' = (overflow \/ Cardinality(ids) > MaxRows)
  BY DEF CommitAndTrim
<1>5. overflow'
  BY <1>2, <1>4, Zenon
<1> QED
  BY <1>2, <1>3, <1>5

(* Every enqueue, inserting or refreshing, preserves the invariant. *)
LEMMA EnqueueKeepsIInv ==
  ASSUME IInv, NEW e \in Event, Enqueue(e)
  PROVE  IInv'
<1>1. lastId \in Nat /\ overflow \in BOOLEAN
  BY DEF IInv, TypeOK
<1>2. CASE Insert(e)
  <2>1. lastId + 1 \in Nat
    BY <1>1, QueueAssumption
  <2>2. Sound(Inserted(e), lastId + 1)
    BY <1>2, InsertedSound DEF Insert
  <2>3. lastId' = lastId + 1 /\ acked' = acked /\ CommitAndTrim(Inserted(e))
    BY <1>2 DEF Insert
  <2> QED
    BY <1>1, <2>1, <2>2, <2>3, CommitKeepsIInv
<1>3. CASE Refresh(e)
  <2>1. Sound(Refreshed(e), lastId)
    BY RefreshedSound
  <2>2. lastId' = lastId /\ acked' = acked /\ CommitAndTrim(Refreshed(e))
    BY <1>3 DEF Refresh
  <2> QED
    BY <1>1, <2>1, <2>2, CommitKeepsIInv
<1> QED
  BY <1>2, <1>3 DEF Enqueue

(* A sound table that is committed as it is, within the bound for its ids. *)
LEMMA SoundIsIInv ==
  ASSUME Sound(rows', lastId'), UNCHANGED <<trimmed, acked>>,
         lastId' \in Nat, overflow' \in BOOLEAN, untrimmed' \in 0..lastId',
         Cardinality(DOMAIN rows') <= MaxRows + untrimmed'
  PROVE  IInv'
<1>1. Ids' = DOMAIN rows'
  BY DEF Ids
<1> QED
  BY <1>1 DEF Sound, IInv, TypeOK, DepthBounded, OldestDroppedFirst, NoSilentDeletion

(* So does an enqueue cut short before its trim: the bound gives way by one. *)
LEMMA UntrimmedKeepsIInv ==
  ASSUME IInv, NEW e \in Event, NEW flag \in BOOLEAN,
         EnqueueUntrimmed(e, flag)
  PROVE  IInv'
<1>1. /\ lastId \in Nat /\ Ids \subseteq 1..lastId
      /\ untrimmed \in 0..lastId /\ Cardinality(Ids) <= MaxRows + untrimmed
  BY QueueAssumption DEF IInv, TypeOK, DepthBounded
<1>2. IsFiniteSet(Ids) /\ Cardinality(Ids) \in Nat
  BY <1>1, IdsFinite
<1>3. overflow' \in BOOLEAN /\ UNCHANGED <<trimmed, acked>>
  BY DEF EnqueueUntrimmed
<1>4. CASE Conflicts(e) = {}
  <2>1. rows' = Inserted(e) /\ lastId' = lastId + 1 /\ untrimmed' = untrimmed + 1
    BY <1>4 DEF EnqueueUntrimmed
  <2>2. DOMAIN Inserted(e) = Ids \cup {lastId + 1} /\ Sound(Inserted(e), lastId + 1)
    BY <1>4, InsertedSound
  <2>3. Cardinality(Ids \cup {lastId + 1})
          = IF lastId + 1 \in Ids THEN Cardinality(Ids) ELSE Cardinality(Ids) + 1
    BY <1>2, FS_AddElement
  <2>4. Cardinality(DOMAIN rows') <= MaxRows + untrimmed'
    BY <1>1, <1>2, <2>1, <2>2, <2>3, QueueAssumption
  <2>5. lastId' \in Nat /\ untrimmed' \in 0..lastId'
    BY <1>1, <2>1, QueueAssumption
  <2>6. Sound(rows', lastId')
    BY <2>1, <2>2
  <2> QED
    BY <1>3, <2>4, <2>5, <2>6, SoundIsIInv
<1>5. CASE Conflicts(e) # {}
  <2>1. rows' = Refreshed(e) /\ lastId' = lastId /\ untrimmed' = untrimmed
    BY <1>5 DEF EnqueueUntrimmed
  <2>2. DOMAIN Refreshed(e) = Ids /\ Sound(Refreshed(e), lastId)
    BY RefreshedSound
  <2>3. Sound(rows', lastId') /\ Cardinality(DOMAIN rows') <= MaxRows + untrimmed'
    BY <1>1, <2>1, <2>2
  <2> QED
    BY <1>1, <1>3, <2>1, <2>3, SoundIsIInv
<1> QED
  BY <1>4, <1>5

(* ack removes one row and changes no other. *)
LEMMA AckKeepsIInv ==
  ASSUME IInv, NEW id \in Ids, Ack(id)
  PROVE  IInv'
<1>1. /\ rows' = [i \in Ids \ {id} |-> rows[i]]
      /\ acked' = acked \cup {id} /\ UNCHANGED <<lastId, overflow, trimmed, untrimmed>>
  BY DEF Ack, Only
<1>2. /\ lastId \in Nat /\ Ids \subseteq 1..lastId /\ rows \in [Ids -> Row]
  BY QueueAssumption DEF IInv, TypeOK
<1>3. Ids' = Ids \ {id}
  BY <1>1 DEF Ids
<1>4. \A i \in Ids' : rows'[i] = rows[i] /\ i \in Ids
  BY <1>1, <1>3
<1>5. TypeOK'
  <2>1. rows' \in [Ids \ {id} -> Row]
    BY <1>1, <1>2
  <2> QED
    BY <1>1, <1>2, <1>3, <2>1 DEF IInv, TypeOK
<1>6. DepthBounded'
  <2>1. IsFiniteSet(Ids) /\ Cardinality(Ids) \in Nat
    BY <1>2, IdsFinite
  <2>2. Cardinality(Ids \ {id}) <= Cardinality(Ids) /\ Cardinality(Ids \ {id}) \in Nat
    BY <2>1, FS_Subset, FS_CardinalityType
  <2> QED
    BY <1>1, <1>3, <2>1, <2>2, QueueAssumption DEF IInv, TypeOK, DepthBounded
<1>7. WellKeyed(rows)'
  BY <1>4 DEF IInv, WellKeyed, Ids
<1>8. OldestDroppedFirst' /\ NoSilentDeletion'
  BY <1>1, <1>2, <1>3 DEF IInv, OldestDroppedFirst, NoSilentDeletion
<1> QED
  BY <1>5, <1>6, <1>7, <1>8 DEF IInv

(* A step that keeps the ids and every row's columns but attempts and wait. *)
LEMMA RetimingKeepsIInv ==
  ASSUME IInv, UNCHANGED <<lastId, trimmed, acked, untrimmed>>, overflow' \in BOOLEAN,
         rows' \in [Ids -> Row],
         \A i \in Ids : /\ rows'[i].event = rows[i].event
                        /\ rows'[i].key = rows[i].key
                        /\ rows'[i].payload = rows[i].payload
  PROVE  IInv'
<1>1. Ids' = Ids
  BY DEF Ids
<1>2. WellKeyed(rows)'
  BY <1>1 DEF IInv, WellKeyed, Ids
<1> QED
  BY <1>1, <1>2 DEF IInv, TypeOK, DepthBounded, OldestDroppedFirst, NoSilentDeletion

(* bump_attempts changes a row's attempts and delay only. *)
LEMMA BumpKeepsIInv ==
  ASSUME IInv, NEW id \in Ids, BumpAttempts(id)
  PROVE  IInv'
<1>1. rows \in [Ids -> Row] /\ overflow \in BOOLEAN
  BY DEF IInv, TypeOK
<1>2. rows[id] \in Row /\ rows[id].attempts \in Nat
  BY <1>1, QueueAssumption DEF Row, AttemptCap
<1>3. Backoff(rows[id].attempts) \in 0..MaxBackoff
  BY <1>2, BackoffType
<1>4. Lesser(rows[id].attempts + 1, AttemptCap) \in 0..AttemptCap
  BY <1>2, QueueAssumption DEF Lesser, AttemptCap
<1> DEFINE b == Backoff(rows[id].attempts)
           a == Lesser(rows[id].attempts + 1, AttemptCap)
<1>5. rows' = [rows EXCEPT ![id] = [rows[id] EXCEPT !.attempts = a, !.wait = b]]
  BY <1>1, <1>2 DEF BumpAttempts, Row
<1>6. a \in 0..AttemptCap /\ b \in 0..MaxBackoff
  BY <1>3, <1>4
<1> HIDE DEF a, b
<1>7. rows' \in [Ids -> Row]
  BY <1>1, <1>2, <1>5, <1>6 DEF Row
<1>8. \A i \in Ids : /\ rows'[i].event = rows[i].event
                     /\ rows'[i].key = rows[i].key
                     /\ rows'[i].payload = rows[i].payload
  BY <1>1, <1>2, <1>5 DEF Row
<1>9. UNCHANGED <<lastId, overflow, trimmed, acked, untrimmed>>
  BY DEF BumpAttempts
<1> QED
  BY <1>1, <1>7, <1>8, <1>9, RetimingKeepsIInv

(* So does the passing of time. *)
LEMMA TickKeepsIInv == ASSUME IInv, Tick PROVE IInv'
<1>1. rows \in [Ids -> Row] /\ overflow \in BOOLEAN
  BY DEF IInv, TypeOK
<1>2. rows' = [i \in Ids |-> [rows[i] EXCEPT !.wait = IF @ = 0 THEN 0 ELSE @ - 1]]
  BY DEF Tick, Aged, Ids
<1>3. \A i \in Ids : rows[i] \in Row /\ rows[i].wait \in 0..MaxBackoff
  BY <1>1 DEF Row
<1>4. \A i \in Ids : (IF rows[i].wait = 0 THEN 0 ELSE rows[i].wait - 1) \in 0..MaxBackoff
  BY <1>3, QueueAssumption
<1>5. rows' \in [Ids -> Row]
  BY <1>2, <1>3, <1>4 DEF Row
<1>6. \A i \in Ids : /\ rows'[i].event = rows[i].event
                     /\ rows'[i].key = rows[i].key
                     /\ rows'[i].payload = rows[i].payload
  BY <1>2, <1>3 DEF Row
<1>7. UNCHANGED <<lastId, overflow, trimmed, acked, untrimmed>>
  BY DEF Tick
<1> QED
  BY <1>1, <1>5, <1>6, <1>7, RetimingKeepsIInv

(* A restart touches nothing but the flag. *)
LEMMA ReopenKeepsIInv == ASSUME IInv, Reopen PROVE IInv'
<1>1. rows' = rows /\ rows \in [Ids -> Row]
  BY DEF Reopen, IInv, TypeOK
<1> QED
  BY <1>1, RetimingKeepsIInv DEF Reopen

(* Every step preserves the invariant. *)
LEMMA NextKeepsIInv == IInv /\ [Next]_queue => IInv'
<1> SUFFICES ASSUME IInv, [Next]_queue PROVE IInv'
  OBVIOUS
<1>1. ASSUME NEW e \in Event, lastId < MaxId, Enqueue(e) PROVE IInv'
  BY <1>1, EnqueueKeepsIInv
<1>2. ASSUME NEW id \in Due, Ack(id) PROVE IInv'
  BY <1>2, AckKeepsIInv DEF Due
<1>3. ASSUME NEW id \in Due, BumpAttempts(id) PROVE IInv'
  BY <1>3, BumpKeepsIInv DEF Due
<1>4. CASE Tick
  BY <1>4, TickKeepsIInv
<1>5. CASE Reopen
  BY <1>5, ReopenKeepsIInv
<1>6. CASE UNCHANGED queue
  BY <1>6 DEF queue, IInv, TypeOK, DepthBounded, WellKeyed, OldestDroppedFirst, NoSilentDeletion, Ids
<1>7. ASSUME NEW e \in Event, NEW flag \in {overflow, FALSE}, lastId < MaxId,
             EnqueueUntrimmed(e, flag)
      PROVE  IInv'
  <2>1. flag \in BOOLEAN
    BY DEF IInv, TypeOK
  <2> QED
    BY <1>7, <2>1, UntrimmedKeepsIInv
<1> QED
  BY <1>1, <1>2, <1>3, <1>4, <1>5, <1>6, <1>7 DEF Next

-----------------------------------------------------------------------------
(* What a step does to the payloads, for the modules that compose the queue. *)

(* After an enqueue a row holds the new reading or what it held before. *)
LEMMA EnqueuePayloads ==
  ASSUME IInv, NEW e, Enqueue(e) \/ (\E flag : EnqueueUntrimmed(e, flag))
  PROVE  \A i \in DOMAIN rows' :
           rows'[i].payload = e \/ (i \in Ids /\ rows'[i].payload = rows[i].payload)
<1> DEFINE New(table) ==
      \A i \in DOMAIN table :
        table[i].payload = e \/ (i \in Ids /\ table[i].payload = rows[i].payload)
<1>1. New(Inserted(e))
  BY DEF Inserted, Fresh
<1>2. New(Refreshed(e))
  <2> SUFFICES ASSUME NEW i \in Ids
               PROVE  \/ Refreshed(e)[i].payload = e
                      \/ Refreshed(e)[i].payload = rows[i].payload
    BY DEF Refreshed
  <2>1. Refreshed(e)[i] = rows[i] \/ Refreshed(e)[i] = [rows[i] EXCEPT !.payload = e, !.wait = 0]
    BY DEF Refreshed
  <2>2. rows[i] \in Row
    BY DEF IInv, TypeOK
  <2> QED
    BY <2>1, <2>2 DEF Row
<1>3. ASSUME NEW table, New(table), CommitAndTrim(table) PROVE New(rows')
  <2>1. Kept(DOMAIN table) \subseteq DOMAIN table
    BY DEF Kept
  <2> QED
    BY <1>3, <2>1 DEF CommitAndTrim, Only
<1> QED
  BY <1>1, <1>2, <1>3 DEF Enqueue, Insert, Refresh, EnqueueUntrimmed

(* An ack takes one row away and changes none. *)
LEMMA AckPayloads ==
  ASSUME NEW id, Ack(id)
  PROVE  DOMAIN rows' = Ids \ {id} /\ \A i \in Ids \ {id} : rows'[i] = rows[i]
BY DEF Ack, Only

(* A retry and the passing of time keep every row and its payload. *)
LEMMA RetimingPayloads ==
  ASSUME IInv, Tick \/ \E id : BumpAttempts(id)
  PROVE  DOMAIN rows' = Ids /\ \A i \in Ids : rows'[i].payload = rows[i].payload
<1>1. rows \in [Ids -> Row]
  BY DEF IInv, TypeOK
<1>2. CASE Tick
  BY <1>1, <1>2 DEF Tick, Aged, Ids, Row
<1>3. ASSUME NEW id \in Ids, BumpAttempts(id)
      PROVE  DOMAIN rows' = Ids /\ \A i \in Ids : rows'[i].payload = rows[i].payload
  BY <1>1, <1>3 DEF BumpAttempts, Row
<1> QED
  BY <1>2, <1>3 DEF BumpAttempts

-----------------------------------------------------------------------------
(* The theorems. *)

(* The queue's inductive invariant holds in every reachable state. *)
THEOREM Invariance == Spec => []IInv
<1> QED
  BY InitIInv, NextKeepsIInv, PTL DEF Spec

(* Every reachable table, counter and log of ids has its type. *)
THEOREM TypeCorrect == Spec => []TypeOK
<1>1. IInv => TypeOK
  BY DEF IInv
<1> QED
  BY <1>1, Invariance, PTL

(* max_rows is exceeded by at most the insertions whose trim was cut short,  *)
(* however many readings an outage piles up.                                 *)
THEOREM DepthIsBounded == Spec => []DepthBounded
<1>1. IInv => DepthBounded
  BY DEF IInv
<1> QED
  BY <1>1, Invariance, PTL

(* No reading is ever queued twice, and payloads never change key. *)
THEOREM QueuedOnce == Spec => []OneRowPerReading
<1>1. IInv => OneRowPerReading
  <2> SUFFICES ASSUME IInv PROVE OneRowPerReading
    OBVIOUS
  <2>1. WellKeyed(rows) /\ DOMAIN rows = Ids
    BY DEF IInv, Ids
  <2> QED
    BY <2>1 DEF WellKeyed, OneRowPerReading
<1> QED
  BY <1>1, Invariance, PTL

(* The overflow policy only ever drops rows older than all that remain. *)
THEOREM DropsOldest == Spec => []OldestDroppedFirst
<1>1. IInv => OldestDroppedFirst
  BY DEF IInv
<1> QED
  BY <1>1, Invariance, PTL

(* Rows leave the table by ack or by a logged overflow, and by nothing else. *)
THEOREM NothingVanishes == Spec => []NoSilentDeletion
<1>1. IInv => NoSilentDeletion
  BY DEF IInv
<1> QED
  BY <1>1, Invariance, PTL

(* A drop raises critical_overflow and leaves the table exactly full. *)
THEOREM DropsAreExcess == Spec => DropsOnlyTheExcess
<1>1. ASSUME IInv, [Next]_queue
      PROVE  [trimmed' # trimmed => overflow' /\ Cardinality(DOMAIN rows') = MaxRows]_queue
  <2> DEFINE Excess == overflow' /\ Cardinality(DOMAIN rows') = MaxRows
  <2> SUFFICES ASSUME Next, trimmed' # trimmed PROVE Excess
    BY <1>1 DEF queue
  <2> USE <1>1
  <2>1. lastId \in Nat /\ Ids \subseteq 1..lastId
    BY QueueAssumption DEF IInv, TypeOK
  <2>3. ASSUME NEW e \in Event, Insert(e) PROVE Excess
    <3>1. DOMAIN Inserted(e) \subseteq 1..(lastId + 1) /\ lastId + 1 \in Nat
      BY <2>1, <2>3, InsertedSound DEF Insert, Sound
    <3>2. CommitAndTrim(Inserted(e))
      BY <2>3 DEF Insert
    <3> QED
      BY <3>1, <3>2, CommitDropsExcess
  <2>4. ASSUME NEW e \in Event, Refresh(e) PROVE Excess
    <3>1. DOMAIN Refreshed(e) \subseteq 1..lastId
      BY RefreshedSound DEF Sound
    <3>2. CommitAndTrim(Refreshed(e))
      BY <2>4 DEF Refresh
    <3> QED
      BY <2>1, <3>1, <3>2, CommitDropsExcess
  <2>5. ASSUME NEW id \in Due, Ack(id) \/ BumpAttempts(id) PROVE FALSE
    BY <2>5 DEF Ack, BumpAttempts
  <2>6. ~ Tick /\ ~ Reopen /\ \A e \in Event, flag \in BOOLEAN : ~ EnqueueUntrimmed(e, flag)
    BY DEF Tick, Reopen, EnqueueUntrimmed
  <2>7. overflow \in BOOLEAN
    BY DEF IInv, TypeOK
  <2> QED
    BY <2>3, <2>4, <2>5, <2>6, <2>7 DEF Next, Enqueue
<1> QED
  BY <1>1, Invariance, PTL DEF Spec, DropsOnlyTheExcess

=============================================================================
