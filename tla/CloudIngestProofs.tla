------------------------- MODULE CloudIngestProofs -------------------------
(***************************************************************************)
(* Proofs about the cloud's ingest for every set of readings and points,   *)
(* and any number of server processes unless a theorem says otherwise.     *)
(***************************************************************************)
EXTENDS CloudIngest, TLAPS

-----------------------------------------------------------------------------
(* Steps of one handler. *)

(* The tables only ever grow, and a point that has data keeps having some. *)
Grows ==
  /\ known \subseteq known'
  /\ processed \subseteq processed'
  /\ \A p \in Point : current[p] # NoReading => current'[p] # NoReading

(* No other handler's job changes. *)
OnlyJob(w) == \A v \in Worker \ {w} : job'[v] = job[v]

(* What a step of handler w has to establish for the invariant to survive. *)
LEMMA StepKeepsIInv ==
  ASSUME IInv, NEW w \in Worker, Grows, OnlyJob(w),
         TypeOK', JobOK(w)', MarkedAfterApplied', AnsweredIsRecorded', HistoryIsRecorded',
         replaced' \subseteq processed'
  PROVE  IInv'
<1>1. ASSUME NEW v \in Worker \ {w} PROVE JobOK(v)'
  <2>1. JobOK(v) /\ job'[v] = job[v]
    BY DEF IInv, OnlyJob
  <2>2. job[v] \in Job /\ job[v].todo \in Seq(Event)
    BY DEF IInv, TypeOK, Job
  <2>3. job[v].step \in InHand => PointOf(Head(job[v].todo)) \in Point
    BY <2>1, <2>2, IngestAssumption DEF JobOK
  <2> QED
    BY <2>1, <2>2, <2>3 DEF JobOK, Reading, Grows, InHand
<1> QED
  BY <1>1 DEF IInv

(* A step that leaves the tables and the histories alone. *)
LEMMA JobStepKeepsIInv ==
  ASSUME IInv, NEW w \in Worker, OnlyJob(w), job' \in [Worker -> Job], JobOK(w)',
         UNCHANGED <<tables, history, observed, replaced>>
  PROVE  IInv'
<1> USE DEF tables, observed
<1>1. Grows
  BY DEF Grows
<1>2. TypeOK'
  BY DEF IInv, TypeOK
<1>3. MarkedAfterApplied' /\ AnsweredIsRecorded' /\ HistoryIsRecorded' /\ replaced' \subseteq processed'
  BY DEF IInv, MarkedAfterApplied, AnsweredIsRecorded, HistoryIsRecorded
<1> QED
  BY <1>1, <1>2, <1>3, StepKeepsIInv

(* The reading in hand is a reading, and its point a point. *)
LEMMA InHandType ==
  ASSUME IInv, NEW w \in Worker, job[w].step \in InHand
  PROVE  /\ job[w] \in Job
         /\ job[w].todo \in Seq(Event) /\ job[w].todo # <<>>
         /\ Reading(w) \in Event /\ PointOf(Reading(w)) \in Point
<1>1. job[w] \in Job /\ job[w].todo \in Seq(Event) /\ job[w].todo # <<>>
  BY DEF IInv, TypeOK, JobOK, Job
<1> QED
  BY <1>1, IngestAssumption DEF Reading

(* The job of an idle worker. *)
LEMMA NoJobType ==
  /\ NoJob \in Job /\ NoJob.step = "idle" /\ NoJob.todo = <<>>
  /\ NoJob.rows = <<>> /\ NoJob.taken = {}
<1>1. <<>> \in Seq(Event) /\ "idle" \in Step
  BY DEF Step
<1> QED
  BY <1>1 DEF NoJob, Job

(* Moving to another step keeps the type of every job. *)
LEMMA GotoJob ==
  ASSUME IInv, NEW w \in Worker, NEW step \in Step, Goto(w, step)
  PROVE  /\ job' \in [Worker -> Job] /\ OnlyJob(w)
         /\ job'[w].step = step /\ job'[w].todo = job[w].todo
         /\ job'[w].rows = job[w].rows /\ job'[w].taken = job[w].taken
<1>1. job \in [Worker -> Job] /\ job[w] \in Job
  BY DEF IInv, TypeOK
<1>2. job' = [job EXCEPT ![w] = [job[w] EXCEPT !.step = step]]
  BY <1>1 DEF Goto, Job
<1> QED
  BY <1>1, <1>2 DEF Job, OnlyJob

(* Going on to the next reading keeps the type of every job. *)
LEMMA NextReadingJob ==
  ASSUME IInv, NEW w \in Worker, NEW j \in Job, j.todo # <<>>, NextReading(w, j)
  PROVE  /\ job' \in [Worker -> Job] /\ OnlyJob(w)
         /\ job'[w].step \in {"check", "write"}
         /\ job'[w].step = "check" <=> job'[w].todo # <<>>
         /\ job'[w].todo = Tail(j.todo) /\ job'[w].rows = j.rows
         /\ job'[w].taken = j.taken /\ job'[w].rejected = j.rejected
<1> DEFINE t == Tail(j.todo)
           s == IF Len(j.todo) = 1 THEN "write" ELSE "check"
<1>1. job \in [Worker -> Job]
  BY DEF IInv, TypeOK
<1>2. j.todo \in Seq(Event) /\ Len(j.todo) \in Nat /\ Len(j.todo) # 0
  BY DEF Job
<1>3. t \in Seq(Event) /\ Len(t) = Len(j.todo) - 1
  BY <1>2
<1>4. s \in Step /\ s \in {"check", "write"}
  BY DEF Step
<1>5. s = "check" <=> t # <<>>
  <2>1. Len(j.todo) # 1 <=> Len(t) # 0
    BY <1>2, <1>3
  <2> HIDE DEF t
  <2>2. t \in Seq(Event)
    BY <1>3
  <2>3. Len(t) = 0 => t = <<>>
    BY <2>2
  <2>4. t = <<>> => Len(t) = 0
    OBVIOUS
  <2> QED
    BY <2>1, <2>3, <2>4
<1>6. job' = [job EXCEPT ![w] = [j EXCEPT !.todo = t, !.step = s]]
  BY DEF NextReading
<1> HIDE DEF t, s
<1>7. [j EXCEPT !.todo = t, !.step = s] \in Job
  BY <1>3, <1>4 DEF Job
<1> QED
  BY <1>1, <1>4, <1>5, <1>6, <1>7 DEF Job, OnlyJob, t

(* The loop goes on with the next reading, with nothing in hand yet. *)
LEMMA NextReadingOK ==
  ASSUME IInv, NEW w \in Worker, NEW j \in Job, j.todo # <<>>, NextReading(w, j),
         j.taken \subseteq processed', \A n \in 1..Len(j.rows) : j.rows[n] \in processed'
  PROVE  JobOK(w)'
BY NextReadingJob DEF JobOK, InHand

(* A job with its reading counted rejected is a job. *)
LEMMA RejectedJob ==
  ASSUME IInv, NEW w \in Worker, job[w].step \in InHand
  PROVE  /\ Rejected(w) \in Job /\ Rejected(w).todo # <<>>
         /\ Rejected(w).rows = job[w].rows /\ Rejected(w).taken = job[w].taken
BY InHandType DEF Rejected, Job

(* A job with its reading counted a duplicate is a job. *)
LEMMA DuplicateJob ==
  ASSUME IInv, NEW w \in Worker, job[w].step \in InHand
  PROVE  /\ Duplicate(w) \in Job /\ Duplicate(w).todo # <<>>
         /\ Duplicate(w).rows = job[w].rows
         /\ Duplicate(w).taken = job[w].taken \cup {Reading(w)}
BY InHandType DEF Duplicate, Job

(* A job with its reading counted accepted, its Influx row gathered, is a job. *)
LEMMA AcceptedJob ==
  ASSUME IInv, NEW w \in Worker, job[w].step \in InHand
  PROVE  /\ Accepted(w) \in Job /\ Accepted(w).todo # <<>>
         /\ \/ Accepted(w).rows = job[w].rows
            \/ Accepted(w).rows = Append(job[w].rows, Reading(w))
         /\ Accepted(w).taken = job[w].taken \cup {Reading(w)}
<1> DEFINE r == IF Reading(w) \in NonNumeric THEN job[w].rows
                ELSE Append(job[w].rows, Reading(w))
           t == job[w].taken \cup {Reading(w)}
<1>1. job[w] \in Job /\ job[w].todo # <<>> /\ Reading(w) \in Event
  BY InHandType
<1>2. job[w].rows \in Seq(Event) /\ r \in Seq(Event) /\ t \in SUBSET Event
  BY <1>1 DEF Job
<1>3. r = job[w].rows \/ r = Append(job[w].rows, Reading(w))
  OBVIOUS
<1>4. Accepted(w) = [job[w] EXCEPT !.taken = t, !.rows = r]
  BY <1>1 DEF Accepted, Job
<1> HIDE DEF r, t
<1>5. /\ Accepted(w) \in Job /\ Accepted(w).todo = job[w].todo
      /\ Accepted(w).rows = r /\ Accepted(w).taken = t
  BY <1>1, <1>2, <1>4 DEF Job
<1> QED
  BY <1>1, <1>3, <1>5 DEF t

-----------------------------------------------------------------------------
(* One lemma per action. *)

(* A batch is a sequence of readings, not empty. *)
LEMMA BatchType ==
  ASSUME NEW batch \in Batches
  PROVE  batch \in Seq(Event) /\ batch # <<>>
<1>1. CASE \E e \in Event : batch = <<e>>
  BY <1>1
<1>2. CASE \E e, f \in Event : batch = <<e, f>>
  BY <1>2
<1>3. ASSUME batch \in Event \X Event PROVE \E e, f \in Event : batch = <<e, f>>
  BY <1>3
<1> QED
  BY <1>1, <1>2, <1>3 DEF Batches

(* A new batch: nothing is claimed of its readings yet. *)
LEMMA BeginKeepsIInv ==
  ASSUME IInv, NEW w \in Worker, NEW batch \in Seq(Event), batch # <<>>, Begin(w, batch)
  PROVE  IInv'
<1> DEFINE j == [NoJob EXCEPT !.step = "check", !.todo = batch]
<1>1. /\ j \in Job /\ j.step = "check" /\ j.todo = batch
      /\ j.rows = <<>> /\ j.taken = {}
  <2>1. NoJob \in Job /\ NoJob.rows = <<>> /\ NoJob.taken = {}
    BY NoJobType
  <2>2. "check" \in Step
    BY DEF Step
  <2> QED
    BY <2>1, <2>2 DEF Job
<1>2. job' = [job EXCEPT ![w] = j] /\ job \in [Worker -> Job]
  BY DEF Begin, IInv, TypeOK
<1> HIDE DEF j
<1>3. job' \in [Worker -> Job] /\ OnlyJob(w) /\ job'[w] = j
  BY <1>1, <1>2 DEF OnlyJob
<1>4. JobOK(w)'
  BY <1>1, <1>3 DEF JobOK, InHand
<1>5. UNCHANGED <<tables, history, observed, replaced>>
  BY DEF Begin
<1> QED
  BY <1>3, <1>4, <1>5, JobStepKeepsIInv

(* A rejected reading leaves the tables alone. *)
LEMMA RejectReadingKeepsIInv ==
  ASSUME IInv, NEW w \in Worker, RejectReading(w)
  PROVE  IInv'
<1>1. job[w].step \in InHand /\ NextReading(w, Rejected(w))
  BY DEF RejectReading, At, InHand
<1>2. UNCHANGED <<tables, history, observed, replaced>>
  BY DEF RejectReading
<1>3. /\ Rejected(w) \in Job /\ Rejected(w).todo # <<>>
      /\ Rejected(w).rows = job[w].rows /\ Rejected(w).taken = job[w].taken
  BY <1>1, RejectedJob
<1>4. JobOK(w)'
  BY <1>1, <1>2, <1>3, NextReadingOK DEF IInv, JobOK, tables
<1> QED
  BY <1>1, <1>2, <1>3, <1>4, NextReadingJob, JobStepKeepsIInv

(* A duplicate is counted only when it is recorded. *)
LEMMA SkipDuplicateKeepsIInv ==
  ASSUME IInv, NEW w \in Worker, SkipDuplicate(w)
  PROVE  IInv'
<1>1. job[w].step \in InHand /\ NextReading(w, Duplicate(w)) /\ Reading(w) \in processed
  BY DEF SkipDuplicate, At, InHand
<1>2. UNCHANGED <<tables, history, observed, replaced>>
  BY DEF SkipDuplicate
<1>3. /\ Duplicate(w) \in Job /\ Duplicate(w).todo # <<>>
      /\ Duplicate(w).rows = job[w].rows
      /\ Duplicate(w).taken = job[w].taken \cup {Reading(w)}
  BY <1>1, DuplicateJob
<1>4. JobOK(w)'
  BY <1>1, <1>2, <1>3, NextReadingOK DEF IInv, JobOK, tables
<1> QED
  BY <1>1, <1>2, <1>3, <1>4, NextReadingJob, JobStepKeepsIInv

(* Passing the checks moves the handler only. *)
LEMMA PassChecksKeepsIInv ==
  ASSUME IInv, NEW w \in Worker, PassChecks(w)
  PROVE  IInv'
<1>1. job[w].step \in InHand /\ Goto(w, "point") /\ "point" \in Step
  BY DEF PassChecks, At, InHand, Step
<1>2. UNCHANGED <<tables, history, observed, replaced>>
  BY DEF PassChecks
<1>3. /\ job' \in [Worker -> Job] /\ OnlyJob(w)
      /\ job'[w].step = "point" /\ job'[w].todo = job[w].todo
      /\ job'[w].rows = job[w].rows /\ job'[w].taken = job[w].taken
  BY <1>1, GotoJob
<1>4. JobOK(w)'
  BY <1>1, <1>2, <1>3 DEF IInv, JobOK, InHand, tables
<1> QED
  BY <1>2, <1>3, <1>4, JobStepKeepsIInv

(***************************************************************************)
(* The store calls, with a job that is sound in the new state.             *)
(***************************************************************************)
LEMMA StoreCallKeepsIInv ==
  ASSUME IInv, NEW w \in Worker, OnlyJob(w), job' \in [Worker -> Job], JobOK(w)',
         UNCHANGED <<history, observed, replaced>>,
         NEW e \in Event,
         \/ RegisterPoint(e)
         \/ UpdateCurrentState(e)
         \/ /\ MarkProcessed(e)
            /\ PointOf(e) \in known /\ current[PointOf(e)] # NoReading
  PROVE  IInv' /\ Grows
<1>1. PointOf(e) \in Point /\ NoReading \notin Event
  BY IngestAssumption
<1>2. /\ known \subseteq Point /\ current \in [Point -> Event \cup {NoReading}]
      /\ processed \subseteq Event
  BY DEF IInv, TypeOK
<1>3. Grows
  BY <1>1, <1>2 DEF Grows, RegisterPoint, UpdateCurrentState, MarkProcessed
<1>4. /\ known' \subseteq Point /\ current' \in [Point -> Event \cup {NoReading}]
      /\ processed' \subseteq Event
  BY <1>1, <1>2 DEF RegisterPoint, UpdateCurrentState, MarkProcessed
<1>5. TypeOK'
  BY <1>4 DEF IInv, TypeOK, observed
<1>6. MarkedAfterApplied'
  <2> SUFFICES ASSUME NEW f \in processed'
               PROVE  PointOf(f) \in known' /\ current'[PointOf(f)] # NoReading
    BY DEF MarkedAfterApplied
  <2>1. f \in processed \/ (f = e /\ PointOf(e) \in known /\ current[PointOf(e)] # NoReading)
    BY DEF RegisterPoint, UpdateCurrentState, MarkProcessed
  <2>2. PointOf(f) \in known /\ current[PointOf(f)] # NoReading
    BY <2>1 DEF IInv, MarkedAfterApplied
  <2> QED
    BY <1>2, <1>3, <2>2 DEF Grows
<1>7. AnsweredIsRecorded' /\ HistoryIsRecorded' /\ replaced' \subseteq processed'
  BY <1>3 DEF IInv, AnsweredIsRecorded, HistoryIsRecorded, Grows, observed
<1> QED
  BY <1>3, <1>5, <1>6, <1>7, StepKeepsIInv

(* After the registry call the point of the reading is known. *)
LEMMA ResolvePointKeepsIInv ==
  ASSUME IInv, NEW w \in Worker, ResolvePoint(w)
  PROVE  IInv'
<1>1. job[w].step \in InHand /\ Goto(w, "state") /\ "state" \in Step
  BY DEF ResolvePoint, At, InHand, Step
<1>2. RegisterPoint(Reading(w)) /\ UNCHANGED <<history, observed, replaced>>
  BY DEF ResolvePoint
<1>3. /\ job' \in [Worker -> Job] /\ OnlyJob(w)
      /\ job'[w].step = "state" /\ job'[w].todo = job[w].todo
      /\ job'[w].rows = job[w].rows /\ job'[w].taken = job[w].taken
  BY <1>1, GotoJob
<1>4. Reading(w) \in Event /\ job[w].todo # <<>>
  BY <1>1, InHandType
<1>5. JobOK(w)'
  BY <1>2, <1>3, <1>4 DEF IInv, JobOK, InHand, RegisterPoint, Reading
<1> QED
  BY <1>2, <1>3, <1>4, <1>5, StoreCallKeepsIInv

(* After the state call the point of the reading has data. *)
LEMMA StoreStateKeepsIInv ==
  ASSUME IInv, NEW w \in Worker, StoreState(w)
  PROVE  IInv'
<1>1. job[w].step = "state" /\ job[w].step \in InHand /\ Goto(w, "mark") /\ "mark" \in Step
  BY DEF StoreState, At, InHand, Step
<1>2. UpdateCurrentState(Reading(w)) /\ UNCHANGED <<history, observed, replaced>>
  BY DEF StoreState
<1>3. /\ job' \in [Worker -> Job] /\ OnlyJob(w)
      /\ job'[w].step = "mark" /\ job'[w].todo = job[w].todo
      /\ job'[w].rows = job[w].rows /\ job'[w].taken = job[w].taken
  BY <1>1, GotoJob
<1>4. Reading(w) \in Event /\ job[w].todo # <<>> /\ PointOf(Reading(w)) \in Point
  BY <1>1, InHandType
<1>5. current'[PointOf(Reading(w))] = Reading(w) /\ Reading(w) # NoReading
  BY <1>2, <1>4, IngestAssumption DEF UpdateCurrentState, IInv, TypeOK
<1>6. JobOK(w)'
  BY <1>1, <1>2, <1>3, <1>4, <1>5 DEF IInv, JobOK, InHand, UpdateCurrentState, Reading
<1> QED
  BY <1>2, <1>3, <1>4, <1>6, StoreCallKeepsIInv

(* Recording the event_id is sound: the reading has been applied. *)
LEMMA MarkKeepsIInv ==
  ASSUME IInv, NEW w \in Worker, Mark(w)
  PROVE  IInv'
<1>1. job[w].step = "mark" /\ job[w].step \in InHand /\ NextReading(w, Accepted(w))
  BY DEF Mark, At, InHand
<1>2. MarkProcessed(Reading(w)) /\ UNCHANGED <<history, observed, replaced>>
  BY DEF Mark
<1>3. Reading(w) \in Event /\ job[w] \in Job
  BY <1>1, InHandType
<1>4. /\ Accepted(w) \in Job /\ Accepted(w).todo # <<>>
      /\ \/ Accepted(w).rows = job[w].rows
         \/ Accepted(w).rows = Append(job[w].rows, Reading(w))
      /\ Accepted(w).taken = job[w].taken \cup {Reading(w)}
  BY <1>1, AcceptedJob
<1>5. processed' = processed \cup {Reading(w)}
  BY <1>2 DEF MarkProcessed
<1>6. Accepted(w).taken \subseteq processed'
  BY <1>4, <1>5 DEF IInv, JobOK
<1>7. \A n \in 1..Len(Accepted(w).rows) : Accepted(w).rows[n] \in processed'
  <2>1. job[w].rows \in Seq(Event)
    BY <1>3 DEF Job
  <2>2. \A n \in 1..Len(job[w].rows) : job[w].rows[n] \in processed
    BY DEF IInv, JobOK
  <2>3. CASE Accepted(w).rows = job[w].rows
    BY <1>5, <2>2, <2>3
  <2>4. CASE Accepted(w).rows = Append(job[w].rows, Reading(w))
    <3> DEFINE r == job[w].rows
    <3>1. r \in Seq(Event) /\ Len(r) \in Nat
      BY <2>1
    <3>2. Len(Append(r, Reading(w))) = Len(r) + 1
      BY <3>1
    <3>3. \A n \in 1..(Len(r) + 1) :
            Append(r, Reading(w))[n] = IF n = Len(r) + 1 THEN Reading(w) ELSE r[n]
      BY <1>3, <3>1
    <3> HIDE DEF r
    <3>4. \A n \in 1..(Len(r) + 1) : n # Len(r) + 1 => n \in 1..Len(r)
      BY <3>1
    <3> QED
      BY <1>5, <2>2, <2>4, <3>2, <3>3, <3>4 DEF r
  <2> QED
    BY <1>4, <2>3, <2>4
<1>8. JobOK(w)'
  BY <1>1, <1>4, <1>6, <1>7, NextReadingOK
<1>9. PointOf(Reading(w)) \in known /\ current[PointOf(Reading(w))] # NoReading
  BY <1>1 DEF IInv, JobOK
<1>10. job' \in [Worker -> Job] /\ OnlyJob(w)
  BY <1>1, <1>4, NextReadingJob
<1> QED
  BY <1>2, <1>3, <1>8, <1>9, <1>10, StoreCallKeepsIInv

(* A store call that raises, before or after it took effect. *)
LEMMA StoreRaisesKeepsIInv ==
  ASSUME IInv, NEW w \in Worker, StoreRaises(w)
  PROVE  IInv'
<1>1. job[w].step \in InHand /\ NextReading(w, Rejected(w))
  BY DEF StoreRaises, At, InHand
<1>2. UNCHANGED <<history, observed, replaced>>
  BY DEF StoreRaises
<1>3. /\ Rejected(w) \in Job /\ Rejected(w).todo # <<>>
      /\ Rejected(w).rows = job[w].rows /\ Rejected(w).taken = job[w].taken
  BY <1>1, RejectedJob
<1>4. Reading(w) \in Event
  BY <1>1, InHandType
<1>5. processed \subseteq processed'
  BY DEF StoreRaises, RegisterPoint, UpdateCurrentState, MarkProcessed, tables
<1>6. JobOK(w)'
  BY <1>1, <1>3, <1>5, NextReadingOK DEF IInv, JobOK
<1>7. job' \in [Worker -> Job] /\ OnlyJob(w)
  BY <1>1, <1>3, NextReadingJob
<1>8. CASE UNCHANGED tables
  BY <1>2, <1>6, <1>7, <1>8, JobStepKeepsIInv
<1>9. CASE RegisterPoint(Reading(w)) \/ UpdateCurrentState(Reading(w))
  BY <1>2, <1>4, <1>6, <1>7, <1>9, StoreCallKeepsIInv
<1>10. CASE At(w, "mark") /\ MarkProcessed(Reading(w))
  <2>1. PointOf(Reading(w)) \in known /\ current[PointOf(Reading(w))] # NoReading
    BY <1>10 DEF IInv, JobOK, At
  <2> QED
    BY <1>2, <1>4, <1>6, <1>7, <1>10, <2>1, StoreCallKeepsIInv
<1> QED
  BY <1>8, <1>9, <1>10 DEF StoreRaises

(* Writing the time series only uses up the rows gathered so far. *)
LEMMA DropRowJob ==
  ASSUME IInv, NEW w \in Worker, job[w].rows # <<>>, DropRow(w)
  PROVE  /\ job' \in [Worker -> Job] /\ OnlyJob(w)
         /\ job'[w].step = job[w].step /\ job'[w].todo = job[w].todo
         /\ job'[w].taken = job[w].taken
         /\ job'[w].rows = Tail(job[w].rows)
         /\ Len(job[w].rows) \in Nat /\ Len(job'[w].rows) = Len(job[w].rows) - 1
         /\ 1 \in 1..Len(job[w].rows) /\ Head(job[w].rows) = job[w].rows[1]
         /\ Head(job[w].rows) \in Event
         /\ \A n \in 1..Len(job'[w].rows) : /\ n + 1 \in 1..Len(job[w].rows)
                                            /\ job'[w].rows[n] = job[w].rows[n + 1]
<1> DEFINE r == job[w].rows
           t == Tail(r)
<1>1. job \in [Worker -> Job] /\ job[w] \in Job /\ r \in Seq(Event)
  BY DEF IInv, TypeOK, Job
<1>2. Len(r) \in Nat /\ Len(r) # 0
  BY <1>1
<1>3. /\ t \in Seq(Event) /\ Len(t) = Len(r) - 1
      /\ \A n \in 1..Len(t) : t[n] = r[n + 1]
      /\ Head(r) = r[1] /\ Head(r) \in Event
  BY <1>1, <1>2
<1>4. 1 \in 1..Len(r) /\ \A n \in 1..Len(t) : n + 1 \in 1..Len(r)
  BY <1>2, <1>3
<1>5. job' = [job EXCEPT ![w] = [job[w] EXCEPT !.rows = t]]
  BY <1>1 DEF DropRow
<1> HIDE DEF t
<1>6. [job[w] EXCEPT !.rows = t] \in Job
  BY <1>1, <1>3 DEF Job
<1>7. /\ job' \in [Worker -> Job] /\ OnlyJob(w)
      /\ job'[w] = [job[w] EXCEPT !.rows = t]
  BY <1>1, <1>5, <1>6 DEF OnlyJob
<1>8. /\ job'[w].step = job[w].step /\ job'[w].todo = job[w].todo
      /\ job'[w].taken = job[w].taken /\ job'[w].rows = t
  BY <1>1, <1>7 DEF Job
<1> QED
  BY <1>2, <1>3, <1>4, <1>7, <1>8 DEF t

(* One Influx row less to write. *)
LEMMA DropRowOK ==
  ASSUME IInv, NEW w \in Worker, At(w, "write"), job[w].rows # <<>>, DropRow(w),
         processed' = processed
  PROVE  JobOK(w)'
<1>1. /\ job'[w].step = "write" /\ job'[w].todo = job[w].todo
      /\ job[w].step = "write" /\ job'[w].taken = job[w].taken
  BY DropRowJob DEF At
<1>2. \A n \in 1..Len(job'[w].rows) : job'[w].rows[n] \in processed
  BY DropRowJob DEF IInv, JobOK
<1> QED
  BY <1>1, <1>2 DEF IInv, JobOK, InHand

(* A row written to the time series belongs to a recorded reading. *)
LEMMA WriteHistoryKeepsIInv ==
  ASSUME IInv, NEW w \in Worker, WriteHistory(w)
  PROVE  IInv'
<1> DEFINE e == Head(job[w].rows)
           old == {h \in history : SlotOf(h) = SlotOf(e) /\ h # e}
<1>1. /\ At(w, "write") /\ job[w].rows # <<>> /\ DropRow(w)
      /\ history' = (history \ old) \cup {e} /\ replaced' = replaced \cup old
      /\ UNCHANGED <<tables, observed>>
  BY DEF WriteHistory
<1>2. /\ job' \in [Worker -> Job] /\ OnlyJob(w)
      /\ e \in Event /\ e = job[w].rows[1] /\ 1 \in 1..Len(job[w].rows)
  BY <1>1, DropRowJob
<1>3. e \in processed /\ old \subseteq history /\ history \subseteq processed
  BY <1>2 DEF IInv, JobOK, HistoryIsRecorded
<1> HIDE DEF e, old
<1>4. JobOK(w)'
  BY <1>1, DropRowOK DEF tables
<1>5. Grows
  BY <1>1 DEF Grows, tables
<1>6. HistoryIsRecorded' /\ replaced' \subseteq processed'
  BY <1>1, <1>3 DEF IInv, HistoryIsRecorded, tables
<1>7. MarkedAfterApplied' /\ AnsweredIsRecorded'
  BY <1>1 DEF IInv, MarkedAfterApplied, AnsweredIsRecorded, tables, observed
<1>8. TypeOK'
  BY <1>1, <1>2, <1>3 DEF IInv, TypeOK, tables, observed
<1> QED
  BY <1>2, <1>4, <1>5, <1>6, <1>7, <1>8, StepKeepsIInv

(* A row that fails to be written. *)
LEMMA HistoryWriteFailsKeepsIInv ==
  ASSUME IInv, NEW w \in Worker, HistoryWriteFails(w)
  PROVE  IInv'
<1>1. /\ At(w, "write") /\ job[w].rows # <<>> /\ DropRow(w)
      /\ UNCHANGED <<tables, history, observed, replaced>>
  BY DEF HistoryWriteFails
<1>2. JobOK(w)'
  BY <1>1, DropRowOK DEF tables
<1> QED
  BY <1>1, <1>2, DropRowJob, JobStepKeepsIInv

(* A job that ends: answered, or lost with the process. *)
LEMMA NoJobOK ==
  ASSUME IInv, NEW w \in Worker, job' = [job EXCEPT ![w] = NoJob]
  PROVE  job' \in [Worker -> Job] /\ OnlyJob(w) /\ JobOK(w)'
<1>1. job \in [Worker -> Job]
  BY DEF IInv, TypeOK
<1>2. job' \in [Worker -> Job] /\ OnlyJob(w) /\ job'[w] = NoJob
  BY <1>1, NoJobType DEF OnlyJob
<1> QED
  BY <1>2, NoJobType DEF JobOK, InHand

(* The response reports recorded readings. *)
LEMMA RespondKeepsIInv ==
  ASSUME IInv, NEW w \in Worker, Respond(w)
  PROVE  IInv'
<1>1. /\ answered' = answered \cup job[w].taken /\ refused' = refused \cup job[w].rejected
      /\ job' = [job EXCEPT ![w] = NoJob] /\ UNCHANGED <<tables, history, replaced>>
  BY DEF Respond
<1>2. job' \in [Worker -> Job] /\ OnlyJob(w) /\ JobOK(w)'
  BY <1>1, NoJobOK
<1>3. job[w].taken \subseteq processed /\ job[w].rejected \subseteq Event /\ processed \subseteq Event
  BY DEF IInv, JobOK, TypeOK, Job
<1>4. Grows
  BY <1>1 DEF Grows, tables
<1>5. TypeOK'
  BY <1>1, <1>2, <1>3 DEF IInv, TypeOK, tables
<1>6. /\ MarkedAfterApplied' /\ AnsweredIsRecorded' /\ HistoryIsRecorded'
      /\ replaced' \subseteq processed'
  BY <1>1, <1>3 DEF IInv, MarkedAfterApplied, AnsweredIsRecorded, HistoryIsRecorded, tables
<1> QED
  BY <1>2, <1>4, <1>5, <1>6, StepKeepsIInv

(* A crash forgets the job and nothing else. *)
LEMMA CrashKeepsIInv ==
  ASSUME IInv, NEW w \in Worker, Crash(w)
  PROVE  IInv'
<1>1. job' = [job EXCEPT ![w] = NoJob] /\ UNCHANGED <<tables, history, observed, replaced>>
  BY DEF Crash
<1> QED
  BY <1>1, NoJobOK, JobStepKeepsIInv

(* Empty tables satisfy the invariant. *)
LEMMA InitIInv == Init => IInv
<1> SUFFICES ASSUME Init PROVE IInv
  OBVIOUS
<1>1. job \in [Worker -> Job]
  BY NoJobType DEF Init
<1>2. TypeOK
  BY <1>1 DEF Init, TypeOK
<1>3. ASSUME NEW w \in Worker PROVE JobOK(w)
  <2>1. job[w] = NoJob
    BY DEF Init
  <2> QED
    BY <2>1, NoJobType DEF JobOK, InHand
<1> QED
  BY <1>2, <1>3 DEF Init, IInv, MarkedAfterApplied, AnsweredIsRecorded, HistoryIsRecorded

(* A step of handler w, on any batch of readings a client may send. *)
Handles(w) ==
  \/ \E batch \in Seq(Event) : batch # <<>> /\ Begin(w, batch)
  \/ Advance(w) \/ Fault(w) \/ Respond(w) \/ Crash(w)

(* Every step of a handler preserves the invariant. *)
LEMMA HandlerKeepsIInv == ASSUME IInv, NEW w \in Worker, Handles(w) PROVE IInv'
<1>1. CASE \E batch \in Seq(Event) : batch # <<>> /\ Begin(w, batch)
  BY <1>1, BeginKeepsIInv
<1>2. CASE Advance(w)
  BY <1>2, RejectReadingKeepsIInv, SkipDuplicateKeepsIInv, PassChecksKeepsIInv,
     ResolvePointKeepsIInv, StoreStateKeepsIInv, MarkKeepsIInv, WriteHistoryKeepsIInv
     DEF Advance
<1>3. CASE Fault(w)
  BY <1>3, StoreRaisesKeepsIInv, HistoryWriteFailsKeepsIInv DEF Fault
<1>4. CASE Respond(w) \/ Crash(w)
  BY <1>4, RespondKeepsIInv, CrashKeepsIInv
<1> QED
  BY <1>1, <1>2, <1>3, <1>4 DEF Handles

(* The model's own batches are batches. *)
LEMMA NextHandles == Next => \E w \in Worker : Handles(w)
BY BatchType DEF Next, Handles

(* A step that touches nothing preserves the invariant. *)
LEMMA StutterKeepsIInv == IInv /\ UNCHANGED vars => IInv'
BY DEF vars, tables, observed, IInv, TypeOK, JobOK, Reading, MarkedAfterApplied,
   AnsweredIsRecorded, HistoryIsRecorded

(* Every step of every worker preserves the invariant. *)
LEMMA NextKeepsIInv == IInv /\ [Next]_vars => IInv'
BY NextHandles, HandlerKeepsIInv, StutterKeepsIInv

-----------------------------------------------------------------------------
(* What becomes of a batch, for the modules that compose the handler with a *)
(* client: no reading of it is lost track of before the response.           *)
Contents(readings) == {readings[n] : n \in DOMAIN readings}

(* The readings handler w still has, or has counted one way or the other. *)
Tracked(j) == Contents(j.todo) \cup j.taken \cup j.rejected

(* The first reading of a batch and the others make up the batch. *)
LEMMA HeadAndTail ==
  ASSUME NEW S, NEW s \in Seq(S), s # <<>>
  PROVE  /\ Contents(s) = {Head(s)} \cup Contents(Tail(s))
         /\ Head(s) \in S /\ Tail(s) \in Seq(S)
<1>1. /\ Len(s) \in Nat /\ Len(s) # 0 /\ DOMAIN s = 1..Len(s) /\ Head(s) = s[1]
      /\ Head(s) \in S /\ Tail(s) \in Seq(S)
      /\ Len(Tail(s)) = Len(s) - 1 /\ DOMAIN Tail(s) = 1..(Len(s) - 1)
      /\ \A n \in 1..(Len(s) - 1) : Tail(s)[n] = s[n + 1]
  OBVIOUS
<1>2. Contents(s) \subseteq {Head(s)} \cup Contents(Tail(s))
  <2> SUFFICES ASSUME NEW n \in 1..Len(s), n # 1 PROVE s[n] \in Contents(Tail(s))
    BY <1>1 DEF Contents
  <2>1. n - 1 \in 1..(Len(s) - 1) /\ (n - 1) + 1 = n
    BY <1>1
  <2>2. Tail(s)[n - 1] = s[n]
    BY <1>1, <2>1
  <2> QED
    BY <1>1, <2>1, <2>2 DEF Contents
<1>3. Contents(Tail(s)) \subseteq Contents(s)
  <2> SUFFICES ASSUME NEW n \in 1..(Len(s) - 1) PROVE Tail(s)[n] \in Contents(s)
    BY <1>1 DEF Contents
  <2>1. n + 1 \in 1..Len(s) /\ Tail(s)[n] = s[n + 1]
    BY <1>1
  <2> QED
    BY <1>1, <2>1 DEF Contents
<1>4. Head(s) \in Contents(s)
  BY <1>1 DEF Contents
<1> QED
  BY <1>1, <1>2, <1>3, <1>4

(* Going on to the next reading, with the one in hand counted. *)
LEMMA NextReadingTracks ==
  ASSUME IInv, NEW w \in Worker, job[w].step \in InHand, NEW j \in Job,
         j \in {Rejected(w), Duplicate(w), Accepted(w)}, NextReading(w, j)
  PROVE  /\ OnlyJob(w) /\ job'[w].step # "idle"
         /\ Contents(job'[w].todo) \subseteq Contents(job[w].todo)
         /\ Tracked(job[w]) \subseteq Tracked(job'[w])
<1>1. /\ job[w] \in Job /\ job[w].todo \in Seq(Event) /\ job[w].todo # <<>>
      /\ Reading(w) = Head(job[w].todo)
  BY InHandType DEF Reading
<1>2. /\ j.todo = job[w].todo
      /\ job[w].taken \cup job[w].rejected \cup {Reading(w)} \subseteq j.taken \cup j.rejected
  BY <1>1 DEF Rejected, Duplicate, Accepted, Job
<1>3. /\ OnlyJob(w) /\ job'[w].step \in {"check", "write"}
      /\ job'[w].todo = Tail(job[w].todo)
      /\ job'[w].taken = j.taken /\ job'[w].rejected = j.rejected
  BY <1>1, <1>2, NextReadingJob
<1>4. Contents(job[w].todo) = {Reading(w)} \cup Contents(Tail(job[w].todo))
  BY <1>1, HeadAndTail
<1> QED
  BY <1>2, <1>3, <1>4 DEF Tracked

(* A step that keeps the batch and its counts as they are. *)
LEMMA SameBatchTracks ==
  ASSUME IInv, NEW w \in Worker, job[w].step # "idle",
         \/ \E step \in Step \ {"idle"} : Goto(w, step)
         \/ DropRow(w)
  PROVE  /\ OnlyJob(w) /\ job'[w].step # "idle"
         /\ Contents(job'[w].todo) \subseteq Contents(job[w].todo)
         /\ Tracked(job[w]) \subseteq Tracked(job'[w])
<1>1. job \in [Worker -> Job] /\ job[w] \in Job
  BY DEF IInv, TypeOK
<1> DEFINE Same == /\ OnlyJob(w) /\ job'[w].step # "idle" /\ job'[w].todo = job[w].todo
                   /\ job'[w].taken = job[w].taken /\ job'[w].rejected = job[w].rejected
<1>2. ASSUME NEW step \in Step \ {"idle"}, Goto(w, step) PROVE Same
  BY <1>1, <1>2 DEF Goto, OnlyJob, Job
<1>3. CASE DropRow(w)
  <2> SUFFICES Same
    BY DEF Tracked
  <2> QED
    BY <1>1, <1>3 DEF DropRow, OnlyJob, Job
<1> QED
  BY <1>2, <1>3 DEF Tracked

(* Every reading of a batch is in hand, taken or rejected until the answer,  *)
(* and nothing but readings of the batch is ever recorded.                   *)
LEMMA HandlerTracks ==
  ASSUME IInv, NEW w \in Worker, Advance(w) \/ Fault(w)
  PROVE  /\ OnlyJob(w) /\ job[w].step # "idle" /\ job'[w].step # "idle"
         /\ Contents(job'[w].todo) \subseteq Contents(job[w].todo)
         /\ Tracked(job[w]) \subseteq Tracked(job'[w])
         /\ processed \subseteq processed'
         /\ processed' \subseteq processed \cup Contents(job[w].todo)
         /\ UNCHANGED observed
<1>1. \/ /\ job[w].step \in InHand
         /\ \/ NextReading(w, Rejected(w)) \/ NextReading(w, Duplicate(w))
            \/ NextReading(w, Accepted(w))
      \/ /\ job[w].step # "idle"
         /\ \/ \E step \in Step \ {"idle"} : Goto(w, step)
            \/ DropRow(w)
  <2>1. CASE RejectReading(w) \/ SkipDuplicate(w) \/ Mark(w) \/ StoreRaises(w)
    BY <2>1 DEF RejectReading, SkipDuplicate, Mark, StoreRaises, At, InHand
  <2>2. CASE PassChecks(w) \/ ResolvePoint(w) \/ StoreState(w)
    BY <2>2 DEF PassChecks, ResolvePoint, StoreState, At, Step
  <2>3. CASE WriteHistory(w) \/ HistoryWriteFails(w)
    BY <2>3 DEF WriteHistory, HistoryWriteFails, At
  <2> QED
    BY <2>1, <2>2, <2>3 DEF Advance, Fault
<1>2. /\ OnlyJob(w) /\ job[w].step # "idle" /\ job'[w].step # "idle"
      /\ Contents(job'[w].todo) \subseteq Contents(job[w].todo)
      /\ Tracked(job[w]) \subseteq Tracked(job'[w])
  BY <1>1, NextReadingTracks, SameBatchTracks, RejectedJob, DuplicateJob, AcceptedJob DEF InHand
<1>3. UNCHANGED observed /\ (processed' = processed \/ (At(w, "mark") /\ MarkProcessed(Reading(w))))
  BY DEF Advance, Fault, RejectReading, SkipDuplicate, PassChecks, ResolvePoint, StoreState, Mark,
     StoreRaises, WriteHistory, HistoryWriteFails, RegisterPoint, UpdateCurrentState, tables
<1>4. At(w, "mark") => Reading(w) \in Contents(job[w].todo)
  BY InHandType, HeadAndTail DEF At, InHand, Reading
<1> QED
  BY <1>2, <1>3, <1>4 DEF MarkProcessed

-----------------------------------------------------------------------------
(* The theorems for any number of server processes. *)

(* JobOK, the types and the three properties below are inductive together. *)
THEOREM IngestInvariance == Spec => []IInv
<1> QED
  BY InitIInv, NextKeepsIInv, PTL DEF Spec

(* The handler's state and the tables keep their types. *)
THEOREM IngestTypes == Spec => []TypeOK
<1>1. IInv => TypeOK
  BY DEF IInv
<1> QED
  BY <1>1, IngestInvariance, PTL

(* An event_id is never recorded before its reading was applied. *)
THEOREM AppliedBeforeMarked == Spec => []MarkedAfterApplied
<1>1. IInv => MarkedAfterApplied
  BY DEF IInv
<1> QED
  BY <1>1, IngestInvariance, PTL

(* What a response counted accepted or duplicate is recorded. *)
THEOREM AnswersAreDurable == Spec => []AnsweredIsRecorded
<1>1. IInv => AnsweredIsRecorded
  BY DEF IInv
<1> QED
  BY <1>1, IngestInvariance, PTL

(* The time series holds recorded readings only. *)
THEOREM HistoryFollowsRecord == Spec => []HistoryIsRecorded
<1>1. IInv => HistoryIsRecorded
  BY DEF IInv
<1> QED
  BY <1>1, IngestInvariance, PTL

-----------------------------------------------------------------------------
(* One server process, as the deployment runs it: the dedupe check is then  *)
(* still true when the reading is applied and when it is written.           *)

(* The rows gathered so far stay exclusive when the rest does not change. *)
LEMMA SameRowsExclusive ==
  ASSUME NEW w \in Worker, Exclusive(w), job'[w].rows = job[w].rows,
         UNCHANGED <<history, replaced>>,
         job'[w].step \in InHand \ {"check"} => Reading(w)' \notin processed'
  PROVE  Exclusive(w)'
BY DEF Exclusive

(* A handler that goes on to the next reading with the same rows. *)
LEMMA NextReadingExclusive ==
  ASSUME IInv, NEW w \in Worker, Exclusive(w), NEW j \in Job, j.todo # <<>>,
         j.rows = job[w].rows, NextReading(w, j), UNCHANGED <<history, replaced>>
  PROVE  Exclusive(w)'
<1>1. job'[w].step \in {"check", "write"} /\ job'[w].rows = job[w].rows
  BY NextReadingJob
<1> QED
  BY <1>1, SameRowsExclusive DEF InHand

(* Moving on within a reading. *)
LEMMA GotoExclusive ==
  ASSUME IInv, NEW w \in Worker, Exclusive(w), NEW step \in Step, Goto(w, step),
         Reading(w) \notin processed, processed' = processed,
         UNCHANGED <<history, replaced>>
  PROVE  Exclusive(w)'
<1>1. job'[w].todo = job[w].todo /\ job'[w].rows = job[w].rows
  BY GotoJob
<1> QED
  BY <1>1, SameRowsExclusive DEF Reading

(* An accepted reading was in no row, in no history and not overwritten. *)
LEMMA MarkExclusive ==
  ASSUME IInv, NEW w \in Worker, Exclusive(w), Mark(w)
  PROVE  Exclusive(w)'
<1> DEFINE e == Reading(w)
           r == job[w].rows
<1>1. job[w].step = "mark" /\ job[w].step \in InHand /\ NextReading(w, Accepted(w))
  BY DEF Mark, At, InHand
<1>2. UNCHANGED <<history, replaced>>
  BY DEF Mark
<1>3. e \in Event /\ job[w] \in Job /\ r \in Seq(Event) /\ Len(r) \in Nat
  BY <1>1, InHandType DEF Job
<1>4. /\ Accepted(w) \in Job /\ Accepted(w).todo # <<>>
      /\ Accepted(w).rows = r \/ Accepted(w).rows = Append(r, e)
  BY <1>1, AcceptedJob
<1>5. job'[w].step \in {"check", "write"} /\ job'[w].rows = Accepted(w).rows
  BY <1>1, <1>4, NextReadingJob
<1>6. CASE Accepted(w).rows = r
  BY <1>2, <1>5, <1>6, SameRowsExclusive DEF InHand
<1>7. CASE Accepted(w).rows = Append(r, e)
  <2>1. e \notin processed
    BY <1>1 DEF Exclusive, InHand
  <2>2. e \notin history \cup replaced /\ \A n \in 1..Len(r) : r[n] # e
    BY <2>1 DEF IInv, HistoryIsRecorded, JobOK
  <2>3. /\ \A n \in 1..Len(r) : r[n] \notin history \cup replaced
        /\ \A m, n \in 1..Len(r) : r[m] = r[n] => m = n
    BY DEF Exclusive
  <2> DEFINE a == Append(r, e)
             L == Len(r) + 1
  <2>4. /\ Len(a) = L
        /\ \A n \in 1..L : a[n] = IF n = L THEN e ELSE r[n]
        /\ \A n \in 1..L : n # L => n \in 1..Len(r)
    BY <1>3
  <2> HIDE DEF a, e, r, L
  <2>5. \A n \in 1..L : a[n] \notin history \cup replaced
    BY <2>2, <2>3, <2>4
  <2>6. \A m, n \in 1..L : a[m] = a[n] => m = n
    BY <2>2, <2>3, <2>4
  <2>7. job'[w].rows = a
    BY <1>5, <1>7 DEF a
  <2> QED
    BY <1>2, <1>5, <2>4, <2>5, <2>6, <2>7 DEF Exclusive, InHand
<1> QED
  BY <1>4, <1>6, <1>7

(* Writing a row: it was never in the time series before. *)
LEMMA WriteHistoryExclusive ==
  ASSUME IInv, NEW w \in Worker, Exclusive(w), NoResurrection, WriteHistory(w)
  PROVE  Exclusive(w)' /\ NoResurrection'
<1> DEFINE e == Head(job[w].rows)
           old == {h \in history : SlotOf(h) = SlotOf(e) /\ h # e}
<1>1. /\ At(w, "write") /\ job[w].rows # <<>> /\ DropRow(w)
      /\ history' = (history \ old) \cup {e} /\ replaced' = replaced \cup old
  BY DEF WriteHistory
<1>2. /\ job'[w].step = "write" /\ e = job[w].rows[1] /\ 1 \in 1..Len(job[w].rows)
      /\ Len(job[w].rows) \in Nat
      /\ \A n \in 1..Len(job'[w].rows) : /\ n + 1 \in 1..Len(job[w].rows)
                                         /\ job'[w].rows[n] = job[w].rows[n + 1]
      /\ Len(job'[w].rows) = Len(job[w].rows) - 1
  BY <1>1, DropRowJob DEF At
<1>3. old \subseteq history /\ e \notin old
  OBVIOUS
<1>4. /\ \A n \in 1..Len(job[w].rows) : job[w].rows[n] \notin history \cup replaced
      /\ \A m, n \in 1..Len(job[w].rows) : job[w].rows[m] = job[w].rows[n] => m = n
  BY DEF Exclusive
<1> HIDE DEF e, old
<1>5. NoResurrection'
  BY <1>1, <1>2, <1>3, <1>4 DEF NoResurrection
<1>6. \A n \in 1..Len(job'[w].rows) : n \in Nat /\ n + 1 # 1
  BY <1>2
<1>7. \A n \in 1..Len(job'[w].rows) : job'[w].rows[n] \notin history' \cup replaced'
  BY <1>1, <1>2, <1>3, <1>4, <1>6
<1>8. \A m, n \in 1..Len(job'[w].rows) : job'[w].rows[m] = job'[w].rows[n] => m = n
  <2>1. \A m, n \in 1..Len(job'[w].rows) : job'[w].rows[m] = job'[w].rows[n] => m + 1 = n + 1
    BY <1>2, <1>4
  <2> QED
    BY <1>6, <2>1
<1>9. job'[w].step \notin InHand
  BY <1>2 DEF InHand
<1> QED
  BY <1>5, <1>7, <1>8, <1>9 DEF Exclusive

(* Giving a row up. *)
LEMMA HistoryWriteFailsExclusive ==
  ASSUME IInv, NEW w \in Worker, Exclusive(w), HistoryWriteFails(w)
  PROVE  Exclusive(w)'
<1>1. /\ At(w, "write") /\ job[w].rows # <<>> /\ DropRow(w) /\ UNCHANGED <<history, replaced>>
  BY DEF HistoryWriteFails
<1>2. /\ job'[w].step = "write" /\ Len(job[w].rows) \in Nat
      /\ \A n \in 1..Len(job'[w].rows) : /\ n + 1 \in 1..Len(job[w].rows)
                                         /\ job'[w].rows[n] = job[w].rows[n + 1]
      /\ Len(job'[w].rows) = Len(job[w].rows) - 1
  BY <1>1, DropRowJob DEF At
<1>3. \A n \in 1..Len(job'[w].rows) : n \in Nat
  BY <1>2
<1>4. \A m, n \in 1..Len(job'[w].rows) : job'[w].rows[m] = job'[w].rows[n] => m + 1 = n + 1
  BY <1>2 DEF Exclusive
<1>5. \A m, n \in 1..Len(job'[w].rows) : job'[w].rows[m] = job'[w].rows[n] => m = n
  BY <1>3, <1>4
<1>6. \A n \in 1..Len(job'[w].rows) : job'[w].rows[n] \notin history' \cup replaced'
  BY <1>1, <1>2 DEF Exclusive
<1>7. job'[w].step \notin InHand
  BY <1>2 DEF InHand
<1> QED
  BY <1>5, <1>6, <1>7 DEF Exclusive

(* An idle handler, or one that has just begun, holds no rows. *)
LEMMA EmptyExclusive ==
  ASSUME NEW w \in Worker, job'[w].rows = <<>>, job'[w].step \in {"idle", "check"}
  PROVE  Exclusive(w)'
BY DEF Exclusive, InHand

(* A new batch has gathered no rows. *)
LEMMA BeginExclusive ==
  ASSUME IInv, NEW w \in Worker, NEW batch, Begin(w, batch)
  PROVE  Exclusive(w)'
<1>1. job' = [job EXCEPT ![w] = [NoJob EXCEPT !.step = "check", !.todo = batch]]
  BY DEF Begin
<1>2. job'[w].rows = <<>> /\ job'[w].step = "check"
  BY <1>1, NoJobType DEF IInv, TypeOK, Job
<1> QED
  BY <1>2, EmptyExclusive

(* The end of a job leaves no rows. *)
LEMMA EndExclusive ==
  ASSUME IInv, NEW w \in Worker, Respond(w) \/ Crash(w)
  PROVE  Exclusive(w)'
<1>1. job'[w] = NoJob
  BY DEF Respond, Crash, IInv, TypeOK
<1> QED
  BY <1>1, NoJobType, EmptyExclusive

(* Every step of the only worker preserves the stronger invariant. *)
LEMMA AloneHandles ==
  ASSUME IInvAlone, NEW w \in Worker, Worker = {w}, Handles(w)
  PROVE  IInvAlone'
<1>1. IInv /\ NoResurrection /\ Exclusive(w)
  BY DEF IInvAlone
<1>2. IInv'
  BY <1>1, HandlerKeepsIInv
<1> SUFFICES Exclusive(w)' /\ NoResurrection'
  BY <1>2 DEF IInvAlone
<1>3. UNCHANGED <<history, replaced>> => NoResurrection'
  BY <1>1 DEF NoResurrection
<1>4. ASSUME NEW batch, Begin(w, batch) PROVE Exclusive(w)' /\ NoResurrection'
  BY <1>1, <1>3, <1>4, BeginExclusive DEF Begin
<1>5. CASE RejectReading(w)
  <2>1. job[w].step \in InHand /\ NextReading(w, Rejected(w)) /\ UNCHANGED <<history, replaced>>
    BY <1>5 DEF RejectReading, At, InHand
  <2> QED
    BY <1>1, <1>3, <2>1, RejectedJob, NextReadingExclusive
<1>6. CASE SkipDuplicate(w)
  <2>1. job[w].step \in InHand /\ NextReading(w, Duplicate(w)) /\ UNCHANGED <<history, replaced>>
    BY <1>6 DEF SkipDuplicate, At, InHand
  <2> QED
    BY <1>1, <1>3, <2>1, DuplicateJob, NextReadingExclusive
<1>7. CASE PassChecks(w)
  <2>1. /\ Goto(w, "point") /\ "point" \in Step /\ Reading(w) \notin processed
        /\ UNCHANGED <<history, replaced>> /\ processed' = processed
    BY <1>7 DEF PassChecks, Step, tables
  <2> QED
    BY <1>1, <1>3, <2>1, GotoExclusive
<1>8. CASE ResolvePoint(w)
  <2>1. /\ Goto(w, "state") /\ "state" \in Step /\ At(w, "point")
        /\ UNCHANGED <<history, replaced>> /\ processed' = processed
    BY <1>8 DEF ResolvePoint, RegisterPoint, Step
  <2>2. Reading(w) \notin processed
    BY <1>1, <2>1 DEF Exclusive, At, InHand
  <2> QED
    BY <1>1, <1>3, <2>1, <2>2, GotoExclusive
<1>9. CASE StoreState(w)
  <2>1. /\ Goto(w, "mark") /\ "mark" \in Step /\ At(w, "state")
        /\ UNCHANGED <<history, replaced>> /\ processed' = processed
    BY <1>9 DEF StoreState, UpdateCurrentState, Step
  <2>2. Reading(w) \notin processed
    BY <1>1, <2>1 DEF Exclusive, At, InHand
  <2> QED
    BY <1>1, <1>3, <2>1, <2>2, GotoExclusive
<1>10. CASE Mark(w)
  BY <1>1, <1>3, <1>10, MarkExclusive DEF Mark
<1>11. CASE WriteHistory(w)
  BY <1>1, <1>11, WriteHistoryExclusive
<1>12. CASE StoreRaises(w)
  <2>1. job[w].step \in InHand /\ NextReading(w, Rejected(w)) /\ UNCHANGED <<history, replaced>>
    BY <1>12 DEF StoreRaises, At, InHand
  <2> QED
    BY <1>1, <1>3, <2>1, RejectedJob, NextReadingExclusive
<1>13. CASE HistoryWriteFails(w)
  BY <1>1, <1>3, <1>13, HistoryWriteFailsExclusive DEF HistoryWriteFails
<1>14. CASE Respond(w) \/ Crash(w)
  BY <1>1, <1>3, <1>14, EndExclusive DEF Respond, Crash
<1> QED
  BY <1>4, <1>5, <1>6, <1>7, <1>8, <1>9, <1>10, <1>11, <1>12, <1>13, <1>14
     DEF Handles, Advance, Fault

(* So does a step that touches nothing. *)
LEMMA AloneStutter == IInvAlone /\ UNCHANGED vars => IInvAlone'
<1> SUFFICES ASSUME IInvAlone, UNCHANGED vars PROVE IInvAlone'
  OBVIOUS
<1>1. IInv'
  BY StutterKeepsIInv DEF IInvAlone
<1>2. NoResurrection' /\ \A w \in Worker : Exclusive(w)'
  BY DEF IInvAlone, vars, tables, Exclusive, NoResurrection, Reading
<1> QED
  BY <1>1, <1>2 DEF IInvAlone

(* And so does every step when there is one worker. *)
LEMMA AloneStep ==
  ASSUME IInvAlone, NEW w \in Worker, Worker = {w}, [Next]_vars
  PROVE  IInvAlone'
BY NextHandles, AloneHandles, AloneStutter

(* The only worker applies readings that are not recorded yet. *)
LEMMA AloneApplies ==
  ASSUME IInvAlone, NEW w \in Worker, Handles(w), NEW p \in Point, current'[p] # current[p]
  PROVE  current'[p] \notin processed
<1>1. IInv /\ Exclusive(w)
  BY DEF IInvAlone
<1>2. job[w].step = "state" /\ UpdateCurrentState(Reading(w))
  BY DEF Handles, Begin, Advance, Fault, Respond, Crash, RejectReading, SkipDuplicate, PassChecks,
     ResolvePoint, StoreState, Mark, StoreRaises, WriteHistory, HistoryWriteFails,
     RegisterPoint, MarkProcessed, tables, At
<1>3. Reading(w) \notin processed
  BY <1>1, <1>2 DEF Exclusive, InHand
<1>4. current'[p] = Reading(w)
  BY <1>1, <1>2 DEF UpdateCurrentState, IInv, TypeOK
<1> QED
  BY <1>3, <1>4

(* Empty tables satisfy the stronger invariant. *)
LEMMA InitAlone == Init => IInvAlone
<1> SUFFICES ASSUME Init PROVE IInvAlone
  OBVIOUS
<1>1. ASSUME NEW w \in Worker PROVE Exclusive(w)
  <2>1. job[w] = NoJob
    BY DEF Init
  <2> QED
    BY <2>1, NoJobType DEF Exclusive, InHand
<1> QED
  BY <1>1, InitIInv DEF Init, IInvAlone, NoResurrection

(* With one server process, a value overwritten in the time series never   *)
(* comes back.                                                             *)
THEOREM OverwrittenStaysOverwritten ==
  ASSUME NEW w \in Worker, Worker = {w}
  PROVE  Spec => []NoResurrection
<1>1. IInvAlone /\ [Next]_vars => IInvAlone'
  BY AloneStep
<1>2. IInvAlone => NoResurrection
  BY DEF IInvAlone
<1> QED
  BY <1>1, <1>2, InitAlone, PTL DEF Spec

(* With one server process, a recorded reading never changes the current   *)
(* state again.                                                            *)
THEOREM RecordedOnceApplied ==
  ASSUME NEW w \in Worker, Worker = {w}
  PROVE  Spec => AppliedOnce
<1> DEFINE Step1 == \A p \in Point : current'[p] # current[p] => current'[p] \notin processed
<1>1. ASSUME IInvAlone, [Next]_vars PROVE [Step1]_vars
  BY <1>1, NextHandles, AloneApplies
<1>2. IInvAlone /\ [Next]_vars => IInvAlone'
  BY AloneStep
<1> QED
  BY <1>1, <1>2, InitAlone, PTL DEF Spec, AppliedOnce
=============================================================================
