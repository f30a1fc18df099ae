------------------------- MODULE Scheduler_proofs -------------------------
(***************************************************************************)
(* Proofs about the scheduler, for all sets of tuple types, generators and *)
(* jobs, all policies and all concurrency levels: type correctness, the    *)
(* bound on the number of active jobs, that a type is not produced beyond  *)
(* its threshold by a batch or more, and that the lottery is fair.         *)
(***************************************************************************)
EXTENDS Scheduler, Integers, FiniteSetTheorems, WellFoundedInduction, TLAPS

(* The job a job identifier stands for, by its parts. *)
LEMMA JobParts ==
  /\ NoJob \in Job
  /\ \A t \in TupleType, s \in JobState : [type |-> t, state |-> s] \in Job
  /\ \A x \in Job : x # NoJob => x.type \in TupleType /\ x.state \in JobState
  /\ \A x \in Job, s \in JobState : x # NoJob => [x EXCEPT !.state = s] \in Job
BY DEF Job, NoJob, JobState

(* The greater one of two numbers. *)
LEMMA MaxOfTwo ==
  ASSUME NEW m \in Nat, NEW n \in Nat
  PROVE  Max({m, n}) \in Nat /\ m <= Max({m, n}) /\ n <= Max({m, n})
<1>1. \E x \in {m, n} : \A y \in {m, n} : y <= x
  <2>1. CASE m <= n BY <2>1
  <2>2. CASE n <= m BY <2>2
  <2> QED BY <2>1, <2>2
<1> QED BY <1>1 DEF Max

(* Sets of jobs are finite, so that they can be counted. *)
LEMMA ActiveIdsFinite ==
  ASSUME NEW js
  PROVE  /\ ActiveIds(js) \subseteq JobId
         /\ IsFiniteSet(ActiveIds(js))
         /\ Cardinality(ActiveIds(js)) \in Nat
<1>1. ActiveIds(js) \subseteq JobId BY DEF ActiveIds
<1> QED BY <1>1, FiniteAssumption, FS_Subset, FS_CardinalityType

LEMMA UnlistedFinite ==
  ASSUME NEW js, NEW ks
  PROVE  /\ IsFiniteSet(ActiveIds(js) \ ActiveIds(ks))
         /\ Cardinality(ActiveIds(js) \ ActiveIds(ks)) \in Nat
<1>1. ActiveIds(js) \ ActiveIds(ks) \in SUBSET ActiveIds(js) OBVIOUS
<1> QED BY <1>1, ActiveIdsFinite, FS_Subset, FS_CardinalityType

(* TypeOK is inductive. *)
LEMMA TypeStep ==
  ASSUME TypeOK, [Next]_vars
  PROVE  TypeOK'
<1> USE PolicyAssumption, BoundAssumption DEF TypeOK
<1>1. ASSUME cleanupFinishedJobs \/ CleanupFails PROVE TypeOK'
  <2>1. ASSUME NEW D \in SUBSET JobId, Remove(D)
        PROVE  jobs' \in [JobId -> Job] /\ activated' \subseteq JobId
               /\ expired' \subseteq JobId
    BY <2>1, JobParts DEF Remove
  <2> QED BY <1>1, <2>1 DEF cleanupFinishedJobs, CleanupFails, Overdue, FinishedIds, passVars,
                           Setback
<1>2. ASSUME ListActiveJobs PROVE TypeOK'
  <2>1. missed' \in Nat
    BY <1>2, MaxOfTwo, UnlistedFinite DEF ListActiveJobs, Unlisted
  <2> QED BY <1>2, <2>1, JobParts DEF ListActiveJobs, PassEnds, NoTelemetry
<1>3. ASSUME GetTelemetry PROVE TypeOK'
  BY <1>3 DEF GetTelemetry
<1>4. ASSUME Schedule PROVE TypeOK'
  <2>1. \A t \in Draw(belowThreshold) : t \in TupleType
    BY DEF Draw, belowThreshold, ServiceablePolicies
  <2>2. jobs' \in [JobId -> Job]
    <3>1. CASE UNCHANGED jobs BY <3>1
    <3>2. CASE \E t \in Draw(belowThreshold) : createJob(t)
      <4>1. PICK t \in TupleType : createJob(t) BY <2>1, <3>2
      <4>2. [type |-> t, state |-> "Active"] \in Job BY JobParts DEF JobState
      <4> QED BY <4>1, <4>2 DEF createJob
    <3> QED BY <1>4, <3>1, <3>2 DEF Schedule
  <2>3. seen' \in [JobId -> Job] /\ telemetry' \in [TupleType -> Nat]
    BY <1>4, JobParts DEF Schedule, PassEnds, NoTelemetry
  <2> QED BY <1>4, <2>2, <2>3 DEF Schedule, PassEnds
<1>5. ASSUME PassFails PROVE TypeOK'
  BY <1>5, JobParts DEF PassFails, PassEnds, NoTelemetry, Setback
<1>6. ASSUME Sync PROVE TypeOK'
  BY <1>6 DEF Sync, passVars
<1>7. ASSUME NEW j \in JobId, Activate(j) PROVE TypeOK'
  <2>1. jobs[j].type \in TupleType BY <1>7, JobParts DEF Activate
  <2> QED BY <1>7, <2>1 DEF Activate, passVars
<1>8. ASSUME NEW j \in JobId, Complete(j) PROVE TypeOK'
  BY <1>8, JobParts DEF Complete, passVars, JobState
<1>9. ASSUME NEW j \in JobId, Fail(j) PROVE TypeOK'
  <2>1. jobs' \in [JobId -> Job] BY <1>9, JobParts DEF Fail, JobState
  <2>2. setbacks' \in 0 .. MaxSetbacks BY <1>9 DEF Fail, Setback
  <2> QED BY <1>9, <2>1, <2>2 DEF Fail, passVars
<1>10. ASSUME NEW j \in JobId, Expire(j) PROVE TypeOK'
  BY <1>10 DEF Expire, passVars
<1>11. ASSUME NEW t \in TupleType, Consume(t) PROVE TypeOK'
  BY <1>11 DEF Consume, passVars, Setback
<1>12. ASSUME UNCHANGED vars PROVE TypeOK'
  BY <1>12 DEF vars, passVars
<1> QED BY <1>1, <1>2, <1>3, <1>4, <1>5, <1>6, <1>7, <1>8, <1>9, <1>10, <1>11,
           <1>12 DEF Next, Pass, JobRuns

(* The scheduler's state is well formed in every behaviour: in particular, *)
(* only tuple types are ever scheduled.                                    *)
THEOREM SchedulerTypeCorrect == Spec => []TypeOK
<1>1. Init => TypeOK
  BY PolicyAssumption, BoundAssumption, JobParts DEF Init, TypeOK, NoTelemetry
<1> QED BY <1>1, TypeStep, PTL DEF Spec

(* With fewer active jobs there are not more of them. *)
LEMMA FewerActive ==
  ASSUME NEW js, NEW ks, ActiveIds(ks) \subseteq ActiveIds(js)
  PROVE  Cardinality(ActiveIds(ks)) <= Cardinality(ActiveIds(js))
BY ActiveIdsFinite, FS_Subset

(* A step after which no further job is active, and which leaves the list  *)
(* of a pass that goes on alone, preserves the invariant.                  *)
LEMMA ShrinkingStep ==
  ASSUME TypeOK, ConcurrencyInv,
         ActiveIds(jobs') \subseteq ActiveIds(jobs), missed' = missed,
         pc' \in {"telemetry", "schedule"} =>
           pc \in {"telemetry", "schedule"} /\ seen' = seen
  PROVE  ConcurrencyInv'
<1>1. ConcurrencyRespected'
  BY FewerActive, ActiveIdsFinite, PolicyAssumption
     DEF ConcurrencyInv, ConcurrencyRespected, TypeOK
<1>2. ASSUME pc' \in {"telemetry", "schedule"}
      PROVE  Unlisted(seen)' <= missed' /\ Cardinality(ActiveIds(seen')) < Concurrency
  <2>1. /\ Cardinality(ActiveIds(jobs) \ ActiveIds(seen)) <= missed
        /\ Cardinality(ActiveIds(seen)) < Concurrency
    BY <1>2 DEF ConcurrencyInv, SeenCovers, Unlisted
  <2>2. ActiveIds(jobs') \ ActiveIds(seen) \in SUBSET (ActiveIds(jobs) \ ActiveIds(seen))
    OBVIOUS
  <2>3. Cardinality(ActiveIds(jobs') \ ActiveIds(seen))
          <= Cardinality(ActiveIds(jobs) \ ActiveIds(seen))
    BY <2>2, UnlistedFinite, FS_Subset
  <2>4. /\ Cardinality(ActiveIds(jobs') \ ActiveIds(seen)) \in Nat
        /\ Cardinality(ActiveIds(jobs) \ ActiveIds(seen)) \in Nat
    BY UnlistedFinite
  <2>5. Cardinality(ActiveIds(jobs') \ ActiveIds(seen)) <= missed
    BY <2>1, <2>3, <2>4 DEF TypeOK
  <2> QED BY <1>2, <2>1, <2>5 DEF Unlisted
<1>3. SeenCovers' BY <1>2 DEF SeenCovers
<1> QED BY <1>1, <1>3 DEF ConcurrencyInv

(* A list of fewer than Concurrency jobs that misses m active ones, and    *)
(* one more job: the active jobs are at most Concurrency + m.              *)
LEMMA OneMoreJob ==
  ASSUME NEW js, NEW ks, NEW ls, NEW j, NEW m \in Nat,
         Cardinality(ActiveIds(js) \ ActiveIds(ls)) <= m,
         Cardinality(ActiveIds(ls)) < Concurrency,
         ActiveIds(ks) \subseteq ActiveIds(js) \cup {j}
  PROVE  Cardinality(ActiveIds(ks)) <= Concurrency + m
<1> DEFINE A == ActiveIds(ls)
           B == ActiveIds(js) \ ActiveIds(ls)
<1>1. /\ IsFiniteSet(A) /\ Cardinality(A) \in Nat /\ IsFiniteSet(B) /\ Cardinality(B) \in Nat
      /\ A \cap B = {} /\ ActiveIds(ks) \subseteq (A \cup B) \cup {j}
      /\ Cardinality(B) <= m /\ Cardinality(A) < Concurrency
  BY ActiveIdsFinite, UnlistedFinite
<1> HIDE DEF A, B
<1>2. IsFiniteSet(A \cup B) /\ Cardinality(A \cup B) = Cardinality(A) + Cardinality(B)
  <2>1. IsFiniteSet(A \cup B)
        /\ Cardinality(A \cup B) = Cardinality(A) + Cardinality(B) - Cardinality(A \cap B)
    BY <1>1, FS_Union
  <2> QED BY <1>1, <2>1, FS_EmptySet
<1>3. /\ IsFiniteSet((A \cup B) \cup {j})
      /\ Cardinality((A \cup B) \cup {j})
           = IF j \in A \cup B THEN Cardinality(A \cup B) ELSE Cardinality(A \cup B) + 1
  BY <1>2, FS_AddElement
<1>4. Cardinality(ActiveIds(ks)) <= Cardinality((A \cup B) \cup {j})
  BY <1>1, <1>3, FS_Subset
<1>5. Cardinality((A \cup B) \cup {j}) <= Cardinality(A) + Cardinality(B) + 1
  BY <1>1, <1>2, <1>3
<1>6. Cardinality(ActiveIds(ks)) \in Nat /\ Cardinality((A \cup B) \cup {j}) \in Nat
  BY <1>3, ActiveIdsFinite, FS_CardinalityType
<1> QED BY <1>1, <1>4, <1>5, <1>6, PolicyAssumption

(* The invariant is preserved. *)
LEMMA ConcurrencyStep ==
  ASSUME TypeOK, ConcurrencyInv, [Next]_vars
  PROVE  ConcurrencyInv'
<1>1. ASSUME cleanupFinishedJobs \/ CleanupFails PROVE ConcurrencyInv'
  <2>1. ActiveIds(jobs') \subseteq ActiveIds(jobs)
    BY <1>1 DEF cleanupFinishedJobs, CleanupFails, Remove, ActiveIds
  <2> QED BY <1>1, <2>1, ShrinkingStep DEF cleanupFinishedJobs, CleanupFails, passVars
<1>2. ASSUME ListActiveJobs PROVE ConcurrencyInv'
  <2>1. CASE AtMaximum(cache)
    BY <1>2, <2>1, ShrinkingStep DEF ListActiveJobs, PassEnds
  <2>2. CASE ~AtMaximum(cache)
    <3>1. jobs' = jobs /\ missed' = Max({missed, Unlisted(cache)})
      BY <1>2, <2>2 DEF ListActiveJobs
    <3>2. ActiveIds(seen') = ActiveIds(cache)
      BY <1>2, <2>2 DEF ListActiveJobs, ActiveIds
    <3>3. /\ missed \in Nat /\ missed' \in Nat /\ missed <= missed'
          /\ Unlisted(cache) <= missed'
      BY <3>1, MaxOfTwo, UnlistedFinite DEF TypeOK, Unlisted
    <3>4. Cardinality(ActiveIds(cache)) < Concurrency
      BY <2>2, ActiveIdsFinite, PolicyAssumption DEF AtMaximum
    <3>5. SeenCovers' BY <3>1, <3>2, <3>3, <3>4 DEF SeenCovers, Unlisted
    <3>6. ConcurrencyRespected'
      BY <3>1, <3>3, ActiveIdsFinite, PolicyAssumption
         DEF ConcurrencyRespected, ConcurrencyInv
    <3> QED BY <3>5, <3>6 DEF ConcurrencyInv
  <2> QED BY <2>1, <2>2
<1>3. ASSUME GetTelemetry PROVE ConcurrencyInv'
  BY <1>3, ShrinkingStep DEF GetTelemetry
<1>4. ASSUME Schedule PROVE ConcurrencyInv'
  <2>1. CASE UNCHANGED jobs
    BY <1>4, <2>1, ShrinkingStep DEF Schedule, PassEnds
  <2>2. CASE \E t \in Draw(belowThreshold) : createJob(t)
    <3>1. PICK j \in JobId : ActiveIds(jobs') \subseteq ActiveIds(jobs) \cup {j}
      BY <1>4, <2>2 DEF createJob, ActiveIds, TypeOK
    <3>2. /\ Cardinality(ActiveIds(jobs) \ ActiveIds(seen)) <= missed
          /\ Cardinality(ActiveIds(seen)) < Concurrency
      BY <1>4 DEF Schedule, ConcurrencyInv, SeenCovers, Unlisted
    <3>3. missed' = missed /\ missed \in Nat BY <1>4 DEF Schedule, TypeOK
    <3>4. Cardinality(ActiveIds(jobs')) <= Concurrency + missed
      BY <3>1, <3>2, <3>3, OneMoreJob
    <3> QED BY <1>4, <3>3, <3>4 DEF Schedule, PassEnds, ConcurrencyInv, SeenCovers,
                                    ConcurrencyRespected
  <2> QED BY <1>4, <2>1, <2>2 DEF Schedule
<1>5. ASSUME PassFails PROVE ConcurrencyInv'
  BY <1>5, ShrinkingStep DEF PassFails, PassEnds
<1>6. ASSUME Sync PROVE ConcurrencyInv'
  BY <1>6, ShrinkingStep DEF Sync, passVars
<1>7. ASSUME NEW j \in JobId, JobRuns(j) \/ Fail(j) \/ Expire(j)
      PROVE  ConcurrencyInv'
  <2>1. ActiveIds(jobs') \subseteq ActiveIds(jobs)
    BY <1>7 DEF JobRuns, Activate, Complete, Fail, Expire, ActiveIds, IsDone, TypeOK
  <2> QED BY <1>7, <2>1, ShrinkingStep
          DEF JobRuns, Activate, Complete, Fail, Expire, passVars
<1>8. ASSUME NEW t \in TupleType, Consume(t) PROVE ConcurrencyInv'
  BY <1>8, ShrinkingStep DEF Consume, passVars
<1>9. ASSUME UNCHANGED vars PROVE ConcurrencyInv'
  BY <1>9, ShrinkingStep DEF vars, passVars
<1> QED BY <1>1, <1>2, <1>3, <1>4, <1>5, <1>6, <1>7, <1>8, <1>9 DEF Next, Pass

LEMMA ConcurrencyInit ==
  ASSUME Init
  PROVE  ConcurrencyInv
<1>1. ActiveIds(jobs) = {} BY DEF Init, ActiveIds
<1> QED BY <1>1, FS_EmptySet, PolicyAssumption
        DEF Init, ConcurrencyInv, SeenCovers, ConcurrencyRespected

(* However far the informer cache lags behind the API server, the active   *)
(* jobs exceed the concurrency level by no more than the number of active  *)
(* jobs that some pass's list has missed; as long as no list misses one,   *)
(* the level is respected.  The code does not make the cache wait for the  *)
(* jobs it creates, so the excess cannot be ruled out.                     *)
THEOREM ConcurrencyBound == Spec => []ConcurrencyRespected
<1>1. Init => ConcurrencyInv BY ConcurrencyInit
<1>2. TypeOK /\ ConcurrencyInv /\ [Next]_vars => ConcurrencyInv'
  BY ConcurrencyStep
<1>3. ConcurrencyInv => ConcurrencyRespected BY DEF ConcurrencyInv
<1> QED BY <1>1, <1>2, <1>3, SchedulerTypeCorrect, PTL DEF Spec

-----------------------------------------------------------------------------
(* The jobs of a type that are active and whose tuples are still to come. *)
Pending(js, act, t) == {j \in JobsFor(js, t) : j \notin act}

(* A job keeps its type while the cache or a pass remembers it. *)
TypesAgree ==
  \A j \in JobId : jobs[j] # NoJob =>
    /\ cache[j] # NoJob => cache[j].type = jobs[j].type
    /\ seen[j] # NoJob => seen[j].type = jobs[j].type

(* What a pass has read is less than the supply by at most a batch for     *)
(* each job its list has missed: although the jobs were listed before the  *)
(* telemetry was fetched, a job that is activated in between is counted    *)
(* twice rather than not at all.                                           *)
SupplyRead ==
  pc = "schedule" =>
    \A t \in TupleType :
      Supply(t) <= telemetry[t] + InFlight(t) + BatchSize[t] * missed

SupplyInv == TypesAgree /\ SupplyRead /\ NotOverproduced

(* Sets of pending jobs can be counted. *)
LEMMA PendingFinite ==
  ASSUME NEW js, NEW act, NEW t
  PROVE  /\ IsFiniteSet(JobsFor(js, t)) /\ Cardinality(JobsFor(js, t)) \in Nat
         /\ IsFiniteSet(Pending(js, act, t))
         /\ Cardinality(Pending(js, act, t)) \in Nat
         /\ Cardinality(Pending(js, act, t)) <= Cardinality(JobsFor(js, t))
<1>1. JobsFor(js, t) \in SUBSET ActiveIds(js) BY DEF JobsFor
<1>2. Pending(js, act, t) \in SUBSET JobsFor(js, t) BY DEF Pending
<1> QED BY <1>1, <1>2, ActiveIdsFinite, FS_Subset, FS_CardinalityType

(* More jobs are more tuples. *)
LEMMA BatchCount ==
  ASSUME NEW b \in Nat, NEW m \in Nat, NEW n \in Nat
  PROVE  /\ b * m \in Nat
         /\ m <= n => b * m <= b * n
         /\ b * (m + 1) = b * m + b
         /\ n = m - 1 => b * n = b * m - b
<1>1. b * m \in Nat OBVIOUS
<1>2. b * (m + 1) = b * m + b OBVIOUS
<1>3. ASSUME m <= n PROVE b * m <= b * n
  <2>1. n - m \in Nat BY <1>3
  <2>2. b * (n - m) \in Nat BY <2>1
  <2>3. b * (n - m) = b * n - b * m OBVIOUS
  <2>4. b * n \in Nat OBVIOUS
  <2> QED BY <1>1, <2>2, <2>3, <2>4
<1>4. ASSUME n = m - 1 PROVE b * n = b * m - b
  BY <1>4
<1> QED BY <1>1, <1>2, <1>3, <1>4

(* No step adds to the supply of a type, except for a pass that has found  *)
(* the type below its threshold, which adds one batch.                     *)
LEMMA SupplyStep ==
  ASSUME TypeOK, [Next]_vars, NEW t \in TupleType
  PROVE  /\ Supply(t) \in Nat /\ Supply(t)' \in Nat
         /\ \/ Supply(t)' <= Supply(t)
            \/ Schedule /\ t \in belowThreshold /\ Supply(t)' <= Supply(t) + BatchSize[t]
<1> DEFINE P == Pending(jobs, activated, t)
           Q == Pending(jobs', activated', t)
           b == BatchSize[t]
           s == available[t] + b * Cardinality(P)
           u == available'[t] + b * Cardinality(Q)
<1>1. Supply(t) = s /\ Supply(t)' = u BY DEF Supply, Pending
<1>2. TypeOK' BY TypeStep
<1>3. b \in Nat /\ available[t] \in Nat /\ available'[t] \in Nat
  BY <1>2, PolicyAssumption DEF TypeOK
<1>4. /\ IsFiniteSet(P) /\ Cardinality(P) \in Nat
      /\ IsFiniteSet(Q) /\ Cardinality(Q) \in Nat
  BY PendingFinite
<1> HIDE DEF P, Q, b
<1>5. s \in Nat /\ u \in Nat BY <1>3, <1>4, BatchCount
<1>6. ASSUME Q \subseteq P, available'[t] <= available[t] PROVE u <= s
  <2>1. Cardinality(Q) <= Cardinality(P) BY <1>4, <1>6, FS_Subset
  <2>2. b * Cardinality(Q) <= b * Cardinality(P) BY <1>3, <1>4, <2>1, BatchCount
  <2>3. b * Cardinality(Q) \in Nat /\ b * Cardinality(P) \in Nat
    BY <1>3, <1>4, BatchCount
  <2> QED BY <1>3, <1>6, <2>2, <2>3
<1>7. ASSUME cleanupFinishedJobs \/ CleanupFails PROVE u <= s
  <2>1. available' = available
    BY <1>7 DEF cleanupFinishedJobs, CleanupFails
  <2>2. PICK D : Remove(D) BY <1>7 DEF cleanupFinishedJobs, CleanupFails
  <2>3. Q \subseteq P
    BY <2>2 DEF Remove, P, Q, Pending, JobsFor, ActiveIds
  <2> QED BY <1>3, <1>6, <2>1, <2>3
<1>8. ASSUME UNCHANGED <<jobs, activated, available>> PROVE u <= s
  BY <1>3, <1>6, <1>8 DEF P, Q
<1>9. ASSUME Schedule
      PROVE  u <= s \/ (t \in belowThreshold /\ u <= s + b)
  <2>1. available' = available /\ activated' = activated BY <1>9 DEF Schedule
  <2>2. CASE UNCHANGED jobs BY <1>8, <2>1, <2>2
  <2>3. CASE \E y \in Draw(belowThreshold) : createJob(y)
    <3>1. PICK y \in Draw(belowThreshold) : createJob(y) BY <2>3
    <3>2. y \in belowThreshold BY DEF Draw
    <3>3. PICK j \in JobId :
            jobs[j] = NoJob /\ jobs' = [jobs EXCEPT ![j] = [type |-> y, state |-> "Active"]]
      BY <3>1 DEF createJob, Unused
    <3>4. CASE y # t
      <4>1. Q \subseteq P
        BY <2>1, <3>3, <3>4 DEF P, Q, Pending, JobsFor, ActiveIds, TypeOK
      <4> QED BY <1>3, <1>6, <2>1, <4>1
    <3>5. CASE y = t
      <4>1. Q \subseteq P \cup {j}
        BY <2>1, <3>3 DEF P, Q, Pending, JobsFor, ActiveIds, TypeOK
      <4>2. IsFiniteSet(P \cup {j}) /\ Cardinality(P \cup {j}) <= Cardinality(P) + 1
        <5>1. IsFiniteSet(P) /\ Cardinality(P) \in Nat BY <1>4
        <5>2. IsFiniteSet(P \cup {j})
              /\ Cardinality(P \cup {j}) = IF j \in P THEN Cardinality(P) ELSE Cardinality(P) + 1
          BY <5>1, FS_AddElement
        <5> QED BY <5>1, <5>2
      <4>3. Cardinality(Q) <= Cardinality(P \cup {j}) /\ Cardinality(P \cup {j}) \in Nat
        BY <4>1, <4>2, FS_Subset, FS_CardinalityType
      <4>4. Cardinality(Q) <= Cardinality(P) + 1 BY <1>4, <4>2, <4>3
      <4>5. b * Cardinality(Q) <= b * (Cardinality(P) + 1)
        BY <1>3, <1>4, <4>4, BatchCount
      <4>6. b * (Cardinality(P) + 1) = b * Cardinality(P) + b
        BY <1>3, <1>4, BatchCount
      <4>7. b * Cardinality(Q) \in Nat /\ b * Cardinality(P) \in Nat
        BY <1>3, <1>4, BatchCount
      <4>8. u <= s + b BY <1>3, <2>1, <4>5, <4>6, <4>7
      <4> QED BY <3>2, <3>5, <4>8
    <3> QED BY <3>4, <3>5
  <2> QED BY <1>9, <2>2, <2>3 DEF Schedule
<1>10. ASSUME NEW j \in JobId, Activate(j) PROVE u <= s
  <2>1. jobs' = jobs /\ activated' = activated \cup {j} /\ j \notin activated
    BY <1>10 DEF Activate
  <2>2. CASE jobs[j].type # t
    <3>1. available'[t] = available[t] BY <1>10, <2>2 DEF Activate, TypeOK
    <3>2. Q \subseteq P BY <2>1 DEF P, Q, Pending
    <3> QED BY <1>3, <1>6, <3>1, <3>2
  <2>3. CASE jobs[j].type = t
    <3>1. available'[t] = available[t] + b BY <1>10, <2>3 DEF Activate, TypeOK, b
    <3>2. j \in JobsFor(jobs, t)
      BY <1>10, <2>3 DEF Activate, JobsFor, ActiveIds, IsDone
    <3>3. j \in P /\ Q = P \ {j} BY <2>1, <3>2 DEF P, Q, Pending
    <3>4. Cardinality(Q) = Cardinality(P) - 1 BY <1>4, <3>3, FS_RemoveElement
    <3>5. b * Cardinality(Q) = b * Cardinality(P) - b
      BY <1>3, <1>4, <3>4, BatchCount
    <3>6. b * Cardinality(Q) \in Nat /\ b * Cardinality(P) \in Nat
      BY <1>3, <1>4, BatchCount
    <3> QED BY <1>3, <3>1, <3>5, <3>6
  <2> QED BY <2>2, <2>3
<1>11. ASSUME NEW j \in JobId, Complete(j) \/ Fail(j) PROVE u <= s
  <2>1. available' = available /\ activated' = activated
    BY <1>11 DEF Complete, Fail
  <2>2. /\ \A i \in JobId : i # j => jobs'[i] = jobs[i]
        /\ jobs[j] # NoJob /\ jobs[j] \in Job
        /\ \/ jobs'[j] = [jobs[j] EXCEPT !.state = "Completed"]
           \/ jobs'[j] = [jobs[j] EXCEPT !.state = "Failed"]
    BY <1>11 DEF Complete, Fail, TypeOK
  <2>3. IsDone(jobs'[j]) BY <2>2 DEF Job, IsDone
  <2>4. j \notin Q BY <2>3 DEF Q, Pending, JobsFor, ActiveIds
  <2>5. Q \subseteq P
    BY <2>1, <2>2, <2>4 DEF P, Q, Pending, JobsFor, ActiveIds
  <2> QED BY <1>3, <1>6, <2>1, <2>5
<1>12. ASSUME NEW y \in TupleType, Consume(y) PROVE u <= s
  <2>1. available'[t] <= available[t] BY <1>3, <1>12 DEF Consume, TypeOK
  <2>2. Q \subseteq P BY <1>12 DEF Consume, P, Q
  <2> QED BY <1>6, <2>1, <2>2
<1>13. ASSUME ListActiveJobs \/ GetTelemetry \/ PassFails \/ Sync \/ UNCHANGED vars
              \/ \E j \in JobId : Expire(j)
       PROVE  u <= s
  BY <1>8, <1>13 DEF ListActiveJobs, GetTelemetry, PassFails, Sync, Expire, vars
<1>14. u <= s \/ (Schedule /\ t \in belowThreshold /\ u <= s + b)
  BY <1>7, <1>9, <1>10, <1>11, <1>12, <1>13 DEF Next, Pass, JobRuns
<1> HIDE DEF s, u
<1> QED BY <1>1, <1>5, <1>14 DEF b

LEMMA TypesAgreeStep ==
  ASSUME TypeOK, TypesAgree, [Next]_vars
  PROVE  TypesAgree'
<1> USE DEF TypesAgree
<1>1. ASSUME cleanupFinishedJobs \/ CleanupFails PROVE TypesAgree'
  <2>1. UNCHANGED <<cache, seen>>
    BY <1>1 DEF cleanupFinishedJobs, CleanupFails, passVars
  <2>2. PICK D : Remove(D) BY <1>1 DEF cleanupFinishedJobs, CleanupFails
  <2> QED BY <2>1, <2>2 DEF Remove
<1>2. ASSUME ListActiveJobs PROVE TypesAgree'
  BY <1>2 DEF ListActiveJobs, PassEnds
<1>3. ASSUME GetTelemetry PROVE TypesAgree'
  BY <1>3 DEF GetTelemetry
<1>4. ASSUME Schedule PROVE TypesAgree'
  BY <1>4 DEF Schedule, PassEnds, createJob, Unused, TypeOK
<1>5. ASSUME PassFails PROVE TypesAgree'
  BY <1>5 DEF PassFails, PassEnds
<1>6. ASSUME NEW j \in JobId, Activate(j) \/ Expire(j) PROVE TypesAgree'
  BY <1>6 DEF Activate, Expire, passVars
<1>7. ASSUME NEW j \in JobId, Complete(j) \/ Fail(j) PROVE TypesAgree'
  <2>1. UNCHANGED <<cache, seen>> BY <1>7 DEF Complete, Fail, passVars
  <2>2. jobs[j] # NoJob /\ \A i \in JobId : i # j => jobs'[i] = jobs[i]
    BY <1>7 DEF Complete, Fail, TypeOK
  <2>3. jobs'[j].type = jobs[j].type
    BY <1>7, <2>2, JobParts DEF Complete, Fail, TypeOK, Job
  <2> QED BY <2>1, <2>2, <2>3
<1>8. ASSUME Sync PROVE TypesAgree' BY <1>8 DEF Sync, passVars
<1>9. ASSUME NEW t \in TupleType, Consume(t) PROVE TypesAgree'
  BY <1>9 DEF Consume, passVars
<1>10. ASSUME UNCHANGED vars PROVE TypesAgree'
  BY <1>10 DEF vars, passVars
<1> QED BY <1>1, <1>2, <1>3, <1>4, <1>5, <1>6, <1>7, <1>8, <1>9, <1>10
        DEF Next, Pass, JobRuns

(* The history only grows. *)
LEMMA MissedGrows ==
  ASSUME TypeOK, [Next]_vars
  PROVE  /\ missed \in Nat /\ missed' \in Nat /\ missed <= missed'
         /\ ~ListActiveJobs => missed' = missed
<1>1. missed \in Nat BY DEF TypeOK
<1>2. ASSUME ListActiveJobs PROVE missed' \in Nat /\ missed <= missed'
  BY <1>1, <1>2, MaxOfTwo, UnlistedFinite DEF ListActiveJobs, Unlisted
<1>3. ASSUME ~ListActiveJobs PROVE missed' = missed
  BY <1>3 DEF Next, Pass, cleanupFinishedJobs, CleanupFails, GetTelemetry, Schedule,
              PassFails, Sync, JobRuns, Activate, Complete, Fail, Expire, Consume, vars,
              passVars
<1> QED BY <1>1, <1>2, <1>3

LEMMA SupplyReadStep ==
  ASSUME TypeOK, ConcurrencyInv, TypesAgree, SupplyRead, [Next]_vars
  PROVE  SupplyRead'
<1> SUFFICES ASSUME pc' = "schedule", NEW t \in TupleType
             PROVE  Supply(t)' <= telemetry'[t] + InFlight(t)' + BatchSize[t] * missed'
  BY DEF SupplyRead
<1>1. missed \in Nat /\ missed' = missed
  BY MissedGrows DEF ListActiveJobs, PassEnds
<1>2. BatchSize[t] \in Nat /\ available[t] \in Nat /\ telemetry[t] \in Nat
  BY PolicyAssumption DEF TypeOK
<1>3. BatchSize[t] * missed \in Nat BY <1>1, <1>2, BatchCount
<1>4. CASE GetTelemetry
  <2>1. UNCHANGED <<jobs, activated, available, seen>> /\ telemetry' = available
        /\ pc = "telemetry"
    BY <1>4 DEF GetTelemetry
  <2> DEFINE P == Pending(jobs, activated, t)
             J == JobsFor(seen, t)
             U == ActiveIds(jobs) \ ActiveIds(seen)
  <2>2. P \subseteq J \cup U
    BY DEF Pending, JobsFor, ActiveIds, TypesAgree
  <2>3. /\ IsFiniteSet(P) /\ Cardinality(P) \in Nat /\ IsFiniteSet(J) /\ Cardinality(J) \in Nat
        /\ IsFiniteSet(U) /\ Cardinality(U) \in Nat
    BY PendingFinite, UnlistedFinite
  <2>4. Cardinality(U) <= missed
    BY <2>1 DEF ConcurrencyInv, SeenCovers, Unlisted
  <2>5. Supply(t)' = available[t] + BatchSize[t] * Cardinality(P)
    BY <2>1 DEF Supply, Pending, JobsFor, ActiveIds
  <2>6. InFlight(t)' = BatchSize[t] * Cardinality(J) BY <2>1 DEF InFlight
  <2> HIDE DEF P, J, U
  <2>7. Cardinality(P) <= Cardinality(J) + missed
    <3>1. /\ IsFiniteSet(J \cup U)
          /\ Cardinality(J \cup U) = Cardinality(J) + Cardinality(U) - Cardinality(J \cap U)
      BY <2>3, FS_Union
    <3>2. Cardinality(P) <= Cardinality(J \cup U) BY <2>2, <3>1, FS_Subset
    <3>3. IsFiniteSet(J \cap U) /\ Cardinality(J \cap U) \in Nat
      BY <2>3, FS_Intersection, FS_CardinalityType
    <3> QED BY <1>1, <2>3, <2>4, <3>1, <3>2, <3>3
  <2> DEFINE x == BatchSize[t] * Cardinality(P)
             y == BatchSize[t] * Cardinality(J)
             z == BatchSize[t] * missed
  <2>8. x <= BatchSize[t] * (Cardinality(J) + missed) /\ x \in Nat /\ y \in Nat
    BY <1>1, <1>2, <2>3, <2>7, BatchCount
  <2>9. BatchSize[t] * (Cardinality(J) + missed) = y + z
    BY <1>1, <1>2, <2>3
  <2>10. z \in Nat BY <1>3
  <2>11. Supply(t)' = available[t] + x /\ InFlight(t)' = y BY <2>5, <2>6
  <2>12. x <= y + z BY <2>8, <2>9
  <2>13. BatchSize[t] * missed' = z BY <1>1
  <2> HIDE DEF x, y, z
  <2>14. available[t] + x <= available[t] + y + z BY <1>2, <2>8, <2>10, <2>12
  <2> QED BY <2>1, <2>11, <2>13, <2>14
<1>5. CASE ~GetTelemetry
  <2>1. pc = "schedule" /\ UNCHANGED <<seen, telemetry>> /\ ~Schedule
    BY <1>5 DEF Next, Pass, cleanupFinishedJobs, CleanupFails, PassStarts, ListActiveJobs,
                Schedule, PassEnds, PassFails, Sync, JobRuns, Activate, Complete, Fail,
                Expire, Consume, vars, passVars
  <2>2. Supply(t)' <= Supply(t) /\ Supply(t) \in Nat /\ Supply(t)' \in Nat
    BY <2>1, SupplyStep
  <2>3. Supply(t) <= telemetry[t] + InFlight(t) + BatchSize[t] * missed
    BY <2>1 DEF SupplyRead
  <2>4. InFlight(t)' = InFlight(t) BY <2>1 DEF InFlight
  <2>5. InFlight(t) \in Nat
    BY PolicyAssumption, PendingFinite, BatchCount DEF InFlight
  <2> QED BY <1>1, <1>2, <1>3, <2>1, <2>2, <2>3, <2>4, <2>5
<1> QED BY <1>4, <1>5

LEMMA OverproductionStep ==
  ASSUME TypeOK, SupplyRead, NotOverproduced, [Next]_vars
  PROVE  NotOverproduced'
<1> SUFFICES ASSUME NEW t \in TupleType
             PROVE  Supply(t)' < Threshold[t] + BatchSize[t] * (1 + missed')
  BY DEF NotOverproduced
<1> DEFINE b == BatchSize[t]
           z == b * missed
           w == b * missed'
<1>1. b \in Nat /\ Threshold[t] \in Nat BY PolicyAssumption
<1>2. Supply(t) \in Nat /\ Supply(t)' \in Nat BY SupplyStep
<1>3. missed \in Nat /\ missed' \in Nat /\ missed <= missed' BY MissedGrows
<1> HIDE DEF b
<1>4. z \in Nat /\ w \in Nat /\ z <= w BY <1>1, <1>3, BatchCount
<1>5. b * (1 + missed) = b + z /\ b * (1 + missed') = b + w BY <1>1, <1>3
<1> HIDE DEF z, w
<1>6. CASE Supply(t)' <= Supply(t)
  <2>1. Supply(t) < Threshold[t] + b * (1 + missed) BY DEF NotOverproduced, b
  <2>2. Supply(t)' < Threshold[t] + (b + w) BY <1>1, <1>2, <1>4, <1>5, <1>6, <2>1
  <2> QED BY <1>5, <2>2 DEF b
<1>7. CASE Schedule /\ t \in belowThreshold /\ Supply(t)' <= Supply(t) + BatchSize[t]
  <2>1. telemetry[t] + InFlight(t) < Threshold[t] BY <1>7 DEF belowThreshold
  <2>2. Supply(t) <= telemetry[t] + InFlight(t) + z
    BY <1>7 DEF Schedule, SupplyRead, b, z
  <2>3. InFlight(t) \in Nat /\ telemetry[t] \in Nat
    BY PolicyAssumption, PendingFinite, BatchCount DEF InFlight, TypeOK
  <2>4. Supply(t)' <= Supply(t) + b BY <1>7 DEF b
  <2>5. Supply(t)' < Threshold[t] + (b + w)
    BY <1>1, <1>2, <1>4, <2>1, <2>2, <2>3, <2>4
  <2> QED BY <1>5, <2>5 DEF b
<1> QED BY <1>6, <1>7, SupplyStep

(* However far the informer cache lags behind, the tuples of a type that   *)
(* are available or still to come exceed its threshold by less than a      *)
(* batch and one more for each active job that some pass's list has        *)
(* missed, for any number of types, jobs and batch sizes.  Nothing else    *)
(* adds to the excess: a pass reads the jobs first and the telemetry       *)
(* second, so that a job that completes in between is not missed.          *)
THEOREM SupplyBound == Spec => []NotOverproduced
<1>1. Init => ConcurrencyInv BY ConcurrencyInit
<1>2. Init => SupplyInv
  <2> SUFFICES ASSUME Init PROVE SupplyInv OBVIOUS
  <2>1. TypesAgree /\ SupplyRead BY DEF Init, TypesAgree, SupplyRead
  <2>2. ASSUME NEW t \in TupleType
        PROVE  Supply(t) < Threshold[t] + BatchSize[t] * (1 + missed)
    <3>1. {j \in JobsFor(jobs, t) : j \notin activated} = {}
      BY DEF Init, JobsFor, ActiveIds
    <3>2. BatchSize[t] \in Nat /\ Threshold[t] \in Nat \ {0} BY PolicyAssumption
    <3>3. BatchSize[t] * 0 = 0 /\ BatchSize[t] * (1 + 0) = BatchSize[t] BY <3>2
    <3>4. available[t] = 0 /\ missed = 0 BY DEF Init, NoTelemetry
    <3>5. Supply(t) = 0 BY <3>1, <3>3, <3>4, FS_EmptySet DEF Supply
    <3> QED BY <3>2, <3>3, <3>4, <3>5
  <2> QED BY <2>1, <2>2 DEF SupplyInv, NotOverproduced
<1>3. TypeOK /\ ConcurrencyInv /\ [Next]_vars => ConcurrencyInv'
  BY ConcurrencyStep
<1>4. TypeOK /\ ConcurrencyInv /\ SupplyInv /\ [Next]_vars => SupplyInv'
  BY TypesAgreeStep, SupplyReadStep, OverproductionStep DEF SupplyInv
<1>5. SupplyInv => NotOverproduced BY DEF SupplyInv
<1> QED BY <1>1, <1>2, <1>3, <1>4, <1>5, SchedulerTypeCorrect, PTL DEF Spec

----------------------------------------------------------------------------
(* A set of numbers, or of sets of tuple types, has a smallest member:    *)
(* induction over sums and orders is done with it.                         *)
LEMMA LeastNat ==
  ASSUME NEW T, T \subseteq Nat, T # {}
  PROVE  \E x \in T : \A y \in T : x <= y
<1> DEFINE R == OpToRel(<, Nat)
<1>1. IsWellFoundedOn(R, Nat) BY NatLessThanWellFounded, Zenon
<1>2. \A x, y \in Nat : <<x, y>> \in R <=> x < y BY DEF OpToRel
<1> HIDE DEF R
<1>3. PICK x \in T : \A y \in T : ~ (<<y, x>> \in R) BY <1>1, WFMin
<1>4. \A y \in T : ~ (y < x) BY <1>2, <1>3
<1>5. \A y \in T : x <= y BY <1>4
<1> QED BY <1>5

LEMMA SmallestSet ==
  ASSUME NEW T, T \subseteq SUBSET TupleType, T # {}
  PROVE  \E s \in T : \A r \in SUBSET s : r # s => r \notin T
<1> DEFINE R == StrictSubsetOrdering(TupleType)
           F == FiniteSubsetsOf(TupleType)
<1>1. IsWellFoundedOn(R, F) BY FS_StrictSubsetOrderingWellFounded
<1>2. T \subseteq F
  <2>1. ASSUME NEW s \in SUBSET TupleType PROVE IsFiniteSet(s) BY FiniteAssumption, FS_Subset
  <2> QED BY <2>1 DEF FiniteSubsetsOf
<1>3. \A r, s \in SUBSET TupleType : r \subseteq s /\ r # s => <<r, s>> \in R
  BY DEF StrictSubsetOrdering
<1> HIDE DEF R, F
<1>4. PICK s \in T : \A r \in T : ~ (<<r, s>> \in R) BY <1>1, <1>2, WFMin
<1>5. \A r \in SUBSET s : r # s => r \notin T BY <1>3, <1>4
<1> QED BY <1>5

(* The sum of the priorities of a set of types, as MapThenSumSet defines   *)
(* it: by recursion over the subsets of the set, taking one element after  *)
(* the other in some order.                                                *)
First(s) == CHOOSE x \in s : TRUE
Sums(f, S) ==
  f = [s \in SUBSET S |-> IF s = {} THEN 0 ELSE Priority[First(s)] + f[s \ {First(s)}]]
SumOf(S) == CHOOSE f : Sums(f, S)

LEMMA SumDefined == ASSUME NEW S PROVE weightSum(S) = SumOf(S)[S]
BY DEF weightSum, MapThenSumSet, MapThenFoldSet, SumOf, Sums, First

(* There is such a function, and it does not depend on the set one starts  *)
(* with.                                                                   *)
LEMMA SumsAgree ==
  ASSUME NEW S \in SUBSET TupleType, NEW T \in SUBSET S, NEW f, NEW g, Sums(f, S), Sums(g, T)
  PROVE  \A s \in SUBSET T : f[s] = g[s]
<1> DEFINE Bad == {s \in SUBSET T : f[s] # g[s]}
<1> SUFFICES ASSUME Bad # {} PROVE FALSE OBVIOUS
<1>1. PICK s \in Bad : \A r \in SUBSET s : r # s => r \notin Bad BY SmallestSet
<1>2. s = {} => f[s] = 0 /\ g[s] = 0 BY <1>1 DEF Sums
<1>3. s # {} => First(s) \in s BY DEF First
<1>4. s # {} => /\ f[s] = Priority[First(s)] + f[s \ {First(s)}]
                /\ g[s] = Priority[First(s)] + g[s \ {First(s)}]
  BY <1>1 DEF Sums
<1>5. s # {} => s \ {First(s)} \in SUBSET s /\ s \ {First(s)} # s BY <1>3
<1>6. s # {} => f[s \ {First(s)}] = g[s \ {First(s)}] BY <1>1, <1>5
<1> QED BY <1>1, <1>2, <1>4, <1>6

LEMMA SumExists ==
  ASSUME NEW S \in SUBSET TupleType
  PROVE  Sums(SumOf(S), S)
<1> DEFINE Bad == {s \in SUBSET TupleType : ~ \E f : Sums(f, s)}
<1>1. ASSUME NEW s \in SUBSET TupleType, \A r \in SUBSET s : r # s => r \notin Bad
      PROVE  s \notin Bad
  <2> DEFINE g == [r \in SUBSET s |->
                     IF r = {} THEN 0 ELSE Priority[First(r)] + weightSum(r \ {First(r)})]
  <2>1. ASSUME NEW r \in SUBSET s, r # s PROVE Sums(SumOf(r), r) /\ weightSum(r) = SumOf(r)[r]
    <3>1. \E f : Sums(f, r) BY <1>1, <2>1
    <3> QED BY <3>1, SumDefined DEF SumOf
  <2>2. ASSUME NEW r \in SUBSET s, r # {} PROVE First(r) \in r /\ r \ {First(r)} \in SUBSET r
                                                /\ r \ {First(r)} # s
    BY <2>2 DEF First
  <2>3. ASSUME NEW r \in SUBSET s, r # s PROVE g[r] = weightSum(r)
    <3>1. CASE r = {}
      <4>1. SumOf(r)[r] = 0 BY <2>1, <2>3, <3>1 DEF Sums
      <4> QED BY <2>1, <2>3, <3>1, <4>1
    <3>2. CASE r # {}
      <4> DEFINE q == r \ {First(r)}
      <4>1. q \in SUBSET r /\ q \in SUBSET s /\ q # s BY <2>2, <3>2
      <4>2. g[r] = Priority[First(r)] + weightSum(q) BY <3>2
      <4>3. SumOf(r)[r] = Priority[First(r)] + SumOf(r)[q] BY <2>1, <2>3, <3>2 DEF Sums
      <4>4. Sums(SumOf(r), r) /\ Sums(SumOf(q), q) BY <2>1, <2>3, <4>1
      <4>5. SumOf(r)[q] = SumOf(q)[q] BY <4>1, <4>4, SumsAgree
      <4> QED BY <2>1, <2>3, <4>1, <4>2, <4>3, <4>5
    <3> QED BY <3>1, <3>2
  <2>4. ASSUME NEW r \in SUBSET s
        PROVE  g[r] = IF r = {} THEN 0 ELSE Priority[First(r)] + g[r \ {First(r)}]
    BY <2>2, <2>3
  <2>5. Sums(g, s)
    <3> DEFINE h == [r \in SUBSET s |-> IF r = {} THEN 0 ELSE Priority[First(r)] + g[r \ {First(r)}]]
    <3>1. \A r \in SUBSET s : g[r] = h[r] BY <2>4
    <3>2. g = h BY <3>1
    <3> QED BY <3>2 DEF Sums
  <2> QED BY <2>5
<1>2. Bad = {}
  <2> SUFFICES ASSUME Bad # {} PROVE FALSE OBVIOUS
  <2> QED BY <1>1, SmallestSet
<1> QED BY <1>2 DEF SumOf

(* The sum is a number, and any element may be taken first. *)
LEMMA SumEmpty == weightSum({}) = 0
<1>1. {} \in SUBSET TupleType OBVIOUS
<1>2. Sums(SumOf({}), {}) BY <1>1, SumExists
<1>3. SumOf({})[{}] = 0 BY <1>2 DEF Sums
<1> QED BY <1>3, SumDefined

LEMMA SumFirst ==
  ASSUME NEW S \in SUBSET TupleType, S # {}
  PROVE  First(S) \in S /\ weightSum(S) = Priority[First(S)] + weightSum(S \ {First(S)})
<1> DEFINE T == S \ {First(S)}
<1>1. First(S) \in S BY DEF First
<1>2. T \in SUBSET S /\ T \in SUBSET TupleType OBVIOUS
<1>3. Sums(SumOf(S), S) /\ Sums(SumOf(T), T) BY <1>2, SumExists
<1>4. SumOf(S)[S] = Priority[First(S)] + SumOf(S)[T] BY <1>3 DEF Sums
<1> HIDE DEF T
<1>5. SumOf(S)[T] = SumOf(T)[T] BY <1>2, <1>3, SumsAgree
<1>6. weightSum(S) = SumOf(S)[S] /\ weightSum(T) = SumOf(T)[T] BY SumDefined
<1> QED BY <1>1, <1>4, <1>5, <1>6 DEF T

LEMMA SumNat ==
  ASSUME NEW S \in SUBSET TupleType
  PROVE  weightSum(S) \in Nat
<1> DEFINE Bad == {s \in SUBSET TupleType : weightSum(s) \notin Nat}
<1>1. ASSUME NEW s \in SUBSET TupleType, \A r \in SUBSET s : r # s => r \notin Bad
      PROVE  s \notin Bad
  <2>1. CASE s = {} BY <2>1, SumEmpty
  <2>2. CASE s # {}
    <3> DEFINE r == s \ {First(s)}
    <3>1. First(s) \in s /\ weightSum(s) = Priority[First(s)] + weightSum(r) BY <2>2, SumFirst
    <3>2. r \in SUBSET s /\ r # s /\ r \in SUBSET TupleType BY <3>1
    <3> HIDE DEF r
    <3>3. weightSum(r) \in Nat BY <1>1, <3>2
    <3>4. Priority[First(s)] \in Nat BY <3>1, PolicyAssumption
    <3> QED BY <3>1, <3>3, <3>4
  <2> QED BY <2>1, <2>2
<1>2. Bad = {}
  <2> SUFFICES ASSUME Bad # {} PROVE FALSE OBVIOUS
  <2> QED BY <1>1, SmallestSet
<1> QED BY <1>2

LEMMA SumRemove ==
  ASSUME NEW S \in SUBSET TupleType, NEW t \in S
  PROVE  weightSum(S) = Priority[t] + weightSum(S \ {t})
<1> DEFINE Good(s) == \A u \in s : weightSum(s) = Priority[u] + weightSum(s \ {u})
           Bad == {s \in SUBSET TupleType : ~ Good(s)}
<1>1. ASSUME NEW s \in SUBSET TupleType, \A r \in SUBSET s : r # s => r \notin Bad,
             NEW u \in s
      PROVE  weightSum(s) = Priority[u] + weightSum(s \ {u})
  <2> DEFINE x == First(s)
             a == s \ {x}
             b == s \ {u}
             c == a \ {u}
  <2>1. x \in s /\ weightSum(s) = Priority[x] + weightSum(a) BY SumFirst
  <2>2. CASE u = x BY <2>1, <2>2
  <2>3. CASE u # x
    <3>1. a \in SUBSET s /\ a # s /\ u \in a BY <2>1, <2>3
    <3>2. b \in SUBSET s /\ b # s /\ x \in b /\ b \ {x} = c BY <2>1, <2>3
    <3>3. Good(a) /\ Good(b) BY <1>1, <3>1, <3>2
    <3>4. weightSum(a) = Priority[u] + weightSum(c) BY <3>1, <3>3
    <3>5. weightSum(b) = Priority[x] + weightSum(c) BY <3>2, <3>3
    <3>6. c \in SUBSET TupleType OBVIOUS
    <3> HIDE DEF x, a, b, c
    <3>7. weightSum(c) \in Nat BY <3>6, SumNat
    <3>8. Priority[x] \in Nat /\ Priority[u] \in Nat BY <2>1, PolicyAssumption
    <3>9. weightSum(s) = Priority[u] + weightSum(b) BY <2>1, <3>4, <3>5, <3>7, <3>8
    <3> QED BY <3>9 DEF b
  <2> QED BY <2>2, <2>3
<1>2. Bad = {}
  <2> SUFFICES ASSUME Bad # {} PROVE FALSE OBVIOUS
  <2>1. PICK s \in Bad : \A r \in SUBSET s : r # s => r \notin Bad BY SmallestSet
  <2>2. Good(s) BY <1>1, <2>1
  <2> QED BY <2>1, <2>2
<1> QED BY <1>2

(* The types visited first, and the tickets they have together. *)
Prefix(o, i) == {o[k] : k \in 1 .. i}

LEMMA OrderFacts ==
  ASSUME NEW S \in SUBSET TupleType, NEW o \in Orders(S), NEW n, n = Cardinality(S)
  PROVE  /\ n \in Nat /\ DOMAIN o = 1 .. n /\ Prefix(o, 0) = {} /\ Prefix(o, n) = S
         /\ \A i \in 1 .. n : o[i] \in S
         /\ \A t \in S : \E i \in 1 .. n : o[i] = t
         /\ \A i, k \in 1 .. n : o[i] = o[k] => i = k
<1>1. IsFiniteSet(S) BY FiniteAssumption, FS_Subset
<1>2. n \in Nat BY <1>1, FS_CardinalityType
<1>3. o \in [1 .. n -> S] /\ \A t \in S : \E i \in 1 .. n : o[i] = t BY DEF Orders
<1>4. o \in Surjection(1 .. n, S) BY <1>3 DEF Surjection
<1>5. IsFiniteSet(1 .. n) /\ Cardinality(1 .. n) = n
  <2>1. 1 \in Int /\ n \in Int BY <1>2
  <2>2. IsFiniteSet(1 .. n) /\ Cardinality(1 .. n) = IF 1 > n THEN 0 ELSE n - 1 + 1
    BY <2>1, FS_Interval
  <2> QED BY <1>2, <2>2
<1>6. o \in Injection(1 .. n, S) BY <1>4, <1>5, FS_SurjSameCardinalityImpliesInj
<1>7. \A i, k \in 1 .. n : o[i] = o[k] => i = k BY <1>6 DEF Injection, IsInjective
<1>8. Prefix(o, n) = S BY <1>3 DEF Prefix
<1>9. Prefix(o, 0) = {} BY DEF Prefix
<1> QED BY <1>2, <1>3, <1>7, <1>8, <1>9

Tickets(o, i) == weightSum(Prefix(o, i))

LEMMA TicketsFacts ==
  ASSUME NEW S \in SUBSET TupleType, NEW o \in Orders(S), NEW n, n = Cardinality(S)
  PROVE  /\ Tickets(o, 0) = 0 /\ Tickets(o, n) = weightSum(S)
         /\ \A i \in 0 .. n : Tickets(o, i) \in Nat
         /\ \A i \in 1 .. n : Tickets(o, i) = Tickets(o, i - 1) + Priority[o[i]]
<1>1. /\ n \in Nat /\ DOMAIN o = 1 .. n /\ Prefix(o, 0) = {} /\ Prefix(o, n) = S
      /\ \A i \in 1 .. n : o[i] \in S
      /\ \A i, k \in 1 .. n : o[i] = o[k] => i = k
  BY OrderFacts
<1>2. ASSUME NEW i \in 0 .. n PROVE Prefix(o, i) \in SUBSET TupleType /\ Tickets(o, i) \in Nat
  <2>1. \A k \in 1 .. i : k \in 1 .. n BY <1>1
  <2>2. Prefix(o, i) \in SUBSET TupleType BY <1>1, <2>1 DEF Prefix
  <2> QED BY <2>2, SumNat DEF Tickets
<1>3. ASSUME NEW i \in 1 .. n PROVE Tickets(o, i) = Tickets(o, i - 1) + Priority[o[i]]
  <2>1. i - 1 \in 0 .. n /\ i \in 0 .. n BY <1>1
  <2>2. o[i] \in Prefix(o, i) BY DEF Prefix
  <2>3. Prefix(o, i) \ {o[i]} = Prefix(o, i - 1)
    <3>1. \A k \in 1 .. i : k \in 1 .. n /\ (k = i \/ k \in 1 .. i - 1) BY <1>1
    <3>2. \A k \in 1 .. i - 1 : k \in 1 .. i /\ k # i BY <1>1
    <3> QED BY <1>1, <3>1, <3>2 DEF Prefix
  <2>4. Prefix(o, i) \in SUBSET TupleType BY <1>2, <2>1
  <2>5. Tickets(o, i) = Priority[o[i]] + Tickets(o, i - 1) BY <2>2, <2>3, <2>4, SumRemove DEF Tickets
  <2>6. Tickets(o, i - 1) \in Nat /\ Priority[o[i]] \in Nat BY <1>1, <1>2, <2>1, PolicyAssumption
  <2> QED BY <2>5, <2>6
<1>4. Tickets(o, 0) = 0 BY <1>1, SumEmpty DEF Tickets
<1>5. Tickets(o, n) = weightSum(S) BY <1>1 DEF Tickets
<1> QED BY <1>2, <1>3, <1>4, <1>5

(* The more types, the more tickets. *)
LEMMA TicketsGrow ==
  ASSUME NEW S \in SUBSET TupleType, NEW o \in Orders(S), NEW n, n = Cardinality(S),
         NEW i \in 0 .. n, NEW k \in i .. n
  PROVE  Tickets(o, i) <= Tickets(o, k)
<1> DEFINE Bad == {m \in i .. n : ~ (Tickets(o, i) <= Tickets(o, m))}
<1>0. n \in Nat BY OrderFacts
<1>1. /\ \A m \in 0 .. n : Tickets(o, m) \in Nat
      /\ \A m \in 1 .. n : Tickets(o, m) = Tickets(o, m - 1) + Priority[o[m]]
  BY TicketsFacts
<1>2. \A m \in 1 .. n : Priority[o[m]] \in Nat BY OrderFacts, PolicyAssumption
<1> SUFFICES ASSUME Bad # {} PROVE FALSE OBVIOUS
<1>3. Bad \subseteq Nat BY <1>0
<1>4. PICK m \in Bad : \A l \in Bad : m <= l BY <1>3, LeastNat
<1>5. m # i BY <1>1, <1>4
<1>6. m \in 1 .. n /\ m - 1 \in i .. n /\ m - 1 \in 0 .. n BY <1>0, <1>4, <1>5
<1>7. Tickets(o, i) <= Tickets(o, m - 1) BY <1>4, <1>6
<1>8. Tickets(o, i) \in Nat /\ Tickets(o, m - 1) \in Nat /\ Priority[o[m]] \in Nat
      /\ Tickets(o, m) = Tickets(o, m - 1) + Priority[o[m]]
  BY <1>1, <1>2, <1>6
<1>9. Tickets(o, i) <= Tickets(o, m) BY <1>7, <1>8
<1> QED BY <1>4, <1>9

(* The winner is the type that the ticket falls to. *)
LEMMA WinnerFacts ==
  ASSUME NEW S \in SUBSET TupleType, NEW o \in Orders(S), NEW n, n = Cardinality(S),
         NEW r \in 0 .. weightSum(S) - 1, NEW i \in 1 .. n
  PROVE  Winner(o, r) = o[i] <=> Tickets(o, i - 1) <= r /\ r < Tickets(o, i)
<1>1. /\ n \in Nat /\ DOMAIN o = 1 .. n
      /\ \A j, k \in 1 .. n : o[j] = o[k] => j = k
  BY OrderFacts
<1>2. /\ Tickets(o, 0) = 0 /\ Tickets(o, n) = weightSum(S)
      /\ \A m \in 0 .. n : Tickets(o, m) \in Nat
  BY TicketsFacts
<1>3. \A m : Wins(o, r, m) <=> r < Tickets(o, m) BY DEF Wins, Tickets, Prefix
<1> DEFINE Decides(m) == Wins(o, r, m) /\ \A k \in 1 .. m - 1 : ~ Wins(o, r, k)
           won == {m \in 1 .. n : Wins(o, r, m)}
           j == CHOOSE m \in DOMAIN o : Decides(m)
<1>4. weightSum(S) \in Nat /\ r \in Nat /\ r < weightSum(S)
  <2>1. weightSum(S) \in Nat BY SumNat
  <2> QED BY <2>1
<1>5. \E m \in 1 .. n : Decides(m)
  <2>1. n \in won BY <1>1, <1>2, <1>3, <1>4
  <2>2. PICK m \in won : \A l \in won : m <= l
    <3>1. won \subseteq Nat OBVIOUS
    <3> QED BY <2>1, <3>1, LeastNat
  <2>3. \A k \in 1 .. m - 1 : k \in 1 .. n /\ ~ (m <= k) BY <1>1
  <2>4. Decides(m) BY <2>2, <2>3
  <2> QED BY <2>4
<1>6. j \in 1 .. n /\ Decides(j) /\ Winner(o, r) = o[j] BY <1>1, <1>5 DEF Winner
<1> HIDE DEF j
<1>7. Tickets(o, j - 1) <= r /\ r < Tickets(o, j)
  <2>1. r < Tickets(o, j) BY <1>3, <1>6
  <2>2. CASE j = 1 BY <1>2, <1>4, <2>1, <2>2
  <2>3. CASE j # 1
    <3>1. j - 1 \in 1 .. j - 1 /\ j - 1 \in 0 .. n BY <1>1, <1>6, <2>3
    <3>2. ~ (r < Tickets(o, j - 1)) BY <1>3, <1>6, <3>1
    <3>3. Tickets(o, j - 1) \in Nat BY <1>2, <3>1
    <3> QED BY <1>4, <2>1, <3>2, <3>3
  <2> QED BY <2>2, <2>3
<1>8. ASSUME Winner(o, r) = o[i] PROVE i = j BY <1>1, <1>6, <1>8
<1>9. ASSUME Tickets(o, i - 1) <= r, r < Tickets(o, i) PROVE i = j
  <2>1. CASE j < i
    <3>1. j \in 0 .. n /\ i - 1 \in j .. n /\ i - 1 \in 0 .. n BY <1>1, <1>6, <2>1
    <3>2. Tickets(o, j) <= Tickets(o, i - 1) BY <3>1, TicketsGrow
    <3>3. Tickets(o, j) \in Nat /\ Tickets(o, i - 1) \in Nat BY <1>2, <3>1
    <3> QED BY <1>4, <1>7, <1>9, <3>2, <3>3
  <2>2. CASE i < j
    <3>1. i \in 1 .. j - 1 BY <1>1, <1>6, <2>2
    <3> QED BY <1>3, <1>6, <1>9, <3>1
  <2> QED BY <1>1, <1>6, <2>1, <2>2
<1> QED BY <1>6, <1>7, <1>8, <1>9

LEMMA TicketsMatch ==
  ASSUME NEW S \in SUBSET TupleType, NEW o \in Orders(S), NEW t \in S
  PROVE  Cardinality({r \in 0 .. weightSum(S) - 1 : Winner(o, r) = t}) = Priority[t]
<1> DEFINE n == Cardinality(S)
<1>1. PICK i \in 1 .. n : o[i] = t BY OrderFacts
<1>2. n \in Nat BY OrderFacts
<1> HIDE DEF n
<1> DEFINE a == Tickets(o, i - 1)
           b == Tickets(o, i)
           won == {r \in 0 .. weightSum(S) - 1 : Winner(o, r) = t}
<1>3. i \in 0 .. n /\ i - 1 \in 0 .. n /\ n \in i .. n BY <1>2
<1>4. a \in Nat /\ b \in Nat /\ b = a + Priority[t] BY <1>1, <1>3, TicketsFacts DEF n
<1>5. Priority[t] \in Nat \ {0} BY PolicyAssumption
<1>6. b <= weightSum(S) BY <1>3, TicketsFacts, TicketsGrow DEF n
<1>7. weightSum(S) \in Nat BY SumNat
<1>8. ASSUME NEW r \in 0 .. weightSum(S) - 1 PROVE Winner(o, r) = t <=> a <= r /\ r < b
  BY <1>1, WinnerFacts DEF n
<1> HIDE DEF a, b
<1>9. won = a .. b - 1
  <2>1. ASSUME NEW r \in won PROVE r \in a .. b - 1
    <3>1. r \in 0 .. weightSum(S) - 1 /\ Winner(o, r) = t OBVIOUS
    <3>2. a <= r /\ r < b BY <1>8, <3>1
    <3> QED BY <1>4, <1>7, <3>1, <3>2
  <2>2. ASSUME NEW r \in a .. b - 1 PROVE r \in won
    <3>1. r \in 0 .. weightSum(S) - 1 /\ a <= r /\ r < b BY <1>4, <1>6, <1>7
    <3> QED BY <1>8, <3>1
  <2> QED BY <2>1, <2>2
<1>10. b - 1 \in Int /\ a \in Int BY <1>4
<1>11. Cardinality(a .. b - 1) = IF a > b - 1 THEN 0 ELSE b - 1 - a + 1 BY <1>10, FS_Interval
<1>12. Cardinality(a .. b - 1) = Priority[t]
  <2>1. a <= b - 1 /\ b - 1 - a + 1 = Priority[t] BY <1>4, <1>5
  <2>2. ~ (a > b - 1) BY <1>4, <2>1
  <2> QED BY <1>11, <2>1, <2>2
<1> HIDE DEF won
<1>13. Cardinality(won) = Priority[t] BY <1>9, <1>12
<1> QED BY <1>13 DEF won

(* The lottery is fair (Schedule of the lottery strategy): whatever the    *)
(* policies and the telemetry are, and in whatever order the map iteration *)
(* visits the eligible types, each type wins with exactly as many of the   *)
(* tickets 0 .. weightSum - 1 as its priority says; no ticket is lost at   *)
(* the border between two types.                                           *)
THEOREM LotteryIsFair == Spec => []TicketsMatchPriorities
<1>1. belowThreshold \in SUBSET TupleType
  BY PolicyAssumption DEF belowThreshold, ServiceablePolicies
<1>2. TicketsMatchPriorities BY <1>1, TicketsMatch DEF TicketsMatchPriorities
<1> QED BY <1>2, PTL

=============================================================================
