----------------------------- MODULE Scheduler -----------------------------
(***************************************************************************)
(* TupleGenerationSchedulerReconciler.Reconcile with the lottery strategy, *)
(* the jobs of its cluster and the cluster's Castor.  There is one         *)
(* scheduler, and it is the only creator of jobs.  What the job controller *)
(* does to a job (modules JobController to Klyshko) is reduced to what the *)
(* scheduler can see: the tuple chunk is activated, then the status is     *)
(* updated, or the job fails.                                              *)
(*                                                                         *)
(* Jobs are listed from the informer cache, which may lag behind the API   *)
(* server by any number of changes.  A pass is split at its reads and      *)
(* writes.  It can start at any time: every pass ends with a request to    *)
(* run again, after an interval or an error.  Definitions with a suffix    *)
(* (Op_Variant) are faulty variants; no action uses them.                  *)
(***************************************************************************)
EXTENDS Naturals, FiniteSets, FiniteSetsExt

CONSTANTS
  TupleType,       \* tuple types, as reported by Castor
  Generator,       \* tuple generator resources
  Supports,        \* Supports[g]: tuple types that generator g supports
  Policy,          \* tuple types the scheduler resource has a policy for
  Threshold,       \* Threshold[t]: below it, tuples of type t are generated
  Priority,        \* Priority[t]: number of lottery tickets of type t
  BatchSize,       \* BatchSize[t]: number of tuples a job for t generates
  Concurrency,     \* maximum number of active jobs
  JobId,           \* bound: identifiers of jobs that exist at a time
  MaxSetbacks      \* bound: failing calls, failing jobs and tuples consumed

(* The validation rules of the resource definitions. *)
ASSUME PolicyAssumption ==
  /\ Policy \subseteq TupleType
  /\ Supports \in [Generator -> SUBSET TupleType]
  /\ Threshold \in [TupleType -> Nat \ {0}]
  /\ Priority \in [TupleType -> Nat \ {0}]
  /\ BatchSize \in [TupleType -> Nat \ {0}]
  /\ Concurrency \in Nat
ASSUME FiniteAssumption ==
  IsFiniteSet(JobId) /\ IsFiniteSet(TupleType) /\ IsFiniteSet(Generator)
ASSUME BoundAssumption == MaxSetbacks \in Nat

VARIABLES
  jobs,       \* jobs[j]: the job resources of the API server
  cache,      \* cache[j]: the job resources in the informer cache
  activated,  \* the jobs whose tuple chunk has been activated
  expired,    \* the finished jobs that are beyond their TTL
  available,  \* available[t]: tuples available in Castor
  pc,         \* the pass in progress
  seen,       \* the active jobs as listed by the pass
  telemetry,  \* available tuples as read by the pass
  missed,     \* history: the most active jobs that a pass's list has missed
  setbacks    \* the setbacks so far

passVars == <<pc, seen, telemetry, missed>>
vars == <<jobs, cache, activated, expired, available, passVars, setbacks>>

(* A job with the empty state or any other one that is not final is Active. *)
JobState == {"Active", "Completed", "Failed"}
NoJob == [type |-> "none", state |-> "Absent"]
Job == [type : TupleType, state : JobState] \cup {NoJob}
NoTelemetry == [t \in TupleType |-> 0]

IsDone_CompletedOnly(j) == j.state = "Completed"
IsDone(j) == j.state \in {"Completed", "Failed"}
ActiveIds(js) == {j \in JobId : js[j] # NoJob /\ ~IsDone(js[j])}

Init ==
  /\ jobs = [j \in JobId |-> NoJob] /\ cache = jobs
  /\ activated = {} /\ expired = {}
  /\ available = NoTelemetry
  /\ pc = "idle" /\ seen = jobs /\ telemetry = NoTelemetry /\ missed = 0
  /\ setbacks = 0

Setback == setbacks < MaxSetbacks /\ setbacks' = setbacks + 1

PassEnds ==
  pc' = "idle" /\ seen' = [j \in JobId |-> NoJob] /\ telemetry' = NoTelemetry

(* cleanupFinishedJobs: delete the jobs that are done and beyond their     *)
(* TTL.  A job that is gone already is an error like any other: the pass   *)
(* ends with some of the jobs deleted, since their order is random.        *)
Remove(D) ==
  /\ jobs' = [j \in JobId |-> IF j \in D THEN NoJob ELSE jobs[j]]
  /\ activated' = activated \ D /\ expired' = expired \ D
FinishedIds == {j \in JobId : cache[j] # NoJob /\ IsDone(cache[j])}
Overdue == {j \in FinishedIds : j \in expired \/ jobs[j] = NoJob}
Gone == {j \in Overdue : jobs[j] = NoJob}
IdAvailable == \E j \in JobId : jobs[j] = NoJob \/ j \in Overdue  \* bound
PassStarts == pc = "idle" /\ IdAvailable
cleanupFinishedJobs ==
  /\ PassStarts /\ Gone = {}
  /\ Remove(Overdue)
  /\ pc' = "list"
  /\ UNCHANGED <<cache, available, seen, telemetry, missed, setbacks>>
CleanupFails ==
  /\ PassStarts
  /\ \/ Gone # {} /\ UNCHANGED setbacks
     \/ Overdue # {} /\ Setback
  /\ \E D \in SUBSET (Overdue \ Gone) : Remove(D)
  /\ UNCHANGED <<cache, available, passVars>>

(* List the active jobs; stop at the maximum concurrency level.  The list  *)
(* misses the active jobs that have not reached the cache.                 *)
Unlisted(js) == Cardinality(ActiveIds(jobs) \ ActiveIds(js))
AtMaximum_OffByOne(js) == Concurrency < Cardinality(ActiveIds(js))
AtMaximum(js) == Concurrency <= Cardinality(ActiveIds(js))
ListActiveJobs ==
  /\ pc = "list"
  /\ \/ AtMaximum(cache) /\ PassEnds /\ UNCHANGED missed
     \/ /\ ~AtMaximum(cache)
        /\ pc' = "telemetry"
        /\ seen' = [j \in JobId |->
                      IF j \in ActiveIds(cache) THEN cache[j] ELSE NoJob]
        /\ missed' = Max({missed, Unlisted(cache)})
        /\ UNCHANGED telemetry
  /\ UNCHANGED <<jobs, cache, activated, expired, available, setbacks>>

(* Fetch telemetry data from Castor. *)
GetTelemetry ==
  /\ pc = "telemetry"
  /\ pc' = "schedule" /\ telemetry' = available
  /\ UNCHANGED <<jobs, cache, activated, expired, available, seen, missed, setbacks>>

(* getServiceablePolicies: drop the types with no or several generators. *)
generatorsFor(t) == {g \in Generator : t \in Supports[g]}
ServiceablePolicies == {t \in Policy : Cardinality(generatorsFor(t)) = 1}

(* Schedule: the tuples available and in flight decide who is eligible ... *)
JobsFor(js, t) == {j \in ActiveIds(js) : js[j].type = t}
InFlight_ListedLate(t) == BatchSize[t] * Cardinality(JobsFor(cache, t))
InFlight(t) == BatchSize[t] * Cardinality(JobsFor(seen, t))
belowThreshold ==
  {t \in ServiceablePolicies : telemetry[t] + InFlight(t) < Threshold[t]}

(* ... and a ticket is drawn.  The eligible types are visited in the order *)
(* of a map iteration, which is arbitrary.                                 *)
weightSum(S) == MapThenSumSet(LAMBDA t : Priority[t], S)
Orders(S) ==
  {o \in [1 .. Cardinality(S) -> S] : \A t \in S : \E i \in DOMAIN o : o[i] = t}
Wins_Inclusive(o, r, i) == r <= weightSum({o[k] : k \in 1 .. i})
Wins(o, r, i) == r < weightSum({o[k] : k \in 1 .. i})
Winner(o, r) ==
  o[CHOOSE i \in DOMAIN o : Wins(o, r, i) /\ \A k \in 1 .. i - 1 : ~Wins(o, r, k)]
Draw(S) ==
  {t \in S : \E o \in Orders(S), r \in 0 .. weightSum(S) - 1 : Winner(o, r) = t}

(* Create a job for the winner, if there is one.  Its name is a random     *)
(* UUID: which of the unused identifiers it gets makes no difference.      *)
Unused(j) == jobs[j] = NoJob /\ cache[j] = NoJob
createJob_NoType(t) == \E j \in JobId :
  /\ Unused(j) /\ j = CHOOSE i \in JobId : Unused(i)
  /\ jobs' = [jobs EXCEPT ![j] = [type |-> "none", state |-> "Active"]]
createJob(t) == \E j \in JobId :
  /\ Unused(j) /\ j = CHOOSE i \in JobId : Unused(i)
  /\ jobs' = [jobs EXCEPT ![j] = [type |-> t, state |-> "Active"]]
Schedule ==
  /\ pc = "schedule"
  /\ \/ belowThreshold = {} /\ UNCHANGED jobs
     \/ \E t \in Draw(belowThreshold) : createJob(t)
  /\ PassEnds
  /\ UNCHANGED <<cache, activated, expired, available, missed, setbacks>>

(* A call fails: the pass ends with an error and is retried. *)
PassFails ==
  /\ Setback
  /\ pc # "idle" /\ PassEnds
  /\ UNCHANGED <<jobs, cache, activated, expired, available, missed>>

(* The job controller: activate the chunk, then update the job's status. *)
Activate(j) ==
  /\ jobs[j] # NoJob /\ jobs[j].state = "Active" /\ j \notin activated
  /\ activated' = activated \cup {j}
  /\ available' = [available EXCEPT ![jobs[j].type] = @ + BatchSize[jobs[j].type]]
  /\ UNCHANGED <<jobs, cache, expired, passVars, setbacks>>
Complete(j) ==
  /\ jobs[j] # NoJob /\ jobs[j].state = "Active" /\ j \in activated
  /\ jobs' = [jobs EXCEPT ![j].state = "Completed"]
  /\ UNCHANGED <<cache, activated, expired, available, passVars, setbacks>>
Fail(j) ==
  /\ jobs[j] # NoJob /\ jobs[j].state = "Active" /\ j \notin activated
  /\ Setback
  /\ jobs' = [jobs EXCEPT ![j].state = "Failed"]
  /\ UNCHANGED <<cache, activated, expired, available, passVars>>

(* The TTL of a finished job passes. *)
Expire(j) ==
  /\ jobs[j] # NoJob /\ jobs[j].state # "Active" /\ j \notin expired
  /\ expired' = expired \cup {j}
  /\ UNCHANGED <<jobs, cache, activated, available, passVars, setbacks>>

(* The informer cache catches up. *)
Sync ==
  /\ cache # jobs /\ cache' = jobs
  /\ UNCHANGED <<jobs, activated, expired, available, passVars, setbacks>>

(* A computation consumes a tuple. *)
Consume(t) ==
  /\ available[t] > 0 /\ Setback
  /\ available' = [available EXCEPT ![t] = @ - 1]
  /\ UNCHANGED <<jobs, cache, activated, expired, passVars>>

Pass ==
  \/ cleanupFinishedJobs \/ CleanupFails \/ ListActiveJobs \/ GetTelemetry
  \/ Schedule
JobRuns(j) == Activate(j) \/ Complete(j)
Next ==
  \/ Pass \/ PassFails \/ Sync
  \/ \E j \in JobId : JobRuns(j) \/ Fail(j) \/ Expire(j)
  \/ \E t \in TupleType : Consume(t)

Spec == Init /\ [][Next]_vars

(* The scheduler's worker and the informer keep running, jobs go on (that  *)
(* some job does is enough), and time passes.                              *)
Fairness ==
  /\ WF_vars(Pass) /\ WF_vars(Sync)
  /\ WF_vars(\E j \in JobId : JobRuns(j)) /\ WF_vars(\E j \in JobId : Expire(j))
FairSpec == Spec /\ Fairness

----------------------------------------------------------------------------
TypeOK ==
  /\ jobs \in [JobId -> Job] /\ cache \in [JobId -> Job]
  /\ activated \subseteq JobId /\ expired \subseteq JobId
  /\ available \in [TupleType -> Nat]
  /\ pc \in {"idle", "list", "telemetry", "schedule"}
  /\ seen \in [JobId -> Job] /\ telemetry \in [TupleType -> Nat]
  /\ missed \in Nat /\ setbacks \in 0 .. MaxSetbacks

(* A pass that goes on has listed fewer jobs than the concurrency level,   *)
(* but in a cache that may not have the jobs of earlier passes: the level  *)
(* is exceeded, and by no more jobs than some pass's list has missed.      *)
(* While no list misses a job, it is respected, although a pass counts the *)
(* jobs some time before it creates one.                                   *)
ConcurrencyRespected == Cardinality(ActiveIds(jobs)) <= Concurrency + missed

(* Its inductive form: what a pass that goes on has listed. *)
SeenCovers ==
  pc \in {"telemetry", "schedule"} =>
    Unlisted(seen) <= missed /\ Cardinality(ActiveIds(seen)) < Concurrency
ConcurrencyInv == SeenCovers /\ ConcurrencyRespected

(* The scheduler overproduces only for the same reason: the tuples that    *)
(* are available or still to come exceed the threshold by less than one    *)
(* batch, and one more for each job a list has missed, although jobs       *)
(* complete between the two reads the decision is based on.                *)
Supply(t) ==
  available[t] + BatchSize[t] * Cardinality({j \in JobsFor(jobs, t) : j \notin activated})
NotOverproduced ==
  \A t \in TupleType : Supply(t) < Threshold[t] + BatchSize[t] * (1 + missed)

(* The lottery is fair: in whatever order the eligible types are visited,  *)
(* each wins with as many of the tickets as its priority says.             *)
TicketsMatchPriorities ==
  pc = "schedule" =>
    \A o \in Orders(belowThreshold) : \A t \in belowThreshold :
      Cardinality({r \in 0 .. weightSum(belowThreshold) - 1 : Winner(o, r) = t})
        = Priority[t]

(* Once nothing is consumed any more, every type that can be generated     *)
(* reaches its threshold, although jobs and calls fail.                    *)
EventuallyReplenished ==
  <>[](\A t \in ServiceablePolicies : available[t] >= Threshold[t])

(* Then the finished jobs are deleted, too, although the scheduler may try *)
(* to delete jobs that are gone and only its cache still has.              *)
FinishedJobsRemoved == <>[](\A j \in JobId : jobs[j] = NoJob)

=============================================================================
