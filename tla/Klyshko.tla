------------------------------ MODULE Klyshko ------------------------------
(***************************************************************************)
(* The composition: the job controller, the task controller and the roster *)
(* watch of every VCP, with what surrounds them: the creator of the job,   *)
(* pods and load balancers, the garbage collector of Kubernetes, and       *)
(* restarts of the operator.                                               *)
(***************************************************************************)
EXTENDS JobController, TaskController, RosterWatch

(* The job resource has just been created, by a scheduler or a user. *)
Init ==
  /\ roster = FALSE
  /\ entry = [p \in Player |-> Absent]
  /\ inbox = [p \in Player |-> <<>>]
  /\ handled = [p \in Player |-> 0]
  /\ job = [p \in Player |-> IF p = Creator THEN "" ELSE "Absent"]
  /\ task = [p \in Player |-> [q \in Player |-> Absent]]
  /\ orphan = [p \in Player |-> {}]
  /\ genPod = [p \in Player |-> "Absent"]
  /\ peers = [p \in Player |-> {}]
  /\ provPod = [p \in Player |-> "Absent"]
  /\ svc = [p \in Player |-> "Absent"]
  /\ pvc = [p \in Player |-> FALSE]
  /\ stale = [p \in Player |-> {}]
  /\ jobQ = [p \in Player |-> p = Creator]
  /\ jobRec = [p \in Player |-> JobIdle]
  /\ taskQ = [p \in Player |-> FALSE]
  /\ taskRec = [p \in Player |-> TaskIdle]
  /\ uploaded = [p \in Player |-> FALSE]
  /\ activated = [p \in Player |-> FALSE]
  /\ crashes = 0 /\ faults = 0 /\ deletes = 0

(* Kubernetes assigns an ingress point to the service. *)
AssignEndpoint(p) ==
  /\ svc[p] = "Pending"
  /\ svc' = [svc EXCEPT ![p] = "Ready"]
  /\ taskQ' = [taskQ EXCEPT ![p] = TRUE]
  /\ UNCHANGED <<etcdVars, job, task, orphan, genPod, peers, provPod, pvc,
                 stale, jobCtrlVars, taskRec, castorVars, budgetVars>>

(* The generator pod terminates (pods are never restarted). *)
GeneratorEnds(p, phase) ==
  /\ genPod[p] = "Running"
  /\ genPod' = [genPod EXCEPT ![p] = phase]
  /\ taskQ' = [taskQ EXCEPT ![p] = TRUE]
  /\ UNCHANGED <<etcdVars, job, task, orphan, peers, provPod, svc, pvc, stale,
                 jobCtrlVars, taskRec, castorVars, budgetVars>>

(* The provisioner pod terminates; it succeeds only if the upload did. *)
ProvisionerEnds(p, phase) ==
  /\ provPod[p] = "Running"
  /\ provPod' = [provPod EXCEPT ![p] = phase]
  /\ uploaded' = [uploaded EXCEPT ![p] = @ \/ phase = "Succeeded"]
  /\ taskQ' = [taskQ EXCEPT ![p] = TRUE]
  /\ UNCHANGED <<etcdVars, job, task, orphan, genPod, peers, svc, pvc, stale,
                 jobCtrlVars, taskRec, activated, budgetVars>>

(* The job is deleted on the VCP it was created on: by the scheduler once  *)
(* it is done (cleanupFinishedJobs), by a user at any time.                *)
DeleteJob(p) ==
  /\ p = Creator /\ deletes < MaxDeletes
  /\ job[p] \in Deletable
  /\ deletes' = deletes + 1
  /\ RemoveJob(p)
  /\ UNCHANGED <<etcdVars, task, podVars, taskCtrlVars, castorVars, crashes,
                 faults>>

(* The garbage collector deletes a task whose job is gone ... *)
CollectTask(p, q) ==
  /\ q \in orphan[p]
  /\ task' = [task EXCEPT ![p][q] = Absent]
  /\ orphan' = [orphan EXCEPT ![p] = @ \ {q}]
  /\ stale' = [stale EXCEPT ![p] = IF q # p THEN @ ELSE
       {d \in Dependent : \/ d = "gen" /\ genPod[p] # "Absent"
                          \/ d = "prov" /\ provPod[p] # "Absent"
                          \/ d = "svc" /\ svc[p] # "Absent"}]
  /\ TaskEvents(p)
  /\ UNCHANGED <<etcdVars, job, genPod, peers, provPod, svc, pvc, jobRec,
                 taskRec, castorVars, budgetVars>>

(* ... and the pods and the service of a task that is gone. *)
CollectDependent(p, d) ==
  /\ d \in stale[p]
  /\ stale' = [stale EXCEPT ![p] = @ \ {d}]
  /\ genPod' = [genPod EXCEPT ![p] = IF d = "gen" THEN "Absent" ELSE @]
  /\ peers' = [peers EXCEPT ![p] = IF d = "gen" THEN {} ELSE @]
  /\ provPod' = [provPod EXCEPT ![p] = IF d = "prov" THEN "Absent" ELSE @]
  /\ svc' = [svc EXCEPT ![p] = IF d = "svc" THEN "Absent" ELSE @]
  /\ taskQ' = [taskQ EXCEPT ![p] = TRUE]
  /\ UNCHANGED <<etcdVars, job, task, orphan, pvc, jobCtrlVars, taskRec,
                 castorVars, budgetVars>>

(* The operator process restarts: reconciliations in progress are lost and *)
(* the watch starts again after the persisted head.  The informers deliver *)
(* every object that exists, but nothing about objects deleted before.     *)
Crash(p) ==
  /\ p \in Flaky /\ crashes < MaxCrashes
  /\ crashes' = crashes + 1
  /\ handled' = [handled EXCEPT ![p] = 0]
  /\ jobRec' = [jobRec EXCEPT ![p] = JobIdle]
  /\ taskRec' = [taskRec EXCEPT ![p] = TaskIdle]
  /\ jobQ' = [jobQ EXCEPT
       ![p] = job[p] # "Absent" \/ \E q \in Player : Exists(p, q)]
  /\ taskQ' = [taskQ EXCEPT
       ![p] = \/ \E q \in Player : Exists(p, q)
              \/ genPod[p] # "Absent" \/ provPod[p] # "Absent"
              \/ svc[p] # "Absent"]
  /\ UNCHANGED <<roster, entry, inbox, k8sVars, castorVars, faults, deletes>>

Cluster(p) ==
  \/ AssignEndpoint(p)
  \/ \E phase \in Outcomes :
       GeneratorEnds(p, phase) \/ ProvisionerEnds(p, phase)
  \/ \E q \in Player : CollectTask(p, q)
  \/ \E d \in Dependent : CollectDependent(p, d)

Failure(p) ==
  JobError(p) \/ TaskError(p) \/ HandlerError(p) \/ Rewatch(p) \/ Crash(p)

Next == \E p \in Player :
  JobStep(p) \/ TaskStep(p) \/ WatchStep(p) \/ Cluster(p) \/ DeleteJob(p)
  \/ Failure(p)

Spec == Init /\ [][Next]_vars

(***************************************************************************)
(* Fairness: the workers of both controllers and the watch goroutine of    *)
(* every VCP keep running, Kubernetes assigns endpoints, runs pods to      *)
(* their end and collects garbage.  Failures and deletions are not fair.   *)
(***************************************************************************)
Fairness == \A p \in Player :
  /\ WF_vars(JobStep(p)) /\ WF_vars(TaskStep(p)) /\ WF_vars(WatchStep(p))
  /\ WF_vars(Cluster(p))

FairSpec == Spec /\ Fairness

(***************************************************************************)
(* A weaker assumption, enough for the properties that hold: the VCPs and  *)
(* the clusters taken together do not stop while one of them has work.     *)
(***************************************************************************)
Progress == \E p \in Player :
  JobStep(p) \/ TaskStep(p) \/ WatchStep(p) \/ Cluster(p)

ProgressSpec == Spec /\ WF_vars(Progress)

----------------------------------------------------------------------------
TypeOK ==
  /\ roster \in BOOLEAN
  /\ entry \in [Player -> Status]
  /\ inbox \in [Player -> Seq(Event)]
  /\ handled \in [Player -> Nat]
  /\ \A p \in Player : handled[p] <= Len(inbox[p])
  /\ job \in [Player -> JobState \cup {"Absent"}]
  /\ task \in [Player -> [Player -> Status]]
  /\ orphan \in [Player -> SUBSET Player]
  /\ genPod \in [Player -> PodPhase]
  /\ peers \in [Player -> SUBSET Player]
  /\ provPod \in [Player -> PodPhase]
  /\ svc \in [Player -> {"Absent", "Pending", "Ready"}]
  /\ pvc \in [Player -> BOOLEAN]
  /\ stale \in [Player -> SUBSET Dependent]
  /\ jobQ \in [Player -> BOOLEAN]
  /\ jobRec \in [Player -> JobReconciliation]
  /\ taskQ \in [Player -> BOOLEAN]
  /\ taskRec \in [Player -> TaskReconciliation]
  /\ uploaded \in [Player -> BOOLEAN]
  /\ activated \in [Player -> BOOLEAN]
  /\ crashes \in 0 .. MaxCrashes
  /\ faults \in 0 .. MaxFaults
  /\ deletes \in 0 .. MaxDeletes

(* The tuple chunk is made available in a VCP's Castor only once every VCP *)
(* has stored its shares: otherwise a computation could draw tuples that   *)
(* other VCPs do not have (job controller, activation of completed jobs).  *)
ActivatedImpliesAllUploaded ==
  \A p \in Player : activated[p] => \A q \in Player : uploaded[q]

(* Whatever is reported about a task as completed, on its way from the     *)
(* provisioner pod through the roster entry, the watch events and the      *)
(* proxies to the job controllers, is reported after the upload.  This is  *)
(* the inductive form of the property above.                               *)
PodsUploaded ==
  \A p \in Player : provPod[p] = "Succeeded" => uploaded[p]
WritesUploaded ==
  \A p \in Player : taskRec[p].status.state = "Completed" => uploaded[p]
EntriesUploaded ==
  \A p \in Player : entry[p].state = "Completed" => uploaded[p]
EventsUploaded ==
  \A p \in Player : \A i \in 1 .. Len(inbox[p]) :
    inbox[p][i].value.state = "Completed" => uploaded[inbox[p][i].player]
TasksUploaded ==
  \A p, q \in Player : task[p][q].state = "Completed" => uploaded[q]
ActivatesUploaded ==
  \A p \in Player : jobRec[p].pc = "activate" => \A q \in Player : uploaded[q]
UploadInv ==
  /\ PodsUploaded /\ WritesUploaded /\ EntriesUploaded /\ EventsUploaded
  /\ TasksUploaded /\ ActivatesUploaded
  /\ ActivatedImpliesAllUploaded

(* The VCPs agree on the outcome, although each derives it on its own from *)
(* proxies that lag behind: no job fails on one VCP while the tuple chunk  *)
(* is activated on another.  (For jobs that are not deleted.)              *)
OutcomeAgreement ==
  \A p, q \in Player : activated[p] => job[q] # "Failed"

(* A proxy mirrors the remote task: once the watch of a VCP has handled    *)
(* all events, every proxy has the status of the remote roster entry, also *)
(* after events were replayed.  (For jobs that are not deleted.)           *)
ProxiesConverge ==
  \A p \in Player : ~Pending(p) =>
    \A q \in Others(p) : task[p][q] = entry[q]

(* A generator is only launched when the CRG endpoints of all VCPs are up: *)
(* whatever the local view was when the task left TaskPreparing, every     *)
(* service has its ingress point.  (For jobs that are not deleted.)        *)
LaunchedWhenReachable ==
  \A p \in Player : genPod[p] # "Absent" => \A q \in Player : svc[q] = "Ready"

(* The tuples written by the generator are on the volume until they have   *)
(* been uploaded or the task has failed: the claim exists from before the  *)
(* generator starts until the task is in a terminal state.  (For jobs that *)
(* are not deleted.)                                                       *)
TuplesKept ==
  \A p \in Player :
    genPod[p] # "Absent" /\ entry[p].state \notin Terminal => pvc[p]

(* The generator pod is given the endpoints of all players, as the error   *)
(* message of createGeneratorPod demands.                                  *)
GeneratorKnowsPeers ==
  \A p \in Player : genPod[p] # "Absent" => peers[p] = Player

(* A roster entry moves through the task states in order, one at a time,   *)
(* never leaves a terminal state, and keeps its endpoint, also if passes   *)
(* are repeated after a restart.  It is only ever deleted otherwise.       *)
StateOrder ==
  {<<"Absent", "Preparing">>, <<"Preparing", "Preparing">>,
   <<"Preparing", "Launching">>, <<"Launching", "Generating">>,
   <<"Generating", "Provisioning">>, <<"Generating", "Failed">>,
   <<"Provisioning", "Completed">>, <<"Provisioning", "Failed">>}
EntryLifecycle ==
  [][\A q \in Player : entry'[q] # entry[q] =>
       \/ entry'[q] = Absent
       \/ /\ <<entry[q].state, entry'[q].state>> \in StateOrder
          /\ entry[q].endpoint => entry'[q].endpoint]_vars

(* A job that is done stays done with the same outcome until it is         *)
(* deleted: the scheduler and its TTL rely on it.                          *)
DoneIsFinal ==
  [][\A p \in Player : job[p] \in JobDone => job'[p] \in {job[p], "Absent"}]_vars

(* Once a deleted job is gone on the VCP that created it, it does not come *)
(* back there, although the watch may still have older events to handle.   *)
DeletedStaysDeleted ==
  [][job[Creator] = "Absent" => job'[Creator] = "Absent"]_vars

(* Deleting the job removes, on every VCP and for good, the job, its tasks *)
(* with their pods and services, the roster and the roster entries.        *)
Clean ==
  /\ ~roster
  /\ \A p \in Player :
       /\ job[p] = "Absent" /\ entry[p] = Absent
       /\ \A q \in Player : ~Exists(p, q)
       /\ genPod[p] = "Absent" /\ provPod[p] = "Absent" /\ svc[p] = "Absent"
DeletionCleansUp == (deletes > 0) ~> []Clean

(* Every VCP's job is eventually done and stays so. *)
JobsTerminate == <>[](\A p \in Player : job[p] \in JobDone)

(* The VCPs activate the tuple chunk together or not at all: if one has,   *)
(* all others eventually do, although the operators restart.               *)
ActivationSpreads ==
  (\E p \in Player : activated[p]) ~> (\A p \in Player : activated[p])

(* The abstract job: a roster entry in a terminal state is the vote. *)
Chunk == INSTANCE TupleChunk WITH
  stored <- uploaded,
  vote <- [p \in Player |->
             IF entry[p].state \in Terminal THEN entry[p].state ELSE "none"],
  outcome <- [p \in Player |-> IF activated[p] THEN "served"
                               ELSE IF job[p] = "Failed" THEN "given_up"
                               ELSE "open"]

(* The operators implement the atomic commitment of TupleChunk, although   *)
(* each of them decides alone, from proxies, on votes that were published  *)
(* long ago and may be handled twice (Reconcile of the job controller and  *)
(* of the task controller, handleRemoteTaskUpdate).  (For jobs that are    *)
(* not deleted.)                                                           *)
CommitsAtomically == Chunk!Spec

=============================================================================
