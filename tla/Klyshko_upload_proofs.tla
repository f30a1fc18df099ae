------------------------ MODULE Klyshko_upload_proofs ------------------------
(***************************************************************************)
(* The safety theorem: no VCP activates a tuple chunk before all VCPs have *)
(* uploaded their shares, for any number of VCPs and whatever fails.       *)
(*                                                                         *)
(* The argument follows a report "Completed" backwards: the job controller *)
(* has it from a task or proxy, that from a watch event or the own roster  *)
(* entry, these from the task controller, and that from the phase of the   *)
(* provisioner pod.  UploadInv says that there is no such report at any of *)
(* these places before the upload.                                         *)
(***************************************************************************)
EXTENDS Klyshko_proofs

Uploads == \A q \in Player : uploaded[q] => uploaded'[q]

----------------------------------------------------------------------------
(* A part of the invariant holds still if what it is about has not changed, *)
(* since no upload is ever undone.                                          *)
LEMMA UploadFrame ==
  ASSUME TypeOK, UploadInv, Uploads
  PROVE  /\ UNCHANGED provPod => PodsUploaded'
         /\ UNCHANGED taskRec => WritesUploaded'
         /\ UNCHANGED entry => EntriesUploaded'
         /\ UNCHANGED inbox => EventsUploaded'
         /\ UNCHANGED task => TasksUploaded'
         /\ UNCHANGED jobRec => ActivatesUploaded'
         /\ UNCHANGED activated => ActivatedImpliesAllUploaded'
<1> USE DEF UploadInv, Uploads
<1>1. UNCHANGED provPod => PodsUploaded'
  BY DEF PodsUploaded
<1>2. UNCHANGED taskRec => WritesUploaded'
  BY DEF WritesUploaded
<1>3. UNCHANGED entry => EntriesUploaded'
  BY DEF EntriesUploaded
<1>4. UNCHANGED inbox => EventsUploaded'
  <2>1. \A p \in Player : \A i \in 1 .. Len(inbox[p]) : inbox[p][i].player \in Player
    BY EventsTyped
  <2> QED
    BY <2>1 DEF EventsUploaded
<1>5. UNCHANGED task => TasksUploaded'
  BY DEF TasksUploaded
<1>6. UNCHANGED jobRec => ActivatesUploaded'
  BY DEF ActivatesUploaded
<1>7. UNCHANGED activated => ActivatedImpliesAllUploaded'
  BY DEF ActivatedImpliesAllUploaded
<1> QED
  BY <1>1, <1>2, <1>3, <1>4, <1>5, <1>6, <1>7

(* An event may be published if what it reports is uploaded. *)
LEMMA PublishUpload ==
  ASSUME TypeOK, UploadInv, UNCHANGED uploaded,
         NEW P \in SUBSET Player, NEW ev \in Event, Publish(P, ev),
         ev.value.state = "Completed" => uploaded[ev.player]
  PROVE  EventsUploaded'
<1> SUFFICES ASSUME NEW q \in Player, NEW i \in 1 .. Len(inbox'[q]),
                    inbox'[q][i].value.state = "Completed"
             PROVE  uploaded[inbox'[q][i].player]
  BY DEF EventsUploaded
<1>1. \/ inbox'[q][i] = ev
      \/ i \in 1 .. Len(inbox[q]) /\ inbox'[q][i] = inbox[q][i]
  BY PublishFacts
<1> QED
  BY <1>1 DEF UploadInv, EventsUploaded

(* Handling an event adds no event. *)
LEMMA ConsumeUpload ==
  ASSUME TypeOK, UploadInv, UNCHANGED uploaded,
         NEW p \in Player, Pending(p), Consume(p)
  PROVE  EventsUploaded'
<1> SUFFICES ASSUME NEW q \in Player, NEW i \in 1 .. Len(inbox'[q]),
                    inbox'[q][i].value.state = "Completed"
             PROVE  uploaded[inbox'[q][i].player]
  BY DEF EventsUploaded
<1>1. PICK j \in 1 .. Len(inbox[q]) : inbox'[q][i] = inbox[q][j]
  BY ConsumeFacts
<1> QED
  BY <1>1 DEF UploadInv, EventsUploaded

(* The task controller copies its roster entry to the local task. *)
LEMMA TaskPassUpload ==
  ASSUME TypeOK, UploadInv, UNCHANGED uploaded,
         NEW p \in Player, NEW s, TaskPass(p, s)
  PROVE  TasksUploaded'
<1> SUFFICES ASSUME NEW r \in Player, NEW q \in Player,
                    task'[r][q].state = "Completed"
             PROVE  uploaded[q]
  BY DEF TasksUploaded
<1>1. task' = [task EXCEPT ![p][p] = entry[p]]
  BY DEF TaskPass
<1>2. CASE r = p /\ q = p
  BY <1>1, <1>2 DEF UploadInv, EntriesUploaded, TypeOK
<1>3. CASE ~(r = p /\ q = p)
  BY <1>1, <1>3 DEF UploadInv, TasksUploaded, TypeOK
<1> QED
  BY <1>2, <1>3

(* The task controller may report anything but completion. *)
LEMMA SetStatusUpload ==
  ASSUME TypeOK, UploadInv, UNCHANGED uploaded, NEW p \in Player, NEW s,
         taskRec' = [taskRec EXCEPT ![p] = s],
         s.status.state = "Completed" => uploaded[p]
  PROVE  WritesUploaded'
BY DEF UploadInv, WritesUploaded, TypeOK

(* So may the ends of a pass: nothing to report, or a new state. *)
LEMMA TaskEndUpload ==
  ASSUME TypeOK, UploadInv, UNCHANGED uploaded, NEW p \in Player
  PROVE  /\ TaskWait(p) => WritesUploaded'
         /\ \A x \in TaskState :
              setState(p, x) /\ (x = "Completed" => uploaded[p])
              => WritesUploaded'
<1>1. TaskWait(p) => WritesUploaded'
  <2>1. TaskIdle.status.state # "Completed"
    BY DEF TaskIdle, Absent
  <2> QED
    BY <2>1, SetStatusUpload DEF TaskWait
<1>2. ASSUME NEW x \in TaskState, setState(p, x), x = "Completed" => uploaded[p]
      PROVE  WritesUploaded'
  <2> DEFINE s == [entry[p] EXCEPT !.state = x]
             r == [pc |-> "put", status |-> s]
  <2>1. r.status.state = x
    BY DEF TypeOK, Status
  <2>2. taskRec' = [taskRec EXCEPT ![p] = r]
    BY <1>2 DEF setState, setStatus
  <2> QED
    BY <1>2, <2>1, <2>2, SetStatusUpload
<1> QED
  BY <1>1, <1>2

(* The job controller may start a reconciliation in any state but one. *)
LEMMA JobRecUpload ==
  ASSUME TypeOK, UploadInv, UNCHANGED uploaded, NEW p \in Player, NEW r,
         jobRec' = [jobRec EXCEPT ![p] = r],
         r.pc = "activate" => \A q \in Player : uploaded[q]
  PROVE  ActivatesUploaded'
BY DEF UploadInv, ActivatesUploaded, TypeOK

(* A job is found completed only if all tasks are. *)
LEMMA DerivedCompleted ==
  ASSUME TypeOK, UploadInv, NEW p \in Player, NEW seen,
         DerivedState(p, seen) = "Completed"
  PROVE  \A q \in Player : uploaded[q]
<1>1. ASSUME NEW q \in Player
      PROVE  task[p][q].state = "Completed"
  BY DEF DerivedState, allTerminated, anyFailed, Terminal
<1> QED
  BY <1>1 DEF UploadInv, TasksUploaded

----------------------------------------------------------------------------
(* Every action preserves the invariant. *)

(* The job controller activates only what all VCPs have uploaded. *)
LEMMA JobStepUpload ==
  ASSUME TypeOK, UploadInv, NEW p \in Player, JobStep(p)
  PROVE  UploadInv'
<1> USE DEF etcdVars, k8sVars, podVars, jobCtrlVars, taskCtrlVars, castorVars,
            budgetVars
<1>a. UNCHANGED uploaded
  BY DEF JobStep, JobCleanup, JobCreateRoster, JobCreateTask, JobDerive,
     JobActivate, JobUpdate
<1>b. Uploads
  BY <1>a DEF Uploads
<1>c. \A t \in {"PUT", "DELETE"} :
        /\ RosterEvent(t) \in Event
        /\ RosterEvent(t).value.state # "Completed"
  BY EventFacts DEF RosterEvent, Absent
<1>d. JobIdle.pc # "activate"
  BY DEF JobIdle
<1>1. CASE JobCleanup(p)
  <2>1. EventsUploaded'
    <3>1. CASE PublishRoster("DELETE")
      BY <1>a, <1>c, <3>1, PublishUpload DEF PublishRoster
    <3>2. CASE UNCHANGED inbox
      BY <1>b, <3>2, UploadFrame
    <3> QED
      BY <1>1, <3>1, <3>2 DEF JobCleanup
  <2> QED
    BY <1>1, <1>b, <2>1, UploadFrame DEF JobCleanup, UploadInv
<1>2. CASE JobCreateRoster(p)
  <2>1. EventsUploaded'
    <3>1. CASE PublishRoster("PUT")
      BY <1>a, <1>c, <3>1, PublishUpload DEF PublishRoster
    <3>2. CASE UNCHANGED inbox
      BY <1>b, <3>2, UploadFrame
    <3> QED
      BY <1>2, <3>1, <3>2 DEF JobCreateRoster
  <2>2. ActivatesUploaded'
    <3> DEFINE r == [pc |-> "task", live |-> TRUE, state |-> job[p]]
    <3>1. CASE jobRec' = [jobRec EXCEPT ![p] = r]
      <4>1. r.pc # "activate"
        OBVIOUS
      <4> QED
        BY <1>a, <3>1, <4>1, JobRecUpload
    <3>2. CASE UNCHANGED jobRec
      BY <1>b, <3>2, UploadFrame
    <3> QED
      BY <1>2, <3>1, <3>2 DEF JobCreateRoster
  <2> QED
    BY <1>2, <1>b, <2>1, <2>2, UploadFrame DEF JobCreateRoster, UploadInv
<1>3. CASE JobCreateTask(p)
  <2>1. TasksUploaded'
    <3> SUFFICES ASSUME NEW r \in Player, NEW q \in Player,
                        task'[r][q].state = "Completed"
                 PROVE  uploaded[q]
      BY <1>a DEF TasksUploaded
    <3>1. task' = [task EXCEPT ![p][p] = NoStatus] /\ NoStatus.state # "Completed"
      BY <1>3 DEF JobCreateTask, NoStatus
    <3>2. task'[r][q] = task[r][q]
      BY <3>1 DEF TypeOK
    <3> QED
      BY <3>2 DEF UploadInv, TasksUploaded
  <2>2. ActivatesUploaded'
    BY <1>3, <1>a, <1>d, JobRecUpload DEF JobCreateTask
  <2> QED
    BY <1>3, <1>b, <2>1, <2>2, UploadFrame DEF JobCreateTask, UploadInv
<1>4. CASE JobDerive(p)
  <2>1. ActivatesUploaded'
    <3> DEFINE seen == JobSeen(p)
               next == DerivedState(p, seen.state)
    <3>1. CASE next = "Completed" /\ JobComplete(p, seen.live)
      <4>1. \A q \in Player : uploaded[q]
        BY <3>1, DerivedCompleted
      <4> QED
        BY <1>a, <3>1, <4>1, JobRecUpload DEF JobComplete
    <3>2. CASE jobRec' = [jobRec EXCEPT ![p] = JobIdle]
      BY <1>a, <1>d, <3>2, JobRecUpload
    <3> QED
      BY <1>4, <3>1, <3>2 DEF JobDerive
  <2> QED
    BY <1>4, <1>b, <2>1, UploadFrame DEF JobDerive, UploadInv
<1>5. CASE JobActivate(p)
  <2>1. \A q \in Player : uploaded[q]
    BY <1>5 DEF JobActivate, UploadInv, ActivatesUploaded
  <2>2. ActivatesUploaded' /\ ActivatedImpliesAllUploaded'
    BY <1>a, <2>1 DEF ActivatesUploaded, ActivatedImpliesAllUploaded
  <2> QED
    BY <1>5, <1>b, <2>2, UploadFrame DEF JobActivate, UploadInv
<1>6. CASE JobUpdate(p)
  <2>1. ActivatesUploaded'
    BY <1>6, <1>a, <1>d, JobRecUpload DEF JobUpdate
  <2> QED
    BY <1>6, <1>b, <2>1, UploadFrame DEF JobUpdate, UploadInv
<1> QED
  BY <1>1, <1>2, <1>3, <1>4, <1>5, <1>6 DEF JobStep

(* The task controller reports completion only after the upload. *)
LEMMA TaskStepUpload ==
  ASSUME TypeOK, UploadInv, NEW p \in Player, TaskStep(p)
  PROVE  UploadInv'
<1> USE DEF etcdVars, k8sVars, podVars, jobCtrlVars, taskCtrlVars, castorVars,
            budgetVars
<1>a. UNCHANGED uploaded
  BY DEF TaskStep, TaskCleanup, TaskCreateEntry, TaskLookupFails, TaskPrepare,
     TaskLaunch, TaskGenerate, TaskProvision, TaskFinish, TaskPut
<1>b. Uploads
  BY <1>a DEF Uploads
<1>c. Others(p) \in SUBSET Player
  BY DEF Others
<1>1. CASE TaskCleanup(p)
  <2>1. EntriesUploaded'
    BY <1>1, <1>a DEF TaskCleanup, UploadInv, EntriesUploaded, Absent, TypeOK
  <2>2. EventsUploaded'
    <3>1. CASE Publish(Others(p), EntryDelete(p))
      <4>1. EntryDelete(p) \in Event /\ EntryDelete(p).value.state # "Completed"
        BY EventFacts DEF EntryDelete, Absent
      <4> QED
        BY <1>a, <1>c, <3>1, <4>1, PublishUpload
    <3>2. CASE UNCHANGED inbox
      BY <1>b, <3>2, UploadFrame
    <3> QED
      BY <1>1, <3>1, <3>2 DEF TaskCleanup
  <2> QED
    BY <1>1, <1>b, <2>1, <2>2, UploadFrame DEF TaskCleanup, UploadInv
<1>2. CASE TaskCreateEntry(p)
  <2>0. JustPreparing.state # "Completed"
    BY DEF JustPreparing
  <2>1. EntriesUploaded'
    BY <1>2, <1>a, <2>0 DEF TaskCreateEntry, UploadInv, EntriesUploaded, TypeOK
  <2>2. EventsUploaded'
    <3>1. /\ EntryPut(p, JustPreparing) \in Event
          /\ EntryPut(p, JustPreparing).value.state # "Completed"
      BY <2>0, EventFacts, StatusFacts DEF EntryPut
    <3> QED
      BY <1>2, <1>a, <1>c, <3>1, PublishUpload DEF TaskCreateEntry
  <2>3. WritesUploaded'
    <3> DEFINE r == [taskRec[p] EXCEPT !.pc = "act"]
    <3>1. taskRec' = [taskRec EXCEPT ![p] = r]
      BY <1>2 DEF TaskCreateEntry
    <3>2. r.status = taskRec[p].status
      BY DEF TypeOK, TaskReconciliation
    <3> QED
      BY <1>a, <3>1, <3>2, SetStatusUpload DEF UploadInv, WritesUploaded
  <2> QED
    BY <1>2, <1>b, <2>1, <2>2, <2>3, UploadFrame DEF TaskCreateEntry, UploadInv
<1>3. CASE TaskLookupFails(p)
  <2>1. WritesUploaded'
    BY <1>3, <1>a, TaskEndUpload DEF TaskLookupFails, TaskWait
  <2> QED
    BY <1>3, <1>b, <2>1, UploadFrame DEF TaskLookupFails, UploadInv
<1>4. CASE TaskPrepare(p)
  <2>1. TasksUploaded'
    BY <1>4, <1>a, TaskPassUpload DEF TaskPrepare
  <2>2. WritesUploaded'
    <3>1. CASE setState(p, "Launching")
      BY <1>a, <3>1, TaskEndUpload DEF TaskState
    <3>2. CASE setStatus(p, [entry[p] EXCEPT !.endpoint = TRUE])
      <4> DEFINE s == [entry[p] EXCEPT !.endpoint = TRUE]
                 r == [pc |-> "put", status |-> s]
      <4>1. r.status.state = "Preparing"
        <5>1. entry[p].state = "Preparing" /\ entry[p] \in Status
          BY <1>4 DEF TaskPrepare, TaskPass, TypeOK
        <5> QED
          BY <5>1 DEF Status
      <4>2. taskRec' = [taskRec EXCEPT ![p] = r]
        BY <3>2 DEF setStatus
      <4> QED
        BY <1>a, <4>1, <4>2, SetStatusUpload
    <3>3. CASE TaskWait(p)
      BY <1>a, <3>3, TaskEndUpload
    <3> QED
      BY <1>4, <3>1, <3>2, <3>3 DEF TaskPrepare
  <2> QED
    BY <1>4, <1>b, <2>1, <2>2, UploadFrame DEF TaskPrepare, UploadInv
<1>5. CASE TaskLaunch(p)
  <2>1. TasksUploaded'
    BY <1>5, <1>a, TaskPassUpload DEF TaskLaunch
  <2>2. WritesUploaded'
    BY <1>5, <1>a, TaskEndUpload DEF TaskLaunch, TaskState
  <2> QED
    BY <1>5, <1>b, <2>1, <2>2, UploadFrame DEF TaskLaunch, UploadInv
<1>6. CASE TaskGenerate(p)
  <2>1. TasksUploaded'
    BY <1>6, <1>a, TaskPassUpload DEF TaskGenerate
  <2>2. WritesUploaded'
    BY <1>6, <1>a, TaskEndUpload DEF TaskGenerate, TaskState
  <2>3. PodsUploaded'
    <3>1. \/ UNCHANGED provPod
          \/ provPod' = [provPod EXCEPT ![p] = IF @ = "Absent" THEN "Running" ELSE @]
      BY <1>6 DEF TaskGenerate, createProvisionerPod
    <3> QED
      BY <1>a, <3>1 DEF UploadInv, PodsUploaded, TypeOK
  <2> QED
    BY <1>6, <1>b, <2>1, <2>2, <2>3, UploadFrame DEF TaskGenerate, UploadInv
<1>7. CASE TaskProvision(p)
  <2>1. TasksUploaded'
    BY <1>7, <1>a, TaskPassUpload DEF TaskProvision
  <2>2. WritesUploaded'
    <3>1. CASE provPod[p] = "Succeeded" /\ setState(p, "Completed")
      <4>1. uploaded[p]
        BY <3>1 DEF UploadInv, PodsUploaded
      <4> QED
        BY <1>a, <3>1, <4>1, TaskEndUpload DEF TaskState
    <3>2. CASE setState(p, "Failed") \/ TaskWait(p)
      BY <1>a, <3>2, TaskEndUpload DEF TaskState
    <3> QED
      BY <1>7, <3>1, <3>2 DEF TaskProvision
  <2> QED
    BY <1>7, <1>b, <2>1, <2>2, UploadFrame DEF TaskProvision, UploadInv
<1>8. CASE TaskFinish(p)
  <2>1. TasksUploaded'
    BY <1>8, <1>a, TaskPassUpload DEF TaskFinish
  <2>2. WritesUploaded'
    BY <1>8, <1>a, TaskEndUpload DEF TaskFinish
  <2> QED
    BY <1>8, <1>b, <2>1, <2>2, UploadFrame DEF TaskFinish, UploadInv
<1>9. CASE TaskPut(p)
  <2> DEFINE s == taskRec[p].status
  <2>0. s \in Status /\ (s.state = "Completed" => uploaded[p])
    BY ReconciliationFacts DEF TypeOK, UploadInv, WritesUploaded
  <2>1. EntriesUploaded'
    BY <1>9, <1>a, <2>0 DEF TaskPut, UploadInv, EntriesUploaded, TypeOK
  <2>2. EventsUploaded'
    <3>1. /\ EntryPut(p, s) \in Event
          /\ EntryPut(p, s).value = s /\ EntryPut(p, s).player = p
      BY <2>0, EventFacts DEF EntryPut
    <3> QED
      BY <1>9, <1>a, <1>c, <2>0, <3>1, PublishUpload DEF TaskPut
  <2>3. WritesUploaded'
    BY <1>9, <1>a, TaskEndUpload DEF TaskPut, TaskWait
  <2> QED
    BY <1>9, <1>b, <2>1, <2>2, <2>3, UploadFrame DEF TaskPut, UploadInv
<1> QED
  BY <1>1, <1>2, <1>3, <1>4, <1>5, <1>6, <1>7, <1>8, <1>9 DEF TaskStep

(* A task of p is given a status that is only Completed after the upload. *)
LEMMA SetTaskUpload ==
  ASSUME TypeOK, UploadInv, UNCHANGED uploaded, NEW p \in Player,
         NEW q \in Player, NEW s, task' = [task EXCEPT ![p][q] = s],
         s.state = "Completed" => uploaded[q]
  PROVE  TasksUploaded'
<1> SUFFICES ASSUME NEW r \in Player, NEW t \in Player,
                    task'[r][t].state = "Completed"
             PROVE  uploaded[t]
  BY DEF TasksUploaded
<1>1. CASE r = p /\ t = q
  BY <1>1 DEF TypeOK
<1>2. CASE ~(r = p /\ t = q)
  BY <1>2 DEF UploadInv, TasksUploaded, TypeOK
<1> QED
  BY <1>1, <1>2

(* Deleting the job does not start an activation. *)
LEMMA RemoveJobUpload ==
  ASSUME TypeOK, UploadInv, UNCHANGED uploaded, NEW p \in Player, RemoveJob(p)
  PROVE  ActivatesUploaded'
<1> DEFINE r == [jobRec[p] EXCEPT !.live = FALSE]
<1>1. jobRec' = [jobRec EXCEPT ![p] = r]
  BY DEF RemoveJob
<1>2. r.pc = jobRec[p].pc
  BY DEF TypeOK, JobReconciliation
<1> QED
  BY <1>1, <1>2, JobRecUpload DEF UploadInv, ActivatesUploaded

(* The watch passes on what roster entries report, or Preparing. *)
LEMMA WatchStepUpload ==
  ASSUME TypeOK, UploadInv, NEW p \in Player, WatchStep(p)
  PROVE  UploadInv'
<1> USE DEF etcdVars, k8sVars, podVars, jobCtrlVars, taskCtrlVars, castorVars,
            budgetVars
<1>a. UNCHANGED uploaded
  BY DEF WatchStep, RemotePut, RemoteDelete, JobPut, JobDelete
<1>b. Uploads
  BY <1>a DEF Uploads
<1>c. Pending(p) /\ Consume(p)
  BY DEF WatchStep, RemotePut, RemoteDelete, JobPut, JobDelete, Arrived
<1>d. EventsUploaded'
  BY <1>a, <1>c, ConsumeUpload
<1> DEFINE ev == NextEvent(p)
<1>e. /\ ev.player \in Player
      /\ ev.value.state = "Completed" => uploaded[ev.player]
  BY <1>c, NextEventType DEF NextEvent, UploadInv, EventsUploaded
<1> HIDE DEF ev
<1>1. CASE RemotePut(p)
  <2>1. TasksUploaded'
    <3> DEFINE s == ProxyStatus(p, ev.player, ev.value)
    <3>1. s.state = "Completed" => uploaded[ev.player]
      BY <1>e DEF ProxyStatus, JustPreparing
    <3>2. CASE task' = task
      BY <1>b, <3>2, UploadFrame
    <3>3. CASE task' = [task EXCEPT ![p][ev.player] = s]
      <4> HIDE DEF s
      <4> QED
        BY <1>a, <1>e, <3>1, <3>3, SetTaskUpload
    <3> QED
      BY <1>1, <3>2, <3>3 DEF RemotePut, ev
  <2> QED
    BY <1>1, <1>b, <1>d, <2>1, UploadFrame DEF RemotePut, UploadInv
<1>2. CASE RemoteDelete(p)
  <2>1. TasksUploaded'
    <3>1. task' = [task EXCEPT ![p][ev.player] = Absent]
      BY <1>2 DEF RemoteDelete, ev
    <3>2. Absent.state # "Completed"
      BY DEF Absent
    <3> QED
      BY <1>a, <1>e, <3>1, <3>2, SetTaskUpload
  <2> QED
    BY <1>2, <1>b, <1>d, <2>1, UploadFrame DEF RemoteDelete, UploadInv
<1>3. CASE JobPut(p)
  BY <1>3, <1>b, <1>d, UploadFrame DEF JobPut, UploadInv
<1>4. CASE JobDelete(p)
  <2>1. ActivatesUploaded'
    <3>1. CASE RemoveJob(p)
      BY <1>a, <3>1, RemoveJobUpload
    <3>2. CASE UNCHANGED jobRec
      BY <1>b, <3>2, UploadFrame
    <3> QED
      BY <1>4, <3>1, <3>2 DEF JobDelete
  <2> QED
    BY <1>4, <1>b, <1>d, <2>1, UploadFrame DEF JobDelete, UploadInv
<1> QED
  BY <1>1, <1>2, <1>3, <1>4 DEF WatchStep

(* A provisioner pod that succeeds has uploaded; the rest reports nothing. *)
LEMMA ClusterUpload ==
  ASSUME TypeOK, UploadInv, NEW p \in Player, Cluster(p)
  PROVE  UploadInv'
<1> USE DEF etcdVars, k8sVars, podVars, jobCtrlVars, taskCtrlVars, castorVars,
            budgetVars
<1>1. CASE AssignEndpoint(p)
  <2>1. Uploads
    BY <1>1 DEF AssignEndpoint, Uploads
  <2> QED
    BY <1>1, <2>1, UploadFrame DEF AssignEndpoint, UploadInv
<1>2. ASSUME NEW phase \in Outcomes, GeneratorEnds(p, phase)
      PROVE  UploadInv'
  <2>1. Uploads
    BY <1>2 DEF GeneratorEnds, Uploads
  <2> QED
    BY <1>2, <2>1, UploadFrame DEF GeneratorEnds, UploadInv
<1>3. ASSUME NEW phase \in Outcomes, ProvisionerEnds(p, phase)
      PROVE  UploadInv'
  <2>1. /\ uploaded' = [uploaded EXCEPT ![p] = @ \/ phase = "Succeeded"]
        /\ provPod' = [provPod EXCEPT ![p] = phase]
    BY <1>3 DEF ProvisionerEnds
  <2>2. Uploads
    BY <2>1 DEF Uploads, TypeOK
  <2>3. PodsUploaded'
    <3> SUFFICES ASSUME NEW q \in Player, provPod'[q] = "Succeeded"
                 PROVE  uploaded'[q]
      BY DEF PodsUploaded
    <3>1. CASE q = p
      BY <2>1, <3>1 DEF TypeOK
    <3>2. CASE q # p
      BY <2>1, <3>2 DEF TypeOK, UploadInv, PodsUploaded
    <3> QED
      BY <3>1, <3>2
  <2> QED
    BY <1>3, <2>2, <2>3, UploadFrame DEF ProvisionerEnds, UploadInv
<1>4. ASSUME NEW q \in Player, CollectTask(p, q)
      PROVE  UploadInv'
  <2>1. Uploads
    BY <1>4 DEF CollectTask, Uploads
  <2>2. TasksUploaded'
    <3>1. /\ task' = [task EXCEPT ![p][q] = Absent] /\ UNCHANGED uploaded
          /\ Absent.state # "Completed"
      BY <1>4 DEF CollectTask, Absent
    <3> QED
      BY <3>1, SetTaskUpload
  <2> QED
    BY <1>4, <2>1, <2>2, UploadFrame DEF CollectTask, UploadInv
<1>5. ASSUME NEW d \in Dependent, CollectDependent(p, d)
      PROVE  UploadInv'
  <2>1. Uploads
    BY <1>5 DEF CollectDependent, Uploads
  <2>2. PodsUploaded'
    <3>1. /\ provPod' = [provPod EXCEPT ![p] = IF d = "prov" THEN "Absent" ELSE @]
          /\ UNCHANGED uploaded
      BY <1>5 DEF CollectDependent
    <3> QED
      BY <3>1 DEF UploadInv, PodsUploaded, TypeOK
  <2> QED
    BY <1>5, <2>1, <2>2, UploadFrame DEF CollectDependent, UploadInv
<1> QED
  BY <1>1, <1>2, <1>3, <1>4, <1>5 DEF Cluster

(* A deletion of the job reports nothing. *)
LEMMA DeleteJobUpload ==
  ASSUME TypeOK, UploadInv, NEW p \in Player, DeleteJob(p)
  PROVE  UploadInv'
<1> USE DEF etcdVars, k8sVars, podVars, jobCtrlVars, taskCtrlVars, castorVars,
            budgetVars
<1>1. UNCHANGED uploaded /\ Uploads
  BY DEF DeleteJob, Uploads
<1>2. ActivatesUploaded'
  BY <1>1, RemoveJobUpload DEF DeleteJob
<1> QED
  BY <1>1, <1>2, UploadFrame DEF DeleteJob, UploadInv

(* Failing calls and restarts make the operator forget, not report. *)
LEMMA FailureUpload ==
  ASSUME TypeOK, UploadInv, NEW p \in Player, Failure(p)
  PROVE  UploadInv'
<1> USE DEF etcdVars, k8sVars, podVars, jobCtrlVars, taskCtrlVars, castorVars,
            budgetVars
<1>a. UNCHANGED uploaded
  BY DEF Failure, JobError, TaskError, HandlerError, Rewatch, Crash
<1>b. Uploads
  BY <1>a DEF Uploads
<1>c. JobIdle.pc # "activate"
  BY DEF JobIdle
<1>1. CASE JobError(p)
  <2>1. ActivatesUploaded'
    BY <1>1, <1>a, <1>c, JobRecUpload DEF JobError
  <2> QED
    BY <1>1, <1>b, <2>1, UploadFrame DEF JobError, UploadInv
<1>2. CASE TaskError(p)
  <2>1. WritesUploaded'
    BY <1>2, <1>a, TaskEndUpload DEF TaskError, TaskWait
  <2> QED
    BY <1>2, <1>b, <2>1, UploadFrame DEF TaskError, UploadInv
<1>3. CASE HandlerError(p)
  <2>1. EventsUploaded'
    BY <1>3, <1>a, ConsumeUpload DEF HandlerError
  <2>2. TasksUploaded'
    <3> DEFINE q == NextEvent(p).player
    <3>1. q \in Player /\ NoStatus.state # "Completed"
      BY <1>3, NextEventType DEF HandlerError, NoStatus
    <3>2. CASE UNCHANGED task
      BY <1>b, <3>2, UploadFrame
    <3>3. CASE task' = [task EXCEPT ![p][q] = NoStatus]
      <4> HIDE DEF q
      <4> QED
        BY <1>a, <3>1, <3>3, SetTaskUpload
    <3> QED
      BY <1>3, <3>2, <3>3 DEF HandlerError
  <2> QED
    BY <1>3, <1>b, <2>1, <2>2, UploadFrame DEF HandlerError, UploadInv
<1>4. CASE Rewatch(p)
  BY <1>4, <1>b, UploadFrame DEF Rewatch, UploadInv
<1>5. CASE Crash(p)
  <2>1. ActivatesUploaded'
    BY <1>5, <1>a, <1>c, JobRecUpload DEF Crash
  <2>2. WritesUploaded'
    BY <1>5, <1>a, TaskEndUpload DEF Crash, TaskWait
  <2> QED
    BY <1>5, <1>b, <2>1, <2>2, UploadFrame DEF Crash, UploadInv
<1> QED
  BY <1>1, <1>2, <1>3, <1>4, <1>5 DEF Failure

----------------------------------------------------------------------------
(* The inductive invariant: no task is reported as completed, in a pod     *)
(* phase, a pending write, a roster entry, a watch event, a task, a proxy  *)
(* or an activation, before the provisioner's upload to Castor.            *)
THEOREM ReportsFollowUploads == Spec => []UploadInv
<1>1. Init => UploadInv
  <2> SUFFICES ASSUME Init PROVE UploadInv
    OBVIOUS
  <2>1. PodsUploaded /\ EntriesUploaded /\ TasksUploaded
    BY DEF Init, PodsUploaded, EntriesUploaded, TasksUploaded, Absent
  <2>2. WritesUploaded
    BY DEF Init, WritesUploaded, TaskIdle, Absent
  <2>3. EventsUploaded
    <3>1. inbox = [p \in Player |-> <<>>]
      BY DEF Init
    <3> QED
      BY <3>1, EmptySeq DEF EventsUploaded
  <2>4. ActivatesUploaded /\ ActivatedImpliesAllUploaded
    BY DEF Init, ActivatesUploaded, ActivatedImpliesAllUploaded, JobIdle
  <2> QED
    BY <2>1, <2>2, <2>3, <2>4 DEF UploadInv
<1>2. TypeOK /\ UploadInv /\ [Next]_vars => UploadInv'
  <2> SUFFICES ASSUME TypeOK, UploadInv, [Next]_vars PROVE UploadInv'
    OBVIOUS
  <2>1. CASE Next
    BY <2>1, JobStepUpload, TaskStepUpload, WatchStepUpload, ClusterUpload,
       DeleteJobUpload, FailureUpload DEF Next
  <2>2. CASE UNCHANGED vars
    <3>1. Uploads /\ UNCHANGED <<provPod, taskRec, entry, inbox, task, jobRec, activated>>
      BY <2>2 DEF vars, etcdVars, k8sVars, podVars, jobCtrlVars, taskCtrlVars,
         castorVars, Uploads
    <3> QED
      BY <3>1, UploadFrame DEF UploadInv
  <2> QED
    BY <2>1, <2>2
<1> QED
  BY <1>1, <1>2, TypeCorrect, PTL DEF Spec

(* A VCP's Castor serves a tuple chunk only if every VCP has uploaded its  *)
(* shares of it (ActivateTupleChunk in the job controller's Reconcile),    *)
(* for any number of VCPs, restarts, failing calls and deletions.          *)
THEOREM ActivationSafe == Spec => []ActivatedImpliesAllUploaded
<1>1. UploadInv => ActivatedImpliesAllUploaded
  BY DEF UploadInv
<1> QED
  BY <1>1, ReportsFollowUploads, PTL

=============================================================================
