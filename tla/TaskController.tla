--------------------------- MODULE TaskController ---------------------------
(***************************************************************************)
(* TupleGenerationTaskReconciler.Reconcile of one VCP.  It only ever works *)
(* on the local task: events of proxies are redirected to it.  The state   *)
(* of the task is the value of its roster entry in etcd, copied to the     *)
(* task resource in each pass; a pass performs the side effects of the     *)
(* current state and then writes the next state to etcd.  One worker per   *)
(* VCP.  A pass is split where it writes to etcd.  Definitions with a      *)
(* suffix (Op_Variant) are faulty variants; no action uses them.           *)
(***************************************************************************)
EXTENDS KlyshkoBase

TaskStart(p) == taskQ[p] /\ taskRec[p].pc = "idle"
TaskDequeue(p) == taskQ' = [taskQ EXCEPT ![p] = FALSE]

(* Task resource not found: its roster entry is deleted. *)
TaskCleanup(p) ==
  /\ TaskStart(p) /\ ~Exists(p, p)
  /\ TaskDequeue(p)
  /\ entry' = [entry EXCEPT ![p] = Absent]
  /\ IF entry[p] # Absent THEN Publish(Others(p), EntryDelete(p))
                          ELSE UNCHANGED inbox
  /\ UNCHANGED <<roster, handled, k8sVars, jobCtrlVars, taskRec, castorVars,
                 budgetVars>>

(* Create the roster entry and go on. *)
TaskCreateEntry_Always(p) ==
  /\ TaskStart(p) /\ Exists(p, p)
  /\ TaskDequeue(p)
  /\ entry' = [entry EXCEPT ![p] = JustPreparing]
  /\ Publish(Others(p), EntryPut(p, JustPreparing))
  /\ taskRec' = [taskRec EXCEPT ![p].pc = "act"]
  /\ UNCHANGED <<roster, handled, k8sVars, jobCtrlVars, castorVars, budgetVars>>
TaskCreateEntry(p) ==
  /\ TaskStart(p) /\ Exists(p, p) /\ entry[p] = Absent
  /\ TaskDequeue(p)
  /\ entry' = [entry EXCEPT ![p] = JustPreparing]
  /\ Publish(Others(p), EntryPut(p, JustPreparing))
  /\ taskRec' = [taskRec EXCEPT ![p].pc = "act"]
  /\ UNCHANGED <<roster, handled, k8sVars, jobCtrlVars, castorVars, budgetVars>>

(* The pass goes on with a roster entry in place. *)
TaskResume(p) ==
  \/ taskRec[p].pc = "act"
  \/ TaskStart(p) /\ Exists(p, p) /\ entry[p] # Absent

(* The job is gone, or the task is: the pass fails and is retried. *)
TaskLookupFails(p) ==
  /\ TaskResume(p) /\ (job[p] = "Absent" \/ ~Exists(p, p))
  /\ taskRec' = [taskRec EXCEPT ![p] = TaskIdle]
  /\ taskQ' = [taskQ EXCEPT ![p] = TRUE]
  /\ UNCHANGED <<etcdVars, k8sVars, jobCtrlVars, castorVars, budgetVars>>

(* Otherwise the entry's status is copied to the task resource, and the    *)
(* pass proceeds by its state.                                             *)
TaskPass(p, s) ==
  /\ TaskResume(p) /\ job[p] # "Absent" /\ Exists(p, p) /\ entry[p].state = s
  /\ task' = [task EXCEPT ![p][p] = entry[p]]
  /\ jobQ' = [jobQ EXCEPT ![p] = @ \/ TasksChanged(p)]

(* It ends with a new status to write, by waiting for the next event, or   *)
(* with an error, and is then retried.  ev: it caused an event itself.     *)
setStatus(p, s) == taskRec' = [taskRec EXCEPT ![p] = [pc |-> "put", status |-> s]]
setState(p, s) == setStatus(p, [entry[p] EXCEPT !.state = s])
TaskWait(p) == taskRec' = [taskRec EXCEPT ![p] = TaskIdle]
TaskRequeue(p, ev) ==
  taskQ' = [taskQ EXCEPT
    ![p] = (@ /\ taskRec[p].pc = "act") \/ TasksChanged(p) \/ ev]

(* The tasks known on p, and the endpoints known from them, the local one *)
(* as just copied from the entry.                                         *)
tasksForJob(p) == {q \in Player : Exists(p, q)}
endpoints(p) ==
  {q \in Player : IF q = p THEN entry[p].endpoint ELSE task[p][q].endpoint}

AllEndpointsKnown_LocalOnly(p) == p \in endpoints(p)
AllEndpointsKnown(p) == endpoints(p) = Player

getOrCreatePVC_Never(p) == UNCHANGED pvc
getOrCreatePVC(p) == pvc' = [pvc EXCEPT ![p] = TRUE]
getOrCreateService(p) ==
  svc' = [svc EXCEPT ![p] = IF @ = "Absent" THEN "Pending" ELSE @]
endpoint(p) == svc[p] = "Ready"

(* getOrCreatePVC and getOrCreateService; proceed once the endpoints of    *)
(* all players are known, publishing the local one when it is there.       *)
TaskPrepare(p) ==
  /\ TaskPass(p, "Preparing")
  /\ getOrCreatePVC(p) /\ getOrCreateService(p)
  /\ TaskRequeue(p, svc[p] = "Absent")
  /\ \/ /\ AllEndpointsKnown(p)
        /\ setState(p, "Launching")
     \/ /\ ~AllEndpointsKnown(p) /\ p \notin endpoints(p) /\ endpoint(p)
        /\ setStatus(p, [entry[p] EXCEPT !.endpoint = TRUE])
     \/ /\ ~AllEndpointsKnown(p)
        /\ p \in endpoints(p) \/ ~endpoint(p)
        /\ TaskWait(p)
  /\ UNCHANGED <<etcdVars, job, orphan, genPod, peers, provPod, stale, jobRec,
                 castorVars, budgetVars>>

(* An existing pod is taken as it is; a new one needs a task for every     *)
(* player and is given the endpoints known at this point.                  *)
createGeneratorPod(p) ==
  \/ genPod[p] # "Absent" /\ UNCHANGED <<genPod, peers>>
  \/ /\ genPod[p] = "Absent" /\ tasksForJob(p) = Player
     /\ genPod' = [genPod EXCEPT ![p] = "Running"]
     /\ peers' = [peers EXCEPT ![p] = endpoints(p)]

(* Create the generator pod; without a task for every player, fail. *)
TaskLaunch(p) ==
  /\ TaskPass(p, "Launching")
  /\ \/ /\ createGeneratorPod(p)
        /\ setState(p, "Generating") /\ TaskRequeue(p, genPod[p] = "Absent")
     \/ /\ genPod[p] = "Absent" /\ tasksForJob(p) # Player
        /\ TaskWait(p) /\ TaskRequeue(p, TRUE)
        /\ UNCHANGED <<genPod, peers>>
  /\ UNCHANGED <<etcdVars, job, orphan, provPod, svc, pvc, stale, jobRec,
                 castorVars, budgetVars>>

(* An existing pod is taken as it is. *)
createProvisionerPod(p) ==
  provPod' = [provPod EXCEPT ![p] = IF @ = "Absent" THEN "Running" ELSE @]

(* Generation finished: create the provisioner pod, or fail. *)
TaskGenerate(p) ==
  /\ TaskPass(p, "Generating")
  /\ \/ /\ genPod[p] = "Succeeded"
        /\ createProvisionerPod(p)
        /\ setState(p, "Provisioning") /\ TaskRequeue(p, provPod[p] = "Absent")
     \/ /\ genPod[p] = "Failed"
        /\ setState(p, "Failed") /\ TaskRequeue(p, FALSE)
        /\ UNCHANGED provPod
     \/ /\ genPod[p] \in {"Running", "Absent"}
        /\ TaskWait(p) /\ TaskRequeue(p, genPod[p] = "Absent")
        /\ UNCHANGED provPod
  /\ UNCHANGED <<etcdVars, job, orphan, genPod, peers, svc, pvc, stale, jobRec,
                 castorVars, budgetVars>>

(* Provisioning finished. *)
TaskProvision(p) ==
  /\ TaskPass(p, "Provisioning")
  /\ \/ /\ provPod[p] = "Succeeded"
        /\ setState(p, "Completed") /\ TaskRequeue(p, FALSE)
     \/ /\ provPod[p] = "Failed"
        /\ setState(p, "Failed") /\ TaskRequeue(p, FALSE)
     \/ /\ provPod[p] \in {"Running", "Absent"}
        /\ TaskWait(p) /\ TaskRequeue(p, provPod[p] = "Absent")
  /\ UNCHANGED <<etcdVars, job, orphan, podVars, jobRec, castorVars, budgetVars>>

(* In a terminal state the claim is deleted; that it is gone is an error, *)
(* so that every later pass fails and is retried.                         *)
deletePVC(p) == pvc' = [pvc EXCEPT ![p] = FALSE]
TaskFinish(p) ==
  /\ \E s \in Terminal : TaskPass(p, s)
  /\ deletePVC(p)
  /\ TaskWait(p) /\ TaskRequeue(p, ~pvc[p])
  /\ UNCHANGED <<etcdVars, job, orphan, genPod, peers, provPod, svc, stale,
                 jobRec, castorVars, budgetVars>>

(* setStatus: write the new status to etcd and requeue. *)
TaskPut(p) ==
  /\ taskRec[p].pc = "put"
  /\ entry' = [entry EXCEPT ![p] = taskRec[p].status]
  /\ Publish(Others(p), EntryPut(p, taskRec[p].status))
  /\ taskRec' = [taskRec EXCEPT ![p] = TaskIdle]
  /\ taskQ' = [taskQ EXCEPT ![p] = TRUE]
  /\ UNCHANGED <<roster, handled, k8sVars, jobCtrlVars, castorVars, budgetVars>>

(* A call fails: Reconcile returns an error and is retried. *)
TaskError(p) ==
  /\ taskRec[p].pc # "idle" /\ MayFail(p)
  /\ faults' = faults + 1
  /\ taskRec' = [taskRec EXCEPT ![p] = TaskIdle]
  /\ taskQ' = [taskQ EXCEPT ![p] = TRUE]
  /\ UNCHANGED <<etcdVars, k8sVars, jobCtrlVars, castorVars, crashes, deletes>>

TaskStep(p) ==
  \/ TaskCleanup(p) \/ TaskCreateEntry(p) \/ TaskLookupFails(p)
  \/ TaskPrepare(p) \/ TaskLaunch(p) \/ TaskGenerate(p) \/ TaskProvision(p)
  \/ TaskFinish(p) \/ TaskPut(p)

=============================================================================
