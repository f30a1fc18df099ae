--------------------------- MODULE JobController ---------------------------
(***************************************************************************)
(* TupleGenerationJobReconciler.Reconcile of one VCP: it maintains the     *)
(* roster (master only), creates the local task, derives the job's state   *)
(* from the states of all tasks known locally, and activates the tuple     *)
(* chunk in Castor.  One worker per VCP.  A pass is split where it writes  *)
(* to etcd, to Castor or to the job's status.  Definitions with a suffix   *)
(* (Op_Variant) are faulty variants of the operator they precede; no       *)
(* action uses them.                                                       *)
(***************************************************************************)
EXTENDS KlyshkoBase

JobStart(p) == jobQ[p] /\ jobRec[p].pc = "idle"
JobDequeue(p) == jobQ' = [jobQ EXCEPT ![p] = FALSE]

(* Job resource not found: the master deletes the roster. *)
JobCleanup_KeepRoster(p) ==
  /\ JobStart(p) /\ job[p] = "Absent"
  /\ JobDequeue(p)
  /\ UNCHANGED <<etcdVars, k8sVars, jobRec, taskCtrlVars, castorVars,
                 budgetVars>>
JobCleanup(p) ==
  /\ JobStart(p) /\ job[p] = "Absent"
  /\ JobDequeue(p)
  /\ IF p = Master /\ roster
     THEN roster' = FALSE /\ PublishRoster("DELETE")
     ELSE UNCHANGED <<roster, inbox>>
  /\ UNCHANGED <<entry, handled, k8sVars, jobRec, taskCtrlVars, castorVars,
                 budgetVars>>

(* No roster: the master creates it and goes on; the others give up        *)
(* without requeueing.                                                     *)
JobCreateRoster(p) ==
  /\ JobStart(p) /\ job[p] # "Absent" /\ ~roster
  /\ JobDequeue(p)
  /\ IF p = Master
     THEN /\ roster' = TRUE /\ PublishRoster("PUT")
          /\ jobRec' = [jobRec EXCEPT
               ![p] = [pc |-> "task", live |-> TRUE, state |-> job[p]]]
     ELSE UNCHANGED <<roster, inbox, jobRec>>
  /\ UNCHANGED <<entry, handled, k8sVars, taskCtrlVars, castorVars, budgetVars>>

(* The pass goes on with a roster in place, and the job as it was read. *)
JobResume(p) ==
  \/ jobRec[p].pc = "task"
  \/ JobStart(p) /\ job[p] # "Absent" /\ roster
JobSeen(p) == IF jobRec[p].pc = "task" THEN jobRec[p]
              ELSE [pc |-> "task", live |-> TRUE, state |-> job[p]]

(* Create the local task and requeue.  It is garbage from the start if the *)
(* job that owns it has been deleted meanwhile.                            *)
JobCreateTask(p) ==
  /\ JobResume(p) /\ ~Exists(p, p)
  /\ task' = [task EXCEPT ![p][p] = NoStatus]
  /\ orphan' = [orphan EXCEPT
       ![p] = IF JobSeen(p).live THEN @ ELSE @ \cup {p}]
  /\ jobRec' = [jobRec EXCEPT ![p] = JobIdle]
  /\ jobQ' = [jobQ EXCEPT ![p] = TRUE]
  /\ taskQ' = [taskQ EXCEPT ![p] = TRUE]
  /\ UNCHANGED <<etcdVars, job, podVars, taskRec, castorVars, budgetVars>>

(* Helpers over the tasks owned by the job. *)
allTerminated_LocalOnly(p) == task[p][p].state \in Terminal
allTerminated_Any(p) == \E q \in Player : task[p][q].state \in Terminal
allTerminated(p) ==
  \A q \in Player : Exists(p, q) => task[p][q].state \in Terminal

anyFailed_LocalOnly(p) == task[p][p].state = "Failed"
anyFailed(p) == \E q \in Player : task[p][q].state = "Failed"

(* The job state implied by the tasks owned by the job; the empty state if *)
(* the job is known to be completed already.                               *)
DerivedState(p, seen) ==
  IF \E q \in Player : ~Exists(p, q) THEN "Pending"
  ELSE IF ~allTerminated(p) THEN "Running"
  ELSE IF anyFailed(p) THEN "Failed"
  ELSE IF seen # "Completed" THEN "Completed" ELSE ""

(* Status().Update of the job: it causes an event; it fails, and the pass is *)
(* retried, if the job read by the pass is not the current one.              *)
StatusUpdate(p, live, s) ==
  /\ job' = [job EXCEPT ![p] = IF live THEN s ELSE @]
  /\ jobQ' = [jobQ EXCEPT ![p] = TRUE]

(* A completed job is activated first, and its status updated afterwards. *)
Activating(live) == [pc |-> "activate", live |-> live, state |-> "Completed"]
JobComplete_StatusFirst(p, live) ==
  /\ jobRec' = [jobRec EXCEPT ![p] = Activating(live)]
  /\ StatusUpdate(p, live, "Completed")
JobComplete(p, live) ==
  /\ jobRec' = [jobRec EXCEPT ![p] = Activating(live)]
  /\ jobQ' = [jobQ EXCEPT ![p] = @ /\ jobRec[p].pc = "task"]
  /\ UNCHANGED job

(* With the local task in place, bring the job's state to the derived one. *)
JobDerive(p) ==
  /\ JobResume(p) /\ Exists(p, p)
  /\ LET seen == JobSeen(p)
         next == DerivedState(p, seen.state)
     IN  \/ next = "Completed" /\ JobComplete(p, seen.live)
         \/ /\ next # "Completed" /\ next \in {"", seen.state}
            /\ jobRec' = [jobRec EXCEPT ![p] = JobIdle]
            /\ jobQ' = [jobQ EXCEPT ![p] = @ /\ jobRec[p].pc = "task"]
            /\ UNCHANGED job
         \/ /\ next \notin {"", seen.state, "Completed"}
            /\ jobRec' = [jobRec EXCEPT ![p] = JobIdle]
            /\ StatusUpdate(p, seen.live, next)
  /\ UNCHANGED <<etcdVars, task, orphan, podVars, taskCtrlVars, castorVars,
                 budgetVars>>

(* ActivateTupleChunk on the local Castor, before the status is updated. *)
JobActivate(p) ==
  /\ jobRec[p].pc = "activate"
  /\ activated' = [activated EXCEPT ![p] = TRUE]
  /\ jobRec' = [jobRec EXCEPT ![p].pc = "update"]
  /\ UNCHANGED <<etcdVars, k8sVars, jobQ, taskCtrlVars, uploaded, budgetVars>>

(* The status update after the activation. *)
JobUpdate(p) ==
  /\ jobRec[p].pc = "update"
  /\ StatusUpdate(p, jobRec[p].live, jobRec[p].state)
  /\ jobRec' = [jobRec EXCEPT ![p] = JobIdle]
  /\ UNCHANGED <<etcdVars, task, orphan, podVars, taskCtrlVars, castorVars,
                 budgetVars>>

(* A call fails: Reconcile returns an error and is retried. *)
JobError(p) ==
  /\ jobRec[p].pc # "idle" /\ MayFail(p)
  /\ faults' = faults + 1
  /\ jobRec' = [jobRec EXCEPT ![p] = JobIdle]
  /\ jobQ' = [jobQ EXCEPT ![p] = TRUE]
  /\ UNCHANGED <<etcdVars, k8sVars, taskCtrlVars, castorVars, crashes, deletes>>

JobStep(p) ==
  \/ JobCleanup(p) \/ JobCreateRoster(p) \/ JobCreateTask(p) \/ JobDerive(p)
  \/ JobActivate(p) \/ JobUpdate(p)

=============================================================================
