---------------------------- MODULE KlyshkoBase ----------------------------
(***************************************************************************)
(* State shared by the parts of the Klyshko operator, for one tuple        *)
(* generation job.  Each virtual cloud provider (VCP, "player") runs one   *)
(* operator process against its own Kubernetes API server; all of them     *)
(* share one etcd cluster, which holds the roster of the job (written by   *)
(* player 0, the master) and one roster entry per player (written by that  *)
(* player's task controller).                                              *)
(*                                                                         *)
(* Reads of Kubernetes objects see the API server's state: lag of the      *)
(* informer caches is not modelled, but everything a reconciliation has    *)
(* read is kept until the step that uses it.  Definitions with a suffix    *)
(* (Op_Variant) are faulty variants; no action uses them.                  *)
(***************************************************************************)
EXTENDS Naturals, Sequences

CONSTANTS
  N,            \* number of VCPs (playerCount of the VCP configuration)
  Creator,      \* the VCP on which the job resource is created
  Flaky,        \* the VCPs whose operator may restart or meet failing calls
  MaxCrashes,   \* bound: operator restarts in a behaviour
  MaxFaults,    \* bound: failing calls to etcd, Kubernetes or Castor
  MaxUnacked,   \* bound: events handled since the last persisted head
  MaxInbox,     \* bound: roster events a watch can lag behind
  MaxDeletes,   \* bound: deletions of the job resource by its creator
  Outcomes,     \* how pods may end: a subset of {"Succeeded", "Failed"}
  Deletable     \* the job states in which its creator may delete the job

(* parseVCPConfig accepts a player ID only if it is below the player count. *)
ASSUME NAssumption == N \in Nat \ {0}
ASSUME CreatorAssumption == Creator \in 0 .. N - 1
ASSUME BoundAssumption ==
  /\ Flaky \subseteq 0 .. N - 1
  /\ MaxCrashes \in Nat /\ MaxFaults \in Nat /\ MaxUnacked \in Nat
  /\ MaxInbox \in Nat /\ MaxDeletes \in Nat
  /\ Deletable \subseteq {"", "Pending", "Running", "Completed", "Failed"}
  /\ Outcomes \in SUBSET {"Succeeded", "Failed"}

Player == 0 .. N - 1
Master == 0

(***************************************************************************)
(* Task status: the state and whether an endpoint is set.  A task or       *)
(* roster entry that does not exist has the status Absent; a task created  *)
(* without a status has the empty state.                                   *)
(***************************************************************************)
TaskState == {"Preparing", "Launching", "Generating", "Provisioning",
              "Completed", "Failed"}
Terminal == {"Completed", "Failed"}
Status == [state : TaskState \cup {"", "Absent"}, endpoint : BOOLEAN]
Absent == [state |-> "Absent", endpoint |-> FALSE]
NoStatus == [state |-> "", endpoint |-> FALSE]
JustPreparing == [state |-> "Preparing", endpoint |-> FALSE]

JobState == {"", "Pending", "Running", "Completed", "Failed"}
JobDone == {"Completed", "Failed"}

PodPhase == {"Absent", "Running", "Succeeded", "Failed"}
Dependent == {"gen", "prov", "svc"}

(* Roster watch events; the value of a roster event is of no interest. *)
Event == [kind : {"roster", "entry"}, player : Player,
          type : {"PUT", "DELETE"}, value : Status]
RosterEvent(t) == [kind |-> "roster", player |-> Master, type |-> t,
                   value |-> Absent]
EntryPut(q, s) == [kind |-> "entry", player |-> q, type |-> "PUT", value |-> s]
EntryDelete(q) == [kind |-> "entry", player |-> q, type |-> "DELETE",
                   value |-> Absent]

VARIABLES
  \* etcd
  roster,    \* does the roster key exist?
  entry,     \* entry[q]: value of q's roster entry, or Absent
  inbox,     \* inbox[p]: roster events after p's persisted head revision
  handled,   \* handled[p]: how many of them the current watch has handled
  \* Kubernetes objects of each VCP
  job,       \* job[p]: state of the job resource, or "Absent"
  task,      \* task[p][q]: status of q's task on p (q # p: a proxy)
  orphan,    \* orphan[p]: players whose task on p belongs to a deleted job
  genPod,    \* genPod[p]: phase of the generator pod
  peers,     \* peers[p]: players whose endpoint the generator pod was given
  provPod,   \* provPod[p]: phase of the provisioner pod
  svc,       \* svc[p]: the load balancer service: "Absent", "Pending", "Ready"
  pvc,       \* pvc[p]: does the persistent volume claim exist?
  stale,     \* stale[p]: dependents whose owning task is deleted
  \* the controllers of each VCP
  jobQ,      \* jobQ[p]: is the job in the job controller's work queue?
  jobRec,    \* jobRec[p]: the job controller's reconciliation in progress
  taskQ,     \* taskQ[p]: is the local task in the task controller's queue?
  taskRec,   \* taskRec[p]: the task controller's reconciliation in progress
  \* Castor of each VCP
  uploaded,  \* uploaded[p]: p's tuple shares are stored in p's Castor
  activated, \* activated[p]: p's Castor serves the tuple chunk
  \* budgets
  crashes, faults, deletes

etcdVars == <<roster, entry, inbox, handled>>
podVars == <<genPod, peers, provPod, svc, pvc, stale>>
k8sVars == <<job, task, orphan, podVars>>
jobCtrlVars == <<jobQ, jobRec>>
taskCtrlVars == <<taskQ, taskRec>>
castorVars == <<uploaded, activated>>
budgetVars == <<crashes, faults, deletes>>
vars == <<etcdVars, k8sVars, jobCtrlVars, taskCtrlVars, castorVars, budgetVars>>

(***************************************************************************)
(* A reconciliation in progress, where other actors can run in between.    *)
(* state / status: what it has read or is about to write.  live: the job   *)
(* it has read is still the API server's job, so that an update of it does *)
(* not fail with a conflict.                                               *)
(***************************************************************************)
JobPc == {"idle", "task", "activate", "update"}
JobReconciliation == [pc : JobPc, live : BOOLEAN, state : JobState]
JobIdle == [pc |-> "idle", live |-> FALSE, state |-> ""]
TaskPc == {"idle", "act", "put"}
TaskReconciliation == [pc : TaskPc, status : Status]
TaskIdle == [pc |-> "idle", status |-> Absent]

(***************************************************************************)
(* Appending an event to the watches of the players in P.  The watch of a  *)
(* player skips the events of its own roster entry (handleWatchEvent), so  *)
(* these are left out of its inbox.                                        *)
(***************************************************************************)
Publish(P, ev) ==
  /\ \A q \in P : Len(inbox[q]) < MaxInbox
  /\ inbox' = [q \in Player |->
                 IF q \in P THEN Append(inbox[q], ev) ELSE inbox[q]]
PublishRoster(t) == Publish(Player, RosterEvent(t))
Others(p) == Player \ {p}

MayFail(p) == p \in Flaky /\ faults < MaxFaults

Exists(p, q) == task[p][q].state # "Absent"

(* A change of the tasks of p reconciles the job that owns them and the    *)
(* local task (the reconciliation of a proxy is redirected to it).         *)
TasksChanged(p) == task'[p] # task[p]
TaskEvents_NoRedirect(p) ==
  /\ jobQ' = [jobQ EXCEPT ![p] = @ \/ TasksChanged(p)]
  /\ taskQ' = [taskQ EXCEPT ![p] = @ \/ task'[p][p] # task[p][p]]
TaskEvents(p) ==
  /\ jobQ' = [jobQ EXCEPT ![p] = @ \/ TasksChanged(p)]
  /\ taskQ' = [taskQ EXCEPT ![p] = @ \/ TasksChanged(p)]

(* Kubernetes: deleting the job leaves its tasks to the garbage collector. *)
RemoveJob(p) ==
  /\ job' = [job EXCEPT ![p] = "Absent"]
  /\ orphan' = [orphan EXCEPT ![p] = {q \in Player : Exists(p, q)}]
  /\ jobRec' = [jobRec EXCEPT ![p].live = FALSE]
  /\ jobQ' = [jobQ EXCEPT ![p] = TRUE]

=============================================================================
