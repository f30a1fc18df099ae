--------------------------- MODULE Klyshko_proofs ---------------------------
(***************************************************************************)
(* Type correctness of Klyshko, for any number of VCPs and any bounds, and *)
(* what the other proofs about Klyshko have in common.                     *)
(***************************************************************************)
EXTENDS Klyshko, SequenceTheorems, TLAPS

----------------------------------------------------------------------------
(* Facts about the data. *)

(* The statuses the code writes by name are statuses. *)
LEMMA StatusFacts ==
  /\ Absent \in Status /\ NoStatus \in Status /\ JustPreparing \in Status
  /\ \A s \in Status, x \in TaskState : [s EXCEPT !.state = x] \in Status
  /\ \A s \in Status : [s EXCEPT !.endpoint = TRUE] \in Status
BY DEF Absent, NoStatus, JustPreparing, Status, TaskState

(* The records that describe a reconciliation in progress. *)
LEMMA ReconciliationFacts ==
  /\ JobIdle \in JobReconciliation
  /\ \A pc \in JobPc, b \in BOOLEAN, s \in JobState :
       [pc |-> pc, live |-> b, state |-> s] \in JobReconciliation
  /\ \A r \in JobReconciliation :
       /\ r.pc \in JobPc /\ r.live \in BOOLEAN /\ r.state \in JobState
       /\ [r EXCEPT !.live = FALSE] \in JobReconciliation
       /\ [r EXCEPT !.pc = "update"] \in JobReconciliation
  /\ TaskIdle \in TaskReconciliation
  /\ \A s \in Status : [pc |-> "put", status |-> s] \in TaskReconciliation
  /\ \A r \in TaskReconciliation :
       /\ r.pc \in TaskPc /\ r.status \in Status
       /\ [r EXCEPT !.pc = "act"] \in TaskReconciliation
BY StatusFacts DEF JobIdle, JobReconciliation, JobPc, JobState, TaskIdle,
   TaskReconciliation, TaskPc

(* The events the controllers publish are events. *)
LEMMA EventFacts ==
  /\ \A t \in {"PUT", "DELETE"} : RosterEvent(t) \in Event
  /\ \A q \in Player : EntryDelete(q) \in Event
  /\ \A q \in Player, s \in Status : EntryPut(q, s) \in Event
<1>1. Master \in Player
  BY NAssumption DEF Master, Player
<1> QED
  BY <1>1, StatusFacts DEF RosterEvent, EntryDelete, EntryPut, Event

(* Every event in an inbox is about a player. *)
LEMMA EventsTyped ==
  ASSUME TypeOK, NEW p \in Player, NEW i \in 1 .. Len(inbox[p])
  PROVE  inbox[p][i] \in Event /\ inbox[p][i].player \in Player
<1>1. inbox[p] \in Seq(Event)
  BY DEF TypeOK
<1>2. inbox[p][i] \in Event
  BY <1>1, ElementOfSeq
<1> QED
  BY <1>2 DEF Event

(* Publishing appends events to inboxes. *)
LEMMA PublishFacts ==
  ASSUME TypeOK, NEW P \in SUBSET Player, NEW ev \in Event, Publish(P, ev)
  PROVE  /\ inbox' \in [Player -> Seq(Event)]
         /\ \A q \in Player :
              /\ Len(inbox[q]) <= Len(inbox'[q])
              /\ \A i \in 1 .. Len(inbox'[q]) :
                   \/ inbox'[q][i] = ev
                   \/ i \in 1 .. Len(inbox[q]) /\ inbox'[q][i] = inbox[q][i]
<1>1. inbox' = [q \in Player |->
                  IF q \in P THEN Append(inbox[q], ev) ELSE inbox[q]]
  BY DEF Publish
<1>2. ASSUME NEW q \in Player
      PROVE  /\ inbox[q] \in Seq(Event)
             /\ Append(inbox[q], ev) \in Seq(Event)
             /\ Len(Append(inbox[q], ev)) = Len(inbox[q]) + 1
             /\ \A i \in 1 .. Len(inbox[q]) :
                  Append(inbox[q], ev)[i] = inbox[q][i]
             /\ Append(inbox[q], ev)[Len(inbox[q]) + 1] = ev
  <2>1. inbox[q] \in Seq(Event)
    BY DEF TypeOK
  <2> QED
    BY <2>1, AppendProperties
<1> QED
  BY <1>1, <1>2

(* Consuming an event leaves a suffix of the inbox, and the cursor in it. *)
LEMMA ConsumeFacts ==
  ASSUME TypeOK, NEW p \in Player, Pending(p), Consume(p)
  PROVE  /\ inbox' \in [Player -> Seq(Event)]
         /\ handled' \in [Player -> Nat]
         /\ \A q \in Player : handled'[q] <= Len(inbox'[q])
         /\ \A q \in Player : \A i \in 1 .. Len(inbox'[q]) :
              \E j \in 1 .. Len(inbox[q]) : inbox'[q][i] = inbox[q][j]
<1> DEFINE rest == SubSeq(inbox[p], handled[p] + 2, Len(inbox[p]))
<1>1. /\ inbox[p] \in Seq(Event) /\ Len(inbox[p]) \in Nat
      /\ handled[p] \in Nat /\ handled[p] + 1 <= Len(inbox[p])
      /\ \A i \in 1 .. Len(inbox[p]) : inbox[p][i] \in Event
  BY DEF TypeOK, Pending
<1>2. /\ rest \in Seq(Event)
      /\ \A i \in 1 .. Len(rest) :
           \E j \in 1 .. Len(inbox[p]) : rest[i] = inbox[p][j]
  <2> DEFINE m == handled[p] + 2
             n == Len(inbox[p])
  <2>1. m \in Int /\ n \in Int /\ m > 0 /\ \A i \in m .. n : inbox[p][i] \in Event
    BY <1>1
  <2>2. /\ rest \in Seq(Event)
        /\ Len(rest) = IF m <= n THEN n - m + 1 ELSE 0
        /\ \A i \in 1 .. n - m + 1 : rest[i] = inbox[p][m + i - 1]
    BY <2>1, SubSeqProperties
  <2>3. ASSUME NEW i \in 1 .. Len(rest)
        PROVE  \E j \in 1 .. Len(inbox[p]) : rest[i] = inbox[p][j]
    <3>1. i \in 1 .. n - m + 1 /\ m + i - 1 \in 1 .. n
      <4> HIDE DEF rest
      <4> QED
        BY <2>1, <2>2
    <3> QED
      BY <2>2, <3>1
  <2> QED
    BY <2>2, <2>3
<1> HIDE DEF rest
<1>3. CASE /\ inbox' = [inbox EXCEPT ![p] = rest]
           /\ handled' = [handled EXCEPT ![p] = 0]
  <2>1. inbox' \in [Player -> Seq(Event)] /\ handled' \in [Player -> Nat]
    BY <1>2, <1>3 DEF TypeOK
  <2>2. ASSUME NEW q \in Player
        PROVE  /\ handled'[q] <= Len(inbox'[q])
               /\ \A i \in 1 .. Len(inbox'[q]) :
                    \E j \in 1 .. Len(inbox[q]) : inbox'[q][i] = inbox[q][j]
    <3>1. CASE q = p
      BY <1>2, <1>3, <3>1 DEF TypeOK
    <3>2. CASE q # p
      BY <1>3, <3>2 DEF TypeOK
    <3> QED
      BY <3>1, <3>2
  <2> QED
    BY <2>1, <2>2
<1>4. CASE /\ handled' = [handled EXCEPT ![p] = @ + 1]
           /\ UNCHANGED inbox
  BY <1>1, <1>4 DEF TypeOK
<1> QED
  BY <1>3, <1>4 DEF Consume, rest

----------------------------------------------------------------------------
(* Every action preserves the type invariant. *)

(* What a pass of the job controller has read is well typed. *)
LEMMA SeenFacts ==
  ASSUME TypeOK, NEW p \in Player, JobResume(p)
  PROVE  JobSeen(p) \in JobReconciliation
<1>1. CASE jobRec[p].pc = "task"
  BY <1>1 DEF JobSeen, TypeOK
<1>2. CASE jobRec[p].pc # "task"
  <2>1. job[p] \in JobState
    BY <1>2 DEF JobResume, TypeOK
  <2> QED
    BY <1>2, <2>1, ReconciliationFacts DEF JobSeen, JobPc
<1> QED
  BY <1>1, <1>2

(* The job controller (Reconcile and its status updates) keeps the types. *)
LEMMA JobStepType ==
  ASSUME TypeOK, NEW p \in Player, JobStep(p)
  PROVE  TypeOK'
<1> USE DEF etcdVars, k8sVars, podVars, jobCtrlVars, taskCtrlVars, castorVars,
            budgetVars
<1>1. CASE JobCleanup(p)
  <2>1. /\ inbox' \in [Player -> Seq(Event)]
        /\ \A q \in Player : Len(inbox[q]) <= Len(inbox'[q])
    <3>1. CASE PublishRoster("DELETE")
      BY <3>1, PublishFacts, EventFacts DEF PublishRoster
    <3>2. CASE UNCHANGED inbox
      BY <3>2 DEF TypeOK
    <3> QED
      BY <1>1, <3>1, <3>2 DEF JobCleanup
  <2>2. roster' \in BOOLEAN
    BY <1>1 DEF JobCleanup, TypeOK
  <2>3. jobQ' \in [Player -> BOOLEAN]
    BY <1>1 DEF JobCleanup, JobDequeue, TypeOK
  <2> QED
    BY <1>1, <2>1, <2>2, <2>3 DEF JobCleanup, TypeOK
<1>2. CASE JobCreateRoster(p)
  <2>1. /\ inbox' \in [Player -> Seq(Event)]
        /\ \A q \in Player : Len(inbox[q]) <= Len(inbox'[q])
    <3>1. CASE PublishRoster("PUT")
      BY <3>1, PublishFacts, EventFacts DEF PublishRoster
    <3>2. CASE UNCHANGED inbox
      BY <3>2 DEF TypeOK
    <3> QED
      BY <1>2, <3>1, <3>2 DEF JobCreateRoster
  <2>2. roster' \in BOOLEAN
    BY <1>2 DEF JobCreateRoster, TypeOK
  <2>3. jobQ' \in [Player -> BOOLEAN]
    BY <1>2 DEF JobCreateRoster, JobDequeue, TypeOK
  <2>4. jobRec' \in [Player -> JobReconciliation]
    <3>1. job[p] \in JobState
      BY <1>2 DEF JobCreateRoster, TypeOK
    <3>2. [pc |-> "task", live |-> TRUE, state |-> job[p]]
            \in JobReconciliation
      BY <3>1, ReconciliationFacts DEF JobPc
    <3> QED
      BY <1>2, <3>2 DEF JobCreateRoster, TypeOK
  <2> QED
    BY <1>2, <2>1, <2>2, <2>3, <2>4 DEF JobCreateRoster, TypeOK
<1>3. CASE JobCreateTask(p)
  <2>1. task' \in [Player -> [Player -> Status]]
    BY <1>3, StatusFacts DEF JobCreateTask, TypeOK
  <2>2. orphan' \in [Player -> SUBSET Player]
    BY <1>3 DEF JobCreateTask, TypeOK
  <2>3. jobRec' \in [Player -> JobReconciliation]
    BY <1>3, ReconciliationFacts DEF JobCreateTask, TypeOK
  <2>4. jobQ' \in [Player -> BOOLEAN] /\ taskQ' \in [Player -> BOOLEAN]
    BY <1>3 DEF JobCreateTask, TypeOK
  <2> QED
    BY <1>3, <2>1, <2>2, <2>3, <2>4 DEF JobCreateTask, TypeOK
<1>4. CASE JobDerive(p)
  <2> DEFINE seen == JobSeen(p)
             next == DerivedState(p, seen.state)
  <2>1. seen \in JobReconciliation
    BY <1>4, SeenFacts DEF JobDerive
  <2>2. next \in JobState
    BY DEF DerivedState, JobState
  <2> HIDE DEF seen, next
  <2>3. CASE JobComplete(p, seen.live)
    <3>1. jobRec' \in [Player -> JobReconciliation]
      <4>1. Activating(seen.live) \in JobReconciliation
        BY <2>1, ReconciliationFacts DEF Activating, JobPc, JobState
      <4> QED
        BY <2>3, <4>1 DEF JobComplete, TypeOK
    <3>2. jobQ' \in [Player -> BOOLEAN]
      BY <2>3 DEF JobComplete, TypeOK
    <3> QED
      BY <1>4, <2>3, <3>1, <3>2 DEF JobDerive, JobComplete, TypeOK
  <2>4. CASE /\ jobRec' = [jobRec EXCEPT ![p] = JobIdle]
             /\ jobQ' = [jobQ EXCEPT ![p] = @ /\ jobRec[p].pc = "task"]
             /\ UNCHANGED job
    <3>1. jobRec' \in [Player -> JobReconciliation]
      BY <2>4, ReconciliationFacts DEF TypeOK
    <3>2. jobQ' \in [Player -> BOOLEAN]
      BY <2>4 DEF TypeOK
    <3> QED
      BY <1>4, <2>4, <3>1, <3>2 DEF JobDerive, TypeOK
  <2>5. CASE /\ jobRec' = [jobRec EXCEPT ![p] = JobIdle]
             /\ StatusUpdate(p, seen.live, next)
    <3>1. jobRec' \in [Player -> JobReconciliation]
      BY <2>5, ReconciliationFacts DEF TypeOK
    <3>2. /\ jobQ' \in [Player -> BOOLEAN]
          /\ job' \in [Player -> JobState \cup {"Absent"}]
      BY <2>2, <2>5 DEF StatusUpdate, TypeOK
    <3> QED
      BY <1>4, <3>1, <3>2 DEF JobDerive, TypeOK
  <2> QED
    BY <1>4, <2>3, <2>4, <2>5 DEF JobDerive, seen, next
<1>5. CASE JobActivate(p)
  <2>1. jobRec' \in [Player -> JobReconciliation]
    <3>1. jobRec' = [jobRec EXCEPT ![p] = [jobRec[p] EXCEPT !.pc = "update"]]
      BY <1>5 DEF JobActivate
    <3> QED
      BY <3>1, ReconciliationFacts DEF TypeOK
  <2>2. activated' \in [Player -> BOOLEAN]
    BY <1>5 DEF JobActivate, TypeOK
  <2> QED
    BY <1>5, <2>1, <2>2 DEF JobActivate, TypeOK
<1>6. CASE JobUpdate(p)
  <2>1. jobRec' \in [Player -> JobReconciliation]
    BY <1>6, ReconciliationFacts DEF JobUpdate, TypeOK
  <2>2. /\ jobQ' \in [Player -> BOOLEAN]
        /\ job' \in [Player -> JobState \cup {"Absent"}]
    <3>1. jobRec[p].state \in JobState
      BY ReconciliationFacts DEF TypeOK
    <3> QED
      BY <1>6, <3>1 DEF JobUpdate, StatusUpdate, TypeOK
  <2> QED
    BY <1>6, <2>1, <2>2 DEF JobUpdate, TypeOK
<1> QED
  BY <1>1, <1>2, <1>3, <1>4, <1>5, <1>6 DEF JobStep

(* Task events set flags of the work queues. *)
LEMMA TaskEventsType ==
  ASSUME TypeOK, NEW p \in Player, TaskEvents(p)
  PROVE  jobQ' \in [Player -> BOOLEAN] /\ taskQ' \in [Player -> BOOLEAN]
BY DEF TaskEvents, TypeOK

(* What the passes over a task in its different states have in common. *)
LEMMA TaskPassType ==
  ASSUME TypeOK, NEW p \in Player, NEW s, TaskPass(p, s)
  PROVE  /\ task' \in [Player -> [Player -> Status]]
         /\ jobQ' \in [Player -> BOOLEAN]
         /\ entry[p] \in Status
BY DEF TaskPass, TypeOK

(* However a pass of the task controller ends, it leaves well-typed work. *)
LEMMA TaskEndType ==
  ASSUME TypeOK, NEW p \in Player
  PROVE  /\ \A s \in Status :
              setStatus(p, s) => taskRec' \in [Player -> TaskReconciliation]
         /\ \A x \in TaskState :
              setState(p, x) => taskRec' \in [Player -> TaskReconciliation]
         /\ TaskWait(p) => taskRec' \in [Player -> TaskReconciliation]
         /\ \A ev : TaskRequeue(p, ev) => taskQ' \in [Player -> BOOLEAN]
<1>1. \A s \in Status :
        setStatus(p, s) => taskRec' \in [Player -> TaskReconciliation]
  BY ReconciliationFacts DEF setStatus, TypeOK
<1>2. \A x \in TaskState :
        setState(p, x) => taskRec' \in [Player -> TaskReconciliation]
  BY <1>1, StatusFacts DEF setState, TypeOK
<1>3. TaskWait(p) => taskRec' \in [Player -> TaskReconciliation]
  BY ReconciliationFacts DEF TaskWait, TypeOK
<1>4. \A ev : TaskRequeue(p, ev) => taskQ' \in [Player -> BOOLEAN]
  BY DEF TaskRequeue, TypeOK
<1> QED
  BY <1>1, <1>2, <1>3, <1>4

(* The task controller keeps the types. *)
LEMMA TaskStepType ==
  ASSUME TypeOK, NEW p \in Player, TaskStep(p)
  PROVE  TypeOK'
<1> USE DEF etcdVars, k8sVars, podVars, jobCtrlVars, taskCtrlVars, castorVars,
            budgetVars
<1>0. Others(p) \in SUBSET Player
  BY DEF Others
<1>1. CASE TaskCleanup(p)
  <2>1. /\ inbox' \in [Player -> Seq(Event)]
        /\ \A q \in Player : Len(inbox[q]) <= Len(inbox'[q])
    <3>1. CASE Publish(Others(p), EntryDelete(p))
      BY <1>0, <3>1, PublishFacts, EventFacts
    <3>2. CASE UNCHANGED inbox
      BY <3>2 DEF TypeOK
    <3> QED
      BY <1>1, <3>1, <3>2 DEF TaskCleanup
  <2>2. entry' \in [Player -> Status]
    BY <1>1, StatusFacts DEF TaskCleanup, TypeOK
  <2>3. taskQ' \in [Player -> BOOLEAN]
    BY <1>1 DEF TaskCleanup, TaskDequeue, TypeOK
  <2> QED
    BY <1>1, <2>1, <2>2, <2>3 DEF TaskCleanup, TypeOK
<1>2. CASE TaskCreateEntry(p)
  <2>1. /\ inbox' \in [Player -> Seq(Event)]
        /\ \A q \in Player : Len(inbox[q]) <= Len(inbox'[q])
    BY <1>0, <1>2, PublishFacts, EventFacts, StatusFacts DEF TaskCreateEntry
  <2>2. entry' \in [Player -> Status]
    BY <1>2, StatusFacts DEF TaskCreateEntry, TypeOK
  <2>3. taskQ' \in [Player -> BOOLEAN]
    BY <1>2 DEF TaskCreateEntry, TaskDequeue, TypeOK
  <2>4. taskRec' \in [Player -> TaskReconciliation]
    <3>1. taskRec' = [taskRec EXCEPT ![p] = [taskRec[p] EXCEPT !.pc = "act"]]
      BY <1>2 DEF TaskCreateEntry
    <3> QED
      BY <3>1, ReconciliationFacts DEF TypeOK
  <2> QED
    BY <1>2, <2>1, <2>2, <2>3, <2>4 DEF TaskCreateEntry, TypeOK
<1>3. CASE TaskLookupFails(p)
  <2>1. taskRec' \in [Player -> TaskReconciliation]
    BY <1>3, ReconciliationFacts DEF TaskLookupFails, TypeOK
  <2>2. taskQ' \in [Player -> BOOLEAN]
    BY <1>3 DEF TaskLookupFails, TypeOK
  <2> QED
    BY <1>3, <2>1, <2>2 DEF TaskLookupFails, TypeOK
<1>4. CASE TaskPrepare(p)
  <2>1. /\ task' \in [Player -> [Player -> Status]]
        /\ jobQ' \in [Player -> BOOLEAN]
        /\ entry[p] \in Status
    BY <1>4, TaskPassType DEF TaskPrepare
  <2>2. taskRec' \in [Player -> TaskReconciliation]
    BY <1>4, <2>1, TaskEndType, StatusFacts DEF TaskPrepare, TaskState
  <2>3. taskQ' \in [Player -> BOOLEAN]
    BY <1>4, TaskEndType DEF TaskPrepare
  <2>4. /\ pvc' \in [Player -> BOOLEAN]
        /\ svc' \in [Player -> {"Absent", "Pending", "Ready"}]
    BY <1>4 DEF TaskPrepare, getOrCreatePVC, getOrCreateService, TypeOK
  <2> QED
    BY <1>4, <2>1, <2>2, <2>3, <2>4 DEF TaskPrepare, TypeOK
<1>5. CASE TaskLaunch(p)
  <2>1. /\ task' \in [Player -> [Player -> Status]]
        /\ jobQ' \in [Player -> BOOLEAN]
    BY <1>5, TaskPassType DEF TaskLaunch
  <2>2. /\ taskRec' \in [Player -> TaskReconciliation]
        /\ taskQ' \in [Player -> BOOLEAN]
    BY <1>5, TaskEndType DEF TaskLaunch, TaskState
  <2>3. genPod' \in [Player -> PodPhase] /\ peers' \in [Player -> SUBSET Player]
    <3>1. endpoints(p) \in SUBSET Player
      BY DEF endpoints
    <3>2. /\ genPod' \in {genPod, [genPod EXCEPT ![p] = "Running"]}
          /\ peers' \in {peers, [peers EXCEPT ![p] = endpoints(p)]}
      BY <1>5 DEF TaskLaunch, createGeneratorPod
    <3>3. genPod' \in [Player -> PodPhase]
      BY <3>2 DEF TypeOK, PodPhase
    <3>4. peers' \in [Player -> SUBSET Player]
      BY <3>1, <3>2 DEF TypeOK
    <3> QED
      BY <3>3, <3>4
  <2> QED
    BY <1>5, <2>1, <2>2, <2>3 DEF TaskLaunch, TypeOK
<1>6. CASE TaskGenerate(p)
  <2>1. /\ task' \in [Player -> [Player -> Status]]
        /\ jobQ' \in [Player -> BOOLEAN]
    BY <1>6, TaskPassType DEF TaskGenerate
  <2>2. /\ taskRec' \in [Player -> TaskReconciliation]
        /\ taskQ' \in [Player -> BOOLEAN]
    BY <1>6, TaskEndType DEF TaskGenerate, TaskState
  <2>3. provPod' \in [Player -> PodPhase]
    <3>1. provPod' \in {provPod, [provPod EXCEPT ![p] = "Running"]}
      BY <1>6 DEF TaskGenerate, createProvisionerPod, TypeOK
    <3> QED
      BY <3>1 DEF TypeOK, PodPhase
  <2> QED
    BY <1>6, <2>1, <2>2, <2>3 DEF TaskGenerate, TypeOK
<1>7. CASE TaskProvision(p)
  <2>1. /\ task' \in [Player -> [Player -> Status]]
        /\ jobQ' \in [Player -> BOOLEAN]
    BY <1>7, TaskPassType DEF TaskProvision
  <2>2. /\ taskRec' \in [Player -> TaskReconciliation]
        /\ taskQ' \in [Player -> BOOLEAN]
    BY <1>7, TaskEndType DEF TaskProvision, TaskState
  <2> QED
    BY <1>7, <2>1, <2>2 DEF TaskProvision, TypeOK
<1>8. CASE TaskFinish(p)
  <2>1. /\ task' \in [Player -> [Player -> Status]]
        /\ jobQ' \in [Player -> BOOLEAN]
    BY <1>8, TaskPassType DEF TaskFinish
  <2>2. /\ taskRec' \in [Player -> TaskReconciliation]
        /\ taskQ' \in [Player -> BOOLEAN]
    BY <1>8, TaskEndType DEF TaskFinish
  <2>3. pvc' \in [Player -> BOOLEAN]
    BY <1>8 DEF TaskFinish, deletePVC, TypeOK
  <2> QED
    BY <1>8, <2>1, <2>2, <2>3 DEF TaskFinish, TypeOK
<1>9. CASE TaskPut(p)
  <2>0. taskRec[p].status \in Status
    BY ReconciliationFacts DEF TypeOK
  <2>1. /\ inbox' \in [Player -> Seq(Event)]
        /\ \A q \in Player : Len(inbox[q]) <= Len(inbox'[q])
    BY <1>0, <1>9, <2>0, PublishFacts, EventFacts DEF TaskPut
  <2>2. entry' \in [Player -> Status]
    BY <1>9, <2>0 DEF TaskPut, TypeOK
  <2>3. /\ taskRec' \in [Player -> TaskReconciliation]
        /\ taskQ' \in [Player -> BOOLEAN]
    BY <1>9, ReconciliationFacts DEF TaskPut, TypeOK
  <2> QED
    BY <1>9, <2>1, <2>2, <2>3 DEF TaskPut, TypeOK
<1> QED
  BY <1>1, <1>2, <1>3, <1>4, <1>5, <1>6, <1>7, <1>8, <1>9 DEF TaskStep

(* The event that is next to be handled. *)
LEMMA NextEventType ==
  ASSUME TypeOK, NEW p \in Player, Pending(p)
  PROVE  /\ handled[p] + 1 \in 1 .. Len(inbox[p])
         /\ NextEvent(p) \in Event
         /\ NextEvent(p).player \in Player
         /\ NextEvent(p).value \in Status
<1>1. handled[p] + 1 \in 1 .. Len(inbox[p]) /\ inbox[p] \in Seq(Event)
  BY DEF Pending, TypeOK
<1>2. NextEvent(p) \in Event
  BY <1>1, ElementOfSeq DEF NextEvent
<1> QED
  BY <1>1, <1>2 DEF Event

(* Deleting a job resource keeps the types. *)
LEMMA RemoveJobType ==
  ASSUME TypeOK, NEW p \in Player, RemoveJob(p)
  PROVE  /\ job' \in [Player -> JobState \cup {"Absent"}]
         /\ orphan' \in [Player -> SUBSET Player]
         /\ jobRec' \in [Player -> JobReconciliation]
         /\ jobQ' \in [Player -> BOOLEAN]
<1>1. /\ job' \in [Player -> JobState \cup {"Absent"}]
      /\ jobQ' \in [Player -> BOOLEAN]
  BY DEF RemoveJob, TypeOK
<1>2. orphan' \in [Player -> SUBSET Player]
  BY DEF RemoveJob, TypeOK
<1>3. jobRec' \in [Player -> JobReconciliation]
  <2>1. jobRec' = [jobRec EXCEPT ![p] = [jobRec[p] EXCEPT !.live = FALSE]]
    BY DEF RemoveJob
  <2> QED
    BY <2>1, ReconciliationFacts DEF TypeOK
<1> QED
  BY <1>1, <1>2, <1>3

(* The handlers of watch events keep the types. *)
LEMMA WatchStepType ==
  ASSUME TypeOK, NEW p \in Player, WatchStep(p)
  PROVE  TypeOK'
<1> USE DEF etcdVars, k8sVars, podVars, jobCtrlVars, taskCtrlVars, castorVars,
            budgetVars
<1> DEFINE InboxOK == /\ inbox' \in [Player -> Seq(Event)]
                      /\ handled' \in [Player -> Nat]
                      /\ \A q \in Player : handled'[q] <= Len(inbox'[q])
<1>1. CASE RemotePut(p)
  <2>1. InboxOK
    BY <1>1, ConsumeFacts DEF RemotePut, Arrived
  <2>2. NextEvent(p).player \in Player /\ NextEvent(p).value \in Status
    BY <1>1, NextEventType DEF RemotePut, Arrived
  <2>3. task' \in [Player -> [Player -> Status]]
    BY <1>1, <2>2, StatusFacts DEF RemotePut, ProxyStatus, TypeOK
  <2>4. jobQ' \in [Player -> BOOLEAN] /\ taskQ' \in [Player -> BOOLEAN]
    BY <1>1, TaskEventsType DEF RemotePut
  <2> QED
    BY <1>1, <2>1, <2>3, <2>4 DEF RemotePut, TypeOK
<1>2. CASE RemoteDelete(p)
  <2>1. InboxOK
    BY <1>2, ConsumeFacts DEF RemoteDelete, Arrived
  <2>2. NextEvent(p).player \in Player
    BY <1>2, NextEventType DEF RemoteDelete, Arrived
  <2>3. /\ task' \in [Player -> [Player -> Status]]
        /\ orphan' \in [Player -> SUBSET Player]
    BY <1>2, <2>2, StatusFacts DEF RemoteDelete, TypeOK
  <2>4. jobQ' \in [Player -> BOOLEAN] /\ taskQ' \in [Player -> BOOLEAN]
    BY <1>2, TaskEventsType DEF RemoteDelete
  <2> QED
    BY <1>2, <2>1, <2>3, <2>4 DEF RemoteDelete, TypeOK
<1>3. CASE JobPut(p)
  <2>1. InboxOK
    BY <1>3, ConsumeFacts DEF JobPut, Arrived
  <2>2. job' \in [Player -> JobState \cup {"Absent"}]
    BY <1>3 DEF JobPut, createJobIfNotExists, JobState, TypeOK
  <2>3. jobQ' \in [Player -> BOOLEAN]
    BY <1>3 DEF JobPut, createJobIfNotExists, TypeOK
  <2> QED
    BY <1>3, <2>1, <2>2, <2>3 DEF JobPut, TypeOK
<1>4. CASE JobDelete(p)
  <2>1. InboxOK
    BY <1>4, ConsumeFacts DEF JobDelete, Arrived
  <2>2. /\ job' \in [Player -> JobState \cup {"Absent"}]
        /\ orphan' \in [Player -> SUBSET Player]
        /\ jobRec' \in [Player -> JobReconciliation]
        /\ jobQ' \in [Player -> BOOLEAN]
    <3>1. CASE RemoveJob(p)
      BY <3>1, RemoveJobType
    <3>2. CASE UNCHANGED <<job, orphan, jobRec, jobQ>>
      BY <3>2 DEF TypeOK
    <3> QED
      BY <1>4, <3>1, <3>2 DEF JobDelete
  <2> QED
    BY <1>4, <2>1, <2>2 DEF JobDelete, TypeOK
<1> QED
  BY <1>1, <1>2, <1>3, <1>4 DEF WatchStep

(* What Kubernetes does with services, pods and garbage keeps the types. *)
LEMMA ClusterType ==
  ASSUME TypeOK, NEW p \in Player, Cluster(p)
  PROVE  TypeOK'
<1> USE DEF etcdVars, k8sVars, podVars, jobCtrlVars, taskCtrlVars, castorVars,
            budgetVars
<1>1. CASE AssignEndpoint(p)
  <2>1. /\ svc' \in [Player -> {"Absent", "Pending", "Ready"}]
        /\ taskQ' \in [Player -> BOOLEAN]
    BY <1>1 DEF AssignEndpoint, TypeOK
  <2> QED
    BY <1>1, <2>1 DEF AssignEndpoint, TypeOK
<1>2. CASE \E phase \in Outcomes :
             GeneratorEnds(p, phase) \/ ProvisionerEnds(p, phase)
  <2>0. PICK phase \in Outcomes :
          GeneratorEnds(p, phase) \/ ProvisionerEnds(p, phase)
    BY <1>2
  <2>1. phase \in PodPhase
    BY BoundAssumption DEF PodPhase
  <2>2. CASE GeneratorEnds(p, phase)
    <3>1. genPod' \in [Player -> PodPhase] /\ taskQ' \in [Player -> BOOLEAN]
      BY <2>1, <2>2 DEF GeneratorEnds, TypeOK
    <3> QED
      BY <2>2, <3>1 DEF GeneratorEnds, TypeOK
  <2>3. CASE ProvisionerEnds(p, phase)
    <3>1. provPod' \in [Player -> PodPhase] /\ taskQ' \in [Player -> BOOLEAN]
      BY <2>1, <2>3 DEF ProvisionerEnds, TypeOK
    <3>2. uploaded' \in [Player -> BOOLEAN]
      BY <2>3 DEF ProvisionerEnds, TypeOK
    <3> QED
      BY <2>3, <3>1, <3>2 DEF ProvisionerEnds, TypeOK
  <2> QED
    BY <2>0, <2>2, <2>3
<1>3. ASSUME NEW q \in Player, CollectTask(p, q)
      PROVE  TypeOK'
  <2>1. task' \in [Player -> [Player -> Status]]
    BY <1>3, StatusFacts DEF CollectTask, TypeOK
  <2>2. orphan' \in [Player -> SUBSET Player]
    BY <1>3 DEF CollectTask, TypeOK
  <2>3. stale' \in [Player -> SUBSET Dependent]
    BY <1>3 DEF CollectTask, TypeOK
  <2>4. jobQ' \in [Player -> BOOLEAN] /\ taskQ' \in [Player -> BOOLEAN]
    BY <1>3, TaskEventsType DEF CollectTask
  <2> QED
    BY <1>3, <2>1, <2>2, <2>3, <2>4 DEF CollectTask, TypeOK
<1>4. ASSUME NEW d \in Dependent, CollectDependent(p, d)
      PROVE  TypeOK'
  <2>1. /\ stale' \in [Player -> SUBSET Dependent]
        /\ taskQ' \in [Player -> BOOLEAN]
    BY <1>4 DEF CollectDependent, TypeOK
  <2>2. genPod' \in [Player -> PodPhase] /\ provPod' \in [Player -> PodPhase]
    BY <1>4 DEF CollectDependent, PodPhase, TypeOK
  <2>3. /\ peers' \in [Player -> SUBSET Player]
        /\ svc' \in [Player -> {"Absent", "Pending", "Ready"}]
    BY <1>4 DEF CollectDependent, TypeOK
  <2> QED
    BY <1>4, <2>1, <2>2, <2>3 DEF CollectDependent, TypeOK
<1> QED
  BY <1>1, <1>2, <1>3, <1>4 DEF Cluster

(* A budget that is not used up can be drawn on once more. *)
LEMMA BudgetFacts ==
  ASSUME TypeOK
  PROVE  /\ crashes < MaxCrashes => crashes + 1 \in 0 .. MaxCrashes
         /\ faults < MaxFaults => faults + 1 \in 0 .. MaxFaults
         /\ deletes < MaxDeletes => deletes + 1 \in 0 .. MaxDeletes
<1>1. MaxCrashes \in Nat /\ MaxFaults \in Nat /\ MaxDeletes \in Nat
  BY BoundAssumption
<1>2. /\ crashes \in 0 .. MaxCrashes /\ faults \in 0 .. MaxFaults
      /\ deletes \in 0 .. MaxDeletes
  BY DEF TypeOK
<1> QED
  BY <1>1, <1>2

(* A deletion by the creator of the job keeps the types. *)
LEMMA DeleteJobType ==
  ASSUME TypeOK, NEW p \in Player, DeleteJob(p)
  PROVE  TypeOK'
<1> USE DEF etcdVars, k8sVars, podVars, jobCtrlVars, taskCtrlVars, castorVars,
            budgetVars
<1>1. /\ job' \in [Player -> JobState \cup {"Absent"}]
      /\ orphan' \in [Player -> SUBSET Player]
      /\ jobRec' \in [Player -> JobReconciliation]
      /\ jobQ' \in [Player -> BOOLEAN]
  BY RemoveJobType DEF DeleteJob
<1>2. deletes' \in 0 .. MaxDeletes
  BY BudgetFacts DEF DeleteJob
<1> QED
  BY <1>1, <1>2 DEF DeleteJob, TypeOK

(* Failing calls and restarts keep the types. *)
LEMMA FailureType ==
  ASSUME TypeOK, NEW p \in Player, Failure(p)
  PROVE  TypeOK'
<1> USE DEF etcdVars, k8sVars, podVars, jobCtrlVars, taskCtrlVars, castorVars,
            budgetVars
<1>1. CASE JobError(p)
  <2>1. jobRec' \in [Player -> JobReconciliation] /\ jobQ' \in [Player -> BOOLEAN]
    BY <1>1, ReconciliationFacts DEF JobError, TypeOK
  <2>2. faults' \in 0 .. MaxFaults
    BY <1>1, BudgetFacts DEF JobError, MayFail
  <2> QED
    BY <1>1, <2>1, <2>2 DEF JobError, TypeOK
<1>2. CASE TaskError(p)
  <2>1. /\ taskRec' \in [Player -> TaskReconciliation]
        /\ taskQ' \in [Player -> BOOLEAN]
    BY <1>2, ReconciliationFacts DEF TaskError, TypeOK
  <2>2. faults' \in 0 .. MaxFaults
    BY <1>2, BudgetFacts DEF TaskError, MayFail
  <2> QED
    BY <1>2, <2>1, <2>2 DEF TaskError, TypeOK
<1>3. CASE HandlerError(p)
  <2>1. /\ inbox' \in [Player -> Seq(Event)]
        /\ handled' \in [Player -> Nat]
        /\ \A q \in Player : handled'[q] <= Len(inbox'[q])
    BY <1>3, ConsumeFacts DEF HandlerError
  <2>2. NextEvent(p).player \in Player
    BY <1>3, NextEventType DEF HandlerError
  <2>3. task' \in [Player -> [Player -> Status]]
    <3>1. \/ task' = task
          \/ task' = [task EXCEPT ![p][NextEvent(p).player] = NoStatus]
      BY <1>3 DEF HandlerError
    <3>2. CASE task' = task
      BY <3>2 DEF TypeOK
    <3>3. CASE task' = [task EXCEPT ![p][NextEvent(p).player] = NoStatus]
      BY <2>2, <3>3, StatusFacts DEF TypeOK
    <3> QED
      BY <3>1, <3>2, <3>3
  <2>4. jobQ' \in [Player -> BOOLEAN] /\ taskQ' \in [Player -> BOOLEAN]
    BY <1>3, TaskEventsType DEF HandlerError
  <2>5. faults' \in 0 .. MaxFaults
    BY <1>3, BudgetFacts DEF HandlerError, MayFail
  <2> QED
    BY <1>3, <2>1, <2>3, <2>4, <2>5 DEF HandlerError, TypeOK
<1>4. CASE Rewatch(p)
  <2>1. /\ handled' \in [Player -> Nat]
        /\ \A q \in Player : handled'[q] <= Len(inbox[q])
    BY <1>4 DEF Rewatch, TypeOK
  <2>2. faults' \in 0 .. MaxFaults
    BY <1>4, BudgetFacts DEF Rewatch, MayFail
  <2> QED
    BY <1>4, <2>1, <2>2 DEF Rewatch, TypeOK
<1>5. CASE Crash(p)
  <2>1. /\ handled' \in [Player -> Nat]
        /\ \A q \in Player : handled'[q] <= Len(inbox[q])
    BY <1>5 DEF Crash, TypeOK
  <2>2. /\ jobRec' \in [Player -> JobReconciliation]
        /\ taskRec' \in [Player -> TaskReconciliation]
    BY <1>5, ReconciliationFacts DEF Crash, TypeOK
  <2>3. jobQ' \in [Player -> BOOLEAN] /\ taskQ' \in [Player -> BOOLEAN]
    BY <1>5 DEF Crash, TypeOK
  <2>4. crashes' \in 0 .. MaxCrashes
    BY <1>5, BudgetFacts DEF Crash
  <2> QED
    BY <1>5, <2>1, <2>2, <2>3, <2>4 DEF Crash, TypeOK
<1> QED
  BY <1>1, <1>2, <1>3, <1>4, <1>5 DEF Failure

(* Type correctness: the variables of all VCPs keep their types, the       *)
(* cursor of every watch stays within the events that are available, and   *)
(* no budget is exceeded.                                                  *)
THEOREM TypeCorrect == Spec => []TypeOK
<1>1. Init => TypeOK
  <2> SUFFICES ASSUME Init PROVE TypeOK
    OBVIOUS
  <2>1. /\ entry \in [Player -> Status] /\ task \in [Player -> [Player -> Status]]
        /\ jobRec \in [Player -> JobReconciliation]
        /\ taskRec \in [Player -> TaskReconciliation]
    BY StatusFacts, ReconciliationFacts DEF Init
  <2>2. inbox \in [Player -> Seq(Event)] /\ \A p \in Player : Len(inbox[p]) = 0
    BY EmptySeq DEF Init
  <2>3. jobQ \in [Player -> BOOLEAN] /\ job \in [Player -> JobState \cup {"Absent"}]
    BY DEF Init, JobState
  <2>4. /\ crashes \in 0 .. MaxCrashes /\ faults \in 0 .. MaxFaults
        /\ deletes \in 0 .. MaxDeletes
    <3>1. crashes = 0 /\ faults = 0 /\ deletes = 0
      BY DEF Init
    <3>2. MaxCrashes \in Nat /\ MaxFaults \in Nat /\ MaxDeletes \in Nat
      BY BoundAssumption
    <3> QED
      BY <3>1, <3>2
  <2>5. /\ handled \in [Player -> Nat]
        /\ \A p \in Player : handled[p] <= Len(inbox[p])
    <3>1. handled = [p \in Player |-> 0]
      BY DEF Init
    <3> QED
      BY <2>2, <3>1
  <2>6. /\ genPod \in [Player -> PodPhase] /\ provPod \in [Player -> PodPhase]
        /\ svc \in [Player -> {"Absent", "Pending", "Ready"}]
        /\ orphan \in [Player -> SUBSET Player]
        /\ peers \in [Player -> SUBSET Player]
        /\ stale \in [Player -> SUBSET Dependent]
    BY DEF Init, PodPhase
  <2>7. /\ roster \in BOOLEAN /\ pvc \in [Player -> BOOLEAN]
        /\ taskQ \in [Player -> BOOLEAN] /\ uploaded \in [Player -> BOOLEAN]
        /\ activated \in [Player -> BOOLEAN]
    BY DEF Init
  <2> QED
    BY <2>1, <2>2, <2>3, <2>4, <2>5, <2>6, <2>7 DEF TypeOK
<1>2. TypeOK /\ [Next]_vars => TypeOK'
  <2>1. CASE Next
    BY <2>1, JobStepType, TaskStepType, WatchStepType, ClusterType,
       DeleteJobType, FailureType DEF Next
  <2>2. CASE UNCHANGED vars
    BY <2>2 DEF TypeOK, vars, etcdVars, k8sVars, podVars, jobCtrlVars,
       taskCtrlVars, castorVars, budgetVars
  <2> QED
    BY <2>1, <2>2
<1> QED
  BY <1>1, <1>2, PTL DEF Spec

----------------------------------------------------------------------------
(***************************************************************************)
(* What a step can do to each part of the state.  An invariant about the   *)
(* composition is preserved by each of some thirty actions, but it usually *)
(* speaks of a few variables; these lemmas go through the actions once for *)
(* every variable, so that the proofs of invariants need not.  They hold   *)
(* for all behaviours, with failures and deletions.                        *)
(***************************************************************************)


(* An event has said that something is deleted, or its creator deletes it. *)
JobDeletion(p) ==
  \/ deletes < MaxDeletes
  \/ \E i \in 1 .. Len(inbox[p]) : inbox[p][i].type = "DELETE"

(* The roster is created and deleted by the master. *)
RosterChange ==
  \/ roster' = roster
  \/ roster' /\ job[Master] # "Absent"
  \/ ~roster' /\ job[Master] = "Absent"

(* A roster entry is created for a task and deleted when the task is gone; *)
(* otherwise it is given the status decided by the pass in progress.       *)
EntryChange(q) ==
  \/ entry'[q] = entry[q]
  \/ /\ taskRec[q].pc = "idle" /\ ~Exists(q, q)
     /\ entry'[q] = Absent /\ taskRec'[q] = taskRec[q]
  \/ /\ taskRec[q].pc = "idle" /\ Exists(q, q) /\ entry[q] = Absent
     /\ entry'[q] = JustPreparing /\ taskRec'[q].pc = "act"
  \/ /\ taskRec[q].pc = "put"
     /\ entry'[q] = taskRec[q].status /\ taskRec'[q] = TaskIdle

(* The status a pass decides on, and what it has seen or done before. *)
NewStatus(q, s) ==
  \/ /\ entry[q].state = "Preparing" /\ endpoints(q) = Player /\ pvc'[q]
     /\ s = [entry[q] EXCEPT !.state = "Launching"]
  \/ /\ entry[q].state = "Preparing" /\ svc[q] = "Ready" /\ pvc'[q]
     /\ s = [entry[q] EXCEPT !.endpoint = TRUE]
  \/ /\ entry[q].state = "Launching"
     /\ s = [entry[q] EXCEPT !.state = "Generating"]
  \/ /\ entry[q].state = "Generating" /\ genPod[q] = "Succeeded"
     /\ s = [entry[q] EXCEPT !.state = "Provisioning"]
  \/ /\ entry[q].state = "Generating" /\ genPod[q] = "Failed"
     /\ s = [entry[q] EXCEPT !.state = "Failed"]
  \/ /\ entry[q].state = "Provisioning" /\ provPod[q] = "Succeeded"
     /\ s = [entry[q] EXCEPT !.state = "Completed"]
  \/ /\ entry[q].state = "Provisioning" /\ provPod[q] = "Failed"
     /\ s = [entry[q] EXCEPT !.state = "Failed"]

(* A pass of the task controller works on a task that exists. *)
TaskRecChange(q) ==
  \/ taskRec'[q] = taskRec[q]
  \/ taskRec'[q] = TaskIdle
  \/ taskRec'[q].pc = "act" /\ Exists(q, q)
  \/ /\ taskRec'[q].pc = "put" /\ entry'[q] = entry[q] /\ Exists(q, q)
     /\ NewStatus(q, taskRec'[q].status)

(* The watch of p is sent the events of the roster and of the entries of   *)
(* others; an event of an entry has its new value.                         *)
NewEvent(p, ev) ==
  \/ ev = RosterEvent("PUT")
  \/ ev = RosterEvent("DELETE") /\ roster /\ job[Master] = "Absent"
  \/ \E r \in Others(p) : ev = EntryPut(r, entry'[r])
  \/ \E r \in Others(p) : ev = EntryDelete(r) /\ ~Exists(r, r) /\ entry[r] # Absent
InboxChange(p) ==
  \A i \in 1 .. Len(inbox'[p]) :
    \/ \E j \in 1 .. Len(inbox[p]) : inbox'[p][i] = inbox[p][j]
    \/ NewEvent(p, inbox'[p][i])

(* A task has its status from the entry or an event, or is new or deleted. *)
AnEvent(p, q, type, value) ==
  \E i \in 1 .. Len(inbox[p]) :
    inbox[p][i] = [kind |-> "entry", player |-> q, type |-> type, value |-> value]
TaskChange(p, q) ==
  \/ task'[p][q] = task[p][q]
  \/ q = p /\ entry[p].state # "Absent" /\ task'[p][q] = entry[p]
  \/ ~Exists(p, q) /\ q = p /\ JobResume(p) /\ task'[p][q] = NoStatus
  \/ /\ ~Exists(p, q) /\ \E v \in Status : AnEvent(p, q, "PUT", v)
     /\ task'[p][q] \in {NoStatus, JustPreparing}
  \/ Exists(p, q) /\ AnEvent(p, q, "PUT", task'[p][q])
  \/ \E v \in Status : AnEvent(p, q, "DELETE", v)
  \/ q \in orphan[p]

(* Pods and services are created in the course of the task, and end. *)
GenPodChange(q) ==
  \/ genPod'[q] = genPod[q]
  \/ /\ genPod[q] = "Absent" /\ genPod'[q] = "Running"
     /\ entry[q].state = "Launching" /\ entry'[q] = entry[q]
  \/ genPod[q] = "Running" /\ genPod'[q] \in {"Succeeded", "Failed"}
  \/ stale[q] # {}
ProvPodChange(q) ==
  \/ provPod'[q] = provPod[q] /\ uploaded'[q] = uploaded[q]
  \/ /\ provPod[q] = "Absent" /\ provPod'[q] = "Running"
     /\ uploaded'[q] = uploaded[q] /\ genPod[q] = "Succeeded"
  \/ /\ provPod[q] = "Running" /\ provPod'[q] = "Succeeded" /\ uploaded'[q]
  \/ /\ provPod[q] = "Running" /\ provPod'[q] = "Failed"
     /\ uploaded'[q] = uploaded[q]
  \/ stale[q] # {}
SvcChange(q) ==
  \/ svc'[q] = svc[q]
  \/ svc[q] # "Ready" /\ entry'[q] = entry[q]
  \/ stale[q] # {}
PvcChange(q) ==
  \/ pvc[q] => pvc'[q]
  \/ entry[q].state \in Terminal /\ entry'[q] = entry[q]

(* The job and the pass of the job controller over it. *)
JobRecChange(p) ==
  \/ jobRec'[p] = jobRec[p]
  \/ jobRec'[p] = JobIdle
  \/ roster' /\ jobRec'[p] = [pc |-> "task", live |-> TRUE, state |-> job[p]]
  \/ /\ JobResume(p) /\ jobRec'[p] = Activating(JobSeen(p).live)
     /\ \A q \in Player : task[p][q].state = "Completed"
  \/ jobRec[p].pc = "activate" /\ jobRec'[p] = [jobRec[p] EXCEPT !.pc = "update"]
  \/ JobDeletion(p)
JobChange(p) ==
  \/ job'[p] = job[p]
  \/ job[p] = "Absent" /\ job'[p] = ""
  \/ /\ job'[p] \in {"Pending", "Running"}
     /\ \E q \in Player : task[p][q].state \notin Terminal
  \/ /\ job'[p] = "Failed" /\ anyFailed(p)
     /\ \A q \in Player : task[p][q].state \in Terminal
  \/ jobRec[p].pc = "update" /\ job'[p] = jobRec[p].state
  \/ JobDeletion(p)
ActivatedChange(p) ==
  activated'[p] = activated[p] \/ jobRec[p].pc = "activate"
OrphanChange(p) ==
  \/ orphan'[p] \subseteq orphan[p]
  \/ JobResume(p) /\ ~JobSeen(p).live
  \/ JobDeletion(p)
StaleChange(p) == stale'[p] \subseteq stale[p] \/ orphan[p] # {}

StepChange ==
  /\ RosterChange
  /\ \A p \in Player :
       /\ EntryChange(p) /\ TaskRecChange(p) /\ InboxChange(p)
       /\ \A q \in Player : TaskChange(p, q)
       /\ GenPodChange(p) /\ ProvPodChange(p) /\ SvcChange(p) /\ PvcChange(p)
       /\ JobRecChange(p) /\ JobChange(p) /\ ActivatedChange(p)
       /\ OrphanChange(p) /\ StaleChange(p)

----------------------------------------------------------------------------
Step(p) ==
  JobStep(p) \/ TaskStep(p) \/ WatchStep(p) \/ Cluster(p) \/ DeleteJob(p)
  \/ Failure(p)

(* What each part of the operator never writes. *)
LEMMA Untouched ==
  ASSUME NEW p \in Player
  PROVE  /\ JobStep(p) =>
              UNCHANGED <<entry, genPod, peers, provPod, svc, pvc, stale, taskRec,
                          uploaded>>
         /\ TaskStep(p) =>
              UNCHANGED <<roster, job, orphan, stale, jobRec, uploaded, activated>>
         /\ WatchStep(p) =>
              UNCHANGED <<roster, entry, genPod, peers, provPod, svc, pvc, stale,
                          taskRec, uploaded, activated>>
         /\ Cluster(p) =>
              UNCHANGED <<roster, entry, inbox, job, pvc, jobRec, taskRec, activated>>
         /\ DeleteJob(p) =>
              UNCHANGED <<roster, entry, inbox, task, genPod, peers, provPod, svc,
                          pvc, stale, taskRec, uploaded, activated>>
         /\ Failure(p) =>
              UNCHANGED <<roster, entry, job, orphan, genPod, peers, provPod, svc,
                          pvc, stale, uploaded, activated>>
<1> USE DEF etcdVars, k8sVars, podVars, jobCtrlVars, taskCtrlVars, castorVars,
            budgetVars
<1>1. JobStep(p) =>
        UNCHANGED <<entry, genPod, peers, provPod, svc, pvc, stale, taskRec, uploaded>>
  BY DEF JobStep, JobCleanup, JobCreateRoster, JobCreateTask, JobDerive,
     JobActivate, JobUpdate
<1>2. TaskStep(p) =>
        UNCHANGED <<roster, job, orphan, stale, jobRec, uploaded, activated>>
  BY DEF TaskStep, TaskCleanup, TaskCreateEntry, TaskLookupFails, TaskPrepare,
     TaskLaunch, TaskGenerate, TaskProvision, TaskFinish, TaskPut
<1>3. WatchStep(p) =>
        UNCHANGED <<roster, entry, genPod, peers, provPod, svc, pvc, stale,
                    taskRec, uploaded, activated>>
  BY DEF WatchStep, RemotePut, RemoteDelete, JobPut, JobDelete
<1>4. Cluster(p) =>
        UNCHANGED <<roster, entry, inbox, job, pvc, jobRec, taskRec, activated>>
  BY DEF Cluster, AssignEndpoint, GeneratorEnds, ProvisionerEnds, CollectTask,
     CollectDependent
<1>5. DeleteJob(p) =>
        UNCHANGED <<roster, entry, inbox, task, genPod, peers, provPod, svc,
                    pvc, stale, taskRec, uploaded, activated>>
  BY DEF DeleteJob
<1>6. Failure(p) =>
        UNCHANGED <<roster, entry, job, orphan, genPod, peers, provPod, svc,
                    pvc, stale, uploaded, activated>>
  BY DEF Failure, JobError, TaskError, HandlerError, Rewatch, Crash
<1> QED
  BY <1>1, <1>2, <1>3, <1>4, <1>5, <1>6

(* A pass over the task leaves the entry alone. *)
LEMMA PassesRead ==
  ASSUME NEW p \in Player,
         TaskLookupFails(p) \/ TaskPrepare(p) \/ TaskLaunch(p) \/ TaskGenerate(p)
         \/ TaskProvision(p) \/ TaskFinish(p)
  PROVE  UNCHANGED <<entry, inbox>>
BY DEF TaskLookupFails, TaskPrepare, TaskLaunch, TaskGenerate, TaskProvision,
   TaskFinish, etcdVars

LEMMA RosterStep ==
  ASSUME NEW p \in Player, Step(p)
  PROVE  RosterChange
<1>1. CASE JobStep(p)
  BY <1>1 DEF JobStep, JobCleanup, JobCreateRoster, JobCreateTask, JobDerive,
     JobActivate, JobUpdate, etcdVars, RosterChange
<1>2. CASE ~JobStep(p)
  BY <1>2, Untouched DEF Step, RosterChange
<1> QED
  BY <1>1, <1>2

LEMMA EntryStep ==
  ASSUME TypeOK, NEW p \in Player, Step(p), NEW q \in Player
  PROVE  EntryChange(q)
<1>1. CASE TaskCleanup(p)
  BY <1>1 DEF TaskCleanup, TaskStart, TypeOK, EntryChange
<1>2. CASE TaskCreateEntry(p)
  <2>1. CASE q = p
    <3>1. taskRec'[p].pc = "act"
      BY <1>2, ReconciliationFacts DEF TaskCreateEntry, TypeOK, TaskReconciliation
    <3> QED
      BY <1>2, <2>1, <3>1 DEF TaskCreateEntry, TaskStart, TypeOK, EntryChange
  <2>2. CASE q # p
    BY <1>2, <2>2 DEF TaskCreateEntry, TypeOK, EntryChange
  <2> QED
    BY <2>1, <2>2
<1>3. CASE TaskPut(p)
  BY <1>3 DEF TaskPut, TypeOK, EntryChange
<1>4. CASE ~(TaskCleanup(p) \/ TaskCreateEntry(p) \/ TaskPut(p))
  <2>1. UNCHANGED entry
    BY <1>4, Untouched, PassesRead DEF Step, TaskStep
  <2> QED
    BY <2>1 DEF EntryChange
<1> QED
  BY <1>1, <1>2, <1>3, <1>4

(* How a pass over the task ends. *)
LEMMA PassEnd ==
  ASSUME TypeOK, NEW p \in Player, NEW q \in Player
  PROVE  /\ TaskWait(p) => taskRec'[q] \in {taskRec[q], TaskIdle}
         /\ \A s \in Status : setStatus(p, s) =>
              taskRec'[q] = IF q = p THEN [pc |-> "put", status |-> s] ELSE taskRec[q]
         /\ \A x \in TaskState : setState(p, x) =>
              taskRec'[q] = IF q = p
                            THEN [pc |-> "put", status |-> [entry[p] EXCEPT !.state = x]]
                            ELSE taskRec[q]
BY DEF TaskWait, setStatus, setState, TypeOK

LEMMA TaskRecStep ==
  ASSUME TypeOK, NEW p \in Player, Step(p), NEW q \in Player
  PROVE  TaskRecChange(q)
<1> DEFINE Written(s) == [pc |-> "put", status |-> s]
<1>0. entry[p] \in Status /\ entry[p].state \in TaskState \cup {"", "Absent"}
  BY DEF TypeOK, Status
<1>1. CASE TaskPrepare(p)
  <2>1. /\ entry[p].state = "Preparing" /\ Exists(p, p) /\ entry' = entry
        /\ pvc'[p]
    BY <1>1 DEF TaskPrepare, TaskPass, getOrCreatePVC, etcdVars, TypeOK
  <2>2. CASE AllEndpointsKnown(p) /\ setState(p, "Launching")
    <3>1. CASE q = p
      <4> DEFINE s == [entry[p] EXCEPT !.state = "Launching"]
      <4>1. taskRec'[p] = Written(s)
        BY <2>2, <3>1, PassEnd DEF TaskState
      <4>2. NewStatus(p, s)
        BY <2>1, <2>2 DEF NewStatus, AllEndpointsKnown
      <4> QED
        BY <2>1, <3>1, <4>1, <4>2 DEF TaskRecChange
    <3> QED
      BY <2>2, <3>1, PassEnd DEF TaskRecChange, TaskState
  <2>3. CASE endpoint(p) /\ setStatus(p, [entry[p] EXCEPT !.endpoint = TRUE])
    <3>1. CASE q = p
      <4> DEFINE s == [entry[p] EXCEPT !.endpoint = TRUE]
      <4>1. taskRec'[p] = Written(s)
        BY <1>0, <2>3, <3>1, PassEnd, StatusFacts
      <4>2. NewStatus(p, s)
        BY <2>1, <2>3 DEF NewStatus, endpoint
      <4> QED
        BY <2>1, <3>1, <4>1, <4>2 DEF TaskRecChange
    <3> QED
      BY <1>0, <2>3, <3>1, PassEnd, StatusFacts DEF TaskRecChange
  <2>4. CASE TaskWait(p)
    BY <2>4, PassEnd DEF TaskRecChange
  <2> QED
    BY <1>1, <2>2, <2>3, <2>4 DEF TaskPrepare
<1>2. CASE TaskLaunch(p) \/ TaskGenerate(p) \/ TaskProvision(p)
  <2>1. Exists(p, p) /\ entry' = entry
    BY <1>2 DEF TaskLaunch, TaskGenerate, TaskProvision, TaskPass, etcdVars
  <2>2. \/ TaskWait(p)
        \/ \E x \in TaskState :
             setState(p, x) /\ NewStatus(p, [entry[p] EXCEPT !.state = x])
    <3>1. CASE TaskLaunch(p)
      BY <3>1 DEF TaskLaunch, TaskPass, NewStatus, TaskState
    <3>2. CASE TaskGenerate(p)
      BY <3>2 DEF TaskGenerate, TaskPass, NewStatus, TaskState
    <3>3. CASE TaskProvision(p)
      BY <3>3 DEF TaskProvision, TaskPass, NewStatus, TaskState
    <3> QED
      BY <1>2, <3>1, <3>2, <3>3
  <2>3. CASE TaskWait(p)
    BY <2>3, PassEnd DEF TaskRecChange
  <2>4. ASSUME NEW x \in TaskState, setState(p, x),
               NewStatus(p, [entry[p] EXCEPT !.state = x])
        PROVE  TaskRecChange(q)
    <3> DEFINE s == [entry[p] EXCEPT !.state = x]
    <3>1. CASE q = p
      <4>1. taskRec'[p] = Written(s)
        BY <2>4, <3>1, PassEnd
      <4> QED
        BY <2>1, <2>4, <3>1, <4>1 DEF TaskRecChange
    <3> QED
      BY <2>4, <3>1, PassEnd DEF TaskRecChange
  <2> QED
    BY <2>2, <2>3, <2>4
<1>3. CASE TaskCreateEntry(p)
  <2>1. taskRec'[p].pc = "act"
    BY <1>3, ReconciliationFacts DEF TaskCreateEntry, TypeOK, TaskReconciliation
  <2> QED
    BY <1>3, <2>1 DEF TaskCreateEntry, TypeOK, TaskRecChange
<1>4. CASE TaskCleanup(p) \/ TaskLookupFails(p) \/ TaskFinish(p) \/ TaskPut(p)
  BY <1>4 DEF TaskCleanup, TaskLookupFails, TaskFinish, TaskPut, TaskWait, TypeOK,
     TaskRecChange
<1>5. CASE Failure(p)
  BY <1>5 DEF Failure, JobError, TaskError, HandlerError, Rewatch, Crash,
     taskCtrlVars, TypeOK, TaskRecChange
<1>6. CASE JobStep(p) \/ WatchStep(p) \/ Cluster(p) \/ DeleteJob(p)
  BY <1>6, Untouched DEF TaskRecChange
<1> QED
  BY <1>1, <1>2, <1>3, <1>4, <1>5, <1>6 DEF Step, TaskStep

(* A published event is appended to the inboxes of those it is meant for. *)
LEMMA PublishAdds ==
  ASSUME TypeOK, NEW P \in SUBSET Player, NEW ev \in Event, Publish(P, ev),
         NEW q \in Player, NEW i \in 1 .. Len(inbox'[q])
  PROVE  \/ \E j \in 1 .. Len(inbox[q]) : inbox'[q][i] = inbox[q][j]
         \/ q \in P /\ inbox'[q][i] = ev
<1>1. CASE q \in P
  BY <1>1, PublishFacts
<1>2. CASE q \notin P
  <2>1. inbox'[q] = inbox[q]
    BY <1>2 DEF Publish
  <2> QED
    BY <2>1
<1> QED
  BY <1>1, <1>2

LEMMA InboxStep ==
  ASSUME TypeOK, NEW p \in Player, Step(p), NEW q \in Player
  PROVE  InboxChange(q)
<1> SUFFICES ASSUME NEW i \in 1 .. Len(inbox'[q])
             PROVE  \/ \E j \in 1 .. Len(inbox[q]) : inbox'[q][i] = inbox[q][j]
                    \/ NewEvent(q, inbox'[q][i])
  BY DEF InboxChange
<1>0. /\ Player \in SUBSET Player /\ Others(p) \in SUBSET Player
      /\ q \in Others(p) => p \in Others(q)
  BY DEF Others
<1>1. CASE UNCHANGED inbox
  BY <1>1
<1>2. CASE JobCleanup(p) /\ ~UNCHANGED inbox
  <2>1. roster /\ job[Master] = "Absent" /\ PublishRoster("DELETE")
    BY <1>2 DEF JobCleanup
  <2> QED
    BY <1>0, <2>1, PublishAdds, EventFacts DEF PublishRoster, NewEvent
<1>3. CASE JobCreateRoster(p) /\ ~UNCHANGED inbox
  <2>1. PublishRoster("PUT")
    BY <1>3 DEF JobCreateRoster
  <2> QED
    BY <1>0, <2>1, PublishAdds, EventFacts DEF PublishRoster, NewEvent
<1>4. CASE TaskCleanup(p) /\ ~UNCHANGED inbox
  <2>1. ~Exists(p, p) /\ entry[p] # Absent /\ Publish(Others(p), EntryDelete(p))
    BY <1>4 DEF TaskCleanup
  <2> QED
    BY <1>0, <2>1, PublishAdds, EventFacts DEF NewEvent
<1>5. CASE TaskCreateEntry(p)
  <2>1. /\ entry'[p] = JustPreparing
        /\ Publish(Others(p), EntryPut(p, JustPreparing))
    BY <1>5 DEF TaskCreateEntry, TypeOK
  <2>2. EntryPut(p, JustPreparing) \in Event
    BY EventFacts, StatusFacts
  <2>3. \/ \E j \in 1 .. Len(inbox[q]) : inbox'[q][i] = inbox[q][j]
        \/ q \in Others(p) /\ inbox'[q][i] = EntryPut(p, JustPreparing)
    BY <1>0, <2>1, <2>2, PublishAdds
  <2> QED
    BY <1>0, <2>1, <2>3 DEF NewEvent
<1>6. CASE TaskPut(p)
  <2>1. /\ entry'[p] = taskRec[p].status /\ taskRec[p].status \in Status
        /\ Publish(Others(p), EntryPut(p, taskRec[p].status))
    BY <1>6, ReconciliationFacts DEF TaskPut, TypeOK
  <2>2. EntryPut(p, taskRec[p].status) \in Event
    BY <2>1, EventFacts
  <2>3. \/ \E j \in 1 .. Len(inbox[q]) : inbox'[q][i] = inbox[q][j]
        \/ q \in Others(p) /\ inbox'[q][i] = EntryPut(p, taskRec[p].status)
    BY <1>0, <2>1, <2>2, PublishAdds
  <2> QED
    BY <1>0, <2>1, <2>3 DEF NewEvent
<1>7. CASE WatchStep(p) \/ HandlerError(p)
  <2>1. Pending(p) /\ Consume(p)
    BY <1>7 DEF WatchStep, RemotePut, RemoteDelete, JobPut, JobDelete, HandlerError,
       Arrived
  <2> QED
    BY <2>1, ConsumeFacts
<1>8. CASE JobCreateTask(p) \/ JobDerive(p) \/ JobActivate(p) \/ JobUpdate(p)
  BY <1>1, <1>8 DEF JobCreateTask, JobDerive, JobActivate, JobUpdate, etcdVars
<1>9. CASE JobError(p) \/ TaskError(p) \/ Rewatch(p) \/ Crash(p)
  BY <1>1, <1>9 DEF JobError, TaskError, Rewatch, Crash, etcdVars
<1>10. CASE \/ TaskLookupFails(p) \/ TaskPrepare(p) \/ TaskLaunch(p)
            \/ TaskGenerate(p) \/ TaskProvision(p) \/ TaskFinish(p)
  BY <1>1, <1>10, PassesRead
<1>11. CASE Cluster(p) \/ DeleteJob(p)
  BY <1>1, <1>11, Untouched
<1> QED
  BY <1>1, <1>2, <1>3, <1>4, <1>5, <1>6, <1>7, <1>8, <1>9, <1>10, <1>11
     DEF Step, JobStep, TaskStep, Failure

(* One task of one VCP changes at a time. *)
LEMMA SetTask ==
  ASSUME TypeOK, NEW p \in Player, NEW q \in Player, NEW s,
         task' = [task EXCEPT ![p][q] = s], NEW r \in Player, NEW t \in Player
  PROVE  task'[r][t] = IF r = p /\ t = q THEN s ELSE task[r][t]
BY DEF TypeOK

LEMMA TaskTableStep ==
  ASSUME TypeOK, NEW p \in Player, Step(p), NEW r \in Player, NEW t \in Player
  PROVE  TaskChange(r, t)
<1>1. CASE JobCreateTask(p)
  <2>1. ~Exists(p, p) /\ JobResume(p) /\ task' = [task EXCEPT ![p][p] = NoStatus]
    BY <1>1 DEF JobCreateTask
  <2> QED
    BY <2>1, SetTask DEF TaskChange
<1>2. CASE \/ TaskPrepare(p) \/ TaskLaunch(p) \/ TaskGenerate(p)
           \/ TaskProvision(p) \/ TaskFinish(p)
  <2>1. PICK s \in TaskState : TaskPass(p, s)
    BY <1>2 DEF TaskPrepare, TaskLaunch, TaskGenerate, TaskProvision, TaskFinish,
       TaskState, Terminal
  <2>2. entry[p].state # "Absent" /\ task' = [task EXCEPT ![p][p] = entry[p]]
    BY <2>1 DEF TaskPass, TaskState
  <2> QED
    BY <2>2, SetTask DEF TaskChange
<1>3. CASE RemotePut(p) \/ RemoteDelete(p) \/ HandlerError(p)
  <2> DEFINE ev == NextEvent(p)
             i == handled[p] + 1
  <2>1. i \in 1 .. Len(inbox[p]) /\ ev = inbox[p][i] /\ ev \in Event
    BY <1>3, NextEventType DEF RemotePut, RemoteDelete, HandlerError, Arrived, NextEvent
  <2>2. /\ ev.player \in Player /\ ev.value \in Status
        /\ ev = [kind |-> ev.kind, player |-> ev.player, type |-> ev.type,
                 value |-> ev.value]
    BY <2>1 DEF Event
  <2> HIDE DEF ev, i
  <2>3. CASE UNCHANGED task
    BY <2>3 DEF TaskChange
  <2>4. CASE RemotePut(p) /\ ~UNCHANGED task
    <3>1. /\ ev.kind = "entry" /\ ev.type = "PUT"
          /\ task' = [task EXCEPT ![p][ev.player] = ProxyStatus(p, ev.player, ev.value)]
      BY <2>4 DEF RemotePut, Arrived, ev
    <3>2. AnEvent(p, ev.player, "PUT", ev.value)
      BY <2>1, <2>2, <3>1 DEF AnEvent
    <3> QED
      BY <2>2, <3>1, <3>2, SetTask DEF TaskChange, ProxyStatus
  <2>5. CASE RemoteDelete(p)
    <3>1. /\ ev.kind = "entry" /\ ev.type = "DELETE"
          /\ task' = [task EXCEPT ![p][ev.player] = Absent]
      BY <2>5 DEF RemoteDelete, Arrived, ev
    <3>2. AnEvent(p, ev.player, "DELETE", ev.value)
      BY <2>1, <2>2, <3>1 DEF AnEvent
    <3> QED
      BY <2>2, <3>1, <3>2, SetTask DEF TaskChange
  <2>6. CASE HandlerError(p) /\ ~UNCHANGED task
    <3>1. /\ ~Exists(p, ev.player) /\ ev.kind = "entry" /\ ev.type = "PUT"
          /\ task' = [task EXCEPT ![p][ev.player] = NoStatus]
      BY <2>6 DEF HandlerError, Arrived, ev
    <3>2. AnEvent(p, ev.player, "PUT", ev.value)
      BY <2>1, <2>2, <3>1 DEF AnEvent
    <3> QED
      BY <2>2, <3>1, <3>2, SetTask DEF TaskChange
  <2> QED
    BY <1>3, <2>3, <2>4, <2>5, <2>6
<1>4. CASE \E q \in Player : CollectTask(p, q)
  BY <1>4, SetTask DEF CollectTask, TaskChange
<1>5. CASE UNCHANGED task
  BY <1>5 DEF TaskChange
<1>6. CASE \/ JobCleanup(p) \/ JobCreateRoster(p) \/ JobDerive(p) \/ JobActivate(p)
           \/ JobUpdate(p) \/ JobPut(p) \/ JobDelete(p) \/ JobError(p)
  BY <1>5, <1>6 DEF JobCleanup, JobCreateRoster, JobDerive, JobActivate, JobUpdate,
     JobPut, JobDelete, JobError, k8sVars
<1>7. CASE \/ TaskCleanup(p) \/ TaskCreateEntry(p) \/ TaskLookupFails(p)
           \/ TaskPut(p) \/ TaskError(p)
  BY <1>5, <1>7 DEF TaskCleanup, TaskCreateEntry, TaskLookupFails, TaskPut,
     TaskError, k8sVars
<1>8. CASE Rewatch(p) \/ Crash(p) \/ DeleteJob(p)
  BY <1>5, <1>8 DEF Rewatch, Crash, DeleteJob, k8sVars
<1>9. CASE \/ AssignEndpoint(p)
           \/ \E phase \in Outcomes :
                GeneratorEnds(p, phase) \/ ProvisionerEnds(p, phase)
           \/ \E d \in Dependent : CollectDependent(p, d)
  BY <1>5, <1>9 DEF AssignEndpoint, GeneratorEnds, ProvisionerEnds, CollectDependent
<1> QED
  BY <1>1, <1>2, <1>3, <1>4, <1>6, <1>7, <1>8, <1>9
     DEF Step, JobStep, TaskStep, WatchStep, Cluster, Failure

LEMMA GenPodStep ==
  ASSUME TypeOK, NEW p \in Player, Step(p), NEW q \in Player
  PROVE  GenPodChange(q)
<1>1. CASE TaskLaunch(p)
  <2>1. /\ entry[p].state = "Launching" /\ entry' = entry
        /\ \/ UNCHANGED genPod
           \/ genPod[p] = "Absent" /\ genPod' = [genPod EXCEPT ![p] = "Running"]
    BY <1>1 DEF TaskLaunch, TaskPass, createGeneratorPod, etcdVars
  <2> QED
    BY <2>1 DEF TypeOK, GenPodChange
<1>2. CASE \E phase \in Outcomes : GeneratorEnds(p, phase)
  <2> PICK phase \in Outcomes : GeneratorEnds(p, phase)
    BY <1>2
  <2>1. /\ phase \in {"Succeeded", "Failed"}
        /\ genPod[p] = "Running" /\ genPod' = [genPod EXCEPT ![p] = phase]
    BY BoundAssumption DEF GeneratorEnds
  <2>2. genPod \in [Player -> PodPhase]
    BY DEF TypeOK
  <2> QED
    BY <2>1, <2>2 DEF GenPodChange
<1>3. CASE \E d \in Dependent : CollectDependent(p, d)
  BY <1>3 DEF CollectDependent, TypeOK, GenPodChange
<1>4. CASE UNCHANGED genPod
  BY <1>4 DEF GenPodChange
<1>5. CASE TaskStep(p) /\ ~TaskLaunch(p)
  BY <1>4, <1>5 DEF TaskStep, TaskCleanup, TaskCreateEntry, TaskLookupFails,
     TaskPrepare, TaskGenerate, TaskProvision, TaskFinish, TaskPut, k8sVars, podVars
<1>6. CASE \/ AssignEndpoint(p)
           \/ \E phase \in Outcomes : ProvisionerEnds(p, phase)
           \/ \E d \in Player : CollectTask(p, d)
  BY <1>4, <1>6 DEF AssignEndpoint, ProvisionerEnds, CollectTask
<1> QED
  BY <1>1, <1>2, <1>3, <1>4, <1>5, <1>6, Untouched DEF Step, Cluster

LEMMA ProvPodStep ==
  ASSUME TypeOK, NEW p \in Player, Step(p), NEW q \in Player
  PROVE  ProvPodChange(q)
<1>1. CASE TaskGenerate(p)
  <2>1. /\ UNCHANGED uploaded
        /\ \/ UNCHANGED provPod
           \/ /\ genPod[p] = "Succeeded"
              /\ provPod' = [provPod EXCEPT ![p] = IF @ = "Absent" THEN "Running" ELSE @]
    BY <1>1 DEF TaskGenerate, createProvisionerPod, castorVars
  <2> QED
    BY <2>1 DEF TypeOK, ProvPodChange
<1>2. CASE \E phase \in Outcomes : ProvisionerEnds(p, phase)
  <2>1. PICK phase \in {"Succeeded", "Failed"} : ProvisionerEnds(p, phase)
    BY <1>2, BoundAssumption
  <2>2. CASE q = p
    <3>1. /\ provPod[p] = "Running" /\ provPod'[p] = phase
          /\ uploaded'[p] = (uploaded[p] \/ phase = "Succeeded")
      BY <2>1 DEF ProvisionerEnds, TypeOK
    <3>2. uploaded[p] \in BOOLEAN
      BY DEF TypeOK
    <3> QED
      BY <2>2, <3>1, <3>2 DEF ProvPodChange
  <2>3. CASE q # p
    BY <2>1, <2>3 DEF ProvisionerEnds, TypeOK, ProvPodChange
  <2> QED
    BY <2>2, <2>3
<1>3. CASE \E d \in Dependent : CollectDependent(p, d)
  BY <1>3 DEF CollectDependent, castorVars, TypeOK, ProvPodChange
<1>4. CASE UNCHANGED <<provPod, uploaded>>
  BY <1>4 DEF ProvPodChange
<1>5. CASE TaskStep(p) /\ ~TaskGenerate(p)
  <2>1. UNCHANGED provPod
    BY <1>5 DEF TaskStep, TaskCleanup, TaskCreateEntry, TaskLookupFails,
       TaskPrepare, TaskLaunch, TaskProvision, TaskFinish, TaskPut, k8sVars, podVars
  <2> QED
    BY <1>4, <1>5, <2>1, Untouched
<1>6. CASE \/ AssignEndpoint(p)
           \/ \E phase \in Outcomes : GeneratorEnds(p, phase)
           \/ \E d \in Player : CollectTask(p, d)
  BY <1>4, <1>6 DEF AssignEndpoint, GeneratorEnds, CollectTask, castorVars
<1> QED
  BY <1>1, <1>2, <1>3, <1>4, <1>5, <1>6, Untouched DEF Step, Cluster

LEMMA SvcStep ==
  ASSUME TypeOK, NEW p \in Player, Step(p), NEW q \in Player
  PROVE  SvcChange(q)
<1>1. CASE TaskPrepare(p)
  BY <1>1 DEF TaskPrepare, getOrCreateService, etcdVars, TypeOK, SvcChange
<1>2. CASE AssignEndpoint(p)
  BY <1>2 DEF AssignEndpoint, etcdVars, TypeOK, SvcChange
<1>3. CASE \E d \in Dependent : CollectDependent(p, d)
  BY <1>3 DEF CollectDependent, TypeOK, SvcChange
<1>4. CASE UNCHANGED svc
  BY <1>4 DEF SvcChange
<1>5. CASE TaskStep(p) /\ ~TaskPrepare(p)
  BY <1>4, <1>5 DEF TaskStep, TaskCleanup, TaskCreateEntry, TaskLookupFails,
     TaskLaunch, TaskGenerate, TaskProvision, TaskFinish, TaskPut, k8sVars, podVars
<1>6. CASE \/ \E phase \in Outcomes :
                GeneratorEnds(p, phase) \/ ProvisionerEnds(p, phase)
           \/ \E d \in Player : CollectTask(p, d)
  BY <1>4, <1>6 DEF GeneratorEnds, ProvisionerEnds, CollectTask
<1> QED
  BY <1>1, <1>2, <1>3, <1>4, <1>5, <1>6, Untouched DEF Step, Cluster

LEMMA PvcStep ==
  ASSUME TypeOK, NEW p \in Player, Step(p), NEW q \in Player
  PROVE  PvcChange(q)
<1>1. CASE TaskPrepare(p)
  BY <1>1 DEF TaskPrepare, getOrCreatePVC, TypeOK, PvcChange
<1>2. CASE TaskFinish(p)
  <2>1. /\ entry[p].state \in Terminal /\ entry' = entry
        /\ pvc' = [pvc EXCEPT ![p] = FALSE]
    BY <1>2 DEF TaskFinish, TaskPass, deletePVC, etcdVars
  <2> QED
    BY <2>1 DEF TypeOK, PvcChange
<1>3. CASE UNCHANGED pvc
  BY <1>3 DEF PvcChange
<1>4. CASE TaskStep(p) /\ ~TaskPrepare(p) /\ ~TaskFinish(p)
  BY <1>3, <1>4 DEF TaskStep, TaskCleanup, TaskCreateEntry, TaskLookupFails,
     TaskLaunch, TaskGenerate, TaskProvision, TaskPut, k8sVars, podVars
<1> QED
  BY <1>1, <1>2, <1>3, <1>4, Untouched DEF Step

(* A job is deleted by its creator or because an event says so. *)
LEMMA RemovalFacts ==
  ASSUME TypeOK, NEW p \in Player, DeleteJob(p) \/ JobDelete(p), NEW q \in Player
  PROVE  \/ JobDeletion(q)
         \/ /\ job'[q] = job[q] /\ jobRec'[q] = jobRec[q] /\ orphan'[q] = orphan[q]
<1>1. CASE RemoveJob(p)
  <2>1. JobDeletion(p)
    <3>1. CASE DeleteJob(p)
      BY <3>1 DEF DeleteJob, JobDeletion
    <3>2. CASE JobDelete(p)
      BY <3>2, NextEventType DEF JobDelete, Arrived, NextEvent, JobDeletion
    <3> QED
      BY <3>1, <3>2
  <2>2. q # p =>
          job'[q] = job[q] /\ jobRec'[q] = jobRec[q] /\ orphan'[q] = orphan[q]
    BY <1>1 DEF RemoveJob, TypeOK
  <2> QED
    BY <2>1, <2>2
<1>2. CASE UNCHANGED <<job, orphan, jobRec>>
  BY <1>2
<1> QED
  BY <1>1, <1>2 DEF DeleteJob, JobDelete

(* A job is found completed if all tasks are, failed if one is. *)
LEMMA DerivedFacts ==
  ASSUME NEW p \in Player, NEW seen
  PROVE  /\ DerivedState(p, seen) \in {"", "Pending", "Running", "Failed", "Completed"}
         /\ DerivedState(p, seen) \in {"Pending", "Running"} =>
              \E q \in Player : task[p][q].state \notin Terminal
         /\ DerivedState(p, seen) = "Failed" =>
              anyFailed(p) /\ \A q \in Player : task[p][q].state \in Terminal
         /\ DerivedState(p, seen) = "Completed" =>
              \A q \in Player : task[p][q].state = "Completed"
BY DEF DerivedState, allTerminated, anyFailed, Terminal, Exists

LEMMA JobRecStep ==
  ASSUME TypeOK, NEW p \in Player, Step(p), NEW q \in Player
  PROVE  JobRecChange(q)
<1>0. CASE jobRec'[q] = jobRec[q]
  BY <1>0 DEF JobRecChange
<1>1. CASE JobCleanup(p) \/ JobCreateRoster(p) \/ JobCreateTask(p) \/ JobUpdate(p)
  <2>1. CASE UNCHANGED jobRec
    BY <1>0, <2>1
  <2>2. CASE jobRec' = [jobRec EXCEPT ![p] = JobIdle]
    BY <2>2 DEF TypeOK, JobRecChange
  <2>3. CASE roster' /\ jobRec' = [jobRec EXCEPT
               ![p] = [pc |-> "task", live |-> TRUE, state |-> job[p]]]
    BY <2>3 DEF TypeOK, JobRecChange
  <2> QED
    BY <1>1, <2>1, <2>2, <2>3 DEF JobCleanup, JobCreateRoster, JobCreateTask,
       JobUpdate
<1>2. CASE JobDerive(p)
  <2>1. JobResume(p)
    BY <1>2 DEF JobDerive
  <2>2. CASE jobRec' = [jobRec EXCEPT ![p] = JobIdle]
    BY <2>2 DEF TypeOK, JobRecChange
  <2>3. CASE /\ DerivedState(p, JobSeen(p).state) = "Completed"
             /\ JobComplete(p, JobSeen(p).live)
    <3>1. \A r \in Player : task[p][r].state = "Completed"
      BY <2>3, DerivedFacts
    <3>2. jobRec' = [jobRec EXCEPT ![p] = Activating(JobSeen(p).live)]
      BY <2>3 DEF JobComplete
    <3> QED
      BY <2>1, <3>1, <3>2 DEF TypeOK, JobRecChange
  <2> QED
    BY <1>2, <2>2, <2>3 DEF JobDerive
<1>3. CASE JobActivate(p)
  BY <1>3 DEF JobActivate, TypeOK, JobRecChange
<1>4. CASE DeleteJob(p) \/ JobDelete(p)
  BY <1>0, <1>4, RemovalFacts DEF JobRecChange
<1>5. CASE Failure(p)
  BY <1>5 DEF Failure, JobError, TaskError, HandlerError, Rewatch, Crash,
     jobCtrlVars, TypeOK, JobRecChange
<1>6. CASE WatchStep(p) /\ ~JobDelete(p)
  BY <1>0, <1>6 DEF WatchStep, RemotePut, RemoteDelete, JobPut
<1> QED
  BY <1>0, <1>1, <1>2, <1>3, <1>4, <1>5, <1>6, Untouched DEF Step, JobStep

LEMMA JobStateStep ==
  ASSUME TypeOK, NEW p \in Player, Step(p), NEW q \in Player
  PROVE  JobChange(q)
<1>0. CASE job'[q] = job[q]
  BY <1>0 DEF JobChange
<1>1. CASE JobCleanup(p) \/ JobCreateRoster(p) \/ JobCreateTask(p) \/ JobActivate(p)
  BY <1>0, <1>1 DEF JobCleanup, JobCreateRoster, JobCreateTask, JobActivate, k8sVars
<1>2. CASE JobDerive(p)
  <2> DEFINE x == DerivedState(p, JobSeen(p).state)
  <2>1. CASE UNCHANGED job
    BY <1>0, <2>1
  <2>2. CASE x \notin {"", "Completed"} /\ StatusUpdate(p, JobSeen(p).live, x)
    <3>1. /\ x \in {"Pending", "Running", "Failed"}
          /\ x \in {"Pending", "Running"} =>
               \E r \in Player : task[p][r].state \notin Terminal
          /\ x = "Failed" =>
               anyFailed(p) /\ \A r \in Player : task[p][r].state \in Terminal
      <4>1. x \in {"", "Pending", "Running", "Failed", "Completed"}
        BY DerivedFacts
      <4> QED
        BY <2>2, <4>1, DerivedFacts
    <3>2. job'[q] \in {job[q], IF q = p THEN x ELSE job[q]}
      BY <2>2 DEF StatusUpdate, TypeOK
    <3> HIDE DEF x
    <3> QED
      BY <3>1, <3>2 DEF JobChange
  <2> QED
    BY <1>2, <2>1, <2>2 DEF JobDerive, JobComplete
<1>3. CASE JobUpdate(p)
  BY <1>3 DEF JobUpdate, StatusUpdate, TypeOK, JobChange
<1>4. CASE DeleteJob(p) \/ JobDelete(p)
  BY <1>0, <1>4, RemovalFacts DEF JobChange
<1>5. CASE JobPut(p)
  BY <1>5 DEF JobPut, createJobIfNotExists, TypeOK, JobChange
<1>6. CASE RemotePut(p) \/ RemoteDelete(p)
  BY <1>0, <1>6 DEF RemotePut, RemoteDelete
<1> QED
  BY <1>0, <1>1, <1>2, <1>3, <1>4, <1>5, <1>6, Untouched
     DEF Step, JobStep, WatchStep

LEMMA ActivatedStep ==
  ASSUME TypeOK, NEW p \in Player, Step(p), NEW q \in Player
  PROVE  ActivatedChange(q)
<1>1. CASE JobActivate(p)
  BY <1>1 DEF JobActivate, TypeOK, ActivatedChange
<1>2. CASE ~JobActivate(p)
  <2>1. UNCHANGED activated
    <3>1. CASE JobStep(p)
      BY <1>2, <3>1 DEF JobStep, JobCleanup, JobCreateRoster, JobCreateTask,
         JobDerive, JobUpdate, castorVars
    <3>2. CASE ProvisionerEnds(p, "Succeeded") \/ ~JobStep(p)
      BY <3>2, Untouched DEF Step, ProvisionerEnds
    <3> QED
      BY <3>1, <3>2
  <2> QED
    BY <2>1 DEF ActivatedChange
<1> QED
  BY <1>1, <1>2

LEMMA OrphanStep ==
  ASSUME TypeOK, NEW p \in Player, Step(p), NEW q \in Player
  PROVE  OrphanChange(q)
<1>0. CASE orphan'[q] = orphan[q]
  BY <1>0 DEF OrphanChange
<1>1. CASE JobCreateTask(p)
  BY <1>1 DEF JobCreateTask, TypeOK, OrphanChange
<1>2. CASE DeleteJob(p) \/ JobDelete(p)
  BY <1>0, <1>2, RemovalFacts DEF OrphanChange
<1>3. CASE (\E d \in Player : CollectTask(p, d)) \/ RemoteDelete(p)
  <2>1. PICK d : orphan' = [orphan EXCEPT ![p] = orphan[p] \ {d}]
    BY <1>3 DEF CollectTask, RemoteDelete
  <2> QED
    BY <2>1 DEF TypeOK, OrphanChange
<1>4. CASE JobStep(p) /\ ~JobCreateTask(p)
  BY <1>0, <1>4 DEF JobStep, JobCleanup, JobCreateRoster, JobDerive, JobActivate,
     JobUpdate, k8sVars
<1>5. CASE \/ AssignEndpoint(p)
           \/ \E phase \in Outcomes :
                GeneratorEnds(p, phase) \/ ProvisionerEnds(p, phase)
           \/ \E d \in Dependent : CollectDependent(p, d)
  BY <1>0, <1>5 DEF AssignEndpoint, GeneratorEnds, ProvisionerEnds, CollectDependent
<1>6. CASE RemotePut(p) \/ JobPut(p)
  BY <1>0, <1>6 DEF RemotePut, JobPut
<1> QED
  BY <1>0, <1>1, <1>2, <1>3, <1>4, <1>5, <1>6, Untouched DEF Step, WatchStep, Cluster

LEMMA StaleStep ==
  ASSUME TypeOK, NEW p \in Player, Step(p), NEW q \in Player
  PROVE  StaleChange(q)
<1>0. CASE stale'[q] = stale[q]
  BY <1>0 DEF StaleChange
<1>1. CASE \E d \in Player : CollectTask(p, d)
  BY <1>1 DEF CollectTask, TypeOK, StaleChange
<1>2. CASE \E d \in Dependent : CollectDependent(p, d)
  BY <1>2 DEF CollectDependent, TypeOK, StaleChange
<1>3. CASE \/ AssignEndpoint(p)
           \/ \E phase \in Outcomes :
                GeneratorEnds(p, phase) \/ ProvisionerEnds(p, phase)
  BY <1>0, <1>3 DEF AssignEndpoint, GeneratorEnds, ProvisionerEnds
<1> QED
  BY <1>0, <1>1, <1>2, <1>3, Untouched DEF Step, Cluster

(* Together: what a step of the system, or of its environment, can do. *)
LEMMA StepFacts ==
  ASSUME TypeOK, [Next]_vars
  PROVE  StepChange
<1>1. CASE Next
  <2>1. PICK p \in Player : Step(p)
    BY <1>1 DEF Next, Step
  <2>2. \A q \in Player :
          /\ EntryChange(q) /\ TaskRecChange(q) /\ InboxChange(q)
          /\ \A t \in Player : TaskChange(q, t)
    BY <2>1, EntryStep, TaskRecStep, InboxStep, TaskTableStep
  <2>3. \A q \in Player :
          GenPodChange(q) /\ ProvPodChange(q) /\ SvcChange(q) /\ PvcChange(q)
    BY <2>1, GenPodStep, ProvPodStep, SvcStep, PvcStep
  <2>4. \A q \in Player :
          /\ JobRecChange(q) /\ JobChange(q) /\ ActivatedChange(q)
          /\ OrphanChange(q) /\ StaleChange(q)
    BY <2>1, JobRecStep, JobStateStep, ActivatedStep, OrphanStep, StaleStep
  <2> QED
    BY <2>1, <2>2, <2>3, <2>4, RosterStep DEF StepChange
<1>2. CASE UNCHANGED vars
  <2> USE <1>2 DEF vars, etcdVars, k8sVars, podVars, jobCtrlVars, taskCtrlVars,
                  castorVars
  <2>1. RosterChange
    BY DEF RosterChange
  <2>2. ASSUME NEW p \in Player
        PROVE  /\ EntryChange(p) /\ TaskRecChange(p) /\ InboxChange(p)
               /\ \A t \in Player : TaskChange(p, t)
    BY DEF EntryChange, TaskRecChange, InboxChange, TaskChange
  <2>3. ASSUME NEW p \in Player
        PROVE  GenPodChange(p) /\ ProvPodChange(p) /\ SvcChange(p) /\ PvcChange(p)
    BY DEF GenPodChange, ProvPodChange, SvcChange, PvcChange
  <2>4. ASSUME NEW p \in Player
        PROVE  /\ JobRecChange(p) /\ JobChange(p) /\ ActivatedChange(p)
               /\ OrphanChange(p) /\ StaleChange(p)
    BY DEF JobRecChange, JobChange, ActivatedChange, OrphanChange, StaleChange
  <2> QED
    BY <2>1, <2>2, <2>3, <2>4 DEF StepChange
<1> QED
  BY <1>1, <1>2
=============================================================================
