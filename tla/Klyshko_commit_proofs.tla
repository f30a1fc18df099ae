------------------------ MODULE Klyshko_commit_proofs ------------------------
(***************************************************************************)
(* Roster entries follow the life cycle of a task; and, for jobs that are  *)
(* not deleted, the VCPs commit to a tuple chunk atomically, generators    *)
(* start only when all endpoints are up, and the volume with the tuples is *)
(* kept until they are uploaded: for any number of VCPs, restarts, failing *)
(* calls and replayed events.                                              *)
(***************************************************************************)
EXTENDS Klyshko_upload_proofs

(* The status a pass is about to write follows the one it has read.  This  *)
(* is so although the write comes later: only this pass writes the entry.  *)
WritesFollow ==
  \A p \in Player : taskRec[p].pc = "put" =>
    /\ entry[p].state # "Absent"
    /\ <<entry[p].state, taskRec[p].status.state>> \in StateOrder
    /\ entry[p].endpoint => taskRec[p].status.endpoint

(* Nothing is deleted unless the job is. *)
NothingCollected == \A p \in Player : orphan[p] = {} /\ stale[p] = {}
EventsArePuts ==
  \A p \in Player : \A i \in 1 .. Len(inbox[p]) :
    /\ inbox[p][i].type = "PUT"
    /\ inbox[p][i].kind = "entry" => inbox[p][i].player # p
RosterKept == roster => job[Master] # "Absent"
JobsLive == \A p \in Player : jobRec[p].pc # "idle" => jobRec[p].live
TasksKept ==
  \A p \in Player : ~Exists(p, p) => entry[p] = Absent /\ taskRec[p].pc = "idle"
KeptInv ==
  NothingCollected /\ EventsArePuts /\ RosterKept /\ JobsLive /\ TasksKept

(* Votes: an entry in a terminal state.  What is known elsewhere about a   *)
(* vote is what the entry says ...                                         *)
EventsMatch ==
  \A p \in Player : \A i \in 1 .. Len(inbox[p]) :
    inbox[p][i].value.state \in Terminal =>
      entry[inbox[p][i].player].state = inbox[p][i].value.state
TasksMatch ==
  \A p, q \in Player : task[p][q].state \in Terminal =>
    entry[q].state = task[p][q].state
(* ... the vote is what the pods say ... *)
PodsMatch ==
  \A p \in Player :
    /\ provPod[p] # "Absent" => genPod[p] = "Succeeded"
    /\ uploaded[p] => provPod[p] = "Succeeded"
PodsFailed(p) == genPod[p] = "Failed" \/ provPod[p] = "Failed"
FailuresMatch ==
  \A p \in Player :
    /\ entry[p].state = "Failed" => PodsFailed(p)
    /\ taskRec[p].pc = "put" /\ taskRec[p].status.state = "Failed" => PodsFailed(p)
(* ... and decisions are taken on the votes. *)
AllCompleted == \A q \in Player : entry[q].state = "Completed"
DecisionsMatch ==
  \A p \in Player : jobRec[p].pc \in {"activate", "update"} =>
    jobRec[p].state = "Completed" /\ AllCompleted
OutcomesMatch ==
  \A p \in Player :
    /\ activated[p] => AllCompleted
    /\ job[p] = "Failed" => \E q \in Player : entry[q].state = "Failed"
CommitInv ==
  /\ EventsMatch /\ TasksMatch /\ PodsMatch /\ FailuresMatch /\ DecisionsMatch
  /\ OutcomesMatch

(* Whoever is known to have an endpoint has one. *)
Ready(q) == svc[q] = "Ready"
EntriesReady == \A p \in Player : entry[p].endpoint => Ready(p)
WritesReady ==
  \A p \in Player : taskRec[p].pc = "put" /\ taskRec[p].status.endpoint => Ready(p)
EventsReady ==
  \A p \in Player : \A i \in 1 .. Len(inbox[p]) :
    inbox[p][i].value.endpoint => Ready(inbox[p][i].player)
TasksReady == \A p, q \in Player : task[p][q].endpoint => Ready(q)
(* A task past its preparation has had all endpoints, and its volume. *)
Launched == {"Launching", "Generating", "Provisioning", "Completed", "Failed"}
LaunchesReady ==
  \A p \in Player :
    \/ entry[p].state \in Launched
    \/ taskRec[p].pc = "put" /\ taskRec[p].status.state = "Launching"
    => \A q \in Player : Ready(q)
VolumesBound ==
  \A p \in Player :
    \/ entry[p].state \in Launched \ Terminal
    \/ taskRec[p].pc = "put" /\ taskRec[p].status.state = "Launching"
    => pvc[p]
GeneratorsLaunched == \A p \in Player : genPod[p] # "Absent" => entry[p].state \in Launched
LaunchInv ==
  /\ EntriesReady /\ WritesReady /\ EventsReady /\ TasksReady
  /\ LaunchesReady /\ VolumesBound /\ GeneratorsLaunched

----------------------------------------------------------------------------
(* The life cycle of roster entries. *)

(* The status a pass decides on follows the one it has read. *)
LEMMA NewStatusFollows ==
  ASSUME TypeOK, NEW q \in Player, NEW s, NewStatus(q, s)
  PROVE  /\ s \in Status /\ entry[q].state # "Absent"
         /\ <<entry[q].state, s.state>> \in StateOrder
         /\ entry[q].endpoint => s.endpoint
<1>1. entry[q] \in Status
  BY DEF TypeOK
<1>2. s \in Status
  BY <1>1, StatusFacts DEF NewStatus, TaskState
<1>3. /\ entry[q].state # "Absent" /\ <<entry[q].state, s.state>> \in StateOrder
      /\ entry[q].endpoint => s.endpoint
  BY <1>1 DEF NewStatus, Status, StateOrder
<1> QED
  BY <1>2, <1>3

LEMMA WritesFollowStep ==
  ASSUME TypeOK, WritesFollow, StepChange
  PROVE  WritesFollow'
<1> SUFFICES ASSUME NEW p \in Player, taskRec'[p].pc = "put"
             PROVE  /\ entry'[p].state # "Absent"
                    /\ <<entry'[p].state, taskRec'[p].status.state>> \in StateOrder
                    /\ entry'[p].endpoint => taskRec'[p].status.endpoint
  BY DEF WritesFollow
<1>1. EntryChange(p) /\ TaskRecChange(p)
  BY DEF StepChange
<1>2. TaskIdle.pc # "put"
  BY DEF TaskIdle
<1>3. CASE taskRec'[p] = taskRec[p]
  <2>1. entry'[p] = entry[p]
    BY <1>1, <1>2, <1>3 DEF EntryChange
  <2> QED
    BY <1>3, <2>1 DEF WritesFollow
<1>4. CASE entry'[p] = entry[p] /\ NewStatus(p, taskRec'[p].status)
  BY <1>4, NewStatusFollows
<1> QED
  BY <1>1, <1>2, <1>3, <1>4 DEF TaskRecChange

(* A status that is about to be written still follows the entry. *)
LEMMA WritesFollowInvariant == Spec => []WritesFollow
<1>1. Init => WritesFollow
  <2>1. Init => \A p \in Player : taskRec[p] = TaskIdle
    BY DEF Init
  <2> QED
    BY <2>1 DEF WritesFollow, TaskIdle
<1>2. TypeOK /\ WritesFollow /\ [Next]_vars => WritesFollow'
  BY StepFacts, WritesFollowStep
<1> QED
  BY <1>1, <1>2, TypeCorrect, PTL DEF Spec

(* A roster entry moves through the states of a task one at a time, never  *)
(* leaves a terminal state and keeps its endpoint (setStatus of the task   *)
(* controller), for any number of VCPs, whatever fails or is repeated and  *)
(* whenever the job is deleted.                                            *)
THEOREM EntriesFollowLifecycle == Spec => EntryLifecycle
<1> DEFINE A == \A q \in Player : entry'[q] # entry[q] =>
                  \/ entry'[q] = Absent
                  \/ /\ <<entry[q].state, entry'[q].state>> \in StateOrder
                     /\ entry[q].endpoint => entry'[q].endpoint
<1>1. TypeOK /\ WritesFollow /\ [Next]_vars => [A]_vars
  <2> SUFFICES ASSUME TypeOK, WritesFollow, [Next]_vars, NEW q \in Player,
                      entry'[q] # entry[q], entry'[q] # Absent
               PROVE  /\ <<entry[q].state, entry'[q].state>> \in StateOrder
                      /\ entry[q].endpoint => entry'[q].endpoint
    OBVIOUS
  <2>1. EntryChange(q)
    BY StepFacts DEF StepChange
  <2>2. CASE entry[q] = Absent /\ entry'[q] = JustPreparing
    BY <2>2 DEF Absent, JustPreparing, StateOrder
  <2>3. CASE taskRec[q].pc = "put" /\ entry'[q] = taskRec[q].status
    BY <2>3 DEF WritesFollow
  <2> QED
    BY <2>1, <2>2, <2>3 DEF EntryChange
<1> QED
  BY <1>1, TypeCorrect, WritesFollowInvariant, PTL DEF Spec, EntryLifecycle

----------------------------------------------------------------------------
(* Without deletions of the job, nothing is ever deleted. *)

LEMMA KeptFacts ==
  ASSUME MaxDeletes = 0, TypeOK, KeptInv, NEW p \in Player
  PROVE  /\ ~JobDeletion(p)
         /\ \A q \in Player, v \in Status : ~AnEvent(p, q, "DELETE", v)
         /\ \A v : ~AnEvent(p, p, "PUT", v)
         /\ JobResume(p) => JobSeen(p).live
         /\ Exists(p, p) \/ (entry[p] = Absent /\ taskRec[p].pc = "idle")
<1>1. ~(deletes < MaxDeletes)
  BY DEF TypeOK
<1>2. \A i \in 1 .. Len(inbox[p]) :
        /\ inbox[p][i].type = "PUT"
        /\ inbox[p][i].kind = "entry" => inbox[p][i].player # p
  BY DEF KeptInv, EventsArePuts
<1>3. JobResume(p) => JobSeen(p).live
  BY DEF KeptInv, JobsLive, JobResume, JobSeen
<1> QED
  BY <1>1, <1>2, <1>3 DEF JobDeletion, AnEvent, KeptInv, TasksKept

LEMMA KeptStep ==
  ASSUME MaxDeletes = 0, TypeOK, KeptInv, StepChange
  PROVE  KeptInv'
<1>1. NothingCollected'
  <2> SUFFICES ASSUME NEW p \in Player PROVE orphan'[p] = {} /\ stale'[p] = {}
    BY DEF NothingCollected
  <2>1. orphan[p] = {} /\ stale[p] = {}
    BY DEF KeptInv, NothingCollected
  <2>2. OrphanChange(p) /\ StaleChange(p)
    BY DEF StepChange
  <2> QED
    BY <2>1, <2>2, KeptFacts DEF OrphanChange, StaleChange
<1>2. EventsArePuts'
  <2> SUFFICES ASSUME NEW p \in Player, NEW i \in 1 .. Len(inbox'[p])
               PROVE  /\ inbox'[p][i].type = "PUT"
                      /\ inbox'[p][i].kind = "entry" => inbox'[p][i].player # p
    BY DEF EventsArePuts
  <2>1. \/ \E j \in 1 .. Len(inbox[p]) : inbox'[p][i] = inbox[p][j]
        \/ NewEvent(p, inbox'[p][i])
    BY DEF StepChange, InboxChange
  <2>2. CASE \E j \in 1 .. Len(inbox[p]) : inbox'[p][i] = inbox[p][j]
    BY <2>2 DEF KeptInv, EventsArePuts
  <2>3. CASE inbox'[p][i] = RosterEvent("PUT")
    BY <2>3 DEF RosterEvent
  <2>4. CASE \E r \in Others(p) : inbox'[p][i] = EntryPut(r, entry'[r])
    BY <2>4 DEF EntryPut, Others
  <2>5. ~(roster /\ job[Master] = "Absent")
    BY DEF KeptInv, RosterKept
  <2>6. \A r \in Others(p) : ~(~Exists(r, r) /\ entry[r] # Absent)
    BY DEF KeptInv, TasksKept, Others
  <2> QED
    BY <2>1, <2>2, <2>3, <2>4, <2>5, <2>6 DEF NewEvent
<1>3. RosterKept'
  <2>1. Master \in Player
    BY NAssumption DEF Master, Player
  <2>2. RosterChange /\ JobChange(Master)
    BY <2>1 DEF StepChange
  <2>3. job[Master] # "Absent" => job'[Master] # "Absent"
    <3>1. jobRec[Master].state # "Absent"
      BY <2>1, ReconciliationFacts DEF TypeOK, JobState
    <3> QED
      BY <2>1, <2>2, <3>1, KeptFacts DEF JobChange
  <2> QED
    BY <2>2, <2>3 DEF RosterChange, KeptInv, RosterKept
<1>4. JobsLive'
  <2> SUFFICES ASSUME NEW p \in Player, jobRec'[p].pc # "idle" PROVE jobRec'[p].live
    BY DEF JobsLive
  <2>1. JobRecChange(p) /\ ~JobDeletion(p)
    BY KeptFacts DEF StepChange
  <2>2. CASE jobRec'[p] = jobRec[p]
    BY <2>2 DEF KeptInv, JobsLive
  <2>3. CASE jobRec'[p] = [pc |-> "task", live |-> TRUE, state |-> job[p]]
    BY <2>3
  <2>4. CASE JobResume(p) /\ jobRec'[p] = Activating(JobSeen(p).live)
    BY <2>4, KeptFacts DEF Activating
  <2>5. CASE jobRec[p].pc = "activate" /\ jobRec'[p] = [jobRec[p] EXCEPT !.pc = "update"]
    <3>1. jobRec[p] \in JobReconciliation
      BY DEF TypeOK
    <3> QED
      BY <2>5, <3>1 DEF JobReconciliation, KeptInv, JobsLive
  <2>6. jobRec'[p] # JobIdle
    <3>1. JobIdle.pc = "idle"
      BY DEF JobIdle
    <3> QED
      BY <3>1
  <2> QED
    BY <2>1, <2>2, <2>3, <2>4, <2>5, <2>6 DEF JobRecChange
<1>5. TasksKept'
  <2> SUFFICES ASSUME NEW p \in Player, task'[p][p].state = "Absent"
               PROVE  entry'[p] = Absent /\ taskRec'[p].pc = "idle"
    BY DEF TasksKept, Exists
  <2>1. TaskChange(p, p) /\ EntryChange(p) /\ TaskRecChange(p)
    BY DEF StepChange
  <2>2. orphan[p] = {}
    BY DEF KeptInv, NothingCollected
  <2>3. task'[p][p] = task[p][p]
    <3>1. task'[p][p] \notin {NoStatus, JustPreparing}
      <4>1. NoStatus.state # "Absent" /\ JustPreparing.state # "Absent"
        BY DEF NoStatus, JustPreparing
      <4> QED
        BY <4>1
    <3>2. /\ ~AnEvent(p, p, "PUT", task'[p][p])
          /\ ~\E v \in Status : AnEvent(p, p, "DELETE", v)
      BY KeptFacts
    <3> QED
      BY <2>1, <2>2, <3>1, <3>2 DEF TaskChange
  <2>4. ~Exists(p, p) /\ entry[p] = Absent /\ taskRec[p].pc = "idle"
    BY <2>3, KeptFacts DEF Exists
  <2> QED
    BY <2>1, <2>4 DEF EntryChange, TaskRecChange, TaskIdle
<1> QED
  BY <1>1, <1>2, <1>3, <1>4, <1>5 DEF KeptInv

LEMMA KeptInvariant ==
  ASSUME MaxDeletes = 0
  PROVE  Spec => []KeptInv
<1>1. Init => KeptInv
  <2> SUFFICES ASSUME Init PROVE KeptInv
    OBVIOUS
  <2>1. NothingCollected /\ RosterKept
    BY DEF Init, NothingCollected, RosterKept
  <2>2. EventsArePuts
    <3>1. inbox = [p \in Player |-> <<>>]
      BY DEF Init
    <3> QED
      BY <3>1, EmptySeq DEF EventsArePuts
  <2>3. JobsLive
    BY DEF Init, JobsLive, JobIdle
  <2>4. TasksKept
    BY DEF Init, TasksKept, TaskIdle
  <2> QED
    BY <2>1, <2>2, <2>3, <2>4 DEF KeptInv
<1>2. TypeOK /\ KeptInv /\ [Next]_vars => KeptInv'
  BY StepFacts, KeptStep
<1> QED
  BY <1>1, <1>2, TypeCorrect, PTL DEF Spec

----------------------------------------------------------------------------
(* Votes are final, and everything decided is decided on votes. *)

LEMMA VotesFinal ==
  ASSUME MaxDeletes = 0, TypeOK, WritesFollow, KeptInv, StepChange,
         NEW q \in Player, entry[q].state \in Terminal
  PROVE  entry'[q] = entry[q] /\ taskRec[q].pc # "put"
<1>1. EntryChange(q)
  BY DEF StepChange
<1>2. taskRec[q].pc # "put"
  BY DEF WritesFollow, StateOrder, Terminal
<1>3. entry[q] # Absent
  <2>1. Absent.state \notin Terminal
    BY DEF Absent, Terminal
  <2> QED
    BY <2>1
<1> QED
  BY <1>1, <1>2, <1>3, KeptFacts DEF EntryChange

(* Pods that have ended stay as they are. *)
LEMMA PodsFinal ==
  ASSUME KeptInv, StepChange, NEW p \in Player
  PROVE  /\ genPod[p] \in {"Succeeded", "Failed"} => genPod'[p] = genPod[p]
         /\ provPod[p] \in {"Succeeded", "Failed"} => provPod'[p] = provPod[p]
         /\ PodsFailed(p) => PodsFailed(p)'
<1>1. GenPodChange(p) /\ ProvPodChange(p) /\ stale[p] = {}
  BY DEF StepChange, KeptInv, NothingCollected
<1> QED
  BY <1>1 DEF GenPodChange, ProvPodChange, PodsFailed

LEMMA CommitStep ==
  ASSUME MaxDeletes = 0, TypeOK, WritesFollow, KeptInv, CommitInv, StepChange
  PROVE  CommitInv'
<1>0. AllCompleted => AllCompleted'
  BY VotesFinal DEF AllCompleted, Terminal
<1>1. EventsMatch'
  <2> SUFFICES ASSUME NEW p \in Player, NEW i \in 1 .. Len(inbox'[p]),
                      inbox'[p][i].value.state \in Terminal
               PROVE  entry'[inbox'[p][i].player].state = inbox'[p][i].value.state
    BY DEF EventsMatch
  <2>1. \/ \E j \in 1 .. Len(inbox[p]) : inbox'[p][i] = inbox[p][j]
        \/ NewEvent(p, inbox'[p][i])
    BY DEF StepChange, InboxChange
  <2>2. ASSUME NEW j \in 1 .. Len(inbox[p]), inbox'[p][i] = inbox[p][j]
        PROVE  entry'[inbox'[p][i].player].state = inbox'[p][i].value.state
    <3> DEFINE q == inbox[p][j].player
    <3>1. q \in Player
      BY EventsTyped
    <3>2. entry[q].state = inbox[p][j].value.state
      BY <2>2 DEF CommitInv, EventsMatch
    <3> QED
      BY <2>2, <3>1, <3>2, VotesFinal
  <2>3. CASE \E r \in Others(p) : inbox'[p][i] = EntryPut(r, entry'[r])
    BY <2>3 DEF EntryPut
  <2>4. \A t \in {"PUT", "DELETE"} : RosterEvent(t).value.state \notin Terminal
    BY DEF RosterEvent, Absent, Terminal
  <2>5. \A r \in Others(p) : EntryDelete(r).value.state \notin Terminal
    BY DEF EntryDelete, Absent, Terminal
  <2> QED
    BY <2>1, <2>2, <2>3, <2>4, <2>5 DEF NewEvent
<1>2. TasksMatch'
  <2> SUFFICES ASSUME NEW p \in Player, NEW q \in Player,
                      task'[p][q].state \in Terminal
               PROVE  entry'[q].state = task'[p][q].state
    BY DEF TasksMatch
  <2>1. TaskChange(p, q) /\ q \notin orphan[p]
    BY DEF StepChange, KeptInv, NothingCollected
  <2>2. SUFFICES entry[q].state = task'[p][q].state
    BY VotesFinal
  <2>3. CASE task'[p][q] = task[p][q]
    BY <2>3 DEF CommitInv, TasksMatch
  <2>4. CASE q = p /\ task'[p][q] = entry[p]
    BY <2>4
  <2>5. CASE AnEvent(p, q, "PUT", task'[p][q])
    BY <2>5 DEF AnEvent, CommitInv, EventsMatch
  <2>6. task'[p][q] \notin {NoStatus, JustPreparing}
    <3>1. NoStatus.state \notin Terminal /\ JustPreparing.state \notin Terminal
      BY DEF NoStatus, JustPreparing, Terminal
    <3> QED
      BY <3>1
  <2>7. ~\E v \in Status : AnEvent(p, q, "DELETE", v)
    BY KeptFacts
  <2> QED
    BY <2>1, <2>3, <2>4, <2>5, <2>6, <2>7 DEF TaskChange
<1>3. PodsMatch'
  <2> SUFFICES ASSUME NEW p \in Player
               PROVE  /\ provPod'[p] # "Absent" => genPod'[p] = "Succeeded"
                      /\ uploaded'[p] => provPod'[p] = "Succeeded"
    BY DEF PodsMatch
  <2>1. ProvPodChange(p) /\ stale[p] = {}
    BY DEF StepChange, KeptInv, NothingCollected
  <2>2. /\ provPod[p] # "Absent" => genPod[p] = "Succeeded"
        /\ uploaded[p] => provPod[p] = "Succeeded"
    BY DEF CommitInv, PodsMatch
  <2> QED
    BY <2>1, <2>2, PodsFinal DEF ProvPodChange
<1>4. FailuresMatch'
  <2> SUFFICES ASSUME NEW p \in Player,
                      \/ entry'[p].state = "Failed"
                      \/ taskRec'[p].pc = "put" /\ taskRec'[p].status.state = "Failed"
               PROVE  PodsFailed(p)
    BY PodsFinal DEF FailuresMatch
  <2>1. EntryChange(p) /\ TaskRecChange(p)
    BY DEF StepChange
  <2>2. CASE \/ entry[p].state = "Failed"
             \/ taskRec[p].pc = "put" /\ taskRec[p].status.state = "Failed"
    BY <2>2 DEF CommitInv, FailuresMatch
  <2>3. CASE NewStatus(p, taskRec'[p].status) /\ taskRec'[p].status.state = "Failed"
    <3>1. entry[p] \in Status
      BY DEF TypeOK
    <3> QED
      BY <2>3, <3>1 DEF NewStatus, Status, PodsFailed
  <2>4. Absent.state # "Failed" /\ JustPreparing.state # "Failed" /\ TaskIdle.pc # "put"
    BY DEF Absent, JustPreparing, TaskIdle
  <2>5. CASE entry'[p].state = "Failed"
    BY <2>1, <2>2, <2>4, <2>5 DEF EntryChange
  <2>6. CASE taskRec'[p].pc = "put" /\ taskRec'[p].status.state = "Failed"
    BY <2>1, <2>2, <2>3, <2>4, <2>6 DEF TaskRecChange
  <2> QED
    BY <2>5, <2>6
<1>5. DecisionsMatch'
  <2> SUFFICES ASSUME NEW p \in Player, jobRec'[p].pc \in {"activate", "update"}
               PROVE  jobRec'[p].state = "Completed" /\ AllCompleted
    BY <1>0 DEF DecisionsMatch
  <2>1. JobRecChange(p) /\ ~JobDeletion(p)
    BY KeptFacts DEF StepChange
  <2>2. CASE jobRec'[p] = jobRec[p]
    BY <2>2 DEF CommitInv, DecisionsMatch
  <2>3. CASE /\ jobRec'[p] = Activating(JobSeen(p).live)
             /\ \A q \in Player : task[p][q].state = "Completed"
    BY <2>3 DEF Activating, CommitInv, TasksMatch, Terminal, AllCompleted
  <2>4. CASE jobRec[p].pc = "activate" /\ jobRec'[p] = [jobRec[p] EXCEPT !.pc = "update"]
    <3>1. jobRec[p] \in JobReconciliation
      BY DEF TypeOK
    <3>2. jobRec'[p].state = jobRec[p].state
      BY <2>4, <3>1 DEF JobReconciliation
    <3> QED
      BY <2>4, <3>2 DEF CommitInv, DecisionsMatch
  <2>5. jobRec'[p] # JobIdle
    <3>1. JobIdle.pc = "idle"
      BY DEF JobIdle
    <3> QED
      BY <3>1
  <2> QED
    BY <2>1, <2>2, <2>3, <2>4, <2>5 DEF JobRecChange
<1>6. OutcomesMatch'
  <2> SUFFICES ASSUME NEW p \in Player
               PROVE  /\ activated'[p] => AllCompleted'
                      /\ job'[p] = "Failed" => \E q \in Player : entry'[q].state = "Failed"
    BY DEF OutcomesMatch
  <2>1. activated'[p] => AllCompleted'
    BY <1>0 DEF StepChange, ActivatedChange, CommitInv, DecisionsMatch, OutcomesMatch
  <2>2. ASSUME job'[p] = "Failed" PROVE \E q \in Player : entry'[q].state = "Failed"
    <3>1. JobChange(p) /\ ~JobDeletion(p)
      BY KeptFacts DEF StepChange
    <3>2. SUFFICES \E q \in Player : entry[q].state = "Failed"
      BY VotesFinal DEF Terminal
    <3>3. CASE job'[p] = job[p]
      BY <2>2, <3>3 DEF CommitInv, OutcomesMatch
    <3>4. CASE anyFailed(p)
      BY <3>4 DEF anyFailed, CommitInv, TasksMatch, Terminal
    <3>5. jobRec[p].pc = "update" => jobRec[p].state = "Completed"
      BY DEF CommitInv, DecisionsMatch
    <3> QED
      BY <2>2, <3>1, <3>3, <3>4, <3>5 DEF JobChange
  <2> QED
    BY <2>1, <2>2
<1> QED
  BY <1>1, <1>2, <1>3, <1>4, <1>5, <1>6 DEF CommitInv

(* What is known of a vote is what was voted, votes are what the pods say, *)
(* and decisions are taken on votes.                                       *)
LEMMA CommitInvariant ==
  ASSUME MaxDeletes = 0
  PROVE  Spec => []CommitInv
<1>1. Init => CommitInv
  <2> SUFFICES ASSUME Init PROVE CommitInv
    OBVIOUS
  <2>1. EventsMatch
    <3>1. inbox = [p \in Player |-> <<>>]
      BY DEF Init
    <3> QED
      BY <3>1, EmptySeq DEF EventsMatch
  <2>2. TasksMatch /\ PodsMatch
    BY DEF Init, TasksMatch, PodsMatch, Absent, Terminal
  <2>3. FailuresMatch
    BY DEF Init, FailuresMatch, Absent, TaskIdle
  <2>4. DecisionsMatch /\ OutcomesMatch
    BY DEF Init, DecisionsMatch, OutcomesMatch, JobIdle
  <2> QED
    BY <2>1, <2>2, <2>3, <2>4 DEF CommitInv
<1>2. TypeOK /\ WritesFollow /\ KeptInv /\ CommitInv /\ [Next]_vars => CommitInv'
  BY StepFacts, CommitStep
<1> QED
  BY <1>1, <1>2, TypeCorrect, WritesFollowInvariant, KeptInvariant, PTL DEF Spec

(* If the job is not deleted, no job fails on one VCP while the tuple      *)
(* chunk is activated on another (Reconcile of the job controllers), for   *)
(* any number of VCPs, restarts, failing calls and replayed events.        *)
THEOREM OutcomesAgree ==
  ASSUME MaxDeletes = 0
  PROVE  Spec => []OutcomeAgreement
<1>1. CommitInv => OutcomeAgreement
  BY DEF CommitInv, OutcomesMatch, AllCompleted, OutcomeAgreement
<1> QED
  BY <1>1, CommitInvariant, PTL

----------------------------------------------------------------------------
(* Each step is one of TupleChunk or does not show there. *)

Votes == [p \in Player |->
            IF entry[p].state \in Terminal THEN entry[p].state ELSE "none"]
Outcome == [p \in Player |-> IF activated[p] THEN "served"
                             ELSE IF job[p] = "Failed" THEN "given_up"
                             ELSE "open"]
ChunkUnchanged == UNCHANGED <<uploaded, Votes, Outcome>>

(* A job's state changes: it is given up, or no longer. *)
LEMMA JobChangesChunk ==
  ASSUME TypeOK, CommitInv', NEW p \in Player, NEW x,
         job' = [job EXCEPT ![p] = x], UNCHANGED <<uploaded, entry, activated>>
  PROVE  Chunk!GiveUp(p) \/ Chunk!Reconsider(p) \/ ChunkUnchanged
<1>1. UNCHANGED Votes
  BY DEF Votes
<1>2. \A q \in Player : Outcome[q] = IF activated[q] THEN "served"
                                     ELSE IF job[q] = "Failed" THEN "given_up"
                                     ELSE "open"
  BY DEF Outcome
<1>3. \A q \in Player : Outcome'[q] = IF activated[q] THEN "served"
                                      ELSE IF job'[q] = "Failed" THEN "given_up"
                                      ELSE "open"
  BY DEF Outcome
<1>4. \A q \in Player : q # p => job'[q] = job[q]
  BY DEF TypeOK
<1>5. CASE Outcome'[p] = Outcome[p]
  <2>1. \A q \in Player : Outcome'[q] = Outcome[q]
    BY <1>2, <1>3, <1>4, <1>5
  <2>2. Outcome' = Outcome
    BY <2>1 DEF Outcome
  <2> QED
    BY <1>1, <2>2 DEF ChunkUnchanged
<1>6. ASSUME NEW y, Outcome'[p] = y
      PROVE  Outcome' = [Outcome EXCEPT ![p] = y]
  <2>1. \A q \in Player : Outcome'[q] = [Outcome EXCEPT ![p] = y][q]
    BY <1>2, <1>3, <1>4, <1>6 DEF Outcome
  <2> QED
    BY <2>1 DEF Outcome
<1>7. CASE Outcome[p] = "open" /\ Outcome'[p] = "given_up"
  <2>1. job'[p] = "Failed"
    BY <1>3, <1>7
  <2>2. \E q \in Player : Votes[q] = "Failed"
    BY <2>1 DEF CommitInv, OutcomesMatch, Votes, Terminal
  <2>3. Outcome' = [Outcome EXCEPT ![p] = "given_up"]
    BY <1>6, <1>7
  <2> QED
    BY <1>1, <1>7, <2>2, <2>3 DEF Chunk!GiveUp, Votes, Outcome
<1>8. CASE Outcome[p] = "given_up" /\ Outcome'[p] = "open"
  <2>1. Outcome' = [Outcome EXCEPT ![p] = "open"]
    BY <1>6, <1>8
  <2> QED
    BY <1>1, <1>8, <2>1 DEF Chunk!Reconsider, Votes, Outcome
<1> QED
  BY <1>2, <1>3, <1>5, <1>7, <1>8

(* A chunk is activated: it is served, unless it is already. *)
LEMMA JobActivateChunk ==
  ASSUME TypeOK, CommitInv, NEW p \in Player, JobActivate(p)
  PROVE  Chunk!Serve(p) \/ ChunkUnchanged
<1>1. /\ UNCHANGED <<uploaded, entry, job>>
      /\ activated' = [activated EXCEPT ![p] = TRUE]
  BY DEF JobActivate, etcdVars, k8sVars
<1>2. AllCompleted
  BY DEF JobActivate, CommitInv, DecisionsMatch
<1>3. job[p] # "Failed"
  BY <1>2 DEF CommitInv, OutcomesMatch, AllCompleted
<1>4. UNCHANGED Votes /\ \A q \in Player : Votes[q] = "Completed"
  BY <1>1, <1>2 DEF Votes, AllCompleted, Terminal
<1>5. Outcome' = [Outcome EXCEPT ![p] = "served"]
  <2>1. \A q \in Player : Outcome'[q] = [Outcome EXCEPT ![p] = "served"][q]
    BY <1>1 DEF Outcome, TypeOK
  <2> QED
    BY <2>1 DEF Outcome
<1>6. CASE activated[p]
  <2>1. Outcome[p] = "served"
    BY <1>6 DEF Outcome
  <2>2. Outcome' = Outcome
    BY <1>5, <2>1 DEF Outcome
  <2> QED
    BY <1>1, <1>4, <2>2 DEF ChunkUnchanged
<1>7. CASE ~activated[p]
  <2>1. Outcome[p] = "open"
    BY <1>3, <1>7 DEF Outcome
  <2> QED
    BY <1>1, <1>4, <1>5, <2>1 DEF Chunk!Serve, Votes, Outcome
<1> QED
  BY <1>6, <1>7

(* A status is written: a vote, if it is terminal. *)
LEMMA TaskPutChunk ==
  ASSUME TypeOK, UploadInv, WritesFollow, CommitInv, NEW p \in Player, TaskPut(p)
  PROVE  Chunk!VoteCompleted(p) \/ Chunk!VoteFailed(p) \/ ChunkUnchanged
<1> DEFINE s == taskRec[p].status
<1>1. /\ UNCHANGED <<uploaded, job, activated>>
      /\ entry' = [entry EXCEPT ![p] = s]
      /\ taskRec[p].pc = "put"
  BY DEF TaskPut, k8sVars, castorVars
<1>2. entry[p].state \notin Terminal
  BY <1>1 DEF WritesFollow, StateOrder, Terminal
<1>3. UNCHANGED Outcome
  BY <1>1 DEF Outcome
<1>4. Votes[p] = "none"
  BY <1>2 DEF Votes
<1>5. Votes' = [Votes EXCEPT ![p] = IF s.state \in Terminal THEN s.state ELSE "none"]
  <2> DEFINE new == [Votes EXCEPT ![p] = IF s.state \in Terminal THEN s.state ELSE "none"]
  <2>1. \A q \in Player : Votes'[q] = new[q]
    BY <1>1 DEF Votes, TypeOK
  <2> QED
    BY <2>1 DEF Votes
<1>6. CASE s.state \notin Terminal
  <2>1. Votes' = Votes
    BY <1>4, <1>5, <1>6 DEF Votes
  <2> QED
    BY <1>1, <1>3, <2>1 DEF ChunkUnchanged
<1>7. CASE s.state = "Completed"
  <2>1. uploaded[p]
    BY <1>7 DEF UploadInv, WritesUploaded
  <2>2. Votes' = [Votes EXCEPT ![p] = "Completed"]
    BY <1>5, <1>7 DEF Terminal
  <2> QED
    BY <1>1, <1>3, <1>4, <2>1, <2>2 DEF Chunk!VoteCompleted, Votes, Outcome
<1>8. CASE s.state = "Failed"
  <2>1. ~uploaded[p]
    BY <1>1, <1>8 DEF CommitInv, FailuresMatch, PodsFailed, PodsMatch
  <2>2. Votes' = [Votes EXCEPT ![p] = "Failed"]
    BY <1>5, <1>8 DEF Terminal
  <2> QED
    BY <1>1, <1>3, <1>4, <2>1, <2>2 DEF Chunk!VoteFailed, Votes, Outcome
<1> QED
  BY <1>6, <1>7, <1>8 DEF Terminal

(* The provisioner ends: the shares are stored, or not. *)
LEMMA ProvisionerEndsChunk ==
  ASSUME TypeOK, UploadInv, CommitInv, NEW p \in Player,
         NEW phase \in {"Succeeded", "Failed"}, ProvisionerEnds(p, phase)
  PROVE  Chunk!Store(p) \/ ChunkUnchanged
<1>1. /\ UNCHANGED <<entry, job, activated>> /\ provPod[p] = "Running"
      /\ uploaded' = [uploaded EXCEPT ![p] = uploaded[p] \/ phase = "Succeeded"]
  BY DEF ProvisionerEnds, etcdVars
<1>2. UNCHANGED Votes /\ UNCHANGED Outcome
  BY <1>1 DEF Votes, Outcome
<1>3. ~uploaded[p] /\ genPod[p] = "Succeeded"
  BY <1>1 DEF CommitInv, PodsMatch
<1>4. Votes[p] = "none"
  BY <1>1, <1>3 DEF Votes, Terminal, UploadInv, EntriesUploaded, CommitInv,
     FailuresMatch, PodsFailed
<1>5. CASE phase = "Succeeded"
  <2>1. uploaded' = [uploaded EXCEPT ![p] = TRUE]
    BY <1>1, <1>5
  <2> QED
    BY <1>2, <1>3, <1>4, <2>1 DEF Chunk!Store, Votes, Outcome
<1>6. CASE phase = "Failed"
  <2>1. uploaded' = uploaded
    BY <1>1, <1>3, <1>6 DEF TypeOK
  <2> QED
    BY <1>2, <2>1 DEF ChunkUnchanged
<1> QED
  BY <1>5, <1>6

(* Everything else is out of sight. *)
LEMMA HiddenFromChunk ==
  ASSUME UNCHANGED <<uploaded, entry, activated, job>>
  PROVE  ChunkUnchanged
BY DEF ChunkUnchanged, Votes, Outcome

LEMMA ChunkStep ==
  ASSUME MaxDeletes = 0, TypeOK, UploadInv, WritesFollow, KeptInv, CommitInv,
         CommitInv', [Next]_vars
  PROVE  Chunk!Next \/ ChunkUnchanged
<1> USE DEF etcdVars, k8sVars, podVars, jobCtrlVars, taskCtrlVars, castorVars
<1>1. CASE UNCHANGED vars
  BY <1>1, HiddenFromChunk DEF vars
<1>2. CASE Next
  <2>0. PICK p \in Player : Step(p)
    BY <1>2 DEF Next, Step
  <2>1. CASE /\ \E x : job' = [job EXCEPT ![p] = x]
             /\ UNCHANGED <<uploaded, entry, activated>>
    BY <2>1, JobChangesChunk DEF Chunk!Next
  <2>2. CASE UNCHANGED <<uploaded, entry, activated, job>>
    BY <2>2, HiddenFromChunk
  <2>3. CASE JobDerive(p) \/ JobUpdate(p)
    <3>1. UNCHANGED <<uploaded, entry, activated>>
      BY <2>3 DEF JobDerive, JobUpdate
    <3>2. UNCHANGED job \/ \E x : job' = [job EXCEPT ![p] = x]
      BY <2>3 DEF JobDerive, JobUpdate, JobComplete, StatusUpdate
    <3> QED
      BY <2>1, <2>2, <3>1, <3>2
  <2>4. CASE JobPut(p)
    BY <2>1, <2>4 DEF JobPut, createJobIfNotExists
  <2>5. CASE JobDelete(p) \/ DeleteJob(p)
    BY <2>1, <2>2, <2>5 DEF JobDelete, DeleteJob, RemoveJob
  <2>6. CASE JobActivate(p)
    BY <2>6, JobActivateChunk DEF Chunk!Next
  <2>7. CASE TaskPut(p)
    BY <2>7, TaskPutChunk DEF Chunk!Next
  <2>8. CASE \E phase \in Outcomes : ProvisionerEnds(p, phase)
    BY <2>8, ProvisionerEndsChunk, BoundAssumption DEF Chunk!Next
  <2>9. CASE TaskCreateEntry(p) \/ TaskCleanup(p)
    <3>1. UNCHANGED <<uploaded, activated, job>> /\ UNCHANGED Outcome
      BY <2>9 DEF TaskCreateEntry, TaskCleanup, Outcome
    <3>2. /\ entry[p] = Absent
          /\ \E s \in {Absent, JustPreparing} : entry' = [entry EXCEPT ![p] = s]
      BY <2>9, KeptFacts DEF TaskCreateEntry, TaskCleanup
    <3>3. Absent.state \notin Terminal /\ JustPreparing.state \notin Terminal
      BY DEF Absent, JustPreparing, Terminal
    <3>4. UNCHANGED Votes
      BY <3>2, <3>3 DEF Votes, TypeOK
    <3> QED
      BY <3>1, <3>4 DEF ChunkUnchanged
  <2>10. CASE JobCleanup(p) \/ JobCreateRoster(p) \/ JobCreateTask(p)
    BY <2>2, <2>10 DEF JobCleanup, JobCreateRoster, JobCreateTask
  <2>11. CASE \/ TaskLookupFails(p) \/ TaskPrepare(p) \/ TaskLaunch(p)
              \/ TaskGenerate(p) \/ TaskProvision(p) \/ TaskFinish(p)
    BY <2>2, <2>11, PassesRead, Untouched DEF TaskStep
  <2>12. CASE RemotePut(p) \/ RemoteDelete(p)
    BY <2>2, <2>12 DEF RemotePut, RemoteDelete
  <2>13. CASE Failure(p)
    BY <2>2, <2>13, Untouched
  <2>14. CASE Cluster(p) /\ ~\E phase \in Outcomes : ProvisionerEnds(p, phase)
    BY <2>2, <2>14 DEF Cluster, AssignEndpoint, GeneratorEnds, CollectTask,
       CollectDependent
  <2> QED
    BY <2>0, <2>3, <2>4, <2>5, <2>6, <2>7, <2>8, <2>9, <2>10, <2>11, <2>12, <2>13,
       <2>14 DEF Step, JobStep, TaskStep, WatchStep
<1> QED
  BY <1>1, <1>2

(* If the job is not deleted, the operators of the VCPs implement the      *)
(* atomic commitment of TupleChunk: a chunk is served only on the votes of *)
(* all VCPs, given up only on a vote against it, and a vote, in the roster *)
(* entry, tells truly whether the shares are stored (Reconcile of both     *)
(* controllers, handleRemoteTaskUpdate), for any number of VCPs, restarts, *)
(* failing calls and replayed events.                                      *)
THEOREM CommitmentImplemented ==
  ASSUME MaxDeletes = 0
  PROVE  Spec => CommitsAtomically
<1>1. Init => Chunk!Init
  <2> SUFFICES ASSUME Init PROVE Chunk!Init
    OBVIOUS
  <2>1. uploaded = [p \in Player |-> FALSE]
    BY DEF Init
  <2>2. \A p \in Player : entry[p].state \notin Terminal
    BY DEF Init, Absent, Terminal
  <2>3. \A p \in Player : ~activated[p] /\ job[p] # "Failed"
    BY DEF Init
  <2> QED
    BY <2>1, <2>2, <2>3 DEF Chunk!Init
<1>2. TypeOK /\ UploadInv /\ WritesFollow /\ KeptInv /\ CommitInv /\ CommitInv'
        /\ [Next]_vars => [Chunk!Next]_(Chunk!chunkVars)
  BY ChunkStep DEF ChunkUnchanged, Votes, Outcome, Chunk!chunkVars
<1> QED
  BY <1>1, <1>2, TypeCorrect, ReportsFollowUploads, WritesFollowInvariant,
     KeptInvariant, CommitInvariant, PTL DEF Spec, CommitsAtomically, Chunk!Spec

----------------------------------------------------------------------------
(* Endpoints and volumes. *)

(* A service that has its ingress point keeps it. *)
LEMMA ReadyStays ==
  ASSUME KeptInv, StepChange, NEW q \in Player, Ready(q)
  PROVE  Ready(q)'
<1>1. SvcChange(q) /\ stale[q] = {}
  BY DEF StepChange, KeptInv, NothingCollected
<1> QED
  BY <1>1 DEF SvcChange, Ready

(* A task that is launched stays so, and becomes so by a write. *)
LaunchWritten(p) == taskRec[p].pc = "put" /\ taskRec[p].status.state = "Launching"
LEMMA LaunchedStep ==
  ASSUME MaxDeletes = 0, TypeOK, WritesFollow, KeptInv, StepChange, NEW p \in Player
  PROVE  /\ entry[p].state \in Launched => entry'[p].state \in Launched
         /\ entry'[p].state \in Launched =>
              entry[p].state \in Launched \/ LaunchWritten(p)
         /\ LaunchWritten(p)' =>
              \/ LaunchWritten(p)
              \/ entry[p].state = "Preparing" /\ endpoints(p) = Player /\ pvc'[p]
<1>1. EntryChange(p) /\ TaskRecChange(p)
  BY DEF StepChange
<1>2. Absent.state \notin Launched /\ JustPreparing.state \notin Launched
  BY DEF Absent, JustPreparing, Launched
<1>3. taskRec[p].pc = "put" =>
        <<entry[p].state, taskRec[p].status.state>> \in StateOrder
  BY DEF WritesFollow
<1>4. entry[p].state \in Launched => entry'[p].state \in Launched
  <2>1. CASE entry'[p] = taskRec[p].status /\ taskRec[p].pc = "put"
    BY <1>3, <2>1 DEF StateOrder, Launched
  <2> QED
    BY <1>1, <1>2, <2>1, KeptFacts DEF EntryChange
<1>5. entry'[p].state \in Launched => entry[p].state \in Launched \/ LaunchWritten(p)
  <2>1. CASE entry'[p] = taskRec[p].status /\ taskRec[p].pc = "put"
    BY <1>3, <2>1 DEF StateOrder, Launched, LaunchWritten
  <2> QED
    BY <1>1, <1>2, <2>1 DEF EntryChange
<1>6. ASSUME LaunchWritten(p)', ~LaunchWritten(p)
      PROVE  entry[p].state = "Preparing" /\ endpoints(p) = Player /\ pvc'[p]
  <2>1. entry[p] \in Status
    BY DEF TypeOK
  <2>2. NewStatus(p, taskRec'[p].status) /\ taskRec'[p].status.state = "Launching"
    BY <1>1, <1>6 DEF TaskRecChange, LaunchWritten, TaskIdle
  <2> QED
    BY <2>1, <2>2 DEF NewStatus, Status
<1> QED
  BY <1>4, <1>5, <1>6

LEMMA LaunchStep ==
  ASSUME MaxDeletes = 0, TypeOK, WritesFollow, KeptInv, LaunchInv, StepChange
  PROVE  LaunchInv'
<1>0. ~Absent.endpoint /\ ~NoStatus.endpoint /\ ~JustPreparing.endpoint
  BY DEF Absent, NoStatus, JustPreparing
<1>1. EntriesReady'
  <2> SUFFICES ASSUME NEW p \in Player, entry'[p].endpoint PROVE Ready(p)
    BY ReadyStays DEF EntriesReady
  <2>1. EntryChange(p)
    BY DEF StepChange
  <2> QED
    BY <1>0, <2>1 DEF EntryChange, LaunchInv, EntriesReady, WritesReady
<1>2. WritesReady'
  <2> SUFFICES ASSUME NEW p \in Player, taskRec'[p].pc = "put",
                      taskRec'[p].status.endpoint
               PROVE  Ready(p)
    BY ReadyStays DEF WritesReady
  <2>1. TaskRecChange(p) /\ TaskIdle.pc # "put" /\ entry[p] \in Status
    BY DEF StepChange, TaskIdle, TypeOK
  <2>2. CASE taskRec'[p] = taskRec[p]
    BY <2>2 DEF LaunchInv, WritesReady
  <2>3. CASE NewStatus(p, taskRec'[p].status)
    <3>1. entry[p].endpoint \/ svc[p] = "Ready"
      BY <2>1, <2>3 DEF NewStatus, Status
    <3> QED
      BY <3>1 DEF LaunchInv, EntriesReady, Ready
  <2> QED
    BY <2>1, <2>2, <2>3 DEF TaskRecChange
<1>3. EventsReady'
  <2> SUFFICES ASSUME NEW p \in Player, NEW i \in 1 .. Len(inbox'[p]),
                      inbox'[p][i].value.endpoint
               PROVE  svc'[inbox'[p][i].player] = "Ready"
    BY DEF EventsReady, Ready
  <2>1. \/ \E j \in 1 .. Len(inbox[p]) : inbox'[p][i] = inbox[p][j]
        \/ NewEvent(p, inbox'[p][i])
    BY DEF StepChange, InboxChange
  <2>2. ASSUME NEW j \in 1 .. Len(inbox[p]), inbox'[p][i] = inbox[p][j]
        PROVE  svc'[inbox'[p][i].player] = "Ready"
    <3> DEFINE q == inbox[p][j].player
    <3>1. q \in Player
      BY EventsTyped
    <3>2. Ready(q)
      BY <2>2 DEF LaunchInv, EventsReady
    <3>3. \A r \in Player : Ready(r) => svc'[r] = "Ready"
      BY ReadyStays DEF Ready
    <3> QED
      BY <2>2, <3>1, <3>2, <3>3
  <2>3. ASSUME NEW r \in Others(p), inbox'[p][i] = EntryPut(r, entry'[r])
        PROVE  svc'[inbox'[p][i].player] = "Ready"
    <3>1. r \in Player /\ inbox'[p][i].player = r /\ entry'[r].endpoint
      BY <2>3 DEF Others, EntryPut
    <3> QED
      BY <1>1, <3>1 DEF EntriesReady, Ready
  <2>4. \A t \in {"PUT", "DELETE"} : ~RosterEvent(t).value.endpoint
    BY DEF RosterEvent, Absent
  <2>5. \A r \in Others(p) : ~EntryDelete(r).value.endpoint
    BY DEF EntryDelete, Absent
  <2> QED
    BY <2>1, <2>2, <2>3, <2>4, <2>5 DEF NewEvent
<1>4. TasksReady'
  <2> SUFFICES ASSUME NEW p \in Player, NEW q \in Player, task'[p][q].endpoint
               PROVE  Ready(q)
    BY ReadyStays DEF TasksReady
  <2>1. TaskChange(p, q) /\ q \notin orphan[p]
    BY DEF StepChange, KeptInv, NothingCollected
  <2>2. CASE task'[p][q] = task[p][q]
    BY <2>2 DEF LaunchInv, TasksReady
  <2>3. CASE q = p /\ task'[p][q] = entry[p]
    BY <2>3 DEF LaunchInv, EntriesReady
  <2>4. CASE AnEvent(p, q, "PUT", task'[p][q])
    BY <2>4 DEF AnEvent, LaunchInv, EventsReady
  <2>5. ~\E v \in Status : AnEvent(p, q, "DELETE", v)
    BY KeptFacts
  <2> QED
    BY <1>0, <2>1, <2>2, <2>3, <2>4, <2>5 DEF TaskChange
<1>5. LaunchesReady'
  <2> SUFFICES ASSUME NEW p \in Player,
                      entry'[p].state \in Launched \/ LaunchWritten(p)'
               PROVE  \A q \in Player : Ready(q)
    BY ReadyStays DEF LaunchesReady, LaunchWritten
  <2>1. CASE entry[p].state \in Launched \/ LaunchWritten(p)
    BY <2>1 DEF LaunchInv, LaunchesReady, LaunchWritten
  <2>2. CASE endpoints(p) = Player
    <3> SUFFICES ASSUME NEW q \in Player PROVE Ready(q)
      OBVIOUS
    <3>1. IF q = p THEN entry[p].endpoint ELSE task[p][q].endpoint
      BY <2>2 DEF endpoints
    <3> QED
      BY <3>1 DEF LaunchInv, EntriesReady, TasksReady
  <2> QED
    BY <2>1, <2>2, LaunchedStep
<1>6. VolumesBound'
  <2> SUFFICES ASSUME NEW p \in Player,
                      entry'[p].state \in Launched \ Terminal \/ LaunchWritten(p)'
               PROVE  pvc'[p]
    BY DEF VolumesBound, LaunchWritten
  <2>1. PvcChange(p)
    BY DEF StepChange
  <2>2. LaunchWritten(p) => entry[p].state \notin Terminal
    BY DEF LaunchWritten, WritesFollow, StateOrder, Terminal
  <2>3. CASE LaunchWritten(p)
    BY <2>1, <2>2, <2>3 DEF PvcChange, LaunchInv, VolumesBound, LaunchWritten
  <2>4. CASE LaunchWritten(p)' /\ ~LaunchWritten(p)
    BY <2>4, LaunchedStep
  <2>5. CASE /\ entry'[p].state \in Launched \ Terminal
             /\ ~LaunchWritten(p)
    <3>1. entry[p].state \in Launched
      BY <2>5, LaunchedStep
    <3>2. entry[p].state \notin Terminal
      BY <2>5, VotesFinal
    <3> QED
      BY <2>1, <3>1, <3>2 DEF PvcChange, LaunchInv, VolumesBound
  <2> QED
    BY <2>3, <2>4, <2>5
<1>7. GeneratorsLaunched'
  <2> SUFFICES ASSUME NEW p \in Player, genPod'[p] # "Absent"
               PROVE  entry'[p].state \in Launched
    BY DEF GeneratorsLaunched
  <2>1. GenPodChange(p) /\ stale[p] = {}
    BY DEF StepChange, KeptInv, NothingCollected
  <2>2. genPod[p] # "Absent" => entry[p].state \in Launched
    BY DEF LaunchInv, GeneratorsLaunched
  <2>3. entry[p].state \in Launched
    BY <2>1, <2>2 DEF GenPodChange, Launched
  <2> QED
    BY <2>3, LaunchedStep
<1> QED
  BY <1>1, <1>2, <1>3, <1>4, <1>5, <1>6, <1>7 DEF LaunchInv

LEMMA LaunchInvariant ==
  ASSUME MaxDeletes = 0
  PROVE  Spec => []LaunchInv
<1>1. Init => LaunchInv
  <2> SUFFICES ASSUME Init PROVE LaunchInv
    OBVIOUS
  <2>1. /\ inbox = [p \in Player |-> <<>>]
        /\ \A p \in Player : entry[p] = Absent /\ taskRec[p] = TaskIdle
        /\ \A p, q \in Player : task[p][q] = Absent
        /\ \A p \in Player : genPod[p] = "Absent"
    BY DEF Init
  <2>2. EventsReady
    BY <2>1, EmptySeq DEF EventsReady
  <2>3. /\ ~Absent.endpoint /\ Absent.state \notin Launched
        /\ TaskIdle.pc # "put"
    BY DEF Absent, Launched, TaskIdle
  <2>4. EntriesReady /\ WritesReady /\ TasksReady
    BY <2>1, <2>3 DEF EntriesReady, WritesReady, TasksReady
  <2>5. LaunchesReady /\ VolumesBound /\ GeneratorsLaunched
    BY <2>1, <2>3 DEF LaunchesReady, VolumesBound, GeneratorsLaunched
  <2> QED
    BY <2>2, <2>4, <2>5 DEF LaunchInv
<1>2. TypeOK /\ WritesFollow /\ KeptInv /\ LaunchInv /\ [Next]_vars => LaunchInv'
  BY StepFacts, LaunchStep
<1> QED
  BY <1>1, <1>2, TypeCorrect, WritesFollowInvariant, KeptInvariant, PTL DEF Spec

(* If the job is not deleted, a generator pod exists only once the service *)
(* of every VCP has its ingress point (TaskPreparing in Reconcile of the   *)
(* task controller), although the decision to launch rests on proxies and  *)
(* may be taken long before the pod is created, or twice.                  *)
THEOREM GeneratorsReachable ==
  ASSUME MaxDeletes = 0
  PROVE  Spec => []LaunchedWhenReachable
<1>1. LaunchInv => LaunchedWhenReachable
  BY DEF LaunchInv, GeneratorsLaunched, LaunchesReady, LaunchedWhenReachable, Ready
<1> QED
  BY <1>1, LaunchInvariant, PTL

(* If the job is not deleted, the volume claim of a VCP that has started   *)
(* to generate exists until the task is completed or failed (deletePVC in  *)
(* the task controller), whatever passes are repeated or interrupted.      *)
THEOREM VolumesKept ==
  ASSUME MaxDeletes = 0
  PROVE  Spec => []TuplesKept
<1>1. LaunchInv => TuplesKept
  BY DEF LaunchInv, GeneratorsLaunched, VolumesBound, TuplesKept
<1> QED
  BY <1>1, LaunchInvariant, PTL
=============================================================================
