------------------------ MODULE Klyshko_order_proofs ------------------------
(***************************************************************************)
(* What rests on the order of roster events, for any number of VCPs.       *)
(* Proxies converge to the roster entries they mirror if no handler fails, *)
(* although events may be handled twice.  If no event is handled twice, a  *)
(* job that is done stays done, every generator is given the endpoints of  *)
(* all VCPs, and a job that is deleted when it is done does not come back. *)
(***************************************************************************)
EXTENDS Klyshko_commit_proofs

ProxiesSame(p) == \A q \in Others(p) : task'[p][q] = task[p][q]

(* A roster entry is written, to start or to go on with the task. *)
Writing(r) ==
  \/ entry[r] = Absent /\ entry'[r] = JustPreparing /\ Exists(r, r)
  \/ taskRec[r].pc = "put" /\ entry'[r] = taskRec[r].status

(* From the point of view of the watch of p, a step is out of sight, ... *)
Quiet(p) ==
  /\ inbox'[p] = inbox[p] /\ handled'[p] \in {0, handled[p]}
  /\ ProxiesSame(p) \/ orphan[p] # {}
(* ... or an event is sent to it, ... *)
Sending(p, ev) ==
  /\ Len(inbox'[p]) = Len(inbox[p]) + 1
  /\ \A i \in 1 .. Len(inbox[p]) : inbox'[p][i] = inbox[p][i]
  /\ inbox'[p][Len(inbox[p]) + 1] = ev
  /\ handled'[p] = handled[p] /\ ProxiesSame(p)
Sent(p) ==
  \/ Sending(p, RosterEvent("PUT")) /\ ~roster /\ job[Master] # "Absent"
  \/ \E r \in Others(p) : Writing(r) /\ Sending(p, EntryPut(r, entry'[r]))
  \/ \E ev \in Event : ev.type = "DELETE" /\ Sending(p, ev) /\ NewEvent(p, ev)
(* ... or it handles the next event, after which it forgets d of them. *)
Shifted(p, d) ==
  /\ Len(inbox'[p]) = Len(inbox[p]) - d
  /\ \A i \in 1 .. Len(inbox'[p]) : inbox'[p][i] = inbox[p][i + d]
  /\ handled'[p] = handled[p] + 1 - d
Consumed(p) ==
  \/ Shifted(p, handled[p] + 1)
  \/ /\ Shifted(p, 0) /\ handled[p] < MaxUnacked
     /\ crashes < MaxCrashes \/ faults < MaxFaults
Mirrored(p, ev) ==
  \/ /\ ev.kind = "roster" /\ job'[p] # "Absent" /\ ProxiesSame(p)
  \/ /\ ev.kind = "entry" /\ job[p] = "Absent" /\ ProxiesSame(p)
  \/ /\ ev.kind = "entry" /\ job[p] # "Absent"
     /\ \A q \in Others(p) :
          task'[p][q] = IF q = ev.player THEN ProxyStatus(p, q, ev.value)
                                         ELSE task[p][q]
  \/ /\ faults < MaxFaults
     /\ \A q \in Others(p) :
          \/ task'[p][q] = task[p][q]
          \/ q = ev.player /\ ~Exists(p, q) /\ task'[p][q] = NoStatus
  \/ ev.type = "DELETE"
Received(p) == Pending(p) /\ Consumed(p) /\ Mirrored(p, NextEvent(p))
WatchChange(p) == Quiet(p) \/ Sent(p) \/ Received(p)

(* Whatever is written to etcd is sent to all watches it concerns. *)
RosterSent(p) ==
  \/ roster' = roster \/ ~roster'
  \/ Sending(p, RosterEvent("PUT"))
EntrySent(p, q) ==
  \/ entry'[q] = entry[q] \/ ~Exists(q, q)
  \/ Sending(p, EntryPut(q, entry'[q]))

(* The endpoints are given to a generator when it is created. *)
PeersChange(q) ==
  \/ peers'[q] = peers[q] /\ (genPod[q] = "Absent" => genPod'[q] = "Absent")
  \/ /\ entry[q].state = "Launching" /\ peers'[q] = endpoints(q)
  \/ stale[q] # {}

OrderChange ==
  \A p \in Player :
    /\ WatchChange(p) /\ RosterSent(p) /\ PeersChange(p)
    /\ \A q \in Others(p) : EntrySent(p, q)

(* No event is handled again: the head revision is always persisted, or    *)
(* nothing ever makes a watch start again from an older one.               *)
NoReplays == MaxUnacked = 0 \/ (MaxCrashes = 0 /\ MaxFaults = 0)

About(p, i, q) ==
  i \in 1 .. Len(inbox[p]) /\ inbox[p][i].kind = "entry" /\ inbox[p][i].player = q

(* Events tell of tasks that exist, as do tasks. *)
EventsReal ==
  \A p \in Player : \A i \in 1 .. Len(inbox[p]) :
    inbox[p][i].kind = "entry" =>
      /\ inbox[p][i].value.state # "Absent"
      /\ inbox[p][i].value.endpoint => entry[inbox[p][i].player].endpoint
TasksReal ==
  \A p, q \in Player :
    /\ ~Exists(p, q) => task[p][q] = Absent
    /\ task[p][q].endpoint => entry[q].endpoint
RealInv == EventsReal /\ TasksReal

(* Events that are still to be handled are newer than the proxies, and in  *)
(* order.                                                                  *)
AllHandledGone == \A p \in Player : handled[p] = 0
EventsOrdered ==
  \A p, q \in Player : \A i, j \in 1 .. Len(inbox[p]) :
    i < j /\ About(p, i, q) /\ About(p, j, q) =>
      /\ inbox[p][i].value.state \notin Terminal
      /\ inbox[p][i].value.endpoint => inbox[p][j].value.endpoint
EventsAhead ==
  \A p, q \in Player : \A i \in 1 .. Len(inbox[p]) : About(p, i, q) =>
    /\ task[p][q].state \notin Terminal
    /\ task[p][q].endpoint => inbox[p][i].value.endpoint
OrderInv == AllHandledGone /\ EventsOrdered /\ EventsAhead

(* A job that is done or about to be has seen all tasks end. *)
DoneInv ==
  \A p \in Player :
    /\ job[p] = "Completed" \/ jobRec[p].pc \in {"activate", "update"} =>
         \A q \in Player : task[p][q].state = "Completed"
    /\ job[p] = "Failed" =>
         anyFailed(p) /\ \A q \in Player : task[p][q].state \in Terminal
PeersInv ==
  \A p \in Player :
    /\ entry[p].state \in Launched \/ LaunchWritten(p) => endpoints(p) = Player
    /\ genPod[p] # "Absent" => peers[p] = Player

(* The roster is announced before the entries. *)
RosterFirst == \A p \in Player : jobRec[p].pc = "task" \/ Exists(p, p) => roster
Announced(p, n) ==
  \/ job[p] # "Absent"
  \/ \E j \in 1 .. Len(inbox[p]) :
       handled[p] < j /\ j <= n /\ inbox[p][j].kind = "roster"
RosterAnnounced ==
  \A p \in Player :
    /\ roster => Announced(p, Len(inbox[p]))
    /\ \A i \in 1 .. Len(inbox[p]) :
         inbox[p][i].kind = "entry" => Announced(p, i)
(* The last event about a task has the value of its entry, ... *)
LastIsCurrent ==
  \A p, q \in Player : \A i \in 1 .. Len(inbox[p]) :
    About(p, i, q) /\ (\A j \in 1 .. Len(inbox[p]) : i < j => ~About(p, j, q))
      => inbox[p][i].value = entry[q]
(* ... the first one tells of its creation, ... *)
FirstIsCreation ==
  \A p \in Player : \A q \in Others(p) : \A i \in 1 .. Len(inbox[p]) :
    ~Exists(p, q) /\ About(p, i, q) =>
      /\ handled[p] < i
      /\ (\A j \in 1 .. Len(inbox[p]) : j < i => ~About(p, j, q))
           => inbox[p][i].value = JustPreparing
(* ... and when they are all handled, the proxy is up to date. *)
HandledIsCurrent ==
  \A p \in Player : \A q \in Others(p) :
    (\A i \in 1 .. Len(inbox[p]) : handled[p] < i => ~About(p, i, q))
      => task[p][q] = entry[q]
ConvergeInv ==
  /\ RosterFirst /\ RosterAnnounced /\ LastIsCurrent /\ FirstIsCreation
  /\ HandledIsCurrent

----------------------------------------------------------------------------
(* Every step is as described above. *)

LEMMA PublishSends ==
  ASSUME TypeOK, NEW P \in SUBSET Player, NEW ev \in Event, Publish(P, ev),
         UNCHANGED <<handled, task>>, NEW q \in Player
  PROVE  IF q \in P THEN Sending(q, ev) ELSE Quiet(q)
<1>1. ProxiesSame(q)
  BY DEF ProxiesSame
<1>2. inbox'[q] = IF q \in P THEN Append(inbox[q], ev) ELSE inbox[q]
  BY DEF Publish
<1>3. inbox[q] \in Seq(Event)
  BY DEF TypeOK
<1>4. CASE q \in P
  BY <1>1, <1>2, <1>3, <1>4, AppendProperties DEF Sending
<1>5. CASE q \notin P
  BY <1>1, <1>2, <1>5 DEF Quiet
<1> QED
  BY <1>4, <1>5

LEMMA ConsumeShifts ==
  ASSUME TypeOK, NEW p \in Player, Pending(p), Consume(p)
  PROVE  /\ Consumed(p)
         /\ \A q \in Others(p) : inbox'[q] = inbox[q] /\ handled'[q] = handled[q]
<1>1. /\ inbox[p] \in Seq(Event) /\ Len(inbox[p]) \in Nat
      /\ handled[p] \in Nat /\ handled[p] + 1 <= Len(inbox[p])
      /\ \A i \in 1 .. Len(inbox[p]) : inbox[p][i] \in Event
  BY DEF TypeOK, Pending
<1>2. CASE /\ inbox' = [inbox EXCEPT ![p] = SubSeq(@, handled[p] + 2, Len(@))]
           /\ handled' = [handled EXCEPT ![p] = 0]
  <2> DEFINE m == handled[p] + 2
             n == Len(inbox[p])
             rest == SubSeq(inbox[p], m, n)
  <2>1. m \in Int /\ n \in Int /\ m > 0 /\ \A i \in m .. n : inbox[p][i] \in Event
    BY <1>1
  <2>2. /\ Len(rest) = IF m <= n THEN n - m + 1 ELSE 0
        /\ \A i \in 1 .. n - m + 1 : rest[i] = inbox[p][m + i - 1]
    BY <2>1, SubSeqProperties
  <2>3. inbox'[p] = rest /\ handled'[p] = 0
    BY <1>2 DEF TypeOK
  <2> HIDE DEF rest
  <2>4. Len(rest) = n - (handled[p] + 1)
    BY <1>1, <2>2
  <2>5. \A i \in 1 .. Len(rest) : rest[i] = inbox[p][i + (handled[p] + 1)]
    <3> SUFFICES ASSUME NEW i \in 1 .. Len(rest)
                 PROVE  rest[i] = inbox[p][i + (handled[p] + 1)]
      OBVIOUS
    <3>1. i \in Int /\ 1 <= i /\ i <= n - (handled[p] + 1)
      BY <1>1, <2>4
    <3>2. i \in 1 .. n - m + 1 /\ m + i - 1 = i + (handled[p] + 1)
      <4>1. n \in Int /\ handled[p] \in Int
        BY <1>1
      <4> QED
        BY <3>1, <4>1
    <3> QED
      BY <2>2, <3>2
  <2>6. Shifted(p, handled[p] + 1)
    BY <1>1, <2>3, <2>4, <2>5 DEF Shifted
  <2> QED
    BY <1>2, <2>6 DEF Consumed, TypeOK, Others
<1>3. CASE /\ handled[p] < MaxUnacked
           /\ crashes < MaxCrashes \/ faults < MaxFaults
           /\ handled' = [handled EXCEPT ![p] = @ + 1]
           /\ UNCHANGED inbox
  <2>1. inbox' = inbox /\ handled'[p] = handled[p] + 1
    BY <1>3 DEF TypeOK
  <2>2. Shifted(p, 0)
    BY <1>1, <2>1 DEF Shifted
  <2> QED
    BY <1>3, <2>2 DEF Consumed, TypeOK, Others
<1> QED
  BY <1>2, <1>3 DEF Consume

(* Handling an event, or failing to. *)
LEMMA HandlingReceives ==
  ASSUME TypeOK, NEW p \in Player, WatchStep(p) \/ HandlerError(p)
  PROVE  /\ Received(p)
         /\ \A q \in Others(p) : Quiet(q)
<1> DEFINE ev == NextEvent(p)
<1>1. Pending(p) /\ Consume(p)
  BY DEF WatchStep, RemotePut, RemoteDelete, JobPut, JobDelete, HandlerError, Arrived
<1>2. ev \in Event /\ ev.player \in Player
  BY <1>1, NextEventType DEF Event
<1> HIDE DEF ev
<1>3. CASE UNCHANGED task
  <2>1. \A q \in Player : ProxiesSame(q)
    BY <1>3 DEF ProxiesSame
  <2>2. \A q \in Others(p) : task'[p][q] = task[p][q]
    BY <1>3
  <2>3. Mirrored(p, ev)
    <3>1. CASE RemotePut(p) /\ job[p] = "Absent"
      BY <2>1, <3>1 DEF RemotePut, Arrived, Mirrored, ev
    <3>2. CASE RemotePut(p) /\ job[p] # "Absent"
      <4>1. /\ ev.kind = "entry"
            /\ task' = [task EXCEPT ![p][ev.player] = ProxyStatus(p, ev.player, ev.value)]
        BY <3>2 DEF RemotePut, Arrived, ev
      <4>2. \A q \in Others(p) :
              task'[p][q] = IF q = ev.player THEN ProxyStatus(p, q, ev.value)
                                             ELSE task[p][q]
        BY <1>2, <4>1 DEF TypeOK, Others
      <4> QED
        BY <3>2, <4>1, <4>2 DEF Mirrored
    <3>3. CASE RemoteDelete(p) \/ JobDelete(p)
      BY <3>3 DEF RemoteDelete, JobDelete, Arrived, Mirrored, ev
    <3>4. CASE JobPut(p)
      <4>1. ev.kind = "roster" /\ job'[p] # "Absent"
        BY <3>4 DEF JobPut, Arrived, createJobIfNotExists, TypeOK, ev
      <4> QED
        BY <2>1, <4>1 DEF Mirrored
    <3>5. CASE HandlerError(p)
      BY <2>2, <3>5 DEF HandlerError, MayFail, Mirrored
    <3> QED
      BY <3>1, <3>2, <3>3, <3>4, <3>5 DEF WatchStep
  <2> QED
    BY <1>1, <2>1, <2>3, ConsumeShifts DEF Received, Quiet, Others, ev
<1>4. CASE ~UNCHANGED task
  <2>1. PICK v : task' = [task EXCEPT ![p][ev.player] = v]
    BY <1>4 DEF WatchStep, RemotePut, RemoteDelete, JobPut, JobDelete, HandlerError, ev
  <2>2. \A r, q \in Player :
          task'[r][q] = IF r = p /\ q = ev.player THEN v ELSE task[r][q]
    BY <1>2, <2>1 DEF TypeOK
  <2>3. \A q \in Others(p) : ProxiesSame(q)
    BY <2>2 DEF ProxiesSame, Others
  <2>4. Mirrored(p, ev)
    <3>1. CASE RemotePut(p)
      <4>1. /\ ev.kind = "entry" /\ job[p] # "Absent"
            /\ task' = [task EXCEPT ![p][ev.player] = ProxyStatus(p, ev.player, ev.value)]
        BY <1>4, <3>1 DEF RemotePut, Arrived, ev
      <4>2. \A q \in Others(p) :
              task'[p][q] = IF q = ev.player THEN ProxyStatus(p, q, ev.value)
                                             ELSE task[p][q]
        BY <1>2, <4>1 DEF TypeOK, Others
      <4> QED
        BY <4>1, <4>2 DEF Mirrored
    <3>2. CASE RemoteDelete(p)
      BY <3>2 DEF RemoteDelete, Arrived, Mirrored, ev
    <3>3. CASE HandlerError(p)
      <4>1. /\ faults < MaxFaults /\ ~Exists(p, ev.player)
            /\ task' = [task EXCEPT ![p][ev.player] = NoStatus]
        BY <1>4, <3>3 DEF HandlerError, MayFail, ev
      <4>2. \A q \in Others(p) :
              \/ task'[p][q] = task[p][q]
              \/ q = ev.player /\ ~Exists(p, q) /\ task'[p][q] = NoStatus
        BY <1>2, <4>1 DEF TypeOK, Others
      <4> QED
        BY <4>1, <4>2 DEF Mirrored
    <3> QED
      BY <1>4, <3>1, <3>2, <3>3 DEF WatchStep, JobPut, JobDelete
  <2> QED
    BY <1>1, <2>3, <2>4, ConsumeShifts DEF Received, Quiet, ev
<1> QED
  BY <1>3, <1>4

LEMMA WatchChangeStep ==
  ASSUME TypeOK, NEW p \in Player, Step(p), NEW q \in Player
  PROVE  WatchChange(q)
<1> USE DEF etcdVars, k8sVars
<1>0. /\ Player \in SUBSET Player /\ Others(p) \in SUBSET Player
      /\ q \in Others(p) => p \in Others(q)
      /\ q \notin Others(p) => q = p
  BY DEF Others
<1>1. CASE UNCHANGED <<inbox, handled, task>>
  BY <1>1 DEF WatchChange, Quiet, ProxiesSame
<1>2. CASE /\ UNCHANGED <<inbox, handled>>
           /\ \E v : task' = [task EXCEPT ![p][p] = v]
  <2>1. ProxiesSame(q)
    BY <1>2, SetTask DEF ProxiesSame, Others
  <2> QED
    BY <1>2, <2>1 DEF WatchChange, Quiet
<1>3. CASE JobCleanup(p) /\ ~UNCHANGED inbox
  <2>1. roster /\ job[Master] = "Absent" /\ PublishRoster("DELETE")
        /\ UNCHANGED <<handled, task>>
    BY <1>3 DEF JobCleanup
  <2>2. RosterEvent("DELETE") \in Event /\ RosterEvent("DELETE").type = "DELETE"
    BY EventFacts DEF RosterEvent
  <2>3. Sending(q, RosterEvent("DELETE"))
    BY <1>0, <2>1, <2>2, PublishSends DEF PublishRoster
  <2> QED
    BY <2>1, <2>2, <2>3 DEF WatchChange, Sent, NewEvent
<1>4. CASE JobCreateRoster(p) /\ ~UNCHANGED inbox
  <2>1. PublishRoster("PUT") /\ UNCHANGED <<handled, task>>
        /\ ~roster /\ job[Master] # "Absent"
    BY <1>4 DEF JobCreateRoster
  <2> QED
    BY <1>0, <2>1, PublishSends, EventFacts DEF PublishRoster, WatchChange, Sent
<1>5. CASE TaskCleanup(p) /\ ~UNCHANGED inbox
  <2>1. /\ ~Exists(p, p) /\ entry[p] # Absent /\ Publish(Others(p), EntryDelete(p))
        /\ UNCHANGED <<handled, task>>
    BY <1>5 DEF TaskCleanup
  <2>2. EntryDelete(p) \in Event /\ EntryDelete(p).type = "DELETE"
    BY EventFacts DEF EntryDelete
  <2>3. IF q \in Others(p) THEN Sending(q, EntryDelete(p)) ELSE Quiet(q)
    BY <1>0, <2>1, <2>2, PublishSends
  <2> QED
    BY <1>0, <2>1, <2>2, <2>3 DEF WatchChange, Sent, NewEvent
<1>6. CASE TaskCreateEntry(p) \/ TaskPut(p)
  <2>1. /\ Writing(p) /\ entry'[p] \in Status
        /\ Publish(Others(p), EntryPut(p, entry'[p]))
        /\ UNCHANGED <<handled, task>>
    <3>1. CASE TaskCreateEntry(p)
      BY <3>1, StatusFacts DEF TaskCreateEntry, Writing, TypeOK
    <3>2. CASE TaskPut(p)
      BY <3>2, ReconciliationFacts DEF TaskPut, Writing, TypeOK
    <3> QED
      BY <1>6, <3>1, <3>2
  <2>2. EntryPut(p, entry'[p]) \in Event
    BY <2>1, EventFacts
  <2>3. IF q \in Others(p) THEN Sending(q, EntryPut(p, entry'[p])) ELSE Quiet(q)
    BY <1>0, <2>1, <2>2, PublishSends
  <2> QED
    BY <1>0, <2>1, <2>3 DEF WatchChange, Sent
<1>7. CASE WatchStep(p) \/ HandlerError(p)
  BY <1>0, <1>7, HandlingReceives DEF WatchChange
<1>8. CASE Rewatch(p) \/ Crash(p)
  BY <1>8 DEF Rewatch, Crash, WatchChange, Quiet, ProxiesSame, TypeOK
<1>9. CASE \E d \in Player : CollectTask(p, d)
  <2>1. PICK d \in Player : /\ d \in orphan[p] /\ UNCHANGED <<inbox, handled>>
                            /\ task' = [task EXCEPT ![p][d] = Absent]
    BY <1>9 DEF CollectTask
  <2>2. q # p => ProxiesSame(q)
    BY <2>1, SetTask DEF ProxiesSame, Others
  <2> QED
    BY <2>1, <2>2 DEF WatchChange, Quiet
<1>10. CASE \/ TaskPrepare(p) \/ TaskLaunch(p) \/ TaskGenerate(p)
            \/ TaskProvision(p) \/ TaskFinish(p) \/ JobCreateTask(p)
  BY <1>2, <1>10 DEF TaskPrepare, TaskLaunch, TaskGenerate, TaskProvision,
     TaskFinish, TaskPass, JobCreateTask
<1>11. CASE \/ JobCleanup(p) /\ UNCHANGED inbox
            \/ JobCreateRoster(p) /\ UNCHANGED inbox
            \/ TaskCleanup(p) /\ UNCHANGED inbox
            \/ TaskLookupFails(p)
  BY <1>1, <1>11 DEF JobCleanup, JobCreateRoster, TaskCleanup, TaskLookupFails
<1>12. CASE \/ JobDerive(p) \/ JobActivate(p) \/ JobUpdate(p) \/ JobError(p)
            \/ TaskError(p) \/ DeleteJob(p)
  BY <1>1, <1>12 DEF JobDerive, JobActivate, JobUpdate, JobError, TaskError, DeleteJob
<1>13. CASE \/ AssignEndpoint(p)
            \/ \E phase \in Outcomes :
                 GeneratorEnds(p, phase) \/ ProvisionerEnds(p, phase)
            \/ \E d \in Dependent : CollectDependent(p, d)
  BY <1>1, <1>13 DEF AssignEndpoint, GeneratorEnds, ProvisionerEnds, CollectDependent
<1> QED
  BY <1>3, <1>4, <1>5, <1>6, <1>7, <1>8, <1>9, <1>10, <1>11, <1>12, <1>13
     DEF Step, JobStep, TaskStep, Cluster, Failure

LEMMA SentStep ==
  ASSUME TypeOK, NEW p \in Player, Step(p), NEW q \in Player
  PROVE  RosterSent(q) /\ \A r \in Others(q) : EntrySent(q, r)
<1> USE DEF etcdVars, k8sVars
<1>1. RosterSent(q)
  <2>1. CASE JobCreateRoster(p) /\ ~UNCHANGED roster
    <3>1. PublishRoster("PUT") /\ UNCHANGED <<handled, task>>
      BY <2>1 DEF JobCreateRoster
    <3>2. Player \in SUBSET Player /\ RosterEvent("PUT") \in Event
      BY EventFacts
    <3> QED
      BY <3>1, <3>2, PublishSends DEF PublishRoster, RosterSent
  <2>2. CASE JobCleanup(p) \/ UNCHANGED roster
    BY <2>2 DEF JobCleanup, RosterSent
  <2>3. CASE JobCreateTask(p) \/ JobDerive(p) \/ JobActivate(p) \/ JobUpdate(p)
    BY <2>3 DEF JobCreateTask, JobDerive, JobActivate, JobUpdate, RosterSent
  <2> QED
    BY <2>1, <2>2, <2>3, Untouched DEF Step, JobStep
<1>2. ASSUME NEW r \in Others(q) PROVE EntrySent(q, r)
  <2>0. Others(p) \in SUBSET Player /\ r \in Player /\ r # q
    BY DEF Others
  <2>1. CASE UNCHANGED entry
    BY <2>1 DEF EntrySent
  <2>2. CASE TaskCleanup(p)
    <3>1. /\ ~Exists(p, p)
          /\ r # p => entry'[r] = entry[r]
      BY <2>0, <2>2 DEF TaskCleanup, TypeOK
    <3> QED
      BY <3>1 DEF EntrySent
  <2>3. CASE TaskCreateEntry(p) \/ TaskPut(p)
    <3>1. PICK s \in Status : /\ entry' = [entry EXCEPT ![p] = s]
                              /\ Publish(Others(p), EntryPut(p, s))
                              /\ UNCHANGED <<handled, task>>
      BY <2>3, StatusFacts, ReconciliationFacts DEF TaskCreateEntry, TaskPut, TypeOK
    <3>2. CASE r = p
      <4>1. entry'[r] = s /\ EntryPut(p, s) \in Event /\ q \in Others(p)
        BY <2>0, <3>1, <3>2, EventFacts DEF TypeOK, Others
      <4> QED
        BY <2>0, <3>1, <3>2, <4>1, PublishSends DEF EntrySent
    <3>3. CASE r # p
      BY <2>0, <3>1, <3>3 DEF EntrySent, TypeOK
    <3> QED
      BY <3>2, <3>3
  <2> QED
    BY <2>1, <2>2, <2>3, Untouched, PassesRead DEF Step, TaskStep
<1> QED
  BY <1>1, <1>2

LEMMA PeersStep ==
  ASSUME TypeOK, NEW p \in Player, Step(p), NEW q \in Player
  PROVE  PeersChange(q)
<1>1. CASE TaskLaunch(p)
  <2>1. /\ entry[p].state = "Launching"
        /\ \/ UNCHANGED <<genPod, peers>>
           \/ /\ genPod' = [genPod EXCEPT ![p] = "Running"]
              /\ peers' = [peers EXCEPT ![p] = endpoints(p)]
    BY <1>1 DEF TaskLaunch, TaskPass, createGeneratorPod
  <2> QED
    BY <2>1 DEF TypeOK, PeersChange
<1>2. CASE \E phase \in Outcomes : GeneratorEnds(p, phase)
  BY <1>2 DEF GeneratorEnds, TypeOK, PeersChange
<1>3. CASE \E d \in Dependent : CollectDependent(p, d)
  BY <1>3 DEF CollectDependent, TypeOK, PeersChange
<1>4. CASE UNCHANGED <<genPod, peers>>
  BY <1>4 DEF PeersChange
<1>5. CASE TaskStep(p) /\ ~TaskLaunch(p)
  BY <1>4, <1>5 DEF TaskStep, TaskCleanup, TaskCreateEntry, TaskLookupFails,
     TaskPrepare, TaskGenerate, TaskProvision, TaskFinish, TaskPut, k8sVars, podVars
<1>6. CASE \/ AssignEndpoint(p)
           \/ \E phase \in Outcomes : ProvisionerEnds(p, phase)
           \/ \E d \in Player : CollectTask(p, d)
  BY <1>4, <1>6 DEF AssignEndpoint, ProvisionerEnds, CollectTask
<1> QED
  BY <1>1, <1>2, <1>3, <1>4, <1>5, <1>6, Untouched DEF Step, Cluster

LEMMA OrderFacts ==
  ASSUME TypeOK, [Next]_vars
  PROVE  OrderChange
<1>1. CASE Next
  <2>1. PICK p \in Player : Step(p)
    BY <1>1 DEF Next, Step
  <2> QED
    BY <2>1, WatchChangeStep, SentStep, PeersStep DEF OrderChange
<1>2. CASE UNCHANGED vars
  <2>1. UNCHANGED <<roster, entry, inbox, handled, task, genPod, peers>>
    BY <1>2 DEF vars, etcdVars, k8sVars, podVars
  <2> QED
    BY <2>1 DEF OrderChange, WatchChange, Quiet, ProxiesSame, RosterSent, EntrySent,
       PeersChange
<1> QED
  BY <1>1, <1>2

----------------------------------------------------------------------------
(* What is sent, and what is handled, if the job is not deleted. *)

(* A status is written to an entry that is not final, and keeps its        *)
(* endpoint.                                                               *)
LEMMA WritingFacts ==
  ASSUME WritesFollow, NEW r \in Player, Writing(r)
  PROVE  /\ entry[r].state \notin Terminal /\ entry'[r].state # "Absent"
         /\ entry[r].endpoint => entry'[r].endpoint
         /\ entry[r].state = "Absent" => entry'[r] = JustPreparing
<1>1. CASE entry[r] = Absent /\ entry'[r] = JustPreparing
  BY <1>1 DEF Absent, JustPreparing, Terminal
<1>2. CASE taskRec[r].pc = "put" /\ entry'[r] = taskRec[r].status
  BY <1>2 DEF WritesFollow, StateOrder, Terminal
<1> QED
  BY <1>1, <1>2 DEF Writing

(* An entry keeps its endpoint. *)
LEMMA EndpointStays ==
  ASSUME MaxDeletes = 0, TypeOK, WritesFollow, KeptInv, StepChange,
         NEW q \in Player, entry[q].endpoint
  PROVE  entry'[q].endpoint
<1>1. EntryChange(q) /\ ~Absent.endpoint
  BY DEF StepChange, Absent
<1> QED
  BY <1>1, KeptFacts DEF EntryChange, WritesFollow

(* Only roster events and new statuses of entries are sent. *)
SentEntry(p, r) == r \in Others(p) /\ Writing(r) /\ Sending(p, EntryPut(r, entry'[r]))
LEMMA WatchFacts ==
  ASSUME MaxDeletes = 0, TypeOK, KeptInv, OrderChange, NEW p \in Player
  PROVE  \/ inbox'[p] = inbox[p] /\ handled'[p] \in {0, handled[p]} /\ ProxiesSame(p)
         \/ Sending(p, RosterEvent("PUT"))
         \/ \E r \in Player : SentEntry(p, r)
         \/ Received(p) /\ NextEvent(p).type = "PUT"
<1>1. WatchChange(p) /\ orphan[p] = {}
  BY DEF OrderChange, KeptInv, NothingCollected
<1>2. ASSUME NEW ev \in Event, ev.type = "DELETE"
      PROVE  ~NewEvent(p, ev)
  <2>1. /\ RosterEvent("PUT").type = "PUT"
        /\ \A r \in Others(p) : EntryPut(r, entry'[r]).type = "PUT"
    BY DEF RosterEvent, EntryPut
  <2>2. \A r \in Others(p) : Exists(r, r) \/ entry[r] = Absent
    BY DEF KeptInv, TasksKept, Others
  <2> QED
    BY <1>2, <2>1, <2>2 DEF NewEvent, KeptInv, RosterKept
<1>3. Pending(p) => NextEvent(p).type = "PUT"
  <2>1. Pending(p) => handled[p] + 1 \in 1 .. Len(inbox[p])
    BY DEF Pending, TypeOK
  <2> QED
    BY <2>1 DEF KeptInv, EventsArePuts, NextEvent
<1>4. \A r \in Others(p) : r \in Player
  BY DEF Others
<1> QED
  BY <1>1, <1>2, <1>3, <1>4 DEF WatchChange, Quiet, Sent, Received, SentEntry

(* Every event in an inbox was there before, or is a new status. *)
LEMMA OldOrWritten ==
  ASSUME MaxDeletes = 0, TypeOK, KeptInv, OrderChange,
         NEW p \in Player, NEW i \in 1 .. Len(inbox'[p]),
         inbox'[p][i].kind = "entry"
  PROVE  \/ \E j \in 1 .. Len(inbox[p]) : inbox'[p][i] = inbox[p][j]
         \/ \E r \in Player : Writing(r) /\ inbox'[p][i] = EntryPut(r, entry'[r])
<1>0. Len(inbox[p]) \in Nat /\ handled[p] \in Nat
  BY DEF TypeOK
<1>1. CASE inbox'[p] = inbox[p]
  BY <1>1
<1>2. ASSUME NEW ev, Sending(p, ev)
      PROVE  inbox'[p][i] = ev \/ \E j \in 1 .. Len(inbox[p]) : inbox'[p][i] = inbox[p][j]
  BY <1>0, <1>2 DEF Sending
<1>3. CASE Received(p)
  <2>1. PICK d \in {0, handled[p] + 1} : Shifted(p, d)
    BY <1>3 DEF Received, Consumed
  <2>2. d \in Nat /\ Len(inbox'[p]) = Len(inbox[p]) - d /\ inbox'[p][i] = inbox[p][i + d]
    BY <1>0, <2>1 DEF Shifted
  <2>3. i + d \in 1 .. Len(inbox[p])
    BY <1>0, <2>2
  <2> QED
    BY <2>2, <2>3
<1>4. RosterEvent("PUT").kind # "entry"
  BY DEF RosterEvent
<1> QED
  BY <1>1, <1>2, <1>3, <1>4, WatchFacts DEF SentEntry

LEMMA RealStep ==
  ASSUME MaxDeletes = 0, TypeOK, WritesFollow, KeptInv, RealInv, StepChange, OrderChange
  PROVE  RealInv'
<1>1. EventsReal'
  <2> SUFFICES ASSUME NEW p \in Player, NEW i \in 1 .. Len(inbox'[p]),
                      inbox'[p][i].kind = "entry"
               PROVE  /\ inbox'[p][i].value.state # "Absent"
                      /\ inbox'[p][i].value.endpoint =>
                           entry'[inbox'[p][i].player].endpoint
    BY DEF EventsReal
  <2>1. ASSUME NEW j \in 1 .. Len(inbox[p]), inbox'[p][i] = inbox[p][j]
        PROVE  /\ inbox'[p][i].value.state # "Absent"
               /\ inbox'[p][i].value.endpoint => entry'[inbox'[p][i].player].endpoint
    <3> DEFINE q == inbox[p][j].player
    <3>1. q \in Player
      BY EventsTyped
    <3>2. /\ inbox[p][j].value.state # "Absent"
          /\ inbox[p][j].value.endpoint => entry[q].endpoint
      BY <2>1 DEF RealInv, EventsReal
    <3> QED
      BY <2>1, <3>1, <3>2, EndpointStays
  <2>2. ASSUME NEW r \in Player, Writing(r), inbox'[p][i] = EntryPut(r, entry'[r])
        PROVE  /\ inbox'[p][i].value.state # "Absent"
               /\ inbox'[p][i].value.endpoint => entry'[inbox'[p][i].player].endpoint
    BY <2>2, WritingFacts DEF EntryPut
  <2> QED
    BY <2>1, <2>2, OldOrWritten
<1>2. TasksReal'
  <2> SUFFICES ASSUME NEW p \in Player, NEW q \in Player
               PROVE  /\ task'[p][q].state = "Absent" => task'[p][q] = Absent
                      /\ task'[p][q].endpoint => entry'[q].endpoint
    BY DEF TasksReal, Exists
  <2>1. TaskChange(p, q) /\ q \notin orphan[p]
    BY DEF StepChange, KeptInv, NothingCollected
  <2>2. CASE task'[p][q] = task[p][q]
    BY <2>2, EndpointStays DEF RealInv, TasksReal, Exists
  <2>3. CASE q = p /\ entry[p].state # "Absent" /\ task'[p][q] = entry[p]
    BY <2>3, EndpointStays
  <2>4. CASE AnEvent(p, q, "PUT", task'[p][q])
    <3>1. PICK i \in 1 .. Len(inbox[p]) :
            inbox[p][i] = [kind |-> "entry", player |-> q, type |-> "PUT",
                           value |-> task'[p][q]]
      BY <2>4 DEF AnEvent
    <3>2. /\ inbox[p][i].kind = "entry" /\ inbox[p][i].player = q
          /\ inbox[p][i].value = task'[p][q]
      BY <3>1
    <3>3. task'[p][q].state # "Absent" /\ (task'[p][q].endpoint => entry[q].endpoint)
      BY <3>2 DEF RealInv, EventsReal
    <3> QED
      BY <3>3, EndpointStays
  <2>5. CASE task'[p][q] \in {NoStatus, JustPreparing}
    <3>1. /\ NoStatus.state # "Absent" /\ ~NoStatus.endpoint
          /\ JustPreparing.state # "Absent" /\ ~JustPreparing.endpoint
      BY DEF NoStatus, JustPreparing
    <3> QED
      BY <2>5, <3>1
  <2>6. ~\E v \in Status : AnEvent(p, q, "DELETE", v)
    BY KeptFacts
  <2> QED
    BY <2>1, <2>2, <2>3, <2>4, <2>5, <2>6 DEF TaskChange
<1> QED
  BY <1>1, <1>2 DEF RealInv

(* Events and proxies tell of tasks that exist. *)
LEMMA RealInvariant ==
  ASSUME MaxDeletes = 0
  PROVE  Spec => []RealInv
<1>1. Init => RealInv
  <2> SUFFICES ASSUME Init PROVE RealInv
    OBVIOUS
  <2>1. /\ inbox = [p \in Player |-> <<>>]
        /\ \A p, q \in Player : task[p][q] = Absent
        /\ ~Absent.endpoint
    BY DEF Init, Absent
  <2>2. EventsReal
    BY <2>1, EmptySeq DEF EventsReal
  <2> QED
    BY <2>1, <2>2 DEF RealInv, TasksReal
<1>2. TypeOK /\ WritesFollow /\ KeptInv /\ RealInv /\ [Next]_vars => RealInv'
  BY StepFacts, OrderFacts, RealStep
<1> QED
  BY <1>1, <1>2, TypeCorrect, WritesFollowInvariant, KeptInvariant, PTL DEF Spec

----------------------------------------------------------------------------
(* If no event is handled twice, nothing known about a task gets lost. *)

(* The event that is handled is the first one, and gone then. *)
LEMMA FirstHandled ==
  ASSUME NoReplays, TypeOK, AllHandledGone, NEW p \in Player, Received(p)
  PROVE  /\ Shifted(p, 1) /\ handled'[p] = 0 /\ 1 \in 1 .. Len(inbox[p])
         /\ NextEvent(p) = inbox[p][1]
<1>1. handled[p] = 0 /\ Len(inbox[p]) \in Nat
  BY DEF AllHandledGone, TypeOK
<1>2. ~(handled[p] < MaxUnacked /\ (crashes < MaxCrashes \/ faults < MaxFaults))
  <2>1. crashes <= MaxCrashes /\ faults <= MaxFaults /\ crashes \in Nat /\ faults \in Nat
    BY DEF TypeOK
  <2>2. CASE MaxUnacked = 0
    BY <1>1, <2>2
  <2>3. CASE MaxCrashes = 0 /\ MaxFaults = 0
    BY <2>1, <2>3
  <2> QED
    BY <2>2, <2>3 DEF NoReplays
<1>3. Shifted(p, handled[p] + 1)
  BY <1>2 DEF Received, Consumed
<1>4. handled[p] + 1 = 1
  BY <1>1
<1>5. Shifted(p, 1)
  BY <1>3, <1>4
<1>6. handled'[p] = 0
  BY <1>1, <1>5 DEF Shifted
<1> QED
  BY <1>1, <1>5, <1>6 DEF Received, Pending, NextEvent

(* Events about a task that is still known to run are sent only then. *)
LEMMA OrderStep ==
  ASSUME MaxDeletes = 0, NoReplays, TypeOK, WritesFollow, KeptInv, CommitInv, RealInv,
         OrderInv, OrderChange
  PROVE  OrderInv'
<1>0. /\ AllHandledGone /\ EventsOrdered /\ EventsAhead
      /\ \A p \in Player : Len(inbox[p]) \in Nat
  BY DEF OrderInv, TypeOK
<1>1. AllHandledGone'
  <2> SUFFICES ASSUME NEW p \in Player PROVE handled'[p] = 0
    BY DEF AllHandledGone
  <2> QED
    BY <1>0, WatchFacts, FirstHandled DEF AllHandledGone, Sending, SentEntry
<1>2. EventsOrdered'
  <2> SUFFICES ASSUME NEW p \in Player, NEW q \in Player,
                      NEW i \in 1 .. Len(inbox'[p]), NEW j \in 1 .. Len(inbox'[p]),
                      i < j, About(p, i, q)', About(p, j, q)'
               PROVE  /\ inbox'[p][i].value.state \notin Terminal
                      /\ inbox'[p][i].value.endpoint => inbox'[p][j].value.endpoint
    BY DEF EventsOrdered
  <2>0. Len(inbox[p]) \in Nat
    BY <1>0
  <2>1. ASSUME NEW k \in 1 .. Len(inbox[p]), NEW l \in 1 .. Len(inbox[p]), k < l,
               inbox'[p][i] = inbox[p][k], inbox'[p][j] = inbox[p][l]
        PROVE  /\ inbox'[p][i].value.state \notin Terminal
               /\ inbox'[p][i].value.endpoint => inbox'[p][j].value.endpoint
    BY <1>0, <2>1 DEF EventsOrdered, About
  <2>2. CASE inbox'[p] = inbox[p]
    BY <2>1, <2>2
  <2>3. ASSUME NEW ev, Sending(p, ev)
        PROVE  /\ i \in 1 .. Len(inbox[p]) /\ inbox'[p][i] = inbox[p][i]
               /\ \/ j \in 1 .. Len(inbox[p]) /\ inbox'[p][j] = inbox[p][j]
                  \/ inbox'[p][j] = ev
    BY <2>0, <2>3 DEF Sending
  <2>4. CASE Sending(p, RosterEvent("PUT"))
    <3>1. RosterEvent("PUT").kind # "entry"
      BY DEF RosterEvent
    <3> QED
      BY <2>1, <2>3, <2>4, <3>1 DEF About
  <2>5. ASSUME NEW r \in Player, SentEntry(p, r)
        PROVE  /\ inbox'[p][i].value.state \notin Terminal
               /\ inbox'[p][i].value.endpoint => inbox'[p][j].value.endpoint
    <3>1. Sending(p, EntryPut(r, entry'[r])) /\ Writing(r)
      BY <2>5 DEF SentEntry
    <3>2. CASE inbox'[p][j] = EntryPut(r, entry'[r])
      <4>1. q = r /\ inbox'[p][j].value = entry'[q]
        BY <3>2 DEF About, EntryPut
      <4>2. i \in 1 .. Len(inbox[p]) /\ inbox'[p][i] = inbox[p][i]
        BY <2>3, <3>1
      <4>3. inbox[p][i].kind = "entry" /\ inbox[p][i].player = q
        BY <4>2 DEF About
      <4>4. inbox[p][i].value.state \notin Terminal
        BY <3>1, <4>1, <4>2, <4>3, WritingFacts DEF CommitInv, EventsMatch
      <4>5. inbox[p][i].value.endpoint => entry'[q].endpoint
        BY <3>1, <4>1, <4>2, <4>3, WritingFacts DEF RealInv, EventsReal
      <4> QED
        BY <4>1, <4>2, <4>4, <4>5
    <3> QED
      BY <2>1, <2>3, <3>1, <3>2
  <2>6. CASE Received(p)
    <3>1. Shifted(p, 1)
      BY <1>0, <2>6, FirstHandled
    <3>2. /\ Len(inbox'[p]) = Len(inbox[p]) - 1
          /\ inbox'[p][i] = inbox[p][i + 1] /\ inbox'[p][j] = inbox[p][j + 1]
      BY <3>1 DEF Shifted
    <3>3. i + 1 \in 1 .. Len(inbox[p]) /\ j + 1 \in 1 .. Len(inbox[p]) /\ i + 1 < j + 1
      BY <2>0, <3>2
    <3> QED
      BY <2>1, <3>2, <3>3
  <2> QED
    BY <2>2, <2>4, <2>5, <2>6, WatchFacts
<1>3. EventsAhead'
  <2> SUFFICES ASSUME NEW p \in Player, NEW q \in Player,
                      NEW i \in 1 .. Len(inbox'[p]), About(p, i, q)'
               PROVE  /\ task'[p][q].state \notin Terminal
                      /\ task'[p][q].endpoint => inbox'[p][i].value.endpoint
    BY DEF EventsAhead
  <2>0. Len(inbox[p]) \in Nat
    BY <1>0
  <2>1. ASSUME NEW k \in 1 .. Len(inbox[p]), inbox'[p][i] = inbox[p][k]
        PROVE  /\ q \in Others(p) /\ About(p, k, q)
               /\ task[p][q].state \notin Terminal
               /\ task[p][q].endpoint => inbox'[p][i].value.endpoint
    <3>1. About(p, k, q)
      BY <2>1 DEF About
    <3>2. q \in Others(p)
      BY <3>1 DEF About, KeptInv, EventsArePuts, Others
    <3> QED
      BY <1>0, <2>1, <3>1, <3>2 DEF EventsAhead
  <2>2. CASE inbox'[p] = inbox[p] /\ ProxiesSame(p)
    BY <2>1, <2>2 DEF ProxiesSame
  <2>3. ASSUME NEW ev, Sending(p, ev), inbox'[p][i] # ev
        PROVE  /\ task'[p][q].state \notin Terminal
               /\ task'[p][q].endpoint => inbox'[p][i].value.endpoint
    <3>1. i \in 1 .. Len(inbox[p]) /\ inbox'[p][i] = inbox[p][i]
      BY <2>0, <2>3 DEF Sending
    <3> QED
      BY <2>1, <2>3, <3>1 DEF Sending, ProxiesSame
  <2>4. CASE Sending(p, RosterEvent("PUT"))
    <3>1. RosterEvent("PUT").kind # "entry"
      BY DEF RosterEvent
    <3> QED
      BY <2>3, <2>4, <3>1 DEF About
  <2>5. ASSUME NEW r \in Player, SentEntry(p, r)
        PROVE  /\ task'[p][q].state \notin Terminal
               /\ task'[p][q].endpoint => inbox'[p][i].value.endpoint
    <3>1. Sending(p, EntryPut(r, entry'[r])) /\ Writing(r) /\ r \in Others(p)
      BY <2>5 DEF SentEntry
    <3>2. CASE inbox'[p][i] = EntryPut(r, entry'[r])
      <4>1. q = r /\ inbox'[p][i].value = entry'[q]
        BY <3>2 DEF About, EntryPut
      <4>2. task'[p][q] = task[p][q]
        BY <3>1, <4>1 DEF Sending, ProxiesSame
      <4>3. task[p][q].state \notin Terminal
        BY <3>1, <4>1, WritingFacts DEF CommitInv, TasksMatch
      <4>4. task[p][q].endpoint => entry'[q].endpoint
        BY <3>1, <4>1, WritingFacts DEF RealInv, TasksReal
      <4> QED
        BY <4>1, <4>2, <4>3, <4>4
    <3> QED
      BY <2>3, <3>1, <3>2
  <2>6. CASE Received(p) /\ NextEvent(p).type = "PUT"
    <3> DEFINE ev == inbox[p][1]
    <3>1. /\ Shifted(p, 1) /\ NextEvent(p) = ev /\ 1 \in 1 .. Len(inbox[p])
      BY <1>0, <2>6, FirstHandled
    <3>2. /\ Len(inbox'[p]) = Len(inbox[p]) - 1 /\ inbox'[p][i] = inbox[p][i + 1]
      BY <3>1 DEF Shifted
    <3>3. i + 1 \in 1 .. Len(inbox[p]) /\ 1 < i + 1
      BY <2>0, <3>2
    <3>4. /\ q \in Others(p) /\ About(p, i + 1, q)
          /\ task[p][q].state \notin Terminal
          /\ task[p][q].endpoint => inbox'[p][i].value.endpoint
      BY <2>1, <3>2, <3>3
    <3>5. CASE task'[p][q] = task[p][q]
      BY <3>4, <3>5
    <3>6. CASE task'[p][q] \in {NoStatus, JustPreparing}
      <4>1. /\ NoStatus.state \notin Terminal /\ ~NoStatus.endpoint
            /\ JustPreparing.state \notin Terminal /\ ~JustPreparing.endpoint
        BY DEF NoStatus, JustPreparing, Terminal
      <4> QED
        BY <3>6, <4>1
    <3>7. CASE q = ev.player /\ ev.kind = "entry" /\ task'[p][q] = ev.value
      <4>1. About(p, 1, q)
        BY <3>1, <3>7 DEF About
      <4>2. /\ ev.value.state \notin Terminal
            /\ ev.value.endpoint => inbox[p][i + 1].value.endpoint
        BY <1>0, <3>1, <3>3, <3>4, <4>1 DEF EventsOrdered
      <4> QED
        BY <3>2, <3>7, <4>2
    <3>8. Mirrored(p, ev) /\ ev.type = "PUT"
      BY <2>6, <3>1 DEF Received
    <3> HIDE DEF ev
    <3> QED
      BY <3>4, <3>5, <3>6, <3>7, <3>8 DEF Mirrored, ProxiesSame, ProxyStatus
  <2> QED
    BY <2>2, <2>4, <2>5, <2>6, WatchFacts
<1> QED
  BY <1>1, <1>2, <1>3 DEF OrderInv

LEMMA OrderInvariant ==
  ASSUME MaxDeletes = 0, NoReplays
  PROVE  Spec => []OrderInv
<1>1. Init => OrderInv
  <2> SUFFICES ASSUME Init PROVE OrderInv
    OBVIOUS
  <2>1. /\ inbox = [p \in Player |-> <<>>] /\ handled = [p \in Player |-> 0]
    BY DEF Init
  <2> QED
    BY <2>1, EmptySeq DEF OrderInv, AllHandledGone, EventsOrdered, EventsAhead
<1>2. TypeOK /\ WritesFollow /\ KeptInv /\ CommitInv /\ RealInv /\ OrderInv
        /\ [Next]_vars => OrderInv'
  BY OrderFacts, OrderStep
<1> QED
  BY <1>1, <1>2, TypeCorrect, WritesFollowInvariant, KeptInvariant, CommitInvariant,
     RealInvariant, PTL DEF Spec

(* A task known to have ended stays known so, and a known endpoint too. *)
LEMMA KnownStays ==
  ASSUME MaxDeletes = 0, TypeOK, KeptInv, CommitInv, RealInv, OrderInv, StepChange,
         NEW p \in Player, NEW q \in Player
  PROVE  /\ task[p][q].state \in Terminal => task'[p][q].state = task[p][q].state
         /\ q # p /\ task[p][q].endpoint => task'[p][q].endpoint
<1>1. TaskChange(p, q) /\ q \notin orphan[p]
  BY DEF StepChange, KeptInv, NothingCollected
<1>2. CASE task'[p][q] = task[p][q]
  BY <1>2
<1>3. CASE q = p /\ task'[p][q] = entry[p]
  BY <1>3 DEF CommitInv, TasksMatch
<1>4. CASE ~Exists(p, q)
  <2>1. task[p][q] = Absent
    BY <1>4 DEF RealInv, TasksReal
  <2>2. Absent.state \notin Terminal /\ ~Absent.endpoint
    BY DEF Absent, Terminal
  <2> QED
    BY <2>1, <2>2
<1>5. CASE AnEvent(p, q, "PUT", task'[p][q])
  <2>1. PICK i \in 1 .. Len(inbox[p]) :
          inbox[p][i] = [kind |-> "entry", player |-> q, type |-> "PUT",
                         value |-> task'[p][q]]
    BY <1>5 DEF AnEvent
  <2>2. About(p, i, q) /\ inbox[p][i].value = task'[p][q]
    BY <2>1 DEF About
  <2> QED
    BY <2>2 DEF OrderInv, EventsAhead
<1>6. ~\E v \in Status : AnEvent(p, q, "DELETE", v)
  BY KeptFacts
<1> QED
  BY <1>1, <1>2, <1>3, <1>4, <1>5, <1>6 DEF TaskChange

LEMMA DoneStep ==
  ASSUME MaxDeletes = 0, TypeOK, KeptInv, CommitInv, RealInv, OrderInv, DoneInv,
         StepChange
  PROVE  DoneInv'
<1> SUFFICES ASSUME NEW p \in Player
             PROVE  /\ job'[p] = "Completed" \/ jobRec'[p].pc \in {"activate", "update"}
                         => \A q \in Player : task'[p][q].state = "Completed"
                    /\ job'[p] = "Failed" =>
                         /\ \E q \in Player : task'[p][q].state = "Failed"
                         /\ \A q \in Player : task'[p][q].state \in Terminal
  BY DEF DoneInv, anyFailed
<1>1. JobChange(p) /\ JobRecChange(p) /\ ~JobDeletion(p)
  BY KeptFacts DEF StepChange
<1>2. \A q \in Player :
        task[p][q].state \in Terminal => task'[p][q].state = task[p][q].state
  BY KnownStays
<1>3. jobRec[p].pc = "update" => jobRec[p].state = "Completed"
  BY DEF CommitInv, DecisionsMatch
<1>4. /\ job[p] = "Completed" \/ jobRec[p].pc \in {"activate", "update"} =>
           \A q \in Player : task[p][q].state = "Completed"
      /\ job[p] = "Failed" =>
           anyFailed(p) /\ \A q \in Player : task[p][q].state \in Terminal
  BY DEF DoneInv
<1>5. JobIdle.pc = "idle"
  BY DEF JobIdle
<1>6. ASSUME job'[p] = "Completed" \/ jobRec'[p].pc \in {"activate", "update"}
      PROVE  \A q \in Player : task[p][q].state = "Completed"
  <2>1. CASE job'[p] = "Completed"
    BY <1>1, <1>3, <1>4, <2>1 DEF JobChange
  <2>2. CASE jobRec'[p].pc \in {"activate", "update"}
    BY <1>1, <1>4, <1>5, <2>2 DEF JobRecChange
  <2> QED
    BY <1>6, <2>1, <2>2
<1>7. ASSUME job'[p] = "Failed"
      PROVE  anyFailed(p) /\ \A q \in Player : task[p][q].state \in Terminal
  BY <1>1, <1>3, <1>4, <1>7 DEF JobChange
<1>8. job'[p] = "Completed" \/ jobRec'[p].pc \in {"activate", "update"} =>
        \A q \in Player : task'[p][q].state = "Completed"
  BY <1>2, <1>6 DEF Terminal
<1>9. job'[p] = "Failed" =>
        /\ \E q \in Player : task'[p][q].state = "Failed"
        /\ \A q \in Player : task'[p][q].state \in Terminal
  BY <1>2, <1>7 DEF anyFailed, Terminal
<1> QED
  BY <1>8, <1>9

LEMMA DoneInvariant ==
  ASSUME MaxDeletes = 0, NoReplays
  PROVE  Spec => []DoneInv
<1>1. Init => DoneInv
  <2> SUFFICES ASSUME Init PROVE DoneInv
    OBVIOUS
  <2>1. \A p \in Player : job[p] \in {"", "Absent"} /\ jobRec[p] = JobIdle
    BY DEF Init
  <2>2. JobIdle.pc = "idle"
    BY DEF JobIdle
  <2> QED
    BY <2>1, <2>2 DEF DoneInv
<1>2. TypeOK /\ KeptInv /\ CommitInv /\ RealInv /\ OrderInv /\ DoneInv /\ [Next]_vars
        => DoneInv'
  BY StepFacts, DoneStep
<1> QED
  BY <1>1, <1>2, TypeCorrect, KeptInvariant, CommitInvariant, RealInvariant,
     OrderInvariant, PTL DEF Spec

(* If the job is not deleted and no roster event is handled twice, a job   *)
(* that is completed or failed stays so (the status updates of the job     *)
(* controller), for any number of VCPs.  With replayed events it may not:  *)
(* a proxy then goes back to an earlier state, and the job with it.        *)
THEOREM DoneJobsStayDone ==
  ASSUME MaxDeletes = 0, NoReplays
  PROVE  Spec => DoneIsFinal
<1> DEFINE A == \A p \in Player :
                  job[p] \in JobDone => job'[p] \in {job[p], "Absent"}
<1>1. TypeOK /\ KeptInv /\ CommitInv /\ DoneInv /\ [Next]_vars => [A]_vars
  <2> SUFFICES ASSUME TypeOK, KeptInv, CommitInv, DoneInv, [Next]_vars,
                      NEW p \in Player, job[p] \in {"Completed", "Failed"}
               PROVE  job'[p] = job[p]
    BY DEF JobDone
  <2>1. JobChange(p) /\ ~JobDeletion(p)
    BY StepFacts, KeptFacts DEF StepChange
  <2>2. jobRec[p].pc = "update" =>
          jobRec[p].state = "Completed" /\ \A q \in Player : task[p][q].state = "Completed"
    BY DEF CommitInv, DecisionsMatch, DoneInv
  <2>3. /\ job[p] = "Completed" => \A q \in Player : task[p][q].state = "Completed"
        /\ job[p] = "Failed" =>
             anyFailed(p) /\ \A q \in Player : task[p][q].state \in Terminal
    BY DEF DoneInv
  <2> QED
    BY <2>1, <2>2, <2>3 DEF JobChange, anyFailed, Terminal
<1> QED
  BY <1>1, TypeCorrect, KeptInvariant, CommitInvariant, DoneInvariant, PTL
     DEF Spec, DoneIsFinal

LEMMA PeersInvStep ==
  ASSUME MaxDeletes = 0, TypeOK, WritesFollow, KeptInv, CommitInv, RealInv, OrderInv,
         LaunchInv, PeersInv, StepChange, OrderChange
  PROVE  PeersInv'
<1> SUFFICES ASSUME NEW p \in Player
             PROVE  /\ entry'[p].state \in Launched \/ LaunchWritten(p)' =>
                         endpoints(p)' = Player
                    /\ genPod'[p] # "Absent" => peers'[p] = Player
  BY DEF PeersInv
<1>1. /\ entry[p].state \in Launched \/ LaunchWritten(p) => endpoints(p) = Player
      /\ genPod[p] # "Absent" => peers[p] = Player
  BY DEF PeersInv
<1>2. endpoints(p) = Player => endpoints(p)' = Player
  <2> SUFFICES ASSUME endpoints(p) = Player, NEW q \in Player
               PROVE  IF q = p THEN entry'[p].endpoint ELSE task'[p][q].endpoint
    BY DEF endpoints
  <2>1. IF q = p THEN entry[p].endpoint ELSE task[p][q].endpoint
    BY DEF endpoints
  <2> QED
    BY <2>1, EndpointStays, KnownStays
<1>3. entry'[p].state \in Launched \/ LaunchWritten(p)' => endpoints(p) = Player
  BY <1>1, LaunchedStep
<1>4. genPod'[p] # "Absent" => peers'[p] = Player
  <2>1. PeersChange(p) /\ stale[p] = {}
    BY DEF OrderChange, KeptInv, NothingCollected
  <2> QED
    BY <1>1, <2>1 DEF PeersChange, Launched
<1> QED
  BY <1>2, <1>3, <1>4

LEMMA PeersInvariant ==
  ASSUME MaxDeletes = 0, NoReplays
  PROVE  Spec => []PeersInv
<1>1. Init => PeersInv
  <2> SUFFICES ASSUME Init PROVE PeersInv
    OBVIOUS
  <2>1. \A p \in Player :
          entry[p] = Absent /\ taskRec[p] = TaskIdle /\ genPod[p] = "Absent"
    BY DEF Init
  <2>2. Absent.state \notin Launched /\ TaskIdle.pc # "put"
    BY DEF Absent, Launched, TaskIdle
  <2> QED
    BY <2>1, <2>2 DEF PeersInv, LaunchWritten
<1>2. TypeOK /\ WritesFollow /\ KeptInv /\ CommitInv /\ RealInv /\ OrderInv
        /\ LaunchInv /\ PeersInv /\ [Next]_vars => PeersInv'
  BY StepFacts, OrderFacts, PeersInvStep
<1> QED
  BY <1>1, <1>2, TypeCorrect, WritesFollowInvariant, KeptInvariant, CommitInvariant,
     RealInvariant, OrderInvariant, LaunchInvariant, PTL DEF Spec

(* If the job is not deleted and no roster event is handled twice, every   *)
(* generator pod is given the endpoints of all VCPs (createGeneratorPod),  *)
(* for any number of VCPs: no endpoint is lost between the decision to     *)
(* launch and the creation of the pod.  With replayed events one may be.   *)
THEOREM GeneratorsKnowPeers ==
  ASSUME MaxDeletes = 0, NoReplays
  PROVE  Spec => []GeneratorKnowsPeers
<1>1. PeersInv => GeneratorKnowsPeers
  BY DEF PeersInv, GeneratorKnowsPeers
<1> QED
  BY <1>1, PeersInvariant, PTL

----------------------------------------------------------------------------
(* Proxies converge. *)

(* Without failing handlers the job is known when a status arrives, which  *)
(* is then copied to the proxy.                                            *)
LEMMA ReceivedFacts ==
  ASSUME MaxDeletes = 0, MaxFaults = 0, TypeOK, KeptInv, RosterAnnounced,
         NEW p \in Player, Received(p), NextEvent(p).type = "PUT"
  PROVE  /\ job[p] # "Absent" \/ job'[p] # "Absent"
         /\ \A q \in Others(p) :
              task'[p][q] = IF About(p, handled[p] + 1, q)
                            THEN ProxyStatus(p, q, NextEvent(p).value)
                            ELSE task[p][q]
<1> DEFINE k == handled[p] + 1
           ev == NextEvent(p)
<1>1. /\ k \in 1 .. Len(inbox[p]) /\ ev = inbox[p][k] /\ handled[p] \in Nat
      /\ ev.kind \in {"roster", "entry"}
  BY NextEventType DEF Received, NextEvent, TypeOK, Event
<1>2. ev.kind = "entry" => job[p] # "Absent"
  <2> SUFFICES ASSUME ev.kind = "entry", job[p] = "Absent" PROVE FALSE
    OBVIOUS
  <2>1. PICK j \in 1 .. Len(inbox[p]) :
          handled[p] < j /\ j <= k /\ inbox[p][j].kind = "roster"
    BY <1>1 DEF RosterAnnounced, Announced
  <2>2. j = k
    BY <1>1, <2>1
  <2> QED
    BY <1>1, <2>1, <2>2
<1>3. ~(faults < MaxFaults)
  BY DEF TypeOK
<1>4. \A q : About(p, k, q) <=> ev.kind = "entry" /\ ev.player = q
  BY <1>1 DEF About
<1>5. Mirrored(p, ev)
  BY DEF Received
<1> HIDE DEF ev, k
<1>6. ev.type = "PUT"
  BY DEF ev
<1>7. CASE ev.kind = "roster" /\ job'[p] # "Absent" /\ ProxiesSame(p)
  <2>1. \A q \in Others(p) : task'[p][q] = task[p][q] /\ ~About(p, k, q)
    BY <1>4, <1>7 DEF ProxiesSame
  <2> QED
    BY <1>7, <2>1 DEF k, ev
<1>8. CASE /\ ev.kind = "entry" /\ job[p] # "Absent"
           /\ \A q \in Others(p) :
                task'[p][q] = IF q = ev.player THEN ProxyStatus(p, q, ev.value)
                                               ELSE task[p][q]
  <2>1. \A q \in Others(p) : About(p, k, q) <=> q = ev.player
    BY <1>4, <1>8
  <2> QED
    BY <1>8, <2>1 DEF k, ev
<1> QED
  BY <1>2, <1>3, <1>5, <1>6, <1>7, <1>8 DEF Mirrored

(* A job that is known stays known, and so does the roster. *)
LEMMA JobsStay ==
  ASSUME MaxDeletes = 0, TypeOK, KeptInv, StepChange
  PROVE  /\ \A p \in Player : job[p] # "Absent" => job'[p] # "Absent"
         /\ roster => roster'
<1>1. ASSUME NEW p \in Player, job[p] # "Absent" PROVE job'[p] # "Absent"
  <2>1. JobChange(p) /\ ~JobDeletion(p)
    BY KeptFacts DEF StepChange
  <2>2. jobRec[p].state # "Absent"
    BY ReconciliationFacts DEF TypeOK, JobState
  <2> QED
    BY <1>1, <2>1, <2>2 DEF JobChange
<1>2. roster => roster'
  BY DEF StepChange, RosterChange, KeptInv, RosterKept
<1> QED
  BY <1>1, <1>2

LEMMA RosterFirstStep ==
  ASSUME MaxDeletes = 0, TypeOK, KeptInv, RosterFirst, StepChange
  PROVE  RosterFirst'
<1> SUFFICES ASSUME NEW p \in Player,
                    jobRec'[p].pc = "task" \/ task'[p][p].state # "Absent", ~roster'
             PROVE  FALSE
  BY DEF RosterFirst, Exists
<1>1. ~roster /\ jobRec[p].pc # "task" /\ ~Exists(p, p) /\ ~JobResume(p)
  BY JobsStay DEF RosterFirst, JobResume
<1>2. CASE jobRec'[p].pc = "task"
  <2>1. JobRecChange(p) /\ ~JobDeletion(p)
    BY KeptFacts DEF StepChange
  <2>2. JobIdle.pc = "idle"
    BY DEF JobIdle
  <2>3. CASE jobRec[p].pc = "activate" /\ jobRec'[p] = [jobRec[p] EXCEPT !.pc = "update"]
    <3>1. jobRec[p] \in JobReconciliation
      BY DEF TypeOK
    <3> QED
      BY <1>2, <2>3, <3>1 DEF JobReconciliation
  <2> QED
    BY <1>1, <1>2, <2>1, <2>2, <2>3 DEF JobRecChange
<1>3. CASE task'[p][p].state # "Absent"
  <2>1. TaskChange(p, p) /\ p \notin orphan[p]
    BY DEF StepChange, KeptInv, NothingCollected
  <2>2. entry[p] = Absent /\ Absent.state = "Absent"
    BY <1>1, KeptFacts DEF Absent
  <2>3. task[p][p].state = "Absent"
    BY <1>1 DEF Exists
  <2>4. /\ ~\E v \in Status : AnEvent(p, p, "PUT", v)
        /\ ~\E v \in Status : AnEvent(p, p, "DELETE", v)
    BY KeptFacts
  <2> QED
    BY <1>1, <1>3, <2>1, <2>2, <2>3, <2>4 DEF TaskChange
<1> QED
  BY <1>2, <1>3

(* The roster is created, and announced, before a task is. *)
LEMMA AnnouncedStep ==
  ASSUME MaxDeletes = 0, MaxFaults = 0, TypeOK, WritesFollow, KeptInv, ConvergeInv,
         StepChange, OrderChange
  PROVE  RosterAnnounced'
<1> SUFFICES ASSUME NEW p \in Player, job'[p] = "Absent"
             PROVE  /\ roster' => Announced(p, Len(inbox[p]))'
                    /\ \A i \in 1 .. Len(inbox'[p]) :
                         inbox'[p][i].kind = "entry" => Announced(p, i)'
  BY DEF RosterAnnounced, Announced
<1> DEFINE Told(n) == \E j \in 1 .. Len(inbox'[p]) :
                        handled'[p] < j /\ j <= n /\ inbox'[p][j].kind = "roster"
<1> SUFFICES /\ roster' => Told(Len(inbox'[p]))
             /\ \A i \in 1 .. Len(inbox'[p]) :
                  inbox'[p][i].kind = "entry" => Told(i)
  BY DEF Announced
<1>0. /\ job[p] = "Absent" /\ RosterAnnounced /\ Len(inbox[p]) \in Nat
      /\ handled[p] \in Nat /\ handled[p] <= Len(inbox[p])
  BY JobsStay DEF ConvergeInv, TypeOK
<1>1. CASE inbox'[p] = inbox[p] /\ handled'[p] \in {0, handled[p]}
  <2>1. \A n \in Int : Announced(p, n) => Told(n)
    BY <1>0, <1>1 DEF Announced
  <2>2. roster' => roster
    <3>1. CASE Sending(p, RosterEvent("PUT"))
      BY <1>0, <1>1, <3>1 DEF Sending
    <3> QED
      BY <3>1 DEF OrderChange, RosterSent
  <2> QED
    BY <1>0, <1>1, <2>1, <2>2 DEF RosterAnnounced
<1>2. ASSUME NEW ev, Sending(p, ev)
      PROVE  /\ Len(inbox'[p]) = Len(inbox[p]) + 1 /\ inbox'[p][Len(inbox'[p])] = ev
             /\ \A n \in Int : Announced(p, n) => Told(n)
             /\ \A n \in Int : Announced(p, n) => Announced(p, n + 1)
  BY <1>0, <1>2 DEF Sending, Announced
<1> HIDE DEF Told
<1>3. ASSUME NEW ev, Sending(p, ev), NEW i \in 1 .. Len(inbox[p]),
             inbox'[p][i].kind = "entry"
      PROVE  Told(i)
  <2>1. inbox'[p][i] = inbox[p][i]
    BY <1>3 DEF Sending
  <2> QED
    BY <1>0, <1>2, <1>3, <2>1 DEF RosterAnnounced
<1>4. CASE Sending(p, RosterEvent("PUT"))
  <2> DEFINE l == Len(inbox'[p])
  <2>1. l = Len(inbox[p]) + 1 /\ inbox'[p][l].kind = "roster" /\ handled'[p] = handled[p]
    BY <1>2, <1>4 DEF Sending, RosterEvent
  <2>2. l \in 1 .. l /\ handled[p] < l
    BY <1>0, <2>1
  <2>3. Told(Len(inbox'[p]))
    BY <2>1, <2>2 DEF Told
  <2>4. ASSUME NEW i \in 1 .. l, inbox'[p][i].kind = "entry" PROVE Told(i)
    <3>1. i \in 1 .. Len(inbox[p])
      BY <1>0, <2>1, <2>4
    <3> QED
      BY <1>3, <1>4, <2>4, <3>1
  <2> QED
    BY <2>3, <2>4
<1>5. ASSUME NEW r \in Player, SentEntry(p, r)
      PROVE  /\ roster' => Told(Len(inbox'[p]))
             /\ \A i \in 1 .. Len(inbox'[p]) :
                  inbox'[p][i].kind = "entry" => Told(i)
  <2> DEFINE l == Len(inbox'[p])
  <2>1. Sending(p, EntryPut(r, entry'[r])) /\ Writing(r)
    BY <1>5 DEF SentEntry
  <2>2. roster
    <3>1. Exists(r, r)
      BY <2>1 DEF Writing, KeptInv, TasksKept
    <3> QED
      BY <3>1 DEF ConvergeInv, RosterFirst
  <2>3. l = Len(inbox[p]) + 1
    BY <1>2, <2>1
  <2>4. Told(l)
    <3>1. Announced(p, Len(inbox[p]) + 1)
      BY <1>0, <1>2, <2>1, <2>2 DEF RosterAnnounced
    <3> QED
      BY <1>0, <1>2, <2>1, <2>3, <3>1
  <2>5. ASSUME NEW i \in 1 .. l, inbox'[p][i].kind = "entry" PROVE Told(i)
    <3>1. i = l \/ i \in 1 .. Len(inbox[p])
      BY <1>0, <2>3, <2>5
    <3> QED
      BY <1>3, <2>1, <2>4, <2>5, <3>1
  <2> QED
    BY <2>4, <2>5
<1>6. CASE Received(p) /\ NextEvent(p).type = "PUT"
  BY <1>0, <1>6, ReceivedFacts
<1> QED
  BY <1>1, <1>4, <1>5, <1>6, WatchFacts

(* A status written is sent to all watches, as the last event. *)
LEMMA EntryIsSent ==
  ASSUME MaxDeletes = 0, TypeOK, KeptInv, StepChange, OrderChange,
         NEW p \in Player, NEW q \in Others(p), entry'[q] # entry[q]
  PROVE  Sending(p, EntryPut(q, entry'[q]))
<1>1. q \in Player /\ EntrySent(p, q) /\ EntryChange(q)
  BY DEF OrderChange, StepChange, Others
<1>2. Exists(q, q)
  BY <1>1, KeptFacts DEF EntryChange
<1> QED
  BY <1>1, <1>2 DEF EntrySent

(* What a watch sees after a step, in terms of what it saw before.  In the *)
(* state after the step, event i is about the task of q if it is Now.      *)
Now(p, i, q) == inbox'[p][i].kind = "entry" /\ inbox'[p][i].player = q

LEMMA SendingFacts ==
  ASSUME TypeOK, NEW p \in Player, NEW q, NEW ev, Sending(p, ev)
  PROVE  /\ Len(inbox[p]) \in Nat /\ Len(inbox'[p]) = Len(inbox[p]) + 1
         /\ \A i \in 1 .. Len(inbox[p]) :
              inbox'[p][i] = inbox[p][i] /\ (Now(p, i, q) <=> About(p, i, q))
         /\ \A i \in 1 .. Len(inbox'[p]) :
              i \in 1 .. Len(inbox[p]) \/ i = Len(inbox[p]) + 1
         /\ inbox'[p][Len(inbox[p]) + 1] = ev
<1>1. Len(inbox[p]) \in Nat
  BY DEF TypeOK
<1> QED
  BY <1>1 DEF Sending, Now, About

LEMMA ShiftFacts ==
  ASSUME TypeOK, NEW p \in Player, NEW q, Received(p)
  PROVE  \E d \in Nat :
           /\ d \in {0, handled[p] + 1} /\ handled'[p] = handled[p] + 1 - d
           /\ Len(inbox'[p]) = Len(inbox[p]) - d
           /\ \A i \in 1 .. Len(inbox'[p]) :
                /\ i + d \in 1 .. Len(inbox[p]) /\ inbox'[p][i] = inbox[p][i + d]
                /\ Now(p, i, q) <=> About(p, i + d, q)
           /\ \A j \in 1 .. Len(inbox[p]) : d < j => j - d \in 1 .. Len(inbox'[p])
<1>1. handled[p] \in Nat /\ Len(inbox[p]) \in Nat
  BY DEF TypeOK
<1>2. PICK d \in {0, handled[p] + 1} : Shifted(p, d)
  BY DEF Received, Consumed
<1>3. d \in Nat
  BY <1>1
<1>4. Len(inbox'[p]) = Len(inbox[p]) - d /\ handled'[p] = handled[p] + 1 - d
  BY <1>2 DEF Shifted
<1>5. ASSUME NEW i \in 1 .. Len(inbox'[p])
      PROVE  /\ i + d \in 1 .. Len(inbox[p]) /\ inbox'[p][i] = inbox[p][i + d]
             /\ Now(p, i, q) <=> About(p, i + d, q)
  <2>1. inbox'[p][i] = inbox[p][i + d]
    BY <1>2 DEF Shifted
  <2>2. i + d \in 1 .. Len(inbox[p])
    BY <1>1, <1>3, <1>4
  <2> QED
    BY <2>1, <2>2 DEF Now, About
<1>6. \A j \in 1 .. Len(inbox[p]) : d < j => j - d \in 1 .. Len(inbox'[p])
  BY <1>1, <1>3, <1>4
<1> QED
  BY <1>3, <1>4, <1>5, <1>6

LEMMA LastStep ==
  ASSUME MaxDeletes = 0, TypeOK, KeptInv, LastIsCurrent, StepChange, OrderChange
  PROVE  LastIsCurrent'
<1> SUFFICES ASSUME NEW p \in Player, NEW q \in Player, NEW i \in 1 .. Len(inbox'[p]),
                    Now(p, i, q),
                    \A j \in 1 .. Len(inbox'[p]) : i < j => ~Now(p, j, q)
             PROVE  inbox'[p][i].value = entry'[q]
  BY DEF LastIsCurrent, About, Now
<1>0. q \in Others(p)
  <2>1. KeptInv'
    BY KeptStep
  <2> QED
    BY <2>1 DEF KeptInv, EventsArePuts, Now, Others
<1>1. ASSUME NEW k \in 1 .. Len(inbox[p]), About(p, k, q),
             \A j \in 1 .. Len(inbox[p]) : k < j => ~About(p, j, q)
      PROVE  inbox[p][k].value = entry[q]
  BY <1>1 DEF LastIsCurrent
<1>2. CASE entry'[q] # entry[q]
  <2>1. Sending(p, EntryPut(q, entry'[q]))
    BY <1>0, <1>2, EntryIsSent
  <2> DEFINE l == Len(inbox[p]) + 1
  <2>2. /\ Len(inbox[p]) \in Nat /\ Len(inbox'[p]) = l
        /\ inbox'[p][l] = EntryPut(q, entry'[q])
    BY <2>1, SendingFacts
  <2>3. Now(p, l, q) /\ inbox'[p][l].value = entry'[q]
    BY <2>2 DEF Now, EntryPut
  <2>4. i = l
    <3>1. l \in 1 .. Len(inbox'[p]) /\ (i < l \/ i = l)
      BY <2>2
    <3> QED
      BY <2>3, <3>1
  <2> QED
    BY <2>3, <2>4
<1>3. CASE entry'[q] = entry[q]
  <2>1. CASE inbox'[p] = inbox[p]
    BY <1>1, <1>3, <2>1 DEF Now, About
  <2>2. ASSUME NEW ev, Sending(p, ev), i \in 1 .. Len(inbox[p])
        PROVE  inbox'[p][i].value = entry'[q]
    <3>1. /\ inbox'[p][i] = inbox[p][i] /\ About(p, i, q)
          /\ \A j \in 1 .. Len(inbox[p]) : i < j => ~About(p, j, q)
      BY <2>2, SendingFacts
    <3> QED
      BY <1>1, <1>3, <2>2, <3>1
  <2>3. CASE Sending(p, RosterEvent("PUT"))
    <3>1. RosterEvent("PUT").kind # "entry"
      BY DEF RosterEvent
    <3>2. i \in 1 .. Len(inbox[p]) \/ inbox'[p][i] = RosterEvent("PUT")
      BY <2>3, SendingFacts
    <3> QED
      BY <2>2, <2>3, <3>1, <3>2 DEF Now
  <2>4. ASSUME NEW r \in Player, SentEntry(p, r)
        PROVE  inbox'[p][i].value = entry'[q]
    <3>1. Sending(p, EntryPut(r, entry'[r]))
      BY <2>4 DEF SentEntry
    <3>2. i \in 1 .. Len(inbox[p]) \/ inbox'[p][i] = EntryPut(r, entry'[r])
      BY <3>1, SendingFacts
    <3>3. CASE inbox'[p][i] = EntryPut(r, entry'[r])
      BY <3>3 DEF Now, EntryPut
    <3> QED
      BY <2>2, <3>1, <3>2, <3>3
  <2>5. CASE Received(p)
    <3>1. PICK d \in Nat :
            /\ Len(inbox'[p]) = Len(inbox[p]) - d
            /\ \A k \in 1 .. Len(inbox'[p]) :
                 /\ k + d \in 1 .. Len(inbox[p]) /\ inbox'[p][k] = inbox[p][k + d]
                 /\ Now(p, k, q) <=> About(p, k + d, q)
            /\ \A j \in 1 .. Len(inbox[p]) : d < j => j - d \in 1 .. Len(inbox'[p])
      BY <2>5, ShiftFacts
    <3>2. ASSUME NEW j \in 1 .. Len(inbox[p]), i + d < j PROVE ~About(p, j, q)
      <4>1. d < j /\ i < j - d /\ (j - d) + d = j
        BY <3>2
      <4>2. j - d \in 1 .. Len(inbox'[p])
        BY <3>1, <4>1
      <4>3. ~Now(p, j - d, q)
        BY <4>1, <4>2
      <4> QED
        BY <3>1, <4>1, <4>2, <4>3
    <3> QED
      BY <1>1, <1>3, <3>1, <3>2
  <2> QED
    BY <2>1, <2>3, <2>4, <2>5, WatchFacts
<1> QED
  BY <1>2, <1>3

LEMMA FirstStep ==
  ASSUME MaxDeletes = 0, MaxFaults = 0, TypeOK, WritesFollow, KeptInv, RealInv,
         ConvergeInv, StepChange, OrderChange
  PROVE  FirstIsCreation'
<1> SUFFICES ASSUME NEW p \in Player, NEW q \in Others(p),
                    NEW i \in 1 .. Len(inbox'[p]),
                    task'[p][q].state = "Absent", Now(p, i, q)
             PROVE  /\ handled'[p] < i
                    /\ (\A j \in 1 .. Len(inbox'[p]) : j < i => ~Now(p, j, q))
                         => inbox'[p][i].value = JustPreparing
  BY DEF FirstIsCreation, Exists, About, Now
<1>0. /\ q \in Player /\ handled[p] \in Nat /\ Len(inbox[p]) \in Nat
      /\ handled[p] <= Len(inbox[p])
  BY DEF Others, TypeOK
<1>1. ASSUME NEW k \in 1 .. Len(inbox[p]), ~Exists(p, q), About(p, k, q)
      PROVE  /\ handled[p] < k
             /\ (\A j \in 1 .. Len(inbox[p]) : j < k => ~About(p, j, q))
                  => inbox[p][k].value = JustPreparing
  BY <1>1 DEF ConvergeInv, FirstIsCreation
<1>2. ProxiesSame(p) => ~Exists(p, q)
  BY DEF ProxiesSame, Exists
<1>3. CASE inbox'[p] = inbox[p] /\ handled'[p] \in {0, handled[p]} /\ ProxiesSame(p)
  <2>1. \A k \in 1 .. Len(inbox[p]) : Now(p, k, q) <=> About(p, k, q)
    BY <1>3 DEF Now, About
  <2> QED
    BY <1>1, <1>2, <1>3, <2>1
<1>4. ASSUME NEW ev, Sending(p, ev), i \in 1 .. Len(inbox[p])
      PROVE  /\ handled'[p] < i
             /\ (\A j \in 1 .. Len(inbox'[p]) : j < i => ~Now(p, j, q))
                  => inbox'[p][i].value = JustPreparing
  <2>1. handled'[p] = handled[p] /\ ~Exists(p, q)
    BY <1>2, <1>4 DEF Sending
  <2>2. /\ Len(inbox'[p]) = Len(inbox[p]) + 1 /\ inbox'[p][i] = inbox[p][i]
        /\ \A k \in 1 .. Len(inbox[p]) : Now(p, k, q) <=> About(p, k, q)
    BY <1>4, SendingFacts
  <2>3. \A j \in 1 .. Len(inbox[p]) : j \in 1 .. Len(inbox'[p])
    BY <1>0, <2>2
  <2> QED
    BY <1>1, <1>4, <2>1, <2>2, <2>3
<1>5. CASE Sending(p, RosterEvent("PUT"))
  <2>1. RosterEvent("PUT").kind # "entry"
    BY DEF RosterEvent
  <2>2. i \in 1 .. Len(inbox[p]) \/ inbox'[p][i] = RosterEvent("PUT")
    BY <1>5, SendingFacts
  <2> QED
    BY <1>4, <1>5, <2>1, <2>2 DEF Now
<1>6. ASSUME NEW r \in Player, SentEntry(p, r)
      PROVE  /\ handled'[p] < i
             /\ (\A j \in 1 .. Len(inbox'[p]) : j < i => ~Now(p, j, q))
                  => inbox'[p][i].value = JustPreparing
  <2>1. Sending(p, EntryPut(r, entry'[r])) /\ Writing(r)
    BY <1>6 DEF SentEntry
  <2>2. \/ i \in 1 .. Len(inbox[p])
        \/ i = Len(inbox[p]) + 1 /\ inbox'[p][i] = EntryPut(r, entry'[r])
    BY <2>1, SendingFacts
  <2>3. CASE i = Len(inbox[p]) + 1 /\ inbox'[p][i] = EntryPut(r, entry'[r])
    <3>1. r = q /\ inbox'[p][i].value = entry'[q]
      BY <2>3 DEF Now, EntryPut
    <3>2. handled'[p] < i
      BY <1>0, <2>1, <2>3 DEF Sending
    <3>3. ASSUME \A j \in 1 .. Len(inbox'[p]) : j < i => ~Now(p, j, q)
          PROVE  entry'[q] = JustPreparing
      <4>1. /\ Len(inbox'[p]) = Len(inbox[p]) + 1
            /\ \A k \in 1 .. Len(inbox[p]) : Now(p, k, q) <=> About(p, k, q)
        BY <2>1, SendingFacts
      <4>2. ASSUME NEW k \in 1 .. Len(inbox[p]) PROVE ~About(p, k, q)
        <5>1. k \in 1 .. Len(inbox'[p]) /\ k < i
          BY <1>0, <2>3, <4>1
        <5> QED
          BY <3>3, <4>1, <5>1
      <4>3. task[p][q] = entry[q]
        BY <4>2 DEF ConvergeInv, HandledIsCurrent
      <4>4. ~Exists(p, q)
        BY <1>2, <2>1 DEF Sending
      <4>5. entry[q].state = "Absent"
        BY <4>3, <4>4 DEF Exists
      <4> QED
        BY <2>1, <3>1, <4>5, WritingFacts
    <3> QED
      BY <3>1, <3>2, <3>3
  <2> QED
    BY <1>4, <2>1, <2>2, <2>3
<1>7. CASE Received(p) /\ NextEvent(p).type = "PUT"
  <2> DEFINE k == handled[p] + 1
  <2>0. /\ k \in 1 .. Len(inbox[p]) /\ NextEvent(p) = inbox[p][k]
    BY <1>7, NextEventType DEF Received, NextEvent
  <2>1. task'[p][q] = IF About(p, k, q) THEN ProxyStatus(p, q, inbox[p][k].value)
                                        ELSE task[p][q]
    BY <1>7, <2>0, ReceivedFacts DEF ConvergeInv
  <2>2. ~About(p, k, q)
    <3>1. SUFFICES ASSUME About(p, k, q)
                   PROVE  ProxyStatus(p, q, inbox[p][k].value).state # "Absent"
      BY <2>1
    <3>2. inbox[p][k].value.state # "Absent"
      BY <2>0, <3>1 DEF RealInv, EventsReal, About
    <3>3. JustPreparing.state # "Absent"
      BY DEF JustPreparing
    <3> QED
      BY <3>2, <3>3 DEF ProxyStatus
  <2>3. ~Exists(p, q)
    BY <2>1, <2>2 DEF Exists
  <2>4. PICK d \in Nat :
          /\ d \in {0, handled[p] + 1} /\ handled'[p] = handled[p] + 1 - d
          /\ \A j \in 1 .. Len(inbox'[p]) :
               /\ j + d \in 1 .. Len(inbox[p]) /\ inbox'[p][j] = inbox[p][j + d]
               /\ Now(p, j, q) <=> About(p, j + d, q)
          /\ \A j \in 1 .. Len(inbox[p]) : d < j => j - d \in 1 .. Len(inbox'[p])
    BY <1>7, ShiftFacts
  <2>5. About(p, i + d, q) /\ i + d \in 1 .. Len(inbox[p])
    BY <2>4
  <2>6. handled[p] < i + d /\ i + d # k
    BY <1>1, <2>2, <2>3, <2>5
  <2>7. handled'[p] < i
    BY <1>0, <2>4, <2>6
  <2>8. ASSUME \A j \in 1 .. Len(inbox'[p]) : j < i => ~Now(p, j, q),
               NEW j \in 1 .. Len(inbox[p]), j < i + d
        PROVE  ~About(p, j, q)
    <3>1. CASE j <= k
      BY <1>0, <1>1, <2>2, <2>3, <3>1
    <3>2. CASE k < j
      <4>1. d < j /\ j - d < i /\ (j - d) + d = j
        BY <1>0, <2>4, <2>8, <3>2
      <4>2. j - d \in 1 .. Len(inbox'[p])
        BY <2>4, <4>1
      <4>3. ~Now(p, j - d, q)
        BY <2>8, <4>1, <4>2
      <4> QED
        BY <2>4, <4>1, <4>2, <4>3
    <3> QED
      BY <1>0, <3>1, <3>2
  <2>9. inbox'[p][i] = inbox[p][i + d]
    BY <2>4
  <2> QED
    BY <1>1, <2>3, <2>5, <2>7, <2>8, <2>9
<1> QED
  BY <1>3, <1>5, <1>6, <1>7, WatchFacts

LEMMA HandledStep ==
  ASSUME MaxDeletes = 0, MaxFaults = 0, TypeOK, WritesFollow, KeptInv, RealInv,
         ConvergeInv, StepChange, OrderChange
  PROVE  HandledIsCurrent'
<1> SUFFICES ASSUME NEW p \in Player, NEW q \in Others(p),
                    \A i \in 1 .. Len(inbox'[p]) : handled'[p] < i => ~Now(p, i, q)
             PROVE  task'[p][q] = entry'[q]
  BY DEF HandledIsCurrent, About, Now
<1>0. /\ q \in Player /\ handled[p] \in Nat /\ Len(inbox[p]) \in Nat
      /\ handled[p] <= Len(inbox[p])
  BY DEF Others, TypeOK
<1>1. ASSUME \A i \in 1 .. Len(inbox[p]) : handled[p] < i => ~About(p, i, q)
      PROVE  task[p][q] = entry[q]
  BY <1>1 DEF ConvergeInv, HandledIsCurrent
<1>2. entry'[q] = entry[q]
  <2> SUFFICES ASSUME entry'[q] # entry[q] PROVE FALSE
    OBVIOUS
  <2> DEFINE l == Len(inbox[p]) + 1
  <2>1. Sending(p, EntryPut(q, entry'[q]))
    BY EntryIsSent
  <2>2. Len(inbox'[p]) = l /\ inbox'[p][l] = EntryPut(q, entry'[q])
    BY <2>1, SendingFacts
  <2>3. Now(p, l, q)
    BY <2>2 DEF Now, EntryPut
  <2>4. l \in 1 .. Len(inbox'[p]) /\ handled'[p] < l
    BY <1>0, <2>1, <2>2 DEF Sending
  <2> QED
    BY <2>3, <2>4
<1>3. CASE inbox'[p] = inbox[p] /\ handled'[p] \in {0, handled[p]} /\ ProxiesSame(p)
  <2>1. \A i \in 1 .. Len(inbox[p]) : handled[p] < i => ~About(p, i, q)
    BY <1>0, <1>3 DEF Now, About
  <2> QED
    BY <1>1, <1>2, <1>3, <2>1 DEF ProxiesSame
<1>4. ASSUME NEW ev, Sending(p, ev) PROVE task'[p][q] = entry'[q]
  <2>1. handled'[p] = handled[p] /\ task'[p][q] = task[p][q]
    BY <1>4 DEF Sending, ProxiesSame
  <2>2. /\ Len(inbox'[p]) = Len(inbox[p]) + 1
        /\ \A i \in 1 .. Len(inbox[p]) : Now(p, i, q) <=> About(p, i, q)
    BY <1>4, SendingFacts
  <2>3. \A i \in 1 .. Len(inbox[p]) : i \in 1 .. Len(inbox'[p])
    BY <1>0, <2>2
  <2> QED
    BY <1>1, <1>2, <2>1, <2>2, <2>3
<1>5. CASE Received(p) /\ NextEvent(p).type = "PUT"
  <2> DEFINE k == handled[p] + 1
  <2>0. /\ k \in 1 .. Len(inbox[p]) /\ NextEvent(p) = inbox[p][k]
    BY <1>5, NextEventType DEF Received, NextEvent
  <2>1. task'[p][q] = IF About(p, k, q) THEN ProxyStatus(p, q, inbox[p][k].value)
                                        ELSE task[p][q]
    BY <1>5, <2>0, ReceivedFacts DEF ConvergeInv
  <2>2. PICK d \in Nat :
          /\ d \in {0, handled[p] + 1} /\ handled'[p] = handled[p] + 1 - d
          /\ \A j \in 1 .. Len(inbox'[p]) :
               /\ j + d \in 1 .. Len(inbox[p]) /\ inbox'[p][j] = inbox[p][j + d]
               /\ Now(p, j, q) <=> About(p, j + d, q)
          /\ \A j \in 1 .. Len(inbox[p]) : d < j => j - d \in 1 .. Len(inbox'[p])
    BY <1>5, ShiftFacts
  <2>3. ASSUME NEW j \in 1 .. Len(inbox[p]), k < j PROVE ~About(p, j, q)
    <3>1. d < j /\ handled'[p] < j - d /\ (j - d) + d = j
      BY <1>0, <2>2, <2>3
    <3>2. j - d \in 1 .. Len(inbox'[p])
      BY <2>2, <3>1
    <3>3. ~Now(p, j - d, q)
      BY <3>1, <3>2
    <3> QED
      BY <2>2, <3>1, <3>2, <3>3
  <2>4. CASE About(p, k, q)
    <3>1. inbox[p][k].value = entry[q]
      BY <1>0, <2>0, <2>3, <2>4 DEF ConvergeInv, LastIsCurrent
    <3>2. CASE ~Exists(p, q)
      <4>1. \A j \in 1 .. Len(inbox[p]) : About(p, j, q) => handled[p] < j
        BY <3>2 DEF ConvergeInv, FirstIsCreation
      <4>2. \A j \in 1 .. Len(inbox[p]) : j < k => ~About(p, j, q)
        BY <1>0, <4>1
      <4>3. inbox[p][k].value = JustPreparing
        BY <2>0, <2>4, <3>2, <4>2 DEF ConvergeInv, FirstIsCreation
      <4> QED
        BY <1>2, <2>1, <2>4, <3>1, <3>2, <4>3 DEF ProxyStatus
    <3> QED
      BY <1>2, <2>1, <2>4, <3>1, <3>2 DEF ProxyStatus
  <2>5. CASE ~About(p, k, q)
    <3>1. \A j \in 1 .. Len(inbox[p]) : handled[p] < j => ~About(p, j, q)
      BY <1>0, <2>3, <2>5
    <3> QED
      BY <1>1, <1>2, <2>1, <2>5, <3>1
  <2> QED
    BY <2>4, <2>5
<1> QED
  BY <1>3, <1>4, <1>5, WatchFacts DEF SentEntry

LEMMA ConvergeInvariant ==
  ASSUME MaxDeletes = 0, MaxFaults = 0
  PROVE  Spec => []ConvergeInv
<1>1. Init => ConvergeInv
  <2> SUFFICES ASSUME Init PROVE ConvergeInv
    OBVIOUS
  <2>1. /\ ~roster /\ inbox = [p \in Player |-> <<>>]
        /\ \A p, q \in Player : task[p][q] = Absent
        /\ \A p \in Player : entry[p] = Absent /\ jobRec[p] = JobIdle
    BY DEF Init
  <2>2. JobIdle.pc = "idle" /\ Absent.state = "Absent"
    BY DEF JobIdle, Absent
  <2>3. RosterFirst
    BY <2>1, <2>2 DEF RosterFirst, Exists
  <2>4. RosterAnnounced /\ LastIsCurrent /\ FirstIsCreation
    BY <2>1, EmptySeq DEF RosterAnnounced, LastIsCurrent, FirstIsCreation
  <2>5. HandledIsCurrent
    BY <2>1 DEF HandledIsCurrent, Others
  <2> QED
    BY <2>3, <2>4, <2>5 DEF ConvergeInv
<1>2. TypeOK /\ WritesFollow /\ KeptInv /\ RealInv /\ ConvergeInv /\ [Next]_vars
        => ConvergeInv'
  <2> SUFFICES ASSUME TypeOK, WritesFollow, KeptInv, RealInv, ConvergeInv, [Next]_vars
               PROVE  ConvergeInv'
    OBVIOUS
  <2>1. StepChange /\ OrderChange /\ RosterFirst /\ LastIsCurrent
    BY StepFacts, OrderFacts DEF ConvergeInv
  <2> QED
    BY <2>1, RosterFirstStep, AnnouncedStep, LastStep, FirstStep, HandledStep
       DEF ConvergeInv
<1> QED
  BY <1>1, <1>2, TypeCorrect, WritesFollowInvariant, KeptInvariant, RealInvariant,
     PTL DEF Spec

(* If the job is not deleted and no handler fails, every proxy has the     *)
(* status of the remote roster entry once the watch has handled all events *)
(* (handleWatchEvents, handleRemoteTaskUpdate), for any number of VCPs and *)
(* any restarts, although a restart has events handled again and the       *)
(* proxies go back to earlier states meanwhile.                            *)
THEOREM ProxiesCatchUp ==
  ASSUME MaxDeletes = 0, MaxFaults = 0
  PROVE  Spec => []ProxiesConverge
<1>1. TypeOK /\ ConvergeInv => ProxiesConverge
  <2> SUFFICES ASSUME TypeOK, ConvergeInv, NEW p \in Player, ~Pending(p),
                      NEW q \in Others(p)
               PROVE  task[p][q] = entry[q]
    BY DEF ProxiesConverge
  <2>1. \A i \in 1 .. Len(inbox[p]) : ~(handled[p] < i)
    BY DEF Pending, TypeOK
  <2> QED
    BY <2>1 DEF ConvergeInv, HandledIsCurrent
<1> QED
  BY <1>1, TypeCorrect, ConvergeInvariant, PTL

----------------------------------------------------------------------------
(* A deleted job does not come back. *)

(* Nothing has happened yet but that the job was created. *)
Unstarted ==
  \A p \in Player :
    /\ inbox[p] = <<>> /\ entry[p] = Absent
    /\ job[p] \in {"Absent", ""} /\ (p # Creator => job[p] = "Absent")
    /\ jobRec[p].pc = "idle" /\ taskRec[p].pc = "idle"
    /\ \A q \in Player : ~Exists(p, q)

(* The creator's watch has not seen its own roster: the job is not done,   *)
(* since no proxies of the other tasks exist.                              *)
Unannounced ==
  /\ job[Creator] \in {"", "Pending", "Running"}
  /\ jobRec[Creator].pc \in {"idle", "task"}
  /\ \A q \in Others(Creator) : ~Exists(Creator, q)

RosterPut(i) ==
  /\ i \in 1 .. Len(inbox[Creator])
  /\ inbox[Creator][i].kind = "roster" /\ inbox[Creator][i].type = "PUT"

(* The roster is created once, before everything else; a pass that takes   *)
(* the job for the current one has it; and the event that could create the *)
(* job again is the first one, and handled before the job is done.         *)
StartInv ==
  /\ ~roster /\ (job[Creator] # "Absent" \/ Creator # Master) => Unstarted
  /\ Creator # Master => ~roster
LiveInv == jobRec[Creator].live => job[Creator] # "Absent"
FirstInv == \A i \in 1 .. Len(inbox[Creator]) : RosterPut(i) => i = 1 /\ Unannounced
DeletedInv == AllHandledGone /\ StartInv /\ LiveInv /\ FirstInv

(* Before the roster exists there is nothing to do but to create it. *)
LEMMA UnstartedStays ==
  ASSUME TypeOK, Deletable \subseteq JobDone, Unstarted, ~roster,
         NEW p \in Player, Step(p), ~roster'
  PROVE  Unstarted'
<1> USE DEF etcdVars, k8sVars, podVars, jobCtrlVars, taskCtrlVars
<1>1. /\ entry[p] = Absent /\ job[p] \in {"Absent", ""}
      /\ jobRec[p].pc = "idle" /\ taskRec[p].pc = "idle" /\ ~Exists(p, p)
  BY DEF Unstarted
<1>2. ~Pending(p) /\ ~(handled[p] > 0)
  <2>1. inbox[p] = <<>> /\ handled[p] \in Nat /\ handled[p] <= Len(inbox[p])
    BY DEF Unstarted, TypeOK
  <2>2. Len(inbox[p]) = 0
    BY <2>1, EmptySeq
  <2> QED
    BY <2>1, <2>2 DEF Pending
<1>3. CASE UNCHANGED <<inbox, entry, job, task, jobRec, taskRec>>
  BY <1>3 DEF Unstarted, Exists
<1>4. CASE JobStep(p)
  <2>1. ~JobResume(p)
    BY <1>1 DEF JobResume
  <2>2. CASE JobCleanup(p)
    BY <1>3, <2>2 DEF JobCleanup
  <2>3. CASE JobCreateRoster(p)
    BY <1>3, <2>3 DEF JobCreateRoster
  <2> QED
    BY <1>1, <1>4, <2>1, <2>2, <2>3 DEF JobStep, JobCreateTask, JobDerive, JobActivate,
       JobUpdate
<1>5. CASE TaskStep(p)
  <2>1. ~TaskResume(p)
    BY <1>1 DEF TaskResume
  <2>2. CASE TaskCleanup(p)
    <3>1. entry' = entry
      BY <1>1, <2>2 DEF TaskCleanup, TypeOK
    <3> QED
      BY <1>1, <1>3, <2>2, <3>1 DEF TaskCleanup
  <2> QED
    BY <1>1, <1>5, <2>1, <2>2 DEF TaskStep, TaskCreateEntry, TaskLookupFails, TaskPass,
       TaskPrepare, TaskLaunch, TaskGenerate, TaskProvision, TaskFinish, TaskPut
<1>6. CASE WatchStep(p) \/ HandlerError(p) \/ Rewatch(p)
  BY <1>2, <1>6 DEF WatchStep, RemotePut, RemoteDelete, JobPut, JobDelete, Arrived,
     HandlerError, Rewatch
<1>7. CASE \E q \in Player : CollectTask(p, q)
  <2>1. PICK d \in Player : /\ task' = [task EXCEPT ![p][d] = Absent]
                            /\ UNCHANGED <<inbox, entry, job, jobRec, taskRec>>
    BY <1>7 DEF CollectTask
  <2>2. \A r, q \in Player : task'[r][q] = task[r][q] \/ task'[r][q] = Absent
    BY <2>1, SetTask
  <2>3. ASSUME NEW r \in Player, NEW q \in Player PROVE task'[r][q].state = "Absent"
    <3>1. Absent.state = "Absent" /\ task[r][q].state = "Absent"
      BY DEF Absent, Unstarted, Exists
    <3> QED
      BY <2>2, <3>1
  <2> QED
    BY <2>1, <2>3 DEF Unstarted, Exists
<1>8. CASE \/ AssignEndpoint(p)
           \/ \E phase \in Outcomes :
                GeneratorEnds(p, phase) \/ ProvisionerEnds(p, phase)
           \/ \E d \in Dependent : CollectDependent(p, d)
  BY <1>3, <1>8 DEF AssignEndpoint, GeneratorEnds, ProvisionerEnds, CollectDependent
<1>9. CASE DeleteJob(p)
  BY <1>1, <1>9 DEF DeleteJob, JobDone
<1>10. CASE JobError(p) \/ TaskError(p)
  BY <1>1, <1>10 DEF JobError, TaskError
<1>11. CASE Crash(p)
  <2>1. /\ UNCHANGED <<inbox, entry, job, task>>
        /\ jobRec' = [jobRec EXCEPT ![p] = JobIdle]
        /\ taskRec' = [taskRec EXCEPT ![p] = TaskIdle]
    BY <1>11 DEF Crash
  <2>2. \A r \in Player : /\ jobRec'[r] \in {jobRec[r], JobIdle}
                          /\ taskRec'[r] \in {taskRec[r], TaskIdle}
    BY <2>1 DEF TypeOK
  <2>3. JobIdle.pc = "idle" /\ TaskIdle.pc = "idle"
    BY DEF JobIdle, TaskIdle
  <2> QED
    BY <2>1, <2>2, <2>3 DEF Unstarted, Exists
<1> QED
  BY <1>4, <1>5, <1>6, <1>7, <1>8, <1>9, <1>10, <1>11 DEF Step, Cluster, Failure

(* A step of one VCP leaves the resources and passes of the others alone. *)
LEMMA OnlyOwn ==
  ASSUME TypeOK, NEW p \in Player, Step(p), NEW r \in Others(p)
  PROVE  job'[r] = job[r] /\ jobRec'[r] = jobRec[r] /\ task'[r] = task[r]
<1> USE DEF etcdVars, k8sVars, podVars, jobCtrlVars, taskCtrlVars, castorVars, budgetVars
<1>0. r \in Player /\ r # p
  BY DEF Others
<1>1. job'[r] = job[r]
  <2>1. UNCHANGED job \/ \E v : job' = [job EXCEPT ![p] = v]
    <3>1. CASE JobStep(p)
      BY <3>1 DEF JobStep, JobCleanup, JobCreateRoster, JobCreateTask, JobDerive,
         JobComplete, StatusUpdate, JobActivate, JobUpdate
    <3>2. CASE WatchStep(p) \/ DeleteJob(p)
      BY <3>2 DEF WatchStep, RemotePut, RemoteDelete, JobPut, JobDelete,
         createJobIfNotExists, RemoveJob, DeleteJob
    <3> QED
      BY <3>1, <3>2, Untouched DEF Step
  <2> QED
    BY <1>0, <2>1 DEF TypeOK
<1>2. jobRec'[r] = jobRec[r]
  <2>1. UNCHANGED jobRec \/ \E v : jobRec' = [jobRec EXCEPT ![p] = v]
    <3>1. CASE JobStep(p)
      BY <3>1 DEF JobStep, JobCleanup, JobCreateRoster, JobCreateTask, JobDerive,
         JobComplete, StatusUpdate, JobActivate, JobUpdate
    <3>2. CASE WatchStep(p) \/ DeleteJob(p)
      BY <3>2 DEF WatchStep, RemotePut, RemoteDelete, JobPut, JobDelete,
         RemoveJob, DeleteJob
    <3>3. CASE Failure(p)
      BY <3>3 DEF Failure, JobError, TaskError, HandlerError, Rewatch, Crash
    <3> QED
      BY <3>1, <3>2, <3>3, Untouched DEF Step
  <2> QED
    BY <1>0, <2>1 DEF TypeOK
<1>3. task'[r] = task[r]
  <2>1. UNCHANGED task \/ \E q, v : task' = [task EXCEPT ![p][q] = v]
    <3>1. CASE JobStep(p)
      BY <3>1 DEF JobStep, JobCleanup, JobCreateRoster, JobCreateTask, JobDerive,
         JobActivate, JobUpdate
    <3>2. CASE TaskStep(p)
      BY <3>2 DEF TaskStep, TaskCleanup, TaskCreateEntry, TaskLookupFails, TaskPass,
         TaskPrepare, TaskLaunch, TaskGenerate, TaskProvision, TaskFinish, TaskPut
    <3>3. CASE WatchStep(p) \/ HandlerError(p)
      BY <3>3 DEF WatchStep, RemotePut, RemoteDelete, JobPut, JobDelete, HandlerError
    <3>4. CASE Cluster(p)
      BY <3>4 DEF Cluster, AssignEndpoint, GeneratorEnds, ProvisionerEnds, CollectTask,
         CollectDependent
    <3>5. CASE Failure(p) /\ ~HandlerError(p)
      BY <3>5 DEF Failure, JobError, TaskError, Rewatch, Crash
    <3> QED
      BY <3>1, <3>2, <3>3, <3>4, <3>5, Untouched DEF Step
  <2> QED
    BY <1>0, <2>1 DEF TypeOK
<1> QED
  BY <1>1, <1>2, <1>3

(* The job on its creator is not created again by an event or an update of *)
(* its status, since a pass knows when it was deleted.                     *)
LEMMA GoneStays ==
  ASSUME TypeOK, LiveInv, FirstInv, NEW p \in Player, Step(p)
  PROVE  /\ job[Creator] = "Absent" => job'[Creator] = "Absent"
         /\ jobRec'[Creator].live => job'[Creator] # "Absent"
<1> USE DEF etcdVars, k8sVars, podVars, jobCtrlVars, taskCtrlVars, castorVars, budgetVars
<1>0. /\ Creator \in Player /\ jobRec \in [Player -> JobReconciliation]
      /\ job \in [Player -> JobState \cup {"Absent"}]
      /\ jobRec[Creator] \in JobReconciliation
  BY CreatorAssumption DEF Player, TypeOK
<1>1. CASE p # Creator
  <2>1. Creator \in Others(p)
    BY <1>0, <1>1 DEF Others
  <2> QED
    BY <2>1, OnlyOwn DEF LiveInv
<1>2. CASE UNCHANGED <<job, jobRec>>
  BY <1>2 DEF LiveInv
<1>3. CASE jobRec'[Creator] = JobIdle /\ UNCHANGED job
  <2>1. ~JobIdle.live
    BY DEF JobIdle
  <2> QED
    BY <1>3, <2>1
<1>4. ASSUME p = Creator, JobStep(p)
      PROVE  /\ job[Creator] = "Absent" => job'[Creator] = "Absent"
             /\ jobRec'[Creator].live => job'[Creator] # "Absent"
  <2>0. /\ JobResume(p) => (JobSeen(p).live => job[Creator] # "Absent")
        /\ ~JobIdle.live
    BY <1>4 DEF JobResume, JobSeen, LiveInv, JobIdle
  <2>1. CASE JobCleanup(p)
    BY <1>2, <2>1 DEF JobCleanup
  <2>2. CASE JobCreateRoster(p)
    BY <1>4, <2>2 DEF JobCreateRoster, LiveInv
  <2>3. CASE JobCreateTask(p)
    BY <1>0, <1>3, <1>4, <2>3 DEF JobCreateTask
  <2>4. CASE JobDerive(p)
    <3> DEFINE seen == JobSeen(p)
               next == DerivedState(p, seen.state)
    <3>1. JobResume(p)
      BY <2>4 DEF JobDerive
    <3>2. \/ JobComplete(p, seen.live)
          \/ jobRec' = [jobRec EXCEPT ![p] = JobIdle] /\ UNCHANGED job
          \/ jobRec' = [jobRec EXCEPT ![p] = JobIdle] /\ StatusUpdate(p, seen.live, next)
      BY <2>4 DEF JobDerive
    <3> HIDE DEF seen, next
    <3>3. seen.live => job[Creator] # "Absent"
      BY <2>0, <3>1 DEF seen
    <3>4. CASE JobComplete(p, seen.live)
      <4>1. UNCHANGED job /\ jobRec'[Creator] = Activating(seen.live)
        BY <1>0, <1>4, <3>4 DEF JobComplete
      <4>2. jobRec'[Creator].live = seen.live
        BY <4>1 DEF Activating
      <4> QED
        BY <3>3, <4>1, <4>2
    <3>5. CASE jobRec' = [jobRec EXCEPT ![p] = JobIdle] /\ UNCHANGED job
      BY <1>0, <1>3, <1>4, <3>5
    <3>6. CASE jobRec' = [jobRec EXCEPT ![p] = JobIdle] /\ StatusUpdate(p, seen.live, next)
      <4>1. jobRec'[Creator] = JobIdle
        BY <1>0, <1>4, <3>6
      <4>2. job[Creator] = "Absent" => job'[Creator] = "Absent"
        BY <1>0, <1>4, <3>3, <3>6 DEF StatusUpdate
      <4> QED
        BY <2>0, <4>1, <4>2
    <3> QED
      BY <3>2, <3>4, <3>5, <3>6
  <2>5. CASE JobActivate(p)
    <3>1. UNCHANGED job /\ jobRec'[Creator].live = jobRec[Creator].live
      BY <1>0, <1>4, <2>5 DEF JobActivate, JobReconciliation
    <3> QED
      BY <3>1 DEF LiveInv
  <2>6. CASE JobUpdate(p)
    <3>1. jobRec'[Creator] = JobIdle
      BY <1>0, <1>4, <2>6 DEF JobUpdate
    <3>2. job[Creator] = "Absent" => job'[Creator] = "Absent"
      BY <1>0, <1>4, <2>6 DEF JobUpdate, StatusUpdate, LiveInv
    <3> QED
      BY <2>0, <3>1, <3>2
  <2> QED
    BY <1>4, <2>1, <2>2, <2>3, <2>4, <2>5, <2>6 DEF JobStep
<1>5. CASE p = Creator /\ RemoveJob(p)
  <2>1. job'[Creator] = "Absent" /\ ~jobRec'[Creator].live
    BY <1>0, <1>5 DEF RemoveJob, JobReconciliation
  <2> QED
    BY <2>1
<1>6. CASE p = Creator /\ JobPut(p)
  <2>1. /\ Pending(p) /\ NextEvent(p).kind = "roster" /\ NextEvent(p).type = "PUT"
        /\ createJobIfNotExists(p) /\ UNCHANGED jobRec
    BY <1>6 DEF JobPut, Arrived
  <2>2. handled[p] + 1 \in 1 .. Len(inbox[p])
    BY <2>1, NextEventType
  <2>3. Unannounced
    BY <1>6, <2>1, <2>2 DEF FirstInv, RosterPut, NextEvent
  <2>4. job[Creator] # "Absent"
    BY <2>3 DEF Unannounced
  <2>5. job'[Creator] = job[Creator]
    BY <1>0, <1>6, <2>1, <2>4 DEF createJobIfNotExists
  <2> QED
    BY <2>1, <2>4, <2>5
<1>7. CASE p = Creator /\ WatchStep(p)
  BY <1>2, <1>5, <1>6, <1>7 DEF WatchStep, RemotePut, RemoteDelete, JobDelete
<1>8. CASE p = Creator /\ Failure(p)
  <2>1. UNCHANGED job /\ (UNCHANGED jobRec \/ jobRec' = [jobRec EXCEPT ![p] = JobIdle])
    BY <1>8 DEF Failure, JobError, TaskError, HandlerError, Rewatch, Crash
  <2> QED
    BY <1>0, <1>2, <1>3, <1>8, <2>1
<1>9. CASE p = Creator /\ DeleteJob(p)
  BY <1>5, <1>9 DEF DeleteJob
<1> QED
  BY <1>1, <1>2, <1>4, <1>7, <1>8, <1>9, Untouched DEF Step

(* As long as the creator has not seen the event of its own roster, its    *)
(* job cannot get done: there is a VCP whose task it does not know.        *)
LEMMA UnannouncedStays ==
  ASSUME TypeOK, N >= 2, Deletable \subseteq JobDone, Unannounced,
         NEW p \in Player, Step(p),
         ~(p = Creator /\ (WatchStep(p) \/ HandlerError(p)))
  PROVE  Unannounced'
<1> USE DEF etcdVars, k8sVars, podVars, jobCtrlVars, taskCtrlVars, castorVars, budgetVars
<1>0. /\ Creator \in Player /\ jobRec \in [Player -> JobReconciliation]
      /\ job \in [Player -> JobState \cup {"Absent"}]
      /\ job[Creator] \in {"", "Pending", "Running"}
      /\ jobRec[Creator].pc \in {"idle", "task"}
      /\ JobIdle.pc = "idle"
      /\ \A q \in Others(Creator) : ~Exists(Creator, q)
  BY CreatorAssumption DEF Player, TypeOK, Unannounced, JobIdle
<1>1. PICK d \in Others(Creator) : ~Exists(Creator, d)
  <2>1. 0 \in Player /\ 1 \in Player
    BY NAssumption DEF Player
  <2>2. 0 \in Others(Creator) \/ 1 \in Others(Creator)
    BY <2>1 DEF Others
  <2> QED
    BY <1>0, <2>2
<1>2. CASE p # Creator
  <2>1. Creator \in Others(p)
    BY <1>0, <1>2 DEF Others
  <2> QED
    BY <2>1, OnlyOwn DEF Unannounced, Exists
<1> DEFINE Same == \A q \in Others(Creator) :
                     task'[Creator][q] = task[Creator][q] \/ task'[Creator][q] = Absent
<1>3. ASSUME p = Creator PROVE Same
  <2>1. \/ UNCHANGED task
        \/ \E v : task' = [task EXCEPT ![p][p] = v]
        \/ \E q \in Player : task' = [task EXCEPT ![p][q] = Absent]
    <3>1. CASE JobStep(p)
      BY <3>1 DEF JobStep, JobCleanup, JobCreateRoster, JobCreateTask, JobDerive,
         JobActivate, JobUpdate
    <3>2. CASE TaskStep(p)
      BY <3>2 DEF TaskStep, TaskCleanup, TaskCreateEntry, TaskLookupFails, TaskPass,
         TaskPrepare, TaskLaunch, TaskGenerate, TaskProvision, TaskFinish, TaskPut
    <3>3. CASE Cluster(p)
      BY <3>3 DEF Cluster, AssignEndpoint, GeneratorEnds, ProvisionerEnds, CollectTask,
         CollectDependent
    <3>4. CASE Failure(p) /\ ~HandlerError(p)
      BY <3>4 DEF Failure, JobError, TaskError, Rewatch, Crash
    <3> QED
      BY <1>3, <3>1, <3>2, <3>3, <3>4, Untouched DEF Step
  <2>2. CASE UNCHANGED task
    BY <2>2
  <2>3. ASSUME NEW v, task' = [task EXCEPT ![p][p] = v] PROVE Same
    <3>1. ASSUME NEW q \in Player, q # p PROVE task'[p][q] = task[p][q]
      BY <2>3, <3>1, SetTask
    <3> QED
      BY <1>3, <3>1 DEF Others
  <2>4. ASSUME NEW q \in Player, task' = [task EXCEPT ![p][q] = Absent] PROVE Same
    <3>1. ASSUME NEW x \in Player
          PROVE  task'[p][x] = task[p][x] \/ task'[p][x] = Absent
      <4>1. task \in [Player -> [Player -> Status]]
        BY DEF TypeOK
      <4> QED
        BY <2>4, <4>1
    <3> QED
      BY <1>3, <3>1 DEF Others
  <2> QED
    BY <2>1, <2>2, <2>3, <2>4
<1>4. Same => \A q \in Others(Creator) : task'[Creator][q].state = "Absent"
  <2>1. Absent.state = "Absent"
    BY DEF Absent
  <2> QED
    BY <1>0, <2>1 DEF Exists
<1> HIDE DEF Same
<1>5. ASSUME p = Creator, \/ UNCHANGED job
                          \/ job' = [job EXCEPT ![p] = "Pending"],
             \/ UNCHANGED jobRec
             \/ jobRec' = [jobRec EXCEPT ![p] = JobIdle]
             \/ jobRec'[p].pc = "task"
      PROVE  Unannounced'
  <2>1. job'[Creator] \in {"", "Pending", "Running"}
    BY <1>0, <1>5
  <2>2. jobRec'[Creator].pc \in {"idle", "task"}
    BY <1>0, <1>5
  <2> QED
    BY <1>3, <1>4, <1>5, <2>1, <2>2 DEF Unannounced, Exists
<1>6. CASE p = Creator /\ JobStep(p)
  <2>1. CASE JobCleanup(p) \/ JobCreateTask(p)
    BY <1>5, <1>6, <2>1 DEF JobCleanup, JobCreateTask
  <2>2. CASE JobCreateRoster(p)
    <3>1. \/ UNCHANGED jobRec
          \/ jobRec'[p] = [pc |-> "task", live |-> TRUE, state |-> job[p]]
      BY <1>0, <2>2 DEF JobCreateRoster
    <3>2. UNCHANGED jobRec \/ jobRec'[p].pc = "task"
      BY <3>1
    <3> QED
      BY <1>5, <1>6, <2>2, <3>2 DEF JobCreateRoster
  <2>3. CASE JobDerive(p)
    <3> DEFINE seen == JobSeen(p)
    <3>1. DerivedState(p, seen.state) = "Pending"
      <4>1. d \in Player /\ ~Exists(p, d)
        BY <1>1, <1>6 DEF Others
      <4> QED
        BY <4>1 DEF DerivedState
    <3>2. \/ jobRec' = [jobRec EXCEPT ![p] = JobIdle] /\ UNCHANGED job
          \/ /\ jobRec' = [jobRec EXCEPT ![p] = JobIdle]
             /\ StatusUpdate(p, seen.live, "Pending")
      BY <2>3, <3>1 DEF JobDerive
    <3> HIDE DEF seen
    <3>3. UNCHANGED job \/ job' = [job EXCEPT ![p] = "Pending"]
      BY <1>0, <3>2 DEF StatusUpdate
    <3> QED
      BY <1>5, <1>6, <3>2, <3>3
  <2>4. ~JobActivate(p) /\ ~JobUpdate(p)
    BY <1>0, <1>6 DEF JobActivate, JobUpdate
  <2> QED
    BY <1>6, <2>1, <2>2, <2>3, <2>4 DEF JobStep
<1>7. CASE p = Creator /\ (TaskStep(p) \/ Cluster(p))
  BY <1>5, <1>7, Untouched
<1>8. CASE p = Creator /\ Failure(p) /\ ~HandlerError(p)
  <2>1. UNCHANGED job /\ (UNCHANGED jobRec \/ jobRec' = [jobRec EXCEPT ![p] = JobIdle])
    BY <1>8 DEF Failure, JobError, TaskError, Rewatch, Crash
  <2> QED
    BY <1>5, <1>8, <2>1
<1>9. ~(p = Creator /\ DeleteJob(p))
  BY <1>0 DEF DeleteJob, JobDone
<1> QED
  BY <1>2, <1>6, <1>7, <1>8, <1>9 DEF Step

LEMMA FirstInvStep ==
  ASSUME NoReplays, N >= 2, Deletable \subseteq JobDone,
         TypeOK, AllHandledGone, StartInv, FirstInv, NEW p \in Player, Step(p)
  PROVE  FirstInv'
<1>0. Creator \in Player /\ Len(inbox[Creator]) \in Nat
  BY CreatorAssumption DEF Player, TypeOK
<1>1. CASE Received(Creator)
  <2>1. Shifted(Creator, 1)
    BY <1>0, <1>1, FirstHandled
  <2>2. ASSUME NEW i \in 1 .. Len(inbox'[Creator]),
               inbox'[Creator][i].kind = "roster", inbox'[Creator][i].type = "PUT"
        PROVE  FALSE
    <3>1. i + 1 \in 1 .. Len(inbox[Creator]) /\ inbox[Creator][i + 1] = inbox'[Creator][i]
      BY <1>0, <2>1 DEF Shifted
    <3>2. i + 1 = 1
      BY <2>2, <3>1 DEF FirstInv, RosterPut
    <3> QED
      BY <3>2
  <2> QED
    BY <2>2 DEF FirstInv, RosterPut
<1>2. CASE ~Received(Creator)
  <2>1. ~(p = Creator /\ (WatchStep(p) \/ HandlerError(p)))
    BY <1>2, HandlingReceives
  <2>2. Unannounced => Unannounced'
    BY <2>1, UnannouncedStays
  <2>3. Quiet(Creator) \/ Sent(Creator)
    BY <1>0, <1>2, WatchChangeStep DEF WatchChange
  <2>4. ASSUME NEW i \in 1 .. Len(inbox'[Creator]),
               inbox'[Creator][i].kind = "roster", inbox'[Creator][i].type = "PUT"
        PROVE  i = 1 /\ Unannounced'
    <3>1. CASE i \in 1 .. Len(inbox[Creator]) /\ inbox'[Creator][i] = inbox[Creator][i]
      BY <2>2, <2>4, <3>1 DEF FirstInv, RosterPut
    <3>2. CASE Quiet(Creator)
      BY <2>4, <3>1, <3>2 DEF Quiet
    <3>3. ASSUME NEW ev, Sending(Creator, ev), ev.kind = "entry" \/ ev.type = "DELETE"
          PROVE  i \in 1 .. Len(inbox[Creator]) /\ inbox'[Creator][i] = inbox[Creator][i]
      <4>1. i # Len(inbox[Creator]) + 1
        BY <2>4, <3>3 DEF Sending
      <4>2. i \in 1 .. Len(inbox[Creator]) + 1
        BY <3>3 DEF Sending
      <4> QED
        BY <1>0, <3>3, <4>1, <4>2 DEF Sending
    <3>4. CASE \E r \in Others(Creator) : Writing(r) /\ Sending(Creator, EntryPut(r, entry'[r]))
      <4>1. PICK r : Sending(Creator, EntryPut(r, entry'[r]))
        BY <3>4
      <4>2. EntryPut(r, entry'[r]).kind = "entry"
        BY DEF EntryPut
      <4> QED
        BY <3>1, <3>3, <4>1, <4>2
    <3>5. CASE \E ev \in Event : ev.type = "DELETE" /\ Sending(Creator, ev)
      BY <3>1, <3>3, <3>5
    <3>6. CASE /\ Sending(Creator, RosterEvent("PUT")) /\ ~roster /\ job[Master] # "Absent"
      <4>1. Master \in Player
        BY NAssumption DEF Player, Master
      <4>2. Creator = Master /\ Unstarted
        BY <3>6, <4>1 DEF StartInv, Unstarted
      <4>3. inbox[Creator] = <<>> /\ Unannounced
        BY <1>0, <3>6, <4>2 DEF Unstarted, Unannounced, Others
      <4>4. Len(inbox[Creator]) = 0
        BY <4>3, EmptySeq
      <4> QED
        BY <2>2, <3>6, <4>3, <4>4 DEF Sending
    <3> QED
      BY <2>3, <3>2, <3>4, <3>5, <3>6 DEF Sent
  <2> QED
    BY <2>4 DEF FirstInv, RosterPut, Unannounced, Exists
<1> QED
  BY <1>1, <1>2

LEMMA DeletedStep ==
  ASSUME NoReplays, N >= 2, Deletable \subseteq JobDone,
         TypeOK, DeletedInv, NEW p \in Player, Step(p)
  PROVE  DeletedInv'
<1>0. /\ Creator \in Player /\ Master \in Player
      /\ AllHandledGone /\ StartInv /\ LiveInv /\ FirstInv
  BY CreatorAssumption, NAssumption DEF Player, Master, DeletedInv
<1>1. AllHandledGone'
  <2> SUFFICES ASSUME NEW q \in Player PROVE handled'[q] = 0
    BY DEF AllHandledGone
  <2>1. handled[q] = 0
    BY <1>0 DEF AllHandledGone
  <2>2. CASE Received(q)
    BY <1>0, <2>2, FirstHandled
  <2>3. CASE Quiet(q) \/ Sent(q)
    BY <2>1, <2>3 DEF Quiet, Sent, Sending
  <2> QED
    BY <2>2, <2>3, WatchChangeStep DEF WatchChange
<1>2. LiveInv' /\ (job[Creator] = "Absent" => job'[Creator] = "Absent")
  BY <1>0, GoneStays DEF LiveInv
<1>3. StartInv'
  <2>1. ASSUME Creator # Master PROVE ~roster'
    <3>1. ~roster /\ job[Master] = "Absent"
      BY <1>0, <2>1 DEF StartInv, Unstarted
    <3> QED
      BY <3>1, RosterStep DEF RosterChange
  <2>2. ASSUME ~roster', job'[Creator] # "Absent" \/ Creator # Master
        PROVE  Unstarted'
    <3>1. CASE roster
      <4>1. Creator = Master /\ job[Master] = "Absent"
        BY <1>0, <2>2, <3>1, RosterStep DEF StartInv, RosterChange
      <4> QED
        BY <1>2, <2>2, <4>1
    <3>2. CASE ~roster
      <4>1. Unstarted
        BY <1>0, <1>2, <2>2, <3>2 DEF StartInv
      <4> QED
        BY <2>2, <3>2, <4>1, UnstartedStays
    <3> QED
      BY <3>1, <3>2
  <2> QED
    BY <2>1, <2>2 DEF StartInv
<1>4. FirstInv'
  BY <1>0, FirstInvStep
<1> QED
  BY <1>1, <1>2, <1>3, <1>4 DEF DeletedInv

(* A job that was deleted after it was done stays deleted on the VCP that  *)
(* created it, for any number of VCPs but one, with restarts and failing   *)
(* calls, if no event is handled twice (handleJobUpdate, which creates a   *)
(* job for any roster event; Status().Update of a pass in progress).       *)
(* Nothing in the code ties the event of the own roster to the deletion;   *)
(* the reason is that a job gets done only after the watch has seen events *)
(* that are newer than it.                                                 *)
THEOREM DeletedJobsStayDeleted ==
  ASSUME NoReplays, N >= 2, Deletable \subseteq JobDone
  PROVE  Spec => DeletedStaysDeleted
<1> DEFINE A == job[Creator] = "Absent" => job'[Creator] = "Absent"
<1>1. Init => DeletedInv
  <2> SUFFICES ASSUME Init PROVE DeletedInv
    OBVIOUS
  <2>1. Creator \in Player
    BY CreatorAssumption DEF Player
  <2>2. /\ ~roster
        /\ \A p \in Player :
             /\ inbox[p] = <<>> /\ handled[p] = 0 /\ entry[p] = Absent
             /\ job[p] = IF p = Creator THEN "" ELSE "Absent"
             /\ jobRec[p] = JobIdle /\ taskRec[p] = TaskIdle
             /\ \A q \in Player : task[p][q] = Absent
    BY DEF Init
  <2>3. /\ JobIdle.pc = "idle" /\ ~JobIdle.live /\ TaskIdle.pc = "idle"
        /\ Absent.state = "Absent"
    BY DEF JobIdle, TaskIdle, Absent
  <2>4. Unstarted /\ AllHandledGone
    BY <2>2, <2>3 DEF Unstarted, Exists, AllHandledGone
  <2>5. StartInv /\ LiveInv
    BY <2>1, <2>2, <2>3, <2>4 DEF StartInv, LiveInv
  <2>6. FirstInv
    <3>1. Len(inbox[Creator]) = 0
      BY <2>1, <2>2, EmptySeq
    <3> QED
      BY <3>1 DEF FirstInv
  <2> QED
    BY <2>4, <2>5, <2>6 DEF DeletedInv
<1>2. TypeOK /\ DeletedInv /\ [Next]_vars => DeletedInv' /\ A
  <2> SUFFICES ASSUME TypeOK, DeletedInv, [Next]_vars PROVE DeletedInv' /\ A
    OBVIOUS
  <2>1. CASE Next
    <3>1. PICK p \in Player : Step(p)
      BY <2>1 DEF Next, Step
    <3> QED
      BY <3>1, DeletedStep, GoneStays DEF DeletedInv
  <2>2. CASE UNCHANGED vars
    BY <2>2 DEF vars, etcdVars, k8sVars, jobCtrlVars, taskCtrlVars, DeletedInv,
       AllHandledGone, StartInv, LiveInv, FirstInv, Unstarted, Unannounced, RosterPut,
       Exists
  <2> QED
    BY <2>1, <2>2
<1> HIDE DEF A
<1>3. A => (job[Creator] = "Absent" => job'[Creator] = "Absent")
  BY DEF A
<1> QED
  BY <1>1, <1>2, <1>3, TypeCorrect, PTL DEF Spec, DeletedStaysDeleted
=============================================================================
