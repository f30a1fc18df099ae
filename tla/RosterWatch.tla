---------------------------- MODULE RosterWatch ----------------------------
(***************************************************************************)
(* The goroutine of a VCP that watches the roster in etcd and mirrors it   *)
(* to local resources: handleWatchEvents and its handlers.  Events are     *)
(* handled in order.  After the events of a watch response the head        *)
(* revision is persisted; a new watch starts after the persisted head, so  *)
(* that events handled since are handled again.  Definitions with a suffix *)
(* (Op_Variant) are faulty variants; no action uses them.                  *)
(***************************************************************************)
EXTENDS KlyshkoBase

Pending(p) == handled[p] < Len(inbox[p])
NextEvent(p) == inbox[p][handled[p] + 1]

(***************************************************************************)
(* An event has been handled.  Either the head revision is persisted after *)
(* it (setHeadRevision, at the end of a watch response), or it is not yet: *)
(* that makes a difference only if the watch is to be started again.       *)
(***************************************************************************)
Consume_KeepCursor(p) ==
  /\ inbox' = [inbox EXCEPT ![p] = SubSeq(@, handled[p] + 2, Len(@))]
  /\ handled' = [handled EXCEPT ![p] = @ + 1]
Consume_HeadTooHigh(p) ==
  /\ inbox' = [inbox EXCEPT ![p] = <<>>]
  /\ handled' = [handled EXCEPT ![p] = 0]
Consume(p) ==
  \/ /\ inbox' = [inbox EXCEPT ![p] = SubSeq(@, handled[p] + 2, Len(@))]
     /\ handled' = [handled EXCEPT ![p] = 0]
  \/ /\ p \in Flaky /\ handled[p] < MaxUnacked
     /\ crashes < MaxCrashes \/ faults < MaxFaults
     /\ handled' = [handled EXCEPT ![p] = @ + 1]
     /\ UNCHANGED inbox

Arrived(p, kind, type) ==
  Pending(p) /\ NextEvent(p).kind = kind /\ NextEvent(p).type = type

(* handleRemoteTaskUpdate, PUT: update the proxy of a remote task, or      *)
(* create one, whose state is Preparing whatever the event says.  Without  *)
(* the job the event is dropped.                                           *)
ProxyStatus(p, q, value) == IF Exists(p, q) THEN value ELSE JustPreparing

RemotePut(p) ==
  /\ Arrived(p, "entry", "PUT")
  /\ Consume(p)
  /\ LET q == NextEvent(p).player
     IN  task' = IF job[p] = "Absent" THEN task
                 ELSE [task EXCEPT ![p][q] = ProxyStatus(p, q, NextEvent(p).value)]
  /\ TaskEvents(p)
  /\ UNCHANGED <<roster, entry, job, orphan, podVars, jobRec, taskRec,
                 castorVars, budgetVars>>

(* handleRemoteTaskUpdate, DELETE: delete the proxy if it exists. *)
RemoteDelete(p) ==
  /\ Arrived(p, "entry", "DELETE")
  /\ Consume(p)
  /\ LET q == NextEvent(p).player
     IN  /\ task' = [task EXCEPT ![p][q] = Absent]
         /\ orphan' = [orphan EXCEPT ![p] = @ \ {q}]
  /\ TaskEvents(p)
  /\ UNCHANGED <<roster, entry, job, podVars, jobRec, taskRec,
                 castorVars, budgetVars>>

(* handleJobUpdate, PUT: create the job unless it exists. *)
createJobIfNotExists(p) ==
  /\ job' = [job EXCEPT ![p] = IF @ = "Absent" THEN "" ELSE @]
  /\ jobQ' = [jobQ EXCEPT ![p] = @ \/ job[p] = "Absent"]
JobPut(p) ==
  /\ Arrived(p, "roster", "PUT")
  /\ Consume(p)
  /\ createJobIfNotExists(p)
  /\ UNCHANGED <<roster, entry, task, orphan, podVars, jobRec,
                 taskCtrlVars, castorVars, budgetVars>>

(* handleJobUpdate, DELETE: delete the job if it exists. *)
JobDelete_AsPut(p) ==
  /\ Arrived(p, "roster", "DELETE")
  /\ Consume(p)
  /\ createJobIfNotExists(p)
  /\ UNCHANGED <<roster, entry, task, orphan, podVars, jobRec,
                 taskCtrlVars, castorVars, budgetVars>>
JobDelete(p) ==
  /\ Arrived(p, "roster", "DELETE")
  /\ Consume(p)
  /\ \/ job[p] # "Absent" /\ RemoveJob(p)
     \/ job[p] = "Absent" /\ UNCHANGED <<job, orphan, jobRec, jobQ>>
  /\ UNCHANGED <<roster, entry, task, podVars, taskCtrlVars, castorVars,
                 budgetVars>>

(* A handler fails: the error is logged and the event is not handled again *)
(* unless the watch is re-established.  A proxy may have been created      *)
(* before its status could be set.                                         *)
HandlerError(p) ==
  /\ Pending(p) /\ MayFail(p)
  /\ faults' = faults + 1
  /\ Consume(p)
  /\ \/ UNCHANGED task
     \/ /\ Arrived(p, "entry", "PUT") /\ job[p] # "Absent"
        /\ ~Exists(p, NextEvent(p).player)
        /\ task' = [task EXCEPT ![p][NextEvent(p).player] = NoStatus]
  /\ TaskEvents(p)
  /\ UNCHANGED <<roster, entry, job, orphan, podVars, jobRec, taskRec,
                 castorVars, crashes, deletes>>

(* The watch fails, or the head revision cannot be stored: a new watch     *)
(* starts from the head stored last.                                       *)
Rewatch(p) ==
  /\ handled[p] > 0 /\ MayFail(p)
  /\ faults' = faults + 1
  /\ handled' = [handled EXCEPT ![p] = 0]
  /\ UNCHANGED <<roster, entry, inbox, k8sVars, jobCtrlVars, taskCtrlVars,
                 castorVars, crashes, deletes>>

WatchStep(p) ==
  RemotePut(p) \/ RemoteDelete(p) \/ JobPut(p) \/ JobDelete(p)

=============================================================================
