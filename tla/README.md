# A TLA+ model of Klyshko

Klyshko generates correlated randomness ("tuples") for a virtual cloud (VC) made
of several virtual cloud providers (VCPs, "players").  Every VCP runs one
*operator* on its own Kubernetes cluster; the operators coordinate through a
shared etcd.  A tuple generation *job* consists of one *task* per player; the
task launches a correlated randomness generator (CRG) pod, then a provisioner
pod that uploads the tuple shares to the VCP's Castor service.  Once all tasks
have completed, each VCP activates the uploaded tuple chunk in its own Castor.

This directory holds the model, the TLC configurations and the machine-checked
proofs.  `PROJECT.json` maps definitions to source lines.

## 1. Inventory

| Component | State | Operations | Interacts with |
|---|---|---|---|
| job controller (`tuplegenerationjob_controller.go`, `Reconcile`) | job resource, roster key (master), owned tasks | create/delete roster, create local task, derive job state, activate, update status | etcd, API server, Castor |
| roster watch (same file, `handleWatchEvents` …) | persisted head revision, proxies of remote tasks | mirror roster and roster entries to jobs and proxy tasks | etcd, API server |
| task controller (`tuplegenerationtask_controller.go`) | local task, its roster entry, claim, service, two pods | one pass per task state; state lives in etcd | etcd, API server, pods |
| scheduler (`tuplegenerationscheduler_controller.go`) | none of its own: job list, telemetry | clean up finished jobs, bound concurrency, create jobs | API server, Castor |
| lottery strategy (`scheduling_strategy.go`) | none | pick a tuple type below its threshold | scheduler |
| etcd keys, VCP configuration, Castor client | none / config map / none | parse and format keys; read player number and count; activation and telemetry calls | all controllers |
| provisioner (`kii-provisioner-run.sh`) | none | upload the shares | Castor |
| CowGear CRG (`kii-run.sh`, `cowgear-offline.cpp`) | number of failed calls, tuple files in `Player-Data` | call the program and retry it; in it connect, generate, check MACs; copy the file | the other players' programs |
| TEE CRG, enclave (`CRG.c`, `local_attestation.c`, `server.c`, `client.c`) | `Seed`, `Player_MAC_Keys_p/2`, `other_player_number`, TLS connections | get the own MAC key shares, serve the players below, connect to the players above, become the generating command | own KII process, the other enclaves |
| TEE CRG, KII process (`KII.c`) | none | verify the own enclave, hand it the MAC key shares | enclave |
| fake CRG (`klyshko-mp-spdz/kii-run.sh`) | files | generate tuples, without any communication | none |

What is hard here: three concurrent loops per VCP (job worker, task worker,
watch goroutine) on shared resources; two replicated views (proxies of remote
tasks) that lag behind; decisions that every VCP takes on its own and that must
agree; restarts between a side effect and the write that records it; replays of
watch events after a restart; handlers whose errors are only logged; deletions
that race with events under way, without finalizers.  In the generators: every
enclave is a server for some peers and a client of others and waits for them one
by one; failed reads that are only printed, so that unread buffers are unpacked;
return codes that are cut to 8 bits on exit; players that retry on their own what
only succeeds together, and leave files behind when it does not.

Properties that make the parts correct:

* job controller: tuples are activated only if all VCPs have uploaded theirs;
  VCPs agree on the outcome; a finished job stays finished; every job ends;
* task controller: the states of a task are passed in order whatever is
  repeated; the generator is launched when and only when its peers are known and
  reachable; the volume with the tuples is kept until the upload and not leaked;
* roster watch: proxies converge to the entries they mirror, also after replays;
  a deletion removes everything everywhere and is not undone by an old event;
* scheduler: more active jobs than `concurrency`, or more tuples than the threshold
  asks for, only as far as the cached job list lacks jobs; stocks are replenished
  and finished jobs removed, whatever fails;
* TEE CRG: nobody generates without having verified all others, or tells its shares
  to somebody it has not verified; two enclaves that generate do so from the same
  seed, which both had a part in, and the same key shares; nobody waits for ever
  once all are connected; the exit status tells whether there are tuples;
* CowGear CRG: what the players deliver belongs to one session that passed the MAC
  check; retries bring the players together again, and end.

The hazards behind these are listed in `PROJECT.json`, each at its line.

## 2. Modules

| Module | Contents |
|---|---|
| `KlyshkoBase` | constants with their assumptions, all variables, statuses and events, publishing an etcd write to the watches |
| `JobController` | one pass of `TupleGenerationJobReconciler.Reconcile` |
| `TaskController` | one pass of `TupleGenerationTaskReconciler.Reconcile` |
| `RosterWatch` | `handleWatchEvents` and its handlers |
| `Klyshko` | composition, cluster (pods, load balancer, garbage collector), restarts, deletion; all properties |
| `TupleChunk` | abstract specification of a job: an atomic commitment of the VCPs; `Klyshko` implements it |
| `MCKlyshko` | values of the constants for TLC |
| `Klyshko_proofs` | type correctness; what a step can do to each part of the state, for the proofs below |
| `Klyshko_upload_proofs` | activation safety |
| `Klyshko_commit_proofs` | life cycle of entries, agreement, `Klyshko` implements `TupleChunk`, reachability, volumes |
| `Klyshko_order_proofs` | what rests on the order of events: final outcomes, endpoints of peers, proxies, deleted jobs |
| `Scheduler` | `TupleGenerationSchedulerReconciler.Reconcile` with the lottery strategy, many jobs, one Castor |
| `MCScheduler` | values of the constants for TLC |
| `Scheduler_proofs` | type correctness, concurrency bound and supply bound of the scheduler; the lottery is fair |
| `TupleTypes` | the tuple types generators are asked for |
| `TeeBase` | constants and variables of the TEE generator, environments, exit codes, seeds, messages |
| `TeeLocal` | local attestation: `local_attestation.c` and `KII.c` |
| `TeeServer` | the server role: `server.c` |
| `TeeClient` | the client role: `client.c` |
| `TeeCrg` | composition with `main` of `CRG.c`, the command, failures of pods and network; all properties |
| `ShareExchange` | abstract specification of the exchange of shares; `TeeCrg` implements it |
| `TeeCrg_proofs` | type correctness, slots, delivered tuples, order of clients; attestation between two enclaves; more than two do not generate |
| `TeeExchange_proofs` | two enclaves implement `ShareExchange` and have the same seed with a part of each; shares go only to attested enclaves |
| `MCTee` | environments for TLC |
| `CowGear` | the script and the program of the CowGear generator |
| `CowGear_proofs` | type correctness, sessions, MAC check and retries |
| `MCCowGear` | requests for TLC |

`Klyshko` composes the three components of the operator for one job on all VCPs.
`Scheduler` looks at the VCP that runs the scheduler, with many jobs, each reduced
to what `Klyshko` shows about it on that VCP: the chunk is activated, then the job
is completed, or it fails.  `TeeCrg` and `CowGear` look inside the generator pods of
all players, which `Klyshko` reduces to their end (`GeneratorEnds`).

### Abstract specifications

`TupleChunk` says what a job is: each VCP stores its shares and votes once, a chunk
is served only if all voted for it, and given up only if one voted against it.  In
the mapping (`Chunk` in `Klyshko`) the vote is the roster entry's terminal state,
"served" is Castor's activation, "given up" a failed job.  `Reconsider` is there
because a failed job can go back to running for a while when old events are
replayed; it can never end otherwise.  `core` checks the refinement; it also holds in
the instances of `restart` and `faults`, where it doubles the time TLC takes.

`ShareExchange` says what the enclaves do, without roles and connections: each
obtains its own shares, receives those of *compatible* players that have theirs
(accepted measurements on both sides, same job), generates once it has all, or
fails.  In the mapping (`Exchange` in `TeeCrg`) a player holds the shares that are
in the right slot of `Player_MAC_Keys`.

### State

In `Klyshko` one job is modelled.  `roster` and `entry[q]` are the etcd keys of the job;
`inbox[p]` is the sequence of roster events after the head revision persisted by
`p`, of which the current watch has handled `handled[p]`.  `job[p]`,
`task[p][q]`, `genPod[p]`, `provPod[p]`, `svc[p]`, `pvc[p]` are Kubernetes
objects on `p`; `task[p][q]` with `q # p` is the proxy on `p` of `q`'s task.
`orphan` and `stale` record which objects have lost their owner and wait for the
garbage collector.  `jobQ`/`taskQ` say whether the work queue of a controller
holds a request, `jobRec`/`taskRec` hold a pass that is interrupted.
`uploaded` and `activated` are Castor's view.

A task status is its state and whether an endpoint is set; pod specifications
are abstracted to `peers[p]`, the players whose endpoint the generator pod got.

In `Scheduler`, `jobs` are the job resources, `cache` the informer's copy of them,
which may be as old as it likes, `available` and `activated` Castor's view, and
`pc`, `seen`, `telemetry` the pass in progress with what it has read.  `missed` is a
history variable: the most active jobs that the list of a pass that went on has
lacked.

In the TEE modules, `env[p]` is what player `p` finds when it starts (attestation
type, libraries, quote, measurement arguments, endpoints, job, files, request);
`pc[p]` and `kii[p]` are its two processes and `status[p]` the exit status; `seed`,
`macKeys`, `other` are the globals of `vars.h`; `link[<<c, s>>]` is the connection of
client `c` to server `s` with what is under way in both directions, `backlog[s]` what
the kernel has accepted for `s` and `served[s]` what `s` has.  `attested` is a history
variable.  `launched[p]` is the command `p` has become.

In `CowGear`, `count[p]` counts failed calls as `retry` does, `session[p]` is the
joint session `p`'s program is in, `files[p]` the tuple files, and `reached` who has
taken part in which session's MAC check.

### Granularity

controller-runtime runs one worker per controller, so a VCP has at most one pass
of each controller in progress.  A pass is split into actions where it writes to
etcd, to Castor, or to the job's status; what it has read before is kept in
`jobRec` or `taskRec`, so that other actors act in between on newer state.  A
status update of a job that was deleted and created again in the meantime fails
(`live`).  Updates of status by a stale resource version can otherwise not occur
since only the job controller writes the status of a job.

The steps of an enclave end where it waits for, or sends to, somebody else: setup,
accept with handshake, and each read or write.  A handshake is one step of both
sides, and a client that is refused by the server may or may not have finished its
own side.  Only a client's first connection has one: `client.c` initialises its TLS
context once (line 183) and sets it up again for every server (504) without the reset
that `server.c` has (517), so from the second server on the library takes the
handshake as done (523), and the verify result (555) is that of the first server.  As
every client begins with the last player (`FirstServer`), the servers below it get a
first record that is no handshake message, and end (`UNEXPECTED_MESSAGE`).

| Action | Code |
|---|---|
| `JobCleanup`, `JobCreateRoster`, `JobCreateTask` | job `Reconcile`: resource not found; roster missing; local task missing |
| `JobDerive`, `JobActivate`, `JobUpdate` | job `Reconcile`: derived state, activation, status update |
| `TaskCleanup`, `TaskCreateEntry`, `TaskLookupFails` | task `Reconcile`: task deleted; entry missing; job gone |
| `TaskPrepare` … `TaskFinish` | the `switch` over the task's state |
| `TaskPut` | `setStatus` |
| `RemotePut`, `RemoteDelete` | `handleRemoteTaskUpdate` |
| `JobPut`, `JobDelete` | `handleJobUpdate` |
| `JobError`, `TaskError`, `HandlerError`, `Rewatch` | the error returns of the passes and of the watch loop |
| `AssignEndpoint`, `GeneratorEnds`, `ProvisionerEnds`, `CollectTask`, `CollectDependent` | Kubernetes (external) |
| `Crash` | restart of the operator process: queues are filled again by the informers' initial lists |
| `DeleteJob` | `cleanupFinishedJobs`, or a user |
| `cleanupFinishedJobs`, `CleanupFails`, `ListActiveJobs`, `GetTelemetry`, `Schedule`, `PassFails` | scheduler `Reconcile`, split at its reads and writes |
| `Activate`, `Complete`, `Fail` | what the job controller does, as seen by the scheduler |
| `Expire`, `Sync`, `Consume` | time, informer cache, consumers of tuples (external) |
| `Start`, `Launch` | `main` of `CRG.c`, before and after the roles |
| `LocalSetup`, `LocalHandshake`, `LocalRead` | `local_attestation` |
| `KiiSetup`, `KiiConnect`, `KiiSend` | `main` of `KII.c` |
| `ServerSetup`, `ServerHandshake`, `ServerReadInfo`, `ServerSendShare`, `ServerReadShare` | `server.c` |
| `ClientSetup`, `ClientEndpoint`, `ClientConnect`, `ClientHandshakeLost`, `ClientSendInfo`, `ClientReadShare`, `ClientSendShare`, `ClientAddShare` | `client.c` |
| `Kill`, `Break` | a pod is killed, a connection breaks |
| `Prepare`, `Call`, `Copy` | CowGear's `kii-run.sh` |
| `Connect`, `ConnectFails`, `Open`, `Write`, `Check`, `Abort` | `cowgear-offline.cpp` |
| `Fault` | a call of the program fails by itself |

### Abstractions

* In `Klyshko`, reads of Kubernetes objects see the API server; lag of informer
  caches is not modelled there (what a pass has read is, see above).  It is in
  `Scheduler`, whose decisions depend on it most.
* A scheduler has at most one policy per tuple type, a generator lists a type at
  most once, and Castor reports every type once.  Policies and generators do not
  change.
* A watch skips the events of its own roster entry, so these are not put into
  its inbox.  Persisting the head revision (`setHeadRevision`) is merged into the
  handling of the last event of a response; where a restart or a failing call is
  possible, an event may also be handled without the head being persisted.
* Requeue delays, exponential backoff and timestamps are not modelled: a request
  in a queue may be handled at any time.
* Claims disappear when they are deleted (no protection finalizers).
* Invalid VCP configurations make a pass fail before it changes anything and are
  left out.
* TEE: a pair of MAC key shares (for `p` and for 2) is the number of its player.  A
  seed is how often each player's random value has been added to it, modulo
  `SeedModulus` (2^64 in the code); adding is all the code does with seeds.  A host is
  the number of its characters; endpoints always have a port.
* TEE: what an unread buffer unpacks to is undefined; `JunkParses` says whether it may
  be a message (`Junk`) or is none.  Reads and writes past the end of `Seed` and
  failing library calls end the process (`LibraryFails`).
* TEE: TLS is external, and its source is not in the repository.  A verify callback
  that fails is fatal although verification is optional, since its code is not a
  verification result; a context that is set up again without a reset is still in
  the state after its handshake.  Both rest on mbedTLS's known behaviour.
* TEE: no read has a timeout.  A connection either works or is seen to be gone by both
  ends; a network that loses packets for ever without an error is left out.
* `server.c` (635-639) repeats the close notification after wrong details as long as it
  fails.  On a connection that is gone the enclave stays in this loop (`srv_close`,
  which no step leads out of); a wrong message it read in time may still be answered.
* CowGear: MP-SPDZ's sessions are external: they begin with all players, need all of
  them in every step, and break for all when one is gone.  Delays between calls are
  not modelled.

Definitions named `Op_Variant` are faulty variants of the operator that follows
them.  No action uses them; each shows that a property notices the fault.

## 3. Runs

`tlc -config <cfg> MCKlyshko`, or `MCScheduler`, `MCTee`, `MCCowGear` for the others.

| Run | Instance | Shows |
|---|---|---|
| `core` | 2 VCPs, pods may fail, no operator failures (247k states) | all interleavings end with a final outcome on both VCPs (`JobsTerminate`, `DoneIsFinal`); the VCPs implement `TupleChunk` (`CommitsAtomically`); generators get all endpoints (`GeneratorKnowsPeers`); `TypeOK` |
| `restart` | + a restart of the master's operator, up to two events replayed (2.0M states) | `ActivatedImpliesAllUploaded`, `OutcomeAgreement`, `ProxiesConverge`, `LaunchedWhenReachable`, `TuplesKept`, `EntryLifecycle` |
| `restart_live` | + a restart of the other VCP's operator (405k states) | `ActivationSpreads`: activation on one VCP is followed by activation on all |
| `faults` | + one failing call on the other VCP (1.7M states) | `UploadInv`, `OutcomeAgreement`, `EntryLifecycle`: a job may get stuck, but nothing is reported that did not happen, and the VCPs agree |
| `deletion` | deletion of the finished job (231k states) | `DeletionCleansUp`, `DeletedStaysDeleted` |
| `scheduler` | 2 slots, 3 job identifiers, 3 tuple types, one of which has two generators; a failing job, a failing call or a tuple consumed; the cache lags by any number of changes (1.37M states) | `ConcurrencyRespected`, `NotOverproduced`: a pass overruns the level and the thresholds by no more than its list has missed, although it decides on two reads at different times; `TicketsMatchPriorities` (the lottery against its reference, for all iteration orders); `EventuallyReplenished`, `FinishedJobsRemoved` |
| `tee_pair` | 2 enclaves, one of them with any of 16 faulty set-ups, or all tuple types; 2 failures (20k states) | `ExchangesShares`: the enclaves implement `ShareExchange`; `SameRandomness`: same seed and keys; `EveryoneContributes`: with a part of both; `AttestedBeforeGenerating`; `DeliversWhatItGenerates`: option, counts and file agree for all types; `EveryoneGenerates`, without failures; `WaitsOnlyToConnect`: an enclave hangs only in `accept`, in `connect` and in the loop around the close notification |
| `tee_three` | 3 enclaves, so that a client has a second server; refused or in another job; unread buffers may unpack; 2 failures (95k states) | `SharesOnlyToAttested`: also where the handshake is skipped; `ClientsInOrder`, `SlotsFilledOnce` |
| `cowgear` | 3 players, 3 calls each, 3 failures (394k states) | `SameSession`, `DeliversChecked`, `RetriesSuffice`, `EveryoneEnds` |

### Disagreements between the code and what it says

Three runs end in a counterexample; each is a finding in `PROJECT.json`.

* `generator_peers`: after a restart a replayed event takes the endpoint away
  from a proxy while the task is launching.  `createGeneratorPod` counts tasks
  instead of endpoints, and the pod is created without that peer's endpoint.
* `tee_exit_code`: the code of a refused certificate, -0x3000, has the low byte 0.
  The enclave that refuses its peer exits with status 0 and without tuples.
* `tee_hostname`: an endpoint whose host does not fit a buffer made for IP addresses
  leaves each role with return code 0, and `main` generates without attestation.

Other observations, for which there is no run; each follows from the model with the
constants given.

* A job created on a VCP other than the master never starts (`Creator = 1`:
  `JobsTerminate` fails in `core`).
* A job deleted before the master's watch has seen its own roster event is created
  again by that event (`N = 1`, `MaxDeletes = 1`, `Deletable = {"", "Pending"}`:
  `DeletionCleansUp` fails).
* Without finalizers a restart between deletion and clean-up leaves the roster entry
  in etcd for ever (`N = 1`, `MaxDeletes = MaxCrashes = 1`: the same).
* The claim of a completed task stays if the master deletes the job before the other
  VCP's last pass over the task (`deletion`: claims are not part of `Clean`).
* A pass of the scheduler that starts before the informer cache has the job of the
  previous pass exceeds the concurrency level, and may create a second batch for the
  same shortage: with `missed` left out, `ConcurrencyRespected` and `NotOverproduced`
  fail.  Nothing in `Reconcile` waits for the cache.
* After a restart that replays two events a failed job goes back to running until the
  events are handled again (`DoneIsFinal` fails in `restart`).
* With three or more players no enclave generates (theorem `OnlyPairsGenerate`), since
  player 0's second connection has no handshake (see Granularity).  The generator is
  documented for "Two VCPs", and its `kii-run.sh` refuses players other than 0 and 1.
* A buffer that nothing was read into is unpacked.  Should it unpack, an enclave may
  generate from a seed the other player had no part in (`tee_pair` with
  `JunkParses = TRUE`: `EveryoneContributes` and `SameRandomness` fail).
* After wrong details on a connection that is gone, a server enclave never ends
  (`WaitsOnlyToConnect` without `srv_close` fails in `tee_pair`).

### Bounds

* `N = 2`: the smallest instance with a remote player.  Three players exceed what
  TLC can enumerate; the theorems hold for all `N`.
* `MaxInbox = 12`: more events than a job without failures publishes to one
  player, so no write is ever blocked by it in these runs.
* `MaxCrashes`, `MaxFaults` and `MaxDeletes` are 0 or 1; `MaxUnacked` (events
  handled again after a restart) 1 or 2.  `Flaky` names the VCP that fails: the
  master, which owns the roster, in `restart`; the other one, which depends on it,
  in `restart_live` and `faults`.
* `Deletable` restricts the states in which the job is deleted.  A deletion at any
  time lets the master's watch create the job again (see above).
* `Scheduler` reuses job identifiers once a job is gone; `IdAvailable` keeps a pass
  from starting when none is or becomes free, which is only a matter of time.
  `MaxSetbacks = 1` bounds what disturbs the scheduler: one failing call, failing job
  or tuple consumed, at any point.  Cache lag is not bounded.
  Thresholds and batch sizes are chosen so that three jobs are needed for two
  slots, and the last batch of a type exceeds its threshold.
* TEE: three enclaves are the fewest with a client that has two servers, with a player
  that has both roles, and with a
  server that has an order of clients to insist on; two are what `kii-run.sh` supports.
  Faulty set-ups are enumerated one player at a time with two enclaves, the two that
  get as far as the peer with three.  `MaxFaults = 2`: a failure, and one more while
  the others react to it.  `SeedModulus` (16 with
  three enclaves, 8 with two) exceeds every count that occurs, as 2^64 does; the
  theorems hold for every modulus.
* CowGear: `Retries = 3` instead of 5, so that failures up to and at the limit fit
  into a run; `MaxFaults = 3` lets one player use up its calls.

Deadlock is checked in `core`, `restart`, `restart_live` (a finished task retries
the deletion of its claim for ever, so the system never stops) and switched off
where a lost event may leave a job stuck and where a deletion leaves nothing to
do.  A scheduler never stops, so it is checked there, too.  Generators end, so for
them it is off, and `WaitsOnlyToConnect`, `EveryoneGenerates` and `EveryoneEnds` say
where they may stop instead.

### Fairness

`FairSpec` assumes weak fairness of each process of each VCP: the two workers and
the watch goroutine run as long as the operator does, and Kubernetes assigns
endpoints, runs pods to their end and collects garbage.  The violation runs use
it, so that their counterexamples are not due to a process that stands still.
The liveness properties that hold are checked under the weaker `ProgressSpec`:
some process with work to do takes a step, no matter which.  Restarts, failing
calls and deletions are never fair.

For the scheduler: the worker's passes (each pass ends with a request for the next
one), the informer, some job that can go on, and the clock.  The lottery needs no fairness, since a
type that has reached its threshold takes no more part in it.

For the generators: weak fairness of each enclave, each KII process, each CowGear
script with its program, and of `Connect` (all programs are waiting for each other in
MP-SPDZ's connection set-up).  They are single processes that the operating system
runs.  Failures (`Kill`, `Break`, `Fault`, the failing alternatives bounded by `MaxFaults`) are
bounded, and no fairness makes them happen where the process has another step.

## 4. Proofs

TLAPS checks all of them.  They hold for all bounds, from the named assumptions of the
modules that declare the constants; and, unless an assumption is mentioned, for every
number of players and with all failures, restarts, replays and deletions.

| Theorem | Property | Further assumption |
|---|---|---|
| `TypeCorrect` | `Klyshko!TypeOK` | |
| `ReportsFollowUploads`, `ActivationSafe` | `UploadInv`, `ActivatedImpliesAllUploaded` | |
| `EntriesFollowLifecycle` | `EntryLifecycle` | |
| `OutcomesAgree` | `OutcomeAgreement` | `MaxDeletes = 0` |
| `CommitmentImplemented` | `CommitsAtomically` (refinement of `TupleChunk`) | `MaxDeletes = 0` |
| `GeneratorsReachable` | `LaunchedWhenReachable` | `MaxDeletes = 0` |
| `VolumesKept` | `TuplesKept` | `MaxDeletes = 0` |
| `DoneJobsStayDone` | `DoneIsFinal` | `MaxDeletes = 0`, `NoReplays` |
| `GeneratorsKnowPeers` | `GeneratorKnowsPeers` | `MaxDeletes = 0`, `NoReplays` |
| `ProxiesCatchUp` | `ProxiesConverge` | `MaxDeletes = 0`, `MaxFaults = 0` |
| `DeletedJobsStayDeleted` | `DeletedStaysDeleted` | `Deletable` ⊆ `JobDone`, `NoReplays`, `N >= 2` |
| `SchedulerTypeCorrect` | `Scheduler!TypeOK` | |
| `ConcurrencyBound` | `ConcurrencyRespected` | |
| `SupplyBound` | `NotOverproduced` | |
| `LotteryIsFair` | `TicketsMatchPriorities` | |
| `CowGearTypeCorrect` | `CowGear!TypeOK` | |
| `DeliveriesMatch`, `DeliveriesChecked` | `SameSession`, `DeliversChecked` | |
| `FewFaultsAreSurvived` | `RetriesSuffice` | |
| `TeeTypeCorrect` | `TeeCrg!TypeOK` | |
| `SlotsAreFilledOnce` | `SlotsFilledOnce` | |
| `DeliversTheTuples` | `DeliversWhatItGenerates` | |
| `SharesStayWithAttested` | `SharesOnlyToAttested` | |
| `ClientsComeInOrder` | `ClientsInOrder` | `HostsFit` |
| `AttestationIsComplete` | `AttestedBeforeGenerating` | `HostsFit`, `N = 2` |
| `OnlyPairsGenerate` | (nobody generates) | `HostsFit`, not `JunkParses`, `N > 2` |
| `ExchangeImplemented` | `ExchangesShares` (refinement of `ShareExchange`) | `HostsFit`, not `JunkParses`, `N = 2` |
| `EveryoneHasAPart` | `EveryoneContributes` | `HostsFit`, not `JunkParses`, `N = 2` |
| `PairRandomness` | `SameRandomness` | `HostsFit`, not `JunkParses`, `N = 2` |

### Assumptions

* `MaxDeletes = 0`: the job is not deleted while it is looked at.  A deletion takes the
  evidence away (entries, proxies, volumes), and an old event may create the job
  again, so these properties are about the jobs nobody deletes.  The scheduler only
  deletes jobs that are done.
* `NoReplays`: `MaxUnacked = 0`, or neither restarts nor failing calls, so that no event is
  handled twice.  With replays the two properties about jobs that are kept are false
  (`generator_peers`, and the observation on `DoneIsFinal`); the theorems say that nothing
  else breaks them.  The same goes for `DeletedStaysDeleted`: in `deletion` with
  `Flaky = {0}`, `MaxCrashes = 1` and `MaxUnacked = 9`, a restart after the deletion has the
  roster event handled again.
* `Deletable` ⊆ `JobDone` and `N >= 2` for deleted jobs: the scheduler deletes jobs that are
  done; a user may delete others, and the observation above is what happens then.  A
  VCP on its own can be done before its watch has seen its own roster event.
* `MaxFaults = 0` for the proxies: a handler that fails is only logged, and its event is
  lost.  Restarts and replays are allowed.
* `HostsFit`: in all environments the hosts fit the client's buffer, the smaller one.
  `tee_hostname` shows what happens otherwise.
* Not `JunkParses`: a buffer nothing was read into does not unpack to a message.  It is
  what the code relies on, since a failed read is only printed.
* `N = 2` for attestation, exchange and seeds: the number of players the generator is
  made for.  With more, nobody generates (`OnlyPairsGenerate`), so that the statements
  about generating enclaves would be empty.

### Arguments

`TypeOK` is inductive in `Klyshko` and `Scheduler`.

*Activation.*
`ActivatedImpliesAllUploaded` is not inductive: the job controller activates
because of what its tasks say, which are copies of what etcd said when the event
was published.  `UploadInv` follows the word "Completed" back along its way, one
conjunct for every place it can rest: a job pass about to activate
(`ActivatesUploaded`), tasks and proxies (`TasksUploaded`), events under way or to
be replayed (`EventsUploaded`), roster entries (`EntriesUploaded`), a task pass
about to write (`WritesUploaded`), and the provisioner pod (`PodsUploaded`), whose
success is the upload.  Since nothing ever resets `uploaded`, replays and stale
copies do no harm.  The proof has one lemma per conjunct, with one step per group
of actions.

*Steps.*  The later proofs do not go through the thirty actions again: the second half
of `Klyshko_proofs` says once, for each variable, how a step can change it.

*Life cycle and commitment.*  A task pass decides on a status from an entry it has
read and writes it later.  `WritesFollow` says that the decision still follows the
entry when it is written, because nobody but that pass writes the entry; this gives
`EntryLifecycle`.  `KeptInv` says that nothing is collected or deleted.  On top of it
`CommitInv` follows both verdicts as `UploadInv` follows one: what tasks, proxies and
events say about a terminal state is what the entry says, for good, since verdicts
never change.  Hence all VCPs derive the same outcome from their own copies, at
whatever time they look, and each step of `Klyshko` is a step of `TupleChunk` or
changes nothing in it.  `Klyshko_commit_proofs!LaunchInv` does the same for endpoints
and volumes.

*Order of events.*  Without replays the events about one player are ordered as the
entry's states are (`EventsOrdered`) and the proxy is behind all of them
(`EventsAhead`); so a proxy never goes back, which is what finality and the endpoints
of the peers need.  With replays the proxy may go back, but `ConvergeInv` says that
the last event about a player carries its entry's value, also if it is handled twice:
once all are handled, the proxy is up to date.

*Deletion.*  `handleJobUpdate` creates a job for any roster event, so a deleted job stays
deleted only if no such event is left.  `DeletedInv` says that the roster is created
once and before everything else (`StartInv`), so that its event is the first one the
creator's watch handles; that the job cannot be done as long as it is not handled,
since there is a VCP whose task the creator does not know yet (`FirstInv`); and that a
pass whose job was deleted knows that its update will fail (`LiveInv`).

*Scheduler.*  The bounds say that an overrun is never more than what a list has missed:
passes with a lagging cache do not add up.  `ConcurrencyInv` adds what a pass knows
(`SeenCovers`): the list it has read lacks at most `missed` active jobs, because jobs only
cease to be active while the pass runs, and it has fewer than `Concurrency` jobs.
`SupplyInv` needs the order of the two reads: jobs are listed before the telemetry is
fetched, so a job that is activated in between is counted twice rather than not at all,
and what the pass has read falls short of the supply by at most one batch for each job
missed (`SupplyRead`).

*Lottery.*  What a fold computes needs induction over data.  The library's induction
theorems take an operator, which the provers cannot instantiate, but the existence
of minimal elements (`WFMin`) takes a set: so the lemmas about sums (`SumsAgree`,
`SumRemove`) and about the tickets of the first types of an order (`TicketsGrow`) look
at a smallest counterexample and refute it.  With them the tickets won by a type are an
interval as long as its priority (`WinnerFacts`).

*CowGear.*  `CallsInv` ties the number of failed calls to the sessions there have been:
a player that is in no session has failed in all of them, one that is in a session has
failed in all but this one.  So once somebody has succeeded there is no later
session, since it would need all players (`SuccessInv`), and what is delivered belongs
to the same one.  For the retries, `FaultsInv` counts for each player its failed calls
and the one it is about to notice: as long as nothing is decided these are not more
than the faults, because a broken session costs each player one call and nobody
else opens a new one without it.

*TEE enclaves.*  `ProtocolInv` describes one connection as both ends and the wire see
it (`RoleInv`, `BacklogInv`, `ChannelInv`, `ReadInv`), and which slots are still empty
(`SlotInv`).  `Outcomes` reduces the actions to a few kinds of steps, and `PlayerStep`
says what each of them means for any one player.  `ProtocolInv` alone gives the type
and the slots, for all set-ups.  For hosts that fit, `FirstInv` says that player 0 is the
first client of every server, and that the players between the first and the last one
never become clients: player 0 comes to them without a handshake.  So a client that is
first in a backlog is the one that is due.  For two players `AttestedInv` adds whom an
enclave has attested at each point; for more, `StuckInv` says that no enclave gets as far
as launching: the last player waits for a second client, which never comes, and player 0
gets no share from its second server.

*Exchange of shares.*  `ExchangeInv` follows the shares from one player to another, as
`UploadInv` does with reports: those under way (`Sent`) are those of the sender
(`GenuineInv`), are only under way between compatible players and from one that has its
own (`CompatibleInv`), and an enclave has the shares of all it has attested, but for the
peer it talks to (`FilledInv`, with `HeardInv`).  Each step is then a step of
`ShareExchange` or changes nothing in it.

*Who is told.*  `TrustInv` holds for any number of players: whoever a server serves, and
the first server of a client, is attested; from later servers a client hears nothing, and
since it reads before it writes, it has shares to tell only when the connection is gone.

*Seeds.*  `PairInv` says for two players what each seed is at each point: the own
value, or the sum of both.

### Only model-checked

Liveness, since fairness and `ENABLED` are outside the prover's reach: `JobsTerminate`,
`ActivationSpreads`, `DeletionCleansUp`, `EventuallyReplenished`, `FinishedJobsRemoved`,
`WaitsOnlyToConnect`, `EveryoneGenerates`, `EveryoneEnds`.  All other properties of the
passing runs are proved, under the assumptions listed above.

## 5. Not modelled

* The fake CRG: a sequential script of one player that ends in success or failure,
  which is all `Klyshko` needs of it; the tables it has are those of the others.
* Inside of libraries: attestation and sealing, TLS, protobuf beyond what comes out of
  a message, the offline protocol of MP-SPDZ.
* Deep copies generated for the resources, deployment and build scripts, start-up
  wiring of `main.go`.
* Contents of pod specifications other than the endpoints; logging; wording.
* The Gramine manifests, which fix what an enclave may read and write.

## 6. Plan

1. Revision numbers of the roster watch (`getNextRevision`, `setHeadRevision`):
   the position in the stream as it is computed from response headers, shown to
   implement the cursor of `RosterWatch`.
2. Parsing and formatting of etcd keys.
