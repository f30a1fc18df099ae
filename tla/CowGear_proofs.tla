--------------------------- MODULE CowGear_proofs ---------------------------
(***************************************************************************)
(* Proofs about the CowGear generator, for all numbers of players, of      *)
(* retries and of faults, and all requests: type correctness, in           *)
(* particular the bound on the number of sessions; that the players        *)
(* deliver from one session, and only what a complete MAC check has        *)
(* covered; and that only as many faults as there are retries make a       *)
(* player give up.                                                         *)
(***************************************************************************)
EXTENDS CowGear, TLAPS

Known == request.type # UnknownType
Waiting == {"start", "call", "connect"}
Succeeded == {"copy", "delivered"}

\* The file the player would copy now.
Output(p) == {f \in files[p] : f.name \in tupleFileByType(request.type)}

\* A player that is not in a session has failed in all that there were, one
\* that is in a session has failed in all but this one, which is the latest.
CallsInv ==
  /\ request \in RequestType
  /\ \A p \in Players :
       /\ pc[p] \in Waiting => session[p] = None /\ sessions <= count[p]
       /\ pc[p] \in InSession =>
            session[p] = sessions /\ 1 <= sessions /\ sessions <= count[p] + 1
       /\ pc[p] \in Waiting \cup InSession => count[p] < Retries
       /\ pc[p] \in InSession \cup {"connect"} => Known

\* From its opening on, the output is the one of the player's session; it is
\* complete once it has been written.
OutputInv ==
  Known => \A p \in Players :
    /\ pc[p] \in {"open", "check"} \cup Succeeded =>
         Output(p) # {} /\ \A f \in Output(p) : f.session = session[p]
    /\ pc[p] \in {"check"} \cup Succeeded => \A f \in Output(p) : f.complete

\* A call succeeds only in the latest session, when all have reached its MAC
\* check.  Nothing is delivered before.
SuccessInv ==
  \A p \in Players :
    /\ Known /\ pc[p] \in Succeeded =>
         session[p] = sessions /\ \A q \in Players : <<q, sessions>> \in reached
    /\ delivered[p] # {} =>
         Known /\ pc[p] = "delivered" /\ delivered[p] \subseteq Output(p)

\* Until somebody succeeds or gives up, a player's failures, with the one
\* that it is about to notice, are not more than the faults.
Broken(p) == pc[p] \in InSession /\ \E q \in Players : session[q] # session[p]
Undecided ==
  /\ Known
  /\ \A q \in Players : request.params[q] /\ pc[q] \notin Succeeded \cup {"exited"}
FaultsInv ==
  Undecided => \A p \in Players :
    count[p] <= faults /\ (Broken(p) => count[p] + 1 <= faults)

RetryInv == TypeOK /\ CallsInv /\ OutputInv /\ SuccessInv /\ FaultsInv /\ RetriesSuffice

\* The script copies the file that the program writes, for every type.
LEMMA NamesAgree ==
  ASSUME NEW type \in TupleTypes, NEW args \in argsByType(type)
  PROVE  get_filename(args) \in Names /\ tupleFileByType(type) = {get_filename(args)}
<1>1. type # UnknownType BY DEF TupleTypes, Kinds, UnknownType
<1>2. type.kind \in Kinds /\ type.field \in Fields BY DEF TupleTypes
<1> QED BY <1>1, <1>2 DEF argsByType, tupleFileByType, get_filename, Names, Kinds

\* What is common to all ways a call can fail.
LEMMA FailureStep ==
  ASSUME TypeOK, CallsInv, NEW p \in Players, CallFails(p),
         pc[p] \in InSession \cup {"call", "connect"}
  PROVE  /\ pc' \in [Players -> InSession \cup {"start", "call", "connect", "copy",
                                                "delivered", "exited"}]
         /\ count' \in [Players -> 0 .. Retries]
         /\ session' \in [Players -> 0 .. sessions]
         /\ \A q \in Players : q # p =>
              pc'[q] = pc[q] /\ count'[q] = count[q] /\ session'[q] = session[q]
         /\ count'[p] = count[p] + 1 /\ session'[p] = None
         /\ \/ pc'[p] = "call" /\ count'[p] < Retries
            \/ pc'[p] = "exited" /\ count'[p] = Retries
<1>1. count[p] \in 0 .. Retries /\ count[p] < Retries
  BY DEF TypeOK, CallsInv, Waiting
<1>2. AfterFailure(p) \in {"call", "exited"}
  BY DEF AfterFailure
<1>3. sessions \in Nat BY CowGearAssumption DEF TypeOK
<1>4. count' \in [Players -> 0 .. Retries]
  BY <1>1, CowGearAssumption DEF TypeOK, CallFails
<1>5. pc' \in [Players -> InSession \cup {"start", "call", "connect", "copy",
                                          "delivered", "exited"}]
  BY <1>2 DEF TypeOK, CallFails
<1>6. session' \in [Players -> 0 .. sessions]
  BY <1>3 DEF TypeOK, CallFails, None
<1>7. \A q \in Players : q # p =>
        pc'[q] = pc[q] /\ count'[q] = count[q] /\ session'[q] = session[q]
  BY DEF TypeOK, CallFails
<1>8. count'[p] = count[p] + 1 /\ session'[p] = None /\ pc'[p] = AfterFailure(p)
  BY DEF TypeOK, CallFails
<1> QED BY <1>1, <1>4, <1>5, <1>6, <1>7, <1>8, CowGearAssumption DEF AfterFailure

\* The steps in which a call fails.
LEMMA FailingSteps ==
  ASSUME NEW p \in Players, ConnectFails(p) \/ Abort(p) \/ Fault(p)
  PROVE  /\ CallFails(p) /\ pc[p] \in InSession \cup {"call", "connect"}
         /\ UNCHANGED <<request, sessions, reached, files, delivered>>
BY DEF ConnectFails, Abort, Fault

LEMMA TypeStep ==
  ASSUME TypeOK, CallsInv, [Next]_vars
  PROVE  TypeOK'
<1> USE CowGearAssumption
<1>1. ASSUME Connect PROVE TypeOK'
  <2>1. 0 \in Players BY DEF Players
  <2>2. sessions < Retries
    BY <1>1, <2>1 DEF Connect, CallsInv, Waiting, TypeOK
  <2>3. sessions' \in 0 .. Retries /\ sessions' = sessions + 1 /\ sessions \in Nat
    BY <1>1, <2>2 DEF Connect, TypeOK
  <2>4. session' \in [Players -> 0 .. sessions']
    BY <1>1, <2>3 DEF Connect
  <2>5. reached' \subseteq Players \X (1 .. sessions')
    BY <1>1, <2>3 DEF Connect, TypeOK
  <2> QED BY <1>1, <2>3, <2>4, <2>5 DEF Connect, TypeOK, InSession
<1>2. ASSUME NEW p \in Players, ConnectFails(p) \/ Abort(p) \/ Fault(p) PROVE TypeOK'
  <2>1. faults' \in 0 .. MaxFaults
    BY <1>2 DEF ConnectFails, Abort, Fault, TypeOK
  <2> QED BY <1>2, <2>1, FailingSteps, FailureStep DEF TypeOK
<1>3. ASSUME NEW p \in Players, Prepare(p) PROVE TypeOK'
  BY <1>3 DEF Prepare, TypeOK
<1>4. ASSUME NEW p \in Players, Call(p) PROVE TypeOK'
  BY <1>4 DEF Call, TypeOK
<1>5. ASSUME NEW p \in Players, Open(p) PROVE TypeOK'
  <2>1. PICK args \in argsByType(request.type) :
          files' = [files EXCEPT ![p] = {f \in @ : f.name # get_filename(args)} \cup
                      {[name |-> get_filename(args), session |-> session[p],
                        complete |-> FALSE]}]
    BY <1>5 DEF Open
  <2>2. request.type \in TupleTypes
    BY <1>5 DEF Open, CallsInv, Known, RequestType, InSession
  <2>3. get_filename(args) \in Names BY <2>2, NamesAgree
  <2>4. session[p] \in Nat BY DEF TypeOK
  <2>5. [name |-> get_filename(args), session |-> session[p], complete |-> FALSE] \in Files
    BY <2>3, <2>4 DEF Files
  <2>6. files' \in [Players -> SUBSET Files] BY <2>1, <2>5 DEF TypeOK
  <2> QED BY <1>5, <2>6 DEF Open, TypeOK, InSession
<1>6. ASSUME NEW p \in Players, Write(p) PROVE TypeOK'
  <2>1. files' \in [Players -> SUBSET Files]
    <3>1. \A f \in Files : [f EXCEPT !.complete = TRUE] \in Files BY DEF Files
    <3> QED BY <1>6, <3>1 DEF Write, TypeOK
  <2>2. reached' \subseteq Players \X (1 .. sessions')
    BY <1>6 DEF Write, TypeOK, CallsInv, InSession
  <2> QED BY <1>6, <2>1, <2>2 DEF Write, TypeOK, InSession
<1>7. ASSUME NEW p \in Players, Check(p) PROVE TypeOK'
  BY <1>7 DEF Check, TypeOK
<1>8. ASSUME NEW p \in Players, Copy(p) PROVE TypeOK'
  BY <1>8 DEF Copy, TypeOK
<1>9. ASSUME UNCHANGED vars PROVE TypeOK'
  BY <1>9 DEF vars, TypeOK
<1> QED BY <1>1, <1>2, <1>3, <1>4, <1>5, <1>6, <1>7, <1>8, <1>9 DEF Next, Step

LEMMA CallsStep ==
  ASSUME TypeOK, CallsInv, [Next]_vars
  PROVE  CallsInv'
<1> USE CowGearAssumption
<1>0. sessions \in Nat /\ \A p \in Players : count[p] \in Nat
  BY DEF TypeOK
<1>1. ASSUME Connect PROVE CallsInv'
  <2>1. \A p \in Players : /\ pc'[p] = "connected" /\ session'[p] = sessions'
                           /\ sessions' = sessions + 1 /\ count'[p] = count[p]
                           /\ sessions <= count[p] /\ count[p] < Retries /\ Known'
    BY <1>1 DEF Connect, CallsInv, Waiting, Known
  <2> QED BY <1>0, <1>1, <2>1 DEF Connect, CallsInv, Waiting, InSession
<1>2. ASSUME NEW p \in Players, ConnectFails(p) \/ Abort(p) \/ Fault(p)
      PROVE  CallsInv'
  <2>1. Known' <=> Known BY <1>2, FailingSteps DEF Known
  <2>2. sessions <= count[p] + 1
    BY <1>0, <1>2, FailingSteps DEF CallsInv, Waiting
  <2>3. /\ pc'[p] \notin InSession \cup {"connect"}
        /\ sessions' <= count'[p] /\ session'[p] = None
        /\ pc'[p] \in Waiting => count'[p] < Retries
    BY <1>2, <2>2, FailingSteps, FailureStep DEF InSession, Waiting
  <2> QED BY <1>2, <2>1, <2>3, FailingSteps, FailureStep DEF CallsInv
<1>3. ASSUME NEW p \in Players, Prepare(p) PROVE CallsInv'
  BY <1>3 DEF Prepare, CallsInv, TypeOK, Waiting, InSession, Known
<1>4. ASSUME NEW p \in Players, Call(p) PROVE CallsInv'
  BY <1>4 DEF Call, CallsInv, TypeOK, Waiting, InSession, Known, argsByType
<1>5. ASSUME NEW p \in Players, Open(p) \/ Write(p) \/ Check(p) PROVE CallsInv'
  BY <1>5 DEF Open, Write, Check, CallsInv, TypeOK, Waiting, InSession, Known
<1>6. ASSUME NEW p \in Players, Copy(p) PROVE CallsInv'
  BY <1>6 DEF Copy, CallsInv, TypeOK, Waiting, InSession, Known
<1>7. ASSUME UNCHANGED vars PROVE CallsInv'
  BY <1>7 DEF vars, CallsInv, Known
<1> QED BY <1>1, <1>2, <1>3, <1>4, <1>5, <1>6, <1>7 DEF Next, Step

LEMMA OutputStep ==
  ASSUME TypeOK, CallsInv, OutputInv, [Next]_vars
  PROVE  OutputInv'
<1> USE DEF Succeeded
<1>1. ASSUME Connect PROVE OutputInv'
  BY <1>1 DEF Connect, OutputInv
<1>2. ASSUME NEW p \in Players, ConnectFails(p) \/ Abort(p) \/ Fault(p)
      PROVE  OutputInv'
  <2>1. \A q \in Players : Output(q)' = Output(q)
    BY <1>2, FailingSteps DEF Output
  <2> QED BY <1>2, <2>1, FailingSteps, FailureStep DEF OutputInv, Known
<1>3. ASSUME NEW p \in Players, Prepare(p) \/ Call(p) PROVE OutputInv'
  <2>1. \A q \in Players : Output(q)' = Output(q) /\ session'[q] = session[q]
    BY <1>3 DEF Prepare, Call, Output
  <2>2. \A q \in Players : q # p => pc'[q] = pc[q]
    BY <1>3 DEF Prepare, Call, TypeOK
  <2>3. Known => pc'[p] \in {"call", "connect", "exited"}
    BY <1>3 DEF Prepare, Call, TypeOK, Known, argsByType
  <2>4. Known' <=> Known BY <1>3 DEF Prepare, Call, Known
  <2> QED BY <2>1, <2>2, <2>3, <2>4 DEF OutputInv
<1>4. ASSUME NEW p \in Players, Open(p) PROVE OutputInv'
  <2>1. PICK args \in argsByType(request.type) :
          files' = [files EXCEPT ![p] = {f \in @ : f.name # get_filename(args)} \cup
                      {[name |-> get_filename(args), session |-> session[p],
                        complete |-> FALSE]}]
    BY <1>4 DEF Open
  <2>2. request.type \in TupleTypes
    BY <1>4 DEF Open, CallsInv, Known, RequestType, InSession
  <2>3. tupleFileByType(request.type) = {get_filename(args)} BY <2>2, NamesAgree
  <2>4. Output(p)' = {[name |-> get_filename(args), session |-> session[p],
                       complete |-> FALSE]}
    BY <1>4, <2>1, <2>3 DEF Open, Output, TypeOK
  <2>5. \A q \in Players : q # p => Output(q)' = Output(q)
    BY <1>4, <2>1 DEF Open, Output, TypeOK
  <2>6. \A f \in Output(p)' : f.session = session'[p] BY <1>4, <2>4 DEF Open
  <2>7. /\ pc'[p] = "open" /\ Output(p)' # {}
        /\ \A q \in Players : q # p => pc'[q] = pc[q] /\ session'[q] = session[q]
        /\ Known' <=> Known
    BY <1>4, <2>4 DEF Open, TypeOK, Known
  <2> QED BY <2>5, <2>6, <2>7 DEF OutputInv
<1>5. ASSUME NEW p \in Players, Write(p) PROVE OutputInv'
  <2> DEFINE done(f) == IF f.session = session[p] THEN [f EXCEPT !.complete = TRUE]
                                                  ELSE f
  <2>1. files'[p] = {done(f) : f \in files[p]} /\ files[p] \subseteq Files
    BY <1>5 DEF Write, TypeOK
  <2>2. \A f \in Files : /\ done(f).name = f.name /\ done(f).session = f.session
                         /\ f.session = session[p] => done(f).complete
    BY DEF Files
  <2> HIDE DEF done
  <2>3. Output(p)' = {done(f) : f \in Output(p)} /\ Output(p) \subseteq Files
    BY <1>5, <2>1, <2>2 DEF Write, Output
  <2>4. \A q \in Players : q # p => Output(q)' = Output(q)
    BY <1>5 DEF Write, Output, TypeOK
  <2>5. Known => Output(p) # {} /\ \A f \in Output(p) : f.session = session[p]
    BY <1>5 DEF Write, OutputInv
  <2>6. Known => /\ Output(p)' # {}
                 /\ \A f \in Output(p)' : f.session = session[p] /\ f.complete
    BY <2>2, <2>3, <2>5
  <2> QED BY <1>5, <2>4, <2>6 DEF Write, OutputInv, Known, TypeOK
<1>6. ASSUME NEW p \in Players, Check(p) \/ Copy(p) PROVE OutputInv'
  BY <1>6 DEF Check, Copy, OutputInv, Known, Output, TypeOK
<1>7. ASSUME UNCHANGED vars PROVE OutputInv'
  BY <1>7 DEF vars, OutputInv, Known, Output
<1> QED BY <1>1, <1>2, <1>3, <1>4, <1>5, <1>6, <1>7 DEF Next, Step

LEMMA SuccessStep ==
  ASSUME TypeOK, CallsInv, SuccessInv, [Next]_vars
  PROVE  SuccessInv'
<1> USE DEF Succeeded
<1>1. ASSUME Connect PROVE SuccessInv'
  <2>1. \A p \in Players : delivered'[p] = {} /\ pc'[p] = "connected"
    BY <1>1 DEF Connect, SuccessInv
  <2> QED BY <2>1 DEF SuccessInv
<1>2. ASSUME NEW p \in Players,
             UNCHANGED <<request, sessions, delivered>>, reached \subseteq reached',
             pc[p] # "delivered", Known => pc'[p] \notin Succeeded,
             \A q \in Players : q # p => /\ pc'[q] = pc[q] /\ session'[q] = session[q]
                                         /\ Output(q)' = Output(q)
      PROVE  SuccessInv'
  <2>1. Known' <=> Known BY <1>2 DEF Known
  <2>2. delivered'[p] = {} BY <1>2 DEF SuccessInv
  <2> QED BY <1>2, <2>1, <2>2 DEF SuccessInv
<1>3. ASSUME NEW p \in Players, ConnectFails(p) \/ Abort(p) \/ Fault(p)
      PROVE  SuccessInv'
  <2>1. pc[p] # "delivered" BY <1>3, FailingSteps DEF InSession
  <2>2. \A q \in Players : Output(q)' = Output(q)
    BY <1>3, FailingSteps DEF Output
  <2> QED BY <1>2, <1>3, <2>1, <2>2, FailingSteps, FailureStep
<1>4. ASSUME NEW p \in Players, Prepare(p) \/ Call(p) PROVE SuccessInv'
  <2>1. \A q \in Players : Output(q)' = Output(q)
    BY <1>4 DEF Prepare, Call, Output
  <2>2. Known => pc'[p] \notin Succeeded
    BY <1>4 DEF Prepare, Call, TypeOK, Known, argsByType
  <2>3. \A q \in Players : q # p => pc'[q] = pc[q] /\ session'[q] = session[q]
    BY <1>4 DEF Prepare, Call, TypeOK
  <2> QED BY <1>2, <1>4, <2>1, <2>2, <2>3 DEF Prepare, Call
<1>5. ASSUME NEW p \in Players, Open(p) \/ Write(p) PROVE SuccessInv'
  <2>1. \A q \in Players : q # p => Output(q)' = Output(q)
    BY <1>5 DEF Open, Write, Output, TypeOK
  <2>2. \A q \in Players : q # p => pc'[q] = pc[q] /\ session'[q] = session[q]
    BY <1>5 DEF Open, Write, TypeOK
  <2>3. pc[p] # "delivered" /\ pc'[p] \notin Succeeded
    BY <1>5 DEF Open, Write, TypeOK
  <2> QED BY <1>2, <1>5, <2>1, <2>2, <2>3 DEF Open, Write
<1>6. ASSUME NEW p \in Players, Check(p) PROVE SuccessInv'
  <2>1. session[p] = sessions BY <1>6 DEF Check, CallsInv, InSession
  <2>2. delivered[p] = {} BY <1>6 DEF Check, SuccessInv
  <2>3. \A q \in Players : Output(q)' = Output(q)
    BY <1>6 DEF Check, Output
  <2>4. /\ \A q \in Players : q # p => pc'[q] = pc[q]
        /\ Known' <=> Known
    BY <1>6 DEF Check, TypeOK, Known
  <2>5. UNCHANGED <<session, sessions, reached, delivered>> BY <1>6 DEF Check
  <2>6. \A q \in Players : <<q, sessions>> \in reached BY <1>6, <2>1 DEF Check
  <2> QED BY <2>1, <2>2, <2>3, <2>4, <2>5, <2>6 DEF SuccessInv
<1>7. ASSUME NEW p \in Players, Copy(p) PROVE SuccessInv'
  <2>1. \A q \in Players : Output(q)' = Output(q)
    BY <1>7 DEF Copy, Output
  <2>2. /\ \A q \in Players : q # p => pc'[q] = pc[q] /\ delivered'[q] = delivered[q]
        /\ delivered'[p] = Output(p)
        /\ pc'[p] = IF Output(p) = {} THEN "exited" ELSE "delivered"
        /\ Known' <=> Known
    BY <1>7 DEF Copy, TypeOK, Known, Output
  <2>3. Output(p) # {} => Known BY DEF Output, Known, tupleFileByType
  <2>4. UNCHANGED <<session, sessions, reached>> /\ pc[p] = "copy" BY <1>7 DEF Copy
  <2> QED BY <2>1, <2>2, <2>3, <2>4 DEF SuccessInv
<1>8. ASSUME UNCHANGED vars PROVE SuccessInv'
  <2>1. \A q \in Players : Output(q)' = Output(q) BY <1>8 DEF vars, Output
  <2> QED BY <1>8, <2>1 DEF vars, SuccessInv, Known
<1> QED BY <1>1, <1>3, <1>4, <1>5, <1>6, <1>7, <1>8 DEF Next, Step

LEMMA FaultsStep ==
  ASSUME TypeOK, CallsInv, FaultsInv, [Next]_vars
  PROVE  FaultsInv'
<1> USE DEF Succeeded
<1>0. faults \in Nat /\ \A p \in Players : count[p] \in Nat
  BY CowGearAssumption DEF TypeOK
<1> SUFFICES ASSUME Undecided', NEW q \in Players
             PROVE  count'[q] <= faults' /\ (Broken(q)' => count'[q] + 1 <= faults')
  BY DEF FaultsInv
<1>1. CASE Connect
  <2>1. Undecided BY <1>1 DEF Connect, Undecided, Known
  <2>2. ~Broken(q)' BY <1>1 DEF Connect, Broken
  <2> QED BY <1>1, <2>1, <2>2 DEF Connect, FaultsInv
<1>2. ASSUME NEW p \in Players, ConnectFails(p) PROVE FALSE
  <2>1. PICK r \in Players : pc[r] \in {"copy", "delivered", "exited"}
    BY <1>2 DEF ConnectFails
  <2>2. pc'[r] = pc[r] BY <1>2, <2>1, FailingSteps, FailureStep DEF ConnectFails
  <2> QED BY <2>1, <2>2 DEF Undecided
<1>3. ASSUME NEW p \in Players, Abort(p) \/ Fault(p)
      PROVE  Undecided /\ ~(pc'[p] \in InSession)
  <2>1. pc[p] \in InSession \cup {"call", "connect"} BY <1>3, FailingSteps
  <2>2. \A r \in Players : r # p => pc'[r] = pc[r]
    BY <1>3, FailingSteps, FailureStep
  <2>3. pc'[p] \in {"call", "exited"} BY <1>3, FailingSteps, FailureStep
  <2>4. request' = request BY <1>3, FailingSteps
  <2> QED BY <2>1, <2>2, <2>3, <2>4 DEF Undecided, Known, InSession
<1>4. ASSUME NEW p \in Players, Abort(p)
      PROVE  count'[q] <= faults' /\ (Broken(q)' => count'[q] + 1 <= faults')
  <2>1. Broken(p) /\ faults' = faults BY <1>4 DEF Abort, Broken
  <2>2. count[p] + 1 <= faults BY <1>3, <1>4, <2>1 DEF FaultsInv
  <2>3. CASE q = p
    BY <1>3, <1>4, <2>1, <2>2, <2>3, FailingSteps, FailureStep DEF Broken
  <2>4. CASE q # p
    <3>1. count'[q] = count[q] /\ pc'[q] = pc[q]
      BY <1>4, <2>4, FailingSteps, FailureStep
    <3>2. Broken(q)' => Broken(q)
      <4>1. Broken(q)' => pc[q] \in InSession BY <3>1 DEF Broken
      <4>2. pc[q] \in InSession => session[q] = session[p]
        BY <2>1 DEF Broken, CallsInv
      <4> QED BY <2>1, <4>1, <4>2 DEF Broken
    <3> QED BY <1>3, <1>4, <2>1, <3>1, <3>2 DEF FaultsInv
  <2> QED BY <2>3, <2>4
<1>5. ASSUME NEW p \in Players, Fault(p)
      PROVE  count'[q] <= faults' /\ (Broken(q)' => count'[q] + 1 <= faults')
  <2>1. faults' = faults + 1 BY <1>5 DEF Fault
  <2>2. count[q] <= faults BY <1>3, <1>5 DEF FaultsInv
  <2>3. CASE q = p
    <3>1. ~Broken(q)' BY <1>3, <1>5, <2>3 DEF Broken
    <3>2. count'[q] = count[q] + 1 BY <1>5, <2>3, FailingSteps, FailureStep
    <3> QED BY <1>0, <2>1, <2>2, <3>1, <3>2
  <2>4. CASE q # p
    <3>1. count'[q] = count[q] BY <1>5, <2>4, FailingSteps, FailureStep
    <3> QED BY <1>0, <2>1, <2>2, <3>1
  <2> QED BY <2>3, <2>4
<1>6. ASSUME NEW p \in Players, Prepare(p) \/ Call(p) \/ Open(p) \/ Write(p)
      PROVE  count'[q] <= faults' /\ (Broken(q)' => count'[q] + 1 <= faults')
  <2>1. \A r \in Players : r # p => pc'[r] = pc[r]
    BY <1>6 DEF Prepare, Call, Open, Write, TypeOK
  <2>2. UNCHANGED <<request, count, session, faults>>
    BY <1>6 DEF Prepare, Call, Open, Write
  <2>3. pc[p] \notin Succeeded \cup {"exited"} /\ (pc'[p] \in InSession => pc[p] \in InSession)
    BY <1>6 DEF Prepare, Call, Open, Write, TypeOK, InSession
  <2>4. Undecided BY <2>1, <2>2, <2>3 DEF Undecided, Known
  <2>5. Broken(q)' => Broken(q) BY <2>1, <2>2, <2>3 DEF Broken
  <2> QED BY <2>2, <2>4, <2>5 DEF FaultsInv
<1>7. ASSUME NEW p \in Players, Check(p) \/ Copy(p) PROVE FALSE
  <2>1. pc'[p] \in Succeeded \cup {"exited"} BY <1>7 DEF Check, Copy, TypeOK
  <2> QED BY <2>1 DEF Undecided
<1>8. CASE UNCHANGED vars
  BY <1>8 DEF vars, FaultsInv, Undecided, Known, Broken
<1> QED BY <1>1, <1>2, <1>4, <1>5, <1>6, <1>7, <1>8 DEF Next, Step

LEMMA RetriesStep ==
  ASSUME TypeOK, CallsInv, OutputInv, FaultsInv, RetriesSuffice, [Next]_vars
  PROVE  RetriesSuffice'
<1> USE CowGearAssumption DEF Succeeded
<1>0. faults \in Nat /\ \A p \in Players : count[p] \in Nat
  BY DEF TypeOK
<1> DEFINE Excused == \/ faults >= Retries
                      \/ \E q \in Players : pc[q] \in Succeeded \/ ~request.params[q]
<1>1. (\E p \in Players : pc[p] = "exited") /\ Known => Excused
  BY DEF RetriesSuffice, Known
<1> SUFFICES ASSUME Known, NEW p \in Players, pc'[p] = "exited"
             PROVE  Excused'
  <2>1. request' = request
    BY DEF Next, Connect, Step, Prepare, Call, ConnectFails, Open, Write, Check,
           Abort, Copy, Fault, vars
  <2> QED BY <2>1 DEF RetriesSuffice, Known
<1>2. Excused => Excused'
  <2>1. \A q \in Players : pc[q] \in Succeeded => pc'[q] \in Succeeded
    <3>1. ASSUME NEW q \in Players, pc[q] \in Succeeded, NEW r \in Players,
                 ConnectFails(r) \/ Abort(r) \/ Fault(r)
          PROVE  pc'[q] \in Succeeded
      BY <3>1, FailingSteps, FailureStep DEF InSession
    <3>2. ASSUME NEW q \in Players, pc[q] \in Succeeded, NEW r \in Players,
                 Prepare(r) \/ Call(r) \/ Open(r) \/ Write(r) \/ Check(r)
          PROVE  pc'[q] \in Succeeded
      BY <3>2 DEF Prepare, Call, Open, Write, Check, TypeOK
    <3>3. ASSUME NEW q \in Players, pc[q] \in Succeeded, NEW r \in Players, Copy(r)
          PROVE  pc'[q] \in Succeeded
      <4>1. pc[r] = "copy" => Output(r) # {} BY DEF OutputInv
      <4> QED BY <3>3, <4>1 DEF Copy, Output, TypeOK
    <3>4. Connect => \A q \in Players : pc[q] \notin Succeeded BY DEF Connect
    <3> QED BY <3>1, <3>2, <3>3, <3>4 DEF Next, Step, vars
  <2>2. faults' >= faults /\ faults' \in Nat
    BY <1>0 DEF Next, Connect, Step, Prepare, Call, ConnectFails, Open, Write, Check,
                Abort, Copy, Fault, vars
  <2>3. request' = request
    BY DEF Next, Connect, Step, Prepare, Call, ConnectFails, Open, Write, Check,
           Abort, Copy, Fault, vars
  <2> QED BY <1>0, <2>1, <2>2, <2>3
<1>3. CASE Excused BY <1>2, <1>3
<1>4. CASE ~Excused
  <2>1. pc[p] # "exited" BY <1>1, <1>4
  <2>2. Undecided BY <1>1, <1>4 DEF Undecided
  <2> HIDE DEF Excused
  <2>3. ~Connect BY DEF Connect
  <2>4. ASSUME NEW r \in Players, Prepare(r) PROVE Excused'
    <3>1. r = p /\ ~request.params[p]
      BY <2>1, <2>4 DEF Prepare, TypeOK
    <3> QED BY <2>2, <3>1 DEF Undecided
  <2>5. ASSUME NEW r \in Players, Call(r) \/ Open(r) \/ Write(r) \/ Check(r) PROVE FALSE
    BY <2>1, <2>5 DEF Call, Open, Write, Check, TypeOK
  <2>6. ASSUME NEW r \in Players, Copy(r) PROVE FALSE
    BY <2>2, <2>6 DEF Copy, Undecided
  <2>7. ASSUME NEW r \in Players, ConnectFails(r) PROVE FALSE
    BY <2>2, <2>7 DEF ConnectFails, Undecided
  <2>8. ASSUME NEW r \in Players, Abort(r) \/ Fault(r) PROVE Excused'
    <3>1. r = p /\ count'[p] = Retries /\ count'[p] = count[p] + 1
      BY <2>1, <2>8, FailingSteps, FailureStep
    <3>2. CASE Abort(r)
      <4>1. count[p] + 1 <= faults
        BY <2>2, <3>1, <3>2 DEF Abort, FaultsInv, Broken
      <4>2. faults' = faults BY <3>2 DEF Abort
      <4> QED BY <1>0, <3>1, <4>1, <4>2 DEF Excused
    <3>3. CASE Fault(r)
      <4>1. count[p] <= faults /\ faults' = faults + 1
        BY <2>2, <3>3 DEF Fault, FaultsInv
      <4> QED BY <1>0, <3>1, <4>1 DEF Excused
    <3> QED BY <2>8, <3>2, <3>3
  <2>9. ~UNCHANGED vars BY <2>1 DEF vars
  <2> QED BY <2>3, <2>4, <2>5, <2>6, <2>7, <2>8, <2>9 DEF Next, Step
<1> QED BY <1>3, <1>4

LEMMA RetryInit ==
  ASSUME Init
  PROVE  RetryInv
<1> USE CowGearAssumption DEF Init
<1>1. TypeOK BY DEF TypeOK, None
<1>2. CallsInv BY DEF CallsInv, Waiting, InSession, None
<1>3. OutputInv /\ SuccessInv BY DEF OutputInv, SuccessInv, Succeeded
<1>4. FaultsInv BY DEF FaultsInv, Broken, InSession
<1>5. RetriesSuffice BY DEF RetriesSuffice
<1> QED BY <1>1, <1>2, <1>3, <1>4, <1>5 DEF RetryInv

LEMMA RetryInvariant == Spec => []RetryInv
<1>1. Init => RetryInv BY RetryInit
<1>2. RetryInv /\ [Next]_vars => RetryInv'
  BY TypeStep, CallsStep, OutputStep, SuccessStep, FaultsStep, RetriesStep DEF RetryInv
<1> QED BY <1>1, <1>2, PTL DEF Spec

\* The state of the scripts is well formed in every behaviour; in particular,
\* the players meet in at most as many sessions as a script makes calls (retry
\* in kii-run.sh), however calls fail.
THEOREM CowGearTypeCorrect == Spec => []TypeOK
<1>1. RetryInv => TypeOK BY DEF RetryInv
<1> QED BY <1>1, RetryInvariant, PTL

\* All players that deliver tuples deliver those of one session, for any
\* number of players, retries and faults: a player that has succeeded does
\* not take part in another session, and without it there is none.
THEOREM DeliveriesMatch == Spec => []SameSession
<1>1. RetryInv => SameSession
  <2> SUFFICES ASSUME RetryInv, NEW p \in Players, NEW f \in delivered[p]
               PROVE  f.session = sessions
    BY DEF SameSession
  <2>1. Known /\ pc[p] = "delivered" /\ f \in Output(p)
    BY DEF RetryInv, SuccessInv
  <2>2. f.session = session[p] /\ session[p] = sessions
    BY <2>1 DEF RetryInv, OutputInv, SuccessInv, Succeeded
  <2> QED BY <2>2
<1> QED BY <1>1, RetryInvariant, PTL

\* Whatever is copied for the provisioner is complete and of a session whose
\* MAC check all players have reached, whatever earlier calls left behind in
\* Player-Data.
THEOREM DeliveriesChecked == Spec => []DeliversChecked
<1>1. RetryInv => DeliversChecked
  <2> SUFFICES ASSUME RetryInv, NEW p \in Players, NEW f \in delivered[p]
               PROVE  f.complete /\ \A q \in Players : <<q, f.session>> \in reached
    BY DEF DeliversChecked
  <2>1. Known /\ pc[p] = "delivered" /\ f \in Output(p)
    BY DEF RetryInv, SuccessInv
  <2>2. f.session = session[p] /\ f.complete
    BY <2>1 DEF RetryInv, OutputInv, Succeeded
  <2>3. session[p] = sessions /\ \A q \in Players : <<q, sessions>> \in reached
    BY <2>1 DEF RetryInv, SuccessInv, Succeeded
  <2> QED BY <2>2, <2>3
<1> QED BY <1>1, RetryInvariant, PTL

\* With fewer faults than calls, no player gives up unless another one has
\* succeeded or never started: one fault costs each player at most one of its
\* calls, although a call that fails makes those of the others fail.
THEOREM FewFaultsAreSurvived == Spec => []RetriesSuffice
<1>1. RetryInv => RetriesSuffice BY DEF RetryInv
<1> QED BY <1>1, RetryInvariant, PTL
=============================================================================
