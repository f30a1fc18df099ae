------------------------------ MODULE CowGear ------------------------------
(***************************************************************************)
(* The CowGear generator (klyshko-mp-spdz-cowgear).  Each player runs      *)
(* kii-run.sh, which calls cowgear-offline.x up to Retries times and       *)
(* copies the tuples after the first call that succeeds.  A call takes     *)
(* part in a session with all other players: they connect, generate the    *)
(* tuples together and check the MACs together.  When one of them fails,   *)
(* the connections break and the others' calls fail with it, but not at    *)
(* the same moment, and not those that have finished already.              *)
(*                                                                         *)
(* Networking and the protocol itself are MP-SPDZ's, modelled as far as    *)
(* the program relies on them.                                             *)
(***************************************************************************)
EXTENDS Integers, TupleTypes

CONSTANTS
  N,         \* number of players
  Retries,   \* first argument of retry
  Requests,  \* the requests (see RequestType) to start from
  MaxFaults  \* bound on failures of processes and connections

Players == 0 .. N - 1
None == 0

\* The type asked for, and whether the parameter files of a player exist.
RequestType == [type : TupleTypes \cup {UnknownType}, params : [Players -> BOOLEAN]]

ASSUME CowGearAssumption ==
  /\ N \in Nat \ {0}
  /\ Retries \in Nat \ {0}
  /\ MaxFaults \in Nat
  /\ Requests \subseteq RequestType

VARIABLES
  request,   \* the job's request, the same for all players
  pc,        \* per player: where kii-run.sh and its program are
  count,     \* per player: failed calls
  session,   \* per player: the session its call is in, or has finished in
  sessions,  \* number of sessions so far
  reached,   \* pairs of player and session: it has started the MAC check
  files,     \* per player: the tuple files in Player-Data
  delivered, \* per player: the files copied for the provisioner, at most one
  faults     \* failures so far

vars == <<request, pc, count, session, sessions, reached, files, delivered,
          faults>>

\* The command line arguments, none for an unknown type.
argsByType(type) ==
  IF type = UnknownType THEN {}
  ELSE {[field |-> type.field,
         tuples |-> CASE type.kind = "BIT" -> "bits"
                      [] type.kind \in {"INPUT_MASK", "MULTIPLICATION_TRIPLE"} -> "triples"
                      [] type.kind = "INVERSE_TUPLE" -> "inverses"
                      [] type.kind = "SQUARE_TUPLE" -> "squares"]}

\* The name of the file the script copies, none for an unknown type.
tupleFileByType(type) ==
  IF type = UnknownType THEN {}
  ELSE {[field |-> type.field,
         data |-> CASE type.kind = "BIT" -> "Bits"
                    [] type.kind \in {"INPUT_MASK", "MULTIPLICATION_TRIPLE"} -> "Triples"
                    [] type.kind = "INVERSE_TUPLE" -> "Inverses"
                    [] type.kind = "SQUARE_TUPLE" -> "Squares"]}

\* The name of the file the program writes, by the data type it asks the
\* preprocessing for.
get_filename(args) ==
  [field |-> args.field,
   data |-> CASE args.tuples = "bits" -> "Bits"
              [] args.tuples = "squares" -> "Squares"
              [] args.tuples = "inverses" -> "Inverses"
              [] args.tuples = "triples" -> "Triples"]

\* retry: the status of the call decides.
AfterFailure_OffByOne(p) == IF count[p] + 1 <= Retries THEN "call" ELSE "exited"
AfterFailure_CountsFromOne(p) ==
  IF count[p] + 2 < Retries THEN "call" ELSE "exited"
AfterFailure_StatusLost(p) == IF count[p] + 1 < Retries THEN "call" ELSE "copy"

AfterFailure(p) == IF count[p] + 1 < Retries THEN "call" ELSE "exited"

CallFails(p) ==
  /\ count' = [count EXCEPT ![p] = @ + 1]
  /\ pc' = [pc EXCEPT ![p] = AfterFailure(p)]
  /\ session' = [session EXCEPT ![p] = None]

\* The script before the first call: it ends without its parameter files.
Prepare(p) ==
  /\ pc[p] = "start"
  /\ pc' = [pc EXCEPT ![p] = IF request.params[p] THEN "call" ELSE "exited"]
  /\ UNCHANGED <<request, count, session, sessions, reached, files, delivered,
                 faults>>

\* The program's main: without arguments it prints its usage and exits with
\* status 0.
Call(p) ==
  /\ pc[p] = "call"
  /\ pc' = [pc EXCEPT ![p] = IF argsByType(request.type) = {} THEN "copy"
                                                             ELSE "connect"]
  /\ UNCHANGED <<request, count, session, sessions, reached, files, delivered,
                 faults>>

\* The players have found each other.
Connect ==
  /\ \A p \in Players : pc[p] = "connect"
  /\ pc' = [p \in Players |-> "connected"]
  /\ sessions' = sessions + 1
  /\ session' = [p \in Players |-> sessions']
  /\ UNCHANGED <<request, count, reached, files, delivered, faults>>

\* A player does not wait forever for others that will not come.
ConnectFails_Never(p) == FALSE

ConnectFails(p) ==
  /\ pc[p] = "connect"
  /\ \E q \in Players : pc[q] \in {"copy", "delivered", "exited"}
  /\ CallFails(p)
  /\ UNCHANGED <<request, sessions, reached, files, delivered, faults>>

\* The setup of the session has been done with the others; the file is
\* opened, which empties it.
Open_Appends(p) ==
  \E args \in argsByType(request.type) :
    LET empty == [name |-> get_filename(args), session |-> session[p],
                  complete |-> FALSE]
    IN
    /\ pc[p] = "connected"
    /\ files' = [files EXCEPT ![p] = @ \cup {empty}]
    /\ pc' = [pc EXCEPT ![p] = "open"]
    /\ UNCHANGED <<request, count, session, sessions, reached, delivered, faults>>

Open(p) ==
  \E args \in argsByType(request.type) :
    LET name == get_filename(args)
        empty == [name |-> name, session |-> session[p], complete |-> FALSE]
    IN
    /\ pc[p] = "connected"
    /\ files' = [files EXCEPT ![p] = {f \in @ : f.name # name} \cup {empty}]
    /\ pc' = [pc EXCEPT ![p] = "open"]
    /\ UNCHANGED <<request, count, session, sessions, reached, delivered, faults>>

\* The tuples are generated, with the others, and written.
Write(p) ==
  /\ pc[p] = "open"
  /\ \A q \in Players : session[q] = session[p]
  /\ files' = [files EXCEPT ![p] =
       {IF f.session = session[p] THEN [f EXCEPT !.complete = TRUE] ELSE f : f \in @}]
  /\ reached' = reached \cup {<<p, session[p]>>}
  /\ pc' = [pc EXCEPT ![p] = "check"]
  /\ UNCHANGED <<request, count, session, sessions, delivered, faults>>

\* The MAC check needs the contribution of all players.  The call succeeds.
Check(p) ==
  /\ pc[p] = "check"
  /\ \A q \in Players : <<q, session[p]>> \in reached
  /\ pc' = [pc EXCEPT ![p] = "copy"]
  /\ UNCHANGED <<request, count, session, sessions, reached, files, delivered,
                 faults>>

\* Another player's call has failed, and the connection to it is gone.
InSession == {"connected", "open", "check"}

Abort(p) ==
  /\ pc[p] \in InSession
  /\ \E q \in Players : session[q] # session[p]
  /\ CallFails(p)
  /\ UNCHANGED <<request, sessions, reached, files, delivered, faults>>

\* The script copies the file, or ends if there is none.
Copy(p) ==
  LET copied == {f \in files[p] : f.name \in tupleFileByType(request.type)} IN
  /\ pc[p] = "copy"
  /\ delivered' = [delivered EXCEPT ![p] = copied]
  /\ pc' = [pc EXCEPT ![p] = IF copied = {} THEN "exited" ELSE "delivered"]
  /\ UNCHANGED <<request, count, session, sessions, reached, files, faults>>

\* A call fails by itself: a crash, a timeout, a lost connection, a MAC check
\* that does not work out.
Fault(p) ==
  /\ pc[p] \in InSession \cup {"call", "connect"}
  /\ faults < MaxFaults
  /\ faults' = faults + 1
  /\ CallFails(p)
  /\ UNCHANGED <<request, sessions, reached, files, delivered>>

Init ==
  /\ request \in Requests
  /\ pc = [p \in Players |-> "start"]
  /\ count = [p \in Players |-> 0]
  /\ session = [p \in Players |-> None]
  /\ sessions = 0
  /\ reached = {}
  /\ files = [p \in Players |-> {}]
  /\ delivered = [p \in Players |-> {}]
  /\ faults = 0

Step(p) ==
  \/ Prepare(p)
  \/ Call(p)
  \/ ConnectFails(p)
  \/ Open(p)
  \/ Write(p)
  \/ Check(p)
  \/ Abort(p)
  \/ Copy(p)

Next == Connect \/ \E p \in Players : Step(p) \/ Fault(p)

Fairness == WF_vars(Connect) /\ \A p \in Players : WF_vars(Step(p))

Spec == Init /\ [][Next]_vars /\ Fairness
-----------------------------------------------------------------------------
Names == [field : Fields, data : {"Bits", "Squares", "Inverses", "Triples"}]
Files == [name : Names, session : Nat, complete : BOOLEAN]

\* The state has the expected shape (kii-run.sh, cowgear-offline.cpp).
TypeOK ==
  /\ pc \in [Players -> InSession \cup {"start", "call", "connect", "copy",
                                        "delivered", "exited"}]
  /\ count \in [Players -> 0 .. Retries]
  /\ session \in [Players -> 0 .. sessions]
  /\ sessions \in 0 .. Retries
  /\ reached \subseteq Players \X (1 .. sessions)
  /\ files \in [Players -> SUBSET Files]
  /\ delivered \in [Players -> SUBSET Files]
  /\ faults \in 0 .. MaxFaults

\* The tuples of different players belong together: the players that deliver
\* deliver from the same session, in spite of calls that fail for some and
\* succeed for others and are retried (retry in kii-run.sh).
SameSession ==
  \A p, q \in Players : \A f \in delivered[p], g \in delivered[q] :
    f.session = g.session

\* What is delivered is complete and has been through a MAC check that all
\* players took part in: an output that an earlier call left behind is never
\* taken for the result of a later one (the check at the end of
\* generate_tuples in cowgear-offline.cpp, retry and cp in kii-run.sh).
DeliversChecked ==
  \A p \in Players : \A f \in delivered[p] :
    f.complete /\ \A q \in Players : <<q, f.session>> \in reached

\* Players that restart their calls meet again: a player gives up only after
\* as many failures as there are calls, unless another one has succeeded
\* and left it behind (retry in kii-run.sh).
RetriesSuffice ==
  \A p \in Players :
    pc[p] = "exited" /\ request.type # UnknownType
      => \/ faults >= Retries
         \/ \E q \in Players : pc[q] \in {"copy", "delivered"} \/ ~request.params[q]

\* The scripts end: nobody waits forever for a player that has given up or
\* is done.
EveryoneEnds == <>(\A p \in Players : pc[p] \in {"delivered", "exited"})
=============================================================================
