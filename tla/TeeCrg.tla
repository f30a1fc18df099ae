------------------------------- MODULE TeeCrg -------------------------------
(***************************************************************************)
(* The TEE generator as a whole: main of CRG.c, which runs the local       *)
(* attestation, the server role and the client role one after the other    *)
(* and then replaces itself by the command that generates the tuples, and  *)
(* the failures of pods and of the network.                                *)
(***************************************************************************)
EXTENDS TeeClient

\* main up to the call of local_attestation.
Start(p) ==
  /\ pc[p] = "start"
  /\ \/ /\ env[p].primeFile
        /\ pc' = [pc EXCEPT ![p] = "local_setup"]
        /\ UNCHANGED <<kii, status, link>>
     \/ /\ ~env[p].primeFile
        /\ Exit(p, 1)
  /\ UNCHANGED <<env, local, exchanged, backlog, served, launched, faults>>

\* The option of Fake-Offline.x per kind of tuple.
arg1ByType(type) ==
  CASE type.kind = "BIT" -> "--nbits"
    [] type.kind \in {"INPUT_MASK", "MULTIPLICATION_TRIPLE"} -> "--ntriples"
    [] type.kind = "INVERSE_TUPLE" -> "--ninverses"
    [] type.kind = "SQUARE_TUPLE" -> "--nsquares"

\* Its value: a number per field; inverses take one number for both.
arg2_OneOrder(type, n) ==
  [field \in Fields |-> CASE field = "GF2N" /\ type.kind # "INVERSE_TUPLE" -> 0
                          [] type.kind = "INPUT_MASK" -> n \div 3
                          [] OTHER -> n]

arg2(type, n) ==
  [field \in Fields |->
     CASE type.kind = "INVERSE_TUPLE" -> n
       [] type.kind # "INVERSE_TUPLE" /\ type.field # field -> 0
       [] type.kind = "INPUT_MASK" /\ type.field = field -> n \div 3
       [] OTHER -> n]

\* The file that is copied to the place the provisioner reads.
destination_path(type) ==
  [field |-> type.field,
   name |-> CASE type.kind = "BIT" -> "Bits"
              [] type.kind \in {"INPUT_MASK", "MULTIPLICATION_TRIPLE"} -> "Triples"
              [] type.kind = "INVERSE_TUPLE" -> "Inverses"
              [] type.kind = "SQUARE_TUPLE" -> "Squares"]

\* The MAC key shares of all players, as they are written to Player-Data.
create_mac_key_shares(p) == macKeys[p]

Command(p) ==
  LET type == env[p].tupleType IN
  [option |-> arg1ByType(type), counts |-> arg2(type, env[p].tuples),
   file |-> destination_path(type), prngseed |-> seed[p],
   keys |-> create_mac_key_shares(p)]

\* The rest of main, with the command it becomes.  Writing the shares or the
\* command may fail; when the command cannot be executed, main returns 0.
Launch(p) ==
  LET valid == env[p].tupleType # UnknownType /\ env[p].tuples # None IN
  /\ pc[p] = "launch"
  /\ \/ /\ valid
        /\ launched' = [launched EXCEPT ![p] = {Command(p)}]
        /\ pc' = [pc EXCEPT ![p] = "generated"]
        /\ status' = [status EXCEPT ![p] = 0]
        /\ kii' = [kii EXCEPT ![p] = "exited"]
        /\ UNCHANGED <<link, faults>>
     \/ /\ ~valid
        /\ Exit(p, 1)
        /\ UNCHANGED <<launched, faults>>
     \/ /\ valid
        /\ faults < MaxFaults
        /\ faults' = faults + 1
        /\ \E ret \in {0, 1} : Exit(p, ret)
        /\ UNCHANGED launched
  /\ UNCHANGED <<env, local, exchanged, backlog, served>>

Enclave(p) ==
  \/ Start(p)
  \/ LocalSetup(p)
  \/ LocalHandshake(p)
  \/ LocalRead(p)
  \/ Server(p)
  \/ Client(p)
  \/ Launch(p)

Kii(p) == KiiSetup(p) \/ KiiConnect(p) \/ KiiSend(p)

\* A pod is killed.
Kill(p) ==
  /\ pc[p] \notin Ended
  /\ faults < MaxFaults
  /\ faults' = faults + 1
  /\ Exit(p, SIGKILL)
  /\ UNCHANGED <<env, local, exchanged, backlog, served, launched>>

\* A connection breaks, with what was under way delivered or not.
Break(pair) ==
  LET broken == [alive |-> FALSE, up |-> <<>>, down |-> <<>>] IN
  /\ faults < MaxFaults
  /\ faults' = faults + 1
  /\ link[pair] # broken
  /\ \/ /\ link[pair].alive
        /\ link' = [link EXCEPT ![pair].alive = FALSE]
     \/ link' = [link EXCEPT ![pair] = broken]
  /\ UNCHANGED <<env, pc, kii, local, status, exchanged, backlog, served,
                 launched>>

Init ==
  /\ env \in Environments
  /\ pc = [p \in Players |-> "start"]
  /\ kii = [p \in Players |-> "start"]
  /\ local = [p \in Players |-> <<>>]
  /\ status = [p \in Players |-> None]
  /\ other = [p \in Players |-> 0]
  /\ seed = [p \in Players |-> OwnSeed(p)]
  /\ macKeys = [p \in Players |-> [q \in Players |-> None]]
  /\ received = [p \in Players |-> Null]
  /\ attested = [p \in Players |-> {}]
  /\ link = [pair \in Pairs |-> [alive |-> FALSE, up |-> <<>>, down |-> <<>>]]
  /\ backlog = [p \in Players |-> <<>>]
  /\ served = [p \in Players |-> None]
  /\ launched = [p \in Players |-> {}]
  /\ faults = 0

Next ==
  \/ \E p \in Players : Enclave(p) \/ Kii(p) \/ Kill(p)
  \/ \E pair \in Pairs : Break(pair)

Fairness == \A p \in Players : WF_vars(Enclave(p)) /\ WF_vars(Kii(p))

Spec == Init /\ [][Next]_vars /\ Fairness
-----------------------------------------------------------------------------
Commands ==
  [option : {"--nbits", "--ntriples", "--ninverses", "--nsquares"},
   counts : [Fields -> Nat],
   file : [field : Fields, name : {"Bits", "Triples", "Inverses", "Squares"}],
   prngseed : Seeds,
   keys : [Players -> Shares \cup {None}]]

EnclavePoints ==
  {"start", "local_setup", "local_accept", "local_read", "srv_setup",
   "srv_accept", "srv_info", "srv_close", "srv_send", "srv_share", "cli_setup",
   "cli_endpoint", "cli_connect", "cli_handshake", "cli_info", "cli_read",
   "cli_send", "cli_add", "launch"} \cup Ended

\* The state has the expected shape (CRG.c, server.c, client.c).
TypeOK ==
  /\ pc \in [Players -> EnclavePoints]
  /\ kii \in [Players -> {"start", "connect", "handshake", "send", "exited"}]
  /\ local \in [Players -> Seq(SecretShare)]
  /\ status \in [Players -> 0 .. 255 \cup {None}]
  /\ other \in [Players -> Players]
  /\ seed \in [Players -> Seeds]
  /\ macKeys \in [Players -> [Players -> Shares \cup {None}]]
  /\ received \in [Players -> SecretShare \cup {Null}]
  /\ attested \in [Players -> SUBSET Players]
  /\ link \in [Pairs -> [alive : BOOLEAN, up : Seq(PlayerInfo \cup SecretShare),
                         down : Seq(SecretShare)]]
  /\ backlog \in [Players -> Seq(Players)]
  /\ served \in [Players -> Players \cup {None}]
  /\ launched \in [Players -> SUBSET Commands]
  /\ faults \in 0 .. MaxFaults

\* An enclave generates tuples only after it has verified the quotes of all
\* others itself, whatever failed on the way (the handshakes in server.c and
\* client.c, and main, which goes on whenever a role returns 0).
AttestedBeforeGenerating ==
  \A p \in Players : pc[p] = "generated" => attested[p] = Players \ {p}

\* Fake-Offline.x computes the shares of all players from the seed and all
\* MAC key shares, and every player keeps its own part of its own result:
\* two enclaves that generate do so from the same ones, although each of
\* them collects them alone and the network and the peer may fail at any
\* moment (Seed and Player_MAC_Keys_p/2 at the end of main).
SameRandomness ==
  \A p, q \in Players : \A a \in launched[p], b \in launched[q] :
    a.prngseed = b.prngseed /\ a.keys = b.keys

\* No enclave generates from a seed that one of the players had no part in
\* (addHex in server.c and client.c): a single honest player is enough to
\* make the seed unpredictable.
EveryoneContributes ==
  \A p, q \in Players : \A command \in launched[p] : command.prngseed[q] > 0

\* An enclave hands its MAC key shares and its seed only to an enclave whose
\* quote it has verified, also to those servers with which a client's TLS
\* context makes it skip the handshake (the order of reads and writes in
\* server.c and client.c).
SharesOnlyToAttested ==
  \A pair \in Pairs :
    LET c == pair[1]
        s == pair[2]
    IN  /\ (\E i \in DOMAIN link[pair].up : link[pair].up[i] \in SecretShare)
             => s \in attested[c]
        /\ link[pair].down # <<>> => c \in attested[s]

\* A server insists on its clients' order (verify_player_details), and ends
\* the whole process when another one comes first.  The order in which the
\* clients themselves take their servers is enough to keep to it: the first
\* connection in a server's backlog is the one that is due.
ClientsInOrder ==
  \A s \in Players :
    backlog[s] # <<>> /\ pc[s] = "srv_accept" => Head(backlog[s]) = other[s]

\* The file that is copied is the one the command writes, with as many
\* tuples as were asked for, up to the last two input masks, of which each
\* triple provides three (arg1ByType, arg2 and destination_path).
Writes(option) ==
  CASE option = "--nbits" -> "Bits"
    [] option = "--ntriples" -> "Triples"
    [] option = "--ninverses" -> "Inverses"
    [] option = "--nsquares" -> "Squares"

TuplesPer(type) == IF type.kind = "INPUT_MASK" THEN 3 ELSE 1

DeliversWhatItGenerates ==
  \A p \in Players : \A command \in launched[p] :
    LET type == env[p].tupleType
        delivered == TuplesPer(type) * command.counts[command.file.field]
    IN  /\ command.file.name = Writes(command.option)
        /\ command.file.field = type.field
        /\ delivered <= env[p].tuples
        /\ delivered > env[p].tuples - TuplesPer(type)

\* The server and the client role share other_player_number: together they
\* fill each slot of the MAC key shares once and in no other player's name
\* (Player_MAC_Keys in server.c, client.c and local_attestation.c).
SlotsFilledOnce ==
  [][\A p, q \in Players :
       macKeys'[p][q] # macKeys[p][q] =>
         macKeys[p][q] = None /\ macKeys'[p][q] \in {q, Junk}]_vars

\* The exit status that the operator takes as the verdict on the task.
ExitCodeContract ==
  \A p \in Players : pc[p] \in Ended => (status[p] = 0 <=> pc[p] = "generated")
-----------------------------------------------------------------------------
\* Environments in which the players agree and accept each other.
Compatible(p, q) ==
  Accepts(p, q) /\ Accepts(q, p) /\ env[p].job = env[q].job

WellConfigured(p) ==
  /\ ServerUsable(p)
  /\ KiiUsable(p)
  /\ my_verify_measurements(env[p].kiiArgs, env[p].quote)
  /\ \A q \in Players : env[p].hosts[q] \in 0 .. ClientHostBuffer - 1
  /\ env[p].shareFiles
  /\ env[p].primeFile
  /\ env[p].tupleType # UnknownType
  /\ env[p].tuples # None

\* Without failures, players that are set up correctly all generate: the
\* order of their connections leaves nobody waiting (the loops in server.c
\* and client.c).
EveryoneGenerates ==
  (\A p, q \in Players : WellConfigured(p) /\ Compatible(p, q))
    => <>(faults > 0 \/ \A p \in Players : pc[p] = "generated")

\* Whatever fails, an enclave of a pair ends, except where the code waits
\* without a limit for a peer to show up, in accept and in the loop around
\* connect, and in the loop around close_notify of server.c.
WaitsOnlyToConnect ==
  <>[](\A p \in Players :
         pc[p] \in Ended \cup {"local_accept", "srv_accept", "cli_connect",
                               "srv_close"})
-----------------------------------------------------------------------------
\* The abstract exchange: see ShareExchange.
Exchange == INSTANCE ShareExchange WITH
  holds <- [p \in Players |-> {q \in Players : macKeys[p][q] = q}],
  phase <- [p \in Players |-> CASE pc[p] = "exited" -> "failed"
                                [] pc[p] = "generated" -> "generated"
                                [] OTHER -> "running"],
  compatible <- {pair \in Players \X Players : Compatible(pair[1], pair[2])}

\* The enclaves implement the abstract exchange of shares.
ExchangesShares == Exchange!Spec
=============================================================================
