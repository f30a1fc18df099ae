--------------------------- MODULE TeeCrg_proofs ---------------------------
(***************************************************************************)
(* Proofs about the TEE generator, for all environments and any number of  *)
(* failures; for all numbers of players unless a theorem says otherwise.   *)
(***************************************************************************)
EXTENDS TeeCrg, TLAPS

\* Where an enclave is: before its roles, in the server role (with a client
\* from Attending on), in the loop of the client role (with a server from
\* Talking on).
Before == {"start", "local_setup", "local_accept", "local_read"}
Attending == {"srv_info", "srv_send", "srv_share"}
Serving == {"srv_setup", "srv_accept", "srv_close"} \cup Attending
Talking == {"cli_info", "cli_read", "cli_send", "cli_add"}
Dialing == {"cli_endpoint", "cli_connect", "cli_handshake"} \cup Talking

\* The messages of a player, and what may be under way from a client before
\* and after its server has read the first one.
Info(c) == [kii_job_id |-> env[c].job, player_number |-> c]
SharesOf(q) == {m \in SecretShare : m.mackeyshare \in {q, Junk}}
ShareQueue(c) == {<<>>} \cup {<<m>> : m \in SharesOf(c)}
InfoQueue(c) == {<<>>, <<Info(c)>>} \cup {<<Info(c), m>> : m \in SharesOf(c)}

\* In either role the peer that is due is on the right side.  Handshakes, and
\* what follows them, are those of the last player, the first server of all.
RoleInv ==
  /\ env \in Environments
  /\ \A p \in Players :
       /\ pc[p] \in Before => other[p] = 0
       /\ pc[p] \in Serving => other[p] < p
       /\ pc[p] = "cli_setup" => p < N - 1
       /\ pc[p] \in Dialing => p < other[p]
       /\ pc[p] \in Attending => served[p] \in Players /\ served[p] < p
       /\ pc[p] \in {"srv_send", "srv_share"} => served[p] = other[p]
       /\ pc[p] \in Attending => p = N - 1
       /\ pc[p] = "cli_handshake" => other[p] = N - 1

\* The slots of the peers that are still due are empty; the others hold what
\* belongs there, or junk.
SlotInv ==
  \A p, q \in Players :
    /\ macKeys[p][q] \in {None, q, Junk}
    /\ pc[p] \in Before => macKeys[p][q] = None
    /\ pc[p] \in Serving /\ p # q /\ other[p] <= q => macKeys[p][q] = None
    /\ pc[p] = "cli_setup" /\ p < q => macKeys[p][q] = None
    /\ pc[p] \in Dialing /\ p < q /\ q <= other[p] => macKeys[p][q] = None
    /\ pc[p] \in Serving \cup {"cli_setup", "launch"} \cup Dialing =>
         macKeys[p][p] # None

\* A connection that is alive has two ends.  A client that waits for a
\* handshake is in the server's backlog once.
BacklogInv ==
  /\ \A c, s \in Players : c < s /\ link[<<c, s>>].alive =>
       pc[c] # "exited" /\ pc[s] # "exited"
  /\ \A s \in Players :
       /\ pc[s] \in Before \cup {"srv_setup"} => backlog[s] = <<>>
       /\ Listening(s) => \A i \in 1 .. Len(backlog[s]) : backlog[s][i] < s
       /\ Listening(s) /\ s = N - 1 => \A i \in 1 .. Len(backlog[s]) :
            /\ \/ pc[backlog[s][i]] = "exited"
               \/ pc[backlog[s][i]] = "cli_handshake" /\ other[backlog[s][i]] = s
            /\ \A j \in 1 .. Len(backlog[s]) : backlog[s][i] = backlog[s][j] => i = j

\* What is under way on the connection of c to s, as each side knows it.  A
\* server without a handshake sends nothing, and its client goes on only when
\* the connection is gone.
ChannelInv ==
  \A c, s \in Players : c < s =>
    LET l == link[<<c, s>>] IN
    /\ l.down \in Seq(SharesOf(s))
    /\ l.up \in InfoQueue(c) \cup ShareQueue(c)
    /\ served[s] = c /\ pc[s] = "srv_info" => l.up \in InfoQueue(c)
    /\ served[s] = c /\ pc[s] \in {"srv_send", "srv_share"} => l.up \in ShareQueue(c)
    /\ other[c] = s /\ pc[c] \in {"cli_handshake", "cli_info"} => l.up = <<>>
    /\ s = N - 1 /\ other[c] = s /\ pc[c] = "cli_info" /\ l.alive =>
         served[s] = c /\ pc[s] = "srv_info"
    /\ s = N - 1 /\ other[c] = s /\ pc[c] \in {"cli_read", "cli_send"} /\ l.alive =>
         /\ served[s] = c
         /\ \/ pc[s] = "srv_info" /\ l.up = <<Info(c)>>
            \/ pc[s] \in {"srv_send", "srv_share"} /\ l.up = <<>>
    /\ s # N - 1 => l.down = <<>>
    /\ s # N - 1 /\ other[c] = s /\ pc[c] = "cli_send" => ~l.alive

\* What an enclave has read or is about to read.
ReadInv ==
  \A p \in Players :
    /\ pc[p] \in Before => local[p] \in Seq(SharesOf(p))
    /\ pc[p] \in {"cli_send", "cli_add"} => received[p] \in SharesOf(other[p]) \cup {Null}

ProtocolInv == TypeOK /\ RoleInv /\ SlotInv /\ BacklogInv /\ ChannelInv /\ ReadInv

-----------------------------------------------------------------------------
\* All hosts fit the buffers.
HostsFit == \A e \in Environments : \A p, q \in Players : e[p].hosts[q] < ClientHostBuffer

\* The players between the first and the last one are servers first.
Middle(p) == 0 < p /\ p < N - 1

\* Player 0 has not yet connected to its first server.
Fresh ==
  \/ pc[0] \in Before \cup {"cli_setup"}
  \/ pc[0] \in {"cli_endpoint", "cli_connect"} /\ other[0] = N - 1

\* Then player 0 is the first client of every server.  As only the last one
\* completes a handshake, the servers in between wait for player 0 until they
\* end, and never become clients themselves.
FirstInv ==
  /\ \A p \in Players :
       /\ pc[p] = "srv_setup" => other[p] = 0
       /\ Middle(p) =>
            /\ pc[p] \in Before \cup {"srv_setup", "srv_accept", "exited"}
            /\ pc[p] = "srv_accept" =>
                 other[p] = 0 /\ \A i \in 1 .. Len(backlog[p]) : backlog[p][i] = 0
  /\ Listening(N - 1) =>
       /\ Fresh => pc[N - 1] = "srv_accept" /\ other[N - 1] = 0 /\ backlog[N - 1] = <<>>
       /\ backlog[N - 1] = <<>> \/ backlog[N - 1] = <<0>>
       /\ backlog[N - 1] # <<>> => pc[N - 1] = "srv_accept" /\ other[N - 1] = 0

\* Of two players, each attests the other in their handshake.
AttestedInv ==
  \A p \in Players :
    /\ pc[p] \in Before \cup {"srv_setup", "srv_accept", "cli_setup", "cli_endpoint",
                              "cli_connect", "cli_handshake"} => attested[p] = {}
    /\ pc[p] \in Attending \cup Talking \cup {"srv_close", "launch", "generated"} =>
         attested[p] = Players \ {p}

OrderInv == FirstInv /\ AttestedInv

-----------------------------------------------------------------------------
(***************************************************************************)
(* The outcomes of a step, as far as the invariants tell them apart: some  *)
(* enclaves end, a KII process takes a step, an enclave moves on alone, or *)
(* one of the steps below succeeds.                                        *)
(***************************************************************************)
Exits(P) ==
  /\ P \in SUBSET Players
  /\ \A p \in P : pc[p] \notin Ended
  /\ pc' = [p \in Players |-> IF p \in P THEN "exited" ELSE pc[p]]
  /\ link' = Hangup(P)
  /\ UNCHANGED <<env, other, seed, macKeys, attested, launched>>
  /\ \A q \in Players \ P : /\ local'[q] = local[q] /\ received'[q] = received[q]
                            /\ served'[q] = served[q] /\ backlog'[q] = backlog[q]
  /\ local' \in [Players -> Seq(SecretShare)]
  /\ received' \in [Players -> SecretShare \cup {Null}]
  /\ backlog' \in [Players -> Seq(Players)] /\ served' \in [Players -> Players \cup {None}]

KiiMoves ==
  /\ UNCHANGED <<env, pc, exchanged, connections, launched>>
  /\ UNCHANGED local \/ \E p \in Players : KiiSend(p)

Moves(p, x) ==
  /\ \/ pc[p] \in Before /\ x \in Before
     \/ pc[p] = "srv_setup" /\ x = "srv_accept"
     \/ pc[p] = "srv_setup" /\ x = AfterServer(p) /\ ~HostsFit
     \/ pc[p] = "srv_info" /\ x = "srv_close" /\ ~link[<<served[p], p>>].alive
     \/ pc[p] = "cli_endpoint" /\ x = "cli_connect"
     \/ pc[p] = "cli_endpoint" /\ x = "launch" /\ ~HostsFit
  /\ pc' = [pc EXCEPT ![p] = x]
  /\ UNCHANGED <<env, local, exchanged, connections, launched>>

OwnShareRead(p) ==
  /\ pc[p] = "local_read"
  /\ \E message \in Unpacked(local[p], kii[p] # "exited") \ {Null} :
       macKeys' = [macKeys EXCEPT ![p][p] = message.mackeyshare]
  /\ pc' = [pc EXCEPT ![p] = AfterLocal(p)]
  /\ local' = [local EXCEPT ![p] = <<>>]
  /\ UNCHANGED <<env, other, seed, received, attested, connections, launched>>

Accepted(s, c) ==
  /\ pc[s] = "srv_accept" /\ backlog[s] # <<>> /\ c = Head(backlog[s]) /\ s = N - 1
  /\ link[<<c, s>>].alive /\ Accepts(c, s)
  /\ \/ /\ Accepts(s, c)
        /\ pc' = [pc EXCEPT ![s] = "srv_info", ![c] = "cli_info"]
        /\ attested' = [attested EXCEPT ![s] = @ \cup {c}, ![c] = @ \cup {s}]
        /\ UNCHANGED link
     \/ /\ ~Accepts(s, c)
        /\ pc' = [p \in Players |-> IF p = s THEN "exited"
                                    ELSE IF p = c THEN "cli_info" ELSE pc[p]]
        /\ attested' = [attested EXCEPT ![c] = @ \cup {s}]
        /\ link' = Hangup({s})
  /\ backlog' = [backlog EXCEPT ![s] = Tail(@)]
  /\ served' = [served EXCEPT ![s] = c]
  /\ UNCHANGED <<env, local, other, seed, macKeys, received, launched>>

InfoRead(s) ==
  LET pair == <<served[s], s>> IN
  /\ pc[s] = "srv_info"
  /\ link[pair].up # <<>> /\ verify_player_details(s, Head(link[pair].up))
  /\ pc' = [pc EXCEPT ![s] = "srv_send"]
  /\ link' = [link EXCEPT ![pair].up = Tail(@)]
  /\ UNCHANGED <<env, local, exchanged, backlog, served, launched>>

ShareSent(s) ==
  LET pair == <<served[s], s>> IN
  /\ pc[s] = "srv_send"
  /\ pc' = [pc EXCEPT ![s] = "srv_share"]
  /\ link' = [link EXCEPT ![pair].down =
                IF link[pair].alive THEN Append(@, MyShare(s)) ELSE @]
  /\ UNCHANGED <<env, local, exchanged, backlog, served, launched>>

ShareRead(s) ==
  LET pair == <<served[s], s>> IN
  /\ pc[s] = "srv_share"
  /\ \E message \in Unpacked(link[pair].up, link[pair].alive) \ {Null} :
       StoreShare(s, message)
  /\ other' = [other EXCEPT ![s] = @ + 1]
  /\ pc' = [pc EXCEPT ![s] = IF other[s] + 1 >= s THEN AfterServer(s) ELSE "srv_accept"]
  /\ link' = [link EXCEPT ![pair].up = <<>>]
  /\ served' = [served EXCEPT ![s] = None]
  /\ UNCHANGED <<env, local, received, attested, backlog, launched>>

RoleTaken(c) ==
  /\ pc[c] = "cli_setup"
  /\ pc' = [pc EXCEPT ![c] = "cli_endpoint"]
  /\ other' = [other EXCEPT ![c] = N - 1]
  /\ UNCHANGED <<env, local, seed, macKeys, received, attested, connections, launched>>

Queued(c, x, y, message) ==
  /\ pc[c] = x
  /\ pc' = [pc EXCEPT ![c] = y]
  /\ link' = Up(c, message)
  /\ UNCHANGED <<env, local, exchanged, backlog, served, launched>>

ShareAdded(c) ==
  /\ pc[c] = "cli_add"
  /\ received[c] # Null
  /\ StoreShare(c, received[c])
  /\ other' = [other EXCEPT ![c] = @ - 1]
  /\ pc' = [pc EXCEPT ![c] = IF other[c] - 1 >= c + 1 THEN "cli_endpoint" ELSE "launch"]
  /\ received' = [received EXCEPT ![c] = Null]
  /\ UNCHANGED <<env, local, attested, connections, launched>>

Generates(p) ==
  /\ pc[p] = "launch"
  /\ env[p].tupleType # UnknownType /\ env[p].tuples # None
  /\ launched' = [launched EXCEPT ![p] = {Command(p)}]
  /\ pc' = [pc EXCEPT ![p] = "generated"]
  /\ UNCHANGED <<env, local, exchanged, connections>>

Breaks(pair) ==
  /\ \/ link' = [link EXCEPT ![pair].alive = FALSE]
     \/ link' = [link EXCEPT ![pair] = [alive |-> FALSE, up |-> <<>>, down |-> <<>>]]
  /\ UNCHANGED <<env, pc, local, exchanged, backlog, served, launched>>

ServerOutcome(s) ==
  \/ \E c \in Players : Accepted(s, c)
  \/ InfoRead(s) \/ ShareSent(s) \/ ShareRead(s)
ClientOutcome(c) ==
  \/ RoleTaken(c) \/ ClientConnect(c)
  \/ Queued(c, "cli_info", "cli_read", Info(c))
  \/ ClientReadShare(c)
  \/ Queued(c, "cli_send", "cli_add", MyShare(c))
  \/ ShareAdded(c)
Outcome ==
  \/ \E P : Exits(P)
  \/ KiiMoves
  \/ \E p \in Players : \E x : Moves(p, x)
  \/ \E p \in Players : OwnShareRead(p) \/ ServerOutcome(p) \/ ClientOutcome(p) \/ Generates(p)
  \/ \E pair \in Pairs : Breaks(pair)

\* An enclave that exits leaves the others as they are.
LEMMA ExitOutcome ==
  ASSUME TypeOK, NEW p \in Players, NEW ret, Exit(p, ret), pc[p] \notin Ended,
         UNCHANGED <<env, other, seed, macKeys, attested, launched, served, backlog>>,
         local' \in {local, [local EXCEPT ![p] = <<>>]},
         received' \in {received, [received EXCEPT ![p] = Null]}
  PROVE  Exits({p})
<1>1. DOMAIN [q \in {p} |-> ret] = {p} OBVIOUS
<1>2. pc' = [q \in Players |-> IF q \in {p} THEN "exited" ELSE pc[q]] /\ link' = Hangup({p})
  BY <1>1 DEF Exit, Leave
<1>3. \A q \in Players \ {p} : local'[q] = local[q] /\ received'[q] = received[q]
  <2>1. \A q \in Players \ {p} : local'[q] = local[q] BY DEF TypeOK
  <2>2. \A q \in Players \ {p} : received'[q] = received[q] BY DEF TypeOK
  <2> QED BY <2>1, <2>2
<1>4. <<>> \in Seq(SecretShare) OBVIOUS
<1>5. /\ local' \in [Players -> Seq(SecretShare)]
      /\ received' \in [Players -> SecretShare \cup {Null}]
  <2>1. local' \in [Players -> Seq(SecretShare)]
    <3>1. local \in [Players -> Seq(SecretShare)] BY DEF TypeOK
    <3>2. [local EXCEPT ![p] = <<>>] \in [Players -> Seq(SecretShare)] BY <1>4, <3>1, Zenon
    <3> QED BY <3>1, <3>2
  <2>2. received' \in [Players -> SecretShare \cup {Null}] BY DEF TypeOK
  <2> QED BY <2>1, <2>2
<1>6. /\ backlog' \in [Players -> Seq(Players)]
      /\ served' \in [Players -> Players \cup {None}]
  BY DEF TypeOK
<1> QED BY <1>2, <1>3, <1>5, <1>6 DEF Exits

\* Each step has one of these outcomes.
LEMMA Outcomes ==
  ASSUME TypeOK, RoleInv, BacklogInv, [Next]_vars
  PROVE  Outcome
<1> USE DEF Ended
<1>0. \A p \in Players : ~HostsFit \/ \A q \in Players : env[p].hosts[q] < ClientHostBuffer
  BY DEF RoleInv, HostsFit
<1>1. ASSUME NEW p \in Players, Start(p) \/ LocalSetup(p) \/ LocalHandshake(p) PROVE Outcome
  <2>1. CASE \E ret : Exit(p, ret)
    <3>1. pc[p] \notin Ended /\ UNCHANGED <<env, other, seed, macKeys, attested, launched,
                                            served, backlog, local, received>>
      BY <1>1 DEF Start, LocalSetup, LocalHandshake, exchanged
    <3> QED BY <2>1, <3>1, ExitOutcome DEF Outcome
  <2>2. CASE ~\E ret : Exit(p, ret)
    <3>1. \E x \in Before : pc' = [pc EXCEPT ![p] = x] /\ UNCHANGED link
      BY <1>1, <2>2 DEF Start, LocalSetup, LocalHandshake, LibraryFails, Before
    <3>2. pc[p] \in Before /\ UNCHANGED <<env, local, exchanged, backlog, served, launched>>
      BY <1>1 DEF Start, LocalSetup, LocalHandshake, Before
    <3> QED BY <3>1, <3>2 DEF Outcome, Moves, connections
  <2> QED BY <2>1, <2>2
<1>2. ASSUME NEW p \in Players, LocalRead(p) PROVE Outcome
  <2>1. CASE (\E ret : Exit(p, ret)) /\ UNCHANGED macKeys
    <3>1. pc[p] \notin Ended /\ UNCHANGED <<env, other, seed, macKeys, attested, launched,
                                            served, backlog, received>>
          /\ local' = [local EXCEPT ![p] = <<>>]
      BY <1>2, <2>1 DEF LocalRead
    <3> QED BY <2>1, <3>1, ExitOutcome DEF Outcome
  <2>2. CASE ~((\E ret : Exit(p, ret)) /\ UNCHANGED macKeys)
    <3>1. OwnShareRead(p)
      BY <1>2, <2>2 DEF LocalRead, OwnShareRead, LibraryFails, connections
    <3> QED BY <3>1 DEF Outcome
  <2> QED BY <2>1, <2>2
<1>3. ASSUME NEW p \in Players, ServerSetup(p) PROVE Outcome
  <2>1. pc[p] = "srv_setup" /\ UNCHANGED <<env, local, exchanged, backlog, served, launched>>
    BY <1>3 DEF ServerSetup
  <2>2. CASE \E ret : Exit(p, ret)
    BY <2>1, <2>2, ExitOutcome DEF Outcome, exchanged
  <2>3. CASE ~\E ret : Exit(p, ret)
    <3>1. env[p].hosts[p] \in Nat \cup {None}
      BY TeeAssumption DEF RoleInv, EnvironmentType
    <3>2. UNCHANGED link /\ \/ pc' = [pc EXCEPT ![p] = "srv_accept"]
                            \/ pc' = [pc EXCEPT ![p] = AfterServer(p)] /\ ~HostsFit
      BY <1>0, <1>3, <2>3, <3>1
         DEF ServerSetup, LibraryFails, ServerHostBuffer, ClientHostBuffer, None
    <3> QED BY <2>1, <3>2 DEF Outcome, Moves, connections
  <2> QED BY <2>2, <2>3
<1>4. ASSUME NEW p \in Players, ClientEndpoint(p) PROVE Outcome
  <2>1. pc[p] = "cli_endpoint" /\ UNCHANGED <<env, local, exchanged, backlog, served, launched>>
    BY <1>4 DEF ClientEndpoint
  <2>2. CASE \E ret : Exit(p, ret)
    BY <2>1, <2>2, ExitOutcome DEF Outcome, exchanged
  <2>3. CASE ~\E ret : Exit(p, ret)
    <3>1. other[p] \in Players BY DEF TypeOK
    <3>2. UNCHANGED link /\ \/ pc' = [pc EXCEPT ![p] = "cli_connect"]
                            \/ pc' = [pc EXCEPT ![p] = "launch"] /\ ~HostsFit
      BY <1>0, <1>4, <2>3, <3>1 DEF ClientEndpoint, LibraryFails
    <3> QED BY <2>1, <3>2 DEF Outcome, Moves, connections
  <2> QED BY <2>2, <2>3
<1>5. ASSUME NEW s \in Players, ServerHandshake(s) PROVE Outcome
  <2> DEFINE c == Head(backlog[s])
  <2>1. pc[s] = "srv_accept" /\ backlog[s] # <<>> /\ backlog[s] \in Seq(Players)
    BY <1>5 DEF ServerHandshake, TypeOK
  <2>2. c \in Players /\ c < s /\ (s = N - 1 /\ link[<<c, s>>].alive => pc[c] = "cli_handshake")
    <3>1. c = backlog[s][1] /\ 1 \in 1 .. Len(backlog[s]) /\ c \in Players
      BY <2>1
    <3>2. c < s /\ (s = N - 1 => pc[c] = "exited" \/ pc[c] = "cli_handshake")
      BY <2>1, <3>1 DEF BacklogInv, Listening
    <3> QED BY <3>1, <3>2 DEF BacklogInv
  <2> HIDE DEF c
  <2>3. /\ backlog' = [backlog EXCEPT ![s] = Tail(@)] /\ served' = [served EXCEPT ![s] = c]
        /\ UNCHANGED <<env, local, other, seed, macKeys, received, launched>>
    BY <1>5 DEF ServerHandshake, c
  <2> DEFINE Typed == /\ local' \in [Players -> Seq(SecretShare)]
                      /\ received' \in [Players -> SecretShare \cup {Null}]
                      /\ backlog' \in [Players -> Seq(Players)]
                      /\ served' \in [Players -> Players \cup {None}]
  <2>a. Typed
    <3>1. Tail(backlog[s]) \in Seq(Players) BY <2>1
    <3> QED BY <2>2, <2>3, <3>1 DEF TypeOK
  <2>4. ASSUME NEW codes, Leave(codes, pc), DOMAIN codes = {s}, UNCHANGED attested
        PROVE  Exits({s})
    <3>1. pc' = [q \in Players |-> IF q \in {s} THEN "exited" ELSE pc[q]] /\ link' = Hangup({s})
      BY <2>4 DEF Leave
    <3> QED BY <2>1, <2>3, <2>4, <2>a, <3>1 DEF Exits, TypeOK
  <2>5. ASSUME NEW codes, Leave(codes, pc), DOMAIN codes = {c, s}, UNCHANGED attested,
               link[<<c, s>>].alive, s = N - 1
        PROVE  Exits({c, s})
    <3>1. pc' = [q \in Players |-> IF q \in {c, s} THEN "exited" ELSE pc[q]]
          /\ link' = Hangup({c, s})
      BY <2>5 DEF Leave
    <3> QED BY <2>1, <2>2, <2>3, <2>5, <2>a, <3>1 DEF Exits, TypeOK
  <2>6. CASE (Exit(s, CONN_EOF) \/ Exit(s, UNEXPECTED_MESSAGE)) /\ UNCHANGED attested
    BY <2>4, <2>6 DEF Outcome, Exit
  <2>7. CASE /\ s = N - 1 /\ link[<<c, s>>].alive /\ Accepts(c, s) /\ Accepts(s, c)
             /\ pc' = [pc EXCEPT ![s] = "srv_info", ![c] = "cli_info"]
             /\ attested' = [attested EXCEPT ![s] = @ \cup {c}, ![c] = @ \cup {s}]
             /\ UNCHANGED <<kii, status, link>>
    <3>1. Accepted(s, c) BY <2>1, <2>3, <2>7 DEF Accepted, c
    <3> QED BY <2>2, <3>1 DEF Outcome, ServerOutcome
  <2>8. CASE /\ s = N - 1 /\ link[<<c, s>>].alive /\ UNCHANGED attested
             /\ \E ret \in [{c, s} -> Int] : Leave(ret, pc)
    BY <2>5, <2>8 DEF Outcome
  <2>9. CASE /\ s = N - 1 /\ link[<<c, s>>].alive /\ Accepts(c, s) /\ ~Accepts(s, c)
             /\ Leave([p \in {s} |-> X509_FATAL_ERROR], [pc EXCEPT ![c] = "cli_info"])
             /\ attested' = [attested EXCEPT ![c] = @ \cup {s}]
    <3>1. /\ pc' = [p \in Players |-> IF p \in {s} THEN "exited"
                                      ELSE [pc EXCEPT ![c] = "cli_info"][p]]
          /\ link' = Hangup({s})
      BY <2>9 DEF Leave
    <3>2. pc' = [p \in Players |-> IF p = s THEN "exited"
                                   ELSE IF p = c THEN "cli_info" ELSE pc[p]]
      BY <2>2, <3>1 DEF TypeOK
    <3>3. Accepted(s, c) BY <2>1, <2>3, <2>9, <3>1, <3>2 DEF Accepted, c
    <3> QED BY <2>2, <3>3 DEF Outcome, ServerOutcome
  <2>10. \/ <2>6!1 \/ <2>7!1 \/ <2>8!1 \/ <2>9!1
    <3>1. /\ [p \in {c, s} |-> IF p = c THEN X509_FATAL_ERROR ELSE FATAL_ALERT_MESSAGE]
               \in [{c, s} -> Int]
          /\ [p \in {c, s} |-> IF p = s THEN X509_FATAL_ERROR ELSE FATAL_ALERT_MESSAGE]
               \in [{c, s} -> Int]
      BY DEF X509_FATAL_ERROR, FATAL_ALERT_MESSAGE
    <3> QED BY <1>5, <3>1 DEF ServerHandshake, FirstServer, c
  <2> QED BY <2>6, <2>7, <2>8, <2>9, <2>10
<1>6. ASSUME NEW s \in Players, ServerReadInfo(s) \/ ServerSendShare(s) PROVE Outcome
  <2>1. pc[s] \notin Ended /\ UNCHANGED <<env, local, exchanged, backlog, served, launched>>
    BY <1>6 DEF ServerReadInfo, ServerSendShare
  <2>2. CASE \E ret : Exit(s, ret)
    BY <2>1, <2>2, ExitOutcome DEF Outcome, exchanged
  <2>3. CASE ~\E ret : Exit(s, ret)
    <3>1. InfoRead(s) \/ ShareSent(s) \/ Moves(s, "srv_close")
      BY <1>6, <2>3 DEF ServerReadInfo, ServerSendShare, InfoRead, ShareSent, Moves, connections
    <3> QED BY <3>1 DEF Outcome, ServerOutcome
  <2> QED BY <2>2, <2>3
<1>7. ASSUME NEW s \in Players, ServerReadShare(s) PROVE Outcome
  <2>1. pc[s] = "srv_share" /\ UNCHANGED <<env, local, received, attested, backlog, launched>>
    BY <1>7 DEF ServerReadShare
  <2>2. CASE (\E ret : Exit(s, ret)) /\ UNCHANGED <<other, seed, macKeys, served>>
    BY <2>1, <2>2, ExitOutcome DEF Outcome
  <2>3. CASE ~((\E ret : Exit(s, ret)) /\ UNCHANGED <<other, seed, macKeys, served>>)
    <3>1. ShareRead(s)
      BY <1>7, <2>3 DEF ServerReadShare, ShareRead, LibraryFails
    <3> QED BY <3>1 DEF Outcome, ServerOutcome
  <2> QED BY <2>2, <2>3
<1>8. ASSUME NEW c \in Players, ClientSetup(c) PROVE Outcome
  <2>1. pc[c] = "cli_setup" /\ UNCHANGED <<env, local, seed, macKeys, received, attested,
                                           backlog, served, launched>>
    BY <1>8 DEF ClientSetup
  <2>2. CASE Exit(c, 1) /\ UNCHANGED other
    BY <2>1, <2>2, ExitOutcome DEF Outcome
  <2>3. CASE ~(Exit(c, 1) /\ UNCHANGED other)
    <3>1. RoleTaken(c) BY <1>8, <2>3 DEF ClientSetup, RoleTaken, connections
    <3> QED BY <3>1 DEF Outcome, ClientOutcome
  <2> QED BY <2>2, <2>3
<1>9. ASSUME NEW c \in Players,
             ClientHandshakeLost(c) \/ ClientSendInfo(c) \/ ClientSendShare(c)
      PROVE  Outcome
  <2>1. pc[c] \notin Ended /\ UNCHANGED <<env, local, exchanged, backlog, served, launched>>
    BY <1>9 DEF ClientHandshakeLost, ClientSendInfo, ClientSendShare
  <2>2. CASE \E ret : Exit(c, ret)
    BY <2>1, <2>2, ExitOutcome DEF Outcome, exchanged
  <2>3. CASE ~\E ret : Exit(c, ret)
    <3>1. \/ Queued(c, "cli_info", "cli_read", Info(c))
          \/ Queued(c, "cli_send", "cli_add", MyShare(c))
      BY <1>9, <2>3 DEF ClientHandshakeLost, ClientSendInfo, ClientSendShare, Queued, Info
    <3> QED BY <3>1 DEF Outcome, ClientOutcome
  <2> QED BY <2>2, <2>3
<1>10. ASSUME NEW c \in Players, ClientConnect(c) \/ ClientReadShare(c) PROVE Outcome
  BY <1>10 DEF Outcome, ClientOutcome
<1>11. ASSUME NEW c \in Players, ClientAddShare(c) PROVE Outcome
  <2>1. pc[c] = "cli_add" /\ UNCHANGED <<env, local, attested, backlog, served, launched>>
        /\ received' = [received EXCEPT ![c] = Null]
    BY <1>11 DEF ClientAddShare
  <2>2. CASE (\E ret : Exit(c, ret)) /\ UNCHANGED <<other, seed, macKeys>>
    BY <2>1, <2>2, ExitOutcome DEF Outcome
  <2>3. CASE ~((\E ret : Exit(c, ret)) /\ UNCHANGED <<other, seed, macKeys>>)
    <3>1. ShareAdded(c)
      BY <1>11, <2>3 DEF ClientAddShare, ShareAdded, LibraryFails, connections
    <3> QED BY <3>1 DEF Outcome, ClientOutcome
  <2> QED BY <2>2, <2>3
<1>12. ASSUME NEW p \in Players, Launch(p) PROVE Outcome
  <2>1. pc[p] = "launch" /\ UNCHANGED <<env, local, exchanged, backlog, served>>
    BY <1>12 DEF Launch
  <2>2. CASE (\E ret : Exit(p, ret)) /\ UNCHANGED launched
    BY <2>1, <2>2, ExitOutcome DEF Outcome, exchanged
  <2>3. CASE ~((\E ret : Exit(p, ret)) /\ UNCHANGED launched)
    <3>1. Generates(p) BY <1>12, <2>3 DEF Launch, Generates, connections
    <3> QED BY <3>1 DEF Outcome
  <2> QED BY <2>2, <2>3
<1>13. ASSUME NEW p \in Players, Kii(p) PROVE Outcome
  BY <1>13 DEF Kii, KiiSetup, KiiConnect, KiiSend, Outcome, KiiMoves
<1>14. ASSUME NEW p \in Players, Kill(p) PROVE Outcome
  <2>1. pc[p] \notin Ended /\ UNCHANGED <<env, local, exchanged, backlog, served, launched>>
    BY <1>14 DEF Kill
  <2> QED BY <1>14, <2>1, ExitOutcome DEF Kill, Outcome, exchanged
<1>15. ASSUME NEW pair \in Pairs, Break(pair) PROVE Outcome
  BY <1>15 DEF Break, Outcome, Breaks
<1>16. ASSUME UNCHANGED vars PROVE Outcome
  BY <1>16 DEF vars, Outcome, KiiMoves, exchanged, connections
<1> QED BY <1>1, <1>2, <1>3, <1>4, <1>5, <1>6, <1>7, <1>8, <1>9, <1>10, <1>11, <1>12,
           <1>13, <1>14, <1>15, <1>16
        DEF Next, Enclave, Server, Client

\* The exit status is a byte.
LEMMA StatusByte == \A ret \in Int : ExitStatus(ret) \in 0 .. 255
BY DEF ExitStatus

LEMMA LeaveTypes ==
  ASSUME TypeOK, NEW P \in SUBSET Players, NEW codes \in [P -> Int], NEW pcs, Leave(codes, pcs)
  PROVE  /\ kii' \in [Players -> {"start", "connect", "handshake", "send", "exited"}]
         /\ status' \in [Players -> 0 .. 255 \cup {None}]
<1>1. DOMAIN codes = P /\ \A p \in P : codes[p] \in Int OBVIOUS
<1> QED BY <1>1, StatusByte DEF Leave, TypeOK

LEMMA ExitTypes ==
  ASSUME TypeOK, NEW p \in Players, NEW ret \in Int, Exit(p, ret)
  PROVE  /\ kii' \in [Players -> {"start", "connect", "handshake", "send", "exited"}]
         /\ status' \in [Players -> 0 .. 255 \cup {None}]
<1>1. [q \in {p} |-> ret] \in [{p} -> Int] OBVIOUS
<1> QED BY <1>1, LeaveTypes DEF Exit

\* The variables that the invariants do not speak of.
LEMMA ProcessTypes ==
  ASSUME TypeOK, [Next]_vars
  PROVE  /\ kii' \in [Players -> {"start", "connect", "handshake", "send", "exited"}]
         /\ status' \in [Players -> 0 .. 255 \cup {None}]
         /\ faults' \in 0 .. MaxFaults
<1> DEFINE Codes == {X509_FATAL_ERROR, HANDSHAKE_FAILURE, FATAL_ALERT_MESSAGE, CONN_EOF,
                     UNEXPECTED_MESSAGE, CONN_RESET, BIND_FAILED, SIGSEGV, SIGKILL, MessageLength, -1, 0, 1}
           Typed == /\ kii' \in [Players -> {"start", "connect", "handshake", "send", "exited"}]
                    /\ status' \in [Players -> 0 .. 255 \cup {None}]
           Kept == UNCHANGED <<kii, status>>
<1>1. Codes \subseteq Int
  BY DEF X509_FATAL_ERROR, HANDSHAKE_FAILURE, FATAL_ALERT_MESSAGE, CONN_EOF, CONN_RESET,
         UNEXPECTED_MESSAGE, BIND_FAILED, SIGSEGV, SIGKILL, MessageLength
<1>2. ASSUME NEW p \in Players, \E ret \in Codes : Exit(p, ret) PROVE Typed
  BY <1>1, <1>2, ExitTypes
<1>3. Kept => Typed BY DEF TypeOK
<1>4. faults' \in 0 .. MaxFaults
  <2> DEFINE Counted == UNCHANGED faults \/ (faults < MaxFaults /\ faults' = faults + 1)
  <2>1. ASSUME NEW p \in Players, Start(p) \/ LocalSetup(p) \/ LocalHandshake(p) \/ LocalRead(p)
        PROVE  Counted
    BY <2>1 DEF Start, LocalSetup, LocalHandshake, LocalRead, LibraryFails
  <2>2. ASSUME NEW p \in Players, Server(p) PROVE Counted
    BY <2>2 DEF Server, ServerSetup, ServerHandshake, ServerReadInfo, ServerSendShare,
                ServerReadShare, LibraryFails
  <2>3. ASSUME NEW p \in Players, Client(p) PROVE Counted
    BY <2>3 DEF Client, ClientSetup, ClientEndpoint, ClientConnect, ClientHandshakeLost,
                ClientSendInfo, ClientReadShare, ClientSendShare, ClientAddShare, LibraryFails
  <2>4. ASSUME NEW p \in Players, Launch(p) \/ Kii(p) \/ Kill(p) PROVE Counted
    BY <2>4 DEF Launch, Kii, KiiSetup, KiiConnect, KiiSend, Kill
  <2>5. Counted
    BY <2>1, <2>2, <2>3, <2>4 DEF Next, Enclave, Break, vars
  <2> QED BY <2>5, TeeAssumption DEF TypeOK
<1>5. ASSUME NEW p \in Players, Kii(p) PROVE Typed
  BY <1>5 DEF Kii, KiiSetup, KiiConnect, KiiSend, TypeOK
<1>6. ASSUME NEW p \in Players, Start(p) \/ LocalSetup(p) \/ LocalHandshake(p) \/ LocalRead(p)
      PROVE  Typed
  <2>1. (\E ret \in Codes : Exit(p, ret)) \/ Kept
        \/ (kii' = [kii EXCEPT ![p] = "send"] /\ UNCHANGED status)
    BY <1>6 DEF Start, LocalSetup, LocalHandshake, LocalRead, LibraryFails
  <2> HIDE DEF Codes
  <2> QED BY <1>2, <1>3, <2>1 DEF TypeOK
<1>7. ASSUME NEW p \in Players, ServerSetup(p) \/ ServerReadInfo(p) \/ ServerSendShare(p)
                                \/ ServerReadShare(p)
      PROVE  Typed
  <2>1. (\E ret \in Codes : Exit(p, ret)) \/ Kept
    BY <1>7 DEF ServerSetup, ServerReadInfo, ServerSendShare, ServerReadShare, LibraryFails
  <2> HIDE DEF Codes
  <2> QED BY <1>2, <1>3, <2>1
<1>8. ASSUME NEW p \in Players, Client(p) PROVE Typed
  <2>1. (\E ret \in Codes : Exit(p, ret)) \/ Kept
    BY <1>8 DEF Client, ClientSetup, ClientEndpoint, ClientConnect, ClientHandshakeLost,
                ClientSendInfo, ClientReadShare, ClientSendShare, ClientAddShare, LibraryFails
  <2> HIDE DEF Codes
  <2> QED BY <1>2, <1>3, <2>1
<1>9. ASSUME NEW p \in Players, Launch(p) PROVE Typed
  <2>1. (\E ret \in Codes : Exit(p, ret))
        \/ (status' = [status EXCEPT ![p] = 0] /\ kii' = [kii EXCEPT ![p] = "exited"])
    BY <1>9 DEF Launch
  <2>2. CASE \E ret \in Codes : Exit(p, ret) BY <1>2, <2>2
  <2>3. CASE status' = [status EXCEPT ![p] = 0] /\ kii' = [kii EXCEPT ![p] = "exited"]
    <3>1. 0 \in 0 .. 255 \cup {None} OBVIOUS
    <3> QED BY <2>3, <3>1 DEF TypeOK
  <2> QED BY <2>1, <2>2, <2>3
<1>10. ASSUME NEW s \in Players, ServerHandshake(s) PROVE Typed
  <2> DEFINE c == Head(backlog[s])
  <2>1. c \in Players BY <1>10 DEF ServerHandshake, TypeOK
  <2>2. \/ Exit(s, CONN_EOF) \/ Exit(s, UNEXPECTED_MESSAGE) \/ Kept
        \/ \E codes \in [{c, s} -> Int] : Leave(codes, pc)
        \/ Leave([p \in {s} |-> X509_FATAL_ERROR], [pc EXCEPT ![c] = "cli_info"])
    <3>1. /\ [p \in {c, s} |-> IF p = c THEN X509_FATAL_ERROR ELSE FATAL_ALERT_MESSAGE]
               \in [{c, s} -> Int]
          /\ [p \in {c, s} |-> IF p = s THEN X509_FATAL_ERROR ELSE FATAL_ALERT_MESSAGE]
               \in [{c, s} -> Int]
      BY DEF X509_FATAL_ERROR, FATAL_ALERT_MESSAGE
    <3> QED BY <1>10, <3>1 DEF ServerHandshake
  <2>3. [p \in {s} |-> X509_FATAL_ERROR] \in [{s} -> Int] BY DEF X509_FATAL_ERROR
  <2>4. CASE Exit(s, CONN_EOF) \/ Exit(s, UNEXPECTED_MESSAGE) BY <1>2, <2>4
  <2>5. CASE \E codes \in [{c, s} -> Int] : Leave(codes, pc) BY <2>1, <2>5, LeaveTypes
  <2>6. CASE Leave([p \in {s} |-> X509_FATAL_ERROR], [pc EXCEPT ![c] = "cli_info"])
    BY <2>3, <2>6, LeaveTypes
  <2> QED BY <1>3, <2>2, <2>4, <2>5, <2>6
<1>11. ASSUME NEW p \in Players, Kill(p) PROVE Typed
  BY <1>2, <1>11 DEF Kill
<1>12. ASSUME NEW pair \in Pairs, Break(pair) PROVE Typed
  BY <1>3, <1>12 DEF Break
<1>13. ASSUME UNCHANGED vars PROVE Typed
  BY <1>3, <1>13 DEF vars
<1> QED BY <1>4, <1>5, <1>6, <1>7, <1>8, <1>9, <1>10, <1>11, <1>12, <1>13
        DEF Next, Enclave, Server

\* Facts about seeds and messages.
LEMMA MessageFacts ==
  /\ \A x \in Players \cup {Junk} : OwnSeed(x) \in Seeds
  /\ \A a, b \in Seeds : addHex(a, b) \in Seeds
  /\ \A q : SharesOf(q) \subseteq SecretShare
  /\ \A q : \A m \in SharesOf(q) :
       m.mackeyshare \in {q, Junk} /\ m.mackeyshare \in Shares /\ m.seeds \in Seeds
  /\ \A q : JunkShare \in SharesOf(q)
  /\ Null \notin SecretShare /\ None \notin Shares
<1> USE TeeAssumption
<1>1. \A x \in Players \cup {Junk} : OwnSeed(x) \in Seeds
  <2>1. 0 \in 0 .. SeedModulus - 1 /\ 1 \in 0 .. SeedModulus - 1 OBVIOUS
  <2> QED BY <2>1 DEF OwnSeed, Seeds
<1>2. \A a, b \in Seeds : addHex(a, b) \in Seeds
  <2>1. \A x, y \in 0 .. SeedModulus - 1 : (x + y) % SeedModulus \in 0 .. SeedModulus - 1
    OBVIOUS
  <2> QED BY <2>1 DEF addHex, Seeds
<1>3. \A q : SharesOf(q) \subseteq SecretShare BY DEF SharesOf
<1>4. \A q : \A m \in SharesOf(q) :
        m.mackeyshare \in {q, Junk} /\ m.mackeyshare \in Shares /\ m.seeds \in Seeds
  BY DEF SharesOf, SecretShare
<1>5. \A q : JunkShare \in SharesOf(q)
  <2>1. JunkShare \in SecretShare BY <1>1 DEF JunkShare, SecretShare, Shares
  <2> QED BY <2>1 DEF SharesOf, JunkShare
<1>6. None \notin Shares BY DEF Shares, None, Junk, Players
<1>7. Null \notin SecretShare BY <1>6 DEF Null, SecretShare
<1> QED BY <1>1, <1>2, <1>3, <1>4, <1>5, <1>6, <1>7

\* What comes out of a buffer.
LEMMA UnpackedFacts ==
  ASSUME NEW q \in Players, NEW queue \in Seq(SharesOf(q)), NEW alive \in BOOLEAN,
         NEW message \in Unpacked(queue, alive)
  PROVE  /\ message \in SharesOf(q) \cup {Null}
         /\ message # Null => message \in SharesOf(q)
         /\ alive => queue # <<>>
         /\ ~JunkParses /\ message # Null => queue # <<>> /\ message = Head(queue)
<1>1. CASE queue # <<>>
  <2>1. Head(queue) \in SharesOf(q) BY <1>1
  <2> QED BY <1>1, <2>1 DEF Unpacked
<1>2. CASE queue = <<>>
  BY <1>2, MessageFacts DEF Unpacked
<1> QED BY <1>1, <1>2

\* Connections, by their two ends.
LEMMA PairFacts ==
  /\ \A c, s \in Players : c < s => <<c, s>> \in Pairs
  /\ \A pair \in Pairs : \E c, s \in Players : pair = <<c, s>> /\ c < s
BY DEF Pairs

Links == [alive : BOOLEAN, up : Seq(PlayerInfo \cup SecretShare), down : Seq(SecretShare)]

LEMMA LinkFacts ==
  ASSUME TypeOK
  PROVE  /\ link \in [Pairs -> Links]
         /\ \A l \in Links :
              /\ l.alive \in BOOLEAN /\ l.up \in Seq(PlayerInfo \cup SecretShare)
              /\ l.down \in Seq(SecretShare)
              /\ \A b \in BOOLEAN : [l EXCEPT !.alive = b] \in Links
              /\ \A u \in Seq(PlayerInfo \cup SecretShare) : [l EXCEPT !.up = u] \in Links
              /\ \A d \in Seq(SecretShare) : [l EXCEPT !.down = d] \in Links
         /\ \A b \in BOOLEAN : [alive |-> b, up |-> <<>>, down |-> <<>>] \in Links
<1>1. link \in [Pairs -> Links] BY DEF TypeOK, Links
<1>2. ASSUME NEW l \in Links
      PROVE  l.alive \in BOOLEAN /\ l.up \in Seq(PlayerInfo \cup SecretShare)
             /\ l.down \in Seq(SecretShare)
  BY DEF Links
<1>3. ASSUME NEW l \in Links, NEW b \in BOOLEAN PROVE [l EXCEPT !.alive = b] \in Links
  BY DEF Links
<1>4. ASSUME NEW l \in Links, NEW u \in Seq(PlayerInfo \cup SecretShare)
      PROVE  [l EXCEPT !.up = u] \in Links
  BY DEF Links
<1>5. ASSUME NEW l \in Links, NEW d \in Seq(SecretShare) PROVE [l EXCEPT !.down = d] \in Links
  BY DEF Links
<1>6. <<>> \in Seq(PlayerInfo \cup SecretShare) /\ <<>> \in Seq(SecretShare) OBVIOUS
<1>7. \A b \in BOOLEAN : [alive |-> b, up |-> <<>>, down |-> <<>>] \in Links
  BY <1>6 DEF Links
<1> QED BY <1>1, <1>2, <1>3, <1>4, <1>5, <1>7

\* Where the roles follow each other.
LEMMA AfterFacts ==
  ASSUME NEW p \in Players
  PROVE  /\ AfterServer(p) = IF p < N - 1 THEN "cli_setup" ELSE "launch"
         /\ AfterLocal(p) = IF p > 0 THEN "srv_setup" ELSE AfterServer(p)
         /\ AfterServer(p) \in EnclavePoints /\ AfterLocal(p) \in EnclavePoints
         /\ p \in Int /\ 0 <= p /\ p <= N - 1 /\ N \in Nat
BY TeeAssumption DEF AfterServer, AfterLocal, EnclavePoints, Players

\* A share that was sent to a player is the sender's.
LEMMA OwnShareFacts ==
  ASSUME TypeOK, SlotInv, NEW p \in Players, macKeys[p][p] # None
  PROVE  MyShare(p) \in SharesOf(p)
<1>1. macKeys[p][p] \in {p, Junk} /\ seed[p] \in Seeds BY DEF TypeOK, SlotInv
<1> QED BY <1>1 DEF MyShare, SharesOf, SecretShare, Shares

\* Queues of messages.
LEMMA QueueFacts ==
  ASSUME RoleInv, NEW c \in Players
  PROVE  /\ Info(c) \in PlayerInfo /\ Info(c).player_number = c /\ Info(c).kii_job_id = env[c].job
         /\ ShareQueue(c) \subseteq Seq(SharesOf(c))
         /\ ShareQueue(c) \subseteq Seq(PlayerInfo \cup SecretShare)
         /\ InfoQueue(c) \subseteq Seq(PlayerInfo \cup SecretShare)
         /\ \A u \in InfoQueue(c) : u # <<>> => Head(u) = Info(c) /\ Tail(u) \in ShareQueue(c)
         /\ \A u \in ShareQueue(c) : u # <<>> => Tail(u) = <<>>
         /\ \A u \in InfoQueue(c) \cup ShareQueue(c) : Tail(u) \in ShareQueue(c) \/ u = <<>>
<1>1. env[c].job \in Nat BY TeeAssumption DEF RoleInv, EnvironmentType
<1>2. Info(c) \in PlayerInfo /\ Info(c).player_number = c /\ Info(c).kii_job_id = env[c].job
  BY <1>1 DEF Info, PlayerInfo
<1> HIDE DEF Info
<1>3. SharesOf(c) \subseteq SecretShare BY MessageFacts
<1>4. ASSUME NEW m \in SharesOf(c)
      PROVE  /\ <<m>> \in Seq(SharesOf(c)) /\ <<m>> \in Seq(PlayerInfo \cup SecretShare)
             /\ <<Info(c), m>> \in Seq(PlayerInfo \cup SecretShare)
             /\ Tail(<<m>>) = <<>> /\ Tail(<<Info(c), m>>) = <<m>>
             /\ Head(<<Info(c), m>>) = Info(c)
  BY <1>2, <1>3
<1>5. /\ <<Info(c)>> \in Seq(PlayerInfo \cup SecretShare)
      /\ Head(<<Info(c)>>) = Info(c) /\ Tail(<<Info(c)>>) = <<>>
  BY <1>2
<1>6. <<>> \in Seq(SharesOf(c)) /\ <<>> \in Seq(PlayerInfo \cup SecretShare) OBVIOUS
<1>7. ASSUME NEW u \in ShareQueue(c)
      PROVE  /\ u \in Seq(SharesOf(c)) /\ u \in Seq(PlayerInfo \cup SecretShare)
             /\ u # <<>> => Tail(u) = <<>>
  <2>1. u = <<>> \/ \E m \in SharesOf(c) : u = <<m>> BY DEF ShareQueue
  <2> QED BY <1>4, <1>6, <2>1
<1>8. ASSUME NEW u \in InfoQueue(c)
      PROVE  /\ u \in Seq(PlayerInfo \cup SecretShare)
             /\ u # <<>> => Head(u) = Info(c) /\ Tail(u) \in ShareQueue(c)
  <2>1. u \in {<<>>, <<Info(c)>>} \/ \E m \in SharesOf(c) : u = <<Info(c), m>>
    BY DEF InfoQueue
  <2>2. <<>> \in ShareQueue(c) /\ \A m \in SharesOf(c) : <<m>> \in ShareQueue(c)
    BY DEF ShareQueue
  <2> QED BY <1>4, <1>5, <1>6, <2>1, <2>2
<1>9. <<>> \in ShareQueue(c) BY DEF ShareQueue
<1> QED BY <1>2, <1>7, <1>8, <1>9

LEMMA HangupFacts ==
  ASSUME TypeOK, NEW P \in SUBSET Players, link' = Hangup(P)
  PROVE  /\ link' \in [Pairs -> Links]
         /\ \A c, s \in Players : c < s =>
              /\ link'[<<c, s>>].up = link[<<c, s>>].up
              /\ link'[<<c, s>>].down = link[<<c, s>>].down
              /\ link'[<<c, s>>].alive => link[<<c, s>>].alive /\ c \notin P /\ s \notin P
<1>1. link' \in [Pairs -> Links]
  BY LinkFacts DEF Hangup
<1>2. ASSUME NEW c \in Players, NEW s \in Players, c < s
      PROVE  /\ link'[<<c, s>>].up = link[<<c, s>>].up
             /\ link'[<<c, s>>].down = link[<<c, s>>].down
             /\ link'[<<c, s>>].alive => link[<<c, s>>].alive /\ c \notin P /\ s \notin P
  <2>1. <<c, s>> \in Pairs /\ link[<<c, s>>] \in Links BY <1>2, PairFacts, LinkFacts
  <2>2. link'[<<c, s>>] = IF c \in P \/ s \in P THEN [link[<<c, s>>] EXCEPT !.alive = FALSE]
                                                ELSE link[<<c, s>>]
    BY <2>1 DEF Hangup
  <2> QED BY <2>1, <2>2 DEF Links
<1> QED BY <1>1, <1>2

\* One connection changes.
LEMMA LinkUpdate ==
  ASSUME TypeOK, NEW c \in Players, NEW s \in Players, c < s, NEW l \in Links,
         link' = [link EXCEPT ![<<c, s>>] = l]
  PROVE  /\ link' \in [Pairs -> Links]
         /\ link'[<<c, s>>] = l
         /\ \A a, b \in Players : a < b /\ (a # c \/ b # s) => link'[<<a, b>>] = link[<<a, b>>]
<1>1. <<c, s>> \in Pairs /\ link \in [Pairs -> Links] BY PairFacts, LinkFacts
<1>2. link' \in [Pairs -> Links] /\ link'[<<c, s>>] = l BY <1>1
<1>3. ASSUME NEW a \in Players, NEW b \in Players, a < b, a # c \/ b # s
      PROVE  link'[<<a, b>>] = link[<<a, b>>]
  <2>1. <<a, b>> \in Pairs BY <1>3, PairFacts
  <2>2. <<a, b>> # <<c, s>> BY <1>3
  <2> QED BY <1>1, <2>1, <2>2
<1> QED BY <1>2, <1>3

\* The other connections are as they were.
Elsewhere(c, s) ==
  \A a, b \in Players : a < b /\ (a # c \/ b # s) => link'[<<a, b>>] = link[<<a, b>>]

\* One of its queues is set.
SetsUp(c, s, u) == link' = [link EXCEPT ![<<c, s>>].up = u]
SetsDown(c, s, d) == link' = [link EXCEPT ![<<c, s>>].down = d]

LEMMA UpUpdate ==
  ASSUME TypeOK, NEW c \in Players, NEW s \in Players, c < s,
         NEW u \in Seq(PlayerInfo \cup SecretShare),
         SetsUp(c, s, u)
  PROVE  /\ link' \in [Pairs -> Links]
         /\ link'[<<c, s>>].up = u
         /\ link'[<<c, s>>].down = link[<<c, s>>].down
         /\ link'[<<c, s>>].alive = link[<<c, s>>].alive
         /\ Elsewhere(c, s)
<1>1. <<c, s>> \in Pairs /\ link[<<c, s>>] \in Links BY PairFacts, LinkFacts
<1>2. [link[<<c, s>>] EXCEPT !.up = u] \in Links /\ link \in [Pairs -> Links]
  BY <1>1, LinkFacts
<1>3. link' \in [Pairs -> Links] /\ link'[<<c, s>>] = [link[<<c, s>>] EXCEPT !.up = u]
  BY <1>1, <1>2 DEF SetsUp
<1>4. ASSUME NEW a \in Players, NEW b \in Players, a < b, a # c \/ b # s
      PROVE  link'[<<a, b>>] = link[<<a, b>>]
  <2>1. <<a, b>> \in Pairs /\ <<a, b>> # <<c, s>> BY <1>4, PairFacts
  <2> QED BY <1>2, <2>1 DEF SetsUp
<1>5. /\ link'[<<c, s>>].up = u /\ link'[<<c, s>>].down = link[<<c, s>>].down
      /\ link'[<<c, s>>].alive = link[<<c, s>>].alive
  BY <1>1, <1>3 DEF Links
<1> QED BY <1>3, <1>4, <1>5 DEF Elsewhere

LEMMA DownUpdate ==
  ASSUME TypeOK, NEW c \in Players, NEW s \in Players, c < s,
         NEW d \in Seq(SecretShare),
         SetsDown(c, s, d)
  PROVE  /\ link' \in [Pairs -> Links]
         /\ link'[<<c, s>>].up = link[<<c, s>>].up
         /\ link'[<<c, s>>].down = d
         /\ link'[<<c, s>>].alive = link[<<c, s>>].alive
         /\ Elsewhere(c, s)
<1>1. <<c, s>> \in Pairs /\ link[<<c, s>>] \in Links BY PairFacts, LinkFacts
<1>2. [link[<<c, s>>] EXCEPT !.down = d] \in Links /\ link \in [Pairs -> Links]
  BY <1>1, LinkFacts
<1>3. link' \in [Pairs -> Links] /\ link'[<<c, s>>] = [link[<<c, s>>] EXCEPT !.down = d]
  BY <1>1, <1>2 DEF SetsDown
<1>4. ASSUME NEW a \in Players, NEW b \in Players, a < b, a # c \/ b # s
      PROVE  link'[<<a, b>>] = link[<<a, b>>]
  <2>1. <<a, b>> \in Pairs /\ <<a, b>> # <<c, s>> BY <1>4, PairFacts
  <2> QED BY <1>2, <2>1 DEF SetsDown
<1>5. /\ link'[<<c, s>>].down = d /\ link'[<<c, s>>].up = link[<<c, s>>].up
      /\ link'[<<c, s>>].alive = link[<<c, s>>].alive
  BY <1>1, <1>3 DEF Links
<1> QED BY <1>3, <1>4, <1>5 DEF Elsewhere

LEMMA BreakFacts ==
  ASSUME TypeOK, NEW pair \in Pairs, Breaks(pair)
  PROVE  /\ link' \in [Pairs -> Links]
         /\ \A c, s \in Players : c < s =>
              /\ link'[<<c, s>>].up \in {link[<<c, s>>].up, <<>>}
              /\ link'[<<c, s>>].down \in {link[<<c, s>>].down, <<>>}
              /\ link'[<<c, s>>].alive =>
                   link[<<c, s>>].alive /\ link'[<<c, s>>].up = link[<<c, s>>].up
<1>1. PICK a \in Players, b \in Players : pair = <<a, b>> /\ a < b BY PairFacts
<1>2. link[pair] \in Links BY LinkFacts
<1> DEFINE dead == [link[pair] EXCEPT !.alive = FALSE]
           empty == [alive |-> FALSE, up |-> <<>>, down |-> <<>>]
<1>3. dead \in Links /\ empty \in Links BY <1>2, LinkFacts
<1>4. dead.up = link[pair].up /\ dead.down = link[pair].down /\ dead.alive = FALSE
  BY <1>2 DEF Links
<1>5. PICK l \in {dead, empty} : link' = [link EXCEPT ![<<a, b>>] = l] BY <1>1 DEF Breaks
<1>6. empty.up = <<>> /\ empty.down = <<>> /\ empty.alive = FALSE OBVIOUS
<1> HIDE DEF dead, empty
<1>7. /\ l \in Links /\ l.alive = FALSE /\ l.up \in {link[pair].up, <<>>}
      /\ l.down \in {link[pair].down, <<>>}
  BY <1>3, <1>4, <1>5, <1>6
<1>8. /\ link' \in [Pairs -> Links] /\ link'[<<a, b>>] = l
      /\ \A c, s \in Players : c < s /\ (c # a \/ s # b) => link'[<<c, s>>] = link[<<c, s>>]
  BY <1>1, <1>5, <1>7, LinkUpdate
<1>9. ASSUME NEW c \in Players, NEW s \in Players, c < s
      PROVE  /\ link'[<<c, s>>].up \in {link[<<c, s>>].up, <<>>}
             /\ link'[<<c, s>>].down \in {link[<<c, s>>].down, <<>>}
             /\ link'[<<c, s>>].alive =>
                  link[<<c, s>>].alive /\ link'[<<c, s>>].up = link[<<c, s>>].up
  <2>1. CASE c = a /\ s = b BY <1>1, <1>7, <1>8, <2>1
  <2>2. CASE ~(c = a /\ s = b) BY <1>8, <1>9, <2>2
  <2> QED BY <2>1, <2>2
<1> QED BY <1>8, <1>9

\* A peer's shares are stored.
LEMMA StoreFacts ==
  ASSUME TypeOK, NEW p \in Players, NEW q, NEW m \in SharesOf(q), StoreShare(p, m)
  PROVE  /\ seed' \in [Players -> Seeds]
         /\ macKeys' \in [Players -> [Players -> Shares \cup {None}]]
         /\ macKeys'[p][other[p]] = m.mackeyshare
         /\ \A a, b \in Players : a # p \/ b # other[p] => macKeys'[a][b] = macKeys[a][b]
<1>1. other[p] \in Players /\ seed[p] \in Seeds
      /\ m.seeds \in Seeds /\ m.mackeyshare \in Shares
  BY MessageFacts DEF TypeOK
<1>2. addHex(seed[p], m.seeds) \in Seeds BY <1>1, MessageFacts
<1>3. seed' \in [Players -> Seeds] BY <1>2 DEF StoreShare, TypeOK
<1>4. macKeys' = [macKeys EXCEPT ![p][other[p]] = m.mackeyshare]
      /\ macKeys \in [Players -> [Players -> Shares \cup {None}]]
  BY DEF StoreShare, TypeOK
<1> QED BY <1>1, <1>3, <1>4

\* The command has one of the forms that Fake-Offline.x knows.
LEMMA CommandType ==
  ASSUME TypeOK, RoleInv, NEW p \in Players,
         env[p].tupleType # UnknownType, env[p].tuples # None
  PROVE  Command(p) \in Commands
<1> DEFINE type == env[p].tupleType
           n == env[p].tuples
<1>1. type \in TupleTypes /\ n \in Nat
  BY TeeAssumption DEF RoleInv, EnvironmentType
<1>2. type.kind \in Kinds /\ type.field \in Fields BY <1>1 DEF TupleTypes
<1> HIDE DEF type, n
<1>3. arg1ByType(type) \in {"--nbits", "--ntriples", "--ninverses", "--nsquares"}
  BY <1>2 DEF arg1ByType, Kinds
<1>4. n \div 3 \in Nat BY <1>1
<1>5. arg2(type, n) \in [Fields -> Nat] BY <1>1, <1>4 DEF arg2
<1>6. destination_path(type)
        \in [field : Fields, name : {"Bits", "Triples", "Inverses", "Squares"}]
  BY <1>2 DEF destination_path, Kinds
<1>7. seed[p] \in Seeds /\ macKeys[p] \in [Players -> Shares \cup {None}] BY DEF TypeOK
<1> QED BY <1>3, <1>5, <1>6, <1>7 DEF Command, Commands, create_mac_key_shares, type, n

LEMMA TypeStep ==
  ASSUME ProtocolInv, [Next]_vars
  PROVE  TypeOK'
<1> DEFINE
     Places == pc' \in [Players -> EnclavePoints]
     Messages == local' \in [Players -> Seq(SecretShare)]
                 /\ received' \in [Players -> SecretShare \cup {Null}]
     Data == /\ other' \in [Players -> Players] /\ seed' \in [Players -> Seeds]
             /\ macKeys' \in [Players -> [Players -> Shares \cup {None}]]
             /\ attested' \in [Players -> SUBSET Players]
     Connections == /\ link' \in [Pairs -> Links] /\ backlog' \in [Players -> Seq(Players)]
                    /\ served' \in [Players -> Players \cup {None}]
     Results == launched' \in [Players -> SUBSET Commands]
     StateTyped == Places /\ Messages /\ Data /\ Connections /\ Results
<1>1. TypeOK /\ RoleInv /\ SlotInv /\ BacklogInv /\ ChannelInv /\ ReadInv BY DEF ProtocolInv
<1>2. Outcome BY <1>1, Outcomes
<1>3. StateTyped => TypeOK' BY <1>1, ProcessTypes DEF TypeOK, Links
<1>4. UNCHANGED pc => Places BY <1>1 DEF TypeOK
<1>5. UNCHANGED <<local, received>> => Messages BY <1>1 DEF TypeOK
<1>6. UNCHANGED <<other, seed, macKeys, attested>> => Data BY <1>1 DEF TypeOK
<1>7. UNCHANGED connections => Connections BY <1>1, LinkFacts DEF TypeOK, connections
<1>8. UNCHANGED launched => Results BY <1>1 DEF TypeOK
<1>9. ASSUME NEW p \in Players, NEW x \in EnclavePoints, pc' = [pc EXCEPT ![p] = x] PROVE Places
  BY <1>1, <1>9 DEF TypeOK
<1>10. ASSUME link' \in [Pairs -> Links], UNCHANGED <<backlog, served>> PROVE Connections
  BY <1>1, <1>10 DEF TypeOK
<1>11. ASSUME NEW P, Exits(P) PROVE StateTyped
  <2>1. Places BY <1>1, <1>11 DEF Exits, TypeOK, EnclavePoints, Ended
  <2>2. Messages BY <1>11 DEF Exits
  <2>3. Data BY <1>6, <1>11 DEF Exits
  <2>4. link' \in [Pairs -> Links] BY <1>1, <1>11, HangupFacts DEF Exits
  <2> QED BY <1>8, <1>11, <2>1, <2>2, <2>3, <2>4 DEF Exits
<1>12. ASSUME KiiMoves PROVE StateTyped
  <2>1. Messages
    <3>1. CASE UNCHANGED local BY <1>5, <1>12, <3>1 DEF KiiMoves, exchanged
    <3>2. CASE \E p \in Players : KiiSend(p)
      <4>1. PICK p \in Players : KiiSend(p) BY <3>2
      <4> DEFINE zero == [x \in Players \cup {Junk} |-> 0]
                 m == [mackeyshare |-> p, seeds |-> zero]
      <4>2. zero \in Seeds BY TeeAssumption DEF Seeds
      <4>3. m \in SecretShare BY <4>2 DEF SecretShare, Shares
      <4>4. PICK q \in Seq(SecretShare) : local' = [local EXCEPT ![p] = q]
        <5> HIDE DEF m
        <5>1. <<m>> \in Seq(SecretShare) /\ <<>> \in Seq(SecretShare) BY <4>3
        <5> QED BY <4>1, <5>1 DEF KiiSend, m
      <4>5. local' \in [Players -> Seq(SecretShare)] BY <1>1, <4>4 DEF TypeOK
      <4>6. received' \in [Players -> SecretShare \cup {Null}]
        BY <1>1, <1>12 DEF KiiMoves, exchanged, TypeOK
      <4> QED BY <4>5, <4>6
    <3> QED BY <1>12, <3>1, <3>2 DEF KiiMoves
  <2>2. Places /\ Data /\ Connections /\ Results
    BY <1>4, <1>6, <1>7, <1>8, <1>12 DEF KiiMoves, exchanged
  <2> QED BY <2>1, <2>2
<1>13. ASSUME NEW p \in Players, NEW x, Moves(p, x) PROVE StateTyped
  <2>1. x \in EnclavePoints BY <1>13, AfterFacts DEF Moves, EnclavePoints, Before
  <2> QED BY <1>5, <1>6, <1>7, <1>8, <1>9, <1>13, <2>1 DEF Moves, exchanged
<1>14. ASSUME NEW p \in Players, OwnShareRead(p) PROVE StateTyped
  <2>1. Places BY <1>9, <1>14, AfterFacts DEF OwnShareRead
  <2>2. PICK m \in Unpacked(local[p], kii[p] # "exited") \ {Null} :
          macKeys' = [macKeys EXCEPT ![p][p] = m.mackeyshare]
    BY <1>14 DEF OwnShareRead
  <2>3. local[p] \in Seq(SharesOf(p)) BY <1>1, <1>14 DEF OwnShareRead, ReadInv, Before
  <2>4. m \in SharesOf(p) BY <2>2, <2>3, UnpackedFacts
  <2>5. m.mackeyshare \in Shares BY <2>4, MessageFacts
  <2>6. macKeys' \in [Players -> [Players -> Shares \cup {None}]]
    BY <1>1, <2>2, <2>5 DEF TypeOK
  <2>7. Data BY <1>1, <1>14, <2>6 DEF OwnShareRead, TypeOK
  <2>8. Messages
    <3>1. <<>> \in Seq(SecretShare) OBVIOUS
    <3>2. local' = [local EXCEPT ![p] = <<>>] BY <1>14 DEF OwnShareRead
    <3>3. local' \in [Players -> Seq(SecretShare)] BY <1>1, <3>1, <3>2, Zenon DEF TypeOK
    <3> QED BY <1>1, <1>14, <3>3 DEF OwnShareRead, TypeOK
  <2> QED BY <1>7, <1>8, <1>14, <2>1, <2>7, <2>8 DEF OwnShareRead
<1>15. ASSUME NEW s \in Players, NEW c \in Players, Accepted(s, c) PROVE StateTyped
  <2>1. Places
    <3>1. {"srv_info", "cli_info", "exited"} \subseteq EnclavePoints BY DEF EnclavePoints, Ended
    <3>2. pc \in [Players -> EnclavePoints] BY <1>1 DEF TypeOK
    <3>3. CASE Accepts(s, c)
      <4>1. pc' = [pc EXCEPT ![s] = "srv_info", ![c] = "cli_info"] BY <1>15, <3>3 DEF Accepted
      <4> QED BY <3>1, <3>2, <4>1
    <3>4. CASE ~Accepts(s, c)
      <4>1. pc' = [p \in Players |-> IF p = s THEN "exited"
                                     ELSE IF p = c THEN "cli_info" ELSE pc[p]]
        BY <1>15, <3>4 DEF Accepted
      <4> QED BY <3>1, <3>2, <4>1
    <3> QED BY <3>3, <3>4
  <2>2. Data
    <3>1. attested \in [Players -> SUBSET Players] BY <1>1 DEF TypeOK
    <3>2. attested' \in [Players -> SUBSET Players]
      <4>1. CASE Accepts(s, c)
        <5>1. attested' = [attested EXCEPT ![s] = @ \cup {c}, ![c] = @ \cup {s}]
          BY <1>15, <4>1 DEF Accepted
        <5> QED BY <3>1, <5>1
      <4>2. CASE ~Accepts(s, c)
        <5>1. attested' = [attested EXCEPT ![c] = @ \cup {s}] BY <1>15, <4>2 DEF Accepted
        <5> QED BY <3>1, <5>1
      <4> QED BY <4>1, <4>2
    <3> QED BY <1>1, <1>15, <3>2 DEF Accepted, TypeOK
  <2>3. link' \in [Pairs -> Links]
    BY <1>1, <1>15, HangupFacts, LinkFacts DEF Accepted
  <2>4. backlog' \in [Players -> Seq(Players)]
    <3>1. Tail(backlog[s]) \in Seq(Players) BY <1>1, <1>15 DEF Accepted, TypeOK
    <3> QED BY <1>1, <1>15, <3>1 DEF Accepted, TypeOK
  <2>5. served' \in [Players -> Players \cup {None}] BY <1>1, <1>15 DEF Accepted, TypeOK
  <2> QED BY <1>5, <1>8, <1>15, <2>1, <2>2, <2>3, <2>4, <2>5 DEF Accepted
<1>16. ASSUME NEW s \in Players, pc[s] \in Attending
       PROVE  /\ served[s] \in Players /\ served[s] < s /\ <<served[s], s>> \in Pairs
              /\ link[<<served[s], s>>] \in Links
  BY <1>1, <1>16, PairFacts, LinkFacts DEF RoleInv
<1>17. ASSUME NEW s \in Players, InfoRead(s) PROVE StateTyped
  <2>1. pc[s] \in Attending BY <1>17 DEF InfoRead, Attending
  <2>2. link[<<served[s], s>>].up \in Seq(PlayerInfo \cup SecretShare)
    BY <1>1, <1>16, <2>1, LinkFacts
  <2>3. Tail(link[<<served[s], s>>].up) \in Seq(PlayerInfo \cup SecretShare)
    BY <1>17, <2>2 DEF InfoRead
  <2>4. SetsUp(served[s], s, Tail(link[<<served[s], s>>].up)) BY <1>17 DEF InfoRead, SetsUp
  <2>5. link' \in [Pairs -> Links] BY <1>1, <1>16, <2>1, <2>3, <2>4, UpUpdate
  <2>6. Places BY <1>9, <1>17 DEF InfoRead, EnclavePoints
  <2> QED BY <1>5, <1>6, <1>8, <1>10, <1>17, <2>5, <2>6 DEF InfoRead, exchanged
<1>18. ASSUME NEW s \in Players, ShareSent(s) PROVE StateTyped
  <2>1. pc[s] \in Attending /\ pc[s] \in Serving BY <1>18 DEF ShareSent, Attending, Serving
  <2>2. MyShare(s) \in SecretShare
    BY <1>1, <2>1, OwnShareFacts, MessageFacts DEF SlotInv
  <2>3. link[<<served[s], s>>].down \in Seq(SecretShare)
    BY <1>1, <1>16, <2>1, LinkFacts
  <2>4. PICK d \in Seq(SecretShare) : SetsDown(served[s], s, d)
    <3>1. Append(link[<<served[s], s>>].down, MyShare(s)) \in Seq(SecretShare) BY <2>2, <2>3
    <3> QED BY <1>18, <2>3, <3>1 DEF ShareSent, SetsDown
  <2>5. link' \in [Pairs -> Links] BY <1>1, <1>16, <2>1, <2>4, DownUpdate
  <2>6. Places BY <1>9, <1>18 DEF ShareSent, EnclavePoints
  <2> QED BY <1>5, <1>6, <1>8, <1>10, <1>18, <2>5, <2>6 DEF ShareSent, exchanged
<1>19. ASSUME NEW s \in Players, ShareRead(s) PROVE StateTyped
  <2>1. pc[s] \in Attending /\ pc[s] \in Serving BY <1>19 DEF ShareRead, Attending, Serving
  <2> DEFINE c == served[s]
             l == link[<<c, s>>]
  <2>2. c \in Players /\ c < s /\ l \in Links /\ l.alive \in BOOLEAN
    BY <1>1, <1>16, <2>1, LinkFacts
  <2>3. l.up \in Seq(SharesOf(c))
    BY <1>1, <1>19, <2>2, QueueFacts DEF ShareRead, ChannelInv
  <2>4. PICK m \in Unpacked(l.up, l.alive) \ {Null} : StoreShare(s, m) BY <1>19 DEF ShareRead
  <2> HIDE DEF c, l
  <2>5. m \in SharesOf(c) BY <2>2, <2>3, <2>4, UnpackedFacts
  <2>6. /\ seed' \in [Players -> Seeds]
        /\ macKeys' \in [Players -> [Players -> Shares \cup {None}]]
    BY <1>1, <2>4, <2>5, StoreFacts
  <2>7. other[s] \in Players /\ other[s] < s BY <1>1, <2>1 DEF TypeOK, RoleInv
  <2>8. other[s] + 1 \in Players BY <2>7, TeeAssumption DEF Players
  <2>9. other' \in [Players -> Players] BY <1>1, <1>19, <2>8 DEF ShareRead, TypeOK
  <2>10. Data BY <1>1, <1>19, <2>6, <2>9 DEF ShareRead, TypeOK
  <2>11. link' \in [Pairs -> Links]
    <3>1. <<>> \in Seq(PlayerInfo \cup SecretShare) OBVIOUS
    <3>2. SetsUp(c, s, <<>>) BY <1>19 DEF ShareRead, SetsUp, c
    <3> QED BY <1>1, <2>2, <3>1, <3>2, UpUpdate
  <2>12. Places BY <1>9, <1>19, AfterFacts DEF ShareRead, EnclavePoints
  <2>13. served' \in [Players -> Players \cup {None}] BY <1>1, <1>19 DEF ShareRead, TypeOK
  <2>14. backlog' \in [Players -> Seq(Players)] BY <1>1, <1>19 DEF ShareRead, TypeOK
  <2> QED BY <1>5, <1>8, <1>19, <2>10, <2>11, <2>12, <2>13, <2>14 DEF ShareRead
<1>20. ASSUME NEW c \in Players, RoleTaken(c) PROVE StateTyped
  <2>1. N - 1 \in Players BY TeeAssumption DEF Players
  <2>2. Data BY <1>1, <1>20, <2>1 DEF RoleTaken, TypeOK
  <2>3. Places BY <1>9, <1>20 DEF RoleTaken, EnclavePoints
  <2> QED BY <1>5, <1>7, <1>8, <1>20, <2>2, <2>3 DEF RoleTaken
<1>21. ASSUME NEW c \in Players, pc[c] \in Dialing
       PROVE  /\ other[c] \in Players /\ c < other[c] /\ <<c, other[c]>> \in Pairs
              /\ link[<<c, other[c]>>] \in Links
  BY <1>1, <1>21, PairFacts, LinkFacts DEF RoleInv, TypeOK
<1>22. ASSUME NEW c \in Players, ClientConnect(c) PROVE StateTyped
  <2>1. pc[c] \in Dialing BY <1>22 DEF ClientConnect, Dialing
  <2> DEFINE s == other[c]
  <2>2. s \in Players /\ c < s BY <1>21, <2>1
  <2>3. PICK l \in Links : link' = [link EXCEPT ![<<c, s>>] = l]
    BY <1>1, <1>22, LinkFacts DEF ClientConnect
  <2> HIDE DEF s
  <2>4. link' \in [Pairs -> Links] BY <1>1, <2>2, <2>3, LinkUpdate
  <2>5. backlog' \in [Players -> Seq(Players)]
    <3>1. backlog[s] \in Seq(Players) BY <1>1, <2>2 DEF TypeOK
    <3>2. Append(backlog[s], c) \in Seq(Players) BY <3>1
    <3>3. backlog' = [backlog EXCEPT ![s] = Append(@, c)] BY <1>22 DEF ClientConnect, s
    <3> QED BY <1>1, <3>2, <3>3 DEF TypeOK
  <2>6. Places BY <1>9, <1>22 DEF ClientConnect, EnclavePoints
  <2>7. served' \in [Players -> Players \cup {None}] BY <1>1, <1>22 DEF ClientConnect, TypeOK
  <2> QED BY <1>5, <1>6, <1>8, <1>22, <2>4, <2>5, <2>6, <2>7 DEF ClientConnect, exchanged
<1>23. ASSUME NEW c \in Players, NEW x \in Talking, NEW y \in Talking,
              NEW m \in PlayerInfo \cup SecretShare, Queued(c, x, y, m)
       PROVE  StateTyped
  <2>1. pc[c] \in Dialing BY <1>23 DEF Queued, Dialing
  <2> DEFINE s == other[c]
             l == link[<<c, s>>]
  <2>2. s \in Players /\ c < s /\ l.up \in Seq(PlayerInfo \cup SecretShare)
    BY <1>1, <1>21, <2>1, LinkFacts
  <2>3. PICK u \in Seq(PlayerInfo \cup SecretShare) : SetsUp(c, s, u)
    <3>1. Append(l.up, m) \in Seq(PlayerInfo \cup SecretShare) BY <2>2
    <3> QED BY <1>23, <2>2, <3>1 DEF Queued, Up, SetsUp
  <2> HIDE DEF s, l
  <2>4. link' \in [Pairs -> Links] BY <1>1, <2>2, <2>3, UpUpdate
  <2>5. Places BY <1>9, <1>23 DEF Queued, Talking, EnclavePoints
  <2> QED BY <1>5, <1>6, <1>8, <1>10, <1>23, <2>4, <2>5 DEF Queued, exchanged
<1>24. ASSUME NEW c \in Players, ClientReadShare(c) PROVE StateTyped
  <2>1. pc[c] \in Dialing BY <1>24 DEF ClientReadShare, Dialing, Talking
  <2> DEFINE s == other[c]
             l == link[<<c, s>>]
  <2>2. s \in Players /\ c < s /\ l.alive \in BOOLEAN
    BY <1>1, <1>21, <2>1, LinkFacts
  <2>3. l.down \in Seq(SharesOf(s)) BY <1>1, <2>2 DEF ChannelInv
  <2>4. PICK m \in Unpacked(l.down, l.alive) : received' = [received EXCEPT ![c] = m]
    BY <1>24 DEF ClientReadShare
  <2> HIDE DEF l
  <2>5. m \in SecretShare \cup {Null} BY <2>2, <2>3, <2>4, UnpackedFacts, MessageFacts
  <2>6. Messages BY <1>1, <1>24, <2>4, <2>5 DEF ClientReadShare, TypeOK
  <2>7. link' \in [Pairs -> Links]
    <3>1. <<>> \in Seq(SecretShare) OBVIOUS
    <3>2. SetsDown(c, s, <<>>) BY <1>24 DEF ClientReadShare, SetsDown
    <3> HIDE DEF s
    <3> QED BY <1>1, <2>2, <3>1, <3>2, DownUpdate
  <2>8. Places BY <1>9, <1>24 DEF ClientReadShare, EnclavePoints
  <2> QED BY <1>6, <1>8, <1>10, <1>24, <2>6, <2>7, <2>8 DEF ClientReadShare
<1>25. ASSUME NEW c \in Players, ShareAdded(c) PROVE StateTyped
  <2>1. pc[c] \in Dialing BY <1>25 DEF ShareAdded, Dialing, Talking
  <2>2. other[c] \in Players /\ c < other[c] BY <1>21, <2>1
  <2>3. received[c] \in SharesOf(other[c]) BY <1>1, <1>25 DEF ShareAdded, ReadInv
  <2>4. /\ seed' \in [Players -> Seeds]
        /\ macKeys' \in [Players -> [Players -> Shares \cup {None}]]
    BY <1>1, <1>25, <2>3, StoreFacts DEF ShareAdded
  <2>5. other[c] - 1 \in Players BY <2>2, TeeAssumption DEF Players
  <2>6. other' \in [Players -> Players] BY <1>1, <1>25, <2>5 DEF ShareAdded, TypeOK
  <2>7. Data BY <1>1, <1>25, <2>4, <2>6 DEF ShareAdded, TypeOK
  <2>8. Messages BY <1>1, <1>25 DEF ShareAdded, TypeOK
  <2>9. Places BY <1>9, <1>25 DEF ShareAdded, EnclavePoints
  <2> QED BY <1>7, <1>8, <1>25, <2>7, <2>8, <2>9 DEF ShareAdded
<1>26. ASSUME NEW p \in Players, Generates(p) PROVE StateTyped
  <2>1. Results BY <1>1, <1>26, CommandType DEF Generates, TypeOK
  <2>2. Places BY <1>9, <1>26 DEF Generates, EnclavePoints, Ended
  <2> QED BY <1>5, <1>6, <1>7, <1>26, <2>1, <2>2 DEF Generates, exchanged
<1>27. ASSUME NEW pair \in Pairs, Breaks(pair) PROVE StateTyped
  <2>1. link' \in [Pairs -> Links] BY <1>1, <1>27, BreakFacts
  <2> QED BY <1>4, <1>5, <1>6, <1>8, <1>10, <1>27, <2>1 DEF Breaks, exchanged
<1>28. ASSUME NEW c \in Players, ClientOutcome(c) PROVE StateTyped
  <2>1. Info(c) \in PlayerInfo BY <1>1, QueueFacts
  <2>2. pc[c] = "cli_send" => MyShare(c) \in SecretShare
    BY <1>1, OwnShareFacts, MessageFacts DEF SlotInv, Dialing, Talking
  <2>3. {"cli_info", "cli_read", "cli_send", "cli_add"} \subseteq Talking BY DEF Talking
  <2>4. CASE Queued(c, "cli_info", "cli_read", Info(c))
    BY <1>23, <2>1, <2>3, <2>4
  <2>5. CASE Queued(c, "cli_send", "cli_add", MyShare(c))
    BY <1>23, <2>2, <2>3, <2>5 DEF Queued
  <2> QED BY <1>20, <1>22, <1>24, <1>25, <1>28, <2>4, <2>5 DEF ClientOutcome
<1> HIDE DEF StateTyped
<1>29. StateTyped
  BY <1>2, <1>11, <1>12, <1>13, <1>14, <1>15, <1>17, <1>18, <1>19, <1>26, <1>27, <1>28
     DEF Outcome, ServerOutcome
<1> QED BY <1>3, <1>29

-----------------------------------------------------------------------------
(***************************************************************************)
(* What a step does to one player.                                         *)
(***************************************************************************)
KeepsPlace(q) == pc'[q] = pc[q] /\ other'[q] = other[q] /\ served'[q] = served[q]
KeepsShares(q) == macKeys'[q] = macKeys[q] /\ seed'[q] = seed[q]
KeepsPeers(q) == attested'[q] = attested[q]
Stores(q, slot) == \E v \in {slot, Junk} : macKeys'[q] = [macKeys[q] EXCEPT ![slot] = v]

Goes(q, x, y) == pc[q] = x /\ pc'[q] = y
KeepsOn(q) ==
  /\ \/ pc[q] \in Before /\ pc'[q] \in Before
     \/ Goes(q, "srv_setup", "srv_accept")
     \/ Goes(q, "srv_setup", AfterServer(q)) /\ ~HostsFit
     \/ Goes(q, "srv_info", "srv_send") /\ served[q] = other[q] /\ env[q].job = env[other[q]].job
     \/ Goes(q, "srv_info", "srv_close")
     \/ Goes(q, "srv_send", "srv_share")
     \/ Goes(q, "cli_endpoint", "cli_connect")
     \/ Goes(q, "cli_endpoint", "launch") /\ ~HostsFit
     \/ Goes(q, "cli_connect", "cli_handshake") /\ other[q] = N - 1
     \/ Goes(q, "cli_connect", "cli_info") /\ other[q] # N - 1
     \/ Goes(q, "cli_info", "cli_read")
     \/ Goes(q, "cli_send", "cli_add")
     \/ Goes(q, "launch", "generated")
  /\ other'[q] = other[q] /\ served'[q] = served[q] /\ KeepsShares(q) /\ KeepsPeers(q)
  /\ received'[q] = received[q]

PlayerOutcome(q) ==
  \/ /\ pc'[q] = "exited" /\ pc[q] \notin Ended
     /\ other'[q] = other[q] /\ KeepsShares(q) /\ KeepsPeers(q)
  \/ KeepsPlace(q) /\ KeepsShares(q) /\ KeepsPeers(q) /\ received'[q] = received[q]
  \/ KeepsOn(q)
  \/ /\ Goes(q, "local_read", AfterLocal(q)) /\ Stores(q, q) /\ OwnShareRead(q)
     /\ other'[q] = other[q] /\ served'[q] = served[q] /\ KeepsPeers(q)
  \/ /\ Goes(q, "srv_accept", "srv_info") /\ other'[q] = other[q] /\ KeepsShares(q) /\ q = N - 1
     /\ backlog[q] # <<>> /\ served'[q] = Head(backlog[q]) /\ Accepted(q, Head(backlog[q]))
     /\ Accepts(q, Head(backlog[q])) /\ Accepts(Head(backlog[q]), q)
     /\ attested'[q] = attested[q] \cup {Head(backlog[q])}
  \/ /\ Goes(q, "cli_handshake", "cli_info") /\ other'[q] = other[q] /\ served'[q] = served[q]
     /\ KeepsShares(q) /\ attested'[q] = attested[q] \cup {other[q]}
  \/ /\ Goes(q, "srv_share", IF other[q] + 1 >= q THEN AfterServer(q) ELSE "srv_accept")
     /\ other'[q] = other[q] + 1 /\ served'[q] = None /\ Stores(q, other[q]) /\ KeepsPeers(q)
     /\ ShareRead(q)
  \/ /\ Goes(q, "cli_setup", "cli_endpoint") /\ other'[q] = N - 1 /\ served'[q] = served[q]
     /\ KeepsShares(q) /\ KeepsPeers(q)
  \/ /\ Goes(q, "cli_read", "cli_send") /\ other'[q] = other[q] /\ served'[q] = served[q]
     /\ KeepsShares(q) /\ KeepsPeers(q) /\ received'[q] \in SharesOf(other[q]) \cup {Null}
     /\ ClientReadShare(q)
  \/ /\ Goes(q, "cli_add", IF other[q] - 1 >= q + 1 THEN "cli_endpoint" ELSE "launch")
     /\ other'[q] = other[q] - 1 /\ served'[q] = served[q]
     /\ Stores(q, other[q]) /\ KeepsPeers(q) /\ ShareAdded(q)

\* Where connections lead to.
LEMMA Ends ==
  ASSUME ProtocolInv
  PROVE  /\ \A s \in Players : pc[s] \in Attending =>
              /\ served[s] \in Players /\ served[s] < s /\ <<served[s], s>> \in Pairs
              /\ link[<<served[s], s>>] \in Links
         /\ \A c \in Players : pc[c] \in Dialing =>
              /\ other[c] \in Players /\ c < other[c] /\ <<c, other[c]>> \in Pairs
              /\ link[<<c, other[c]>>] \in Links
BY PairFacts, LinkFacts DEF ProtocolInv, RoleInv, TypeOK

\* The first client in the backlog of a server.
LEMMA FirstClient ==
  ASSUME ProtocolInv, NEW s \in Players, NEW c, Accepted(s, c)
  PROVE  /\ c \in Players /\ c < s /\ c # s /\ pc[c] = "cli_handshake" /\ other[c] = s /\ s = N - 1
         /\ backlog[s] \in Seq(Players) /\ c = backlog[s][1] /\ 1 \in 1 .. Len(backlog[s])
<1>1. backlog[s] \in Seq(Players) /\ backlog[s] # <<>> /\ c = Head(backlog[s])
      /\ pc[s] = "srv_accept" /\ link[<<c, s>>].alive /\ s = N - 1
  BY DEF Accepted, ProtocolInv, TypeOK
<1>2. c = backlog[s][1] /\ 1 \in 1 .. Len(backlog[s]) /\ c \in Players BY <1>1
<1>3. c < s /\ (pc[c] = "exited" \/ (pc[c] = "cli_handshake" /\ other[c] = s))
  BY <1>1, <1>2 DEF ProtocolInv, BacklogInv, Listening
<1>4. c # s BY <1>2, <1>3 DEF Players
<1> QED BY <1>1, <1>2, <1>3, <1>4 DEF ProtocolInv, BacklogInv

LEMMA PlayerStep ==
  ASSUME ProtocolInv, Outcome
  PROVE  \A q \in Players : PlayerOutcome(q)
<1> SUFFICES ASSUME NEW q \in Players PROVE PlayerOutcome(q) OBVIOUS
<1> DEFINE Keeps == KeepsPlace(q) /\ KeepsShares(q) /\ KeepsPeers(q) /\ received'[q] = received[q]
<1>1. /\ pc \in [Players -> EnclavePoints] /\ other \in [Players -> Players]
      /\ macKeys \in [Players -> [Players -> Shares \cup {None}]]
      /\ served \in [Players -> Players \cup {None}] /\ seed \in [Players -> Seeds]
      /\ attested \in [Players -> SUBSET Players]
      /\ received \in [Players -> SecretShare \cup {Null}]
  BY DEF ProtocolInv, TypeOK
<1>2. Keeps => PlayerOutcome(q) BY DEF PlayerOutcome
<1>3. KeepsOn(q) => PlayerOutcome(q) BY DEF PlayerOutcome
<1> HIDE DEF Keeps
<1>4. ASSUME NEW P, Exits(P) PROVE PlayerOutcome(q)
  <2>1. CASE q \in P BY <1>1, <1>4, <2>1 DEF Exits, PlayerOutcome, KeepsShares, KeepsPeers
  <2>2. CASE q \notin P
    <3>1. Keeps
      BY <1>1, <1>4, <2>2 DEF Exits, Keeps, KeepsPlace, KeepsShares, KeepsPeers
    <3> QED BY <1>2, <3>1
  <2> QED BY <2>1, <2>2
<1>5. ASSUME KiiMoves PROVE PlayerOutcome(q)
  <2>1. Keeps
    BY <1>5 DEF KiiMoves, exchanged, connections, Keeps, KeepsPlace, KeepsShares, KeepsPeers
  <2> QED BY <1>2, <2>1
<1>6. ASSUME NEW p \in Players, NEW x, NEW y, pc[p] = x, pc' = [pc EXCEPT ![p] = y],
             UNCHANGED <<other, served, seed, macKeys, attested, received>>
      PROVE  (p # q => PlayerOutcome(q)) /\ (p = q => Goes(q, x, y) /\
               other'[q] = other[q] /\ served'[q] = served[q] /\ KeepsShares(q)
               /\ KeepsPeers(q) /\ received'[q] = received[q])
  BY <1>1, <1>2, <1>6 DEF Keeps, KeepsPlace, KeepsShares, KeepsPeers, Goes
<1>7. ASSUME NEW p \in Players, NEW x, Moves(p, x) PROVE PlayerOutcome(q)
  <2>1. pc' = [pc EXCEPT ![p] = x] /\ UNCHANGED <<other, served, seed, macKeys, attested, received>>
    BY <1>7 DEF Moves, exchanged, connections
  <2>2. ASSUME p = q PROVE KeepsOn(q) BY <1>1, <1>6, <1>7, <2>1, <2>2 DEF Moves, KeepsOn, Goes
  <2> QED BY <1>3, <1>6, <2>1, <2>2
<1>8. ASSUME NEW p \in Players, OwnShareRead(p) PROVE PlayerOutcome(q)
  <2>1. PICK m \in Unpacked(local[p], kii[p] # "exited") \ {Null} :
          macKeys' = [macKeys EXCEPT ![p][p] = m.mackeyshare]
    BY <1>8 DEF OwnShareRead
  <2>2. m \in SharesOf(p)
    <3>1. local[p] \in Seq(SharesOf(p)) BY <1>8 DEF OwnShareRead, ProtocolInv, ReadInv, Before
    <3> QED BY <2>1, <3>1, UnpackedFacts
  <2>3. m.mackeyshare \in {p, Junk} BY <2>2, MessageFacts
  <2>4. CASE p = q
    <3>1. Stores(q, q) BY <1>1, <2>1, <2>3, <2>4 DEF Stores
    <3>2. Goes(q, "local_read", AfterLocal(q)) /\ other'[q] = other[q]
          /\ served'[q] = served[q] /\ KeepsPeers(q)
      BY <1>1, <1>8, <2>4 DEF OwnShareRead, Goes, KeepsPeers, connections
    <3> QED BY <1>8, <2>4, <3>1, <3>2 DEF PlayerOutcome
  <2>5. CASE p # q
    <3>1. Keeps
      BY <1>1, <1>8, <2>1, <2>5
         DEF OwnShareRead, connections, Keeps, KeepsPlace, KeepsShares, KeepsPeers
    <3> QED BY <1>2, <3>1
  <2> QED BY <2>4, <2>5
<1>9. ASSUME NEW s \in Players, NEW c, Accepted(s, c) PROVE PlayerOutcome(q)
  <2>1. /\ c \in Players /\ c # s /\ pc[c] = "cli_handshake" /\ other[c] = s
        /\ pc[s] = "srv_accept" /\ c = Head(backlog[s]) /\ backlog[s] # <<>> /\ Accepts(c, s)
        /\ s = N - 1
        /\ served' = [served EXCEPT ![s] = c] /\ UNCHANGED <<other, seed, macKeys, received>>
    <3>1. c \in Players /\ c # s /\ pc[c] = "cli_handshake" /\ other[c] = s BY <1>9, FirstClient
    <3> QED BY <1>9, <3>1 DEF Accepted
  <2>2. CASE q \notin {s, c}
    <3>1. pc'[q] = pc[q] /\ attested'[q] = attested[q] BY <1>1, <1>9, <2>1, <2>2 DEF Accepted
    <3>2. Keeps BY <1>1, <2>1, <2>2, <3>1 DEF Keeps, KeepsPlace, KeepsShares, KeepsPeers
    <3> QED BY <1>2, <3>2
  <2>3. CASE q = c
    <3>1. pc'[q] = "cli_info" /\ attested'[q] = attested[q] \cup {s}
      BY <1>1, <1>9, <2>1, <2>3 DEF Accepted
    <3> QED BY <1>1, <2>1, <2>3, <3>1 DEF PlayerOutcome, Goes, KeepsShares
  <2>4. CASE q = s /\ Accepts(s, c)
    <3>1. pc'[q] = "srv_info" /\ attested'[q] = attested[q] \cup {c}
      BY <1>1, <1>9, <2>1, <2>4 DEF Accepted
    <3>2. Accepted(q, Head(backlog[q])) BY <1>9, <2>1, <2>4
    <3> QED BY <1>1, <2>1, <2>4, <3>1, <3>2 DEF PlayerOutcome, Goes, KeepsShares
  <2>5. CASE q = s /\ ~Accepts(s, c)
    <3>1. pc'[q] = "exited" /\ attested'[q] = attested[q]
      BY <1>1, <1>9, <2>1, <2>5 DEF Accepted
    <3> QED BY <1>1, <2>1, <2>5, <3>1 DEF PlayerOutcome, Ended, KeepsShares, KeepsPeers
  <2> QED BY <2>2, <2>3, <2>4, <2>5
<1>10. ASSUME NEW s \in Players, InfoRead(s) PROVE PlayerOutcome(q)
  <2>1. pc' = [pc EXCEPT ![s] = "srv_send"] /\ pc[s] = "srv_info"
        /\ UNCHANGED <<other, served, seed, macKeys, attested, received>>
    BY <1>10 DEF InfoRead, exchanged
  <2>2. served[s] \in Players /\ served[s] < s BY <2>1, Ends DEF Attending
  <2>3. link[<<served[s], s>>].up \in InfoQueue(served[s])
    BY <2>1, <2>2 DEF ProtocolInv, ChannelInv
  <2>4. Head(link[<<served[s], s>>].up) = Info(served[s])
    BY <1>10, <2>2, <2>3, QueueFacts DEF InfoRead, ProtocolInv
  <2>5. served[s] = other[s] /\ env[s].job = env[other[s]].job
    BY <1>10, <2>2, <2>4, QueueFacts DEF InfoRead, verify_player_details, ProtocolInv
  <2>6. ASSUME s = q PROVE KeepsOn(q) BY <1>6, <2>1, <2>5, <2>6 DEF KeepsOn
  <2> QED BY <1>3, <1>6, <2>1, <2>6
<1>11. ASSUME NEW s \in Players, ShareSent(s) PROVE PlayerOutcome(q)
  <2>1. pc' = [pc EXCEPT ![s] = "srv_share"] /\ pc[s] = "srv_send"
        /\ UNCHANGED <<other, served, seed, macKeys, attested, received>>
    BY <1>11 DEF ShareSent, exchanged
  <2>2. ASSUME s = q PROVE KeepsOn(q) BY <1>6, <2>1, <2>2 DEF KeepsOn
  <2> QED BY <1>3, <1>6, <2>1, <2>2

<1>12. ASSUME NEW s \in Players, ShareRead(s) PROVE PlayerOutcome(q)
  <2>1. /\ pc[s] = "srv_share" /\ served[s] = other[s]
        /\ pc' = [pc EXCEPT ![s] = IF other[s] + 1 >= s THEN AfterServer(s) ELSE "srv_accept"]
        /\ other' = [other EXCEPT ![s] = @ + 1] /\ served' = [served EXCEPT ![s] = None]
        /\ UNCHANGED <<attested, received>>
    BY <1>12 DEF ShareRead, ProtocolInv, RoleInv
  <2> DEFINE c == served[s]
             l == link[<<c, s>>]
  <2>2. c \in Players /\ c < s /\ l.alive \in BOOLEAN
    BY <2>1, Ends, LinkFacts DEF Attending, ProtocolInv
  <2>3. l.up \in Seq(SharesOf(c))
    <3>1. l.up \in ShareQueue(c) BY <2>1, <2>2 DEF ProtocolInv, ChannelInv
    <3> QED BY <2>2, <3>1, QueueFacts DEF ProtocolInv
  <2>4. PICK m \in Unpacked(l.up, l.alive) \ {Null} : StoreShare(s, m) BY <1>12 DEF ShareRead
  <2> HIDE DEF c, l
  <2>5. m \in SharesOf(c) BY <2>2, <2>3, <2>4, UnpackedFacts
  <2>6. m.mackeyshare \in {other[s], Junk} BY <2>1, <2>5, MessageFacts DEF c
  <2>7. /\ macKeys' = [macKeys EXCEPT ![s][other[s]] = m.mackeyshare]
        /\ seed' = [seed EXCEPT ![s] = addHex(@, m.seeds)]
    BY <2>4 DEF StoreShare
  <2>8. CASE s = q
    <3>1. Stores(q, other[q]) BY <1>1, <2>6, <2>7, <2>8 DEF Stores
    <3>2. Goes(q, "srv_share", IF other[q] + 1 >= q THEN AfterServer(q) ELSE "srv_accept")
      BY <1>1, <2>1, <2>8 DEF Goes
    <3>3. other'[q] = other[q] + 1 /\ served'[q] = None /\ KeepsPeers(q)
      BY <1>1, <2>1, <2>8 DEF KeepsPeers
    <3> QED BY <1>12, <2>8, <3>1, <3>2, <3>3 DEF PlayerOutcome
  <2>9. CASE s # q
    <3>1. Keeps BY <1>1, <2>1, <2>7, <2>9 DEF Keeps, KeepsPlace, KeepsShares, KeepsPeers
    <3> QED BY <1>2, <3>1
  <2> QED BY <2>8, <2>9
<1>13. ASSUME NEW c \in Players, RoleTaken(c) PROVE PlayerOutcome(q)
  <2>1. CASE c = q
    <3>1. /\ Goes(q, "cli_setup", "cli_endpoint") /\ other'[q] = N - 1 /\ served'[q] = served[q]
          /\ KeepsShares(q) /\ KeepsPeers(q)
      BY <1>1, <1>13, <2>1 DEF RoleTaken, Goes, KeepsShares, KeepsPeers, connections
    <3> QED BY <3>1 DEF PlayerOutcome
  <2>2. CASE c # q
    <3>1. Keeps
      BY <1>1, <1>13, <2>2 DEF RoleTaken, Keeps, KeepsPlace, KeepsShares, KeepsPeers, connections
    <3> QED BY <1>2, <3>1
  <2> QED BY <2>1, <2>2
<1>14. ASSUME NEW c \in Players, ClientConnect(c) PROVE PlayerOutcome(q)
  <2> DEFINE y == IF other[c] = N - 1 THEN "cli_handshake" ELSE "cli_info"
  <2>1. pc' = [pc EXCEPT ![c] = y] /\ pc[c] = "cli_connect"
        /\ UNCHANGED <<other, served, seed, macKeys, attested, received>>
    BY <1>14 DEF ClientConnect, FirstServer, exchanged
  <2>2. ASSUME c = q PROVE KeepsOn(q)
    <3>1. (other[q] = N - 1 => y = "cli_handshake") /\ (other[q] # N - 1 => y = "cli_info")
      BY <2>2
    <3> HIDE DEF y
    <3> QED BY <1>6, <2>1, <2>2, <3>1 DEF KeepsOn
  <2> HIDE DEF y
  <2> QED BY <1>3, <1>6, <2>1, <2>2
<1>15. ASSUME NEW c \in Players, Queued(c, "cli_info", "cli_read", Info(c)) PROVE PlayerOutcome(q)
  <2>1. pc' = [pc EXCEPT ![c] = "cli_read"] /\ pc[c] = "cli_info"
        /\ UNCHANGED <<other, served, seed, macKeys, attested, received>>
    BY <1>15 DEF Queued, exchanged
  <2>2. ASSUME c = q PROVE KeepsOn(q) BY <1>6, <2>1, <2>2 DEF KeepsOn
  <2> QED BY <1>3, <1>6, <2>1, <2>2
<1>16. ASSUME NEW c \in Players, Queued(c, "cli_send", "cli_add", MyShare(c)) PROVE PlayerOutcome(q)
  <2>1. pc' = [pc EXCEPT ![c] = "cli_add"] /\ pc[c] = "cli_send"
        /\ UNCHANGED <<other, served, seed, macKeys, attested, received>>
    BY <1>16 DEF Queued, exchanged
  <2>2. ASSUME c = q PROVE KeepsOn(q) BY <1>6, <2>1, <2>2 DEF KeepsOn
  <2> QED BY <1>3, <1>6, <2>1, <2>2
<1>17. ASSUME NEW c \in Players, ClientReadShare(c) PROVE PlayerOutcome(q)
  <2>1. pc[c] = "cli_read" /\ pc' = [pc EXCEPT ![c] = "cli_send"]
        /\ UNCHANGED <<other, served, seed, macKeys, attested>>
    BY <1>17 DEF ClientReadShare
  <2> DEFINE s == other[c]
             l == link[<<c, s>>]
  <2>2. s \in Players /\ c < s /\ l.alive \in BOOLEAN
    BY <2>1, Ends, LinkFacts DEF Dialing, Talking, ProtocolInv
  <2>3. l.down \in Seq(SharesOf(s)) BY <2>2 DEF ProtocolInv, ChannelInv
  <2>4. PICK m \in Unpacked(l.down, l.alive) : received' = [received EXCEPT ![c] = m]
    BY <1>17 DEF ClientReadShare
  <2> HIDE DEF s, l
  <2>5. m \in SharesOf(s) \cup {Null} BY <2>2, <2>3, <2>4, UnpackedFacts
  <2>6. CASE c = q
    <3>1. received'[q] \in SharesOf(other[q]) \cup {Null} BY <1>1, <2>4, <2>5, <2>6 DEF s
    <3>2. /\ Goes(q, "cli_read", "cli_send") /\ other'[q] = other[q] /\ served'[q] = served[q]
          /\ KeepsShares(q) /\ KeepsPeers(q)
      BY <1>1, <2>1, <2>6 DEF Goes, KeepsShares, KeepsPeers
    <3> QED BY <1>17, <2>6, <3>1, <3>2 DEF PlayerOutcome
  <2>7. CASE c # q
    <3>1. Keeps BY <1>1, <2>1, <2>4, <2>7 DEF Keeps, KeepsPlace, KeepsShares, KeepsPeers
    <3> QED BY <1>2, <3>1
  <2> QED BY <2>6, <2>7
<1>18. ASSUME NEW c \in Players, ShareAdded(c) PROVE PlayerOutcome(q)
  <2>1. /\ pc[c] = "cli_add" /\ received' = [received EXCEPT ![c] = Null]
        /\ pc' = [pc EXCEPT ![c] = IF other[c] - 1 >= c + 1 THEN "cli_endpoint" ELSE "launch"]
        /\ other' = [other EXCEPT ![c] = @ - 1] /\ UNCHANGED <<attested, served>>
    BY <1>18 DEF ShareAdded, connections
  <2>2. received[c] \in SharesOf(other[c])
    BY <1>18, <2>1 DEF ShareAdded, ProtocolInv, ReadInv
  <2>3. received[c].mackeyshare \in {other[c], Junk} BY <2>2, MessageFacts
  <2>4. /\ macKeys' = [macKeys EXCEPT ![c][other[c]] = received[c].mackeyshare]
        /\ seed' = [seed EXCEPT ![c] = addHex(@, received[c].seeds)]
    BY <1>18 DEF ShareAdded, StoreShare
  <2>5. CASE c = q
    <3>1. Stores(q, other[q]) BY <1>1, <2>3, <2>4, <2>5 DEF Stores
    <3>2. Goes(q, "cli_add", IF other[q] - 1 >= q + 1 THEN "cli_endpoint" ELSE "launch")
      BY <1>1, <2>1, <2>5 DEF Goes
    <3>3. other'[q] = other[q] - 1 /\ served'[q] = served[q] /\ KeepsPeers(q)
      BY <1>1, <2>1, <2>5 DEF KeepsPeers
    <3> QED BY <1>18, <2>5, <3>1, <3>2, <3>3 DEF PlayerOutcome
  <2>6. CASE c # q
    <3>1. Keeps BY <1>1, <2>1, <2>4, <2>6 DEF Keeps, KeepsPlace, KeepsShares, KeepsPeers
    <3> QED BY <1>2, <3>1
  <2> QED BY <2>5, <2>6
<1>19. ASSUME NEW p \in Players, Generates(p) PROVE PlayerOutcome(q)
  <2>1. pc' = [pc EXCEPT ![p] = "generated"] /\ pc[p] = "launch"
        /\ UNCHANGED <<other, served, seed, macKeys, attested, received>>
    BY <1>19 DEF Generates, exchanged, connections
  <2>2. ASSUME p = q PROVE KeepsOn(q) BY <1>6, <2>1, <2>2 DEF KeepsOn
  <2> QED BY <1>3, <1>6, <2>1, <2>2
<1>20. ASSUME NEW pair \in Pairs, Breaks(pair) PROVE PlayerOutcome(q)
  <2>1. Keeps BY <1>20 DEF Breaks, exchanged, Keeps, KeepsPlace, KeepsShares, KeepsPeers
  <2> QED BY <1>2, <2>1
<1> QED BY <1>4, <1>5, <1>7, <1>8, <1>9, <1>10, <1>11, <1>12, <1>13, <1>14, <1>15, <1>16,
           <1>17, <1>18, <1>19, <1>20
        DEF Outcome, ServerOutcome, ClientOutcome

LEMMA EnvironmentKept == ASSUME Outcome PROVE env' = env
BY DEF Outcome, Exits, KiiMoves, Moves, OwnShareRead, ServerOutcome, Accepted, InfoRead, ShareSent,
       ShareRead, ClientOutcome, RoleTaken, ClientConnect, Queued, ClientReadShare, ShareAdded,
       Generates, Breaks

LEMMA RoleStep ==
  ASSUME ProtocolInv, Outcome
  PROVE  RoleInv'
<1> USE DEF Before, Attending, Serving, Talking, Dialing, Ended
<1>1. env' \in Environments BY EnvironmentKept DEF ProtocolInv, RoleInv
<1>2. ASSUME NEW p \in Players
      PROVE  /\ pc'[p] \in Before => other'[p] = 0
             /\ pc'[p] \in Serving => other'[p] < p
             /\ pc'[p] = "cli_setup" => p < N - 1
             /\ pc'[p] \in Dialing => p < other'[p]
             /\ pc'[p] \in Attending => served'[p] \in Players /\ served'[p] < p
             /\ pc'[p] \in {"srv_send", "srv_share"} => served'[p] = other'[p]
             /\ pc'[p] \in Attending => p = N - 1
             /\ pc'[p] = "cli_handshake" => other'[p] = N - 1
  <2>1. /\ pc[p] \in Before => other[p] = 0
        /\ pc[p] \in Serving => other[p] < p
        /\ pc[p] = "cli_setup" => p < N - 1
        /\ pc[p] \in Dialing => p < other[p]
        /\ pc[p] \in Attending => served[p] \in Players /\ served[p] < p
        /\ pc[p] \in {"srv_send", "srv_share"} => served[p] = other[p]
        /\ pc[p] \in Attending => p = N - 1
        /\ pc[p] = "cli_handshake" => other[p] = N - 1
        /\ p \in Int /\ 0 <= p /\ N \in Nat /\ other[p] \in Int
    BY AfterFacts DEF ProtocolInv, RoleInv, TypeOK, Players
  <2>2. pc[p] = "srv_accept" /\ backlog[p] # <<>> =>
          Head(backlog[p]) \in Players /\ Head(backlog[p]) < p
    <3>1. backlog[p] \in Seq(Players) BY DEF ProtocolInv, TypeOK
    <3>2. backlog[p] # <<>> =>
            Head(backlog[p]) = backlog[p][1] /\ 1 \in 1 .. Len(backlog[p])
            /\ Head(backlog[p]) \in Players
      BY <3>1
    <3> QED BY <3>2 DEF ProtocolInv, BacklogInv, Listening
  <2>3. /\ AfterServer(p) = (IF p < N - 1 THEN "cli_setup" ELSE "launch")
        /\ AfterLocal(p) = (IF p > 0 THEN "srv_setup" ELSE AfterServer(p))
    BY AfterFacts
  <2>4. PlayerOutcome(p) BY PlayerStep
  <2>5. pc'[p] \in Before => other'[p] = 0
    BY <2>1, <2>3, <2>4 DEF PlayerOutcome, KeepsOn, KeepsPlace, Goes
  <2>6. pc'[p] \in Serving => other'[p] < p
    BY <2>1, <2>3, <2>4 DEF PlayerOutcome, KeepsOn, KeepsPlace, Goes
  <2>7. pc'[p] = "cli_setup" => p < N - 1
    BY <2>1, <2>3, <2>4 DEF PlayerOutcome, KeepsOn, KeepsPlace, Goes
  <2>8. pc'[p] \in Dialing => p < other'[p]
    BY <2>1, <2>3, <2>4 DEF PlayerOutcome, KeepsOn, KeepsPlace, Goes
  <2>9. pc'[p] \in Attending => served'[p] \in Players /\ served'[p] < p
    BY <2>1, <2>2, <2>3, <2>4 DEF PlayerOutcome, KeepsOn, KeepsPlace, Goes
  <2>10. pc'[p] \in {"srv_send", "srv_share"} => served'[p] = other'[p]
    BY <2>1, <2>3, <2>4 DEF PlayerOutcome, KeepsOn, KeepsPlace, Goes
  <2>11. (pc'[p] \in Attending => p = N - 1) /\ (pc'[p] = "cli_handshake" => other'[p] = N - 1)
    BY <2>1, <2>3, <2>4 DEF PlayerOutcome, KeepsOn, KeepsPlace, Goes
  <2> QED BY <2>5, <2>6, <2>7, <2>8, <2>9, <2>10, <2>11
<1> QED BY <1>1, <1>2 DEF RoleInv

LEMMA SlotFacts ==
  ASSUME ProtocolInv, Outcome
  PROVE  \A p, q \in Players :
           /\ macKeys'[p][q] # macKeys[p][q] =>
                macKeys[p][q] = None /\ macKeys'[p][q] \in {q, Junk}
           /\ macKeys'[p][q] # macKeys[p][q] =>
                \/ pc[p] = "local_read" /\ q = p
                \/ pc[p] \in {"srv_share", "cli_add"} /\ q = other[p]
<1> USE DEF Before, Attending, Serving, Talking, Dialing, Ended
<1> SUFFICES ASSUME NEW p \in Players, NEW q \in Players, macKeys'[p][q] # macKeys[p][q]
             PROVE  /\ macKeys[p][q] = None /\ macKeys'[p][q] \in {q, Junk}
                    /\ \/ pc[p] = "local_read" /\ q = p
                       \/ pc[p] \in {"srv_share", "cli_add"} /\ q = other[p]
  OBVIOUS
<1>1. PlayerOutcome(p) BY PlayerStep
<1>2. \/ pc[p] = "local_read" /\ Stores(p, p)
      \/ pc[p] \in {"srv_share", "cli_add"} /\ Stores(p, other[p])
  BY <1>1 DEF PlayerOutcome, KeepsOn, KeepsShares, Goes
<1>3. macKeys[p] \in [Players -> Shares \cup {None}] /\ other[p] \in Players
  BY DEF ProtocolInv, TypeOK
<1>4. CASE pc[p] = "local_read" /\ Stores(p, p)
  <2>1. q = p /\ macKeys'[p][q] \in {q, Junk} BY <1>3, <1>4 DEF Stores
  <2> QED BY <1>4, <2>1 DEF ProtocolInv, SlotInv
<1>5. CASE pc[p] \in {"srv_share", "cli_add"} /\ Stores(p, other[p])
  <2>1. q = other[p] /\ macKeys'[p][q] \in {q, Junk} BY <1>3, <1>5 DEF Stores
  <2>2. pc[p] = "srv_share" => other[p] < p BY DEF ProtocolInv, RoleInv
  <2>3. pc[p] = "cli_add" => p < other[p] BY DEF ProtocolInv, RoleInv
  <2>4. p \in Int /\ q \in Int BY DEF Players
  <2>5. macKeys[p][q] = None
    <3>1. CASE pc[p] = "srv_share"
      <4>1. pc[p] \in Serving /\ p # q /\ other[p] <= q BY <2>1, <2>2, <2>4, <3>1
      <4> QED BY <4>1 DEF ProtocolInv, SlotInv
    <3>2. CASE pc[p] = "cli_add"
      <4>1. pc[p] \in Dialing /\ p < q /\ q <= other[p] BY <2>1, <2>3, <2>4, <3>2
      <4> QED BY <4>1 DEF ProtocolInv, SlotInv
    <3> QED BY <1>5, <3>1, <3>2
  <2> QED BY <1>5, <2>1, <2>5
<1> QED BY <1>2, <1>4, <1>5

LEMMA SlotStep ==
  ASSUME ProtocolInv, Outcome
  PROVE  SlotInv'
<1> USE DEF Before, Attending, Serving, Talking, Dialing, Ended
<1> SUFFICES ASSUME NEW p \in Players, NEW q \in Players
             PROVE  /\ macKeys'[p][q] \in {None, q, Junk}
                    /\ pc'[p] \in Before => macKeys'[p][q] = None
                    /\ pc'[p] \in Serving /\ p # q /\ other'[p] <= q => macKeys'[p][q] = None
                    /\ pc'[p] = "cli_setup" /\ p < q => macKeys'[p][q] = None
                    /\ pc'[p] \in Dialing /\ p < q /\ q <= other'[p] => macKeys'[p][q] = None
                    /\ pc'[p] \in Serving \cup {"cli_setup", "launch"} \cup Dialing =>
                         macKeys'[p][p] # None
  BY DEF SlotInv
<1>1. /\ macKeys[p][q] \in {None, q, Junk}
      /\ pc[p] \in Before => macKeys[p][q] = None
      /\ pc[p] \in Serving /\ p # q /\ other[p] <= q => macKeys[p][q] = None
      /\ pc[p] = "cli_setup" /\ p < q => macKeys[p][q] = None
      /\ pc[p] \in Dialing /\ p < q /\ q <= other[p] => macKeys[p][q] = None
      /\ pc[p] \in Serving \cup {"cli_setup", "launch"} \cup Dialing => macKeys[p][p] # None
  BY DEF ProtocolInv, SlotInv
<1>2. /\ macKeys'[p][q] # macKeys[p][q] =>
           /\ macKeys[p][q] = None /\ macKeys'[p][q] \in {q, Junk}
           /\ \/ pc[p] = "local_read" /\ q = p
              \/ pc[p] \in {"srv_share", "cli_add"} /\ q = other[p]
      /\ macKeys'[p][p] # macKeys[p][p] =>  macKeys'[p][p] \in {p, Junk}
  BY SlotFacts
<1>3. p \in Int /\ q \in Int /\ 0 <= p /\ 0 <= q /\ N \in Nat /\ q <= N - 1 /\ other[p] \in Int
      /\ p # None /\ Junk # None /\ q # None
  <2>1. other[p] \in Players BY DEF ProtocolInv, TypeOK
  <2> QED BY <2>1, TeeAssumption DEF Players, None, Junk
<1>4. /\ AfterServer(p) = (IF p < N - 1 THEN "cli_setup" ELSE "launch")
      /\ AfterLocal(p) = (IF p > 0 THEN "srv_setup" ELSE AfterServer(p))
  BY AfterFacts
<1>5. /\ pc[p] \in Before => other[p] = 0
      /\ pc[p] \in Serving => other[p] < p
      /\ pc[p] \in Dialing => p < other[p]
  BY DEF ProtocolInv, RoleInv
<1>6. PlayerOutcome(p) BY PlayerStep
<1>7. pc[p] = "local_read" /\ pc'[p] = AfterLocal(p) => macKeys'[p][p] \in {p, Junk}
  <2>1. macKeys[p] \in [Players -> Shares \cup {None}] BY DEF ProtocolInv, TypeOK
  <2>2. AfterLocal(p) \notin Before \cup Ended BY <1>4
  <2>3. pc[p] = "local_read" /\ pc'[p] = AfterLocal(p) => Stores(p, p)
    BY <1>6, <2>2 DEF PlayerOutcome, KeepsOn, KeepsPlace, Goes
  <2> QED BY <2>1, <2>3 DEF Stores
<1>8. macKeys'[p][q] \in {None, q, Junk} BY <1>1, <1>2
<1>9. pc'[p] \in Before => macKeys'[p][q] = None
  BY <1>1, <1>2, <1>4, <1>6 DEF PlayerOutcome, KeepsOn, KeepsPlace, KeepsShares, Goes
<1>10. pc'[p] \in Serving /\ p # q /\ other'[p] <= q => macKeys'[p][q] = None
  BY <1>1, <1>2, <1>3, <1>4, <1>5, <1>6
     DEF PlayerOutcome, KeepsOn, KeepsPlace, KeepsShares, KeepsPeers, Goes
<1>11. pc'[p] = "cli_setup" /\ p < q => macKeys'[p][q] = None
  BY <1>1, <1>2, <1>3, <1>4, <1>5, <1>6
     DEF PlayerOutcome, KeepsOn, KeepsPlace, KeepsShares, KeepsPeers, Goes
<1>12. pc'[p] \in Dialing /\ p < q /\ q <= other'[p] => macKeys'[p][q] = None
  BY <1>1, <1>2, <1>3, <1>4, <1>5, <1>6
     DEF PlayerOutcome, KeepsOn, KeepsPlace, KeepsShares, KeepsPeers, Goes
<1>13. pc'[p] \in Serving \cup {"cli_setup", "launch"} \cup Dialing => macKeys'[p][p] # None
  <2>1. CASE pc[p] \in Before
    BY <1>3, <1>4, <1>6, <1>7, <2>1
       DEF PlayerOutcome, KeepsOn, KeepsPlace, KeepsShares, KeepsPeers, Goes
  <2>2. CASE pc[p] \notin Before
    <3>1. pc'[p] \in Serving \cup {"cli_setup", "launch"} \cup Dialing =>
            pc[p] \in Serving \cup {"cli_setup", "launch"} \cup Dialing
      BY <1>4, <1>6, <2>2 DEF PlayerOutcome, KeepsOn, KeepsPlace, Goes
    <3> QED BY <1>1, <1>2, <1>3, <3>1
  <2> QED BY <2>1, <2>2
<1> QED BY <1>8, <1>9, <1>10, <1>11, <1>12, <1>13

\* What the KII process has sent to an enclave that has not started its roles.
LEMMA LocalStep ==
  ASSUME ProtocolInv, Outcome, NEW p \in Players, pc'[p] \in Before
  PROVE  pc[p] \in Before /\ (local'[p] = local[p] \/ KiiSend(p))
<1> USE DEF Before, Ended
<1>0. pc[p] \in Before
  <2>1. PlayerOutcome(p) BY PlayerStep
  <2>2. /\ AfterServer(p) = (IF p < N - 1 THEN "cli_setup" ELSE "launch")
        /\ AfterLocal(p) = (IF p > 0 THEN "srv_setup" ELSE AfterServer(p))
    BY AfterFacts
  <2> QED BY <2>1, <2>2 DEF PlayerOutcome, KeepsOn, KeepsPlace, Goes
<1>1. local \in [Players -> Seq(SecretShare)] /\ pc \in [Players -> EnclavePoints]
  BY DEF ProtocolInv, TypeOK
<1>2. ASSUME NEW P, Exits(P) PROVE local'[p] = local[p] BY <1>2 DEF Exits
<1>3. ASSUME KiiMoves PROVE local'[p] = local[p] \/ KiiSend(p)
  BY <1>1, <1>3 DEF KiiMoves, KiiSend
<1>4. ASSUME NEW q \in Players, OwnShareRead(q) PROVE local'[p] = local[p]
  <2>1. pc'[q] = AfterLocal(q) /\ AfterLocal(q) \notin Before
    BY <1>1, <1>4 DEF OwnShareRead, AfterLocal, AfterServer
  <2> QED BY <1>1, <1>4, <2>1 DEF OwnShareRead
<1>5. (\E P : Exits(P)) \/ KiiMoves \/ (\E q \in Players : OwnShareRead(q)) \/ UNCHANGED local
  BY DEF Outcome, Moves, ServerOutcome, Accepted, InfoRead, ShareSent, ShareRead, ClientOutcome,
         RoleTaken, ClientConnect, Queued, ClientReadShare, ShareAdded, Generates, Breaks
<1> QED BY <1>0, <1>2, <1>3, <1>4, <1>5

LEMMA ReadStep ==
  ASSUME ProtocolInv, Outcome
  PROVE  ReadInv'
<1> USE DEF Before, Ended
<1> SUFFICES ASSUME NEW p \in Players
             PROVE  /\ pc'[p] \in Before => local'[p] \in Seq(SharesOf(p))
                    /\ pc'[p] \in {"cli_send", "cli_add"} =>
                         received'[p] \in SharesOf(other'[p]) \cup {Null}
  BY DEF ReadInv
<1>1. PlayerOutcome(p) BY PlayerStep
<1>2. /\ AfterServer(p) = (IF p < N - 1 THEN "cli_setup" ELSE "launch")
      /\ AfterLocal(p) = (IF p > 0 THEN "srv_setup" ELSE AfterServer(p))
  BY AfterFacts
<1>3. /\ pc[p] \in Before => local[p] \in Seq(SharesOf(p))
      /\ pc[p] \in {"cli_send", "cli_add"} => received[p] \in SharesOf(other[p]) \cup {Null}
  BY DEF ProtocolInv, ReadInv
<1>4. pc'[p] \in {"cli_send", "cli_add"} => received'[p] \in SharesOf(other'[p]) \cup {Null}
  BY <1>1, <1>2, <1>3 DEF PlayerOutcome, KeepsOn, KeepsPlace, Goes
<1>5. pc'[p] \in Before => pc[p] \in Before /\ (local'[p] = local[p] \/ KiiSend(p))
  BY LocalStep
<1>6. ASSUME KiiSend(p) PROVE local'[p] \in Seq(SharesOf(p))
  <2> DEFINE zero == [x \in Players \cup {Junk} |-> 0]
             m == [mackeyshare |-> p, seeds |-> zero]
  <2>1. zero \in Seeds BY TeeAssumption DEF Seeds
  <2>2. m \in SharesOf(p) BY <2>1 DEF SecretShare, Shares, SharesOf
  <2>3. local \in [Players -> Seq(SecretShare)] BY DEF ProtocolInv, TypeOK
  <2>4. local'[p] \in {<<m>>, <<>>} BY <1>6, <2>3 DEF KiiSend
  <2> HIDE DEF m
  <2>5. <<m>> \in Seq(SharesOf(p)) /\ <<>> \in Seq(SharesOf(p)) BY <2>2
  <2> QED BY <2>4, <2>5
<1> QED BY <1>3, <1>4, <1>5, <1>6

\* The first two parts of BacklogInv, for a connection and for a server.
LEMMA AliveStep ==
  ASSUME ProtocolInv, Outcome
  PROVE  \A c, s \in Players : c < s /\ link'[<<c, s>>].alive =>
           pc'[c] # "exited" /\ pc'[s] # "exited"
<1> SUFFICES ASSUME NEW c \in Players, NEW s \in Players, c < s, link'[<<c, s>>].alive
             PROVE  pc'[c] # "exited" /\ pc'[s] # "exited"
  OBVIOUS
<1>1. TypeOK /\ pc \in [Players -> EnclavePoints] BY DEF ProtocolInv, TypeOK
<1>2. link[<<c, s>>].alive => pc[c] # "exited" /\ pc[s] # "exited" BY DEF ProtocolInv, BacklogInv
<1>3. ASSUME NEW p \in Players, NEW y, y # "exited", pc' = [pc EXCEPT ![p] = y],
             link'[<<c, s>>].alive => link[<<c, s>>].alive
      PROVE  pc'[c] # "exited" /\ pc'[s] # "exited"
  BY <1>1, <1>2, <1>3
<1>4. ASSUME NEW P, Exits(P) PROVE pc'[c] # "exited" /\ pc'[s] # "exited"
  BY <1>1, <1>2, <1>4, HangupFacts DEF Exits
<1>5. CASE UNCHANGED <<pc, link>> BY <1>2, <1>5
<1>6. ASSUME NEW p \in Players, NEW x, Moves(p, x) PROVE pc'[c] # "exited" /\ pc'[s] # "exited"
  <2>1. x # "exited" BY <1>6, AfterFacts DEF Moves, Before
  <2> QED BY <1>3, <1>6, <2>1 DEF Moves, connections
<1>7. ASSUME NEW p \in Players, OwnShareRead(p) PROVE pc'[c] # "exited" /\ pc'[s] # "exited"
  <2>1. AfterLocal(p) # "exited" BY AfterFacts
  <2> QED BY <1>3, <1>7, <2>1 DEF OwnShareRead, connections
<1>8. ASSUME NEW t \in Players, NEW d, Accepted(t, d) PROVE pc'[c] # "exited" /\ pc'[s] # "exited"
  <2>0. d \in Players BY <1>8, FirstClient
  <2>1. CASE Accepts(t, d)
    <3>1. pc' = [pc EXCEPT ![t] = "srv_info", ![d] = "cli_info"] /\ UNCHANGED link
      BY <1>8, <2>1 DEF Accepted
    <3> QED BY <1>1, <1>2, <2>0, <3>1
  <2>2. CASE ~Accepts(t, d)
    <3>1. /\ pc' = [p \in Players |-> IF p = t THEN "exited"
                                      ELSE IF p = d THEN "cli_info" ELSE pc[p]]
          /\ link' = Hangup({t})
      BY <1>8, <2>2 DEF Accepted
    <3>2. {t} \in SUBSET Players OBVIOUS
    <3>3. link' = Hangup({t}) BY <3>1
    <3>4. link[<<c, s>>].alive /\ c \notin {t} /\ s \notin {t} BY <1>1, <3>2, <3>3, HangupFacts
    <3> QED BY <1>1, <1>2, <3>1, <3>4
  <2> QED BY <2>1, <2>2
<1>9. ASSUME NEW t \in Players, InfoRead(t) PROVE pc'[c] # "exited" /\ pc'[s] # "exited"
  <2>1. <<served[t], t>> \in Pairs BY <1>9, Ends DEF InfoRead, Attending
  <2>2. link'[<<c, s>>].alive = link[<<c, s>>].alive
    BY <1>1, <1>9, <2>1, LinkFacts, PairFacts DEF InfoRead, Links
  <2> QED BY <1>3, <1>9, <2>2 DEF InfoRead
<1>10. ASSUME NEW t \in Players, ShareSent(t) PROVE pc'[c] # "exited" /\ pc'[s] # "exited"
  <2>1. <<served[t], t>> \in Pairs BY <1>10, Ends DEF ShareSent, Attending
  <2>2. link'[<<c, s>>].alive = link[<<c, s>>].alive
    BY <1>1, <1>10, <2>1, LinkFacts, PairFacts DEF ShareSent, Links
  <2> QED BY <1>3, <1>10, <2>2 DEF ShareSent
<1>11. ASSUME NEW t \in Players, ShareRead(t) PROVE pc'[c] # "exited" /\ pc'[s] # "exited"
  <2>1. <<served[t], t>> \in Pairs BY <1>11, Ends DEF ShareRead, Attending
  <2>2. link'[<<c, s>>].alive = link[<<c, s>>].alive
    BY <1>1, <1>11, <2>1, LinkFacts, PairFacts DEF ShareRead, Links
  <2>3. (IF other[t] + 1 >= t THEN AfterServer(t) ELSE "srv_accept") # "exited" BY AfterFacts
  <2> QED BY <1>3, <1>11, <2>2, <2>3 DEF ShareRead
<1>12. ASSUME NEW d \in Players, RoleTaken(d) PROVE pc'[c] # "exited" /\ pc'[s] # "exited"
  BY <1>3, <1>12 DEF RoleTaken, connections
<1>13. ASSUME NEW d \in Players, ClientConnect(d) PROVE pc'[c] # "exited" /\ pc'[s] # "exited"
  <2>1. <<d, other[d]>> \in Pairs BY <1>13, Ends DEF ClientConnect, Dialing
  <2>2. link[<<c, s>>].alive \/ (c = d /\ s = other[d])
    BY <1>1, <1>13, <2>1, LinkFacts, PairFacts DEF ClientConnect
  <2>3. PICK y \in {"cli_handshake", "cli_info"} : pc' = [pc EXCEPT ![d] = y]
    BY <1>13 DEF ClientConnect
  <2>4. Listening(other[d]) BY <1>13 DEF ClientConnect
  <2> QED BY <1>1, <1>2, <2>2, <2>3, <2>4 DEF Listening
<1>14. ASSUME NEW d \in Players, NEW x, NEW y, x \in Talking, y \in Talking, NEW m, Queued(d, x, y, m)
       PROVE  pc'[c] # "exited" /\ pc'[s] # "exited"
  <2>1. <<d, other[d]>> \in Pairs BY <1>14, Ends DEF Queued, Dialing
  <2>2. link'[<<c, s>>].alive = link[<<c, s>>].alive
    BY <1>1, <1>14, <2>1, LinkFacts, PairFacts DEF Queued, Links, Up
  <2>3. y # "exited" BY <1>14 DEF Talking
  <2> QED BY <1>3, <1>14, <2>2, <2>3 DEF Queued
<1>15. ASSUME NEW d \in Players, ClientReadShare(d) PROVE pc'[c] # "exited" /\ pc'[s] # "exited"
  <2>1. <<d, other[d]>> \in Pairs BY <1>15, Ends DEF ClientReadShare, Dialing, Talking
  <2>2. link'[<<c, s>>].alive = link[<<c, s>>].alive
    BY <1>1, <1>15, <2>1, LinkFacts, PairFacts DEF ClientReadShare, Links
  <2> QED BY <1>3, <1>15, <2>2 DEF ClientReadShare
<1>16. ASSUME NEW d \in Players, ShareAdded(d) PROVE pc'[c] # "exited" /\ pc'[s] # "exited"
  BY <1>3, <1>16 DEF ShareAdded, connections
<1>17. ASSUME NEW p \in Players, Generates(p) PROVE pc'[c] # "exited" /\ pc'[s] # "exited"
  BY <1>3, <1>17 DEF Generates, connections
<1>18. ASSUME NEW pair \in Pairs, Breaks(pair) PROVE pc'[c] # "exited" /\ pc'[s] # "exited"
  BY <1>1, <1>2, <1>18, BreakFacts DEF Breaks
<1>19. {"cli_info", "cli_read", "cli_send", "cli_add"} \subseteq Talking BY DEF Talking
<1> QED BY <1>4, <1>5, <1>6, <1>7, <1>8, <1>9, <1>10, <1>11, <1>12, <1>13, <1>14, <1>15, <1>16,
           <1>17, <1>18, <1>19
        DEF Outcome, ServerOutcome, ClientOutcome, KiiMoves, connections

\* How the backlog of a server changes.
LEMMA BacklogChange ==
  ASSUME ProtocolInv, Outcome, NEW s \in Players
  PROVE  \/ pc'[s] = "exited"
         \/ backlog'[s] = backlog[s] /\ ~\E c : Accepted(s, c)
         \/ \E c : Accepted(s, c) /\ backlog'[s] = Tail(backlog[s])
         \/ \E c \in Players : ClientConnect(c) /\ other[c] = s
                               /\ backlog'[s] = Append(backlog[s], c)
<1>1. backlog \in [Players -> Seq(Players)] /\ pc \in [Players -> EnclavePoints]
  BY DEF ProtocolInv, TypeOK
<1>2. ASSUME NEW c, Accepted(s, c)
      PROVE  \E d : Accepted(s, d) /\ backlog'[s] = Tail(backlog[s])
  BY <1>1, <1>2 DEF Accepted
<1>3. ASSUME NEW P, Exits(P) PROVE pc'[s] = "exited" \/ backlog'[s] = backlog[s]
  BY <1>1, <1>3 DEF Exits
<1>4. ASSUME NEW t \in Players, NEW c, Accepted(t, c), t # s PROVE backlog'[s] = backlog[s]
  BY <1>1, <1>4 DEF Accepted
<1>5. ASSUME NEW c \in Players, ClientConnect(c)
      PROVE  backlog'[s] = backlog[s] \/ (other[c] = s /\ backlog'[s] = Append(backlog[s], c))
  BY <1>1, <1>5 DEF ClientConnect
<1>6. \/ \E P : Exits(P)
      \/ UNCHANGED backlog
      \/ \E t \in Players : \E c \in Players : Accepted(t, c)
      \/ \E c \in Players : ClientConnect(c)
  BY DEF Outcome, ServerOutcome, ClientOutcome, KiiMoves, Moves, OwnShareRead, InfoRead, ShareSent,
         ShareRead, RoleTaken, Queued, ClientReadShare, ShareAdded, Generates, Breaks, connections
<1> QED BY <1>2, <1>3, <1>4, <1>5, <1>6

\* A client that has connected stays at the handshake until it is accepted
\* or ends.
LEMMA WaitingStep ==
  ASSUME ProtocolInv, Outcome, NEW c \in Players
  PROVE  /\ pc[c] = "exited" => pc'[c] = "exited"
         /\ pc[c] = "cli_handshake" =>
              \/ pc'[c] = "exited"
              \/ pc'[c] = "cli_handshake" /\ other'[c] = other[c]
              \/ Accepted(other[c], c)
<1>1. PlayerOutcome(c) BY PlayerStep
<1>2. pc[c] = "exited" => pc'[c] = "exited"
  BY <1>1 DEF PlayerOutcome, KeepsOn, KeepsPlace, Goes, Before, Ended
<1>3. pc[c] = "cli_handshake" => \/ pc'[c] = "exited"
                                 \/ pc'[c] = "cli_handshake" /\ other'[c] = other[c]
                                 \/ pc'[c] = "cli_info"
  BY <1>1 DEF PlayerOutcome, KeepsOn, KeepsPlace, Goes, Before
<1>4. ASSUME pc[c] = "cli_handshake", pc'[c] = "cli_info" PROVE Accepted(other[c], c)
  <2> DEFINE Acts(p) ==
               \/ OwnShareRead(p) \/ InfoRead(p) \/ ShareSent(p) \/ ShareRead(p) \/ RoleTaken(p)
               \/ ClientConnect(p) \/ Queued(p, "cli_info", "cli_read", Info(p))
               \/ ClientReadShare(p) \/ Queued(p, "cli_send", "cli_add", MyShare(p))
               \/ ShareAdded(p) \/ Generates(p)
  <2>1. pc \in [Players -> EnclavePoints] BY DEF ProtocolInv, TypeOK
  <2>2. ASSUME NEW p \in Players, NEW x, NEW y, pc[p] = x, pc' = [pc EXCEPT ![p] = y]
        PROVE  x = "cli_handshake" /\ y = "cli_info"
    BY <1>4, <2>1, <2>2
  <2>3. ASSUME NEW t \in Players, NEW d \in Players, Accepted(t, d) PROVE Accepted(other[c], c)
    <3>1. pc[t] = "srv_accept" /\ other[d] = t
      <4>1. other[d] = t BY <2>3, FirstClient
      <4> QED BY <2>3, <4>1 DEF Accepted
    <3>2. c \in {t, d} BY <1>4, <2>1, <2>3 DEF Accepted
    <3> QED BY <1>4, <2>3, <3>1, <3>2
  <2>4. ASSUME NEW P, Exits(P) PROVE FALSE BY <1>4, <2>4 DEF Exits
  <2>5. ASSUME UNCHANGED pc PROVE FALSE BY <1>4, <2>5
  <2>6. ASSUME NEW p \in Players, NEW x, Moves(p, x) PROVE FALSE
    BY <2>2, <2>6 DEF Moves, Before
  <2>7. ASSUME NEW p \in Players, Acts(p) PROVE FALSE
    <3>1. pc[p] # "cli_handshake" /\ \E y : pc' = [pc EXCEPT ![p] = y]
      BY <2>7 DEF OwnShareRead, InfoRead, ShareSent, ShareRead, RoleTaken, ClientConnect, Queued,
                  ClientReadShare, ShareAdded, Generates
    <3> QED BY <2>2, <3>1
  <2>8. \/ (\E P : Exits(P)) \/ UNCHANGED pc
        \/ (\E p \in Players : \E x : Moves(p, x))
        \/ (\E t, d \in Players : Accepted(t, d))
        \/ (\E p \in Players : Acts(p))
    BY DEF Outcome, ServerOutcome, ClientOutcome, KiiMoves, Breaks
  <2> QED BY <2>3, <2>4, <2>5, <2>6, <2>7, <2>8
<1> QED BY <1>2, <1>3, <1>4

LEMMA BacklogStep ==
  ASSUME ProtocolInv, Outcome
  PROVE  BacklogInv'
<1>1. ASSUME NEW s \in Players, pc'[s] \in Before \cup {"srv_setup"} PROVE backlog'[s] = <<>>
  <2>1. pc[s] \in Before \cup {"srv_setup"}
    BY <1>1, PlayerStep, AfterFacts
       DEF PlayerOutcome, KeepsOn, KeepsPlace, Goes, Before
  <2>2. backlog[s] = <<>> BY <2>1 DEF ProtocolInv, BacklogInv
  <2>3. pc'[s] # "exited" /\ pc[s] # "srv_accept" /\ ~Listening(s)
    BY <1>1, <2>1 DEF Before, Listening
  <2>4. ~\E c : Accepted(s, c) BY <2>3 DEF Accepted
  <2>5. ASSUME NEW c \in Players, ClientConnect(c), other[c] = s PROVE FALSE
    BY <2>3, <2>5 DEF ClientConnect
  <2> QED BY <2>2, <2>3, <2>4, <2>5, BacklogChange
<1> DEFINE Waiting(s) ==
      \A i \in 1 .. Len(backlog'[s]) :
        /\ \/ pc'[backlog'[s][i]] = "exited"
           \/ pc'[backlog'[s][i]] = "cli_handshake" /\ other'[backlog'[s][i]] = s
        /\ \A j \in 1 .. Len(backlog'[s]) : backlog'[s][i] = backlog'[s][j] => i = j
<1>2. ASSUME NEW s \in Players, Listening(s)', s = N - 1 PROVE Waiting(s)
  <2>1. pc'[s] # "exited" BY <1>2 DEF Listening
  <2>2. Listening(s) \/ backlog[s] = <<>>
    <3>1. Listening(s) \/ pc[s] \in Before \cup {"srv_setup"}
      BY <1>2, PlayerStep, AfterFacts
         DEF PlayerOutcome, KeepsOn, KeepsPlace, Goes, Before, Listening
    <3> QED BY <3>1 DEF ProtocolInv, BacklogInv
  <2>3. backlog[s] \in Seq(Players) BY DEF ProtocolInv, TypeOK
  <2>4. \A i \in 1 .. Len(backlog[s]) :
          /\ backlog[s][i] \in Players
          /\ \/ pc[backlog[s][i]] = "exited"
             \/ pc[backlog[s][i]] = "cli_handshake" /\ other[backlog[s][i]] = s
          /\ \A j \in 1 .. Len(backlog[s]) : backlog[s][i] = backlog[s][j] => i = j
    BY <1>2, <2>2, <2>3 DEF ProtocolInv, BacklogInv
  <2>5. \A i \in 1 .. Len(backlog[s]) :
          \/ Accepted(s, backlog[s][i])
          \/ pc'[backlog[s][i]] = "exited"
          \/ pc'[backlog[s][i]] = "cli_handshake" /\ other'[backlog[s][i]] = s
    BY <2>4, WaitingStep
  <2>6. CASE backlog'[s] = backlog[s] /\ ~\E c : Accepted(s, c)
    BY <2>4, <2>5, <2>6
  <2>7. ASSUME NEW c, Accepted(s, c), backlog'[s] = Tail(backlog[s])
        PROVE  Waiting(s)
    <3>1. c = backlog[s][1] /\ 1 \in 1 .. Len(backlog[s]) BY <2>7, FirstClient
    <3>2. Len(backlog'[s]) = Len(backlog[s]) - 1
      BY <2>3, <2>7, <3>1
    <3>3. \A i \in 1 .. Len(backlog'[s]) :
            i + 1 \in 1 .. Len(backlog[s]) /\ i + 1 # 1 /\ backlog'[s][i] = backlog[s][i + 1]
      BY <2>3, <2>7, <3>1, <3>2
    <3>4. \A i \in 1 .. Len(backlog[s]) : Accepted(s, backlog[s][i]) => i = 1
      <4>1. ASSUME NEW i \in 1 .. Len(backlog[s]), Accepted(s, backlog[s][i]) PROVE i = 1
        <5>1. backlog[s][i] = backlog[s][1] BY <4>1, FirstClient
        <5> QED BY <2>4, <3>1, <5>1
      <4> QED BY <4>1
    <3>5. ASSUME NEW i \in 1 .. Len(backlog'[s])
          PROVE  \/ pc'[backlog'[s][i]] = "exited"
                 \/ pc'[backlog'[s][i]] = "cli_handshake" /\ other'[backlog'[s][i]] = s
      BY <2>4, <2>5, <3>3, <3>4
    <3>6. ASSUME NEW i \in 1 .. Len(backlog'[s]), NEW j \in 1 .. Len(backlog'[s]),
                 backlog'[s][i] = backlog'[s][j]
          PROVE  i = j
      <4>1. i + 1 = j + 1 BY <2>4, <3>3, <3>6
      <4> QED BY <4>1
    <3> QED BY <3>5, <3>6
  <2>8. ASSUME NEW c \in Players, ClientConnect(c), other[c] = s,
               backlog'[s] = Append(backlog[s], c)
        PROVE  Waiting(s)
    <3>1. pc[c] = "cli_connect" /\ pc' = [pc EXCEPT ![c] = "cli_handshake"] /\ UNCHANGED other
      BY <1>2, <2>8 DEF ClientConnect, FirstServer, exchanged
    <3>3. pc'[c] = "cli_handshake" /\ other'[c] = s BY <2>8, <3>1 DEF ProtocolInv, TypeOK
    <3>4. Listening(s) /\ pc[s] # "cli_connect" BY <2>8 DEF ClientConnect, Listening
    <3>5. ~\E d : Accepted(s, d)
      <4> SUFFICES ASSUME NEW d, Accepted(s, d) PROVE FALSE OBVIOUS
      <4>1. Len(backlog'[s]) = Len(backlog[s]) + 1 BY <2>3, <2>8
      <4>2. backlog'[s] = Tail(backlog[s]) /\ backlog[s] # <<>>
        BY DEF Accepted, ProtocolInv, TypeOK
      <4>3. Len(backlog'[s]) = Len(backlog[s]) - 1 BY <2>3, <4>2
      <4>4. Len(backlog[s]) \in Nat BY <2>3
      <4> QED BY <4>1, <4>3, <4>4
    <3>6. \A i \in 1 .. Len(backlog[s]) : backlog[s][i] # c BY <2>4, <3>1
    <3>7. /\ Len(backlog'[s]) = Len(backlog[s]) + 1 /\ Len(backlog[s]) \in Nat
          /\ backlog'[s][Len(backlog[s]) + 1] = c
          /\ \A i \in 1 .. Len(backlog[s]) : backlog'[s][i] = backlog[s][i]
      BY <2>3, <2>8
    <3>8. \A i \in 1 .. Len(backlog'[s]) : i \in 1 .. Len(backlog[s]) \/ i = Len(backlog[s]) + 1
      BY <3>7
    <3>9. ASSUME NEW i \in 1 .. Len(backlog'[s])
          PROVE  \/ pc'[backlog'[s][i]] = "exited"
                 \/ pc'[backlog'[s][i]] = "cli_handshake" /\ other'[backlog'[s][i]] = s
      <4>1. CASE i = Len(backlog[s]) + 1
        <5>1. backlog'[s][i] = c BY <3>7, <4>1
        <5> QED BY <3>3, <5>1
      <4>2. CASE i \in 1 .. Len(backlog[s])
        <5>1. backlog'[s][i] = backlog[s][i] BY <3>7, <4>2
        <5> QED BY <2>4, <2>5, <3>5, <4>2, <5>1
      <4> QED BY <3>8, <4>1, <4>2
    <3>10. ASSUME NEW i \in 1 .. Len(backlog'[s]), NEW j \in 1 .. Len(backlog'[s]),
                  backlog'[s][i] = backlog'[s][j]
           PROVE  i = j
      <4>1. (i \in 1 .. Len(backlog[s]) \/ i = Len(backlog[s]) + 1)
            /\ (j \in 1 .. Len(backlog[s]) \/ j = Len(backlog[s]) + 1)
        BY <3>8
      <4> QED BY <2>4, <3>6, <3>7, <3>10, <4>1
    <3> QED BY <3>9, <3>10
  <2> QED BY <2>1, <2>6, <2>7, <2>8, BacklogChange
<1>3. ASSUME NEW s \in Players, Listening(s)', NEW i \in 1 .. Len(backlog'[s])
      PROVE  backlog'[s][i] < s
  <2>1. Listening(s) \/ backlog[s] = <<>>
    <3>1. Listening(s) \/ pc[s] \in Before \cup {"srv_setup"}
      BY <1>3, PlayerStep, AfterFacts
         DEF PlayerOutcome, KeepsOn, KeepsPlace, Goes, Before, Listening
    <3> QED BY <3>1 DEF ProtocolInv, BacklogInv
  <2>2. backlog[s] \in Seq(Players) BY DEF ProtocolInv, TypeOK
  <2>3. \A j \in 1 .. Len(backlog[s]) : backlog[s][j] < s
    BY <2>1, <2>2 DEF ProtocolInv, BacklogInv
  <2>4. CASE backlog'[s] = backlog[s] BY <2>3, <2>4
  <2>5. ASSUME NEW c, Accepted(s, c), backlog'[s] = Tail(backlog[s]) PROVE backlog'[s][i] < s
    <3>1. backlog[s] # <<>> BY <2>5 DEF Accepted
    <3>2. i + 1 \in 1 .. Len(backlog[s]) /\ backlog'[s][i] = backlog[s][i + 1]
      BY <2>2, <2>5, <3>1
    <3> QED BY <2>3, <3>2
  <2>6. ASSUME NEW c \in Players, ClientConnect(c), other[c] = s,
               backlog'[s] = Append(backlog[s], c)
        PROVE  backlog'[s][i] < s
    <3>1. c < s BY <2>6, Ends DEF ClientConnect, Dialing
    <3>2. (i \in 1 .. Len(backlog[s]) /\ backlog'[s][i] = backlog[s][i]) \/ backlog'[s][i] = c
      BY <2>2, <2>6
    <3> QED BY <2>3, <3>1, <3>2
  <2>7. pc'[s] # "exited" BY <1>3 DEF Listening
  <2> QED BY <2>4, <2>5, <2>6, <2>7, BacklogChange
<1> QED BY <1>1, <1>2, <1>3, AliveStep DEF BacklogInv

\* The part of ChannelInv about one connection.
Channel(c, s) ==
  LET l == link[<<c, s>>] IN
  /\ l.down \in Seq(SharesOf(s))
  /\ l.up \in InfoQueue(c) \cup ShareQueue(c)
  /\ served[s] = c /\ pc[s] = "srv_info" => l.up \in InfoQueue(c)
  /\ served[s] = c /\ pc[s] \in {"srv_send", "srv_share"} => l.up \in ShareQueue(c)
  /\ other[c] = s /\ pc[c] \in {"cli_handshake", "cli_info"} => l.up = <<>>
  /\ s = N - 1 /\ other[c] = s /\ pc[c] = "cli_info" /\ l.alive =>
       served[s] = c /\ pc[s] = "srv_info"
  /\ s = N - 1 /\ other[c] = s /\ pc[c] \in {"cli_read", "cli_send"} /\ l.alive =>
       /\ served[s] = c
       /\ \/ pc[s] = "srv_info" /\ l.up = <<Info(c)>>
          \/ pc[s] \in {"srv_send", "srv_share"} /\ l.up = <<>>
  /\ s # N - 1 => l.down = <<>>
  /\ s # N - 1 /\ other[c] = s /\ pc[c] = "cli_send" => ~l.alive

LEMMA SameQueues ==
  ASSUME env' = env, NEW c
  PROVE  /\ Info(c)' = Info(c) /\ InfoQueue(c)' = InfoQueue(c)
         /\ ShareQueue(c)' = ShareQueue(c) /\ SharesOf(c)' = SharesOf(c)
BY DEF Info, InfoQueue, ShareQueue

Meeting == {"cli_handshake", "cli_info", "cli_read", "cli_send"}

\* Where neither side takes a step on their connection, it stays as it is,
\* or loses what was under way.
LEMMA ChannelKept ==
  ASSUME TypeOK, env' = env, NEW c \in Players, NEW s \in Players, c < s, Channel(c, s),
         link'[<<c, s>>].up \in {link[<<c, s>>].up, <<>>},
         link'[<<c, s>>].down \in {link[<<c, s>>].down, <<>>},
         link'[<<c, s>>].alive =>
           link[<<c, s>>].alive /\ link'[<<c, s>>].up = link[<<c, s>>].up,
         \/ pc'[c] = pc[c] /\ other'[c] = other[c]
         \/ other'[c] # s
         \/ pc'[c] \notin Meeting,
         \/ pc'[s] = pc[s] /\ served'[s] = served[s]
         \/ /\ served'[s] # c \/ pc'[s] \notin Attending
            /\ served[s] # c \/ pc[s] \notin Attending \/ ~link'[<<c, s>>].alive
  PROVE  Channel(c, s)'
<1> DEFINE u == link[<<c, s>>].up
           v == link'[<<c, s>>].up
           d == link[<<c, s>>].down
           e == link'[<<c, s>>].down
           a == link[<<c, s>>].alive
           b == link'[<<c, s>>].alive
<1>1. /\ d \in Seq(SharesOf(s)) /\ u \in InfoQueue(c) \cup ShareQueue(c)
      /\ served[s] = c /\ pc[s] = "srv_info" => u \in InfoQueue(c)
      /\ served[s] = c /\ pc[s] \in {"srv_send", "srv_share"} => u \in ShareQueue(c)
      /\ other[c] = s /\ pc[c] \in {"cli_handshake", "cli_info"} => u = <<>>
      /\ s = N - 1 /\ other[c] = s /\ pc[c] = "cli_info" /\ a => served[s] = c /\ pc[s] = "srv_info"
      /\ s = N - 1 /\ other[c] = s /\ pc[c] \in {"cli_read", "cli_send"} /\ a =>
           /\ served[s] = c
           /\ \/ pc[s] = "srv_info" /\ u = <<Info(c)>>
              \/ pc[s] \in {"srv_send", "srv_share"} /\ u = <<>>
      /\ s # N - 1 => d = <<>>
      /\ s # N - 1 /\ other[c] = s /\ pc[c] = "cli_send" => ~a
  BY DEF Channel
<1>2. v \in {u, <<>>} /\ e \in {d, <<>>} /\ (b => a /\ v = u) OBVIOUS
<1>3. \/ pc'[s] = pc[s] /\ served'[s] = served[s]
      \/ /\ served'[s] # c \/ pc'[s] \notin Attending
         /\ served[s] # c \/ pc[s] \notin Attending \/ ~b
  OBVIOUS
<1>4. <<>> \in Seq(SharesOf(s)) /\ <<>> \in InfoQueue(c) /\ <<>> \in ShareQueue(c)
  BY DEF InfoQueue, ShareQueue
<1> DEFINE Then ==
      /\ e \in Seq(SharesOf(s)) /\ v \in InfoQueue(c) \cup ShareQueue(c)
      /\ served'[s] = c /\ pc'[s] = "srv_info" => v \in InfoQueue(c)
      /\ served'[s] = c /\ pc'[s] \in {"srv_send", "srv_share"} => v \in ShareQueue(c)
      /\ other'[c] = s /\ pc'[c] \in {"cli_handshake", "cli_info"} => v = <<>>
      /\ s = N - 1 /\ other'[c] = s /\ pc'[c] = "cli_info" /\ b =>
           served'[s] = c /\ pc'[s] = "srv_info"
      /\ s = N - 1 /\ other'[c] = s /\ pc'[c] \in {"cli_read", "cli_send"} /\ b =>
           /\ served'[s] = c
           /\ \/ pc'[s] = "srv_info" /\ v = <<Info(c)>>
              \/ pc'[s] \in {"srv_send", "srv_share"} /\ v = <<>>
      /\ s # N - 1 => e = <<>>
      /\ s # N - 1 /\ other'[c] = s /\ pc'[c] = "cli_send" => ~b
<1>5. Then => Channel(c, s)' BY SameQueues DEF Channel
<1> HIDE DEF u, v, d, e, a, b
<1>6. Then
  <2>1. e \in Seq(SharesOf(s)) /\ v \in InfoQueue(c) \cup ShareQueue(c) BY <1>1, <1>2, <1>4
  <2>2. served'[s] = c /\ pc'[s] = "srv_info" => v \in InfoQueue(c)
    BY <1>1, <1>2, <1>3, <1>4 DEF Attending
  <2>3. served'[s] = c /\ pc'[s] \in {"srv_send", "srv_share"} => v \in ShareQueue(c)
    BY <1>1, <1>2, <1>3, <1>4 DEF Attending
  <2>4. other'[c] = s /\ pc'[c] \in {"cli_handshake", "cli_info"} => v = <<>>
    BY <1>1, <1>2 DEF Meeting
  <2>5. s = N - 1 /\ other'[c] = s /\ pc'[c] = "cli_info" /\ b =>
           served'[s] = c /\ pc'[s] = "srv_info"
    BY <1>1, <1>2, <1>3 DEF Meeting, Attending
  <2>6. s = N - 1 /\ other'[c] = s /\ pc'[c] \in {"cli_read", "cli_send"} /\ b =>
           /\ served'[s] = c
           /\ \/ pc'[s] = "srv_info" /\ v = <<Info(c)>>
              \/ pc'[s] \in {"srv_send", "srv_share"} /\ v = <<>>
    BY <1>1, <1>2, <1>3 DEF Meeting, Attending
  <2>7. /\ s # N - 1 => e = <<>>
        /\ s # N - 1 /\ other'[c] = s /\ pc'[c] = "cli_send" => ~b
    BY <1>1, <1>2 DEF Meeting
  <2> QED BY <2>1, <2>2, <2>3, <2>4, <2>5, <2>6, <2>7
<1> QED BY <1>5, <1>6

\* A queue of two.
LEMMA AppendTwo ==
  ASSUME NEW S, NEW i \in S, NEW m \in S
  PROVE  Append(<<i>>, m) = <<i, m>>
<1> DEFINE x == Append(<<i>>, m)
           y == <<i, m>>
<1>1. x \in Seq(S) /\ y \in Seq(S) OBVIOUS
<1>2. Len(x) = 2 /\ Len(y) = 2 OBVIOUS
<1>3. x[1] = i /\ x[2] = m OBVIOUS
<1>4. y[1] = i /\ y[2] = m OBVIOUS
<1>5. \A k \in 1 .. 2 : k = 1 \/ k = 2 OBVIOUS
<1>6. x = [k \in 1 .. 2 |-> x[k]] /\ y = [k \in 1 .. 2 |-> y[k]] BY <1>1, <1>2
<1> QED BY <1>3, <1>4, <1>5, <1>6

LEMMA ChannelStep ==
  ASSUME ProtocolInv, Outcome
  PROVE  ChannelInv'
<1> SUFFICES ASSUME NEW c \in Players, NEW s \in Players, c < s PROVE Channel(c, s)'
  BY DEF ChannelInv, Channel
<1> DEFINE u == link[<<c, s>>].up
           v == link'[<<c, s>>].up
           d == link[<<c, s>>].down
           e == link'[<<c, s>>].down
           a == link[<<c, s>>].alive
           b == link'[<<c, s>>].alive
           Then ==
      /\ e \in Seq(SharesOf(s)) /\ v \in InfoQueue(c) \cup ShareQueue(c)
      /\ served'[s] = c /\ pc'[s] = "srv_info" => v \in InfoQueue(c)
      /\ served'[s] = c /\ pc'[s] \in {"srv_send", "srv_share"} => v \in ShareQueue(c)
      /\ other'[c] = s /\ pc'[c] \in {"cli_handshake", "cli_info"} => v = <<>>
      /\ s = N - 1 /\ other'[c] = s /\ pc'[c] = "cli_info" /\ b =>
           served'[s] = c /\ pc'[s] = "srv_info"
      /\ s = N - 1 /\ other'[c] = s /\ pc'[c] \in {"cli_read", "cli_send"} /\ b =>
           /\ served'[s] = c
           /\ \/ pc'[s] = "srv_info" /\ v = <<Info(c)>>
              \/ pc'[s] \in {"srv_send", "srv_share"} /\ v = <<>>
      /\ s # N - 1 => e = <<>>
      /\ s # N - 1 /\ other'[c] = s /\ pc'[c] = "cli_send" => ~b
           Fewer == v \in {u, <<>>} /\ e \in {d, <<>>} /\ (b => a /\ v = u)
           ClientKept == \/ pc'[c] = pc[c] /\ other'[c] = other[c]
                         \/ other'[c] # s
                         \/ pc'[c] \notin Meeting
           ServerKept == \/ pc'[s] = pc[s] /\ served'[s] = served[s]
                         \/ /\ served'[s] # c \/ pc'[s] \notin Attending
                            /\ served[s] # c \/ pc[s] \notin Attending \/ ~b
<1>1. TypeOK /\ env' = env /\ Channel(c, s)
  BY EnvironmentKept DEF ProtocolInv, ChannelInv, Channel
<1>2. Then => Channel(c, s)' BY <1>1, SameQueues DEF Channel
<1>3. Fewer /\ ClientKept /\ ServerKept => Channel(c, s)' BY <1>1, ChannelKept
<1>4. /\ d \in Seq(SharesOf(s)) /\ u \in InfoQueue(c) \cup ShareQueue(c)
      /\ served[s] = c /\ pc[s] = "srv_info" => u \in InfoQueue(c)
      /\ served[s] = c /\ pc[s] \in {"srv_send", "srv_share"} => u \in ShareQueue(c)
      /\ other[c] = s /\ pc[c] \in {"cli_handshake", "cli_info"} => u = <<>>
      /\ s = N - 1 /\ other[c] = s /\ pc[c] = "cli_info" /\ a => served[s] = c /\ pc[s] = "srv_info"
      /\ s = N - 1 /\ other[c] = s /\ pc[c] \in {"cli_read", "cli_send"} /\ a =>
           /\ served[s] = c
           /\ \/ pc[s] = "srv_info" /\ u = <<Info(c)>>
              \/ pc[s] \in {"srv_send", "srv_share"} /\ u = <<>>
      /\ s # N - 1 => d = <<>>
      /\ s # N - 1 /\ other[c] = s /\ pc[c] = "cli_send" => ~a
  BY <1>1 DEF Channel
<1>5. /\ pc \in [Players -> EnclavePoints] /\ other \in [Players -> Players]
      /\ served \in [Players -> Players \cup {None}] /\ c # s /\ <<c, s>> \in Pairs
      /\ link \in [Pairs -> Links] /\ link[<<c, s>>] \in Links /\ a \in BOOLEAN
  <2>1. /\ pc \in [Players -> EnclavePoints] /\ other \in [Players -> Players]
        /\ served \in [Players -> Players \cup {None}]
    BY <1>1 DEF TypeOK
  <2>2. link \in [Pairs -> Links] /\ <<c, s>> \in Pairs BY <1>1, PairFacts, LinkFacts
  <2>3. link[<<c, s>>] \in Links /\ a \in BOOLEAN BY <2>2 DEF Links
  <2>4. c # s BY DEF Players
  <2> QED BY <2>1, <2>2, <2>3, <2>4
<1>6. <<>> \in Seq(SharesOf(s)) /\ <<>> \in InfoQueue(c) /\ <<>> \in ShareQueue(c)
  BY DEF InfoQueue, ShareQueue
<1>7. UNCHANGED link => Fewer BY <1>4
<1> HIDE DEF u, v, d, e, a, b, Fewer
<1>8. ASSUME NEW P, Exits(P) PROVE Channel(c, s)'
  <2>1. v = u /\ e = d /\ (b => a /\ c \notin P /\ s \notin P)
    <3>1. P \in SUBSET Players /\ link' = Hangup(P) BY <1>8 DEF Exits
    <3> QED BY <1>1, <3>1, HangupFacts DEF u, v, d, e, a, b
  <2>2. Fewer BY <2>1 DEF Fewer
  <2>3. ClientKept BY <1>5, <1>8 DEF Exits, Meeting
  <2>4. ServerKept
    <3>1. CASE s \in P BY <1>5, <1>8, <2>1, <3>1 DEF Exits, Attending
    <3>2. CASE s \notin P BY <1>5, <1>8, <3>2 DEF Exits
    <3> QED BY <3>1, <3>2
  <2> QED BY <1>3, <2>2, <2>3, <2>4
<1>9. ASSUME NEW p \in Players, NEW y, pc' = [pc EXCEPT ![p] = y], UNCHANGED <<link, served>>,
             pc[p] \notin Meeting \cup Attending, y \notin Meeting \cup Attending,
             \A q \in Players \ {p} : other'[q] = other[q]
      PROVE  Channel(c, s)'
  BY <1>3, <1>5, <1>7, <1>9
<1>10. CASE KiiMoves
  BY <1>3, <1>7, <1>10 DEF KiiMoves, exchanged, connections
<1>11. ASSUME NEW p \in Players, NEW x, Moves(p, x) PROVE Channel(c, s)'
  <2>1. x \notin Meeting \cup Attending /\ (pc[p] = "srv_info" \/ pc[p] \notin Meeting \cup Attending)
    BY <1>11, AfterFacts DEF Moves, Meeting, Attending, Before
  <2>2. CASE pc[p] # "srv_info" BY <1>9, <1>11, <2>1, <2>2 DEF Moves, exchanged, connections
  <2>3. CASE pc[p] = "srv_info"
    <3>1. ~link[<<served[p], p>>].alive /\ pc' = [pc EXCEPT ![p] = x]
          /\ UNCHANGED <<other, link, served>>
      BY <1>11, <2>3 DEF Moves, exchanged, connections, Before
    <3>2. Fewer BY <1>7, <3>1
    <3>3. ClientKept BY <1>5, <2>1, <3>1
    <3>4. ServerKept
      <4>1. CASE s = p /\ served[s] = c
        <5>1. ~b BY <3>1, <4>1 DEF b
        <5> QED BY <1>5, <2>1, <3>1, <4>1, <5>1
      <4>2. CASE s # p \/ served[s] # c BY <1>5, <3>1, <4>2
      <4> QED BY <4>1, <4>2
    <3> QED BY <1>3, <3>2, <3>3, <3>4
  <2> QED BY <2>2, <2>3
<1>12. ASSUME NEW p \in Players, OwnShareRead(p) PROVE Channel(c, s)'
  <2>1. pc[p] \notin Meeting \cup Attending /\ AfterLocal(p) \notin Meeting \cup Attending
    BY <1>12, AfterFacts DEF OwnShareRead, Meeting, Attending
  <2> QED BY <1>9, <1>12, <2>1 DEF OwnShareRead, connections
<1>13. ASSUME NEW t \in Players, NEW k, Accepted(t, k) PROVE Channel(c, s)'
  <2>1. k \in Players /\ k < t /\ k # t /\ pc[k] = "cli_handshake" /\ other[k] = t /\ t = N - 1
    BY <1>13, FirstClient
  <2>2. /\ pc[t] = "srv_accept" /\ served' = [served EXCEPT ![t] = k] /\ UNCHANGED other
        /\ link[<<k, t>>].alive
    BY <1>13 DEF Accepted
  <2>3. /\ \A q \in Players \ {t, k} : pc'[q] = pc[q]
        /\ pc'[k] = "cli_info"
        /\ pc'[t] = IF Accepts(t, k) THEN "srv_info" ELSE "exited"
    BY <1>5, <1>13, <2>1 DEF Accepted
  <2>4. v = u /\ e = d /\ (b => a) /\ (~Accepts(t, k) => (b => s # t))
    <3>1. CASE Accepts(t, k) BY <1>13, <3>1 DEF Accepted, u, v, d, e, a, b
    <3>2. CASE ~Accepts(t, k)
      <4>1. {t} \in SUBSET Players /\ link' = Hangup({t}) BY <1>13, <3>2 DEF Accepted
      <4> QED BY <1>1, <4>1, HangupFacts DEF u, v, d, e, a, b
    <3> QED BY <3>1, <3>2
  <2>5. CASE c = k /\ s = t
    <3>1. Then BY <1>4, <1>5, <1>6, <2>1, <2>2, <2>3, <2>4, <2>5
    <3> QED BY <1>2, <3>1
  <2>6. CASE ~(c = k /\ s = t)
    <3>1. Fewer BY <2>4 DEF Fewer
    <3>2. ClientKept BY <1>5, <2>1, <2>2, <2>3, <2>6 DEF Meeting
    <3>3. ServerKept BY <1>5, <2>1, <2>2, <2>3, <2>6 DEF Attending
    <3> QED BY <1>3, <3>1, <3>2, <3>3
  <2> QED BY <2>5, <2>6
<1>14. ASSUME NEW t \in Players, NEW y \in Attending, pc[t] \in Attending,
              pc' = [pc EXCEPT ![t] = y], UNCHANGED <<other, served>>,
              ~(c = served[t] /\ s = t), v = u, e = d, b = a
       PROVE  Channel(c, s)'
  <2>1. Fewer BY <1>14 DEF Fewer
  <2>2. ClientKept BY <1>5, <1>14 DEF Meeting, Attending
  <2>3. ServerKept BY <1>5, <1>14
  <2> QED BY <1>3, <2>1, <2>2, <2>3
<1>15. ASSUME NEW t \in Players, InfoRead(t) PROVE Channel(c, s)'
  <2> DEFINE k == served[t]
             x == Tail(link[<<k, t>>].up)
  <2>1. /\ pc[t] = "srv_info" /\ pc' = [pc EXCEPT ![t] = "srv_send"] /\ UNCHANGED <<other, served>>
        /\ link[<<k, t>>].up # <<>> /\ link' = [link EXCEPT ![<<k, t>>].up = x]
    BY <1>15 DEF InfoRead, exchanged
  <2>2. k \in Players /\ k < t /\ link[<<k, t>>] \in Links BY <2>1, Ends DEF Attending
  <2>3. x \in Seq(PlayerInfo \cup SecretShare) BY <1>1, <2>1, <2>2, LinkFacts
  <2> HIDE DEF k, x
  <2>4. /\ link'[<<k, t>>].up = x /\ link'[<<k, t>>].down = link[<<k, t>>].down
        /\ link'[<<k, t>>].alive = link[<<k, t>>].alive
        /\ Elsewhere(k, t)
    <3>1. TypeOK BY <1>1
    <3>2. SetsUp(k, t, x) BY <2>1 DEF SetsUp
    <3> QED BY <3>1, <3>2, <2>2, <2>3, UpUpdate
  <2>5. CASE c = k /\ s = t
    <3>1. v = Tail(u) /\ e = d /\ b = a /\ u # <<>>
      BY <2>1, <2>4, <2>5 DEF u, v, d, e, a, b, x
    <3>2. u \in InfoQueue(c) BY <1>4, <2>1, <2>5 DEF k
    <3>3. v \in ShareQueue(c) /\ (u = <<Info(c)>> => v = <<>>)
      BY <3>1, <3>2, QueueFacts DEF ProtocolInv
    <3>4. pc'[s] = "srv_send" /\ served'[s] = c /\ pc'[c] = pc[c] /\ other'[c] = other[c]
      BY <1>5, <2>1, <2>5 DEF k
    <3>5. Then BY <1>4, <2>1, <2>5, <3>1, <3>3, <3>4
    <3> QED BY <1>2, <3>5
  <2>6. CASE ~(c = k /\ s = t)
    <3>1. v = u /\ e = d /\ b = a BY <2>4, <2>6 DEF u, v, d, e, a, b, Elsewhere
    <3> QED BY <1>14, <2>1, <2>6, <3>1 DEF k, Attending
  <2> QED BY <2>5, <2>6
<1>16. ASSUME NEW t \in Players, ShareSent(t) PROVE Channel(c, s)'
  <2> DEFINE k == served[t]
  <2>1. pc[t] = "srv_send" /\ pc' = [pc EXCEPT ![t] = "srv_share"] /\ UNCHANGED <<other, served>>
    BY <1>16 DEF ShareSent, exchanged
  <2>0. t = N - 1 BY <2>1 DEF ProtocolInv, RoleInv, Attending
  <2>2. k \in Players /\ k < t /\ link[<<k, t>>] \in Links BY <2>1, Ends DEF Attending
  <2>3. MyShare(t) \in SharesOf(t)
    BY <2>1, OwnShareFacts DEF ProtocolInv, SlotInv, Serving, Attending
  <2>4. link[<<k, t>>].down \in Seq(SharesOf(t)) BY <2>2 DEF ProtocolInv, ChannelInv
  <2>5. PICK x \in Seq(SharesOf(t)) : link' = [link EXCEPT ![<<k, t>>].down = x]
    <3>1. Append(link[<<k, t>>].down, MyShare(t)) \in Seq(SharesOf(t)) BY <2>3, <2>4
    <3> QED BY <1>16, <2>4, <3>1 DEF ShareSent
  <2>6. x \in Seq(SecretShare)
    <3>1. SharesOf(t) \subseteq SecretShare BY MessageFacts
    <3> QED BY <2>5, <3>1
  <2> HIDE DEF k
  <2>7. /\ link'[<<k, t>>].up = link[<<k, t>>].up /\ link'[<<k, t>>].down = x
        /\ link'[<<k, t>>].alive = link[<<k, t>>].alive
        /\ Elsewhere(k, t)
    <3>1. TypeOK BY <1>1
    <3>2. SetsDown(k, t, x) BY <2>5 DEF SetsDown
    <3> QED BY <3>1, <2>2, <3>2, <2>6, DownUpdate
  <2>8. CASE c = k /\ s = t
    <3>1. v = u /\ e \in Seq(SharesOf(s)) /\ b = a
      BY <2>5, <2>7, <2>8 DEF u, v, e, a, b
    <3>2. pc'[s] = "srv_share" /\ served'[s] = c /\ pc'[c] = pc[c] /\ other'[c] = other[c]
      BY <1>5, <2>1, <2>8 DEF k
    <3>3. Then BY <1>4, <2>0, <2>1, <2>8, <3>1, <3>2
    <3> QED BY <1>2, <3>3
  <2>9. CASE ~(c = k /\ s = t)
    <3>1. v = u /\ e = d /\ b = a BY <2>7, <2>9 DEF u, v, d, e, a, b, Elsewhere
    <3> QED BY <1>14, <2>1, <2>9, <3>1 DEF k, Attending
  <2> QED BY <2>8, <2>9
<1>17. ASSUME NEW t \in Players, ShareRead(t) PROVE Channel(c, s)'
  <2> DEFINE k == served[t]
  <2>1. /\ pc[t] = "srv_share" /\ link' = [link EXCEPT ![<<k, t>>].up = <<>>]
        /\ served' = [served EXCEPT ![t] = None]
        /\ other' = [other EXCEPT ![t] = @ + 1]
        /\ pc' = [pc EXCEPT ![t] = IF other[t] + 1 >= t THEN AfterServer(t) ELSE "srv_accept"]
    BY <1>17 DEF ShareRead
  <2>2. k \in Players /\ k < t /\ link[<<k, t>>] \in Links BY <2>1, Ends DEF Attending
  <2>3. /\ \A q \in Players \ {t} : pc'[q] = pc[q] /\ other'[q] = other[q] /\ served'[q] = served[q]
        /\ pc'[t] \notin Attending \cup Meeting /\ served'[t] = None
    BY <1>5, <2>1, AfterFacts DEF Attending, Meeting
  <2>4. PICK m : m \in Unpacked(link[<<k, t>>].up, link[<<k, t>>].alive) BY <1>17 DEF ShareRead
  <2> HIDE DEF k
  <2>5. <<>> \in Seq(PlayerInfo \cup SecretShare) OBVIOUS
  <2>6. /\ link'[<<k, t>>].up = <<>> /\ link'[<<k, t>>].down = link[<<k, t>>].down
        /\ link'[<<k, t>>].alive = link[<<k, t>>].alive
        /\ Elsewhere(k, t)
    <3>1. TypeOK BY <1>1
    <3>2. SetsUp(k, t, <<>>) BY <2>1 DEF SetsUp
    <3> QED BY <3>1, <3>2, <2>2, <2>5, UpUpdate
  <2>7. CASE c = k /\ s = t
    <3>1. v = <<>> /\ e = d /\ b = a /\ (a => u # <<>>)
      BY <2>4, <2>6, <2>7 DEF u, v, d, e, a, b, Unpacked
    <3>2. Then BY <1>4, <1>5, <1>6, <2>1, <2>3, <2>7, <3>1 DEF Attending
    <3> QED BY <1>2, <3>2
  <2>8. CASE ~(c = k /\ s = t)
    <3>1. v = u /\ e = d /\ b = a BY <2>6, <2>8 DEF u, v, d, e, a, b, Elsewhere
    <3>2. Fewer BY <3>1 DEF Fewer
    <3>3. ClientKept BY <2>3
    <3>4. ServerKept BY <2>3, <2>8 DEF k
    <3> QED BY <1>3, <3>2, <3>3, <3>4
  <2> QED BY <2>7, <2>8
<1>18. ASSUME NEW k \in Players, NEW y \in Meeting \cup {"cli_add"},
              pc[k] \in Meeting \cup {"cli_connect"}, pc' = [pc EXCEPT ![k] = y],
              UNCHANGED <<other, served>>,
              ~(c = k /\ s = other[k]), v = u, e = d, b = a
       PROVE  Channel(c, s)'
  <2>1. Fewer BY <1>18 DEF Fewer
  <2>2. ClientKept BY <1>5, <1>18
  <2>3. ServerKept BY <1>5, <1>18 DEF Meeting, Attending
  <2> QED BY <1>3, <2>1, <2>2, <2>3
<1>19. ASSUME NEW k \in Players, ClientConnect(k) PROVE Channel(c, s)'
  <2> DEFINE t == other[k]
             l == [alive |-> TRUE, up |-> <<>>, down |-> <<>>]
             y == IF t = N - 1 THEN "cli_handshake" ELSE "cli_info"
  <2>1. pc[k] = "cli_connect" /\ pc' = [pc EXCEPT ![k] = y]
        /\ UNCHANGED <<other, served>> /\ link' = [link EXCEPT ![<<k, t>>] = l]
    BY <1>19 DEF ClientConnect, FirstServer, exchanged
  <2>2. <<k, t>> \in Pairs BY <2>1, Ends DEF Dialing
  <2>3. CASE c = k /\ s = t
    <3>1. v = <<>> /\ e = <<>> BY <1>5, <2>1, <2>3 DEF v, e
    <3>2. /\ pc'[c] = y /\ pc'[s] = pc[s] /\ other'[c] = other[c]
          /\ served'[s] = served[s] /\ (s = N - 1 => y = "cli_handshake") /\ y \in Meeting
          /\ y \notin {"cli_read", "cli_send"}
      BY <1>5, <2>1, <2>3 DEF Meeting
    <3> HIDE DEF y
    <3>3. Then BY <1>4, <1>6, <3>1, <3>2
    <3> QED BY <1>2, <3>3
  <2>4. CASE ~(c = k /\ s = t)
    <3>1. <<c, s>> # <<k, t>> BY <2>4
    <3>2. link'[<<c, s>>] = link[<<c, s>>] BY <1>5, <2>1, <2>2, <3>1
    <3>3. v = u /\ e = d /\ b = a BY <3>2 DEF u, v, d, e, a, b
    <3> QED BY <1>18, <2>1, <2>4, <3>3 DEF Meeting
  <2> QED BY <2>3, <2>4
<1>20. ASSUME NEW k \in Players, NEW x, NEW y, NEW m \in PlayerInfo \cup SecretShare,
              Queued(k, x, y, m), x \in {"cli_info", "cli_send"}, y \in {"cli_read", "cli_add"}
       PROVE  /\ UNCHANGED <<other, served>> /\ pc[k] = x /\ pc' = [pc EXCEPT ![k] = y]
              /\ ~(c = k /\ s = other[k]) => Channel(c, s)'
              /\ c = k /\ s = other[k] => v = (IF a THEN Append(u, m) ELSE u) /\ e = d /\ b = a
  <2> DEFINE t == other[k]
             l == link[<<k, t>>]
             w == IF l.alive THEN Append(l.up, m) ELSE l.up
  <2>1. UNCHANGED <<other, served>> /\ pc[k] = x /\ pc' = [pc EXCEPT ![k] = y]
    BY <1>20 DEF Queued, exchanged
  <2>2. t \in Players /\ k < t /\ l \in Links BY <1>20, <2>1, Ends DEF Dialing, Talking
  <2>3. w \in Seq(PlayerInfo \cup SecretShare)
    <3>1. l.up \in Seq(PlayerInfo \cup SecretShare) BY <1>1, <2>2, LinkFacts
    <3>2. Append(l.up, m) \in Seq(PlayerInfo \cup SecretShare) BY <3>1
    <3> QED BY <3>1, <3>2
  <2>4. SetsUp(k, t, w) BY <1>20 DEF Queued, Up, SetsUp
  <2> HIDE DEF t, l, w
  <2>5. /\ link'[<<k, t>>].up = w /\ link'[<<k, t>>].down = link[<<k, t>>].down
        /\ link'[<<k, t>>].alive = link[<<k, t>>].alive /\ Elsewhere(k, t)
    BY <1>1, <2>2, <2>3, <2>4, UpUpdate
  <2>6. ASSUME ~(c = k /\ s = t) PROVE Channel(c, s)'
    <3>1. v = u /\ e = d /\ b = a BY <2>5, <2>6 DEF u, v, d, e, a, b, Elsewhere
    <3> QED BY <1>18, <1>20, <2>1, <2>6, <3>1 DEF Meeting, t
  <2>7. ASSUME c = k, s = t PROVE v = (IF a THEN Append(u, m) ELSE u) /\ e = d /\ b = a
    BY <2>5, <2>7 DEF u, v, d, e, a, b, w, l
  <2> QED BY <2>1, <2>6, <2>7 DEF t
<1>21. Info(c) \in PlayerInfo BY QueueFacts DEF ProtocolInv
<1>22. ASSUME NEW k \in Players, Queued(k, "cli_info", "cli_read", Info(k)) PROVE Channel(c, s)'
  <2>1. Info(k) \in PlayerInfo \cup SecretShare BY QueueFacts DEF ProtocolInv
  <2>2. /\ UNCHANGED <<other, served>> /\ pc[k] = "cli_info" /\ pc' = [pc EXCEPT ![k] = "cli_read"]
        /\ ~(c = k /\ s = other[k]) => Channel(c, s)'
        /\ c = k /\ s = other[k] => v = (IF a THEN Append(u, Info(k)) ELSE u) /\ e = d /\ b = a
    BY <1>20, <1>22, <2>1
  <2>3. CASE c = k /\ s = other[k]
    <3>1. u = <<>> /\ (s = N - 1 /\ a => served[s] = c /\ pc[s] = "srv_info") BY <1>4, <2>2, <2>3
    <3>2. Append(<<>>, Info(c)) = <<Info(c)>> BY <1>21
    <3>3. v = (IF a THEN <<Info(c)>> ELSE <<>>) /\ e = d /\ b = a BY <2>2, <2>3, <3>1, <3>2
    <3>4. /\ pc'[c] = "cli_read" /\ pc'[s] = pc[s] /\ other'[c] = s
          /\ served'[s] = served[s]
      BY <1>5, <2>2, <2>3
    <3>5. <<Info(c)>> \in InfoQueue(c) BY DEF InfoQueue
    <3>7. served[s] = c /\ pc[s] \in Attending => s = N - 1 BY DEF ProtocolInv, RoleInv
    <3>6. Then BY <1>4, <1>6, <3>1, <3>3, <3>4, <3>5, <3>7 DEF Attending
    <3> QED BY <1>2, <3>6
  <2> QED BY <2>2, <2>3
<1>23. ASSUME NEW k \in Players, Queued(k, "cli_send", "cli_add", MyShare(k)) PROVE Channel(c, s)'
  <2>1. MyShare(k) \in SharesOf(k)
    <3>1. pc[k] = "cli_send" BY <1>23 DEF Queued
    <3>2. macKeys[k][k] # None BY <3>1 DEF ProtocolInv, SlotInv, Dialing, Talking
    <3> QED BY <3>2, OwnShareFacts DEF ProtocolInv
  <2> DEFINE m == MyShare(k)
  <2>2. m \in PlayerInfo \cup SecretShare BY <2>1, MessageFacts
  <2>3. /\ UNCHANGED <<other, served>> /\ pc[k] = "cli_send" /\ pc' = [pc EXCEPT ![k] = "cli_add"]
        /\ ~(c = k /\ s = other[k]) => Channel(c, s)'
        /\ c = k /\ s = other[k] => v = (IF a THEN Append(u, m) ELSE u) /\ e = d /\ b = a
    BY <1>20, <1>23, <2>2
  <2> HIDE DEF m
  <2>4. CASE c = k /\ s = other[k]
    <3>1. a => /\ served[s] = c /\ s = N - 1
               /\ \/ pc[s] = "srv_info" /\ u = <<Info(c)>>
                  \/ pc[s] \in {"srv_send", "srv_share"} /\ u = <<>>
      BY <1>4, <2>3, <2>4
    <3>2. Append(<<>>, m) = <<m>> /\ Append(<<Info(c)>>, m) = <<Info(c), m>>
      <4>1. Append(<<>>, m) = <<m>> OBVIOUS
      <4>2. Append(<<Info(c)>>, m) = <<Info(c), m>> BY <1>21, <2>2, AppendTwo
      <4> QED BY <4>1, <4>2
    <3>3. <<m>> \in ShareQueue(c) /\ <<Info(c), m>> \in InfoQueue(c)
      BY <2>1, <2>4 DEF ShareQueue, InfoQueue, m
    <3>4. pc'[c] = "cli_add" /\ pc'[s] = pc[s] /\ served'[s] = served[s]
      BY <1>5, <2>3, <2>4
    <3>5. CASE a
      <4>1. v = Append(u, m) /\ e = d BY <2>3, <2>4, <3>5
      <4>2. \/ pc[s] = "srv_info" /\ v = <<Info(c), m>>
            \/ pc[s] \in {"srv_send", "srv_share"} /\ v = <<m>>
        BY <3>1, <3>2, <3>5, <4>1
      <4>3. Then BY <1>4, <3>3, <3>4, <4>1, <4>2
      <4> QED BY <1>2, <4>3
    <3>6. CASE ~a
      <4>1. v = u /\ e = d BY <2>3, <2>4, <3>6
      <4>2. Then BY <1>4, <3>4, <4>1
      <4> QED BY <1>2, <4>2
    <3> QED BY <3>5, <3>6
  <2> QED BY <2>3, <2>4
<1>24. ASSUME NEW k \in Players, ClientReadShare(k) PROVE Channel(c, s)'
  <2> DEFINE t == other[k]
  <2>1. /\ UNCHANGED <<other, served>> /\ pc[k] = "cli_read" /\ pc' = [pc EXCEPT ![k] = "cli_send"]
    BY <1>24 DEF ClientReadShare
  <2>2. t \in Players /\ k < t BY <2>1, Ends DEF Dialing, Talking
  <2>3. SetsDown(k, t, <<>>) /\ <<>> \in Seq(SecretShare) BY <1>24 DEF ClientReadShare, SetsDown
  <2> HIDE DEF t
  <2>4. /\ link'[<<k, t>>].up = link[<<k, t>>].up /\ link'[<<k, t>>].down = <<>>
        /\ link'[<<k, t>>].alive = link[<<k, t>>].alive /\ Elsewhere(k, t)
    BY <1>1, <2>2, <2>3, DownUpdate
  <2>5. CASE c = k /\ s = t
    <3>1. v = u /\ e = <<>> /\ b = a BY <2>4, <2>5 DEF u, v, e, a, b
    <3>2. /\ pc'[c] = "cli_send" /\ pc'[s] = pc[s] /\ other'[c] = s /\ other[c] = s
          /\ served'[s] = served[s]
      BY <1>5, <2>1, <2>5 DEF t
    <3>4. a => d # <<>>
      <4>1. PICK m : m \in Unpacked(link[<<k, t>>].down, link[<<k, t>>].alive)
        BY <1>24 DEF ClientReadShare, t
      <4> QED BY <2>5, <4>1 DEF Unpacked, a, d
    <3>3. Then BY <1>4, <1>6, <2>1, <2>5, <3>1, <3>2, <3>4
    <3> QED BY <1>2, <3>3
  <2>6. CASE ~(c = k /\ s = t)
    <3>1. v = u /\ e = d /\ b = a BY <2>4, <2>6 DEF u, v, d, e, a, b, Elsewhere
    <3> QED BY <1>18, <2>1, <2>6, <3>1 DEF Meeting, t
  <2> QED BY <2>5, <2>6
<1>25. ASSUME NEW k \in Players, RoleTaken(k) PROVE Channel(c, s)'
  <2>1. pc[k] \notin Meeting \cup Attending /\ "cli_endpoint" \notin Meeting \cup Attending
    BY <1>25 DEF RoleTaken, Meeting, Attending
  <2>2. \A q \in Players \ {k} : other'[q] = other[q] BY <1>5, <1>25 DEF RoleTaken
  <2> QED BY <1>9, <1>25, <2>1, <2>2 DEF RoleTaken, connections
<1>26. ASSUME NEW k \in Players, ShareAdded(k) PROVE Channel(c, s)'
  <2> DEFINE y == IF other[k] - 1 >= k + 1 THEN "cli_endpoint" ELSE "launch"
  <2>1. pc[k] \notin Meeting \cup Attending /\ y \notin Meeting \cup Attending
    BY <1>26 DEF ShareAdded, Meeting, Attending
  <2>2. \A q \in Players \ {k} : other'[q] = other[q] BY <1>5, <1>26 DEF ShareAdded
  <2>3. pc' = [pc EXCEPT ![k] = y] /\ UNCHANGED <<link, served>>
    BY <1>26 DEF ShareAdded, connections
  <2> HIDE DEF y
  <2> QED BY <1>9, <2>1, <2>2, <2>3
<1>27. ASSUME NEW p \in Players, Generates(p) PROVE Channel(c, s)'
  <2>1. pc[p] \notin Meeting \cup Attending /\ "generated" \notin Meeting \cup Attending
    BY <1>27 DEF Generates, Meeting, Attending
  <2> QED BY <1>9, <1>27, <2>1 DEF Generates, exchanged, connections
<1>28. ASSUME NEW pair \in Pairs, Breaks(pair) PROVE Channel(c, s)'
  <2>1. Fewer BY <1>1, <1>28, BreakFacts DEF Fewer, u, v, d, e, a, b
  <2> QED BY <1>3, <1>28, <2>1 DEF Breaks, exchanged
<1> HIDE DEF Then, ClientKept, ServerKept
<1> QED BY <1>8, <1>10, <1>11, <1>12, <1>13, <1>15, <1>16, <1>17, <1>19, <1>22, <1>23, <1>24,
           <1>25, <1>26, <1>27, <1>28
        DEF Outcome, ServerOutcome, ClientOutcome

LEMMA ProtocolInit ==
  ASSUME Init
  PROVE  ProtocolInv
<1> DEFINE empty == [alive |-> FALSE, up |-> <<>>, down |-> <<>>]
<1>1. /\ N \in Nat \ {0} /\ 0 \in Players /\ None \notin Players
      /\ \A p \in Players : pc[p] = "start" /\ other[p] = 0 /\ backlog[p] = <<>> /\ local[p] = <<>>
                            /\ macKeys[p] = [q \in Players |-> None]
  BY TeeAssumption DEF Init, Players, None
<1>2. \A c, s \in Players : c < s => link[<<c, s>>] = empty
  BY PairFacts DEF Init
<1>3. empty.alive = FALSE /\ empty.up = <<>> /\ empty.down = <<>> OBVIOUS
<1> HIDE DEF empty
<1>4. TypeOK
  <2>1. pc \in [Players -> EnclavePoints] BY DEF Init, EnclavePoints
  <2>2. kii \in [Players -> {"start", "connect", "handshake", "send", "exited"}] BY DEF Init
  <2>3. local \in [Players -> Seq(SecretShare)]
    <3>1. <<>> \in Seq(SecretShare) OBVIOUS
    <3> QED BY <3>1, Zenon DEF Init
  <2>4. status \in [Players -> 0 .. 255 \cup {None}] BY DEF Init
  <2>5. other \in [Players -> Players] BY <1>1 DEF Init
  <2>6. seed \in [Players -> Seeds] BY MessageFacts DEF Init
  <2>7. macKeys \in [Players -> [Players -> Shares \cup {None}]] BY DEF Init
  <2>8. received \in [Players -> SecretShare \cup {Null}] BY DEF Init
  <2>9. attested \in [Players -> SUBSET Players] BY DEF Init
  <2>10. link \in [Pairs -> Links]
    <3>1. empty \in Links
      <4>1. <<>> \in Seq(PlayerInfo \cup SecretShare) /\ <<>> \in Seq(SecretShare) OBVIOUS
      <4> QED BY <4>1 DEF Links, empty
    <3>2. link = [pair \in Pairs |-> empty] BY DEF Init, empty
    <3> QED BY <3>1, <3>2
  <2>11. backlog \in [Players -> Seq(Players)]
    <3>1. <<>> \in Seq(Players) OBVIOUS
    <3> QED BY <3>1, Zenon DEF Init
  <2>12. served \in [Players -> Players \cup {None}] BY DEF Init
  <2>13. launched \in [Players -> SUBSET Commands] BY DEF Init
  <2>14. faults \in 0 .. MaxFaults BY TeeAssumption DEF Init
  <2> QED BY <2>1, <2>2, <2>3, <2>4, <2>5, <2>6, <2>7, <2>8, <2>9, <2>10, <2>11, <2>12, <2>13,
             <2>14 DEF TypeOK, Links
<1>5. RoleInv BY <1>1 DEF Init, RoleInv, Before, Attending, Serving, Talking, Dialing
<1>6. SlotInv BY <1>1 DEF SlotInv, Attending, Serving, Talking, Dialing
<1>7. BacklogInv BY <1>1, <1>2, <1>3 DEF BacklogInv, Listening
<1>8. ChannelInv
  <2> SUFFICES ASSUME NEW c \in Players, NEW s \in Players, c < s PROVE Channel(c, s)
    BY DEF ChannelInv, Channel
  <2>1. <<>> \in Seq(SharesOf(s)) /\ <<>> \in InfoQueue(c) BY DEF InfoQueue
  <2> QED BY <1>1, <1>2, <1>3, <2>1 DEF Channel
<1>9. ReadInv
  <2>1. \A p \in Players : <<>> \in Seq(SharesOf(p)) OBVIOUS
  <2> QED BY <1>1, <2>1 DEF ReadInv
<1> QED BY <1>4, <1>5, <1>6, <1>7, <1>8, <1>9 DEF ProtocolInv

LEMMA ProtocolStep ==
  ASSUME ProtocolInv, [Next]_vars
  PROVE  ProtocolInv' /\ Outcome
<1>1. Outcome BY Outcomes DEF ProtocolInv
<1>2. TypeOK' BY TypeStep
<1>3. RoleInv' BY <1>1, RoleStep
<1>4. SlotInv' BY <1>1, SlotStep
<1>5. BacklogInv' BY <1>1, BacklogStep
<1>6. ChannelInv' BY <1>1, ChannelStep
<1>7. ReadInv' BY <1>1, ReadStep
<1> QED BY <1>1, <1>2, <1>3, <1>4, <1>5, <1>6, <1>7 DEF ProtocolInv

-----------------------------------------------------------------------------
\* The type invariant holds: nothing but shares of the right sender and junk
\* ever is in a channel, a buffer or a slot, whatever fails (the reads in
\* local_attestation.c, server.c and client.c).
THEOREM TeeTypeCorrect == Spec => []TypeOK
<1>1. Init => ProtocolInv BY ProtocolInit
<1>2. ProtocolInv /\ [Next]_vars => ProtocolInv' BY ProtocolStep
<1>3. ProtocolInv => TypeOK BY DEF ProtocolInv
<1> QED BY <1>1, <1>2, <1>3, PTL DEF Spec

\* Both roles together fill each slot of the MAC key shares at most once, and
\* only in the name of the player it belongs to (other_player_number and
\* Player_MAC_Keys in server.c and client.c).
THEOREM SlotsAreFilledOnce == Spec => SlotsFilledOnce
<1> DEFINE Once == \A p, q \in Players :
             macKeys'[p][q] # macKeys[p][q] =>
               macKeys[p][q] = None /\ macKeys'[p][q] \in {q, Junk}
<1>1. Init => ProtocolInv BY ProtocolInit
<1>2. ProtocolInv /\ [Next]_vars => ProtocolInv' BY ProtocolStep
<1>3. ProtocolInv /\ [Next]_vars => [Once]_vars BY ProtocolStep, SlotFacts
<1> HIDE DEF Once
<1>4. SlotsFilledOnce <=> [][Once]_vars BY DEF SlotsFilledOnce, Once
<1> QED BY <1>1, <1>2, <1>3, <1>4, PTL DEF Spec

\* What was launched is what the environment asks for.
LaunchInv ==
  \A p \in Players : \A command \in launched[p] :
    LET type == env[p].tupleType
        n == env[p].tuples
    IN  /\ type # UnknownType /\ n # None
        /\ command.option = arg1ByType(type)
        /\ command.counts = arg2(type, n)
        /\ command.file = destination_path(type)

LEMMA LaunchStep ==
  ASSUME ProtocolInv, LaunchInv, Outcome
  PROVE  LaunchInv'
<1>1. env' = env BY EnvironmentKept
<1>2. launched \in [Players -> SUBSET Commands] BY DEF ProtocolInv, TypeOK
<1>3. UNCHANGED launched \/ \E p \in Players : Generates(p)
  BY DEF Outcome, Exits, KiiMoves, Moves, OwnShareRead, ServerOutcome, Accepted, InfoRead, ShareSent,
         ShareRead, ClientOutcome, RoleTaken, ClientConnect, Queued, ClientReadShare, ShareAdded,
         Breaks
<1>4. CASE UNCHANGED launched BY <1>1, <1>4 DEF LaunchInv
<1>5. ASSUME NEW q \in Players, Generates(q) PROVE LaunchInv'
  <2>1. env[q].tupleType # UnknownType /\ env[q].tuples # None
        /\ launched' = [launched EXCEPT ![q] = {Command(q)}]
    BY <1>5 DEF Generates
  <2>2. /\ Command(q).option = arg1ByType(env[q].tupleType)
        /\ Command(q).counts = arg2(env[q].tupleType, env[q].tuples)
        /\ Command(q).file = destination_path(env[q].tupleType)
    BY DEF Command
  <2>3. ASSUME NEW p \in Players, NEW command \in launched'[p]
        PROVE  (p = q /\ command = Command(q)) \/ command \in launched[p]
    BY <1>2, <2>1, <2>3
  <2> QED BY <1>1, <2>1, <2>2, <2>3 DEF LaunchInv
<1> QED BY <1>3, <1>4, <1>5

\* The file that is delivered is the one the command writes, of the right
\* field and with as many tuples as were asked for, up to the last two input
\* masks, for every tuple type and every number (arg1ByType, arg2 and
\* destination_path in CRG.c).
THEOREM DeliversTheTuples == Spec => []DeliversWhatItGenerates
<1> DEFINE Inv == ProtocolInv /\ LaunchInv
<1>1. Init => Inv
  <2>1. Init => LaunchInv BY DEF Init, LaunchInv
  <2> QED BY <2>1, ProtocolInit
<1>2. Inv /\ [Next]_vars => Inv' BY ProtocolStep, LaunchStep
<1>3. Inv => DeliversWhatItGenerates
  <2> SUFFICES ASSUME Inv, NEW p \in Players, NEW command \in launched[p]
               PROVE  LET type == env[p].tupleType
                          delivered == TuplesPer(type) * command.counts[command.file.field]
                      IN  /\ command.file.name = Writes(command.option)
                          /\ command.file.field = type.field
                          /\ delivered <= env[p].tuples
                          /\ delivered > env[p].tuples - TuplesPer(type)
    BY DEF DeliversWhatItGenerates
  <2> DEFINE type == env[p].tupleType
             n == env[p].tuples
  <2>1. /\ type # UnknownType /\ n # None /\ command.option = arg1ByType(type)
        /\ command.counts = arg2(type, n) /\ command.file = destination_path(type)
    BY DEF LaunchInv
  <2>2. type \in TupleTypes /\ n \in Nat
    BY <2>1, TeeAssumption DEF ProtocolInv, RoleInv, EnvironmentType
  <2> HIDE DEF type, n
  <2>3. type.kind \in Kinds /\ type.field \in Fields BY <2>2 DEF TupleTypes
  <2>4. command.file.name = Writes(command.option) /\ command.file.field = type.field
    BY <2>1, <2>3 DEF Writes, arg1ByType, destination_path, Kinds
  <2>5. command.counts[type.field] = IF type.kind = "INPUT_MASK" THEN n \div 3 ELSE n
    BY <2>1, <2>3 DEF arg2, Kinds
  <2>6. 3 * (n \div 3) <= n /\ 3 * (n \div 3) > n - 3 BY <2>2
  <2>7. 1 * n <= n /\ 1 * n > n - 1 BY <2>2
  <2>8. TuplesPer(type) * command.counts[type.field] <= n
        /\ TuplesPer(type) * command.counts[type.field] > n - TuplesPer(type)
    BY <2>5, <2>6, <2>7 DEF TuplesPer
  <2> QED BY <2>4, <2>8 DEF type, n
<1> QED BY <1>1, <1>2, <1>3, PTL DEF Spec

-----------------------------------------------------------------------------
(***************************************************************************)
(* The order in which the clients come, where all hosts fit.               *)
(***************************************************************************)
\* Only player 0 is ever a client.
LEMMA OnlyClient ==
  ASSUME ProtocolInv, FirstInv, NEW c \in Players, pc[c] \in Dialing \cup {"cli_setup"}
  PROVE  c = 0
<1>1. c \in Int /\ 0 <= c /\ c <= N - 1 BY AfterFacts
<1>2. c < N - 1
  <2>1. CASE pc[c] = "cli_setup" BY <2>1 DEF ProtocolInv, RoleInv
  <2>2. CASE pc[c] \in Dialing
    <3>1. c < other[c] /\ other[c] \in Players BY <2>2 DEF ProtocolInv, RoleInv, TypeOK
    <3>2. other[c] \in Int /\ other[c] <= N - 1 /\ N \in Nat BY <3>1, AfterFacts
    <3> QED BY <1>1, <3>1, <3>2
  <2> QED BY <2>1, <2>2
<1>3. ~Middle(c)
  <2>1. Middle(c) => pc[c] \in Before \cup {"srv_setup", "srv_accept", "exited"} BY DEF FirstInv
  <2> QED BY <2>1 DEF Before, Dialing, Talking
<1> QED BY <1>1, <1>2, <1>3 DEF Middle

\* Player 0 is never a server.
LEMMA NoServer ==
  ASSUME ProtocolInv, NEW s \in Players, pc[s] \in Serving
  PROVE  0 < s
<1>1. other[s] < s /\ other[s] \in Players BY DEF ProtocolInv, RoleInv, TypeOK
<1>2. other[s] \in Int /\ 0 <= other[s] /\ s \in Int BY <1>1, AfterFacts
<1> QED BY <1>1, <1>2

\* What a client that connects finds.
LEMMA FirstConnects ==
  ASSUME ProtocolInv, FirstInv, NEW c \in Players, ClientConnect(c)
  PROVE  /\ c = 0 /\ Listening(other[c]) /\ other[c] \in Players
         /\ other[c] = N - 1 =>
              pc[N - 1] = "srv_accept" /\ other[N - 1] = 0 /\ backlog[N - 1] = <<>>
<1>1. pc[c] = "cli_connect" /\ Listening(other[c]) BY DEF ClientConnect
<1>2. c = 0 /\ other[c] \in Players BY <1>1, OnlyClient DEF Dialing, ProtocolInv, TypeOK
<1>3. ASSUME other[c] = N - 1
      PROVE  pc[N - 1] = "srv_accept" /\ other[N - 1] = 0 /\ backlog[N - 1] = <<>>
  <2>1. Fresh BY <1>1, <1>2, <1>3 DEF Fresh
  <2>2. Listening(N - 1) BY <1>1, <1>3
  <2> QED BY <2>1, <2>2 DEF FirstInv
<1> QED BY <1>1, <1>2, <1>3

LEMMA MiddleStep ==
  ASSUME HostsFit, ProtocolInv, FirstInv, Outcome, NEW p \in Players
  PROVE  /\ pc'[p] = "srv_setup" => other'[p] = 0
         /\ Middle(p) =>
              /\ pc'[p] \in Before \cup {"srv_setup", "srv_accept", "exited"}
              /\ pc'[p] = "srv_accept" =>
                   other'[p] = 0 /\ \A i \in 1 .. Len(backlog'[p]) : backlog'[p][i] = 0
<1>1. PlayerOutcome(p) BY PlayerStep
<1>2. /\ pc[p] \in Before \cup {"srv_setup"} => other[p] = 0
      /\ Middle(p) =>
              /\ pc[p] \in Before \cup {"srv_setup", "srv_accept", "exited"}
              /\ pc[p] = "srv_accept" =>
                   other[p] = 0 /\ \A i \in 1 .. Len(backlog[p]) : backlog[p][i] = 0
  BY DEF FirstInv, ProtocolInv, RoleInv
<1>3. pc'[p] = "srv_setup" => other'[p] = 0
  BY <1>1, <1>2, AfterFacts DEF PlayerOutcome, KeepsOn, KeepsPlace, Goes, Before
<1>4. ASSUME Middle(p) PROVE pc'[p] \in Before \cup {"srv_setup", "srv_accept", "exited"}
  <2>1. p > 0 /\ p # N - 1 BY <1>4, AfterFacts DEF Middle
  <2>2. AfterLocal(p) = "srv_setup" BY <2>1, AfterFacts
  <2> QED BY <1>1, <1>2, <1>4, <2>1, <2>2 DEF PlayerOutcome, KeepsOn, KeepsPlace, Goes, Before
<1>5. ASSUME Middle(p), pc'[p] = "srv_accept" PROVE other'[p] = 0
  <2>1. pc[p] \in Before \cup {"srv_setup", "srv_accept", "exited"} BY <1>2, <1>5
  <2> QED BY <1>1, <1>2, <1>5, <2>1, AfterFacts
          DEF PlayerOutcome, KeepsOn, KeepsPlace, Goes, Before
<1>6. ASSUME Middle(p), pc'[p] = "srv_accept", NEW i \in 1 .. Len(backlog'[p])
      PROVE  backlog'[p][i] = 0
  <2>1. pc[p] = "srv_setup" \/ pc[p] = "srv_accept"
    BY <1>1, <1>2, <1>6, AfterFacts DEF PlayerOutcome, KeepsOn, KeepsPlace, Goes, Before
  <2>2. backlog[p] \in Seq(Players) /\ \A j \in 1 .. Len(backlog[p]) : backlog[p][j] = 0
    <3>1. backlog[p] \in Seq(Players) BY DEF ProtocolInv, TypeOK
    <3>2. CASE pc[p] = "srv_setup"
      <4>1. backlog[p] = <<>> BY <3>2 DEF ProtocolInv, BacklogInv
      <4> QED BY <3>1, <4>1
    <3> QED BY <1>2, <1>6, <2>1, <3>1, <3>2
  <2>3. ASSUME NEW c, Accepted(p, c) PROVE FALSE
    <3>1. p = N - 1 BY <2>3 DEF Accepted
    <3> QED BY <1>6, <3>1, AfterFacts DEF Middle
  <2>4. ASSUME NEW c \in Players, ClientConnect(c), other[c] = p,
               backlog'[p] = Append(backlog[p], c)
        PROVE  backlog'[p][i] = 0
    <3>1. c = 0 BY <2>4, FirstConnects
    <3> QED BY <1>6, <2>2, <2>4, <3>1
  <2>5. pc'[p] # "exited" BY <1>6
  <2> QED BY <1>6, <2>2, <2>3, <2>4, <2>5, BacklogChange
<1> QED BY <1>3, <1>4, <1>5, <1>6

LEMMA FreshStep ==
  ASSUME HostsFit, ProtocolInv, FirstInv, Outcome, Fresh'
  PROVE  Fresh /\ ~ClientConnect(0)
<1>1. 0 \in Players /\ N \in Nat BY TeeAssumption DEF Players
<1>2. PlayerOutcome(0) BY <1>1, PlayerStep
<1>3. pc[0] \notin Serving BY <1>1, NoServer
<1>4. pc[0] \in EnclavePoints /\ pc \in [Players -> EnclavePoints] BY <1>1 DEF ProtocolInv, TypeOK
<1>5. \/ pc'[0] \in Before \cup {"cli_setup"}
      \/ pc'[0] \in {"cli_endpoint", "cli_connect"} /\ other'[0] = N - 1
  BY DEF Fresh
<1>6. pc'[0] \in Before => pc[0] \in Before
  BY <1>2, <1>1, AfterFacts DEF PlayerOutcome, KeepsOn, KeepsPlace, Goes, Before
<1>7. pc'[0] = "cli_setup" => pc[0] \in Before \cup {"cli_setup"}
  BY <1>1, <1>2, <1>3, AfterFacts DEF PlayerOutcome, KeepsOn, KeepsPlace, Goes, Before, Serving, Attending
<1>8. ASSUME pc'[0] = "cli_endpoint" \/ pc'[0] = "cli_connect", other'[0] = N - 1 PROVE Fresh
  <2>1. other[0] \in Int /\ other[0] <= N - 1
    <3>1. other[0] \in Players BY <1>1 DEF ProtocolInv, TypeOK
    <3> QED BY <3>1, AfterFacts
  <2>2. ~(pc[0] = "cli_add" /\ other'[0] = other[0] - 1) BY <1>8, <2>1, <1>1
  <2>3. \/ pc[0] = "cli_setup"
        \/ (pc[0] = "cli_endpoint" \/ pc[0] = "cli_connect") /\ other[0] = other'[0]
        \/ pc[0] = "cli_add" /\ other'[0] = other[0] - 1
    BY <1>2, <1>3, <1>8, <1>1, AfterFacts
       DEF PlayerOutcome, KeepsOn, KeepsPlace, Goes, Before, Serving, Attending
  <2> QED BY <1>8, <2>2, <2>3 DEF Fresh
<1>9. Fresh BY <1>5, <1>6, <1>7, <1>8 DEF Fresh
<1>10. ASSUME ClientConnect(0) PROVE FALSE
  <2>1. pc'[0] = "cli_handshake" \/ pc'[0] = "cli_info" BY <1>1, <1>4, <1>10 DEF ClientConnect
  <2> QED BY <1>5, <2>1 DEF Before
<1> QED BY <1>9, <1>10

\* The last player accepts player 0 first.
LEMMA LastStep ==
  ASSUME HostsFit, ProtocolInv, FirstInv, Outcome, Listening(N - 1)'
  PROVE  /\ Fresh' => /\ pc'[N - 1] = "srv_accept" /\ other'[N - 1] = 0
                      /\ backlog'[N - 1] = <<>>
         /\ backlog'[N - 1] = <<>> \/ backlog'[N - 1] = <<0>>
         /\ backlog'[N - 1] # <<>> => pc'[N - 1] = "srv_accept" /\ other'[N - 1] = 0
<1> DEFINE s == N - 1
<1>1. s \in Players /\ 0 \in Players BY TeeAssumption DEF Players
<1>2. PlayerOutcome(s) BY <1>1, PlayerStep
<1>3. backlog[s] \in Seq(Players) BY <1>1 DEF ProtocolInv, TypeOK
<1>4. \/ pc'[s] = "srv_accept" \/ pc'[s] = "srv_info" \/ pc'[s] = "srv_close"
      \/ pc'[s] = "srv_send" \/ pc'[s] = "srv_share"
  BY DEF Listening
<1>5. Listening(s) \/ (pc[s] = "srv_setup" /\ pc'[s] = "srv_accept" /\ other'[s] = other[s])
  BY <1>1, <1>2, <1>4, AfterFacts
     DEF PlayerOutcome, KeepsOn, KeepsPlace, Goes, Before, Listening
<1>6. /\ Fresh /\ Listening(s) => pc[s] = "srv_accept" /\ other[s] = 0 /\ backlog[s] = <<>>
      /\ Listening(s) => backlog[s] = <<>> \/ backlog[s] = <<0>>
      /\ Listening(s) /\ backlog[s] # <<>> => pc[s] = "srv_accept" /\ other[s] = 0
  BY DEF FirstInv
<1>7. Fresh' => Fresh /\ ~ClientConnect(0) BY FreshStep
<1>8. pc[s] = "srv_setup" => other[s] = 0 /\ backlog[s] = <<>>
  BY <1>1 DEF FirstInv, ProtocolInv, BacklogInv
<1>9. ASSUME pc[s] = "srv_accept", ~\E c : Accepted(s, c)
      PROVE  pc'[s] = "srv_accept" /\ other'[s] = other[s]
  <2>1. pc'[s] # "exited" BY <1>4
  <2>2. pc[s] \notin Ended BY <1>9 DEF Ended
  <2> QED BY <1>2, <1>9, <2>1, <2>2, AfterFacts DEF PlayerOutcome, KeepsOn, KeepsPlace, Goes, Before
<1>10. ASSUME NEW c \in Players, ClientConnect(c)
       PROVE  c = 0 /\ ~\E d : Accepted(s, d)
  <2>1. c = 0 BY <1>10, FirstConnects
  <2>2. ASSUME NEW d, Accepted(s, d) PROVE FALSE
    <3>1. d \in Players /\ pc[d] = "cli_handshake" BY <1>1, <2>2, FirstClient
    <3>2. d = 0 BY <3>1, OnlyClient DEF Dialing
    <3>3. pc[c] = "cli_connect" BY <1>10 DEF ClientConnect
    <3> QED BY <2>1, <3>1, <3>2, <3>3
  <2> QED BY <2>1, <2>2
<1> HIDE DEF s
<1>11. CASE backlog'[s] = backlog[s] /\ ~\E c : Accepted(s, c)
  <2>1. CASE pc[s] = "srv_setup" /\ pc'[s] = "srv_accept" /\ other'[s] = other[s]
    BY <1>8, <1>11, <2>1 DEF s
  <2>2. CASE Listening(s)
    <3>1. Fresh' => pc'[s] = "srv_accept" /\ other'[s] = 0 /\ backlog'[s] = <<>>
      BY <1>6, <1>7, <1>9, <1>11, <2>2
    <3>2. backlog'[s] # <<>> => pc'[s] = "srv_accept" /\ other'[s] = 0
      BY <1>6, <1>9, <1>11, <2>2
    <3> QED BY <1>6, <1>11, <2>2, <3>1, <3>2 DEF s
  <2> QED BY <1>5, <2>1, <2>2
<1>12. ASSUME NEW c, Accepted(s, c), backlog'[s] = Tail(backlog[s])
       PROVE  backlog'[s] = <<>> /\ ~Fresh'
  <2>1. pc[s] = "srv_accept" /\ backlog[s] # <<>> BY <1>12 DEF Accepted
  <2>2. Listening(s) BY <2>1 DEF Listening
  <2>3. backlog[s] = <<0>> BY <1>6, <2>1, <2>2
  <2>4. backlog'[s] = <<>> BY <1>12, <2>3
  <2> QED BY <1>6, <1>7, <2>1, <2>2, <2>4
<1>13. ASSUME NEW c \in Players, ClientConnect(c), other[c] = s, backlog'[s] = Append(backlog[s], c)
       PROVE  ~Fresh' /\ backlog'[s] = <<0>> /\ pc'[s] = "srv_accept" /\ other'[s] = 0
  <2>1. c = 0 /\ ~\E d : Accepted(s, d) BY <1>10, <1>13
  <2>2. pc[s] = "srv_accept" /\ other[s] = 0 /\ backlog[s] = <<>>
    BY <1>13, FirstConnects DEF s
  <2>3. backlog'[s] = <<0>> BY <1>13, <2>1, <2>2
  <2>4. pc'[s] = "srv_accept" /\ other'[s] = 0 BY <1>9, <2>1, <2>2
  <2>5. ~Fresh' BY <1>7, <1>13, <2>1
  <2> QED BY <2>3, <2>4, <2>5
<1>14. pc'[s] # "exited" BY <1>4
<1> QED BY <1>1, <1>11, <1>12, <1>13, <1>14, BacklogChange DEF s

LEMMA FirstInit == ASSUME Init PROVE FirstInv
<1>1. \A p \in Players : pc[p] = "start" BY DEF Init
<1>2. 0 \in Players /\ N - 1 \in Players BY TeeAssumption DEF Players
<1>3. ~Listening(N - 1) BY <1>1, <1>2 DEF Listening
<1> QED BY <1>1, <1>3 DEF FirstInv, Before

LEMMA FirstStep ==
  ASSUME HostsFit, ProtocolInv, FirstInv, Outcome
  PROVE  FirstInv'
<1>1. \A p \in Players :
        /\ pc'[p] = "srv_setup" => other'[p] = 0
        /\ Middle(p) =>
             /\ pc'[p] \in Before \cup {"srv_setup", "srv_accept", "exited"}
             /\ pc'[p] = "srv_accept" =>
                  other'[p] = 0 /\ \A i \in 1 .. Len(backlog'[p]) : backlog'[p][i] = 0
  BY MiddleStep
<1>2. Listening(N - 1)' =>
        /\ Fresh' => pc'[N - 1] = "srv_accept" /\ other'[N - 1] = 0 /\ backlog'[N - 1] = <<>>
        /\ backlog'[N - 1] = <<>> \/ backlog'[N - 1] = <<0>>
        /\ backlog'[N - 1] # <<>> => pc'[N - 1] = "srv_accept" /\ other'[N - 1] = 0
  BY LastStep
<1> QED BY <1>1, <1>2 DEF FirstInv

\* Where all hosts fit, the client that a server accepts next is always the
\* one that is due, for any number of players: player 0 comes to all servers
\* before anybody else, and no other player gets past its server role while a
\* client's later connections are without a handshake (the loop in client.c
\* and verify_player_details in server.c).
THEOREM ClientsComeInOrder ==
  ASSUME HostsFit
  PROVE  Spec => []ClientsInOrder
<1>1. Init => ProtocolInv /\ FirstInv BY ProtocolInit, FirstInit
<1>2. ProtocolInv /\ FirstInv /\ [Next]_vars => (ProtocolInv /\ FirstInv)'
  BY ProtocolStep, FirstStep
<1>3. ProtocolInv /\ FirstInv => ClientsInOrder
  <2> SUFFICES ASSUME ProtocolInv, FirstInv, NEW s \in Players, backlog[s] # <<>>,
                      pc[s] = "srv_accept"
               PROVE  Head(backlog[s]) = other[s]
    BY DEF ClientsInOrder
  <2>1. backlog[s] \in Seq(Players) BY DEF ProtocolInv, TypeOK
  <2>2. Head(backlog[s]) = backlog[s][1] /\ 1 \in 1 .. Len(backlog[s]) BY <2>1
  <2>3. 0 < s BY NoServer DEF Serving
  <2>4. CASE Middle(s) BY <2>2, <2>4 DEF FirstInv
  <2>5. CASE s = N - 1
    <3>1. Listening(N - 1) BY <2>5 DEF Listening
    <3>2. backlog[s] = <<0>> /\ other[s] = 0 BY <2>5, <3>1 DEF FirstInv
    <3> QED BY <3>2
  <2> QED BY <2>3, <2>4, <2>5, AfterFacts DEF Middle
<1> QED BY <1>1, <1>2, <1>3, PTL DEF Spec

-----------------------------------------------------------------------------
(***************************************************************************)
(* Attestation between two players.                                        *)
(***************************************************************************)
LEMMA AttestedStep ==
  ASSUME HostsFit, N = 2, ProtocolInv, OrderInv, Outcome
  PROVE  AttestedInv'
<1> USE DEF Before, Attending, Serving, Talking, Dialing
<1> DEFINE Early == Before \cup {"srv_setup", "srv_accept", "cli_setup", "cli_endpoint",
                                 "cli_connect", "cli_handshake"}
           Late == Attending \cup Talking \cup {"srv_close", "launch", "generated"}
<1> SUFFICES ASSUME NEW p \in Players
    PROVE  /\ pc'[p] \in Early => attested'[p] = {}
           /\ pc'[p] \in Late => attested'[p] = Players \ {p}
  BY DEF AttestedInv
<1>1. /\ pc[p] \in Early => attested[p] = {}
      /\ pc[p] \in Late => attested[p] = Players \ {p}
  BY DEF OrderInv, AttestedInv
<1>2. PlayerOutcome(p) BY PlayerStep
<1>3. (p = 0 \/ p = 1) /\ Players = {0, 1} BY DEF Players
<1>4. /\ AfterServer(p) = IF p = 0 THEN "cli_setup" ELSE "launch"
      /\ AfterLocal(p) = IF p = 0 THEN "cli_setup" ELSE "srv_setup"
  BY <1>3, AfterFacts
<1>5. other[p] = 0 \/ other[p] = 1 BY <1>3 DEF ProtocolInv, TypeOK
<1>6. pc[p] \in Dialing => p = 0 /\ other[p] = 1 BY <1>3, <1>5 DEF ProtocolInv, RoleInv
<1>7. pc[p] \in Serving => p = 1 /\ other[p] = 0 BY <1>3, <1>5 DEF ProtocolInv, RoleInv
<1>8. pc[p] = "srv_accept" /\ backlog[p] # <<>> => Head(backlog[p]) = 0
  <2> SUFFICES ASSUME pc[p] = "srv_accept", backlog[p] # <<>> PROVE Head(backlog[p]) = 0 OBVIOUS
  <2>1. p = N - 1 /\ Listening(N - 1) BY <1>7 DEF Listening
  <2>2. backlog[p] = <<0>> BY <2>1 DEF OrderInv, FirstInv
  <2> QED BY <2>2
<1>9. pc'[p] \in Early => pc[p] \in Early /\ attested'[p] = attested[p]
  BY <1>2, <1>4, <1>5, <1>6, <1>7 DEF PlayerOutcome, KeepsOn, KeepsPlace, KeepsPeers, Goes
<1>10. pc'[p] \in Late => \/ pc[p] \in Late /\ attested'[p] = attested[p]
                          \/ /\ pc[p] = "srv_accept" /\ backlog[p] # <<>>
                             /\ attested'[p] = attested[p] \cup {Head(backlog[p])}
                          \/ pc[p] = "cli_handshake" /\ attested'[p] = attested[p] \cup {other[p]}
  BY <1>2, <1>4, <1>5, <1>6, <1>7 DEF PlayerOutcome, KeepsOn, KeepsPlace, KeepsPeers, Goes
<1>11. pc'[p] \in Late => attested'[p] = Players \ {p}
  <2>1. CASE pc[p] = "srv_accept" /\ backlog[p] # <<>>
             /\ attested'[p] = attested[p] \cup {Head(backlog[p])}
    <3>1. attested[p] = {} /\ Head(backlog[p]) = 0 /\ p = 1 BY <1>1, <1>7, <1>8, <2>1
    <3> QED BY <1>3, <2>1, <3>1
  <2>2. CASE pc[p] = "cli_handshake" /\ attested'[p] = attested[p] \cup {other[p]}
    <3>1. attested[p] = {} /\ other[p] = 1 /\ p = 0 BY <1>1, <1>6, <2>2
    <3> QED BY <1>3, <2>2, <3>1
  <2> QED BY <1>1, <1>10, <2>1, <2>2
<1> QED BY <1>1, <1>9, <1>11

LEMMA OrderInit == ASSUME Init PROVE OrderInv
<1>1. \A p \in Players : pc[p] = "start" /\ attested[p] = {} BY DEF Init
<1>2. AttestedInv BY <1>1 DEF AttestedInv, Before, Attending, Talking, Dialing
<1> QED BY <1>2, FirstInit DEF OrderInv

LEMMA OrderStep ==
  ASSUME HostsFit, N = 2, ProtocolInv, OrderInv, [Next]_vars
  PROVE  ProtocolInv' /\ OrderInv'
BY ProtocolStep, FirstStep, AttestedStep DEF OrderInv

\* Between two players whose hosts fit the buffers, an enclave generates
\* tuples only after it has verified the other's quote itself, whatever fails
\* (main in CRG.c, which goes on whenever a role returns 0).
THEOREM AttestationIsComplete ==
  ASSUME HostsFit, N = 2
  PROVE  Spec => []AttestedBeforeGenerating
<1>1. Init => ProtocolInv /\ OrderInv BY ProtocolInit, OrderInit
<1>2. ProtocolInv /\ OrderInv /\ [Next]_vars => (ProtocolInv /\ OrderInv)' BY OrderStep
<1>3. OrderInv => AttestedBeforeGenerating
  BY DEF OrderInv, AttestedInv, AttestedBeforeGenerating
<1> QED BY <1>1, <1>2, <1>3, PTL DEF Spec
-----------------------------------------------------------------------------
(***************************************************************************)
(* More than two players.                                                  *)
(***************************************************************************)
\* No enclave gets as far as launching: the last player stops at its second
\* client, which never comes, and player 0 has no share from its second server.
StuckInv ==
  \A p \in Players :
    /\ pc[p] # "launch" /\ pc[p] # "generated"
    /\ pc[p] \in Attending => other[p] = 0
    /\ pc[p] \in {"cli_send", "cli_add"} /\ other[p] # N - 1 => received[p] = Null

LEMMA NothingToUnpack ==
  ASSUME ~JunkParses, NEW alive \in BOOLEAN, NEW m \in Unpacked(<<>>, alive)
  PROVE  m = Null
BY DEF Unpacked

LEMMA StuckStep ==
  ASSUME HostsFit, ~JunkParses, N > 2, ProtocolInv, FirstInv, StuckInv, Outcome
  PROVE  StuckInv'
<1> USE DEF Before, Attending
<1> SUFFICES ASSUME NEW p \in Players
             PROVE  /\ pc'[p] # "launch" /\ pc'[p] # "generated"
                    /\ pc'[p] \in Attending => other'[p] = 0
                    /\ (pc'[p] = "cli_send" \/ pc'[p] = "cli_add") /\ other'[p] # N - 1 =>
                         received'[p] = Null
  BY DEF StuckInv
<1>1. PlayerOutcome(p) BY PlayerStep
<1>2. /\ pc[p] # "launch" /\ pc[p] # "generated"
      /\ pc[p] \in Attending => other[p] = 0
      /\ (pc[p] = "cli_send" \/ pc[p] = "cli_add") /\ other[p] # N - 1 => received[p] = Null
  BY DEF StuckInv
<1>3. other[p] \in Players /\ p \in Int /\ other[p] \in Int /\ N \in Int /\ 0 <= p /\ p <= N - 1
      /\ other[p] <= N - 1
  <2>1. other[p] \in Players BY DEF ProtocolInv, TypeOK
  <2> QED BY <2>1, AfterFacts
<1>4. /\ AfterServer(p) = IF p < N - 1 THEN "cli_setup" ELSE "launch"
      /\ AfterLocal(p) = IF p > 0 THEN "srv_setup" ELSE "cli_setup"
  BY <1>3, AfterFacts
<1>5. pc[p] \in Attending => p = N - 1 BY DEF ProtocolInv, RoleInv
<1>6. pc[p] = "cli_add" => p = 0
  <2> SUFFICES ASSUME pc[p] = "cli_add" PROVE p = 0 OBVIOUS
  <2>1. pc[p] \in Dialing BY DEF Dialing, Talking
  <2> QED BY <2>1, OnlyClient
<1>7. pc[p] = "srv_share" => ~(other[p] + 1 >= p) BY <1>2, <1>3, <1>5
<1>8. pc[p] = "cli_add" /\ received[p] # Null => other[p] - 1 >= p + 1 BY <1>2, <1>3, <1>6
<1>9. ShareAdded(p) => received[p] # Null BY DEF ShareAdded
<1>10. pc[p] = "cli_add" /\ pc'[p] # "exited" /\ ~KeepsPlace(p) => pc'[p] = "cli_endpoint"
  BY <1>1, <1>8, <1>9 DEF PlayerOutcome, KeepsOn, Goes
<1>11. pc'[p] # "launch" /\ pc'[p] # "generated"
  BY <1>1, <1>2, <1>4, <1>7, <1>10 DEF PlayerOutcome, KeepsOn, KeepsPlace, Goes
<1>12. pc'[p] \in Attending => other'[p] = 0
  <2>1. pc[p] = "srv_accept" /\ backlog[p] # <<>> /\ p = N - 1 => other[p] = 0
    BY DEF FirstInv, Listening
  <2>2. pc'[p] \in Attending =>
          /\ other'[p] = other[p]
          /\ \/ pc[p] \in Attending
             \/ pc[p] = "srv_accept" /\ backlog[p] # <<>> /\ p = N - 1
    BY <1>1, <1>4, <1>7 DEF PlayerOutcome, KeepsOn, KeepsPlace, Goes
  <2> QED BY <1>2, <2>1, <2>2
<1>13. ASSUME pc'[p] = "cli_send" \/ pc'[p] = "cli_add", other'[p] # N - 1
       PROVE  received'[p] = Null
  <2>1. \/ /\ pc[p] = "cli_send" \/ pc[p] = "cli_add"
           /\ other'[p] = other[p] /\ received'[p] = received[p]
        \/ pc[p] = "cli_read" /\ other'[p] = other[p] /\ ClientReadShare(p)
    BY <1>1, <1>4, <1>7, <1>10, <1>13 DEF PlayerOutcome, KeepsOn, KeepsPlace, Goes
  <2>2. CASE pc[p] = "cli_read" /\ other'[p] = other[p] /\ ClientReadShare(p)
    <3>1. /\ p < other[p] /\ <<p, other[p]>> \in Pairs
          /\ link[<<p, other[p]>>] \in Links
      BY <2>2, Ends DEF Dialing, Talking
    <3>2. link[<<p, other[p]>>].down = <<>>
      BY <1>3, <1>13, <2>2, <3>1 DEF ProtocolInv, ChannelInv
    <3>3. link[<<p, other[p]>>].alive \in BOOLEAN BY <3>1 DEF Links
    <3>4. \E m \in Unpacked(<<>>, link[<<p, other[p]>>].alive) :
             received' = [received EXCEPT ![p] = m]
      BY <2>2, <3>2 DEF ClientReadShare
    <3>5. received \in [Players -> SecretShare \cup {Null}] BY DEF ProtocolInv, TypeOK
    <3> QED BY <3>3, <3>4, <3>5, NothingToUnpack
  <2> QED BY <1>2, <1>13, <2>1, <2>2
<1> QED BY <1>11, <1>12, <1>13

\* With more than two players and hosts that fit, nobody generates, whatever
\* the players are given: a client's second connection has no handshake, so
\* its server ends, and only a buffer that was never written could stand in
\* for the missing share (mbedtls_ssl_setup without a reset in client.c).
THEOREM OnlyPairsGenerate ==
  ASSUME HostsFit, ~JunkParses, N > 2
  PROVE  Spec => [](\A p \in Players : pc[p] # "generated")
<1> DEFINE Inv == ProtocolInv /\ FirstInv /\ StuckInv
           Idle == \A p \in Players : pc[p] # "generated"
<1>1. Init => Inv
  <2>1. Init => StuckInv BY DEF Init, StuckInv, Attending
  <2> QED BY <2>1, ProtocolInit, FirstInit
<1>2. Inv /\ [Next]_vars => Inv' BY ProtocolStep, FirstStep, StuckStep
<1>3. Inv => Idle BY DEF StuckInv
<1> QED BY <1>1, <1>2, <1>3, PTL DEF Spec
=============================================================================
