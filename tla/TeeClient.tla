----------------------------- MODULE TeeClient -----------------------------
(***************************************************************************)
(* The client role (client.c): player c connects to the players N - 1 down *)
(* to c + 1, one after the other; other[c] is the server that is due.  The *)
(* handshake is the server's step, see TeeServer.                          *)
(***************************************************************************)
EXTENDS TeeServer

ClientHostBuffer == 16   \* sizeof(server_ip)

\* The libraries and arguments that the setup insists on.
ClientUsable(c) ==
  /\ env[c].attestation \in {"dcap", "epid", "none"}
  /\ env[c].verifyLib
  /\ ArgumentsParse(env[c].args)

\* Everything before the loop over the servers.
ClientSetup(c) ==
  /\ pc[c] = "cli_setup"
  /\ \/ /\ ClientUsable(c)
        /\ pc' = [pc EXCEPT ![c] = "cli_endpoint"]
        /\ other' = [other EXCEPT ![c] = N - 1]
        /\ UNCHANGED <<kii, status, link>>
     \/ /\ ~ClientUsable(c)
        /\ Exit(c, 1)
        /\ UNCHANGED other
  /\ UNCHANGED <<env, local, seed, macKeys, received, attested, backlog, served,
                 launched, faults>>

\* The head of the loop, up to the connection.  A host that does not fit the
\* buffer leaves the function with the return code of the last call, 0.
ClientEndpoint(c) ==
  LET host == env[c].hosts[other[c]] IN
  /\ pc[c] = "cli_endpoint"
  /\ \/ /\ host # None
        /\ pc' = [pc EXCEPT ![c] = IF host < ClientHostBuffer THEN "cli_connect"
                                                             ELSE "launch"]
        /\ UNCHANGED <<kii, status, link, faults>>
     \/ /\ host = None
        /\ Exit(c, SIGSEGV)
        /\ UNCHANGED faults
     \/ LibraryFails(c)
  /\ UNCHANGED <<env, local, exchanged, backlog, served, launched>>

\* The client retries without end while the server does not listen.  With
\* its first server a handshake follows, with the others none does.
ClientConnect(c) ==
  LET s == other[c] IN
  /\ pc[c] = "cli_connect"
  /\ Listening(s)
  /\ link' = [link EXCEPT ![<<c, s>>] =
                [alive |-> TRUE, up |-> <<>>, down |-> <<>>]]
  /\ backlog' = [backlog EXCEPT ![s] = Append(@, c)]
  /\ pc' = [pc EXCEPT ![c] = IF s = FirstServer THEN "cli_handshake"
                                                ELSE "cli_info"]
  /\ UNCHANGED <<env, kii, local, status, exchanged, served, launched, faults>>

\* The server has gone before it accepted the connection.
ClientHandshakeLost(c) ==
  /\ pc[c] = "cli_handshake"
  /\ ~link[<<c, other[c]>>].alive
  /\ Exit(c, CONN_RESET)
  /\ UNCHANGED <<env, local, exchanged, backlog, served, launched, faults>>

\* A write to a peer: the message is queued, or, on a dead connection, lost.
\* In the latter case the write may fail as well (see the callers).
Up(c, message) ==
  LET pair == <<c, other[c]>> IN
  [link EXCEPT ![pair].up = IF link[pair].alive THEN Append(@, message) ELSE @]

\* Send the number of the job and of the player.
ClientSendInfo(c) ==
  /\ pc[c] = "cli_info"
  /\ \/ /\ pc' = [pc EXCEPT ![c] = "cli_read"]
        /\ link' = Up(c, [kii_job_id |-> env[c].job, player_number |-> c])
        /\ UNCHANGED <<kii, status>>
     \/ /\ ~link[<<c, other[c]>>].alive
        /\ Exit(c, CONN_RESET)
  /\ UNCHANGED <<env, local, exchanged, backlog, served, launched, faults>>

\* Read the server's shares.  That they could not be unpacked is only printed.
ClientReadShare(c) ==
  LET pair == <<c, other[c]>> IN
  /\ pc[c] = "cli_read"
  /\ \E message \in Unpacked(link[pair].down, link[pair].alive) :
       received' = [received EXCEPT ![c] = message]
  /\ link' = [link EXCEPT ![pair].down = <<>>]
  /\ pc' = [pc EXCEPT ![c] = "cli_send"]
  /\ UNCHANGED <<env, kii, local, status, other, seed, macKeys, attested,
                 backlog, served, launched, faults>>

\* Send the own shares with the seed as it is before the server's one is
\* added.  The length of the message is the return code from now on.
ClientSendShare_AfterAdding(c) ==
  /\ pc[c] = "cli_send"
  /\ pc' = [pc EXCEPT ![c] = "cli_add"]
  /\ link' = Up(c, [MyShare(c) EXCEPT !.seeds = addHex(@, received[c].seeds)])
  /\ UNCHANGED <<env, kii, local, status, exchanged, backlog, served, launched,
                 faults>>

ClientSendShare(c) ==
  /\ pc[c] = "cli_send"
  /\ \/ /\ pc' = [pc EXCEPT ![c] = "cli_add"]
        /\ link' = Up(c, MyShare(c))
        /\ UNCHANGED <<kii, status>>
     \/ /\ ~link[<<c, other[c]>>].alive
        /\ Exit(c, CONN_RESET)
  /\ UNCHANGED <<env, local, exchanged, backlog, served, launched, faults>>

MessageLength == 1   \* of a SecretShare, if it is no multiple of 256

\* Add the server's seed, store its shares and close.  The next server is
\* due, or the role is over.  As in the server, padding the seed may break
\* the process, and the close notification can fail.
ClientAddShare(c) ==
  LET message == received[c]
      next == other[c] - 1
  IN
  /\ pc[c] = "cli_add"
  /\ \/ /\ message # Null
        /\ StoreShare(c, message)
        /\ other' = [other EXCEPT ![c] = next]
        /\ pc' = [pc EXCEPT ![c] = IF next >= c + 1 THEN "cli_endpoint"
                                                    ELSE "launch"]
        /\ UNCHANGED <<kii, status, link, faults>>
     \/ /\ \/ /\ message = Null
              /\ Exit(c, MessageLength)
              /\ UNCHANGED faults
           \/ /\ message # Null
              /\ ~link[<<c, other[c]>>].alive
              /\ Exit(c, CONN_RESET)
              /\ UNCHANGED faults
           \/ /\ message # Null
              /\ LibraryFails(c)
        /\ UNCHANGED <<seed, macKeys, other>>
  /\ received' = [received EXCEPT ![c] = Null]
  /\ UNCHANGED <<env, local, attested, backlog, served, launched>>

Client(c) ==
  \/ ClientSetup(c)
  \/ ClientEndpoint(c)
  \/ ClientConnect(c)
  \/ ClientHandshakeLost(c)
  \/ ClientSendInfo(c)
  \/ ClientReadShare(c)
  \/ ClientSendShare(c)
  \/ ClientAddShare(c)
=============================================================================
