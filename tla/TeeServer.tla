----------------------------- MODULE TeeServer -----------------------------
(***************************************************************************)
(* The server role (server.c): player s serves the players 0 to s - 1, one *)
(* connection at a time and in this order; other[s] is the client that is  *)
(* due.  The client's side of the handshake happens in the same step.      *)
(***************************************************************************)
EXTENDS TeeLocal

ServerHostBuffer == 20   \* sizeof(server_ip)

\* The server listens, and TCP connections succeed, from its setup on until
\* it leaves the role.
Listening(s) ==
  pc[s] \in {"srv_accept", "srv_info", "srv_close", "srv_send", "srv_share"}

\* The libraries and arguments that the setup insists on.
ServerUsable(s) ==
  /\ env[s].verifyLib
  /\ ArgumentsParse(env[s].args)
  /\ env[s].attestation \in {"dcap", "none"}

\* Everything before the label reset.  A host that does not fit the buffer
\* leaves the function with the return code of the last call, which was 0.
ServerSetup(s) ==
  LET host == env[s].hosts[s] IN
  /\ pc[s] = "srv_setup"
  /\ \/ /\ ServerUsable(s)
        /\ host # None
        /\ pc' = [pc EXCEPT ![s] = IF host < ServerHostBuffer THEN "srv_accept"
                                                             ELSE AfterServer(s)]
        /\ UNCHANGED <<kii, status, link, faults>>
     \/ /\ ServerUsable(s)
        /\ host = None
        /\ Exit(s, SIGSEGV)
        /\ UNCHANGED faults
     \/ /\ ~ServerUsable(s)
        /\ Exit(s, 1)
        /\ UNCHANGED faults
     \/ LibraryFails(s)
  /\ UNCHANGED <<env, local, exchanged, backlog, served, launched>>

\* A client sets up its TLS context anew for each server, but initialises it
\* only once and never resets it: from its second server on the library
\* takes the handshake as done, and its result is that of the first one.
FirstServer == N - 1

\* Accept the first waiting connection and complete the handshake: the
\* client verifies the server's quote, then the server the client's.  A
\* client that is refused may have completed its side already.  A client
\* that has been to another server sends no handshake message: the server
\* ends with an error when the first record arrives.
ServerHandshake(s) ==
  LET c == Head(backlog[s])
      up == link[<<c, s>>].up
  IN
  /\ pc[s] = "srv_accept"
  /\ backlog[s] # <<>>
  /\ \/ /\ ~link[<<c, s>>].alive
        /\ Exit(s, CONN_EOF)
        /\ UNCHANGED attested
     \/ /\ s # FirstServer
        /\ up # <<>>
        /\ Exit(s, UNEXPECTED_MESSAGE)
        /\ UNCHANGED attested
     \/ /\ s = FirstServer
        /\ link[<<c, s>>].alive
        /\ Accepts(c, s)
        /\ Accepts(s, c)
        /\ pc' = [pc EXCEPT ![s] = "srv_info", ![c] = "cli_info"]
        /\ attested' = [attested EXCEPT ![s] = @ \cup {c}, ![c] = @ \cup {s}]
        /\ UNCHANGED <<kii, status, link>>
     \/ /\ s = FirstServer
        /\ link[<<c, s>>].alive
        /\ ~Accepts(c, s)
        /\ Leave([p \in {c, s} |-> IF p = c THEN X509_FATAL_ERROR
                                             ELSE FATAL_ALERT_MESSAGE], pc)
        /\ UNCHANGED attested
     \/ /\ s = FirstServer
        /\ link[<<c, s>>].alive
        /\ Accepts(c, s)
        /\ ~Accepts(s, c)
        /\ \/ /\ Leave([p \in {c, s} |-> IF p = s THEN X509_FATAL_ERROR
                                                  ELSE FATAL_ALERT_MESSAGE], pc)
              /\ UNCHANGED attested
           \/ /\ Leave([p \in {s} |-> X509_FATAL_ERROR],
                       [pc EXCEPT ![c] = "cli_info"])
              /\ attested' = [attested EXCEPT ![c] = @ \cup {s}]
  /\ backlog' = [backlog EXCEPT ![s] = Tail(@)]
  /\ served' = [served EXCEPT ![s] = c]
  /\ UNCHANGED <<env, local, other, seed, macKeys, received, launched, faults>>

\* The job has to be the same and the player number the one that is due.
verify_player_details_AnyJob(s, info) == info.player_number = other[s]
verify_player_details(s, info) ==
  /\ info.kii_job_id = env[s].job
  /\ info.player_number = other[s]

\* Read PlayerInfo.  Without a message, or with a wrong one, the process
\* ends: it does not go back to waiting for the client that is due.  But
\* after wrong details (an unread buffer may unpack to some) it repeats the
\* close notification as long as it fails, which on a connection that is
\* gone is for ever: no step leads on from srv_close.
ServerReadInfo(s) ==
  LET pair == <<served[s], s>>
      up == link[pair].up
  IN
  /\ pc[s] = "srv_info"
  /\ \/ /\ up # <<>>
        /\ verify_player_details(s, Head(up))
        /\ pc' = [pc EXCEPT ![s] = "srv_send"]
        /\ link' = [link EXCEPT ![pair].up = Tail(@)]
        /\ UNCHANGED <<kii, status>>
     \/ /\ up # <<>>
        /\ ~verify_player_details(s, Head(up))
        /\ Exit(s, -1)
     \/ /\ up # <<>> => ~verify_player_details(s, Head(up))
        /\ ~link[pair].alive
        /\ pc' = [pc EXCEPT ![s] = "srv_close"]
        /\ UNCHANGED <<kii, status, link>>
     \/ /\ up = <<>>
        /\ ~link[pair].alive
        /\ \E ret \in {SIGSEGV, -1} : Exit(s, ret)
  /\ UNCHANGED <<env, local, exchanged, backlog, served, launched, faults>>

\* Send the own MAC key shares and the current seed.
ServerSendShare(s) ==
  LET pair == <<served[s], s>> IN
  /\ pc[s] = "srv_send"
  /\ \/ /\ pc' = [pc EXCEPT ![s] = "srv_share"]
        /\ link' = [link EXCEPT ![pair].down =
                      IF link[pair].alive THEN Append(@, MyShare(s)) ELSE @]
        /\ UNCHANGED <<kii, status>>
     \/ /\ ~link[pair].alive
        /\ Exit(s, CONN_RESET)
  /\ UNCHANGED <<env, local, exchanged, backlog, served, launched, faults>>

\* Read the client's shares, add its seed to the own one, store the shares
\* and close.  The next client is due, or the role is over.  An unpacked
\* message is used before it is compared with NULL.  The zeros that pad the
\* seed to KEY_LENGTH run past the end of Seed, which may break the process;
\* and the last write, the close notification, can fail.
ServerReadShare(s) ==
  LET pair == <<served[s], s>> IN
  /\ pc[s] = "srv_share"
  /\ \E message \in Unpacked(link[pair].up, link[pair].alive) :
       \/ /\ message # Null
          /\ StoreShare(s, message)
          /\ other' = [other EXCEPT ![s] = @ + 1]
          /\ pc' = [pc EXCEPT ![s] = IF other[s] + 1 >= s THEN AfterServer(s)
                                                          ELSE "srv_accept"]
          /\ link' = [link EXCEPT ![pair].up = <<>>]
          /\ served' = [served EXCEPT ![s] = None]
          /\ UNCHANGED <<kii, status, faults>>
       \/ /\ \/ /\ message = Null
                /\ Exit(s, SIGSEGV)
                /\ UNCHANGED faults
             \/ /\ message # Null
                /\ ~link[pair].alive
                /\ Exit(s, CONN_RESET)
                /\ UNCHANGED faults
             \/ /\ message # Null
                /\ LibraryFails(s)
          /\ UNCHANGED <<other, seed, macKeys, served>>
  /\ UNCHANGED <<env, local, received, attested, backlog, launched>>

Server(s) ==
  \/ ServerSetup(s)
  \/ ServerHandshake(s)
  \/ ServerReadInfo(s)
  \/ ServerSendShare(s)
  \/ ServerReadShare(s)
=============================================================================
