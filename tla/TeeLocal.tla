------------------------------ MODULE TeeLocal ------------------------------
(***************************************************************************)
(* Local attestation: the enclave listens on a local port                  *)
(* (local_attestation.c), the KII process of the same player (KII.c)        *)
(* connects to it, verifies its quote and sends the player's MAC key       *)
(* shares.                                                                 *)
(***************************************************************************)
EXTENDS TeeBase

\* Where main continues after the local attestation and after the server
\* role: players above 0 serve first, players below N - 1 then connect.
AfterServer_OffByOne(p) == IF p < N - 2 THEN "cli_setup" ELSE "launch"
AfterServer(p) == IF p < N - 1 THEN "cli_setup" ELSE "launch"

AfterLocal_ClientFirst(p) == IF p < N - 1 THEN "cli_setup" ELSE "srv_setup"
AfterLocal(p) == IF p > 0 THEN "srv_setup" ELSE AfterServer(p)

\* local_attestation up to the listening socket.
LocalSetup(p) ==
  /\ pc[p] = "local_setup"
  /\ \/ /\ env[p].attestation \in {"dcap", "none"}
        /\ pc' = [pc EXCEPT ![p] = "local_accept"]
        /\ UNCHANGED <<kii, status, link, faults>>
     \/ /\ env[p].attestation \notin {"dcap", "none"}
        /\ Exit(p, 1)
        /\ UNCHANGED faults
     \/ LibraryFails(p)
  /\ UNCHANGED <<env, local, exchanged, backlog, served, launched>>

\* What the KII process insists on before it connects.
KiiUsable(p) == env[p].verifyLib /\ ArgumentsParse(env[p].kiiArgs)

\* main of KII up to the connection: the KII process retries until the
\* enclave listens.
KiiSetup(p) ==
  /\ kii[p] = "start"
  /\ \/ /\ kii' = [kii EXCEPT ![p] =
             IF KiiUsable(p) THEN "connect" ELSE "exited"]
        /\ UNCHANGED faults
     \/ /\ faults < MaxFaults
        /\ faults' = faults + 1
        /\ kii' = [kii EXCEPT ![p] = "exited"]
  /\ UNCHANGED <<env, pc, local, status, exchanged, connections, launched>>

KiiConnect(p) ==
  /\ kii[p] = "connect"
  /\ pc[p] = "local_accept"
  /\ kii' = [kii EXCEPT ![p] = "handshake"]
  /\ UNCHANGED <<env, pc, local, status, exchanged, connections, launched,
                 faults>>

\* Accept and handshake.  The enclave does not ask for a certificate; the
\* KII process verifies the enclave's quote.
LocalHandshake(p) ==
  /\ pc[p] = "local_accept"
  /\ kii[p] = "handshake"
  /\ \/ /\ Certified(p)
        /\ my_verify_measurements(env[p].kiiArgs, env[p].quote)
        /\ pc' = [pc EXCEPT ![p] = "local_read"]
        /\ kii' = [kii EXCEPT ![p] = "send"]
        /\ UNCHANGED <<status, link>>
     \/ /\ Certified(p)
        /\ ~my_verify_measurements(env[p].kiiArgs, env[p].quote)
        /\ Exit(p, FATAL_ALERT_MESSAGE)
     \/ /\ ~Certified(p)
        /\ Exit(p, HANDSHAKE_FAILURE)
  /\ UNCHANGED <<env, local, exchanged, backlog, served, launched, faults>>

\* The KII process reads the share files, which ends it if there are none,
\* sends the shares (the field seeds stays empty) and closes.
KiiSend(p) ==
  /\ kii[p] = "send"
  /\ kii' = [kii EXCEPT ![p] = "exited"]
  /\ local' = [local EXCEPT ![p] =
       IF env[p].shareFiles
       THEN <<[mackeyshare |-> p,
               seeds |-> [x \in Players \cup {Junk} |-> 0]]>>
       ELSE <<>>]
  /\ UNCHANGED <<env, pc, status, exchanged, connections, launched, faults>>

\* The enclave reads the shares into its own slot and closes; the close
\* notification can fail.
LocalRead(p) ==
  /\ pc[p] = "local_read"
  /\ \E message \in Unpacked(local[p], kii[p] # "exited") :
       \/ /\ message # Null
          /\ macKeys' = [macKeys EXCEPT ![p][p] = message.mackeyshare]
          /\ pc' = [pc EXCEPT ![p] = AfterLocal(p)]
          /\ UNCHANGED <<kii, status, link, faults>>
       \/ /\ \/ message = Null /\ Exit(p, -1) /\ UNCHANGED faults
             \/ message # Null /\ LibraryFails(p)
          /\ UNCHANGED macKeys
  /\ local' = [local EXCEPT ![p] = <<>>]
  /\ UNCHANGED <<env, other, seed, received, attested, backlog, served,
                 launched>>
=============================================================================
