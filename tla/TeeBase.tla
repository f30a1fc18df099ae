------------------------------ MODULE TeeBase ------------------------------
(***************************************************************************)
(* State and helpers shared by the modules of the TEE generator            *)
(* (klyshko-mp-spdz-tee).  Each player runs an enclave (CRG.c, which calls  *)
(* local_attestation.c, server.c and client.c) and, outside of it, a       *)
(* process (KII.c) that hands the player's MAC key shares to the enclave.  *)
(* The enclaves then attest each other pairwise and exchange MAC key       *)
(* shares and random seeds; a player with number s is the TLS server of    *)
(* all players c < s.                                                      *)
(*                                                                         *)
(* A pair of MAC key shares (for p and for 2) is represented by the number *)
(* of the player it belongs to.  A seed is represented by how often the    *)
(* random value of each player has been added into it: all the code does   *)
(* with seeds is to add them, so two seeds with the same representation    *)
(* are equal whatever the random values are.                               *)
(***************************************************************************)
EXTENDS Integers, Sequences, TupleTypes

CONSTANTS
  N,             \* number of players
  SeedModulus,   \* seeds are added modulo this, 2^64 in the code
  Environments,  \* the environments (see EnvironmentType) to start from
  JunkParses,    \* may a receive buffer nothing was read into unpack?
  MaxFaults      \* bound on failures of libraries, network and pods

Players == 0 .. N - 1
Pairs == {pair \in Players \X Players : pair[1] < pair[2]}

None == -1     \* no player, nothing set, no exit status yet
Junk == -2     \* what comes out of a buffer nothing was read into
Ignore == 0    \* the measurement argument "0"
Unparsable == -1

Measurements == {"mrenclave", "mrsigner", "isv_prod_id", "isv_svn"}
Arguments == [Measurements -> Nat \cup {Unparsable}]

\* What a player finds when it starts: files, libraries, arguments of the
\* programs and environment variables.  A host is the number of characters
\* in the host part of a player's endpoint, None if the variable is unset.
EnvironmentType ==
  [attestation : {"dcap", "epid", "none", "unreadable"},
   verifyLib   : BOOLEAN,
   quote       : [Measurements -> Nat],
   args        : Arguments,
   kiiArgs     : Arguments,
   hosts       : [Players -> Nat \cup {None}],
   job         : Nat,
   shareFiles  : BOOLEAN,
   primeFile   : BOOLEAN,
   tupleType   : TupleTypes \cup {UnknownType},
   tuples      : Nat \cup {None}]

ASSUME TeeAssumption ==
  /\ N \in Nat \ {0}
  /\ SeedModulus \in Nat \ {0, 1}
  /\ JunkParses \in BOOLEAN
  /\ MaxFaults \in Nat
  /\ Environments \subseteq [Players -> EnvironmentType]

\* Seeds, and the two messages of secretsharing.proto.
Seeds == [Players \cup {Junk} -> 0 .. SeedModulus - 1]
Shares == Players \cup {Junk}
PlayerInfo == [kii_job_id : Nat, player_number : Players]
SecretShare == [mackeyshare : Shares, seeds : Seeds]

VARIABLES
  env,       \* per player: its environment
  pc,        \* per player: where its enclave is
  kii,       \* per player: where its KII process is
  local,     \* per player: what its KII process has sent to its enclave
  status,    \* per player: exit status of its enclave, None while it runs
  other,     \* per player: the global other_player_number
  seed,      \* per player: Seed
  macKeys,   \* per player: Player_MAC_Keys, None where nothing was written
  received,  \* per player: as a client, the message it has unpacked last
  attested,  \* per player: the peers it has verified (a history variable)
  link,      \* per pair of client and server: their connection
  backlog,   \* per player: clients that have connected and wait for accept
  served,    \* per player: the client whose connection it has accepted
  launched,  \* per player: the commands it has executed, at most one
  faults     \* failures so far

vars == <<env, pc, kii, local, status, other, seed, macKeys, received,
          attested, link, backlog, served, launched, faults>>

exchanged == <<other, seed, macKeys, received, attested>>
connections == <<link, backlog, served>>

\* One player's exit closes its connections; what it has sent before can
\* still be read.
Hangup(P) ==
  [pair \in Pairs |-> IF pair[1] \in P \/ pair[2] \in P
                      THEN [link[pair] EXCEPT !.alive = FALSE]
                      ELSE link[pair]]

\* The players in the domain of codes end with these return codes, the
\* others are at pcs afterwards.  The exit status is the low byte of the
\* code.  The container ends with the enclave, and so does the KII process.
ExitStatus_Whole(ret) == ret
ExitStatus(ret) == ret % 256

Leave(codes, pcs) ==
  /\ pc' = [p \in Players |-> IF p \in DOMAIN codes THEN "exited" ELSE pcs[p]]
  /\ status' = [p \in Players |-> IF p \in DOMAIN codes
                                  THEN ExitStatus(codes[p]) ELSE status[p]]
  /\ kii' = [p \in Players |-> IF p \in DOMAIN codes THEN "exited" ELSE kii[p]]
  /\ link' = Hangup(DOMAIN codes)

Exit(p, ret) == Leave([q \in {p} |-> ret], pc)

\* Return codes of mbedTLS that reach exit().
X509_FATAL_ERROR == -12288      \* -0x3000: a verify callback refused a peer
HANDSHAKE_FAILURE == -28160     \* -0x6E00: no certificate to offer
FATAL_ALERT_MESSAGE == -30592   \* -0x7780: the peer has given up
UNEXPECTED_MESSAGE == -30464    \* -0x7700: no handshake message
CONN_EOF == -29312              \* -0x7280: the connection is gone
CONN_RESET == -80               \* -0x0050
BIND_FAILED == -70              \* -0x0046, for all failures of setup calls
SIGSEGV == 139                  \* status of a process that crashed
SIGKILL == 137                  \* status of a process that was killed

\* A call of the setup code into a library fails.
LibraryFails(p) ==
  /\ faults < MaxFaults
  /\ faults' = faults + 1
  /\ Exit(p, BIND_FAILED)

\* Measurement arguments: "0" is ignored, the others have to parse.
ArgumentsParse(args) == \A m \in Measurements : args[m] # Unparsable

my_verify_measurements(args, quote) ==
  \A m \in Measurements : args[m] # Ignore => args[m] = quote[m]

\* A certificate with a quote is there only with DCAP attestation.
Certified(p) == env[p].attestation = "dcap"

Accepts(p, q) ==
  Certified(q) /\ my_verify_measurements(env[p].args, env[q].quote)

\* addHex and addHex2.
addHex_Replaces(a, b) == b
addHex(a, b) == [x \in Players \cup {Junk} |-> (a[x] + b[x]) % SeedModulus]

OwnSeed(p) == [x \in Players \cup {Junk} |-> IF x = p THEN 1 ELSE 0]

\* Add a peer's seed to the own one and store its shares under its number.
StoreShare_OwnSlot(p, message) ==
  /\ seed' = [seed EXCEPT ![p] = addHex(@, message.seeds)]
  /\ macKeys' = [macKeys EXCEPT ![p][p] = message.mackeyshare]

StoreShare(p, message) ==
  /\ seed' = [seed EXCEPT ![p] = addHex(@, message.seeds)]
  /\ macKeys' = [macKeys EXCEPT ![p][other[p]] = message.mackeyshare]

\* The message a player sends to its peers, and the one that an unread
\* buffer may unpack to.
MyShare(p) == [mackeyshare |-> macKeys[p][p], seeds |-> seed[p]]
JunkShare == [mackeyshare |-> Junk, seeds |-> OwnSeed(Junk)]
Null == [mackeyshare |-> None, seeds |-> OwnSeed(Junk)]

\* A read from a channel: the next message, or a failure when the connection
\* is gone, which is only printed; the unread buffer is unpacked then, and
\* gives nothing or junk.
Unpacked_Retries(queue, alive) ==
  IF queue # <<>> THEN {Head(queue)} ELSE {}

Unpacked_NoWait(queue, alive) ==
  IF queue # <<>> THEN {Head(queue)} ELSE {Null, JunkShare}

Unpacked(queue, alive) ==
  IF queue # <<>> THEN {Head(queue)}
  ELSE IF alive THEN {}
  ELSE {Null} \cup IF JunkParses THEN {JunkShare} ELSE {}

Ended == {"exited", "generated"}
=============================================================================
