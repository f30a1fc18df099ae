--------------------------- MODULE ShareExchange ---------------------------
(***************************************************************************)
(* What the exchange between the enclaves promises, without connections,   *)
(* roles or messages: each player starts with nothing, obtains its own MAC *)
(* key shares, receives those of compatible players that have theirs, and  *)
(* generates tuples once it has all.  It may fail at any time before.      *)
(***************************************************************************)
CONSTANT Players

VARIABLES
  holds,      \* per player: the players whose shares it has
  phase,      \* per player: "running", "failed" or "generated"
  compatible  \* pairs of players that accept each other in the same job

sharedVars == <<holds, phase, compatible>>

Init ==
  /\ holds = [p \in Players |-> {}]
  /\ phase = [p \in Players |-> "running"]
  /\ compatible \subseteq Players \X Players

Obtain(p) ==
  /\ phase[p] = "running"
  /\ p \notin holds[p]
  /\ holds' = [holds EXCEPT ![p] = @ \cup {p}]
  /\ UNCHANGED <<phase, compatible>>

Receive(p, q) ==
  /\ phase[p] = "running"
  /\ <<p, q>> \in compatible
  /\ p \in holds[p]
  /\ q \in holds[q] \ holds[p]
  /\ holds' = [holds EXCEPT ![p] = @ \cup {q}]
  /\ UNCHANGED <<phase, compatible>>

Generate(p) ==
  /\ phase[p] = "running"
  /\ holds[p] = Players
  /\ phase' = [phase EXCEPT ![p] = "generated"]
  /\ UNCHANGED <<holds, compatible>>

\* A refused handshake ends both of its parties.
Fail(failing) ==
  /\ \A p \in failing : phase[p] = "running"
  /\ phase' = [p \in Players |-> IF p \in failing THEN "failed" ELSE phase[p]]
  /\ UNCHANGED <<holds, compatible>>

Next ==
  \/ \E p \in Players : Obtain(p) \/ Generate(p)
  \/ \E p, q \in Players : Receive(p, q)
  \/ \E failing \in SUBSET Players : Fail(failing)

Spec == Init /\ [][Next]_sharedVars
=============================================================================
