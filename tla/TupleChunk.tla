----------------------------- MODULE TupleChunk -----------------------------
(***************************************************************************)
(* What a tuple generation job promises, without operators, etcd, events   *)
(* or proxies: the VCPs agree on a tuple chunk in the manner of an atomic  *)
(* commitment.  Each VCP stores its shares and votes, once; its chunk is   *)
(* served, for good, only if all have voted for it, and given up only if   *)
(* some VCP has voted against it.  A VCP may reconsider giving up, but the *)
(* votes leave it no other choice in the end.                              *)
(***************************************************************************)
CONSTANT Player

VARIABLES
  stored,   \* per player: are its shares stored?
  vote,     \* per player: "none", "Completed" or "Failed"
  outcome   \* per player: "open", "served" or "given_up"

chunkVars == <<stored, vote, outcome>>

Init ==
  /\ stored = [p \in Player |-> FALSE]
  /\ vote = [p \in Player |-> "none"]
  /\ outcome = [p \in Player |-> "open"]

Store(p) ==
  /\ ~stored[p] /\ vote[p] = "none"
  /\ stored' = [stored EXCEPT ![p] = TRUE]
  /\ UNCHANGED <<vote, outcome>>

VoteCompleted(p) ==
  /\ stored[p] /\ vote[p] = "none"
  /\ vote' = [vote EXCEPT ![p] = "Completed"]
  /\ UNCHANGED <<stored, outcome>>

VoteFailed(p) ==
  /\ ~stored[p] /\ vote[p] = "none"
  /\ vote' = [vote EXCEPT ![p] = "Failed"]
  /\ UNCHANGED <<stored, outcome>>

Serve(p) ==
  /\ outcome[p] = "open" /\ \A q \in Player : vote[q] = "Completed"
  /\ outcome' = [outcome EXCEPT ![p] = "served"]
  /\ UNCHANGED <<stored, vote>>

GiveUp(p) ==
  /\ outcome[p] = "open" /\ \E q \in Player : vote[q] = "Failed"
  /\ outcome' = [outcome EXCEPT ![p] = "given_up"]
  /\ UNCHANGED <<stored, vote>>

Reconsider(p) ==
  /\ outcome[p] = "given_up"
  /\ outcome' = [outcome EXCEPT ![p] = "open"]
  /\ UNCHANGED <<stored, vote>>

Next == \E p \in Player :
  \/ Store(p) \/ VoteCompleted(p) \/ VoteFailed(p)
  \/ Serve(p) \/ GiveUp(p) \/ Reconsider(p)

Spec == Init /\ [][Next]_chunkVars
=============================================================================
