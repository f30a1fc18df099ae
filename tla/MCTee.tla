------------------------------- MODULE MCTee -------------------------------
(* Environments of the TEE generator for TLC. *)
EXTENDS TeeCrg

Any == [m \in Measurements |-> Ignore]
Quote(enclave) == [m \in Measurements |-> IF m = "mrenclave" THEN enclave ELSE 1]
Expect(enclave) == [Any EXCEPT !["mrenclave"] = enclave, !["mrsigner"] = 1]

\* As kii-run.sh and the operator set a player up.
Good ==
  [attestation |-> "dcap", verifyLib |-> TRUE, quote |-> Quote(1),
   args |-> Expect(1), kiiArgs |-> Expect(1), hosts |-> [q \in Players |-> 9],
   job |-> 1, shareFiles |-> TRUE, primeFile |-> TRUE,
   tupleType |-> [kind |-> "INPUT_MASK", field |-> "GFP"], tuples |-> 4]

\* Everything that can be wrong with one player.
Wrong ==
  {[Good EXCEPT !.attestation = type] : type \in {"epid", "none", "unreadable"}}
  \cup {[Good EXCEPT !.verifyLib = FALSE],
        [Good EXCEPT !.quote = Quote(2)],
        [Good EXCEPT !.quote = Quote(2), !.kiiArgs = Any],
        [Good EXCEPT !.quote = Quote(2), !.kiiArgs = Any, !.args = Any],
        [Good EXCEPT !.args = Expect(2)],
        [Good EXCEPT !.args = [Any EXCEPT !["mrsigner"] = Unparsable]],
        [Good EXCEPT !.kiiArgs = [Any EXCEPT !["mrenclave"] = Unparsable]],
        [Good EXCEPT !.hosts = [q \in Players |-> None]],
        [Good EXCEPT !.job = 2],
        [Good EXCEPT !.shareFiles = FALSE],
        [Good EXCEPT !.primeFile = FALSE],
        [Good EXCEPT !.tupleType = UnknownType],
        [Good EXCEPT !.tuples = None]}

Uniform(e) == [p \in Players |-> e]
OneWrong == {[Uniform(Good) EXCEPT ![p] = e] : p \in Players, e \in Wrong}
AllTypes == {Uniform([Good EXCEPT !.tupleType = type]) : type \in TupleTypes}

PairEnvironments == OneWrong \cup AllTypes
ThreeEnvironments ==
  {Uniform(Good)}
  \cup {[Uniform(Good) EXCEPT ![p] = e] : p \in Players,
         e \in {[Good EXCEPT !.quote = Quote(2), !.kiiArgs = Any],
               [Good EXCEPT !.job = 2]}}

\* A host name that is longer than an IP address.
LongNames == {Uniform([Good EXCEPT !.hosts = [q \in Players |-> 24]])}

\* One player runs another enclave than its peer expects.
OtherEnclave ==
  {[Uniform(Good) EXCEPT ![0] = [Good EXCEPT !.quote = Quote(2), !.kiiArgs = Any]]}
=============================================================================
