----------------------------- MODULE MCCowGear -----------------------------
(* Requests to the CowGear generator for TLC. *)
EXTENDS CowGear

Everywhere == [p \in Players |-> TRUE]
Wanted ==
  {[kind |-> "BIT", field |-> "GFP"], [kind |-> "INPUT_MASK", field |-> "GF2N"],
   [kind |-> "INVERSE_TUPLE", field |-> "GFP"],
   [kind |-> "SQUARE_TUPLE", field |-> "GF2N"], UnknownType}
MCRequests ==
  {[type |-> type, params |-> Everywhere] : type \in Wanted}
  \cup {[type |-> [kind |-> "BIT", field |-> "GFP"],
         params |-> [Everywhere EXCEPT ![0] = FALSE]]}
=============================================================================
