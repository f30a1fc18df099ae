----------------------------- MODULE TupleTypes -----------------------------
(***************************************************************************)
(* The tuple types a generator can be asked for (KII_TUPLE_TYPE), as a     *)
(* kind and a field, and one that no generator knows.                      *)
(***************************************************************************)
Kinds == {"BIT", "INPUT_MASK", "INVERSE_TUPLE", "SQUARE_TUPLE",
          "MULTIPLICATION_TRIPLE"}
Fields == {"GFP", "GF2N"}
TupleTypes == [kind : Kinds, field : Fields]
UnknownType == [kind |-> "UNKNOWN", field |-> "GFP"]
=============================================================================
