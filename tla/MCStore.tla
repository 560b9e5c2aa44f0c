------------------------------ MODULE MCStore -------------------------------
(* Instances of Store for TLC. *)
EXTENDS Store

MCText    == [kind |-> "text", num |-> 0]
MCPlain   == {MCText}
MCStrings == {IntStr(0), MCText}
MCMixed   == {IntStr(0), MCText, [kind |-> "prefix", num |-> 0]}
MCSigned  == {-1, 1}
Symmetry  == Permutations(Key) \cup Permutations(Snap)

=============================================================================
