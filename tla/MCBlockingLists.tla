-------------------------- MODULE MCBlockingLists ---------------------------
(* Instances of BlockingLists for TLC. *)
EXTENDS BlockingLists

CONSTANTS k1, k2, k3

Blocking(keys, dir, dest, destDir, expires) ==
    [keys |-> keys, dir |-> dir, dest |-> dest, destDir |-> destDir, expires |-> expires]

\* BLPOP k1 k2 and BLMOVE k1 k3 LEFT RIGHT with timeouts, BLMOVE k1 k2 RIGHT LEFT without.
MCMixed == {Blocking(<<k1, k2>>, "LEFT", NoKey, "LEFT", TRUE),
            Blocking(<<k1>>, "RIGHT", k2, "LEFT", FALSE),
            Blocking(<<k1>>, "LEFT", k3, "RIGHT", TRUE)}

\* BLPOP k1 without a timeout.
MCForever == {Blocking(<<k1>>, "LEFT", NoKey, "LEFT", FALSE)}

\* BLPOP k1 k1.
MCTwice == {Blocking(<<k1, k1>>, "LEFT", NoKey, "LEFT", FALSE)}

Symmetry == Permutations(Client)

=============================================================================
