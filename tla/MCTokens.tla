------------------------------ MODULE MCTokens ------------------------------
(* Two services and two secrets, which are interchangeable. *)
EXTENDS Tokens, TLC

CONSTANTS s1, s2, k1, k2

MCSymmetry == Permutations({s1, s2}) \cup Permutations({k1, k2})

=============================================================================
