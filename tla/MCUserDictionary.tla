-------------------------- MODULE MCUserDictionary --------------------------
(* UserDictionary with two names, of which one fits, and two sizes.         *)
EXTENDS UserDictionary, TLC

CONSTANTS home, work, few, many

MCNames == {home, work}
MCWords == {few, many}

\* No definition tells the names apart.
Symmetry == Permutations(MCNames)
=============================================================================
