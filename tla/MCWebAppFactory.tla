-------------------------- MODULE MCWebAppFactory ---------------------------
(* Three plugins, of any keys, in any order: default, an app type, and a   *)
(* key that contains it.                                                   *)
EXTENDS WebAppFactory, TLC

CONSTANTS custom, extended

AllNames == {Default, custom, extended}

CustomOnly == {custom}

ContainsOf == {<<n, n>> : n \in AllNames} \cup {<<extended, custom>>}

Symmetry == Permutations(Apps) \cup Permutations(Files)

=============================================================================
