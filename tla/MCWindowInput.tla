---------------------------- MODULE MCWindowInput ---------------------------
(***************************************************************************)
(* An instance of WindowInput: keyboards of two heights, a script that     *)
(* asks for an input region in one place or for none, the back key, and a  *)
(* client that masks nothing, or a key without a property and a name that  *)
(* is no key's.                                                            *)
(***************************************************************************)
EXTENDS WindowInput

MCHeights == {1, 2}
MCTops == {0}
MCMasks == {{}, {"home", "jump"}}

=============================================================================
