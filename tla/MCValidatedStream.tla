-------------------------- MODULE MCValidatedStream --------------------------
(***************************************************************************)
(* Small instances of the validator: three frames of two archives, with    *)
(* two possible bodies.  Only the equality of identities and of bodies     *)
(* matters.                                                                *)
(***************************************************************************)
EXTENDS ValidatedStream, TLC

CONSTANTS a1, a2, b1, b2

MCArchives == {a1, a2}
MCBodies == {b1, b2}
Symmetry == Permutations(MCArchives) \cup Permutations(MCBodies)
=============================================================================
