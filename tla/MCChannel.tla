----------------------------- MODULE MCChannel -----------------------------
(***************************************************************************)
(* Channel on small instances.  The back channels are interchangeable, so  *)
(* the safety runs use their symmetry.                                     *)
(***************************************************************************)
EXTENDS Channel, TLC

Symmetry == Permutations(BackChannels)
=============================================================================
