------------------------ MODULE MCConnectionTracking ------------------------
(***************************************************************************)
(* ConnectionTracking for TLC.  Flow keys are interchangeable: they are    *)
(* compared with each other and used as the keys of connMgr, and no        *)
(* property tells one from another.                                        *)
(***************************************************************************)
EXTENDS ConnectionTracking, TLC

KeySymmetry == Permutations(Keys)

=============================================================================
