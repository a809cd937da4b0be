---------------------- MODULE MCActiveRequestLifecycle ----------------------
(***************************************************************************)
(* Three requests in progress; the table is symmetric in them.             *)
(***************************************************************************)
EXTENDS ActiveRequestLifecycle, TLC

CONSTANTS s1, s2, s3

MCSessions == {s1, s2, s3}
MCSymmetry == Permutations(MCSessions)
=============================================================================
