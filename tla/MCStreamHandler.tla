--------------------------- MODULE MCStreamHandler ---------------------------
(* StreamHandler on small sets of calls that only differ by name. *)
EXTENDS StreamHandler, TLC

\* Sound where the cfg gives MayCancel = Clients and no liveness is checked.
CallSymmetry == Permutations(Clients)
=============================================================================
