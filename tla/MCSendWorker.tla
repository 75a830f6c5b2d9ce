---------------------------- MODULE MCSendWorker ----------------------------
(***************************************************************************)
(* SendWorker for TLC.  The socket blocks are interchangeable, so the      *)
(* safety runs identify states up to their permutation; the liveness runs  *)
(* do not.                                                                 *)
(***************************************************************************)
EXTENDS SendWorker, TLC

Symmetry == Permutations(Sockets)

=============================================================================
