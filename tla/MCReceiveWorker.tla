--------------------------- MODULE MCReceiveWorker ---------------------------
(***************************************************************************)
(* ReceiveWorker for TLC.  The runs send requests with dbw2 = 1 (a signal, *)
(* not ready) and 3 (a signal, in place), and with the number 3, which     *)
(* means an in-place signal when a torn stream puts it in dbw2's place.    *)
(***************************************************************************)
EXTENDS ReceiveWorker, TLC

Symmetry == Permutations(Clients)

=============================================================================
