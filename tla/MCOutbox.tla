------------------------------ MODULE MCOutbox ------------------------------
(***************************************************************************)
(* Small instances of Outbox.                                              *)
(***************************************************************************)
EXTENDS Outbox, TLC

MCSymmetry == Permutations(Events) \cup Permutations(Flushers)
=============================================================================
