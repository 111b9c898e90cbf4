------------------------------- MODULE MCDaemon -------------------------------
(***************************************************************************)
(* Daemon for TLC.  Clients are interchangeable, and so are shells; every  *)
(* property of the runs is an invariant or a box of an action, so that     *)
(* symmetry is sound.                                                      *)
(***************************************************************************)
EXTENDS Daemon, TLC

Symmetry == Permutations(Client) \cup Permutations(Shell)
=============================================================================
