---------------------------- MODULE MCCheckQueue ----------------------------
(***************************************************************************)
(* TLC instance of CheckQueue: two workers, a master, four checks of which *)
(* one is bad, batches of at most two.                                     *)
(***************************************************************************)
EXTENDS CheckQueue
=============================================================================
