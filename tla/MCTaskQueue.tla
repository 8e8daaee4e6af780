---------------------------- MODULE MCTaskQueue ----------------------------
(* The task queue with two workers and two tasks of different priorities:   *)
(* enough for two workers to want one row, for one to retry while the other *)
(* claims, and for a crash between any two steps.                           *)
EXTENDS TaskQueue
=============================================================================
