---------------------------- MODULE MCTaskQueue ----------------------------
(***************************************************************************)
(* The instance of TaskQueue for TLC: "run" stands for the commands whose  *)
(* outcome tick_tasks reads correctly ("launch" and "stop" are always      *)
(* recorded as failed, see Success).                                       *)
(***************************************************************************)
EXTENDS TaskQueue

OnlyRun == {"run"}
=============================================================================
