-------------------------- MODULE MCStudentDBProcs --------------------------
(* StudentDBProcs for TLC. *)
EXTENDS StudentDBProcs, StudentDBMenus
=============================================================================
