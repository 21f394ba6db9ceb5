---------------------------- MODULE MCStudentDB -----------------------------
(* StudentDB for TLC: ids one below and one above the valid range. *)
EXTENDS StudentDB

MCArgIds == -1..(MaxId + 1)
MCArgGpas == -1..(MaxGpa + 1)
=============================================================================
