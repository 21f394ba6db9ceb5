------------------------- MODULE MCStudentDBHistory -------------------------
(* StudentDBHistory for TLC. *)
EXTENDS StudentDBHistory, StudentDBMenus
=============================================================================
