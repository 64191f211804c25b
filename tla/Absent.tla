------------------------------- MODULE Absent -------------------------------
(* Python's None, shared by the modules that are composed for TLC.               *)
CONSTANT None
=============================================================================
