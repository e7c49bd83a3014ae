-------------------------------- MODULE Absent --------------------------------
(* The absent value, shared by the modules that are checked together.        *)
CONSTANT None
=============================================================================
