--------------------------- MODULE MCRuntimeLock ----------------------------
(* Small instances of RuntimeLock for TLC. *)
EXTENDS RuntimeLock

AllOperations == Commands \cup Events
=============================================================================
