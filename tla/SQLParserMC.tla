---------------------------- MODULE SQLParserMC ----------------------------
(* TLC instances of SQLParser. *)
EXTENDS SQLParser

AllKinds == Annotations \cup TextKinds
=============================================================================
