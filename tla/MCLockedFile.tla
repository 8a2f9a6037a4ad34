---------------------------- MODULE MCLockedFile ----------------------------
(* A small instance of LockedFile for TLC: any process reads or appends. *)
EXTENDS LockedFile

MCKinds == [p \in Procs |-> {"read", "append"}]
=============================================================================
