-------------------------- MODULE MCSerialProtocol --------------------------
(* Instances of SerialProtocol for TLC. *)
EXTENDS SerialProtocol
=============================================================================
