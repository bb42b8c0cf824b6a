---------------------------- MODULE MCMessageTx ----------------------------
(* Instances of MessageTx for TLC: model values only, no symmetry because   *)
(* the run checks a liveness property.                                      *)
EXTENDS MessageTx
=============================================================================
