---------------------------- MODULE MCLifecycle ----------------------------
(* Instance of Lifecycle for TLC.  Keys of 30, 32 and 64 bytes with up to   *)
(* two bytes of white space meet every branch of Load and parseKey: a text  *)
(* of 32 bytes may be a key of 30.                                          *)
EXTENDS Lifecycle

MCKeyLens == {30, 32, 62, 64}
MCKeyPads == {0, 2}
=============================================================================
