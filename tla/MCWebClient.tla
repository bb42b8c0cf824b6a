---------------------------- MODULE MCWebClient ----------------------------
(* Instances of WebClient for TLC.                                         *)
EXTENDS WebClient, TLC

\* Sends, selections and chats are interchangeable.
Symmetry == Permutations(Sends) \cup Permutations(Picks) \cup Permutations(Chats)
=============================================================================
