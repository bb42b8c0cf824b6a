--------------------------- MODULE MCChatSession ---------------------------
(* Model-checking definitions for ChatSession. *)
EXTENDS ChatSessionInductive, TLC

\* Requests, users and chats are interchangeable: no definition names one.
Symmetry == Permutations(Requests) \cup Permutations(Users) \cup Permutations(Chats)
=============================================================================
