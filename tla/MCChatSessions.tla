--------------------------- MODULE MCChatSessions ---------------------------
(***************************************************************************)
(* ChatSessions on small instances.                                        *)
(***************************************************************************)
EXTENDS ChatSessions, TLC

\* The connections are interchangeable, and so are the users.
SessionSymmetry == Permutations(Conns) \union Permutations(Users)
=============================================================================
