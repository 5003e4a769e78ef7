---------------------------- MODULE MCWorkspaces ----------------------------
(* Workspaces for TLC: two accounts, and two requests at a time. *)
EXTENDS Workspaces, TLC

Symmetric == Permutations(Email) \cup Permutations(Token) \cup Permutations(Key)
                 \cup Permutations(Job) \cup Permutations(Request)
============================================================================
