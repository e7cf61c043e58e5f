----------------------------- MODULE MCAccounts -----------------------------
(***************************************************************************)
(* Accounts on small instances.                                            *)
(***************************************************************************)
EXTENDS Accounts, TLC

AccountSymmetry == Permutations(Passwords) \union Permutations(Answers)
                   \union Permutations(Names \ LongNames)
=============================================================================
