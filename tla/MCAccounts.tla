---------------------------- MODULE MCAccounts ----------------------------
(* One account, two requests at a time, and a limit of two logins.         *)
EXTENDS Accounts, TLC

(* Nothing tells one request from another, and no property is temporal.    *)
Symmetry == Permutations(Requests)
===========================================================================
