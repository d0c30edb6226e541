---------------------------- MODULE MCMembership ----------------------------
(* One organization, two users, two requests at a time.                  *)
EXTENDS Membership, TLC

(* The roles that may give some, and one that may not: a member may lose   *)
(* the roles that count.                                                   *)
SomeRoles == Leaders \cup {"member"}

(* Nothing tells users or requests apart, and no property is a liveness.   *)
Symmetry == Permutations(Users) \cup Permutations(Requests)
=============================================================================
