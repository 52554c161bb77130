------------------------------ MODULE MCSignIn ------------------------------
(* One account and two requests at a time: with an enrolment and a link while *)
(* the version is raised once, and without an enrolment two links, the second *)
(* of which replaces the first, while it is raised twice.                     *)
EXTENDS SignIn, TLC

CONSTANTS r1, r2, k1

MCBounds == {[version |-> 1, secrets |-> 1, links |-> 1, time |-> 1],
             [version |-> 2, secrets |-> 0, links |-> 2, time |-> 1]}

Alike == Permutations(Requests)
=============================================================================
