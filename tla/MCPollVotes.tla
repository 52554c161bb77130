---------------------------- MODULE MCPollVotes ----------------------------
(* One poll with two options in either order, one person and two votes at  *)
(* a time.                                                                 *)
EXTENDS PollVotes, TLC

CONSTANTS p1, p2, ann, bob, r1, r2, yes, no

EitherOrder == {<<yes, no>>, <<no, yes>>}
Alike == Permutations(Requests)
=============================================================================
