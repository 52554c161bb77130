--------------------------- MODULE MCUserDirectory ---------------------------
(* Two people, of whom the provider knows one, and two requests at a time. *)
EXTENDS UserDirectory, TLC

CONSTANTS ann, bob, r1, r2, admin, member

\* A promotion, a demotion, a block, an unblock, and a role with a block.
MCUpdates ==
  {[role |-> admin, switch |-> Keep], [role |-> member, switch |-> Keep],
   [role |-> NoRole, switch |-> "block"], [role |-> NoRole, switch |-> "unblock"],
   [role |-> member, switch |-> "block"]}

\* A form of the panel that still shows the role as one the provider wrote.
MCOwners == {[source |-> "idp", applied |-> member]}

Alike == Permutations(Requests)
=============================================================================
