--------------------------- MODULE MCDocumentLock ---------------------------
(* The document lock on one document, which exists or is still to be created. *)
EXTENDS DocumentLock

CONSTANTS mod, head, panel, hr, t1, b1, b2

\* A moderator, the head of hr, and the admin panel.
MCCallerOf ==
  [w \in Writers |-> CASE w = mod -> Moderator [] w = head -> hr [] w = panel -> Panel]
=============================================================================
