--------------------------- MODULE ReadOnceSecret ---------------------------
(***************************************************************************)
(* What a secret share promises, without tables, locks or transactions:    *)
(* a secret is held at rest until exactly one reader takes it, which ends  *)
(* its storage; the reader reads it or loses it; nothing that is gone or   *)
(* was taken is ever held again.                                           *)
(***************************************************************************)

CONSTANT Secrets

VARIABLE fate

Init == fate = [s \in Secrets |-> "unborn"]

Become(s, from, to) == fate[s] = from /\ fate' = [fate EXCEPT ![s] = to]

Hold(s) == Become(s, "unborn", "held")

Take(s) == Become(s, "held", "taken")

Read(s) == Become(s, "taken", "read")

\* Erased at rest, or lost in the hand of a reader who crashed.
Lose(lost) ==
  /\ \A s \in lost : fate[s] \in {"held", "taken"}
  /\ fate' = [s \in Secrets |-> IF s \in lost THEN "gone" ELSE fate[s]]

Next ==
  \/ \E s \in Secrets : Hold(s) \/ Take(s) \/ Read(s)
  \/ \E lost \in (SUBSET Secrets) \ {{}} : Lose(lost)

Spec == Init /\ [][Next]_fate

=============================================================================
