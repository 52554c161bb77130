--------------------------- MODULE MCSecretShares ---------------------------
(***************************************************************************)
(* Model values for SecretShares: where there is a second role, a          *)
(* trainee's, its sessions count as staff's but may not send or receive.   *)
(***************************************************************************)
EXTENDS SecretShares, TLC

CONSTANTS ann, bob, cem, w1, w2, k1, k2, staff, trainee

\* Sound where no account changes and every role is the same.
Alike == Permutations(People) \cup Permutations(Sessions)

\* Sound always: sessions and keys are alike.
Turns == Permutations(Sessions) \cup Permutations(Keys)
=============================================================================
