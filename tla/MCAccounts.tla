----------------------------- MODULE MCAccounts -----------------------------
(* Small instances of Accounts: two requests, one worker that restarts.       *)
EXTENDS Accounts, TLC

Symmetric ==
  Permutations(Slots) \cup Permutations(Workers) \cup Permutations(Tokens)
    \cup Permutations(Passwords \ {First})
=============================================================================
