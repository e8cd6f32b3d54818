------------------------ MODULE MCAccountSemaphore ------------------------
(* An instance of AccountSemaphore for TLC: key 1 is the global gate, keys 2  *)
(* and 3 are the gates of two accounts.                                       *)
EXTENDS AccountSemaphore, TLC

CONSTANTS a, b, c, d

\* a and b use one account, c the other, d an account without a limit; c comes
\* after a change of the settings that raised the global limit.
TwoAccounts ==
  a :> (1 :> 1 @@ 2 :> 1) @@ b :> (1 :> 1 @@ 2 :> 1) @@ c :> (1 :> 2 @@ 3 :> 1)
  @@ d :> (1 :> 1)

ThreeKeys == 1..3
=============================================================================
