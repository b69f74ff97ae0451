---------------------------- MODULE MCRetryQueue ----------------------------
(* Instances of RetryQueue for TLC: three alerts of different ages on two  *)
(* channels, a mailbox and the forwarding target.                          *)
EXTENDS RetryQueue

CONSTANTS old, mid, young, mailbox, forward

AtOf     == (old :> 1) @@ (mid :> 2) @@ (young :> 3)
TargetOf == (old :> mailbox) @@ (mid :> forward) @@ (young :> mailbox)
TwoAt     == (old :> 1) @@ (young :> 2)
TwoTarget == (old :> mailbox) @@ (young :> forward)
=============================================================================
