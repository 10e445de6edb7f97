------------------------- MODULE ExecutionAuthority -------------------------
(***************************************************************************)
(* What the planning loop promises to the executor, without saying how it  *)
(* plans: at most one execution authorization exists at a time, every      *)
(* authorization is issued under a lease number never used before, and an  *)
(* authorization that was withdrawn does not come back.  Published plans,  *)
(* stages and callbacks are all invisible here.                            *)
(***************************************************************************)
EXTENDS Integers

CONSTANT MaxLease   \* lease numbers are 1..MaxLease

VARIABLES
  authority,   \* "none" before the first grant, "authorized", or "revoked"
  watermark    \* the largest lease number ever granted, 0 at first

Init == authority = "none" /\ watermark = 0

Grant(l) ==
  /\ authority # "authorized"
  /\ l > watermark
  /\ authority' = "authorized"
  /\ watermark' = l

Revoke ==
  /\ authority = "authorized"
  /\ authority' = "revoked"
  /\ UNCHANGED watermark

Next == Revoke \/ \E l \in 1..MaxLease : Grant(l)

Spec == Init /\ [][Next]_<<authority, watermark>>
=============================================================================
