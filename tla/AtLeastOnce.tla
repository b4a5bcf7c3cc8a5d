----------------------------- MODULE AtLeastOnce -----------------------------
(***************************************************************************)
(* What a checkpointed stream promises: its position passes a row only     *)
(* after the row was delivered, and neither the position nor a delivered   *)
(* row is ever taken back.                                                 *)
(***************************************************************************)
EXTENDS Naturals

VARIABLES consumed,    \* the position of the checkpoint
          delivered    \* the rows in the target

deliveryVars == <<consumed, delivered>>

Init == consumed = 0 /\ delivered = {}

Deliver ==
    /\ delivered \subseteq delivered'
    /\ UNCHANGED consumed

Advance ==
    /\ consumed <= consumed'
    /\ 1..consumed' \subseteq delivered
    /\ UNCHANGED delivered

Next == Deliver \/ Advance

Spec == Init /\ [][Next]_deliveryVars

=============================================================================
