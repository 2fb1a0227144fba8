--------------------------- MODULE MCWebfailsafe ---------------------------
(* Webfailsafe for TLC: two uploads, one of a wrong size.                  *)
EXTENDS Webfailsafe, TLC

CONSTANTS c1, c2, u1, u2

MCSlot == {c1, c2}
MCUpload == {u1, u2}
MCBlocks == (u1 :> 3) @@ (u2 :> 2)
MCAccepted == {u1}
MCAllAccepted == MCUpload
=============================================================================
