----------------------------- MODULE MCNetLoop -----------------------------
(* NetLoop for TLC: up to three devices, several calls, few packets.       *)
EXTENDS NetLoop

MCAll == Dev
MCOnce == {"once"}
MCRetries == {"no", "once", "default"}
MCAllButEth0 == Dev \ {0}
=============================================================================
