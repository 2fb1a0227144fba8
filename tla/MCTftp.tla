------------------------------- MODULE MCTftp -------------------------------
(* Tftp for TLC: two server ports, three blocks or, to wrap, more blocks   *)
(* than sequence numbers.                                                  *)
EXTENDS Tftp, TLC

CONSTANTS s1, s2

MCSession == {s1, s2}
MCSymmetry == Permutations(MCSession)
=============================================================================
