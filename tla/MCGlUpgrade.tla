---------------------------- MODULE MCGlUpgrade ----------------------------
(***************************************************************************)
(* Two slots, a countdown of two seconds, two DHCP clients for the two     *)
(* addresses.                                                              *)
(***************************************************************************)
EXTENDS GlUpgrade

MCAddr == 2..3
=============================================================================
