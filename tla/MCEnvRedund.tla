---------------------------- MODULE MCEnvRedund ----------------------------
(* EnvRedund for TLC: three environment contents, one of them the default. *)
EXTENDS EnvRedund

CONSTANTS dflt, e1, e2

MCEnv == {dflt, e1, e2}
MCNoTear == {}
MCTear == {127}
=============================================================================
