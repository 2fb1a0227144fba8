------------------------------ MODULE EnvStore ------------------------------
(***************************************************************************)
(* What saveenv promises to the rest of U-Boot: the environment a          *)
(* power-up loads is a single register that changes in one step.           *)
(*                                                                         *)
(* stored  : what the next power-up loads                                  *)
(* acked   : what the last boot loaded or the last successful saveenv      *)
(*           saved, whichever is later                                     *)
(* pending : the contents a running saveenv writes, or NoSave              *)
(* result  : what the last saveenv returned, "none" while it runs and      *)
(*           after a power-up                                              *)
(*                                                                         *)
(* A saveenv that returned an error has no promised outcome: stored is     *)
(* then the old or the new contents, and a retry may fall back to the old  *)
(* ones before it commits.                                                 *)
(***************************************************************************)
CONSTANTS Env,      \* the contents an environment can have
          NoSave    \* no saveenv is running

VARIABLES stored, acked, pending, result

storeVars == <<stored, acked, pending, result>>

Init ==
  /\ stored \in Env
  /\ acked = stored
  /\ pending = NoSave
  /\ result = "none"

Begin ==
  /\ pending = NoSave
  /\ pending' \in Env
  /\ result' = "none"
  /\ UNCHANGED <<stored, acked>>

Commit ==
  /\ pending # NoSave
  /\ stored' = pending
  /\ UNCHANGED <<acked, pending, result>>

\* The copy an earlier, failed saveenv left behind is overwritten.
Revert ==
  /\ pending # NoSave
  /\ stored' = acked
  /\ UNCHANGED <<acked, pending, result>>

Acknowledge ==
  /\ pending # NoSave
  /\ stored = pending
  /\ acked' = pending
  /\ pending' = NoSave
  /\ result' = "ok"
  /\ UNCHANGED stored

Fail ==
  /\ pending # NoSave
  /\ pending' = NoSave
  /\ result' = "error"
  /\ UNCHANGED <<stored, acked>>

PowerCycle ==
  /\ acked' = stored
  /\ pending' = NoSave
  /\ result' = "none"
  /\ UNCHANGED stored

Next == Begin \/ Commit \/ Revert \/ Acknowledge \/ Fail \/ PowerCycle

Spec == Init /\ [][Next]_storeVars
=============================================================================
