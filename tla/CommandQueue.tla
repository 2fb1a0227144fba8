---------------------------- MODULE CommandQueue ----------------------------
(***************************************************************************)
(* What the upgrade protocol promises its host: the commands accepted are  *)
(* run when the host says so, all of them once and in their order, and     *)
(* nothing is accepted, dropped or started anew until they have run.       *)
(*                                                                         *)
(* on      : is the board on, and not yet handed to a kernel?              *)
(* queue   : the commands accepted                                         *)
(* running : are they being run?                                           *)
(* ran     : those that have been                                          *)
(***************************************************************************)
EXTENDS Integers, Sequences

CONSTANTS Command, Size

VARIABLES on, queue, running, ran

queueVars == <<on, queue, running, ran>>

Empty == queue = <<>> /\ running = FALSE /\ ran = <<>>

Init == on = TRUE /\ Empty

Accept(c) ==
  /\ on /\ ~running
  /\ Len(queue) < Size
  /\ queue' = Append(queue, c)
  /\ UNCHANGED <<on, running, ran>>

Start ==
  /\ on /\ ~running
  /\ running' = TRUE
  /\ UNCHANGED <<on, queue, ran>>

\* The next command, which may reset the board.
Run ==
  /\ on /\ running
  /\ Len(ran) < Len(queue)
  /\ ran' = Append(ran, queue[Len(ran) + 1])
  /\ on' \in BOOLEAN
  /\ UNCHANGED <<queue, running>>

Finish ==
  /\ on /\ running
  /\ ran = queue
  /\ Empty'
  /\ UNCHANGED on

Off ==
  /\ on' = FALSE
  /\ UNCHANGED <<queue, running, ran>>

PowerUp ==
  /\ ~on
  /\ on' = TRUE
  /\ Empty'

Next == (\E c \in Command : Accept(c)) \/ Start \/ Run \/ Finish \/ Off \/ PowerUp

Spec == Init /\ [][Next]_queueVars
=============================================================================
