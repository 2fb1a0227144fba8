------------------------------ MODULE Download ------------------------------
(***************************************************************************)
(* What a transfer promises to the caller of NetLoop: a file that grows at *)
(* its end, block by block, and is reported as received only when all of   *)
(* it is there.                                                            *)
(*                                                                         *)
(* memory  : the block slots from load_addr on and what they hold          *)
(* size    : what has been received in this attempt, in bytes              *)
(* outcome : what NetLoop returned, "none" while it runs                   *)
(*                                                                         *)
(* An attempt may start again at any time and any number of times; what    *)
(* earlier ones stored stays in memory, but only the bytes of the last one *)
(* count.                                                                  *)
(***************************************************************************)
EXTENDS Integers

CONSTANTS F,        \* blocks of the file
          LastLen   \* bytes in the last one, which is short

VARIABLES memory, size, outcome

downloadVars == <<memory, size, outcome>>

Block == 1..F

\* Bytes of the first n blocks.
Bytes(n) == IF n = F THEN (F - 1) * 512 + LastLen ELSE n * 512

Received(n) == 1..n \subseteq DOMAIN memory /\ Bytes(n) <= size

Init == memory = [i \in {} |-> 0] /\ size = 0 /\ outcome = "none"

\* A block goes to its own place, and only when all before it are there.
StoreNext(n) ==
  /\ outcome = "none"
  /\ Received(n - 1)
  /\ memory' = [i \in DOMAIN memory \cup {n} |-> IF i = n THEN n ELSE memory[i]]
  /\ size' = IF size < Bytes(n) THEN Bytes(n) ELSE size
  /\ UNCHANGED outcome

StartAgain ==
  /\ outcome = "none"
  /\ size' = 0
  /\ UNCHANGED <<memory, outcome>>

Succeed ==
  /\ outcome = "none"
  /\ Received(F)
  /\ outcome' = "success"
  /\ UNCHANGED <<memory, size>>

GiveUp ==
  /\ outcome = "none"
  /\ outcome' \in {"fail", "timeout", "abort"}
  /\ UNCHANGED <<memory, size>>

Next == (\E n \in Block : StoreNext(n)) \/ StartAgain \/ Succeed \/ GiveUp

Spec == Init /\ [][Next]_downloadVars
=============================================================================
