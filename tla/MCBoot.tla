------------------------------- MODULE MCBoot -------------------------------
(***************************************************************************)
(* A board with the default bootlimit, whose unset counter reads as any    *)
(* number, over boots with one power failure or flash error.               *)
(***************************************************************************)
EXTENDS Boot, Sequences, SequencesExt

AnyCount == 0..MaxCount

\* setenv on the list of names, and the sides of bootcmd it leaves.
Names == Moved \cup {"bootcmd", "other"}
Lists == {l \in UNION {SetToSeqs(N) : N \in SUBSET Names} : Contains(l, "bootcmd")}
SetenvList(l, v) == Append(SelectSeq(l, LAMBDA n : n /= v), v)
Place(l, n) == CHOOSE i \in DOMAIN l : l[i] = n
Sides(l) ==
  [default_environment EXCEPT
     !.ahead = {n \in Moved : \E i \in 1..Place(l, "bootcmd") : l[i] = n},
     !.behind = {n \in Moved : \E i \in Place(l, "bootcmd")..Len(l) : l[i] = n}]
Before(l) == SubSeq(l, 1, Place(l, "bootcmd"))

\* The abstraction of the list that Boot works with: setenv moves variables as
\* Boot's operators say, and s still points to bootcmd exactly if what is
\* ahead of it has not changed.
ASSUME SidesAssumption ==
  \A l \in Lists :
    /\ \A v \in Moved :
         LET m == SetenvList(l, v)
         IN /\ Sides(m) = setenv(Sides(l), v)
            /\ (Before(m) = Before(l)) = (Sides(m).ahead = Sides(l).ahead)
    /\ Sides(SetenvList(l, "bootcmd")) = SetBootcmd(Sides(l), "nand")
=============================================================================
