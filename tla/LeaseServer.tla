----------------------------- MODULE LeaseServer -----------------------------
(***************************************************************************)
(* What a DHCP server promises its clients from one start to the next: an  *)
(* address offered to one of them is never offered to another, also when   *)
(* the first is offered a new one or never comes back, and a client whose  *)
(* address was acknowledged keeps it.                                      *)
(*                                                                         *)
(* offers : the last offer to each client, None if there was no address    *)
(* given  : the addresses that are not offered any more                    *)
(* bound  : the clients acknowledged, with their addresses                 *)
(***************************************************************************)
CONSTANTS Client, Address, None

VARIABLES offers, given, bound

leaseVars == <<offers, given, bound>>

\* The server starts, possibly with fewer addresses than there are.
Open ==
  /\ offers' = [c \in Client |-> None]
  /\ given' \in SUBSET Address
  /\ bound' = {}

Init ==
  /\ offers = [c \in Client |-> None]
  /\ given = Address
  /\ bound = {}

Unbound(c) == \A p \in bound : p[1] # c

Offer(c, a) ==
  /\ Unbound(c)
  /\ a \in Address \ given
  /\ offers' = [offers EXCEPT ![c] = a]
  /\ given' = given \cup {a}
  /\ UNCHANGED bound

\* There is no address left.
Refuse(c) ==
  /\ Unbound(c)
  /\ given = Address
  /\ offers' = [offers EXCEPT ![c] = None]
  /\ UNCHANGED <<given, bound>>

Acknowledge(c) ==
  /\ offers[c] # None
  /\ bound' = bound \cup {<<c, offers[c]>>}
  /\ UNCHANGED <<offers, given>>

Next ==
  \/ Open
  \/ \E c \in Client : Refuse(c) \/ Acknowledge(c) \/ \E a \in Address : Offer(c, a)

Spec == Init /\ [][Next]_leaseVars
=============================================================================
