-------------------------------- MODULE Dhcpd --------------------------------
(***************************************************************************)
(* The list of leases of the DHCP server in uip/apps/dhcpd/dhcpd.c. It     *)
(* lives in a head node from malloc: the bitmap of used addresses and the  *)
(* address that list_add compares with are what was in that memory.        *)
(*                                                                         *)
(* A client is known by its hardware address as strcmp sees it, up to the  *)
(* first zero byte: Key. Frames are lost before they get here.             *)
(***************************************************************************)
EXTENDS Integers

CONSTANTS Key,     \* hardware addresses, as strcmp tells them apart
          Addr     \* DHCPD_ADDR_START..DHCPD_ADDR_END after 192.168.1.1

NoAddr == 0        \* what allocate_new_ipaddr returns when there is none

ASSUME DhcpdAssumption == Addr \subseteq Nat \ {NoAddr}

VARIABLES
  leases,     \* the list that follows the head: key -> address
  free,       \* the clear bits of ip_bitmap
  kept,       \* the addresses above that in the head: list_add puts a node
              \* for another one before the head, where nobody looks for it
  dhcpd_end,
  offered,    \* history: what each key was offered last by this server
  acked       \* history: the acknowledgements of this server

dhcpdVars == <<leases, free, kept, dhcpd_end, offered, acked>>

EmptyList == [k \in {} |-> NoAddr]

Lease == UNION {[K -> Addr] : K \in SUBSET Key}

DhcpdTypeOK ==
  /\ leases \in Lease
  /\ free \in SUBSET Addr
  /\ kept \in SUBSET Addr
  /\ dhcpd_end \in BOOLEAN
  /\ offered \in [Key -> Addr \cup {NoAddr}]
  /\ acked \in SUBSET (Key \X Addr)

DhcpdStart ==
  /\ leases = EmptyList
  /\ free = {}
  /\ kept = {}
  /\ dhcpd_end = FALSE
  /\ offered = [k \in Key |-> NoAddr]
  /\ acked = {}

\* dhcpd_init: a new head, whatever it holds; the one before is leaked.
dhcpd_init ==
  /\ leases' = EmptyList
  /\ free' \in SUBSET Addr
  /\ kept' \in SUBSET Addr
  /\ \A a \in kept', b \in Addr : b > a => b \in kept'
  /\ offered' = [k \in Key |-> NoAddr]
  /\ acked' = {}

\* Faulty variant: the bit is not set.
FreeAgain(a) == free
\* search_vaild_bitmap sets the bit of what it finds.
Used(a) == free \ {a}

allocate_new_ipaddr ==
  IF free = {} THEN NoAddr ELSE CHOOSE a \in free : \A b \in free : a <= b

list_add(k, a) ==
  IF a \in kept THEN [j \in DOMAIN leases \cup {k} |-> IF j = k THEN a ELSE leases[j]]
                ELSE leases

\* Faulty variant: the list is not consulted.
OfferNew(k) ==
  /\ offered' = [offered EXCEPT ![k] = allocate_new_ipaddr]
  /\ free' = Used(allocate_new_ipaddr)
  /\ leases' = list_add(k, allocate_new_ipaddr)
  /\ UNCHANGED <<kept, dhcpd_end, acked>>
\* DISCOVER: the address on the list, or a new one.
dhcpd_relay_offer(k) ==
  /\ IF k \in DOMAIN leases
       THEN /\ offered' = [offered EXCEPT ![k] = leases[k]]
            /\ UNCHANGED <<leases, free>>
       ELSE /\ offered' = [offered EXCEPT ![k] = allocate_new_ipaddr]
            /\ free' = Used(allocate_new_ipaddr)
            /\ leases' = list_add(k, allocate_new_ipaddr)
  /\ UNCHANGED <<kept, dhcpd_end, acked>>

\* REQUEST: an ACK with the address on the list, which ends the server, or a
\* NAK.
dhcpd_replay_ask(k) ==
  /\ IF k \in DOMAIN leases
       THEN dhcpd_end' = TRUE /\ acked' = acked \cup {<<k, leases[k]>>}
       ELSE dhcpd_end' = FALSE /\ UNCHANGED acked
  /\ UNCHANGED <<leases, free, kept, offered>>

-----------------------------------------------------------------------------
\* No two clients hold the same address, although the list may lose a lease
\* that the bitmap remembers, and what is acknowledged is what the client was
\* offered last.
LeasesHold ==
  /\ \A j, k \in DOMAIN leases : leases[j] = leases[k] => j = k
  /\ \A j, k \in Key : offered[j] = offered[k] /\ offered[j] /= NoAddr => j = k
  /\ \A p \in acked : offered[p[1]] = p[2]
=============================================================================
