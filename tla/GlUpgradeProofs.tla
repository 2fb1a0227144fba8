--------------------------- MODULE GlUpgradeProofs ---------------------------
(***************************************************************************)
(* What the upgrade protocol and the DHCP server guarantee for any number  *)
(* of slots and seconds, any clients and any addresses.                    *)
(***************************************************************************)
EXTENDS GlUpgrade, TLAPS, WellFoundedInduction, SequenceTheorems

-----------------------------------------------------------------------------
\* Leases.

LEMMA AllocatedIsFree ==
  ASSUME NEW F \in SUBSET Addr, F /= {}
  PROVE  \E a \in F : \A b \in F : a <= b
<1>1. F \in SUBSET Nat
  BY DhcpdAssumption
<1> DEFINE R == {ss \in Nat \X Nat : ss[1] < ss[2]}
<1>2. IsWellFoundedOn(R, Nat)
  BY NatLessThanWellFounded DEF OpToRel
<1>3. \A b, a \in Nat : ~ (<<b, a>> \in R) => a <= b
  OBVIOUS
<1> HIDE DEF R
<1>4. PICK a \in F : \A b \in F : ~ (<<b, a>> \in R)
  BY <1>1, <1>2, WFMin
<1> QED
  BY <1>1, <1>3, <1>4

LEMMA AllocationType ==
  ASSUME free \in SUBSET Addr
  PROVE  /\ NoAddr \notin Addr
         /\ allocate_new_ipaddr \in free \cup {NoAddr}
         /\ Used(allocate_new_ipaddr) \in SUBSET free
         /\ allocate_new_ipaddr \notin Used(allocate_new_ipaddr)
<1>1. NoAddr \notin Addr
  BY DhcpdAssumption DEF NoAddr
<1>2. allocate_new_ipaddr \in free \cup {NoAddr}
  BY AllocatedIsFree DEF allocate_new_ipaddr
<1> QED
  BY <1>1, <1>2 DEF Used

\* Leases and offers hold addresses that are not free, one client each; what
\* was acknowledged is still on the list.
LeaseInv ==
  /\ DhcpdTypeOK
  /\ \A j, k \in Key : offered[j] = offered[k] /\ offered[j] /= NoAddr => j = k
  /\ \A k \in Key : offered[k] \notin free
  /\ \A k \in DOMAIN leases : leases[k] = offered[k]
  /\ \A p \in acked : p[1] \in DOMAIN leases /\ leases[p[1]] = p[2]

LEMMA LeaseType ==
  ASSUME NEW f \in Lease, NEW k \in Key, NEW a \in Addr
  PROVE  [j \in DOMAIN f \cup {k} |-> IF j = k THEN a ELSE f[j]] \in Lease
<1>1. PICK K \in SUBSET Key : f \in [K -> Addr]
  BY DEF Lease
<1>2. [j \in DOMAIN f \cup {k} |-> IF j = k THEN a ELSE f[j]] \in [K \cup {k} -> Addr]
  BY <1>1
<1>3. K \cup {k} \in SUBSET Key
  OBVIOUS
<1> QED
  BY <1>2, <1>3 DEF Lease

LEMMA LeaseDomain ==
  ASSUME NEW f \in Lease
  PROVE  DOMAIN f \subseteq Key /\ \A k \in DOMAIN f : f[k] \in Addr
BY DEF Lease

LEMMA EmptyLease == EmptyList \in Lease /\ DOMAIN EmptyList = {}
<1>1. EmptyList \in [{} -> Addr]
  BY DEF EmptyList
<1> QED
  BY <1>1 DEF Lease, EmptyList

LEMMA OfferKeepsLeases ==
  ASSUME LeaseInv, NEW k \in Key, dhcpd_relay_offer(k)
  PROVE  LeaseInv'
<1> DEFINE a == allocate_new_ipaddr
<1> USE DEF LeaseInv, DhcpdTypeOK
<1>0. /\ NoAddr \notin Addr
      /\ a \in free \cup {NoAddr} /\ Used(a) \in SUBSET free /\ a \notin Used(a)
  BY AllocationType
<1>k. /\ UNCHANGED <<kept, dhcpd_end, acked>>
      /\ DOMAIN leases \subseteq Key /\ \A j \in DOMAIN leases : leases[j] \in Addr
  BY LeaseDomain DEF dhcpd_relay_offer
<1>1. CASE k \in DOMAIN leases
  <2>1. UNCHANGED <<leases, free>> /\ offered' = [offered EXCEPT ![k] = leases[k]]
    BY <1>1 DEF dhcpd_relay_offer
  <2>2. offered' = offered
    BY <1>1, <2>1
  <2> QED
    BY <1>k, <2>1, <2>2
<1>2. CASE k \notin DOMAIN leases
  <2>1. /\ offered' = [offered EXCEPT ![k] = a]
        /\ free' = Used(a)
        /\ leases' = list_add(k, a)
    BY <1>2 DEF dhcpd_relay_offer
  <2> HIDE DEF a
  <2>2. /\ leases' \in Lease
        /\ \A j \in DOMAIN leases : j \in DOMAIN leases' /\ leases'[j] = leases[j]
        /\ \A j \in DOMAIN leases' \ DOMAIN leases : j = k /\ leases'[j] = a
    <3>1. CASE a \in kept
      <4>1. leases' = [j \in DOMAIN leases \cup {k} |-> IF j = k THEN a ELSE leases[j]]
        BY <2>1, <3>1 DEF list_add
      <4>2. a \in Addr
        BY <3>1
      <4>3. leases \in Lease
        OBVIOUS
      <4> HIDE DEF LeaseInv, DhcpdTypeOK
      <4>4. [j \in DOMAIN leases \cup {k} |-> IF j = k THEN a ELSE leases[j]] \in Lease
        BY <4>2, <4>3, LeaseType
      <4> QED
        BY <4>1, <4>4, <1>2
    <3>2. CASE a \notin kept
      BY <2>1, <3>2 DEF list_add
    <3> QED
      BY <3>1, <3>2
  <2>3. /\ offered' \in [Key -> Addr \cup {NoAddr}]
        /\ offered'[k] = a
        /\ \A j \in Key \ {k} : offered'[j] = offered[j]
    BY <1>0, <2>1
  <2>4. DhcpdTypeOK'
    BY <1>0, <1>k, <2>1, <2>2, <2>3
  <2>5. (\A i, j \in Key : offered[i] = offered[j] /\ offered[i] /= NoAddr => i = j)'
    BY <1>0, <2>3
  <2>6. (\A j \in Key : offered[j] \notin free)'
    BY <1>0, <2>1, <2>3
  <2>7. (\A j \in DOMAIN leases : leases[j] = offered[j])'
    BY <1>2, <1>k, <2>2, <2>3
  <2>8. (\A p \in acked : p[1] \in DOMAIN leases /\ leases[p[1]] = p[2])'
    BY <1>k, <2>2
  <2> QED
    BY <2>4, <2>5, <2>6, <2>7, <2>8
<1> QED
  BY <1>1, <1>2

LEMMA AskKeepsLeases ==
  ASSUME LeaseInv, NEW k \in Key, dhcpd_replay_ask(k)
  PROVE  LeaseInv'
<1> USE DEF LeaseInv, DhcpdTypeOK
<1>1. UNCHANGED <<leases, free, kept, offered>> /\ dhcpd_end' \in BOOLEAN
  BY DEF dhcpd_replay_ask
<1>2. \A p \in acked' : \/ p \in acked
                        \/ p = <<k, leases[k]>> /\ k \in DOMAIN leases /\ leases[k] \in Addr
  BY LeaseDomain DEF dhcpd_replay_ask
<1>3. acked' \in SUBSET (Key \X Addr)
  BY <1>2
<1> QED
  BY <1>1, <1>2, <1>3

LEMMA InitKeepsLeases ==
  ASSUME LeaseInv, dhcpd_init, dhcpd_end' \in BOOLEAN
  PROVE  LeaseInv'
<1>1. NoAddr \notin Addr
  BY DhcpdAssumption DEF NoAddr
<1> QED
  BY <1>1, EmptyLease DEF LeaseInv, DhcpdTypeOK, dhcpd_init

LEMMA StartIsLease ==
  ASSUME DhcpdStart
  PROVE  LeaseInv
BY EmptyLease DEF LeaseInv, DhcpdTypeOK, DhcpdStart

\* Every other step leaves the leases alone.
LEMMA LeasesUntouched ==
  ASSUME LeaseInv, UNCHANGED <<leases, free, kept, offered, acked>>, dhcpd_end' \in BOOLEAN
  PROVE  LeaseInv'
BY DEF LeaseInv, DhcpdTypeOK

-----------------------------------------------------------------------------
\* Types and control. While a loop of the countdown polls, no command runs;
\* while commands run, no frame reaches the hook.
Polls == {"second", "probe", "listen"}

Control ==
  /\ phase \in {"off", "countdown", "boot", "prompt"}
  /\ loop \in Nested \cup Polls \cup {"none"}
  /\ left \in -1..Delay
  /\ job \in {"none", "do", "dhcp", "fallback"}
  /\ loop \in Polls => phase = "countdown" /\ left >= 0 /\ job = "none"
  /\ job \in {"do", "dhcp"} => phase \in {"countdown", "off"} /\ left >= 0
  /\ gl_probe_upgrade => loop \in Polls

FlagTypes ==
  /\ gl_probe_upgrade \in BOOLEAN
  /\ upgrade_listen \in BOOLEAN
  /\ NetUipLoop \in BOOLEAN
  /\ webfailsafe_is_running \in BOOLEAN
  /\ active \in BOOLEAN
  /\ initFailed \in BOOLEAN
  /\ dhcpdFailed \in BOOLEAN

\* What a job runs stays what it was when the hook was entered.
Jobs ==
  /\ gl_cmd_msg \in Seq(Cmd) /\ Len(gl_cmd_msg) <= NSlots
  /\ asked \in Seq(Cmd)
  /\ ran \in Seq(Cmd)
  /\ idx \in 1..(Len(Queue) + 1)
  /\ job = "do" => gl_cmd_msg = asked /\ ran = SubSeq(asked, 1, idx - 1)
  /\ job /= "do" => ran = <<>>
  /\ job = "none" => idx = 1

\* The flags of NetReceive are those of the loop that polls.
Flags ==
  /\ NetUipLoop => loop = "uip" \/ dhcpdFailed
  /\ loop = "uip" => NetUipLoop
  /\ webfailsafe_is_running <=> loop = "httpd"
  /\ loop = "httpd" => ~NetUipLoop

\* A listening loop was left by gl_upgrade_send_msg.
Listens == loop = "listen" /\ ~active => initFailed

IInv == LeaseInv /\ Control /\ FlagTypes /\ Jobs /\ Flags /\ Listens

LEMMA QueueType ==
  ASSUME gl_cmd_msg \in Seq(Cmd), Len(gl_cmd_msg) <= NSlots
  PROVE  /\ Queue \in Seq(Cmd)
         /\ Len(Queue) \in 0..(NSlots + 2)
<1>1. NSlots \in Nat \ {0} /\ Len(gl_cmd_msg) \in Nat
  BY GlUpgradeAssumption, LenProperties
<1>2. "dhcpd" \in Cmd /\ "httpd" \in Cmd
  BY DEF Cmd
<1>3. CASE job = "do"
  BY <1>1, <1>3 DEF Queue
<1>4. CASE job = "fallback"
  BY <1>1, <1>2, <1>4 DEF Queue
<1>5. CASE job \notin {"do", "fallback"}
  BY <1>1, <1>2, <1>5 DEF Queue
<1> QED
  BY <1>3, <1>4, <1>5

LEMMA IInvTypes == IInv => TypeOK
<1> SUFFICES ASSUME IInv PROVE TypeOK
  OBVIOUS
<1>1. idx \in 1..(NSlots + 3)
  <2>1. Len(Queue) \in 0..(NSlots + 2)
    BY QueueType DEF IInv, Jobs
  <2>2. idx \in 1..(Len(Queue) + 1) /\ NSlots \in Nat
    BY GlUpgradeAssumption DEF IInv, Jobs
  <2> QED
    BY <2>1, <2>2
<1> QED
  BY <1>1 DEF IInv, TypeOK, LeaseInv, Control, FlagTypes, Jobs, Polls, Nested

\* Steps that only poll or answer.
LEMMA SendKeeps ==
  ASSUME FlagTypes, gl_upgrade_send_msg
  PROVE  active' \in BOOLEAN /\ initFailed' \in BOOLEAN /\ (~active' => initFailed')
<1>1. CASE active
  BY <1>1 DEF FlagTypes, gl_upgrade_send_msg, device
<1>2. CASE ~active
  BY <1>2 DEF FlagTypes, gl_upgrade_send_msg, EthInit
<1> QED
  BY <1>1, <1>2

LEMMA FrameIsPolled ==
  ASSUME Control, Frame
  PROVE  /\ loop \in {"probe", "listen"} /\ phase = "countdown"
         /\ job = "none" /\ gl_probe_upgrade /\ active
BY DEF Control, Frame, Receiver, Polls, Nested

LEMMA CommandEnters ==
  ASSUME NEW c, run_command(c)
  PROVE  /\ loop' \in Nested \cup {loop}
         /\ phase' \in {phase, "off"}
         /\ gl_probe_upgrade' = gl_probe_upgrade
         /\ upgrade_listen' = upgrade_listen
<1> USE DEF Nested
<1>1. CASE Tftpboot
  BY <1>1 DEF Tftpboot, flags
<1>2. CASE DhcpdCommand
  BY <1>2 DEF DhcpdCommand
<1>3. CASE HttpdCommand
  BY <1>3 DEF HttpdCommand
<1>4. CASE UNCHANGED <<loop, flags>> /\ phase' \in {phase, "off"}
  BY <1>4 DEF flags
<1> QED
  BY <1>1, <1>2, <1>3, <1>4 DEF run_command

-----------------------------------------------------------------------------
\* Control.

LEMMA ControlStep ==
  ASSUME IInv, Next
  PROVE  Control'
<1> USE DEF Control, Polls, Nested
<1>0. Control /\ Delay \in Nat
  BY GlUpgradeAssumption DEF IInv
<1>f. Frame => /\ loop \in {"probe", "listen"} /\ phase = "countdown"
               /\ job = "none" /\ gl_probe_upgrade
  BY <1>0, FrameIsPolled DEF IInv
<1>1. CASE Second
  BY <1>0, <1>1 DEF Second, Polling
<1>2. CASE RunNext
  <2>1. PICK c : run_command(c)
    BY <1>2 DEF RunNext
  <2>2. /\ Waits
        /\ job' = job /\ left' = left
    BY <1>2 DEF RunNext
  <2> QED
    BY <1>0, <2>1, <2>2, CommandEnters DEF Waits
<1>3. CASE JobEnds
  BY <1>0, <1>3 DEF JobEnds, Waits, Polling
<1>4. CASE FallbackEnds
  BY <1>0, <1>4 DEF FallbackEnds, Waits, flags
<1>5. CASE NetEnds
  BY <1>0, <1>5 DEF NetEnds, flags
<1>6. CASE UipServed
  BY <1>0, <1>6 DEF UipServed
<1>7. CASE UipTimeout
  BY <1>0, <1>7 DEF UipTimeout
<1>8. CASE SecondEnds
  BY <1>0, <1>8 DEF SecondEnds
<1>9. CASE Scan
  BY <1>0, <1>f, <1>9 DEF Scan
<1>10. CASE CrcMatches
  BY <1>0, <1>f, <1>10 DEF CrcMatches
<1>11. CASE CrcDiffers
  BY <1>0, <1>11 DEF CrcDiffers, flags
<1>12. CASE DhcpFrame
  BY <1>0, <1>12 DEF DhcpFrame, flags
<1>13. ASSUME NEW c \in Cmd, StoreCmd(c) PROVE Control'
  BY <1>0, <1>13 DEF StoreCmd, flags
<1>14. ASSUME NEW j \in {"do", "dhcp"}, Do(j) PROVE Control'
  BY <1>0, <1>f, <1>14 DEF Do
<1>15. CASE Abort
  BY <1>0, <1>15 DEF Abort
<1>16. CASE HttpdStartsAgain \/ HttpdEnds
  BY <1>0, <1>16 DEF HttpdStartsAgain, HttpdEnds, flags
<1>17. CASE HttpdUpgrades
  BY <1>0, <1>17 DEF HttpdUpgrades, flags
<1>18. CASE Kernel
  BY <1>0, <1>18 DEF Kernel, flags
<1>19. CASE PowerUp
  BY <1>0, <1>19 DEF PowerUp
<1>20. ASSUME NEW c \in Cmd, UserCommand(c) PROVE Control'
  <2>1. /\ Waits
        /\ run_command(c)
        /\ job' = job /\ left' = left
    BY <1>20 DEF UserCommand
  <2> QED
    BY <1>0, <2>1, CommandEnters DEF Waits
<1> QED
  BY <1>1, <1>2, <1>3, <1>4, <1>5, <1>6, <1>7, <1>8, <1>9, <1>10, <1>11, <1>12,
     <1>13, <1>14, <1>15, <1>16, <1>17, <1>18, <1>19, <1>20
     DEF Next, Code, Host, User

-----------------------------------------------------------------------------
\* Leases change in the DHCP server only.

LEMMA CommandKeepsLeases ==
  ASSUME LeaseInv, NEW c, run_command(c)
  PROVE  LeaseInv'
<1>0. dhcpd_end \in BOOLEAN
  BY DEF LeaseInv, DhcpdTypeOK
<1>1. CASE UNCHANGED dhcpdVars
  BY <1>0, <1>1, LeasesUntouched DEF dhcpdVars
<1>2. CASE DhcpdCommand
  <2>1. dhcpd_end' \in BOOLEAN
    BY <1>2 DEF DhcpdCommand
  <2>2. dhcpd_init \/ UNCHANGED <<leases, free, kept, offered, acked>>
    BY <1>2 DEF DhcpdCommand
  <2> QED
    BY <2>1, <2>2, InitKeepsLeases, LeasesUntouched
<1>3. CASE HttpdCommand
  <2>1. dhcpd_end' \in BOOLEAN
    BY <1>3 DEF HttpdCommand
  <2> QED
    BY <2>1, <1>3, LeasesUntouched DEF HttpdCommand
<1> QED
  BY <1>1, <1>2, <1>3 DEF run_command, Tftpboot

LEMMA LeaseStep ==
  ASSUME LeaseInv, Next
  PROVE  LeaseInv'
<1>0. dhcpd_end \in BOOLEAN
  BY DEF LeaseInv, DhcpdTypeOK
<1>1. CASE UNCHANGED dhcpdVars
  BY <1>0, <1>1, LeasesUntouched DEF dhcpdVars
<1>2. CASE RunNext
  BY <1>2, CommandKeepsLeases DEF RunNext
<1>3. ASSUME NEW c \in Cmd, UserCommand(c) PROVE LeaseInv'
  BY <1>3, CommandKeepsLeases DEF UserCommand
<1>4. CASE DhcpFrame
  BY <1>4, OfferKeepsLeases, AskKeepsLeases DEF DhcpFrame
<1>5. CASE UipServed
  <2>1. dhcpd_end' \in BOOLEAN
    BY <1>5 DEF UipServed
  <2> QED
    BY <2>1, <1>5, LeasesUntouched DEF UipServed
<1>6. CASE UipTimeout
  <2>1. dhcpd_end' \in BOOLEAN
    BY <1>0, <1>6 DEF UipTimeout
  <2> QED
    BY <2>1, <1>6, LeasesUntouched DEF UipTimeout
<1>7. CASE PowerUp
  <2>1. (DhcpdStart)'
    BY <1>7 DEF PowerUp, DhcpdStart, EmptyList, NoAddr
  <2> QED
    BY <2>1, EmptyLease DEF LeaseInv, DhcpdTypeOK, DhcpdStart
<1>8. Second \/ JobEnds \/ FallbackEnds \/ NetEnds \/ SecondEnds => UNCHANGED dhcpdVars
  BY DEF Second, JobEnds, FallbackEnds, NetEnds, SecondEnds
<1>9. Abort \/ HttpdStartsAgain \/ HttpdEnds \/ HttpdUpgrades \/ Kernel => UNCHANGED dhcpdVars
  BY DEF Abort, HttpdStartsAgain, HttpdEnds, HttpdUpgrades, Kernel
<1>10. Scan \/ CrcMatches \/ CrcDiffers => UNCHANGED dhcpdVars
  BY DEF Scan, CrcMatches, CrcDiffers
<1>11. \A c \in Cmd : StoreCmd(c) => UNCHANGED dhcpdVars
  BY DEF StoreCmd
<1>12. \A j \in {"do", "dhcp"} : Do(j) => UNCHANGED dhcpdVars
  BY DEF Do
<1> QED
  BY <1>1, <1>2, <1>3, <1>4, <1>5, <1>6, <1>7, <1>8, <1>9, <1>10, <1>11, <1>12
     DEF Next, Code, Host, User

-----------------------------------------------------------------------------
\* A do runs what was stored when it came.

LEMMA JobsKept ==
  ASSUME Jobs, UNCHANGED <<gl_cmd_msg, asked, ran, idx, job>>
  PROVE  Jobs'
BY DEF Jobs, Queue

LEMMA SubSeqGrows ==
  ASSUME NEW s \in Seq(Cmd), NEW i \in 1..Len(s)
  PROVE  Append(SubSeq(s, 1, i - 1), s[i]) = SubSeq(s, 1, i)
OBVIOUS

LEMMA RunNextKeepsJobs ==
  ASSUME Jobs, RunNext
  PROVE  Jobs'
<1>0. Queue \in Seq(Cmd) /\ Len(Queue) \in Nat /\ idx \in 1..(Len(Queue) + 1)
  BY QueueType, GlUpgradeAssumption DEF Jobs
<1>1. /\ idx <= Len(Queue) /\ idx' = idx + 1
      /\ UNCHANGED <<gl_cmd_msg, job, asked>>
      /\ ran' = IF job = "do" THEN Append(ran, Queue[idx]) ELSE ran
  BY DEF RunNext
<1>2. Queue' = Queue
  BY <1>1 DEF Queue
<1>3. idx' \in 1..(Len(Queue') + 1)
  BY <1>0, <1>1, <1>2
<1>4. Queue[idx] \in Cmd
  BY <1>0, <1>1
<1>5. ran' \in Seq(Cmd)
  BY <1>1, <1>4 DEF Jobs
<1>6. job' = "do" => ran' = SubSeq(asked', 1, idx' - 1)
  <2> SUFFICES ASSUME job = "do" PROVE ran' = SubSeq(asked, 1, idx)
    BY <1>0, <1>1
  <2>1. Queue = asked /\ ran = SubSeq(asked, 1, idx - 1) /\ asked \in Seq(Cmd)
    BY DEF Jobs, Queue
  <2>2. ran' = Append(SubSeq(asked, 1, idx - 1), asked[idx])
    BY <1>1, <2>1
  <2> QED
    BY <1>0, <1>1, <2>1, <2>2, SubSeqGrows
<1>7. job /= "none"
  BY DEF RunNext
<1> QED
  BY <1>1, <1>3, <1>5, <1>6, <1>7 DEF Jobs

LEMMA JobsStep ==
  ASSUME IInv, Next
  PROVE  Jobs'
<1>0. Jobs /\ Control
  BY DEF IInv
<1>f. Frame => job = "none"
  BY <1>0, FrameIsPolled
<1>1. CASE UNCHANGED <<gl_cmd_msg, asked, ran, idx, job>>
  BY <1>0, <1>1, JobsKept
<1>2. CASE RunNext
  BY <1>0, <1>2, RunNextKeepsJobs
<1>3. CASE JobEnds
  <2>1. /\ gl_cmd_msg' \in Seq(Cmd) /\ Len(gl_cmd_msg') <= NSlots
        /\ job' = "none" /\ idx' = 1 /\ asked' = <<>> /\ ran' = <<>>
    BY <1>0, <1>3, GlUpgradeAssumption DEF JobEnds, Jobs
  <2>2. Len(Queue') = 1
    BY <2>1 DEF Queue
  <2> QED
    BY <2>1, <2>2 DEF Jobs
<1>4. ASSUME job' \in {"none", "fallback"}, idx' = 1, job /= "do",
             UNCHANGED <<gl_cmd_msg, asked, ran>>
      PROVE  Jobs'
  <2>1. Len(Queue') \in {1, 2}
    BY <1>4 DEF Queue
  <2> QED
    BY <1>0, <1>4, <2>1 DEF Jobs
<1>5. ASSUME NEW c \in Cmd, StoreCmd(c) PROVE Jobs'
  <2>1. job = "none" /\ UNCHANGED <<job, idx, asked, ran>>
    BY <1>f, <1>5 DEF StoreCmd, history
  <2>2. gl_cmd_msg' \in Seq(Cmd) /\ Len(gl_cmd_msg') <= NSlots
    <3>1. gl_cmd_msg \in Seq(Cmd) /\ Len(gl_cmd_msg) <= NSlots /\ Len(gl_cmd_msg) \in Nat
      BY <1>0, LenProperties DEF Jobs
    <3>2. \/ Len(gl_cmd_msg) < NSlots /\ gl_cmd_msg' = Append(gl_cmd_msg, c)
          \/ gl_cmd_msg' = gl_cmd_msg
      BY <1>5 DEF StoreCmd, Room
    <3>3. Append(gl_cmd_msg, c) \in Seq(Cmd) /\ Len(Append(gl_cmd_msg, c)) = Len(gl_cmd_msg) + 1
      BY <3>1, AppendProperties
    <3> QED
      BY <3>1, <3>2, <3>3, GlUpgradeAssumption
  <2>3. Len(Queue') = 1
    BY <2>1 DEF Queue
  <2> QED
    BY <1>0, <2>1, <2>2, <2>3 DEF Jobs
<1>6. ASSUME NEW j \in {"do", "dhcp"}, Do(j) PROVE Jobs'
  <2>1. /\ job = "none" /\ job' = j /\ idx' = 1 /\ asked' = gl_cmd_msg
        /\ UNCHANGED <<gl_cmd_msg, ran>>
    BY <1>f, <1>6 DEF Do
  <2>2. Len(Queue') \in Nat
    BY <1>0, <2>1 DEF Queue, Jobs
  <2>3. ran' = <<>> /\ SubSeq(asked', 1, idx' - 1) = <<>>
    BY <1>0, <2>1, SubSeqEmpty DEF Jobs
  <2> QED
    BY <1>0, <2>1, <2>2, <2>3 DEF Jobs
<1>7. CASE PowerUp
  <2>1. /\ gl_cmd_msg' = <<>> /\ asked' = <<>> /\ ran' = <<>>
        /\ job' = "none" /\ idx' = 1
    BY <1>7 DEF PowerUp
  <2>2. Len(Queue') = 1
    BY <2>1 DEF Queue
  <2> QED
    BY <2>1, <2>2, GlUpgradeAssumption DEF Jobs
<1>8. CASE SecondEnds
  <2>1. job = "none" /\ idx = 1
    BY <1>0, <1>8 DEF SecondEnds, Control, Polls, Jobs
  <2>2. /\ job' \in {"none", "fallback"} /\ idx' = 1
        /\ UNCHANGED <<gl_cmd_msg, asked, ran>>
    BY <1>8, <2>1 DEF SecondEnds, history
  <2> QED
    BY <1>4, <2>1, <2>2
<1>9. CASE FallbackEnds
  BY <1>4, <1>9 DEF FallbackEnds, history
<1>10. Second \/ NetEnds \/ UipServed \/ UipTimeout \/ DhcpFrame
          => UNCHANGED <<gl_cmd_msg, asked, ran, idx, job>>
  BY DEF Second, NetEnds, UipServed, UipTimeout, DhcpFrame, history
<1>11. Abort \/ HttpdStartsAgain \/ HttpdEnds \/ HttpdUpgrades \/ Kernel
          => UNCHANGED <<gl_cmd_msg, asked, ran, idx, job>>
  BY DEF Abort, HttpdStartsAgain, HttpdEnds, HttpdUpgrades, Kernel, history
<1>12. Scan \/ CrcMatches \/ CrcDiffers
          => UNCHANGED <<gl_cmd_msg, asked, ran, idx, job>>
  BY DEF Scan, CrcMatches, CrcDiffers, history
<1>13. \A c \in Cmd : UserCommand(c) => UNCHANGED <<gl_cmd_msg, asked, ran, idx, job>>
  BY DEF UserCommand
<1> QED
  BY <1>1, <1>2, <1>3, <1>5, <1>6, <1>7, <1>8, <1>9, <1>10, <1>11, <1>12, <1>13
     DEF Next, Code, Host, User

-----------------------------------------------------------------------------
\* The flags of NetReceive and the device.

LEMMA CommandKeepsFlags ==
  ASSUME FlagTypes, Flags, loop = "none", NEW c, run_command(c)
  PROVE  FlagTypes' /\ Flags'
<1> USE DEF FlagTypes, Flags
<1>1. CASE Tftpboot
  <2>1. active' \in BOOLEAN /\ initFailed' \in BOOLEAN
    BY <1>1 DEF Tftpboot
  <2> QED
    BY <2>1, <1>1 DEF Tftpboot, flags
<1>2. CASE DhcpdCommand
  <2>1. active' \in BOOLEAN /\ initFailed' \in BOOLEAN /\ dhcpdFailed' \in BOOLEAN
    BY <1>2 DEF DhcpdCommand, EthInit
  <2> QED
    BY <2>1, <1>2 DEF DhcpdCommand
<1>3. CASE HttpdCommand
  <2>1. active' \in BOOLEAN /\ initFailed' \in BOOLEAN /\ webfailsafe_is_running' \in BOOLEAN
    BY <1>3 DEF HttpdCommand
  <2> QED
    BY <2>1, <1>3 DEF HttpdCommand
<1>4. CASE UNCHANGED <<loop, flags, device, dhcpdFailed>>
  BY <1>4 DEF flags, device
<1> QED
  BY <1>1, <1>2, <1>3, <1>4 DEF run_command

\* Every step that enters no nested loop and leaves none.
LEMMA FlagsKept ==
  ASSUME Flags, loop \notin Nested, loop' \notin Nested,
         UNCHANGED <<NetUipLoop, webfailsafe_is_running, dhcpdFailed>>
  PROVE  Flags'
BY DEF Flags, Nested

LEMMA FlagTypesKept ==
  ASSUME FlagTypes, UNCHANGED <<NetUipLoop, webfailsafe_is_running, dhcpdFailed>>,
         gl_probe_upgrade' \in BOOLEAN, upgrade_listen' \in BOOLEAN,
         active' \in BOOLEAN, initFailed' \in BOOLEAN
  PROVE  FlagTypes'
BY DEF FlagTypes

LEMMA FlagTypesStep ==
  ASSUME IInv, Next
  PROVE  FlagTypes'
<1>0. FlagTypes /\ Flags /\ Control
  BY DEF IInv
<1>s. gl_upgrade_send_msg => active' \in BOOLEAN /\ initFailed' \in BOOLEAN
  BY <1>0, SendKeeps
<1>1. CASE Second
  <2>1. gl_probe_upgrade' \in BOOLEAN /\ active' \in BOOLEAN /\ initFailed' \in BOOLEAN
    BY <1>0, <1>1 DEF Second, EthInit, FlagTypes
  <2> QED
    BY <2>1, <1>0, <1>1, FlagTypesKept DEF Second, FlagTypes, history
<1>2. CASE RunNext
  BY <1>0, <1>2, CommandKeepsFlags DEF RunNext, Waits
<1>3. ASSUME NEW c \in Cmd, UserCommand(c) PROVE FlagTypes'
  BY <1>0, <1>3, CommandKeepsFlags DEF UserCommand, Waits
<1>4. CASE JobEnds
  BY <1>0, <1>s, <1>4, FlagTypesKept DEF JobEnds, FlagTypes
<1>5. CASE NetEnds
  <2>1. active' \in BOOLEAN
    BY <1>0, <1>5 DEF NetEnds, FlagTypes
  <2> QED
    BY <2>1, <1>0, <1>5, FlagTypesKept DEF NetEnds, FlagTypes, flags, history
<1>6. CASE UipServed
  BY <1>0, <1>6 DEF UipServed, FlagTypes, device, history
<1>7. CASE UipTimeout
  BY <1>0, <1>7 DEF UipTimeout, FlagTypes, device, history
<1>8. CASE SecondEnds
  <2>1. gl_probe_upgrade' \in BOOLEAN
    BY <1>0, <1>8 DEF SecondEnds, FlagTypes
  <2>2. active' \in BOOLEAN /\ initFailed' \in BOOLEAN
    BY <1>0, <1>8 DEF SecondEnds, HaltForBoot, FlagTypes, device
  <2> QED
    BY <2>1, <2>2, <1>0, <1>8, FlagTypesKept DEF SecondEnds, FlagTypes, history
<1>9. CASE Scan
  <2>1. active' \in BOOLEAN /\ initFailed' \in BOOLEAN
    BY <1>0, <1>s, <1>9 DEF Scan, FlagTypes, device
  <2> QED
    BY <2>1, <1>0, <1>9, FlagTypesKept DEF Scan, FlagTypes, history
<1>10. CASE CrcMatches
  BY <1>0, <1>s, <1>10, FlagTypesKept DEF CrcMatches, FlagTypes, history
<1>11. CASE CrcDiffers
  BY <1>0, <1>s, <1>11, FlagTypesKept DEF CrcDiffers, FlagTypes, flags, history
<1>12. ASSUME NEW c \in Cmd, StoreCmd(c) PROVE FlagTypes'
  BY <1>0, <1>s, <1>12, FlagTypesKept DEF StoreCmd, FlagTypes, flags, history
<1>13. ASSUME NEW j \in {"do", "dhcp"}, Do(j) PROVE FlagTypes'
  BY <1>0, <1>13 DEF Do, FlagTypes, device
<1>14. CASE Abort
  BY <1>0, <1>14 DEF Abort, FlagTypes, history
<1>15. CASE HttpdStartsAgain \/ HttpdEnds
  BY <1>0, <1>15 DEF HttpdStartsAgain, HttpdEnds, FlagTypes, flags, history
<1>16. CASE PowerUp
  BY <1>16 DEF PowerUp, FlagTypes
<1>17. CASE UNCHANGED <<flags, device, dhcpdFailed>>
  BY <1>0, <1>17 DEF FlagTypes, flags, device
<1>18. FallbackEnds \/ DhcpFrame \/ HttpdUpgrades \/ Kernel
          => UNCHANGED <<flags, device, dhcpdFailed>>
  BY DEF FallbackEnds, DhcpFrame, HttpdUpgrades, Kernel, history
<1> QED
  BY <1>1, <1>2, <1>3, <1>4, <1>5, <1>6, <1>7, <1>8, <1>9, <1>10, <1>11, <1>12,
     <1>13, <1>14, <1>15, <1>16, <1>17, <1>18 DEF Next, Code, Host, User

LEMMA FlagsStep ==
  ASSUME IInv, Next
  PROVE  Flags'
<1> USE DEF Nested
<1>0. FlagTypes /\ Flags /\ Control
  BY DEF IInv
<1>f. Frame => loop \in {"probe", "listen"}
  BY <1>0, FrameIsPolled
<1>1. CASE Second
  BY <1>0, <1>1, FlagsKept DEF Second, Polling, history
<1>2. CASE RunNext
  BY <1>0, <1>2, CommandKeepsFlags DEF RunNext, Waits
<1>3. ASSUME NEW c \in Cmd, UserCommand(c) PROVE Flags'
  BY <1>0, <1>3, CommandKeepsFlags DEF UserCommand, Waits
<1>4. CASE JobEnds
  BY <1>0, <1>4, FlagsKept DEF JobEnds, Waits, Polling
<1>5. CASE NetEnds
  BY <1>0, <1>5 DEF NetEnds, Flags, flags, history
<1>6. CASE UipServed
  BY <1>0, <1>6 DEF UipServed, Flags, history
<1>7. CASE UipTimeout
  BY <1>0, <1>7 DEF UipTimeout, Flags, history
<1>8. CASE SecondEnds
  BY <1>0, <1>8, FlagsKept DEF SecondEnds, history
<1>9. CASE Scan
  BY <1>0, <1>f, <1>9, FlagsKept DEF Scan, history
<1>10. CASE CrcMatches
  BY <1>0, <1>f, <1>10, FlagsKept DEF CrcMatches, history
<1>11. CASE CrcDiffers
  BY <1>0, <1>f, <1>11, FlagsKept DEF CrcDiffers, flags, history
<1>12. ASSUME NEW c \in Cmd, StoreCmd(c) PROVE Flags'
  BY <1>0, <1>f, <1>12, FlagsKept DEF StoreCmd, flags, history
<1>13. ASSUME NEW j \in {"do", "dhcp"}, Do(j) PROVE Flags'
  BY <1>0, <1>f, <1>13, FlagsKept DEF Do
<1>14. CASE Abort
  BY <1>0, <1>14, FlagsKept DEF Abort, history
<1>15. CASE HttpdStartsAgain \/ HttpdEnds
  BY <1>0, <1>15 DEF HttpdStartsAgain, HttpdEnds, Flags, flags, history
<1>16. CASE PowerUp
  BY <1>16 DEF PowerUp, Flags
<1>17. CASE UNCHANGED <<loop, flags, dhcpdFailed>>
  BY <1>0, <1>17 DEF Flags, flags
<1>18. FallbackEnds \/ DhcpFrame \/ HttpdUpgrades \/ Kernel
          => UNCHANGED <<loop, flags, dhcpdFailed>>
  BY DEF FallbackEnds, DhcpFrame, HttpdUpgrades, Kernel, history
<1> QED
  BY <1>1, <1>2, <1>3, <1>4, <1>5, <1>6, <1>7, <1>8, <1>9, <1>10, <1>11, <1>12,
     <1>13, <1>14, <1>15, <1>16, <1>17, <1>18 DEF Next, Code, Host, User

LEMMA ListensStep ==
  ASSUME IInv, Next
  PROVE  Listens'
<1>0. FlagTypes /\ Listens /\ Control
  BY DEF IInv
<1>s. gl_upgrade_send_msg => (~active' => initFailed')
  BY <1>0, SendKeeps
<1>f. Frame => active
  BY DEF Frame
<1>1. CASE loop' /= "listen"
  BY <1>1 DEF Listens
<1>2. CASE UNCHANGED <<loop, device>>
  BY <1>0, <1>2 DEF Listens, device
<1>3. CASE Second
  BY <1>3 DEF Second, Polling, EthInit, Listens
<1>4. CASE RunNext
  BY <1>1, <1>4, CommandEnters DEF RunNext, Waits, Nested
<1>5. ASSUME NEW c \in Cmd, UserCommand(c) PROVE Listens'
  BY <1>1, <1>5, CommandEnters DEF UserCommand, Waits, Nested
<1>6. CASE JobEnds
  BY <1>s, <1>6 DEF JobEnds, Listens
<1>7. CASE Scan
  BY <1>f, <1>s, <1>7 DEF Scan, Listens, device
<1>8. CASE CrcMatches
  BY <1>s, <1>8 DEF CrcMatches, Listens
<1>9. CASE CrcDiffers
  BY <1>s, <1>9 DEF CrcDiffers, Listens
<1>10. ASSUME NEW c \in Cmd, StoreCmd(c) PROVE Listens'
  BY <1>s, <1>10 DEF StoreCmd, Listens
<1>11. NetEnds \/ UipServed \/ UipTimeout \/ SecondEnds \/ Abort \/ HttpdStartsAgain
          \/ HttpdEnds \/ PowerUp
          => loop' /= "listen"
  BY DEF NetEnds, UipServed, UipTimeout, SecondEnds, Abort, HttpdStartsAgain, HttpdEnds,
     PowerUp
<1>12. \A j \in {"do", "dhcp"} : Do(j) => loop' /= "listen"
  BY DEF Do
<1>13. FallbackEnds \/ DhcpFrame \/ HttpdUpgrades \/ Kernel => UNCHANGED <<loop, device>>
  BY DEF FallbackEnds, DhcpFrame, HttpdUpgrades, Kernel
<1> QED
  BY <1>1, <1>2, <1>3, <1>4, <1>5, <1>6, <1>7, <1>8, <1>9, <1>10, <1>11, <1>12, <1>13
     DEF Next, Code, Host, User

-----------------------------------------------------------------------------
LEMMA InitIInv == Init => IInv
<1> SUFFICES ASSUME Init PROVE IInv
  OBVIOUS
<1>1. LeaseInv
  BY StartIsLease DEF Init
<1>2. Control
  BY GlUpgradeAssumption DEF Init, PowerOn, Control, Polls, Nested
<1>3. Len(Queue) = 1
  BY DEF Init, PowerOn, Queue
<1>4. Jobs
  BY <1>3, GlUpgradeAssumption DEF Init, PowerOn, Jobs
<1>5. FlagTypes /\ Flags /\ Listens
  BY DEF Init, PowerOn, FlagTypes, Flags, Listens
<1> QED
  BY <1>1, <1>2, <1>4, <1>5 DEF IInv

LEMMA IInvStutters == IInv /\ UNCHANGED vars => IInv'
<1> SUFFICES ASSUME IInv, UNCHANGED vars PROVE IInv'
  OBVIOUS
<1> USE DEF vars, dhcpdVars, flags, device, history
<1>1. LeaseInv'
  BY DEF IInv, LeaseInv, DhcpdTypeOK
<1>2. Jobs'
  BY JobsKept DEF IInv
<1>3. (Control /\ FlagTypes /\ Flags /\ Listens)'
  BY DEF IInv, Control, FlagTypes, Flags, Listens
<1> QED
  BY <1>1, <1>2, <1>3 DEF IInv

THEOREM Inductive == Spec => []IInv
<1>1. IInv /\ [Next]_vars => IInv'
  <2>1. IInv /\ Next => IInv'
    BY LeaseStep, ControlStep, FlagTypesStep, JobsStep, FlagsStep, ListensStep DEF IInv
  <2> QED
    BY <2>1, IInvStutters
<1> QED
  BY InitIInv, <1>1, PTL DEF Spec

(* Every variable keeps its type: in particular no command is stored past  *)
(* the slots of gl_cmd_msg (net.c:1279).                                   *)
THEOREM TypeCorrect == Spec => []TypeOK
BY Inductive, IInvTypes, PTL

(* A do runs the commands it found in the slots, in their order, whatever  *)
(* frames come while they run (net.c:1383, 1290).                          *)
THEOREM DoRunsWhatItFound == Spec => []RunsWhatWasAccepted
<1>1. IInv => RunsWhatWasAccepted
  BY DEF IInv, Jobs, RunsWhatWasAccepted
<1> QED
  BY Inductive, <1>1, PTL

(* In every order of loops, the one that polls is the one that NetReceive  *)
(* passes frames to, unless a dhcpd start has failed (net.c:1381-1396).    *)
THEOREM FramesReachTheirLoop == Spec => []Dispatch
<1>1. IInv => Dispatch
  BY DEF IInv, Control, FlagTypes, Flags, Dispatch, Receiver, Polls, Nested
<1> QED
  BY Inductive, <1>1, PTL

(* A loop that listens has a device, or could not start one (net.c:1224).  *)
THEOREM ListeningDevice == Spec => []Heard
<1>1. IInv => Heard
  BY DEF IInv, Listens, Heard
<1> QED
  BY Inductive, <1>1, PTL

(* The DHCP server gives no address to two clients, and acknowledges what  *)
(* it offered last, although its list may lose leases (dhcpd.c:266-328).   *)
THEOREM LeasesAreKept == Spec => []LeasesHold
<1>1. IInv => LeasesHold
  <2> SUFFICES ASSUME IInv PROVE LeasesHold
    OBVIOUS
  <2>1. /\ DOMAIN leases \subseteq Key
        /\ \A k \in DOMAIN leases : leases[k] \in Addr
        /\ NoAddr \notin Addr
    BY LeaseDomain, DhcpdAssumption DEF IInv, LeaseInv, DhcpdTypeOK, NoAddr
  <2> QED
    BY <2>1 DEF IInv, LeaseInv, LeasesHold
<1> QED
  BY Inductive, <1>1, PTL

-----------------------------------------------------------------------------
\* The refinements. An offer is one of an address that nobody was given, or
\* none is left; the addresses given are those whose bit is set.

LEMMA OfferIsOffer ==
  ASSUME LeaseInv, NEW k \in Key, dhcpd_relay_offer(k)
  PROVE  Leasing!Next \/ UNCHANGED Leasing!leaseVars
<1> DEFINE a == allocate_new_ipaddr
<1>1. acked' = acked
  BY DEF dhcpd_relay_offer
<1>2. CASE k \in DOMAIN leases
  <2>1. offered' = [offered EXCEPT ![k] = leases[k]] /\ free' = free
    BY <1>2 DEF dhcpd_relay_offer
  <2>2. offered' = offered
    BY <1>2, <2>1 DEF LeaseInv, DhcpdTypeOK
  <2> QED
    BY <1>1, <2>1, <2>2 DEF Leasing!leaseVars
<1>3. CASE k \notin DOMAIN leases
  <2>1. offered' = [offered EXCEPT ![k] = a] /\ free' = free \ {a}
    BY <1>3 DEF dhcpd_relay_offer, Used
  <2>2. Leasing!Unbound(k)
    BY <1>3 DEF LeaseInv, Leasing!Unbound
  <2>3. free \subseteq Addr /\ NoAddr \notin Addr
    BY DhcpdAssumption DEF LeaseInv, DhcpdTypeOK, NoAddr
  <2>4. CASE free = {}
    <3>1. a = NoAddr
      BY <2>4 DEF allocate_new_ipaddr
    <3> HIDE DEF a
    <3>2. Leasing!Refuse(k)
      BY <1>1, <2>1, <2>2, <2>3, <2>4, <3>1 DEF Leasing!Refuse
    <3> QED
      BY <3>2 DEF Leasing!Next
  <2>5. CASE free /= {}
    <3>1. a \in free
      BY <2>3, <2>5, AllocatedIsFree DEF allocate_new_ipaddr
    <3> HIDE DEF a
    <3>2. Leasing!Offer(k, a)
      BY <1>1, <2>1, <2>2, <2>3, <3>1 DEF Leasing!Offer
    <3> QED
      BY <2>3, <3>1, <3>2 DEF Leasing!Next
  <2> QED
    BY <2>4, <2>5
<1> QED
  BY <1>2, <1>3

LEMMA AskIsAcknowledge ==
  ASSUME LeaseInv, NEW k \in Key, dhcpd_replay_ask(k)
  PROVE  Leasing!Next \/ UNCHANGED Leasing!leaseVars
<1>1. UNCHANGED <<free, offered>>
  BY DEF dhcpd_replay_ask
<1>2. CASE k \in DOMAIN leases
  <2>1. leases[k] = offered[k] /\ leases[k] \in Addr /\ leases[k] /= NoAddr
    BY <1>2, LeaseDomain, DhcpdAssumption DEF LeaseInv, DhcpdTypeOK, NoAddr
  <2>2. acked' = acked \cup {<<k, offered[k]>>}
    BY <1>2, <2>1 DEF dhcpd_replay_ask
  <2> QED
    BY <1>1, <2>1, <2>2 DEF Leasing!Next, Leasing!Acknowledge
<1>3. CASE k \notin DOMAIN leases
  BY <1>1, <1>3 DEF dhcpd_replay_ask, Leasing!leaseVars
<1> QED
  BY <1>2, <1>3

\* A dhcpd start opens the server anew; other commands leave it alone.
LEMMA CommandOpens ==
  ASSUME NEW c, run_command(c)
  PROVE  Leasing!Next \/ UNCHANGED Leasing!leaseVars
<1>1. CASE dhcpd_init
  BY <1>1 DEF dhcpd_init, Leasing!Next, Leasing!Open
<1>2. CASE ~dhcpd_init
  BY <1>2 DEF run_command, Tftpboot, DhcpdCommand, HttpdCommand, dhcpdVars, Leasing!leaseVars
<1> QED
  BY <1>1, <1>2

LEMMA LeasingStep ==
  ASSUME LeaseInv, [Next]_vars
  PROVE  [Leasing!Next]_(Leasing!leaseVars)
<1>1. CASE RunNext \/ \E c \in Cmd : UserCommand(c)
  BY <1>1, CommandOpens DEF RunNext, UserCommand
<1>2. CASE DhcpFrame
  BY <1>2, OfferIsOffer, AskIsAcknowledge DEF DhcpFrame
<1>3. CASE PowerUp
  BY <1>3 DEF PowerUp, Leasing!Next, Leasing!Open
<1>4. CASE Second \/ JobEnds \/ FallbackEnds \/ NetEnds \/ UipServed \/ UipTimeout \/ SecondEnds
  BY <1>4 DEF Second, JobEnds, FallbackEnds, NetEnds, UipServed, UipTimeout, SecondEnds,
     dhcpdVars, Leasing!leaseVars
<1>5. CASE Abort \/ HttpdStartsAgain \/ HttpdEnds \/ HttpdUpgrades \/ Kernel
           \/ Scan \/ CrcMatches \/ CrcDiffers
  BY <1>5 DEF Abort, HttpdStartsAgain, HttpdEnds, HttpdUpgrades, Kernel, Scan, CrcMatches,
     CrcDiffers,
     dhcpdVars, Leasing!leaseVars
<1>6. CASE (\E c \in Cmd : StoreCmd(c)) \/ (\E j \in {"do", "dhcp"} : Do(j))
  BY <1>6 DEF StoreCmd, Do, dhcpdVars, Leasing!leaseVars
<1>7. CASE UNCHANGED vars
  BY <1>7 DEF vars, dhcpdVars, Leasing!leaseVars
<1> QED
  BY <1>1, <1>2, <1>3, <1>4, <1>5, <1>6, <1>7 DEF Next, Code, Host, User

(* The DHCP server implements LeaseServer: an address that one client was  *)
(* offered goes to no other until the next dhcpd start, and an address     *)
(* acknowledged stays its client's (dhcpd.c:266-468), for any clients and  *)
(* addresses and whatever the head of the list holds.                      *)
THEOREM ServesLeases == Spec => IsLeaseServer
<1>1. Init => Leasing!Init
  <2>1. Addr \ {} = Addr
    OBVIOUS
  <2> QED
    BY <2>1 DEF Init, DhcpdStart, Leasing!Init
<1>2. IInv /\ [Next]_vars => [Leasing!Next]_(Leasing!leaseVars)
  BY LeasingStep DEF IInv
<1> QED
  BY <1>1, <1>2, Inductive, PTL DEF Spec, IsLeaseServer, Leasing!Spec

OffersAreUnique ==
  /\ \A j, k \in Key : offered[j] = offered[k] /\ offered[j] /= NoAddr => j = k
  /\ \A p \in acked : offered[p[1]] = p[2]

(* What LeaseServer promises: no two clients are offered the same address, *)
(* and what was acknowledged is what the client was offered last.          *)
THEOREM LeasesAreUnique == IsLeaseServer => []OffersAreUnique
<1> DEFINE Unique == OffersAreUnique /\ \A p \in acked : p[1] \in Key
           Given == DOMAIN offered = Key /\ \A k \in Key : offered[k] \in (Addr \ free) \cup {NoAddr}
<1> USE DEF OffersAreUnique
<1>1. Leasing!Init => Given /\ Unique
  BY DEF Leasing!Init
<1>2. Given /\ Unique /\ [Leasing!Next]_(Leasing!leaseVars) => (Given /\ Unique)'
  <2> SUFFICES ASSUME Given, Unique, [Leasing!Next]_(Leasing!leaseVars) PROVE (Given /\ Unique)'
    OBVIOUS
  <2>1. CASE Leasing!Open
    BY <2>1 DEF Leasing!Open
  <2>2. ASSUME NEW c \in Key, Leasing!Refuse(c) PROVE (Given /\ Unique)'
    BY <2>2 DEF Leasing!Refuse, Leasing!Unbound
  <2>3. ASSUME NEW c \in Key, Leasing!Acknowledge(c) PROVE (Given /\ Unique)'
    BY <2>3 DEF Leasing!Acknowledge
  <2>4. ASSUME NEW c \in Key, NEW a \in Addr, Leasing!Offer(c, a) PROVE (Given /\ Unique)'
    <3>1. a \in Addr \ free'  /\ Addr \ free \subseteq Addr \ free' /\ a /= NoAddr
      BY <2>4, DhcpdAssumption DEF Leasing!Offer, NoAddr
    <3>2. /\ a \in free /\ acked' = acked /\ Leasing!Unbound(c)
          /\ DOMAIN offered' = Key /\ offered'[c] = a
          /\ \A k \in Key \ {c} : offered'[k] = offered[k]
      BY <2>4 DEF Leasing!Offer
    <3>3. Given'
      BY <3>1, <3>2
    <3>4. \A k \in Key : offered[k] /= a
      BY <3>1, <3>2
    <3>. QED
      BY <3>2, <3>3, <3>4 DEF Leasing!Unbound
  <2>5. CASE UNCHANGED Leasing!leaseVars
    BY <2>5 DEF Leasing!leaseVars
  <2> QED
    BY <2>1, <2>2, <2>3, <2>4, <2>5 DEF Leasing!Next
<1>3. Given /\ Unique => OffersAreUnique
  OBVIOUS
<1> HIDE DEF OffersAreUnique
<1> QED
  BY <1>1, <1>2, <1>3, PTL DEF IsLeaseServer, Leasing!Spec

\* The queue of the host: only cmd- adds to it, only the end of a do- or
\* power empties it.

\* Steps that neither store, run nor end commands.
LEMMA QueueKept ==
  ASSUME UNCHANGED <<phase, gl_cmd_msg, job, ran>>
  PROVE  UNCHANGED Batch!queueVars
BY DEF Batch!queueVars

LEMMA QueueStep ==
  ASSUME IInv, [Next]_vars
  PROVE  [Batch!Next]_(Batch!queueVars)
<1> USE DEF Batch!Next
<1>c. Control /\ Jobs
  BY DEF IInv
<1>f. Frame => phase = "countdown" /\ job = "none"
  BY <1>c, FrameIsPolled
<1>1. CASE RunNext
  <2>1. /\ phase /= "off" /\ idx <= Len(Queue) /\ job' = job /\ gl_cmd_msg' = gl_cmd_msg
        /\ ran' = IF job = "do" THEN Append(ran, Queue[idx]) ELSE ran
        /\ (phase' /= "off") \in BOOLEAN
    BY <1>1 DEF RunNext, Waits
  <2>2. CASE job = "do"
    <3>1. Queue = gl_cmd_msg /\ gl_cmd_msg \in Seq(Cmd) /\ idx \in 1..Len(gl_cmd_msg)
          /\ ran = SubSeq(gl_cmd_msg, 1, idx - 1)
      BY <1>c, <2>1, <2>2, LenProperties DEF Jobs, Queue
    <3>2. Len(ran) = idx - 1
      BY <3>1
    <3>3. Len(ran) < Len(gl_cmd_msg) /\ Queue[idx] = gl_cmd_msg[Len(ran) + 1]
      BY <3>1, <3>2
    <3>4. Batch!Run
      BY <2>1, <2>2, <3>3 DEF Batch!Run
    <3> QED
      BY <3>4
  <2>3. CASE job /= "do"
    <3>1. CASE phase' = "off"
      BY <2>1, <2>3, <3>1 DEF Batch!Off
    <3>2. CASE phase' /= "off"
      BY <2>1, <2>3, <3>2 DEF Batch!queueVars
    <3> QED
      BY <3>1, <3>2
  <2> QED
    BY <2>2, <2>3
<1>2. CASE JobEnds
  <2>1. /\ phase /= "off" /\ phase' = phase /\ idx > Len(Queue) /\ job' = "none" /\ ran' = <<>>
        /\ gl_cmd_msg' = IF job = "do" THEN <<>> ELSE gl_cmd_msg
    BY <1>2 DEF JobEnds, Waits
  <2>2. CASE job = "do"
    <3>1. Queue = gl_cmd_msg /\ gl_cmd_msg \in Seq(Cmd) /\ idx = Len(gl_cmd_msg) + 1
          /\ ran = SubSeq(gl_cmd_msg, 1, idx - 1)
      BY <1>c, <2>1, <2>2, LenProperties DEF Jobs, Queue
    <3>2. ran = gl_cmd_msg
      BY <3>1
    <3> QED
      BY <2>1, <2>2, <3>2 DEF Batch!Finish, Batch!Empty
  <2>3. CASE job /= "do"
    BY <1>c, <2>1, <2>3 DEF Batch!queueVars, Jobs
  <2> QED
    BY <2>2, <2>3
<1>3. ASSUME NEW c \in Cmd, StoreCmd(c) PROVE [Batch!Next]_(Batch!queueVars)
  <2>1. /\ phase /= "off" /\ job /= "do" /\ UNCHANGED <<phase, job, ran>>
        /\ gl_cmd_msg' = IF Room THEN Append(gl_cmd_msg, c) ELSE gl_cmd_msg
    BY <1>f, <1>3 DEF StoreCmd, history
  <2>2. CASE Room
    <3>1. Batch!Accept(c)
      BY <2>1, <2>2 DEF Batch!Accept, Room
    <3> QED
      BY <3>1
  <2>3. CASE ~Room
    BY <2>1, <2>3 DEF Batch!queueVars
  <2> QED
    BY <2>2, <2>3
<1>4. ASSUME NEW j \in {"do", "dhcp"}, Do(j) PROVE [Batch!Next]_(Batch!queueVars)
  <2>1. /\ phase /= "off" /\ job /= "do" /\ job' = j /\ UNCHANGED <<phase, gl_cmd_msg, ran>>
    BY <1>f, <1>4 DEF Do
  <2>2. CASE j = "do"
    BY <2>1, <2>2 DEF Batch!Start
  <2>3. CASE j /= "do"
    BY <2>1, <2>3 DEF Batch!queueVars
  <2> QED
    BY <2>2, <2>3
<1>5. CASE PowerUp
  BY <1>5 DEF PowerUp, Batch!PowerUp, Batch!Empty
<1>6. ASSUME phase' = "off", UNCHANGED <<gl_cmd_msg, job, ran>>
      PROVE  [Batch!Next]_(Batch!queueVars)
  BY <1>6 DEF Batch!Off
<1>7. ASSUME (phase = "off") <=> (phase' = "off"), UNCHANGED <<gl_cmd_msg, ran>>,
             (job = "do") <=> (job' = "do")
      PROVE  [Batch!Next]_(Batch!queueVars)
  BY <1>7 DEF Batch!queueVars
<1>8. CASE SecondEnds
  <2>1. phase = "countdown" /\ job = "none"
    BY <1>c, <1>8 DEF SecondEnds, Control, Polls
  <2> QED
    BY <1>7, <1>8, <2>1 DEF SecondEnds, history
<1>9. CASE FallbackEnds \/ Abort
  <2>1. phase /= "off"
    BY <1>c, <1>9 DEF FallbackEnds, Abort, Waits, Control, Polls
  <2> QED
    BY <1>7, <1>9, <2>1 DEF FallbackEnds, Abort, history
<1>10. CASE HttpdUpgrades \/ Kernel
  BY <1>6, <1>10 DEF HttpdUpgrades, Kernel, history
<1>11. ASSUME NEW c \in Cmd, UserCommand(c) PROVE [Batch!Next]_(Batch!queueVars)
  <2>1. phase' \in {phase, "off"} /\ UNCHANGED <<gl_cmd_msg, job, ran>>
    BY <1>11, CommandEnters DEF UserCommand
  <2> QED
    BY <1>6, <1>7, <2>1
<1>12. CASE Second \/ NetEnds \/ UipServed \/ UipTimeout \/ DhcpFrame \/ HttpdStartsAgain
            \/ HttpdEnds
  BY <1>12, QueueKept DEF Second, NetEnds, UipServed, UipTimeout, DhcpFrame, HttpdStartsAgain,
     HttpdEnds, history
<1>13. CASE Scan \/ CrcMatches \/ CrcDiffers
  BY <1>13, QueueKept DEF Scan, CrcMatches, CrcDiffers, history
<1>14. CASE UNCHANGED vars
  BY <1>14, QueueKept DEF vars, history
<1> QED
  BY <1>1, <1>2, <1>3, <1>4, <1>5, <1>8, <1>9, <1>10, <1>11, <1>12, <1>13, <1>14
     DEF Next, Code, Host, User

(* The upgrade protocol implements CommandQueue: between the cmd- and the  *)
(* end of the do- nothing is added to the slots, dropped from them or run  *)
(* twice, although each command may poll for frames (net.c:1279, 1290).    *)
THEOREM RunsItsQueue == Spec => IsCommandQueue
<1>1. Init => Batch!Init
  BY DEF Init, PowerOn, Batch!Init, Batch!Empty
<1>2. IInv /\ [Next]_vars => [Batch!Next]_(Batch!queueVars)
  BY QueueStep
<1> QED
  BY <1>1, <1>2, Inductive, PTL DEF Spec, IsCommandQueue, Batch!Spec
=============================================================================
