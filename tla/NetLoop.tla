------------------------------ MODULE NetLoop ------------------------------
(***************************************************************************)
(* NetLoop of net/net.c, one call after the other, with the timers, the    *)
(* ARP retries, NetStartAgain and the rotation over the ethernet devices   *)
(* of net/eth.c. The protocol (tftp, nfs, ping, sntp, ...) is abstract: it *)
(* is started, its packets make it go on, succeed, fail or start again,    *)
(* and its timer handler may fail it.                                      *)
(*                                                                         *)
(* The passes of the main loop are split where the code is: eth_rx, with   *)
(* any number of packets, then ArpTimeoutCheck, then the timer, then the   *)
(* switch on NetState.                                                     *)
(*                                                                         *)
(* Not modelled: CFG_ATHRHDR_EN (the loop that configures a switch),       *)
(* CONFIG_NETCONSOLE, boards without CONFIG_NET_MULTI.                     *)
(***************************************************************************)
EXTENDS Integers, FiniteSets

CONSTANTS
  NDev,         \* devices in the list of eth_register; eth0 is 0
  HasMac,       \* the devices with an ethernet address
  Retries,      \* values of the variable netretry: "no", "once", unset is "default"
  ProtoTime,    \* the timer of the protocol, in seconds
  StartAgainTime, \* the 10 seconds of NetStartAgain
  ArpTime,      \* ARP_TIMEOUT
  ArpCount,     \* ARP_TIMEOUT_COUNT
  InitMayFail,  \* can the init of a device fail?
  TimersExpire, \* is an answer ever so late that a timer expires?
  Burst,        \* do packets follow, in an eth_rx, one that starts again?
  MaxPackets    \* bound on the packets of one call

Dev == 0..(NDev - 1)
NoDev == NDev

ASSUME NetAssumption ==
  /\ NDev \in Nat \ {0}
  /\ HasMac \subseteq Dev
  /\ Retries \subseteq {"no", "once", "default"} /\ Retries # {}
  /\ {ProtoTime, StartAgainTime, ArpTime, ArpCount} \subseteq Nat \ {0}
  /\ {InitMayFail, TimersExpire, Burst} \subseteq BOOLEAN
  /\ MaxPackets \in Nat

VARIABLES
  pc,
  netretry,     \* the variable of the environment, set between calls
  cur, active,  \* eth_current; the devices in ETH_STATE_ACTIVE
  firstFailed,  \* first_failed, NoDev for NULL
  wrap,         \* NetRestartWrap
  restarted,    \* NetRestarted
  devExists,    \* NetDevExists
  netState,     \* NetState; NETLOOP_FAIL is "fail" or, set by a protocol, "refused"
  timer,        \* timeHandler and the seconds until it runs
  handler,      \* packetHandler: of the protocol or startAgainHandler
  arp,          \* NetArpWaitPacketIP set?, NetArpWaitTry, its timer
  packets,      \* packets received in this call
  tried,        \* devices that this call used or found unusable
  result,       \* what the last call returned
  undisturbed   \* history: none of the cases in which OnceTriesAll is lost so far

devices == <<cur, active, firstFailed, wrap>>
vars == <<pc, netretry, devices, restarted, devExists, netState, timer, handler, arp, packets, tried, result, undisturbed>>

MaxTime == IF ProtoTime > StartAgainTime THEN ProtoTime ELSE StartAgainTime

TypeOK ==
  /\ pc \in {"idle", "restart", "rx", "arp", "timer", "switch"}
  /\ netretry \in Retries
  /\ cur \in Dev
  /\ active \subseteq Dev
  /\ firstFailed \in Dev \cup {NoDev}
  /\ wrap \in BOOLEAN /\ restarted \in BOOLEAN /\ devExists \in BOOLEAN
  /\ netState \in {"continue", "restart", "success", "fail", "refused"}
  /\ timer \in [fn : {"none", "proto", "startAgain"}, left : 0..MaxTime]
  /\ handler \in {"proto", "ignore"}
  /\ arp \in [pending : BOOLEAN, try : 0..ArpCount, left : 0..ArpTime]
  /\ packets \in 0..MaxPackets
  /\ tried \subseteq Dev
  /\ result \in {"none", "ok", "fail", "refused", "timeout", "abort", "error"}
  /\ undisturbed \in BOOLEAN

-----------------------------------------------------------------------------
(* net/eth.c *)

\* Faulty variant: past the end of the list.
AfterUnbounded(d, k) == d + k
After(d, k) == (d + k) % NDev
\* Faulty variant: the one after the device taken is compared.
PassedFurther(d, k) == {After(d, i) : i \in 1..(k + 1)}
Passed(d, k) == {After(d, i) : i \in 1..k}

\* eth_init from device d with the devices in up running and those in used
\* tried: the first k fail, all of them if k is NDev.
EthInit(d, up, used, k) ==
  /\ cur' = After(d, k)
  /\ active' = up \cup (IF k < NDev THEN {After(d, k)} ELSE {})
  /\ tried' = used \cup {After(d, i) : i \in 0..(k - 1)}
Failures == IF InitMayFail THEN 0..NDev ELSE {0}

\* Faulty variant: every restart begins the rotation anew.
FirstIsCurrent == cur
\* eth_try_another(!NetRestarted): where the rotation began.
First == IF restarted THEN firstFailed ELSE cur

\* Faulty variant: the device that is made current is the one halted.
HaltsNext == active \ {After(cur, 1)}
\* eth_halt
Halted == active \ {cur}

NoTimer == [fn |-> "none", left |-> 0]
ProtoTimer == [fn |-> "proto", left |-> ProtoTime]
\* Faulty variant: no timer is set.
NotStartedAgain == NoTimer
StartAgainTimer == [fn |-> "startAgain", left |-> StartAgainTime]

\* NetRestartWrap is set by any rotation that comes to First, also by those
\* of eth_init, and stays set until here. Without a new timer, t stays.
NetStartAgain(used, t) ==
  \/ /\ netretry = "no"
     /\ active' = Halted
     /\ netState' = "fail"
     /\ timer' = t
     /\ UNCHANGED <<cur, firstFailed, wrap, handler, tried>>
  \/ /\ netretry # "no"
     /\ firstFailed' = First
     /\ wrap' = FALSE
     /\ \E k \in Failures :
          LET wrapped == wrap \/ First \in Passed(cur, k + 1)
          IN  /\ EthInit(After(cur, 1), Halted, used, k)
              /\ \/ /\ ~wrapped
                    /\ netState' = "restart"
                    /\ timer' = t /\ UNCHANGED handler
                 \/ /\ wrapped /\ devExists /\ netretry # "once"
                    /\ timer' = StartAgainTimer
                    /\ handler' = "ignore"
                    /\ UNCHANGED netState
                 \/ /\ wrapped /\ (~devExists \/ netretry = "once")
                    /\ netState' = "fail"
                    /\ timer' = t /\ UNCHANGED handler

-----------------------------------------------------------------------------
(* net/net.c *)

\* The history: has NetStartAgain not yet been called in this pass of the loop?
FirstInPass == undisturbed' = (undisturbed /\ netState = "continue")

NoArp == [pending |-> FALSE, try |-> 0, left |-> 0]
\* NetSendUDPPacket to an address that is not known yet.
ArpWait == [pending |-> TRUE, try |-> 1, left |-> ArpTime]

Init ==
  /\ pc = "idle" /\ netretry \in Retries
  /\ cur = 0 /\ active = {} /\ firstFailed = NoDev /\ wrap = FALSE
  /\ restarted = FALSE /\ devExists = FALSE
  /\ netState = "continue"
  /\ timer = NoTimer /\ handler = "proto" /\ arp = NoArp
  /\ packets = 0 /\ tried = {} /\ result = "none" /\ undisturbed = TRUE

\* The entry of NetLoop: the device that the call before left current is
\* halted, eth0 made current. eth_init never returns less than 0. The
\* timer and the handler of the call before stay.
Call ==
  /\ pc = "idle"
  /\ pc' = "restart" /\ netState' = "continue"
  /\ netretry' \in Retries
  /\ restarted' = FALSE /\ devExists' = FALSE
  /\ arp' = NoArp
  /\ packets' = 0 /\ result' = "none"
  /\ \E k \in Failures :
       /\ EthInit(0, Halted, {}, k)
       /\ wrap' = (wrap \/ firstFailed \in Passed(0, k))
       /\ undisturbed' = (undisturbed /\ k = 0)
  /\ UNCHANGED <<firstFailed, timer, handler>>

Leave(r) == pc' = "idle" /\ result' = r

\* net_check_prereq returns 0: the protocol starts on the current device,
\* with a broadcast or with a packet that waits for ARP.
Start ==
  /\ pc = "restart" /\ cur \in HasMac
  /\ pc' = "rx"
  /\ devExists' = TRUE
  /\ timer' = ProtoTimer /\ handler' = "proto"
  /\ arp' \in {arp, ArpWait}
  /\ tried' = tried \cup {cur}
  /\ UNCHANGED <<netretry, devices, restarted, netState, packets, result, undisturbed>>

\* It returns 1: there is no address to talk to.
PrereqFails ==
  /\ pc = "restart"
  /\ Leave("error")
  /\ active' = Halted
  /\ UNCHANGED <<netretry, cur, firstFailed, wrap, restarted, devExists, netState, timer, handler,
                 arp, packets, tried, undisturbed>>

\* It returns 2: the device has no address, and nothing is started on it.
NoAddress ==
  /\ pc = "restart" /\ cur \notin HasMac
  /\ pc' = "rx"
  /\ NetStartAgain(tried \cup {cur}, timer)
  /\ FirstInPass
  /\ UNCHANGED <<netretry, restarted, devExists, arp, packets, result>>

(* eth_rx *)

Receiving ==
  /\ pc = "rx" /\ packets < MaxPackets
  /\ active # {} \/ netState # "continue"
  /\ packets' = packets + 1

ArpReply ==
  /\ Receiving
  /\ arp.pending
  /\ arp' = NoArp
  /\ UNCHANGED <<pc, netretry, devices, restarted, devExists, netState, timer, handler, tried, result, undisturbed>>

\* The protocol goes on, and its timer is set anew, or it is over.
ProtoPacket ==
  /\ Receiving /\ handler = "proto"
  /\ \/ timer' = ProtoTimer /\ UNCHANGED netState
     \/ netState' \in {"success", "refused"} /\ UNCHANGED timer
  /\ UNCHANGED <<pc, netretry, devices, restarted, devExists, handler, arp, tried, result, undisturbed>>

ProtoStartsAgain ==
  /\ Receiving /\ handler = "proto"
  /\ NetStartAgain(tried, timer)
  /\ FirstInPass
  /\ pc' = IF Burst THEN "rx" ELSE "arp"
  /\ UNCHANGED <<netretry, restarted, devExists, arp, result>>

RxDone ==
  /\ pc = "rx" /\ pc' = "arp"
  /\ UNCHANGED <<netretry, devices, restarted, devExists, netState, timer, handler, arp, packets, tried, result, undisturbed>>

(* ctrl-C or Tftp_stop *)
Abort ==
  /\ pc = "arp"
  /\ Leave("abort")
  /\ active' = Halted
  /\ UNCHANGED <<netretry, cur, firstFailed, wrap, restarted, devExists, netState, timer, handler,
                 arp, packets, tried, undisturbed>>

ArpDue == arp.pending /\ arp.left = 0

\* After the last try the wait goes on: it starts to count from 0.
ArpTimeoutCheck ==
  /\ pc = "arp" /\ pc' = "timer"
  /\ \/ /\ ~ArpDue
        /\ UNCHANGED <<devices, netState, timer, handler, arp, tried, undisturbed>>
     \/ /\ ArpDue /\ arp.try + 1 < ArpCount
        /\ arp' = [arp EXCEPT !.try = @ + 1, !.left = ArpTime]
        /\ UNCHANGED <<devices, netState, timer, handler, tried, undisturbed>>
     \/ /\ ArpDue /\ arp.try + 1 >= ArpCount
        /\ arp' = [arp EXCEPT !.try = 0]
        /\ NetStartAgain(tried, timer)
        /\ FirstInPass
  /\ UNCHANGED <<netretry, restarted, devExists, packets, result>>

TimerDue == timer.fn # "none" /\ timer.left = 0

\* NetLoop returns after any handler. Some do nothing to the device
\* (TftpTimeout), some halt it (PingTimeout), BootpTimeout sets the timer
\* again or starts again.
ProtoTimeout ==
  /\ pc = "timer" /\ TimerDue /\ timer.fn = "proto"
  /\ Leave("timeout") /\ undisturbed' = FALSE
  /\ \/ /\ active' \in {active, Halted}
        /\ timer' \in {NoTimer, ProtoTimer}
        /\ UNCHANGED <<cur, firstFailed, wrap, netState, handler, tried>>
     \/ NetStartAgain(tried, NoTimer)
  /\ UNCHANGED <<netretry, restarted, devExists, arp, packets>>

StartAgainTimeout ==
  /\ pc = "timer" /\ TimerDue /\ timer.fn = "startAgain"
  /\ Leave("timeout") /\ undisturbed' = FALSE
  /\ timer' = NoTimer
  /\ netState' = "restart"
  /\ UNCHANGED <<netretry, devices, restarted, devExists, handler, arp, packets, tried>>

TimerPending ==
  /\ pc = "timer" /\ ~TimerDue
  /\ pc' = "switch"
  /\ UNCHANGED <<netretry, devices, restarted, devExists, netState, timer, handler, arp, packets, tried, result, undisturbed>>

(* The switch on NetState. *)
Continue ==
  /\ pc = "switch" /\ netState = "continue"
  /\ pc' = "rx"
  /\ UNCHANGED <<netretry, devices, restarted, devExists, netState, timer, handler, arp, packets, tried, result, undisturbed>>

Restart ==
  /\ pc = "switch" /\ netState = "restart"
  /\ pc' = "restart" /\ netState' = "continue"
  /\ restarted' = TRUE
  /\ UNCHANGED <<netretry, devices, devExists, timer, handler, arp, packets, tried, result, undisturbed>>

Succeed ==
  /\ pc = "switch" /\ netState = "success"
  /\ Leave("ok")
  /\ active' = Halted
  /\ UNCHANGED <<netretry, cur, firstFailed, wrap, restarted, devExists, netState, timer, handler,
                 arp, packets, tried, undisturbed>>

Fail ==
  /\ pc = "switch" /\ netState \in {"fail", "refused"}
  /\ Leave(netState)
  /\ UNCHANGED <<netretry, devices, restarted, devExists, netState, timer, handler, arp, packets, tried, undisturbed>>

\* A second passes.
Tick ==
  LET less(n) == IF n = 0 THEN 0 ELSE n - 1
  IN  /\ TimersExpire
      /\ pc = "rx"
      /\ timer' = [timer EXCEPT !.left = less(@)]
      /\ arp' = [arp EXCEPT !.left = less(@)]
      /\ <<timer, arp>> # <<timer', arp'>>
      /\ UNCHANGED <<pc, netretry, devices, restarted, devExists, netState, handler, packets, tried, result, undisturbed>>

Loop ==
  \/ Start \/ PrereqFails \/ NoAddress
  \/ RxDone \/ ArpTimeoutCheck \/ ProtoTimeout \/ StartAgainTimeout \/ TimerPending
  \/ Continue \/ Restart \/ Succeed \/ Fail
Packet == ArpReply \/ ProtoPacket \/ ProtoStartsAgain
Next == Call \/ Loop \/ Packet \/ Abort \/ Tick

Spec == Init /\ [][Next]_vars

\* The loop runs and time passes; nothing is assumed of calls and packets.
FairSpec == Spec /\ WF_vars(Loop) /\ SF_vars(Tick)

-----------------------------------------------------------------------------
(* The rings of all devices receive into the same NetRxPackets: no device  *)
(* but the current one is ever running, across restarts, devices that fail *)
(* to initialise and calls that return without eth_halt.                   *)
OnlyCurrentActive == active \subseteq {cur}

(* "When set to "once" the network operation will fail when all the        *)
(* available network interfaces are tried once without success": a call    *)
(* that gives up has tried every device.                                   *)
OnceTriesAll ==
  netretry = "once" /\ pc = "idle" /\ result \in {"fail", "timeout"} /\ devExists => tried = Dev

(* The same until the first call that a timer handler ends, that starts    *)
(* again twice in one pass of the loop, or that begins with a device that  *)
(* fails to initialise: the wrap flag that eth_init then sets and          *)
(* first_failed outlive their call, and so does the disturbance.           *)
UndisturbedOnceTriesAll == undisturbed => OnceTriesAll

(* The loop waits for packets only when something ends the wait: the timer *)
(* of the protocol while its packets are handled, that of NetStartAgain    *)
(* while they are ignored, whatever timer and handler the call before left *)
(* and however often NetStartAgain is called in one pass.                  *)
Armed ==
  pc \notin {"idle", "restart"} /\ netState = "continue" =>
    /\ devExists
    /\ timer.fn = IF handler = "proto" THEN "proto" ELSE "startAgain"

(* Every call returns: whatever starts again, on any device, the loop ends *)
(* with a result or in a timer that is set.                                *)
Returns == pc # "idle" ~> pc = "idle"
=============================================================================
