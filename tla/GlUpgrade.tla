------------------------------ MODULE GlUpgrade ------------------------------
(***************************************************************************)
(* The upgrade protocol of net/net.c during the autoboot countdown, and    *)
(* the loops that its commands enter. One eth_rx polls for all of them and *)
(* NetReceive passes a frame on by global flags: to the hook of the        *)
(* upgrade protocol, which runs the commands of the host inside eth_rx, to *)
(* uIP and its DHCP server, to the web server, or to NetLoop.              *)
(*                                                                         *)
(* A host sends scan; cmd- stores a command in one of five slots; do- runs *)
(* the stored commands; dhcp starts the DHCP server; crc- ends the upgrade *)
(* when the checksum matches. Frames are lost, repeated and reordered as   *)
(* the network likes. Answers are not modelled but for what they do to the *)
(* device.                                                                 *)
(*                                                                         *)
(* Not modelled: the contents of NetLoop and of the web server (NetLoop,   *)
(* Webfailsafe), what the boot itself runs and the boot of a board that is *)
(* not calibrated (Boot), commands longer than a slot.                     *)
(***************************************************************************)
EXTENDS Dhcpd, Sequences

CONSTANTS NSlots,   \* rows of gl_cmd_msg
          Delay     \* bootdelay

ASSUME GlUpgradeAssumption == NSlots \in Nat \ {0} /\ Delay \in Nat

\* What the commands of a host come to.
Cmd == {"tftpboot", "write", "dhcpd", "httpd", "reset"}

VARIABLES
  phase,              \* where main_loop is
  loop,               \* what calls eth_rx: "none" between two loops
  left,               \* bootdelay
  gl_probe_upgrade, upgrade_listen, NetUipLoop, webfailsafe_is_running,
  gl_cmd_msg,
  job,                \* on whose behalf commands run
  idx,                \* the next of them
  active,             \* eth->state
  initFailed,         \* history: did the last eth_init fail?
  dhcpdFailed,        \* history: did a dhcpd start find no device?
  asked,              \* history: the commands stored when this do came
  ran                 \* history: the commands run by this do

flags == <<gl_probe_upgrade, upgrade_listen, NetUipLoop, webfailsafe_is_running>>
device == <<active, initFailed>>
history == <<dhcpdFailed, asked, ran>>
vars == <<dhcpdVars, phase, loop, left, flags, gl_cmd_msg, job, idx, device, history>>

Nested == {"net", "uip", "httpd"}

Queue == IF job = "do" THEN gl_cmd_msg
         ELSE IF job = "fallback" THEN <<"dhcpd", "httpd">> ELSE <<"dhcpd">>

TypeOK ==
  /\ DhcpdTypeOK
  /\ phase \in {"off", "countdown", "boot", "prompt"}
  /\ loop \in Nested \cup {"second", "probe", "listen", "none"}
  /\ left \in -1..Delay
  /\ gl_probe_upgrade \in BOOLEAN
  /\ upgrade_listen \in BOOLEAN
  /\ NetUipLoop \in BOOLEAN
  /\ webfailsafe_is_running \in BOOLEAN
  /\ gl_cmd_msg \in Seq(Cmd) /\ Len(gl_cmd_msg) <= NSlots
  /\ job \in {"none", "do", "dhcp", "fallback"}
  /\ idx \in 1..(NSlots + 3)
  /\ active \in BOOLEAN
  /\ initFailed \in BOOLEAN
  /\ dhcpdFailed \in BOOLEAN
  /\ asked \in Seq(Cmd)
  /\ ran \in Seq(Cmd)

PowerOn ==
  /\ phase = "countdown"
  /\ loop = "second"
  /\ left = Delay
  /\ gl_probe_upgrade = FALSE
  /\ upgrade_listen = FALSE
  /\ NetUipLoop = FALSE
  /\ webfailsafe_is_running = FALSE
  /\ gl_cmd_msg = <<>>
  /\ job = "none"
  /\ idx = 1
  /\ active = FALSE
  /\ initFailed = FALSE
  /\ dhcpdFailed = FALSE
  /\ asked = <<>>
  /\ ran = <<>>

Init == DhcpdStart /\ PowerOn

-----------------------------------------------------------------------------
\* eth_init: the device runs, or goes on as it was.
EthInit(ok) == active' = (active \/ ok) /\ initFailed' = ~ok

\* Faulty variant: the device is not looked at.
SendAnyway == UNCHANGED device
\* gl_upgrade_send_msg starts a device that a command has halted.
gl_upgrade_send_msg ==
  IF active THEN UNCHANGED device ELSE \E ok \in BOOLEAN : EthInit(ok)

\* Where the countdown goes on after an eth_rx.
Polling(probe, listen) == IF probe /\ listen THEN "listen" ELSE "probe"

\* NetReceive.
Receiver ==
  IF gl_probe_upgrade THEN "upgrade"
  ELSE IF NetUipLoop THEN "uip"
  ELSE IF webfailsafe_is_running THEN "httpd" ELSE "net"

\* abortboot: each second begins with gl_set_uip_info.
Second ==
  /\ loop = "second"
  /\ \E ok \in BOOLEAN :
       /\ EthInit(ok)
       /\ gl_probe_upgrade' = ok
       /\ loop' = Polling(ok, upgrade_listen)
  /\ UNCHANGED <<dhcpdVars, phase, left, upgrade_listen, NetUipLoop,
                 webfailsafe_is_running, gl_cmd_msg, job, idx, history>>

\* The boot looks for a server on the network and halts the device before it
\* loads a kernel.
HaltForBoot == active' = FALSE /\ initFailed' \in BOOLEAN

SecondEnds ==
  /\ loop = "probe"
  /\ left' = left - 1
  /\ IF left > 0
       THEN loop' = "second" /\ UNCHANGED <<phase, gl_probe_upgrade, job, idx, device>>
       ELSE /\ phase' = "boot"
            /\ loop' = "none"
            /\ gl_probe_upgrade' = FALSE
            /\ job' = "fallback"
            /\ idx' = 1
            /\ HaltForBoot
  /\ UNCHANGED <<dhcpdVars, upgrade_listen, NetUipLoop, webfailsafe_is_running,
                 gl_cmd_msg, history>>

\* "gl" is typed.
Abort ==
  /\ loop = "probe"
  /\ phase' = "prompt"
  /\ loop' = "none"
  /\ gl_probe_upgrade' = FALSE
  /\ active' = FALSE
  /\ UNCHANGED <<dhcpdVars, left, upgrade_listen, NetUipLoop,
                 webfailsafe_is_running, gl_cmd_msg, job, idx, initFailed,
                 history>>

\* A kernel starts and the board is reset one day.
Kernel ==
  /\ phase = "boot"
  /\ loop = "none"
  /\ idx = 1
  /\ phase' = "off"
  /\ UNCHANGED <<dhcpdVars, loop, left, flags, gl_cmd_msg, job, idx, device,
                 history>>

PowerUp ==
  /\ phase = "off"
  /\ phase' = "countdown"
  /\ loop' = "second"
  /\ left' = Delay
  /\ gl_probe_upgrade' = FALSE
  /\ upgrade_listen' = FALSE
  /\ NetUipLoop' = FALSE
  /\ webfailsafe_is_running' = FALSE
  /\ gl_cmd_msg' = <<>>
  /\ job' = "none"
  /\ idx' = 1
  /\ active' = FALSE
  /\ initFailed' = FALSE
  /\ dhcpdFailed' = FALSE
  /\ asked' = <<>>
  /\ ran' = <<>>
  /\ leases' = EmptyList
  /\ free' = {}
  /\ kept' = {}
  /\ dhcpd_end' = FALSE
  /\ offered' = [k \in Key |-> NoAddr]
  /\ acked' = {}

-----------------------------------------------------------------------------
\* A frame reaches the hook of the upgrade protocol, whatever loop polls.
Frame ==
  /\ loop \in Nested \cup {"probe", "listen"}
  /\ active
  /\ Receiver = "upgrade"

Scan ==
  /\ Frame
  /\ upgrade_listen' = TRUE
  /\ loop' = IF loop = "probe" THEN "listen" ELSE loop
  /\ IF upgrade_listen THEN UNCHANGED device ELSE gl_upgrade_send_msg
  /\ UNCHANGED <<dhcpdVars, phase, left, gl_probe_upgrade, NetUipLoop,
                 webfailsafe_is_running, gl_cmd_msg, job, idx, history>>

\* Faulty variant: one row too many.
RoomLate == Len(gl_cmd_msg) <= NSlots
Room == Len(gl_cmd_msg) < NSlots

StoreCmd(c) ==
  /\ Frame
  /\ IF Room
       THEN gl_cmd_msg' = Append(gl_cmd_msg, c)
       ELSE UNCHANGED gl_cmd_msg
  /\ gl_upgrade_send_msg
  /\ UNCHANGED <<dhcpdVars, phase, loop, left, flags, job, idx, history>>

\* Faulty variant: the hook is entered again while commands run.
DoOpen(j) ==
  /\ Frame
  /\ job' = j
  /\ idx' = 1
  /\ loop' = "none"
  /\ asked' = gl_cmd_msg
  /\ UNCHANGED <<dhcpdVars, phase, left, flags, gl_cmd_msg, device, dhcpdFailed, ran>>

\* do- and dhcp: commands run in the hook, with gl_probe_upgrade cleared.
Do(j) ==
  /\ Frame
  /\ job' = j
  /\ idx' = 1
  /\ loop' = "none"
  /\ gl_probe_upgrade' = FALSE
  /\ asked' = gl_cmd_msg
  /\ UNCHANGED <<dhcpdVars, phase, left, upgrade_listen, NetUipLoop,
                 webfailsafe_is_running, gl_cmd_msg, device, dhcpdFailed, ran>>

\* Faulty variant: the match is answered but the upgrade goes on.
CrcIgnored ==
  /\ Frame
  /\ gl_upgrade_send_msg
  /\ UNCHANGED <<dhcpdVars, phase, loop, left, flags, gl_cmd_msg, job, idx, history>>

\* crc-: upgrade_listen is cleared; gl_probe_upgrade too, but NetReceive sets
\* it again after the hook.
CrcMatches ==
  /\ Frame
  /\ gl_upgrade_send_msg
  /\ upgrade_listen' = FALSE
  /\ loop' = IF loop = "listen" THEN "probe" ELSE loop
  /\ UNCHANGED <<dhcpdVars, phase, left, gl_probe_upgrade, NetUipLoop,
                 webfailsafe_is_running, gl_cmd_msg, job, idx, history>>

CrcDiffers ==
  /\ Frame
  /\ gl_upgrade_send_msg
  /\ UNCHANGED <<dhcpdVars, phase, loop, left, flags, gl_cmd_msg, job, idx, history>>

-----------------------------------------------------------------------------
\* Commands run between two loops: those of the slots, a dhcpd start, what a
\* boot falls back to, or one that the user types.
Waits == loop = "none" /\ phase /= "off"

Tftpboot ==
  /\ \E ok \in BOOLEAN : active' = ok /\ initFailed' = ~ok
  /\ loop' = "net"
  /\ UNCHANGED <<dhcpdVars, phase, flags, dhcpdFailed>>

\* gl_uip_command and uip_main up to its loop. NetUipLoop stays set when no
\* device can be started or ctrl-C ends the attempts.
DhcpdCommand ==
  /\ dhcpd_end' = FALSE
  /\ NetUipLoop' = TRUE
  /\ \/ EthInit(TRUE) /\ dhcpdFailed' = FALSE /\ loop' = "uip" /\ dhcpd_init
     \/ /\ active' \in {active, FALSE} /\ initFailed' = TRUE /\ dhcpdFailed' = TRUE
        /\ UNCHANGED <<loop, leases, free, kept, offered, acked>>
  /\ UNCHANGED <<phase, gl_probe_upgrade, upgrade_listen, webfailsafe_is_running>>

\* NetLoopHttpd up to its loop.
HttpdCommand ==
  /\ dhcpd_end' = FALSE
  /\ NetUipLoop' = FALSE
  /\ dhcpdFailed' = FALSE
  /\ \E ok \in BOOLEAN :
       /\ active' = ok
       /\ initFailed' = ~ok
       /\ IF ok THEN loop' = "httpd" /\ webfailsafe_is_running' = TRUE
                ELSE UNCHANGED <<loop, webfailsafe_is_running>>
  /\ UNCHANGED <<leases, free, kept, offered, acked, phase, gl_probe_upgrade,
                 upgrade_listen>>

run_command(c) ==
  \/ c = "tftpboot" /\ Tftpboot
  \/ c = "dhcpd" /\ DhcpdCommand
  \/ c = "httpd" /\ HttpdCommand
  \/ c = "write" /\ UNCHANGED <<dhcpdVars, phase, loop, flags, device, dhcpdFailed>>
  \/ c = "reset" /\ phase' = "off"
                 /\ UNCHANGED <<dhcpdVars, loop, flags, device, dhcpdFailed>>

RunNext ==
  /\ Waits
  /\ job \in {"do", "dhcp", "fallback"}
  /\ idx <= Len(Queue)
  /\ run_command(Queue[idx])
  /\ idx' = idx + 1
  /\ ran' = IF job = "do" THEN Append(ran, Queue[idx]) ELSE ran
  /\ UNCHANGED <<left, gl_cmd_msg, job, asked>>

\* The end of a do- or dhcp: the slots are cleared by do- only, the answer
\* starts a halted device, and NetReceive sets gl_probe_upgrade again.
JobEnds ==
  /\ Waits
  /\ job \in {"do", "dhcp"}
  /\ idx > Len(Queue)
  /\ gl_cmd_msg' = IF job = "do" THEN <<>> ELSE gl_cmd_msg
  /\ gl_upgrade_send_msg
  /\ gl_probe_upgrade' = TRUE
  /\ loop' = Polling(TRUE, upgrade_listen)
  /\ job' = "none"
  /\ idx' = 1
  /\ asked' = <<>>
  /\ ran' = <<>>
  /\ UNCHANGED <<dhcpdVars, phase, left, upgrade_listen, NetUipLoop,
                 webfailsafe_is_running, dhcpdFailed>>

FallbackEnds ==
  /\ Waits
  /\ job = "fallback"
  /\ idx > Len(Queue)
  /\ phase' = "prompt"
  /\ job' = "none"
  /\ idx' = 1
  /\ UNCHANGED <<dhcpdVars, loop, left, flags, gl_cmd_msg, device, history>>

UserCommand(c) ==
  /\ Waits
  /\ phase = "prompt"
  /\ run_command(c)
  /\ UNCHANGED <<left, gl_cmd_msg, job, idx, asked, ran>>

-----------------------------------------------------------------------------
\* NetLoop returns: with its device halted (success, ctrl-C) or not (a timer,
\* an error), and perhaps after a restart on another one (NetStartAgain).
NetEnds ==
  /\ loop = "net"
  /\ loop' = "none"
  /\ \/ active' \in {FALSE, active} /\ UNCHANGED initFailed
     \/ active /\ \E ok \in BOOLEAN : active' \in {FALSE, ok} /\ initFailed' = ~ok
  /\ UNCHANGED <<dhcpdVars, phase, left, flags, gl_cmd_msg, job, idx, history>>

DhcpFrame ==
  /\ loop = "uip"
  /\ active
  /\ Receiver = "uip"
  /\ ~dhcpd_end
  /\ \E k \in Key : dhcpd_relay_offer(k) \/ dhcpd_replay_ask(k)
  /\ UNCHANGED <<phase, loop, left, flags, gl_cmd_msg, job, idx, device, history>>

\* Faulty variant: the timeout returns as a failed start does.
UipTimeoutDirty ==
  /\ loop = "uip"
  /\ loop' = "none"
  /\ dhcpd_end' = FALSE
  /\ active' = FALSE
  /\ UNCHANGED <<leases, free, kept, offered, acked, phase, left, flags,
                 gl_cmd_msg, job, idx, initFailed, history>>

\* The periodic timer after an ACK, which leaves the device running.
UipServed ==
  /\ loop = "uip"
  /\ dhcpd_end
  /\ loop' = "none"
  /\ dhcpd_end' = FALSE
  /\ NetUipLoop' = FALSE
  /\ UNCHANGED <<leases, free, kept, offered, acked, phase, left,
                 gl_probe_upgrade, upgrade_listen, webfailsafe_is_running,
                 gl_cmd_msg, job, idx, device, history>>

\* Twenty seconds, or ctrl-C, which leaves dhcpd_end as it is.
UipTimeout ==
  /\ loop = "uip"
  /\ loop' = "none"
  /\ dhcpd_end' \in {FALSE, dhcpd_end}
  /\ NetUipLoop' = FALSE
  /\ active' = FALSE
  /\ UNCHANGED <<leases, free, kept, offered, acked, phase, left,
                 gl_probe_upgrade, upgrade_listen, webfailsafe_is_running,
                 gl_cmd_msg, job, idx, initFailed, history>>

\* serverip does not answer: NetStartAgain in the loop of the web server, which
\* polls on, with netretry=no on a halted device.
HttpdStartsAgain ==
  /\ loop = "httpd"
  /\ phase /= "off"
  /\ \/ active' = FALSE /\ UNCHANGED initFailed
     \/ \E ok \in BOOLEAN : active' = ok /\ initFailed' = ~ok
  /\ UNCHANGED <<dhcpdVars, phase, loop, left, flags, gl_cmd_msg, job, idx,
                 history>>

\* ctrl-C, or a failed upgrade after which no device can be started.
HttpdEnds ==
  /\ loop = "httpd"
  /\ phase /= "off"
  /\ loop' = "none"
  /\ webfailsafe_is_running' = FALSE
  /\ active' = FALSE
  /\ UNCHANGED <<dhcpdVars, phase, left, gl_probe_upgrade, upgrade_listen,
                 NetUipLoop, gl_cmd_msg, job, idx, initFailed, history>>

\* The web server has flashed an upload.
HttpdUpgrades ==
  /\ loop = "httpd"
  /\ phase' = "off"
  /\ UNCHANGED <<dhcpdVars, loop, left, flags, gl_cmd_msg, job, idx, device,
                 history>>

Host == \/ Scan \/ CrcMatches \/ CrcDiffers \/ DhcpFrame
        \/ \E c \in Cmd : StoreCmd(c)
        \/ \E j \in {"do", "dhcp"} : Do(j)

Code == \/ Second \/ RunNext \/ JobEnds \/ FallbackEnds
        \/ NetEnds \/ UipServed \/ UipTimeout

User == \/ Abort \/ HttpdEnds \/ HttpdUpgrades \/ Kernel \/ PowerUp
        \/ \E c \in Cmd : UserCommand(c)

Next == Code \/ SecondEnds \/ HttpdStartsAgain \/ Host \/ User

Spec == Init /\ [][Next]_vars
\* The code goes on; there are a hundred polls in a second, not infinitely many.
FairSpec == Spec /\ WF_vars(Code) /\ SF_vars(SecondEnds)

-----------------------------------------------------------------------------
\* A do runs the commands that were accepted, each once and in their order,
\* although the commands themselves poll for frames (net.c:1383).
RunsWhatWasAccepted ==
  job = "do" => gl_cmd_msg = asked /\ ran = SubSeq(asked, 1, idx - 1)

\* To the host the protocol is a queue of commands: see there.
Batch == INSTANCE CommandQueue
  WITH Command <- Cmd, Size <- NSlots, on <- phase /= "off", queue <- gl_cmd_msg,
       running <- job = "do", ran <- ran
IsCommandQueue == Batch!Spec

\* To its clients the DHCP server keeps what LeaseServer promises, although
\* its list may lose leases and starts with what malloc left in the head.
Leasing == INSTANCE LeaseServer
  WITH Client <- Key, Address <- Addr, None <- NoAddr,
       offers <- offered, given <- Addr \ free, bound <- acked
IsLeaseServer == Leasing!Spec

\* A loop gets the frames it polls for, whatever loops ran before it in any
\* order, unless a dhcpd start found no device and left NetUipLoop set.
Dispatch == loop \in Nested /\ ~dhcpdFailed => Receiver = loop

\* Nobody listens with a halted device, whatever the commands of the host did
\* to it, unless the device cannot be started.
Heard == loop = "listen" /\ ~active => initFailed

\* The countdown ends if the host ends each session with a checksum that
\* matches, the device can be started and the web server is not.
CountdownEnds ==
  SF_vars(CrcMatches) /\ [](loop = "httpd" => phase /= "countdown")
    /\ [](loop = "listen" => active)
    => <>(phase /= "countdown")
=============================================================================
