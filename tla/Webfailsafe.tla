---------------------------- MODULE Webfailsafe ----------------------------
(***************************************************************************)
(* The web failsafe mode: the http application of httpd/httpd.c, called by *)
(* the uIP stack (httpd/uip.c) for each of its connections, and the loop   *)
(* of NetLoopHttpd (net/net.c) that flashes what was uploaded.             *)
(*                                                                         *)
(* A connection is a slot of uip_conns with its httpd_state. The variables *)
(* of httpd.c that are not in httpd_state are shared by all connections.   *)
(* uIP passes each packet of a connection on once and in order; a packet   *)
(* of the body of a POST is one block of the uploaded file. Each upload    *)
(* has an upgrade type of its own, so that webfailsafe_upgrade_type is the *)
(* upload that set it.                                                     *)
(*                                                                         *)
(* eth_rx of these boards returns 0, so that HttpdHandler never runs: no   *)
(* connection is polled, times out or retransmits. When serverip does not  *)
(* answer, the loop goes over to another device (ArpTimeoutCheck,          *)
(* GlUpgrade); here its packets come late or never, as any may.            *)
(*                                                                         *)
(* Not modelled: CONFIG_GL_RSA, requests of several packets but uploads,   *)
(* the free() of boundary_value, which is not cleared and freed again at   *)
(* the next reset.                                                         *)
(***************************************************************************)
EXTENDS Integers, FiniteSets

CONSTANTS
  Slot,      \* the UIP_CONNS connections
  Upload,    \* the files that browsers upload
  NoUpload,
  Blocks,    \* packets of each
  Accepted,  \* the uploads whose size fits their upgrade type
  Pages,     \* packets of the longest page
  Orderly    \* do browsers begin an upload only when no other is under way or
             \* done, and send their other requests with PSH?

ASSUME WebAssumption ==
  /\ NoUpload \notin Upload
  /\ Blocks \in [Upload -> Nat \ {0, 1}]
  /\ Accepted \subseteq Upload
  /\ Pages \in Nat \ {0}
  /\ Orderly \in BOOLEAN

VARIABLES
  conn,      \* tcpstateflags, httpd_state and what is outstanding, per slot
  found,     \* data_start_found
  boundary,  \* the upload of boundary_value
  dataPtr,   \* webfailsafe_data_pointer, in blocks
  ram,       \* what was written from WEBFAILSAFE_UPLOAD_RAM_ADDRESS on
  failed,    \* webfailsafe_upload_failed
  postDone,  \* webfailsafe_post_done and uip_file_post_done, always the same
  ready,     \* webfailsafe_ready_for_upgrade
  type,      \* webfailsafe_upgrade_type, NoUpload for the default
  xferSize   \* NetBootFileXferSize, in blocks

storage == <<dataPtr, ram>>
upgrade == <<ready, type, xferSize>>
vars == <<conn, found, boundary, storage, failed, postDone, upgrade>>

\* Block 0 of an upload is a packet stored with the headers of the part.
Content == Upload \X Nat

TcpState == {"closed", "synRcvd", "established", "lastAck", "finWait", "closing", "timeWait"}
Connection ==
  [tcp : TcpState, state : {"none", "file", "upload"},
   post : Upload \cup {NoUpload}, got : Nat, out : {"no", "yes", "deaf"}, left : 0..Pages]

TypeOK ==
  /\ conn \in [Slot -> Connection]
  /\ found \in BOOLEAN
  /\ boundary \in Upload \cup {NoUpload}
  /\ dataPtr \in Nat
  /\ DOMAIN ram \subseteq Nat /\ \A i \in DOMAIN ram : ram[i] \in Content
  /\ failed \in BOOLEAN /\ postDone \in BOOLEAN /\ ready \in BOOLEAN
  /\ type \in Upload \cup {NoUpload}
  /\ xferSize \in Nat
  /\ \A c \in Slot : conn[c].state = "upload" =>
       conn[c].post \in Upload /\ conn[c].got < Blocks[conn[c].post]

-----------------------------------------------------------------------------
(* httpd.c *)

Fresh(tcp) ==
  [tcp |-> tcp, state |-> "none", post |-> NoUpload, got |-> 0, out |-> "no", left |-> 0]
Page(n) ==
  [tcp |-> "established", state |-> "file", post |-> NoUpload, got |-> 0, out |-> "yes", left |-> n]
Receiving(u, n) ==
  [tcp |-> "established", state |-> "upload", post |-> u, got |-> n, out |-> "no", left |-> 0]

Init ==
  /\ conn = [c \in Slot |-> Fresh("closed")]
  /\ found = FALSE /\ boundary = NoUpload
  /\ dataPtr = 0 /\ ram = [i \in {} |-> <<>>]
  /\ failed = FALSE /\ postDone = FALSE
  /\ ready = FALSE /\ type = NoUpload /\ xferSize = 0

\* httpd_state_reset: whichever connection it is called for, the search for
\* the data begins anew.
End(c, tcp) ==
  /\ found' = FALSE
  /\ conn' = [conn EXCEPT ![c] = Fresh(tcp)]

\* memcpy to webfailsafe_data_pointer, which was at.
Put(at, content) ==
  /\ ram' = [i \in DOMAIN ram \cup {at + 1} |-> IF i = at + 1 THEN content ELSE ram[i]]
  /\ dataPtr' = at + 1

\* Faulty variant: the size is not looked at.
FirstChunkAny(at, u) ==
  /\ found' = TRUE
  /\ type' = u
  /\ UNCHANGED failed
  /\ Put(at, <<u, 1>>)
\* httpd_findandstore_firstchunk, the part found: the first block is stored
\* even if the size is refused.
FirstChunk(at, u) ==
  /\ found' = TRUE
  /\ type' = u
  /\ failed' = (failed \/ u \notin Accepted)
  /\ Put(at, <<u, 1>>)

\* uIP drops data that has the PSH flag while the page that ends an upload
\* is not acknowledged; the browser sends it again.
Passed(psh) == ~(psh /\ postDone)

Request(c) == conn[c].tcp = "established" /\ conn[c].state = "none"
Asked(c, psh) == Request(c) /\ (Orderly => psh) /\ Passed(psh)

\* A GET is one packet. Any page answers it.
Get(c, psh) ==
  /\ Asked(c, psh)
  /\ \E n \in 1..Pages : conn' = [conn EXCEPT ![c] = Page(n)]
  /\ UNCHANGED <<found, boundary, storage, failed, postDone, upgrade>>

\* A POST of the page that sets boot_dev and saves the environment (Boot). Its
\* httpd_state_reset comes before the answer.
SetBootDev(c, psh) ==
  /\ Asked(c, psh)
  /\ found' = FALSE
  /\ \E n \in 1..Pages : conn' = [conn EXCEPT ![c] = Page(n)]
  /\ UNCHANGED <<boundary, storage, failed, postDone, upgrade>>

\* Neither GET nor POST, or a POST without length or boundary.
BadRequest(c) ==
  /\ Request(c)
  /\ End(c, "closed")
  /\ UNCHANGED <<boundary, storage, failed, postDone, upgrade>>

Alone == ~postDone /\ ~ready /\ \A d \in Slot : conn[d].state # "upload"

\* The first packet of a POST, with the first block of the file or without;
\* the type may be there without the data.
Post(c, u) ==
  /\ Request(c)
  /\ Orderly => Alone
  /\ boundary' = u
  /\ \E n \in {0, 1} :
       /\ conn' = [conn EXCEPT ![c] = Receiving(u, n)]
       /\ \/ n = 1 /\ FirstChunk(0, u)
          \/ /\ n = 0 /\ dataPtr' = 0 /\ found' = FALSE
             /\ type' \in {type, u}
             /\ UNCHANGED <<ram, failed>>
  /\ UNCHANGED <<postDone, ready, xferSize>>

Uploading(c) == conn[c].tcp = "established" /\ conn[c].state = "upload"

\* The boundary of another upload is not in the packet, nor are the headers
\* of the part but in its first.
MayFind(c) == conn[c].got = 0 /\ boundary = conn[c].post

\* Faulty variant: the connection waits for another packet.
NotFoundWaits(c) == UNCHANGED <<conn, found, type>>
NotFound(c) ==
  /\ type' \in IF MayFind(c) THEN {type, conn[c].post} ELSE {type}
  /\ End(c, "closed")

SecondPacket(c, psh) ==
  /\ Uploading(c) /\ ~found /\ Passed(psh)
  /\ \/ /\ MayFind(c)
        /\ FirstChunk(dataPtr, conn[c].post)
        /\ conn' = [conn EXCEPT ![c].got = 1]
     \/ NotFound(c) /\ UNCHANGED <<storage, failed>>
  /\ UNCHANGED <<boundary, postDone, ready, xferSize>>

\* Faulty variant: > for >=.
LastMissed(c) == conn[c].got + 1 > Blocks[conn[c].post]
\* upload >= upload_total
Last(c) == conn[c].got + 1 >= Blocks[conn[c].post]

Data(c, psh) ==
  /\ Uploading(c) /\ found /\ Passed(psh)
  /\ IF failed THEN UNCHANGED storage
     ELSE Put(dataPtr, <<conn[c].post, IF conn[c].got = 0 THEN 0 ELSE conn[c].got + 1>>)
  /\ \/ /\ ~Last(c)
        /\ conn' = [conn EXCEPT ![c].got = @ + 1]
        /\ UNCHANGED <<found, postDone, xferSize>>
     \/ /\ Last(c)
        /\ postDone' = TRUE
        /\ xferSize' = Blocks[conn[c].post]
        /\ found' = FALSE
        /\ \E n \in 1..Pages : conn' = [conn EXCEPT ![c] = Page(n)]
  /\ UNCHANGED <<boundary, failed, ready, type>>

\* uip_acked: the next packet of the page; or the end, for an upload that is
\* done and whichever page this was.
Acked(c) ==
  /\ conn[c].state = "file" /\ conn[c].out = "yes"
  /\ \/ /\ conn[c].left > 1
        /\ conn' = [conn EXCEPT ![c].left = @ - 1]
        /\ UNCHANGED <<found, failed, postDone, ready>>
     \/ /\ conn[c].left = 1
        /\ ready' = (ready \/ (postDone /\ ~failed))
        /\ failed' = (failed /\ ~postDone)
        /\ postDone' = FALSE
        /\ End(c, "finWait")
  /\ UNCHANGED <<boundary, storage, type, xferSize>>

-----------------------------------------------------------------------------
(* uip.c: the states of a connection. *)

\* found_listen: a SYN takes the slot of a connection in TIME_WAIT only when
\* there is no other, and is dropped when there is none.
Syn(c) ==
  /\ \/ conn[c].tcp = "closed"
     \/ conn[c].tcp = "timeWait" /\ \A d \in Slot : conn[d].tcp # "closed"
  /\ conn' = [conn EXCEPT ![c] = Fresh("synRcvd")]
  /\ UNCHANGED <<found, boundary, storage, failed, postDone, upgrade>>

\* A request that comes with the acknowledgement of the SYN is acknowledged
\* but never looked at.
Connect(c) ==
  /\ conn[c].tcp = "synRcvd"
  /\ End(c, "established")
  /\ UNCHANGED <<boundary, storage, failed, postDone, upgrade>>

\* A FIN closes both sides, but not while data is outstanding: then it is
\* dropped, and the acknowledgement that it carries with it.
Fin(c) ==
  /\ conn[c].tcp = "established"
  /\ \/ conn[c].out = "no" /\ End(c, "lastAck")
     \/ /\ conn[c].out = "yes"
        /\ conn' = [conn EXCEPT ![c].out = "deaf"]
        /\ UNCHANGED found
  /\ UNCHANGED <<boundary, storage, failed, postDone, upgrade>>

\* The application hears of the end of a connection a second time: when its
\* FIN is acknowledged, or when the FIN of the other side follows its own.
Closed(c) ==
  /\ \/ conn[c].tcp = "lastAck" /\ End(c, "closed")
     \/ /\ conn[c].tcp = "finWait"
        /\ \E tcp \in {"closing", "timeWait"} : End(c, tcp)
  /\ UNCHANGED <<boundary, storage, failed, postDone, upgrade>>

\* The FIN is acknowledged after that of the other side came.
TimeWait(c) ==
  /\ conn[c].tcp = "closing"
  /\ conn' = [conn EXCEPT ![c] = Fresh("timeWait")]
  /\ UNCHANGED <<found, boundary, storage, failed, postDone, upgrade>>

Rst(c) ==
  /\ conn[c].tcp # "closed"
  /\ End(c, "closed")
  /\ UNCHANGED <<boundary, storage, failed, postDone, upgrade>>

-----------------------------------------------------------------------------
(* net.c: NetLoopHttpd, which looks at webfailsafe_ready_for_upgrade when  *)
(* eth_rx has passed on all packets received.                              *)

\* HttpdStart; the variables of httpd.c stay.
Restart ==
  /\ conn' = [c \in Slot |-> Fresh("closed")]
  /\ ready' = FALSE /\ type' = NoUpload
  /\ UNCHANGED <<found, boundary, storage, failed, postDone>>

UpgradeFails == ready /\ Restart /\ xferSize' = 0

\* ctrl-C ends the mode, and the command httpd starts it again.
CtrlC == Restart /\ UNCHANGED xferSize

\* do_reset after the upgrade.
Upgraded ==
  /\ ready
  /\ conn' = [c \in Slot |-> Fresh("closed")]
  /\ found' = FALSE /\ boundary' = NoUpload
  /\ dataPtr' = 0 /\ ram' = [i \in {} |-> <<>>]
  /\ failed' = FALSE /\ postDone' = FALSE
  /\ ready' = FALSE /\ type' = NoUpload /\ xferSize' = 0

Packet(c) ==
  \/ Syn(c) \/ Connect(c) \/ BadRequest(c)
  \/ \E u \in Upload : Post(c, u)
  \/ \E psh \in BOOLEAN :
       Get(c, psh) \/ SetBootDev(c, psh) \/ SecondPacket(c, psh) \/ Data(c, psh)
  \/ Acked(c) \/ Fin(c) \/ Closed(c) \/ TimeWait(c) \/ Rst(c)
Next == (\E c \in Slot : Packet(c)) \/ UpgradeFails \/ Upgraded \/ CtrlC

Spec == Init /\ [][Next]_vars

\* A browser sends the packets of an upload, and again until they are taken.
FairSpec == Spec /\ \A c \in Slot : WF_vars(SecondPacket(c, TRUE) \/ Data(c, TRUE))

-----------------------------------------------------------------------------
(* "until upload is not completed, get back to the start of the loop":     *)
(* what do_http_upgrade flashes is one upload, whole, of a size that fits  *)
(* its type, whatever the other connections did to the variables they      *)
(* share.                                                                  *)
Complete(u) ==
  /\ type = u /\ u \in Accepted
  /\ xferSize = Blocks[u]
  /\ \A i \in 1..Blocks[u] : i \in DOMAIN ram /\ ram[i] = <<u, i>>
FlashIntact == ready => \E u \in Upload : Complete(u)

(* Every upload is answered: by a page, by a reset, or by its end.         *)
Answered == \A c \in Slot : Uploading(c) ~> ~Uploading(c)
=============================================================================
