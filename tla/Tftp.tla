-------------------------------- MODULE Tftp --------------------------------
(***************************************************************************)
(* One NetLoop(TFTP) of the boot loader: the client of net/tftp.c with the *)
(* parts of NetLoop, NetStartAgain and eth_try_another (net/net.c,         *)
(* net/eth.c) that decide how a transfer goes on, against RFC 1350 servers *)
(* and a network that delays, reorders, loses and, with Duplication,       *)
(* repeats messages.                                                       *)
(*                                                                         *)
(* The two networks are sets. With Duplication a message stays in its set  *)
(* and can arrive again whenever and as often as it likes, which also      *)
(* covers the retransmissions of a server; without, it arrives once. A     *)
(* message that never arrives is lost.                                     *)
(*                                                                         *)
(* The content of a data block is its position in the file, 1..F; the      *)
(* sequence number on the wire is that position modulo SeqSize (2^16 in    *)
(* the code). memory maps the block slots from load_addr on to the         *)
(* contents they hold.                                                     *)
(*                                                                         *)
(* Not modelled: ARP (see NetLoop), CFG_DIRECT_FLASH_TFTP, the error       *)
(* messages of STATE_TOO_LARGE and STATE_BAD_MAGIC (no code enters these   *)
(* states). TftpOurPort is drawn from a timer; each attempt is taken to    *)
(* draw a port of its own, the number of the attempt.                      *)
(***************************************************************************)
EXTENDS Integers, FiniteSets

CONSTANTS
  F,            \* blocks of the file; only the last is short
  LastLen,      \* bytes in the last block
  SeqSize,      \* TFTP_SEQUENCE_SIZE
  Session,      \* server ports, one per transfer that a server starts
  WellKnown,    \* WELL_KNOWN_PORT
  NDev,         \* ethernet devices, all of which initialise
  Retry,        \* the variable netretry: "no", "once" or unset, "default"
  TimeoutCount, \* TIMEOUT_COUNT
  Duplication,  \* may the network repeat messages?
  MayFail       \* may servers report errors, timers expire, ctrl-C be hit?

ASSUME TftpAssumption ==
  /\ F \in Nat \ {0}
  /\ LastLen \in 0..511
  /\ SeqSize \in Nat \ {0, 1}
  /\ WellKnown \notin Session
  /\ NDev \in Nat \ {0}
  /\ Retry \in {"no", "once", "default"}
  /\ TimeoutCount \in Nat
  /\ Duplication \in BOOLEAN
  /\ MayFail \in BOOLEAN

VARIABLES
  toServer, toClient,  \* the two directions of the network
  client, sent,        \* per session: the client's port, the last block sent
  state,               \* TftpState
  block, lastBlock,    \* TftpBlock, TftpLastBlock
  wrapOffset,          \* TftpBlockWrapOffset, in blocks
  ourPort, serverPort, \* TftpOurPort, TftpServerPort
  timeouts,            \* TftpTimeoutCount
  memory,
  xferSize,            \* NetBootFileXferSize
  handler,             \* packetHandler: TftpHandler or startAgainHandler
  netState,            \* NetState
  restarted,           \* NetRestarted
  dev, firstFailed,    \* eth_current, first_failed
  halted, ring,        \* the frames a halted device had already received
  result               \* what NetLoop returned

server == <<client, sent>>
transfer == <<state, block, lastBlock, wrapOffset, serverPort, memory, xferSize>>
loop == <<ourPort, timeouts, restarted, result>>
restart == <<handler, netState, dev, firstFailed, halted, ring>>
vars == <<toServer, toClient, server, transfer, loop, restart>>

Block == 1..F
Seq(n) == n % SeqSize

Len(n) == IF n = F THEN LastLen ELSE 512
\* Faulty variant: <= for <.
ShortOrFull(n) == Len(n) <= 512
Short(n) == Len(n) < 512
FileSize == (F - 1) * 512 + LastLen

Request == [type : {"RRQ", "ACK"}, port : Nat, session : Session \cup {WellKnown},
            number : 0..(SeqSize - 1)]
Reply == [type : {"OACK", "DATA", "ERROR", "NOTFOUND"}, port : Nat, session : Session,
          content : 0..F]

TypeOK ==
  /\ toServer \subseteq Request
  /\ toClient \subseteq Reply
  /\ client \in [Session -> Nat]
  /\ sent \in [Session -> -1..F]
  /\ state \in {"RRQ", "OACK", "DATA"}
  /\ block \in 0..(SeqSize - 1)
  /\ lastBlock \in 0..(SeqSize - 1)
  /\ wrapOffset \in Nat
  /\ ourPort \in Nat
  /\ serverPort \in Session \cup {WellKnown}
  /\ timeouts \in Nat
  /\ DOMAIN memory \subseteq Nat /\ \A i \in DOMAIN memory : memory[i] \in Block
  /\ xferSize \in Nat
  /\ handler \in {"tftp", "ignore"}
  /\ netState \in {"continue", "restart", "success", "fail"}
  /\ restarted \in BOOLEAN
  /\ dev \in 0..(NDev - 1)
  /\ firstFailed \in 0..(NDev - 1)
  /\ halted \in BOOLEAN
  /\ ring \subseteq Reply
  /\ result \in {"none", "success", "fail", "timeout", "abort"}

-----------------------------------------------------------------------------
(* The servers. *)

Ask(type, port, to, n) == [type |-> type, port |-> port, session |-> to, number |-> n]
Answer(type, s, n) == [type |-> type, port |-> client[s], session |-> s, content |-> n]

TakenByServer(m) == IF Duplication THEN toServer ELSE toServer \ {m}

\* A request starts a session, with an OACK or, if the server knows no
\* options, with the first block.
ServerAccepts(s) ==
  /\ sent[s] = -1
  /\ \E m \in toServer, ok \in {"OACK", "DATA"} \cup (IF MayFail THEN {"NOTFOUND"} ELSE {}) :
       LET first == IF ok = "DATA" THEN 1 ELSE 0
       IN  /\ m.type = "RRQ"
           /\ client' = [client EXCEPT ![s] = m.port]
           /\ sent' = [sent EXCEPT ![s] = first]
           /\ toServer' = TakenByServer(m)
           /\ toClient' = toClient \cup {[type |-> ok, port |-> m.port, session |-> s,
                                          content |-> first]}
  /\ UNCHANGED <<transfer, loop, restart>>

\* The acknowledgement of the last block sent, 0 for the OACK, asks for the next.
ServerContinues(s) ==
  /\ sent[s] \in 0..(F - 1)
  /\ \E m \in toServer :
       /\ m.type = "ACK" /\ m.session = s /\ m.port = client[s]
       /\ m.number = Seq(sent[s])
       /\ sent' = [sent EXCEPT ![s] = @ + 1]
       /\ toServer' = TakenByServer(m)
       /\ toClient' = toClient \cup {Answer("DATA", s, sent[s] + 1)}
  /\ UNCHANGED <<client, transfer, loop, restart>>

ServerGivesUp(s) ==
  /\ MayFail
  /\ sent[s] # -1
  /\ toClient' = toClient \cup {Answer("ERROR", s, 0)}
  /\ UNCHANGED <<toServer, server, transfer, loop, restart>>

-----------------------------------------------------------------------------
(* The client. *)

\* TftpSend, in a given state and with given TftpBlock and server port.
TftpSend(st, blk, to) ==
  toServer' = toServer \cup
    {IF st = "RRQ" THEN Ask("RRQ", ourPort, WellKnown, 0) ELSE Ask("ACK", ourPort, to, blk)}

\* What NetLoop and TftpStart set up before the main loop runs.
Init ==
  /\ toServer = {Ask("RRQ", 0, WellKnown, 0)} /\ toClient = {}
  /\ client = [s \in Session |-> 0] /\ sent = [s \in Session |-> -1]
  /\ state = "RRQ" /\ block = 0 /\ lastBlock = 0 /\ wrapOffset = 0
  /\ ourPort = 0 /\ serverPort = WellKnown /\ timeouts = 0
  /\ memory = [i \in {} |-> 0] /\ xferSize = 0
  /\ handler = "tftp" /\ netState = "continue" /\ restarted = FALSE
  /\ dev = 0 /\ firstFailed \in 0..(NDev - 1)
  /\ halted = FALSE /\ ring = {} /\ result = "none"

\* Faulty variant: a halted device goes on receiving.
DeliverableAll == toClient
\* The frames that eth_rx can still hand to NetReceive.
Deliverable == IF halted THEN ring \cap toClient ELSE toClient

\* Faulty variant: past the end of the list of devices.
RotateUnbounded ==
  LET first == IF restarted THEN firstFailed ELSE dev
  IN  [first |-> first, next |-> dev + 1, wrap |-> dev + 1 = first]
\* eth_try_another: the rotation starts at the first device that failed.
Rotate ==
  LET first == IF restarted THEN firstFailed ELSE dev
      next == (dev + 1) % NDev
  IN  [first |-> first, next |-> next, wrap |-> next = first]

\* The frames received before eth_halt stay in the ring of the driver.
NetStartAgain ==
  /\ halted' = TRUE
  /\ ring' = Deliverable
  /\ IF Retry = "no"
       THEN netState' = "fail" /\ UNCHANGED <<handler, dev, firstFailed>>
       ELSE /\ dev' = Rotate.next
            /\ firstFailed' = Rotate.first
            /\ \/ ~Rotate.wrap /\ netState' = "restart" /\ UNCHANGED handler
               \/ Rotate.wrap /\ Retry = "once" /\ netState' = "fail" /\ UNCHANGED handler
               \/ Rotate.wrap /\ Retry = "default" /\ handler' = "ignore" /\ UNCHANGED netState

\* Faulty variant: the destination port is not compared.
AcceptsAnyPort(m) ==
  /\ result = "none" /\ handler = "tftp"
  /\ m \in Deliverable
  /\ state = "RRQ" \/ m.session = serverPort
\* The checks at the head of TftpHandler.
Accepts(m) ==
  /\ result = "none" /\ handler = "tftp"
  /\ m \in Deliverable
  /\ m.port = ourPort
  /\ state = "RRQ" \/ m.session = serverPort

Taken(m) == toClient' = IF Duplication THEN toClient ELSE toClient \ {m}

ReceiveOack(m) ==
  /\ Accepts(m) /\ m.type = "OACK"
  /\ state' = "OACK"
  /\ serverPort' = m.session
  /\ TftpSend("OACK", block, m.session)
  /\ Taken(m)
  /\ UNCHANGED <<server, block, lastBlock, wrapOffset, memory, xferSize, loop, restart>>

\* store_block: slot is TftpBlock plus the offset due to wrapping.
Store(slot, n) ==
  /\ memory' = [i \in DOMAIN memory \cup {slot} |-> IF i = slot THEN n ELSE memory[i]]
  /\ LET newsize == (slot - 1) * 512 + Len(n)
     IN  xferSize' = IF xferSize < newsize THEN newsize ELSE xferSize

First == state \in {"RRQ", "OACK"}

\* Faulty variant: the offset of an earlier attempt kept.
OffsetKept(n) == wrapOffset + (IF Seq(n) = 0 THEN SeqSize ELSE 0)
\* Counted at every packet with number 0, before the duplicate check.
Offset(n) ==
  IF First THEN 0 ELSE wrapOffset + (IF Seq(n) = 0 THEN SeqSize ELSE 0)

\* Faulty variant: an old number taken for a repeated one.
NotNewer(n) == Seq(n) <= lastBlock
SameBlock(n) == Seq(n) = lastBlock

\* A block that is not the one before it: stored, acknowledged and, when
\* it is short, the end.
StoreBlock(m) ==
  /\ lastBlock' = Seq(m.content)
  /\ Store(Offset(m.content) + Seq(m.content), m.content)
  /\ TftpSend("DATA", Seq(m.content), m.session)
  /\ netState' = IF Short(m.content) THEN "success" ELSE netState
  /\ UNCHANGED <<handler, dev, firstFailed, halted, ring>>

ReceiveData(m) ==
  /\ Accepts(m) /\ m.type = "DATA"
  /\ block' = Seq(m.content)
  /\ wrapOffset' = Offset(m.content)
  /\ state' = "DATA"
  /\ serverPort' = m.session
  /\ Taken(m)
  /\ \/ /\ First /\ Seq(m.content) # 1          \* "Starting again"
        /\ lastBlock' = 0
        /\ NetStartAgain
        /\ UNCHANGED <<toServer, memory, xferSize>>
     \/ /\ ~First /\ SameBlock(m.content)        \* "Same block again; ignore it."
        /\ UNCHANGED <<toServer, lastBlock, memory, xferSize, restart>>
     \/ /\ IF First THEN Seq(m.content) = 1 ELSE ~SameBlock(m.content)
        /\ StoreBlock(m)
  /\ UNCHANGED <<server, loop>>

\* Only "File not found" ends the transfer at once.
ReceiveError(m) ==
  /\ Accepts(m) /\ m.type \in {"ERROR", "NOTFOUND"}
  /\ IF m.type = "NOTFOUND"
       THEN netState' = "fail" /\ UNCHANGED <<handler, dev, firstFailed, halted, ring>>
       ELSE NetStartAgain
  /\ Taken(m)
  /\ UNCHANGED <<toServer, server, transfer, loop>>

-----------------------------------------------------------------------------
(* The rest of the main loop of NetLoop. *)

\* The timer expires. TftpTimeout sends again while the count lasts, but
\* NetLoop returns -1 after any timer.
Timeout ==
  /\ MayFail /\ result = "none"
  /\ result' = "timeout"
  /\ IF handler = "tftp"
       THEN /\ timeouts' = timeouts + 1
            /\ IF timeouts + 1 > TimeoutCount THEN UNCHANGED toServer
               ELSE TftpSend(state, block, serverPort)
       ELSE UNCHANGED <<timeouts, toServer>>
  /\ UNCHANGED <<toClient, server, transfer, ourPort, restarted, restart>>

Abort ==
  /\ MayFail /\ result = "none"
  /\ result' = "abort"
  /\ UNCHANGED <<toServer, toClient, server, transfer, ourPort, timeouts, restarted, restart>>

\* NETLOOP_SUCCESS and NETLOOP_FAIL.
Return ==
  /\ result = "none" /\ netState \in {"success", "fail"}
  /\ result' = netState
  /\ UNCHANGED <<toServer, toClient, server, transfer, ourPort, timeouts, restarted, restart>>

\* NETLOOP_RESTART: TftpStart on the device that is now current.
TftpStart ==
  /\ result = "none" /\ netState = "restart"
  /\ ourPort' = ourPort + 1
  /\ toServer' = toServer \cup {Ask("RRQ", ourPort + 1, WellKnown, 0)}
  /\ state' = "RRQ" /\ block' = 0 /\ serverPort' = WellKnown
  /\ xferSize' = 0 /\ timeouts' = 0
  /\ handler' = "tftp" /\ netState' = "continue" /\ restarted' = TRUE
  /\ halted' = FALSE /\ ring' = {}
  /\ UNCHANGED <<toClient, server, lastBlock, wrapOffset, memory, dev, firstFailed, result>>

Server == \E s \in Session : ServerAccepts(s) \/ ServerContinues(s) \/ ServerGivesUp(s)
Receive == \E m \in toClient : ReceiveOack(m) \/ ReceiveData(m) \/ ReceiveError(m)
Next == Server \/ Receive \/ Timeout \/ Abort \/ Return \/ TftpStart

Spec == Init /\ [][Next]_vars

\* Servers answer, packets arrive and the loop runs.
FairSpec ==
  /\ Spec
  /\ WF_vars(\E s \in Session : ServerAccepts(s))
  /\ \A s \in Session : WF_vars(ServerContinues(s))
  /\ WF_vars(Receive) /\ WF_vars(Return) /\ WF_vars(TftpStart)

-----------------------------------------------------------------------------
(* When TftpHandler reports the end, the whole file is at load_addr and    *)
(* NetBootFileXferSize, which becomes the variable filesize, is its size,  *)
(* whatever arrived twice, late, in another order or from another server   *)
(* and however often the transfer started again.                           *)
Complete ==
  /\ Block \subseteq DOMAIN memory
  /\ \A n \in Block : memory[n] = n
  /\ xferSize = FileSize
TransferIntact == netState = "success" => Complete

(* No slot ever holds another block than its own, even in a transfer that  *)
(* fails: what store_block wrote never has to be undone.                   *)
NoBlockMisplaced == \A i \in DOMAIN memory : memory[i] = i

(* Over a network that repeats nothing, TftpHandler and the server that    *)
(* serves the attempt keep in step: one server at most, one message at     *)
(* most between the two, and it is what the other side waits for. The      *)
(* position in the file is the client's 16 bits and its count of laps on   *)
(* one side, the full number of the block sent last on the other; errors,  *)
(* restarts and what earlier attempts left in the network do not part them.*)
Position == IF First THEN 0 ELSE wrapOffset + block
Serving == {s \in Session : sent[s] # -1 /\ client[s] = ourPort}
Current(messages, types) == {m \in messages : m.port = ourPort /\ m.type \in types}
Lockstep ==
  result = "none" =>
    /\ \A s, t \in Serving : s = t
    /\ Serving # {} => Current(toServer, {"RRQ"}) = {}
    /\ \A m \in Current(toServer, {"ACK"}) :
         m.session \in Serving /\ sent[m.session] = Position
    /\ \A m \in Current(toClient, {"OACK", "DATA"}) :
         /\ m.session \in Serving /\ sent[m.session] = m.content
         /\ m.content = IF m.type = "OACK" THEN 0 ELSE Position + 1
         /\ Current(toServer, {"ACK"}) = {}

(* A transfer that neither ended nor waits for a restart is in somebody's  *)
(* hands: there is a message in the network that the server answers or     *)
(* that TftpHandler does not drop. Without it, with repeated blocks        *)
(* unanswered as they are, nothing but the timer would be left.            *)
Answerable(m) ==
  \/ m.type = "RRQ"
  \/ /\ m.type = "ACK" /\ m.port = client[m.session]
     /\ sent[m.session] \in 0..(F - 1) /\ m.number = Seq(sent[m.session])
NeverStalls ==
  result = "none" /\ netState = "continue" /\ handler = "tftp" =>
    \/ \E m \in toServer : m.port = ourPort /\ Answerable(m)
    \/ \E m \in toClient : Accepts(m)

(* For the caller of NetLoop the transfer is a download: see there.        *)
Caller == INSTANCE Download WITH size <- xferSize, outcome <- result
IsDownload == Caller!Spec

(* "Same block again; ignore it": a data packet with the number of the     *)
(* last one changes neither what is in memory nor where the next goes.     *)
SameBlockIgnored ==
  [][\A m \in toClient :
       ReceiveData(m) /\ ~First /\ SameBlock(m.content)
         => UNCHANGED <<memory, wrapOffset>>]_vars

(* Over a network that loses and repeats nothing, a transfer ends well     *)
(* unless a server reports an error, a timer expires or the user aborts,   *)
(* sequence numbers wrapping included.                                     *)
GivenUp ==
  result \in {"timeout", "abort"} \/ \E m \in toClient : m.type \in {"ERROR", "NOTFOUND"}
Delivered == <>(result = "success" \/ GivenUp)
=============================================================================
