----------------------------- MODULE TftpProofs -----------------------------
(***************************************************************************)
(* TransferIntact for every file of fewer blocks than sequence numbers,    *)
(* every number of servers and devices and every setting of netretry, over *)
(* a network that repeats and reorders at will.                            *)
(*                                                                         *)
(* A server sends block n + 1 when block n was acknowledged, and the       *)
(* client acknowledges what it stored: so a block that can still reach the *)
(* current attempt follows blocks that are all in memory, and when the     *)
(* short block comes, the file is complete. The one exception is an OACK   *)
(* after a first block other than 1: it makes TftpSend acknowledge a block *)
(* that was not stored. By then the device is halted, and nothing the      *)
(* server sends in answer is in its ring: the invariant holds of the       *)
(* acknowledgements only while the device runs (Acknowledged), and of what *)
(* is left in the ring when it does not (Left).                            *)
(***************************************************************************)
EXTENDS Tftp, TLAPS

Left == IF halted THEN ring ELSE toClient

(* The first n blocks, received in this attempt.                           *)
Stored(n) == Caller!Received(n)

(* The attempts number the ports, and no message is ahead of them. *)
PortsUsed ==
  /\ \A m \in toServer : m.port <= ourPort
  /\ \A m \in toClient : m.port <= ourPort
  /\ \A s \in Session : client[s] <= ourPort

DataInOrder ==
  \A m \in Left : m.type = "DATA" /\ m.port = ourPort
                    => m.content \in Block /\ Stored(m.content - 1)

Acknowledged ==
  ~halted => /\ Stored(block)
             /\ \A m \in toServer : m.type = "ACK" /\ m.port = ourPort => Stored(m.number)

DataIsBlock == \A m \in toClient : m.type = "DATA" => m.content \in Block

SizeBounded == xferSize <= FileSize

InPlace == wrapOffset = 0 /\ \A i \in DOMAIN memory : memory[i] = i

LastStored == First \/ lastBlock = 0 \/ Stored(lastBlock)

Inv ==
  /\ LastStored
  /\ TypeOK /\ PortsUsed /\ DataInOrder /\ Acknowledged /\ DataIsBlock
  /\ SizeBounded /\ InPlace /\ TransferIntact

(* A number below the modulus is its own remainder. *)
LEMMA Remainder ==
  ASSUME NEW k \in Nat, NEW n \in Nat \ {0}
  PROVE  k % n \in 0..(n - 1) /\ (k < n => k % n = k)
OBVIOUS

LEMMA SeqType == \A n \in 0..F : Seq(n) \in 0..(SeqSize - 1) /\ (F < SeqSize => Seq(n) = n)
<1>1. SUFFICES ASSUME NEW n \in 0..F
               PROVE Seq(n) \in 0..(SeqSize - 1) /\ (F < SeqSize => Seq(n) = n)
  OBVIOUS
<1>2. n \in Nat /\ SeqSize \in Nat \ {0} /\ (F < SeqSize => n < SeqSize)
  BY TftpAssumption
<1>. QED
  BY <1>2, Remainder DEF Seq

(* NetStartAgain keeps the types of what it changes. *)
LEMMA StartAgainType ==
  ASSUME TypeOK, NetStartAgain
  PROVE  /\ halted' \in BOOLEAN /\ ring' \subseteq toClient
         /\ netState' \in {"continue", "restart", "success", "fail"}
         /\ handler' \in {"tftp", "ignore"}
         /\ dev' \in 0..(NDev - 1) /\ firstFailed' \in 0..(NDev - 1)
<1>1. halted' = TRUE /\ ring' \subseteq toClient
  BY DEF NetStartAgain, Deliverable
<1>2. Rotate.next \in 0..(NDev - 1) /\ Rotate.first \in 0..(NDev - 1)
  <2>1. dev + 1 \in Nat /\ NDev \in Nat \ {0}
    BY TftpAssumption DEF TypeOK
  <2>. QED
    BY <2>1, Remainder DEF TypeOK, Rotate
<1>3. CASE Retry = "no"
  BY <1>1, <1>3 DEF NetStartAgain, TypeOK
<1>4. CASE Retry # "no"
  BY <1>1, <1>2, <1>4 DEF NetStartAgain, TypeOK
<1>. QED
  BY <1>3, <1>4

(* What TftpSend puts on the network is a request. *)
LEMMA SendType ==
  ASSUME TypeOK, NEW st, NEW blk \in 0..(SeqSize - 1), NEW to \in Session \cup {WellKnown},
         TftpSend(st, blk, to)
  PROVE  toServer' \subseteq Request
<1>1. 0 \in 0..(SeqSize - 1)
  BY TftpAssumption
<1>. QED
  BY <1>1 DEF TypeOK, TftpSend, Ask, Request

LEMMA StoreType ==
  ASSUME TypeOK, NEW slot \in Nat, NEW n \in Block, Store(slot, n)
  PROVE  /\ DOMAIN memory' \subseteq Nat /\ \A i \in DOMAIN memory' : memory'[i] \in Block
         /\ xferSize' \in Nat
<1>1. DOMAIN memory' \subseteq Nat /\ \A i \in DOMAIN memory' : memory'[i] \in Block
  BY DEF TypeOK, Store
<1>2. xferSize' \in Int /\ xferSize' >= xferSize
  BY TftpAssumption DEF TypeOK, Store, Len
<1>. QED
  BY <1>1, <1>2 DEF TypeOK

LEMMA TypeInit == Init => TypeOK /\ DataIsBlock
<1>1. 0 \in 0..(SeqSize - 1) /\ 0 \in 0..(NDev - 1) /\ -1 \in -1..F
  BY TftpAssumption
<1>. SUFFICES ASSUME Init PROVE TypeOK /\ DataIsBlock
  OBVIOUS
<1>2. toServer \subseteq Request /\ toClient = {}
  BY <1>1 DEF Init, Ask, Request
<1>3. client \in [Session -> Nat] /\ sent \in [Session -> -1..F]
  BY <1>1 DEF Init
<1>4. DOMAIN memory \subseteq Nat /\ \A i \in DOMAIN memory : memory[i] \in Block
  BY DEF Init
<1>. QED
  BY <1>1, <1>2, <1>3, <1>4 DEF Init, TypeOK, DataIsBlock

LEMMA TypeStep == TypeOK /\ DataIsBlock /\ [Next]_vars => TypeOK' /\ DataIsBlock'
<1>. SUFFICES ASSUME TypeOK, DataIsBlock, [Next]_vars PROVE TypeOK' /\ DataIsBlock'
  OBVIOUS
<1>1. 0 \in 0..(SeqSize - 1) /\ 1 \in Block /\ F \in Nat
  BY TftpAssumption DEF Block
<1>2. ASSUME NEW s \in Session, ServerAccepts(s) PROVE TypeOK' /\ DataIsBlock'
  BY <1>1, <1>2 DEF TypeOK, DataIsBlock, ServerAccepts, TakenByServer, Request, Reply, Block,
     transfer, loop, restart
<1>3. ASSUME NEW s \in Session, ServerContinues(s) PROVE TypeOK' /\ DataIsBlock'
  <2>1. sent[s] + 1 \in Block /\ sent[s] + 1 \in -1..F /\ sent[s] + 1 \in 0..F
    BY <1>1, <1>3 DEF ServerContinues, Block
  <2>2. toClient' = toClient \cup {Answer("DATA", s, sent[s] + 1)} /\ toServer' \subseteq toServer
    BY <1>3 DEF ServerContinues, TakenByServer
  <2>3. Answer("DATA", s, sent[s] + 1) \in Reply
    BY <2>1 DEF TypeOK, Answer, Reply
  <2>4. sent' \in [Session -> -1..F]
    BY <2>1, <1>3 DEF ServerContinues, TypeOK
  <2>5. DataIsBlock'
    BY <2>1, <2>2 DEF DataIsBlock, Answer
  <2>. QED
    BY <1>3, <2>2, <2>3, <2>4, <2>5 DEF TypeOK, ServerContinues, transfer, loop, restart
<1>4. ASSUME NEW s \in Session, ServerGivesUp(s) PROVE TypeOK' /\ DataIsBlock'
  BY <1>1, <1>4 DEF TypeOK, DataIsBlock, ServerGivesUp, Answer, Reply, server, transfer, loop, restart
<1>5. ASSUME NEW m \in toClient, ReceiveOack(m) PROVE TypeOK' /\ DataIsBlock'
  <2>1. m.session \in Session /\ toClient' \subseteq toClient
    BY <1>5 DEF TypeOK, Reply, ReceiveOack, Taken
  <2>2. toServer' \subseteq Request
    BY <1>5, <2>1, SendType DEF TypeOK, ReceiveOack
  <2>. QED
    BY <1>5, <2>1, <2>2 DEF TypeOK, DataIsBlock, ReceiveOack, server, loop, restart
<1>6. ASSUME NEW m \in toClient, ReceiveData(m) PROVE TypeOK' /\ DataIsBlock'
  <2>1. m.session \in Session /\ toClient' \subseteq toClient /\ m.content \in Block
    BY <1>6 DEF TypeOK, DataIsBlock, Reply, ReceiveData, Taken
  <2>2. Seq(m.content) \in 0..(SeqSize - 1)
    BY <2>1, <1>1, SeqType DEF Block
  <2>3. Offset(m.content) \in Nat
    BY TftpAssumption DEF TypeOK, Offset
  <2>4. CASE NetStartAgain /\ lastBlock' = 0 /\ UNCHANGED <<toServer, memory, xferSize>>
    BY <1>1, <1>6, <2>1, <2>2, <2>3, <2>4, StartAgainType
       DEF TypeOK, DataIsBlock, ReceiveData, server, loop
  <2>5. CASE UNCHANGED <<toServer, lastBlock, memory, xferSize, restart>>
    BY <1>6, <2>1, <2>2, <2>3, <2>5 DEF TypeOK, DataIsBlock, ReceiveData, server, loop, restart
  <2>6. CASE StoreBlock(m)
    <3>1. toServer' \subseteq Request
      BY <2>1, <2>2, <2>6, SendType DEF StoreBlock
    <3>2. Offset(m.content) + Seq(m.content) \in Nat
      BY <2>2, <2>3, TftpAssumption
    <3>3. /\ DOMAIN memory' \subseteq Nat /\ \A i \in DOMAIN memory' : memory'[i] \in Block
          /\ xferSize' \in Nat
      BY <2>1, <2>6, <3>2, StoreType DEF StoreBlock
    <3>. QED
      BY <1>6, <2>1, <2>2, <2>3, <2>6, <3>1, <3>3
         DEF TypeOK, DataIsBlock, ReceiveData, StoreBlock, server, loop
  <2>. QED
    BY <1>6, <2>4, <2>5, <2>6 DEF ReceiveData
<1>7. ASSUME NEW m \in toClient, ReceiveError(m) PROVE TypeOK' /\ DataIsBlock'
  <2>1. toClient' \subseteq toClient
    BY <1>7 DEF ReceiveError, Taken
  <2>2. CASE NetStartAgain
    BY <1>7, <2>1, <2>2, StartAgainType DEF TypeOK, DataIsBlock, ReceiveError, server, transfer, loop
  <2>3. CASE ~NetStartAgain
    BY <1>7, <2>1, <2>3 DEF TypeOK, DataIsBlock, ReceiveError, server, transfer, loop
  <2>. QED
    BY <2>2, <2>3
<1>8. CASE Timeout
  <2>1. toServer' \subseteq Request
    BY <1>8, SendType DEF Timeout, TypeOK
  <2>. QED
    BY <1>8, <2>1 DEF TypeOK, DataIsBlock, Timeout, server, transfer, restart
<1>9. CASE Abort
  BY <1>9 DEF TypeOK, DataIsBlock, Abort, server, transfer, restart
<1>10. CASE Return
  BY <1>10 DEF TypeOK, DataIsBlock, Return, server, transfer, restart
<1>11. CASE TftpStart
  <2>1. Ask("RRQ", ourPort + 1, WellKnown, 0) \in Request
    BY <1>1 DEF TypeOK, Ask, Request
  <2>2. toServer' \subseteq Request
    BY <1>11, <2>1 DEF TypeOK, TftpStart
  <2>3. /\ ourPort' \in Nat /\ block' \in 0..(SeqSize - 1) /\ timeouts' \in Nat /\ xferSize' \in Nat
        /\ state' = "RRQ" /\ serverPort' = WellKnown /\ ring' = {} /\ restarted' = TRUE
        /\ halted' = FALSE /\ handler' = "tftp" /\ netState' = "continue"
    BY <1>1, <1>11 DEF TypeOK, TftpStart
  <2>. QED
    BY <1>11, <2>2, <2>3 DEF TypeOK, DataIsBlock, TftpStart, server
<1>12. CASE UNCHANGED vars
  BY <1>12 DEF TypeOK, DataIsBlock, vars, server, transfer, loop, restart
<1>. QED
  BY <1>2, <1>3, <1>4, <1>5, <1>6, <1>7, <1>8, <1>9, <1>10, <1>11, <1>12
     DEF Next, Server, Receive

(* Every variable keeps its type, wrapping sequence numbers included. *)
THEOREM TypeCorrect == Spec => []TypeOK
<1>. QED
  BY TypeInit, TypeStep, PTL DEF Spec

-----------------------------------------------------------------------------
LEMMA FileSizeNat == FileSize \in Nat /\ (\A n \in Block : (n - 1) * 512 + Len(n) \in Nat
                                                        /\ (n - 1) * 512 + Len(n) <= FileSize)
  BY TftpAssumption DEF FileSize, Block, Len

(* What is in memory stays there, so that Stored grows within an attempt. *)
LEMMA StoredGrows ==
  ASSUME TypeOK, TypeOK', DOMAIN memory \subseteq DOMAIN memory', xferSize <= xferSize'
  PROVE  \A n \in Nat : Stored(n) => Stored(n)'
<1>1. \A n \in Nat : Caller!Bytes(n) \in Int /\ Caller!Bytes(n)' = Caller!Bytes(n)
  BY TftpAssumption DEF Caller!Bytes
<1>. QED
  BY <1>1 DEF TypeOK, Stored, Caller!Received

LEMMA StoredKept ==
  ASSUME UNCHANGED <<memory, xferSize>>
  PROVE  \A n : Stored(n)' <=> Stored(n)
BY DEF Stored, Caller!Received, Caller!Bytes

LEMMA NothingStored == TypeOK => Stored(0)
BY TftpAssumption DEF TypeOK, Stored, Caller!Received, Caller!Bytes

(* A step that changes neither the client nor what it can still receive. *)
LEMMA ServerStep ==
  ASSUME Inv, TypeOK', DataIsBlock', UNCHANGED <<transfer, loop, restart>>, PortsUsed',
         toServer' \subseteq toServer,
         \A m \in toClient' \ toClient :
           ~halted /\ m.type = "DATA" /\ m.port = ourPort
             => m.content \in Block /\ Stored(m.content - 1)
  PROVE  Inv'
<1>1. UNCHANGED <<state, block, lastBlock, wrapOffset, memory, xferSize, ourPort, netState, halted, ring>>
  BY DEF transfer, loop, restart
<1>2. \A n : Stored(n)' <=> Stored(n)
  BY <1>1, StoredKept
<1>3. DataInOrder'
  BY <1>1, <1>2 DEF Inv, DataInOrder, Left
<1>4. Acknowledged'
  BY <1>1, <1>2 DEF Inv, Acknowledged
<1>. QED
  BY <1>1, <1>2, <1>3, <1>4
     DEF Inv, LastStored, First, SizeBounded, InPlace, TransferIntact, Complete

(* NetStartAgain: nothing else can be received, and nothing is said of     *)
(* what is acknowledged.                                                   *)
LEMMA StartAgainStep ==
  ASSUME Inv, TypeOK', DataIsBlock', NetStartAgain, wrapOffset' = 0,
         toClient' \subseteq toClient, lastBlock' = 0 \/ UNCHANGED <<state, lastBlock>>,
         UNCHANGED <<toServer, server, loop, memory, xferSize>>
  PROVE  Inv'
<1>1. halted' = TRUE /\ ring' \subseteq Left /\ UNCHANGED <<memory, ourPort, client>>
  BY DEF NetStartAgain, Deliverable, Left, loop, server
<1>2. \A n : Stored(n)' <=> Stored(n)
  BY <1>1, StoredKept
<1>3. DataInOrder' /\ Acknowledged'
  BY <1>1, <1>2 DEF Inv, DataInOrder, Acknowledged, Left
<1>4. netState' \in {netState, "restart", "fail"}
  BY DEF NetStartAgain
<1>. QED
  BY <1>1, <1>2, <1>3, <1>4
     DEF Inv, PortsUsed, LastStored, First, SizeBounded, InPlace, TransferIntact, Complete

LEMMA ReceiveDataStep ==
  ASSUME F < SeqSize, Inv, TypeOK', DataIsBlock', NEW m \in toClient, ReceiveData(m)
  PROVE  Inv'
<1>1. m \in Left /\ m.type = "DATA" /\ m.port = ourPort
  BY DEF ReceiveData, Accepts, Deliverable, Left
<1>2. m.content \in Block /\ Stored(m.content - 1)
  BY <1>1 DEF Inv, DataInOrder
<1>3. Seq(m.content) = m.content /\ m.content \in Nat \ {0}
  BY <1>2, SeqType, TftpAssumption DEF Block
<1>4. Offset(m.content) = 0
  BY <1>3 DEF Offset, Inv, InPlace
<1>5. /\ toClient' \subseteq toClient /\ wrapOffset' = 0 /\ block' = m.content
      /\ UNCHANGED <<server, loop, client, ourPort>>
  BY <1>3, <1>4 DEF ReceiveData, Taken, server, loop
<1>6. CASE NetStartAgain /\ lastBlock' = 0 /\ UNCHANGED <<toServer, memory, xferSize>>
  BY <1>5, <1>6, StartAgainStep
<1>7. CASE ~First /\ SameBlock(m.content) /\ UNCHANGED <<toServer, lastBlock, memory, xferSize, restart>>
  <2>1. UNCHANGED <<toServer, lastBlock, memory, xferSize, netState, halted, ring>>
    BY <1>7 DEF restart
  <2>2. \A n : Stored(n)' <=> Stored(n)
    BY <2>1, StoredKept
  <2>3. Stored(m.content)
    BY <1>3, <1>7 DEF Inv, LastStored, SameBlock
  <2>4. DataInOrder' /\ Acknowledged'
    BY <1>5, <2>1, <2>2, <2>3 DEF Inv, DataInOrder, Acknowledged, Left
  <2>5. LastStored'
    BY <1>3, <1>7, <2>1, <2>2, <2>3 DEF LastStored, SameBlock
  <2>. QED
    BY <1>5, <2>1, <2>4, <2>5
       DEF Inv, PortsUsed, LastStored, SizeBounded, InPlace, TransferIntact, Complete
<1>8. CASE StoreBlock(m)
  <2>1. Store(m.content, m.content) /\ lastBlock' = m.content /\ UNCHANGED <<halted, ring>>
    BY <1>3, <1>4, <1>8 DEF StoreBlock
  <2>2. DOMAIN memory' = DOMAIN memory \cup {m.content}
    BY <2>1 DEF Store
  <2>3. \A i \in DOMAIN memory' : memory'[i] = i
    BY <2>1 DEF Store, Inv, InPlace
  <2>4. /\ xferSize' <= FileSize
        /\ xferSize = FileSize => xferSize' = FileSize
        /\ m.content = F => xferSize' = FileSize
    <3>1. xferSize \in Nat /\ xferSize <= FileSize
      BY DEF Inv, TypeOK, SizeBounded
    <3>2. m.content = F => (m.content - 1) * 512 + Len(m.content) = FileSize
      BY DEF Len, FileSize
    <3>. QED
      BY <1>2, <2>1, <3>1, <3>2, FileSizeNat DEF Store
  <2>5. \A n \in Nat : Stored(n) => Stored(n)'
    <3>1. xferSize <= xferSize'
      BY <1>3, <2>1, TftpAssumption DEF Store, Len, Inv, TypeOK
    <3>. QED
      BY <2>2, <3>1, StoredGrows DEF Inv
  <2>6. Stored(m.content)'
    <3>1. 1..m.content \subseteq DOMAIN memory'
      BY <1>2, <1>3, <2>2 DEF Stored, Caller!Received
    <3>2. Caller!Bytes(m.content) <= xferSize'
      BY <1>3, <2>1, TftpAssumption DEF Caller!Bytes, Store, Len, Inv, TypeOK
    <3>. QED
      BY <3>1, <3>2 DEF Stored, Caller!Received, Caller!Bytes
  <2>7. DataInOrder'
    <3>1. \A n \in Block : n - 1 \in Nat
      BY DEF Block
    <3>. QED
      BY <1>5, <2>1, <2>5, <3>1 DEF Inv, DataInOrder, Left
  <2>8. toServer' = toServer \cup {Ask("ACK", ourPort, m.session, m.content)}
    BY <1>3, <1>8 DEF StoreBlock, TftpSend
  <2>9. Acknowledged'
    <3>1. \A n \in toServer : n.number \in Nat
      BY DEF Inv, TypeOK, Request
    <3>. QED
      BY <1>5, <2>1, <2>5, <2>6, <2>8, <3>1 DEF Inv, Acknowledged, Ask
  <2>10. PortsUsed'
    BY <1>5, <2>8 DEF Inv, PortsUsed, TypeOK, Ask
  <2>11. TransferIntact'
    <3>1. CASE Short(m.content)
      <4>1. m.content = F
        BY <3>1 DEF Short, Len
      <4>2. Block \subseteq DOMAIN memory'
        BY <2>6, <4>1 DEF Stored, Caller!Received, Block
      <4>. QED
        BY <2>3, <2>4, <4>1, <4>2 DEF TransferIntact, Complete
    <3>2. CASE ~Short(m.content)
      BY <1>8, <2>2, <2>3, <2>4, <3>2 DEF Inv, TransferIntact, Complete, StoreBlock
    <3>. QED
      BY <3>1, <3>2
  <2>. QED
    BY <1>5, <2>1, <2>3, <2>4, <2>6, <2>7, <2>9, <2>10, <2>11
       DEF Inv, LastStored, SizeBounded, InPlace
<1>. QED
  BY <1>6, <1>7, <1>8 DEF ReceiveData

(* A step that at most sends again and ends the loop or changes NetState.  *)
LEMMA LoopStep ==
  ASSUME Inv, TypeOK', DataIsBlock', toClient' \subseteq toClient,
         UNCHANGED <<client, block, lastBlock, wrapOffset, memory, xferSize, ourPort, halted, ring>>,
         netState' \in {netState, "fail"}, state' \in {state, "OACK"},
         \/ toServer' = toServer
         \/ \E st, to : st \in {"RRQ", "OACK", "DATA"} /\ TftpSend(st, block, to)
  PROVE  Inv'
<1>1. \A n : Stored(n)' <=> Stored(n)
  BY StoredKept
<1>2. \A m \in toServer' :
        \/ m \in toServer
        \/ m.port = ourPort /\ (m.type = "ACK" => m.number = block)
  BY DEF TftpSend, Ask
<1>3. DataInOrder'
  BY <1>1 DEF Inv, DataInOrder, Left
<1>4. Acknowledged'
  BY <1>1, <1>2 DEF Inv, Acknowledged
<1>5. PortsUsed'
  BY <1>2 DEF Inv, PortsUsed, TypeOK
<1>. QED
  BY <1>1, <1>3, <1>4, <1>5
     DEF Inv, LastStored, First, SizeBounded, InPlace, TransferIntact, Complete

LEMMA InvInit == Init => Inv
<1>. SUFFICES ASSUME Init PROVE Inv
  OBVIOUS
<1>1. TypeOK /\ DataIsBlock
  BY TypeInit
<1>2. Stored(0)
  BY <1>1, NothingStored
<1>3. Acknowledged /\ DataInOrder /\ PortsUsed
  BY <1>2 DEF Init, Acknowledged, DataInOrder, PortsUsed, Left, Ask
<1>4. xferSize <= FileSize
  BY FileSizeNat DEF Init
<1>. QED
  BY <1>1, <1>3, <1>4 DEF Init, Inv, LastStored, SizeBounded, InPlace, TransferIntact

LEMMA InvStep == ASSUME F < SeqSize PROVE Inv /\ [Next]_vars => Inv'
<1>. SUFFICES ASSUME Inv, [Next]_vars PROVE Inv'
  OBVIOUS
<1>1. TypeOK' /\ DataIsBlock'
  BY TypeStep DEF Inv
<1>2. ASSUME NEW s \in Session, ServerAccepts(s) PROVE Inv'
  <2>1. PICK m \in toServer, ok \in {"OACK", "DATA", "NOTFOUND"} :
          /\ client' = [client EXCEPT ![s] = m.port] /\ toServer' = TakenByServer(m)
          /\ toClient' = toClient \cup {[type |-> ok, port |-> m.port, session |-> s,
                                         content |-> IF ok = "DATA" THEN 1 ELSE 0]}
    BY <1>2 DEF ServerAccepts
  <2>2. PortsUsed'
    BY <1>2, <2>1 DEF Inv, PortsUsed, TypeOK, ServerAccepts, TakenByServer, loop
  <2>3. 1 \in Block /\ Stored(1 - 1)
    BY TftpAssumption, NothingStored DEF Inv, Block
  <2>. QED
    BY <1>1, <1>2, <2>1, <2>2, <2>3, ServerStep DEF ServerAccepts, TakenByServer
<1>3. ASSUME NEW s \in Session, ServerContinues(s) PROVE Inv'
  <2>1. PICK m \in toServer : m.type = "ACK" /\ m.port = client[s] /\ m.number = Seq(sent[s])
    BY <1>3 DEF ServerContinues
  <2>2. sent[s] \in 0..F /\ sent[s] + 1 \in Block /\ (sent[s] + 1) - 1 = sent[s]
    BY <1>3, TftpAssumption DEF ServerContinues, Block
  <2>3. m.number = sent[s]
    BY <2>1, <2>2, SeqType
  <2>4. ~halted /\ client[s] = ourPort => Stored(sent[s])
    BY <2>1, <2>3 DEF Inv, Acknowledged
  <2>5. toClient' = toClient \cup {Answer("DATA", s, sent[s] + 1)} /\ toServer' \subseteq toServer
    BY <1>3 DEF ServerContinues, TakenByServer
  <2>6. PortsUsed'
    BY <1>3, <2>5 DEF Inv, PortsUsed, ServerContinues, Answer, loop
  <2>. QED
    BY <1>1, <1>3, <2>2, <2>4, <2>5, <2>6, ServerStep DEF ServerContinues, Answer
<1>4. ASSUME NEW s \in Session, ServerGivesUp(s) PROVE Inv'
  <2>1. PortsUsed'
    BY <1>4 DEF Inv, PortsUsed, ServerGivesUp, Answer, server, loop
  <2>. QED
    BY <1>1, <1>4, <2>1, ServerStep DEF ServerGivesUp, Answer
<1>5. ASSUME NEW m \in toClient, ReceiveOack(m) PROVE Inv'
  BY <1>1, <1>5, LoopStep DEF ReceiveOack, Taken, server, loop, restart
<1>6. ASSUME NEW m \in toClient, ReceiveData(m) PROVE Inv'
  BY <1>1, <1>6, ReceiveDataStep
<1>7. ASSUME NEW m \in toClient, ReceiveError(m) PROVE Inv'
  <2>1. toClient' \subseteq toClient /\ UNCHANGED <<toServer, server, transfer, loop>>
    BY <1>7 DEF ReceiveError, Taken
  <2>2. CASE NetStartAgain
    BY <1>1, <2>1, <2>2, StartAgainStep DEF transfer, Inv, InPlace
  <2>3. CASE ~NetStartAgain
    BY <1>1, <1>7, <2>1, <2>3, LoopStep DEF ReceiveError, server, transfer, loop
  <2>. QED
    BY <2>2, <2>3
<1>8. CASE Timeout
  <2>1. state \in {"RRQ", "OACK", "DATA"}
    BY DEF Inv, TypeOK
  <2>. QED
    BY <1>1, <1>8, <2>1, LoopStep DEF Timeout, server, transfer, restart
<1>9. CASE Abort
  BY <1>1, <1>9, LoopStep DEF Abort, server, transfer, restart
<1>10. CASE Return
  BY <1>1, <1>10, LoopStep DEF Return, server, transfer, restart
<1>11. CASE TftpStart
  <2>1. /\ ourPort' = ourPort + 1 /\ halted' = FALSE /\ block' = 0 /\ xferSize' = 0
        /\ netState' = "continue" /\ state' = "RRQ" /\ ourPort \in Nat
        /\ toServer' = toServer \cup {Ask("RRQ", ourPort + 1, WellKnown, 0)}
        /\ UNCHANGED <<toClient, client, lastBlock, wrapOffset, memory>>
    BY <1>11 DEF Inv, TypeOK, TftpStart, server
  <2>2. Stored(0)'
    BY <1>1, TftpAssumption, <2>1 DEF Stored, Caller!Received, Caller!Bytes
  <2>3. \A m \in toServer \cup toClient : m.port \in Nat
    BY DEF Inv, TypeOK, Request, Reply
  <2>4. \A s \in Session : client[s] \in Nat
    BY DEF Inv, TypeOK
  <2>5. PortsUsed'
    BY <2>1, <2>3, <2>4 DEF Inv, PortsUsed, Ask
  <2>6. DataInOrder'
    BY <2>1, <2>3 DEF Inv, PortsUsed, DataInOrder, Left
  <2>7. Acknowledged'
    BY <2>1, <2>2, <2>3 DEF Inv, PortsUsed, Acknowledged, Ask
  <2>. QED
    BY <1>1, <2>1, <2>5, <2>6, <2>7, FileSizeNat
       DEF Inv, LastStored, First, SizeBounded, InPlace, TransferIntact
<1>12. CASE UNCHANGED vars
  BY <1>1, <1>12, LoopStep DEF vars, server, transfer, loop, restart
<1>. QED
  BY <1>2, <1>3, <1>4, <1>5, <1>6, <1>7, <1>8, <1>9, <1>10, <1>11, <1>12
     DEF Next, Server, Receive

(* What TftpHandler reports as received is the file, in any file shorter   *)
(* than the sequence numbers.                                              *)
THEOREM TransferIsIntact == ASSUME F < SeqSize PROVE Spec => []TransferIntact
<1>1. Inv => TransferIntact
  BY DEF Inv
<1>. QED
  BY <1>1, InvInit, InvStep, PTL DEF Spec

(* Under the same condition no block is ever written to another's place.   *)
THEOREM BlocksInPlace == ASSUME F < SeqSize PROVE Spec => []NoBlockMisplaced
<1>1. Inv => NoBlockMisplaced
  BY DEF Inv, InPlace, NoBlockMisplaced
<1>. QED
  BY <1>1, InvInit, InvStep, PTL DEF Spec

(* Under the same condition "Same block again; ignore it." is true: no     *)
(* packet has the number 0, the only one that counts a lap too many.       *)
THEOREM RepeatsAreIgnored == ASSUME F < SeqSize PROVE Spec => SameBlockIgnored
<1>1. ASSUME Inv, NEW m \in toClient, ReceiveData(m), ~First, SameBlock(m.content)
      PROVE  UNCHANGED <<memory, wrapOffset>>
  <2>1. m \in Left /\ m.type = "DATA" /\ m.port = ourPort
    BY <1>1 DEF ReceiveData, Accepts, Deliverable, Left
  <2>2. m.content \in Block
    BY <1>1, <2>1 DEF Inv, DataInOrder
  <2>3. Seq(m.content) # 0
    BY <2>2, SeqType, TftpAssumption DEF Block
  <2>4. wrapOffset' = wrapOffset
    BY <1>1, <2>3 DEF ReceiveData, Offset, Inv, InPlace
  <2>. QED
    BY <1>1, <2>4 DEF ReceiveData
<1>2. Inv /\ [Next]_vars =>
        [\A m \in toClient : ReceiveData(m) /\ ~First /\ SameBlock(m.content)
           => UNCHANGED <<memory, wrapOffset>>]_vars
  BY <1>1
<1>. QED
  BY <1>2, InvInit, InvStep, PTL DEF Spec, SameBlockIgnored
=============================================================================
