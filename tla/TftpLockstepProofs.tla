------------------------- MODULE TftpLockstepProofs -------------------------
(***************************************************************************)
(* Proofs for files of any length, and that a transfer implements the      *)
(* abstract Download.                                                      *)
(*                                                                         *)
(* A file longer than the sequence numbers is beyond the argument of       *)
(* TftpProofs, and over a network that repeats packets it is false that it *)
(* arrives intact. Where nothing is repeated it does, because client and   *)
(* server keep in step: InStep says it message by message, Placed that the *)
(* 16 bits of the client and its count of laps are the position in the     *)
(* file, and WrapInv, which is inductive, puts the two together. Flow adds *)
(* that the step after this one is always on its way.                      *)
(*                                                                         *)
(* The refinement needs no more than the two invariants: every block that  *)
(* is stored is the next one, which WrapInv knows from its position and    *)
(* the invariant of TftpProofs from the blocks below.                      *)
(***************************************************************************)
EXTENDS TftpProofs

LEMMA RemainderOf ==
  ASSUME NEW S \in Nat \ {0}, NEW q \in Nat, NEW r \in 0..(S - 1)
  PROVE  (S * q + r) % S = r
OBVIOUS

(* The number on the wire of the block after block n. *)
LEMMA NextSeq ==
  ASSUME NEW n \in Nat
  PROVE  /\ Seq(n) \in 0..(SeqSize - 1)
         /\ Seq(n + 1) = IF Seq(n) + 1 = SeqSize THEN 0 ELSE Seq(n) + 1
<1>1. SeqSize \in Nat \ {0}
  BY TftpAssumption
<1>. DEFINE q == n \div SeqSize
            r == n % SeqSize
<1>2. q \in Nat /\ r \in 0..(SeqSize - 1) /\ n = SeqSize * q + r
  BY <1>1
<1>. HIDE DEF q, r
<1>3. CASE r + 1 = SeqSize
  <2>1. n + 1 = SeqSize * (q + 1) + 0
    BY <1>1, <1>2, <1>3
  <2>2. (n + 1) % SeqSize = 0
    BY <1>1, <1>2, <2>1, RemainderOf
  <2>. QED
    BY <1>2, <1>3, <2>2 DEF Seq, r
<1>4. CASE r + 1 # SeqSize
  <2>1. n + 1 = SeqSize * q + (r + 1) /\ r + 1 \in 0..(SeqSize - 1)
    BY <1>1, <1>2, <1>4
  <2>2. (n + 1) % SeqSize = r + 1
    BY <1>1, <1>2, <2>1, RemainderOf
  <2>. QED
    BY <1>2, <1>4, <2>2 DEF Seq, r
<1>. QED
  BY <1>3, <1>4

-----------------------------------------------------------------------------
Serves(s) == sent[s] # -1 /\ client[s] = ourPort
Unserved == \A s \in Session : ~Serves(s)

(* Lockstep message by message, with what the fields that it does not name *)
(* hold.                                                                   *)
InStep ==
  /\ \A s, t \in Session : Serves(s) /\ Serves(t) => s = t
  /\ Unserved => state = "RRQ"
  /\ \A m \in toServer : m.type = "RRQ" /\ m.port = ourPort =>
       Unserved /\ m.session = WellKnown /\ m.number = 0
  /\ \A m \in toServer : m.type = "ACK" /\ m.port = ourPort =>
       /\ m.session \in Session /\ Serves(m.session)
       /\ sent[m.session] = Position /\ m.number = block
  /\ \A m \in toClient : m.type \in {"OACK", "DATA"} /\ m.port = ourPort =>
       /\ Serves(m.session) /\ sent[m.session] = m.content
       /\ m.content = IF m.type = "OACK" THEN 0 ELSE Position + 1
       /\ m.type = "OACK" => state = "RRQ"
       /\ \A n \in toServer : n.type = "ACK" => n.port # ourPort

LEMMA InStepIsLockstep == TypeOK /\ (result = "none" => InStep) => Lockstep
<1>1. TypeOK => \A m \in toClient : m.session \in Session
  BY DEF TypeOK, Reply
<1>. QED
  BY <1>1 DEF InStep, Lockstep, Serving, Serves, Unserved, Current

(* What the client holds agrees with its position. *)
Placed ==
  /\ Position \in Nat /\ Seq(Position) = block
  /\ First => block = 0
  /\ ~First => lastBlock = block
  /\ Caller!Received(Position)
  /\ NoBlockMisplaced

WrapInv ==
  /\ TypeOK /\ DataIsBlock /\ PortsUsed
  /\ result = "none" => InStep
  /\ Placed
  /\ SizeBounded /\ TransferIntact

(* A message is its fields. *)
LEMMA ReplyFields ==
  ASSUME NEW m \in Reply, NEW n \in Reply, m.type = n.type, m.port = n.port,
         m.session = n.session, m.content = n.content
  PROVE  m = n
BY DEF Reply

LEMMA RequestFields ==
  ASSUME NEW m \in Request, NEW n \in Request, m.type = n.type, m.port = n.port,
         m.session = n.session, m.number = n.number
  PROVE  m = n
BY DEF Request

LEMMA WrapInit == Init => WrapInv
<1>. SUFFICES ASSUME Init PROVE WrapInv
  OBVIOUS
<1>1. TypeOK /\ DataIsBlock
  BY TypeInit
<1>2. PortsUsed /\ InStep
  BY DEF Init, PortsUsed, InStep, Unserved, Serves, Ask
<1>3. Position = 0 /\ Seq(0) = 0
  BY TftpAssumption DEF Init, Position, First, Seq
<1>4. Placed
  BY <1>3, TftpAssumption
     DEF Init, Placed, First, NoBlockMisplaced, Caller!Received, Caller!Bytes
<1>5. SizeBounded /\ TransferIntact
  BY FileSizeNat DEF Init, SizeBounded, TransferIntact
<1>. QED
  BY <1>1, <1>2, <1>4, <1>5 DEF WrapInv

(* A step that leaves the transfer alone leaves it where it was. *)
LEMMA TransferKept ==
  ASSUME UNCHANGED transfer, netState' \in {netState, "restart", "fail"},
         Placed, SizeBounded, TransferIntact
  PROVE  Placed' /\ SizeBounded' /\ TransferIntact' /\ Position' = Position
<1>1. UNCHANGED <<state, block, lastBlock, wrapOffset, memory, xferSize>>
  BY DEF transfer
<1>. QED
  BY <1>1 DEF Placed, Position, First, NoBlockMisplaced, SizeBounded, TransferIntact, Complete,
     Caller!Received

LEMMA PortsStep == TypeOK /\ PortsUsed /\ [Next]_vars => PortsUsed'
<1>. SUFFICES ASSUME TypeOK, PortsUsed, [Next]_vars PROVE PortsUsed'
  OBVIOUS
<1>1. ASSUME NEW s \in Session, ServerAccepts(s) \/ ServerContinues(s) \/ ServerGivesUp(s)
      PROVE  PortsUsed'
  <2>1. CASE ServerAccepts(s)
    BY <2>1 DEF TypeOK, PortsUsed, ServerAccepts, TakenByServer, loop
  <2>2. CASE ServerContinues(s)
    BY <2>2 DEF TypeOK, PortsUsed, ServerContinues, TakenByServer, Answer, loop
  <2>3. CASE ServerGivesUp(s)
    BY <2>3 DEF TypeOK, PortsUsed, ServerGivesUp, Answer, server, loop
  <2>. QED
    BY <1>1, <2>1, <2>2, <2>3
<1>2. ASSUME toClient' \subseteq toClient, UNCHANGED <<client, ourPort>>,
             \/ toServer' = toServer
             \/ \E st, blk, to : TftpSend(st, blk, to)
      PROVE  PortsUsed'
  BY <1>2 DEF TypeOK, PortsUsed, TftpSend, Ask
<1>3. ASSUME NEW m \in toClient, ReceiveOack(m) \/ ReceiveData(m) \/ ReceiveError(m)
      PROVE  PortsUsed'
  <2>1. toClient' \subseteq toClient /\ UNCHANGED <<client, ourPort>>
    BY <1>3 DEF ReceiveOack, ReceiveData, ReceiveError, Taken, server, loop
  <2>2. toServer' = toServer \/ \E st, blk, to : TftpSend(st, blk, to)
    BY <1>3 DEF ReceiveOack, ReceiveData, ReceiveError, StoreBlock
  <2>. QED
    BY <1>2, <2>1, <2>2
<1>4. CASE Timeout
  BY <1>2, <1>4 DEF Timeout, server
<1>5. CASE Abort \/ Return
  BY <1>2, <1>5 DEF Abort, Return, server
<1>6. CASE TftpStart
  <2>1. \A m \in toServer \cup toClient : m.port \in Nat
    BY DEF TypeOK, Request, Reply
  <2>2. \A s \in Session : client[s] \in Nat
    BY DEF TypeOK
  <2>. QED
    BY <1>6, <2>1, <2>2 DEF TypeOK, PortsUsed, TftpStart, server, Ask
<1>7. CASE UNCHANGED vars
  BY <1>2, <1>7 DEF vars, server, loop
<1>. QED
  BY <1>1, <1>3, <1>4, <1>5, <1>6, <1>7 DEF Next, Server, Receive


LEMMA AcceptsInStep ==
  ASSUME ~Duplication, TypeOK, PortsUsed, InStep, NEW s \in Session, ServerAccepts(s)
  PROVE  InStep'
<1>1. PICK m \in toServer, ok \in {"OACK", "DATA", "NOTFOUND"} :
        LET first == IF ok = "DATA" THEN 1 ELSE 0
        IN  /\ m.type = "RRQ"
            /\ client' = [client EXCEPT ![s] = m.port]
            /\ sent' = [sent EXCEPT ![s] = first]
            /\ toServer' = toServer \ {m}
            /\ toClient' = toClient \cup {[type |-> ok, port |-> m.port, session |-> s,
                                           content |-> first]}
  BY DEF ServerAccepts, TakenByServer
<1>2. UNCHANGED <<state, block, ourPort>> /\ Position' = Position /\ sent[s] = -1
  BY DEF ServerAccepts, transfer, loop, Position, First
<1>3. m \in Request /\ client \in [Session -> Nat] /\ sent \in [Session -> -1..F]
  BY DEF TypeOK
<1>4. CASE m.port # ourPort
  <2>1. \A t \in Session : Serves(t)' <=> Serves(t)
    BY <1>1, <1>2, <1>3, <1>4 DEF Serves
  <2>2. \A t \in Session : Serves(t) => sent'[t] = sent[t]
    BY <1>1, <1>2, <1>3, <1>4 DEF Serves
  <2>3. \A n \in toClient : n.session \in Session
    BY DEF TypeOK, Reply
  <2>. QED
    BY <1>1, <1>2, <1>4, <2>1, <2>2, <2>3 DEF InStep, Unserved
<1>5. CASE m.port = ourPort
  <2>1. Unserved /\ state = "RRQ" /\ Position = 0
    BY <1>1, <1>5 DEF InStep, Position, First
  <2>2. \A t \in Session : Serves(t)' <=> t = s
    BY <1>1, <1>2, <1>3, <1>5, <2>1 DEF Serves, Unserved
  <2>3. \A n \in toServer : n.type = "RRQ" /\ n.port = ourPort => n = m
    BY <1>1, <1>5, RequestFields DEF InStep, TypeOK
  <2>4. \A n \in toServer : n.type = "ACK" => n.port # ourPort
    BY <2>1 DEF InStep, Unserved
  <2>5. \A n \in toClient : n.type \in {"OACK", "DATA"} => n.port # ourPort
    <3>1. \A n \in toClient : n.session \in Session
      BY DEF TypeOK, Reply
    <3>. QED
      BY <2>1, <3>1 DEF InStep, Unserved
  <2>6. sent'[s] = IF ok = "DATA" THEN 1 ELSE 0
    BY <1>1, <1>3
  <2>7. toServer' \subseteq toServer /\ m \notin toServer'
    BY <1>1
  <2>. QED
    BY <1>1, <1>2, <1>5, <2>1, <2>2, <2>3, <2>4, <2>5, <2>6, <2>7 DEF InStep, Unserved
<1>. QED
  BY <1>4, <1>5

LEMMA ContinuesInStep ==
  ASSUME ~Duplication, TypeOK, InStep, NEW s \in Session, ServerContinues(s)
  PROVE  InStep'
<1>1. PICK m \in toServer : m.type = "ACK" /\ m.session = s /\ m.port = client[s]
                            /\ toServer' = toServer \ {m}
  BY DEF ServerContinues, TakenByServer
<1>2. /\ UNCHANGED <<client, state, block, ourPort>> /\ Position' = Position
      /\ sent[s] \in 0..(F - 1) /\ sent' = [sent EXCEPT ![s] = @ + 1]
      /\ toClient' = toClient \cup {Answer("DATA", s, sent[s] + 1)}
  BY DEF ServerContinues, transfer, loop, Position, First
<1>3. sent \in [Session -> -1..F] /\ sent'[s] = sent[s] + 1 /\ F \in Nat
  BY <1>2, TftpAssumption DEF TypeOK
<1>4. \A t \in Session : Serves(t)' <=> Serves(t)
  BY <1>2, <1>3 DEF Serves
<1>5. \A t \in Session : t # s => sent'[t] = sent[t]
  BY <1>2, <1>3
<1>6. \A n \in toClient : n.session \in Session
  BY DEF TypeOK, Reply
<1>7. Answer("DATA", s, sent[s] + 1) =
        [type |-> "DATA", port |-> client[s], session |-> s, content |-> sent[s] + 1]
  BY DEF Answer
<1>8. toServer' \subseteq toServer
  BY <1>1
<1>9. CASE client[s] # ourPort
  <2>1. ~Serves(s)
    BY <1>9 DEF Serves
  <2>. QED
    BY <1>1, <1>2, <1>4, <1>5, <1>6, <1>7, <1>8, <1>9, <2>1 DEF InStep, Unserved
<1>10. CASE client[s] = ourPort
  <2>1. Serves(s) /\ sent[s] = Position /\ \A t \in Session : Serves(t) => t = s
    BY <1>1, <1>10 DEF InStep
  <2>2. \A n \in toServer : n.type = "ACK" /\ n.port = ourPort => n = m
    <3>1. \A n \in toServer : n.type = "ACK" /\ n.port = ourPort
                                => n.session = s /\ n.number = block
      BY <2>1 DEF InStep
    <3>. QED
      BY <1>1, <1>10, <3>1, RequestFields DEF TypeOK
  <2>3. \A n \in toServer' : n.type = "ACK" => n.port # ourPort
    BY <1>1, <2>2
  <2>4. \A n \in toClient : n.type \in {"OACK", "DATA"} => n.port # ourPort
    BY <1>1, <1>10 DEF InStep
  <2>. QED
    BY <1>1, <1>2, <1>3, <1>4, <1>5, <1>6, <1>7, <1>8, <1>10, <2>1, <2>3, <2>4
       DEF InStep, Unserved
<1>. QED
  BY <1>9, <1>10

(* A step that takes at most errors off the network, or puts them there. *)
LEMMA OthersInStep ==
  ASSUME TypeOK, InStep,
         UNCHANGED <<client, sent, state, block, wrapOffset, ourPort>>,
         toServer' = toServer,
         \A m \in toClient' \ toClient : m.type \notin {"OACK", "DATA"}
  PROVE  InStep'
<1>1. Position' = Position /\ \A s : Serves(s)' <=> Serves(s)
  BY DEF Position, First, Serves
<1>. QED
  BY <1>1 DEF InStep, Unserved


(* The client takes the one message in flight and answers it from where it *)
(* brought it.                                                             *)
LEMMA AnswerInStep ==
  ASSUME ~Duplication, TypeOK, TypeOK', DataIsBlock, InStep,
         NEW m \in toClient, m.type \in {"OACK", "DATA"}, m.port = ourPort,
         Taken(m), UNCHANGED <<client, sent, ourPort>>,
         state' # "RRQ", Position' = m.content,
         toServer' = toServer \cup {Ask("ACK", ourPort, m.session, block')}
  PROVE  InStep'
<1>1. m \in Reply /\ toClient \subseteq Reply /\ m.session \in Session
  BY DEF TypeOK, Reply
<1>2. /\ Serves(m.session) /\ sent[m.session] = m.content
      /\ \A s \in Session : Serves(s) => s = m.session
      /\ \A n \in toServer : n.type \in {"ACK", "RRQ"} => n.port # ourPort
  BY <1>1 DEF InStep, Unserved
<1>3. toClient' = toClient \ {m}
  BY DEF Taken
<1>4. \A n \in toClient : n.type \in {"OACK", "DATA"} /\ n.port = ourPort => n = m
  <2>1. SUFFICES ASSUME NEW n \in toClient, n.type \in {"OACK", "DATA"}, n.port = ourPort
                 PROVE  n = m
    OBVIOUS
  <2>2. n.session = m.session /\ n.content = m.content
    BY <1>1, <1>2, <2>1 DEF InStep, Reply
  <2>3. \A r \in {m, n} : r.type = "DATA" => r.content # 0
    BY <1>1, <2>1 DEF DataIsBlock, Block
  <2>4. \A r \in {m, n} : r.type = "OACK" => r.content = 0
    BY <2>1 DEF InStep
  <2>5. n.type = m.type
    BY <2>1, <2>2, <2>3, <2>4
  <2>. QED
    BY <1>1, <2>1, <2>2, <2>5, ReplyFields
<1>5. \A s : Serves(s)' <=> Serves(s)
  BY DEF Serves
<1>6. \A n \in toServer' : n.type \in {"ACK", "RRQ"} /\ n.port = ourPort
                             => n = Ask("ACK", ourPort, m.session, block')
  BY <1>2
<1>. QED
  BY <1>1, <1>2, <1>3, <1>4, <1>5, <1>6 DEF InStep, Unserved, Ask

(* The next block is stored: never the one before, never the wrong first.  *)
LEMMA DataIsNext ==
  ASSUME WrapInv, InStep, NEW m \in toClient, ReceiveData(m)
  PROVE  /\ StoreBlock(m)
         /\ m.content \in Block /\ m.content = Position + 1
         /\ Offset(m.content) + Seq(m.content) = m.content
         /\ state' = "DATA" /\ Position' = m.content
<1>1. m.type = "DATA" /\ m.port = ourPort
  BY DEF ReceiveData, Accepts
<1>2. m.content \in Block /\ m.content = Position + 1
  BY <1>1 DEF InStep, WrapInv, DataIsBlock
<1>3. /\ Position \in Nat /\ Seq(Position) = block /\ (First => block = 0 /\ Position = 0)
      /\ (~First => lastBlock = block /\ Position = wrapOffset + block)
  BY DEF WrapInv, Placed, Position
<1>4. SeqSize \in Nat \ {0, 1} /\ wrapOffset \in Nat /\ block \in 0..(SeqSize - 1)
  BY TftpAssumption DEF WrapInv, TypeOK
<1>5. Seq(m.content) = IF block + 1 = SeqSize THEN 0 ELSE block + 1
  BY <1>2, <1>3, NextSeq
<1>6. Offset(m.content) + Seq(m.content) = m.content
  BY <1>2, <1>3, <1>4, <1>5 DEF Offset
<1>7. First => Seq(m.content) = 1
  BY <1>3, <1>4, <1>5
<1>8. ~First => ~SameBlock(m.content)
  BY <1>3, <1>4, <1>5 DEF SameBlock
<1>9. StoreBlock(m) /\ state' = "DATA" /\ block' = Seq(m.content) /\ wrapOffset' = Offset(m.content)
  BY <1>7, <1>8 DEF ReceiveData
<1>10. Position' = m.content
  BY <1>6, <1>9 DEF Position, First
<1>. QED
  BY <1>2, <1>6, <1>9, <1>10

LEMMA DataKeepsWrapInv ==
  ASSUME ~Duplication, WrapInv, InStep, TypeOK', DataIsBlock', PortsUsed',
         NEW m \in toClient, ReceiveData(m)
  PROVE  WrapInv'
<1>1. /\ StoreBlock(m) /\ m.content \in Block /\ m.content = Position + 1
      /\ Offset(m.content) + Seq(m.content) = m.content
      /\ state' = "DATA" /\ Position' = m.content
  BY DataIsNext
<1>2. /\ m.type = "DATA" /\ m.port = ourPort /\ Taken(m) /\ block' = Seq(m.content)
      /\ UNCHANGED <<client, sent, ourPort>>
  BY DEF ReceiveData, Accepts, server, loop
<1>3. /\ Store(m.content, m.content) /\ lastBlock' = Seq(m.content)
      /\ toServer' = toServer \cup {Ask("ACK", ourPort, m.session, block')}
      /\ netState' = IF Short(m.content) THEN "success" ELSE netState
  BY <1>1, <1>2 DEF StoreBlock, TftpSend
<1>4. InStep'
  BY <1>1, <1>2, <1>3, AnswerInStep DEF WrapInv
<1>5. /\ DOMAIN memory' = DOMAIN memory \cup {m.content}
      /\ \A i \in DOMAIN memory' : memory'[i] = i
  BY <1>3 DEF Store, WrapInv, Placed, NoBlockMisplaced
<1>6. 1..Position' \subseteq DOMAIN memory'
  BY <1>1, <1>5 DEF WrapInv, Placed, Caller!Received
<1>7. Placed'
  <2>1. Caller!Bytes(m.content) <= xferSize'
    BY <1>1, <1>3, TftpAssumption DEF Caller!Bytes, Store, Len, Block, WrapInv, TypeOK
  <2>. QED
    BY <1>1, <1>2, <1>3, <1>5, <1>6, <2>1, TftpAssumption
       DEF Placed, First, NoBlockMisplaced, Block, Caller!Received, Caller!Bytes
<1>8. /\ xferSize' <= FileSize
      /\ xferSize = FileSize => xferSize' = FileSize
      /\ m.content = F => xferSize' = FileSize
  <2>1. xferSize \in Nat /\ xferSize <= FileSize
    BY DEF WrapInv, TypeOK, SizeBounded
  <2>2. m.content = F => (m.content - 1) * 512 + Len(m.content) = FileSize
    BY DEF Len, FileSize
  <2>. QED
    BY <1>1, <1>3, <2>1, <2>2, FileSizeNat DEF Store
<1>9. TransferIntact'
  <2>1. CASE Short(m.content)
    <3>1. m.content = F
      BY <2>1 DEF Short, Len
    <3>2. Block \subseteq DOMAIN memory'
      BY <1>1, <1>6, <3>1 DEF Block
    <3>. QED
      BY <1>5, <1>8, <3>1, <3>2 DEF TransferIntact, Complete
  <2>2. CASE ~Short(m.content)
    BY <1>3, <1>5, <1>8, <2>2 DEF WrapInv, TransferIntact, Complete
  <2>. QED
    BY <2>1, <2>2
<1>. QED
  BY <1>4, <1>7, <1>8, <1>9 DEF WrapInv, SizeBounded

LEMMA StartKeepsWrapInv ==
  ASSUME WrapInv, TypeOK', DataIsBlock', PortsUsed', TftpStart
  PROVE  WrapInv'
<1>1. /\ ourPort' = ourPort + 1 /\ ourPort \in Nat /\ xferSize' = 0 /\ netState' = "continue"
      /\ state' = "RRQ" /\ block' = 0
      /\ toServer' = toServer \cup {Ask("RRQ", ourPort + 1, WellKnown, 0)}
      /\ UNCHANGED <<toClient, client, sent, memory>>
  BY DEF WrapInv, TypeOK, TftpStart, server
<1>2. \A m \in toServer \cup toClient : m.port # ourPort'
  <2>1. \A m \in toServer \cup toClient : m.port \in Nat
    BY DEF WrapInv, TypeOK, Request, Reply
  <2>. QED
    BY <1>1, <2>1 DEF WrapInv, PortsUsed
<1>3. \A s \in Session : ~Serves(s)'
  <2>1. \A s \in Session : client[s] \in Nat
    BY DEF WrapInv, TypeOK
  <2>. QED
    BY <1>1, <2>1 DEF WrapInv, PortsUsed, Serves
<1>4. InStep'
  BY <1>1, <1>2, <1>3 DEF InStep, Unserved, Ask
<1>5. Position' = 0 /\ First' /\ Seq(0) = 0
  BY <1>1, TftpAssumption DEF Position, First, Seq
<1>6. Placed'
  BY <1>1, <1>5, TftpAssumption
     DEF WrapInv, Placed, NoBlockMisplaced, Caller!Received, Caller!Bytes
<1>. QED
  BY <1>1, <1>4, <1>6, FileSizeNat DEF WrapInv, SizeBounded, TransferIntact

LEMMA WrapStep == ASSUME ~Duplication PROVE WrapInv /\ [Next]_vars => WrapInv'
<1>. SUFFICES ASSUME WrapInv, [Next]_vars PROVE WrapInv'
  OBVIOUS
<1>1. TypeOK' /\ DataIsBlock' /\ PortsUsed'
  BY TypeStep, PortsStep DEF WrapInv
<1>2. ASSUME UNCHANGED transfer, netState' \in {netState, "restart", "fail"},
             result' = "none" => result = "none" /\ (InStep => InStep')
      PROVE  WrapInv'
  BY <1>1, <1>2, TransferKept DEF WrapInv
<1>3. ASSUME NEW s \in Session, ServerAccepts(s) \/ ServerContinues(s) \/ ServerGivesUp(s)
      PROVE  WrapInv'
  <2>1. UNCHANGED <<transfer, loop, restart, netState, result, ourPort>>
    BY <1>3 DEF ServerAccepts, ServerContinues, ServerGivesUp, loop, restart
  <2>2. ASSUME InStep PROVE InStep'
    <3>1. CASE ServerGivesUp(s)
      BY <2>1, <2>2, <3>1, OthersInStep DEF WrapInv, ServerGivesUp, Answer, server, transfer
    <3>. QED
      BY <1>3, <2>2, <3>1, AcceptsInStep, ContinuesInStep DEF WrapInv
  <2>. QED
    BY <1>2, <2>1, <2>2
<1>4. ASSUME NEW m \in toClient, ReceiveOack(m) PROVE WrapInv'
  <2>1. result = "none" /\ InStep /\ m.type = "OACK" /\ m.port = ourPort
    BY <1>4 DEF ReceiveOack, Accepts, WrapInv
  <2>2. state = "RRQ" /\ m.content = 0 /\ block = 0 /\ Position = 0
    BY <2>1 DEF InStep, WrapInv, Placed, First, Position
  <2>3. /\ state' = "OACK" /\ Taken(m)
        /\ UNCHANGED <<client, sent, ourPort, block, lastBlock, wrapOffset, memory, xferSize, netState>>
        /\ toServer' = toServer \cup {Ask("ACK", ourPort, m.session, block')}
    BY <1>4 DEF ReceiveOack, TftpSend, server, loop, restart
  <2>4. Position' = 0 /\ First'
    BY <2>3 DEF Position, First
  <2>5. InStep'
    BY <1>1, <2>1, <2>2, <2>3, <2>4, AnswerInStep DEF WrapInv
  <2>6. Placed'
    BY <2>2, <2>3, <2>4 DEF WrapInv, Placed, NoBlockMisplaced, Caller!Received
  <2>. QED
    BY <1>1, <2>3, <2>5, <2>6 DEF WrapInv, SizeBounded, TransferIntact, Complete
<1>5. ASSUME NEW m \in toClient, ReceiveData(m) PROVE WrapInv'
  BY <1>1, <1>5, DataKeepsWrapInv DEF WrapInv, ReceiveData, Accepts
<1>6. ASSUME NEW m \in toClient, ReceiveError(m) PROVE WrapInv'
  <2>1. toClient' \subseteq toClient /\ UNCHANGED <<toServer, server, transfer, loop>>
    BY <1>6 DEF ReceiveError, Taken
  <2>2. netState' \in {netState, "restart", "fail"}
    BY <1>6 DEF ReceiveError, NetStartAgain
  <2>3. InStep => InStep'
    BY <2>1, OthersInStep DEF WrapInv, server, transfer, loop
  <2>. QED
    BY <1>2, <2>1, <2>2, <2>3 DEF loop
<1>7. CASE Timeout \/ Abort \/ Return
  <2>1. UNCHANGED transfer /\ netState' = netState
    BY <1>7 DEF Timeout, Abort, Return, restart
  <2>2. result' # "none"
    BY <1>7 DEF Timeout, Abort, Return
  <2>. QED
    BY <1>2, <2>1, <2>2
<1>8. CASE TftpStart
  BY <1>1, <1>8, StartKeepsWrapInv
<1>9. CASE UNCHANGED vars
  <2>1. UNCHANGED <<toServer, toClient, server, transfer, loop, netState>>
    BY <1>9 DEF vars, restart
  <2>2. InStep => InStep'
    BY <2>1, OthersInStep DEF WrapInv, server, transfer, loop
  <2>. QED
    BY <1>2, <2>1, <2>2 DEF loop
<1>. QED
  BY <1>3, <1>4, <1>5, <1>6, <1>7, <1>8, <1>9 DEF Next, Server, Receive

-----------------------------------------------------------------------------
(* Why there is always a next step: a message of the attempt is in the     *)
(* network, and the session that the client talks to is the one that       *)
(* serves it.                                                              *)
InHands ==
  \/ \E m \in toServer : m.port = ourPort
  \/ \E m \in toClient : m.port = ourPort

Busy == result = "none" /\ netState = "continue" /\ handler = "tftp"

Flow ==
  /\ halted => netState # "continue" \/ handler = "ignore"
  /\ Busy => Position < F /\ InHands
  /\ result = "none" => \A m \in toClient : m.port = ourPort => Serves(m.session)
  /\ result = "none" /\ state # "RRQ" => serverPort \in Session /\ Serves(serverPort)

LEMMA FlowNeverStalls == WrapInv /\ Flow => NeverStalls
<1>. SUFFICES ASSUME WrapInv, Flow, Busy
              PROVE  \/ \E m \in toServer : m.port = ourPort /\ Answerable(m)
                     \/ \E m \in toClient : Accepts(m)
  BY DEF NeverStalls, Busy
<1>1. InStep /\ ~halted /\ Position < F
  BY DEF WrapInv, Flow, Busy
<1>2. CASE \E m \in toServer : m.port = ourPort
  <2>1. PICK m \in toServer : m.port = ourPort
    BY <1>2
  <2>2. m.type \in {"RRQ", "ACK"}
    BY DEF WrapInv, TypeOK, Request
  <2>3. CASE m.type = "ACK"
    <3>1. client[m.session] = m.port /\ sent[m.session] = Position /\ m.number = block
      BY <1>1, <2>1, <2>3 DEF InStep, Serves
    <3>2. Position \in 0..(F - 1) /\ Seq(Position) = block
      BY <1>1, TftpAssumption DEF WrapInv, Placed
    <3>. QED
      BY <2>1, <2>3, <3>1, <3>2 DEF Answerable
  <2>. QED
    BY <2>1, <2>2, <2>3 DEF Answerable
<1>3. CASE \E m \in toClient : m.port = ourPort
  <2>1. PICK m \in toClient : m.port = ourPort
    BY <1>3
  <2>2. m.session \in Session
    BY DEF WrapInv, TypeOK, Reply
  <2>3. state = "RRQ" \/ m.session = serverPort
    BY <1>1, <2>1, <2>2 DEF Flow, Busy, InStep
  <2>. QED
    BY <1>1, <2>1, <2>3 DEF Accepts, Deliverable, Busy
<1>4. InHands
  BY DEF Flow
<1>. QED
  BY <1>2, <1>3, <1>4 DEF InHands

LEMMA FlowInit == Init => Flow
<1>. SUFFICES ASSUME Init PROVE Flow
  OBVIOUS
<1>1. Position = 0
  BY DEF Init, Position, First
<1>2. InHands
  <2>1. Ask("RRQ", 0, WellKnown, 0) \in toServer /\ Ask("RRQ", 0, WellKnown, 0).port = ourPort
    BY DEF Init, Ask
  <2>. QED
    BY <2>1 DEF InHands
<1>. QED
  BY <1>1, <1>2, TftpAssumption DEF Init, Flow

LEMMA ServerFlow ==
  ASSUME ~Duplication, WrapInv, Flow, NEW s \in Session,
         ServerAccepts(s) \/ ServerContinues(s) \/ ServerGivesUp(s)
  PROVE  Flow'
<1>1. /\ UNCHANGED <<state, block, wrapOffset, ourPort, serverPort, netState, handler, halted, result>>
      /\ Position' = Position /\ (Busy' <=> Busy)
  BY DEF ServerAccepts, ServerContinues, ServerGivesUp, transfer, loop, restart,
     Position, First, Busy
<1>2. client \in [Session -> Nat] /\ sent \in [Session -> -1..F]
  BY DEF WrapInv, TypeOK
<1>3. sent[s] # -1 => client' = client
  BY DEF ServerAccepts, ServerContinues, ServerGivesUp, server
<1>4. \A t \in Session : Serves(t) => Serves(t)'
  BY <1>1, <1>2, <1>3, TftpAssumption
     DEF ServerAccepts, ServerContinues, ServerGivesUp, server, Serves
<1>5. PICK new :
        /\ toClient' = toClient \cup {new} /\ new.session = s
        /\ new.port = client'[s] /\ sent'[s] # -1
        /\ \A n \in toServer \ toServer' : n.port = new.port
  <2>1. CASE ServerAccepts(s)
    <3>1. PICK m \in toServer, ok \in {"OACK", "DATA", "NOTFOUND"} :
            LET first == IF ok = "DATA" THEN 1 ELSE 0
            IN  /\ client' = [client EXCEPT ![s] = m.port]
                /\ sent' = [sent EXCEPT ![s] = first]
                /\ toServer' = toServer \ {m}
                /\ toClient' = toClient \cup {[type |-> ok, port |-> m.port, session |-> s,
                                               content |-> first]}
      BY <2>1 DEF ServerAccepts, TakenByServer
    <3>. WITNESS [type |-> ok, port |-> m.port, session |-> s,
                  content |-> IF ok = "DATA" THEN 1 ELSE 0]
    <3>. QED
      BY <1>2, <3>1
  <2>2. CASE ServerContinues(s)
    <3>1. PICK m \in toServer : m.port = client[s] /\ toServer' = toServer \ {m}
      BY <2>2 DEF ServerContinues, TakenByServer
    <3>2. /\ client' = client /\ sent'[s] = sent[s] + 1 /\ sent[s] \in 0..(F - 1)
          /\ toClient' = toClient \cup {Answer("DATA", s, sent[s] + 1)}
      BY <1>2, <2>2 DEF ServerContinues
    <3>3. sent'[s] # -1
      BY <3>2, TftpAssumption
    <3>. WITNESS Answer("DATA", s, sent[s] + 1)
    <3>. QED
      BY <3>1, <3>2, <3>3 DEF Answer
  <2>3. CASE ServerGivesUp(s)
    <3>. WITNESS Answer("ERROR", s, 0)
    <3>. QED
      BY <2>3 DEF ServerGivesUp, server, Answer
  <2>. QED
    BY <2>1, <2>2, <2>3
<1>6. InHands => InHands'
  BY <1>1, <1>5 DEF InHands
<1>7. new.port = ourPort => Serves(s)'
  BY <1>1, <1>5 DEF Serves
<1>8. \A m \in toClient : m.session \in Session
  BY DEF WrapInv, TypeOK, Reply
<1>. QED
  BY <1>1, <1>4, <1>5, <1>6, <1>7, <1>8 DEF Flow

LEMMA ReceiveFlow ==
  ASSUME ~Duplication, WrapInv, Flow, NEW m \in toClient,
         ReceiveOack(m) \/ ReceiveData(m) \/ ReceiveError(m)
  PROVE  Flow'
<1>1. /\ result = "none" /\ m.port = ourPort /\ toClient' \subseteq toClient
      /\ UNCHANGED <<client, sent, ourPort, result>>
  BY DEF ReceiveOack, ReceiveData, ReceiveError, Accepts, Taken, server, loop
<1>2. InStep /\ m.session \in Session /\ Serves(m.session)
  BY <1>1 DEF WrapInv, TypeOK, Reply, Flow
<1>3. \A s : Serves(s)' <=> Serves(s)
  BY <1>1 DEF Serves
<1>4. CASE ReceiveOack(m)
  <2>1. /\ serverPort' = m.session /\ UNCHANGED <<netState, handler, halted>>
        /\ toServer' = toServer \cup {Ask("ACK", ourPort, m.session, block)}
    BY <1>4 DEF ReceiveOack, TftpSend, restart
  <2>2. Position' = 0
    BY <1>4 DEF ReceiveOack, Position, First
  <2>3. InHands'
    <3>1. /\ Ask("ACK", ourPort, m.session, block) \in toServer'
          /\ Ask("ACK", ourPort, m.session, block).port = ourPort'
      BY <1>1, <2>1 DEF Ask
    <3>. QED
      BY <3>1 DEF InHands
  <2>. QED
    BY <1>1, <1>2, <1>3, <2>1, <2>2, <2>3, TftpAssumption DEF Flow
<1>5. CASE ReceiveData(m)
  <2>1. /\ StoreBlock(m) /\ m.content \in Block /\ Position' = m.content
        /\ serverPort' = m.session
    BY <1>2, <1>5, DataIsNext DEF ReceiveData
  <2>2. /\ UNCHANGED <<handler, halted>>
        /\ netState' = "continue" => netState = "continue" /\ m.content # F
        /\ toServer' = toServer \cup {Ask("ACK", ourPort, m.session, Seq(m.content))}
    BY <2>1, TftpAssumption DEF StoreBlock, TftpSend, Short, Len
  <2>3. InHands'
    <3>1. /\ Ask("ACK", ourPort, m.session, Seq(m.content)) \in toServer'
          /\ Ask("ACK", ourPort, m.session, Seq(m.content)).port = ourPort'
      BY <1>1, <2>2 DEF Ask
    <3>. QED
      BY <3>1 DEF InHands
  <2>4. m.content # F => m.content < F
    BY <2>1, TftpAssumption DEF Block
  <2>. QED
    BY <1>1, <1>2, <1>3, <2>1, <2>2, <2>3, <2>4 DEF Flow, Busy
<1>6. CASE ReceiveError(m)
  <2>1. UNCHANGED <<state, serverPort>>
    BY <1>6 DEF ReceiveError, transfer
  <2>2. /\ ~Busy'
        /\ halted' => netState' # "continue" \/ handler' = "ignore"
    BY <1>6 DEF ReceiveError, NetStartAgain, Busy
  <2>. QED
    BY <1>1, <1>3, <2>1, <2>2 DEF Flow
<1>. QED
  BY <1>4, <1>5, <1>6

LEMMA FlowStep == ASSUME ~Duplication PROVE WrapInv /\ Flow /\ [Next]_vars => Flow'
<1>. SUFFICES ASSUME WrapInv, Flow, [Next]_vars PROVE Flow'
  OBVIOUS
<1>1. ASSUME NEW s \in Session, ServerAccepts(s) \/ ServerContinues(s) \/ ServerGivesUp(s)
      PROVE  Flow'
  BY <1>1, ServerFlow
<1>2. ASSUME NEW m \in toClient, ReceiveOack(m) \/ ReceiveData(m) \/ ReceiveError(m)
      PROVE  Flow'
  BY <1>2, ReceiveFlow
<1>3. CASE Timeout \/ Abort \/ Return
  BY <1>3 DEF Timeout, Abort, Return, restart, Flow, Busy
<1>4. CASE TftpStart
  <2>1. /\ ourPort' = ourPort + 1 /\ ourPort \in Nat /\ state' = "RRQ" /\ halted' = FALSE
        /\ toServer' = toServer \cup {Ask("RRQ", ourPort + 1, WellKnown, 0)}
        /\ UNCHANGED toClient
    BY <1>4 DEF WrapInv, TypeOK, TftpStart
  <2>2. Position' = 0 /\ InHands'
    <3>1. /\ Ask("RRQ", ourPort + 1, WellKnown, 0) \in toServer'
          /\ Ask("RRQ", ourPort + 1, WellKnown, 0).port = ourPort'
      BY <2>1 DEF Ask
    <3>2. Position' = 0
      BY <2>1 DEF Position, First
    <3>. QED
      BY <3>1, <3>2 DEF InHands
  <2>3. \A m \in toClient : m.port # ourPort'
    <3>1. \A m \in toClient : m.port \in Nat
      BY DEF WrapInv, TypeOK, Reply
    <3>. QED
      BY <2>1, <3>1 DEF WrapInv, PortsUsed
  <2>. QED
    BY <2>1, <2>2, <2>3, TftpAssumption DEF Flow
<1>5. CASE UNCHANGED vars
  <2>1. UNCHANGED <<toServer, toClient, client, sent, state, block, wrapOffset, serverPort,
                    ourPort, result, netState, handler, halted>>
    BY <1>5 DEF vars, server, transfer, loop, restart
  <2>. QED
    BY <2>1 DEF Flow, Busy, InHands, Serves, Position, First
<1>. QED
  BY <1>1, <1>2, <1>3, <1>4, <1>5 DEF Next, Server, Receive

(* A transfer never waits for a message that nobody will send.             *)
THEOREM TransferNeverStalls == ASSUME ~Duplication PROVE Spec => []NeverStalls
<1>. QED
  BY WrapInit, WrapStep, FlowInit, FlowStep, FlowNeverStalls, PTL DEF Spec

(* Client and server keep in step, however often the numbers wrap.         *)
THEOREM KeepInStep == ASSUME ~Duplication PROVE Spec => []Lockstep
<1>1. WrapInv => Lockstep
  BY InStepIsLockstep DEF WrapInv
<1>. QED
  BY <1>1, WrapInit, WrapStep, PTL DEF Spec

(* Every block of every lap goes to its own place.                         *)
THEOREM WrappedBlocksInPlace == ASSUME ~Duplication PROVE Spec => []NoBlockMisplaced
<1>1. WrapInv => NoBlockMisplaced
  BY DEF WrapInv, Placed
<1>. QED
  BY <1>1, WrapInit, WrapStep, PTL DEF Spec

(* A transfer of any number of laps that is reported complete is the file. *)
THEOREM WrappedTransferIsIntact == ASSUME ~Duplication PROVE Spec => []TransferIntact
<1>1. WrapInv => TransferIntact
  BY DEF WrapInv
<1>. QED
  BY <1>1, WrapInit, WrapStep, PTL DEF Spec

-----------------------------------------------------------------------------
(* Every step of the transfer is one of the download, or none.             *)
LEMMA DownloadStep ==
  ASSUME TypeOK, DataIsBlock, TransferIntact, [Next]_vars,
         \A m \in toClient : ReceiveData(m) /\ StoreBlock(m) =>
           /\ m.content \in Block /\ Offset(m.content) + Seq(m.content) = m.content
           /\ Caller!Received(m.content - 1)
  PROVE  [Caller!Next]_(Caller!downloadVars)
<1>1. ASSUME UNCHANGED <<memory, xferSize, result>>
      PROVE  [Caller!Next]_(Caller!downloadVars)
  BY <1>1 DEF Caller!downloadVars
<1>2. ASSUME NEW s \in Session, ServerAccepts(s) \/ ServerContinues(s) \/ ServerGivesUp(s)
      PROVE  [Caller!Next]_(Caller!downloadVars)
  BY <1>1, <1>2 DEF ServerAccepts, ServerContinues, ServerGivesUp, transfer, loop
<1>3. ASSUME NEW m \in toClient, ReceiveOack(m) \/ ReceiveError(m)
      PROVE  [Caller!Next]_(Caller!downloadVars)
  BY <1>1, <1>3 DEF ReceiveOack, ReceiveError, transfer, loop
<1>4. ASSUME NEW m \in toClient, ReceiveData(m) PROVE [Caller!Next]_(Caller!downloadVars)
  <2>1. result = "none" /\ result' = result
    BY <1>4 DEF ReceiveData, Accepts, loop
  <2>2. CASE UNCHANGED <<memory, xferSize>>
    BY <1>1, <2>1, <2>2
  <2>3. CASE StoreBlock(m)
    <3>1. m.content \in Block /\ Caller!Received(m.content - 1) /\ Store(m.content, m.content)
      BY <1>4, <2>3 DEF StoreBlock
    <3>2. (m.content - 1) * 512 + Len(m.content) = Caller!Bytes(m.content)
      BY <3>1, TftpAssumption DEF Caller!Bytes, Len, Block
    <3>3. Caller!StoreNext(m.content)
      BY <2>1, <3>1, <3>2 DEF Store, Caller!StoreNext
    <3>. QED
      BY <3>1, <3>3 DEF Caller!Next, Caller!Block, Block
  <2>. QED
    BY <1>4, <2>2, <2>3 DEF ReceiveData
<1>5. CASE Timeout \/ Abort
  BY <1>5 DEF Timeout, Abort, transfer, Caller!Next, Caller!GiveUp
<1>6. CASE Return
  <2>1. result = "none" /\ result' = netState /\ UNCHANGED <<memory, xferSize>>
    BY <1>6 DEF Return, transfer
  <2>2. CASE netState = "success"
    <3>1. Caller!Received(F)
      BY <2>2, TftpAssumption
         DEF TypeOK, TransferIntact, Complete, Block, FileSize, Caller!Received, Caller!Bytes
    <3>. QED
      BY <2>1, <2>2, <3>1 DEF Caller!Next, Caller!Succeed
  <2>. QED
    BY <1>6, <2>1, <2>2 DEF Return, Caller!Next, Caller!GiveUp
<1>7. CASE TftpStart
  BY <1>7 DEF TftpStart, Caller!Next, Caller!StartAgain
<1>8. CASE UNCHANGED vars
  BY <1>1, <1>8 DEF vars, transfer, loop
<1>. QED
  BY <1>2, <1>3, <1>4, <1>5, <1>6, <1>7, <1>8 DEF Next, Server, Receive

(* Where the numbers do not wrap, any network will do.                     *)
LEMMA ShortIsDownload ==
  ASSUME F < SeqSize
  PROVE  Inv /\ [Next]_vars => [Caller!Next]_(Caller!downloadVars)
<1>. SUFFICES ASSUME Inv, [Next]_vars PROVE [Caller!Next]_(Caller!downloadVars)
  OBVIOUS
<1>1. ASSUME NEW m \in toClient, ReceiveData(m)
      PROVE  /\ m.content \in Block /\ Offset(m.content) + Seq(m.content) = m.content
             /\ Caller!Received(m.content - 1)
  <2>1. m \in Left /\ m.type = "DATA" /\ m.port = ourPort
    BY <1>1 DEF ReceiveData, Accepts, Deliverable, Left
  <2>2. m.content \in Block /\ Caller!Received(m.content - 1)
    BY <2>1 DEF Inv, DataInOrder, Stored
  <2>3. Seq(m.content) = m.content /\ m.content \in Nat \ {0}
    BY <2>2, SeqType, TftpAssumption DEF Block
  <2>. QED
    BY <2>2, <2>3 DEF Inv, InPlace, Offset
<1>. QED
  BY <1>1, DownloadStep DEF Inv

(* Where no message is repeated, any file will do.                         *)
LEMMA WrappedIsDownload ==
  ASSUME ~Duplication
  PROVE  WrapInv /\ [Next]_vars => [Caller!Next]_(Caller!downloadVars)
<1>. SUFFICES ASSUME WrapInv, [Next]_vars PROVE [Caller!Next]_(Caller!downloadVars)
  OBVIOUS
<1>1. ASSUME NEW m \in toClient, ReceiveData(m)
      PROVE  /\ m.content \in Block /\ Offset(m.content) + Seq(m.content) = m.content
             /\ Caller!Received(m.content - 1)
  <2>1. InStep
    BY <1>1 DEF ReceiveData, Accepts, WrapInv
  <2>2. /\ m.content \in Block /\ m.content = Position + 1
        /\ Offset(m.content) + Seq(m.content) = m.content
    BY <1>1, <2>1, DataIsNext
  <2>3. m.content - 1 = Position
    BY <2>2 DEF WrapInv, Placed
  <2>. QED
    BY <2>2, <2>3 DEF WrapInv, Placed
<1>. QED
  BY <1>1, DownloadStep DEF WrapInv

LEMMA DownloadInit == Init => Caller!Init
BY DEF Init, Caller!Init

(* Tftp implements Download: over any network as long as the numbers do    *)
(* not wrap, and for any file as long as the network repeats nothing.      *)
THEOREM TransferIsDownload == ASSUME F < SeqSize \/ ~Duplication PROVE Spec => IsDownload
<1>1. CASE F < SeqSize
  BY <1>1, DownloadInit, InvInit, InvStep, ShortIsDownload, PTL
     DEF Spec, IsDownload, Caller!Spec
<1>2. CASE ~Duplication
  BY <1>2, DownloadInit, WrapInit, WrapStep, WrappedIsDownload, PTL
     DEF Spec, IsDownload, Caller!Spec
<1>. QED
  BY <1>1, <1>2

(* What Download promises: what NetLoop returned as a success is the whole *)
(* file, and it stays so.                                                  *)
THEOREM DownloadIsWhole == IsDownload => [](result = "success" => Complete)
<1>. DEFINE Whole == /\ NoBlockMisplaced
                     /\ xferSize \in Int /\ xferSize <= FileSize
                     /\ result = "success" => Complete
<1>1. Caller!Init => Whole
  BY FileSizeNat DEF Caller!Init, NoBlockMisplaced
<1>2. Whole /\ [Caller!Next]_(Caller!downloadVars) => Whole'
  <2>. SUFFICES ASSUME Whole, [Caller!Next]_(Caller!downloadVars) PROVE Whole'
    OBVIOUS
  <2>1. ASSUME NEW n \in Caller!Block, Caller!StoreNext(n) PROVE Whole'
    <3>1. Caller!Bytes(n) \in Int /\ Caller!Bytes(n) <= FileSize
      BY TftpAssumption DEF Caller!Block, Caller!Bytes, FileSize
    <3>. QED
      BY <2>1, <3>1 DEF Caller!StoreNext, NoBlockMisplaced
  <2>2. CASE Caller!StartAgain
    BY <2>2, FileSizeNat DEF Caller!StartAgain, NoBlockMisplaced
  <2>3. CASE Caller!Succeed
    <3>1. xferSize = FileSize
      BY <2>3, FileSizeNat DEF Caller!Succeed, Caller!Received, Caller!Bytes, FileSize
    <3>. QED
      BY <2>3, <3>1
         DEF Caller!Succeed, Caller!Received, Complete, NoBlockMisplaced, Block
  <2>4. CASE Caller!GiveUp
    BY <2>4 DEF Caller!GiveUp, NoBlockMisplaced
  <2>5. CASE UNCHANGED Caller!downloadVars
    BY <2>5 DEF Caller!downloadVars, NoBlockMisplaced, Complete
  <2>. QED
    BY <2>1, <2>2, <2>3, <2>4, <2>5 DEF Caller!Next
<1>. QED
  BY <1>1, <1>2, PTL DEF IsDownload, Caller!Spec
=============================================================================
