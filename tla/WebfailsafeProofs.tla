------------------------- MODULE WebfailsafeProofs -------------------------
(***************************************************************************)
(* Theorems about Webfailsafe, for any number of connections, uploads and  *)
(* blocks: TypeCorrect and, when no browser begins an upload while another *)
(* is under way, done or about to be flashed, FlashedWhole.                *)
(***************************************************************************)
EXTENDS Webfailsafe, TLAPS

-----------------------------------------------------------------------------
(* The inductive invariant. *)

\* Only open connections are in a state of the application.
OpenOnly == \A c \in Slot : conn[c].state # "none" => conn[c].tcp = "established"

\* One upload at a time, and none while one is done or to be flashed.
OneUpload ==
  /\ \A c, d \in Slot : conn[c].state = "upload" /\ conn[d].state = "upload" => c = d
  /\ \A c \in Slot : conn[c].state = "upload" => ~postDone /\ ~ready
  /\ ready => ~postDone

\* What the upload c has stored, until the rest of its blocks is written.
Stored(c) ==
  /\ ~found /\ conn[c].got = 0 => dataPtr = 0
  /\ found => conn[c].got >= 1
  /\ found /\ ~failed =>
       /\ type = conn[c].post /\ conn[c].post \in Accepted
       /\ dataPtr = conn[c].got
       /\ \A i \in 1..conn[c].got : i \in DOMAIN ram /\ ram[i] = <<conn[c].post, i>>
UploadStored == \A c \in Slot : conn[c].state = "upload" => Stored(c)

\* Done, but the page that says so is not acknowledged yet.
DoneWhole ==
  postDone /\ ~failed /\ (\E c \in Slot : conn[c].state = "file") => \E u \in Upload : Complete(u)

Inv == TypeOK /\ OpenOnly /\ OneUpload /\ UploadStored /\ DoneWhole /\ FlashIntact

-----------------------------------------------------------------------------
(* Typing. *)

USE WebAssumption

LEMMA FreshIs ==
  ASSUME NEW tcp \in TcpState
  PROVE  /\ Fresh(tcp) \in Connection
         /\ Fresh(tcp).state = "none" /\ Fresh(tcp).tcp = tcp
BY DEF Fresh, Connection

LEMMA TcpStates ==
  {"closed", "established", "lastAck", "finWait", "closing", "timeWait"} \subseteq TcpState
BY DEF TcpState

LEMMA PageIs ==
  ASSUME NEW n \in 1..Pages
  PROVE  /\ Page(n) \in Connection
         /\ Page(n).tcp = "established" /\ Page(n).state = "file"
BY DEF Page, Connection, TcpState

\* memcpy writes the one block and moves the pointer behind it.
LEMMA PutWrites ==
  ASSUME NEW at \in Nat, NEW u \in Upload, NEW i \in Nat, Put(at, <<u, i>>),
         DOMAIN ram \subseteq Nat, \A j \in DOMAIN ram : ram[j] \in Content
  PROVE  /\ dataPtr' = at + 1
         /\ DOMAIN ram' = DOMAIN ram \cup {at + 1}
         /\ DOMAIN ram' \subseteq Nat /\ \A j \in DOMAIN ram' : ram'[j] \in Content
         /\ ram'[at + 1] = <<u, i>>
         /\ \A j \in DOMAIN ram : j # at + 1 => ram'[j] = ram[j]
BY DEF Put, Content

\* A connection that changes to one without an upload keeps the types.
LEMMA ConnTyped ==
  ASSUME TypeOK, NEW c \in Slot, NEW k \in Connection, k.state # "upload",
         conn' = [conn EXCEPT ![c] = k]
  PROVE  /\ conn' \in [Slot -> Connection]
         /\ \A d \in Slot : conn'[d].state = "upload" =>
              conn'[d].post \in Upload /\ conn'[d].got < Blocks[conn'[d].post]
BY DEF TypeOK

LEMMA EndTyped ==
  ASSUME TypeOK, NEW c \in Slot, NEW tcp \in TcpState, End(c, tcp)
  PROVE  /\ conn' \in [Slot -> Connection] /\ found' \in BOOLEAN
         /\ \A d \in Slot : conn'[d].state = "upload" =>
              conn'[d].post \in Upload /\ conn'[d].got < Blocks[conn'[d].post]
<1>1. Fresh(tcp) \in Connection /\ Fresh(tcp).state # "upload"
  BY FreshIs
<1>. QED
  BY <1>1, ConnTyped DEF End

\* A connection moves on without the application.
LEMMA FreshTyped ==
  ASSUME TypeOK, NEW c \in Slot, NEW tcp \in TcpState, conn' = [conn EXCEPT ![c] = Fresh(tcp)]
  PROVE  /\ conn' \in [Slot -> Connection]
         /\ \A d \in Slot : conn'[d].state = "upload" =>
              conn'[d].post \in Upload /\ conn'[d].got < Blocks[conn'[d].post]
<1>1. Fresh(tcp) \in Connection /\ Fresh(tcp).state # "upload"
  BY FreshIs
<1>. QED
  BY <1>1, ConnTyped

\* One step per handler.
LEMMA PacketTyped ==
  ASSUME TypeOK, NEW c \in Slot, Packet(c)
  PROVE  TypeOK'
<1>1. CASE Connect(c)
  BY <1>1, EndTyped, TcpStates DEF Connect, TypeOK, storage, upgrade
<1>2. CASE \E psh \in BOOLEAN : Get(c, psh) \/ SetBootDev(c, psh)
  <2>1. PICK n \in 1..Pages : conn' = [conn EXCEPT ![c] = Page(n)]
    BY <1>2 DEF Get, SetBootDev
  <2>2. found' \in BOOLEAN
    BY <1>2 DEF Get, SetBootDev, TypeOK
  <2>3. UNCHANGED <<boundary, storage, failed, postDone, upgrade>>
    BY <1>2 DEF Get, SetBootDev
  <2>. QED
    BY <2>1, <2>2, <2>3, PageIs, ConnTyped DEF TypeOK, storage, upgrade
<1>3. CASE BadRequest(c)
  BY <1>3, EndTyped, TcpStates DEF BadRequest, TypeOK, storage, upgrade
<1>4. ASSUME NEW u \in Upload, Post(c, u)
      PROVE  TypeOK'
  <2>1. PICK n \in {0, 1} :
          /\ conn' = [conn EXCEPT ![c] = Receiving(u, n)]
          /\ \/ n = 1 /\ FirstChunk(0, u)
             \/ /\ n = 0 /\ dataPtr' = 0 /\ found' = FALSE
                /\ type' \in {type, u}
                /\ UNCHANGED <<ram, failed>>
    BY <1>4 DEF Post
  <2>2. /\ conn' \in [Slot -> Connection]
        /\ \A d \in Slot : conn'[d].state = "upload" =>
             conn'[d].post \in Upload /\ conn'[d].got < Blocks[conn'[d].post]
    <3>1. Blocks[u] \in Nat \ {0, 1}
      OBVIOUS
    <3>2. /\ Receiving(u, n) \in Connection
          /\ Receiving(u, n).post = u /\ Receiving(u, n).got = n
      BY DEF Receiving, Connection, TcpState
    <3>. QED
      BY <2>1, <3>1, <3>2 DEF TypeOK
  <2>3. /\ dataPtr' \in Nat /\ found' \in BOOLEAN /\ failed' \in BOOLEAN
        /\ type' \in Upload \cup {NoUpload}
        /\ DOMAIN ram' \subseteq Nat /\ \A i \in DOMAIN ram' : ram'[i] \in Content
    <3>1. CASE FirstChunk(0, u)
      <4>1. Put(0, <<u, 1>>)
        BY <3>1 DEF FirstChunk
      <4>2. DOMAIN ram \subseteq Nat /\ \A i \in DOMAIN ram : ram[i] \in Content
        BY DEF TypeOK
      <4>3. /\ dataPtr' = 0 + 1
            /\ DOMAIN ram' \subseteq Nat /\ \A i \in DOMAIN ram' : ram'[i] \in Content
        BY <4>1, <4>2, PutWrites
      <4>. QED
        BY <3>1, <4>3 DEF FirstChunk, TypeOK
    <3>2. CASE /\ dataPtr' = 0 /\ found' = FALSE
               /\ type' \in {type, u}
               /\ UNCHANGED <<ram, failed>>
      BY <3>2 DEF TypeOK
    <3>. QED
      BY <2>1, <3>1, <3>2
  <2>. QED
    BY <1>4, <2>2, <2>3 DEF Post, TypeOK
<1>5. ASSUME NEW psh \in BOOLEAN, SecondPacket(c, psh)
      PROVE  TypeOK'
  <2>1. conn[c].state = "upload" /\ conn[c].post \in Upload
    BY <1>5 DEF SecondPacket, Uploading, TypeOK
  <2>2. CASE /\ MayFind(c)
             /\ FirstChunk(dataPtr, conn[c].post)
             /\ conn' = [conn EXCEPT ![c].got = 1]
    <3>1. /\ conn' \in [Slot -> Connection]
          /\ \A d \in Slot : conn'[d].state = "upload" =>
               conn'[d].post \in Upload /\ conn'[d].got < Blocks[conn'[d].post]
      <4>1. Blocks[conn[c].post] \in Nat \ {0, 1}
        BY <2>1
      <4>2. conn \in [Slot -> Connection] /\ conn[c] \in Connection
        BY DEF TypeOK
      <4>. DEFINE k == [conn[c] EXCEPT !.got = 1]
      <4>3. k \in Connection /\ k.post = conn[c].post /\ k.got = 1
        BY <4>2 DEF Connection
      <4>4. conn' = [conn EXCEPT ![c] = k]
        BY <2>2
      <4>. HIDE DEF k
      <4>. QED
        BY <2>1, <4>1, <4>2, <4>3, <4>4 DEF TypeOK
    <3>2. /\ dataPtr' \in Nat /\ found' \in BOOLEAN /\ failed' \in BOOLEAN
          /\ type' \in Upload \cup {NoUpload}
          /\ DOMAIN ram' \subseteq Nat /\ \A i \in DOMAIN ram' : ram'[i] \in Content
      BY <2>1, <2>2, PutWrites DEF FirstChunk, TypeOK
    <3>. QED
      BY <1>5, <3>1, <3>2 DEF SecondPacket, TypeOK
  <2>3. CASE NotFound(c) /\ UNCHANGED <<storage, failed>>
    BY <1>5, <2>1, <2>3, EndTyped, TcpStates DEF SecondPacket, NotFound, TypeOK, storage
  <2>. QED
    BY <1>5, <2>2, <2>3 DEF SecondPacket
<1>6. ASSUME NEW psh \in BOOLEAN, Data(c, psh)
      PROVE  TypeOK'
  <2>1. /\ conn[c].state = "upload" /\ conn[c].post \in Upload
        /\ conn[c].got \in Nat /\ Blocks[conn[c].post] \in Nat
    BY <1>6 DEF Data, Uploading, TypeOK, Connection
  <2>2. /\ dataPtr' \in Nat
        /\ DOMAIN ram' \subseteq Nat /\ \A i \in DOMAIN ram' : ram'[i] \in Content
    <3>1. (IF conn[c].got = 0 THEN 0 ELSE conn[c].got + 1) \in Nat
      BY <2>1
    <3>. QED
      BY <1>6, <2>1, <3>1, PutWrites DEF Data, TypeOK, storage
  <2>3. CASE /\ ~Last(c)
             /\ conn' = [conn EXCEPT ![c].got = @ + 1]
             /\ UNCHANGED <<found, postDone, xferSize>>
    <3>1. /\ conn' \in [Slot -> Connection]
          /\ \A d \in Slot : conn'[d].state = "upload" =>
               conn'[d].post \in Upload /\ conn'[d].got < Blocks[conn'[d].post]
      BY <2>1, <2>3 DEF TypeOK, Connection, Last
    <3>. QED
      BY <1>6, <2>2, <2>3, <3>1 DEF Data, TypeOK
  <2>4. CASE /\ Last(c)
             /\ postDone' = TRUE
             /\ xferSize' = Blocks[conn[c].post]
             /\ found' = FALSE
             /\ \E n \in 1..Pages : conn' = [conn EXCEPT ![c] = Page(n)]
    <3>1. /\ conn' \in [Slot -> Connection]
          /\ \A d \in Slot : conn'[d].state = "upload" =>
               conn'[d].post \in Upload /\ conn'[d].got < Blocks[conn'[d].post]
      BY <2>4, PageIs, ConnTyped
    <3>. QED
      BY <1>6, <2>1, <2>2, <2>4, <3>1 DEF Data, TypeOK
  <2>. QED
    BY <1>6, <2>3, <2>4 DEF Data
<1>7. CASE Acked(c)
  <2>1. conn[c].state = "file"
    BY <1>7 DEF Acked
  <2>2. CASE /\ conn[c].left > 1
             /\ conn' = [conn EXCEPT ![c].left = @ - 1]
             /\ UNCHANGED <<found, failed, postDone, ready>>
    <3>1. /\ conn' \in [Slot -> Connection]
          /\ \A d \in Slot : conn'[d].state = "upload" =>
               conn'[d].post \in Upload /\ conn'[d].got < Blocks[conn'[d].post]
      BY <2>1, <2>2 DEF TypeOK, Connection
    <3>. QED
      BY <1>7, <2>2, <3>1 DEF Acked, TypeOK, storage
  <2>3. CASE /\ ready' = (ready \/ (postDone /\ ~failed))
             /\ failed' = (failed /\ ~postDone)
             /\ postDone' = FALSE
             /\ End(c, "finWait")
    BY <1>7, <2>3, EndTyped, TcpStates DEF Acked, TypeOK, storage
  <2>. QED
    BY <1>7, <2>2, <2>3 DEF Acked
<1>8. CASE Fin(c)
  <2>1. CASE conn[c].out = "no" /\ End(c, "lastAck")
    BY <1>8, <2>1, EndTyped, TcpStates DEF Fin, TypeOK, storage, upgrade
  <2>2. CASE /\ conn' = [conn EXCEPT ![c].out = "deaf"]
             /\ UNCHANGED found
    <3>1. /\ conn' \in [Slot -> Connection]
          /\ \A d \in Slot : conn'[d].state = "upload" =>
               conn'[d].post \in Upload /\ conn'[d].got < Blocks[conn'[d].post]
      BY <2>2 DEF TypeOK, Connection
    <3>. QED
      BY <1>8, <2>2, <3>1 DEF Fin, TypeOK, storage, upgrade
  <2>. QED
    BY <1>8, <2>1, <2>2 DEF Fin
<1>9. CASE Closed(c)
  <2>1. PICK tcp \in TcpState : End(c, tcp)
    BY <1>9, TcpStates DEF Closed
  <2>. QED
    BY <1>9, <2>1, EndTyped, TcpStates DEF Closed, TypeOK, storage, upgrade
<1>10. CASE Rst(c)
  BY <1>10, EndTyped, TcpStates DEF Rst, TypeOK, storage, upgrade
<1>11. CASE Syn(c)
  <2>1. "synRcvd" \in TcpState
    BY DEF TcpState
  <2>. QED
    BY <1>11, <2>1, FreshTyped DEF Syn, TypeOK, storage, upgrade
<1>12. CASE TimeWait(c)
  BY <1>12, FreshTyped, TcpStates DEF TimeWait, TypeOK, storage, upgrade
<1>. QED
  BY <1>1, <1>2, <1>3, <1>4, <1>5, <1>6, <1>7, <1>8, <1>9, <1>10, <1>11, <1>12 DEF Packet

\* HttpdStart closes every connection.
LEMMA RestartTyped ==
  ASSUME TypeOK, Restart
  PROVE  /\ conn' = [c \in Slot |-> Fresh("closed")]
         /\ conn' \in [Slot -> Connection]
         /\ \A c \in Slot : conn'[c].state = "none" /\ conn'[c].tcp = "closed"
         /\ xferSize' \in Nat => TypeOK'
<1>1. /\ Fresh("closed") \in Connection
      /\ Fresh("closed").state = "none" /\ Fresh("closed").tcp = "closed"
  BY FreshIs, TcpStates
<1>2. /\ conn' = [c \in Slot |-> Fresh("closed")]
      /\ conn' \in [Slot -> Connection]
      /\ \A c \in Slot : conn'[c].state = "none" /\ conn'[c].tcp = "closed"
  BY <1>1 DEF Restart
<1>. QED
  BY <1>2 DEF Restart, TypeOK, storage

LEMMA TypeInit == Init => TypeOK
<1>. SUFFICES ASSUME Init PROVE TypeOK
  OBVIOUS
<1>1. Fresh("closed") \in Connection /\ Fresh("closed").state = "none"
  BY FreshIs, TcpStates
<1>. QED
  BY <1>1 DEF Init, TypeOK

LEMMA TypeStep == TypeOK /\ [Next]_vars => TypeOK'
<1>. SUFFICES ASSUME TypeOK, [Next]_vars PROVE TypeOK'
  OBVIOUS
<1>1. ASSUME NEW c \in Slot, Packet(c) PROVE TypeOK'
  BY <1>1, PacketTyped
<1>2. CASE UpgradeFails
  BY <1>2, RestartTyped DEF UpgradeFails
<1>3. CASE CtrlC
  <2>1. xferSize' \in Nat
    BY <1>3 DEF CtrlC, TypeOK
  <2>. QED
    BY <1>3, <2>1, RestartTyped DEF CtrlC
<1>4. CASE Upgraded
  <2>1. Fresh("closed") \in Connection /\ Fresh("closed").state = "none"
    BY FreshIs, TcpStates
  <2>. QED
    BY <1>4, <2>1 DEF Upgraded, TypeOK
<1>5. CASE UNCHANGED vars
  BY <1>5 DEF TypeOK, vars, storage, upgrade
<1>. QED
  BY <1>1, <1>2, <1>3, <1>4, <1>5 DEF Next

(***************************************************************************)
(* TypeOK: in particular an upload under way always lacks a block, so that *)
(* the packet that brings the last one is always recognised.               *)
(***************************************************************************)
THEOREM TypeCorrect == Spec => []TypeOK
BY TypeInit, TypeStep, PTL DEF Spec

-----------------------------------------------------------------------------
(***************************************************************************)
(* FlashIntact, for any number of connections, when browsers take turns:   *)
(* what is flashed is what one upload has stored, however the connections  *)
(* that load pages, break off or are reset interfere with the variables    *)
(* that all of them share. Without turns it fails (run web_mixed).         *)
(***************************************************************************)
App == OpenOnly /\ OneUpload /\ UploadStored /\ DoneWhole /\ FlashIntact

\* With no upload under way, done or to be flashed, nothing is promised.
LEMMA Idle ==
  ASSUME OpenOnly', \A c \in Slot : conn'[c].state # "upload", ~postDone', ~ready'
  PROVE  App'
BY DEF App, OneUpload, UploadStored, DoneWhole, FlashIntact

\* A connection ends: its own upload, if it has one, is over, and that of
\* another one has to begin again or is refused.
LEMMA EndKeeps ==
  ASSUME Inv, NEW c \in Slot, NEW tcp \in TcpState, End(c, tcp),
         UNCHANGED <<boundary, storage, failed, postDone, upgrade>>
  PROVE  App'
<1>1. /\ found' = FALSE
      /\ conn'[c].state = "none"
      /\ \A d \in Slot : d # c => conn'[d] = conn[d]
  BY FreshIs, TcpStates DEF End, Inv, TypeOK
<1>2. OpenOnly'
  BY <1>1 DEF OpenOnly, Inv
<1>3. OneUpload'
  BY <1>1 DEF OneUpload, Inv, upgrade
<1>4. UploadStored'
  BY <1>1 DEF UploadStored, Stored, Inv, TypeOK, Connection, storage
<1>5. \A u \in Upload : Complete(u) => Complete(u)'
  BY DEF Complete, storage, upgrade
<1>6. DoneWhole'
  BY <1>1, <1>5 DEF DoneWhole, Inv
<1>7. FlashIntact'
  BY <1>5 DEF FlashIntact, Inv, upgrade
<1>. QED
  BY <1>2, <1>3, <1>4, <1>6, <1>7 DEF App

\* A connection without a request moves on: nothing is changed for the others.
LEMMA FreshKeeps ==
  ASSUME Inv, NEW c \in Slot, NEW tcp \in TcpState, conn[c].state = "none",
         conn' = [conn EXCEPT ![c] = Fresh(tcp)],
         UNCHANGED <<found, boundary, storage, failed, postDone, upgrade>>
  PROVE  App'
<1>1. /\ conn'[c].state = "none"
      /\ \A d \in Slot : d # c => conn'[d] = conn[d]
  BY FreshIs DEF Inv, TypeOK
<1>2. OpenOnly' /\ OneUpload'
  BY <1>1 DEF OpenOnly, OneUpload, Inv, upgrade
<1>3. UploadStored'
  BY <1>1 DEF UploadStored, Stored, Inv, storage, upgrade
<1>4. \A u \in Upload : Complete(u) => Complete(u)'
  BY DEF Complete, storage, upgrade
<1>5. DoneWhole' /\ FlashIntact'
  BY <1>1, <1>4 DEF DoneWhole, FlashIntact, Inv, upgrade
<1>. QED
  BY <1>2, <1>3, <1>5 DEF App

\* A connection that loads a page changes nothing that the others use, but
\* may clear data_start_found.
LEMMA PageKeeps ==
  ASSUME Inv, NEW c \in Slot, NEW k \in Connection, conn' = [conn EXCEPT ![c] = k],
         k.state = "file", k.tcp = "established", conn[c].state = "file" \/ ~postDone,
         found' \in {FALSE, found},
         UNCHANGED <<boundary, storage, failed, postDone, upgrade>>
  PROVE  App'
<1>1. /\ conn'[c] = k
      /\ \A d \in Slot : d # c => conn'[d] = conn[d]
  BY DEF Inv, TypeOK
<1>2. OpenOnly'
  BY <1>1 DEF OpenOnly, Inv
<1>3. OneUpload'
  BY <1>1 DEF OneUpload, Inv, upgrade
<1>4. UploadStored'
  <2>. SUFFICES ASSUME NEW d \in Slot, conn'[d].state = "upload" PROVE Stored(d)'
    BY DEF UploadStored
  <2>1. d # c /\ conn'[d] = conn[d] /\ Stored(d)
    BY <1>1 DEF UploadStored, Inv
  <2>2. CASE UNCHANGED found
    BY <2>1, <2>2 DEF Stored, storage, upgrade
  <2>3. CASE found' = FALSE
    <3>1. found => conn[d].got # 0
      BY <2>1 DEF Stored, Inv, TypeOK, Connection
    <3>2. found \in BOOLEAN
      BY DEF Inv, TypeOK
    <3>. QED
      BY <2>1, <2>3, <3>1, <3>2 DEF Stored, storage, upgrade
  <2>. QED
    BY <2>2, <2>3
<1>5. \A u \in Upload : Complete(u) => Complete(u)'
  BY DEF Complete, storage, upgrade
<1>6. DoneWhole'
  BY <1>1, <1>5 DEF DoneWhole, Inv
<1>7. FlashIntact'
  BY <1>5 DEF FlashIntact, Inv, upgrade
<1>. QED
  BY <1>2, <1>3, <1>4, <1>6, <1>7 DEF App

\* The first block is stored where the pointer of a new upload is.
LEMMA FirstChunkStores ==
  ASSUME TypeOK, NEW u \in Upload, FirstChunk(0, u)
  PROVE  /\ found' = TRUE /\ type' = u /\ dataPtr' = 1
         /\ ~failed' => u \in Accepted
         /\ \A i \in 1..1 : i \in DOMAIN ram' /\ ram'[i] = <<u, i>>
<1>1. Put(0, <<u, 1>>)
  BY DEF FirstChunk
<1>2. DOMAIN ram \subseteq Nat /\ \A j \in DOMAIN ram : ram[j] \in Content
  BY DEF TypeOK
<1>3. dataPtr' = 0 + 1 /\ DOMAIN ram' = DOMAIN ram \cup {0 + 1} /\ ram'[0 + 1] = <<u, 1>>
  BY <1>1, <1>2, PutWrites
<1>4. dataPtr' = 1 /\ 1 \in DOMAIN ram' /\ ram'[1] = <<u, 1>>
  BY <1>3
<1>5. \A i \in 1..1 : i = 1
  OBVIOUS
<1>6. ~failed' => u \in Accepted
  BY DEF FirstChunk, TypeOK
<1>. QED
  BY <1>4, <1>5, <1>6 DEF FirstChunk

LEMMA FirstIsStored ==
  ASSUME TypeOK, NEW c \in Slot, NEW u \in Upload, FirstChunk(0, u),
         conn'[c].post = u, conn'[c].got = 1
  PROVE  Stored(c)'
<1>1. found' = TRUE /\ type' = u /\ dataPtr' = 1
  BY FirstChunkStores
<1>2. ~failed' => u \in Accepted
  BY FirstChunkStores
<1>3. \A i \in 1..1 : i \in DOMAIN ram' /\ ram'[i] = <<u, i>>
  BY FirstChunkStores
<1>4. \A i \in 1..conn'[c].got : i \in DOMAIN ram' /\ ram'[i] = <<conn'[c].post, i>>
  BY <1>3
<1>. QED
  BY <1>1, <1>2, <1>4 DEF Stored

LEMMA PostKeeps ==
  ASSUME Inv, Orderly, NEW c \in Slot, NEW u \in Upload, Post(c, u)
  PROVE  App'
<1>1. PICK n \in {0, 1} :
        /\ conn' = [conn EXCEPT ![c] = Receiving(u, n)]
        /\ \/ n = 1 /\ FirstChunk(0, u)
           \/ /\ n = 0 /\ dataPtr' = 0 /\ found' = FALSE
              /\ type' \in {type, u}
              /\ UNCHANGED <<ram, failed>>
  BY DEF Post
<1>2. Alone /\ UNCHANGED <<postDone, ready, xferSize>>
  BY DEF Post
<1>3. /\ conn'[c] = Receiving(u, n)
      /\ \A d \in Slot : d # c => conn'[d] = conn[d] /\ conn'[d].state # "upload"
  BY <1>1, <1>2 DEF Alone, Inv, TypeOK
<1>4. /\ Receiving(u, n).state = "upload" /\ Receiving(u, n).tcp = "established"
      /\ Receiving(u, n).post = u /\ Receiving(u, n).got = n
  BY DEF Receiving
<1>5. OpenOnly'
  BY <1>3, <1>4 DEF OpenOnly, Inv
<1>6. OneUpload'
  BY <1>2, <1>3 DEF OneUpload, Alone
<1>7. Stored(c)'
  <2>1. CASE n = 1 /\ FirstChunk(0, u)
    <3>1. conn'[c].post = u /\ conn'[c].got = 1
      BY <1>3, <1>4, <2>1
    <3>. QED
      BY <2>1, <3>1, FirstIsStored DEF Inv
  <2>2. CASE n = 0 /\ dataPtr' = 0 /\ found' = FALSE
    BY <2>2 DEF Stored
  <2>. QED
    BY <1>1, <2>1, <2>2
<1>8. UploadStored'
  BY <1>3, <1>7 DEF UploadStored
<1>9. DoneWhole' /\ FlashIntact'
  BY <1>2 DEF Alone, DoneWhole, FlashIntact
<1>. QED
  BY <1>5, <1>6, <1>8, <1>9 DEF App

LEMMA SecondPacketKeeps ==
  ASSUME Inv, NEW c \in Slot, NEW psh \in BOOLEAN, SecondPacket(c, psh)
  PROVE  App'
<1>1. /\ conn[c].state = "upload" /\ conn[c].tcp = "established" /\ ~found
      /\ conn[c].post \in Upload /\ conn[c] \in Connection
      /\ UNCHANGED <<boundary, postDone, ready, xferSize>>
  BY DEF SecondPacket, Uploading, Inv, TypeOK
<1>2. /\ ~postDone' /\ ~ready'
      /\ \A d \in Slot : d # c => conn[d].state # "upload"
  BY <1>1 DEF Inv, OneUpload
<1>3. CASE /\ MayFind(c)
           /\ FirstChunk(dataPtr, conn[c].post)
           /\ conn' = [conn EXCEPT ![c].got = 1]
  <2>1. /\ conn'[c] = [conn[c] EXCEPT !.got = 1]
        /\ \A d \in Slot : d # c => conn'[d] = conn[d]
    BY <1>3 DEF Inv, TypeOK
  <2>2. /\ conn'[c].state = "upload" /\ conn'[c].tcp = "established"
        /\ conn'[c].post = conn[c].post /\ conn'[c].got = 1
    BY <1>1, <2>1 DEF Connection
  <2>3. FirstChunk(0, conn[c].post)
    BY <1>1, <1>3 DEF MayFind, Inv, UploadStored, Stored
  <2>4. Stored(c)'
    BY <1>1, <2>2, <2>3, FirstIsStored DEF Inv
  <2>5. OpenOnly'
    BY <2>1, <2>2 DEF OpenOnly, Inv
  <2>6. OneUpload' /\ UploadStored'
    BY <1>2, <2>1, <2>4 DEF OneUpload, UploadStored
  <2>7. DoneWhole' /\ FlashIntact'
    BY <1>2 DEF DoneWhole, FlashIntact
  <2>. QED
    BY <2>5, <2>6, <2>7 DEF App
<1>4. CASE NotFound(c)
  <2>1. /\ conn'[c].state = "none"
        /\ \A d \in Slot : d # c => conn'[d] = conn[d]
    BY <1>4, FreshIs, TcpStates DEF NotFound, End, Inv, TypeOK
  <2>2. OpenOnly'
    BY <2>1 DEF OpenOnly, Inv
  <2>. QED
    BY <1>2, <2>1, <2>2, Idle
<1>. QED
  BY <1>3, <1>4 DEF SecondPacket

\* The next block is stored behind those that are there.
LEMMA DataStores ==
  ASSUME Inv, NEW c \in Slot, NEW psh \in BOOLEAN, Data(c, psh)
  PROVE  ~failed' =>
           /\ type' = conn[c].post /\ conn[c].post \in Accepted
           /\ dataPtr' = conn[c].got + 1
           /\ \A i \in 1..(conn[c].got + 1) : i \in DOMAIN ram' /\ ram'[i] = <<conn[c].post, i>>
<1>. SUFFICES ASSUME ~failed'
     PROVE  /\ type' = conn[c].post /\ conn[c].post \in Accepted
            /\ dataPtr' = conn[c].got + 1
            /\ \A i \in 1..(conn[c].got + 1) : i \in DOMAIN ram' /\ ram'[i] = <<conn[c].post, i>>
  OBVIOUS
<1>1. /\ conn[c].state = "upload" /\ found /\ ~failed /\ type' = type
      /\ conn[c].post \in Upload /\ conn[c].got \in Nat
  BY DEF Data, Uploading, Inv, TypeOK, Connection
<1>2. /\ conn[c].got >= 1 /\ dataPtr = conn[c].got
      /\ type = conn[c].post /\ conn[c].post \in Accepted
      /\ \A i \in 1..conn[c].got : i \in DOMAIN ram /\ ram[i] = <<conn[c].post, i>>
  BY <1>1 DEF Inv, UploadStored, Stored
<1>3. Put(conn[c].got, <<conn[c].post, conn[c].got + 1>>)
  BY <1>1, <1>2 DEF Data
<1>4. DOMAIN ram \subseteq Nat /\ \A j \in DOMAIN ram : ram[j] \in Content
  BY DEF Inv, TypeOK
<1>5. /\ dataPtr' = conn[c].got + 1
      /\ DOMAIN ram' = DOMAIN ram \cup {conn[c].got + 1}
      /\ ram'[conn[c].got + 1] = <<conn[c].post, conn[c].got + 1>>
      /\ \A j \in DOMAIN ram : j # conn[c].got + 1 => ram'[j] = ram[j]
  <2>1. conn[c].got + 1 \in Nat
    BY <1>1
  <2>. QED
    BY <1>1, <1>3, <1>4, <2>1, PutWrites
<1>6. ASSUME NEW i \in 1..(conn[c].got + 1)
      PROVE  i \in DOMAIN ram' /\ ram'[i] = <<conn[c].post, i>>
  <2>1. CASE i = conn[c].got + 1
    BY <1>5, <2>1
  <2>2. CASE i # conn[c].got + 1
    <3>1. i \in 1..conn[c].got
      BY <1>1, <2>2
    <3>. QED
      BY <1>2, <1>5, <2>2, <3>1
  <2>. QED
    BY <2>1, <2>2
<1>. QED
  BY <1>1, <1>2, <1>5, <1>6

LEMMA DataKeeps ==
  ASSUME Inv, NEW c \in Slot, NEW psh \in BOOLEAN, Data(c, psh)
  PROVE  App'
<1>1. /\ conn[c].state = "upload" /\ conn[c].tcp = "established" /\ found
      /\ conn[c] \in Connection /\ conn[c].post \in Upload
      /\ conn[c].got \in Nat /\ conn[c].got < Blocks[conn[c].post]
      /\ Blocks[conn[c].post] \in Nat
      /\ UNCHANGED <<boundary, failed, ready, type>>
  BY DEF Data, Uploading, Inv, TypeOK, Connection
<1>2. /\ ~postDone /\ ~ready'
      /\ \A d \in Slot : d # c => conn[d].state # "upload"
  BY <1>1 DEF Inv, OneUpload
<1>3. CASE /\ ~Last(c)
           /\ conn' = [conn EXCEPT ![c].got = @ + 1]
           /\ UNCHANGED <<found, postDone, xferSize>>
  <2>1. /\ conn'[c] = [conn[c] EXCEPT !.got = @ + 1]
        /\ \A d \in Slot : d # c => conn'[d] = conn[d]
    BY <1>3 DEF Inv, TypeOK
  <2>2. /\ conn'[c].state = "upload" /\ conn'[c].tcp = "established"
        /\ conn'[c].post = conn[c].post /\ conn'[c].got = conn[c].got + 1
    BY <1>1, <2>1 DEF Connection
  <2>3. Stored(c)'
    <3>1. ~failed' =>
            /\ type' = conn[c].post /\ conn[c].post \in Accepted
            /\ dataPtr' = conn[c].got + 1
            /\ \A i \in 1..(conn[c].got + 1) :
                 i \in DOMAIN ram' /\ ram'[i] = <<conn[c].post, i>>
      BY DataStores
    <3>2. found' /\ conn[c].got + 1 >= 1
      BY <1>1, <1>3
    <3>. QED
      BY <2>2, <3>1, <3>2 DEF Stored
  <2>4. OpenOnly'
    BY <2>1, <2>2 DEF OpenOnly, Inv
  <2>5. OneUpload' /\ UploadStored'
    BY <1>2, <1>3, <2>1, <2>3 DEF OneUpload, UploadStored
  <2>6. DoneWhole' /\ FlashIntact'
    BY <1>2, <1>3 DEF DoneWhole, FlashIntact
  <2>. QED
    BY <2>4, <2>5, <2>6 DEF App
<1>4. ASSUME NEW n \in 1..Pages, Last(c), postDone', xferSize' = Blocks[conn[c].post],
             conn' = [conn EXCEPT ![c] = Page(n)]
      PROVE  App'
  <2>1. /\ conn'[c].state = "file" /\ conn'[c].tcp = "established"
        /\ \A d \in Slot : d # c => conn'[d] = conn[d]
    BY <1>4, PageIs DEF Inv, TypeOK
  <2>2. conn[c].got + 1 = Blocks[conn[c].post]
    BY <1>1, <1>4 DEF Last
  <2>3. ASSUME NEW u \in Upload, u = conn[c].post, ~failed'
        PROVE  Complete(u)'
    <3>1. /\ type' = u /\ u \in Accepted
          /\ \A i \in 1..(conn[c].got + 1) : i \in DOMAIN ram' /\ ram'[i] = <<u, i>>
      BY <2>3, DataStores
    <3>. QED
      BY <1>4, <2>2, <2>3, <3>1 DEF Complete
  <2>4. OpenOnly'
    BY <2>1 DEF OpenOnly, Inv
  <2>5. OneUpload' /\ UploadStored'
    BY <1>2, <2>1 DEF OneUpload, UploadStored
  <2>6. DoneWhole' /\ FlashIntact'
    BY <1>1, <1>2, <2>3 DEF DoneWhole, FlashIntact
  <2>. QED
    BY <2>4, <2>5, <2>6 DEF App
<1>. QED
  BY <1>3, <1>4 DEF Data

LEMMA AckedKeeps ==
  ASSUME Inv, NEW c \in Slot, Acked(c)
  PROVE  App'
<1>1. /\ conn[c].state = "file" /\ conn[c].tcp = "established" /\ conn[c] \in Connection
      /\ UNCHANGED <<boundary, storage, type, xferSize>>
  BY DEF Acked, Inv, TypeOK, OpenOnly
<1>2. CASE /\ conn[c].left > 1
           /\ conn' = [conn EXCEPT ![c].left = @ - 1]
           /\ UNCHANGED <<found, failed, postDone, ready>>
  <2>. DEFINE k == [conn[c] EXCEPT !.left = @ - 1]
  <2>1. conn' = [conn EXCEPT ![c] = k]
    BY <1>2
  <2>2. k \in Connection /\ k.state = "file" /\ k.tcp = "established"
    BY <1>1, <1>2 DEF Connection
  <2>3. UNCHANGED <<found, boundary, storage, failed, postDone, upgrade>>
    BY <1>1, <1>2 DEF upgrade
  <2>. HIDE DEF k
  <2>. QED
    BY <1>1, <2>1, <2>2, <2>3, PageKeeps
<1>3. CASE /\ ready' = (ready \/ (postDone /\ ~failed))
           /\ failed' = (failed /\ ~postDone)
           /\ postDone' = FALSE
           /\ End(c, "finWait")
  <2>1. /\ found' = FALSE /\ conn'[c].state = "none"
        /\ \A d \in Slot : d # c => conn'[d] = conn[d]
    BY <1>3, FreshIs, TcpStates DEF End, Inv, TypeOK
  <2>2. \A u \in Upload : Complete(u) => Complete(u)'
    BY <1>1 DEF Complete, storage
  <2>3. OpenOnly'
    BY <2>1 DEF OpenOnly, Inv
  <2>4. OneUpload'
    BY <1>3, <2>1 DEF OneUpload, Inv
  <2>5. UploadStored'
    BY <1>1, <2>1 DEF UploadStored, Stored, Inv, TypeOK, Connection, storage
  <2>6. DoneWhole'
    BY <1>3 DEF DoneWhole
  <2>7. FlashIntact'
    BY <1>1, <1>3, <2>2 DEF FlashIntact, DoneWhole, Inv
  <2>. QED
    BY <2>3, <2>4, <2>5, <2>6, <2>7 DEF App
<1>. QED
  BY <1>2, <1>3 DEF Acked

\* Whether ctrl-C was pressed or the upgrade failed: what was done but not
\* acknowledged stays so, and no page is left whose acknowledgement is due.
LEMMA RestartKeeps ==
  ASSUME Inv, Restart
  PROVE  App'
<1>1. /\ \A c \in Slot : conn'[c].state = "none"
      /\ ~ready'
  BY RestartTyped DEF Restart, Inv
<1>. QED
  BY <1>1 DEF App, OpenOnly, OneUpload, UploadStored, DoneWhole, FlashIntact

LEMMA PacketKeeps ==
  ASSUME Inv, Orderly, NEW c \in Slot, Packet(c)
  PROVE  App'
<1>1. CASE Connect(c)
  BY <1>1, EndKeeps, TcpStates DEF Connect
<1>2. CASE \E psh \in BOOLEAN : Get(c, psh) \/ SetBootDev(c, psh)
  <2>1. PICK n \in 1..Pages : conn' = [conn EXCEPT ![c] = Page(n)]
    BY <1>2 DEF Get, SetBootDev
  <2>2. ~postDone
    BY <1>2 DEF Get, SetBootDev, Asked, Passed
  <2>3. /\ found' \in {FALSE, found}
        /\ UNCHANGED <<boundary, storage, failed, postDone, upgrade>>
    BY <1>2 DEF Get, SetBootDev
  <2>. QED
    BY <2>1, <2>2, <2>3, PageIs, PageKeeps
<1>3. CASE BadRequest(c)
  BY <1>3, EndKeeps, TcpStates DEF BadRequest
<1>4. CASE \E u \in Upload : Post(c, u)
  BY <1>4, PostKeeps
<1>5. CASE \E psh \in BOOLEAN : SecondPacket(c, psh) \/ Data(c, psh)
  BY <1>5, SecondPacketKeeps, DataKeeps
<1>6. CASE Acked(c)
  BY <1>6, AckedKeeps
<1>7. CASE Fin(c)
  <2>1. CASE conn[c].out = "no" /\ End(c, "lastAck")
    BY <1>7, <2>1, EndKeeps, TcpStates DEF Fin
  <2>2. CASE /\ conn[c].out = "yes"
             /\ conn' = [conn EXCEPT ![c].out = "deaf"]
             /\ UNCHANGED found
    <3>1. /\ conn[c] \in Connection /\ conn[c].tcp = "established"
          /\ \A d \in Slot : d # c => conn'[d] = conn[d]
          /\ conn'[c] = [conn[c] EXCEPT !.out = "deaf"]
      BY <1>7, <2>2 DEF Fin, Inv, TypeOK
    <3>2. \A d \in Slot : /\ conn'[d].state = conn[d].state /\ conn'[d].tcp = conn[d].tcp
                          /\ conn'[d].post = conn[d].post /\ conn'[d].got = conn[d].got
      BY <3>1 DEF Connection
    <3>3. UNCHANGED <<found, boundary, storage, failed, postDone, upgrade>>
      BY <1>7, <2>2 DEF Fin
    <3>4. \A u \in Upload : Complete(u) => Complete(u)'
      BY <3>3 DEF Complete, storage, upgrade
    <3>5. OpenOnly' /\ OneUpload'
      BY <3>2, <3>3 DEF OpenOnly, OneUpload, Inv, upgrade
    <3>6. UploadStored'
      BY <3>2, <3>3 DEF UploadStored, Stored, Inv, storage, upgrade
    <3>7. DoneWhole' /\ FlashIntact'
      BY <3>2, <3>3, <3>4 DEF DoneWhole, FlashIntact, Inv, upgrade
    <3>. QED
      BY <3>5, <3>6, <3>7 DEF App
  <2>. QED
    BY <1>7, <2>1, <2>2 DEF Fin
<1>8. CASE Closed(c)
  <2>1. PICK tcp \in TcpState : End(c, tcp)
    BY <1>8, TcpStates DEF Closed
  <2>. QED
    BY <1>8, <2>1, EndKeeps DEF Closed
<1>9. CASE Rst(c)
  BY <1>9, EndKeeps, TcpStates DEF Rst
<1>10. CASE Syn(c)
  <2>1. "synRcvd" \in TcpState
    BY DEF TcpState
  <2>2. conn[c].state = "none"
    BY <1>10 DEF Syn, Inv, OpenOnly
  <2>. QED
    BY <1>10, <2>1, <2>2, FreshKeeps DEF Syn
<1>11. CASE TimeWait(c)
  <2>1. conn[c].state = "none"
    BY <1>11 DEF TimeWait, Inv, OpenOnly
  <2>. QED
    BY <1>11, <2>1, FreshKeeps, TcpStates DEF TimeWait
<1>. QED
  BY <1>1, <1>2, <1>3, <1>4, <1>5, <1>6, <1>7, <1>8, <1>9, <1>10, <1>11 DEF Packet

LEMMA InvInit == Init => Inv
<1>. SUFFICES ASSUME Init PROVE Inv
  OBVIOUS
<1>1. \A c \in Slot : conn[c].state = "none"
  BY FreshIs, TcpStates DEF Init
<1>. QED
  BY <1>1, TypeInit DEF Init, Inv, OpenOnly, OneUpload, UploadStored, DoneWhole, FlashIntact

LEMMA InvStep == Orderly /\ Inv /\ [Next]_vars => Inv'
<1>. SUFFICES ASSUME Orderly, Inv, [Next]_vars PROVE Inv'
  OBVIOUS
<1>1. TypeOK'
  BY TypeStep DEF Inv
<1>2. ASSUME NEW c \in Slot, Packet(c) PROVE App'
  BY <1>2, PacketKeeps
<1>3. ASSUME UpgradeFails \/ CtrlC PROVE App'
  <2>1. Restart
    BY <1>3 DEF UpgradeFails, CtrlC
  <2>. QED
    BY <2>1, RestartKeeps
<1>4. ASSUME Upgraded PROVE App'
  <2>1. \A c \in Slot : conn'[c].state = "none"
    BY <1>4, FreshIs, TcpStates DEF Upgraded
  <2>2. ~postDone' /\ ~ready'
    BY <1>4 DEF Upgraded
  <2>. QED
    BY <2>1, <2>2, Idle DEF OpenOnly
<1>5. ASSUME UNCHANGED vars PROVE App'
  <2>1. App
    BY DEF Inv, App
  <2>. QED
    BY <1>5, <2>1 DEF vars, storage, upgrade, App, OpenOnly, OneUpload, UploadStored, Stored,
                      DoneWhole, FlashIntact, Complete
<1>6. App'
  BY <1>2, <1>3, <1>4, <1>5 DEF Next
<1>. QED
  BY <1>1, <1>6 DEF Inv, App

(* FlashIntact is always true when browsers take turns.                    *)
THEOREM FlashedWhole ==
  ASSUME Orderly
  PROVE  Spec => []FlashIntact
<1>1. Inv /\ [Next]_vars => Inv'
  BY InvStep
<1>2. Inv => FlashIntact
  BY DEF Inv
<1>. QED
  BY <1>1, <1>2, InvInit, PTL DEF Spec

=============================================================================
