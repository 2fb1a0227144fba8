--------------------------- MODULE NetLoopProofs ---------------------------
(***************************************************************************)
(* NetLoop for any number of devices, any subset of them with addresses,   *)
(* every setting of netretry and every timer: types, and that no device    *)
(* but the current one is running. The latter is inductive: eth_halt       *)
(* before each change of the current device leaves none running, and       *)
(* eth_init starts at most the one that it leaves current.                 *)
(***************************************************************************)
EXTENDS NetLoop, TLAPS

LEMMA Remainder ==
  ASSUME NEW k \in Nat, NEW n \in Nat \ {0}
  PROVE  k % n \in 0..(n - 1)
OBVIOUS

LEMMA AfterIsDev == \A d \in Dev, k \in 0..(NDev + 1) : After(d, k) \in Dev
<1>. SUFFICES ASSUME NEW d \in Dev, NEW k \in 0..(NDev + 1) PROVE After(d, k) \in Dev
  OBVIOUS
<1>1. d + k \in Nat /\ NDev \in Nat \ {0}
  BY NetAssumption DEF Dev
<1>. QED
  BY <1>1, Remainder DEF After, Dev

LEMMA FailuresBounded == Failures \subseteq 0..NDev
BY NetAssumption DEF Failures

(* eth_init returns with a device of the list current and, if any, running. *)
LEMMA EthInitDevices ==
  ASSUME NEW d \in Dev, NEW up, NEW used \in SUBSET Dev, NEW k \in Failures,
         EthInit(d, up, used, k)
  PROVE  /\ cur' \in Dev /\ tried' \subseteq Dev
         /\ up = {} => active' \subseteq {cur'}
<1>1. k \in 0..NDev
  BY FailuresBounded
<1>2. k \in Nat /\ NDev \in Nat /\ \A i \in 0..(k - 1) : i \in 0..(NDev + 1)
  BY <1>1, NetAssumption
<1>3. After(d, k) \in Dev /\ \A i \in 0..(k - 1) : After(d, i) \in Dev
  BY <1>1, <1>2, AfterIsDev
<1>. QED
  BY <1>3 DEF EthInit

(* NetStartAgain: one of the devices is current, and only it runs. *)
LEMMA StartAgainDevices ==
  ASSUME cur \in Dev, OnlyCurrentActive, NEW used \in SUBSET Dev, NEW t, tried \subseteq Dev,
         NetStartAgain(used, t)
  PROVE  /\ cur' \in Dev /\ tried' \subseteq Dev
         /\ OnlyCurrentActive'
<1>1. Halted = {}
  BY DEF OnlyCurrentActive, Halted
<1>2. CASE netretry = "no"
  BY <1>1, <1>2 DEF NetStartAgain, OnlyCurrentActive
<1>3. CASE netretry # "no"
  <2>1. PICK k \in Failures : EthInit(After(cur, 1), Halted, used, k)
    BY <1>3 DEF NetStartAgain
  <2>2. After(cur, 1) \in Dev
    BY AfterIsDev, NetAssumption
  <2>. QED
    BY <1>1, <2>1, <2>2, EthInitDevices DEF OnlyCurrentActive
<1>. QED
  BY <1>2, <1>3

(* The types that the rotation depends on. *)
DevicesOK == cur \in Dev /\ tried \subseteq Dev

Inv == DevicesOK /\ OnlyCurrentActive

LEMMA InvInit == Init => Inv
BY NetAssumption DEF Init, Inv, DevicesOK, OnlyCurrentActive, Dev

LEMMA InvStep == Inv /\ [Next]_vars => Inv'
<1>. SUFFICES ASSUME Inv, [Next]_vars PROVE Inv'
  OBVIOUS
<1>. USE DEF Inv
<1>1. Halted = {}
  BY DEF OnlyCurrentActive, Halted
<1>2. CASE Call
  <2>1. PICK k \in Failures : EthInit(0, Halted, {}, k)
    BY <1>2 DEF Call
  <2>2. 0 \in Dev
    BY NetAssumption DEF Dev
  <2>. QED
    BY <1>1, <2>1, <2>2, EthInitDevices DEF OnlyCurrentActive, DevicesOK
<1>3. CASE NoAddress \/ ProtoStartsAgain
  <2>1. PICK used \in SUBSET Dev : NetStartAgain(used, timer)
    <3>1. tried \cup {cur} \in SUBSET Dev /\ tried \in SUBSET Dev
      BY DEF DevicesOK
    <3>. QED
      BY <1>3, <3>1 DEF NoAddress, ProtoStartsAgain
  <2>. QED
    BY <2>1, StartAgainDevices DEF DevicesOK
<1>4. CASE ArpTimeoutCheck
  <2>1. CASE NetStartAgain(tried, timer)
    BY <2>1, StartAgainDevices DEF DevicesOK
  <2>2. CASE ~NetStartAgain(tried, timer)
    BY <1>4, <2>2 DEF ArpTimeoutCheck, devices, DevicesOK, OnlyCurrentActive
  <2>. QED
    BY <2>1, <2>2
<1>5. CASE Start
  BY <1>5 DEF Start, devices, DevicesOK, OnlyCurrentActive
<1>6. CASE PrereqFails \/ Abort \/ Succeed
  BY <1>1, <1>6 DEF PrereqFails, Abort, Succeed, DevicesOK, OnlyCurrentActive
<1>7. CASE ProtoTimeout \/ StartAgainTimeout
  <2>1. CASE NetStartAgain(tried, NoTimer)
    BY <2>1, StartAgainDevices DEF DevicesOK
  <2>2. CASE ~NetStartAgain(tried, NoTimer)
    BY <1>1, <1>7, <2>2 DEF ProtoTimeout, StartAgainTimeout, devices, DevicesOK, OnlyCurrentActive
  <2>. QED
    BY <2>1, <2>2
<1>8. CASE ArpReply \/ ProtoPacket \/ RxDone \/ TimerPending \/ Continue \/ Restart \/ Fail \/ Tick
  BY <1>8 DEF ArpReply, ProtoPacket, RxDone, TimerPending, Continue, Restart, Fail, Tick,
     devices, DevicesOK, OnlyCurrentActive
<1>9. CASE UNCHANGED vars
  BY <1>9 DEF vars, devices, DevicesOK, OnlyCurrentActive
<1>. QED
  BY <1>2, <1>3, <1>4, <1>5, <1>6, <1>7, <1>8, <1>9 DEF Next, Loop, Packet

(* The devices share their receive buffers: no other than the current one  *)
(* is ever left running.                                                   *)
THEOREM OnlyCurrentRuns == Spec => []OnlyCurrentActive
<1>1. Inv => OnlyCurrentActive
  BY DEF Inv
<1>. QED
  BY <1>1, InvInit, InvStep, PTL DEF Spec

(* Every variable keeps its type: the counters stay within their bounds    *)
(* and the rotation within the list of devices.                            *)
LEMMA StartAgainType ==
  ASSUME TypeOK, NEW used \in SUBSET Dev, NEW t,
         t \in [fn : {"none", "proto", "startAgain"}, left : 0..MaxTime],
         NetStartAgain(used, t)
  PROVE  /\ cur' \in Dev /\ active' \subseteq Dev /\ tried' \subseteq Dev
         /\ firstFailed' \in Dev \cup {NoDev} /\ wrap' \in BOOLEAN
         /\ netState' \in {"continue", "restart", "success", "fail", "refused"}
         /\ timer' \in [fn : {"none", "proto", "startAgain"}, left : 0..MaxTime]
         /\ handler' \in {"proto", "ignore"}
<1>1. Halted \subseteq Dev
  BY DEF Halted, TypeOK
<1>2. CASE netretry = "no"
  BY <1>1, <1>2 DEF NetStartAgain, TypeOK
<1>3. CASE netretry # "no"
  <2>1. PICK k \in Failures : EthInit(After(cur, 1), Halted, used, k)
    BY <1>3 DEF NetStartAgain
  <2>2. After(cur, 1) \in Dev /\ After(After(cur, 1), k) \in Dev
    <3>1. 1 \in 0..(NDev + 1) /\ k \in 0..(NDev + 1)
      BY FailuresBounded, NetAssumption
    <3>. QED
      BY <3>1, AfterIsDev DEF TypeOK
  <2>3. cur' \in Dev /\ tried' \subseteq Dev /\ active' \subseteq Dev
    BY <1>1, <2>1, <2>2, EthInitDevices DEF EthInit
  <2>4. StartAgainTime \in 0..MaxTime
    BY NetAssumption DEF MaxTime
  <2>5. firstFailed' \in Dev \cup {NoDev} /\ wrap' \in BOOLEAN
    BY <1>3 DEF NetStartAgain, First, TypeOK
  <2>6. StartAgainTimer \in [fn : {"none", "proto", "startAgain"}, left : 0..MaxTime]
    BY <2>4 DEF StartAgainTimer
  <2>7. /\ netState' \in {netState, "restart", "fail"} /\ handler' \in {handler, "ignore"}
        /\ timer' \in {t, StartAgainTimer}
    BY <1>3 DEF NetStartAgain
  <2>. QED
    BY <2>3, <2>5, <2>6, <2>7 DEF TypeOK
<1>. QED
  BY <1>2, <1>3

LEMMA TypeInit == Init => TypeOK
<1>1. 0 \in Dev
  BY NetAssumption DEF Dev
<1>2. MaxTime \in Nat /\ ArpTime \in Nat /\ ArpCount \in Nat /\ MaxPackets \in Nat
  BY NetAssumption DEF MaxTime
<1>. QED
  <2>1. SUFFICES ASSUME Init PROVE TypeOK
    OBVIOUS
  <2>2. NoTimer \in [fn : {"none", "proto", "startAgain"}, left : 0..MaxTime]
    BY <1>2 DEF NoTimer
  <2>3. NoArp \in [pending : BOOLEAN, try : 0..ArpCount, left : 0..ArpTime]
    BY <1>2 DEF NoArp
  <2>4. 0 \in 0..MaxPackets
    BY <1>2
  <2>. QED
    BY <1>1, <2>1, <2>2, <2>3, <2>4 DEF Init, TypeOK

LEMMA TypeStep == TypeOK /\ [Next]_vars => TypeOK'
<1>. SUFFICES ASSUME TypeOK, [Next]_vars PROVE TypeOK'
  OBVIOUS
<1>1. MaxTime \in Nat /\ ProtoTime \in 0..MaxTime /\ StartAgainTime \in 0..MaxTime
  BY NetAssumption DEF MaxTime
<1>2. /\ ArpTime \in Nat \ {0} /\ ArpCount \in Nat \ {0} /\ MaxPackets \in Nat
      /\ 0 \in Dev /\ NDev \in Nat \ {0}
  BY NetAssumption DEF Dev
<1>3. /\ NoTimer \in [fn : {"none", "proto", "startAgain"}, left : 0..MaxTime]
      /\ ProtoTimer \in [fn : {"none", "proto", "startAgain"}, left : 0..MaxTime]
      /\ NoArp \in [pending : BOOLEAN, try : 0..ArpCount, left : 0..ArpTime]
      /\ ArpWait \in [pending : BOOLEAN, try : 0..ArpCount, left : 0..ArpTime]
  BY <1>1, <1>2 DEF NoTimer, ProtoTimer, NoArp, ArpWait
<1>4. Halted \subseteq Dev /\ tried \cup {cur} \subseteq Dev
  BY DEF Halted, TypeOK
<1>5. CASE Call
  <2>1. PICK k \in Failures :
          EthInit(0, Halted, {}, k) /\ wrap' = (wrap \/ firstFailed \in Passed(0, k))
          /\ undisturbed' = (undisturbed /\ k = 0)
    BY <1>5 DEF Call
  <2>2. After(0, k) \in Dev
    <3>1. k \in 0..(NDev + 1)
      BY FailuresBounded, NetAssumption
    <3>. QED
      BY <1>2, <3>1, AfterIsDev
  <2>3. cur' \in Dev /\ tried' \subseteq Dev /\ active' \subseteq Dev
    BY <1>2, <1>4, <2>1, <2>2, EthInitDevices DEF EthInit
  <2>. QED
    <3>1. wrap' \in BOOLEAN /\ undisturbed' \in BOOLEAN
      BY <2>1
    <3>2. packets' \in 0..MaxPackets
      BY <1>2, <1>5 DEF Call
    <3>. QED
      BY <1>3, <1>5, <2>3, <3>1, <3>2 DEF Call, TypeOK
<1>6. CASE Start
  BY <1>2, <1>3, <1>4, <1>6 DEF Start, TypeOK, devices
<1>7. CASE NoAddress
  <2>1. NetStartAgain(tried \cup {cur}, timer)
    BY <1>7 DEF NoAddress
  <2>. QED
    BY <1>4, <1>7, <2>1, StartAgainType DEF NoAddress, FirstInPass, TypeOK
<1>8. CASE PrereqFails \/ Abort \/ Succeed \/ Fail
  BY <1>4, <1>8 DEF PrereqFails, Abort, Succeed, Fail, Leave, TypeOK, devices
<1>9. CASE ArpReply
  BY <1>2, <1>3, <1>9 DEF ArpReply, Receiving, TypeOK, devices
<1>10. CASE ProtoPacket
  BY <1>2, <1>3, <1>10 DEF ProtoPacket, Receiving, TypeOK, devices
<1>11. CASE ProtoStartsAgain
  <2>1. NetStartAgain(tried, timer) /\ packets' \in 0..MaxPackets
    BY <1>2, <1>11 DEF ProtoStartsAgain, Receiving, TypeOK
  <2>. QED
    BY <1>4, <1>11, <2>1, StartAgainType DEF ProtoStartsAgain, FirstInPass, TypeOK
<1>12. CASE RxDone \/ TimerPending \/ Continue \/ Restart
  <2>1. /\ UNCHANGED <<netretry, devices, devExists, timer, handler, arp, packets, tried, result, undisturbed>>
        /\ pc' \in {"arp", "switch", "rx", "restart"}
        /\ netState' \in {netState, "continue"} /\ (restarted' = restarted \/ restarted' = TRUE)
    BY <1>12 DEF RxDone, TimerPending, Continue, Restart
  <2>2. restarted' \in BOOLEAN
    BY <2>1 DEF TypeOK
  <2>. QED
    BY <2>1, <2>2 DEF TypeOK, devices
<1>13. CASE ArpTimeoutCheck
  <2>1. CASE ~ArpDue
    BY <1>13, <2>1 DEF ArpTimeoutCheck, TypeOK, devices
  <2>2. CASE ArpDue /\ arp.try + 1 < ArpCount
    <3>1. /\ arp' = [arp EXCEPT !.try = @ + 1, !.left = ArpTime]
          /\ pc' = "timer"
          /\ UNCHANGED <<netretry, restarted, devExists, packets, result, devices, netState, timer,
                         handler, tried, undisturbed>>
      <4>1. ~(arp.try + 1 >= ArpCount)
        BY <1>2, <2>2 DEF TypeOK
      <4>. QED
        BY <2>2, <4>1, <1>13 DEF ArpTimeoutCheck
    <3>2. arp.try + 1 \in 0..ArpCount /\ ArpTime \in 0..ArpTime
      BY <1>2, <2>2 DEF TypeOK
    <3>3. arp' \in [pending : BOOLEAN, try : 0..ArpCount, left : 0..ArpTime]
      BY <3>1, <3>2 DEF TypeOK
    <3>. QED
      BY <3>1, <3>3 DEF TypeOK, devices
  <2>3. CASE ArpDue /\ arp.try + 1 >= ArpCount
    <3>1. /\ arp' = [arp EXCEPT !.try = 0] /\ NetStartAgain(tried, timer) /\ FirstInPass
      BY <1>2, <1>13, <2>3 DEF ArpTimeoutCheck, TypeOK
    <3>2. arp' \in [pending : BOOLEAN, try : 0..ArpCount, left : 0..ArpTime]
      BY <1>2, <3>1 DEF TypeOK
    <3>. QED
      BY <1>4, <1>13, <3>1, <3>2, StartAgainType DEF ArpTimeoutCheck, FirstInPass, TypeOK
  <2>. QED
    BY <1>2, <2>1, <2>2, <2>3 DEF TypeOK
<1>14. CASE ProtoTimeout
  <2>1. CASE NetStartAgain(tried, NoTimer)
    BY <1>3, <1>4, <1>14, <2>1, StartAgainType DEF ProtoTimeout, Leave, TypeOK
  <2>2. CASE ~NetStartAgain(tried, NoTimer)
    BY <1>3, <1>4, <1>14, <2>2 DEF ProtoTimeout, Leave, TypeOK
  <2>. QED
    BY <2>1, <2>2
<1>15. CASE StartAgainTimeout
  BY <1>3, <1>15 DEF StartAgainTimeout, Leave, TypeOK, devices
<1>16. CASE Tick
  <2>1. /\ \A n \in 0..MaxTime : (IF n = 0 THEN 0 ELSE n - 1) \in 0..MaxTime
        /\ \A n \in 0..ArpTime : (IF n = 0 THEN 0 ELSE n - 1) \in 0..ArpTime
    BY <1>1, <1>2
  <2>2. /\ timer' = [timer EXCEPT !.left = IF @ = 0 THEN 0 ELSE @ - 1]
        /\ arp' = [arp EXCEPT !.left = IF @ = 0 THEN 0 ELSE @ - 1]
    BY <1>16 DEF Tick
  <2>3. /\ timer' \in [fn : {"none", "proto", "startAgain"}, left : 0..MaxTime]
        /\ arp' \in [pending : BOOLEAN, try : 0..ArpCount, left : 0..ArpTime]
    BY <2>1, <2>2 DEF TypeOK
  <2>. QED
    BY <1>16, <2>3 DEF Tick, TypeOK, devices
<1>17. CASE UNCHANGED vars
  BY <1>17 DEF vars, devices, TypeOK
<1>. QED
  BY <1>5, <1>6, <1>7, <1>8, <1>9, <1>10, <1>11, <1>12, <1>13, <1>14, <1>15, <1>16, <1>17
     DEF Next, Loop, Packet

(* Type correctness of the main loop, for any devices and timers.          *)
THEOREM TypeCorrect == Spec => []TypeOK
BY TypeInit, TypeStep, PTL DEF Spec

-----------------------------------------------------------------------------
(* NetStartAgain lets the loop go on only with the timer that it sets.     *)
LEMMA StartAgainArms ==
  ASSUME NEW used, NEW t, NetStartAgain(used, t), netState' = "continue"
  PROVE  devExists /\ timer'.fn = "startAgain" /\ handler' = "ignore"
<1>1. netretry # "no" /\ timer' = StartAgainTimer /\ handler' = "ignore" /\ devExists
  BY DEF NetStartAgain
<1>. QED
  BY <1>1 DEF StartAgainTimer

LEMMA ArmedStep == TypeOK /\ Armed /\ [Next]_vars => Armed'
<1>. SUFFICES ASSUME TypeOK, Armed, [Next]_vars PROVE Armed'
  OBVIOUS
<1>1. CASE Call \/ Restart
  BY <1>1 DEF Call, Restart, Armed
<1>2. CASE Start
  BY <1>2 DEF Start, ProtoTimer, Armed
<1>3. CASE \E used : NetStartAgain(used, timer) /\ UNCHANGED devExists
  <2>1. netState' = "continue" => devExists' /\ timer'.fn = "startAgain" /\ handler' = "ignore"
    BY <1>3, StartAgainArms
  <2>. QED
    BY <2>1 DEF Armed
<1>4. CASE PrereqFails \/ Abort \/ Succeed \/ Fail \/ ProtoTimeout \/ StartAgainTimeout
  BY <1>4 DEF PrereqFails, Abort, Succeed, Fail, ProtoTimeout, StartAgainTimeout, Leave, Armed
<1>5. CASE NoAddress \/ ProtoStartsAgain
  BY <1>3, <1>5 DEF NoAddress, ProtoStartsAgain
<1>6. CASE ArpTimeoutCheck
  <2>1. CASE UNCHANGED <<netState, timer, handler>>
    BY <1>6, <2>1 DEF ArpTimeoutCheck, Armed
  <2>. QED
    BY <1>3, <1>6, <2>1 DEF ArpTimeoutCheck
<1>7. CASE ProtoPacket
  BY <1>7 DEF ProtoPacket, Receiving, ProtoTimer, Armed
<1>8. CASE ArpReply \/ RxDone \/ TimerPending \/ Continue
  BY <1>8 DEF ArpReply, Receiving, RxDone, TimerPending, Continue, Armed
<1>9. CASE Tick
  <2>1. timer'.fn = timer.fn /\ UNCHANGED <<pc, netState, devExists, handler>>
    BY <1>9 DEF Tick, TypeOK
  <2>. QED
    BY <2>1 DEF Armed
<1>10. CASE UNCHANGED vars
  BY <1>10 DEF vars, Armed
<1>. QED
  BY <1>1, <1>2, <1>4, <1>5, <1>6, <1>7, <1>8, <1>9, <1>10 DEF Next, Loop, Packet

(* The loop never waits without the timer that ends the wait, whatever     *)
(* calls, packets and restarts came before.                                *)
THEOREM NeverWaitsInVain == Spec => []Armed
<1>1. Init => Armed
  BY DEF Init, Armed
<1>. QED
  BY <1>1, TypeInit, TypeStep, ArmedStep, PTL DEF Spec

-----------------------------------------------------------------------------
(***************************************************************************)
(* UndisturbedOnceTriesAll for any number of devices. The device current   *)
(* after a restart is the j-th after the one where the rotation began, and *)
(* all before it were tried: used, or found unusable by eth_init.          *)
(***************************************************************************)
LEMMA AfterIs ==
  \A d \in Dev, k \in 0..NDev : After(d, k) = IF d + k < NDev THEN d + k ELSE d + k - NDev
<1>. SUFFICES ASSUME NEW d \in Dev, NEW k \in 0..NDev
              PROVE After(d, k) = IF d + k < NDev THEN d + k ELSE d + k - NDev
  OBVIOUS
<1>1. NDev \in Nat \ {0} /\ d \in 0..(NDev - 1)
  BY NetAssumption DEF Dev
<1>2. CASE d + k < NDev
  <2>1. (d + k) % NDev = d + k
    BY <1>1, <1>2
  <2>. QED
    BY <1>2, <2>1 DEF After
<1>3. CASE d + k >= NDev
  <2>1. d + k - NDev \in 0..(NDev - 1)
    BY <1>1, <1>3
  <2>2. (d + k) % NDev = d + k - NDev
    BY <1>1, <1>3, <2>1
  <2>. QED
    BY <1>1, <1>3, <2>2 DEF After
<1>. QED
  BY <1>1, <1>2, <1>3

LEMMA AfterAdds ==
  ASSUME NEW d \in Dev, NEW a \in 0..NDev, NEW b \in 0..NDev, a + b <= NDev
  PROVE  After(After(d, a), b) = After(d, a + b)
<1>1. NDev \in Nat \ {0} /\ d \in 0..(NDev - 1) /\ Dev = 0..(NDev - 1) /\ a + b \in 0..NDev
  BY NetAssumption DEF Dev
<1>2. After(d, a) = IF d + a < NDev THEN d + a ELSE d + a - NDev
  BY AfterIs
<1>3. After(d, a) \in Dev
  BY <1>1, <1>2
<1>4. After(After(d, a), b) = IF After(d, a) + b < NDev THEN After(d, a) + b ELSE After(d, a) + b - NDev
  BY <1>3, AfterIs
<1>5. After(d, a + b) = IF d + (a + b) < NDev THEN d + (a + b) ELSE d + (a + b) - NDev
  BY <1>1, AfterIs
<1>. QED
  BY <1>1, <1>2, <1>4, <1>5

(* A rotation from d comes to every device before it is back at d.         *)
LEMMA FullTurn ==
  ASSUME NEW d \in Dev
  PROVE  /\ After(d, 0) = d /\ After(d, NDev) = d
         /\ \A j \in 1..(NDev - 1) : After(d, j) # d
         /\ \A e \in Dev : \E i \in 0..(NDev - 1) : After(d, i) = e
<1>1. NDev \in Nat \ {0} /\ d \in 0..(NDev - 1) /\ Dev = 0..(NDev - 1)
  BY NetAssumption DEF Dev
<1>2. After(d, 0) = d /\ After(d, NDev) = d /\ \A j \in 1..(NDev - 1) : After(d, j) # d
  BY <1>1, AfterIs
<1>3. ASSUME NEW e \in Dev PROVE \E i \in 0..(NDev - 1) : After(d, i) = e
  <2>1. CASE e >= d
    <3>1. e - d \in 0..(NDev - 1) /\ After(d, e - d) = e
      BY <1>1, <2>1, AfterIs
    <3>. QED
      BY <3>1
  <2>2. CASE e < d
    <3>1. e + NDev - d \in 0..(NDev - 1) /\ After(d, e + NDev - d) = e
      BY <1>1, <2>2, AfterIs
    <3>. QED
      BY <3>1
  <2>. QED
    BY <1>1, <2>1, <2>2
<1>. QED
  BY <1>2, <1>3

\* The current device is the j-th of the rotation; those before it were tried.
Rotated(j) ==
  cur = After(firstFailed, j) /\ \A i \in 0..(j - 1) : After(firstFailed, i) \in tried

Rotating == firstFailed \in Dev /\ \E j \in 1..(NDev - 1) : Rotated(j)

Rotation ==
  /\ cur \in Dev /\ tried \subseteq Dev
  /\ undisturbed => ~wrap
  /\ undisturbed /\ netretry = "once" =>
       /\ pc = "restart" => netState = "continue"
       /\ pc \notin {"idle", "restart"} /\ netState = "continue" => cur \in tried
       /\ pc # "idle" /\ ((restarted /\ netState = "continue") \/ netState = "restart") => Rotating
       /\ pc # "idle" /\ netState = "fail" => tried = Dev
       /\ pc = "idle" => result # "timeout" /\ (result = "fail" => tried = Dev)

LEMMA RotationInit == Init => Rotation
BY NetAssumption DEF Init, Rotation, Dev

(* NetStartAgain on a device that was tried takes the rotation on, past    *)
(* those that fail to initialise, or gives up after the full turn.         *)
LEMMA StartAgainRotates ==
  ASSUME cur \in Dev, ~wrap, netretry = "once", restarted => Rotating,
         NEW used \in SUBSET Dev, cur \in used, tried \subseteq used, NEW t,
         NetStartAgain(used, t)
  PROVE  \/ netState' = "restart" /\ Rotating'
         \/ netState' = "fail" /\ tried' = Dev
<1>1. NDev \in Nat \ {0}
  BY NetAssumption
<1>2. PICK k \in Failures :
        /\ EthInit(After(cur, 1), Halted, used, k)
        /\ IF First \in Passed(cur, k + 1) THEN netState' = "fail" ELSE netState' = "restart"
        /\ firstFailed' = First
  BY DEF NetStartAgain
<1>3. k \in 0..NDev /\ k \in Nat
  BY <1>1, FailuresBounded
<1>4. /\ cur' = After(After(cur, 1), k)
      /\ tried' = used \cup {After(After(cur, 1), i) : i \in 0..(k - 1)}
  BY <1>2 DEF EthInit
<1>5. After(cur, 1) \in Dev /\ tried' \subseteq Dev
  <2>1. 1 \in 0..(NDev + 1)
    BY <1>1
  <2>2. After(cur, 1) \in Dev
    BY <2>1, AfterIsDev
  <2>3. \A i \in 0..(k - 1) : i \in 0..(NDev + 1)
    BY <1>1, <1>3
  <2>. QED
    BY <1>4, <2>2, <2>3, AfterIsDev
<1>6. First \in Dev /\ \E j \in 0..(NDev - 1) :
         /\ cur = After(First, j)
         /\ \A i \in 0..j : After(First, i) \in used
  <2>1. CASE ~restarted
    <3>1. First = cur /\ cur = After(First, 0) /\ 0 \in 0..(NDev - 1)
      BY <1>1, <2>1, FullTurn DEF First
    <3>2. \A i \in 0..0 : After(First, i) \in used
      BY <3>1
    <3>. QED
      BY <3>1, <3>2
  <2>2. CASE restarted
    <3>1. First = firstFailed /\ Rotating
      BY <2>2 DEF First
    <3>2. PICK j \in 1..(NDev - 1) : Rotated(j)
      BY <3>1 DEF Rotating
    <3>3. \A i \in 0..j : i = j \/ i \in 0..(j - 1)
      BY <1>1
    <3>4. \A i \in 0..j : After(First, i) \in used
      BY <3>1, <3>2, <3>3 DEF Rotated
    <3>5. j \in 0..(NDev - 1)
      BY <1>1
    <3>. QED
      BY <3>1, <3>2, <3>4, <3>5 DEF Rotated, Rotating
  <2>. QED
    BY <2>1, <2>2
<1>7. PICK j \in 0..(NDev - 1) :
        cur = After(First, j) /\ \A i \in 0..j : After(First, i) \in used
  BY <1>6
<1>8. j \in Nat /\ j <= NDev - 1
  BY <1>1
<1>9. \A i \in Nat : j + i <= NDev => After(cur, i) = After(First, j + i)
  <2>1. SUFFICES ASSUME NEW i \in Nat, j + i <= NDev PROVE After(cur, i) = After(First, j + i)
    OBVIOUS
  <2>2. j \in 0..NDev /\ i \in 0..NDev
    BY <1>1, <1>8, <2>1
  <2>. QED
    BY <1>6, <1>7, <2>1, <2>2, AfterAdds
<1>10. \A i \in Nat : 1 + i <= NDev => After(After(cur, 1), i) = After(cur, i + 1)
  <2>1. SUFFICES ASSUME NEW i \in Nat, 1 + i <= NDev PROVE After(After(cur, 1), i) = After(cur, i + 1)
    OBVIOUS
  <2>2. 1 \in 0..NDev /\ i \in 0..NDev /\ 1 + i = i + 1
    BY <1>1, <2>1
  <2>. QED
    BY <2>1, <2>2, AfterAdds
<1>11. CASE j + k + 1 >= NDev
  <2>1. NDev - j \in Nat /\ j + (NDev - j) = NDev /\ NDev - j \in 1..(k + 1)
    BY <1>1, <1>3, <1>8, <1>11
  <2>2. After(cur, NDev - j) = First
    BY <1>1, <1>6, <1>9, <2>1, FullTurn
  <2>3. netState' = "fail"
    BY <1>2, <2>1, <2>2 DEF Passed
  <2>4. ASSUME NEW e \in Dev PROVE e \in tried'
    <3>1. PICK i \in 0..(NDev - 1) : After(First, i) = e
      BY <1>6, FullTurn
    <3>2. CASE i <= j
      <4>1. i \in 0..j
        BY <1>8, <3>2
      <4>. QED
        BY <1>4, <1>7, <3>1, <4>1
    <3>3. CASE i > j
      <4>1. /\ i - j \in Nat /\ i - j - 1 \in Nat /\ j + (i - j) = i /\ i <= NDev
            /\ 1 + (i - j - 1) <= NDev /\ (i - j - 1) + 1 = i - j
            /\ i - j - 1 \in 0..(k - 1)
        BY <1>1, <1>3, <1>8, <1>11, <3>3
      <4>2. After(After(cur, 1), i - j - 1) = After(cur, i - j)
        BY <1>10, <4>1
      <4>3. After(cur, i - j) = e
        BY <1>9, <3>1, <4>1
      <4>. QED
        BY <1>4, <4>1, <4>2, <4>3
    <3>. QED
      BY <1>8, <3>2, <3>3
  <2>. QED
    BY <1>5, <2>3, <2>4
<1>12. CASE j + k + 1 < NDev
  <2>1. ASSUME NEW i \in 1..(k + 1) PROVE After(cur, i) # First
    <3>1. i \in Nat /\ j + i <= NDev /\ j + i \in 1..(NDev - 1)
      BY <1>1, <1>3, <1>8, <1>12
    <3>. QED
      BY <1>6, <1>9, <3>1, FullTurn
  <2>2. netState' = "restart"
    BY <1>2, <2>1 DEF Passed
  <2>3. /\ j + (k + 1) <= NDev /\ 1 + k <= NDev /\ k + 1 \in Nat
        /\ j + (k + 1) \in 1..(NDev - 1)
    BY <1>1, <1>3, <1>8, <1>12
  <2>4. cur' = After(First, j + (k + 1))
    BY <1>3, <1>4, <1>9, <1>10, <2>3
  <2>5. ASSUME NEW i \in 0..((j + (k + 1)) - 1) PROVE After(First, i) \in tried'
    <3>1. CASE i <= j
      <4>1. i \in 0..j
        BY <1>8, <3>1
      <4>. QED
        BY <1>4, <1>7, <4>1
    <3>2. CASE i > j
      <4>1. /\ i - j \in Nat /\ i - j - 1 \in Nat /\ j + (i - j) = i /\ i <= NDev
            /\ 1 + (i - j - 1) <= NDev /\ (i - j - 1) + 1 = i - j
            /\ i - j - 1 \in 0..(k - 1)
        BY <1>1, <1>3, <1>8, <1>12, <3>2
      <4>2. After(After(cur, 1), i - j - 1) = After(cur, i - j)
        BY <1>10, <4>1
      <4>3. After(cur, i - j) = After(First, i)
        BY <1>9, <4>1
      <4>. QED
        BY <1>4, <4>1, <4>2, <4>3
    <3>. QED
      BY <1>8, <3>1, <3>2
  <2>6. Rotated(j + (k + 1))'
    BY <1>2, <2>4, <2>5 DEF Rotated, After
  <2>. QED
    BY <1>2, <1>6, <2>2, <2>3, <2>6 DEF Rotating
<1>. QED
  BY <1>1, <1>3, <1>8, <1>11, <1>12

(* The same, as the actions that call it use it.                           *)
LEMMA StartAgainKeeps ==
  ASSUME Rotation, NEW used \in SUBSET Dev, cur \in used, tried \subseteq used,
         NEW t, NetStartAgain(used, t), FirstInPass, pc # "idle", pc' # "idle", pc' # "restart",
         UNCHANGED netretry
  PROVE  Rotation'
<1>1. cur' \in Dev /\ tried' \subseteq Dev
  <2>1. CASE netretry = "no"
    BY <2>1 DEF NetStartAgain, Rotation
  <2>2. CASE netretry # "no"
    <3>1. PICK k \in Failures : EthInit(After(cur, 1), Halted, used, k)
      BY <2>2 DEF NetStartAgain
    <3>2. After(cur, 1) \in Dev
      BY AfterIsDev, NetAssumption DEF Rotation
    <3>. QED
      BY <3>1, <3>2, EthInitDevices
  <2>. QED
    BY <2>1, <2>2
<1>2. undisturbed' => undisturbed /\ netState = "continue" /\ ~wrap
  BY DEF FirstInPass, Rotation
<1>3. wrap' = wrap \/ ~wrap'
  BY DEF NetStartAgain
<1>4. undisturbed' /\ netretry = "once" =>
        \/ netState' = "restart" /\ Rotating'
        \/ netState' = "fail" /\ tried' = Dev
  BY <1>2, StartAgainRotates DEF Rotation
<1>. QED
  BY <1>1, <1>2, <1>3, <1>4 DEF Rotation

(* A step that leaves the rotation alone. *)
LEMMA RotationKept ==
  ASSUME Rotating, UNCHANGED <<cur, firstFailed>>, tried \subseteq tried'
  PROVE  Rotating'
BY DEF Rotating, Rotated, After

LEMMA RotationStep == Rotation /\ [Next]_vars => Rotation'
<1>. SUFFICES ASSUME Rotation, [Next]_vars PROVE Rotation'
  OBVIOUS
<1>1. CASE Call
  <2>1. 0 \in Dev
    BY NetAssumption DEF Dev
  <2>2. PICK k \in Failures :
          /\ EthInit(0, Halted, {}, k)
          /\ wrap' = (wrap \/ firstFailed \in Passed(0, k))
          /\ undisturbed' = (undisturbed /\ k = 0)
    BY <1>1 DEF Call
  <2>3. cur' \in Dev /\ tried' \subseteq Dev
    BY <2>1, <2>2, EthInitDevices
  <2>4. undisturbed' => ~wrap'
    <3>1. k = 0 => Passed(0, k) = {}
      <4>1. k = 0 => 1..k = {}
        OBVIOUS
      <4>. QED
        BY <4>1 DEF Passed
    <3>. QED
      BY <2>2, <3>1 DEF Rotation
  <2>. QED
    BY <1>1, <2>3, <2>4 DEF Call, Rotation
<1>2. CASE Start
  <2>1. /\ pc = "restart" /\ pc' = "rx" /\ tried' = tried \cup {cur}
        /\ UNCHANGED <<cur, wrap, firstFailed, netretry, restarted, netState, result, undisturbed>>
    BY <1>2 DEF Start, devices
  <2>2. Rotating => Rotating'
    BY <2>1, RotationKept
  <2>. QED
    BY <2>1, <2>2 DEF Rotation
<1>3. CASE NoAddress
  <2>1. tried \cup {cur} \in SUBSET Dev
    BY DEF Rotation
  <2>. QED
    BY <1>3, <2>1, StartAgainKeeps DEF NoAddress
<1>4. CASE ProtoStartsAgain \/ (ArpTimeoutCheck /\ NetStartAgain(tried, timer) /\ FirstInPass)
  <2>1. /\ pc \in {"rx", "arp"} /\ pc' \in {"rx", "arp", "timer"}
        /\ NetStartAgain(tried, timer) /\ FirstInPass /\ UNCHANGED netretry
    BY <1>4 DEF ProtoStartsAgain, ArpTimeoutCheck, Receiving
  <2>2. CASE cur \in tried
    BY <2>1, <2>2, StartAgainKeeps DEF Rotation
  <2>3. CASE cur \notin tried
    <3>1. ~(undisturbed' /\ netretry = "once")
      BY <2>1, <2>3 DEF Rotation, FirstInPass
    <3>2. undisturbed' => ~wrap'
      BY <2>1 DEF Rotation, FirstInPass, NetStartAgain
    <3>3. cur' \in Dev /\ tried' \subseteq Dev
      <4>1. CASE netretry = "no"
        BY <2>1, <4>1 DEF NetStartAgain, Rotation
      <4>2. CASE netretry # "no"
        <5>1. PICK k \in Failures : EthInit(After(cur, 1), Halted, tried, k)
          BY <2>1, <4>2 DEF NetStartAgain
        <5>2. After(cur, 1) \in Dev /\ tried \in SUBSET Dev
          BY AfterIsDev, NetAssumption DEF Rotation
        <5>. QED
          BY <5>1, <5>2, EthInitDevices
      <4>. QED
        BY <4>1, <4>2
    <3>. QED
      BY <2>1, <3>1, <3>2, <3>3 DEF Rotation
  <2>. QED
    BY <2>2, <2>3
<1>5. CASE ArpReply \/ ProtoPacket
  <2>1. /\ UNCHANGED <<cur, wrap, firstFailed, tried, netretry, restarted, result, pc, undisturbed>>
        /\ pc = "rx"
        /\ netState' \in {netState, "success", "refused"}
    BY <1>5 DEF ArpReply, ProtoPacket, Receiving, devices
  <2>2. Rotating => Rotating'
    BY <2>1, RotationKept
  <2>. QED
    BY <2>1, <2>2 DEF Rotation
<1>6. CASE RxDone \/ TimerPending \/ Continue \/ Tick
           \/ (ArpTimeoutCheck /\ ~(NetStartAgain(tried, timer) /\ FirstInPass))
  <2>1. /\ UNCHANGED <<cur, wrap, firstFailed, tried, netretry, restarted, result, netState, undisturbed>>
        /\ pc \in {"rx", "arp", "timer", "switch"} /\ pc' \in {"rx", "arp", "timer", "switch"}
    BY <1>6 DEF RxDone, TimerPending, Continue, Tick, ArpTimeoutCheck, devices
  <2>2. Rotating => Rotating'
    BY <2>1, RotationKept
  <2>. QED
    BY <2>1, <2>2 DEF Rotation
<1>7. CASE Restart
  <2>1. /\ UNCHANGED <<cur, wrap, firstFailed, tried, netretry, result, undisturbed>>
        /\ pc = "switch" /\ pc' = "restart" /\ netState = "restart" /\ netState' = "continue"
    BY <1>7 DEF Restart, devices
  <2>2. Rotating => Rotating'
    BY <2>1, RotationKept
  <2>. QED
    BY <2>1, <2>2 DEF Rotation
<1>8. CASE PrereqFails \/ Abort \/ Succeed \/ Fail
  <2>1. /\ UNCHANGED <<cur, wrap, tried, netretry, undisturbed>> /\ pc # "idle" /\ pc' = "idle"
        /\ result' # "timeout" /\ (result' = "fail" => netState = "fail")
    BY <1>8 DEF PrereqFails, Abort, Succeed, Fail, Leave, devices
  <2>. QED
    BY <2>1 DEF Rotation
<1>9. CASE ProtoTimeout \/ StartAgainTimeout
  <2>1. ~undisturbed'
    BY <1>9 DEF ProtoTimeout, StartAgainTimeout
  <2>2. cur' \in Dev /\ tried' \subseteq Dev
    <3>1. CASE NetStartAgain(tried, NoTimer) /\ netretry # "no"
      <4>1. PICK k \in Failures : EthInit(After(cur, 1), Halted, tried, k)
        BY <3>1 DEF NetStartAgain
      <4>2. After(cur, 1) \in Dev /\ tried \in SUBSET Dev
        BY AfterIsDev, NetAssumption DEF Rotation
      <4>. QED
        BY <4>1, <4>2, EthInitDevices
    <3>2. CASE ~(NetStartAgain(tried, NoTimer) /\ netretry # "no")
      BY <1>9, <3>2 DEF ProtoTimeout, StartAgainTimeout, NetStartAgain, devices, Rotation
    <3>. QED
      BY <3>1, <3>2
  <2>. QED
    BY <2>1, <2>2 DEF Rotation
<1>10. CASE UNCHANGED vars
  <2>1. Rotating => Rotating'
    BY <1>10, RotationKept DEF vars, devices
  <2>. QED
    BY <1>10, <2>1 DEF vars, devices, Rotation
<1>. QED
  BY <1>1, <1>2, <1>3, <1>4, <1>5, <1>6, <1>7, <1>8, <1>9, <1>10 DEF Next, Loop, Packet

(* netretry "once": a call that gives up has tried every device, of any    *)
(* number, with and without an address and whichever fail to initialise    *)
(* after a restart, until a call is disturbed.                             *)
THEOREM OnceTriesEveryDevice == Spec => []UndisturbedOnceTriesAll
<1>1. Rotation => UndisturbedOnceTriesAll
  BY DEF Rotation, UndisturbedOnceTriesAll, OnceTriesAll
<1>. QED
  BY <1>1, RotationInit, RotationStep, PTL DEF Spec
=============================================================================
