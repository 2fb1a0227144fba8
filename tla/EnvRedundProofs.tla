--------------------------- MODULE EnvRedundProofs ---------------------------
(***************************************************************************)
(* Proofs about EnvRedund for every set of contents: type correctness, the *)
(* backup copy, and the refinement of EnvStore.                            *)
(***************************************************************************)
EXTENDS EnvRedund, TLAPS

\* The copy in use while env_relocate_spec runs is a valid one.
ChosenValid ==
  /\ pc = "relocate" => (envValid # 0 => CrcOk(flash[cur])) /\ (envValid = 0 => cur = 1)
  /\ pc \in {"activate", "copy", "halted"} => CrcOk(flash[cur])

TypeInv == TypeOK /\ ChosenValid

USE DEF Area, Active, Obsolete, Erased

LEMMA OtherArea == ASSUME NEW a \in Area
                   PROVE  Other(a) \in Area /\ Other(a) # a /\ Area = {a, Other(a)}
  BY DEF Other

(* env_init chooses only a copy whose CRC matches.                         *)
LEMMA ChosenIsValid ==
  ASSUME NEW f \in [Area -> Copy]
  PROVE  /\ Chosen(f).valid \in 0..2
         /\ Chosen(f).addr \in 0..2
         /\ Chosen(f).valid # 0 <=> Chosen(f).addr # 0
         /\ Chosen(f).addr # 0 => Chosen(f).addr \in Area /\ CrcOk(f[Chosen(f).addr])
  BY DEF Chosen, ByFlags, Decision

(* What one flash operation may do to the sectors.                         *)
LEMMA OperateType ==
  ASSUME TypeOK, NEW a \in Area, NEW c \in Copy, NEW partial \in SUBSET Copy,
         NEW next, NEW onError, Operate(a, c, partial, next, onError)
  PROVE  /\ flash' \in [Area -> Copy]
         /\ flash'[Other(a)] = flash[Other(a)]
         /\ flash'[a] \in partial \cup {c, flash[a]}
         /\ \/ flash'[a] = c /\ pc' = next
            \/ pc' = onError
         /\ UNCHANGED <<cur, ram, rc>>
  BY OtherArea DEF Operate, TypeOK

(* A flag byte written to a copy changes neither its data nor its CRC.     *)
LEMMA WriteFlagType ==
  ASSUME TypeOK, NEW a \in Area, NEW byte \in {Active, Obsolete},
         NEW next, NEW onError, WriteFlag(a, byte, next, onError)
  PROVE  /\ flash' \in [Area -> Copy]
         /\ \A b \in Area : flash'[b].data = flash[b].data /\ flash'[b].crc = flash[b].crc
         /\ flash'[Other(a)] = flash[Other(a)]
         /\ \/ pc' = next /\ flash'[a].flags = Programmed(flash[a].flags, byte)
            \/ pc' = onError
         /\ flash'[a].flags \in {flash[a].flags, Programmed(flash[a].flags, byte)} \cup Tear
         /\ UNCHANGED <<cur, ram, rc>>
<1> DEFINE c == [flash[a] EXCEPT !.flags = Programmed(@, byte)]
           partial == IF byte = Active /\ flash[a].flags # Obsolete
                        THEN {[flash[a] EXCEPT !.flags = t] : t \in Tear} ELSE {}
<1>1. flash[a] \in Copy
  BY DEF TypeOK
<1>2. c \in Copy /\ c.data = flash[a].data /\ c.crc = flash[a].crc
      /\ c.flags = Programmed(flash[a].flags, byte)
  BY <1>1 DEF Copy, Programmed, Flag
<1>3. partial \in SUBSET Copy
      /\ \A p \in partial : p.data = flash[a].data /\ p.crc = flash[a].crc /\ p.flags \in Tear
  BY <1>1 DEF Copy, Flag
<1>4. Operate(a, c, partial, next, onError)
  BY DEF WriteFlag
<1> HIDE DEF c, partial
<1>5. /\ flash' \in [Area -> Copy]
      /\ flash'[Other(a)] = flash[Other(a)]
      /\ flash'[a] \in partial \cup {c, flash[a]}
      /\ \/ flash'[a] = c /\ pc' = next
         \/ pc' = onError
      /\ UNCHANGED <<cur, ram, rc>>
  BY <1>2, <1>3, <1>4, OperateType
<1> QED
  BY <1>2, <1>3, <1>5, OtherArea

-----------------------------------------------------------------------------
(* Every variable keeps its type: in particular only contents whose CRC    *)
(* matched are ever copied to RAM.                                         *)
LEMMA TypeInit == Init => TypeInv
  BY EnvAssumption DEF Init, TypeInv, TypeOK, ChosenValid, Copy, Flag, Image, PC, Booting

LEMMA TypeStep == TypeInv /\ [Next]_vars => TypeInv'
<1> SUFFICES ASSUME TypeInv, [Next]_vars PROVE TypeInv'
  OBVIOUS
<1> USE EnvAssumption DEF TypeInv, TypeOK, ChosenValid, PC, Booting, Saving
<1>1. CASE EnvInit
  BY <1>1, ChosenIsValid DEF EnvInit
<1>2. CASE RelocateDefault
  BY <1>2 DEF RelocateDefault, Image
<1>3. CASE RetireOther
  <2>1. CASE flash[new].flags # Obsolete /\ CrcOk(flash[new])
    BY <1>3, <2>1, WriteFlagType, OtherArea DEF RetireOther, IgnoreError, new, CrcOk
  <2>2. CASE ~(flash[new].flags # Obsolete /\ CrcOk(flash[new]))
    BY <1>3, <2>2 DEF RetireOther
  <2> QED BY <2>1, <2>2
<1>4. CASE ActivateChosen
  <2>1. CASE flash[cur].flags # Active /\ flash[cur].flags % 2 = 1
    BY <1>4, <2>1, WriteFlagType, OtherArea DEF ActivateChosen, IgnoreError, CrcOk
  <2>2. CASE ~(flash[cur].flags # Active /\ flash[cur].flags % 2 = 1)
    BY <1>4, <2>2 DEF ActivateChosen
  <2> QED BY <2>1, <2>2
<1>5. CASE CopyToRam
  BY <1>5 DEF CopyToRam, CrcOk
<1>6. CASE SetEnv
  BY <1>6 DEF SetEnv, Image
<1>7. CASE Unprotect
  BY <1>7 DEF Unprotect
<1>8. CASE EraseNew
  <2> DEFINE c == [data |-> Junk, crc |-> Junk, flags |-> Erased]
             partial == {[data |-> Junk, crc |-> Junk, flags |-> x] : x \in Flag}
  <2>1. new \in Area
    BY OtherArea DEF new
  <2>2. c \in Copy /\ partial \in SUBSET Copy
    BY <2>1 DEF Copy, Flag
  <2>3. Operate(new, c, partial, "data", "failed") /\ UNCHANGED envValid
    BY <1>8 DEF EraseNew
  <2> HIDE DEF c, partial
  <2>4. flash' \in [Area -> Copy] /\ UNCHANGED <<cur, ram, rc>> /\ pc' \in {"data", "failed"}
    BY <2>1, <2>2, <2>3 DEF Operate
  <2> QED BY <2>3, <2>4
<1>9. CASE WriteData
  <2> DEFINE c == [flash[new] EXCEPT !.data = ram.data]
             partial == {}
  <2>1. new \in Area
    BY OtherArea DEF new
  <2>2. c \in Copy /\ partial \in SUBSET Copy
    BY <2>1 DEF Copy, Flag
  <2>3. Operate(new, c, partial, "crc", "failed") /\ UNCHANGED envValid
    BY <1>9 DEF WriteData
  <2> HIDE DEF c, partial
  <2>4. flash' \in [Area -> Copy] /\ UNCHANGED <<cur, ram, rc>> /\ pc' \in {"crc", "failed"}
    BY <2>1, <2>2, <2>3 DEF Operate
  <2> QED BY <2>3, <2>4
<1>10. CASE WriteCrc
  <2> DEFINE c == [flash[new] EXCEPT !.crc = ram.crc]
             partial == {}
  <2>1. new \in Area
    BY OtherArea DEF new
  <2>2. c \in Copy /\ partial \in SUBSET Copy
    BY <2>1 DEF Copy, Flag
  <2>3. Operate(new, c, partial, "oldflag", "failed") /\ UNCHANGED envValid
    BY <1>10 DEF WriteCrc
  <2> HIDE DEF c, partial
  <2>4. flash' \in [Area -> Copy] /\ UNCHANGED <<cur, ram, rc>> /\ pc' \in {"oldflag", "failed"}
    BY <2>1, <2>2, <2>3 DEF Operate
  <2> QED BY <2>3, <2>4
<1>11. CASE RetireOld
  BY <1>11, WriteFlagType DEF RetireOld
<1>12. CASE ActivateNew
  BY <1>12, WriteFlagType, OtherArea DEF ActivateNew, new
<1>13. CASE SwapAndReturn
  BY <1>13, OtherArea DEF SwapAndReturn, new
<1>14. CASE ReturnError
  BY <1>14 DEF ReturnError
<1>15. CASE PowerCut
  BY <1>15 DEF PowerCut, Image
<1>16. CASE UNCHANGED vars
  BY <1>16 DEF vars
<1> QED
  BY <1>1, <1>2, <1>3, <1>4, <1>5, <1>6, <1>7, <1>8, <1>9, <1>10, <1>11, <1>12,
     <1>13, <1>14, <1>15, <1>16 DEF Next

(* Type correctness, whatever fails and whatever a torn flag byte holds.   *)
THEOREM TypeCorrect == Spec => []TypeOK
<1>1. TypeInv => TypeOK
  BY DEF TypeInv
<1> QED
  BY <1>1, TypeInit, TypeStep, PTL DEF Spec

-----------------------------------------------------------------------------
(* The backup copy. While U-Boot runs flash_addr points to a valid copy,   *)
(* saveenv erases only the other one, and the pointers are exchanged only  *)
(* when that one is valid too. The RAM copy has a CRC that fits unless a   *)
(* setenv overflowed.                                                      *)
BackupInv ==
  /\ TypeInv
  /\ AValidCopy(flash)
  /\ pc # "off" => CrcOk(flash[cur])
  /\ pc \in {"idle"} \cup Saving => ram.crc = ram.data
  /\ pc = "crc" => flash[new].data = ram.data
  /\ pc \in {"oldflag", "newflag", "swap"} => CrcOk(flash[new])

(* With a valid copy in flash an undecided env_init means that both are    *)
(* valid.                                                                  *)
LEMMA UndecidedBothValid ==
  ASSUME NEW f \in [Area -> Copy], AValidCopy(f), Chosen(f).valid = 0
  PROVE  CrcOk(f[1]) /\ CrcOk(f[2])
  BY DEF Chosen, ByFlags, Decision, AValidCopy

(* Only a copy's data and crc fields make it valid.                        *)
LEMMA SameValidity ==
  ASSUME NEW c, NEW d, c.data = d.data, c.crc = d.crc
  PROVE  CrcOk(c) <=> CrcOk(d)
  BY DEF CrcOk

LEMMA BackupStep ==
  ASSUME MayOverflow = FALSE, BackupInv, [Next]_vars
  PROVE  BackupInv'
<1>1. TypeInv'
  BY TypeStep DEF BackupInv
<1>2. new \in Area /\ new # cur /\ Area = {cur, new} /\ Other(new) = cur
  BY DEF BackupInv, TypeInv, TypeOK, new, Other
<1>3. flash \in [Area -> Copy] /\ cur \in Area /\ ram.data \in Env /\ pc \in PC /\ TypeOK
  BY DEF BackupInv, TypeInv, TypeOK
<1>4. CASE EnvInit
  <2>1. AValidCopy(flash) /\ flash' = flash /\ pc' = "relocate"
    BY <1>4 DEF EnvInit, BackupInv
  <2>2. CrcOk(flash[cur'])
    BY <1>3, <1>4, <2>1, ChosenIsValid, UndecidedBothValid DEF EnvInit
  <2> QED
    BY <1>1, <2>1, <2>2 DEF BackupInv, Saving, AValidCopy
<1>5. CASE RelocateDefault
  <2>1. flash' = flash /\ cur' = cur /\ pc' = "idle" /\ ram'.data = ram'.crc /\ pc = "relocate"
    BY <1>5 DEF RelocateDefault, Image
  <2> QED
    BY <1>1, <1>2, <2>1 DEF BackupInv, Saving, AValidCopy, new
<1>6. CASE RetireOther \/ ActivateChosen
  <2>1. /\ \A b \in Area : flash'[b].data = flash[b].data /\ flash'[b].crc = flash[b].crc
        /\ UNCHANGED <<cur, ram, rc>>
        /\ pc # "off" /\ pc' \in {"activate", "copy", "halted"}
    <3>1. CASE RetireOther
      BY <1>2, <1>3, <3>1, WriteFlagType DEF RetireOther, IgnoreError
    <3>2. CASE ActivateChosen
      BY <1>2, <1>3, <3>2, WriteFlagType DEF ActivateChosen, IgnoreError
    <3> QED BY <1>6, <3>1, <3>2
  <2>2. \A b \in Area : CrcOk(flash'[b]) <=> CrcOk(flash[b])
    BY <2>1, SameValidity
  <2> QED
    BY <1>1, <1>3, <2>1, <2>2 DEF BackupInv, Saving, AValidCopy
<1>7. CASE CopyToRam
  <2>1. flash' = flash /\ cur' = cur /\ pc = "copy" /\ pc' = "idle" /\ ram'.data = ram'.crc
    BY <1>7 DEF CopyToRam, BackupInv, CrcOk
  <2> QED
    BY <1>1, <2>1 DEF BackupInv, Saving, AValidCopy
<1>8. CASE SetEnv
  <2>1. flash' = flash /\ cur' = cur /\ pc = "idle" /\ pc' = "idle" /\ ram'.data = ram'.crc
    BY <1>8 DEF SetEnv, Image
  <2> QED
    BY <1>1, <2>1 DEF BackupInv, Saving, AValidCopy
<1>10. CASE Unprotect \/ ReturnError
  <2>1. UNCHANGED <<flash, cur, ram>> /\ pc \in {"idle", "failed"} /\ pc' \in {"idle", "erase", "failed"}
    BY <1>10 DEF Unprotect, ReturnError
  <2> QED
    BY <1>1, <2>1 DEF BackupInv, Saving, AValidCopy
<1>11. CASE EraseNew
  <2>1. /\ flash'[cur] = flash[cur] /\ UNCHANGED <<cur, ram, rc>>
        /\ pc = "erase" /\ pc' \in {"data", "failed"}
    BY <1>2, <1>3, <1>11 DEF EraseNew, Operate
  <2> QED
    BY <1>1, <1>3, <2>1 DEF BackupInv, Saving, AValidCopy
<1>12. CASE WriteData
  <2>1. /\ flash'[cur] = flash[cur] /\ UNCHANGED <<cur, ram, rc>>
        /\ pc = "data" /\ pc' \in {"crc", "failed"}
        /\ pc' = "crc" => flash'[new].data = ram.data
    BY <1>2, <1>3, <1>12 DEF WriteData, Operate, Copy
  <2> QED
    BY <1>1, <1>3, <2>1 DEF BackupInv, Saving, AValidCopy, new
<1>13. CASE WriteCrc
  <2>1. /\ flash'[cur] = flash[cur] /\ UNCHANGED <<cur, ram, rc>>
        /\ pc = "crc" /\ pc' \in {"oldflag", "failed"}
        /\ pc' = "oldflag" => flash'[new].data = ram.data /\ flash'[new].crc = ram.crc
    BY <1>2, <1>3, <1>13 DEF WriteCrc, Operate, Copy, BackupInv
  <2>2. ram.crc = ram.data
    BY <2>1 DEF BackupInv, Saving
  <2>3. pc' = "oldflag" => CrcOk(flash'[new])
    BY <1>3, <2>1, <2>2 DEF CrcOk
  <2> QED
    BY <1>1, <1>3, <2>1, <2>2, <2>3 DEF BackupInv, Saving, AValidCopy, new
<1>14. CASE RetireOld \/ ActivateNew
  <2>1. /\ \A b \in Area : flash'[b].data = flash[b].data /\ flash'[b].crc = flash[b].crc
        /\ UNCHANGED <<cur, ram, rc>>
        /\ pc \in {"oldflag", "newflag"} /\ pc' \in {"newflag", "swap", "failed"}
    <3>1. CASE RetireOld
      BY <1>2, <1>3, <3>1, WriteFlagType DEF RetireOld
    <3>2. CASE ActivateNew
      BY <1>2, <1>3, <3>2, WriteFlagType DEF ActivateNew
    <3> QED BY <1>14, <3>1, <3>2
  <2>2. \A b \in Area : CrcOk(flash'[b]) <=> CrcOk(flash[b])
    BY <2>1, SameValidity
  <2> QED
    BY <1>1, <1>2, <1>3, <2>1, <2>2 DEF BackupInv, Saving, AValidCopy, new
<1>15. CASE SwapAndReturn
  <2>1. flash' = flash /\ ram' = ram /\ cur' = new /\ pc = "swap" /\ pc' = "idle"
    BY <1>15 DEF SwapAndReturn
  <2> QED
    BY <1>1, <1>2, <2>1 DEF BackupInv, Saving, AValidCopy
<1>16. CASE PowerCut
  BY <1>1, <1>16 DEF PowerCut, BackupInv, Saving, AValidCopy
<1>17. CASE UNCHANGED vars
  BY <1>1, <1>17 DEF vars, BackupInv, AValidCopy, new
<1> QED
  BY <1>4, <1>5, <1>6, <1>7, <1>8, <1>10, <1>11, <1>12, <1>13, <1>14, <1>15,
     <1>16, <1>17 DEF Next

(* saveenv never erases the last valid copy, whatever flash operation      *)
(* fails, whatever a torn flag byte holds and even if the errors of        *)
(* env_relocate_spec are ignored, provided no setenv overflows.            *)
THEOREM BackupCopyKept ==
  ASSUME MayOverflow = FALSE
  PROVE  SpecProgrammed => []BackupCopy
<1>1. InitProgrammed => BackupInv
  BY TypeInit DEF InitProgrammed, Init, BackupInv, Saving
<1>2. BackupInv => BackupCopy
  BY DEF BackupInv, BackupCopy
<1> QED
  BY <1>1, <1>2, BackupStep, PTL DEF SpecProgrammed

(* The same as a promise of Spec, whose boards may also start erased.      *)
THEOREM BackupIsKept ==
  ASSUME MayOverflow = FALSE
  PROVE  Spec => BackupKept
<1>1. Init /\ AValidCopy(flash) => BackupInv
  BY TypeInit DEF Init, BackupInv, Saving
<1>2. BackupInv => BackupCopy
  BY DEF BackupInv, BackupCopy
<1> QED
  BY <1>1, <1>2, BackupStep, PTL DEF Spec, BackupKept

-----------------------------------------------------------------------------
(* The recovery. A flag byte torn while the chosen copy is activated may   *)
(* leave env_init undecided for a while; what makes the choice final is    *)
(* that the other copy was retired before.                                 *)
RecoverInv ==
  /\ TypeInv
  /\ pc = "relocate" /\ envValid # 0 => Chosen(flash).addr = cur
  /\ pc = "activate" =>
       \/ ~CrcOk(flash[new])
       \/ flash[new].flags = Obsolete /\ (flash[cur].flags = Obsolete => cur = 1)
  /\ pc = "copy" => Chosen(flash).addr = cur

(* env_init prefers the second of two good copies only by its flag.        *)
LEMMA SecondByFlag ==
  ASSUME NEW f \in [Area -> Copy], CrcOk(f[1]), CrcOk(f[2]), Chosen(f).addr = 2
  PROVE  f[2].flags # Obsolete
  BY DEF Chosen, ByFlags, Decision

(* A good copy beside a retired one is chosen once it is ACTIVE, or if it  *)
(* is the first.                                                           *)
LEMMA RetiredNotChosen ==
  ASSUME NEW f \in [Area -> Copy], NEW a \in Area, CrcOk(f[a]),
         \/ ~CrcOk(f[Other(a)])
         \/ /\ f[Other(a)].flags = Obsolete
            /\ f[a].flags = Active \/ (f[a].flags = Obsolete /\ a = 1)
  PROVE  Chosen(f).addr = a
  BY DEF Chosen, ByFlags, Decision, Other

LEMMA RetireOtherRecovers ==
  ASSUME MayIgnore = FALSE, RecoverInv, RetireOther
  PROVE  RecoverInv'
<1>1. TypeInv'
  BY TypeStep DEF RecoverInv, Next
<1>2. new \in Area /\ new # cur /\ Area = {cur, new} /\ Other(new) = cur
  BY DEF RecoverInv, TypeInv, TypeOK, new, Other
<1>3. /\ flash \in [Area -> Copy] /\ cur \in Area /\ TypeOK
      /\ pc = "relocate" /\ CrcOk(flash[cur]) /\ Chosen(flash).addr = cur
  BY DEF RecoverInv, TypeInv, ChosenValid, TypeOK, RetireOther
<1>4. CrcOk(flash[new]) => (flash[cur].flags = Obsolete => cur = 1)
  BY <1>2, <1>3, SecondByFlag
<1>5. /\ flash'[cur] = flash[cur] /\ cur' = cur
      /\ \/ pc' = "halted"
         \/ pc' = "activate" /\ (flash'[new].flags = Obsolete \/ ~CrcOk(flash'[new]))
      /\ CrcOk(flash'[new]) <=> CrcOk(flash[new])
  <2>1. CASE flash[new].flags # Obsolete /\ CrcOk(flash[new])
    <3>1. WriteFlag(new, Obsolete, "activate", "halted")
      BY <1>3, <2>1 DEF RetireOther, IgnoreError
    <3>2. /\ flash'[cur] = flash[cur] /\ cur' = cur
          /\ flash'[new].data = flash[new].data /\ flash'[new].crc = flash[new].crc
          /\ pc' = "halted" \/ (pc' = "activate" /\ flash'[new].flags = Obsolete)
      BY <1>2, <1>3, <3>1, WriteFlagType DEF Programmed
    <3> QED BY <3>2, SameValidity
  <2>2. CASE ~(flash[new].flags # Obsolete /\ CrcOk(flash[new]))
    BY <1>3, <2>2 DEF RetireOther
  <2> QED BY <2>1, <2>2
<1>6. new' = new
  BY <1>5 DEF new
<1>7. CASE pc' = "halted"
  BY <1>1, <1>7 DEF RecoverInv
<1>8. CASE pc' = "activate"
  <2>1. \/ ~CrcOk(flash'[new'])
        \/ flash'[new'].flags = Obsolete /\ (flash'[cur'].flags = Obsolete => cur' = 1)
    BY <1>4, <1>5, <1>6, <1>8
  <2> QED BY <1>1, <1>8, <2>1 DEF RecoverInv
<1> QED
  BY <1>5, <1>7, <1>8

LEMMA ActivateChosenRecovers ==
  ASSUME MayIgnore = FALSE, RecoverInv, ActivateChosen
  PROVE  RecoverInv'
<1>1. TypeInv'
  BY TypeStep DEF RecoverInv, Next
<1>2. new \in Area /\ new # cur /\ Area = {cur, new} /\ Other(cur) = new
  BY DEF RecoverInv, TypeInv, TypeOK, new, Other
<1>3. /\ flash \in [Area -> Copy] /\ cur \in Area /\ TypeOK
      /\ pc = "activate" /\ CrcOk(flash[cur])
      /\ \/ ~CrcOk(flash[new])
         \/ flash[new].flags = Obsolete /\ (flash[cur].flags = Obsolete => cur = 1)
  BY DEF RecoverInv, TypeInv, ChosenValid, TypeOK, ActivateChosen
<1>4. CASE flash[cur].flags # Active /\ flash[cur].flags % 2 = 1
  <2>1. WriteFlag(cur, Active, "copy", "halted")
    BY <1>3, <1>4 DEF ActivateChosen, IgnoreError
  <2>2. flash[cur].flags # Obsolete
    BY <1>4
  <2>3. /\ flash' \in [Area -> Copy] /\ flash'[new] = flash[new] /\ cur' = cur
        /\ flash'[cur].data = flash[cur].data /\ flash'[cur].crc = flash[cur].crc
        /\ pc' = "halted" \/ (pc' = "copy" /\ flash'[cur].flags = Active)
    BY <1>2, <1>3, <2>1, <2>2, WriteFlagType DEF Programmed
  <2>4. CrcOk(flash'[cur])
    BY <1>3, <2>3, SameValidity
  <2>5. pc' = "copy" => Chosen(flash').addr = cur
    BY <1>2, <1>3, <2>3, <2>4, RetiredNotChosen
  <2> QED BY <1>1, <2>3, <2>5 DEF RecoverInv
<1>5. CASE ~(flash[cur].flags # Active /\ flash[cur].flags % 2 = 1)
  <2>1. pc' = "copy" /\ UNCHANGED <<flash, cur>>
    BY <1>5 DEF ActivateChosen
  <2>2. flash[cur].flags = Active \/ flash[cur].flags = Obsolete
    <3>1. flash[cur].flags \in Flag
      BY <1>3 DEF Copy
    <3>2. \A t \in Tear : t % 2 = 1
      BY EnvAssumption
    <3>3. 255 % 2 = 1
      OBVIOUS
    <3> QED BY <1>5, <3>1, <3>2, <3>3 DEF Flag
  <2>3. Chosen(flash).addr = cur
    BY <1>2, <1>3, <2>2, RetiredNotChosen
  <2> QED BY <1>1, <2>1, <2>3 DEF RecoverInv
<1> QED BY <1>4, <1>5

LEMMA RecoverStep ==
  ASSUME MayIgnore = FALSE, RecoverInv, [Next]_vars
  PROVE  RecoverInv'
<1>1. TypeInv'
  BY TypeStep DEF RecoverInv
<1>2. CASE EnvInit
  <2>1. /\ flash' = flash /\ pc' = "relocate"
        /\ envValid' # 0 => cur' = Chosen(flash).addr
    BY <1>2 DEF EnvInit
  <2> QED BY <1>1, <2>1 DEF RecoverInv
<1>3. CASE RetireOther
  BY <1>3, RetireOtherRecovers
<1>4. CASE ActivateChosen
  BY <1>4, ActivateChosenRecovers
<1>5. CASE /\ pc \notin {"off", "relocate", "activate"}
           /\ pc' \in {"idle"} \cup Saving
  BY <1>1, <1>5 DEF RecoverInv, Saving
<1>6. CASE RelocateDefault \/ PowerCut
  BY <1>1, <1>6 DEF RelocateDefault, PowerCut, RecoverInv
<1>7. CASE UNCHANGED vars
  BY <1>1, <1>7 DEF vars, RecoverInv, new
<1>8. CASE \/ CopyToRam \/ SetEnv \/ Unprotect \/ EraseNew \/ WriteData \/ WriteCrc
           \/ RetireOld \/ ActivateNew \/ SwapAndReturn \/ ReturnError
  <2>1. /\ pc \in {"copy", "idle"} \cup Saving
        /\ pc' \in {"idle"} \cup Saving
    BY <1>8 DEF CopyToRam, SetEnv, Unprotect, EraseNew, WriteData, WriteCrc, RetireOld,
       ActivateNew, SwapAndReturn, ReturnError, Operate, WriteFlag, Saving
  <2> QED BY <1>5, <2>1 DEF Saving
<1> QED
  BY <1>2, <1>3, <1>4, <1>6, <1>7, <1>8 DEF Next

(* "recovered successfully": the copy that a recovery whose writes did not *)
(* fail puts in RAM is the one the next power-up chooses, whatever flag    *)
(* bytes an earlier power failure tore.                                    *)
THEOREM RecoveryIsFinal ==
  ASSUME MayIgnore = FALSE
  PROVE  Spec => []RecoveryLasts
<1>1. Init => RecoverInv
  BY TypeInit DEF Init, RecoverInv
<1>2. RecoverInv => RecoveryLasts
  BY DEF RecoverInv, TypeInv, TypeOK, RecoveryLasts, Loaded
<1> QED
  BY <1>1, <1>2, RecoverStep, PTL DEF Spec

-----------------------------------------------------------------------------
(* The refinement of EnvStore. Where saveenv is, the flags and the CRC     *)
(* fields of the two copies determine what env_init would choose.          *)
SaveInv ==
  /\ TypeInv
  /\ pc = "relocate" => /\ envValid = Chosen(flash).valid
                        /\ envValid # 0 => cur = Chosen(flash).addr
  /\ pc \in {"activate", "copy", "halted"} => Chosen(flash).addr = cur
  /\ pc = "activate" => ~CrcOk(flash[new]) \/ flash[new].flags = Obsolete
  /\ pc \in {"idle"} \cup Saving => ram.crc = ram.data
  /\ pc \in {"data", "crc", "oldflag", "newflag"} => flash[new].flags = Erased
  /\ pc \in {"data", "crc"} => flash[new].crc = Junk
  /\ pc = "crc" => flash[new].data = ram.data
  /\ pc \in {"oldflag", "newflag", "swap"} => CrcOk(flash[new]) /\ flash[new].data = ram.data
  /\ pc \in {"newflag", "swap"} => flash[cur].flags = Obsolete
  /\ pc = "swap" => flash[new].flags = Active

\* The contents of the copy in use.
InUse(f, a) == IF CrcOk(f[a]) THEN f[a].data ELSE Default

(* The assumptions under which saveenv is atomic: no overflow, flag bytes  *)
(* written atomically, and no ignored error.                               *)
Reliable == MayOverflow = FALSE /\ MayIgnore = FALSE /\ Tear = {}

(* While the copy a is in use and the other one is either invalid or holds *)
(* v, a power-up loads the contents of a or v.                             *)
LEMMA LoadsUsedOrSaved ==
  ASSUME Tear = {}, NEW f \in [Area -> Copy], NEW a \in Area, NEW v,
         CrcOk(f[Other(a)]) => f[Other(a)].data = v
  PROVE  Loaded(f) \in {InUse(f, a), v}
  BY DEF Chosen, ByFlags, Decision, Loaded, InUse, Copy, Flag, Other

(* With atomic flag bytes env_init decides whenever a copy is valid.       *)
LEMMA Decided ==
  ASSUME Tear = {}, NEW f \in [Area -> Copy], Chosen(f).valid = 0
  PROVE  ~CrcOk(f[1]) /\ ~CrcOk(f[2]) /\ Loaded(f) = Default
  BY ChosenIsValid DEF Chosen, ByFlags, Decision, Loaded, Copy, Flag

LEMMA LoadedIsEnv ==
  ASSUME NEW f \in [Area -> Copy]
  PROVE  Loaded(f) \in Env
  BY ChosenIsValid, EnvAssumption DEF Loaded, CrcOk

(* Retiring the copy that env_init did not choose, or activating the one   *)
(* it chose, does not change its choice.                                   *)
LEMMA RetireKeepsChoice ==
  ASSUME Tear = {}, NEW f \in [Area -> Copy], NEW g \in [Area -> Copy],
         NEW a \in Area, Chosen(f).addr = a,
         \A b \in Area : g[b].data = f[b].data /\ g[b].crc = f[b].crc,
         g[a].flags = f[a].flags, g[Other(a)].flags = Obsolete
  PROVE  Chosen(g).addr = a
<1>1. \A b \in Area : CrcOk(g[b]) <=> CrcOk(f[b])
  BY SameValidity
<1> QED
  BY <1>1 DEF Chosen, ByFlags, Decision, Copy, Flag, Other

LEMMA ActivateKeepsChoice ==
  ASSUME Tear = {}, NEW f \in [Area -> Copy], NEW g \in [Area -> Copy],
         NEW a \in Area, Chosen(f).addr = a,
         \A b \in Area : g[b].data = f[b].data /\ g[b].crc = f[b].crc,
         ~CrcOk(f[Other(a)]) \/ f[Other(a)].flags = Obsolete,
         g[a].flags = Active, g[Other(a)].flags = f[Other(a)].flags
  PROVE  Chosen(g).addr = a
<1>1. \A b \in Area : CrcOk(g[b]) <=> CrcOk(f[b])
  BY SameValidity
<1> QED
  BY <1>1 DEF Chosen, ByFlags, Decision, Copy, Flag, Other

(* What the refinement mapping gives for each kind of program counter.     *)
ackedBar == IF pc \in {"off", "relocate"} THEN Loaded(flash) ELSE InUse(flash, cur)
pendingBar == IF pc \in Saving THEN ram.data ELSE NoSave

(* Facts about one step that are used for both the invariant and the       *)
(* refinement: what the steps of env_relocate_spec do,                     *)
LEMMA RelocateSteps ==
  ASSUME Reliable, SaveInv, RetireOther \/ ActivateChosen
  PROVE  /\ \A b \in Area : flash'[b].data = flash[b].data /\ flash'[b].crc = flash[b].crc
         /\ UNCHANGED <<cur, ram, rc>>
         /\ pc \in {"relocate", "activate"} /\ pc' \in {"activate", "copy", "halted"}
         /\ pc = "relocate" => envValid # 0
         /\ Chosen(flash).addr = cur
         /\ Chosen(flash').addr = cur
         /\ pc' = "activate" => ~CrcOk(flash'[new]) \/ flash'[new].flags = Obsolete
<1>1. new \in Area /\ new # cur /\ Area = {cur, new} /\ Other(new) = cur /\ Other(cur) = new
  BY DEF SaveInv, TypeInv, TypeOK, new, Other
<1>2. flash \in [Area -> Copy] /\ cur \in Area /\ TypeOK /\ MayIgnore = FALSE /\ Tear = {}
  BY DEF SaveInv, TypeInv, TypeOK, Reliable
<1>3. Chosen(flash).addr = cur
  BY DEF SaveInv, RetireOther, ActivateChosen
<1>4. CASE RetireOther
  <2>1. CASE flash[new].flags # Obsolete /\ CrcOk(flash[new])
    <3>1. WriteFlag(new, Obsolete, "activate", "halted") /\ pc = "relocate" /\ envValid # 0
      BY <1>2, <1>4, <2>1 DEF RetireOther, IgnoreError
    <3>2. /\ flash' \in [Area -> Copy]
          /\ \A b \in Area : flash'[b].data = flash[b].data /\ flash'[b].crc = flash[b].crc
          /\ flash'[cur] = flash[cur]
          /\ \/ pc' = "activate" /\ flash'[new].flags = Obsolete
             \/ pc' = "halted"
          /\ flash'[new].flags \in {flash[new].flags, Obsolete}
          /\ UNCHANGED <<cur, ram, rc>>
      BY <1>1, <1>2, <3>1, WriteFlagType DEF Programmed
    <3>3. CASE flash'[new].flags = Obsolete
      BY <1>1, <1>2, <1>3, <3>1, <3>2, <3>3, RetireKeepsChoice
    <3>4. CASE flash'[new].flags = flash[new].flags
      <4>1. \A b \in Area : CrcOk(flash'[b]) <=> CrcOk(flash[b])
        BY <3>2, SameValidity
      <4>2. flash'[1].flags = flash[1].flags /\ flash'[2].flags = flash[2].flags
        BY <1>1, <3>2, <3>4
      <4>3. Chosen(flash') = Chosen(flash)
        BY <4>1, <4>2 DEF Chosen
      <4> QED BY <1>3, <3>1, <3>2, <3>4, <4>3
    <3> QED BY <3>2, <3>3, <3>4
  <2>2. CASE ~(flash[new].flags # Obsolete /\ CrcOk(flash[new]))
    BY <1>3, <1>4, <2>2 DEF RetireOther
  <2> QED BY <2>1, <2>2
<1>5. CASE ActivateChosen
  <2>1. CASE flash[cur].flags # Active /\ flash[cur].flags % 2 = 1
    <3>1. WriteFlag(cur, Active, "copy", "halted") /\ pc = "activate"
      BY <1>2, <1>5, <2>1 DEF ActivateChosen, IgnoreError
    <3>2. /\ flash' \in [Area -> Copy]
          /\ \A b \in Area : flash'[b].data = flash[b].data /\ flash'[b].crc = flash[b].crc
          /\ flash'[new] = flash[new]
          /\ pc' \in {"copy", "halted"}
          /\ flash'[cur].flags \in {flash[cur].flags, Active}
          /\ UNCHANGED <<cur, ram, rc>>
      <4>1. flash[cur].flags # Obsolete
        BY <2>1
      <4> QED BY <1>1, <1>2, <3>1, <4>1, WriteFlagType DEF Programmed
    <3>3. CASE flash'[cur].flags = Active
      <4>1. ~CrcOk(flash[new]) \/ flash[new].flags = Obsolete
        BY <3>1 DEF SaveInv
      <4> QED BY <1>1, <1>2, <1>3, <3>1, <3>2, <3>3, <4>1, ActivateKeepsChoice
    <3>4. CASE flash'[cur].flags = flash[cur].flags
      <4>1. \A b \in Area : CrcOk(flash'[b]) <=> CrcOk(flash[b])
        BY <3>2, SameValidity
      <4>2. flash'[1].flags = flash[1].flags /\ flash'[2].flags = flash[2].flags
        BY <1>1, <3>2, <3>4
      <4>3. Chosen(flash') = Chosen(flash)
        BY <4>1, <4>2 DEF Chosen
      <4> QED BY <1>3, <3>1, <3>2, <4>3
    <3> QED BY <3>2, <3>3, <3>4
  <2>2. CASE ~(flash[cur].flags # Active /\ flash[cur].flags % 2 = 1)
    BY <1>3, <1>5, <2>2 DEF ActivateChosen
  <2> QED BY <2>1, <2>2
<1> QED
  BY <1>4, <1>5

(* and what the flash operations of saveenv do.                            *)
FlashStep == EraseNew \/ WriteData \/ WriteCrc \/ RetireOld \/ ActivateNew

LEMMA SaveSteps ==
  ASSUME Reliable, SaveInv, FlashStep
  PROVE  /\ pc \in Saving /\ pc' \in Saving
         /\ UNCHANGED <<cur, ram, rc>>
         /\ flash'[cur].data = flash[cur].data /\ flash'[cur].crc = flash[cur].crc
         /\ CrcOk(flash'[new]) =>
              \/ flash'[new].data = ram.data
              \/ pc = "erase" /\ flash' = flash
         /\ pc' \in {"data", "crc", "oldflag", "newflag"} => flash'[new].flags = Erased
         /\ pc' \in {"data", "crc"} => flash'[new].crc = Junk
         /\ pc' = "crc" => flash'[new].data = ram.data
         /\ pc' \in {"oldflag", "newflag", "swap"} =>
              CrcOk(flash'[new]) /\ flash'[new].data = ram.data
         /\ pc' \in {"newflag", "swap"} => flash'[cur].flags = Obsolete
         /\ pc' = "swap" => flash'[new].flags = Active
         /\ pc' \notin {"erase"}
<1>1. new \in Area /\ new # cur /\ Area = {cur, new} /\ Other(new) = cur /\ Other(cur) = new
  BY DEF SaveInv, TypeInv, TypeOK, new, Other
<1>2. /\ flash \in [Area -> Copy] /\ cur \in Area /\ TypeOK /\ Tear = {}
      /\ ram.data \in Env /\ ram.crc \in Env /\ Junk \notin Env
  BY EnvAssumption DEF SaveInv, TypeInv, TypeOK, Reliable
<1>3. CASE EraseNew
  <2>1. /\ pc = "erase" /\ pc' \in {"data", "failed"}
        /\ UNCHANGED <<cur, ram, rc>> /\ flash'[cur] = flash[cur]
        /\ \/ flash'[new].data = Junk /\ flash'[new].crc = Junk
           \/ flash' = flash /\ pc' = "failed"
        /\ pc' = "data" => flash'[new].crc = Junk /\ flash'[new].flags = Erased
    BY <1>1, <1>2, <1>3 DEF EraseNew, Operate
  <2> QED BY <1>2, <2>1 DEF Saving, CrcOk
<1>4. CASE WriteData
  <2>1. /\ pc = "data" /\ pc' \in {"crc", "failed"}
        /\ UNCHANGED <<cur, ram, rc>> /\ flash'[cur] = flash[cur]
        /\ flash'[new].crc = flash[new].crc
        /\ flash'[new].flags = flash[new].flags
        /\ pc' = "crc" => flash'[new].data = ram.data
    BY <1>1, <1>2, <1>4 DEF WriteData, Operate, Copy
  <2>2. flash[new].crc = Junk /\ flash[new].flags = Erased
    BY <2>1 DEF SaveInv
  <2> QED BY <1>2, <2>1, <2>2 DEF Saving, CrcOk
<1>5. CASE WriteCrc
  <2>1. /\ pc = "crc" /\ pc' \in {"oldflag", "failed"}
        /\ UNCHANGED <<cur, ram, rc>> /\ flash'[cur] = flash[cur]
        /\ flash'[new].data = flash[new].data
        /\ flash'[new].flags = flash[new].flags
        /\ pc' = "oldflag" => flash'[new].crc = ram.crc
    BY <1>1, <1>2, <1>5 DEF WriteCrc, Operate, Copy
  <2>2. flash[new].data = ram.data /\ flash[new].flags = Erased /\ ram.crc = ram.data
    BY <2>1 DEF SaveInv, Saving
  <2> QED BY <1>2, <2>1, <2>2 DEF Saving, CrcOk
<1>6. CASE RetireOld
  <2>1. WriteFlag(cur, Obsolete, "newflag", "failed") /\ pc = "oldflag"
    BY <1>6 DEF RetireOld
  <2>2. /\ flash'[cur].data = flash[cur].data /\ flash'[cur].crc = flash[cur].crc
        /\ flash'[new] = flash[new] /\ UNCHANGED <<cur, ram, rc>>
        /\ pc' \in {"newflag", "failed"}
        /\ pc' = "newflag" => flash'[cur].flags = Obsolete
    BY <1>1, <1>2, <2>1, WriteFlagType DEF Programmed
  <2>3. CrcOk(flash[new]) /\ flash[new].data = ram.data /\ flash[new].flags = Erased
    BY <2>1 DEF SaveInv
  <2> QED BY <2>1, <2>2, <2>3 DEF Saving
<1>7. CASE ActivateNew
  <2>1. WriteFlag(new, Active, "swap", "failed") /\ pc = "newflag"
    BY <1>7 DEF ActivateNew
  <2>2. /\ CrcOk(flash[new]) /\ flash[new].data = ram.data /\ flash[new].flags = Erased
        /\ flash[cur].flags = Obsolete
    BY <2>1 DEF SaveInv
  <2>3. /\ flash'[new].data = flash[new].data /\ flash'[new].crc = flash[new].crc
        /\ flash'[cur] = flash[cur] /\ UNCHANGED <<cur, ram, rc>>
        /\ pc' \in {"swap", "failed"}
        /\ pc' = "swap" => flash'[new].flags = Active
    BY <1>1, <1>2, <2>1, <2>2, WriteFlagType DEF Programmed
  <2>4. CrcOk(flash'[new])
    BY <2>2, <2>3, SameValidity
  <2> QED BY <2>1, <2>2, <2>3, <2>4 DEF Saving
<1> QED
  BY <1>3, <1>4, <1>5, <1>6, <1>7 DEF FlashStep

LEMMA SaveInvInit == Init => SaveInv
  BY TypeInit DEF Init, SaveInv, Saving

LEMMA SaveInvStep ==
  ASSUME Reliable, SaveInv, [Next]_vars
  PROVE  SaveInv'
<1>1. TypeInv'
  BY TypeStep DEF SaveInv
<1>2. new \in Area /\ Area = {cur, new}
  BY DEF SaveInv, TypeInv, TypeOK, new, Other
<1>3. CASE EnvInit
  <2>1. /\ flash' = flash /\ pc' = "relocate" /\ envValid' = Chosen(flash).valid
        /\ Chosen(flash).valid # 0 => cur' = Chosen(flash).addr
    BY <1>3 DEF EnvInit
  <2> QED BY <1>1, <2>1 DEF SaveInv, Saving
<1>4. CASE RelocateDefault
  <2>1. pc' = "idle" /\ ram'.crc = ram'.data
    BY <1>4 DEF RelocateDefault, Image
  <2> QED BY <1>1, <2>1 DEF SaveInv, Saving
<1>5. CASE RetireOther \/ ActivateChosen
  <2>1. new' = new
    BY <1>5, RelocateSteps DEF new
  <2>2. /\ pc' \in {"activate", "copy", "halted"}
        /\ cur' = cur
        /\ Chosen(flash').addr = cur
        /\ pc' = "activate" => ~CrcOk(flash'[new]) \/ flash'[new].flags = Obsolete
    BY <1>5, RelocateSteps
  <2> QED BY <1>1, <2>1, <2>2 DEF SaveInv, Saving
<1>6. CASE CopyToRam
  <2>1. pc' = "idle" /\ ram'.crc = ram'.data
    BY <1>6 DEF CopyToRam, SaveInv, TypeInv, ChosenValid, CrcOk
  <2> QED BY <1>1, <2>1 DEF SaveInv, Saving
<1>7. CASE SetEnv
  <2>1. pc' = "idle" /\ ram'.crc = ram'.data
    BY <1>7 DEF SetEnv, Image, Reliable
  <2> QED BY <1>1, <2>1 DEF SaveInv, Saving
<1>9. CASE Unprotect \/ ReturnError
  <2>1. UNCHANGED <<flash, cur, ram>> /\ pc \in {"idle", "failed"} /\ pc' \in {"idle", "erase", "failed"}
    BY <1>9 DEF Unprotect, ReturnError
  <2> QED BY <1>1, <2>1 DEF SaveInv, Saving
<1>10. CASE FlashStep
  <2>1. new' = new
    BY <1>10, SaveSteps DEF new
  <2>2. ram.crc = ram.data /\ pc' \in Saving /\ ram' = ram
    BY <1>10, SaveSteps DEF SaveInv
  <2> QED BY <1>1, <1>10, <2>1, <2>2, SaveSteps DEF SaveInv, Saving
<1>11. CASE SwapAndReturn
  <2>1. pc' = "idle" /\ ram' = ram /\ pc = "swap"
    BY <1>11 DEF SwapAndReturn
  <2> QED BY <1>1, <2>1 DEF SaveInv, Saving
<1>12. CASE PowerCut
  BY <1>1, <1>12 DEF PowerCut, SaveInv, Saving
<1>13. CASE UNCHANGED vars
  BY <1>1, <1>13 DEF vars, SaveInv, new
<1> QED
  BY <1>3, <1>4, <1>5, <1>6, <1>7, <1>9, <1>10, <1>11, <1>12, <1>13
     DEF Next, FlashStep

(* Every step of saveenv, of a boot or of a power failure is a step of     *)
(* EnvStore or leaves its variables alone.                                 *)
LEMMA StoreInit == Reliable /\ Init => Store!Init
<1> SUFFICES ASSUME Reliable, Init PROVE Store!Init
  OBVIOUS
<1>1. flash \in [Area -> Copy] /\ pc = "off" /\ rc = "none"
  BY TypeInit DEF Init, TypeInv, TypeOK
<1> QED
  BY <1>1, LoadedIsEnv DEF Store!Init, Saving

LEMMA StoreStep ==
  ASSUME Reliable, SaveInv, [Next]_vars
  PROVE  [Store!Next]_(Store!storeVars)
<1> DEFINE stored == Loaded(flash)
<1>1. /\ flash \in [Area -> Copy] /\ cur \in Area /\ TypeOK /\ Tear = {}
      /\ ram.data \in Env /\ NoSave \notin Env
  BY EnvAssumption DEF SaveInv, TypeInv, TypeOK, Reliable
<1>2. new \in Area /\ new # cur /\ Area = {cur, new} /\ Other(new) = cur /\ Other(cur) = new
  BY <1>1 DEF new, Other
<1>3. flash' \in [Area -> Copy] /\ cur' \in Area
  BY TypeStep DEF SaveInv, TypeInv, TypeOK
<1>4. SaveInv'
  BY SaveInvStep
<1>5. /\ Store!storeVars = <<Loaded(flash), ackedBar, pendingBar, rc>>
      /\ Store!storeVars' = <<Loaded(flash'), ackedBar', pendingBar', rc'>>
  BY DEF Store!storeVars, ackedBar, pendingBar, InUse
<1>6. CASE EnvInit
  BY <1>5, <1>6 DEF EnvInit, ackedBar, pendingBar, Saving
<1>7. CASE RelocateDefault
  <2>1. ~CrcOk(flash[cur]) /\ Loaded(flash) = Default
    BY <1>1, <1>7, Decided DEF RelocateDefault, SaveInv
  <2> QED
    BY <1>5, <1>7, <2>1 DEF RelocateDefault, ackedBar, pendingBar, InUse, Saving
<1>8. CASE RetireOther \/ ActivateChosen
  <2>1. /\ Loaded(flash) = flash[cur].data /\ CrcOk(flash[cur])
        /\ Loaded(flash') = flash'[cur].data /\ CrcOk(flash'[cur])
        /\ flash'[cur].data = flash[cur].data
        /\ UNCHANGED <<cur, rc>>
        /\ pc \in {"relocate", "activate"} /\ pc' \in {"activate", "copy", "halted"}
    BY <1>1, <1>3, <1>8, RelocateSteps, ChosenIsValid DEF Loaded
  <2> QED
    BY <1>5, <2>1 DEF ackedBar, pendingBar, InUse, Saving
<1>9. CASE CopyToRam \/ SetEnv
  BY <1>5, <1>9 DEF CopyToRam, SetEnv, ackedBar, pendingBar, InUse, Saving
<1>10. CASE Unprotect
  <2>1. pendingBar = NoSave /\ pendingBar' = ram.data /\ ackedBar' = ackedBar /\ flash' = flash
        /\ rc' = "none"
    BY <1>10 DEF Unprotect, ackedBar, pendingBar, InUse, Saving
  <2>2. Store!Begin
    BY <1>1, <2>1 DEF Store!Begin, ackedBar, pendingBar, InUse
  <2> QED BY <2>2 DEF Store!Next
<1>11. CASE FlashStep
  <2>1. /\ pc \in Saving /\ pc' \in Saving /\ UNCHANGED <<cur, ram, rc>>
        /\ flash'[cur].data = flash[cur].data /\ flash'[cur].crc = flash[cur].crc
        /\ CrcOk(flash'[new]) => flash'[new].data = ram.data \/ flash' = flash
    BY <1>11, SaveSteps
  <2>2. ackedBar = InUse(flash, cur) /\ ackedBar' = ackedBar
        /\ pendingBar = ram.data /\ pendingBar' = pendingBar /\ pendingBar # NoSave
        /\ rc' = rc
    BY <1>1, <2>1 DEF ackedBar, pendingBar, InUse, Saving, CrcOk
  <2>3. CASE flash' = flash
    BY <1>5, <2>2, <2>3
  <2>4. CASE CrcOk(flash'[new]) => flash'[new].data = ram.data
    <3>1. Loaded(flash') \in {InUse(flash', cur), ram.data}
      BY <1>1, <1>2, <1>3, <2>4, LoadsUsedOrSaved
    <3>2. InUse(flash', cur) = InUse(flash, cur)
      BY <2>1 DEF InUse, CrcOk
    <3>3. CASE Loaded(flash') = ram.data
      <4>1. Store!Commit
        BY <2>2, <3>3 DEF Store!Commit, ackedBar, pendingBar, InUse
      <4> QED BY <4>1 DEF Store!Next
    <3>4. CASE Loaded(flash') = InUse(flash, cur)
      <4>1. Store!Revert
        BY <2>2, <3>4 DEF Store!Revert, ackedBar, pendingBar, InUse
      <4> QED BY <4>1 DEF Store!Next
    <3> QED BY <3>1, <3>2, <3>3, <3>4
  <2> QED BY <2>1, <2>3, <2>4
<1>12. CASE SwapAndReturn
  <2>1. /\ CrcOk(flash[new]) /\ flash[new].data = ram.data /\ flash[new].flags = Active
        /\ flash[cur].flags = Obsolete
        /\ cur' = new /\ flash' = flash /\ ram' = ram /\ pc = "swap" /\ pc' = "idle"
    BY <1>12 DEF SwapAndReturn, SaveInv
  <2>2. Loaded(flash) = ram.data
    BY <1>1, <1>2, <2>1 DEF Loaded, Chosen, ByFlags, Decision
  <2>3. pendingBar = ram.data /\ pendingBar # NoSave /\ pendingBar' = NoSave /\ ackedBar' = ram.data
        /\ rc' = "ok"
    BY <1>1, <1>12, <2>1 DEF SwapAndReturn, ackedBar, pendingBar, InUse, Saving
  <2>4. Store!Acknowledge
    BY <2>1, <2>2, <2>3 DEF Store!Acknowledge, ackedBar, pendingBar, InUse
  <2> QED BY <2>4 DEF Store!Next
<1>13. CASE ReturnError
  <2>1. pendingBar # NoSave /\ pendingBar' = NoSave /\ ackedBar' = ackedBar /\ flash' = flash
        /\ rc' = "error"
    BY <1>1, <1>13 DEF ReturnError, ackedBar, pendingBar, InUse, Saving
  <2>2. Store!Fail
    BY <2>1 DEF Store!Fail, ackedBar, pendingBar, InUse
  <2> QED BY <2>2 DEF Store!Next
<1>14. CASE PowerCut
  <2>1. pendingBar' = NoSave /\ ackedBar' = Loaded(flash) /\ flash' = flash /\ rc' = "none"
    BY <1>14 DEF PowerCut, ackedBar, pendingBar, Saving
  <2>2. Store!PowerCycle
    BY <2>1 DEF Store!PowerCycle, ackedBar, pendingBar, InUse
  <2> QED BY <2>2 DEF Store!Next
<1>15. CASE UNCHANGED vars
  BY <1>5, <1>15 DEF vars, ackedBar, pendingBar, InUse
<1> QED
  BY <1>6, <1>7, <1>8, <1>9, <1>10, <1>11, <1>12, <1>13, <1>14, <1>15 DEF Next, FlashStep

(* saveenv is atomic and durable: a power-up loads the old or the new      *)
(* environment, and the new one once saveenv returned success, for any set *)
(* of contents, any flash error in saveenv and a power failure at any      *)
(* step.                                                                   *)
THEOREM SaveIsAtomic ==
  ASSUME Reliable
  PROVE  Spec => AtomicSave
  BY StoreInit, StoreStep, SaveInvInit, SaveInvStep, PTL DEF Spec, AtomicSave, Store!Spec

(* With atomic flag bytes env_init uses a valid copy whenever flash holds  *)
(* one.                                                                    *)
THEOREM ValidCopyIsUsed ==
  ASSUME Tear = {}
  PROVE  Spec => []ValidCopyUsed
<1>1. TypeInv => ValidCopyUsed
  BY ChosenIsValid, Decided DEF TypeInv, TypeOK, ValidCopyUsed, AValidCopy
<1> QED
  BY <1>1, TypeInit, TypeStep, PTL DEF Spec

(* After a successful saveenv the next boot has nothing to recover.        *)
THEOREM SaveLeavesNothingToRecover ==
  ASSUME Reliable
  PROVE  Spec => []CleanAfterSave
<1>1. SaveInv => CleanAfterSave
  BY DEF SaveInv, TypeInv, TypeOK, CleanAfterSave, Chosen, ByFlags, Decision, new, Other
<1> QED
  BY <1>1, SaveInvInit, SaveInvStep, PTL DEF Spec
=============================================================================
