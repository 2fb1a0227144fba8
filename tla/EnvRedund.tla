------------------------------ MODULE EnvRedund ------------------------------
(***************************************************************************)
(* The redundant environment of common/env_flash.c (CFG_ENV_ADDR_REDUND):  *)
(* two copies of the environment in two flash sectors, env_init choosing   *)
(* one at power-up, env_relocate_spec repairing the flags and saveenv      *)
(* writing the other copy.                                                 *)
(*                                                                         *)
(* One flash operation is one step. It succeeds, or fails and leaves its   *)
(* target in any state that a partial operation can leave; PowerCut may    *)
(* follow any step, so the state a power failure inside an operation       *)
(* leaves is covered by the failed operation followed by PowerCut.         *)
(*                                                                         *)
(* Environment contents are opaque. A CRC is identified with the contents  *)
(* it was computed over (no collisions), so a copy is valid when its crc   *)
(* field is its data field.                                                *)
(*                                                                         *)
(* Not modelled: CFG_ENV_SECT_SIZE > CFG_ENV_SIZE (the rest of the sector  *)
(* saved and restored around the erase), CONFIG_OMAP2420H4.                *)
(***************************************************************************)
EXTENDS Integers

CONSTANTS Env,         \* the contents an environment can have
          Default,     \* default_environment
          Junk,        \* what erased or partly written bytes hold
          NoSave,
          Tear,        \* flag bytes left by an interrupted write of ACTIVE
          MayOverflow, \* can a setenv overflow the environment?
          MayIgnore    \* can a flash_write of env_relocate_spec fail?

Area == {1, 2}         \* CFG_ENV_ADDR and CFG_ENV_ADDR_REDUND
Active == 1
Obsolete == 0
Erased == 255
Flag == {Active, Obsolete, Erased} \cup Tear

ASSUME EnvAssumption ==
  /\ Default \in Env
  /\ Junk \notin Env
  /\ NoSave \notin Env
  /\ MayOverflow \in BOOLEAN
  /\ MayIgnore \in BOOLEAN
  \* programming 0xFF to 0x01 clears bits 1..7 and leaves bit 0
  /\ Tear \subseteq {f \in 0..255 : f % 2 = 1}

VARIABLES
  flash,     \* the two sectors: env_t records in flash
  cur,       \* flash_addr; flash_addr_new is the other area
  ram,       \* the env_t that env_ptr points to
  envValid,  \* gd->env_valid
  rc,        \* what the last saveenv returned
  pc

vars == <<flash, cur, ram, envValid, rc, pc>>

Copy == [data : Env \cup {Junk}, crc : Env \cup {Junk}, flags : Flag]
Image(e) == [data |-> e, crc |-> e]

Booting == {"off", "relocate", "activate", "copy", "halted"}
Saving == {"erase", "data", "crc", "oldflag", "newflag", "swap", "failed"}
PC == Booting \cup Saving \cup {"idle"}

TypeOK ==
  /\ flash \in [Area -> Copy]
  /\ cur \in Area
  /\ ram \in [data : Env, crc : Env]
  /\ envValid \in 0..2
  /\ rc \in {"none", "ok", "error"}
  /\ pc \in PC

Other(a) == 3 - a

\* Faulty variant: the pointers not distinguished.
newIsOld == cur
new == Other(cur)

\* Faulty variant: the CRC not compared.
CrcUnchecked(c) == TRUE
CrcOk(c) == c.data \in Env /\ c.crc = c.data

-----------------------------------------------------------------------------
(* env_init: which copy is used (0: none, the default) and gd->env_valid.   *)

Decision(addr, valid) == [addr |-> addr, valid |-> valid]

\* Faulty variant: the last branch forgotten.
ByFlagsNoErased2(flag1, flag2) ==
  CASE flag1 = Active /\ flag2 = Obsolete -> Decision(1, 1)
    [] flag1 = Obsolete /\ flag2 = Active -> Decision(2, 1)
    [] flag1 = flag2 \/ flag1 = Erased -> Decision(1, 2)
    [] OTHER -> Decision(0, 0)

\* Both copies valid. When no branch is taken gd->env_valid keeps its zero.
ByFlags(flag1, flag2) ==
  IF flag1 = Active /\ flag2 = Obsolete THEN Decision(1, 1)
  ELSE IF flag1 = Obsolete /\ flag2 = Active THEN Decision(2, 1)
  ELSE IF flag1 = flag2 \/ flag1 = Erased THEN Decision(1, 2)
  ELSE IF flag2 = Erased THEN Decision(2, 2)
  ELSE Decision(0, 0)

Chosen(f) ==
  IF CrcOk(f[1])
    THEN IF CrcOk(f[2]) THEN ByFlags(f[1].flags, f[2].flags) ELSE Decision(1, 1)
    ELSE IF CrcOk(f[2]) THEN Decision(2, 1) ELSE Decision(0, 0)

\* What a power-up would load from these sectors.
Loaded(f) == IF Chosen(f).addr = 0 THEN Default ELSE f[Chosen(f).addr].data

-----------------------------------------------------------------------------
Init ==
  /\ flash \in {f \in [Area -> {[data |-> Junk, crc |-> Junk, flags |-> Erased]}
                               \cup {[data |-> Default, crc |-> Default, flags |-> x]
                                       : x \in {Active, Erased}}] :
                  f[2].data = Junk}
  /\ cur = 1
  /\ ram = Image(Default)
  /\ envValid = 0
  /\ rc = "none"
  /\ pc = "off"

\* A flash operation on area a that should leave the copy c.
Operate(a, c, partial, next, onError) ==
  /\ \/ flash' = [flash EXCEPT ![a] = c] /\ pc' = next
     \/ \E p \in partial \cup {c, flash[a]} :
          flash' = [flash EXCEPT ![a] = p] /\ pc' = onError
  /\ UNCHANGED <<cur, ram, rc>>

\* Programming only clears bits.
Programmed(flag, byte) ==
  IF byte = Obsolete \/ flag = Obsolete THEN Obsolete ELSE byte

WriteFlag(a, byte, next, onError) ==
  Operate(a, [flash[a] EXCEPT !.flags = Programmed(@, byte)],
          IF byte = Active /\ flash[a].flags # Obsolete
            THEN {[flash[a] EXCEPT !.flags = t] : t \in Tear} ELSE {},
          next, onError)

(* Power-up.                                                               *)
EnvInit ==
  /\ pc = "off"
  /\ envValid' = Chosen(flash).valid
  /\ cur' = IF Chosen(flash).valid # 0 THEN Chosen(flash).addr ELSE 1
  /\ pc' = "relocate"
  /\ UNCHANGED <<flash, ram, rc>>

RelocateDefault ==
  /\ pc = "relocate" /\ envValid = 0
  /\ ram' = Image(Default)
  /\ envValid' = 1
  /\ pc' = "idle"
  /\ UNCHANGED <<flash, cur, rc>>

(* env_relocate_spec: the result of each flash_write is ignored, so that a *)
(* failed write goes on; unless writes cannot fail, and then only a power  *)
(* failure interrupts one.                                                 *)
IgnoreError(next) == IF MayIgnore THEN next ELSE "halted"

\* Faulty variant: the other copy not retired.
RetireNone ==
  /\ pc = "relocate" /\ envValid # 0
  /\ pc' = "activate"
  /\ UNCHANGED <<flash, cur, ram, envValid, rc>>

RetireOther ==
  /\ pc = "relocate" /\ envValid # 0
  /\ IF flash[new].flags # Obsolete /\ CrcOk(flash[new])
       THEN /\ envValid' = 2
            /\ WriteFlag(new, Obsolete, "activate", IgnoreError("activate"))
       ELSE /\ pc' = "activate"
            /\ UNCHANGED <<flash, cur, ram, envValid, rc>>

ActivateChosen ==
  /\ pc = "activate"
  /\ IF flash[cur].flags # Active /\ flash[cur].flags % 2 = 1
       THEN /\ envValid' = 2
            /\ WriteFlag(cur, Active, "copy", IgnoreError("copy"))
       ELSE /\ pc' = "copy"
            /\ UNCHANGED <<flash, cur, ram, envValid, rc>>

CopyToRam ==
  /\ pc = "copy"
  /\ ram' = [data |-> flash[cur].data, crc |-> flash[cur].crc]
  /\ pc' = "idle"
  /\ UNCHANGED <<flash, cur, envValid, rc>>

-----------------------------------------------------------------------------
(* _do_setenv on the RAM copy: env_crc_update follows every change except  *)
(* the one that deletes a variable whose new value does not fit.           *)
SetEnv ==
  /\ pc = "idle"
  /\ \E e \in Env :
       ram' \in {Image(e)} \cup (IF MayOverflow THEN {[ram EXCEPT !.data = e]} ELSE {})
  /\ UNCHANGED <<flash, cur, envValid, rc, pc>>

(* saveenv. A sector that cannot be unprotected ends it before the erase.  *)
Unprotect ==
  /\ pc = "idle"
  /\ pc' \in {"erase", "failed"}
  /\ rc' = "none"
  /\ UNCHANGED <<flash, cur, ram, envValid>>

EraseNew ==
  /\ pc = "erase"
  /\ Operate(new, [data |-> Junk, crc |-> Junk, flags |-> Erased],
             {[data |-> Junk, crc |-> Junk, flags |-> x] : x \in Flag},
             "data", "failed")
  /\ UNCHANGED envValid

WriteData ==
  /\ pc = "data"
  /\ Operate(new, [flash[new] EXCEPT !.data = ram.data], {}, "crc", "failed")
  /\ UNCHANGED envValid

WriteCrc ==
  /\ pc = "crc"
  /\ Operate(new, [flash[new] EXCEPT !.crc = ram.crc], {}, "oldflag", "failed")
  /\ UNCHANGED envValid

\* Faulty variant: the old copy stays ACTIVE.
RetireOldForgotten ==
  /\ pc = "oldflag" /\ pc' = "newflag"
  /\ UNCHANGED <<flash, cur, ram, envValid, rc>>

RetireOld ==
  /\ pc = "oldflag"
  /\ WriteFlag(cur, Obsolete, "newflag", "failed")
  /\ UNCHANGED envValid

ActivateNew ==
  /\ pc = "newflag"
  /\ WriteFlag(new, Active, "swap", "failed")
  /\ UNCHANGED envValid

\* Faulty variant: the pointers not exchanged.
ReturnNoSwap ==
  /\ pc = "swap" /\ pc' = "idle" /\ rc' = "ok"
  /\ UNCHANGED <<flash, cur, ram, envValid>>

\* rc = 0: the pointers are exchanged and saveenv returns success.
SwapAndReturn ==
  /\ pc = "swap"
  /\ cur' = new
  /\ rc' = "ok"
  /\ pc' = "idle"
  /\ UNCHANGED <<flash, ram, envValid>>

ReturnError ==
  /\ pc = "failed"
  /\ pc' = "idle"
  /\ rc' = "error"
  /\ UNCHANGED <<flash, cur, ram, envValid>>

PowerCut ==
  /\ pc # "off"
  /\ pc' = "off"
  /\ cur' = 1
  /\ ram' = Image(Default)
  /\ envValid' = 0
  /\ rc' = "none"
  /\ UNCHANGED flash

Next ==
  \/ EnvInit \/ RelocateDefault \/ RetireOther \/ ActivateChosen \/ CopyToRam
  \/ SetEnv
  \/ Unprotect \/ EraseNew \/ WriteData \/ WriteCrc \/ RetireOld \/ ActivateNew
  \/ SwapAndReturn \/ ReturnError
  \/ PowerCut

Spec == Init /\ [][Next]_vars

\* A board whose flash was programmed with an environment.
AValidCopy(f) == \E a \in Area : CrcOk(f[a])
InitProgrammed == Init /\ AValidCopy(flash)
SpecProgrammed == InitProgrammed /\ [][Next]_vars

-----------------------------------------------------------------------------
(* saveenv, whatever fails, however often it is retried and whenever the   *)
(* power is cut, never leaves flash without a valid copy: it erases only   *)
(* the copy that the next power-up does not need.                          *)
BackupCopy == AValidCopy(flash)

(* The same of a board that left the factory with an environment, also     *)
(* when boards whose flash is erased are among the behaviours: the first   *)
(* saveenv of those has no copy to lose.                                   *)
BackupKept == AValidCopy(flash) => []BackupCopy

(* env_init never falls back to the default environment while flash holds  *)
(* a valid copy: its branches on the two flag bytes cover every pair that  *)
(* an interrupted saveenv or an interrupted recovery leaves.               *)
ValidCopyUsed == AValidCopy(flash) => Chosen(flash).addr # 0

(* The environment a power-up loads changes atomically: it is the old or   *)
(* the new contents, and the new ones once saveenv returned success        *)
(* (the commit point is the CRC or flag write, in env_init's decision      *)
(* table, not the return of saveenv).                                      *)
Store == INSTANCE EnvStore WITH
  stored <- Loaded(flash),
  acked <- IF pc \in {"off", "relocate"} THEN Loaded(flash)
           ELSE IF CrcOk(flash[cur]) THEN flash[cur].data ELSE Default,
  pending <- IF pc \in Saving THEN ram.data ELSE NoSave,
  result <- rc

AtomicSave == Store!Spec

(* "recovered successfully": the environment in RAM after a recovery is    *)
(* the one the next power-up loads.                                        *)
RecoveryLasts == pc = "copy" => Loaded(flash) = flash[cur].data

(* After a saveenv whose every flash operation succeeded, the next         *)
(* power-up finds nothing to recover (env_valid is 1, not 2).              *)
CleanAfterSave == pc = "swap" => Chosen(flash) = [addr |-> new, valid |-> 1]
=============================================================================
