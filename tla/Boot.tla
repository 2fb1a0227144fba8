-------------------------------- MODULE Boot --------------------------------
(***************************************************************************)
(* From power-up to a kernel on the boards with a boot counter             *)
(* (CONFIG_AR300M): the countdown of main_loop, the counter that every     *)
(* autoboot increments in an environment of one flash sector, the limit    *)
(* that turns the board from NAND to NOR flash, the calibration states,    *)
(* the download of check_tftp_file and the boot attempts that follow.      *)
(*                                                                         *)
(* An environment is a list of variables, and the code keeps a pointer     *)
(* into it (s, main.c:661). setenv deletes a variable, which moves what    *)
(* follows it, and appends it. Of the list the model keeps which of the    *)
(* variables that the boot sets are ahead of bootcmd and which behind it,  *)
(* which tells whether s still points to bootcmd. "fileaddr" stands for    *)
(* all that a download or the upgrade host sets (filesize, gl_do_cmd).     *)
(*                                                                         *)
(* Not modelled: a bootcmd that the user deletes, bootcount and bootlimit  *)
(* set by hand, preboot.                                                   *)
(***************************************************************************)
EXTENDS Integers

CONSTANTS Limit,     \* bootlimit
          MaxCount,  \* bound on the boot counter, which stays there
          NullCount, \* what bootcount_load may read at address 0
          MaxFaults, \* bound on flash errors and power failures
          NoEnv      \* a flash sector whose CRC does not match

Moved == {"bootcount", "fileaddr"}     \* the variables that a boot sets
Factory == 4                           \* bootcount_store(4)
Unset == -1
\* What bootcmd boots. Only main_loop sets it to the kernel in NOR flash.
Cmd == {"nand", "nor", "user"}
Flash == {"nand", "nor"}
MaxStarts == Limit + MaxFaults + 1     \* bound on starts, which stays there

Env == [count : 0..MaxCount \cup {Unset}, cmd : Cmd, dev : {"auto", "forced"},
        ahead : SUBSET Moved, behind : SUBSET Moved]

ASSUME BootAssumption ==
  /\ Limit \in Nat \ {0}
  /\ MaxCount \in Nat
  /\ MaxCount > Limit
  /\ MaxCount >= Factory
  /\ NullCount \subseteq 0..MaxCount
  /\ MaxFaults \in Nat
  /\ NoEnv \notin Env

default_environment ==
  [count |-> Unset, cmd |-> "nand", dev |-> "auto", ahead |-> {}, behind |-> {}]

VARIABLES
  pc,
  flash,          \* the sector of the environment
  env,            \* the environment in RAM
  s,              \* what was ahead of bootcmd when s was taken
  ret,            \* who called saveenv
  nand_boot_failed,
  cal,            \* what calibration_status finds in the ART partition
  nor, nand,      \* the kernels in NOR and NAND flash
  faults,
  kernel,         \* history: the flash of the kernel that runs
  starts,         \* history: the boots that started a kernel in NAND flash
                  \* since the stored counter was reset or lost
  uncounted,      \* history: the boots since then whose counter was not saved
  ran,            \* history: what this boot ran as bootcmd
  own, stored     \* history: the bootcmd that somebody set, or the default,
                  \* of the environment in RAM and of the one in flash, and
                  \* whether bootcmd was set, by hand or by main_loop

vars == <<pc, flash, env, s, ret, nand_boot_failed, cal, nor, nand, faults,
          kernel, starts, uncounted, ran, own, stored>>

counts == <<starts, uncounted>>
cmds == <<own, stored>>
history == <<kernel, counts, ran, cmds>>
images == <<cal, nor, nand>>

PC == {"off", "countdown", "erase", "write", "limit", "calibration",
       "factory", "lf", "select", "boot", "run", "web", "prompt", "linux",
       "hung"}

TypeOK ==
  /\ pc \in PC
  /\ flash \in Env \cup {NoEnv}
  /\ env \in Env
  /\ env.ahead \cap env.behind = {}
  /\ s \in SUBSET Moved
  /\ ret \in {"limit", "factory", "web", "prompt"}
  /\ nand_boot_failed \in BOOLEAN
  /\ cal \in {"noart", "factory", "ready"}
  /\ nor \in {"good", "bad"}
  /\ nand \in {"good", "bad", "hangs", "absent"}
  /\ faults \in 0..MaxFaults
  /\ kernel \in Flash \cup {"none"}
  /\ starts \in 0..MaxStarts
  /\ uncounted \in 0..faults
  /\ ran \in Cmd \cup {"none", "garbled"}
  /\ own \in [cmd : Cmd, set : BOOLEAN]
  /\ stored \in [cmd : Cmd, set : BOOLEAN]

-----------------------------------------------------------------------------
\* setenv: the variable leaves its place for the end of the list.
setenv(e, v) ==
  [e EXCEPT !.ahead = @ \ {v}, !.behind = @ \cup {v}]

\* Faulty variants: the old definition is not deleted, or the new one is put
\* at the start of the list.
SetCountTwice(e, n) == [e EXCEPT !.behind = @ \cup {"bootcount"}, !.count = n]
SetCountFirst(e, n) ==
  [e EXCEPT !.behind = @ \ {"bootcount"}, !.ahead = @ \cup {"bootcount"},
            !.count = n]
SetCount(e, n) == [setenv(e, "bootcount") EXCEPT !.count = n]
SetFileaddr(e) == setenv(e, "fileaddr")
SetBootcmd(e, c) ==
  [e EXCEPT !.cmd = c, !.ahead = @ \cup e.behind, !.behind = {}]

\* bootcount_load: my_atoi of the variable, or of a null pointer.
bootcount_load(e) == IF e.count = Unset THEN NullCount ELSE {e.count}

\* Faulty variant: an off-by-one.
ExceededLate(n) == n > Limit + 1
Exceeded(n) == n > Limit

Incremented(n) == IF n < MaxCount THEN n + 1 ELSE n

Image(dev) == IF dev = "nand" THEN nand ELSE nor

\* The bootm or nboot of an image, and where it returns if it does.
Boots(image, next) ==
  CASE image = "good" -> "linux"
    [] image = "hangs" -> "hung"
    [] OTHER -> next

Start(dev, next) ==
  /\ pc' = Boots(Image(dev), next)
  /\ IF Image(dev) \in {"good", "hangs"}
       THEN /\ kernel' = dev
            /\ starts' = IF dev = "nand" /\ starts < MaxStarts THEN starts + 1 ELSE starts
       ELSE UNCHANGED <<kernel, starts>>

\* What s points to when it is run.
Bootcmd == IF env.ahead = s THEN env.cmd ELSE "garbled"

-----------------------------------------------------------------------------
\* The bootcmd of default_environment.
Default == [cmd |-> default_environment.cmd, set |-> FALSE]

Init ==
  /\ pc = "off"
  /\ flash = NoEnv
  /\ env = default_environment
  /\ s = {}
  /\ ret = "limit"
  /\ nand_boot_failed = FALSE
  /\ cal \in {"noart", "factory", "ready"}
  /\ nor \in {"good", "bad"}
  /\ nand \in {"good", "bad", "hangs", "absent"}
  /\ faults = 0
  /\ kernel = "none"
  /\ starts = 0
  /\ uncounted = 0
  /\ ran = "none"
  /\ own = Default
  /\ stored = Default

\* What env_init finds: the sector if its CRC matches.
Loaded == IF flash = NoEnv THEN default_environment ELSE flash

\* env_init and env_relocate, then main_loop up to the countdown.
PowerUp ==
  /\ pc = "off"
  /\ env' = Loaded
  /\ s' = Loaded.ahead
  /\ own' = IF flash = NoEnv THEN Default ELSE stored
  /\ pc' = "countdown"
  /\ UNCHANGED <<flash, ret, nand_boot_failed, images, faults, kernel, counts,
                 ran, stored>>

\* A reset, and what is in RAM is lost.
Off ==
  /\ pc' = "off"
  /\ env' = default_environment
  /\ s' = {}
  /\ ret' = "limit"
  /\ nand_boot_failed' = FALSE
  /\ kernel' = "none"
  /\ ran' = "none"
  /\ own' = Default

\* abortboot: "gl" is typed.
Abort ==
  /\ pc = "countdown"
  /\ pc' = "prompt"
  /\ UNCHANGED <<flash, env, s, ret, nand_boot_failed, images, faults, history>>

\* The reset button is held for five seconds.
ResetButton ==
  /\ pc = "countdown"
  /\ pc' = "web"
  /\ UNCHANGED <<flash, env, s, ret, nand_boot_failed, images, faults, history>>

Reflash ==
  /\ nor' \in {"good", "bad"}
  /\ nand' \in IF nand = "absent" THEN {nand} ELSE {"good", "bad", "hangs"}
  /\ UNCHANGED cal

\* Commands of an upgrade host in the countdown (GlUpgrade): a tftpboot sets
\* fileaddr, what it loaded may be written to flash.
HostUpgrade ==
  /\ pc = "countdown"
  /\ env' = SetFileaddr(env)
  /\ Reflash
  /\ UNCHANGED <<pc, flash, s, ret, nand_boot_failed, faults, history>>

\* The countdown ends: bootcount_store up to saveenv.
Autoboot ==
  /\ pc = "countdown"
  /\ \E n \in bootcount_load(env) : env' = SetCount(env, Incremented(n))
  /\ ret' = "limit"
  /\ pc' = "erase"
  /\ UNCHANGED <<flash, s, nand_boot_failed, images, faults, history>>

\* saveenv: flash_sect_erase ...
Erase ==
  /\ pc = "erase"
  /\ flash' = NoEnv
  /\ pc' = "write"
  /\ UNCHANGED <<env, s, ret, nand_boot_failed, images, faults, history>>

\* ... and flash_write.
Write ==
  /\ pc = "write"
  /\ flash' = env
  /\ stored' = own
  /\ pc' = ret
  /\ UNCHANGED <<env, s, ret, nand_boot_failed, images, faults, kernel, counts, ran, own>>

\* With the environment the counter is lost.
Forgotten == flash' = NoEnv

\* A flash operation fails and its error is returned, which nobody reads.
SaveFails ==
  /\ pc \in {"erase", "write"}
  /\ faults < MaxFaults
  /\ faults' = faults + 1
  /\ flash' \in {flash, NoEnv}
  /\ starts' = IF Forgotten THEN 0 ELSE starts
  /\ uncounted' = (IF Forgotten THEN 0 ELSE uncounted) + (IF ret = "limit" THEN 1 ELSE 0)
  /\ pc' = ret
  /\ UNCHANGED <<env, s, ret, nand_boot_failed, images, kernel, ran, cmds>>

PowerCut ==
  /\ pc /= "off"
  /\ faults < MaxFaults
  /\ faults' = faults + 1
  /\ flash' \in IF pc = "erase" THEN {flash, NoEnv} ELSE {flash}
  /\ starts' = IF Forgotten THEN 0 ELSE starts
  /\ uncounted' = IF Forgotten THEN 0 ELSE uncounted
  /\ Off
  /\ UNCHANGED <<images, stored>>

-----------------------------------------------------------------------------
\* bootcmd becomes the kernel in NOR flash, at the end of the list.
Substitute ==
  /\ nand_boot_failed' = TRUE
  /\ env' = SetBootcmd(env, "nor")
  /\ own' = [own EXCEPT !.set = TRUE]

\* Faulty variant: the substitute for bootcmd is saved.
CheckLimitSaves ==
  /\ pc = "limit"
  /\ IF Exceeded(env.count)
       THEN Substitute /\ flash' = SetBootcmd(env, "nor")
       ELSE UNCHANGED <<nand_boot_failed, env, own, flash>>
  /\ pc' = "calibration"
  /\ UNCHANGED <<s, ret, images, faults, kernel, counts, ran, stored>>

\* Beyond the limit bootcmd is substituted, in RAM only.
CheckLimit ==
  /\ pc = "limit"
  /\ IF Exceeded(env.count)
       THEN Substitute
       ELSE UNCHANGED <<nand_boot_failed, env, own>>
  /\ pc' = "calibration"
  /\ UNCHANGED <<flash, s, ret, images, faults, kernel, counts, ran, stored>>

\* calibration_status and the switch on it. A board that is not calibrated
\* saves the counter 4 before it boots from NOR flash, and with it the
\* substitute for bootcmd if there is one.
Calibration ==
  /\ pc = "calibration"
  /\ CASE cal = "noart" ->
            pc' = "prompt" /\ UNCHANGED <<env, ret, nand_boot_failed>>
       [] cal = "factory" ->
            /\ env' = SetCount(env, Factory)
            /\ ret' = "factory"
            /\ pc' = "erase"
            /\ UNCHANGED nand_boot_failed
       [] cal = "ready" ->
            /\ nand_boot_failed' = (nand_boot_failed \/ nand = "absent")
            /\ pc' = "lf"
            /\ UNCHANGED <<env, ret>>
  /\ UNCHANGED <<flash, s, images, faults, history>>

BootFactory ==
  /\ pc = "factory"
  /\ Start("nor", "prompt")
  /\ UNCHANGED <<flash, env, s, ret, nand_boot_failed, images, faults,
                 uncounted, ran, cmds>>

\* "run lf" does nothing when the server does not answer a ping; otherwise it
\* downloads firmware, which sets fileaddr, and writes it to flash.
check_tftp_file ==
  /\ pc = "lf"
  /\ \/ UNCHANGED <<env, images>>
     \/ env' = SetFileaddr(env) /\ Reflash
  /\ pc' = "select"
  /\ UNCHANGED <<flash, s, ret, nand_boot_failed, faults, history>>

\* boot_dev (with the position of a switch) and boot_local boot from either
\* flash, whatever the counter.
select_boot_dev ==
  /\ pc = "select"
  /\ \/ pc' = "boot" /\ UNCHANGED <<kernel, starts>>
     \/ env.dev = "forced" /\ \E dev \in Flash : Start(dev, "boot")
  /\ UNCHANGED <<flash, env, s, ret, nand_boot_failed, images, faults,
                 uncounted, ran, cmds>>

\* Faulty variant: the device is that of a first boot, whatever the limit.
BootNand ==
  /\ pc = "boot"
  /\ Start("nand", "run")
  /\ UNCHANGED <<flash, env, s, ret, nand_boot_failed, images, faults,
                 uncounted, ran, cmds>>

BootDefault ==
  /\ pc = "boot"
  /\ Start(IF nand_boot_failed THEN "nor" ELSE "nand", "run")
  /\ UNCHANGED <<flash, env, s, ret, nand_boot_failed, images, faults,
                 uncounted, ran, cmds>>

\* Line 737 runs what s points to, then come dhcpd and the web server.
RunBootcmd ==
  /\ pc = "run"
  /\ ran' = Bootcmd
  /\ IF Bootcmd \in Flash
       THEN Start(Bootcmd, "web")
       ELSE pc' \in {"linux", "hung", "web"} /\ UNCHANGED <<kernel, starts>>
  /\ UNCHANGED <<flash, env, s, ret, nand_boot_failed, images, faults,
                 uncounted, cmds>>

-----------------------------------------------------------------------------
\* The web server flashes an upload and resets the board, or ctrl-C ends it.
WebUpgrade ==
  /\ pc = "web"
  /\ Reflash
  /\ Off
  /\ UNCHANGED <<flash, faults, counts, stored>>

WebInterrupted ==
  /\ pc = "web"
  /\ pc' = "prompt"
  /\ UNCHANGED <<flash, env, s, ret, nand_boot_failed, images, faults, history>>

\* The page of the web server that switches boot_dev on or off, and saves the
\* environment as it is in RAM. boot_local may force a device all the same.
WebSwitch ==
  /\ pc = "web"
  /\ \E d \in {"auto", "forced"} : env' = [env EXCEPT !.dev = d]
  /\ ret' = "web"
  /\ pc' = "erase"
  /\ UNCHANGED <<flash, s, nand_boot_failed, images, faults, history>>

UserSetenv ==
  /\ pc = "prompt"
  /\ \/ env' = SetBootcmd(env, "user") /\ own' = [cmd |-> "user", set |-> TRUE]
     \/ \E d \in {"auto", "forced"} : env' = [env EXCEPT !.dev = d] /\ UNCHANGED own
  /\ UNCHANGED <<pc, flash, s, ret, nand_boot_failed, images, faults, kernel,
                 counts, ran, stored>>

UserSaveenv ==
  /\ pc = "prompt"
  /\ ret' = "prompt"
  /\ pc' = "erase"
  /\ UNCHANGED <<flash, env, s, nand_boot_failed, images, faults, history>>

\* The firmware resets the counter once it is up (fw_setenv).
LinuxResetsCount ==
  /\ pc = "linux"
  /\ flash /= NoEnv
  /\ flash' = SetCount(flash, 0)
  /\ starts' = 0
  /\ uncounted' = 0
  /\ UNCHANGED <<pc, env, s, ret, nand_boot_failed, images, faults, kernel, ran, cmds>>

\* The calibration firmware in NOR flash does its work.
Calibrate ==
  /\ pc = "linux"
  /\ cal = "factory"
  /\ cal' = "ready"
  /\ UNCHANGED <<pc, flash, env, s, ret, nand_boot_failed, nor, nand, faults, history>>

\* A reset command, a watchdog, or the power switched off and on.
Reset ==
  /\ pc \in {"linux", "hung", "web", "prompt"}
  /\ Off
  /\ UNCHANGED <<flash, images, faults, counts, stored>>

BootStep == \/ PowerUp \/ Erase \/ Write \/ CheckLimit \/ Calibration
            \/ BootFactory \/ check_tftp_file \/ select_boot_dev
            \/ BootDefault \/ RunBootcmd

User == Abort \/ ResetButton \/ HostUpgrade \/ WebUpgrade \/ WebInterrupted
        \/ WebSwitch \/ UserSetenv \/ UserSaveenv \/ LinuxResetsCount \/ Calibrate \/ Reset

Next == BootStep \/ Autoboot \/ SaveFails \/ PowerCut \/ User

Spec == Init /\ [][Next]_vars
\* The code goes on by itself, somebody resets a board that waits, and not
\* every countdown is stopped.
FairSpec == Spec /\ WF_vars(BootStep) /\ SF_vars(Autoboot) /\ SF_vars(Reset)

-----------------------------------------------------------------------------
\* Unless a device is forced, a kernel in NAND flash runs only in the first
\* Limit boots that started one since the stored counter was reset or lost
\* with the environment, and in one more for each boot whose counter was not
\* saved, as bootcount_store does not look (main.c:451). The boots that a
\* forced device started count as well.
LimitHolds ==
  kernel = "nand" /\ env.dev = "auto" => starts <= Limit + uncounted

\* What line 737 runs through the pointer taken at line 661 is bootcmd,
\* although setenv moves variables in between, unless bootcmd has been set,
\* by hand or by main_loop, in the environment that this boot runs with.
RunsBootcmd == ran = "garbled" => own.set

\* The substitute for bootcmd that main_loop sets in RAM is saved when the
\* environment is saved again in the same boot: by a board that is not
\* calibrated (main.c:705), the page that sets boot_dev, or by hand.
SubstituteSaved == pc = "write" /\ ret /= "limit" /\ env.cmd = "nor"
OwnBootcmdStored == flash /= NoEnv => flash.cmd = stored.cmd

\* As long as none of these happens, the bootcmd in flash is the one that
\* somebody set and saved, or the default: saving the counter of each boot
\* writes the whole environment, but never the substitute, whatever power
\* failures, errors and resets come between.
BootcmdSurvives == []~SubstituteSaved => []OwnBootcmdStored

\* A board whose kernel in NAND flash does not come up ends with the one in
\* NOR flash, over any number of resets, if no boot device is forced.
Recovers ==
  <>[](cal = "ready" /\ nor = "good" /\ nand /= "good" /\ env.dev = "auto")
    => []<>(pc = "linux")
=============================================================================
