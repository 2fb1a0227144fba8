----------------------------- MODULE BootProofs -----------------------------
(***************************************************************************)
(* What Boot guarantees for every limit, every number of faults and        *)
(* whatever an unset counter reads as. Each property is one of those that  *)
(* MCBoot checks.                                                          *)
(***************************************************************************)
EXTENDS Boot, TLAPS

-----------------------------------------------------------------------------
\* The operators on environments.

LEMMA BootsIsPC ==
  ASSUME NEW image, NEW next \in PC
  PROVE  Boots(image, next) \in {"linux", "hung", next} \cap PC
BY DEF Boots, PC

\* An attempt to boot either leaves the history alone or is one more start.
LEMMA StartLeaves ==
  ASSUME NEW dev \in Flash, NEW next \in PC, Start(dev, next)
  PROVE  /\ pc' \in {"linux", "hung", next}
         /\ pc' \in PC
         /\ \/ UNCHANGED <<kernel, starts>>
            \/ /\ pc' \in {"linux", "hung"}
               /\ kernel' = dev
               /\ \/ starts' = starts
                  \/ dev = "nand" /\ starts < MaxStarts /\ starts' = starts + 1
<1>1. pc' = Boots(Image(dev), next)
  BY DEF Start
<1>2. CASE Image(dev) \in {"good", "hangs"}
  <2>1. pc' \in {"linux", "hung"}
    BY <1>1, <1>2 DEF Boots
  <2>. QED
    BY <1>1, <1>2, <2>1, BootsIsPC DEF Start
<1>3. CASE Image(dev) \notin {"good", "hangs"}
  BY <1>1, <1>3, BootsIsPC DEF Start
<1>. QED
  BY <1>2, <1>3

\* What is true of an environment in RAM whatever the boot did to it.
Good(e) == e \in Env /\ e.ahead \cap e.behind = {}

LEMMA SetCountIsGood ==
  ASSUME NEW e, Good(e), NEW n \in 0..MaxCount
  PROVE  /\ Good(SetCount(e, n))
         /\ SetCount(e, n).count = n
         /\ SetCount(e, n).cmd = e.cmd
         /\ SetCount(e, n).ahead \subseteq e.ahead
BY DEF Good, Env, SetCount, setenv, Moved

LEMMA SetFileaddrIsGood ==
  ASSUME NEW e, Good(e)
  PROVE  /\ Good(SetFileaddr(e))
         /\ SetFileaddr(e).count = e.count
         /\ SetFileaddr(e).cmd = e.cmd
         /\ SetFileaddr(e).ahead \subseteq e.ahead
BY DEF Good, Env, SetFileaddr, setenv, Moved

LEMMA SetBootcmdIsGood ==
  ASSUME NEW e, Good(e), NEW c \in Cmd
  PROVE  /\ Good(SetBootcmd(e, c))
         /\ SetBootcmd(e, c).count = e.count
         /\ SetBootcmd(e, c).cmd = c
BY DEF Good, Env, SetBootcmd

LEMMA SetDevIsGood ==
  ASSUME NEW e, Good(e), NEW d \in {"auto", "forced"}
  PROVE  /\ Good([e EXCEPT !.dev = d])
         /\ [e EXCEPT !.dev = d].count = e.count
         /\ [e EXCEPT !.dev = d].cmd = e.cmd
         /\ [e EXCEPT !.dev = d].ahead = e.ahead
BY DEF Good, Env

LEMMA DefaultIsGood ==
  /\ Good(default_environment)
  /\ default_environment.count = Unset
  /\ default_environment.cmd = "nand"
  /\ default_environment.ahead = {}
BY DEF Good, Env, default_environment, Cmd, Unset

LEMMA IncrementedIsCount ==
  ASSUME NEW n \in 0..MaxCount
  PROVE  /\ Incremented(n) \in 0..MaxCount
         /\ Incremented(n) > n \/ Incremented(n) > Limit
BY BootAssumption DEF Incremented

LEMMA LoadedIsCount ==
  ASSUME NEW e \in Env, NEW n \in bootcount_load(e)
  PROVE  n \in 0..MaxCount /\ (e.count = Unset \/ n = e.count)
BY BootAssumption DEF bootcount_load, Env

-----------------------------------------------------------------------------
\* Types.

EnvType == /\ flash \in Env \cup {NoEnv}
           /\ flash /= NoEnv => Good(flash)
           /\ Good(env)
           /\ s \in SUBSET Moved

ControlType ==
  /\ pc \in PC
  /\ ret \in {"limit", "factory", "web", "prompt"}
  /\ nand_boot_failed \in BOOLEAN
  /\ cal \in {"noart", "factory", "ready"}
  /\ nor \in {"good", "bad"}
  /\ nand \in {"good", "bad", "hangs", "absent"}
  /\ faults \in 0..MaxFaults

Bootcmds == [cmd : Cmd, set : BOOLEAN]

HistoryType ==
  /\ kernel \in Flash \cup {"none"}
  /\ starts \in 0..MaxStarts
  /\ uncounted \in 0..faults
  /\ ran \in Cmd \cup {"none", "garbled"}
  /\ own \in Bootcmds
  /\ stored \in Bootcmds

Types == EnvType /\ ControlType /\ HistoryType

LEMMA EnvTypeStep == Types /\ Next => EnvType'
<1>. SUFFICES ASSUME Types, Next PROVE EnvType'
  OBVIOUS
<1>. USE DEF Types, EnvType
<1>1. CASE PowerUp
  BY <1>1, DefaultIsGood DEF PowerUp, Loaded, Good, Env
<1>2. CASE HostUpgrade \/ check_tftp_file
  BY <1>2, SetFileaddrIsGood DEF HostUpgrade, check_tftp_file
<1>3. CASE Autoboot
  <2>1. PICK n \in bootcount_load(env) : env' = SetCount(env, Incremented(n))
    BY <1>3 DEF Autoboot
  <2>2. Incremented(n) \in 0..MaxCount
    BY <2>1, LoadedIsCount, IncrementedIsCount DEF Good
  <2>. QED
    BY <1>3, <2>1, <2>2, SetCountIsGood DEF Autoboot
<1>4. CASE Erase \/ Write \/ SaveFails
  BY <1>4 DEF Erase, Write, SaveFails, Good
<1>5. CASE PowerCut \/ WebUpgrade \/ Reset
  BY <1>5, DefaultIsGood DEF PowerCut, WebUpgrade, Reset, Off
<1>6. CASE CheckLimit
  BY <1>6, SetBootcmdIsGood DEF CheckLimit, Substitute, Cmd
<1>7. CASE Calibration
  <2>1. Factory \in 0..MaxCount
    BY BootAssumption DEF Factory
  <2>2. env' = env \/ env' = SetCount(env, Factory)
    BY <1>7 DEF Calibration, ControlType
  <2>. QED
    BY <1>7, <2>1, <2>2, SetCountIsGood DEF Calibration
<1>8. CASE UserSetenv \/ WebSwitch
  <2>1. CASE env' = SetBootcmd(env, "user")
    BY <1>8, <2>1, SetBootcmdIsGood DEF UserSetenv, WebSwitch, Cmd
  <2>2. ASSUME NEW d \in {"auto", "forced"}, env' = [env EXCEPT !.dev = d] PROVE Good(env')
    BY <2>2, SetDevIsGood
  <2>. QED
    BY <1>8, <2>1, <2>2 DEF UserSetenv, WebSwitch
<1>9. CASE LinuxResetsCount
  <2>1. 0 \in 0..MaxCount
    BY BootAssumption
  <2>2. Good(flash')
    BY <1>9, <2>1, SetCountIsGood DEF LinuxResetsCount
  <2>. QED
    BY <1>9, <2>2 DEF LinuxResetsCount, Good
<1>10. CASE Abort \/ ResetButton \/ WebInterrupted \/ UserSaveenv \/ Calibrate
  BY <1>10 DEF Abort, ResetButton, WebInterrupted, UserSaveenv, Calibrate
<1>11. CASE BootFactory \/ select_boot_dev \/ BootDefault \/ RunBootcmd
  BY <1>11 DEF BootFactory, select_boot_dev, BootDefault, RunBootcmd
<1>. QED
  BY <1>1, <1>2, <1>3, <1>4, <1>5, <1>6, <1>7, <1>8, <1>9, <1>10, <1>11
     DEF Next, BootStep, User

LEMMA ControlTypeStep == Types /\ Next => ControlType'
<1>. SUFFICES ASSUME Types, Next PROVE ControlType'
  OBVIOUS
<1>. USE DEF Types, ControlType
<1>1. /\ {"off", "linux", "hung", "boot", "run", "select"} \subseteq PC
      /\ {"limit", "factory", "web", "prompt"} \subseteq PC
  BY DEF PC
<1>2. CASE PowerUp \/ Autoboot \/ Erase \/ Write
  BY <1>2, <1>1 DEF PowerUp, Autoboot, Erase, Write, images, PC
<1>3. CASE SaveFails
  <2>1. faults' \in 0..MaxFaults
    BY <1>3, BootAssumption DEF SaveFails
  <2>. QED
    BY <1>1, <1>3, <2>1 DEF SaveFails, images
<1>4. CASE PowerCut
  <2>1. faults' \in 0..MaxFaults
    BY <1>4, BootAssumption DEF PowerCut
  <2>2. nand_boot_failed' \in BOOLEAN
    BY <1>4 DEF PowerCut, Off
  <2>. QED
    BY <1>1, <1>4, <2>1, <2>2 DEF PowerCut, Off, images
<1>5. CASE CheckLimit \/ Calibration
  <2>1. nand_boot_failed' \in BOOLEAN
    BY <1>5 DEF CheckLimit, Substitute, Calibration
  <2>2. pc' \in {"calibration", "prompt", "erase", "lf"}
    BY <1>5 DEF CheckLimit, Calibration
  <2>3. ret' \in {"limit", "factory", "web", "prompt"}
    BY <1>5 DEF CheckLimit, Calibration
  <2>. QED
    BY <1>5, <2>1, <2>2, <2>3 DEF CheckLimit, Calibration, images, PC
<1>6. CASE BootFactory \/ select_boot_dev \/ BootDefault
  <2>1. {"nor", "nand"} = Flash
    BY DEF Flash
  <2>2. pc' \in PC
    BY <1>1, <1>6, <2>1, StartLeaves DEF BootFactory, select_boot_dev, BootDefault
  <2>. QED
    BY <1>6, <2>2 DEF BootFactory, select_boot_dev, BootDefault, images
<1>7. CASE RunBootcmd
  <2>1. pc' \in PC
    BY <1>1, <1>7, StartLeaves DEF RunBootcmd
  <2>. QED
    BY <1>7, <2>1 DEF RunBootcmd, images
<1>8. CASE HostUpgrade \/ check_tftp_file
  <2>1. /\ nor' \in {"good", "bad"}
        /\ nand' \in {"good", "bad", "hangs", "absent"}
        /\ cal' = cal
    BY <1>8 DEF HostUpgrade, check_tftp_file, Reflash, images
  <2>. QED
    BY <1>1, <1>8, <2>1 DEF HostUpgrade, check_tftp_file
<1>9. CASE WebUpgrade \/ Reset
  <2>1. nand_boot_failed' \in BOOLEAN
    BY <1>9 DEF WebUpgrade, Reset, Off
  <2>. QED
    BY <1>1, <1>9, <2>1 DEF WebUpgrade, Reset, Off, Reflash, images
<1>10. CASE Abort \/ ResetButton \/ WebInterrupted \/ WebSwitch
  BY <1>10 DEF Abort, ResetButton, WebInterrupted, WebSwitch, images, PC
<1>11. CASE UserSetenv \/ UserSaveenv \/ LinuxResetsCount \/ Calibrate
  BY <1>11 DEF UserSetenv, UserSaveenv, LinuxResetsCount, Calibrate, images, PC
<1>. QED
  BY <1>2, <1>3, <1>4, <1>5, <1>6, <1>7, <1>8, <1>9, <1>10, <1>11
     DEF Next, BootStep, User

LEMMA DefaultIsBootcmd == Default \in Bootcmds /\ ~Default.set /\ Default.cmd = "nand"
BY DEF Default, Bootcmds, Cmd, default_environment

LEMMA HistoryTypeStep == Types /\ Next => HistoryType'
<1>. SUFFICES ASSUME Types, Next PROVE HistoryType'
  OBVIOUS
<1>. USE DEF Types, HistoryType
<1>0. /\ MaxStarts \in Nat /\ MaxFaults \in Nat /\ faults \in Nat
      /\ 0 \in 0..MaxStarts
  BY BootAssumption DEF MaxStarts, ControlType
<1>1. CASE PowerUp
  BY <1>1, DefaultIsBootcmd DEF PowerUp, counts
<1>2. CASE Write
  BY <1>2 DEF Write, counts
<1>3. CASE SaveFails
  <2>1. uncounted' \in 0..faults'
    BY <1>0, <1>3 DEF SaveFails
  <2>2. starts' \in 0..MaxStarts
    BY <1>0, <1>3 DEF SaveFails
  <2>. QED
    BY <1>3, <2>1, <2>2 DEF SaveFails, cmds
<1>4. CASE PowerCut
  <2>1. uncounted' \in 0..faults'
    BY <1>0, <1>4 DEF PowerCut
  <2>2. starts' \in 0..MaxStarts
    BY <1>0, <1>4 DEF PowerCut
  <2>. QED
    BY <1>4, <2>1, <2>2, DefaultIsBootcmd DEF PowerCut, Off
<1>5. CASE WebUpgrade \/ Reset
  BY <1>5, DefaultIsBootcmd DEF WebUpgrade, Reset, Off, counts
<1>6. CASE CheckLimit
  <2>1. own' \in Bootcmds
    BY <1>6 DEF CheckLimit, Substitute, Bootcmds
  <2>. QED
    BY <1>6, <2>1 DEF CheckLimit, counts
<1>7. CASE BootFactory \/ select_boot_dev \/ BootDefault
  <2>1. {"nor", "nand"} = Flash /\ {"prompt", "boot", "run"} \subseteq PC
    BY DEF Flash, PC
  <2>2. kernel' \in Flash \cup {"none"} /\ starts' \in 0..MaxStarts
    BY <1>0, <1>7, <2>1, StartLeaves DEF BootFactory, select_boot_dev, BootDefault
  <2>. QED
    BY <1>7, <2>2 DEF BootFactory, select_boot_dev, BootDefault, cmds
<1>8. CASE RunBootcmd
  <2>1. "web" \in PC
    BY DEF PC
  <2>2. kernel' \in Flash \cup {"none"} /\ starts' \in 0..MaxStarts
    BY <1>0, <1>8, <2>1, StartLeaves DEF RunBootcmd
  <2>3. ran' \in Cmd \cup {"none", "garbled"}
    BY <1>8 DEF RunBootcmd, Bootcmd, EnvType, Good, Env
  <2>. QED
    BY <1>8, <2>2, <2>3 DEF RunBootcmd, cmds
<1>9. CASE UserSetenv
  <2>1. [cmd |-> "user", set |-> TRUE] \in Bootcmds
    BY DEF Bootcmds, Cmd
  <2>. QED
    BY <1>9, <2>1 DEF UserSetenv, counts
<1>10. CASE LinuxResetsCount
  BY <1>0, <1>10 DEF LinuxResetsCount, cmds
<1>11. CASE UNCHANGED <<faults, history>>
  BY <1>11 DEF history, counts, cmds
<1>. QED
  <2>1. CASE BootStep
    BY <2>1, <1>1, <1>2, <1>6, <1>7, <1>8, <1>11 DEF BootStep, Erase, Calibration,
       check_tftp_file
  <2>2. CASE User
    BY <2>2, <1>5, <1>9, <1>10, <1>11 DEF User, Abort, ResetButton, HostUpgrade,
       WebInterrupted, WebSwitch, UserSaveenv, Calibrate
  <2>. QED
    BY <2>1, <2>2, <1>3, <1>4, <1>11 DEF Next, Autoboot

LEMMA TypesInit == Init => Types
<1>. SUFFICES ASSUME Init PROVE Types
  OBVIOUS
<1>1. EnvType
  BY DefaultIsGood DEF Init, EnvType
<1>2. ControlType
  <2>1. faults \in 0..MaxFaults
    BY BootAssumption DEF Init
  <2>2. nand_boot_failed \in BOOLEAN
    BY DEF Init
  <2>. QED
    BY <2>1, <2>2 DEF Init, ControlType, PC
<1>3. HistoryType
  BY BootAssumption, DefaultIsBootcmd DEF Init, HistoryType, MaxStarts
<1>. QED
  BY <1>1, <1>2, <1>3 DEF Types

LEMMA TypesStutter == Types /\ UNCHANGED vars => Types'
<1>. SUFFICES ASSUME Types, UNCHANGED vars PROVE Types'
  OBVIOUS
<1>1. EnvType'
  BY DEF Types, EnvType, vars, Good
<1>2. ControlType'
  BY DEF Types, ControlType, vars
<1>3. HistoryType'
  BY DEF Types, HistoryType, vars
<1>. QED
  BY <1>1, <1>2, <1>3 DEF Types

LEMMA TypesAlways == Spec => []Types
<1>1. Types /\ [Next]_vars => Types'
  BY EnvTypeStep, ControlTypeStep, HistoryTypeStep, TypesStutter DEF Types
<1>. QED
  BY <1>1, TypesInit, PTL DEF Spec

\* Every variable keeps its type, and no variable of the environment is in the
\* list twice.
THEOREM TypeCorrect == Spec => []TypeOK
<1>1. Types => TypeOK
  BY DEF Types, EnvType, ControlType, HistoryType, TypeOK, Good, Bootcmds
<1>. QED
  BY <1>1, TypesAlways, PTL

-----------------------------------------------------------------------------
\* The counter and the limit.

Saving == {"erase", "write"}
Booting == {"limit", "calibration", "lf", "select", "boot", "run"}
Running == {"linux", "hung"}

\* A counter stands for n starts more than there were, beyond those that were
\* not counted, or is beyond the limit.
Stands(count, n) ==
  count > Limit \/ starts + n <= uncounted + (IF count = Unset THEN 0 ELSE count)

\* The boot goes on below the limit, or with bootcmd substituted.
Checked == env.count <= Limit \/ (nand_boot_failed = TRUE /\ env.cmd = "nor")

\* The counter in flash stands for all starts, and so does the one in RAM; both
\* stand for one more in a boot that has counted itself or failed to.
CountInv ==
  /\ cal /= "ready" => starts = 0
  /\ pc \in {"lf", "select", "boot", "run"} => cal = "ready"
  /\ pc = "write" => flash = NoEnv
  /\ pc /= "write" => Stands(Loaded.count, 0)
  /\ pc /= "off" => Stands(env.count, 0)
  /\ pc \in Saving /\ ret = "limit" => Stands(env.count, 1)
  /\ pc \in Booting => Stands(Loaded.count, 1) /\ Stands(env.count, 1)
  /\ pc \in Booting \ {"limit"} => Checked
  /\ kernel /= "none" => pc \in Running
  /\ LimitHolds

LEMMA Numbers ==
  ASSUME Types
  PROVE  /\ Limit \in Nat \ {0} /\ MaxCount \in Nat /\ MaxCount > Limit /\ Unset = -1
         /\ starts \in Nat /\ uncounted \in Nat /\ faults \in Nat
         /\ env.count \in 0..MaxCount \cup {Unset}
         /\ Loaded.count \in 0..MaxCount \cup {Unset}
         /\ env /= NoEnv
<1>1. starts \in Nat /\ uncounted \in Nat /\ faults \in Nat
  BY BootAssumption DEF Types, ControlType, HistoryType, MaxStarts
<1>2. env.count \in 0..MaxCount \cup {Unset} /\ env /= NoEnv
  BY BootAssumption DEF Types, EnvType, Good, Env
<1>3. Loaded.count \in 0..MaxCount \cup {Unset}
  BY DefaultIsGood DEF Types, EnvType, Good, Env, Loaded
<1>. QED
  BY <1>1, <1>2, <1>3, BootAssumption DEF Unset

\* A step that keeps the counters where they are, in RAM and in flash.
LEMMA CountKept ==
  ASSUME Types, CountInv,
         pc \notin {"off", "write"}, pc' /= "write", flash' = flash,
         cal' = cal \/ cal' = "ready", UNCHANGED <<kernel, counts>>,
         env'.count = env.count,
         pc' \in Saving => ret' /= "limit",
         pc' \in Booting =>
           /\ pc \in Booting
           /\ pc' /= "limit"
           /\ Checked'
           /\ pc' /= "calibration" => cal' = "ready",
         kernel /= "none" => pc' \in Running /\ env'.dev = env.dev
  PROVE  CountInv'
<1>1. Loaded' = Loaded /\ starts' = starts /\ uncounted' = uncounted
  BY DEF Loaded, counts
<1>2. (pc' \in Booting => pc \in Booting) /\ pc /= "write" /\ pc /= "off"
  OBVIOUS
<1>3. \A c, n : Stands(c, n)' <=> Stands(c, n)
  BY <1>1 DEF Stands
<1>4. LimitHolds'
  BY <1>1 DEF LimitHolds, CountInv
<1>5. /\ Stands(Loaded.count, 0)' /\ Stands(env.count, 0)'
      /\ pc' \in Booting => Stands(Loaded.count, 1)' /\ Stands(env.count, 1)'
  BY <1>1, <1>2, <1>3 DEF CountInv
<1>. QED
  BY <1>1, <1>4, <1>5 DEF CountInv, Booting, Running, Saving

\* An attempt to boot, in a boot that has counted itself.
LEMMA CountStart ==
  ASSUME Types, CountInv, pc \in {"select", "boot", "run"},
         NEW dev \in Flash, NEW next \in {"boot", "run", "web"}, Start(dev, next),
         UNCHANGED <<flash, env, ret, nand_boot_failed, cal, uncounted>>,
         dev = "nand" => env.dev /= "auto" \/ env.count <= Limit
  PROVE  CountInv'
<1>1. next \in PC
  BY DEF PC
<1>2. pc \in Booting /\ pc /= "limit" /\ cal = "ready" /\ pc /= "write" /\ pc /= "off"
  BY DEF Booting, CountInv
<1>3. Loaded' = Loaded
  BY DEF Loaded
<1>4. pc' \in {"linux", "hung", "boot", "run", "web"}
  BY <1>1, StartLeaves
<1>5. kernel = "none"
  BY DEF CountInv, Running
<1>6. CASE UNCHANGED <<kernel, starts>>
  <2>1. Checked'
    BY <1>2 DEF CountInv, Booting, Checked
  <2>2. UNCHANGED <<kernel, counts>> /\ env'.count = env.count
    BY <1>6 DEF counts
  <2>3. pc' \notin Saving /\ pc' /= "limit" /\ pc' /= "write"
    BY <1>4 DEF Saving
  <2>. QED
    BY <1>2, <1>5, <2>1, <2>2, <2>3, CountKept
<1>7. CASE pc' \in Running /\ kernel' = dev /\ starts' \in {starts, starts + 1}
           /\ (dev = "nor" => starts' = starts)
  <2>1. Stands(Loaded.count, 0)' /\ Stands(env.count, 0)'
    BY <1>2, <1>3, <1>7, Numbers DEF CountInv, Stands
  <2>2. LimitHolds'
    BY <1>2, <1>7, Numbers DEF LimitHolds, CountInv, Stands
  <2>. QED
    BY <1>2, <1>7, <2>1, <2>2 DEF CountInv, Booting, Running, Saving
<1>. QED
  BY <1>1, <1>6, <1>7, StartLeaves DEF Flash, Running

LEMMA NoStarts ==
  ASSUME NEW n \in Nat, n = 0, NEW u \in Nat, NEW count \in 0..MaxCount \cup {Unset}
  PROVE  /\ n + 0 <= u + (IF count = Unset THEN 0 ELSE count)
         /\ 1 <= u => n + 1 <= u + (IF count = Unset THEN 0 ELSE count)
BY BootAssumption DEF Unset

\* A step after which no environment is left in flash, and no start counted.
LEMMA CountForgotten ==
  ASSUME Types, CountInv, Forgotten, starts' \in Nat, starts' = 0, uncounted' \in Nat,
         env'.count \in 0..MaxCount \cup {Unset},
         pc' \notin Saving \cup (Booting \ {"limit"}),
         pc' = "limit" => uncounted' >= 1,
         kernel' = "none"
  PROVE  CountInv'
<1>1. Loaded'.count = Unset
  BY DefaultIsGood DEF Forgotten, Loaded
<1>2. Limit \in Nat /\ MaxCount \in Nat /\ Unset = -1
  BY BootAssumption DEF Unset
<1>3. LimitHolds'
  BY <1>2 DEF LimitHolds
<1>4. ASSUME NEW c \in 0..MaxCount \cup {Unset}
      PROVE  /\ starts' + 0 <= uncounted' + (IF c = Unset THEN 0 ELSE c)
             /\ 1 <= uncounted' => starts' + 1 <= uncounted' + (IF c = Unset THEN 0 ELSE c)
  BY NoStarts
<1>5. Stands(Loaded.count, 0)' /\ Stands(env.count, 0)'
  BY <1>1, <1>4, Zenon DEF Stands
<1>6. pc' = "limit" => Stands(Loaded.count, 1)' /\ Stands(env.count, 1)'
  <2>1. pc' = "limit" => 1 <= uncounted'
    OBVIOUS
  <2>. QED
    BY <2>1, <1>1, <1>4, Zenon DEF Stands
<1>. QED
  BY <1>3, <1>5, <1>6 DEF CountInv, Booting, Saving, Running

LEMMA CountStep == Types /\ CountInv /\ Next => CountInv'
<1>. SUFFICES ASSUME Types, CountInv, Next PROVE CountInv'
  OBVIOUS
<1>0. env.count \in 0..MaxCount \cup {Unset} /\ kernel \in Flash \cup {"none"}
  BY Numbers DEF Types, HistoryType
<1>1. CASE PowerUp
  <2>1. Loaded' = Loaded /\ env' = Loaded /\ UNCHANGED <<kernel, starts, uncounted, cal>>
        /\ pc = "off" /\ pc' = "countdown"
    BY <1>1 DEF PowerUp, Loaded, counts, images
  <2>2. \A c, n : Stands(c, n)' <=> Stands(c, n)
    BY <2>1 DEF Stands
  <2>3. kernel' = "none"
    BY <2>1 DEF CountInv, Running
  <2>4. Stands(Loaded.count, 0)' /\ Stands(env.count, 0)'
    BY <2>1, <2>2 DEF CountInv
  <2>. QED
    BY <2>1, <2>3, <2>4 DEF CountInv, LimitHolds, Booting, Saving, Running
<1>2. CASE Autoboot
  <2>1. PICK n \in bootcount_load(env) : env' = SetCount(env, Incremented(n))
    BY <1>2 DEF Autoboot
  <2>2. n \in 0..MaxCount /\ (env.count = Unset \/ n = env.count)
    BY <2>1, LoadedIsCount DEF Types, EnvType, Good
  <2>3. env'.count = Incremented(n) /\ Incremented(n) \in 0..MaxCount
        /\ (Incremented(n) > n \/ Incremented(n) > Limit)
    BY <2>1, <2>2, IncrementedIsCount, SetCountIsGood DEF Types, EnvType
  <2>4. /\ pc = "countdown" /\ pc' = "erase" /\ ret' = "limit"
        /\ Loaded' = Loaded /\ UNCHANGED <<kernel, starts, uncounted, cal>>
    BY <1>2 DEF Autoboot, Loaded, history, counts, images
  <2>5. Stands(env.count, 0) /\ Stands(Loaded.count, 0) /\ kernel = "none"
    BY <2>4 DEF CountInv, Running
  <2>6. Stands(env.count, 0)' /\ Stands(env.count, 1)' /\ Stands(Loaded.count, 0)'
    BY <2>2, <2>3, <2>4, <2>5, Numbers DEF Stands
  <2>. QED
    BY <2>4, <2>5, <2>6 DEF CountInv, LimitHolds, Booting, Saving, Running
<1>3. CASE Erase
  <2>1. /\ pc = "erase" /\ pc' = "write" /\ flash' = NoEnv
        /\ UNCHANGED <<env, ret, kernel, starts, uncounted, cal>>
    BY <1>3 DEF Erase, history, counts, images
  <2>2. \A c, n : Stands(c, n)' <=> Stands(c, n)
    BY <2>1 DEF Stands
  <2>3. Stands(env.count, 0)' /\ (ret' = "limit" => Stands(env.count, 1)')
    BY <2>1, <2>2 DEF CountInv, Saving
  <2>. QED
    BY <2>1, <2>3 DEF CountInv, LimitHolds, Booting, Saving, Running
<1>4. CASE Write
  <2>1. /\ pc = "write" /\ pc' = ret /\ ret' = ret /\ flash' = env
        /\ UNCHANGED <<env, kernel, starts, uncounted, cal>>
    BY <1>4 DEF Write, counts, images
  <2>2. \A c, n : Stands(c, n)' <=> Stands(c, n)
    BY <2>1 DEF Stands
  <2>3. Loaded' = env /\ kernel = "none"
    BY <2>1, Numbers DEF Loaded, CountInv, Running
  <2>4. /\ Stands(env.count, 0)' /\ Stands(Loaded.count, 0)'
        /\ ret' = "limit" => Stands(env.count, 1)' /\ Stands(Loaded.count, 1)'
    BY <2>1, <2>2, <2>3 DEF CountInv, Saving
  <2>5. ret \in {"limit", "factory", "web", "prompt"}
    BY DEF Types, ControlType
  <2>. QED
    BY <2>1, <2>3, <2>4, <2>5 DEF CountInv, LimitHolds, Booting, Saving, Running
<1>5. CASE SaveFails
  <2>1. /\ pc \in Saving /\ pc' = ret /\ ret' = ret /\ UNCHANGED <<env, kernel, cal>>
        /\ ret \in {"limit", "factory", "web", "prompt"} /\ flash' \in {flash, NoEnv}
    BY <1>5 DEF SaveFails, images, Saving, Types, ControlType
  <2>2. kernel = "none"
    BY <2>1 DEF CountInv, Running, Saving
  <2>3. pc' \notin Saving /\ (pc' \in Booting => pc' = "limit")
    BY <2>1 DEF Saving, Booting
  <2>4. CASE Forgotten
    <3>1. starts' = 0 /\ uncounted' = (IF ret = "limit" THEN 1 ELSE 0)
      BY <1>5, <2>4 DEF SaveFails
    <3>2. starts' \in Nat /\ uncounted' \in Nat /\ (pc' = "limit" => uncounted' >= 1)
      BY <2>1, <3>1
    <3>. QED
      BY <1>0, <2>1, <2>2, <2>3, <2>4, <3>1, <3>2, CountForgotten
  <2>5. CASE ~Forgotten
    <3>1. /\ flash' = flash /\ flash /= NoEnv /\ starts' = starts
          /\ uncounted' = uncounted + (IF ret = "limit" THEN 1 ELSE 0)
      BY <1>5, <2>1, <2>5 DEF SaveFails, Forgotten
    <3>2. pc = "erase" /\ Loaded' = Loaded
      BY <2>1, <3>1 DEF CountInv, Saving, Loaded
    <3>3. /\ Stands(env.count, 0) /\ Stands(Loaded.count, 0)
          /\ ret = "limit" => Stands(env.count, 1)
      BY <2>1, <3>2 DEF CountInv, Saving
    <3>4. /\ Stands(env.count, 0)' /\ Stands(Loaded.count, 0)'
          /\ ret = "limit" => Stands(env.count, 1)' /\ Stands(Loaded.count, 1)'
      BY <2>1, <3>1, <3>2, <3>3, Numbers DEF Stands
    <3>. QED
      BY <2>1, <2>2, <2>3, <3>1, <3>4 DEF CountInv, LimitHolds, Booting, Saving, Running
  <2>. QED
    BY <2>4, <2>5
<1>6. CASE PowerCut
  <2>1. /\ pc' = "off" /\ kernel' = "none" /\ UNCHANGED cal /\ pc /= "off"
        /\ env' = default_environment
    BY <1>6 DEF PowerCut, Off, images
  <2>2. CASE Forgotten
    <3>1. starts' = 0 /\ uncounted' = 0
      BY <1>6, <2>2 DEF PowerCut
    <3>. QED
      BY <2>1, <2>2, <3>1, DefaultIsGood, CountForgotten DEF Saving, Booting
  <2>3. CASE ~Forgotten
    <3>1. flash' = flash /\ flash /= NoEnv /\ starts' = starts /\ uncounted' = uncounted
      BY <1>6, <2>3 DEF PowerCut, Forgotten
    <3>2. Loaded' = Loaded /\ pc /= "write"
      BY <3>1 DEF Loaded, CountInv
    <3>3. Stands(Loaded.count, 0)'
      BY <3>1, <3>2 DEF CountInv, Stands
    <3>. QED
      BY <2>1, <3>1, <3>3 DEF CountInv, LimitHolds, Booting, Saving, Running
  <2>. QED
    BY <2>2, <2>3
<1>7. CASE WebUpgrade \/ Reset
  <2>1. /\ pc' = "off" /\ kernel' = "none" /\ cal' = cal /\ pc \notin {"off", "write"}
        /\ UNCHANGED <<flash, starts, uncounted>>
    BY <1>7 DEF WebUpgrade, Reset, Off, Reflash, images, counts
  <2>2. Loaded' = Loaded
    BY <2>1 DEF Loaded
  <2>3. Stands(Loaded.count, 0)'
    BY <2>1, <2>2 DEF CountInv, Stands
  <2>. QED
    BY <2>1, <2>3 DEF CountInv, LimitHolds, Booting, Saving, Running
<1>8. CASE CheckLimit
  <2>1. /\ pc = "limit" /\ pc' = "calibration" /\ UNCHANGED <<flash, cal, kernel, counts>>
        /\ kernel = "none"
    BY <1>8 DEF CheckLimit, images, counts, CountInv, Running
  <2>2. CASE Exceeded(env.count)
    <3>1. env'.count = env.count /\ env'.cmd = "nor" /\ nand_boot_failed' = TRUE
      BY <1>8, <2>2, SetBootcmdIsGood DEF CheckLimit, Substitute, Types, EnvType, Cmd
    <3>. QED
      BY <2>1, <3>1, CountKept DEF Booting, Saving, Checked
  <2>3. CASE ~Exceeded(env.count)
    <3>1. env' = env
      BY <1>8, <2>3 DEF CheckLimit
    <3>2. env.count <= Limit
      BY <2>3, Numbers DEF Exceeded
    <3>. QED
      BY <2>1, <3>1, <3>2, CountKept DEF Booting, Saving, Checked
  <2>. QED
    BY <2>2, <2>3
<1>9. CASE Calibration
  <2>1. /\ pc = "calibration" /\ UNCHANGED <<flash, cal, kernel, starts, uncounted>>
        /\ kernel = "none"
    BY <1>9 DEF Calibration, images, history, counts, CountInv, Running
  <2>2. CASE cal = "factory"
    <3>1. /\ ret' = "factory" /\ pc' = "erase" /\ starts = 0
          /\ env' = SetCount(env, Factory)
      BY <1>9, <2>2 DEF Calibration, CountInv
    <3>2. env'.count \in 0..MaxCount
      BY <3>1, BootAssumption, SetCountIsGood DEF Factory, Types, EnvType
    <3>3. Loaded' = Loaded
      BY <2>1 DEF Loaded
    <3>4. uncounted' \in Nat /\ starts' \in Nat /\ starts' = 0
          /\ Loaded'.count \in 0..MaxCount \cup {Unset}
      BY <2>1, <3>1, <3>3, Numbers
    <3>5. ASSUME NEW c \in 0..MaxCount \cup {Unset}
          PROVE  starts' + 0 <= uncounted' + (IF c = Unset THEN 0 ELSE c)
      BY <3>4, NoStarts
    <3>6. Stands(env.count, 0)' /\ Stands(Loaded.count, 0)'
      BY <3>2, <3>4, <3>5, Zenon DEF Stands
    <3>. QED
      BY <2>1, <3>1, <3>4, <3>6 DEF CountInv, LimitHolds, Booting, Saving, Running
  <2>3. CASE cal /= "factory"
    <3>1. env' = env /\ (pc' = "prompt" \/ (pc' = "lf" /\ cal = "ready"))
      <4>1. CASE cal = "noart"
        BY <1>9, <4>1 DEF Calibration
      <4>2. CASE cal = "ready"
        BY <1>9, <4>2 DEF Calibration
      <4>. QED
        BY <2>3, <4>1, <4>2 DEF Types, ControlType
    <3>2. nand_boot_failed = TRUE => nand_boot_failed' = TRUE
      BY <1>9, <2>3, Zenon DEF Calibration, Types, ControlType
    <3>3. Checked'
      BY <2>1, <3>1, <3>2 DEF CountInv, Booting, Checked
    <3>. QED
      BY <2>1, <3>1, <3>3, CountKept DEF counts, Booting, Saving
  <2>. QED
    BY <2>2, <2>3
<1>10. CASE HostUpgrade \/ check_tftp_file
  <2>1. env'.count = env.count /\ env'.cmd = env.cmd
    BY <1>10, SetFileaddrIsGood DEF HostUpgrade, check_tftp_file, Types, EnvType
  <2>2. /\ \/ pc = "countdown" /\ pc' = "countdown"
           \/ pc = "lf" /\ pc' = "select"
        /\ UNCHANGED <<flash, cal, kernel, counts, nand_boot_failed>>
    BY <1>10 DEF HostUpgrade, check_tftp_file, Reflash, images, history
  <2>3. kernel = "none" /\ (pc = "lf" => cal = "ready")
    BY <2>2 DEF CountInv, Running
  <2>4. pc = "lf" => Checked'
    BY <2>1, <2>2 DEF CountInv, Booting, Checked
  <2>. QED
    BY <2>1, <2>2, <2>3, <2>4, CountKept DEF Booting, Saving
<1>11. CASE BootFactory
  <2>1. "prompt" \in PC /\ "nor" \in Flash /\ "nor" /= "nand"
    BY DEF PC, Flash
  <2>2. /\ pc = "factory" /\ UNCHANGED <<flash, env, uncounted, cal, ret>>
        /\ Start("nor", "prompt") /\ kernel = "none"
    BY <1>11 DEF BootFactory, images, CountInv, Running
  <2>3. /\ pc' \in {"linux", "hung", "prompt"} /\ starts' = starts
        /\ kernel' = kernel \/ (pc' \in {"linux", "hung"} /\ kernel' = "nor")
    BY <2>1, <2>2, StartLeaves
  <2>4. Loaded' = Loaded /\ pc \notin {"off", "write"}
    BY <2>2 DEF Loaded
  <2>5. Stands(env.count, 0)' /\ Stands(Loaded.count, 0)'
    BY <2>2, <2>3, <2>4 DEF CountInv, Stands
  <2>. QED
    BY <2>1, <2>2, <2>3, <2>5 DEF CountInv, LimitHolds, Booting, Saving, Running
<1>12. CASE select_boot_dev
  <2>1. /\ pc = "select" /\ cal' = cal /\ kernel = "none"
        /\ UNCHANGED <<flash, env, ret, nand_boot_failed, uncounted>>
    BY <1>12 DEF select_boot_dev, images, CountInv, Running
  <2>2. CASE pc' = "boot" /\ UNCHANGED <<kernel, starts>>
    <3>1. Checked' /\ cal = "ready"
      BY <2>1 DEF CountInv, Booting, Checked
    <3>. QED
      BY <2>1, <2>2, <3>1, CountKept DEF counts, Booting, Saving
  <2>3. ASSUME env.dev = "forced", NEW dev \in Flash, Start(dev, "boot")
        PROVE  CountInv'
    BY <2>1, <2>3, CountStart
  <2>. QED
    BY <1>12, <2>2, <2>3 DEF select_boot_dev
<1>13. CASE BootDefault
  <2>1. /\ pc = "boot" /\ UNCHANGED <<flash, env, ret, nand_boot_failed, cal, uncounted>>
    BY <1>13 DEF BootDefault, images
  <2>2. ~nand_boot_failed => env.count <= Limit
    BY <2>1 DEF CountInv, Booting, Checked
  <2>3. "nor" \in Flash /\ "nand" \in Flash /\ "nor" /= "nand"
    BY DEF Flash
  <2>4. CASE nand_boot_failed
    <3>1. Start("nor", "run")
      BY <1>13, <2>4 DEF BootDefault
    <3>. QED
      BY <2>1, <2>3, <3>1, CountStart
  <2>5. CASE ~nand_boot_failed
    <3>1. Start("nand", "run")
      BY <1>13, <2>5 DEF BootDefault
    <3>. QED
      BY <2>1, <2>2, <2>3, <2>5, <3>1, CountStart
  <2>. QED
    BY <2>4, <2>5
<1>14. CASE RunBootcmd
  <2>1. /\ pc = "run" /\ kernel = "none" /\ cal = "ready"
        /\ UNCHANGED <<flash, env, ret, nand_boot_failed, cal, uncounted>>
    BY <1>14 DEF RunBootcmd, images, CountInv, Running
  <2>2. CASE Bootcmd \in Flash
    <3>1. Start(Bootcmd, "web")
      BY <1>14, <2>2 DEF RunBootcmd
    <3>2. Bootcmd = "nand" => env.count <= Limit
      BY <2>1 DEF Bootcmd, CountInv, Booting, Checked
    <3>. QED
      BY <2>1, <2>2, <3>1, <3>2, CountStart
  <2>3. CASE Bootcmd \notin Flash
    <3>1. pc' \in {"linux", "hung", "web"} /\ UNCHANGED <<kernel, starts>>
      BY <1>14, <2>3 DEF RunBootcmd
    <3>. QED
      BY <2>1, <3>1, CountKept DEF counts, Booting, Saving
  <2>. QED
    BY <2>2, <2>3
<1>15. CASE Abort \/ ResetButton \/ WebInterrupted \/ UserSaveenv
  <2>1. /\ pc \in {"countdown", "web", "prompt"} /\ pc' \in {"prompt", "web", "erase"}
        /\ pc' = "erase" => ret' = "prompt"
        /\ UNCHANGED <<flash, env, cal, kernel, counts>>
    BY <1>15 DEF Abort, ResetButton, WebInterrupted, UserSaveenv, history, images
  <2>2. kernel = "none"
    BY <2>1 DEF CountInv, Running
  <2>. QED
    BY <2>1, <2>2, CountKept DEF Booting, Saving
<1>16. CASE WebSwitch \/ UserSetenv
  <2>1. env'.count = env.count
    <3>1. CASE env' = SetBootcmd(env, "user")
      BY <3>1, SetBootcmdIsGood DEF Types, EnvType, Cmd
    <3>2. ASSUME NEW d \in {"auto", "forced"}, env' = [env EXCEPT !.dev = d]
          PROVE  env'.count = env.count
      BY <3>2, SetDevIsGood DEF Types, EnvType
    <3>. QED
      BY <1>16, <3>1, <3>2 DEF UserSetenv, WebSwitch
  <2>2. /\ pc \in {"web", "prompt"} /\ pc' \in {"erase", "prompt"}
        /\ pc' = "erase" => ret' = "web"
        /\ UNCHANGED <<flash, cal, kernel, counts>>
    BY <1>16 DEF UserSetenv, WebSwitch, history, images
  <2>3. kernel = "none"
    BY <2>2 DEF CountInv, Running
  <2>. QED
    BY <2>1, <2>2, <2>3, CountKept DEF Booting, Saving
<1>17. CASE LinuxResetsCount
  <2>1. /\ pc = "linux" /\ pc' = pc /\ flash /= NoEnv /\ flash' = SetCount(flash, 0)
        /\ starts' = 0 /\ uncounted' = 0 /\ UNCHANGED <<env, cal, kernel>>
    BY <1>17 DEF LinuxResetsCount, images
  <2>2. Good(flash') /\ flash'.count = 0
    BY <2>1, BootAssumption, SetCountIsGood DEF Types, EnvType
  <2>3. flash' /= NoEnv
    BY <2>2, BootAssumption DEF Good
  <2>4. Loaded'.count = 0
    BY <2>2, <2>3 DEF Loaded
  <2>5. /\ starts' \in Nat /\ uncounted' \in Nat /\ Limit \in Nat
        /\ Loaded'.count \in 0..MaxCount \cup {Unset}
        /\ env'.count \in 0..MaxCount \cup {Unset}
    BY <1>0, <2>1, <2>4, Numbers
  <2>6. ASSUME NEW c \in 0..MaxCount \cup {Unset}
        PROVE  starts' + 0 <= uncounted' + (IF c = Unset THEN 0 ELSE c)
    BY <2>1, <2>5, NoStarts
  <2>7. Stands(env.count, 0)' /\ Stands(Loaded.count, 0)'
    BY <2>5, <2>6, Zenon DEF Stands
  <2>8. LimitHolds'
    BY <2>1, <2>5 DEF LimitHolds
  <2>. QED
    BY <2>1, <2>5, <2>7, <2>8 DEF CountInv, Booting, Saving, Running
<1>18. CASE Calibrate
  <2>1. pc = "linux" /\ pc' = pc /\ cal' = "ready" /\ UNCHANGED <<flash, env, kernel, counts>>
    BY <1>18 DEF Calibrate, history
  <2>. QED
    BY <2>1, CountKept DEF Booting, Saving, Running
<1>. QED
  BY <1>1, <1>2, <1>3, <1>4, <1>5, <1>6, <1>7, <1>8, <1>9, <1>10, <1>11, <1>12,
     <1>13, <1>14, <1>15, <1>16, <1>17, <1>18 DEF Next, BootStep, User

\* For any limit, any number of faults, whatever an unset counter reads as and
\* whatever the calibration saves: a kernel in NAND flash runs in the first
\* Limit boots that start one, and in one more for each boot whose counter was
\* not saved, unless a device is forced; until the counter is reset or the
\* environment lost.
THEOREM LimitIsKept == Spec => []LimitHolds
<1>1. Init => CountInv
  <2>1. ASSUME Init PROVE Stands(Loaded.count, 0)
    BY <2>1, BootAssumption DEF Init, Stands, Loaded, default_environment, Unset
  <2>. QED
    BY <2>1, BootAssumption DEF Init, CountInv, LimitHolds, Booting, Saving, Running
<1>2. Types /\ CountInv /\ UNCHANGED vars => CountInv'
  BY DEF vars, CountInv, Stands, Loaded, Checked, LimitHolds
<1>3. CountInv => LimitHolds
  BY DEF CountInv
<1>. QED
  BY <1>1, <1>2, <1>3, CountStep, TypesAlways, PTL DEF Spec

-----------------------------------------------------------------------------
\* The order of the variables.

\* Where nobody set bootcmd, it is ahead of all that the boots set, in flash as
\* in RAM, and was so when s was taken.
OrderInv ==
  /\ ~stored.set /\ flash /= NoEnv => flash.ahead = {}
  /\ ~own.set => s = {} /\ env.ahead = {}
  /\ ran = "garbled" => own.set
  /\ pc = "off" => ran = "none"

\* A step that only moves variables behind bootcmd.
LEMMA OrderKept ==
  ASSUME OrderInv, UNCHANGED <<s, ran, cmds>>, flash' \in {flash, NoEnv},
         env'.ahead \subseteq env.ahead, pc' /= "off"
  PROVE  OrderInv'
<1>1. own' = own /\ stored' = stored /\ s' = s /\ ran' = ran
  BY DEF cmds
<1>. QED
  BY <1>1 DEF OrderInv

LEMMA OrderStep == Types /\ OrderInv /\ Next => OrderInv'
<1>. SUFFICES ASSUME Types, OrderInv, Next PROVE OrderInv'
  OBVIOUS
<1>0. /\ Good(env) /\ (flash /= NoEnv => Good(flash)) /\ env /= NoEnv
      /\ pc \in PC /\ ret \in {"limit", "factory", "web", "prompt"}
      /\ cal \in {"noart", "factory", "ready"}
  BY BootAssumption DEF Types, EnvType, ControlType, Good
<1>1. CASE PowerUp
  <2>1. /\ pc = "off" /\ pc' = "countdown" /\ s' = env'.ahead
        /\ UNCHANGED <<flash, ran, stored>>
        /\ env' = Loaded /\ own' = (IF flash = NoEnv THEN Default ELSE stored)
    BY <1>1 DEF PowerUp
  <2>2. ~own'.set => env'.ahead = {}
    BY <2>1, DefaultIsGood DEF Loaded, OrderInv
  <2>. QED
    BY <2>1, <2>2 DEF OrderInv
<1>2. CASE Autoboot
  <2>1. PICK n \in bootcount_load(env) : env' = SetCount(env, Incremented(n))
    BY <1>2 DEF Autoboot
  <2>2. env'.ahead \subseteq env.ahead
    BY <1>0, <2>1, LoadedIsCount, IncrementedIsCount, SetCountIsGood DEF Good
  <2>. QED
    BY <1>2, <2>2, OrderKept DEF Autoboot, history
<1>3. CASE HostUpgrade \/ check_tftp_file
  <2>1. env'.ahead \subseteq env.ahead
    BY <1>0, <1>3, SetFileaddrIsGood DEF HostUpgrade, check_tftp_file
  <2>2. /\ flash' = flash /\ pc' /= "off"
        /\ UNCHANGED <<s, ran, cmds>>
    BY <1>3 DEF HostUpgrade, check_tftp_file, history
  <2>. QED
    BY <2>1, <2>2, OrderKept
<1>4. CASE Erase \/ SaveFails
  <2>1. /\ flash' \in {flash, NoEnv} /\ env' = env /\ pc' /= "off"
        /\ UNCHANGED <<s, ran, cmds>>
    BY <1>0, <1>4 DEF Erase, SaveFails, history
  <2>. QED
    BY <2>1, OrderKept
<1>5. CASE Write
  <2>1. /\ flash' = env /\ stored' = own /\ pc' /= "off"
        /\ UNCHANGED <<env, s, ran, own>>
    BY <1>0, <1>5 DEF Write
  <2>. QED
    BY <2>1 DEF OrderInv
<1>6. CASE PowerCut \/ WebUpgrade \/ Reset
  <2>1. /\ flash' \in {flash, NoEnv} /\ stored' = stored /\ s' = {} /\ ran' = "none"
        /\ env' = default_environment
    BY <1>6 DEF PowerCut, WebUpgrade, Reset, Off
  <2>. QED
    BY <2>1, DefaultIsGood DEF OrderInv
<1>7. CASE CheckLimit
  <2>1. CASE Exceeded(env.count)
    <3>1. own' = [own EXCEPT !.set = TRUE] /\ pc' /= "off"
          /\ UNCHANGED <<flash, stored, ran>>
      BY <1>7, <2>1 DEF CheckLimit, Substitute
    <3>2. own'.set
      BY <3>1 DEF Types, HistoryType, Bootcmds
    <3>. QED
      BY <3>1, <3>2 DEF OrderInv
  <2>2. CASE ~Exceeded(env.count)
    <3>1. env' = env /\ own' = own /\ pc' /= "off" /\ UNCHANGED <<flash, s, stored, ran>>
      BY <1>7, <2>2 DEF CheckLimit
    <3>. QED
      BY <3>1, OrderKept DEF cmds
  <2>. QED
    BY <2>1, <2>2
<1>8. CASE Calibration
  <2>1. Factory \in 0..MaxCount
    BY BootAssumption DEF Factory
  <2>2. (env' = env \/ env' = SetCount(env, Factory)) /\ pc' /= "off"
    BY <1>0, <1>8 DEF Calibration
  <2>3. env'.ahead \subseteq env.ahead
    BY <1>0, <2>1, <2>2, SetCountIsGood
  <2>. QED
    BY <1>8, <2>2, <2>3, OrderKept DEF Calibration, history
<1>9. CASE BootFactory \/ select_boot_dev \/ BootDefault
  <2>1. /\ {"nor", "nand"} = Flash
        /\ {"prompt", "boot", "run"} \subseteq PC /\ "off" \notin {"prompt", "boot", "run"}
    BY DEF Flash, PC
  <2>2. pc' /= "off"
    BY <1>9, <2>1, StartLeaves DEF BootFactory, select_boot_dev, BootDefault
  <2>. QED
    BY <1>9, <2>2, OrderKept DEF BootFactory, select_boot_dev, BootDefault
<1>10. CASE RunBootcmd
  <2>1. pc' /= "off"
    BY <1>10, StartLeaves DEF RunBootcmd, PC
  <2>2. ran' = "garbled" => env.ahead /= s
    BY <1>0, <1>10 DEF RunBootcmd, Bootcmd, Good, Env, Cmd
  <2>3. UNCHANGED <<flash, env, s, cmds>>
    BY <1>10 DEF RunBootcmd
  <2>. QED
    BY <2>1, <2>2, <2>3 DEF OrderInv, cmds
<1>11. CASE Abort \/ ResetButton \/ WebInterrupted \/ UserSaveenv \/ Calibrate
  <2>1. UNCHANGED <<flash, env, s, ran, cmds>> /\ pc' /= "off"
    BY <1>11 DEF Abort, ResetButton, WebInterrupted, UserSaveenv, Calibrate, history
  <2>. QED
    BY <2>1, OrderKept
<1>12. CASE WebSwitch \/ UserSetenv
  <2>1. pc' /= "off" /\ UNCHANGED <<flash, s, ran, stored>>
    BY <1>12 DEF WebSwitch, UserSetenv, history, cmds
  <2>2. CASE own' = [cmd |-> "user", set |-> TRUE]
    BY <2>1, <2>2 DEF OrderInv
  <2>3. ASSUME NEW d \in {"auto", "forced"}, env' = [env EXCEPT !.dev = d], own' = own
        PROVE  OrderInv'
    BY <1>0, <2>1, <2>3, SetDevIsGood, OrderKept DEF cmds
  <2>. QED
    BY <1>12, <2>2, <2>3 DEF WebSwitch, UserSetenv, history, cmds
<1>13. CASE LinuxResetsCount
  <2>1. 0 \in 0..MaxCount
    BY BootAssumption
  <2>2. flash'.ahead \subseteq flash.ahead /\ flash /= NoEnv
    BY <1>0, <1>13, <2>1, SetCountIsGood DEF LinuxResetsCount
  <2>3. pc' /= "off" /\ UNCHANGED <<env, s, ran, own, stored>>
    BY <1>13 DEF LinuxResetsCount, cmds
  <2>. QED
    BY <2>2, <2>3 DEF OrderInv
<1>. QED
  BY <1>1, <1>2, <1>3, <1>4, <1>5, <1>6, <1>7, <1>8, <1>9, <1>10, <1>11, <1>12,
     <1>13 DEF Next, BootStep, User

\* The pointer taken before the countdown points to bootcmd when it is run,
\* unless bootcmd was set in the environment of this boot.
THEOREM BootcmdIsRun == Spec => []RunsBootcmd
<1>1. Init => OrderInv
  BY DEF Init, OrderInv, default_environment
<1>2. OrderInv /\ UNCHANGED vars => OrderInv'
  BY DEF vars, OrderInv
<1>3. OrderInv => RunsBootcmd
  BY DEF OrderInv, RunsBootcmd
<1>. QED
  BY <1>1, <1>2, <1>3, OrderStep, TypesAlways, PTL DEF Spec

-----------------------------------------------------------------------------
\* The stored bootcmd.

\* The boot has not come to the limit yet.
Counting == pc \in {"off", "countdown", "limit"} \/ (pc \in Saving /\ ret = "limit")

\* The bootcmd in flash is the one that somebody set. So is the one in RAM
\* until the limit is looked at, and then it may be the substitute.
CmdInv ==
  /\ OwnBootcmdStored
  /\ pc = "write" => flash = NoEnv
  /\ env.cmd = own.cmd \/ (env.cmd = "nor" /\ ~Counting)

\* A step that keeps the stored bootcmd or loses it, and keeps the one in RAM.
LEMMA CmdKept ==
  ASSUME CmdInv, flash' \in {flash, NoEnv}, env'.cmd = env.cmd, UNCHANGED cmds,
         pc' = "write" => flash' = NoEnv, Counting' => Counting
  PROVE  CmdInv'
<1>1. own' = own /\ stored' = stored
  BY DEF cmds
<1>. QED
  BY <1>1 DEF CmdInv, OwnBootcmdStored

LEMMA CmdStep == Types /\ CmdInv /\ ~SubstituteSaved /\ Next => CmdInv'
<1>. SUFFICES ASSUME Types, CmdInv, ~SubstituteSaved, Next PROVE CmdInv'
  OBVIOUS
<1>0. /\ Good(env) /\ (flash /= NoEnv => Good(flash)) /\ env /= NoEnv
      /\ ret \in {"limit", "factory", "web", "prompt"}
      /\ cal \in {"noart", "factory", "ready"}
  BY BootAssumption DEF Types, EnvType, ControlType, Good
<1>1. CASE PowerUp
  <2>1. /\ pc' = "countdown" /\ UNCHANGED <<flash, stored>>
        /\ env' = Loaded /\ own' = (IF flash = NoEnv THEN Default ELSE stored)
    BY <1>1 DEF PowerUp
  <2>2. env'.cmd = own'.cmd
    BY <2>1 DEF Loaded, Default, CmdInv, OwnBootcmdStored
  <2>. QED
    BY <2>1, <2>2 DEF CmdInv, OwnBootcmdStored
<1>2. CASE Autoboot
  <2>1. PICK n \in bootcount_load(env) : env' = SetCount(env, Incremented(n))
    BY <1>2 DEF Autoboot
  <2>2. env'.cmd = env.cmd
    BY <1>0, <2>1, LoadedIsCount, IncrementedIsCount, SetCountIsGood DEF Good
  <2>3. /\ Counting /\ pc' /= "write" /\ flash' = flash
        /\ UNCHANGED cmds
    BY <1>2 DEF Autoboot, Counting, history
  <2>. QED
    BY <2>2, <2>3, CmdKept
<1>3. CASE HostUpgrade \/ check_tftp_file
  <2>1. env'.cmd = env.cmd
    BY <1>0, <1>3, SetFileaddrIsGood DEF HostUpgrade, check_tftp_file
  <2>2. /\ flash' = flash /\ pc' /= "write" /\ (Counting' => Counting)
        /\ UNCHANGED cmds
    BY <1>3 DEF HostUpgrade, check_tftp_file, history, Counting, Saving
  <2>. QED
    BY <2>1, <2>2, CmdKept
<1>4. CASE Erase \/ SaveFails
  <2>1. /\ flash' \in {flash, NoEnv} /\ env' = env
        /\ pc' = "write" => flash' = NoEnv
        /\ UNCHANGED cmds
    BY <1>0, <1>4 DEF Erase, SaveFails, history
  <2>2. Counting' => Counting
    BY <1>0, <1>4 DEF Erase, SaveFails, Counting, Saving
  <2>. QED
    BY <2>1, <2>2, CmdKept
<1>5. CASE Write
  <2>1. /\ pc = "write" /\ pc' = ret /\ ret' = ret /\ flash' = env /\ stored' = own
        /\ UNCHANGED <<env, own>>
    BY <1>5 DEF Write
  <2>2. env.cmd = own.cmd
    BY <2>1 DEF CmdInv, Counting, Saving, SubstituteSaved
  <2>. QED
    BY <1>0, <2>1, <2>2 DEF CmdInv, OwnBootcmdStored
<1>6. CASE PowerCut \/ WebUpgrade \/ Reset
  <2>1. /\ flash' \in {flash, NoEnv} /\ stored' = stored /\ own' = Default
        /\ env' = default_environment /\ pc' = "off"
    BY <1>6 DEF PowerCut, WebUpgrade, Reset, Off
  <2>. QED
    BY <2>1 DEF CmdInv, OwnBootcmdStored, Default
<1>7. CASE CheckLimit
  <2>1. pc = "limit" /\ pc' = "calibration" /\ UNCHANGED <<flash, stored>>
    BY <1>7 DEF CheckLimit
  <2>2. CASE Exceeded(env.count)
    <3>1. env'.cmd = "nor"
      BY <1>0, <1>7, <2>2, SetBootcmdIsGood DEF CheckLimit, Substitute, Cmd
    <3>2. ~Counting'
      BY <2>1 DEF Counting, Saving
    <3>. QED
      BY <2>1, <3>1, <3>2 DEF CmdInv, OwnBootcmdStored
  <2>3. CASE ~Exceeded(env.count)
    <3>1. env' = env /\ own' = own
      BY <1>7, <2>3 DEF CheckLimit
    <3>. QED
      BY <2>1, <3>1, CmdKept DEF Counting, Saving, cmds
  <2>. QED
    BY <2>2, <2>3
<1>8. CASE Calibration
  <2>1. Factory \in 0..MaxCount
    BY BootAssumption DEF Factory
  <2>2. /\ env' = env \/ env' = SetCount(env, Factory)
        /\ \/ pc' \in {"prompt", "lf"}
           \/ pc' = "erase" /\ ret' = "factory"
    BY <1>0, <1>8 DEF Calibration
  <2>3. env'.cmd = env.cmd
    BY <1>0, <2>1, <2>2, SetCountIsGood
  <2>4. ~Counting' /\ pc' /= "write"
    BY <2>2 DEF Counting, Saving
  <2>. QED
    BY <1>8, <2>3, <2>4, CmdKept DEF Calibration, history
<1>9. CASE BootFactory \/ select_boot_dev \/ BootDefault
  <2>1. {"nor", "nand"} = Flash /\ {"prompt", "boot", "run"} \subseteq PC
    BY DEF Flash, PC
  <2>2. pc' \in {"linux", "hung", "prompt", "boot", "run"}
    BY <1>9, <2>1, StartLeaves DEF BootFactory, select_boot_dev, BootDefault
  <2>3. ~Counting' /\ pc' /= "write"
    BY <2>2 DEF Counting, Saving
  <2>. QED
    BY <1>9, <2>3, CmdKept DEF BootFactory, select_boot_dev, BootDefault
<1>10. CASE RunBootcmd
  <2>1. pc' \in {"linux", "hung", "web"}
    BY <1>10, StartLeaves DEF RunBootcmd, PC
  <2>2. ~Counting' /\ pc' /= "write"
    BY <2>1 DEF Counting, Saving
  <2>. QED
    BY <1>10, <2>2, CmdKept DEF RunBootcmd
<1>11. CASE Abort \/ ResetButton \/ WebInterrupted \/ UserSaveenv \/ Calibrate
  <2>1. UNCHANGED <<flash, env, cmds>> /\ pc' /= "write"
    BY <1>11 DEF Abort, ResetButton, WebInterrupted, UserSaveenv, Calibrate, history
  <2>2. ~Counting'
    BY <1>11 DEF Abort, ResetButton, WebInterrupted, UserSaveenv, Calibrate, Counting, Saving
  <2>. QED
    BY <2>1, <2>2, CmdKept
<1>12. CASE WebSwitch \/ UserSetenv
  <2>1. pc' /= "write" /\ UNCHANGED <<flash, stored>>
    BY <1>12 DEF WebSwitch, UserSetenv, history, cmds
  <2>2. ~Counting'
    BY <1>12 DEF WebSwitch, UserSetenv, Counting, Saving
  <2>3. CASE env' = SetBootcmd(env, "user") /\ own' = [cmd |-> "user", set |-> TRUE]
    <3>1. env'.cmd = "user"
      BY <1>0, <2>3, SetBootcmdIsGood DEF Cmd
    <3>. QED
      BY <2>1, <2>3, <3>1 DEF CmdInv, OwnBootcmdStored
  <2>4. ASSUME NEW d \in {"auto", "forced"}, env' = [env EXCEPT !.dev = d], own' = own
        PROVE  CmdInv'
    BY <1>0, <2>1, <2>2, <2>4, SetDevIsGood, CmdKept DEF cmds
  <2>. QED
    BY <1>12, <2>3, <2>4 DEF WebSwitch, UserSetenv, history, cmds
<1>13. CASE LinuxResetsCount
  <2>1. 0 \in 0..MaxCount
    BY BootAssumption
  <2>2. flash'.cmd = flash.cmd /\ flash /= NoEnv
    BY <1>0, <1>13, <2>1, SetCountIsGood DEF LinuxResetsCount
  <2>3. pc = "linux" /\ pc' = "linux" /\ UNCHANGED <<env, own, stored>>
    BY <1>13 DEF LinuxResetsCount, cmds
  <2>. QED
    BY <2>2, <2>3 DEF CmdInv, OwnBootcmdStored, Counting, Saving
<1>. QED
  BY <1>1, <1>2, <1>3, <1>4, <1>5, <1>6, <1>7, <1>8, <1>9, <1>10, <1>11, <1>12,
     <1>13 DEF Next, BootStep, User

\* Unless a second saveenv of the same boot stores the substitute of main_loop,
\* no saved counter, fault or reset changes the bootcmd that somebody stored.
THEOREM StoredBootcmd == Spec => BootcmdSurvives
<1>1. Init => CmdInv
  BY DEF Init, CmdInv, OwnBootcmdStored, Default
<1>2. Types /\ CmdInv /\ ~SubstituteSaved /\ [Next]_vars => CmdInv'
  <2>1. CmdInv /\ UNCHANGED vars => CmdInv'
    BY DEF vars, CmdInv, OwnBootcmdStored, Counting
  <2>. QED
    BY <2>1, CmdStep
<1>3. CmdInv => OwnBootcmdStored
  BY DEF CmdInv
<1>. QED
  BY <1>1, <1>2, <1>3, TypesAlways, PTL DEF Spec, BootcmdSurvives
=============================================================================
