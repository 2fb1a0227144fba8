# U-Boot for GL.iNet QCA95xx in TLA+

This directory holds the specifications kept beside the boot loader: TLA+
modules translated from its C code, TLC configurations that model-check them on
small instances, and theorems that TLAPS proves for every value of the
constants. Paths below are relative to the U-Boot tree (`src/` of the
repository). `PROJECT.json` maps every definition to the lines it translates.

## 1. The system

The repository is a fork of U-Boot 1.1.x for GL.iNet routers (Atheros/QCA AR71xx,
AR9xxx and QCA95xx). It is single-threaded and polls: there are no interrupts
but the timer, and one loop at a time owns the machine (autoboot, the command
line, `NetLoop`, `NetLoopHttpd`). What makes it hard is that

- flash is written without any journal, and the power may fail anywhere;
- the network loses, repeats, delays and reorders;
- almost all state is static and outlives the operation that set it: handlers,
  timers, flags and pointers of one call are those the next one starts with;
- callbacks (`packetHandler`, `timeHandler`, `httpd_appcall`) run in the middle
  of a loop that looks at their results only later, after further callbacks.

### Inventory

| Component | State | Operations | Hard behaviour | What makes it correct | Status |
|---|---|---|---|---|---|
| Redundant environment (`common/env_flash.c`) | two copies in flash (data, CRC, flag byte), `flash_addr`, RAM copy, `gd->env_valid` | `env_init`, `env_relocate_spec`, `saveenv`, `setenv` | power failure between or inside flash writes, failed writes, retries | what a power-up loads changes atomically; a valid copy always exists and is used | modelled: `EnvRedund`, `EnvStore` |
| TFTP client (`net/tftp.c`) | `TftpState`, block counters, wrap offset, ports, memory | `TftpStart`, `TftpSend`, `TftpHandler`, `store_block`, timeout | repeated, late, reordered packets; wrap of 16-bit numbers; restarts | success means the whole file, in its place; it ends | modelled: `Tftp` |
| Network loop and device rotation (`net/net.c`, `net/eth.c`) | `NetState`, handlers, timer, ARP wait, `eth_current`, `first_failed`, `NetRestartWrap` | `NetLoop`, `NetStartAgain`, `ArpTimeoutCheck`, `eth_init`, `eth_halt`, `eth_try_another` | state left by earlier calls, timers against packets, several results in one batch, devices that fail | one device runs at a time; `netretry` is honoured; every call returns | partly: `NetLoop` |
| Web failsafe (`httpd/httpd.c`, `httpd/uip.c`, `net/httpd.c`, `NetLoopHttpd`) | the connections, and static variables shared by all of them | requests, uploads, acknowledgements, ends of connections, upgrade | interleaving of connections over shared variables | what is flashed is one upload, whole; uploads are answered | partly: `Webfailsafe` |
| Single-copy environment (`common/env_flash.c`) | one sector | `saveenv` erases, then writes | power failure or error in between; saved at every boot | what a boot saves is not what it runs | modelled: `Boot` |
| NAND and other environments | two copies with a counter | as above | as above | as above | planned after it |
| Environment variables (`common/cmd_nvedit.c`, `env_common.c`) | a list of strings in one buffer | set, delete, get | what follows a deleted variable moves; overflow | lookup after update | planned (pure operators) |
| GL upgrade protocol (`net/net.c:1205-1396`, `common/main.c`) | `gl_probe_upgrade`, `upgrade_listen`, `gl_cmd_msg`, the state of the device | scan, cmd-, do-, dhcp, crc- frames in the countdown | commands run inside `eth_rx` and poll themselves; four loops and one dispatcher; lost and repeated frames | a do runs what it found; every loop gets its frames; the countdown ends | modelled: `GlUpgrade` |
| DHCP server (`uip/apps/dhcpd/dhcpd.c`, `uip/unix/main.c`) | list of leases, bitmap, `NetUipLoop`, `dhcpd_end` | `uip_main`, DISCOVER, REQUEST | its head is not initialised; flags outlive a failed start | no address for two clients | modelled: `Dhcpd`, in `GlUpgrade` |
| Autoboot and boot counter (`common/main.c`, `common/device_check.c`) | `bootcount`, `bootlimit`, `nand_boot_failed`, calibration, boot device | countdown, counter, NAND, NOR, bootcmd, web | a reset or power failure at every point; a pointer into a list that moves; the counter saved with everything else | a bad kernel is given up after `bootlimit` boots; `bootcmd` survives and is what runs | modelled: `Boot` |
| BOOTP/DHCP (`net/bootp.c`) | DHCP state, tries | discover, request, bind, retry | late answers after a restart | bound to the lease offered | planned |
| NFS, SNTP, RARP, CDP, ping | one outstanding request | request, answer | little beyond what `NetLoop` has for any protocol | | not planned |
| Ethernet driver (`cpu/mips/ar7240/ag934x.c`) | descriptor rings | send, recv, halt | rings re-initialised from inside the receive loop | one owner per descriptor | planned |
| uIP proper (`httpd/uip.c`, `uip_arp.c`) | sequence numbers, ARP table | | retransmission never runs on these boards | | below `Webfailsafe` |
| Switches and PHYs; flash drivers; bootm and serial loads; command line; other boards, file systems, tools | | | hardware, vendored code, or no lasting state | | not modelled (reasons in `PROJECT.json`) |

How they interact: a boot loads the environment (`env_init`,
`env_relocate`), autoboot counts down, then runs `bootcmd`, the command line or
the web failsafe mode. `tftpboot` calls `NetLoop(TFTP)`, which starts the
protocol on the current device and then repeats: receive a batch (`eth_rx` calls
`NetReceive`, which calls `packetHandler`), `ArpTimeoutCheck`, the timer handler,
the switch on `NetState`. Handlers report through `NetState` or call
`NetStartAgain`, which halts the device, takes the next one and either asks for
a restart, waits ten seconds or gives up, according to `netretry`. The web mode
has a loop of its own, `NetLoopHttpd`: `eth_rx` hands packets to uIP, uIP calls
`httpd_appcall`, and after the batch the loop looks at
`webfailsafe_ready_for_upgrade` and flashes what is in RAM.

## 2. The modules

| Module | Contents |
|---|---|
| `EnvStore` | abstract: the stored environment is one register |
| `EnvRedund` | the redundant environment, one step per flash operation; implements `EnvStore` |
| `EnvRedundProofs` | its theorems |
| `Download` | abstract: a file arrives block by block, and is whole when that is reported |
| `Tftp`, `TftpProofs` | a TFTP transfer with its restarts, against servers and a network; implements `Download` |
| `TftpLockstepProofs` | files that wrap the sequence numbers, over a network that repeats nothing; the refinement |
| `NetLoop`, `NetLoopProofs` | calls of `NetLoop` one after the other over an abstract protocol |
| `Webfailsafe`, `WebfailsafeProofs` | the http application, what uIP passes to it, the upgrade loop |
| `Boot`, `BootProofs` | from power-up to a kernel, over resets, with the environment in one sector |
| `CommandQueue` | abstract: commands are added, asked for, run in order and gone |
| `LeaseServer` | abstract: a server that offers addresses and never takes one back |
| `Dhcpd` | the leases of the DHCP server |
| `GlUpgrade`, `GlUpgradeProofs` | the countdown with the upgrade protocol, and the loops it enters; extends `Dhcpd`; implements `CommandQueue` and `LeaseServer` |
| `MC*` | instances for TLC |

Some definitions are preceded by a "faulty variant": a plausible bug of that
code with the same parameters. Put in the place of the definition it makes the
property named in `PROJECT.json` fail, which shows that the property depends on
the code.

### EnvRedund

A copy in flash is `[data, crc, flags]`. A CRC is identified with the contents
it was computed over, so a copy is good when `crc = data`. Every `flash_write`
and `flash_sect_erase` is one action; it succeeds, or fails leaving any state a
partial operation can leave, and `PowerCut` may follow every step. A power
failure inside an operation is a failed operation followed by `PowerCut`.
`Chosen` is the decision table of `env_init`, `RetireOther`, `ActivateChosen` and
`CopyToRam` are the steps of `env_relocate_spec`, `Unprotect` to `SwapAndReturn`
those of `saveenv`. `Tear` is the set of values that an interrupted write of the
flag byte `ACTIVE` over an erased byte may leave; `MayOverflow` allows a `setenv`
that does not fit; `MayIgnore` the write errors that `env_relocate_spec` does not
look at.

`EnvStore` promises that the contents a power-up loads (`stored`) change in
one step from old to new, that a `saveenv` that returned 0 is durable, and that
one that failed leaves the old or the new contents. The refinement mapping
(`Store` in `EnvRedund`) takes `stored` to be what the decision table would load
now: the commit point is a write to flash, wherever the table changes its mind,
and not the return of `saveenv`.

### Tftp

The client is `net/tftp.c` with the parts of `NetLoop` and `NetStartAgain` that
decide how a transfer goes on. Both directions of the network are sets; with
`Duplication` a message stays and can arrive again at any time, without it
arrives once. A block's content is its position in the file, its number on the
wire that position modulo `SeqSize` (65536 in the code). `memory` maps slots from
the load address on to contents. Each attempt has a port of its own; servers
(`Session`) are RFC 1350 servers in lockstep. A device that is halted keeps the
frames that it had received (`ring`); `NetStartAgain` in the middle of a batch is
followed by the rest of the batch, as in `ag7240_recv`.

`Download` promises the caller of `NetLoop` that the file grows at its end, block
after block, possibly from the beginning again on another device, and that
success is reported with all of it in memory and its size in
`NetBootFileXferSize`. The mapping (`Caller` in `Tftp`) shows memory, that size
and the result, and hides servers, network, ports, timers and devices.

### NetLoop

The protocol is abstract: packets make it go on, succeed, fail or start again,
its timer handler may do nothing, halt the device or start again, and it starts
with a broadcast or with a packet that waits for ARP. `pc` splits a pass of the
loop where the code has its parts: "rx" (any number of packets), "arp"
(`ArpTimeoutCheck`), "timer", "switch". `Call` begins the next call with
whatever the one before left in the static variables. Time is counted in
seconds by `Tick`.

### Webfailsafe

A connection is a slot of `uip_conns` with its `httpd_state`; its TCP states are
those of `uip_process`. The static variables of `httpd.c` are variables of the
module, shared by all slots. The file uploaded is a sequence of packets; the
first carries the headers of the multipart body. `ram` holds what `memcpy` put at
`webfailsafe_data_pointer`. `eth_rx` returns 0 on these boards, so
`HttpdHandler` (the periodic work of uIP) never runs: there are no actions for
polls, timeouts and retransmissions. `Upgraded` and `UpgradeFails` are the two ends
of `do_http_upgrade`, `CtrlC` leaves the mode and starts it again, with the
static variables as they are. `SetBootDev` is the page that switches `boot_dev`: it
resets the search for the data of an upload like the end of a connection; what
it saves is in `Boot`. A request other than an upload is one packet, with PSH or
without; under `Orderly` it has PSH, as those of browsers do, since uIP passes one
without PSH on while an upload is done but not acknowledged (`Passed`).

### Boot

One autoboot is the path from "countdown" to "linux" or "hung" in `pc`; `Reset` and
`PowerCut` lead to the next (`Off` is what both do to RAM). The environment in RAM and
the one in flash are records. `saveenv` is `Erase` and `Write`, which may fail
(`SaveFails`, an error nobody reads) or be cut; `ret` says who called it: the counter
of each boot ("limit"), the 4 of a board that is not calibrated ("factory"), the page
that sets `boot_dev` (`WebSwitch`, "web"), or the user ("prompt"). `Start` is every
`bootm` or `nboot`, whichever path of the boot reached it: it notes the flash of the
`kernel` that runs and counts the `starts` of NAND kernels since the stored counter was
reset or lost, those of a forced device and of boots that were not saved included.
`uncounted` are the boots since then whose `saveenv` of the counter returned an error.
`own` and `stored` are the `bootcmd` that somebody set (or the default), of the
environment in RAM and of the one in flash: `Substitute`, which puts the NOR kernel into
`bootcmd` in RAM, does not change it, and `Write` copies it from one to the other
whoever saves. The environment is a list of strings and `main_loop` takes
a pointer `s` to `bootcmd` at line 661, runs it at line 737 and in between sets
other variables, each of which is deleted where it stands and appended. The
model keeps which of those variables stand ahead of `bootcmd` and which behind:
`s` still points to `bootcmd` exactly if none ahead of it has moved.
`MCBoot!SidesAssumption` checks that against lists of names. `fileaddr` stands for
all that a download sets (`filesize`, and `gl_do_cmd` of the upgrade protocol).
An unset counter is read through a null pointer: any number.

### GlUpgrade and Dhcpd

`loop` is what polls `eth_rx`: a second of the countdown ("probe"), the session of a
host that has scanned ("listen"), or a loop that a command has entered ("net",
"uip", "httpd"). `Receiver` is the dispatch of `NetReceive` on four global flags;
each loop must set and clear them so that it is the receiver of what it polls
for. `Do` enters the hook and `job` and `idx` say on whose behalf commands run and
which is next, since the commands return into the middle of `gl_upgrade_cmd_handle`;
`JobEnds` is the rest of the hook. The network is any order of `Host` actions, so
that frames may be lost, repeated and reordered. `dhcpdFailed`, `initFailed`,
`asked` and `ran` are history. `NetStartAgain` may leave `NetLoop` with another device
running or halted (`NetEnds`) and does so too in the loop of the web server when
`serverip` does not answer (`HttpdStartsAgain`); `main_loop` halts the device before it
boots (`HaltForBoot`). In `Dhcpd` the bitmap starts as any set, and `kept` is the set
of addresses above the one that the uninitialised head of the list happens to
hold: `list_add` puts a lease for any other before the head, where it is lost.

To its host the protocol is a `CommandQueue`: between a do and the end of what it
runs, nothing is added, dropped or run twice. To the DHCP clients the server is a
`LeaseServer`, in which an address once offered to a client goes to no other until
the next `dhcpd start`, also when the list has lost the lease. The mappings
(`Batch`, `Leasing`) hide the loops, the flags and the list.

## 3. The runs

| Run | Properties | Instance | Result |
|---|---|---|---|
| `env_atomic` | `TypeOK`, `ValidCopyUsed`, `CleanAfterSave`, `RecoveryLasts`, `AtomicSave`, `BackupKept` | 3 contents, whole flag bytes | holds |
| `env_torn` | `ValidCopyUsed` | torn flag byte 127 | violated (finding) |
| `env_overflow` | `BackupCopy` | a `setenv` may overflow | violated (finding) |
| `tftp_repeat` | `TypeOK`, `TransferIntact`, `IsDownload` | 3 blocks, 2 sessions, 2 devices, repetition | holds |
| `tftp_delivered` | `NoBlockMisplaced`, `Lockstep`, `NeverStalls`, `Delivered` | 10 blocks over 4 sequence numbers, no repetition | holds |
| `tftp_same` | `SameBlockIgnored` | 6 blocks over 4 sequence numbers, repetition | violated (finding) |
| `net_devices` | `TypeOK`, `OnlyCurrentActive`, `UndisturbedOnceTriesAll`, `Armed`, `Returns` | 3 devices, eth0 without address, every `netretry`, failing devices, timers, packets after a restart | holds |
| `net_timer` | `OnceTriesAll` | 2 devices, timers expire | violated (finding) |
| `web_orderly` | `TypeOK`, `FlashIntact`, `Answered` | 2 connections, uploads of 3 and 2 packets, one refused, taking turns, other requests with PSH | holds |
| `web_mixed` | `FlashIntact` | the same, at the same time, both accepted | violated (finding) |
| `boot` | `TypeOK`, `LimitHolds`, `RunsBootcmd`, `BootcmdSurvives`, `Recovers` | limit 3, counters to 5, one flash error or power failure, any kernels and calibration | holds |
| `upgrade` | `TypeOK`, `RunsWhatWasAccepted`, `Dispatch`, `Heard`, `LeasesHold`, `IsCommandQueue`, `IsLeaseServer`, `CountdownEnds` | 2 slots, 2 seconds, 3 clients for 2 addresses | holds |

What the properties say:

- `AtomicSave`: `EnvRedund` implements `EnvStore`. `BackupCopy`: whatever fails and
  however often `saveenv` is retried, it never erases the last valid copy;
  `BackupKept` is the same for boards that may start with an erased flash.
  `ValidCopyUsed`: `env_init` has a branch for every pair of flags it can meet.
  `CleanAfterSave`: after a good `saveenv` the next boot repairs nothing.
  `RecoveryLasts`: the copy a repair loads is the one the next boot loads.
- `TransferIntact`: a transfer reported complete is the whole file with the right
  `filesize`. `NoBlockMisplaced`: no slot ever holds another block. `IsDownload`:
  `Tftp` implements `Download`. `Lockstep`: the block a server has out is the one its
  client waits for or the one it just stored, by position and not by number.
  `NeverStalls`: while a transfer goes on, a message that its server answers or its
  client does not drop is on its way, so that none waits for its timer for nothing.
  `Delivered`: a transfer ends well unless a server, a timer or the user ends it.
- `OnlyCurrentActive`: all devices receive into the same buffers, so none but the
  current one may run, across restarts and calls. `OnceTriesAll`: a call that
  gives up under `netretry=once` has tried every device; `UndisturbedOnceTriesAll`
  is the same until a call is ended by a timer handler, starts again twice in a
  pass or begins with a device that fails. `Armed`: the loop waits only with the timer that
  belongs to its packet handler. `Returns`: every call returns.
- `FlashIntact`: what `do_http_upgrade` flashes is one upload, whole, of an
  accepted size, also when other connections load pages or switch `boot_dev` meanwhile.
  `Answered`: every upload is answered or ends.
- `LimitHolds`: unless a device is forced, a kernel in NAND flash runs only in the
  first `bootlimit` boots that start one since the stored counter was reset or lost with
  the environment, and in one more for each boot whose counter could not be saved:
  `bootcount_store` ignores that error (`common/main.c:451`), and the code has no better
  bound. Boots that a forced device started are counted. `RunsBootcmd`: what line 737
  runs is `bootcmd`, unless it was set by hand or substituted.
  `BootcmdSurvives`: as long as no second save of the same boot stores the substitute
  (`SubstituteSaved`: the 4 of an uncalibrated board, the `boot_dev` page, the prompt),
  the `bootcmd` in flash is the one that somebody set or the default: the save of the
  counter, at each boot with the whole environment, never takes the substitute with
  it. It is a temporal formula because one such save changes all that follows.
  `Recovers`: a board without a
  good kernel in NAND flash reaches the one in NOR flash over any number of resets.
- `RunsWhatWasAccepted`: a do runs the commands that it found, in order, although
  each polls for frames. `Dispatch`: whatever loops ran before, the one that polls
  gets the frames, unless a `dhcpd start` failed. `Heard`: a host that waits for an
  answer finds the device running, or it could not be started. `LeasesHold`: no address
  is given to two clients, and what is acknowledged is what was offered last.
  `IsCommandQueue`, `IsLeaseServer`: the refinements above.
  `CountdownEnds`: the countdown ends if sessions end with a matching checksum.

### Why the bounds are enough

- Environment: three contents distinguish the default, the old and the new; two
  areas are what the code has. A longer history only repeats states, as all
  variables are finite. 127 is `0x7F`, one odd value that is neither `ACTIVE` nor
  erased; the code compares flags with three constants only, so one value stands
  for all others.
- TFTP: the first, a middle and the last block are three; ten blocks over four
  numbers wrap twice, with a part of a third lap, and a restart may come in each.
  Two sessions let the answer of an abandoned transfer meet the next one.
- NetLoop: three devices are the least in which the rotation can start in the
  middle. `MaxPackets` bounds the packets of a call: three let a packet restart the protocol, another
  follow in the batch and a third end it. The timers are in proportion to each
  other (ARP expires before the protocol, the restart timer in between). `Returns`
  needs that a call receives finitely many packets: a network that keeps the
  protocol going for ever is the case that `MaxPackets` excludes.
- Webfailsafe: two connections are one that uploads and one that interferes; an
  upload of three packets has a first, a middle and a last; `Pages = 2` lets a page
  be interrupted between its packets.
- Boot: `Limit = 3` is the default of `bootlimit`; `MaxCount = 5` is above `Factory`, the 4
  that marks an uncalibrated board, and the counter stays there. `MaxFaults = 1` is
  one power failure or flash error at any step of any boot; the theorems have no
  such bound. `MaxStarts` stops the count of starts one above what `LimitHolds` allows at
  most, so that a violation is seen.
- GlUpgrade: two slots (`NSlots`; five in the code) let a do stop between two
  commands, and let the third find no room. `Delay = 1` has a last second and
  one before. Three clients are one more than the two addresses that
  `DHCPD_ADDR_START` and `DHCPD_ADDR_END` leave.

`CHECK_DEADLOCK FALSE` is set where the system may stop: `Tftp` is one call of
`NetLoop`, which ends; in `GlUpgrade` a listening loop whose device cannot be started
hears nothing and has no way out.

### Fairness

- `Tftp!FairSpec`: servers answer and go on, packets that are in the network
  arrive, the loop runs. Nothing is assumed of timers and errors. A lost packet
  ends in the timeout, which `GivenUp` names.
- `NetLoop!FairSpec`: weak fairness of the steps of the loop, which polls without
  blocking, and strong fairness of `Tick`, since time passes whenever the loop
  does. Nothing is assumed of packets and calls.
- `Webfailsafe!FairSpec`: a browser's TCP sends the packets of an upload until they
  are taken. The packet is one with PSH, the kind that uIP may drop.
- `Boot!FairSpec`: weak fairness of the code's own steps, strong fairness of `Autoboot`
  (not every countdown is stopped) and of `Reset` (somebody resets a board that
  hangs or waits). Nothing is assumed of users, hosts and faults.
- `GlUpgrade!FairSpec`: weak fairness of the code, strong fairness of `SecondEnds`: a
  second has a hundred polls, not infinitely many. `CountdownEnds` assumes of the
  host that a checksum matches time and again while it may send one, that the
  listening device runs and that the host does not start the web server, which
  only a user leaves.

## 4. What is proved

`TLAPS` checks seven modules. All theorems hold for every value of the constants
that satisfies the assumption named in the module (`EnvAssumption`,
`TftpAssumption`, `NetAssumption`, `WebAssumption`, `BootAssumption`,
`GlUpgradeAssumption`, `DhcpdAssumption`) and what is listed here.

| Theorem | States | Further assumptions |
|---|---|---|
| `EnvRedundProofs!TypeCorrect` | `TypeOK` | none |
| `EnvRedundProofs!BackupCopyKept` | `BackupCopy` | a programmed board, no overflow; torn flags and ignored errors allowed |
| `EnvRedundProofs!BackupIsKept` | `BackupKept` | no overflow |
| `EnvRedundProofs!RecoveryIsFinal` | `RecoveryLasts` | no ignored error in the repair; torn flags and overflows allowed |
| `EnvRedundProofs!ValidCopyIsUsed` | `ValidCopyUsed` | whole flag bytes |
| `EnvRedundProofs!SaveIsAtomic` | `AtomicSave` (refinement) | whole flag bytes, no overflow, no ignored error |
| `EnvRedundProofs!SaveLeavesNothingToRecover` | `CleanAfterSave` | the same |
| `TftpProofs!TypeCorrect` | `TypeOK` | none |
| `TftpProofs!TransferIsIntact`, `BlocksInPlace`, `RepeatsAreIgnored` | `TransferIntact`, `NoBlockMisplaced`, `SameBlockIgnored` | fewer blocks than sequence numbers |
| `TftpLockstepProofs!KeepInStep`, `TransferNeverStalls` | `Lockstep`, `NeverStalls` | nothing is repeated; files of any length |
| `TftpLockstepProofs!WrappedBlocksInPlace`, `WrappedTransferIsIntact` | `NoBlockMisplaced`, `TransferIntact` | the same |
| `TftpLockstepProofs!TransferIsDownload` | `IsDownload` (refinement) | one or the other: fewer blocks than numbers, or nothing is repeated |
| `TftpLockstepProofs!DownloadIsWhole` | `TransferIntact`, of whatever is a `Download` | none |
| `NetLoopProofs!TypeCorrect`, `OnlyCurrentRuns`, `NeverWaitsInVain` | `TypeOK`, `OnlyCurrentActive`, `Armed` | none |
| `NetLoopProofs!OnceTriesEveryDevice` | `UndisturbedOnceTriesAll` | none |
| `WebfailsafeProofs!TypeCorrect` | `TypeOK` | none |
| `WebfailsafeProofs!FlashedWhole` | `FlashIntact` | `Orderly`: uploads take turns, other requests have PSH |
| `BootProofs!TypeCorrect`, `LimitIsKept`, `BootcmdIsRun`, `StoredBootcmd` | `TypeOK`, `LimitHolds`, `RunsBootcmd`, `BootcmdSurvives` | none: any limit, any number of faults |
| `GlUpgradeProofs!TypeCorrect`, `DoRunsWhatItFound`, `FramesReachTheirLoop`, `ListeningDevice`, `LeasesAreKept` | `TypeOK`, `RunsWhatWasAccepted`, `Dispatch`, `Heard`, `LeasesHold` | none |
| `GlUpgradeProofs!RunsItsQueue`, `ServesLeases` | `IsCommandQueue`, `IsLeaseServer` (refinements) | none |
| `GlUpgradeProofs!LeasesAreUnique` | no address offered to two clients, of whatever is a `LeaseServer` | none |

The arguments:

- *Environment.* `TypeOK` alone is not inductive: that RAM holds proper contents
  needs that `env_init` chose a good copy and nothing touched it before it is
  copied (`ChosenValid`). `BackupInv` adds that the copy in use stays good from
  power-up on, and that the new one is good before the old one is retired, for
  which RAM must hold a matching CRC: this is where overflow breaks it.
  `SaveInv` adds where the flags stand at each step of `saveenv`, which is what
  decides which of two good copies the table prefers. The refinement proof has
  one step per action, mapped to a step of `EnvStore` or a stutter.
- *TFTP.* What is in memory is what was acknowledged, and what was acknowledged
  was in order (`LastStored`, `Acknowledged`, `DataInOrder`, `DataIsBlock`,
  `PortsUsed`): with fewer blocks than numbers the number of a packet is its
  position, a repeated or late packet writes what is already there, and the
  short packet can only be sent when everything before it was acknowledged.
  The same lemmas show why the comment at `tftp.c:267` is true of such files
  (`RepeatsAreIgnored`) although the run `tftp_same` refutes it for longer ones.
- *TFTP beyond one lap.* With numbers that wrap the number does not give the
  position, so the argument must know what can be in the network at all. `InStep`
  says it message by message: at most one server serves the port of this
  attempt, it has out one block, and there is either that block on its way to the
  client or an acknowledgement on its way back. `Placed` says that `TftpBlock` and
  the wrap offset together are the client's position, and `WrapInv` joins the two;
  it is inductive only because a message that arrives is consumed. `Flow`
  strengthens it for `NeverStalls`: what `InStep` allows to be on its way is there.
  Every step that stores a block then stores the next one, which is the step
  `StoreNext` of `Download`; all others map to its restarts, ends or stutters.
- *NetLoop.* `OnlyCurrentActive` is nearly inductive: every path that changes
  `eth_current` halts first. For `UndisturbedOnceTriesAll` the invariant `Rotation`
  says that the current device is the j-th after `first_failed` and those before it were
  tried; the wrap flag is raised exactly when j comes back to 0. An undisturbed
  call leaves the flag clear for the next one. `Armed` needs that every path through
  `NetStartAgain` that leaves the loop going sets its timer and its handler, also
  the second time in one pass (`StartAgainArms`).
- *Web failsafe.* `Inv` says that only established connections have a request,
  that at most one upload is under way and none while one is done, that its
  blocks so far lie in RAM at their places under its own type (`UploadStored`),
  and that this is still so while the final page is unacknowledged
  (`DoneWhole`).

- *Boot.* `LimitHolds` counts starts, the code counts boots in an environment that lies
  in flash, in RAM or half way between. `CountInv` says that the counter in flash and
  the one in RAM are above the limit or, with the boots not saved, at least the
  starts so far (`Stands`), with room for one more from the moment a boot has counted
  itself or failed to; and that a boot goes on only below the limit or with the
  substitute (`Checked`). Why `bootcount_store(4)` does not lower the count of starts: a
  board that is not calibrated has never tried NAND flash (first conjunct). For
  `RunsBootcmd`, `OrderInv` says that no variable is ahead of a `bootcmd` that nobody
  has set. For `BootcmdSurvives`, `CmdInv` says that RAM holds the own `bootcmd`, or the
  substitute at a point where the counter of this boot is saved already (`Counting`). It is
  inductive over the steps in which `SubstituteSaved` is false, which is the
  premise of the theorem.
- *GlUpgrade.* `Control` says that no command runs while the countdown polls and
  that `gl_probe_upgrade` is clear while commands run, so that no frame reaches the hook
  (`FrameIsPolled`); then the slots cannot change under a do (`Jobs`). `Flags` ties each
  dispatch flag to its loop. `LeaseInv` adds to the promise that what is offered or
  leased is not free, also when the list has lost the lease; that the bitmap has
  a first clear bit is the well-foundedness of the naturals. With these the
  refinements have one step per action (`QueueStep`, `LeasingStep`): `Control` makes
  every action but those of a do leave the queue alone, and `LeaseInv` makes a
  lease found in the list the offer that `LeaseServer` acknowledges.

Only model-checked: the liveness properties (`Delivered`, `Returns`, `Answered`,
`Recovers`, `CountdownEnds`), as liveness under fairness and ENABLED are out of the prover's
reach, and that the two sets of variables in `Boot` stand for a list
(`SidesAssumption`). Files that wrap over a network that repeats have no theorem
because what it would say is false: that is the run `tftp_same`. No definition is
recursive, so no induction over data is needed.

## 5. Findings

The five runs with a violation are disagreements between the code and what its
documentation or comments say; `PROJECT.json` quotes both.

1. `env_torn`: a flag byte that is none of 0, 1 and 0xFF matches no branch of
   `env_init` (`common/env_flash.c:129-144`): the default environment is used with
   two good copies in flash.
2. `env_overflow`: `_do_setenv` returns without `env_crc_update` when the new
   value does not fit (`common/cmd_nvedit.c:309`); two `saveenv` later no good copy
   is left.
3. `tftp_same`: a repeated packet numbered 0 advances the wrap offset before the
   check that is to ignore it (`net/tftp.c:223` and `:267`).
4. `net_timer`: `NetLoop` returns after any timer handler (`net/net.c:592`), also
   when the handler asked for a restart on the next device.
5. `web_mixed`: a second upload replaces type and first block of one that is
   complete and about to be flashed (`httpd/httpd.c:569`).

Observed while modelling and listed as hazards, without a run: write errors that
`env_relocate_spec` ignores may leave two active copies; `first_failed` and
`NetRestartWrap` outlive a call; `webfailsafe_upload_failed` and
`uip_file_post_done` can stay set for ever, after ctrl-C too, and then a page asked for by a packet without PSH
marks what the last session left as ready to be flashed; a request that comes with the
acknowledgement of the SYN is swallowed; `gl_probe_upgrade` is armed again after the
`crc` command cleared it (`net/net.c:1384`), against the comment at line 1322: what ends the
session is `upgrade_listen` alone; only the first scan is answered, and a host that
vanishes after it holds the countdown for ever; a `dhcpd start` without a device
leaves `NetUipLoop` set, so that a later `tftpboot` hears nothing; leases are
compared with `strcmp`, so that clients whose addresses agree up to a zero byte share
one; `bootcmd` is read through a pointer into a list that has moved; a forced
`boot_dev` never turns to NOR flash; each boot whose counter could not be saved is one
more start of a bad kernel in NAND flash; the substitute for `bootcmd` is stored for good
when the same boot saves the environment again (`common/main.c:705` on a board
that is not calibrated, `httpd/httpd.c:361-384`, `saveenv` at the prompt), and the user's
own is lost.

## 6. Plan

Done: the components above, in the order of what they endanger (the
environment, the image in RAM, the loop they share, the image in flash, the boot,
the countdown).

What could follow, in this order:

1. `EnvList`: `_do_setenv`, `getenv` and deletion as operators on a sequence,
   of which `Boot` keeps the order only.
2. `Dhcp`: the state machine of `net/bootp.c` as an instance of the abstract
   protocol of `NetLoop`, with the refinement as a property.
3. `RxRing`: descriptor ownership in `ag7240_recv` when a handler halts or restarts
   the device.
4. A property that the web server answers again after an upload that broke off,
   and the same with a client that always closes, for the slots.
5. The local port of a transfer, which `net/tftp.c:386` takes from a timer, as a
   number that two attempts may share; today each attempt has one of its own.
6. Abstract specifications of the web upgrade (an upload is received, then
   flashed) and of the boot (which kernel is tried next), as those of the transfer
   and of the upgrade protocol.

### Not modelled

Most of the tree is U-Boot as inherited: boards, CPUs, drivers and file systems
that are not built for these routers, vendored code and data. Of what is built,
switches, PHYs and flash drivers are register accesses whose effect is in hardware;
`bootm` and the serial loads are single passes; NFS, SNTP, RARP, CDP and ping have
one outstanding request, which is what `NetLoop` models of any protocol; uIP below
`Webfailsafe` never retransmits on these boards. `PROJECT.json` gives the reason for
each component.

## 7. Running it

In this directory: `tlc -config MCEnvRedund_atomic.cfg MCEnvRedund` and likewise
for the other configurations; `tlapm EnvRedundProofs.tla`
and likewise for the other proof modules.
