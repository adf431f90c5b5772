# hostek in TLA+

A verification project for hostek, the host-management plugin: a root-less Go
daemon (`backend/cmd/hostekd`), the privileged shell wrappers that the script
`hostek` installs, and a browser plugin (`ui/`). The modules follow the source;
paths in this file and in the comments are relative to `src/` of the repository,
and `shutdown.go`, `disks.go`, ... mean the file of that name under `backend/`.

Contents: [inventory](#1-inventory) · [modules](#2-modules) ·
[runs](#3-runs-what-tlc-shows) · [fairness](#4-fairness) ·
[proofs](#5-proofs-what-tlaps-shows) · [observations](#6-observations) ·
[limits](#7-what-is-not-modelled) · [plan](#8-plan)

## 1 Inventory

### Components, their state and their operations

| component | source | state | operations |
|---|---|---|---|
| Not-Aus configuration | `shutdown/shutdown.go`, `api/api.go` 341-386 | the JSON file `shutdown.json` (armed, bcrypt hash, stamp), `stateMu` | `SetPassword`, `SetArmed` (both through `update`: lock, load, change, save by temp file and rename), `Status`, `Config` |
| Not-Aus verification | `shutdown.go` 162-217, `api.go` 388-432 | `failures`, `lockedUntil` under `mu`, in memory only | `Verify` (lock check, delay, load, bcrypt, record), `Trigger` in a goroutine one second after the answer |
| daemon lifecycle | `cmd/hostekd/main.go` | the process | start collectors, serve, SIGTERM: `srv.Shutdown` with five seconds, exit |
| privileged wrappers | `hostek` 105-532 | the machine | `hostek-shutdown` (clean, then forced poweroff), `hostek-diskctl` (mount, unmount, eject), power, tmux, SMART and monitor wrappers |
| SMART probing | `hardware/hardware.go` 153-272, `hardware/disks.go` | maps `smart`, `smartOK`, `smartTried` by kernel name, the depth-1 channel `smartNudge` | probe loop (ticker or nudge), `storeSmart`, `Disks` (rows, pending and unreachable flags, nudge) |
| storage actions | `hardware/diskops.go`, `api.go` 205-270 | kernel mounts, swap, disks; `/media/hostek` | `Mount`, `Unmount`, `Eject`: checks in Go, then the wrapper |
| hardware inventory | `hardware/hardware.go`, `hardware/thermal.go` | static `Info`, dynamic readings, 180-sample ring | static probe, dynamic probe, `Info`, `Thermal` |
| SMART verdict | `hardware/smart.go` | none | parsing, wear and life arithmetic, verdict with reasons |
| metrics | `metrics/metrics.go` | summary, two rings, EWMAs, previous counters | `sample` on a ticker, read accessors |
| co-process samplers | `netmon`, `diskmon`, `powermon` and their wrappers (`hostek` 540-640), `gpu` | latest rates, availability, previous counters | start, consume, clear, restart after five seconds; `gpu` polls its command |
| system configuration | `sysconfig/sysconfig.go`, `api.go` 272-336 | the logind drop-in, the sleep targets' mask, the tmux snippet and its resume marker | read; write through wrappers, one after another |
| session and rights | `auth/auth.go`, `rights/rights.go`, `api.go` | none of its own | verify the session cookie, CSRF header, group membership |
| browser plugin | `ui/*.tsx` | polled data, history buffers, busy latches | poll, confirm, post, draw |
| setup and uninstall | `hostek` 533-955 | files, units, sudoers grants of the host | `setup`, `update`, `uninstall`, `status` |

### How they interact

* The browser polls the daemon over HTTP; every handler runs in a goroutine of
  its own, so any two requests overlap.
* Handlers change the host only through `sudo -n <wrapper>`; a wrapper is a
  separate root process, and nothing serialises two of them.
* Collectors (metrics, hardware) are single goroutines that write under a
  `sync.RWMutex`; handlers read snapshots of what they published.
* The samplers are loops around a child process; the metrics collector copies
  their latest values at each sample.
* The Not-Aus file is shared with whoever edits `/var/lib/hostek` by hand and
  outlives the daemon; the lockout does not.
* The login page, without a session, reaches `shutdownTrigger`.

### What is hard here, and what makes each part correct

* **Configuration.** A set-and-arm request is two locked updates with other
  requests in between, each of which can fail or be cut off by a crash. Correct:
  never armed without a password; no lost update; no torn file; a password is
  not lost; every request is answered.
* **Verification.** The lock check, the load and the comparison are apart by
  a delay and a bcrypt run, while other callers count failures and
  administrators change the file. Correct: bounded guesses per cooldown, verdicts
  true of the file during the request, power-off only for an authorised caller,
  and power-off happening once confirmed.
* **SMART probing.** Two wake-ups, slow probes, a stale snapshot, names used
  again. Correct: readers see one generation, "unreachable" is earned, nudges
  do not turn polling into probing, every disk is eventually probed.
* **Storage actions.** Shell commands of two wrappers interleave over kernel
  state. Correct: the root filesystem stays, protected mounts stay, a refused
  eject changes nothing, a detached disk was released, no overmounts.
* **Samplers.** Framing, restarts and clearing of a stream; rates as differences of
  counters that wrap or start again with a reused pid. Correct: what is shown is true of
  one block, and a dead stream shows nothing after it was cleared.
* **Metrics.** Reads that fail for one sample, counters that fall, pids used again, GPUs
  that come and go. Correct: bytes are told once, CPU time to its owner, and summary,
  rings and averages belong to the same samples.
* **Thermal chart.** Three loops with periods of 2 s to 10 min, each publishing its part.
  Correct: inventory and component list are of one probe; a disk that stays is charted,
  one that is gone leaves the chart.
* **System configuration.** Up to three wrappers for one request, in a fixed order,
  stopping at the first failure, beside a command line and a service stop. Correct: what
  is answered is what was applied, and the host settles in what is configured.
* **Session and rights.** Handlers redact what they show while others share the cache by
  reference. Correct: the rights of its user alone decide which of the gated fields an answer
  holds.
* **Setup.** An interrupted `setup` or `uninstall` leaves a usable or removable host.

`PROJECT.json` lists the hazards with their lines and the properties aimed at them.


## 2 Modules

| module | models | extends / instantiates |
|---|---|---|
| `ArmRegister` | what the configuration promises: one record, changed atomically | – |
| `ShutdownStore` | `shutdown.Manager`'s file side and `api.setShutdownConfig` | INSTANCE `ArmRegister` (refinement mapping) |
| `PowerButton` | what the Not-Aus button promises: a submitted password is judged at one instant, and only one judged right switches the machine off | – |
| `NotAus` | login-page callers, lockout, trigger, shutdown wrapper, daemon stop and start | extends `ShutdownStore`; INSTANCE `PowerButton` (refinement mapping) |
| `SmartProbe` | the SMART probe loop, its nudge channel, `Disks` | – |
| `SmartVerdict` | `smart.go`: from one payload to verdict, life and age, over a drive's life | – |
| `Storage` | what the storage actions promise: the host changes only by single steps that are allowed at the moment they happen | – |
| `Diskctl` | `Eject`, `Mount`, `Unmount` and the wrapper `hostek-diskctl` | INSTANCE `Storage` (refinement mapping) |
| `Feeds` | the loops of `netmon`, `diskmon`, `powermon` over the streams of their wrappers | – |
| `Metrics` | `metrics.Collector` and the GPU sampler it reads | – |
| `Thermal` | the static, SMART and dynamic probe loops and the chart they make | – |
| `HostSettings` | `setPower`, the tmux handler, their wrappers, the command line beside them, the stop of the service | – |
| `Views` | `guard` (session, rights, CSRF) and the handlers that redact a shared cache | – |
| `MCHost` | the daemon's side of these five, side by side, and their instance | extends all five |
| `MC...` (others) | the values of the constants for TLC | the module of the same name |
| `...Proofs` | theorems for all constants | the component's module and `TLAPS` |

How state and actions correspond to the code:

* **ShutdownStore.** `disk` is the content of the JSON file, `stateMu` its mutex,
  and for every request `pc`, `body`, `field` (which of the two mutators
  runs) and `local` (the copy between load and save). The lock, the load, the change,
  the temporary file and the rename are steps of their own: a crash (`StoreStop`) or
  another request may come between any two. An error at any of them goes through
  `FailUpdate`, which is the deferred unlock plus the handler's early return. A
  bcrypt hash is the password it came from.
* **NotAus.** Adds the two in-memory numbers of `Manager` (`failures`, `lockLeft`,
  the cooldown counted in ticks), and for every caller the stages of `Verify`
  (`check`, `load`, `compare`), the answer, and the stages of the goroutine and
  the wrapper (`confirmed`, `clean`, `forced`). The mutex `mu` protects single
  steps only and is therefore not a variable. `Exit` forgets everything but the file.
  `seen` and `evaluated` are history variables: what the file contained
  since the caller arrived, and wrong passwords compared since guessing was free.
  `Button` maps it to `PowerButton`: the button is the password on file if it is armed
  (`ButtonOf`), and a caller is judged in the step that loads the file or finds the cooldown
  running – not in the one that compares, which may come after the file was changed again.
* **SmartProbe.** `plugged` holds for each kernel name which disk has it, as a
  generation, so that a name used again is a different disk. `caches` is the triple of
  maps `storeSmart` publishes under one lock; the probe loop's variables are
  `probe`, a reader's are `reader`. A time stamp is kept as its age in
  multiples of `smartInterval`. `offline` is the state of the SCSI device in sysfs, which the
  kernel may or may not set when a disk goes; `Unreachable` has both signals of
  `diskUnreachable`, that one and the age.
* **SmartVerdict.** The operators `Class` to `Parse` have the names and the structure of
  the functions of `smart.go`; everything from `Payload` to `ChangeTemp`
  is the drive: a make (how it counts wear), an encoding of its counters, and its
  true condition. Each step ages the drive and probes it. The drive's condition
  is the independent reference: properties compare what is shown with it.
* **Diskctl.** `attached`, `mounts` and `swaps` are the kernel's, `dirs` the directories under
  `/media/hostek`. Every external command of the shell script is one action; a `job` holds the
  script's variables, which go stale while another wrapper runs. `LiesOn` is any relation of what
  lies on what; what is under a node (`Under`, `DisksOf`), hence the tree of a disk, is its
  reachability, so that a volume group over two disks, LVM on LUKS or swap on md are instances. What
  the script learns is what its tools print: `lsblk` shows one mountpoint per node, any one of
  several (`SeesSystem`, `MissesSystem`), `root_disk` names one of the nodes below (`RootNames`),
  and swap is found only under the name `lsblk` has for it (`FoundSwaps`: `/proc/swaps` says
  `/dev/dm-N` where `lsblk` says `/dev/mapper/x`). On such a disk the guards of an eject may
  fire or not; what then holds is what `release_device` checks again. `Promise` maps it to
  `Storage` by forgetting the directories and the scripts: `mount` is its `Mount`, `umount -A` its
  `Unmount`, `swapoff` its `SwapOff`, the detach file its `Detach`; every look and every `mkdir` is
  a stutter. The abstract guards ask the host, the script asks its variables: that is what the
  refinement compares.

* **Feeds.** A behaviour follows one of the three samplers (`feed`). `fpc` is the place of
  its loop, `cur` the block being read, `prev` the baseline of differences, `shown` what
  `Get` returns. The host's side is exact: `proc` holds the counter of each pid
  and, as history, the bytes its process moved since the last block, `energy` the RAPL
  counter with its wrap. Properties compare `shown` with the history.
* **Metrics.** `Measure` is all of `sample` before the lock, `Publish` the critical section.
  `ledger` is history: bytes told and bytes moved per source. A
  process row carries, as history, the CPU time its own process used. A GPU is its power.
* **Thermal.** `thermCrit` and `inventory` are what `storeStatic` publishes, `static` and
  `point` the local variables of the two probes between their reads and their store. A
  disk's temperature is the disk, so that a point charting the wrong one is visible.
* **HostSettings.** `os` is the drop-in, the mask, the configuration logind
  runs with, the profile snippet and the resume marker; `job` is a request or shell at
  one of its commands. `taint` and the fields `alone`, `clean`, `before` of a job are
  history: they say which differences between them the code admits to.
* **Views.** `heap` is the memory of slices; `cache` points to one, a handler to
  one (`ref`), and copying gives it its own. A field the handlers withhold is named after the
  right that opens it; `Derived` are the fields made from withheld ones that they leave alone
  (`HealthReason`, `AgePercent`).

## 3 Runs: what TLC shows

The instances are small on purpose; each bound is named below with the reason why
it is enough. The runs marked *violation* reproduce a disagreement between code
and comment that section 6 describes; the others find none.

| run | instance | what it shows |
|---|---|---|
| `store_concurrent` | 2 requests, 2 passwords, temp file and rename may fail | no lost update, no torn file, no armed record without a password, no password lost; set-and-arm accepted; the lock is always released; refinement of `ArmRegister` |
| `notaus_lockout` | 3 callers, cooldown after 2 failures for 2 ticks, file armed and deleted by hand | the guess budget; only clock, correct password or restart end a cooldown |
| `notaus_requests` | 1 caller, 1 administrator, broken or restored file, failing saves, refused poweroff | verdicts and power-offs justified by the file during the request; callers answered; a confirmed caller powers the machine off or the daemon dies; refinement of `PowerButton` |
| `notaus_forgotten` | the same with a stoppable daemon | *violation*: the promise of the answer is forgotten |
| `smart_probe` | 1 name, 2 disks after each other, 1 reader | coherent caches, a disk called unreachable only for its device's state or its age, bounded nudges, every disk eventually probed |
| `smart_verdict` | 8 makes, 2 encodings, levels on both sides of each threshold | no false alarm, no false reassurance, no verdict taken back, no endurance regained |
| `smart_pinned` | a pinned drive beyond 100 % | *violation*: a worn-out drive is new again |
| `host_parts` | each of the five telemetry and configuration modules in turn | feeds honest, traffic accounted for, history coherent, chart following its probes and sliding by one point, headless mode settling, answers true, rights deciding which gated fields are seen; a plugged disk is charted, an unplugged one leaves the chart |
| `disk_sequential` | 1 request at a time, 3 disks, / and /home on LVM on LUKS, swap on an array over two disks and on an encrypted disk, fstab entry | the sequential promises of the script: no overmount, no directory left, a clean detach, harmless refusals; refinement of `Storage` |
| `disk_concurrent` | 2 wrappers at once, / and /home on a volume group over two of three disks | the root filesystem stays, whatever overlaps and whatever the guards miss |
| `disk_protected` | 2 wrappers at once | *violation*: a check is not atomic with what it protects |
| `disk_namesake` | 1 request at a time, a volume labelled with the kernel name of another | *violation*: the path believed unique is taken |

Why the bounds are enough:

* *Two requests* show every pairwise interleaving of load-change-save;
  the theorems of section 5 remove the bound. *Two passwords* tell "the other
  administrator's" from "mine". *Three callers* are one more than
  `MaxFailures = 2`, so that callers admitted before the cooldown
  overflow it. `LockoutTicks = 2` tells a shortened cooldown from an ended one.
  The code has 5 failures and 60 s; nothing but the two comparisons depends on them.
* `notaus_requests` has one caller, as verdicts of different callers
  only meet in `failures` and `lockLeft`, which `notaus_lockout` covers with three.
* `MaxPlugs = 2` lets one name be used again once; ages stop one beyond
  `UnreachableAfter`, where no comparison changes any more. One reader and one name
  keep the liveness check small; the maps are per name and readers share nothing. The bound of
  `NudgesAreSelfLimiting` is a theorem for any number of both; with one name three of the four
  probes it allows are seen, with two names all four.
* `UsedLevels` are 0, the last good, first warned and first critical
  level, exactly 100 and 255, the highest NVMe value. `Word` stands for
  2^32 (TLC's integers have 32 bits); only that it exceeds the counts matters,
  and the theorems have it arbitrary.
* `disk_sequential` has every kind of node the script tells apart: a system disk whose root is two
  levels up and mounted twice, at a protected path and at `/home`, and whose other partition has a
  protected target in `/etc/fstab`; a data disk that may be pulled, with two volumes of one label;
  an array over partitions of both, whose swap the script finds, and a whole encrypted disk whose
  swap it does not. `disk_concurrent` keeps of these a root over two disks that both guards may
  miss, a data volume with a protected target, and everything two wrappers can do to them. Of two
  workers each verb meets each other verb at every command; the theorem `RootIsUntouchable` has any
  number.

* `host_parts` composes modules that share nothing: a behaviour follows one part, and the
  metrics part one kind of reading at a time (with every outcome of their reads), since products
  of independent parts show nothing new.
  `Feeds`: two pids tell "mine" from "the other's", two bytes a partial
  block from a full one, `EnergyRange = 4` wraps within a run, two nethogs blocks show the mixing of
  two. `Metrics`: `RingCap = 2` with three samples overflows both rings; two GPUs let
  one leave and return. `Thermal`: one name and two disks, one of them without SMART, are a
  swap under the same name. `HostSettings`: two requests of the daemon and one shell,
  whose bodies contradict each other in every field; what a third request could do to
  two others a shell does as well. `Views`: two users, each route
  kind, two slices, so that a slice is refreshed while the other is being served.

Deadlock is checked in every run. There is none: an idle request can always
arrive (and a stopped daemon be started); the metrics part stutters once its last sample
is taken (`MetricsOver`).

## 4 Fairness

Only what the code's scheduling gives is assumed:

* A handler or goroutine that can go on goes on: weak fairness of `Serve`, `ServeCaller`,
  `ServeReader`, `ProbeStep`, `WakeByNudge`.
* The mutex is strongly fair (`SF` of `Lock`): Go's `sync.Mutex` changes to
  starvation mode when a waiter has waited for a millisecond and then
  hands itself over in order.
* The browser polls (`ServeReader` includes the arrival of a request); the Disks
  tab does so every few seconds while it is open. `PendingEndsWithoutTicker` is about
  that case only.
* `lsblk` does not fail for ever: strong fairness of `ListNames`.
* The clock ticks where a property says so: `ClockFairness` is a
  premise of `EveryDiskIsProbed` and `SilentDiskIsFlagged`, and `WF(Tick)` of the
  lockout is in `Fairness` of `NotAus`.

* The three loops of the hardware collector go on: weak fairness of `ProbeGpus`, `StaticEnds`,
  `ProbeSmartTable`, `Snapshot` and `StoreDynamic`. Strong fairness of `StaticListsDisks`
  says that `lsblk` works now and then; `PluggedDiskIsCharted` has it as a premise
  (`lsblkWorks`), `UnpluggedDiskLeavesChart` does not need it. `seen` orders the loops as their periods
  do: between two static probes, ten minutes apart, the dynamic loop takes a point, as its
  period is two seconds.

Nobody is obliged to send a request, edit the file, plug a disk, stop the daemon or
start it again. `CallersAreAnswered` therefore counts a stopped daemon as an end
of the request, and `ConfirmedPowersOffOrDaemonDies` says so in its name.

## 5 Proofs: what TLAPS shows

All theorems hold for every value of the constants that satisfies the assumptions. These are
properties of hosts and of limits in the code, none of hostek's behaviour: `DistinctNames` and
`EditsAreSane` (whoever edits the file by hand leaves a record hostekd could have written, deletes
it or breaks it), `LockoutConstants` (positive thresholds, finitely many callers),
`VerdictConstants`, `ProbeConstants` (finitely many readers), `FeedConstants`, `MetricsConstants`,
`CallersAreKnown`, `ViewsConstants`, `DiskConstants` (a partition lies on one disk, everything else
on any nodes as long as there is a disk at the bottom, `/` is protected, hostek's tree is not,
nobody pulls a disk the host booted from) and `BootConstants` (the host runs from a mounted `/`, the
entry of `/etc/fstab` for it is the one mounted, swap holds no filesystem). A theorem that needs
more has it as its own hypothesis.

| module | properties of the runs that are theorems |
|---|---|
| `ShutdownStoreProofs` | `ArmedImpliesConfigured`, `NeverTorn`, `SetAndArmIsAccepted`, `PasswordIsNeverLost`, `ImplementsRegister` |
| `NotAusProofs` | `GuessBudget`, `CooldownOnlyEndsFor`, `PowerOffIsAuthorized`, `ImplementsRegister` (for the whole daemon), `ImplementsButton` |
| `SmartProbeProofs` | `OneProbeRun`, `UnreachableIsEarned`, `NudgesAreSelfLimiting` |
| `SmartVerdictProofs` | `NoFalseAlarm`, `WornOutIsCritical`, `HealthyMeansSound`, `VerdictImprovesOnlyByCooling`, `LifeOnlyFalls` |
| `DiskctlProofs` | `RootStays`, `ProtectedMountsStay`, `RefusalTouchesNothing`, `DetachIsClean`, `EjectedLeavesNoDirectory`, `NeverOvermounts`, `ImplementsStorage` |
| `MonitorProofs` | `FeedsAreHonest`, `TrafficIsAccounted`, `HistoryIsCoherent`, `ChartFollowsProbes`, `ChartSlides` |
| `HostSettingsProofs` | `HeadlessSettles`, `AnswerIsTrue` |
| `ViewsProofs` | `RightsDecideWhatIsSeen` |

Two invariants are theorems without a run: `VerdictWasTrue` (`VerdictsAreTrue`), which
`ImplementsButton` sharpens to an instant, and `TypeOK` of `SmartVerdict` (`PercentagesArePercentages`).

**ShutdownStoreProofs.** `StoreInvariant`: `StoreInv` is inductive under `SharedNext`
(the daemon's steps plus hand edits). The safety properties alone are
not inductive; what makes them so is

* `OneWriter` – the requests between load and rename are exactly the holder of
  `stateMu`; without it `NoStaleCopy` fails after one step;
* `HasArgument` – a running mutator has its argument, so `Mutated` stays in `State`;
* `CopiesAreSane` – no copy is armed without a password, so renaming one is safe;
* `PasswordFirst` – when the second half of a two-part request runs, its password is
  on file, which is why it is never told `not_configured`.

From it follow `StoreIsSafe`, `FileStaysWhole`, `SetAndArmSucceeds`, `PasswordStays`
(an action property), and
`StoreImplementsRegister`: every step maps to `Apply`, `Call`, `GiveUp`, `Stop`
or a stutter of `ArmRegister`. The rename is the linearisation point, and
`NoStaleCopy` makes the copy's change the change of the present record. The
refinement assumes `ExternalEdits = {}`: an edit under a running update is
lost, as nothing but the daemon takes the lock.

**NotAusProofs.** A step of `NotAus` is a step or a stutter of the shared store
(`NotAusContainsStore`), so its invariant carries over. `NotAusInv` adds `SeesTheFile`
(an unfinished `Verify` has the present file in its history), `HashWasArmed`,
`VerdictFitsStage`, and `Budget`: while the cooldown runs, the wrong
passwords compared plus the callers already admitted stay within
`MaxFailures + callers - 1`. `GuessesAreBounded`, `VerdictsAreTrue` and
`PowerOffNeedsAuthority` are its consequences; the last one also needs the step
relation, since the machine goes off in one step of a caller in `clean` or `forced`. So does
`CooldownsHold`: a late failure sets the cooldown to its full length or leaves it, and a
caller in `compare` has no verdict yet.

`NotAusImplementsRegister` lifts the refinement of `ArmRegister` to the whole daemon: a step of a
caller leaves the store alone, and a stop of the daemon or of the machine is the register's `Stop`.
`NotAusImplementsButton` adds `AnsweredInv` (a caller about to be answered has a verdict) to
`HashWasArmed` and `VerdictFitsStage`. The abstract
button keeps no history of the file, and needs none: the judgement is the load, so that
it agrees with the button of its very instant, whatever an administrator, a hand edit or a
restart does between the load, the comparison and the second that passes before the trigger.
No hypothesis about edits is needed here: they are the button's `Configure`.

**SmartVerdictProofs.** `PercentagesArePercentages`: type correctness, whose core is that
each branch of `wearPercent` clamps or rejects. The others rest on three lemmas about one drive:
`LifeShown` (a case per make: the first wear attribute that resolves is the make's own and shows
exactly what is left, but for the first two percent of a pinned drive),
`CountIsDefects` (the low word of a packed counter is the counter, for any word size) and
`FindingsAre` (critical and warned are exactly the defects listed in `Grave` and
`Worrying`). With `ShownIsProbed` (what is shown is the last probe) they give
`WornOutDrivesAreCritical`, `AlarmsAreEarned`, `HealthyDrivesAreSound`, and the
action properties `LifeFalls` and `FindingsAreKept`, as no step takes a defect back
(`DefectsStay`, `DriveAges`). All but `AlarmsAreEarned` need the proviso that no
pinned or reversed drive counts past its rated life; `smart_pinned` shows why.

**SmartProbeProofs.** `ProbeInv` follows the stamps: those published and those a probe has read
and not yet carried over are never older than the last published answer
(`NotOlder`), and the clock moves all of them at once (`AgeingIsMonotone`). The names a
probe got answers from are among the names it listed, so what it publishes is coherent.
`OneRunSeen` and `EarnedUnreachable` follow for any names, readers and reuses of a name; the
latter is about the second signal of `diskUnreachable`, as the first needs no argument.

`NudgesAreLimited` counts. Once the list of disks stands still, a probe run may still be under way
that listed less (`Blind`), and publishes a table in which a disk is untried; while there is an untried
disk at most one nudged run has been published. From the first table with every disk on, a nudge can
only come from a reader whose rows or snapshot are older than that table (`Behind`), and answering
makes it current. So the runs published for a nudge, the one running, the one queued in
the channel and the readers behind together never exceed three and the number of readers, and
every step moves one of them to the next place or drops it.

**MonitorProofs, `Feeds`.** `FeedsInv` relates the block before, the block being read and the host: a counter
is ahead of the block it was read in by at most what its process has moved since
(`CounterAhead`, `BlockAhead`), and may be behind it when the pid has a new owner. For
power, less than a whole range is used between two readings (`EnergyOK`).
`HonestFeeds` follows for any pids, period and range.

**MonitorProofs, `Metrics`.** Three independent arguments. Counters: while a baseline is held,
bytes told plus the distance to it are the bytes moved (`CountersTold`); shares: a
process's total is ahead of the baseline of its pid by at most what that process has used since
(`TrafficAccounted` joins both). History: samples are numbered, and the rings
hold the last numbers up to the summary's; the draft being measured has the next one
(`HistoryCoherent`).

**MonitorProofs, `Thermal`.** `ChartFollowsProbes` with the types (`ThermalInv`) is inductive:
`storeStatic` publishes inventory and component list together, and a point that has no temperature
never gets to the ring, however the three loops overlap. The types say that a SMART table, published
or in the dynamic probe's hands, only holds disks that answer. With `SlidingWindow` (appending and
cutting off the front is moving a window on by one) and `SampleFitsList` this gives `ChartSlides`;
`ChartIsCoherent` states both.

**HostSettingsProofs.** A difference between drop-in, mask and running logind is accounted for by
the caller that is between the change and its restart, or by a taint. `SettingsInv` says
so for every caller, and for a caller that is alone, what the host was when it began and
which fields it has left. `HeadlessSettled`: when nothing runs there is no such
caller. `AnswersAreTrue`: the fields left are a tail of the fixed order.

**ViewsProofs.** A slice of the cache is only held by a handler that has nothing to redact or
has not copied it yet, and a copy belongs to its reader; so no redaction reaches
the cache or another answer (`RightsDecide`), for any rights, routes, users, slices and derived fields.

**DiskctlProofs.** Three layers, each with what it needs of the requests.

* *Whatever overlaps.* `ShapeInv` says which shell variables are set at which command.
  `RootInv`: the mounts of `/` at boot stay, nothing else comes to be mounted there, and the walk of an
  eject spares what carries them (`WalkSpares`): it stays on the list of the walk until
  `release_device` comes to it, and there the script ends. So the walk never
  comes to the detach of a disk under `/`, although neither `root_disk` nor `disk_holds_system`
  is relied on. The checks of the script are not atomic with its commands, but for `/` they need not be:
  the answer they get cannot change (`RootIsUntouchable`).
* *`Calm`: requests do not overlap, or `/etc/fstab` names no protected path for a partition.*
  `CalmInv`: after the check the device has no protected target until the `umount`, as no
  worker can mount one meanwhile, and once `MissesSystem` has let an eject through, no device of its
  tree is mounted at protected paths only. This gives `ProtectedMountsAreKept` and `RefusalIsHarmless`; the run
  `disk_protected` shows that the alternative is needed.
* *One request at a time.* `FreshInv`: a mount under way has found its partition unmounted.
  `CleanInv` (what an eject has crossed off its list is not mounted, nor swap the script can find, unless
  the disk was pulled meanwhile, and then it comes back only clean) gives
  `EjectDetachesClean`. With `OwnTreeInv` (hostek's tree holds partitions, each under its own
  disk) and `DirsInv` follows `EjectTidiesUp`, if `/etc/fstab` stays out of
  `/media/hostek` (`FstabIsForeign`); with `SoloInv` (the path a mount goes for is
  free) `VolumesHaveTheirOwnPaths`, if also no label is a kernel name
  (`LabelsAreNoNames`; the run `disk_namesake` shows what happens otherwise). With two workers
  TLC refutes each of these.

`StorageIsKept` puts them together: with `SwapInv` (a node is swap or mounted, never both) and
`InTreeInv` (an eject works on its own disk), every command maps to a step of `Storage` or a
stutter, under the hypotheses of the last layer. For `Unmount` and `SwapOff` the abstract guard is
the conclusion of `CalmInv`, for `Mount` of `FreshInv` and `SoloInv`, for `Detach` of `CleanInv`.
`Storage` promises what the script keeps: swap on a device-mapper node may stay with a detached
disk. That the daemon refuses to eject the root disk by itself is not used: the wrapper, which is
what sudo grants, keeps the promise alone.

**Only model-checked:** liveness, which needs fairness and ENABLED, out of the prover's reach:
`RequestsAreAnswered`, `CallersAreAnswered`, `ConfirmedPowersOffOrDaemonDies`,
`PendingEndsWithoutTicker`, `EveryDiskIsProbed`, `SilentDiskIsFlagged`, `PluggedDiskIsCharted`,
`UnpluggedDiskLeavesChart`. Every invariant and every action property of a passing run is a theorem,
and so are the three refinements.

## 6 Observations

Runs that expect a violation, each against a sentence of the source:

* `notaus_forgotten`: the goroutine of `shutdownTrigger` is not waited for by
  `srv.Shutdown`; a daemon stopped within its second never powers off
  (`api.go:426` against `api.go:397-398`).
* `smart_pinned`: attribute 202 with VALUE pinned at 100 and RAW above 100 shows 100 %
  endurance (`smart.go:358` against `smart.go:351`).
* `disk_protected`: a mount at a protected target during an eject of its disk is
  unmounted (`hostek:412` against `hostek:328-329`).
* `disk_namesake`: labels and kernel names share a directory. A volume labelled `sdb2` on `sdb1` is
  mounted where `sdb2` goes when it has no label, or one that is taken, and the second mount covers the
  first, without any overlap of requests (`hostek:469` against `hostek:464-465`). It came out of the
  proof of `VolumesHaveTheirOwnPaths`, which does not go through without `LabelsAreNoNames`.

Seen while modelling, without a run:

* A mount that overlaps an eject may leave a mount over a detached disk.
* Two overlapping mounts of volumes with one label land on the same directory, as the path is looked
  at before it is taken (`hostek:468`): with two workers TLC refutes `NeverOvermounts`
  without any namesake.
* Of two racing mounts of one partition the second is answered with an error if it got past the
  first check (`hostek:420`, `471`), though the script calls the race no error (`hostek:419`). No
  property is stated of it: for one request it says nothing, for two it is false.
* Swap on LVM or LUKS stays live over a detached disk: `release_device` looks for the name `lsblk`
  prints, `/dev/mapper/x`, in `/proc/swaps`, where the kernel prints `/dev/dm-N` (`hostek:408`).
  `DetachIsClean` and `Storage` except such swap by name (`Mapped`); in `disk_sequential` the third
  disk is detached under it.
* `disk_holds_system` sees one mountpoint per device (`MOUNTPOINT`, `hostek:386`). A device that is mounted at a
  protected path and at another may go unseen; the eject is then refused only by `release_device`
  (exit 3), when the walk has come to the device and released others. `RefusalTouchesNothing` is therefore about
  devices mounted at protected paths only.
* Without the thermal right, `HealthReason` may still tell a high temperature (`smart.go:466`), and
  without the technical right `AgePercent` the power-on hours (`smart.go:471`): the handlers clear
  neither (`api.go:144-154`, `190-201`) though temperatures and power-on hours are gated
  (`api.go:133-136`). `RightsDecideWhatIsSeen` is about the fields the handlers do withhold and says
  that the derived ones are shown to everybody.
* A disk that inherits a kernel name shows its predecessor's SMART data, and
  is not pending, until the next tick of the probe (`disks.go:175`).
* A mirrored image of `smart_pinned`: a gauge with VALUE above 100 and RAW above 100
  resolves to nothing, so a worn-out drive shows no endurance at all.
* `netmon` keeps the old rates through empty blocks (`netmon.go:91`): what is shown is still one
  block, but not the last. `diskmon`'s flush at end of stream divides a block's counters
  by the short time since the last marker (`diskmon.go:120`); the inflated rate is visible until the
  sampler is cleared an instant later. `DiskRatesAreTrue` excepts that window.
* `setPower` stops at the first failing wrapper and keeps what was applied before; the answer
  only says that the power or the session configuration failed, the same text for both tmux
  settings (`AnswerIsTrue` says which fields are set after a request that ran alone).
* The wrapper ignores a failing `systemctl mask` and a failing restart of logind (`|| true`), so a
  success may leave the sleep targets unmasked or logind with the old settings; two overlapping
  wrappers may end with the drop-in of one and the mask of the other. `MaskFollows` and
  `LogindFollows` except both by name (`taint`).
* The thermal chart stops at its last point, rather than emptying, when nothing has a
  temperature any more (a host without a CPU sensor whose last disk left).
* A disk swapped under the same kernel name keeps its predecessor's label and limit on the chart
  for up to ten minutes, and when a GPU falls out of the middle of the list the rows
  behind it move up one until the next static probe.
* Two logins may attach to the same detached tmux session (`hostek:245`): listing and attaching
  are separate commands.
* A timeout kills `sudo`, not the root child (`diskops.go:148`): the answer is "timed
  out" while the child may go on.
* `uninstall` leaves the sleep targets masked if headless mode was on.

## 7 What is not modelled

* Bcrypt, JSON syntax, HTTP framing, wording of messages, log lines and audit stamps.
* Filesystem flushing below the rename: a power cut may lose what `rename` published
  without `fsync` of the directory; a crash of the process, which is modelled, does not.
* In `Diskctl`: the mount namespace and the read-only `/sys` of the unit, the timeout
  that answers before the wrapper ends, the `<disk>` directory level. Some neighbouring commands are one step:
  the search of `/proc/swaps` and the `swapoff`, the queries for parent and label, the two guards of an eject.
* In `SmartProbe`: NVMe disks (they have no liveness) and the non-SMART columns of a row. A device the
  kernel has set offline answers nothing until it is reaped.
* In `SmartVerdict`: the reason texts, firmware, power cycles and bytes written; wear
  attributes with packed raw values.
* In `Feeds`: the text of the streams; reads and writes, received and sent are one kind of byte.
* In `Metrics`: gauges that are read and copied (memory, load, file systems, static host
  data), the GPU columns of process rows, the division by the elapsed time, the decay of the averages.
* In `Thermal`: the parsers of `lscpu`, `dmidecode`, `lspci`, sysfs and hwmon, whose
  results are copied into the inventory; of it only the number of GPUs is kept.
* In `HostSettings`: the texts of the drop-in and the snippet; the login snippet itself, which
  runs in a user's shell.
* In `Views`: what a derived field tells of a withheld one; signature and claims of a token are one
  condition; handlers that show nothing redacted are one route.
* Not yet modelled, see the plan: the browser plugin, setup and uninstall.
* Out of scope: translations, type declarations, the manifest, layout.

## 8 Plan

Done: the Not-Aus, SMART, storage, telemetry, thermal, configuration and rights parts, each
with a run; theorems for every safety property a passing run checks; the refinements of `ArmRegister`,
`PowerButton` and `Storage`. Left, in this order:

1. **Setup** – `setup`, `update` and `uninstall` as sequences of steps that may stop anywhere:
   sudo grants only name wrappers that are there, `setup` after any interruption ends in the
   same host.
2. **Extensions** – `Diskctl` with the early timeout answer and retries, the mount namespace of
   the unit, the `<disk>` directory level.
3. **Browser** – `buildStreams` (membership hysteresis, colours, the bound on shown
   streams), the thermal watcher, the busy latch of the Disks tab.

Theorems to prove next: that the samplers and the metrics collector implement an abstract meter
(what was told is what happened, whenever it is read), and that `HostSettings` implements one switch
per field; how far the guarantees of `Storage` hold for two overlapping requests on different disks.
