# Verification of peiosutils

TLA+ models of the parts of peiosutils that have a protocol: several steps on
state that outlives a command, shared with other processes, or cut short by a
crash. The models are checked with TLC on small instances, and the invariants
that matter most are proved with TLAPS for every value of the constants.

Paths below are relative to `src/` (the repository); `part/` abbreviates
`src/uu/part/src/`, and so on for the other applets.

## 1. The system

peiosutils is a multicall binary of about 120 applets. Most of them are
inherited from uutils/coreutils and are sequential filters or tree walks. The
applets the fork wrote itself install and operate a Peios system: they
partition disks, mount filesystems, build boot images, enable features, write
the registry and upgrade the release. Every applet is a short-lived process.
There is no daemon and no lock file, so what commands share - a disk, the
registry, a queue directory, loop devices - is where they can get in each
other's way, and what they leave on disk is all a rerun has to go by.

### Inventory

| Component | State it keeps | Operations | What is hard | What makes it correct |
|---|---|---|---|---|
| `part`, the table as a value (`part/gpt/`) | header, entry array, size of the disk | `create`, `add`, `add max`, `del`, `verify`, accepting a header | arithmetic at the ends of ranges and of the 64-bit width; tables of other tools; a disk that changed size | allocations aligned, in range, disjoint; every hole found; what is written is accepted; a commit spares data |
| `part`, the disk (`part/label.rs`, `part/device.rs`, `part/cli.rs`) | five metadata regions in page cache and on the medium, the kernel's partition list | probe, commit, sync, re-read with retry | power loss with writeback in any order, two commands at once, mounts and transient openers, I/O errors | old table, planned table or damage - never a lie; a report means durable; every command ends |
| `feat` (`feat/`) | `Machine\System\Features\<name>\State` in the registry | install, enable, disable, add, remove, each running lifecycle scripts | interrupted and failed scripts, orphaned scripts, overlapping invocations | the registry never claims what did not happen; the same verb resumes |
| `upgrade-peios` (`upgrade-peios/`) | the queue `autoapply.d`, the drain script | move packages (peipkg), stage seeds, apply or leave queued | interruption between any two steps, a boot in between | a staged seed is never lost; exit 0 is true |
| `reg apply --dir` (`reg/cmd/batch/apply.rs`, `crates/registry-docs`) | the same queue; registry | list, read, apply in one transaction, unlink | a failing file, a queue that changes while it is swept | unlinks only what it applied |
| `reg`, other verbs | the kernel's registry | set, del, link, layer, sd, backup, restore, watch | `watch` re-arms between wakeups | mostly one kernel call per verb |
| `mount`, `umount` (`mount/flow.rs`, `mount/loopdev.rs`, `umount/umount.rs`) | loop devices, mount table (kernel) | find or allocate a loop device, configure, mount, retry read-only, undo; unmount, detach | the device found may be freed or taken before it is used; a device half configured; failure and kill at any step | a mount shows what was asked for; no device leaks; one device per region |
| `timeout` (`timeout/`, `uucore/.../process.rs`) | two atomics set by signal handlers, the child | start, wait with deadline, forward to child and group, kill after | exit, signal and deadline in any order; a stopped child; a timeout that is killed itself | the child is reaped; the status tells what happened; every wait with a deadline ends |
| `mkirf`, `mkuki` (`mkirf/watch.rs`, `mkirf/build.rs`, `mkuki/mkuki.rs`) | the source tree, the archive, the boot image | build, watch with debounce | inputs that change while they are read, a change between build and arming, kills, failing builds | the image is eventually that of the tree, never torn, never older than it was |
| `mkirf`, hooks (`mkirf/hooks.rs`) | three hook directories, the resolved sequence | discover, add the implicit edge, check, sort | shadowing, implicit and declared edges together | the order honours every declaration and is the same for the same hooks; errors are right |
| `logonse` | sessions (in authd) | list, end | the outcome of a request may be unknown | - |
| `token`, `sd`, `passwd`, `runcon`, `mkexec` | the caller's token, security descriptors (kernel) | one call per verb | - | parsing and rendering |
| `stratafs`, `lsblk`, `evman`, `regman`, `revstrm` | none of their own | reports, manuals, reading an event stream | ring-buffer semantics of the kernel | - |
| inherited coreutils: `sort`, `tail`, `tee`, `split`, `dd`, `cp`, `mv`, `rm`, ... | files | as in GNU | races with arbitrary programs | upstream's and GNU's tests |
| multicall binary, `uucore` | none | dispatch, helpers | - | - |

How they interact:

- `upgrade-peios` writes the queue and starts `reg apply` as a child; the
  drain script it places in `autorun.d` starts the same `reg apply` on every
  boot. Queue, script and registry are the shared state (`SeedQueue`).
- `feat` calls scripts as children and keeps their progress in the registry
  (`FeatLifecycle`).
- `part` meets other `part` commands, `mount` and device probers only through
  the disk, the kernel's partition list and `EBUSY` (`GptDisk`).
- `mount` and `umount` meet each other, and `losetup`, through loop devices,
  sysfs and the mount table (`LoopMount`).
- `timeout` meets its command, the command's children and whoever signals it
  through signals and `waitpid` (`Timeout`).
- `mkuki` consumes what `mkirf` builds; they know of each other through inotify
  events alone (`DynamicBoot`). Within a build of `mkirf`, the hooks of three
  directories become one sequence (`HookOrder`).

`PROJECT.json` has every component with its status, and under `hazards` each
place in the code that a test would hardly reach, with the property that
covers it or the reason why none does yet.

## 2. Modules

| Module | What it is |
|---|---|
| `GptTable` | the GPT as a value: layout, free space, the commands as single steps |
| `Allocator` | what a table promises to whoever asks it for room; `GptTable` implements it |
| `GptDisk` | the commands of `part` as interleaved processes on one disk, with page cache, medium, kernel view and faults |
| `TableStore` | what a disk promises to a reader after power loss; `GptDisk` implements it |
| `FeatLifecycle` | the lifecycle of a feature, with its scripts and their orphans |
| `SeedQueue` | `upgrade-peios` and `reg apply --dir` on the queue of seeds |
| `LoopMount` | `mount` and `umount` as interleaved processes on loop devices |
| `Timeout` | `timeout`, its command and a descendant, and the signals between them |
| `DynamicBoot` | the watchers `mkirf` and `mkuki`, composed through the archive |
| `Mirror` | what a copy promises that is made again whenever its source changes; archive and image implement it |
| `HookOrder` | the order of the hooks of an initramfs, resolved step by step |
| `MC*` | instances of the above for TLC |
| `*Proofs` | theorems about the module they extend |

`GptTable` and `GptDisk` divide one applet: `GptTable` has the arithmetic and
takes a commit as one step, `GptDisk` has the steps of a commit and takes a
table as a disk GUID and a set of partitions.

### GptTable

| TLA+ | Code |
|---|---|
| `header`, `entries` | `GptHeader`, the entry array (`part/gpt/header.rs`, `entry.rs`) |
| `AlignUp`, `SaturatingSucc` | `align_up` and `saturating_add(1)` (`part/gpt/mod.rs`); a product wraps at `LbaLimit`, 2^64 in the code |
| `Stops`, `IsCursor`, `IsGapBefore`, `IsTail`, `FreeExtents` | `Gpt::free_extents`: the sorted scan as a set of extents; the cursor in front of an entry is the furthest boundary passed before it |
| `PrimaryClear`, `Accepts` | `GptHeader::primary_array_sectors` and the checks of `Gpt::parse` |
| `HeaderFor`, `CommitSectors` | `header_for`, `Gpt::writes` |
| `Create`, `Add`, `AddMax`, `Del` | the verbs of `part/cli.rs`, each with its probe, change and commit |
| `Resize` | the image of the disk is copied to a disk of another size |

Left out: names, type GUIDs, attributes and the byte encoding, on which no
property depends.

### GptDisk

| TLA+ | Code |
|---|---|
| `Open` | the mount check and `Device::open_rw`; no `O_EXCL` |
| `ReadHeader`, `ProbeAgain`, `Plan`, `Refuse` | `label::probe`, `permit_destructive`, `load_gpt`, and the change of the table in memory; the header and the array are two reads, so another command may write in between |
| `Write`, `Sync`, `Reread` | `label::commit`: five `write_at` in `WriteOrder`, `sync_all`, `BLKRRPART` |
| `Nap`, `GiveUp` | `retry_while_busy` |
| `Fail`, `Kill` | an I/O error from a write or the sync; SIGKILL. A write stopped half way leaves nothing of it, or a torn array |
| `Writeback`, `Crash` | the page cache reaches the medium one region at a time, in any order; power loss loses the rest, and an array under writeback may be torn |
| `Mount`, `ProbeDevice` | a partition mounted or unmounted; one opened for a moment (`udev`, `blkid`) |

Headers and the MBR are one sector each and are not torn. The regions are
written back independently, although on 512-byte sectors the primary header
and the first entries may share a page: this allows more behaviours than the
kernel has, never fewer. Images, which have no kernel view and skip the
re-read, are not modelled.

### FeatLifecycle

| TLA+ | Code |
|---|---|
| `state` | the `State` value, written by `registry::set_state` |
| `Plan` and the plan of each verb | `cmd::plan` and the functions it calls, case by case |
| `Start` | `change`: refusals and plan from the state read; a query that fails reads as `NotInstalled` (`registry.rs`) |
| `WritePending`, `Spawn`, `SkipScript`, `WriteSettled` | `transition` and `run_phase` |
| `ScriptSucceeds`, `ScriptFails`, `Fail`, `Done` | the ends of a phase and of an invocation |
| `Kill`, `OrphanEnds` | feat is killed; the script it waited for is a plain child and runs on |
| `setup`, `on` | what the scripts do, external: set up or not, switched on or not, or partly while a script is unfinished |

### SeedQueue

| TLA+ | Code |
|---|---|
| `Packages` | the package phase, and `release_seeds`; peipkg is external |
| `Truncate`, `Fill` | `fs::write` of one seed in `stage_seeds`: truncated, then written |
| `PlaceScript`, `Chmod` | the drain script, written only where none exists, then made executable |
| `LeaveQueued`, `StartApply` | `--on-reboot`, or no seeds; `apply_seeds` starts `reg apply` and waits |
| `List`, `Read`, `Skip`, `Apply`, `Refused`, `Unlink`, `UnlinkFails`, `SweepEnds` | `run_dir` and `apply_file` with `--once-delete` |
| `KillUpgrade`, `KillSweep`, `Reboot` | interruptions; a reboot starts the drain script when it is executable |

`Apply` is one step because `registry-docs::apply` makes a document one
registry transaction. A seed's contents are the release it comes from. Each
origin, boot and live, has one sweep at a time. File writes are durable when
made: the code does not fsync them, and a queue that power loss can take back
is in the plan. `cut` is a history variable: an upgrade stopped between writing
the drain script and making it executable, which no later upgrade repairs
because it asks only whether the script exists. `owed`, a history variable as
well, is the last release of each seed that was staged in full. An upgrade that
begins to stage the seed again does not reset it: from `Truncate` to `Fill` the
file is torn, and stays torn if the upgrade is cut short. A sweep cannot parse
a torn file, so it is neither applied nor removed; `Waits` says that what is
owed is applied, or queued in full, or queued and torn.

### LoopMount

| TLA+ | Code |
|---|---|
| `loop`, `stack`, `lingering` | the kernel's: devices with region, autoclear flag and (history) maker; mounts at a point; lazily unmounted filesystems still in use |
| `Settle`, `Openers` | the kernel's: a device marked autoclear is cleared at its last close |
| `Reuse`, `Missed` | `find_existing`; a device that is reused is not held open |
| `Named`, `Allocate`, `GetFree`, `Busy` | `maybe_setup` and `attach_auto` with `MAX_GET_FREE_RETRIES` |
| `Configure`; `SetFd`, `SetStatus` | `attach` with `LOOP_CONFIGURE`; `attach_legacy` in two steps |
| `Mount`, `RetryReadOnly`, `Mounted`, `Fail` | `exec_new`: the attempts, disarming the guard, its `Drop` |
| `StartUmount`, `Unmount`, `UmountFails`, `Detach`, `After` | `umount` with `-d`, `-l`, `-R`, `-r`: mountinfo is read once, before |
| `Kill`, `Losetup`, `LosetupDetach`, `LazyEnds` | SIGKILL, which runs no destructor; `losetup`; the last user of a lazy unmount |

A region is a file and an offset; the size limit behaves like the offset. The
scan of sysfs is one step, and `GetFree` finds a device among `Devs` or fails.
Not followed: bind, move and remount, namespaces, `--fake`, and the exit status
of a failed propagation change, which touches neither devices nor mounts.

### Timeout

| TLA+ | Code |
|---|---|
| `opts` | `-s`, `-k`, `--foreground`, `--preserve-status`, and whether there is a duration; `-k 0` waits for ever, as `wait_or_timeout` does for zero |
| `received` | `RECEIVED_SIGNAL`; `SIGNALED` is that it is not 0 |
| `Fork`, `Exec`, `ExecFails` | `spawn` and `pre_exec`, with the handlers installed before |
| `Poll`, `Sleep`, `Reap`, `Over` | the loop of `wait_or_timeout`; only the first wait looks at `SIGNALED` |
| `Send`, `Group`, `ContinueCommand`, `ContinueGroup` | `send_signal`, one step for each `kill` of it: the command, the group, CONT to the command, CONT to the group. While a signal goes to the group `timeout` ignores it, which for KILL fails, so the group does not get KILL |
| `NextWait` | what follows `send_signal`: the grace period of `-k`, or the last wait |
| `Result` | the match arms of `timeout` and `wait_or_kill_process`, `preserve_signal_info` |
| `Signal`, `Slay` | `handle_signal`; a signal without a handler, after which the kernel sends `-s` to the child that asked for it |
| `Deliver`, `EndsItself`, `Descend`, `Stop`, `Tick`, `ExecAlone` | the command, one descendant, the clock |

Two waits are two values of `call`; a clock is "running" or "passed". A signal
delivered to a process that does not ignore it ends it; `Ending` has the numbers
of which that is true, and `STOP` overtakes a waiting signal of a higher number,
as the kernel dequeues the lowest first. `resumed` is history: CONT has gone to
the group. A `timeout` killed before that may leave a member stopped. Errors of
`waitpid` and `kill` beyond EINVAL are left out.

### DynamicBoot

| TLA+ | Code |
|---|---|
| `tree`, `kernels`, `archive`, `uki` | the source tree, the kernel directory, the two outputs; contents are versions |
| `queue` | the `mpsc` channel of notify events; only whether an event waits matters |
| `Start`, `Arm` | `mkirf` builds, then registers its watch (`watch.rs:44-60`); `mkuki` registers, then builds (`mkuki.rs:267-281`) |
| `Recv`, `RecvError`, `Drain`, `Quiet` | the loop both have; an error event is logged and skipped |
| `Look`, `BuildFails` | `build::run` up to `collect_early` (`build.rs:29-69`): files one after the other for their layout, sizes and hooks; what was seen may be `Bad`, and then nothing is written |
| `Read`, `Install` | the files again, one after the other, into a temporary file (`build.rs:73`, `cpio.rs:240-275`), and its rename |
| `ChangeFails` | a file that changed since the build began may have another size than the walk took, or be gone (`cpio.rs:262`): the build fails and the temporary file is removed |
| `Resolve`, `ReadKernel`, `ReadInitramfs`, `Persist` | `run` of `mkuki`; a build that fails keeps the image |
| `Edit`, `Copy`, `Kill` | whoever edits the tree, a package manager, a supervisor that restarts |

A build of `mkirf` looks at the tree twice, and edits fall in between. The
archive is therefore a record: `judged`, what its layout was judged by and its
`hooks.seq` made from, and `files`, what it packs. A file that changed may have
kept its size, and then the build goes on (`Read`), or not, and then it fails
(`ChangeFails`): the choice is free. The three passes before anything is written
(layout, walk, hooks) are one look at each file, since each asks of the files
something of its own. A file that is gone for a moment is one that changed. Both
renames are atomic, and power loss is not modelled.

### HookOrder

| TLA+ | Code |
|---|---|
| `Discover` | `discover_all`, one directory of `HOOK_DIRS` per step |
| `ImplicitOrdering`, `WaitsForReady` | `apply_implicit_ordering`, and `resolve_hooks` |
| `Resolve`, `Mixed`, `Missing`, `Edge` | `resolve` up to the sort, and the graph of `kahn_sort` |
| `Pop`, `Finish` | the loop of `kahn_sort`, its cycle, and the hooks that declared nothing |

A hook is its name, and names are numbers. The parser of the metadata block,
warnings and the rendering of the sequence files are left out. The properties
never look at `hooks`: they say of the directories what the order must be.

## 3. Properties and runs

Some properties have a condition: they say what the code does promise, apart
from a case in which it promises nothing or breaks what a text of it says. For
two of these conditions a run of its own checks the property without it and finds
the counterexample: `clean` of `FeatLifecycle` (`NeverClaimsWhatDidNotHappen`;
the orphaned script, not two invocations at once) and `raced` of `SeedQueue`
(`NoSeedIsLost`). For the others there is no such run, and what they exclude is
not caught by any property:

| Condition | Excludes |
|---|---|
| `Representable` (`GptTable`) | foreign entries at whose end the rounding of `align_up` wraps |
| `alone` (`GptDisk`) | for `ReportedIsDurable`, commands that met another; the loss is `NoLostUpdate`'s |
| `Torn` (`SeedQueue`) | the contents of a staged seed that a later upgrade began to stage again and did not finish |
| `cut` (`SeedQueue`) | a drain script that was written and never made executable |
| `sure`, `doubt` (`LoopMount`) | a device that changed hands between its reuse and its mount |
| `maker` "raced" or "cut", `Half` (`LoopMount`) | two searches that both missed; a device between the two calls of `attach_legacy`, and a kill there |
| `slain = "early"` (`Timeout`) | a `timeout` killed before its child asked for the death signal |
| `resumed`, `first > STOP` (`Timeout`) | a `timeout` killed before CONT; a signal that a stop overtakes |
| `untold` (`DynamicBoot`) | an edit between the start of the first build of `mkirf` and its watch, or told as an error |

| Run | States | Shows |
|---|---|---|
| `MCGptTable` | 65,868 | every sequence of commands and image copies on disks of 5 to 28 sectors, from six foreign headers and seven kinds of foreign entries, one with an end whose rounding wraps: `FreeExtentsAreUnallocated`, `CommitSparesPartitions`, `AddFindsAnyHole`, `AllocatesWell` (refinement of `Allocator`), `WrittenTableParses` |
| `MCGptDisk` | 968,223 | two commands of any verb, one power loss: `OldOrPlannedOrDamaged` (refinement of `TableStore`), `NeverAConfidentLie`, `ReportedIsDurable` |
| `MCGptDiskLive` | 15,926 | `EveryCommandEnds`, with a partition that may stay busy for ever |
| `MCGptDiskPair` | violation | two `add` commands at once lose one partition that was reported |
| `MCFeatLifecycle` | 166,146 | four invocations, two at a time: `SettledIsTrue`, `OnOnlyOverSetup`, `ResumesWhereItStopped`, `ToldIsDone` |
| `MCFeatLifecycleClaims` | violation | the orphaned script of a killed feat makes the registry claim what is not so |
| `MCSeedQueue` | 676,015 | three upgrades, two reboots: `StagedSeedsSurvive`, `ReportsAreTrue` |
| `MCSeedQueueRace` | violation | the unlink of a sweep removes a seed staged again in the meantime |
| `MCLoopMount` | 1,790,913 | two commands, two devices, two regions: `ShowsWhatWasAsked`, `NothingLeaks`, `OneDevicePerRegion` |
| `MCTimeout` | 1,257,784 | every command line over TERM, KILL, ALRM and 0: `NoCommandSurvives`, `GroupGetsTheSignal`, `NoFalseTimeout`, `OwnCodeIsKept`, `OrphanIsSignalled`, and with fairness `EndsInTime`, `EndIsNoticed` |
| `MCDynamicBoot` | 854,670 | two files edited twice in all, a kernel upgrade, two kills, a watch error: `ArchiveIsCurrent`, `ImageIsCurrent`, `EmbedsWholeArchive`, `FollowsInOrder` (two refinements of `Mirror`), and with fairness `BootFollows` |
| `MCHookOrder` | 575,098 | four hooks of fifteen declarations, and two in each of three directories: `OrderIsLeast`, `VerdictIsRight` |

Each violation contradicts a line of the repository, quoted under `findings`
in `PROJECT.json`.

### Other places where text and code differ

Met while modelling; the conditions of the properties that no run drops are among
these cases.

- `part/gpt/mod.rs:70` calls a free extent a run of unallocated sectors, but the
  rounding at 305 and 428 wraps for a foreign entry that ends within one
  alignment unit of 2^64: the scan goes on from a low sector and offers occupied
  ones. `MCGptTable` has such an entry; `FreeExtentsAreUnallocated` is about the
  tables without one, and `RoundingNeverWraps` proves that `part` makes none.
- `part/gpt/mod.rs:247-248` says that no header is ever on disk before its
  entries. The five writes come in that order, with one fsync after the last
  (`label.rs:227-232`), so after a power loss it may be; the entry CRC then
  makes it damage, which is what `OldOrPlannedOrDamaged` says.
- `upgrade_peios.rs:22-23` calls a rerun after an interruption idempotent, but
  a drain script that was written and not yet made executable stays so: only
  `script.exists()` is asked (609-619). `ReportsAreTrue` excludes it by `cut`.
- The same lines: an upgrade that is cut short while it stages a seed again
  (`fs::write` at 604 truncates first) leaves the file of an earlier upgrade,
  which was reported queued, torn. The boot then refuses it, and only another
  upgrade writes it anew. `StagedSeedsSurvive` allows the torn file.
- `docs/mount-spec.md:411-413` wants the backing source confirmed before
  `LOOP_CLR_FD`, and the comment of `detach_verified` says the same of a
  recycled number; it checks only that the device has some backing file. The
  device it is given is the bottom one of an over-mount stack, while `umount2`
  removes the top. A device in use is only marked for autoclear by this, so
  `ShowsWhatWasAsked` holds.
- `docs/mount-spec.md:389-392` wants one device for one region of a file. Two
  mounts that both search before either configures make two (`maker = "raced"`).
- `timeout.rs:188` says that the child is terminated when `timeout` is told to
  end; the grace wait and a wait without duration do not look at `SIGNALED`.
  KILL after `-k` reaches the command but not its group. When the command dies
  of a signal in the grace period (with `--preserve-status`), or of one that
  `timeout` handles in the first wait, the status is the bare number of the
  signal, not 128 more. In the foreground
  no CONT is sent, so a stopped command without `-k` is waited for indefinitely.
- `timeout.rs:249-254`: a `timeout` that is killed between the signal to the
  group and CONT leaves a stopped member stopped, with the signal waiting.
- `mkirf/watch.rs:26` builds first "so the watch never begins from a stale
  archive". An edit between the start of that build and the registration is not
  noticed: it may be in the archive, in its files but not in its `hooks.seq`, or
  fail the build (`cpio.rs:262`) so that there is no archive at all; the
  comment in `mkuki.rs:278-280` describes this gap, and `mkuki` closes it.
- `mkirf/build.rs:29-51` refuses a bad layout and a cycle of hooks, but the files
  are read again at 73: an edit in between can install an archive whose files
  would have been refused, under the `hooks.seq` of those that were not. The
  next build corrects it (`ArchiveIsCurrent`), and `EmbedsWholeArchive` says as
  much of an image made before that.
- `mkuki.rs:304-305` expects a rebuild from a half-written kernel to fail. It
  succeeds, and the half kernel is in the image until the copy ends and the
  next build follows (`ImageIsCurrent` has the state of the kernel as it is).
- `hooks.rs:55-57`: "there is no cycle to construct" with initramfs-ready. A
  contributor of it that requires what an ordinary hook provides makes one; the
  build then fails, as `VerdictIsRight` says. The message names the hooks
  downstream of a cycle as well as those in it.

### Bounds, and why they are enough

- `GptTable`: alignment 4 instead of 2048 and two entries per sector, so that
  arrays end inside a sector and a rounding can lose a unit; two slots in
  tables of `part`, up to three in foreign ones, enough for nested and equal
  extents on both sides of a hole; sizes 1, 4, 6 and 9 are below, at and above
  the alignment. Disk size 5 is one that `create` refuses. The width is 32, and
  one foreign entry ends at 30, so that its end rounds to zero.
- `GptDisk`: two processes and two commands give every pairwise interleaving;
  one power loss, followed by what is left of the two commands; the invariants
  are proved for any number of either. A budget of 4 with waits 1
  and 2 has a last nap that must be cut.
- `FeatLifecycle`: four invocations suffice to interrupt, retry, reverse and
  retry again; the shipped feature has no disable script, so the path without a
  script is taken too.
- `SeedQueue`: two seeds, one of which a release drops and a later one names
  again; three upgrades so that a rerun meets the leftovers of two.
- `LoopMount`: two commands give every pairwise interleaving; two devices are
  the fewest that can be exchanged; two offsets of one file tell a reuse by
  file from one by region; two tries of the allocation make one retry and a
  last try; two mounts make an over-mount stack.
- `Timeout`: the signals are one that is handled (TERM), one that cannot be
  (KILL), ALRM, which has a meaning of its own, and none; one descendant. Signals
  that a stop overtakes are above 19 and in the theorems only.
- `DynamicBoot`: two files and two edits, so that a file can have one version
  when it is judged, another when it is packed and a third when `mkirf` waits; a
  tree that cannot be built is on the way to one that can; a kernel upgrade passes
  through no, one half, and two kernels.
- `HookOrder`: four hooks make chains, two-hook cycles with a hook downstream
  and one upstream, and ties; two names in three directories make every
  shadowing.

`MaxCommands`, `MaxCrashes`, `MaxRuns`, `MaxBoots`, `MaxDepth`, `MaxEdits`,
`MaxKills` and `MaxErrors` are the only bounds of the models, and exist for
TLC. Where they run out, and where a program simply ends (`Timeout`,
`HookOrder`), an instance stops, and its configuration says
`CHECK_DEADLOCK FALSE`. `GptTable` and `LoopMount` are checked for deadlock. In
`GptDisk` and `LoopMount` the processes are symmetric; the runs that check
liveness use no symmetry.

### Fairness

`GptDisk`: weak fairness of each started command, `WF_vars(Act(p))`. A process
that is runnable is scheduled. Nothing obliges anyone to start a command, to
release or unmount a partition, to write back a page, or to crash, and none of
these is fair. `EveryCommandEnds` therefore rests on the budget of the retry
alone.

`Timeout`: `timeout` is scheduled, its clock runs, and the kernel delivers a
signal that waits. Nothing obliges the command to end by itself, to fork or to
stop, nor anyone to signal. `EndsInTime` rests on the deadline, on CONT for a
stopped command (in steps of `timeout` after the signal), and on KILL where `-k`
is given.

`DynamicBoot`: each watcher takes a step when it can, which includes its
restart by the supervisor. Edits, copies and kills are not fair; they are
bounded, so the tree comes to rest, which `BootFollows` needs: a tree that is
never quiet for the debounce time is never rebuilt.

## 4. Proofs

All theorems hold for every value of the constants that satisfies the named
assumptions of the module. In each case TLC checked the invariant first.

`GptTableProofs` (assumptions `GeometryAssumption`, `ForeignAssumption`):
`TypeCorrect`, `WrittenTablesParse`, `CommitsSparePartitions`,
`SoundTablesStaySound`, `FreeExtentsUnallocated`, `RoundingNeverWraps`,
`AddFindsEveryHole`, `ScanImplementsAllocator`.
Soundness needs that the usable range and every entry in it are representable,
so that no rounding wraps; `ForeignAssumption` keeps disks one alignment unit
below the width, which every disk sized in bytes by a 64-bit count is. For
tables that are merely accepted, `FreeExtentsUnallocated` has the same condition
of each entry in the property itself (`Representable`): without it the rounding
of `align_up` wraps. `RoundingNeverWraps` adds that no command makes an entry
that breaks it: from foreign entries that satisfy it, the condition is an
invariant. The heart of its argument is that a used entry either comes
before an extent's upper end in the order of the scan, and then the cursor has
passed it, or starts at or after that end. `AddFindsEveryHole` takes the entry
with the least start above a hole; all that the scan passed before it ends
below the hole, so the boundary where the scan stands, the greatest of a
bounded set, is not above the hole either, and the gap has room (least and
greatest come from the well-foundedness of `Nat`).

`ScanImplementsAllocator` is the refinement of `Allocator`, step by step. The
abstract allocator does not scan: it tries every aligned sector, and places an
addition at the lowest one with room, or, for an addition without a size, at
the highest of the largest ones. That the scan does the same needs both halves:
what an extent holds is free (`FreeExtentsUnallocated`), and every hole lies
within an extent (`HoleIsFound`), so the lowest fitting extent starts at the
lowest hole. A table that is not sound is promised nothing, except that the
usable range stays; `SoundTablesStaySound` says that no command makes one.

`GptDiskProofs`: `TypeCorrect`, `NoConfidentLie`, `DiskImplementsTableStore`,
`ReportsAreDurable`, `SleepsWithinBudget`, `CommandsGoDown`, `RanksAreBounded`,
for any number of processes, commands and crashes. The invariant adds to the types that every header in
cache, on the medium or seen by a process is of a planned table, and that the
cache is never blanker than the medium - otherwise a crash could turn a disk
that a command found protected into one that looks blank. A probe reports a
table only under a header whose entries match it, so no mixture of two commits
is ever reported. For reports, the invariant adds that a process that has run
alone since it opened the disk has, in the cache, exactly the regions it has
written so far, and that a reported table is clean in both cache and medium.
The last two theorems are what `EveryCommandEnds` rests on: a rank, the steps
and the units of sleep that a command has left, which each step of its own
lowers and no step of anyone else raises. A nap lowers it because the last one
is cut to the budget and no nap is empty.

`FeatLifecycleProofs`: `TypeCorrect`, `SettledStatesAreTrue`, `OnImpliesSetup`,
`RetriesResume`, `ExitZeroDelivers`. The invariant says, of histories without
overlap: at most one invocation or orphan runs; what it has to do is the plan
for what the registry holds; the facts are those of the pending or settled
state, with the fact of the current phase in doubt. The last conjunct matters:
from `Enabling` the fact `on` may be true, which is why `remove` must disable
first.

`SeedQueueProofs`: `TypeCorrect`, `StagedSeedsAreKept`, `ReportsHold`,
`AppliedInOrder`. While no
upgrade has met a sweep that it did not start, no sweep runs during staging,
at most one sweep runs, the file a sweep has read is still the file of that
name, and a release's seeds are staged, then applied, one after the other, so
that what remains of `staging` or `list` is all that is not yet done. What is
owed is applied, or its file is there in full or torn; that a sweep never applies
nor unlinks a torn file is what keeps its name in the queue. From the
same invariant, what is queued is never older than what is applied nor newer
than what is installed (`InOrder`), so that a late sweep does not set a seed
back to an earlier release.

`LoopMountProofs`: `TypeCorrect`, `MountsShowTheirRegion`, `DevicesDoNotLeak`,
`RegionsHaveOneDevice`, `CommandsGoDown`, `MountsAreShort`, for any number of
commands, devices, mount points, regions and retries. The invariant says who may have a device open: a command
that holds one has configured it and no other holds it; a device in use is
configured; a device that was found and has not changed since is complete; and
what `mount` made is in use or has its autoclear flag, or is between the two
calls of `attach_legacy`. That no region has two devices needs one more fact: a
device that `mount` made unobserved backs no region that some command has
looked for in vain and is still about to configure. `StepsLeft` counts each try
of `attach_auto` twice, for `GET_FREE` and for the attempt: each step of a
command lowers it, whoever else takes the devices, and a mount is never further
from its end than the tries that `MAX_GET_FREE_RETRIES` allows.

`TimeoutProofs`: `TypeCorrect`, `CommandIsReaped`, `GroupIsSignalled`,
`TimeoutsAreReal`, `CodesAreKept`, `SignalsAreTheRightOnes`,
`OrphansAreSignalled`, `TimeoutGoesOn`, for any set of signals, exit codes and
faults. The invariant ties the state of the command to where `timeout` is, and each signal
that was sent to the deadline or the signal that caused it; exit codes of the
command are below 124 (`TimeoutAssumption`), as the statuses of `timeout` could
not be told from them otherwise, and signals are those that end a process
(`NumbersAreSmall`). From `Group` on, the signal of a member that was there and
is alive waits; only from `ContinueGroup` on does the invariant also say that it
runs, unless `STOP` is the lower number. `SignalsAreTheRightOnes` is proved and not
part of a run. `TimeoutGoesOn` is what `EndsInTime` rests on: but for the rounds
of a wait that is not over, `timeout` has at most eleven steps to make, nothing
adds to them, and a wait that is over stays so, whatever signals still come.

`DynamicBootProofs`: `TypeCorrect`, `ArchiveStaysCurrent`, `ImageStaysCurrent`,
`EmbedsWhole`, `CopiesFollow`, `WorkRunsOut`, `WorkIsDone`, for any finite set
of files (`BootAssumption`), any kernels and any numbers of edits, kills and
errors. `Fresh` and `Joined` say at each point of a build that what
has been read is what is there or an event waits; they are what the arming
order of `mkuki` buys and the `untold` of `mkirf` excuses. For `mkirf`, `Fresh`
speaks of both reads: a file whose judged or packed version is not that of the
tree has moved since the build began, and then an event waits or the edit was
not told - which is also why a build that fails at a moved file loses nothing.
`Ordered` chains the versions from image to archive to tree, `Finished` those
of an archive from what it was judged by to what it packs; from `Ordered`, the archive is a
`Mirror` of the tree, and the image one of the archive (`CopiesFollow`). The last
two theorems are what `BootFollows` rests on: each step of a watcher lessens the
work that is left (files to look at and to pack, events in the channel, steps of
a build), `mkuki` makes no work for `mkirf`, and when none is left both rest and
the image is that of the tree and the kernel.

`HookOrderProofs`: `TypeCorrect`, `OrdersAreLeast`, `OrdersAreDetermined`,
`VerdictsAreRight`, for any finite set of names, any capabilities and any directories. `Merged` says that
the hooks are those of the files that win, with the implicit edge; `Counted`
that in-degrees count the suppliers not yet placed; `Least` that every placed
hook was the smallest that could follow; `Acyclic` that no placed hook is in a
cycle. When nothing is ready and hooks are left, these wait for each other,
which is the cycle that is reported. `OrdersAreDetermined` says that the least
order is the only one, so that nothing about the build but the hooks themselves
decides it: of two least orders, the first place where they differ would hold
two hooks that both could follow, each smaller than the other.

Model-checked only: `EveryCommandEnds`, `EndsInTime`, `EndIsNoticed` and
`BootFollows`, liveness properties under fairness, which the prover does not
reach. What they rest on apart from fairness is proved: a measure that each
step of the process lowers and that, but for edits and faults in `DynamicBoot`,
nothing raises. That a measure in the
natural numbers cannot fall for ever, and that a process with steps left can
take one, is the part that TLC alone checks. No module uses recursion. `SleepsWithinBudget` is proved of
`GptDisk` and not part of a run.

## 5. Plan

Done, in this order: `GptTable` with `Allocator`, `GptDisk` with `TableStore`,
`FeatLifecycle`, `SeedQueue`, `LoopMount`, `Timeout`, `DynamicBoot` with
`Mirror`, `HookOrder` - first what
loses data, then what several processes share.

Next:

1. `SeedQueue` with a volatile queue and power loss, since nothing is fsynced;
   the same for the renames of `DynamicBoot`.
2. The other verbs of `mount` (bind, move, remount), whose failures between
   two calls leave a mount half changed, and the exit status of propagation.
3. Multi-step verbs of `reg` (`link`, `layer`), and `revstrm`'s cursor.
4. Of the inherited coreutils, `tail -f` and the merge threads of `sort`.

## 6. Not modelled

Encodings (GPT bytes, CRCs, cpio, PE, registry documents), parsing and
rendering, and reports that only read (`lsblk`, `stratafs`, `evman`, `regman`,
`list` and `info` verbs), are left to unit tests: they are pure. The rules that
the kernel enforces (tokens, security descriptors, registry layers, mount
propagation) are not in the repository, and neither are the sessions that
`logonse` asks authd about: `token`, `sd`, `passwd`, `runcon`, `mkexec`,
`logonse` and most verbs of `reg` are one call each.

Of the components that are modelled in part: images, disk enumeration and
reports of `part`; `--status` and the driven protocol of `upgrade-peios`; bind,
move, remount, namespaces and labels of `mount`; power loss for `upgrade-peios`
and the boot images.

Inherited coreutils are most of the lines of the repository. They are
maintained against upstream's and GNU's tests, and are sequential but for a few
named in the plan, so that the map covers a small share of the whole tree and
most of what the fork's own multi-step commands do to shared state.
