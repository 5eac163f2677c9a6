----------------------------- MODULE LoopMount ------------------------------
(***************************************************************************)
(* `mount` of a file and `umount`: the loop device in between.  A command  *)
(* looks through sysfs for a device that backs its region already, or has  *)
(* the kernel name a free one and configures it; it mounts the device and  *)
(* leaves the device to autoclear.  Commands share the devices, sysfs and  *)
(* the mount table, and hold no lock.  A region is a file and an offset.   *)
(* The kernel's part is external: a device keeps its region while open,    *)
(* LOOP_CLR_FD clears it, or marks it for autoclear when others have it    *)
(* open, and a device marked so is cleared at its last close.              *)
(***************************************************************************)
EXTENDS Naturals, Sequences

CONSTANTS
    Procs, Devs, Points, Files, Offsets,
    MaxTries,      \* MAX_GET_FREE_RETRIES
    MaxDepth,      \* bound of the model: mounts on top of each other
    Nothing

ASSUME LoopAssumption ==
    /\ 0 \in Offsets
    /\ MaxTries \in Nat \ {0} /\ MaxDepth \in Nat
    /\ Nothing \notin Procs \cup Devs /\ Nothing \notin Files \X Offsets

Regions == Files \X Offsets

VARIABLES
    loop,        \* external: each device's region and flag, and (history) its maker
    stack,       \* external: the mounts at a point, the topmost last
    lingering,   \* external: devices of lazily unmounted filesystems still in use
    cmd,         \* what each process is doing
    doubt        \* history: found a device that has changed since, or was half made

vars == <<loop, stack, lingering, cmd, doubt>>

Free == [region |-> Nothing, autoclear |-> FALSE, maker |-> "none"]
Idle == [pc |-> "idle", want |-> Nothing, at |-> Nothing, dev |-> Nothing,
         held |-> Nothing, left |-> 0]

Mounts == UNION {{stack[t][i] : i \in 1 .. Len(stack[t])} : t \in Points}
Openers == {cmd[p].held : p \in Procs} \cup {m.dev : m \in Mounts} \cup lingering

\* A device that LOOP_SET_FD has given its file and LOOP_SET_STATUS64 not yet
\* its offset.
Half(d) == \E p \in Procs : cmd[p].pc = "status" /\ cmd[p].held = d

\* A step of p leaves the devices as l, but for those whose last close it was.
Settle(l, p) ==
    /\ loop' = [d \in Devs |-> IF l[d].autoclear /\ d \notin Openers' THEN Free ELSE l[d]]
    /\ doubt' = {q \in Procs \ {p} : q \in doubt \/
                    /\ cmd[q].pc \in {"mount", "retry"}
                    /\ loop'[cmd[q].dev].region # loop[cmd[q].dev].region}

Init ==
    /\ loop = [d \in Devs |-> Free]
    /\ stack = [t \in Points |-> <<>>]
    /\ lingering = {}
    /\ cmd = [p \in Procs |-> Idle]
    /\ doubt = {}

-----------------------------------------------------------------------------
(* mount *)

StartMount(p) ==
    /\ cmd[p].pc = "idle"
    /\ \E r \in Regions, t \in Points :
          cmd' = [cmd EXCEPT ![p] = [Idle EXCEPT !.pc = "search", !.want = r, !.at = t]]
    /\ UNCHANGED <<loop, stack, lingering, doubt>>

\* Mutant: the scan compares the file alone.
ReuseAnyOffset(p, d) ==
    /\ cmd[p].pc = "search"
    /\ loop[d].region # Nothing /\ loop[d].region[1] = cmd[p].want[1]
    /\ cmd' = [cmd EXCEPT ![p].pc = "mount", ![p].dev = d]
    /\ doubt' = IF Half(d) THEN doubt \cup {p} ELSE doubt \ {p}
    /\ UNCHANGED <<loop, stack, lingering>>

\* find_existing has a hit: the device is used by name, and not held open.
Reuse(p, d) ==
    /\ cmd[p].pc = "search" /\ loop[d].region = cmd[p].want
    /\ cmd' = [cmd EXCEPT ![p].pc = "mount", ![p].dev = d]
    /\ doubt' = IF Half(d) THEN doubt \cup {p} ELSE doubt \ {p}
    /\ UNCHANGED <<loop, stack, lingering>>

Missed(p) == cmd[p].pc = "search" /\ \A d \in Devs : loop[d].region # cmd[p].want

\* Mutant: the explicit device is taken without a look at the others.
NamedUnseen(p, d) ==
    /\ cmd[p].pc = "search"
    /\ cmd' = [cmd EXCEPT ![p].pc = "attach", ![p].dev = d, ![p].left = 0]
    /\ UNCHANGED <<loop, stack, lingering, doubt>>

\* loop=/dev/loopN names the device, and there is no other try.
Named(p, d) ==
    /\ Missed(p)
    /\ cmd' = [cmd EXCEPT ![p].pc = "attach", ![p].dev = d, ![p].left = 0]
    /\ UNCHANGED <<loop, stack, lingering, doubt>>

\* attach_auto.
Allocate(p) ==
    /\ Missed(p)
    /\ cmd' = [cmd EXCEPT ![p].pc = "getfree", ![p].left = MaxTries]
    /\ UNCHANGED <<loop, stack, lingering, doubt>>

GetFree(p, d) ==
    /\ cmd[p].pc = "getfree" /\ loop[d].region = Nothing
    /\ cmd' = [cmd EXCEPT ![p].pc = "attach", ![p].dev = d, ![p].left = @ - 1]
    /\ UNCHANGED <<loop, stack, lingering, doubt>>

\* Mutant: no try is the last.
BusyForever(p) ==
    /\ cmd[p].pc = "attach" /\ loop[cmd[p].dev].region # Nothing
    /\ cmd' = [cmd EXCEPT ![p].pc = "getfree", ![p].dev = Nothing]
    /\ UNCHANGED <<loop, stack, lingering, doubt>>

\* Someone took the device after GET_FREE.
Busy(p) ==
    /\ cmd[p].pc = "attach" /\ loop[cmd[p].dev].region # Nothing /\ cmd[p].left > 0
    /\ cmd' = [cmd EXCEPT ![p].pc = "getfree", ![p].dev = Nothing]
    /\ UNCHANGED <<loop, stack, lingering, doubt>>

\* History: "raced" if another command has looked for the region too, in vain.
Maker(p) ==
    IF \E q \in Procs \ {p} : /\ cmd[q].pc \in {"getfree", "attach", "status"}
                              /\ cmd[q].want = cmd[p].want
    THEN "raced" ELSE "mount"

\* LOOP_CONFIGURE: file, offset and flags at once; the handle stays open.
Configure(p) ==
    LET d == cmd[p].dev IN
    /\ cmd[p].pc = "attach" /\ loop[d].region = Nothing
    /\ cmd' = [cmd EXCEPT ![p].pc = "mount", ![p].held = d, ![p].left = 0]
    /\ UNCHANGED <<stack, lingering>>
    /\ Settle([loop EXCEPT ![d] = [region |-> cmd[p].want, autoclear |-> TRUE,
                                   maker |-> Maker(p)]], p)

\* attach_legacy, where LOOP_CONFIGURE is not to be had: the file first.
SetFd(p) ==
    LET d == cmd[p].dev IN
    /\ cmd[p].pc = "attach" /\ loop[d].region = Nothing
    /\ cmd' = [cmd EXCEPT ![p].pc = "status", ![p].held = d, ![p].left = 0]
    /\ UNCHANGED <<stack, lingering>>
    /\ Settle([loop EXCEPT ![d] = [region |-> <<cmd[p].want[1], 0>>, autoclear |-> FALSE,
                                   maker |-> "mount"]], p)

\* Then the offset and the flag.
SetStatus(p) ==
    LET d == cmd[p].dev IN
    /\ cmd[p].pc = "status"
    /\ cmd' = [cmd EXCEPT ![p].pc = "mount"]
    /\ UNCHANGED <<stack, lingering>>
    /\ Settle([loop EXCEPT ![d].region = cmd[p].want, ![d].autoclear = TRUE,
                           ![d].maker = IF @ = "raced" THEN @ ELSE Maker(p)], p)

Record(p) == [dev |-> cmd[p].dev, want |-> cmd[p].want,
              sure |-> cmd[p].held = cmd[p].dev \/ p \notin doubt]

\* fsopen to move_mount, at the first attempt or the read-only one; the device
\* must be configured, whatever its region.
Mount(p) ==
    LET t == cmd[p].at IN
    /\ cmd[p].pc \in {"mount", "retry"} /\ loop[cmd[p].dev].region # Nothing
    /\ Len(stack[t]) < MaxDepth
    /\ stack' = [stack EXCEPT ![t] = Append(@, Record(p))]
    /\ cmd' = [cmd EXCEPT ![p] = [Idle EXCEPT !.pc = "mounted", !.held = cmd[p].held]]
    /\ doubt' = doubt \ {p}
    /\ loop' = [loop EXCEPT ![cmd[p].dev].maker = IF Half(cmd[p].dev) THEN "raced" ELSE @]
    /\ UNCHANGED lingering

\* Write-protected: once more, read-only.
RetryReadOnly(p) ==
    /\ cmd[p].pc = "mount"
    /\ cmd' = [cmd EXCEPT ![p].pc = "retry"]
    /\ UNCHANGED <<loop, stack, lingering, doubt>>

\* The guard is disarmed and closes its handle; then propagation, which leaves
\* devices and mounts alone whether it succeeds or not.
Mounted(p) ==
    /\ cmd[p].pc = "mounted"
    /\ cmd' = [cmd EXCEPT ![p] = Idle]
    /\ UNCHANGED <<stack, lingering>>
    /\ Settle(loop, p)

\* LOOP_CLR_FD through a handle that is closed right after.
Cleared(d) == [loop EXCEPT ![d].autoclear = (loop[d].region # Nothing)]

\* Mutant: the guard of a failed mount is taken for disarmed.
FailDisarmed(p) ==
    /\ \/ cmd[p].pc \in {"search", "getfree", "status", "mount", "retry"}
       \/ cmd[p].pc = "attach" /\ loop[cmd[p].dev].region # Nothing /\ cmd[p].left = 0
    /\ cmd' = [cmd EXCEPT ![p] = Idle]
    /\ UNCHANGED <<stack, lingering>>
    /\ Settle(loop, p)

\* Any step may fail: no such file, no device left, EBUSY at the last try, a
\* bad filesystem, no such target.  LOOP_CLR_FD undoes what was configured, in
\* attach_legacy or in the guard's Drop.
Fail(p) ==
    LET d == cmd[p].held IN
    /\ \/ cmd[p].pc \in {"search", "getfree", "status", "mount", "retry"}
       \/ cmd[p].pc = "attach" /\ loop[cmd[p].dev].region # Nothing /\ cmd[p].left = 0
    /\ cmd' = [cmd EXCEPT ![p] = Idle]
    /\ UNCHANGED <<stack, lingering>>
    /\ Settle(IF d = Nothing THEN loop ELSE Cleared(d), p)

-----------------------------------------------------------------------------
(* umount *)

\* loop_source: the first entry at the point, in mount order.
LoopSource(t) == stack[t][1].dev

\* The mount table is read once: with -d for the device to clear, with -R for
\* the number of mounts at the point.
StartUmount(p, t) ==
    /\ cmd[p].pc = "idle" /\ stack[t] # <<>>
    /\ \E d \in {Nothing, LoopSource(t)}, n \in {1, Len(stack[t])} :
          cmd' = [cmd EXCEPT ![p] = [Idle EXCEPT !.pc = "umount", !.at = t, !.dev = d,
                                                 !.left = n]]
    /\ UNCHANGED <<loop, stack, lingering, doubt>>

\* What follows an unmount: the next of -R, or the end.
After(p) == IF cmd[p].left > 1 THEN [cmd[p] EXCEPT !.pc = "umount", !.left = @ - 1] ELSE Idle

\* umount2 takes the topmost mount, if it is not in use; with -l also if it is.
Unmount(p, lazy) ==
    LET t == cmd[p].at
        top == stack[t][Len(stack[t])]
    IN
    /\ cmd[p].pc = "umount" /\ stack[t] # <<>>
    /\ stack' = [stack EXCEPT ![t] = SubSeq(@, 1, Len(@) - 1)]
    /\ lingering' = IF lazy THEN lingering \cup {top.dev} ELSE lingering
    /\ cmd' = [cmd EXCEPT ![p] = IF cmd[p].dev = Nothing THEN After(p)
                                 ELSE [cmd[p] EXCEPT !.pc = "detach"]]
    /\ Settle(loop, p)

\* EBUSY, or nothing is mounted there any more; with -r it is made read-only.
UmountFails(p) ==
    /\ cmd[p].pc = "umount"
    /\ cmd' = [cmd EXCEPT ![p] = Idle]
    /\ UNCHANGED <<loop, stack, lingering, doubt>>

\* detach_verified: the device is cleared if it has a backing file, any.
Detach(p) ==
    LET d == cmd[p].dev IN
    /\ cmd[p].pc = "detach"
    /\ cmd' = [cmd EXCEPT ![p] = After(p)]
    /\ UNCHANGED <<stack, lingering>>
    /\ Settle(Cleared(d), p)

-----------------------------------------------------------------------------
(* The rest of the world *)

\* SIGKILL: the kernel closes the handle, and no destructor runs.
Kill(p) ==
    /\ cmd[p].pc # "idle"
    /\ cmd' = [cmd EXCEPT ![p] = Idle]
    /\ UNCHANGED <<stack, lingering>>
    /\ Settle([d \in Devs |-> IF cmd[p].pc = "status" /\ cmd[p].held = d
                              THEN [loop[d] EXCEPT !.maker = "cut"] ELSE loop[d]], p)

\* External: losetup gives a free device a region, and takes it away.
Losetup(d, r) ==
    /\ loop[d].region = Nothing
    /\ loop' = [loop EXCEPT ![d] = [region |-> r, autoclear |-> FALSE, maker |-> "losetup"]]
    /\ UNCHANGED <<stack, lingering, cmd, doubt>>

LosetupDetach(d) ==
    /\ loop[d].maker = "losetup"
    /\ UNCHANGED <<stack, lingering, cmd>>
    /\ Settle(Cleared(d), Nothing)

\* External: the last user of a lazily unmounted filesystem leaves it.
LazyEnds(d) ==
    /\ d \in lingering
    /\ lingering' = lingering \ {d}
    /\ UNCHANGED <<stack, cmd>>
    /\ Settle(loop, Nothing)

MountStep(p) ==
    \/ StartMount(p) \/ Allocate(p) \/ Busy(p) \/ Configure(p) \/ SetFd(p) \/ SetStatus(p)
    \/ Mount(p) \/ RetryReadOnly(p) \/ Mounted(p) \/ Fail(p)
    \/ \E d \in Devs : Reuse(p, d) \/ Named(p, d) \/ GetFree(p, d)

UmountStep(p) ==
    \/ UmountFails(p) \/ Detach(p)
    \/ \E t \in Points : StartUmount(p, t)
    \/ \E lazy \in BOOLEAN : Unmount(p, lazy)

World ==
    \/ \E p \in Procs : Kill(p)
    \/ \E d \in Devs : LosetupDetach(d) \/ LazyEnds(d) \/ \E r \in Regions : Losetup(d, r)

Next == (\E p \in Procs : MountStep(p) \/ UmountStep(p)) \/ World

Spec == Init /\ [][Next]_vars

-----------------------------------------------------------------------------
(* Properties *)

Places == {"idle", "search", "getfree", "attach", "status", "mount", "retry", "mounted",
           "umount", "detach"}

TypeOK ==
    /\ loop \in [Devs -> [region : Regions \cup {Nothing}, autoclear : BOOLEAN,
                          maker : {"none", "mount", "raced", "losetup", "cut"}]]
    /\ stack \in [Points -> Seq([dev : Devs, want : Regions, sure : BOOLEAN])]
    /\ lingering \subseteq Devs
    /\ cmd \in [Procs -> [pc : Places, want : Regions \cup {Nothing},
                          at : Points \cup {Nothing}, dev : Devs \cup {Nothing},
                          held : Devs \cup {Nothing}, left : Nat]]
    /\ doubt \subseteq Procs

\* A mount shows the region its command was asked for, for as long as it is
\* there: always when the command configured the device itself, and when it
\* reused one, if that device was complete and stayed as it was until the
\* mount (the handle of LoopGuard; find_existing).
ShowsWhatWasAsked ==
    \A m \in Mounts : m.sure => loop[m.dev].region = m.want

\* What mount configures is in use or gone, however the command ends: no
\* failure and no kill leaves a device behind, but for a kill between the two
\* calls of attach_legacy (LO_FLAGS_AUTOCLEAR, the Drop of LoopGuard).
NothingLeaks ==
    \A d \in Devs : loop[d].maker \in {"mount", "raced"} => d \in Openers

\* Two devices that mount configured do not back one region, unless two
\* commands looked for it before either had configured one, or one mounted
\* what the other had half configured (find_existing).
OneDevicePerRegion ==
    \A d, e \in Devs :
        /\ loop[d].maker = "mount" /\ ~Half(d)
        /\ loop[e].maker = "mount" /\ ~Half(e)
        /\ loop[d].region = loop[e].region
        => d = e
=============================================================================
