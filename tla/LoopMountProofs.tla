-------------------------- MODULE LoopMountProofs ---------------------------
(***************************************************************************)
(* LoopMount for any number of commands, devices, points and regions.      *)
(***************************************************************************)
EXTENDS LoopMount, TLAPS

Dev == [region : Regions \cup {Nothing}, autoclear : BOOLEAN,
        maker : {"none", "mount", "raced", "losetup", "cut"}]
Entry == [dev : Devs, want : Regions, sure : BOOLEAN]
Command == [pc : Places, want : Regions \cup {Nothing}, at : Points \cup {Nothing},
            dev : Devs \cup {Nothing}, held : Devs \cup {Nothing}, left : Nat]

-----------------------------------------------------------------------------
(* The invariant *)

\* What a command at each place has in hand.
Sane(c) ==
    /\ c.pc \in {"search", "getfree", "attach", "status", "mount", "retry"}
          => c.want \in Regions /\ c.at \in Points
    /\ c.pc \in {"attach", "status", "mount", "retry", "detach"} => c.dev \in Devs
    /\ c.pc \in {"umount", "detach"} => c.at \in Points
    /\ c.pc = "getfree" => c.left > 0
    /\ c.pc = "status" => c.held # Nothing
    /\ c.held # Nothing => /\ c.pc \in {"status", "mount", "retry", "mounted"}
                           /\ c.pc # "mounted" => c.held = c.dev

CommandsSane == \A p \in Procs : Sane(cmd[p])

\* An open device is configured; a command that holds one has configured it, no
\* other holds it, and it shows the region once it is complete.
OpenIsConfigured == \A d \in Openers \ {Nothing} : loop[d].region # Nothing

HeldIsOwn ==
    /\ \A p, q \in Procs : cmd[p].held # Nothing /\ cmd[p].held = cmd[q].held => p = q
    /\ \A p \in Procs : cmd[p].held # Nothing /\ cmd[p].pc \in {"mount", "retry"}
                           => loop[cmd[p].held].region = cmd[p].want

\* A device that was found and has not changed since backs the region, complete.
FoundIsWanted ==
    \A p \in Procs : cmd[p].pc \in {"mount", "retry"} /\ cmd[p].held = Nothing /\ p \notin doubt
        => loop[cmd[p].dev].region = cmd[p].want /\ ~Half(cmd[p].dev)

SureIsComplete ==
    \A m \in Mounts : m.sure => loop[m.dev].region = m.want /\ ~Half(m.dev)

\* What mount configures goes by autoclear, once the flag is set.
GoesByItself ==
    \A d \in Devs :
        /\ loop[d].maker \in {"mount", "raced"} => loop[d].autoclear \/ Half(d)
        /\ loop[d].autoclear => d \in Openers

\* A half-made device in use by another command is marked; a device that mount
\* made alone backs a region that no command has looked for in vain.
Gap == {"getfree", "attach", "status"}

TwinsAreMarked ==
    \A d \in Devs :
        /\ Half(d) /\ d \in {m.dev : m \in Mounts} \cup lingering => loop[d].maker = "raced"
        /\ loop[d].maker = "mount" /\ ~Half(d)
              => \A p \in Procs : cmd[p].pc \in Gap => cmd[p].want # loop[d].region

Inv ==
    /\ TypeOK /\ CommandsSane /\ OpenIsConfigured /\ HeldIsOwn /\ FoundIsWanted
    /\ SureIsComplete /\ GoesByItself /\ TwinsAreMarked /\ OneDevicePerRegion

-----------------------------------------------------------------------------
(* The mount table, and the devices after a step *)

LEMMA MountsType == TypeOK => Mounts \subseteq Entry
<1> SUFFICES ASSUME TypeOK, NEW m \in Mounts PROVE m \in Entry OBVIOUS
<1>1. stack \in [Points -> Seq(Entry)] BY DEF TypeOK, Entry
<1>2. PICK t \in Points : \E i \in 1 .. Len(stack[t]) : m = stack[t][i] BY DEF Mounts
<1>3. stack[t] \in Seq(Entry) BY <1>1
<1> QED BY <1>2, <1>3

LEMMA Pushed ==
    ASSUME TypeOK, NEW t \in Points, NEW e \in Entry,
           stack' = [stack EXCEPT ![t] = Append(@, e)]
    PROVE  /\ stack' \in [Points -> Seq(Entry)]
           /\ Mounts' = Mounts \cup {e}
<1>1. stack[t] \in Seq(Entry) BY DEF TypeOK, Entry
<1>2. /\ Append(stack[t], e) \in Seq(Entry)
      /\ Len(Append(stack[t], e)) = Len(stack[t]) + 1
      /\ \A i \in 1 .. Len(stack[t]) : Append(stack[t], e)[i] = stack[t][i]
      /\ Append(stack[t], e)[Len(stack[t]) + 1] = e
  BY <1>1
<1>3. stack \in [Points -> Seq(Entry)] BY DEF TypeOK, Entry
<1>4. stack'[t] = Append(stack[t], e) /\ \A u \in Points \ {t} : stack'[u] = stack[u]
  BY <1>3
<1>5. \A u \in Points : Len(stack[u]) \in Nat BY <1>3
<1>6. \A m : m \in Mounts' <=> m \in Mounts \/ m = e
  <2>1. \A m : m \in Mounts' <=> \E u \in Points : \E i \in 1 .. Len(stack'[u]) : m = stack'[u][i]
    BY DEF Mounts
  <2>2. \A m : m \in Mounts <=> \E u \in Points : \E i \in 1 .. Len(stack[u]) : m = stack[u][i]
    BY DEF Mounts
  <2>3. ASSUME NEW m, m \in Mounts' PROVE m \in Mounts \/ m = e
    <3>1. PICK u \in Points : \E i \in 1 .. Len(stack'[u]) : m = stack'[u][i] BY <2>1, <2>3
    <3>5. PICK i \in 1 .. Len(stack'[u]) : m = stack'[u][i] BY <3>1
    <3>2. CASE u = t /\ i = Len(stack[t]) + 1 BY <3>5, <3>2, <1>2, <1>4
    <3>3. CASE u = t /\ i # Len(stack[t]) + 1
      <4>1. i \in 1 .. Len(stack[t]) BY <3>5, <3>3, <1>2, <1>4, <1>5
      <4> QED BY <4>1, <3>5, <3>3, <1>2, <1>4, <2>2
    <3>4. CASE u # t BY <3>5, <3>4, <1>4, <2>2
    <3> QED BY <3>2, <3>3, <3>4
  <2>4. ASSUME NEW m, m \in Mounts PROVE m \in Mounts'
    <3>1. PICK u \in Points : \E i \in 1 .. Len(stack[u]) : m = stack[u][i] BY <2>2, <2>4
    <3>2. \E i \in 1 .. Len(stack'[u]) : m = stack'[u][i]
      <4>1. PICK i \in 1 .. Len(stack[u]) : m = stack[u][i] BY <3>1
      <4>2. i \in 1 .. Len(stack'[u]) /\ m = stack'[u][i] BY <4>1, <1>2, <1>4, <1>5
      <4> QED BY <4>2
    <3> QED BY <3>2, <2>1
  <2>5. e \in Mounts'
    <3>1. Len(stack[t]) + 1 \in 1 .. Len(stack'[t]) BY <1>2, <1>4, <1>5
    <3> QED BY <3>1, <1>2, <1>4, <2>1
  <2> QED BY <2>3, <2>4, <2>5
<1> QED BY <1>2, <1>3, <1>6

LEMMA Popped ==
    ASSUME TypeOK, NEW t \in Points, stack[t] # <<>>,
           stack' = [stack EXCEPT ![t] = SubSeq(@, 1, Len(@) - 1)]
    PROVE  /\ stack' \in [Points -> Seq(Entry)]
           /\ Mounts' \subseteq Mounts
           /\ stack[t][Len(stack[t])] \in Mounts
<1>1. stack \in [Points -> Seq(Entry)] BY DEF TypeOK, Entry
<1>2. stack[t] \in Seq(Entry) /\ Len(stack[t]) \in Nat \ {0} BY <1>1
<1>3. /\ SubSeq(stack[t], 1, Len(stack[t]) - 1) \in Seq(Entry)
      /\ Len(SubSeq(stack[t], 1, Len(stack[t]) - 1)) = Len(stack[t]) - 1
      /\ \A i \in 1 .. Len(stack[t]) - 1 :
            SubSeq(stack[t], 1, Len(stack[t]) - 1)[i] = stack[t][i]
  BY <1>2
<1>4. stack'[t] = SubSeq(stack[t], 1, Len(stack[t]) - 1)
      /\ \A u \in Points \ {t} : stack'[u] = stack[u]
  BY <1>1
<1>5. \A m : m \in Mounts <=> \E u \in Points : \E i \in 1 .. Len(stack[u]) : m = stack[u][i]
  BY DEF Mounts
<1>6. ASSUME NEW m, m \in Mounts' PROVE m \in Mounts
  <2>1. PICK u \in Points : \E i \in 1 .. Len(stack'[u]) : m = stack'[u][i]
    BY <1>6 DEF Mounts
  <2>2. \E i \in 1 .. Len(stack[u]) : m = stack[u][i]
    <3>1. PICK i \in 1 .. Len(stack'[u]) : m = stack'[u][i] BY <2>1
    <3>2. i \in 1 .. Len(stack[u]) /\ m = stack[u][i] BY <3>1, <1>2, <1>3, <1>4
    <3> QED BY <3>2
  <2> QED BY <2>2, <1>5
<1>7. stack[t][Len(stack[t])] \in Mounts
  <2>1. Len(stack[t]) \in 1 .. Len(stack[t]) BY <1>2
  <2> QED BY <2>1, <1>5
<1> QED BY <1>1, <1>3, <1>6, <1>7

LEMMA SettleType ==
    ASSUME TypeOK, NEW l \in [Devs -> Dev], NEW p, Settle(l, p)
    PROVE  loop' \in [Devs -> Dev] /\ doubt' \subseteq Procs
BY DEF Settle, Dev, Free

\* What is known of the devices after Settle, one by one.
LEMMA Settled ==
    ASSUME NEW l, NEW p, Settle(l, p)
    PROVE  /\ \A d \in Devs : loop'[d] = l[d] \/ (loop'[d] = Free /\ d \notin Openers')
           /\ \A d \in Devs : loop'[d].autoclear => d \in Openers'
           /\ \A d \in Devs : d \in Openers' => loop'[d] = l[d]
           /\ \A q \in Procs \ {p} : q \in doubt => q \in doubt'
           /\ \A q \in Procs \ {p} :
                 cmd[q].pc \in {"mount", "retry"} /\ q \notin doubt'
                 => loop'[cmd[q].dev].region = loop[cmd[q].dev].region
BY DEF Settle, Free

LEMMA OpenersAre ==
    /\ \A d : d \in Openers <=>
          (\E p \in Procs : d = cmd[p].held) \/ (\E m \in Mounts : d = m.dev) \/ d \in lingering
    /\ \A d : d \in Openers' <=>
          (\E p \in Procs : d = cmd'[p].held) \/ (\E m \in Mounts' : d = m.dev)
          \/ d \in lingering'
BY DEF Openers

-----------------------------------------------------------------------------
(* Steps that open and close nothing *)

LEMMA QuietStep ==
    ASSUME Inv, NEW p \in Procs, NEW c \in Command, Sane(c),
           cmd' = [cmd EXCEPT ![p] = c], UNCHANGED <<loop, stack, lingering>>,
           cmd[p].pc # "status", c.pc # "status",
           c.held = cmd[p].held, c.held # Nothing => c.want = cmd[p].want,
           doubt' \subseteq Procs, \A q \in Procs \ {p} : q \in doubt' <=> q \in doubt,
           c.pc \in {"mount", "retry"} /\ c.held = Nothing /\ p \notin doubt'
              => loop[c.dev].region = c.want /\ ~Half(c.dev),
           c.held # Nothing => cmd[p].pc \in {"mount", "retry"},
           c.pc \in Gap => \/ cmd[p].pc \in Gap /\ c.want = cmd[p].want
                           \/ \A d \in Devs : loop[d].region # c.want
    PROVE  Inv'
<1>1. TypeOK /\ cmd \in [Procs -> Command] BY DEF Inv, TypeOK, Command
<1>2. cmd' \in [Procs -> Command] /\ cmd'[p] = c /\ \A q \in Procs \ {p} : cmd'[q] = cmd[q]
  BY <1>1
<1>3. Mounts' = Mounts BY DEF Mounts
<1>4. \A q \in Procs : cmd'[q].held = cmd[q].held
                       /\ (cmd'[q].pc = "status" <=> cmd[q].pc = "status")
  BY <1>1, <1>2
<1>5. (\A d : Half(d)' <=> Half(d)) BY <1>4 DEF Half
<1>6. Openers' = Openers BY <1>3, <1>4, OpenersAre
<1>7. TypeOK' BY <1>1, <1>2 DEF TypeOK, Command
<1>8. CommandsSane' BY <1>2 DEF Inv, CommandsSane
<1>9. OpenIsConfigured' BY <1>6 DEF Inv, OpenIsConfigured
<1>10. HeldIsOwn' BY <1>1, <1>2, <1>4 DEF Inv, HeldIsOwn
<1>11. FoundIsWanted'
  <2> SUFFICES ASSUME NEW q \in Procs, cmd'[q].pc \in {"mount", "retry"},
                      cmd'[q].held = Nothing, q \notin doubt'
               PROVE  loop[cmd'[q].dev].region = cmd'[q].want /\ ~Half(cmd'[q].dev)
    BY <1>5 DEF FoundIsWanted
  <2>1. CASE q = p BY <2>1, <1>2
  <2>2. CASE q # p BY <2>2, <1>2 DEF Inv, FoundIsWanted
  <2> QED BY <2>1, <2>2
<1>12. SureIsComplete' BY <1>3, <1>5 DEF Inv, SureIsComplete
<1>13. GoesByItself' BY <1>5, <1>6 DEF Inv, GoesByItself
<1>14. TwinsAreMarked'
  <2>1. \A d \in Devs : Half(d)' /\ d \in {m.dev : m \in Mounts'} \cup lingering'
                        => loop'[d].maker = "raced"
    BY <1>3, <1>5 DEF Inv, TwinsAreMarked
  <2>2. ASSUME NEW d \in Devs, loop'[d].maker = "mount", ~Half(d)', NEW q \in Procs,
               cmd'[q].pc \in Gap
        PROVE  cmd'[q].want # loop'[d].region
    BY <2>2, <1>2, <1>5 DEF Inv, TwinsAreMarked
  <2> QED BY <2>1, <2>2 DEF TwinsAreMarked
<1>15. OneDevicePerRegion' BY <1>5 DEF Inv, OneDevicePerRegion
<1> QED BY <1>7, <1>8, <1>9, <1>10, <1>11, <1>12, <1>13, <1>14, <1>15 DEF Inv

-----------------------------------------------------------------------------
(* Steps that close, clear or mark for autoclear *)

LEMMA ClosingStep ==
    ASSUME Inv, NEW p, NEW l \in [Devs -> Dev], Settle(l, p),
           cmd' \in [Procs -> Command], \A q \in Procs \ {p} : cmd'[q] = cmd[q],
           p \in Procs => /\ Sane(cmd'[p]) /\ cmd'[p].held = Nothing
                          /\ cmd'[p].pc \notin Gap \cup {"mount", "retry"},
           stack' \in [Points -> Seq(Entry)], Mounts' \subseteq Mounts,
           lingering' \subseteq lingering \cup {m.dev : m \in Mounts},
           \A d \in Devs : /\ l[d].region = loop[d].region
                           /\ loop[d].autoclear => l[d].autoclear
                           /\ \/ l[d].maker = loop[d].maker
                              \/ /\ l[d].maker = "cut" /\ p \in Procs
                                 /\ cmd[p].pc = "status" /\ cmd[p].held = d,
           p \in Procs /\ cmd[p].pc = "status"
              => l[cmd[p].held].maker = "cut" \/ l[cmd[p].held].autoclear
    PROVE  Inv'
<1>1. TypeOK /\ cmd \in [Procs -> Command] /\ Mounts \subseteq Entry
  BY MountsType DEF Inv, TypeOK, Command
<1>2. \A q \in Procs : cmd'[q].held # Nothing => q # p /\ cmd'[q] = cmd[q]
  OBVIOUS
<1>3. \A d \in Openers' : d \in Openers \/ d = Nothing BY <1>2, OpenersAre
<1>4. \A d : Half(d)' => Half(d) BY DEF Half, Gap
<1>5. \A d \in Devs : Half(d) /\ ~Half(d)' => p \in Procs /\ cmd[p].pc = "status"
                                              /\ cmd[p].held = d
  BY DEF Half
<1>6. \A d \in Devs : loop'[d].region = loop[d].region \/ loop'[d] = Free
  BY Settled
<1>7. TypeOK'
  <2>1. lingering' \subseteq Devs BY <1>1 DEF TypeOK, Entry
  <2> QED BY <2>1, <1>1, SettleType DEF TypeOK, Command, Dev, Entry
<1>8. CommandsSane' BY DEF Inv, CommandsSane
<1>9. OpenIsConfigured'
  <2> SUFFICES ASSUME NEW d \in Openers' \ {Nothing} PROVE loop'[d].region # Nothing
    BY DEF OpenIsConfigured
  <2>1. d \in Devs /\ d \in Openers BY <1>1, <1>3, <1>7, OpenersAre DEF TypeOK, Entry, Command
  <2> QED BY <2>1, Settled DEF Inv, OpenIsConfigured
<1>10. HeldIsOwn'
  <2>1. \A q, r \in Procs : cmd'[q].held # Nothing /\ cmd'[q].held = cmd'[r].held => q = r
    BY <1>2 DEF Inv, HeldIsOwn
  <2>2. ASSUME NEW q \in Procs, cmd'[q].held # Nothing, cmd'[q].pc \in {"mount", "retry"}
        PROVE  loop'[cmd'[q].held].region = cmd'[q].want
    <3>1. cmd'[q] = cmd[q] /\ cmd[q].held \in Devs /\ cmd[q].held \in Openers'
      BY <2>2, <1>1, <1>2, OpenersAre DEF Command
    <3> QED BY <3>1, <2>2, Settled DEF Inv, HeldIsOwn
  <2> QED BY <2>1, <2>2 DEF HeldIsOwn
<1>11. FoundIsWanted'
  <2> SUFFICES ASSUME NEW q \in Procs, cmd'[q].pc \in {"mount", "retry"},
                      cmd'[q].held = Nothing, q \notin doubt'
               PROVE  (loop[cmd[q].dev].region = cmd[q].want /\ ~Half(cmd[q].dev))'
    BY DEF FoundIsWanted
  <2>1. q # p /\ cmd'[q] = cmd[q] OBVIOUS
  <2>2. q \notin doubt /\ loop'[cmd[q].dev].region = loop[cmd[q].dev].region
    BY <2>1, Settled
  <2>3. loop[cmd[q].dev].region = cmd[q].want /\ ~Half(cmd[q].dev)
    BY <2>1, <2>2 DEF Inv, FoundIsWanted
  <2>4. ~Half(cmd[q].dev)' BY <2>1, <2>3 DEF Half, Gap
  <2> QED BY <2>1, <2>2, <2>3, <2>4
<1>12. SureIsComplete'
  <2> SUFFICES ASSUME NEW m \in Mounts', m.sure
               PROVE  loop'[m.dev].region = m.want /\ ~Half(m.dev)'
    BY DEF SureIsComplete
  <2>1. m \in Mounts /\ m.dev \in Devs /\ m.dev \in Openers' BY <1>1, OpenersAre DEF Entry
  <2> QED BY <2>1, <1>4, Settled DEF Inv, SureIsComplete
<1>13. GoesByItself'
  <2> SUFFICES ASSUME NEW d \in Devs, loop'[d].maker \in {"mount", "raced"},
                      ~loop'[d].autoclear
               PROVE  Half(d)'
    BY Settled DEF GoesByItself
  <2>1. loop'[d] = l[d] BY Settled DEF Free
  <2>2. l[d].maker = loop[d].maker /\ ~loop[d].autoclear BY <2>1
  <2>3. Half(d) BY <2>2, <2>1 DEF Inv, GoesByItself
  <2> QED BY <2>1, <2>3, <1>5
<1>14. TwinsAreMarked'
  <2>1. ASSUME NEW d \in Devs, Half(d)', d \in {m.dev : m \in Mounts'} \cup lingering'
        PROVE  loop'[d].maker = "raced"
    <3>1. d \in Openers' BY <2>1, OpenersAre
    <3>2. Half(d) /\ d \in {m.dev : m \in Mounts} \cup lingering BY <2>1, <1>4
    <3>3. l[d].maker = loop[d].maker
      <4>1. PICK q \in Procs : cmd'[q].pc = "status" /\ cmd'[q].held = d BY <2>1 DEF Half
      <4>2. q # p /\ cmd[q].held = d BY <4>1 DEF Gap
      <4> QED BY <4>2, LoopAssumption DEF Inv, HeldIsOwn
    <3> QED BY <3>1, <3>2, <3>3, Settled DEF Inv, TwinsAreMarked
  <2>2. ASSUME NEW d \in Devs, loop'[d].maker = "mount", ~Half(d)', NEW q \in Procs,
               cmd'[q].pc \in Gap
        PROVE  cmd'[q].want # loop'[d].region
    <3>1. loop'[d] = l[d] /\ loop[d].maker = "mount" BY <2>2, Settled DEF Free
    <3>2. ~Half(d)
      <4>1. SUFFICES ASSUME Half(d) PROVE FALSE OBVIOUS
      <4>2. p \in Procs /\ cmd[p].pc = "status" /\ cmd[p].held = d BY <4>1, <2>2, <1>5
      <4>3. d \in Openers' BY <4>2, <3>1, <2>2, Settled
      <4>4. d \in {m.dev : m \in Mounts} \cup lingering
        BY <4>2, <4>3, <1>2, OpenersAre, LoopAssumption DEF Inv, HeldIsOwn
      <4> QED BY <4>1, <4>4, <3>1 DEF Inv, TwinsAreMarked
    <3>3. q # p /\ cmd'[q] = cmd[q] BY <2>2
    <3> QED BY <2>2, <3>1, <3>2, <3>3 DEF Inv, TwinsAreMarked
  <2> QED BY <2>1, <2>2 DEF TwinsAreMarked
<1>15. OneDevicePerRegion'
  <2>1. ASSUME NEW d \in Devs, loop'[d].maker = "mount", ~Half(d)'
        PROVE  loop[d].maker = "mount" /\ ~Half(d) /\ loop'[d].region = loop[d].region
    <3>1. loop'[d] = l[d] /\ loop[d].maker = "mount" BY <2>1, Settled DEF Free
    <3>2. ~Half(d)
      <4>1. SUFFICES ASSUME Half(d) PROVE FALSE OBVIOUS
      <4>2. p \in Procs /\ cmd[p].pc = "status" /\ cmd[p].held = d BY <4>1, <2>1, <1>5
      <4>3. d \in Openers' BY <4>2, <3>1, <2>1, Settled
      <4>4. d \in {m.dev : m \in Mounts} \cup lingering
        BY <4>2, <4>3, <1>2, OpenersAre, LoopAssumption DEF Inv, HeldIsOwn
      <4> QED BY <4>1, <4>4, <3>1 DEF Inv, TwinsAreMarked
    <3> QED BY <3>1, <3>2
  <2> QED BY <2>1 DEF Inv, OneDevicePerRegion
<1> QED BY <1>7, <1>8, <1>9, <1>10, <1>11, <1>12, <1>13, <1>14, <1>15 DEF Inv

-----------------------------------------------------------------------------
(* Steps that configure a device, or open one more *)

\* p gives a free device its region, or the file and no offset yet.
LEMMA TakingStep ==
    ASSUME Inv, NEW p \in Procs, cmd[p].pc = "attach", NEW d \in Devs, d = cmd[p].dev,
           loop[d].region = Nothing, NEW c \in {"mount", "status"}, NEW new \in Dev,
           new.region \in Regions, c = "mount" => new.region = cmd[p].want /\ new.autoclear,
           new.maker \in {"mount", "raced"},
           c = "mount" /\ new.maker = "mount" => new.maker = Maker(p),
           cmd' = [cmd EXCEPT ![p].pc = c, ![p].held = d, ![p].left = 0],
           UNCHANGED <<stack, lingering>>, Settle([loop EXCEPT ![d] = new], p)
    PROVE  Inv'
<1>1. /\ TypeOK /\ cmd \in [Procs -> Command] /\ loop \in [Devs -> Dev]
      /\ Mounts \subseteq Entry /\ Mounts' = Mounts
  <2>1. TypeOK BY DEF Inv
  <2>2. cmd \in [Procs -> Command] /\ loop \in [Devs -> Dev]
    BY <2>1 DEF TypeOK, Command, Dev
  <2>3. Mounts' = Mounts BY DEF Mounts
  <2> QED BY <2>1, <2>2, <2>3, MountsType
<1>2. /\ cmd' \in [Procs -> Command] /\ \A q \in Procs \ {p} : cmd'[q] = cmd[q]
      /\ cmd'[p] = [cmd[p] EXCEPT !.pc = c, !.held = d, !.left = 0]
  <2>1. cmd' = [cmd EXCEPT ![p] = [cmd[p] EXCEPT !.pc = c, !.held = d, !.left = 0]]
    BY <1>1
  <2>2. [cmd[p] EXCEPT !.pc = c, !.held = d, !.left = 0] \in Command
    <3>1. cmd[p] \in Command /\ c \in Places BY <1>1 DEF Places
    <3> QED BY <3>1 DEF Command
  <2> QED BY <1>1, <2>1, <2>2
<1>3. cmd[p].held = Nothing /\ Sane(cmd[p]) BY DEF Inv, CommandsSane, Sane
<1>4. \A e : e # Nothing => (e \in Openers' <=> e \in Openers \/ e = d)
  <2>1. cmd'[p].held = d BY <1>1, <1>2 DEF Command
  <2> QED BY <1>1, <1>2, <1>3, <2>1, OpenersAre
<1>5. d \notin Openers /\ d # Nothing
  BY LoopAssumption DEF Inv, OpenIsConfigured
<1>6. \A q \in Procs : cmd[q].held # d BY <1>5, OpenersAre
<1>7. Openers \ {Nothing} \subseteq Openers' /\ d \in Openers' BY <1>1, <1>2, <1>4, OpenersAre
<1>8. loop' = [loop EXCEPT ![d] = new]
  <2>1. \A e \in Devs : e # d /\ loop[e].autoclear => e \in Openers'
    BY <1>7, LoopAssumption DEF Inv, GoesByItself
  <2> QED BY <1>1, <1>7, <2>1 DEF Settle
<1>9. loop'[d] = new /\ \A e \in Devs \ {d} : loop'[e] = loop[e] BY <1>1, <1>8
<1>10. \A e : Half(e)' <=> Half(e) \/ (e = d /\ c = "status")
  BY <1>2, <1>3, <1>6 DEF Half
<1>11. ~Half(d) BY <1>6 DEF Half
<1>12. TypeOK'
  BY <1>1, <1>2, <1>8, SettleType DEF TypeOK, Command, Dev
<1>13. CommandsSane' BY <1>2, <1>3, <1>5 DEF Inv, CommandsSane, Sane
<1>14. OpenIsConfigured'
  <2> SUFFICES ASSUME NEW e \in Openers' \ {Nothing} PROVE loop'[e].region # Nothing
    BY DEF OpenIsConfigured
  <2>1. e = d \/ (e \in Openers /\ e \in Devs)
    BY <1>1, <1>4, OpenersAre DEF TypeOK, Entry, Command
  <2> QED BY <2>1, <1>9, LoopAssumption DEF Inv, OpenIsConfigured, Regions
<1>15. HeldIsOwn'
  <2>1. \A q, r \in Procs : cmd'[q].held # Nothing /\ cmd'[q].held = cmd'[r].held => q = r
    BY <1>1, <1>2, <1>6 DEF Inv, HeldIsOwn, Command
  <2>2. ASSUME NEW q \in Procs, cmd'[q].held # Nothing, cmd'[q].pc \in {"mount", "retry"}
        PROVE  loop'[cmd'[q].held].region = cmd'[q].want
    <3>1. CASE q = p BY <3>1, <2>2, <1>1, <1>2, <1>9 DEF Command
    <3>2. CASE q # p
      <4>1. cmd'[q] = cmd[q] /\ cmd[q].held \in Devs \ {d}
        BY <3>2, <2>2, <1>1, <1>2, <1>6 DEF Command
      <4> QED BY <4>1, <2>2, <1>9 DEF Inv, HeldIsOwn
    <3> QED BY <3>1, <3>2
  <2> QED BY <2>1, <2>2 DEF HeldIsOwn
<1>16. FoundIsWanted'
  <2> SUFFICES ASSUME NEW q \in Procs, cmd'[q].pc \in {"mount", "retry"},
                      cmd'[q].held = Nothing, q \notin doubt'
               PROVE  (loop[cmd[q].dev].region = cmd[q].want /\ ~Half(cmd[q].dev))'
    BY DEF FoundIsWanted
  <2>1. q # p /\ cmd'[q] = cmd[q] BY <1>1, <1>2, <1>5 DEF Command
  <2>2. q \notin doubt /\ loop'[cmd[q].dev].region = loop[cmd[q].dev].region
    BY <2>1, Settled
  <2>3. loop[cmd[q].dev].region = cmd[q].want /\ ~Half(cmd[q].dev)
    BY <2>1, <2>2 DEF Inv, FoundIsWanted
  <2>4. cmd[q].dev # d
    BY <2>1, <2>3, LoopAssumption DEF Inv, CommandsSane, Sane, Regions
  <2>5. ~Half(cmd[q].dev)' BY <2>1, <2>3, <2>4, <1>2 DEF Half
  <2> QED BY <2>1, <2>2, <2>3, <2>5
<1>17. SureIsComplete'
  <2> SUFFICES ASSUME NEW m \in Mounts, m.sure
               PROVE  loop'[m.dev].region = m.want /\ ~Half(m.dev)'
    BY <1>1 DEF SureIsComplete
  <2>1. m.dev \in Devs \ {d} BY <1>1, <1>5, OpenersAre DEF Entry
  <2> QED BY <2>1, <1>9, <1>10 DEF Inv, SureIsComplete
<1>18. GoesByItself'
  <2> SUFFICES ASSUME NEW e \in Devs
               PROVE  /\ loop'[e].maker \in {"mount", "raced"} => loop'[e].autoclear \/ Half(e)'
                      /\ loop'[e].autoclear => e \in Openers'
    BY DEF GoesByItself
  <2>1. CASE e = d BY <2>1, <1>7, <1>9, <1>10
  <2>2. CASE e # d
    BY <2>2, <1>7, <1>9, <1>10, LoopAssumption DEF Inv, GoesByItself
  <2> QED BY <2>1, <2>2
<1>19. TwinsAreMarked'
  <2>1. ASSUME NEW e \in Devs, Half(e)', e \in {m.dev : m \in Mounts'} \cup lingering'
        PROVE  loop'[e].maker = "raced"
    <3>1. e # d BY <2>1, <1>1, <1>5, OpenersAre
    <3> QED BY <3>1, <2>1, <1>1, <1>9, <1>10 DEF Inv, TwinsAreMarked
  <2>2. ASSUME NEW e \in Devs, loop'[e].maker = "mount", ~Half(e)', NEW q \in Procs,
               cmd'[q].pc \in Gap
        PROVE  cmd'[q].want # loop'[e].region
    <3>1. cmd[q].pc \in Gap /\ cmd'[q].want = cmd[q].want
      BY <2>2, <1>1, <1>2 DEF Gap, Command
    <3>2. CASE e = d
      <4>1. c = "mount" /\ new.maker = "mount" BY <3>2, <2>2, <1>9, <1>10
      <4>2. q # p BY <4>1, <2>2, <1>1, <1>2 DEF Gap, Command
      <4> QED BY <4>1, <4>2, <3>1, <3>2, <1>9 DEF Maker, Gap
    <3>3. CASE e # d BY <3>3, <3>1, <2>2, <1>9, <1>10 DEF Inv, TwinsAreMarked
    <3> QED BY <3>2, <3>3
  <2> QED BY <2>1, <2>2 DEF TwinsAreMarked
<1>20. OneDevicePerRegion'
  <2> SUFFICES ASSUME NEW e \in Devs, NEW f \in Devs, e # f,
                      loop'[e].maker = "mount", ~Half(e)', loop'[f].maker = "mount", ~Half(f)',
                      loop'[e].region = loop'[f].region
               PROVE  FALSE
    BY DEF OneDevicePerRegion
  <2>1. CASE e # d /\ f # d BY <2>1, <1>9, <1>10 DEF Inv, OneDevicePerRegion
  <2>2. ASSUME NEW g \in Devs \ {d}, loop'[g].maker = "mount", ~Half(g)', ~Half(d)'
        PROVE  loop'[g].region # loop'[d].region
    <3>1. loop[g] = loop'[g] /\ ~Half(g) BY <2>2, <1>9, <1>10
    <3>2. new.region = cmd[p].want BY <2>2, <1>10
    <3> QED BY <3>1, <3>2, <2>2, <1>9 DEF Inv, TwinsAreMarked, Gap
  <2> QED BY <2>1, <2>2
<1> QED BY <1>12, <1>13, <1>14, <1>15, <1>16, <1>17, <1>18, <1>19, <1>20 DEF Inv

\* The second call of attach_legacy completes what p holds.
LEMMA CompletingStep ==
    ASSUME Inv, NEW p \in Procs, SetStatus(p)
    PROVE  Inv'
<1> DEFINE d == cmd[p].dev
           new == [loop[d] EXCEPT !.region = cmd[p].want, !.autoclear = TRUE,
                                  !.maker = IF @ = "raced" THEN @ ELSE Maker(p)]
<1>1. /\ TypeOK /\ cmd \in [Procs -> Command] /\ loop \in [Devs -> Dev]
      /\ Mounts \subseteq Entry /\ Mounts' = Mounts
  <2>1. TypeOK BY DEF Inv
  <2>2. cmd \in [Procs -> Command] /\ loop \in [Devs -> Dev]
    BY <2>1 DEF TypeOK, Command, Dev
  <2>3. Mounts' = Mounts BY DEF SetStatus, Mounts
  <2> QED BY <2>1, <2>2, <2>3, MountsType
<1>2. /\ cmd[p].pc = "status" /\ d \in Devs /\ cmd[p].held = d /\ cmd[p].want \in Regions
      /\ Sane(cmd[p])
  BY DEF Inv, CommandsSane, Sane, SetStatus
<1>3. /\ cmd' \in [Procs -> Command] /\ \A q \in Procs \ {p} : cmd'[q] = cmd[q]
      /\ cmd'[p] = [cmd[p] EXCEPT !.pc = "mount"]
  <2>1. cmd' = [cmd EXCEPT ![p] = [cmd[p] EXCEPT !.pc = "mount"]] BY <1>1 DEF SetStatus
  <2>2. [cmd[p] EXCEPT !.pc = "mount"] \in Command
    <3>1. cmd[p] \in Command /\ "mount" \in Places BY <1>1 DEF Places
    <3> QED BY <3>1 DEF Command
  <2> QED BY <1>1, <2>1, <2>2
<1>4. \A q \in Procs : cmd'[q].held = cmd[q].held BY <1>1, <1>3 DEF Command
<1>5. Openers' = Openers BY <1>1, <1>4, OpenersAre DEF SetStatus
<1>6. d \in Openers BY <1>2, OpenersAre
<1>7. d # Nothing /\ \A q \in Procs : cmd[q].held = d => q = p
  BY <1>2, LoopAssumption DEF Inv, HeldIsOwn
<1>8. /\ new \in Dev /\ new.region = cmd[p].want /\ new.autoclear
      /\ new.maker = IF loop[d].maker = "raced" THEN "raced" ELSE Maker(p)
  BY <1>1, <1>2 DEF Dev, Maker
<1>9. loop' = [loop EXCEPT ![d] = new]
  <2>1. Settle([loop EXCEPT ![d].region = cmd[p].want, ![d].autoclear = TRUE,
                            ![d].maker = IF @ = "raced" THEN @ ELSE Maker(p)], p)
    BY DEF SetStatus
  <2>2. [loop EXCEPT ![d].region = cmd[p].want, ![d].autoclear = TRUE,
                     ![d].maker = IF @ = "raced" THEN @ ELSE Maker(p)]
        = [loop EXCEPT ![d] = new]
    BY <1>1, <1>2 DEF Dev
  <2>3. Settle([loop EXCEPT ![d] = new], p) BY <2>1, <2>2
  <2>4. \A e \in Devs : e # d /\ loop[e].autoclear => e \in Openers'
    BY <1>5 DEF Inv, GoesByItself
  <2> HIDE DEF new
  <2> QED BY <1>1, <1>2, <1>5, <1>6, <2>3, <2>4 DEF Settle
<1> HIDE DEF new
<1>10. loop'[d] = new /\ \A e \in Devs \ {d} : loop'[e] = loop[e] BY <1>1, <1>2, <1>9
<1>11. Half(d) /\ \A e : Half(e)' <=> Half(e) /\ e # d
  BY <1>1, <1>2, <1>3, <1>7 DEF Half, Command
<1>12. \A q \in Procs \ {p} : q \in doubt => q \in doubt'
  BY DEF SetStatus, Settle
<1>13. /\ doubt' \subseteq Procs
       /\ \A q \in Procs \ {p} : cmd[q].pc \in {"mount", "retry"} /\ q \notin doubt'
             => loop'[cmd[q].dev].region = loop[cmd[q].dev].region
  BY DEF SetStatus, Settle
<1>14. TypeOK'
  BY <1>1, <1>2, <1>3, <1>8, <1>9, <1>13 DEF TypeOK, Command, Dev, SetStatus
<1>15. CommandsSane'
  <2>1. Sane(cmd'[p]) BY <1>1, <1>2, <1>3 DEF Sane, Command
  <2> QED BY <2>1, <1>3 DEF Inv, CommandsSane
<1>16. OpenIsConfigured'
  <2> SUFFICES ASSUME NEW e \in Openers \ {Nothing} PROVE loop'[e].region # Nothing
    BY <1>5 DEF OpenIsConfigured
  <2>1. e \in Devs BY <1>1, OpenersAre DEF TypeOK, Entry, Command
  <2> QED BY <2>1, <1>2, <1>8, <1>10, LoopAssumption DEF Inv, OpenIsConfigured, Regions
<1>17. HeldIsOwn'
  <2>1. \A q, r \in Procs : cmd'[q].held # Nothing /\ cmd'[q].held = cmd'[r].held => q = r
    BY <1>4 DEF Inv, HeldIsOwn
  <2>2. ASSUME NEW q \in Procs, cmd'[q].held # Nothing, cmd'[q].pc \in {"mount", "retry"}
        PROVE  loop'[cmd'[q].held].region = cmd'[q].want
    <3>1. CASE q = p BY <3>1, <1>1, <1>2, <1>3, <1>8, <1>10 DEF Command
    <3>2. CASE q # p
      <4>1. cmd'[q] = cmd[q] /\ cmd[q].held \in Devs \ {d}
        BY <3>2, <2>2, <1>1, <1>3, <1>7 DEF Command
      <4> QED BY <4>1, <2>2, <1>10 DEF Inv, HeldIsOwn
    <3> QED BY <3>1, <3>2
  <2> QED BY <2>1, <2>2 DEF HeldIsOwn
<1>18. FoundIsWanted'
  <2> SUFFICES ASSUME NEW q \in Procs, cmd'[q].pc \in {"mount", "retry"},
                      cmd'[q].held = Nothing, q \notin doubt'
               PROVE  (loop[cmd[q].dev].region = cmd[q].want /\ ~Half(cmd[q].dev))'
    BY DEF FoundIsWanted
  <2>1. q # p /\ cmd'[q] = cmd[q] BY <1>2, <1>3, <1>4, <1>7
  <2>2. q \notin doubt /\ loop'[cmd[q].dev].region = loop[cmd[q].dev].region
    BY <2>1, <1>12, <1>13
  <2>3. loop[cmd[q].dev].region = cmd[q].want /\ ~Half(cmd[q].dev)
    BY <2>1, <2>2 DEF Inv, FoundIsWanted
  <2>4. ~Half(cmd[q].dev)' BY <2>1, <2>3, <1>3, <1>4 DEF Half, Command
  <2> QED BY <2>1, <2>2, <2>3, <2>4
<1>19. SureIsComplete'
  <2> SUFFICES ASSUME NEW m \in Mounts, m.sure
               PROVE  loop'[m.dev].region = m.want /\ ~Half(m.dev)'
    BY <1>1 DEF SureIsComplete
  <2>1. m.dev \in Devs \ {d} BY <1>1, <1>11 DEF Inv, SureIsComplete, Entry
  <2> QED BY <2>1, <1>10, <1>11 DEF Inv, SureIsComplete
<1>20. GoesByItself'
  <2> SUFFICES ASSUME NEW e \in Devs
               PROVE  /\ loop'[e].maker \in {"mount", "raced"} => loop'[e].autoclear \/ Half(e)'
                      /\ loop'[e].autoclear => e \in Openers'
    BY DEF GoesByItself
  <2>1. CASE e = d BY <2>1, <1>5, <1>6, <1>8, <1>10
  <2>2. CASE e # d BY <2>2, <1>5, <1>10, <1>11 DEF Inv, GoesByItself
  <2> QED BY <2>1, <2>2
<1>21. TwinsAreMarked'
  <2>1. ASSUME NEW e \in Devs, Half(e)', e \in {m.dev : m \in Mounts'} \cup lingering'
        PROVE  loop'[e].maker = "raced"
    BY <2>1, <1>1, <1>10, <1>11 DEF Inv, TwinsAreMarked, SetStatus
  <2>2. ASSUME NEW e \in Devs, loop'[e].maker = "mount", ~Half(e)', NEW q \in Procs,
               cmd'[q].pc \in Gap
        PROVE  cmd'[q].want # loop'[e].region
    <3>1. q # p /\ cmd'[q] = cmd[q] BY <2>2, <1>1, <1>3 DEF Gap, Command
    <3>2. CASE e = d
      <4>1. Maker(p) = "mount" BY <3>2, <2>2, <1>8, <1>10
      <4> QED BY <4>1, <2>2, <3>1, <3>2, <1>8, <1>10 DEF Maker, Gap
    <3>3. CASE e # d BY <3>3, <3>1, <2>2, <1>10, <1>11 DEF Inv, TwinsAreMarked
    <3> QED BY <3>2, <3>3
  <2> QED BY <2>1, <2>2 DEF TwinsAreMarked
<1>22. OneDevicePerRegion'
  <2> SUFFICES ASSUME NEW e \in Devs, NEW f \in Devs, e # f,
                      loop'[e].maker = "mount", ~Half(e)', loop'[f].maker = "mount", ~Half(f)',
                      loop'[e].region = loop'[f].region
               PROVE  FALSE
    BY DEF OneDevicePerRegion
  <2>1. CASE e # d /\ f # d BY <2>1, <1>10, <1>11 DEF Inv, OneDevicePerRegion
  <2>2. ASSUME NEW g \in Devs \ {d}, loop'[g].maker = "mount", ~Half(g)'
        PROVE  loop'[g].region # loop'[d].region
    <3>1. loop[g] = loop'[g] /\ ~Half(g) BY <2>2, <1>10, <1>11
    <3> QED BY <3>1, <2>2, <1>2, <1>8, <1>10 DEF Inv, TwinsAreMarked, Gap
  <2> QED BY <2>1, <2>2
<1> QED BY <1>14, <1>15, <1>16, <1>17, <1>18, <1>19, <1>20, <1>21, <1>22 DEF Inv

LEMMA MountingStep ==
    ASSUME Inv, NEW p \in Procs, Mount(p)
    PROVE  Inv'
<1> DEFINE d == cmd[p].dev
           e == Record(p)
<1>1. /\ TypeOK /\ cmd \in [Procs -> Command] /\ loop \in [Devs -> Dev]
      /\ Mounts \subseteq Entry
  <2>1. TypeOK BY DEF Inv
  <2>2. cmd \in [Procs -> Command] /\ loop \in [Devs -> Dev]
    BY <2>1 DEF TypeOK, Command, Dev
  <2> QED BY <2>1, <2>2, MountsType
<1>2. /\ cmd[p].pc \in {"mount", "retry"} /\ d \in Devs /\ cmd[p].want \in Regions
      /\ cmd[p].at \in Points /\ (cmd[p].held # Nothing => cmd[p].held = d)
      /\ loop[d].region # Nothing /\ d # Nothing
  BY LoopAssumption DEF Inv, CommandsSane, Sane, Mount
<1>3. e \in Entry /\ e.dev = d BY <1>2 DEF Record, Entry
<1>4. stack' \in [Points -> Seq(Entry)] /\ Mounts' = Mounts \cup {e}
  BY <1>1, <1>2, <1>3, Pushed DEF Mount
<1>5. /\ cmd' \in [Procs -> Command] /\ \A q \in Procs \ {p} : cmd'[q] = cmd[q]
      /\ cmd'[p] = [Idle EXCEPT !.pc = "mounted", !.held = cmd[p].held]
  <2>1. [Idle EXCEPT !.pc = "mounted", !.held = cmd[p].held] \in Command
    <3>1. cmd[p] \in Command /\ "mounted" \in Places BY <1>1 DEF Places
    <3> QED BY <3>1 DEF Command, Idle
  <2> QED BY <1>1, <2>1 DEF Mount
<1>6. \A q \in Procs : cmd'[q].held = cmd[q].held
                       /\ (cmd'[q].pc = "status" <=> cmd[q].pc = "status")
  BY <1>1, <1>2, <1>5 DEF Idle
<1>7. \A x : Half(x)' <=> Half(x) BY <1>6 DEF Half
<1>8. \A x : x \in Openers' <=> x \in Openers \/ x = d
  BY <1>3, <1>4, <1>6, OpenersAre DEF Mount
<1>9. /\ loop' \in [Devs -> Dev]
      /\ \A x \in Devs : /\ loop'[x].region = loop[x].region
                         /\ loop'[x].autoclear = loop[x].autoclear
                         /\ loop'[x].maker = IF x = d /\ Half(x) THEN "raced" ELSE loop[x].maker
  BY <1>1, <1>2 DEF Mount, Dev
<1>10. TypeOK' BY <1>1, <1>4, <1>5, <1>9 DEF TypeOK, Command, Dev, Entry, Mount
<1>11. CommandsSane'
  <2>1. Sane(cmd'[p]) BY <1>5 DEF Sane, Idle
  <2> QED BY <2>1, <1>5 DEF Inv, CommandsSane
<1>12. OpenIsConfigured'
  <2> SUFFICES ASSUME NEW x \in Openers' \ {Nothing} PROVE loop'[x].region # Nothing
    BY DEF OpenIsConfigured
  <2>1. x \in Devs BY <1>1, <1>2, <1>8, OpenersAre DEF TypeOK, Entry, Command
  <2> QED BY <2>1, <1>2, <1>8, <1>9 DEF Inv, OpenIsConfigured
<1>13. HeldIsOwn'
  <2>1. \A q, r \in Procs : cmd'[q].held # Nothing /\ cmd'[q].held = cmd'[r].held => q = r
    BY <1>6 DEF Inv, HeldIsOwn
  <2>2. ASSUME NEW q \in Procs, cmd'[q].held # Nothing, cmd'[q].pc \in {"mount", "retry"}
        PROVE  loop'[cmd'[q].held].region = cmd'[q].want
    <3>1. q # p BY <2>2, <1>5 DEF Idle
    <3>2. cmd'[q] = cmd[q] BY <3>1, <1>5
    <3>3. cmd[q].held \in Devs
      <4>1. cmd[q] \in Command BY <1>1
      <4> QED BY <4>1, <3>2, <2>2 DEF Command
    <3> QED BY <3>2, <3>3, <2>2, <1>9 DEF Inv, HeldIsOwn
  <2> QED BY <2>1, <2>2 DEF HeldIsOwn
<1>14. FoundIsWanted'
  <2> SUFFICES ASSUME NEW q \in Procs, cmd'[q].pc \in {"mount", "retry"},
                      cmd'[q].held = Nothing, q \notin doubt'
               PROVE  (loop[cmd[q].dev].region = cmd[q].want /\ ~Half(cmd[q].dev))'
    BY DEF FoundIsWanted
  <2>1. q # p /\ cmd'[q] = cmd[q] /\ q \notin doubt BY <1>5 DEF Idle, Mount
  <2>2. cmd[q].dev \in Devs BY <2>1 DEF Inv, CommandsSane, Sane
  <2>3. loop[cmd[q].dev].region = cmd[q].want /\ ~Half(cmd[q].dev)
    BY <2>1 DEF Inv, FoundIsWanted
  <2>4. ~Half(cmd[q].dev)' BY <2>1, <2>3, <1>6 DEF Half
  <2> QED BY <2>1, <2>2, <2>3, <2>4, <1>9
<1>15. SureIsComplete'
  <2> SUFFICES ASSUME NEW m \in Mounts', m.sure
               PROVE  loop'[m.dev].region = m.want /\ ~Half(m.dev)'
    BY DEF SureIsComplete
  <2>1. CASE m \in Mounts
    BY <2>1, <1>1, <1>7, <1>9 DEF Inv, SureIsComplete, Entry
  <2>2. CASE m = e /\ cmd[p].held = d
    <3>1. ~Half(d) BY <2>2, <1>2 DEF Half, Inv, HeldIsOwn
    <3> QED BY <2>2, <3>1, <1>2, <1>7, <1>9 DEF Inv, HeldIsOwn, Record
  <2>3. CASE m = e /\ cmd[p].held # d
    BY <2>3, <1>2, <1>7, <1>9 DEF Inv, FoundIsWanted, Record
  <2> QED BY <2>1, <2>2, <2>3, <1>4
<1>16. GoesByItself' BY <1>7, <1>8, <1>9 DEF Inv, GoesByItself
<1>17. TwinsAreMarked'
  <2>1. ASSUME NEW x \in Devs, Half(x)', x \in {m.dev : m \in Mounts'} \cup lingering'
        PROVE  loop'[x].maker = "raced"
    BY <2>1, <1>3, <1>4, <1>7, <1>9 DEF Inv, TwinsAreMarked, Mount
  <2>2. ASSUME NEW x \in Devs, loop'[x].maker = "mount", ~Half(x)', NEW q \in Procs,
               cmd'[q].pc \in Gap
        PROVE  cmd'[q].want # loop'[x].region
    <3>1. q # p /\ cmd'[q] = cmd[q] BY <2>2, <1>5 DEF Gap, Idle
    <3> QED BY <3>1, <2>2, <1>7, <1>9 DEF Inv, TwinsAreMarked
  <2> QED BY <2>1, <2>2 DEF TwinsAreMarked
<1>18. OneDevicePerRegion' BY <1>7, <1>9 DEF Inv, OneDevicePerRegion
<1> QED BY <1>10, <1>11, <1>12, <1>13, <1>14, <1>15, <1>16, <1>17, <1>18 DEF Inv

LEMMA LosetupStep ==
    ASSUME Inv, NEW d \in Devs, NEW r \in Regions, Losetup(d, r)
    PROVE  Inv'
<1>1. /\ TypeOK /\ cmd \in [Procs -> Command] /\ loop \in [Devs -> Dev]
      /\ Mounts \subseteq Entry /\ Mounts' = Mounts
  <2>1. TypeOK BY DEF Inv
  <2>2. cmd \in [Procs -> Command] /\ loop \in [Devs -> Dev]
    BY <2>1 DEF TypeOK, Command, Dev
  <2>3. Mounts' = Mounts BY DEF Losetup, Mounts
  <2> QED BY <2>1, <2>2, <2>3, MountsType
<1>2. /\ loop' \in [Devs -> Dev] /\ \A e \in Devs \ {d} : loop'[e] = loop[e]
      /\ loop'[d].maker = "losetup" /\ ~loop'[d].autoclear /\ loop'[d].region = r
      /\ r # Nothing
  BY <1>1, LoopAssumption DEF Losetup, Dev, Regions
<1>3. Openers' = Openers BY <1>1, OpenersAre DEF Losetup
<1>4. d \notin Openers \ {Nothing} BY DEF Inv, OpenIsConfigured, Losetup
<1>5. d # Nothing BY LoopAssumption
<1>6. (\A x : Half(x)' <=> Half(x)) /\ ~Half(d)
  BY <1>4, <1>5, OpenersAre DEF Half, Losetup
<1>7. TypeOK' BY <1>1, <1>2 DEF TypeOK, Losetup, Dev
<1>8. CommandsSane' BY DEF Inv, CommandsSane, Losetup
<1>9. OpenIsConfigured'
  <2> SUFFICES ASSUME NEW x \in Openers \ {Nothing} PROVE loop'[x].region # Nothing
    BY <1>3 DEF OpenIsConfigured
  <2>1. x \in Devs BY <1>1, OpenersAre DEF TypeOK, Entry, Command
  <2> QED BY <2>1, <1>2 DEF Inv, OpenIsConfigured
<1>10. HeldIsOwn'
  <2> SUFFICES ASSUME NEW q \in Procs, cmd[q].held # Nothing, cmd[q].pc \in {"mount", "retry"}
               PROVE  loop'[cmd[q].held].region = cmd[q].want
    BY DEF Inv, HeldIsOwn, Losetup
  <2>1. cmd[q].held \in Devs \ {d} BY <1>1, <1>4, OpenersAre DEF Command
  <2> QED BY <2>1, <1>2 DEF Inv, HeldIsOwn
<1>11. FoundIsWanted'
  <2> SUFFICES ASSUME NEW q \in Procs, cmd[q].pc \in {"mount", "retry"},
                      cmd[q].held = Nothing, q \notin doubt
               PROVE  loop'[cmd[q].dev].region = cmd[q].want /\ ~Half(cmd[q].dev)'
    BY DEF FoundIsWanted, Losetup, Half
  <2>1. loop[cmd[q].dev].region = cmd[q].want /\ ~Half(cmd[q].dev)
    BY DEF Inv, FoundIsWanted
  <2>2. cmd[q].dev \in Devs /\ cmd[q].want \in Regions BY DEF Inv, CommandsSane, Sane
  <2>3. cmd[q].dev # d BY <2>1, <2>2, LoopAssumption DEF Losetup, Regions
  <2>4. ~Half(cmd[q].dev)' BY <2>1 DEF Half, Losetup
  <2> QED BY <2>1, <2>2, <2>3, <2>4, <1>2
<1>12. SureIsComplete'
  <2> SUFFICES ASSUME NEW m \in Mounts, m.sure
               PROVE  loop'[m.dev].region = m.want /\ ~Half(m.dev)'
    BY <1>1 DEF SureIsComplete
  <2>1. m.dev \in Devs \ {d} BY <1>1, <1>4, <1>5, OpenersAre DEF Entry
  <2> QED BY <2>1, <1>2, <1>6 DEF Inv, SureIsComplete
<1>13. GoesByItself' BY <1>2, <1>3, <1>6 DEF Inv, GoesByItself
<1>14. TwinsAreMarked'
  <2>1. \A x \in Devs : Half(x)' /\ x \in {m.dev : m \in Mounts'} \cup lingering'
                        => loop'[x].maker = "raced"
    BY <1>1, <1>2, <1>6 DEF Inv, TwinsAreMarked, Losetup
  <2>2. \A x \in Devs : loop'[x].maker = "mount" /\ ~Half(x)'
           => \A q \in Procs : cmd'[q].pc \in Gap => cmd'[q].want # loop'[x].region
    BY <1>2, <1>6 DEF Inv, TwinsAreMarked, Losetup
  <2> QED BY <2>1, <2>2 DEF TwinsAreMarked
<1>15. OneDevicePerRegion' BY <1>2, <1>6 DEF Inv, OneDevicePerRegion
<1> QED BY <1>7, <1>8, <1>9, <1>10, <1>11, <1>12, <1>13, <1>14, <1>15 DEF Inv

-----------------------------------------------------------------------------
(* Every step *)

LEMMA InitInv == Init => Inv
<1> SUFFICES ASSUME Init PROVE Inv OBVIOUS
<1>1. Mounts = {} BY DEF Init, Mounts
<1>2. \A d : ~Half(d) BY DEF Init, Half, Idle
<1>3. Openers \subseteq {Nothing} BY <1>1 DEF Init, Openers, Idle
<1>4. TypeOK BY DEF Init, TypeOK, Free, Idle, Places
<1>5. CommandsSane BY DEF Init, CommandsSane, Sane, Idle
<1>6. OpenIsConfigured BY <1>3 DEF OpenIsConfigured
<1>7. HeldIsOwn BY DEF Init, HeldIsOwn, Idle
<1>8. FoundIsWanted BY DEF Init, FoundIsWanted, Idle
<1>9. SureIsComplete BY <1>1 DEF SureIsComplete
<1>10. GoesByItself BY DEF Init, GoesByItself, Free
<1>11. TwinsAreMarked BY <1>2 DEF Init, TwinsAreMarked, Free
<1>12. OneDevicePerRegion BY DEF Init, OneDevicePerRegion, Free
<1> QED BY <1>4, <1>5, <1>6, <1>7, <1>8, <1>9, <1>10, <1>11, <1>12 DEF Inv

LEMMA StutterInv == ASSUME Inv, UNCHANGED vars PROVE Inv'
<1>1. /\ UNCHANGED <<loop, stack, lingering, cmd, doubt>>
      /\ Mounts' = Mounts /\ Openers' = Openers /\ \A d : Half(d)' <=> Half(d)
  BY DEF vars, Mounts, Openers, Half
<1>2. TypeOK' /\ CommandsSane' /\ OpenIsConfigured' /\ HeldIsOwn'
  BY <1>1 DEF Inv, TypeOK, CommandsSane, OpenIsConfigured, HeldIsOwn
<1>3. FoundIsWanted' BY <1>1 DEF Inv, FoundIsWanted, Half
<1>4. SureIsComplete' BY <1>1 DEF Inv, SureIsComplete
<1>5. GoesByItself' BY <1>1 DEF Inv, GoesByItself
<1>6. TwinsAreMarked' BY <1>1 DEF Inv, TwinsAreMarked
<1>7. OneDevicePerRegion' BY <1>1 DEF Inv, OneDevicePerRegion
<1> QED BY <1>2, <1>3, <1>4, <1>5, <1>6, <1>7 DEF Inv

\* The commands of p that only look or wait.
LEMMA LookingInv ==
    ASSUME Inv, NEW p \in Procs,
           \/ StartMount(p) \/ Allocate(p) \/ Busy(p) \/ RetryReadOnly(p) \/ UmountFails(p)
           \/ \E d \in Devs : Reuse(p, d) \/ Named(p, d) \/ GetFree(p, d)
           \/ \E t \in Points : StartUmount(p, t)
    PROVE  Inv'
<1>1. /\ cmd \in [Procs -> Command] /\ cmd[p] \in Command /\ Sane(cmd[p])
      /\ stack \in [Points -> Seq(Entry)] /\ Mounts \subseteq Entry /\ doubt \subseteq Procs
  <2>1. TypeOK BY DEF Inv
  <2>2. cmd \in [Procs -> Command] BY <2>1 DEF TypeOK, Command
  <2> QED BY <2>1, <2>2, MountsType DEF Inv, CommandsSane, TypeOK, Entry
<1>2. Idle \in Command BY DEF Idle, Command, Places
<1>3. ASSUME StartMount(p) PROVE Inv'
  <2>1. PICK r \in Regions, t \in Points :
           cmd' = [cmd EXCEPT ![p] = [Idle EXCEPT !.pc = "search", !.want = r, !.at = t]]
    BY <1>3 DEF StartMount
  <2> DEFINE c == [Idle EXCEPT !.pc = "search", !.want = r, !.at = t]
  <2>2. c \in Command BY <1>2 DEF Idle, Command, Places
  <2>3. /\ c.pc = "search" /\ c.held = Nothing /\ Sane(c) BY DEF Sane, Idle
  <2>4. cmd[p].pc = "idle" /\ cmd[p].held = Nothing BY <1>1, <1>3 DEF StartMount, Sane
  <2>5. UNCHANGED <<loop, stack, lingering, doubt>> BY <1>3 DEF StartMount
  <2> HIDE DEF c
  <2> QED BY <1>1, <2>1, <2>2, <2>3, <2>4, <2>5, QuietStep DEF c, Gap
<1>4. ASSUME NEW d \in Devs, Reuse(p, d) PROVE Inv'
  <2> DEFINE c == [cmd[p] EXCEPT !.pc = "mount", !.dev = d]
  <2>1. cmd[p].pc = "search" /\ loop[d].region = cmd[p].want /\ cmd[p].held = Nothing
    BY <1>1, <1>4 DEF Reuse, Sane
  <2>2. c \in Command BY <1>1 DEF Command, Places
  <2>3. /\ c.pc = "mount" /\ c.held = Nothing /\ c.dev = d /\ c.want = cmd[p].want /\ Sane(c)
    BY <1>1, <2>1 DEF Sane, Command
  <2>4. cmd' = [cmd EXCEPT ![p] = c] BY <1>1, <1>4 DEF Reuse
  <2>5. /\ UNCHANGED <<loop, stack, lingering>>
        /\ doubt' = IF Half(d) THEN doubt \cup {p} ELSE doubt \ {p}
    BY <1>4 DEF Reuse
  <2>6. doubt' \subseteq Procs /\ \A q \in Procs \ {p} : q \in doubt' <=> q \in doubt
    BY <1>1, <2>5
  <2>7. p \notin doubt' => ~Half(d) BY <2>5
  <2> HIDE DEF c
  <2> QED BY <2>1, <2>2, <2>3, <2>4, <2>5, <2>6, <2>7, QuietStep DEF Gap
<1>5. ASSUME NEW c \in Command, cmd' = [cmd EXCEPT ![p] = c], Sane(c), c.held = Nothing,
             UNCHANGED <<loop, stack, lingering, doubt>>, cmd[p].held = Nothing,
             c.pc \in {"getfree", "attach", "umount", "idle"}, cmd[p].pc # "status",
             c.pc \in {"getfree", "attach"} => c.want = cmd[p].want /\
                (cmd[p].pc \in {"getfree", "attach"} \/ Missed(p))
      PROVE  Inv'
  <2>1. c.pc \in Gap => \/ cmd[p].pc \in Gap /\ c.want = cmd[p].want
                        \/ \A d \in Devs : loop[d].region # c.want
    BY <1>5 DEF Gap, Missed
  <2> QED BY <1>1, <1>5, <2>1, QuietStep
<1>6. ASSUME NEW d \in Devs, Named(p, d) PROVE Inv'
  <2> DEFINE c == [cmd[p] EXCEPT !.pc = "attach", !.dev = d, !.left = 0]
  <2>1. /\ cmd' = [cmd EXCEPT ![p] = c] /\ UNCHANGED <<loop, stack, lingering, doubt>>
        /\ Missed(p) /\ cmd[p].pc = "search" /\ cmd[p].held = Nothing
    BY <1>1, <1>6 DEF Named, Missed, Sane
  <2>2. c \in Command BY <1>1 DEF Command, Places
  <2>3. c.pc = "attach" /\ c.held = Nothing /\ c.want = cmd[p].want /\ Sane(c)
    BY <1>1, <2>1 DEF Sane, Command
  <2> HIDE DEF c
  <2> QED BY <1>5, <2>1, <2>2, <2>3
<1>7. ASSUME Allocate(p) PROVE Inv'
  <2> DEFINE c == [cmd[p] EXCEPT !.pc = "getfree", !.left = MaxTries]
  <2>1. /\ cmd' = [cmd EXCEPT ![p] = c] /\ UNCHANGED <<loop, stack, lingering, doubt>>
        /\ Missed(p) /\ cmd[p].pc = "search" /\ cmd[p].held = Nothing
    BY <1>1, <1>7 DEF Allocate, Missed, Sane
  <2>2. c \in Command BY <1>1, LoopAssumption DEF Command, Places
  <2>3. c.pc = "getfree" /\ c.held = Nothing /\ c.want = cmd[p].want /\ Sane(c)
    BY <1>1, <2>1, LoopAssumption DEF Sane, Command
  <2> HIDE DEF c
  <2> QED BY <1>5, <2>1, <2>2, <2>3
<1>8. ASSUME NEW d \in Devs, GetFree(p, d) PROVE Inv'
  <2> DEFINE c == [cmd[p] EXCEPT !.pc = "attach", !.dev = d, !.left = @ - 1]
  <2>1. /\ cmd' = [cmd EXCEPT ![p] = c] /\ UNCHANGED <<loop, stack, lingering, doubt>>
        /\ cmd[p].pc = "getfree" /\ cmd[p].held = Nothing /\ cmd[p].left > 0
    BY <1>1, <1>8 DEF GetFree, Sane
  <2>2. c \in Command
    <3>1. cmd[p].left - 1 \in Nat BY <1>1, <2>1 DEF Command
    <3> QED BY <3>1, <1>1 DEF Command, Places
  <2>3. c.pc = "attach" /\ c.held = Nothing /\ c.want = cmd[p].want /\ Sane(c)
    BY <1>1, <2>1 DEF Sane, Command
  <2> HIDE DEF c
  <2> QED BY <1>5, <2>1, <2>2, <2>3
<1>9. ASSUME Busy(p) PROVE Inv'
  <2> DEFINE c == [cmd[p] EXCEPT !.pc = "getfree", !.dev = Nothing]
  <2>1. /\ cmd' = [cmd EXCEPT ![p] = c] /\ UNCHANGED <<loop, stack, lingering, doubt>>
        /\ cmd[p].pc = "attach" /\ cmd[p].held = Nothing /\ cmd[p].left > 0
    BY <1>1, <1>9 DEF Busy, Sane
  <2>2. c \in Command BY <1>1 DEF Command, Places
  <2>3. c.pc = "getfree" /\ c.held = Nothing /\ c.want = cmd[p].want /\ Sane(c)
    BY <1>1, <2>1 DEF Sane, Command
  <2> HIDE DEF c
  <2> QED BY <1>5, <2>1, <2>2, <2>3
<1>10. ASSUME RetryReadOnly(p) PROVE Inv'
  <2> DEFINE c == [cmd[p] EXCEPT !.pc = "retry"]
  <2>1. /\ cmd' = [cmd EXCEPT ![p] = c] /\ UNCHANGED <<loop, stack, lingering, doubt>>
        /\ cmd[p].pc = "mount"
    BY <1>1, <1>10 DEF RetryReadOnly
  <2>2. c \in Command BY <1>1 DEF Command, Places
  <2>3. /\ c.pc = "retry" /\ c.held = cmd[p].held /\ c.want = cmd[p].want
        /\ c.dev = cmd[p].dev /\ Sane(c)
    BY <1>1, <2>1 DEF Sane, Command
  <2>4. c.held = Nothing /\ p \notin doubt => loop[c.dev].region = c.want /\ ~Half(c.dev)
    BY <2>1, <2>3 DEF Inv, FoundIsWanted
  <2> HIDE DEF c
  <2> QED BY <1>1, <2>1, <2>2, <2>3, <2>4, QuietStep DEF Gap
<1>11. ASSUME NEW t \in Points, StartUmount(p, t) PROVE Inv'
  <2>1. PICK d \in {Nothing, LoopSource(t)}, n \in {1, Len(stack[t])} :
           cmd' = [cmd EXCEPT ![p] = [Idle EXCEPT !.pc = "umount", !.at = t, !.dev = d,
                                                 !.left = n]]
    BY <1>11 DEF StartUmount
  <2> DEFINE c == [Idle EXCEPT !.pc = "umount", !.at = t, !.dev = d, !.left = n]
  <2>2. stack[t] \in Seq(Entry) /\ stack[t] # <<>> BY <1>1, <1>11 DEF StartUmount
  <2>3. n \in Nat /\ stack[t][1] \in Entry BY <2>2
  <2>4. d \in Devs \cup {Nothing} BY <2>3 DEF LoopSource, Entry
  <2>5. c \in Command BY <2>3, <2>4 DEF Idle, Command, Places
  <2>6. /\ c.pc = "umount" /\ c.held = Nothing /\ Sane(c) BY DEF Sane, Idle
  <2>7. cmd[p].pc = "idle" /\ cmd[p].held = Nothing BY <1>1, <1>11 DEF StartUmount, Sane
  <2>8. UNCHANGED <<loop, stack, lingering, doubt>> BY <1>11 DEF StartUmount
  <2>9. cmd' = [cmd EXCEPT ![p] = c] BY <2>1
  <2> HIDE DEF c
  <2> QED BY <1>5, <2>5, <2>6, <2>7, <2>8, <2>9
<1>12. ASSUME UmountFails(p) PROVE Inv'
  <2>1. cmd[p].pc = "umount" /\ cmd[p].held = Nothing BY <1>1, <1>12 DEF UmountFails, Sane
  <2>2. Idle.pc = "idle" /\ Idle.held = Nothing /\ Sane(Idle) BY DEF Idle, Sane
  <2> QED BY <1>2, <1>5, <1>12, <2>1, <2>2 DEF UmountFails
<1> QED BY <1>3, <1>4, <1>6, <1>7, <1>8, <1>9, <1>10, <1>11, <1>12

\* The steps of p, or of the world, that close or clear something.
LEMMA EndingInv ==
    ASSUME Inv, NEW p \in Procs,
           Mounted(p) \/ Fail(p) \/ Detach(p) \/ Kill(p) \/ \E lazy \in BOOLEAN : Unmount(p, lazy)
    PROVE  Inv'
<1>1. /\ cmd \in [Procs -> Command] /\ cmd[p] \in Command /\ Sane(cmd[p])
      /\ loop \in [Devs -> Dev] /\ stack \in [Points -> Seq(Entry)] /\ Mounts \subseteq Entry
      /\ TypeOK
  <2>1. TypeOK BY DEF Inv
  <2>2. cmd \in [Procs -> Command] BY <2>1 DEF TypeOK, Command
  <2>3. loop \in [Devs -> Dev] BY <2>1 DEF TypeOK, Dev
  <2> QED BY <2>1, <2>2, <2>3, MountsType DEF Inv, CommandsSane, TypeOK, Entry
<1>2. Idle \in Command /\ Sane(Idle) /\ Idle.held = Nothing /\ Idle.pc = "idle"
  BY DEF Idle, Command, Places, Sane
<1>3. After(p) \in Command
  <2>1. CASE cmd[p].left > 1
    <3>1. cmd[p].left - 1 \in Nat BY <1>1, <2>1 DEF Command
    <3>2. [cmd[p] EXCEPT !.pc = "umount", !.left = @ - 1] \in Command
      BY <3>1, <1>1 DEF Command, Places
    <3> QED BY <2>1, <3>2 DEF After
  <2>2. CASE ~(cmd[p].left > 1) BY <2>2, <1>2 DEF After
  <2> QED BY <2>1, <2>2
<1>4. ASSUME NEW d \in Devs
      PROVE  /\ Cleared(d) \in [Devs -> Dev]
             /\ \A e \in Devs : /\ Cleared(d)[e].region = loop[e].region
                                /\ Cleared(d)[e].maker = loop[e].maker
                                /\ e # d => Cleared(d)[e] = loop[e]
             /\ Cleared(d)[d].autoclear = (loop[d].region # Nothing)
  BY <1>1 DEF Cleared, Dev
<1>5. \A d \in Devs : loop[d].autoclear => loop[d].region # Nothing
  <2> SUFFICES ASSUME NEW d \in Devs, loop[d].autoclear PROVE loop[d].region # Nothing
    OBVIOUS
  <2> QED BY LoopAssumption DEF Inv, GoesByItself, OpenIsConfigured
<1>6. \A d \in Devs : cmd[p].held = d => loop[d].region # Nothing
  BY OpenersAre, LoopAssumption DEF Inv, OpenIsConfigured
<1>7. ASSUME NEW c \in Command, cmd' = [cmd EXCEPT ![p] = c], Sane(c), c.held = Nothing,
             c.pc \in {"idle", "umount", "detach"}, UNCHANGED <<stack, lingering>>,
             NEW l \in [Devs -> Dev], Settle(l, p),
             \A d \in Devs : /\ l[d].region = loop[d].region
                             /\ loop[d].autoclear => l[d].autoclear
                             /\ \/ l[d].maker = loop[d].maker
                                \/ /\ l[d].maker = "cut"
                                   /\ cmd[p].pc = "status" /\ cmd[p].held = d,
             cmd[p].pc = "status" => l[cmd[p].held].maker = "cut" \/ l[cmd[p].held].autoclear
      PROVE  Inv'
  <2>1. cmd' \in [Procs -> Command] /\ cmd'[p] = c /\ \A q \in Procs \ {p} : cmd'[q] = cmd[q]
    BY <1>1, <1>7
  <2>2. Mounts' = Mounts BY <1>7 DEF Mounts
  <2>3. c.pc \notin Gap \cup {"mount", "retry"} BY <1>7 DEF Gap
  <2> QED BY <1>1, <1>7, <2>1, <2>2, <2>3, ClosingStep
<1>8. ASSUME Mounted(p) PROVE Inv'
  <2>1. cmd' = [cmd EXCEPT ![p] = Idle] /\ UNCHANGED <<stack, lingering>> /\ Settle(loop, p)
        /\ cmd[p].pc = "mounted"
    BY <1>8 DEF Mounted
  <2> QED BY <1>1, <1>2, <1>7, <2>1
<1>9. ASSUME Fail(p) PROVE Inv'
  <2>1. CASE cmd[p].held = Nothing
    <3>1. cmd[p].pc # "status" BY <2>1, <1>1 DEF Sane
    <3>2. cmd' = [cmd EXCEPT ![p] = Idle] /\ UNCHANGED <<stack, lingering>> /\ Settle(loop, p)
      BY <2>1, <1>9 DEF Fail
    <3> QED BY <1>1, <1>2, <1>7, <3>1, <3>2
  <2>2. CASE cmd[p].held # Nothing
    <3>1. cmd[p].held \in Devs BY <2>2, <1>1 DEF Command
    <3>2. /\ cmd' = [cmd EXCEPT ![p] = Idle] /\ UNCHANGED <<stack, lingering>>
          /\ Settle(Cleared(cmd[p].held), p)
      BY <2>2, <1>9 DEF Fail
    <3>3. \A d \in Devs : loop[d].autoclear => Cleared(cmd[p].held)[d].autoclear
      BY <3>1, <1>4, <1>5
    <3>4. Cleared(cmd[p].held)[cmd[p].held].autoclear BY <3>1, <1>4, <1>6
    <3>5. /\ Cleared(cmd[p].held) \in [Devs -> Dev]
          /\ \A d \in Devs : /\ Cleared(cmd[p].held)[d].region = loop[d].region
                             /\ Cleared(cmd[p].held)[d].maker = loop[d].maker
      BY <3>1, <1>4
    <3> QED BY <1>2, <1>7, <3>2, <3>3, <3>4, <3>5
  <2> QED BY <2>1, <2>2
<1>10. ASSUME Detach(p) PROVE Inv'
  <2>1. /\ cmd' = [cmd EXCEPT ![p] = After(p)] /\ UNCHANGED <<stack, lingering>>
        /\ Settle(Cleared(cmd[p].dev), p) /\ cmd[p].pc = "detach"
    BY <1>10 DEF Detach
  <2>2. cmd[p].dev \in Devs /\ cmd[p].held = Nothing /\ cmd[p].at \in Points
    BY <2>1, <1>1 DEF Sane
  <2>3. After(p).held = Nothing /\ After(p).pc \in {"umount", "idle"} /\ Sane(After(p))
    BY <1>1, <1>2, <2>2 DEF After, Sane, Command
  <2>4. \A d \in Devs : loop[d].autoclear => Cleared(cmd[p].dev)[d].autoclear
    BY <2>2, <1>4, <1>5
  <2>5. /\ Cleared(cmd[p].dev) \in [Devs -> Dev]
        /\ \A d \in Devs : /\ Cleared(cmd[p].dev)[d].region = loop[d].region
                           /\ Cleared(cmd[p].dev)[d].maker = loop[d].maker
    BY <2>2, <1>4
  <2> QED BY <1>3, <1>7, <2>1, <2>3, <2>4, <2>5
<1>11. ASSUME Kill(p) PROVE Inv'
  <2> DEFINE l == [d \in Devs |-> IF cmd[p].pc = "status" /\ cmd[p].held = d
                                  THEN [loop[d] EXCEPT !.maker = "cut"] ELSE loop[d]]
  <2>1. cmd' = [cmd EXCEPT ![p] = Idle] /\ UNCHANGED <<stack, lingering>> /\ Settle(l, p)
    BY <1>11 DEF Kill
  <2>2. l \in [Devs -> Dev]
    <3>1. \A d \in Devs : [loop[d] EXCEPT !.maker = "cut"] \in Dev BY <1>1 DEF Dev
    <3> QED BY <1>1, <3>1
  <2>3. \A d \in Devs : /\ l[d].region = loop[d].region
                        /\ loop[d].autoclear => l[d].autoclear
                        /\ \/ l[d].maker = loop[d].maker
                           \/ /\ l[d].maker = "cut"
                              /\ cmd[p].pc = "status" /\ cmd[p].held = d
    BY <1>1 DEF Dev
  <2>4. cmd[p].pc = "status" => l[cmd[p].held].maker = "cut" BY <1>1 DEF Dev, Sane
  <2> HIDE DEF l
  <2> QED BY <1>2, <1>7, <2>1, <2>2, <2>3, <2>4
<1>12. ASSUME NEW lazy \in BOOLEAN, Unmount(p, lazy) PROVE Inv'
  <2> DEFINE t == cmd[p].at
             c == IF cmd[p].dev = Nothing THEN After(p) ELSE [cmd[p] EXCEPT !.pc = "detach"]
  <2>1. cmd[p].pc = "umount" /\ t \in Points /\ cmd[p].held = Nothing /\ stack[t] # <<>>
    BY <1>1, <1>12 DEF Unmount, Sane
  <2>2. /\ stack' \in [Points -> Seq(Entry)] /\ Mounts' \subseteq Mounts
        /\ stack[t][Len(stack[t])] \in Mounts
    BY <1>1, <1>12, <2>1, Popped DEF Unmount
  <2>3. lingering' \subseteq lingering \cup {m.dev : m \in Mounts}
    BY <1>12, <2>2 DEF Unmount
  <2>4. c \in Command /\ Sane(c) /\ c.held = Nothing /\ c.pc \in {"umount", "detach", "idle"}
    <3>1. CASE cmd[p].dev = Nothing
      BY <3>1, <1>1, <1>2, <1>3, <2>1 DEF After, Sane, Command
    <3>2. CASE cmd[p].dev # Nothing
      BY <3>2, <1>1, <2>1 DEF Sane, Command, Places
    <3> QED BY <3>1, <3>2
  <2>5. cmd' = [cmd EXCEPT ![p] = c] /\ Settle(loop, p) BY <1>12 DEF Unmount
  <2> HIDE DEF c
  <2>6. cmd' \in [Procs -> Command] /\ cmd'[p] = c /\ \A q \in Procs \ {p} : cmd'[q] = cmd[q]
    BY <1>1, <2>4, <2>5
  <2>7. c.pc \notin Gap \cup {"mount", "retry"} BY <2>4 DEF Gap
  <2> QED BY <1>1, <2>1, <2>2, <2>3, <2>4, <2>5, <2>6, <2>7, ClosingStep
<1> QED BY <1>8, <1>9, <1>10, <1>11, <1>12

LEMMA ConfiguringInv ==
    ASSUME Inv, NEW p \in Procs, Configure(p) \/ SetFd(p)
    PROVE  Inv'
<1> DEFINE d == cmd[p].dev
<1>1. cmd[p].pc = "attach" /\ d \in Devs /\ cmd[p].want \in Regions /\ loop[d].region = Nothing
  BY DEF Configure, SetFd, Inv, CommandsSane, Sane
<1>2. Maker(p) \in {"mount", "raced"} BY DEF Maker
<1>3. CASE Configure(p)
  <2> DEFINE new == [region |-> cmd[p].want, autoclear |-> TRUE, maker |-> Maker(p)]
  <2>1. new \in Dev BY <1>1, <1>2 DEF Dev
  <2>2. /\ cmd' = [cmd EXCEPT ![p].pc = "mount", ![p].held = d, ![p].left = 0]
        /\ UNCHANGED <<stack, lingering>> /\ Settle([loop EXCEPT ![d] = new], p)
    BY <1>3 DEF Configure
  <2>3. new.region = cmd[p].want /\ new.autoclear /\ new.maker = Maker(p) OBVIOUS
  <2> HIDE DEF new
  <2> QED BY <1>1, <1>2, <2>1, <2>2, <2>3, TakingStep
<1>4. CASE SetFd(p)
  <2> DEFINE new == [region |-> <<cmd[p].want[1], 0>>, autoclear |-> FALSE, maker |-> "mount"]
  <2>1. <<cmd[p].want[1], 0>> \in Regions BY <1>1, LoopAssumption DEF Regions
  <2>2. new \in Dev BY <2>1 DEF Dev
  <2>3. /\ cmd' = [cmd EXCEPT ![p].pc = "status", ![p].held = d, ![p].left = 0]
        /\ UNCHANGED <<stack, lingering>> /\ Settle([loop EXCEPT ![d] = new], p)
    BY <1>4 DEF SetFd
  <2>4. new.region \in Regions /\ new.maker = "mount" BY <2>1
  <2> HIDE DEF new
  <2> QED BY <1>1, <2>2, <2>3, <2>4, TakingStep
<1> QED BY <1>3, <1>4

LEMMA WorldInv ==
    ASSUME Inv, NEW d \in Devs, LosetupDetach(d) \/ LazyEnds(d)
    PROVE  Inv'
<1>1. /\ TypeOK /\ cmd \in [Procs -> Command] /\ loop \in [Devs -> Dev]
      /\ stack \in [Points -> Seq(Entry)]
  <2>1. TypeOK BY DEF Inv
  <2>2. cmd \in [Procs -> Command] BY <2>1 DEF TypeOK, Command
  <2>3. loop \in [Devs -> Dev] BY <2>1 DEF TypeOK, Dev
  <2> QED BY <2>1, <2>2, <2>3 DEF TypeOK, Entry
<1>2. Nothing \notin Procs BY LoopAssumption
<1>3. \A e \in Devs : loop[e].autoclear => loop[e].region # Nothing
  <2> SUFFICES ASSUME NEW e \in Devs, loop[e].autoclear PROVE loop[e].region # Nothing
    OBVIOUS
  <2> QED BY LoopAssumption DEF Inv, GoesByItself, OpenIsConfigured
<1>4. /\ Cleared(d) \in [Devs -> Dev]
      /\ \A e \in Devs : /\ Cleared(d)[e].region = loop[e].region
                         /\ Cleared(d)[e].maker = loop[e].maker
                         /\ loop[e].autoclear => Cleared(d)[e].autoclear
  BY <1>1, <1>3 DEF Cleared, Dev
<1>5. CASE LosetupDetach(d)
  <2>1. UNCHANGED <<stack, lingering, cmd>> /\ Settle(Cleared(d), Nothing)
    BY <1>5 DEF LosetupDetach
  <2>2. Mounts' = Mounts BY <2>1 DEF Mounts
  <2> QED BY <1>1, <1>2, <1>4, <2>1, <2>2, ClosingStep
<1>6. CASE LazyEnds(d)
  <2>1. UNCHANGED <<stack, cmd>> /\ lingering' \subseteq lingering /\ Settle(loop, Nothing)
    BY <1>6 DEF LazyEnds
  <2>2. Mounts' = Mounts BY <2>1 DEF Mounts
  <2> QED BY <1>1, <1>2, <2>1, <2>2, ClosingStep
<1> QED BY <1>5, <1>6

THEOREM InvIsInvariant == Spec => []Inv
<1>1. ASSUME Inv, [Next]_vars PROVE Inv'
  <2>1. ASSUME NEW p \in Procs, MountStep(p) PROVE Inv'
    <3>1. CASE Mounted(p) \/ Fail(p) BY <1>1, <3>1, EndingInv
    <3>2. CASE Configure(p) \/ SetFd(p) BY <1>1, <3>2, ConfiguringInv
    <3>3. CASE SetStatus(p) BY <1>1, <3>3, CompletingStep
    <3>4. CASE Mount(p) BY <1>1, <3>4, MountingStep
    <3>5. CASE \/ StartMount(p) \/ Allocate(p) \/ Busy(p) \/ RetryReadOnly(p)
               \/ \E d \in Devs : Reuse(p, d) \/ Named(p, d) \/ GetFree(p, d)
      BY <1>1, <3>5, LookingInv
    <3> QED BY <2>1, <3>1, <3>2, <3>3, <3>4, <3>5 DEF MountStep
  <2>2. ASSUME NEW p \in Procs, UmountStep(p) PROVE Inv'
    <3>1. CASE Detach(p) \/ \E lazy \in BOOLEAN : Unmount(p, lazy)
      BY <1>1, <3>1, EndingInv
    <3>2. CASE UmountFails(p) \/ \E t \in Points : StartUmount(p, t)
      BY <1>1, <3>2, LookingInv
    <3> QED BY <2>2, <3>1, <3>2 DEF UmountStep
  <2>3. ASSUME NEW p \in Procs, Kill(p) PROVE Inv' BY <1>1, <2>3, EndingInv
  <2>4. ASSUME NEW d \in Devs, LosetupDetach(d) \/ LazyEnds(d) PROVE Inv'
    BY <1>1, <2>4, WorldInv
  <2>5. ASSUME NEW d \in Devs, NEW r \in Regions, Losetup(d, r) PROVE Inv'
    BY <1>1, <2>5, LosetupStep
  <2>6. CASE UNCHANGED vars BY <1>1, <2>6, StutterInv
  <2> QED BY <1>1, <2>1, <2>2, <2>3, <2>4, <2>5, <2>6 DEF Next, World
<1> QED BY <1>1, InitInv, PTL DEF Spec

-----------------------------------------------------------------------------
(* The theorems *)

\* Devices, mounts and commands stay within their types (TypeOK).
THEOREM TypeCorrect == Spec => []TypeOK
<1>1. Inv => TypeOK BY DEF Inv
<1> QED BY <1>1, InvIsInvariant, PTL

\* A mount shows what its command was asked for, as long as it is there: the
\* device is the command's own, or one that did not change until it was mounted.
THEOREM MountsShowTheirRegion == Spec => []ShowsWhatWasAsked
<1>1. Inv => ShowsWhatWasAsked BY DEF Inv, SureIsComplete, ShowsWhatWasAsked
<1> QED BY <1>1, InvIsInvariant, PTL

\* However commands end, no device that mount configured is left without a
\* user, but for a kill between the two calls of attach_legacy.
THEOREM DevicesDoNotLeak == Spec => []NothingLeaks
<1>1. Inv => NothingLeaks
  <2> SUFFICES ASSUME Inv, NEW d \in Devs, loop[d].maker \in {"mount", "raced"}
               PROVE  d \in Openers
    BY DEF NothingLeaks
  <2>1. CASE loop[d].autoclear BY <2>1 DEF Inv, GoesByItself
  <2>2. CASE Half(d) BY <2>2, OpenersAre DEF Half
  <2> QED BY <2>1, <2>2 DEF Inv, GoesByItself
<1> QED BY <1>1, InvIsInvariant, PTL

\* Mount does not give one region two devices, unless commands overlap.
THEOREM RegionsHaveOneDevice == Spec => []OneDevicePerRegion
<1>1. Inv => OneDevicePerRegion BY DEF Inv
<1> QED BY <1>1, InvIsInvariant, PTL
-----------------------------------------------------------------------------
(* The way down *)

\* The steps that a command can still make: the tries that are left count
\* twice, for GET_FREE and for the attempt, and so do the mounts of -R.
StepsLeft(c) ==
    IF c.pc = "search" THEN 5 + 2 * MaxTries
    ELSE IF c.pc = "attach" THEN 5 + 2 * c.left
    ELSE IF c.pc = "getfree" THEN 4 + 2 * c.left
    ELSE IF c.pc = "umount" THEN 2 + 2 * c.left
    ELSE IF c.pc = "detach" THEN 1 + 2 * c.left
    ELSE IF c.pc = "status" THEN 4
    ELSE IF c.pc = "mount" THEN 3
    ELSE IF c.pc = "retry" THEN 2
    ELSE IF c.pc = "mounted" THEN 1
    ELSE 0

\* A step of a running command takes it down, and no other step takes it up.
GoesDown ==
    \A p \in Procs : cmd[p].pc # "idle" =>
        /\ MountStep(p) \/ UmountStep(p) => StepsLeft(cmd'[p]) < StepsLeft(cmd[p])
        /\ StepsLeft(cmd'[p]) <= StepsLeft(cmd[p])

\* How far down it is: a mount never has more tries left than attach_auto
\* makes, and only an idle command has nothing left.
MountIsShort ==
    \A p \in Procs :
        /\ StepsLeft(cmd[p]) = 0 <=> cmd[p].pc = "idle"
        /\ cmd[p].pc \notin {"umount", "detach"} => StepsLeft(cmd[p]) <= 5 + 2 * MaxTries

LEMMA StepsLeftType ==
    ASSUME NEW c \in Command
    PROVE  StepsLeft(c) \in Nat /\ (StepsLeft(c) = 0 <=> c.pc = "idle")
<1>1. c.pc \in Places /\ c.left \in Nat /\ MaxTries \in Nat \ {0} BY LoopAssumption DEF Command
<1> QED BY <1>1 DEF StepsLeft, Places

\* Only the command that makes a step is changed by it.
LEMMA OthersStand ==
    ASSUME TypeOK, NEW p \in Procs, MountStep(p) \/ UmountStep(p) \/ Kill(p), NEW q \in Procs \ {p}
    PROVE  cmd'[q] = cmd[q]
<1>1. cmd \in [Procs -> Command] BY DEF TypeOK, Command
<1>2. CASE MountStep(p)
  BY <1>1, <1>2 DEF MountStep, StartMount, Allocate, Busy, Configure, SetFd, SetStatus, Mount,
     RetryReadOnly, Mounted, Fail, Reuse, Named, GetFree
<1>3. CASE UmountStep(p)
  BY <1>1, <1>3 DEF UmountStep, UmountFails, Detach, StartUmount, Unmount
<1>4. CASE Kill(p) BY <1>1, <1>4 DEF Kill
<1> QED BY <1>2, <1>3, <1>4

LEMMA MountGoesDown ==
    ASSUME TypeOK, NEW p \in Procs, MountStep(p), cmd[p].pc # "idle"
    PROVE  StepsLeft(cmd'[p]) < StepsLeft(cmd[p])
<1>1. cmd \in [Procs -> Command] /\ cmd[p] \in Command BY DEF TypeOK, Command
<1>2. cmd[p].left \in Nat /\ MaxTries \in Nat \ {0} BY <1>1, LoopAssumption DEF Command
<1>3. CASE Allocate(p)
  <2>1. cmd[p].pc = "search" /\ cmd'[p].pc = "getfree" /\ cmd'[p].left = MaxTries
    BY <1>1, <1>3 DEF Allocate, Missed, Command
  <2> QED BY <1>2, <2>1 DEF StepsLeft
<1>4. CASE Busy(p)
  <2>1. cmd[p].pc = "attach" /\ cmd'[p].pc = "getfree" /\ cmd'[p].left = cmd[p].left
    BY <1>1, <1>4 DEF Busy, Command
  <2> QED BY <1>2, <2>1 DEF StepsLeft
<1>5. CASE Configure(p) \/ SetFd(p)
  <2>1. cmd[p].pc = "attach" /\ cmd'[p].pc \in {"mount", "status"}
    BY <1>1, <1>5 DEF Configure, SetFd, Command
  <2> QED BY <1>2, <2>1 DEF StepsLeft
<1>6. CASE SetStatus(p) \/ RetryReadOnly(p)
  <2>1. \/ cmd[p].pc = "status" /\ cmd'[p].pc = "mount"
        \/ cmd[p].pc = "mount" /\ cmd'[p].pc = "retry"
    BY <1>1, <1>6 DEF SetStatus, RetryReadOnly, Command
  <2> QED BY <2>1 DEF StepsLeft
<1>7. CASE Mount(p)
  <2>1. cmd[p].pc \in {"mount", "retry"} /\ cmd'[p].pc = "mounted"
    BY <1>1, <1>7 DEF Mount, Idle
  <2> QED BY <2>1 DEF StepsLeft
<1>8. CASE Mounted(p) \/ Fail(p)
  <2>1. StepsLeft(cmd'[p]) = 0 BY <1>1, <1>8 DEF Mounted, Fail, Idle, StepsLeft
  <2> QED BY <1>1, <2>1, StepsLeftType
<1>9. ASSUME NEW d \in Devs, Reuse(p, d) \/ Named(p, d) PROVE StepsLeft(cmd'[p]) < StepsLeft(cmd[p])
  <2>1. /\ cmd[p].pc = "search"
        /\ \/ cmd'[p].pc = "mount"
           \/ cmd'[p].pc = "attach" /\ cmd'[p].left = 0
    BY <1>1, <1>9 DEF Reuse, Named, Missed, Command
  <2> QED BY <1>2, <2>1 DEF StepsLeft
<1>10. ASSUME NEW d \in Devs, GetFree(p, d) PROVE StepsLeft(cmd'[p]) < StepsLeft(cmd[p])
  <2>1. cmd[p].pc = "getfree" /\ cmd'[p].pc = "attach" /\ cmd'[p].left = cmd[p].left - 1
    BY <1>1, <1>10 DEF GetFree, Command
  <2> QED BY <1>2, <2>1 DEF StepsLeft
<1>11. ~StartMount(p) BY DEF StartMount
<1> QED
  BY <1>3, <1>4, <1>5, <1>6, <1>7, <1>8, <1>9, <1>10, <1>11 DEF MountStep

LEMMA UmountGoesDown ==
    ASSUME TypeOK, NEW p \in Procs, UmountStep(p), cmd[p].pc # "idle"
    PROVE  StepsLeft(cmd'[p]) < StepsLeft(cmd[p])
<1>1. cmd \in [Procs -> Command] /\ cmd[p] \in Command BY DEF TypeOK, Command
<1>2. cmd[p].left \in Nat BY <1>1 DEF Command
<1>3. /\ StepsLeft(After(p)) <= 2 * cmd[p].left
      /\ cmd[p].pc = "umount" => StepsLeft(cmd[p]) = 2 + 2 * cmd[p].left
      /\ cmd[p].pc = "detach" => StepsLeft(cmd[p]) = 1 + 2 * cmd[p].left
  <2>1. CASE cmd[p].left > 1
    <3>1. After(p).pc = "umount" /\ After(p).left = cmd[p].left - 1
      BY <1>1, <2>1 DEF After, Command
    <3> QED BY <1>2, <3>1 DEF StepsLeft
  <2>2. CASE ~(cmd[p].left > 1) BY <1>2, <2>2 DEF After, Idle, StepsLeft
  <2> QED BY <2>1, <2>2
<1>4. StepsLeft(After(p)) \in Nat
  <2>1. CASE cmd[p].left > 1
    <3>1. After(p).pc = "umount" /\ After(p).left = cmd[p].left - 1
      BY <1>1, <2>1 DEF After, Command
    <3> QED BY <1>2, <2>1, <3>1 DEF StepsLeft
  <2>2. CASE ~(cmd[p].left > 1) BY <1>2, <2>2 DEF After, Idle, StepsLeft
  <2> QED BY <2>1, <2>2
<1>5. CASE UmountFails(p)
  <2>1. StepsLeft(cmd'[p]) = 0 BY <1>1, <1>5 DEF UmountFails, Idle, StepsLeft
  <2> QED BY <1>1, <2>1, StepsLeftType
<1>6. CASE Detach(p)
  <2>1. cmd[p].pc = "detach" /\ cmd'[p] = After(p) BY <1>1, <1>6 DEF Detach
  <2> QED BY <1>2, <1>3, <1>4, <2>1
<1>7. ASSUME NEW lazy \in BOOLEAN, Unmount(p, lazy) PROVE StepsLeft(cmd'[p]) < StepsLeft(cmd[p])
  <2>1. /\ cmd[p].pc = "umount"
        /\ \/ cmd'[p] = After(p)
           \/ cmd'[p].pc = "detach" /\ cmd'[p].left = cmd[p].left
    BY <1>1, <1>7 DEF Unmount, Command
  <2>2. CASE cmd'[p] = After(p) BY <1>2, <1>3, <1>4, <2>1, <2>2
  <2>3. CASE cmd'[p].pc = "detach" /\ cmd'[p].left = cmd[p].left
    BY <1>2, <2>1, <2>3 DEF StepsLeft
  <2> QED BY <2>1, <2>2, <2>3
<1>8. ~\E t \in Points : StartUmount(p, t) BY DEF StartUmount
<1> QED BY <1>5, <1>6, <1>7, <1>8 DEF UmountStep

LEMMA NextGoesDown == ASSUME TypeOK, TypeOK', [Next]_vars PROVE [GoesDown]_vars
<1> SUFFICES ASSUME Next, NEW p \in Procs, cmd[p].pc # "idle"
             PROVE  /\ MountStep(p) \/ UmountStep(p) => StepsLeft(cmd'[p]) < StepsLeft(cmd[p])
                    /\ StepsLeft(cmd'[p]) <= StepsLeft(cmd[p])
  BY DEF GoesDown
<1>1. MountStep(p) \/ UmountStep(p) => StepsLeft(cmd'[p]) < StepsLeft(cmd[p])
  BY MountGoesDown, UmountGoesDown
<1>2. cmd[p] \in Command /\ StepsLeft(cmd[p]) \in Nat BY StepsLeftType DEF TypeOK, Command
<1>3. ASSUME NEW q \in Procs, MountStep(q) \/ UmountStep(q) \/ Kill(q), q # p
      PROVE  StepsLeft(cmd'[p]) <= StepsLeft(cmd[p])
  BY <1>2, <1>3, OthersStand
<1>4. ASSUME Kill(p) PROVE StepsLeft(cmd'[p]) <= StepsLeft(cmd[p])
  <2>1. StepsLeft(cmd'[p]) = 0 BY <1>4 DEF Kill, Idle, StepsLeft, TypeOK
  <2> QED BY <1>2, <2>1
<1>5. ASSUME NEW d \in Devs, LosetupDetach(d) \/ LazyEnds(d) \/ \E r \in Regions : Losetup(d, r)
      PROVE  StepsLeft(cmd'[p]) <= StepsLeft(cmd[p])
  <2>1. cmd' = cmd BY <1>5 DEF LosetupDetach, LazyEnds, Losetup
  <2> QED BY <1>2, <2>1
<1>6. ASSUME MountStep(p) \/ UmountStep(p) PROVE StepsLeft(cmd'[p]) <= StepsLeft(cmd[p])
  <2>1. StepsLeft(cmd'[p]) < StepsLeft(cmd[p]) BY <1>1, <1>6
  <2>2. cmd'[p] \in Command BY DEF TypeOK, Command
  <2>3. StepsLeft(cmd'[p]) \in Nat BY <2>2, StepsLeftType
  <2> QED BY <1>2, <2>1, <2>3
<1> QED BY <1>1, <1>3, <1>4, <1>5, <1>6 DEF Next, World

\* attach_auto makes no more tries than MAX_GET_FREE_RETRIES.
TriesAreCounted ==
    \A p \in Procs : cmd[p].pc \in {"getfree", "attach"} => cmd[p].left <= MaxTries

LEMMA NextTries == ASSUME TypeOK, TriesAreCounted, [Next]_vars PROVE TriesAreCounted'
<1> SUFFICES ASSUME NEW p \in Procs, cmd'[p].pc \in {"getfree", "attach"}
             PROVE  cmd'[p].left <= MaxTries
  BY DEF TriesAreCounted
<1>1. cmd \in [Procs -> Command] BY DEF TypeOK, Command
<1>2. cmd[p].left \in Nat /\ MaxTries \in Nat \ {0} BY <1>1, LoopAssumption DEF Command
<1>3. ASSUME cmd'[p] = cmd[p] PROVE cmd'[p].left <= MaxTries BY <1>3 DEF TriesAreCounted
<1>4. ASSUME MountStep(p) PROVE cmd'[p].left <= MaxTries
  <2>1. CASE Allocate(p)
    <3>1. cmd'[p].left = MaxTries BY <1>1, <2>1 DEF Allocate, Command
    <3> QED BY <1>2, <3>1
  <2>2. CASE Busy(p)
    <3>1. cmd[p].pc = "attach" /\ cmd'[p].left = cmd[p].left
      BY <1>1, <2>2 DEF Busy, Command
    <3> QED BY <1>2, <3>1 DEF TriesAreCounted
  <2>3. ASSUME NEW d \in Devs, GetFree(p, d) PROVE cmd'[p].left <= MaxTries
    <3>1. cmd[p].pc = "getfree" /\ cmd'[p].left = cmd[p].left - 1
      BY <1>1, <2>3 DEF GetFree, Command
    <3> QED BY <1>2, <3>1 DEF TriesAreCounted
  <2>4. ASSUME NEW d \in Devs, Named(p, d) PROVE cmd'[p].left <= MaxTries
    <3>1. cmd'[p].left = 0 BY <1>1, <2>4 DEF Named, Command
    <3> QED BY <1>2, <3>1
  <2>5. ~StartMount(p) /\ ~Mount(p) /\ ~Mounted(p) /\ ~Fail(p)
    <3>1. ~StartMount(p) BY <1>1 DEF StartMount, Idle
    <3>2. ~Mount(p) BY <1>1 DEF Mount, Idle
    <3>3. ~Mounted(p) BY <1>1 DEF Mounted, Idle
    <3>4. ~Fail(p) BY <1>1 DEF Fail, Idle
    <3> QED BY <3>1, <3>2, <3>3, <3>4
  <2>6. ~Configure(p) /\ ~SetFd(p) /\ ~SetStatus(p) /\ ~RetryReadOnly(p)
    BY <1>1 DEF Configure, SetFd, SetStatus, RetryReadOnly, Command
  <2>7. \A d \in Devs : ~Reuse(p, d) BY <1>1 DEF Reuse, Command
  <2> QED BY <1>4, <2>1, <2>2, <2>3, <2>4, <2>5, <2>6, <2>7 DEF MountStep
<1>5. ~UmountStep(p) /\ ~Kill(p)
  <2>1. After(p).pc \in {"umount", "idle"}
    <3>1. [cmd[p] EXCEPT !.pc = "umount", !.left = @ - 1].pc = "umount" BY <1>1 DEF Command
    <3> QED BY <3>1 DEF After, Idle
  <2>2. ~UmountFails(p) /\ ~Kill(p) BY <1>1 DEF UmountFails, Kill, Idle
  <2>3. ~Detach(p) BY <1>1, <2>1 DEF Detach
  <2>4. \A t \in Points : ~StartUmount(p, t) BY <1>1 DEF StartUmount, Idle
  <2>5. \A lazy \in BOOLEAN : ~Unmount(p, lazy) BY <1>1, <2>1 DEF Unmount, Command
  <2> QED BY <2>2, <2>3, <2>4, <2>5 DEF UmountStep
<1>6. ASSUME NEW q \in Procs, MountStep(q) \/ UmountStep(q) \/ Kill(q), q # p
      PROVE  cmd'[p].left <= MaxTries
  BY <1>3, <1>6, OthersStand
<1>7. ASSUME NEW d \in Devs, LosetupDetach(d) \/ LazyEnds(d) \/ \E r \in Regions : Losetup(d, r)
      PROVE  cmd'[p].left <= MaxTries
  BY <1>3, <1>7 DEF LosetupDetach, LazyEnds, Losetup
<1>8. CASE UNCHANGED vars BY <1>3, <1>8 DEF vars
<1> QED BY <1>4, <1>5, <1>6, <1>7, <1>8 DEF Next, World

\* A command of mount or umount that has begun comes nearer to its end with
\* every step of its own, and no other command, kill, losetup or lazy unmount
\* sends it back: GET_FREE and the attempt that finds its device taken cannot
\* go on for ever (attach_auto), nor can the unmounts of -R.
THEOREM CommandsGoDown == Spec => [][GoesDown]_vars
<1>1. TypeOK /\ TypeOK' /\ [Next]_vars => [GoesDown]_vars BY NextGoesDown
<1> QED BY <1>1, TypeCorrect, PTL DEF Spec

\* A mount is over after at most 5 + 2 * MAX_GET_FREE_RETRIES steps of its own,
\* however often other commands take the device that GET_FREE has named.
THEOREM MountsAreShort == Spec => []MountIsShort
<1>1. Init => TriesAreCounted
  <2>1. Idle.pc = "idle" BY DEF Idle
  <2> QED BY <2>1 DEF Init, TriesAreCounted
<1>2. TypeOK /\ TriesAreCounted /\ [Next]_vars => TriesAreCounted' BY NextTries
<1>3. TypeOK /\ TriesAreCounted => MountIsShort
  <2> SUFFICES ASSUME TypeOK, TriesAreCounted, NEW p \in Procs
               PROVE  /\ StepsLeft(cmd[p]) = 0 <=> cmd[p].pc = "idle"
                      /\ cmd[p].pc \notin {"umount", "detach"}
                            => StepsLeft(cmd[p]) <= 5 + 2 * MaxTries
    BY DEF MountIsShort
  <2>1. cmd[p] \in Command BY DEF TypeOK, Command
  <2>2. cmd[p].left \in Nat /\ MaxTries \in Nat \ {0} BY <2>1, LoopAssumption DEF Command
  <2>3. cmd[p].pc \in {"getfree", "attach"} => 2 * cmd[p].left <= 2 * MaxTries
    BY <2>2 DEF TriesAreCounted
  <2> QED BY <2>1, <2>2, <2>3, StepsLeftType DEF StepsLeft
<1> QED BY <1>1, <1>2, <1>3, TypeCorrect, PTL DEF Spec
=============================================================================
