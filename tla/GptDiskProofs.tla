--------------------------- MODULE GptDiskProofs ----------------------------
(***************************************************************************)
(* GptDisk for any number of processes, tables and crashes: its types, and *)
(* that the disk implements TableStore.                                    *)
(***************************************************************************)
EXTENDS GptDisk, TLAPS

-----------------------------------------------------------------------------
(* The inductive invariant *)

\* A header in an image of the disk is one that some command planned.
HeadersPlanned ==
    \A d \in {cache, media} : d["pHdr"] # NoHeader => d["pHdr"] \in planned

\* The medium is never ahead of the cache in a way that could show as blank.
CacheNotBlanker ==
    /\ cache["mbr"] # "protective" => media["mbr"] = cache["mbr"]
    /\ cache["pHdr"] = NoHeader => media["pHdr"] = NoHeader

Inv == TypeOK /\ HeadersPlanned /\ CacheNotBlanker

USE DEF Regions, Arrays

LEMMA WrittenImage ==
    ASSUME NEW t \in Table PROVE Image(Written(t)) /\ Written(t)["pHdr"] = t
BY DEF Image, Written, Table

LEMMA FoundTable ==
    ASSUME NEW d, Image(d), Probe(d) \in Table
    PROVE  d["pHdr"] # NoHeader /\ Probe(d) = d["pHdr"]
<1> USE ValueAssumption DEF Image, Probe, Found, CrcMatches
<1>1. d["mbr"] \in {"none", "dos", "protective"}
  OBVIOUS
<1>2. ~(d["pHdr"] = NoHeader)
  BY <1>1
<1>3. d["pEnt"] = d["pHdr"].parts
  BY <1>2
<1>4. d["pHdr"] \in Table
  BY <1>2
<1>5. Probe(d) = [guid |-> d["pHdr"].guid, parts |-> d["pHdr"].parts]
  BY <1>2, <1>3
<1> QED
  BY <1>2, <1>4, <1>5 DEF Table

LEMMA ImageExcept ==
    ASSUME NEW d, NEW e, Image(d), Image(e), NEW r \in Regions
    PROVE  Image([d EXCEPT ![r] = e[r]])
BY DEF Image

LEMMA ImageTorn ==
    ASSUME NEW d, Image(d), NEW r \in Arrays PROVE Image([d EXCEPT ![r] = Torn])
BY DEF Image

LEMMA KernelViewType ==
    ASSUME NEW d, Image(d) PROVE KernelView(d) \in SUBSET Parts
BY DEF Image, KernelView, Table

LEMMA AbandonImage ==
    ASSUME TypeOK, NEW p \in Procs, Abandon(p)
    PROVE  /\ Image(cache')
           /\ cache'["mbr"] = cache["mbr"] /\ cache'["pHdr"] = cache["pHdr"]
           /\ acked' \in {acked, Nothing}
<1>1. CASE UNCHANGED <<cache, acked>>
  BY <1>1 DEF TypeOK
<1>2. CASE ~UNCHANGED <<cache, acked>>
  <2> DEFINE r == WriteOrder[step[p]]
  <2>1. r \in Arrays /\ cache' = [cache EXCEPT ![r] = Torn] /\ acked' = Nothing
    BY <1>2 DEF Abandon
  <2> HIDE DEF r
  <2>2. Image(cache')
    BY <2>1, ImageTorn DEF TypeOK
  <2>3. cache'["mbr"] = cache["mbr"] /\ cache'["pHdr"] = cache["pHdr"]
    BY <2>1 DEF TypeOK, Image
  <2> QED
    BY <2>1, <2>2, <2>3
<1> QED
  BY <1>1, <1>2

LEMMA FinishType ==
    ASSUME TypeOK, NEW p \in Procs, Finish(p)
    PROVE  /\ pc' \in [Procs -> {"off", "header", "entries", "write", "sync", "reread"}]
           /\ cmd' \in [Procs -> [verb : Verbs \cup {Nothing}, force : BOOLEAN]]
           /\ seen' \in [Procs -> [mbr : {"none", "dos", "protective"},
                                   hdr : Table \cup {NoHeader}, again : BOOLEAN]]
           /\ plan' \in [Procs -> Table \cup {Nothing}]
           /\ \A q \in Procs : pc'[q] \in {"write", "sync", "reread"} => plan'[q] \in planned
           /\ step' \in [Procs -> 1 .. Len(WriteOrder) + 1]
           /\ \A q \in Procs : pc'[q] \in {"sync", "reread"} \/ step'[q] <= Len(WriteOrder)
           /\ waited' \in [Procs -> Nat] /\ wait' \in [Procs -> Nat \ {0}]
           /\ alone' \in [Procs -> BOOLEAN]
<1>1. 1 \in 1 .. Len(WriteOrder) + 1
  BY DEF WriteOrder
<1>2. pc' = [pc EXCEPT ![p] = "off"] /\ plan' = [plan EXCEPT ![p] = Nothing]
      /\ step' = [step EXCEPT ![p] = 1]
  BY DEF Finish
<1>3. \A q \in Procs : pc'[q] \in {"write", "sync", "reread"} =>
                          pc'[q] = pc[q] /\ plan'[q] = plan[q] /\ step'[q] = step[q]
  BY <1>2 DEF TypeOK
<1>4. \A q \in Procs : pc'[q] \in {"write", "sync", "reread"} => plan'[q] \in planned
  BY <1>3 DEF TypeOK
<1>5. \A q \in Procs : pc'[q] \in {"sync", "reread"} \/ step'[q] <= Len(WriteOrder)
  BY <1>2 DEF TypeOK, WriteOrder
<1>6. pc' \in [Procs -> {"off", "header", "entries", "write", "sync", "reread"}]
      /\ plan' \in [Procs -> Table \cup {Nothing}]
      /\ step' \in [Procs -> 1 .. Len(WriteOrder) + 1]
  BY <1>1, <1>2 DEF TypeOK
<1>7. cmd' \in [Procs -> [verb : Verbs \cup {Nothing}, force : BOOLEAN]]
  BY DEF Finish, TypeOK, NoCommand
<1>8. seen' \in [Procs -> [mbr : {"none", "dos", "protective"},
                           hdr : Table \cup {NoHeader}, again : BOOLEAN]]
  BY DEF Finish, TypeOK, NothingSeen
<1>9. waited' \in [Procs -> Nat] /\ wait' \in [Procs -> Nat \ {0}]
      /\ alone' \in [Procs -> BOOLEAN]
  BY WaitAssumption DEF Finish, TypeOK
<1> QED
  BY <1>4, <1>5, <1>6, <1>7, <1>8, <1>9

LEMMA ReportType ==
    ASSUME TypeOK, NEW p \in Procs, NEW visible \in BOOLEAN,
           Report(p, visible), plan[p] \in Table
    PROVE  /\ acked' \in [table : Table, visible : BOOLEAN] \cup {Nothing}
           /\ added' \in SUBSET Parts
BY DEF Report, TypeOK, Table

-----------------------------------------------------------------------------
(* Type correctness *)

LEMMA InitType == Init => TypeOK
<1> SUFFICES ASSUME Init PROVE TypeOK
  OBVIOUS
<1>1. Image(cache) /\ planned \in SUBSET Table
  <2>1. ASSUME NEW t \in FirstTables, cache = Written(t), planned = {t}
        PROVE  Image(cache) /\ planned \in SUBSET Table
    BY <2>1, WrittenImage, ValueAssumption
  <2>2. ASSUME NEW m \in {"none", "dos"}, cache = Untouched(m), planned = {}
        PROVE  Image(cache) /\ planned \in SUBSET Table
    BY <2>2 DEF Image, Untouched
  <2> QED
    BY <2>1, <2>2 DEF Init
<1>2. Image(media) /\ kernel \in SUBSET Parts
  BY <1>1, KernelViewType DEF Init
<1>3. /\ step \in [Procs -> 1 .. Len(WriteOrder) + 1]
      /\ \A p \in Procs : step[p] <= Len(WriteOrder)
  BY DEF Init, WriteOrder
<1>4. cmd \in [Procs -> [verb : Verbs \cup {Nothing}, force : BOOLEAN]]
  BY DEF Init, NoCommand
<1>5. seen \in [Procs -> [mbr : {"none", "dos", "protective"},
                          hdr : Table \cup {NoHeader}, again : BOOLEAN]]
  BY DEF Init, NothingSeen
<1>6. waited \in [Procs -> Nat] /\ wait \in [Procs -> Nat \ {0}]
      /\ commands \in 0 .. MaxCommands /\ crashes \in 0 .. MaxCrashes
  BY WaitAssumption DEF Init
<1>7. \A p \in Procs : pc[p] = "off"
  BY DEF Init
<1>8. plan \in [Procs -> Table \cup {Nothing}] /\ alone \in [Procs -> BOOLEAN]
      /\ pc \in [Procs -> {"off", "header", "entries", "write", "sync", "reread"}]
      /\ acked = Nothing /\ added = {} /\ mounted = FALSE /\ probing = FALSE
  BY DEF Init
<1> QED
  BY <1>1, <1>2, <1>3, <1>4, <1>5, <1>6, <1>7, <1>8 DEF TypeOK

LEMMA NextType == TypeOK /\ [Next]_vars => TypeOK'
<1> SUFFICES ASSUME TypeOK, [Next]_vars PROVE TypeOK'
  OBVIOUS
<1> USE DEF disk, env, local, history, bounds
<1>1. CASE UNCHANGED vars
  BY <1>1 DEF vars, TypeOK, Image
<1>2. ASSUME NEW p \in Procs, NEW v \in Verbs, NEW f \in BOOLEAN, Open(p, v, f)
      PROVE  TypeOK'
  <2>1. /\ pc[p] = "off" /\ pc' = [pc EXCEPT ![p] = "header"]
        /\ cmd' = [cmd EXCEPT ![p] = [verb |-> v, force |-> f]]
        /\ alone' \in [Procs -> BOOLEAN]
        /\ commands < MaxCommands /\ commands' = commands + 1
        /\ UNCHANGED <<disk, env, seen, plan, step, waited, wait, planned, acked, added, crashes>>
    BY <1>2 DEF Open, Running
  <2>2. commands' \in 0 .. MaxCommands
    BY <2>1, WaitAssumption DEF TypeOK
  <2>3. cmd' \in [Procs -> [verb : Verbs \cup {Nothing}, force : BOOLEAN]]
    BY <2>1 DEF TypeOK
  <2>4. /\ \A q \in Procs : pc'[q] \in {"write", "sync", "reread"} => plan'[q] \in planned'
        /\ \A q \in Procs : pc'[q] \in {"sync", "reread"} \/ step'[q] <= Len(WriteOrder)
        /\ pc' \in [Procs -> {"off", "header", "entries", "write", "sync", "reread"}]
    BY <2>1 DEF TypeOK
  <2>5. Image(cache') /\ Image(media')
    BY <2>1 DEF TypeOK
  <2> QED
    BY <2>1, <2>2, <2>3, <2>4, <2>5 DEF TypeOK
<1>3. ASSUME NEW p \in Procs, ReadHeader(p) PROVE TypeOK'
  <2>1. cache["mbr"] \in {"none", "dos", "protective"} /\ cache["pHdr"] \in Table \cup {NoHeader}
    BY DEF TypeOK, Image
  <2>2. seen[p].again \in BOOLEAN
    BY DEF TypeOK
  <2>3. seen' \in [Procs -> [mbr : {"none", "dos", "protective"},
                             hdr : Table \cup {NoHeader}, again : BOOLEAN]]
    BY <1>3, <2>1, <2>2 DEF ReadHeader, TypeOK
  <2> QED
    BY <1>3, <2>3 DEF ReadHeader, TypeOK, Image
<1>4. ASSUME NEW p \in Procs, ProbeAgain(p) PROVE TypeOK'
  <2>1. /\ pc' = [pc EXCEPT ![p] = "header"]
        /\ seen' = [seen EXCEPT ![p].again = TRUE]
        /\ UNCHANGED <<disk, env, cmd, plan, step, waited, wait, history, bounds>>
    BY <1>4 DEF ProbeAgain
  <2>2. seen' \in [Procs -> [mbr : {"none", "dos", "protective"},
                             hdr : Table \cup {NoHeader}, again : BOOLEAN]]
    <3> DEFINE S == [mbr : {"none", "dos", "protective"},
                     hdr : Table \cup {NoHeader}, again : BOOLEAN]
    <3>1. seen \in [Procs -> S]
      BY DEF TypeOK
    <3>2. [seen[p] EXCEPT !.again = TRUE] \in S
      BY <3>1
    <3>3. seen' = [seen EXCEPT ![p] = [seen[p] EXCEPT !.again = TRUE]]
      BY <2>1
    <3> HIDE DEF S
    <3>4. seen' \in [Procs -> S]
      BY <3>1, <3>2, <3>3
    <3> QED
      BY <3>4 DEF S
  <2>3. pc' \in [Procs -> {"off", "header", "entries", "write", "sync", "reread"}]
    BY <2>1 DEF TypeOK
  <2>4. /\ \A q \in Procs : pc'[q] \in {"write", "sync", "reread"} => plan'[q] \in planned'
        /\ \A q \in Procs : pc'[q] \in {"sync", "reread"} \/ step'[q] <= Len(WriteOrder)
    <3>1. pc[p] = "entries"
      BY <1>4 DEF ProbeAgain
    <3> QED
      BY <2>1, <3>1 DEF TypeOK
  <2>5. Image(cache') /\ Image(media')
    BY <2>1 DEF TypeOK
  <2> QED
    BY <2>1, <2>2, <2>3, <2>4, <2>5 DEF TypeOK
<1>5. ASSUME NEW p \in Procs, Plan(p) PROVE TypeOK'
  <2>1. PICK t \in Table : plan' = [plan EXCEPT ![p] = t] /\ planned' = planned \cup {t}
    BY <1>5 DEF Plan
  <2>2. pc' = [pc EXCEPT ![p] = "write"] /\ step' = step
    BY <1>5 DEF Plan
  <2>3. \A q \in Procs : pc'[q] \in {"write", "sync", "reread"} => plan'[q] \in planned'
    BY <2>1, <2>2 DEF TypeOK
  <2>4. \A q \in Procs : pc'[q] \in {"sync", "reread"} \/ step'[q] <= Len(WriteOrder)
    BY <1>5, <2>2 DEF Plan, TypeOK
  <2> QED
    BY <1>5, <2>1, <2>2, <2>3, <2>4 DEF Plan, TypeOK, Image
<1>6. ASSUME NEW p \in Procs, Refuse(p) PROVE TypeOK'
  BY <1>6, FinishType DEF Refuse, TypeOK, Image
<1>7. ASSUME NEW p \in Procs, Write(p) PROVE TypeOK'
  <2> DEFINE r == WriteOrder[step[p]]
  <2>1. r \in Regions /\ step[p] \in 1 .. Len(WriteOrder)
    BY <1>7 DEF Write, TypeOK, WriteOrder
  <2>2. plan[p] \in Table
    BY <1>7 DEF Write, TypeOK
  <2>3. Image(cache')
    BY <1>7, <2>1, <2>2, WrittenImage, ImageExcept DEF Write, TypeOK
  <2>4. step' \in [Procs -> 1 .. Len(WriteOrder) + 1]
    BY <1>7, <2>1 DEF Write, TypeOK, WriteOrder
  <2>5. pc' = [pc EXCEPT ![p] = IF LastWrite(p) THEN "sync" ELSE "write"]
    BY <1>7 DEF Write
  <2>6. \A q \in Procs : pc'[q] \in {"write", "sync", "reread"} => plan'[q] \in planned'
    BY <1>7, <2>5 DEF Write, TypeOK
  <2>7. \A q \in Procs : pc'[q] \in {"sync", "reread"} \/ step'[q] <= Len(WriteOrder)
    <3>1. /\ pc \in [Procs -> {"off", "header", "entries", "write", "sync", "reread"}]
          /\ step \in [Procs -> 1 .. Len(WriteOrder) + 1]
          /\ \A q \in Procs : pc[q] \in {"sync", "reread"} \/ step[q] <= Len(WriteOrder)
      BY DEF TypeOK
    <3>2. step' = [step EXCEPT ![p] = step[p] + 1] /\ pc[p] = "write"
      BY <1>7 DEF Write
    <3>3. Len(WriteOrder) = 5
      BY DEF WriteOrder
    <3> QED
      BY <2>1, <2>5, <3>1, <3>2, <3>3 DEF LastWrite
  <2> QED
    <3>1. /\ acked' = Nothing
          /\ UNCHANGED <<media, env, cmd, seen, plan, waited, wait, alone, planned, added, bounds>>
      BY <1>7 DEF Write
    <3>2. pc' \in [Procs -> {"off", "header", "entries", "write", "sync", "reread"}]
      BY <2>5 DEF TypeOK
    <3>3. Image(media')
      BY <3>1 DEF TypeOK
    <3> QED
      BY <2>3, <2>4, <2>6, <2>7, <3>1, <3>2, <3>3 DEF TypeOK
<1>8. ASSUME NEW p \in Procs, Sync(p) PROVE TypeOK'
  BY <1>8 DEF Sync, TypeOK, Image
<1>9. ASSUME NEW p \in Procs, Reread(p) PROVE TypeOK'
  <2>1. Finish(p) /\ Report(p, TRUE) /\ kernel' \in SUBSET Parts
    BY <1>9, KernelViewType DEF Reread, TypeOK
  <2>2. plan[p] \in Table
    BY <1>9 DEF Reread, TypeOK
  <2> QED
    BY <1>9, <2>1, <2>2, FinishType, ReportType DEF Reread, TypeOK, Image
<1>10. ASSUME NEW p \in Procs, Nap(p) PROVE TypeOK'
  <2>1. waited[p] \in Nat /\ wait[p] \in Nat \ {0} /\ waited[p] < Budget
    BY <1>10 DEF Nap, TypeOK, MayRetry
  <2>2. waited[p] + NapOf(p) \in Nat /\ Least(2 * wait[p], MaxWait) \in Nat \ {0}
    BY <2>1, WaitAssumption DEF NapOf, Least
  <2>3. waited' \in [Procs -> Nat] /\ wait' \in [Procs -> Nat \ {0}]
    BY <1>10, <2>2 DEF Nap, TypeOK
  <2> QED
    BY <1>10, <2>3 DEF Nap, TypeOK, Image
<1>11. ASSUME NEW p \in Procs, GiveUp(p) PROVE TypeOK'
  <2>1. Finish(p) /\ Report(p, FALSE) /\ plan[p] \in Table
    BY <1>11 DEF GiveUp, TypeOK
  <2> QED
    BY <1>11, <2>1, FinishType, ReportType DEF GiveUp, TypeOK, Image
<1>12. ASSUME NEW p \in Procs, Fail(p) \/ Kill(p) PROVE TypeOK'
  <2>1. /\ Abandon(p) /\ Finish(p)
        /\ UNCHANGED <<media, env, planned, added, bounds>>
    BY <1>12 DEF Fail, Kill
  <2>2. Image(cache') /\ acked' \in [table : Table, visible : BOOLEAN] \cup {Nothing}
    BY <2>1, AbandonImage DEF TypeOK
  <2> QED
    BY <2>1, <2>2, FinishType DEF TypeOK, Image
<1>13. ASSUME NEW r \in Regions, Writeback(r) PROVE TypeOK'
  <2>1. Image(media')
    BY <1>13, ImageExcept DEF Writeback, TypeOK
  <2> QED
    BY <1>13, <2>1 DEF Writeback, TypeOK, Image
<1>14. CASE Crash
  <2>1. Image(media') /\ Image(cache')
    <3>1. PICK half \in SUBSET {r \in Arrays : media[r] # cache[r]} :
             media' = [r \in Regions |-> IF r \in half THEN Torn ELSE media[r]]
      BY <1>14 DEF Crash
    <3>2. Image(media')
      BY <3>1 DEF TypeOK, Image
    <3> QED
      BY <1>14, <3>2 DEF Crash, Image
  <2>2. kernel' \in SUBSET Parts
    BY <1>14, <2>1, KernelViewType DEF Crash
  <2>3. /\ step' \in [Procs -> 1 .. Len(WriteOrder) + 1]
        /\ \A p \in Procs : step'[p] <= Len(WriteOrder)
    BY <1>14 DEF Crash, WriteOrder
  <2>4. crashes' \in 0 .. MaxCrashes
    BY <1>14, WaitAssumption DEF Crash, TypeOK
  <2>5. cmd' \in [Procs -> [verb : Verbs \cup {Nothing}, force : BOOLEAN]]
    BY <1>14 DEF Crash, NoCommand
  <2>6. seen' \in [Procs -> [mbr : {"none", "dos", "protective"},
                             hdr : Table \cup {NoHeader}, again : BOOLEAN]]
    BY <1>14 DEF Crash, NothingSeen
  <2> QED
    BY <1>14, <2>1, <2>2, <2>3, <2>4, <2>5, <2>6, WaitAssumption DEF Crash, TypeOK
<1>15. CASE Mount \/ ProbeDevice
  BY <1>15 DEF Mount, ProbeDevice, TypeOK, Image
<1> QED
  BY <1>1, <1>2, <1>3, <1>4, <1>5, <1>6, <1>7, <1>8, <1>9, <1>10, <1>11, <1>12,
     <1>13, <1>14, <1>15 DEF Next, Act

\* Every state of the commands has the declared types, for any number of
\* processes, tables, commands and crashes (cli.rs, label.rs, device.rs).
THEOREM TypeCorrect == Spec => []TypeOK
BY InitType, NextType, PTL DEF Spec

-----------------------------------------------------------------------------
(* The disk implements TableStore *)

LEMMA InitInv == Init => Inv
<1> SUFFICES ASSUME Init PROVE Inv
  OBVIOUS
<1>1. TypeOK /\ media = cache
  BY InitType DEF Init
<1>2. cache["pHdr"] # NoHeader => cache["pHdr"] \in planned
  <2>1. ASSUME NEW t \in FirstTables, cache = Written(t), planned = {t}
        PROVE  cache["pHdr"] \in planned
    BY <2>1, WrittenImage, ValueAssumption
  <2>2. ASSUME NEW m \in {"none", "dos"}, cache = Untouched(m)
        PROVE  cache["pHdr"] = NoHeader
    BY <2>2 DEF Untouched
  <2> QED
    BY <2>1, <2>2 DEF Init
<1> QED
  BY <1>1, <1>2 DEF Inv, HeadersPlanned, CacheNotBlanker

LEMMA NextInv == Inv /\ [Next]_vars => Inv'
<1> SUFFICES ASSUME Inv, [Next]_vars PROVE HeadersPlanned' /\ CacheNotBlanker'
  BY NextType DEF Inv
<1> USE DEF disk, env, local, history, bounds
<1>0. TypeOK /\ HeadersPlanned /\ CacheNotBlanker
  BY DEF Inv
<1>a. ASSUME UNCHANGED disk, planned \subseteq planned'
      PROVE  HeadersPlanned' /\ CacheNotBlanker'
  BY <1>0, <1>a DEF HeadersPlanned, CacheNotBlanker
<1>1. CASE UNCHANGED vars
  BY <1>1, <1>a DEF vars
<1>2. ASSUME NEW p \in Procs, NEW v \in Verbs, NEW f \in BOOLEAN, Open(p, v, f)
      PROVE  HeadersPlanned' /\ CacheNotBlanker'
  BY <1>2, <1>a DEF Open
<1>3. ASSUME NEW p \in Procs,
             \/ ReadHeader(p) \/ ProbeAgain(p) \/ Plan(p) \/ Refuse(p)
             \/ Reread(p) \/ Nap(p) \/ GiveUp(p)
      PROVE  HeadersPlanned' /\ CacheNotBlanker'
  BY <1>3, <1>a DEF ReadHeader, ProbeAgain, Plan, Refuse, Reread, Nap, GiveUp
<1>4. ASSUME NEW p \in Procs, Write(p)
      PROVE  HeadersPlanned' /\ CacheNotBlanker'
  <2> DEFINE r == WriteOrder[step[p]]
  <2>1. r \in Regions
    BY <1>0, <1>4 DEF Write, TypeOK, WriteOrder
  <2>2. plan[p] \in planned /\ plan[p] \in Table
    BY <1>0, <1>4 DEF Write, TypeOK
  <2>3. Written(plan[p])["mbr"] = "protective" /\ Written(plan[p])["pHdr"] = plan[p]
    BY DEF Written
  <2>4. cache' = [cache EXCEPT ![r] = Written(plan[p])[r]] /\ media' = media /\ planned' = planned
    BY <1>4 DEF Write
  <2> HIDE DEF r
  <2>5. /\ cache'["mbr"] \in {cache["mbr"], "protective"}
        /\ cache'["pHdr"] \in {cache["pHdr"], plan[p]}
    BY <1>0, <2>1, <2>3, <2>4 DEF TypeOK, Image
  <2> QED
    BY <1>0, <2>2, <2>4, <2>5, ValueAssumption DEF HeadersPlanned, CacheNotBlanker
<1>5. ASSUME NEW p \in Procs, Sync(p)
      PROVE  HeadersPlanned' /\ CacheNotBlanker'
  BY <1>0, <1>5 DEF Sync, HeadersPlanned, CacheNotBlanker
<1>6. ASSUME NEW p \in Procs, Fail(p) \/ Kill(p)
      PROVE  HeadersPlanned' /\ CacheNotBlanker'
  <2>1. Abandon(p) /\ media' = media /\ planned' = planned
    BY <1>6 DEF Fail, Kill
  <2>2. cache'["mbr"] = cache["mbr"] /\ cache'["pHdr"] = cache["pHdr"]
    BY <1>0, <2>1, AbandonImage
  <2> QED
    BY <1>0, <2>1, <2>2 DEF HeadersPlanned, CacheNotBlanker
<1>7. ASSUME NEW r \in Regions, Writeback(r)
      PROVE  HeadersPlanned' /\ CacheNotBlanker'
  <2>1. /\ media' = [media EXCEPT ![r] = cache[r]]
        /\ cache' = cache /\ planned' = planned
    BY <1>7 DEF Writeback
  <2>2. /\ media'["mbr"] \in {media["mbr"], cache["mbr"]}
        /\ media'["pHdr"] \in {media["pHdr"], cache["pHdr"]}
    BY <1>0, <2>1 DEF TypeOK, Image
  <2> QED
    BY <1>0, <2>1, <2>2 DEF HeadersPlanned, CacheNotBlanker
<1>8. CASE Crash
  <2>1. PICK half \in SUBSET {r \in Arrays : media[r] # cache[r]} :
           media' = [r \in Regions |-> IF r \in half THEN Torn ELSE media[r]]
    BY <1>8 DEF Crash
  <2>2. media'["pHdr"] = media["pHdr"] /\ cache' = media' /\ planned' = planned
    BY <1>8, <2>1 DEF Crash
  <2> QED
    BY <1>0, <2>2 DEF HeadersPlanned, CacheNotBlanker
<1>9. CASE Mount \/ ProbeDevice
  BY <1>9, <1>a DEF Mount, ProbeDevice
<1> QED
  BY <1>1, <1>2, <1>3, <1>4, <1>5, <1>6, <1>7, <1>8, <1>9 DEF Next, Act

LEMMA InvCorrect == Spec => []Inv
BY InitInv, NextInv, PTL DEF Spec

\* What the next command reads is never a table that nobody planned: a header
\* always comes with its own entries, or the table is damaged (Gpt::parse,
\* label::probe, whatever the order and interleaving of Gpt::writes).
THEOREM NoConfidentLie == Spec => []NeverAConfidentLie
<1>1. Inv => NeverAConfidentLie
  BY FoundTable DEF Inv, TypeOK, HeadersPlanned, NeverAConfidentLie
<1> QED
  BY <1>1, InvCorrect, PTL

LEMMA FoundShape ==
    ASSUME NEW d, Image(d)
    PROVE  \/ Probe(d) \in {Damaged, d["pHdr"]} /\ d["pHdr"] # NoHeader
           \/ Probe(d) = Damaged /\ d["pHdr"] = NoHeader /\ d["mbr"] = "protective"
           \/ Probe(d) = Foreign /\ d["pHdr"] = NoHeader /\ d["mbr"] = "dos"
           \/ Probe(d) = Blank /\ d["pHdr"] = NoHeader /\ d["mbr"] = "none"
<1>1. CASE d["pHdr"] # NoHeader
  <2>1. d["pHdr"] \in Table
    BY <1>1 DEF Image
  <2>2. d["pHdr"] = [guid |-> d["pHdr"].guid, parts |-> d["pHdr"].parts]
    BY <2>1 DEF Table
  <2> QED
    BY <1>1, <2>2 DEF Probe, Found, CrcMatches
<1>2. CASE d["pHdr"] = NoHeader
  BY <1>2 DEF Image, Probe, Found
<1> QED
  BY <1>1, <1>2

\* What a step may do to the medium: each region stays or takes the cached
\* contents, an array may also tear.
LEMMA MediaStep ==
    ASSUME TypeOK, [Next]_vars
    PROVE  /\ media'["mbr"] \in {media["mbr"], cache["mbr"]}
           /\ media'["pHdr"] \in {media["pHdr"], cache["pHdr"]}
<1> USE DEF disk, env, local, history, bounds
<1> DEFINE Goal == /\ media'["mbr"] \in {media["mbr"], cache["mbr"]}
                   /\ media'["pHdr"] \in {media["pHdr"], cache["pHdr"]}
<1>1. CASE UNCHANGED media
  BY <1>1
<1>2. ASSUME NEW p \in Procs, Sync(p) PROVE Goal
  BY <1>2 DEF Sync
<1>3. ASSUME NEW r \in Regions, Writeback(r) PROVE Goal
  BY <1>3 DEF Writeback, TypeOK, Image
<1>4. CASE Crash
  BY <1>4 DEF Crash
<1>5. \/ UNCHANGED media \/ Crash
      \/ \E p \in Procs : Sync(p)
      \/ \E r \in Regions : Writeback(r)
  <2>1. ASSUME NEW p \in Procs, Act(p) PROVE UNCHANGED media \/ Sync(p)
    BY <2>1 DEF Act, ReadHeader, ProbeAgain, Plan, Refuse, Write, Reread, Nap, GiveUp
  <2>2. ASSUME NEW p \in Procs, Fail(p) \/ Kill(p) PROVE UNCHANGED media
    BY <2>2 DEF Fail, Kill
  <2>3. ASSUME NEW p \in Procs, NEW v \in Verbs, NEW f \in BOOLEAN, Open(p, v, f)
        PROVE  UNCHANGED media
    BY <2>3 DEF Open
  <2>4. CASE Mount \/ ProbeDevice
    BY <2>4 DEF Mount, ProbeDevice
  <2> QED
    BY <2>1, <2>2, <2>3, <2>4 DEF Next, vars
<1> QED
  BY <1>1, <1>2, <1>3, <1>4, <1>5

LEMMA StepPlans ==
    ASSUME [Next]_vars
    PROVE  planned' = planned \/ \E t \in Table : planned' = planned \cup {t} /\ UNCHANGED media
<1> USE DEF disk, env, local, history, bounds
<1>1. ASSUME NEW p \in Procs, Plan(p)
      PROVE  \E t \in Table : planned' = planned \cup {t} /\ UNCHANGED media
  BY <1>1 DEF Plan
<1>2. ASSUME NEW p \in Procs, Act(p), ~Plan(p) PROVE planned' = planned
  BY <1>2 DEF Act, ReadHeader, ProbeAgain, Refuse, Write, Sync, Reread, Nap, GiveUp
<1>3. ASSUME NEW p \in Procs, Fail(p) \/ Kill(p) PROVE planned' = planned
  BY <1>3 DEF Fail, Kill
<1>4. ASSUME NEW p \in Procs, NEW v \in Verbs, NEW f \in BOOLEAN, Open(p, v, f)
      PROVE  planned' = planned
  BY <1>4 DEF Open
<1>5. ASSUME NEW r \in Regions, Writeback(r) PROVE planned' = planned
  BY <1>5 DEF Writeback
<1>6. CASE Crash \/ Mount \/ ProbeDevice
  BY <1>6 DEF Crash, Mount, ProbeDevice
<1> QED
  BY <1>1, <1>2, <1>3, <1>4, <1>5, <1>6 DEF Next, vars

LEMMA InitRefines == Init => Durable!Init
<1> SUFFICES ASSUME Init PROVE Durable!Init
  OBVIOUS
<1>1. ASSUME NEW t \in FirstTables, cache = Written(t), planned = {t}
      PROVE  Probe(media) = t /\ t \in Table
  <2>1. media = Written(t) /\ t \in Table
    BY <1>1, ValueAssumption DEF Init
  <2>2. Written(t)["pHdr"] = t /\ Written(t)["pEnt"] = t.parts
    BY DEF Written
  <2>3. t # NoHeader /\ t = [guid |-> t.guid, parts |-> t.parts]
    BY <2>1, ValueAssumption DEF Table
  <2> QED
    BY <2>1, <2>2, <2>3 DEF Probe, Found, CrcMatches
<1>2. ASSUME NEW m \in {"none", "dos"}, cache = Untouched(m), planned = {}
      PROVE  Probe(media) \in {Blank, Foreign}
  BY <1>2 DEF Init, Untouched, Probe, Found
<1> QED
  BY <1>1, <1>2, ValueAssumption DEF Init, Durable!Init

LEMMA StepRefines ==
    Inv /\ [Next]_vars => [Durable!Next]_<<Probe(media), planned>>
<1> SUFFICES ASSUME Inv, [Next]_vars
             PROVE  Durable!Next \/ UNCHANGED <<Probe(media), planned>>
  OBVIOUS
<1>1. TypeOK /\ HeadersPlanned /\ CacheNotBlanker
  BY DEF Inv
<1>2. TypeOK' /\ HeadersPlanned'
  BY NextInv DEF Inv
<1>3. CASE planned' # planned
  <2>1. PICK t \in Table : planned' = planned \cup {t} /\ UNCHANGED media
    BY <1>3, StepPlans
  <2>2. Probe(media)' = Probe(media)
    BY <2>1 DEF Probe
  <2> QED
    BY <2>1, <2>2 DEF Durable!Next, Durable!Intend
<1>4. CASE planned' = planned
  <2>1. Image(media) /\ Image(media')
    BY <1>1, <1>2 DEF TypeOK
  <2>2. \/ Probe(media)' \in planned \cup {Damaged}
        \/ media'["pHdr"] = NoHeader /\ media'["mbr"] # "protective"
    BY <1>2, <1>4, <2>1, FoundShape DEF HeadersPlanned
  <2>3. CASE media'["pHdr"] = NoHeader /\ media'["mbr"] # "protective"
    <3>1. media'["mbr"] = media["mbr"] /\ media["pHdr"] = NoHeader
      BY <1>1, <2>3, MediaStep DEF CacheNotBlanker
    <3>2. Probe(media)' = Probe(media)
      BY <2>1, <2>3, <3>1, FoundShape
    <3> QED
      BY <1>4, <3>2
  <2> QED
    BY <1>4, <2>2, <2>3 DEF Durable!Next, Durable!Settle
<1> QED
  BY <1>3, <1>4

\* The medium implements TableStore: after any power loss a probe finds the
\* first table, one that some command set out to write, or damage; a disk that
\* had a table never turns blank or foreign (Gpt::writes, label::commit).
THEOREM DiskImplementsTableStore == Spec => OldOrPlannedOrDamaged
BY InitRefines, StepRefines, InvCorrect, PTL DEF Spec, OldOrPlannedOrDamaged, Durable!Spec

-----------------------------------------------------------------------------
(* What a command reports *)


\* A command starts to write at the first of its writes.
StartsAtOne == \A p \in Procs : pc[p] \in {"off", "header", "entries"} => step[p] = 1

\* A command that has run alone since it opened the disk has put its table in
\* the cache as far as it has written, and on the medium once it has synced.
AloneWrites ==
    \A p \in Procs : alone[p] =>
        /\ Running(p) /\ \A q \in Procs \ {p} : ~Running(q)
        /\ \A i \in 1 .. Len(WriteOrder) :
              (pc[p] = "write" /\ i < step[p]) \/ pc[p] \in {"sync", "reread"} =>
                  cache[WriteOrder[i]] = Written(plan[p])[WriteOrder[i]]
        /\ pc[p] = "reread" => \A r \in Regions : media[r] = cache[r]

\* While the table reported last stands, cache and medium agree.
AckedClean == acked # Nothing => \A r \in Regions : media[r] = cache[r]

ReportInv == Inv /\ StartsAtOne /\ AloneWrites /\ AckedClean /\ ReportedIsDurable

\* Every region is written, by one of the five writes.
LEMMA WritesCover ==
    /\ \A r \in Regions : \E i \in 1 .. Len(WriteOrder) : r = WriteOrder[i]
    /\ \A i \in 1 .. Len(WriteOrder) : WriteOrder[i] \in Regions
<1>1. /\ WriteOrder[1] = "mbr" /\ WriteOrder[2] = "pEnt" /\ WriteOrder[3] = "bEnt"
      /\ WriteOrder[4] = "pHdr" /\ WriteOrder[5] = "bHdr" /\ Len(WriteOrder) = 5
  BY DEF WriteOrder
<1> QED
  BY <1>1

LEMMA WrittenView ==
    ASSUME NEW d, NEW t \in Table, \A r \in Regions : d[r] = Written(t)[r]
    PROVE  KernelView(d) = t.parts
<1>1. Written(t)["pHdr"] = t /\ Written(t)["pEnt"] = t.parts
  BY DEF Written
<1> QED
  BY <1>1, ValueAssumption DEF KernelView

\* A report by a command that is not alone says nothing of the disk; one by a
\* command that is alone, that its table is on it.
LEMMA ReportHolds ==
    ASSUME ReportInv, NEW p \in Procs, NEW visible \in BOOLEAN, pc[p] = "reread",
           Report(p, visible), UNCHANGED disk, visible => kernel' = KernelView(cache)
    PROVE  AckedClean' /\ ReportedIsDurable'
<1> USE DEF disk
<1>1. CASE ~alone[p]
  BY <1>1 DEF Report, AckedClean, ReportedIsDurable
<1>2. CASE alone[p]
  <2>1. acked' = [table |-> plan[p], visible |-> visible] /\ plan[p] \in Table
    BY <1>2 DEF Report, ReportInv, Inv, TypeOK
  <2>2. \A r \in Regions : media[r] = cache[r]
    BY <1>2 DEF ReportInv, AloneWrites
  <2>3. \A r \in Regions : cache[r] = Written(plan[p])[r]
    BY <1>2, WritesCover DEF ReportInv, AloneWrites
  <2>4. KernelView(cache) = plan[p].parts
    BY <2>1, <2>3, WrittenView
  <2> QED
    BY <2>1, <2>2, <2>3, <2>4 DEF AckedClean, ReportedIsDurable
<1> QED
  BY <1>1, <1>2

\* When a process that runs ends, nobody is alone.
LEMMA NobodyAlone ==
    ASSUME ReportInv, NEW p \in Procs, Running(p), Finish(p)
    PROVE  AloneWrites' /\ StartsAtOne'
BY DEF ReportInv, AloneWrites, StartsAtOne, Finish, Inv, TypeOK

LEMMA AloneIsOne ==
    ASSUME ReportInv, NEW p \in Procs, Running(p), NEW q \in Procs, alone[q]
    PROVE  q = p
BY DEF ReportInv, AloneWrites

LEMMA InitReport == Init => ReportInv
BY InitInv DEF ReportInv, Init, StartsAtOne, AloneWrites, AckedClean, ReportedIsDurable

LEMMA NextReport == ReportInv /\ [Next]_vars => ReportInv'
<1> DEFINE Goal == StartsAtOne' /\ AloneWrites' /\ AckedClean' /\ ReportedIsDurable'
<1> SUFFICES ASSUME ReportInv, [Next]_vars PROVE Goal
  BY NextInv DEF ReportInv
<1> USE DEF disk, env, local, history, bounds
<1>0. TypeOK /\ StartsAtOne /\ AloneWrites /\ AckedClean /\ ReportedIsDurable
  BY DEF ReportInv, Inv
<1>a. ASSUME UNCHANGED <<disk, kernel, acked>> PROVE AckedClean' /\ ReportedIsDurable'
  BY <1>0, <1>a DEF AckedClean, ReportedIsDurable
<1>b. ASSUME UNCHANGED <<disk, pc, plan, step, alone>> PROVE StartsAtOne' /\ AloneWrites'
  BY <1>0, <1>b DEF StartsAtOne, AloneWrites, Running
<1>1. CASE UNCHANGED vars
  BY <1>1, <1>a, <1>b DEF vars
<1>2. ASSUME NEW p \in Procs, NEW v \in Verbs, NEW f \in BOOLEAN, Open(p, v, f) PROVE Goal
  <2>1. /\ pc' = [pc EXCEPT ![p] = "header"] /\ pc[p] = "off"
        /\ alone' = [q \in Procs |-> q = p /\ \A r \in Procs : ~Running(r)]
        /\ UNCHANGED <<disk, kernel, acked, plan, step>>
    BY <1>2 DEF Open, Running
  <2>2. StartsAtOne' /\ AloneWrites'
    BY <1>0, <2>1 DEF StartsAtOne, AloneWrites, Running, TypeOK
  <2> QED
    BY <2>1, <2>2, <1>a
<1>3. ASSUME NEW p \in Procs, ReadHeader(p) \/ ProbeAgain(p) PROVE Goal
  <2>1. /\ Running(p) /\ \E s \in {"header", "entries"} : pc' = [pc EXCEPT ![p] = s]
        /\ pc[p] \in {"header", "entries"}
        /\ UNCHANGED <<disk, kernel, acked, plan, step, alone>>
    BY <1>3 DEF ReadHeader, ProbeAgain, Running
  <2>2. StartsAtOne' /\ AloneWrites'
    BY <1>0, <2>1, AloneIsOne DEF StartsAtOne, AloneWrites, Running, TypeOK
  <2> QED
    BY <2>1, <2>2, <1>a
<1>4. ASSUME NEW p \in Procs, Plan(p) PROVE Goal
  <2>1. /\ Running(p) /\ pc[p] = "entries" /\ pc' = [pc EXCEPT ![p] = "write"]
        /\ UNCHANGED <<disk, kernel, acked, step, alone>>
    BY <1>4 DEF Plan, Running
  <2>2. step[p] = 1
    BY <1>0, <2>1 DEF StartsAtOne
  <2>3. StartsAtOne' /\ AloneWrites'
    BY <1>0, <2>1, <2>2, AloneIsOne DEF StartsAtOne, AloneWrites, Running, TypeOK
  <2> QED
    BY <2>1, <2>3, <1>a
<1>5. ASSUME NEW p \in Procs, Refuse(p) PROVE Goal
  BY <1>5, <1>a, NobodyAlone DEF Refuse, Running
<1>6. ASSUME NEW p \in Procs, Write(p) PROVE Goal
  <2> DEFINE n == step[p]
  <2>1. /\ pc[p] = "write" /\ Running(p) /\ n \in 1 .. Len(WriteOrder)
        /\ WriteOrder[n] \in Regions
    BY <1>0, <1>6 DEF Write, TypeOK, WriteOrder, Running
  <2>2. /\ cache' = [cache EXCEPT ![WriteOrder[n]] = Written(plan[p])[WriteOrder[n]]]
        /\ step' = [step EXCEPT ![p] = n + 1]
        /\ pc' = [pc EXCEPT ![p] = IF LastWrite(p) THEN "sync" ELSE "write"]
        /\ acked' = Nothing /\ UNCHANGED <<plan, alone, media, kernel>>
    BY <1>6 DEF Write
  <2>3. StartsAtOne'
    BY <1>0, <2>1, <2>2 DEF StartsAtOne, TypeOK
  <2>4. ASSUME NEW i \in 1 .. Len(WriteOrder), alone[p],
               i < n + 1 \/ LastWrite(p)
        PROVE  cache'[WriteOrder[i]] = Written(plan[p])[WriteOrder[i]]
    <3>1. i <= n
      BY <2>1, <2>4 DEF LastWrite, WriteOrder
    <3>2. WriteOrder[i] \in Regions /\ DOMAIN cache = Regions
      BY <1>0, WritesCover DEF TypeOK, Image
    <3>3. CASE i < n
      <4>1. WriteOrder[i] # WriteOrder[n]
        BY <2>1, <3>3 DEF WriteOrder
      <4>2. cache[WriteOrder[i]] = Written(plan[p])[WriteOrder[i]]
        BY <1>0, <2>1, <2>4, <3>3 DEF AloneWrites
      <4> QED
        BY <2>2, <3>2, <4>1, <4>2
    <3>4. CASE i = n
      BY <2>2, <3>2, <3>4
    <3> QED
      BY <3>1, <3>3, <3>4, <2>1
  <2>5. AloneWrites'
    BY <1>0, <2>1, <2>2, <2>4, AloneIsOne DEF AloneWrites, Running, TypeOK
  <2> QED
    BY <2>2, <2>3, <2>5 DEF AckedClean, ReportedIsDurable
<1>7. ASSUME NEW p \in Procs, Sync(p) PROVE Goal
  <2>1. /\ pc[p] = "sync" /\ Running(p) /\ pc' = [pc EXCEPT ![p] = "reread"]
        /\ media' = cache /\ UNCHANGED <<cache, kernel, acked, plan, step, alone>>
    BY <1>7 DEF Sync, Running
  <2>2. StartsAtOne' /\ AloneWrites'
    BY <1>0, <2>1, AloneIsOne DEF StartsAtOne, AloneWrites, Running, TypeOK
  <2> QED
    BY <1>0, <2>1, <2>2 DEF AckedClean, ReportedIsDurable
<1>8. ASSUME NEW p \in Procs, Reread(p) PROVE Goal
  <2>1. /\ pc[p] = "reread" /\ Running(p) /\ Finish(p) /\ Report(p, TRUE)
        /\ UNCHANGED disk /\ kernel' = KernelView(cache)
    BY <1>8 DEF Reread, Running
  <2> QED
    BY <2>1, NobodyAlone, ReportHolds
<1>9. ASSUME NEW p \in Procs, Nap(p) PROVE Goal
  BY <1>9, <1>a, <1>b DEF Nap
<1>10. ASSUME NEW p \in Procs, GiveUp(p) PROVE Goal
  <2>1. /\ pc[p] = "reread" /\ Running(p) /\ Finish(p) /\ Report(p, FALSE)
        /\ UNCHANGED disk
    BY <1>10 DEF GiveUp, Running
  <2> QED
    BY <2>1, NobodyAlone, ReportHolds
<1>11. ASSUME NEW p \in Procs, Fail(p) \/ Kill(p) PROVE Goal
  <2>1. Running(p) /\ Abandon(p) /\ Finish(p) /\ UNCHANGED <<media, kernel>>
    BY <1>11 DEF Fail, Kill, Running
  <2>2. UNCHANGED <<cache, acked>> \/ acked' = Nothing
    BY <2>1 DEF Abandon
  <2> QED
    BY <1>a, <2>1, <2>2, NobodyAlone DEF AckedClean, ReportedIsDurable
<1>12. ASSUME NEW r \in Regions, Writeback(r) PROVE Goal
  <2>1. /\ media[r] # cache[r] /\ media' = [media EXCEPT ![r] = cache[r]]
        /\ UNCHANGED <<cache, kernel, acked, pc, plan, step, alone>>
    BY <1>12 DEF Writeback
  <2>2. acked = Nothing
    BY <1>0, <2>1 DEF AckedClean
  <2>3. StartsAtOne' /\ AloneWrites'
    BY <1>0, <2>1 DEF StartsAtOne, AloneWrites, Running
  <2> QED
    BY <2>1, <2>2, <2>3 DEF AckedClean, ReportedIsDurable
<1>13. CASE Crash
  <2>1. PICK half \in SUBSET {r \in Arrays : media[r] # cache[r]} :
           media' = [r \in Regions |-> IF r \in half THEN Torn ELSE media[r]]
    BY <1>13 DEF Crash
  <2>2. /\ cache' = media' /\ kernel' = KernelView(media')
        /\ acked' = acked /\ alone' = [p \in Procs |-> FALSE]
        /\ step' = [p \in Procs |-> 1]
    BY <1>13 DEF Crash
  <2>3. ASSUME acked # Nothing
        PROVE  /\ \A r \in Regions : media'[r] = Written(acked.table)[r]
               /\ kernel' = acked.table.parts
    <3>1. \A r \in Regions : media'[r] = media[r]
      BY <1>0, <2>1, <2>3 DEF AckedClean
    <3>2. \A r \in Regions : media'[r] = Written(acked.table)[r]
      BY <1>0, <2>3, <3>1 DEF ReportedIsDurable
    <3>3. acked.table \in Table
      BY <1>0, <2>3 DEF TypeOK
    <3> QED
      BY <2>2, <3>2, <3>3, WrittenView
  <2> QED
    BY <2>2, <2>3 DEF StartsAtOne, AloneWrites, AckedClean, ReportedIsDurable
<1>14. CASE Mount \/ ProbeDevice
  BY <1>14, <1>a, <1>b DEF Mount, ProbeDevice
<1> QED
  BY <1>1, <1>2, <1>3, <1>4, <1>5, <1>6, <1>7, <1>8, <1>9, <1>10, <1>11, <1>12,
     <1>13, <1>14 DEF Next, Act

\* Durability before visibility: whatever a command that ran alone reports, its
\* table is on the medium in full, and shown by the kernel on exit 0 (commit,
\* reread_partition_table).
THEOREM ReportsAreDurable == Spec => []ReportedIsDurable
BY InitReport, NextReport, PTL DEF Spec, ReportInv

-----------------------------------------------------------------------------
(* The retry budget *)

LEMMA NextBudget == TypeOK /\ NeverSleepsPastBudget /\ [Next]_vars => NeverSleepsPastBudget'
<1> SUFFICES ASSUME TypeOK, NeverSleepsPastBudget, [Next]_vars PROVE NeverSleepsPastBudget'
  OBVIOUS
<1> USE DEF disk, env, local, history, bounds, NeverSleepsPastBudget
<1>a. ASSUME UNCHANGED waited PROVE NeverSleepsPastBudget'
  BY <1>a
<1>b. ASSUME NEW p \in Procs, waited' = [waited EXCEPT ![p] = 0]
      PROVE  NeverSleepsPastBudget'
  BY <1>b, WaitAssumption DEF TypeOK
<1>1. ASSUME NEW p \in Procs, Nap(p) PROVE NeverSleepsPastBudget'
  <2>1. waited[p] \in Nat /\ wait[p] \in Nat /\ waited[p] < Budget
    BY <1>1 DEF Nap, TypeOK, MayRetry
  <2>2. waited[p] + NapOf(p) <= Budget
    BY <2>1, WaitAssumption DEF NapOf, Least
  <2> QED
    BY <1>1, <2>2 DEF Nap, TypeOK
<1>2. ASSUME NEW p \in Procs, Act(p) PROVE NeverSleepsPastBudget'
  BY <1>2, <1>a, <1>b, <1>1 DEF Act, ReadHeader, ProbeAgain, Plan, Refuse, Write, Sync,
     Reread, GiveUp, Finish
<1>3. ASSUME NEW p \in Procs, Fail(p) \/ Kill(p) PROVE NeverSleepsPastBudget'
  BY <1>3, <1>b DEF Fail, Kill, Finish
<1>4. ASSUME NEW p \in Procs, NEW v \in Verbs, NEW f \in BOOLEAN, Open(p, v, f)
      PROVE  NeverSleepsPastBudget'
  BY <1>4, <1>a DEF Open
<1>5. ASSUME NEW r \in Regions, Writeback(r) PROVE NeverSleepsPastBudget'
  BY <1>5, <1>a DEF Writeback
<1>6. CASE Crash
  BY <1>6, WaitAssumption DEF Crash
<1>7. CASE Mount \/ ProbeDevice \/ UNCHANGED vars
  BY <1>7, <1>a DEF Mount, ProbeDevice, vars
<1> QED
  BY <1>2, <1>3, <1>4, <1>5, <1>6, <1>7 DEF Next

\* retry_while_busy sleeps at most the budget in all, whatever the first and
\* the largest wait are.
THEOREM SleepsWithinBudget == Spec => []NeverSleepsPastBudget
<1>1. Init => NeverSleepsPastBudget
  <2>1. Init => \A p \in Procs : waited[p] = 0
    BY DEF Init
  <2>2. 0 <= Budget
    BY WaitAssumption
  <2> QED
    BY <2>1, <2>2 DEF NeverSleepsPastBudget
<1> QED
  BY <1>1, NextBudget, TypeCorrect, PTL DEF Spec

-----------------------------------------------------------------------------
(* The way down *)

\* The steps that a command can still make: two reads for each probe, two
\* probes but for `create`, the plan, five writes, the sync, a re-read or the
\* refusal of one, and a nap for each unit of time that may still be slept.
StepsLeft(p) ==
    IF pc[p] = "reread" THEN 1
    ELSE IF pc[p] = "sync" THEN 2
    ELSE IF pc[p] = "write" THEN 3 + (Len(WriteOrder) - step[p])
    ELSE (IF pc[p] = "entries" THEN 8 ELSE 9) + (IF LastProbe(p) THEN 0 ELSE 2)

Rank(p) == IF pc[p] = "off" THEN 0 ELSE (Budget - waited[p]) + StepsLeft(p)

RankIsBounded ==
    \A p \in Procs : Rank(p) \in 0 .. Budget + 11 /\ (Rank(p) = 0 <=> ~Running(p))

\* A step of a command takes it down; no other step takes it up again.
GoesDown ==
    \A p \in Procs : /\ Act(p) => Rank(p)' < Rank(p)
                     /\ Running(p) => Rank(p)' <= Rank(p)

RankInv == TypeOK /\ NeverSleepsPastBudget

LEMMA RankType ==
    ASSUME RankInv, NEW p \in Procs
    PROVE  /\ Budget - waited[p] \in 0 .. Budget
           /\ pc[p] = "write" => Len(WriteOrder) - step[p] \in 0 .. 4
           /\ Rank(p) \in 0 .. Budget + 11 /\ (Rank(p) = 0 <=> ~Running(p))
<1>1. Budget \in Nat /\ Budget - waited[p] \in 0 .. Budget
  BY WaitAssumption DEF RankInv, TypeOK, NeverSleepsPastBudget
<1>2. pc[p] = "write" => Len(WriteOrder) - step[p] \in 0 .. 4
  BY DEF RankInv, TypeOK, WriteOrder
<1>3. StepsLeft(p) \in 1 .. 11
  <2>1. CASE pc[p] = "write"
    <3> DEFINE k == Len(WriteOrder) - step[p]
    <3>1. k \in 0 .. 4 BY <1>2, <2>1
    <3>2. StepsLeft(p) = 3 + k BY <2>1 DEF StepsLeft
    <3> QED BY <3>1, <3>2
  <2>2. CASE pc[p] # "write" BY <2>2 DEF StepsLeft
  <2> QED BY <2>1, <2>2
<1>4. CASE pc[p] = "off" BY <1>1, <1>2, <1>4 DEF Rank, Running
<1>5. CASE pc[p] # "off"
  <2> DEFINE a == Budget - waited[p]   k == StepsLeft(p)
  <2>1. Rank(p) = a + k /\ Running(p) BY <1>5 DEF Rank, Running
  <2>2. a \in 0 .. Budget /\ k \in 1 .. 11 BY <1>1, <1>3
  <2> HIDE DEF a, k
  <2>3. a + k \in 1 .. Budget + 11 BY <1>1, <2>2
  <2>4. Rank(p) \in 0 .. Budget + 11 /\ Rank(p) # 0 BY <1>1, <2>1, <2>3
  <2> QED BY <1>1, <1>2, <2>1, <2>4
<1> QED BY <1>4, <1>5

LEMMA RanksAreNatural == RankInv => \A p \in Procs : Rank(p) \in Nat
<1> SUFFICES ASSUME RankInv, NEW p \in Procs PROVE Rank(p) \in Nat OBVIOUS
<1>1. Rank(p) \in 0 .. Budget + 11 BY RankType
<1> QED BY <1>1, WaitAssumption

LEMMA RanksStayNatural == RankInv /\ [Next]_vars => \A p \in Procs : (Rank(p) \in Nat)'
<1>1. RankInv /\ [Next]_vars => RankInv' BY NextType, NextBudget DEF RankInv
<1>2. RankInv' => (\A p \in Procs : Rank(p) \in Nat)' BY RanksAreNatural, PTL
<1> QED BY <1>1, <1>2

\* A step of another process leaves what the rank of p is made of.
LEMMA RankOfOthers ==
    ASSUME NEW p \in Procs,
           pc'[p] = pc[p], waited'[p] = waited[p], step'[p] = step[p],
           cmd'[p] = cmd[p], seen'[p] = seen[p]
    PROVE  Rank(p)' = Rank(p)
BY DEF Rank, StepsLeft, LastProbe

\* A process that exits is at the bottom.
LEMMA FinishedRank ==
    ASSUME TypeOK, NEW p \in Procs, Finish(p)
    PROVE  /\ Rank(p)' = 0
           /\ \A q \in Procs \ {p} : Rank(q)' = Rank(q)
<1>1. Rank(p)' = 0 BY DEF Finish, TypeOK, Rank
<1>2. ASSUME NEW q \in Procs \ {p} PROVE Rank(q)' = Rank(q)
  <2>1. /\ pc'[q] = pc[q] /\ waited'[q] = waited[q] /\ step'[q] = step[q]
        /\ cmd'[q] = cmd[q] /\ seen'[q] = seen[q]
    BY DEF Finish, TypeOK
  <2> QED BY <2>1, RankOfOthers
<1> QED BY <1>1, <1>2

\* Every step of a command takes it down, and leaves the others where they are.
LEMMA ActGoesDown ==
    ASSUME RankInv, NEW p \in Procs, Act(p)
    PROVE  /\ Rank(p)' < Rank(p) /\ Running(p)
           /\ \A q \in Procs \ {p} : Rank(q)' = Rank(q)
<1> USE DEF local, disk, env, history, bounds
<1> DEFINE s == Budget - waited[p]
<1>1. /\ s \in Nat /\ (pc[p] = "write" => Len(WriteOrder) - step[p] \in 0 .. 4)
      /\ Rank(p) \in Nat /\ (Rank(p) = 0 <=> ~Running(p))
  BY RankType
<1>2. TypeOK BY DEF RankInv
<1>3. ASSUME Finish(p), Running(p) PROVE Rank(p)' < Rank(p) /\ \A q \in Procs \ {p} : Rank(q)' = Rank(q)
  BY <1>1, <1>2, <1>3, FinishedRank
<1>4. CASE Refuse(p) \/ Reread(p) \/ GiveUp(p)
  BY <1>3, <1>4 DEF Refuse, Reread, GiveUp, Running
<1>5. CASE ReadHeader(p) \/ ProbeAgain(p) \/ Plan(p) \/ Write(p) \/ Sync(p) \/ Nap(p)
  <2>1. \A q \in Procs \ {p} :
           /\ pc'[q] = pc[q] /\ waited'[q] = waited[q] /\ step'[q] = step[q]
           /\ cmd'[q] = cmd[q] /\ seen'[q] = seen[q]
    BY <1>2, <1>5 DEF TypeOK, ReadHeader, ProbeAgain, Plan, Write, Sync, Nap
  <2>2. \A q \in Procs \ {p} : Rank(q)' = Rank(q) BY <2>1, RankOfOthers
  <2>3. CASE ReadHeader(p)
    <3>1. /\ pc[p] = "header" /\ pc'[p] = "entries" /\ s' = s
          /\ (LastProbe(p)' <=> LastProbe(p))
      BY <1>2, <2>3 DEF TypeOK, ReadHeader, LastProbe
    <3> HIDE DEF s
    <3> QED BY <1>1, <2>2, <3>1 DEF Rank, StepsLeft, Running, s
  <2>4. CASE ProbeAgain(p)
    <3>1. /\ pc[p] = "entries" /\ pc'[p] = "header" /\ s' = s
          /\ LastProbe(p)' /\ ~LastProbe(p)
      BY <1>2, <2>4 DEF TypeOK, ProbeAgain, LastProbe
    <3> QED BY <1>1, <2>2, <3>1 DEF Rank, StepsLeft, Running
  <2>5. CASE Plan(p)
    <3>1. /\ pc[p] = "entries" /\ pc'[p] = "write" /\ s' = s
          /\ Len(WriteOrder) - step'[p] \in 0 .. 4
      BY <1>2, <2>5 DEF TypeOK, Plan, WriteOrder
    <3> QED BY <1>1, <2>2, <3>1 DEF Rank, StepsLeft, Running
  <2>6. CASE Write(p)
    <3> DEFINE k == Len(WriteOrder) - step[p]
    <3>1. /\ pc[p] = "write" /\ s' = s
          /\ pc'[p] = "sync" \/ (pc'[p] = "write" /\ k' = k - 1)
      BY <1>2, <2>6 DEF TypeOK, Write, WriteOrder
    <3>2. Running(p) /\ Rank(p) = s + (3 + k) BY <3>1 DEF Rank, StepsLeft, Running
    <3>3. Rank(p)' = s + 2 \/ (Rank(p)' = s + (3 + k') /\ k' = k - 1)
      BY <3>1 DEF Rank, StepsLeft
    <3>4. s \in Nat /\ k \in 0 .. 4 BY <1>1, <3>1
    <3> HIDE DEF s, k
    <3>5. Rank(p)' < Rank(p) BY <3>2, <3>3, <3>4
    <3> QED BY <2>2, <3>2, <3>5
  <2>7. CASE Sync(p)
    <3>1. pc[p] = "sync" /\ pc'[p] = "reread" /\ s' = s
      BY <1>2, <2>7 DEF TypeOK, Sync
    <3> QED BY <1>1, <2>2, <3>1 DEF Rank, StepsLeft, Running
  <2>8. CASE Nap(p)
    <3>1. pc[p] = "reread" /\ pc'[p] = "reread" /\ waited'[p] = waited[p] + NapOf(p)
      BY <1>2, <2>8 DEF TypeOK, Nap
    <3>2. waited[p] \in Nat /\ NapOf(p) \in Nat /\ NapOf(p) > 0
      BY <1>2, <2>8, WaitAssumption DEF TypeOK, Nap, MayRetry, NapOf, Least
    <3>3. Budget \in Nat /\ s' = s - NapOf(p) BY <3>1, <3>2, WaitAssumption
    <3> QED BY <1>1, <2>2, <3>1, <3>2, <3>3 DEF Rank, StepsLeft, Running
  <2> QED BY <1>5, <2>3, <2>4, <2>5, <2>6, <2>7, <2>8
<1> QED BY <1>4, <1>5 DEF Act

LEMMA NextGoesDown == ASSUME RankInv, [Next]_vars PROVE [GoesDown]_vars
<1> SUFFICES ASSUME Next, NEW p \in Procs
             PROVE  /\ Act(p) => Rank(p)' < Rank(p)
                    /\ Running(p) => Rank(p)' <= Rank(p)
  BY DEF GoesDown
<1>1. TypeOK /\ Rank(p) \in Nat BY RankType DEF RankInv
<1>8. Rank(p)' < Rank(p) => Rank(p)' <= Rank(p) BY <1>1, RanksStayNatural
<1>2. ASSUME NEW q \in Procs, Act(q) PROVE Running(p) => Rank(p)' <= Rank(p)
  <2>1. CASE q = p
    <3>1. Rank(p)' < Rank(p) BY <1>2, <2>1, ActGoesDown
    <3> QED BY <3>1, <1>8
  <2>2. CASE q # p BY <1>1, <1>2, <2>2, ActGoesDown
  <2> QED BY <2>1, <2>2
<1>3. ASSUME NEW q \in Procs, Fail(q) \/ Kill(q) PROVE Rank(p)' <= Rank(p)
  <2>1. Finish(q) BY <1>3 DEF Fail, Kill
  <2>2. Rank(p)' \in {0, Rank(p)} BY <1>1, <2>1, FinishedRank
  <2> QED BY <1>1, <2>2
<1>4. ASSUME NEW q \in Procs, NEW v \in Verbs, NEW f \in BOOLEAN, Open(q, v, f), Running(p)
      PROVE  Rank(p)' <= Rank(p)
  <2>1. q # p BY <1>4 DEF Open
  <2>2. /\ pc'[p] = pc[p] /\ waited'[p] = waited[p] /\ step'[p] = step[p]
        /\ cmd'[p] = cmd[p] /\ seen'[p] = seen[p]
    BY <1>1, <1>4, <2>1 DEF Open, TypeOK
  <2> QED BY <1>1, <2>2, RankOfOthers
<1>5. ASSUME (\E r \in Regions : Writeback(r)) \/ Mount \/ ProbeDevice
      PROVE  Rank(p)' <= Rank(p)
  <2>1. /\ pc'[p] = pc[p] /\ waited'[p] = waited[p] /\ step'[p] = step[p]
        /\ cmd'[p] = cmd[p] /\ seen'[p] = seen[p]
    BY <1>5 DEF Writeback, Mount, ProbeDevice, local
  <2> QED BY <1>1, <2>1, RankOfOthers
<1>6. ASSUME Crash PROVE Rank(p)' <= Rank(p)
  <2>1. Rank(p)' = 0 BY <1>6 DEF Crash, Rank
  <2> QED BY <1>1, <2>1
<1>7. Act(p) => Rank(p)' < Rank(p) BY ActGoesDown
<1> QED BY <1>2, <1>3, <1>4, <1>5, <1>6, <1>7 DEF Next

\* A command of `part` is over after at most Budget + 11 steps of its own,
\* whatever other commands, mounts, writeback and power losses come between:
\* no probe, no busy partition and no other writer makes it start over.
THEOREM CommandsGoDown == Spec => [][GoesDown]_vars
<1>1. RankInv /\ [Next]_vars => [GoesDown]_vars BY NextGoesDown
<1> QED BY <1>1, TypeCorrect, SleepsWithinBudget, PTL DEF Spec, RankInv

\* That distance never exceeds Budget + 11, and it is zero exactly when no
\* command runs: `create` is started at most Budget + 9 steps from its end.
THEOREM RanksAreBounded == Spec => []RankIsBounded
<1>1. RankInv => RankIsBounded BY RankType DEF RankIsBounded
<1> QED BY <1>1, TypeCorrect, SleepsWithinBudget, PTL DEF RankInv
=============================================================================
