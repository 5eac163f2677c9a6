--------------------------- MODULE GptTableProofs ---------------------------
(***************************************************************************)
(* What holds of every table `part` writes, for every disk, alignment,     *)
(* array geometry and foreign table.                                       *)
(***************************************************************************)
EXTENDS GptTable, WellFoundedInduction, TLAPS

Entries(es) == es \in [DOMAIN es -> Extent \cup {Unused}]

-----------------------------------------------------------------------------
(* Rounding *)

\* align_up goes up, to a multiple of the alignment, by less than one unit.
LEMMA RoundUpProperties ==
  ASSUME NEW v \in Nat
  PROVE  /\ RoundUp(v) \in Nat
         /\ v <= RoundUp(v) /\ RoundUp(v) < v + Align
         /\ RoundUp(v) % Align = 0
  BY GeometryAssumption DEF RoundUp

\* Below the last unit of the address space the product does not wrap.
LEMMA AlignUpProperties ==
  ASSUME NEW v \in Nat, v + Align <= LbaLimit
  PROVE  /\ AlignUp(v) \in Nat
         /\ v <= AlignUp(v)
         /\ AlignUp(v) % Align = 0
  <1>1. RoundUp(v) \in 0 .. (LbaLimit - 1)
    BY RoundUpProperties, GeometryAssumption
  <1>2. AlignUp(v) = RoundUp(v)
    BY <1>1, GeometryAssumption DEF AlignUp
  <1> QED
    BY <1>2, RoundUpProperties

\* Arrays of at least one slot take at least one sector.
LEMMA ArraySectorsNat ==
  ASSUME NEW n \in Nat
  PROVE  ArraySectors(n) \in Nat /\ (n # 0 => ArraySectors(n) # 0)
  BY GeometryAssumption DEF ArraySectors

LEMMA UsedIsExtent ==
  ASSUME NEW es, Entries(es), NEW i \in Used(es)
  PROVE  i \in DOMAIN es /\ es[i] \in Extent
                         /\ es[i].start \in Nat /\ es[i].end \in Nat
  BY DEF Entries, Used, Extent, Lba

-----------------------------------------------------------------------------
(* Free extents *)

\* A boundary the scan stops at is aligned, and not below what it has passed.
LEMMA CursorProperties ==
  ASSUME NEW h \in Header, NEW es, Entries(es), Representable(es),
         h.first_usable_lba + Align <= LbaLimit,
         NEW passed \in SUBSET Used(es),
         NEW c, IsCursor(c, h, es, passed)
  PROVE  /\ c \in Nat /\ c % Align = 0 /\ c >= h.first_usable_lba
         /\ \A i \in passed : c > es[i].end
  <1> DEFINE First == AlignUp(h.first_usable_lba)
             After(i) == AlignUp(SaturatingSucc(es[i].end))
  <1>1. First \in Nat /\ First >= h.first_usable_lba /\ First % Align = 0
    BY AlignUpProperties DEF Header, Lba
  <1>2. ASSUME NEW i \in passed
        PROVE  After(i) \in Nat /\ After(i) > es[i].end /\ After(i) % Align = 0
    <2>1. es[i].end \in Nat /\ es[i].end + Align < LbaLimit
      BY UsedIsExtent DEF Representable
    <2>2. SaturatingSucc(es[i].end) = es[i].end + 1
      BY <2>1, GeometryAssumption DEF SaturatingSucc
    <2> QED
      BY <2>1, <2>2, AlignUpProperties, GeometryAssumption
  <1>3. First <= c /\ \A i \in passed : After(i) <= c
    BY DEF IsCursor, Stops
  <1>4. c = First \/ \E i \in passed : c = After(i)
    BY DEF IsCursor, Stops
  <1>5. c \in Nat /\ c % Align = 0
    BY <1>1, <1>2, <1>4
  <1>6. c >= h.first_usable_lba
    BY <1>1, <1>3, <1>5 DEF Header, Lba
  <1>7. ASSUME NEW i \in passed PROVE c > es[i].end
    BY <1>2, <1>3, <1>5, UsedIsExtent
  <1> QED
    BY <1>5, <1>6, <1>7

\* A free extent starts on a boundary, in the usable range, and shares no
\* sector with a used entry that does not end before it starts.
LEMMA FreeExtentProperties ==
  ASSUME NEW h \in Header, NEW es, Entries(es), Representable(es),
         h.first_usable_lba + Align <= LbaLimit,
         NEW x \in FreeExtents(h, es)
  PROVE  /\ x \in Extent /\ x.start <= x.end
         /\ x.start % Align = 0 /\ x.start >= h.first_usable_lba
         /\ \/ x.end = h.last_usable_lba
            \/ \E i \in Used(es) : x.end < es[i].start
         /\ \A i \in Used(es) : es[i].start <= es[i].end => ~Overlap(x, es[i])
  <1>0. /\ x = [start |-> x.start, end |-> x.end]
        /\ IsTail(x, h, es) \/ \E i \in Used(es) : IsGapBefore(x, h, es, i)
    BY DEF FreeExtents
  <1>1. CASE IsTail(x, h, es)
    <2>1. /\ x.start \in Nat /\ x.start % Align = 0 /\ x.start >= h.first_usable_lba
          /\ \A i \in Used(es) : x.start > es[i].end
      BY <1>1, CursorProperties DEF IsTail
    <2>2. x.end = h.last_usable_lba /\ x.start <= x.end /\ x.end \in Nat
      BY <1>1 DEF IsTail, Header, Lba
    <2>3. ASSUME NEW i \in Used(es) PROVE ~Overlap(x, es[i])
      BY <2>1, <2>2, UsedIsExtent DEF Overlap
    <2> QED
      BY <1>0, <2>1, <2>2, <2>3 DEF Extent, Lba
  <1>2. ASSUME NEW i \in Used(es), IsGapBefore(x, h, es, i)
        PROVE  /\ x \in Extent /\ x.start <= x.end
               /\ x.start % Align = 0 /\ x.start >= h.first_usable_lba
               /\ x.end < es[i].start
               /\ \A j \in Used(es) : es[j].start <= es[j].end => ~Overlap(x, es[j])
    <2>0. Before(es, i) \in SUBSET Used(es)
      BY DEF Before
    <2>1. /\ x.start \in Nat /\ x.start % Align = 0 /\ x.start >= h.first_usable_lba
          /\ \A j \in Before(es, i) : x.start > es[j].end
      BY <1>2, <2>0, CursorProperties DEF IsGapBefore
    <2>2. es[i].start \in Nat /\ x.start < es[i].start /\ x.end = es[i].start - 1
      BY <1>2, <2>1, UsedIsExtent DEF IsGapBefore
    <2>3. ASSUME NEW j \in Used(es), es[j].start <= es[j].end
          PROVE  ~Overlap(x, es[j])
      <3>0. es[j].start \in Nat /\ es[j].end \in Nat
        BY UsedIsExtent
      <3>1. CASE j \in Before(es, i)
        BY <3>0, <3>1, <2>1, <2>2 DEF Overlap
      <3>2. CASE j \notin Before(es, i)
        <4>1. es[j].start >= es[i].start
          BY <3>0, <3>2, <2>2 DEF Before
        <4> QED
          BY <3>0, <4>1, <2>2 DEF Overlap
      <3> QED
        BY <3>1, <3>2
    <2> QED
      BY <1>0, <2>1, <2>2, <2>3 DEF Extent, Lba
  <1> QED
    BY <1>0, <1>1, <1>2

-----------------------------------------------------------------------------
(* Types *)

LEMMA FreeExtentIsExtent ==
  ASSUME NEW h \in Header, NEW es, Entries(es), NEW x \in FreeExtents(h, es)
  PROVE  x \in Extent /\ x.start <= x.end
  <1>1. \A v \in Nat : AlignUp(v) \in Nat
    BY RoundUpProperties, GeometryAssumption DEF AlignUp
  <1>2. \A i \in Used(es) : SaturatingSucc(es[i].end) \in Nat
    BY UsedIsExtent DEF SaturatingSucc
  <1>3. x.start \in Nat /\ x = [start |-> x.start, end |-> x.end]
    BY <1>1, <1>2 DEF FreeExtents, Stops, Header, Lba
  <1>4. CASE IsTail(x, h, es)
    BY <1>3, <1>4 DEF IsTail, Header, Extent, Lba
  <1>5. CASE \E i \in Used(es) : IsGapBefore(x, h, es, i)
    <2>1. PICK i \in Used(es) : IsGapBefore(x, h, es, i)
      BY <1>5
    <2>2. es[i].start \in Nat /\ x.end = es[i].start - 1 /\ x.start < es[i].start
      BY <2>1, <1>3, UsedIsExtent DEF IsGapBefore
    <2> QED
      BY <1>3, <2>2 DEF Extent, Lba
  <1> QED
    BY <1>4, <1>5 DEF FreeExtents

\* The table `create` builds is one that `probe` accepts.
LEMMA FreshHeaderAccepted ==
  ASSUME NEW n \in Nat, n >= MinimumSectors
  PROVE  FreshHeader(n) \in Header /\ Accepts(FreshHeader(n), n)
  <1> DEFINE a == ArraySectors(NumEntries)
  <1>1. a \in Nat \ {0}
    BY ArraySectorsNat, GeometryAssumption
  <1>2. n >= 4 + 2 * a
    BY <1>1, GeometryAssumption DEF MinimumSectors
  <1>3. FreshHeader(n) \in Header
    BY <1>1, <1>2, GeometryAssumption DEF FreshHeader, Header, Lba
  <1> HIDE DEF a
  <1>4. Accepts(FreshHeader(n), n)
    BY <1>1, <1>2 DEF a, FreshHeader, Accepts, PrimaryClear
  <1> QED
    BY <1>3, <1>4

\* A table that was accepted and is written back is accepted again: moving the
\* backup to the last sector only moves it up.
LEMMA HeaderForAccepted ==
  ASSUME NEW n \in Nat, NEW h \in Header, Accepts(h, n)
  PROVE  HeaderFor(h, n) \in Header /\ Accepts(HeaderFor(h, n), n)
  <1>1. ArraySectors(h.num_entries) \in Nat
    BY ArraySectorsNat DEF Header
  <1>2. n - 1 \in Nat /\ n - 1 >= h.alternate_lba
    BY DEF Accepts, PrimaryClear, Header, Lba
  <1>3. HeaderFor(h, n) \in Header /\ HeaderFor(h, n).alternate_lba = n - 1
    BY <1>2 DEF HeaderFor, Header, Lba
  <1>4. /\ HeaderFor(h, n).num_entries = h.num_entries
        /\ HeaderFor(h, n).entry_array_lba = h.entry_array_lba
        /\ HeaderFor(h, n).first_usable_lba = h.first_usable_lba
        /\ HeaderFor(h, n).last_usable_lba = h.last_usable_lba
    BY DEF HeaderFor, Header
  <1> QED
    BY <1>1, <1>2, <1>3, <1>4 DEF Accepts, PrimaryClear, Header, Lba

\* HeaderFor applied to a fresh header changes nothing.
LEMMA HeaderForFresh ==
  ASSUME NEW n \in Nat
  PROVE  HeaderFor(FreshHeader(n), n) = FreshHeader(n)
  BY DEF HeaderFor, FreshHeader

\* The sizes asked of `add` are positive, and what it carves out of a free
\* extent lies in that extent.
LEMMA CarvedIsExtent ==
  ASSUME NEW h \in Header, NEW es, Entries(es), NEW n \in Sizes,
         NEW x \in FreeExtents(h, es), FirstFit(x, h, es, n)
  PROVE  /\ [start |-> x.start, end |-> x.start + n - 1] \in Extent
         /\ x.start <= x.start + n - 1 /\ x.start + n - 1 <= x.end
  <1>1. x \in Extent /\ Sectors(x) >= n
    BY FreeExtentIsExtent DEF FirstFit, Fitting
  <1> QED
    BY <1>1, GeometryAssumption DEF Sectors, Extent, Lba

\* Both forms of `add` put an extent y, which starts where a free extent does
\* and ends inside it, into an unused slot.
LEMMA AddPlaces ==
  ASSUME TypeOK, AddMax \/ \E n \in Sizes : Add(n)
  PROVE  /\ HasGpt /\ header \in Header /\ Entries(entries)
         /\ \E i \in DOMAIN entries, x \in FreeExtents(header, entries), y \in Extent :
               /\ entries[i] = Unused
               /\ y.start = x.start /\ y.start <= y.end /\ y.end <= x.end
               /\ Commit(header, [entries EXCEPT ![i] = y])
  <1>1. HasGpt /\ header \in Header /\ Entries(entries)
    BY DEF TypeOK, HasGpt, Add, AddMax, Entries
  <1>2. CASE AddMax
    <2>1. PICK i \in DOMAIN entries, x \in FreeExtents(header, entries) :
             /\ FirstUnused(i, entries)
             /\ Commit(header, [entries EXCEPT ![i] = x])
      BY <1>2 DEF AddMax
    <2>2. x \in Extent /\ x.start <= x.end /\ x.end <= x.end
      BY <1>1, FreeExtentIsExtent DEF Extent, Lba
    <2> QED
      BY <1>1, <2>1, <2>2 DEF FirstUnused
  <1>3. ASSUME NEW n \in Sizes, Add(n)
        PROVE  \E i \in DOMAIN entries, x \in FreeExtents(header, entries), y \in Extent :
                  /\ entries[i] = Unused
                  /\ y.start = x.start /\ y.start <= y.end /\ y.end <= x.end
                  /\ Commit(header, [entries EXCEPT ![i] = y])
    <2>1. PICK i \in DOMAIN entries, x \in FreeExtents(header, entries) :
             /\ FirstUnused(i, entries)
             /\ FirstFit(x, header, entries, n)
             /\ Commit(header, [entries EXCEPT ![i] =
                           [start |-> x.start, end |-> x.start + n - 1]])
      BY <1>3 DEF Add
    <2> DEFINE y == [start |-> x.start, end |-> x.start + n - 1]
    <2>2. y \in Extent /\ y.start = x.start /\ y.start <= y.end /\ y.end <= x.end
      BY <1>1, <2>1, CarvedIsExtent
    <2> QED
      BY <2>1, <2>2 DEF FirstUnused
  <1> QED
    BY <1>1, <1>2, <1>3

\* What the commands do to the header: they write one that was accepted, or a
\* fresh one, and each is accepted on the disk it is written to.
LEMMA CommandsWriteAccepted ==
  ASSUME TypeOK, Next
  PROVE  \/ header' \in Header /\ Accepts(header', sectors) /\ sectors' = sectors
         \/ UNCHANGED <<header, entries>> /\ sectors' \in DiskSizes
  <1>0. sectors \in Nat
    BY ForeignAssumption, GeometryAssumption DEF TypeOK
  <1>1. ASSUME NEW force \in BOOLEAN, Create(force)
        PROVE  header' \in Header /\ Accepts(header', sectors) /\ sectors' = sectors
    <2>1. header' = FreshHeader(sectors) /\ sectors' = sectors /\ sectors >= MinimumSectors
      BY <1>0, <1>1, HeaderForFresh DEF Create, Commit
    <2> QED
      BY <1>0, <2>1, FreshHeaderAccepted
  <1>2. ASSUME NEW es, HasGpt, Commit(header, es)
        PROVE  header' \in Header /\ Accepts(header', sectors) /\ sectors' = sectors
    BY <1>0, <1>2, HeaderForAccepted DEF Commit, HasGpt, TypeOK
  <1>3. CASE AddMax \/ \E n \in Sizes : Add(n)
    BY <1>2, <1>3, AddPlaces
  <1>4. CASE \E i \in DOMAIN entries : Del(i)
    BY <1>2, <1>4 DEF Del
  <1>5. CASE \E n \in DiskSizes : Resize(n)
    BY <1>5 DEF Resize
  <1> QED
    BY <1>1, <1>3, <1>4, <1>5 DEF Next

\* Every table part reads and writes has its types: in particular the array
\* always has exactly the slots the header announces, foreign or fresh.
THEOREM TypeCorrect == Spec => []TypeOK
  <1>1. Init => TypeOK
    <2> SUFFICES ASSUME Init PROVE TypeOK
      OBVIOUS
    <2>1. CASE header = NoGpt /\ entries = <<>>
      BY <2>1 DEF Init, TypeOK
    <2>2. CASE header # NoGpt
      BY <2>2, ForeignAssumption DEF Init, TypeOK
    <2> QED
      BY <2>1, <2>2, ForeignAssumption DEF Init
  <1>2. TypeOK /\ [Next]_vars => TypeOK'
    <2> SUFFICES ASSUME TypeOK, [Next]_vars PROVE TypeOK'
      OBVIOUS
    <2> USE DEF TypeOK
    <2>1. ASSUME NEW force \in BOOLEAN, Create(force) PROVE TypeOK'
      <3>1. /\ header' = FreshHeader(sectors) /\ sectors' = sectors
            /\ entries' = [i \in 1 .. NumEntries |-> Unused]
            /\ sectors \in Nat /\ sectors >= MinimumSectors
        BY <2>1, HeaderForFresh, ForeignAssumption, GeometryAssumption DEF Create, Commit
      <3>2. header' \in Header /\ header'.num_entries = NumEntries
        BY <3>1, FreshHeaderAccepted DEF FreshHeader
      <3> QED
        BY <3>1, <3>2, ForeignAssumption
    <2>2. ASSUME HasGpt, NEW i \in DOMAIN entries, NEW y \in Extent \cup {Unused},
                 Commit(header, [entries EXCEPT ![i] = y])
          PROVE  TypeOK'
      <3>1. /\ header' \in Header /\ header'.num_entries = header.num_entries
            /\ sectors' = sectors
        <4>1. sectors \in Nat /\ header \in Header /\ Accepts(header, sectors)
          BY <2>2, ForeignAssumption, GeometryAssumption DEF HasGpt
        <4> QED
          BY <4>1, <2>2, HeaderForAccepted DEF Commit, HeaderFor, Header
      <3>2. entries' = [entries EXCEPT ![i] = y]
        BY <2>2 DEF Commit
      <3>3. DOMAIN entries' = 1 .. header'.num_entries
        BY <3>1, <3>2, <2>2 DEF HasGpt
      <3> QED
        BY <3>1, <3>2, <3>3, ForeignAssumption
    <2>3. CASE AddMax \/ \E n \in Sizes : Add(n)
      BY <2>2, <2>3, AddPlaces
    <2>4. CASE \E i \in DOMAIN entries : Del(i)
      BY <2>2, <2>4 DEF Del
    <2>5. CASE \E n \in DiskSizes : Resize(n)
      BY <2>5 DEF Resize
    <2>6. CASE UNCHANGED vars
      BY <2>6 DEF vars
    <2> QED
      BY <2>1, <2>3, <2>4, <2>5, <2>6 DEF Next
  <1> QED
    BY <1>1, <1>2, PTL DEF Spec

-----------------------------------------------------------------------------
(* Theorems *)

\* What part writes, part accepts: no command leaves a header that the next
\* probe on the same disk calls damaged, whatever geometry it carried over.
THEOREM WrittenTablesParse == Spec => WrittenTableParses
  <1>1. TypeOK /\ [Next]_vars
          => [header' # header \/ entries' # entries => Accepts(header', sectors)]_vars
    BY CommandsWriteAccepted DEF vars
  <1> QED
    BY <1>1, TypeCorrect, PTL DEF Spec, WrittenTableParses

\* A commit never writes over a partition inside the usable range, on a disk
\* that has grown since the table was made as on any other.
THEOREM CommitsSparePartitions == Spec => []CommitSparesPartitions
  <1>1. TypeOK => CommitSparesPartitions
    <2> SUFFICES ASSUME TypeOK, HasGpt, NEW i \in Used(entries),
                        entries[i].start >= header.first_usable_lba,
                        entries[i].end <= header.last_usable_lba,
                        NEW l \in entries[i].start .. entries[i].end,
                        l \in CommitSectors(header, sectors)
                 PROVE  FALSE
      BY DEF CommitSparesPartitions
    <2> DEFINE a == ArraySectors(header.num_entries)
    <2>1. sectors \in Nat /\ header \in Header /\ a \in Nat
      BY ForeignAssumption, GeometryAssumption, ArraySectorsNat DEF TypeOK, HasGpt, Header
    <2>2. entries[i].start \in Nat /\ entries[i].end \in Nat
      BY UsedIsExtent DEF TypeOK, Entries
    <2>3. /\ header.entry_array_lba \in Nat /\ header.entry_array_lba >= 2
          /\ header.entry_array_lba + a <= header.first_usable_lba
          /\ header.last_usable_lba < header.alternate_lba - a
          /\ header.alternate_lba < sectors
      BY <2>1 DEF HasGpt, Accepts, PrimaryClear, Header, Lba
    <2>4. /\ header.first_usable_lba \in Nat /\ header.last_usable_lba \in Nat
          /\ header.alternate_lba \in Nat
      BY <2>1 DEF Header, Lba
    <2>5. \/ l \in {0, 1, sectors - 1}
          \/ l \in header.entry_array_lba .. (header.entry_array_lba + a - 1)
          \/ l \in (sectors - 1 - a) .. (sectors - 2)
      BY DEF CommitSectors
    <2> HIDE DEF a
    <2> QED
      BY <2>1, <2>2, <2>3, <2>4, <2>5
  <1> QED
    BY <1>1, TypeCorrect, PTL

\* In a sound table on a disk part accepts, no end is near the width of an LBA.
LEMMA SoundIsRepresentable ==
  ASSUME TypeOK, HasGpt, Sound(header, entries)
  PROVE  /\ Representable(entries)
         /\ header.first_usable_lba + Align <= LbaLimit
  <1>1. /\ header \in Header /\ sectors \in Nat /\ sectors + Align <= LbaLimit
        /\ header.first_usable_lba <= header.last_usable_lba
        /\ header.last_usable_lba < sectors
    BY ForeignAssumption, GeometryAssumption DEF TypeOK, HasGpt, Accepts, PrimaryClear
  <1>2. header.first_usable_lba \in Nat /\ header.last_usable_lba \in Nat
    BY <1>1 DEF Header, Lba
  <1>3. ASSUME NEW i \in Used(entries) PROVE entries[i].end + Align < LbaLimit
    <2>1. entries[i].end \in Nat /\ entries[i].end <= header.last_usable_lba
      BY UsedIsExtent DEF TypeOK, Entries, Sound
    <2> QED
      BY <1>1, <1>2, <2>1, GeometryAssumption
  <1> QED
    BY <1>1, <1>2, <1>3, GeometryAssumption DEF Representable

\* Putting the front of a free extent into an unused slot of a sound table
\* leaves it sound.
LEMMA PlacingKeepsSound ==
  ASSUME NEW h \in Header, NEW es, Entries(es), Representable(es),
         h.first_usable_lba + Align <= LbaLimit,
         Sound(h, es),
         NEW i \in DOMAIN es, es[i] = Unused,
         NEW x \in FreeExtents(h, es), NEW y \in Extent,
         y.start = x.start, y.start <= y.end, y.end <= x.end
  PROVE  Sound(h, [es EXCEPT ![i] = y])
  <1> DEFINE fs == [es EXCEPT ![i] = y]
  <1>1. /\ x \in Extent /\ x.start % Align = 0 /\ x.start >= h.first_usable_lba
        /\ \/ x.end = h.last_usable_lba
           \/ \E j \in Used(es) : x.end < es[j].start
        /\ \A j \in Used(es) : es[j].start <= es[j].end => ~Overlap(x, es[j])
    BY FreeExtentProperties
  <1>2. /\ x.start \in Nat /\ x.end \in Nat /\ y.start \in Nat /\ y.end \in Nat
        /\ h.last_usable_lba \in Nat
    BY <1>1 DEF Extent, Header, Lba
  <1>3. Used(fs) = Used(es) \cup {i} /\ i \notin Used(es)
    BY ForeignAssumption DEF Used, Entries
  <1>4. fs[i] = y /\ \A j \in Used(es) : fs[j] = es[j]
    BY <1>3, UsedIsExtent DEF Entries
  <1>5. y.end <= h.last_usable_lba
    <2>1. CASE x.end = h.last_usable_lba
      BY <2>1, <1>2
    <2>2. CASE \E j \in Used(es) : x.end < es[j].start
      <3>1. PICK j \in Used(es) : x.end < es[j].start
        BY <2>2
      <3>2. /\ es[j].start \in Nat /\ es[j].end \in Nat
            /\ es[j].start <= es[j].end /\ es[j].end <= h.last_usable_lba
        BY UsedIsExtent DEF Sound
      <3> QED
        BY <3>1, <3>2, <1>2
    <2> QED
      BY <1>1, <2>1, <2>2
  <1>6. ASSUME NEW j \in Used(es) PROVE ~Overlap(y, es[j]) /\ ~Overlap(es[j], y)
    <2>1. ~Overlap(x, es[j]) /\ es[j].start \in Nat /\ es[j].end \in Nat
      BY <1>1, UsedIsExtent DEF Sound
    <2> QED
      BY <1>2, <2>1 DEF Overlap
  <1> HIDE DEF fs
  <1>7. ASSUME NEW j \in Used(fs)
        PROVE  /\ fs[j].start >= h.first_usable_lba /\ fs[j].end <= h.last_usable_lba
               /\ fs[j].start <= fs[j].end
               /\ fs[j].start % Align = 0
    <2>1. CASE j = i
      BY <2>1, <1>1, <1>4, <1>5
    <2>2. CASE j \in Used(es)
      BY <2>2, <1>4 DEF Sound
    <2> QED
      BY <1>3, <2>1, <2>2
  <1>8. ASSUME NEW j \in Used(fs), NEW k \in Used(fs), j # k
        PROVE  ~Overlap(fs[j], fs[k])
    <2>1. CASE j = i \/ k = i
      BY <2>1, <1>3, <1>4, <1>6, <1>8
    <2>2. CASE j \in Used(es) /\ k \in Used(es)
      BY <2>2, <1>4, <1>8 DEF Sound
    <2> QED
      BY <1>3, <2>1, <2>2
  <1> QED
    BY <1>7, <1>8 DEF Sound, fs

\* Sound looks at no field of the header that a commit changes.
LEMMA SoundCommitted ==
  ASSUME NEW h \in Header, NEW n, NEW es
  PROVE  Sound(HeaderFor(h, n), es) <=> Sound(h, es)
  <1>1. /\ HeaderFor(h, n).first_usable_lba = h.first_usable_lba
        /\ HeaderFor(h, n).last_usable_lba = h.last_usable_lba
    BY DEF HeaderFor, Header
  <1> QED
    BY <1>1 DEF Sound

\* No command makes `part verify` complain of a table it had no complaint
\* about: every addition is aligned, usable and clear of every partition.
THEOREM SoundTablesStaySound == Spec => SoundStaysSound
  <1>1. TypeOK /\ [Next]_vars
          => [header # NoGpt /\ Sound(header, entries) => Sound(header', entries')]_vars
    <2> SUFFICES ASSUME TypeOK, Next, header # NoGpt, Sound(header, entries)
                 PROVE  Sound(header', entries')
      BY DEF vars
    <2>0. header \in Header /\ Entries(entries)
      BY DEF TypeOK, Entries
    <2>1. ASSUME NEW force \in BOOLEAN, Create(force) PROVE Sound(header', entries')
      <3>1. Used(entries') = {}
        BY <2>1 DEF Create, Commit, Used
      <3> QED
        BY <3>1 DEF Sound
    <2>2. CASE AddMax \/ \E n \in Sizes : Add(n)
      <3>1. HasGpt /\ \E i \in DOMAIN entries, x \in FreeExtents(header, entries), y \in Extent :
               /\ entries[i] = Unused
               /\ y.start = x.start /\ y.start <= y.end /\ y.end <= x.end
               /\ Commit(header, [entries EXCEPT ![i] = y])
        BY <2>2, AddPlaces
      <3>2. PICK i \in DOMAIN entries, x \in FreeExtents(header, entries), y \in Extent :
               /\ entries[i] = Unused
               /\ y.start = x.start /\ y.start <= y.end /\ y.end <= x.end
               /\ Commit(header, [entries EXCEPT ![i] = y])
        BY <3>1
      <3>3. Sound(header, [entries EXCEPT ![i] = y])
        BY <2>0, <3>1, <3>2, SoundIsRepresentable, PlacingKeepsSound
      <3> QED
        BY <2>0, <3>2, <3>3, SoundCommitted DEF Commit
    <2>3. CASE \E i \in DOMAIN entries : Del(i)
      <3>1. PICK i \in DOMAIN entries : Del(i)
        BY <2>3
      <3>2. /\ Used([entries EXCEPT ![i] = Unused]) = Used(entries) \ {i}
            /\ \A j \in Used(entries) \ {i} : [entries EXCEPT ![i] = Unused][j] = entries[j]
        BY <2>0 DEF Used, Entries
      <3>3. Sound(header, [entries EXCEPT ![i] = Unused])
        BY <3>2 DEF Sound
      <3> QED
        BY <2>0, <3>1, <3>3, SoundCommitted DEF Del, Commit
    <2>4. CASE \E n \in DiskSizes : Resize(n)
      BY <2>4 DEF Resize
    <2> QED
      BY <2>1, <2>2, <2>3, <2>4 DEF Next
  <1> QED
    BY <1>1, TypeCorrect, PTL DEF Spec, SoundStaysSound

-----------------------------------------------------------------------------
(* Free extents of any table, sound or not *)

RepresentableExtent(x) == x.start + Align < LbaLimit /\ x.end + Align < LbaLimit

\* The used entries stay within the LBAs that can be rounded up.
InRange == \A i \in Used(entries) : RepresentableExtent(entries[i])

\* No free extent holds a sector of a used entry, in any array where no rounding
\* wraps, sound or not: what the scan offers when part adds is unallocated.
THEOREM FreeExtentsUnallocated == Spec => []FreeExtentsAreUnallocated
  <1>1. TypeOK => FreeExtentsAreUnallocated
    <2> SUFFICES ASSUME TypeOK, HasGpt, Representable(entries)
                 PROVE  FreeExtentsAreUnallocated
      BY DEF FreeExtentsAreUnallocated
    <2>1. header \in Header /\ Entries(entries)
      BY DEF TypeOK, HasGpt, Entries
    <2>2. header.first_usable_lba + Align <= LbaLimit
      BY <2>1, ForeignAssumption, GeometryAssumption
         DEF TypeOK, HasGpt, Accepts, PrimaryClear, Header, Lba
    <2> QED
      BY <2>1, <2>2, FreeExtentProperties DEF FreeExtentsAreUnallocated
  <1> QED
    BY <1>1, TypeCorrect, PTL

\* And part itself makes no entry at which the rounding wraps: only an entry that
\* another tool left within one alignment unit of the width can be one.
THEOREM RoundingNeverWraps ==
  ASSUME \A x \in ForeignEntries : RepresentableExtent(x)
  PROVE  Spec => []Representable(entries)
  <1>1. Init => InRange
    <2> SUFFICES ASSUME Init, NEW i \in Used(entries) PROVE RepresentableExtent(entries[i])
      BY DEF InRange
    <2>1. CASE entries = <<>>
      BY <2>1 DEF Used
    <2>2. CASE entries \in [1 .. header.num_entries -> ForeignEntries \cup {Unused}]
      BY <2>2 DEF Used
    <2> QED
      BY <2>1, <2>2 DEF Init
  <1>2. TypeOK /\ InRange /\ [Next]_vars => InRange'
    <2> SUFFICES ASSUME TypeOK, InRange, [Next]_vars PROVE InRange'
      OBVIOUS
    <2>0. Entries(entries)
      BY DEF TypeOK, Entries
    <2>1. ASSUME NEW force \in BOOLEAN, Create(force) PROVE InRange'
      BY <2>1 DEF Create, Commit, Used, InRange
    <2>2. CASE AddMax \/ \E n \in Sizes : Add(n)
      <3>1. HasGpt /\ header \in Header
                   /\ \E i \in DOMAIN entries, x \in FreeExtents(header, entries), y \in Extent :
               /\ entries[i] = Unused
               /\ y.start = x.start /\ y.start <= y.end /\ y.end <= x.end
               /\ Commit(header, [entries EXCEPT ![i] = y])
        BY <2>2, AddPlaces
      <3>2. PICK i \in DOMAIN entries, x \in FreeExtents(header, entries), y \in Extent :
               /\ entries[i] = Unused
               /\ y.start = x.start /\ y.start <= y.end /\ y.end <= x.end
               /\ Commit(header, [entries EXCEPT ![i] = y])
        BY <3>1
      <3>3. x.end + Align < LbaLimit
        <4>1. /\ header.first_usable_lba \in Nat /\ header.last_usable_lba \in Nat
              /\ header.first_usable_lba <= header.last_usable_lba
              /\ header.last_usable_lba < sectors /\ sectors \in Nat
              /\ sectors + Align <= LbaLimit
          BY <3>1, ForeignAssumption, GeometryAssumption
             DEF TypeOK, HasGpt, Accepts, PrimaryClear, Header, Lba
        <4>2. Representable(entries) /\ header.first_usable_lba + Align <= LbaLimit
          BY <4>1, GeometryAssumption DEF InRange, RepresentableExtent, Representable
        <4>3. /\ x \in Extent
              /\ \/ x.end = header.last_usable_lba
                 \/ \E j \in Used(entries) : x.end < entries[j].start
          BY <2>0, <3>1, <4>2, FreeExtentProperties
        <4>4. \A j \in Used(entries) :
                 entries[j].start \in Nat /\ entries[j].start + Align < LbaLimit
          BY <2>0, UsedIsExtent DEF InRange, RepresentableExtent
        <4> QED
          BY <4>1, <4>3, <4>4, GeometryAssumption DEF Extent, Lba
      <3>4. RepresentableExtent(y)
        <4>1. x \in Extent
          BY <2>0, <3>1, FreeExtentIsExtent
        <4> QED
          BY <3>2, <3>3, <4>1, GeometryAssumption DEF RepresentableExtent, Extent, Lba
      <3> QED
        BY <2>0, <3>2, <3>4 DEF Commit, Used, InRange, Entries
    <2>3. CASE \E i \in DOMAIN entries : Del(i)
      BY <2>0, <2>3 DEF Del, Commit, Used, InRange, Entries
    <2>4. CASE \E n \in DiskSizes : Resize(n)
      BY <2>4 DEF Resize, InRange
    <2>5. CASE UNCHANGED vars
      BY <2>5 DEF vars, InRange
    <2> QED
      BY <2>1, <2>2, <2>3, <2>4, <2>5 DEF Next
  <1>3. InRange => Representable(entries)
    BY DEF InRange, RepresentableExtent, Representable
  <1> QED
    BY <1>1, <1>2, <1>3, TypeCorrect, PTL DEF Spec

-----------------------------------------------------------------------------
(* The scan against a search *)

\* A non-empty set of naturals has a least element.
LEMMA LeastNatural ==
  ASSUME NEW T, T \subseteq Nat, T # {}
  PROVE  \E m \in T : \A k \in T : m <= k
  <1> DEFINE R == {ss \in Nat \X Nat : ss[1] < ss[2]}
  <1>1. IsWellFoundedOn(R, Nat)
    BY NatLessThanWellFounded DEF OpToRel
  <1> HIDE DEF R
  <1>2. PICK m \in T : \A k \in T : ~(<<k, m>> \in R)
    BY <1>1, WFMin
  <1>3. ASSUME NEW k \in T PROVE m <= k
    <2>1. k \in Nat /\ m \in Nat /\ ~(<<k, m>> \in R)
      BY <1>2
    <2> QED
      BY <2>1 DEF R
  <1> QED
    BY <1>3

\* A non-empty set of naturals that s bounds has a greatest element.
LEMMA GreatestBelow ==
  ASSUME NEW s \in Nat, NEW T, T \subseteq 0 .. s, T # {}
  PROVE  \E m \in T : \A k \in T : k <= m
  <1> DEFINE D == {s - k : k \in T}
  <1>1. D \subseteq Nat /\ D # {}
    <2>1. PICK k \in T : TRUE
      OBVIOUS
    <2>2. s - k \in D
      OBVIOUS
    <2>3. D \subseteq Nat
      OBVIOUS
    <2> QED
      BY <2>2, <2>3
  <1>2. PICK d \in D : \A e \in D : d <= e
    <2> HIDE DEF D
    <2> QED BY <1>1, LeastNatural
  <1>3. PICK m \in T : d = s - m
    OBVIOUS
  <1>4. ASSUME NEW k \in T PROVE k <= m
    <2>1. s - m <= s - k
      BY <1>2, <1>3
    <2> QED
      BY <2>1
  <1> QED
    BY <1>4

\* align_up does not pass an aligned boundary.
LEMMA RoundUpStopsAtBoundary ==
  ASSUME NEW v \in Nat, NEW s \in Nat, s % Align = 0, v <= s
  PROVE  RoundUp(v) <= s
  <1> DEFINE q == (v + Align - 1) \div Align
             k == s \div Align
  <1>1. Align \in Nat /\ Align > 0 /\ q \in Nat /\ k \in Nat
    BY GeometryAssumption
  <1>2. s = k * Align
    BY GeometryAssumption
  <1>3. q * Align <= v + Align - 1
    BY GeometryAssumption
  <1> HIDE DEF q, k
  <1>4. q * Align < (k + 1) * Align
    BY <1>1, <1>2, <1>3
  <1>5. q <= k
    BY <1>1, <1>4
  <1>6. q * Align <= k * Align
    BY <1>1, <1>5
  <1> QED
    BY <1>2, <1>6 DEF RoundUp, q

\* Nor does it wrap below the last unit of the address space.
LEMMA AlignUpBelow ==
  ASSUME NEW v \in Nat, v + Align <= LbaLimit,
         NEW s \in Nat, s % Align = 0, v <= s
  PROVE  AlignUp(v) \in 0 .. s
  <1>1. RoundUp(v) \in 0 .. (LbaLimit - 1)
    BY RoundUpProperties, GeometryAssumption
  <1>2. AlignUp(v) = RoundUp(v)
    BY <1>1, GeometryAssumption DEF AlignUp
  <1> QED
    BY <1>1, <1>2, RoundUpStopsAtBoundary

\* Where every entry that the scan has passed ends before an aligned boundary
\* s, the scan stands at s or below it.
LEMMA CursorBelow ==
  ASSUME NEW h \in Header, NEW es, Entries(es), Representable(es),
         h.first_usable_lba + Align <= LbaLimit,
         NEW passed \in SUBSET Used(es),
         NEW s \in Nat, s % Align = 0, h.first_usable_lba <= s,
         \A i \in passed : es[i].end < s
  PROVE  \E c \in 0 .. s : IsCursor(c, h, es, passed)
  <1>1. AlignUp(h.first_usable_lba) \in 0 .. s
    <2>1. h.first_usable_lba \in Nat
      BY DEF Header, Lba
    <2> QED
      BY <2>1, AlignUpBelow
  <1>2. ASSUME NEW i \in passed
        PROVE  AlignUp(SaturatingSucc(es[i].end)) \in 0 .. s
    <2>1. es[i].end \in Nat /\ es[i].end + Align < LbaLimit /\ es[i].end < s
      BY UsedIsExtent DEF Representable
    <2>2. SaturatingSucc(es[i].end) = es[i].end + 1
      BY <2>1, GeometryAssumption DEF SaturatingSucc
    <2>3. es[i].end + 1 \in Nat /\ es[i].end + 1 + Align <= LbaLimit /\ es[i].end + 1 <= s
      BY <2>1, GeometryAssumption
    <2> QED
      BY <2>2, <2>3, AlignUpBelow
  <1>3. Stops(h, es, passed) \subseteq 0 .. s /\ Stops(h, es, passed) # {}
    BY <1>1, <1>2 DEF Stops
  <1>4. PICK c \in Stops(h, es, passed) : \A d \in Stops(h, es, passed) : d <= c
    BY <1>3, GreatestBelow
  <1> QED
    BY <1>3, <1>4 DEF IsCursor

\* In a sound table, the gap around an aligned hole of n sectors is one of
\* the free extents: it has n sectors, and the hole is in it.
LEMMA HoleIsFound ==
  ASSUME NEW h \in Header, NEW es, Entries(es), Representable(es),
         DOMAIN es \subseteq Nat,
         h.first_usable_lba + Align <= LbaLimit, Sound(h, es),
         NEW n \in Nat \ {0}, NEW s \in Nat, Hole(h, es, n, s)
  PROVE  \E x \in Fitting(h, es, n) : x.start <= s /\ s + n - 1 <= x.end
  <1> DEFINE Above == {i \in Used(es) : es[i].start > s}
  <1>0. /\ h.first_usable_lba \in Nat /\ h.last_usable_lba \in Nat
        /\ s % Align = 0 /\ h.first_usable_lba <= s /\ s + n - 1 <= h.last_usable_lba
    BY DEF Hole, Header, Lba
  <1>1. ASSUME NEW i \in Used(es)
        PROVE  /\ es[i].start \in Nat /\ es[i].end \in Nat /\ es[i].start <= es[i].end
               /\ IF es[i].start > s THEN es[i].start > s + n - 1 ELSE es[i].end < s
    <2>1. es[i].start \in Nat /\ es[i].end \in Nat /\ es[i].start <= es[i].end
      BY UsedIsExtent DEF Sound
    <2>2. ~(s <= es[i].end /\ es[i].start <= s + n - 1)
      BY DEF Hole, Overlap
    <2> QED
      BY <2>1, <2>2
  <1>2. CASE Above = {}
    <2>1. \A i \in Used(es) : es[i].end < s
      BY <1>1, <1>2
    <2>2. PICK c \in 0 .. s : IsCursor(c, h, es, Used(es))
      BY <1>0, <2>1, CursorBelow
    <2> DEFINE x == [start |-> c, end |-> h.last_usable_lba]
    <2>3. c \in Stops(h, es, Used(es)) /\ IsTail(x, h, es)
      BY <1>0, <2>2 DEF IsCursor, IsTail
    <2>4. x \in FreeExtents(h, es) /\ Sectors(x) >= n
      BY <1>0, <2>3 DEF FreeExtents, Sectors
    <2> QED
      BY <1>0, <2>2, <2>4 DEF Fitting
  <1>3. CASE Above # {}
    <2>1. PICK i \in Above : \A j \in Above : es[i].start <= es[j].start
      <3> DEFINE S == {es[j].start : j \in Above}
      <3>1. S \subseteq Nat
        BY <1>1
      <3>2. S # {}
        <4>1. PICK j \in Above : TRUE
          BY <1>3
        <4>2. es[j].start \in S
          OBVIOUS
        <4> QED
          BY <4>2
      <3> HIDE DEF S
      <3>3. PICK m \in S : \A k \in S : m <= k
        BY <3>1, <3>2, LeastNatural
      <3> USE DEF S
      <3>4. PICK j \in Above : m = es[j].start
        OBVIOUS
      <3> QED
        BY <3>3, <3>4
    <2>2. /\ i \in Used(es) /\ es[i].start \in Nat /\ es[i].start > s + n - 1
          /\ es[i].start > s
      BY <1>1
    <2>3. Before(es, i) \in SUBSET Used(es)
      BY DEF Before
    <2>4. ASSUME NEW j \in Before(es, i) PROVE es[j].end < s
      <3>1. CASE es[j].start < es[i].start
        <4>1. j \notin Above /\ j \in Used(es)
          BY <1>1, <2>1, <2>2, <2>3, <3>1
        <4> QED
          BY <1>1, <4>1
      <3>2. CASE es[j].start = es[i].start
        <4>1. j \in Used(es) /\ j # i
          <5>1. j \in Used(es) /\ j \in Nat
            BY <2>3, UsedIsExtent
          <5> QED
            BY <1>1, <2>2, <5>1 DEF Before
        <4> QED
          BY <1>1, <2>2, <3>2, <4>1 DEF Sound, Overlap
      <3> QED
        BY <3>1, <3>2 DEF Before
    <2>5. PICK c \in 0 .. s : IsCursor(c, h, es, Before(es, i))
      BY <1>0, <2>3, <2>4, CursorBelow
    <2> DEFINE x == [start |-> c, end |-> es[i].start - 1]
    <2>6. IsGapBefore(x, h, es, i)
      BY <2>2, <2>5 DEF IsGapBefore
    <2>7. c \in Stops(h, es, Used(es))
      BY <2>3, <2>5 DEF IsCursor, Stops
    <2>8. x \in FreeExtents(h, es) /\ Sectors(x) >= n
      <3>1. x.end \in {es[j].start - 1 : j \in Used(es)}
        BY <2>2
      <3>2. x \in FreeExtents(h, es)
        BY <2>2, <2>6, <2>7, <3>1 DEF FreeExtents
      <3> QED
        BY <2>2, <2>5, <3>2 DEF Sectors
    <2> QED
      BY <2>2, <2>5, <2>8 DEF Fitting
  <1> QED
    BY <1>2, <1>3

\* Conversely the front of a free extent is an aligned hole.
LEMMA FittingIsHole ==
  ASSUME NEW h \in Header, NEW es, Entries(es), Representable(es),
         h.first_usable_lba + Align <= LbaLimit, Sound(h, es),
         NEW n \in Nat \ {0}, NEW x \in Fitting(h, es, n)
  PROVE  x.start \in Nat /\ Hole(h, es, n, x.start)
  <1> DEFINE y == [start |-> x.start, end |-> x.start + n - 1]
  <1>1. /\ x \in Extent /\ x.start % Align = 0 /\ x.start >= h.first_usable_lba
        /\ \/ x.end = h.last_usable_lba
           \/ \E i \in Used(es) : x.end < es[i].start
        /\ \A i \in Used(es) : es[i].start <= es[i].end => ~Overlap(x, es[i])
    BY FreeExtentProperties DEF Fitting
  <1>2. /\ x.start \in Nat /\ x.end \in Nat /\ h.last_usable_lba \in Nat
        /\ x.start + n - 1 <= x.end
    BY <1>1 DEF Extent, Header, Lba, Fitting, Sectors
  <1>3. \A i \in Used(es) : /\ es[i].start \in Nat /\ es[i].end \in Nat
                            /\ es[i].start <= es[i].end
                            /\ es[i].end <= h.last_usable_lba
    BY UsedIsExtent DEF Sound
  <1>4. x.start + n - 1 <= h.last_usable_lba
    BY <1>1, <1>2, <1>3
  <1>5. ASSUME NEW i \in Used(es) PROVE ~Overlap(y, es[i])
    BY <1>1, <1>2, <1>3 DEF Overlap
  <1> QED
    BY <1>1, <1>2, <1>4, <1>5 DEF Hole

\* `add` refuses a size only when the table has no aligned hole of that size,
\* and never finds one that is not there: the scan against a search of every
\* aligned start, whatever the entries, their order and the alignment.
THEOREM AddFindsEveryHole == Spec => []AddFindsAnyHole
  <1>1. TypeOK => AddFindsAnyHole
    <2> SUFFICES ASSUME TypeOK, HasGpt, Sound(header, entries), NEW n \in 1 .. sectors
                 PROVE  (\E s \in 0 .. sectors : Hole(header, entries, n, s))
                           <=> Fitting(header, entries, n) # {}
      BY DEF AddFindsAnyHole
    <2>1. /\ header \in Header /\ Entries(entries) /\ Representable(entries)
          /\ header.first_usable_lba + Align <= LbaLimit
          /\ DOMAIN entries \subseteq Nat
          /\ sectors \in Nat /\ n \in Nat \ {0}
      BY SoundIsRepresentable, ForeignAssumption, GeometryAssumption
         DEF TypeOK, HasGpt, Entries
    <2>2. ASSUME NEW s \in 0 .. sectors, Hole(header, entries, n, s)
          PROVE  Fitting(header, entries, n) # {}
      <3>1. \E x \in Fitting(header, entries, n) : x.start <= s
        BY <2>1, <2>2, HoleIsFound
      <3> QED
        BY <3>1
    <2>3. ASSUME NEW x \in Fitting(header, entries, n)
          PROVE  \E s \in 0 .. sectors : Hole(header, entries, n, s)
      <3>1. x.start \in Nat /\ Hole(header, entries, n, x.start)
        BY <2>1, FittingIsHole
      <3>2. /\ x.start + n - 1 <= header.last_usable_lba
            /\ header.last_usable_lba \in Nat /\ header.last_usable_lba < sectors
        BY <2>1, <3>1 DEF Hole, HasGpt, Accepts, PrimaryClear, Header, Lba
      <3>3. x.start \in 0 .. sectors
        BY <2>1, <3>1, <3>2
      <3> QED
        BY <3>1, <3>3
    <2> QED
      BY <2>2, <2>3
  <1> QED
    BY <1>1, TypeCorrect, PTL

-----------------------------------------------------------------------------
(* The scan against the allocator that tries every place *)

\* The allocator sees the table as GptTable does.
LEMMA PlacesIs ==
  ASSUME TypeOK, header # NoGpt
  PROVE  /\ header \in Header /\ Entries(entries)
         /\ Places!Taken = Used(entries)
         /\ Places!Orderly => Sound(header, entries)
         /\ \A n \in Nat \ {0}, s \in Nat :
               Places!Room(s, n) <=> Hole(header, entries, n, s)
  <1>1. /\ header \in Header /\ Entries(entries)
        /\ header.first_usable_lba \in Nat /\ header.last_usable_lba \in Nat
    BY DEF TypeOK, Header, Lba, Entries
  <1>2. Places!Taken = Used(entries)
    BY DEF Places!Taken, Used
  <1>3. \A i \in Used(entries) : entries[i].start \in Nat /\ entries[i].end \in Nat
    BY <1>1, UsedIsExtent
  <1>4. ASSUME Places!Orderly PROVE Sound(header, entries)
    <2>1. ASSUME NEW i \in Used(entries)
          PROVE  /\ entries[i].start >= header.first_usable_lba
                 /\ entries[i].end <= header.last_usable_lba
                 /\ entries[i].start <= entries[i].end
                 /\ entries[i].start % Align = 0
      BY <1>1, <1>2, <1>3, <1>4 DEF Places!Orderly
    <2>2. ASSUME NEW i \in Used(entries), NEW j \in Used(entries), i # j
          PROVE  ~Overlap(entries[i], entries[j])
      BY <1>2, <1>3, <1>4, <2>2 DEF Places!Orderly, Overlap
    <2> QED
      BY <2>1, <2>2 DEF Sound
  <1>5. ASSUME NEW n \in Nat \ {0}, NEW s \in Nat
        PROVE  Places!Room(s, n) <=> Hole(header, entries, n, s)
    <2>1. \A i \in Used(entries) :
             (s + n - 1 < entries[i].start \/ entries[i].end < s)
                <=> ~Overlap([start |-> s, end |-> s + n - 1], entries[i])
      BY <1>3 DEF Overlap
    <2>2. /\ s \in header.first_usable_lba .. header.last_usable_lba
          /\ s + n - 1 <= header.last_usable_lba
          <=> s >= header.first_usable_lba /\ s + n - 1 <= header.last_usable_lba
      BY <1>1
    <2> QED
      BY <1>2, <2>1, <2>2 DEF Places!Room, Hole
  <1> QED
    BY <1>1, <1>2, <1>4, <1>5

\* A commit of the header that was read leaves the usable range.
LEMMA CommitKeepsRange ==
  ASSUME header \in Header, HeaderFor(header, sectors) \in Header, NEW es, Commit(header, es)
  PROVE  /\ header # NoGpt /\ header' # NoGpt /\ entries' = es
         /\ header'.first_usable_lba = header.first_usable_lba
         /\ header'.last_usable_lba = header.last_usable_lba
  <1>1. /\ HeaderFor(header, sectors).first_usable_lba = header.first_usable_lba
        /\ HeaderFor(header, sectors).last_usable_lba = header.last_usable_lba
    BY DEF HeaderFor, Header
  <1> QED
    BY <1>1, ForeignAssumption DEF Commit

\* What free_extents gives on a sound table, once it is known to be one.
LEMMA SoundTable ==
  ASSUME TypeOK, HasGpt, Sound(header, entries)
  PROVE  /\ header \in Header /\ Entries(entries) /\ Representable(entries)
         /\ header.first_usable_lba + Align <= LbaLimit /\ DOMAIN entries \subseteq Nat
         /\ header.first_usable_lba \in Nat /\ header.last_usable_lba \in Nat
  BY SoundIsRepresentable DEF TypeOK, HasGpt, Entries, Header, Lba

\* `add --size n` on a sound table takes the lowest place.
LEMMA AddPlacesLowest ==
  ASSUME TypeOK, Sound(header, entries), NEW n \in Sizes, Add(n),
         HeaderFor(header, sectors) \in Header
  PROVE  Places!Place(n)
  <1>1. PICK i \in DOMAIN entries, x \in FreeExtents(header, entries) :
           /\ FirstUnused(i, entries)
           /\ FirstFit(x, header, entries, n)
           /\ Commit(header, [entries EXCEPT ![i] =
                         [start |-> x.start, end |-> x.start + n - 1]])
    BY DEF Add
  <1>2. /\ HasGpt /\ header # NoGpt /\ header \in Header /\ n \in Nat \ {0}
        /\ header.first_usable_lba \in Nat /\ header.last_usable_lba \in Nat
    BY SoundTable, GeometryAssumption DEF Add, HasGpt
  <1>3. x \in Fitting(header, entries, n)
    BY <1>1 DEF FirstFit
  <1>4. x.start \in Nat /\ Hole(header, entries, n, x.start)
    BY <1>2, <1>3, SoundTable, FittingIsHole
  <1>5. Places!Room(x.start, n)
    BY <1>2, <1>4, PlacesIs
  <1>6. x.start \in header.first_usable_lba .. header.last_usable_lba
    BY <1>2, <1>4 DEF Hole
  <1>7. ASSUME NEW t \in header.first_usable_lba .. header.last_usable_lba, Places!Room(t, n)
        PROVE  x.start <= t
    <2>1. t \in Nat /\ Hole(header, entries, n, t)
      BY <1>2, <1>7, PlacesIs
    <2>2. PICK y \in Fitting(header, entries, n) : y.start <= t
      BY <1>2, <2>1, SoundTable, HoleIsFound
    <2>3. x.start <= y.start
      BY <1>1 DEF FirstFit
    <2>4. y.start \in Nat
      BY <1>2, SoundTable, FittingIsHole
    <2> QED
      BY <1>4, <2>1, <2>2, <2>3, <2>4
  <1>8. Places!Put(x.start, n)
    <2>1. /\ header' # NoGpt
          /\ entries' = [entries EXCEPT ![i] = [start |-> x.start, end |-> x.start + n - 1]]
          /\ header'.first_usable_lba = header.first_usable_lba
          /\ header'.last_usable_lba = header.last_usable_lba
      BY <1>1, <1>2, CommitKeepsRange
    <2>2. i \in DOMAIN entries \ Places!Taken /\ \A j \in DOMAIN entries \ Places!Taken : i <= j
      BY <1>1 DEF FirstUnused, Places!Taken
    <2> QED
      BY <1>2, <2>1, <2>2 DEF Places!Put
  <1> QED
    BY <1>2, <1>5, <1>6, <1>7, <1>8 DEF Places!Place

\* `add --size max` on a sound table takes the largest place.
LEMMA AddMaxPlacesLargest ==
  ASSUME TypeOK, Sound(header, entries), AddMax, HeaderFor(header, sectors) \in Header
  PROVE  Places!PlaceLargest
  <1>1. PICK i \in DOMAIN entries, x \in FreeExtents(header, entries) :
           /\ FirstUnused(i, entries)
           /\ Largest(x, header, entries)
           /\ Commit(header, [entries EXCEPT ![i] = x])
    BY DEF AddMax
  <1>2. /\ HasGpt /\ header # NoGpt /\ header \in Header /\ Entries(entries)
        /\ header.first_usable_lba \in Nat /\ header.last_usable_lba \in Nat
    BY SoundTable DEF AddMax, HasGpt
  <1> DEFINE n == Sectors(x)
  <1>3. x \in Extent /\ x.start \in Nat /\ x.end \in Nat /\ x.start <= x.end
    BY <1>2, FreeExtentIsExtent DEF Extent, Lba
  <1>4. /\ n \in Nat \ {0} /\ n + 1 \in Nat \ {0}
        /\ x = [start |-> x.start, end |-> x.start + n - 1] /\ x.end = x.start + n - 1
    BY <1>3 DEF Sectors, Extent
  <1>5. x \in Fitting(header, entries, n)
    BY <1>4 DEF Fitting
  <1> HIDE DEF n
  <1>6. Hole(header, entries, n, x.start)
    BY <1>2, <1>4, <1>5, SoundTable, FittingIsHole
  <1>7. /\ x.start \in header.first_usable_lba .. header.last_usable_lba
        /\ n \in 1 .. header.last_usable_lba + 1 - x.start
    BY <1>2, <1>3, <1>4, <1>6 DEF Hole
  <1>8. ASSUME NEW t \in header.first_usable_lba .. header.last_usable_lba,
               NEW m \in Nat \ {0}, m >= n, Places!Room(t, m)
        PROVE  m = n /\ t <= x.start
    <2>1. t \in Nat /\ Hole(header, entries, m, t)
      BY <1>2, <1>8, PlacesIs
    <2>2. PICK y \in Fitting(header, entries, m) : y.start <= t /\ t + m - 1 <= y.end
      BY <1>2, <2>1, SoundTable, HoleIsFound
    <2>3. y \in FreeExtents(header, entries) /\ Sectors(y) >= m
      BY DEF Fitting
    <2>4. y.start \in Nat /\ y.end \in Nat
      BY <1>2, <2>3, FreeExtentIsExtent DEF Extent, Lba
    <2>5. Sectors(y) < n \/ (Sectors(y) = n /\ y.start <= x.start)
      BY <1>1, <2>3 DEF Largest, n
    <2> QED
      BY <1>3, <1>4, <1>8, <2>1, <2>2, <2>3, <2>4, <2>5 DEF Sectors
  <1>9. \A t \in header.first_usable_lba .. header.last_usable_lba :
           ~Places!Room(t, n + 1) /\ (Places!Room(t, n) => t <= x.start)
    BY <1>4, <1>8
  <1>10. Places!Put(x.start, n)
    <2>1. /\ header' # NoGpt /\ entries' = [entries EXCEPT ![i] = x]
          /\ header'.first_usable_lba = header.first_usable_lba
          /\ header'.last_usable_lba = header.last_usable_lba
      BY <1>1, <1>2, CommitKeepsRange
    <2>2. i \in DOMAIN entries \ Places!Taken /\ \A j \in DOMAIN entries \ Places!Taken : i <= j
      BY <1>1 DEF FirstUnused, Places!Taken
    <2> QED
      BY <1>2, <1>4, <2>1, <2>2 DEF Places!Put
  <1>11. Places!Room(x.start, n)
    BY <1>2, <1>3, <1>4, <1>6, PlacesIs
  <1> QED
    BY <1>2, <1>7, <1>9, <1>10, <1>11 DEF Places!PlaceLargest

\* Every command is a step of the allocator, or none of its business.
LEMMA StepAllocates ==
  ASSUME TypeOK, [Next]_vars
  PROVE  \/ Places!Next
         \/ UNCHANGED <<header, entries>>
  <1>0. ASSUME NEW es, HasGpt, Commit(header, es)
        PROVE  /\ header \in Header /\ HeaderFor(header, sectors) \in Header
               /\ ~Sound(header, entries) => Places!Next
    <2>1. sectors \in Nat /\ header \in Header /\ Accepts(header, sectors) /\ header # NoGpt
      BY <1>0, ForeignAssumption, GeometryAssumption DEF TypeOK, HasGpt
    <2>2. HeaderFor(header, sectors) \in Header
      BY <2>1, HeaderForAccepted
    <2>3. ASSUME ~Sound(header, entries) PROVE Places!Next
      <3>1. ~Places!Orderly
        BY <2>1, <2>3, PlacesIs
      <3>2. /\ header # NoGpt /\ header' # NoGpt
            /\ header'.first_usable_lba = header.first_usable_lba
            /\ header'.last_usable_lba = header.last_usable_lba
        BY <1>0, <2>1, <2>2, CommitKeepsRange
      <3> QED
        BY <3>1, <3>2 DEF Places!Next, Places!Unpromised
    <2> QED
      BY <2>1, <2>2, <2>3
  <1>1. ASSUME NEW force \in BOOLEAN, Create(force) PROVE Places!Next
    BY <1>1 DEF Create, Commit, Places!Next, Places!Clear
  <1>2. ASSUME NEW n \in Sizes, Add(n) PROVE Places!Next
    <2>1. HasGpt /\ \E es : Commit(header, es)
      BY <1>2 DEF Add
    <2>2. CASE Sound(header, entries)
      BY <1>0, <1>2, <2>1, <2>2, AddPlacesLowest DEF Places!Next
    <2> QED
      BY <1>0, <2>1, <2>2
  <1>3. CASE AddMax
    <2>1. HasGpt /\ \E es : Commit(header, es)
      BY <1>3 DEF AddMax
    <2>2. CASE Sound(header, entries)
      BY <1>0, <1>3, <2>1, <2>2, AddMaxPlacesLargest DEF Places!Next
    <2> QED
      BY <1>0, <2>1, <2>2
  <1>4. ASSUME NEW i \in DOMAIN entries, Del(i) PROVE Places!Next
    <2>1. HasGpt /\ i \in Used(entries) /\ Commit(header, [entries EXCEPT ![i] = Unused])
      BY <1>4 DEF Del
    <2>2. /\ header # NoGpt /\ header' # NoGpt /\ entries' = [entries EXCEPT ![i] = Unused]
          /\ header'.first_usable_lba = header.first_usable_lba
          /\ header'.last_usable_lba = header.last_usable_lba
      BY <1>0, <2>1, CommitKeepsRange
    <2>3. i \in Places!Taken
      BY <2>1 DEF Places!Taken, Used
    <2> QED
      BY <2>2, <2>3 DEF Places!Next, Places!Remove
  <1>5. CASE (\E n \in DiskSizes : Resize(n)) \/ UNCHANGED vars
    BY <1>5 DEF Resize, vars
  <1> QED
    BY <1>1, <1>2, <1>3, <1>4, <1>5 DEF Next

\* Every history of a table is one of the allocator that tries every place: a
\* sound table gives `add` the lowest aligned hole and `add max` the largest,
\* in the first unused slot, and no command moves another partition.
THEOREM ScanImplementsAllocator == Spec => AllocatesWell
  <1>1. Init => Places!Init
    <2> SUFFICES ASSUME Init PROVE Places!Init
      OBVIOUS
    <2>1. CASE header = NoGpt /\ entries = <<>>
      BY <2>1 DEF Places!Init, Places!Extent
    <2>2. CASE header \in ForeignHeaders
                /\ entries \in [1 .. header.num_entries -> ForeignEntries \cup {Unused}]
      <3>1. header \in Header /\ header # NoGpt
        BY <2>2, ForeignAssumption
      <3>2. entries \in [DOMAIN entries -> Extent \cup {Unused}]
        BY <2>2, ForeignAssumption
      <3> QED
        BY <3>1, <3>2 DEF Places!Init, Places!Extent, Extent, Header, Lba
    <2> QED
      BY <2>1, <2>2 DEF Init
  <1>2. TypeOK /\ [Next]_vars
          => [Places!Next]_<<IF header = NoGpt THEN 0 ELSE header.first_usable_lba,
                             IF header = NoGpt THEN 0 ELSE header.last_usable_lba, entries>>
    BY StepAllocates
  <1> QED
    BY <1>1, <1>2, TypeCorrect, PTL DEF Spec, AllocatesWell, Places!Spec
=============================================================================
