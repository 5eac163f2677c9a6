------------------------------ MODULE GptTable ------------------------------
(***************************************************************************)
(* The GPT of `part` as a value: what `create`, `add` and `del` do to it,  *)
(* which headers `probe` accepts, and which sectors a commit writes.  One  *)
(* action is one whole command; the interleavings, crashes and retries of  *)
(* a commit are in GptDisk.  The unit is the sector.                       *)
(***************************************************************************)
EXTENDS Integers

CONSTANTS
    Align,             \* align_sectors: 1 MiB in sectors
    LbaLimit,          \* 2^64 in the code: LBAs wrap at this width
    NumEntries,        \* NUM_ENTRIES, the slots of a table `part` creates
    EntriesPerSector,  \* sector_size / entry_size
    DiskSizes,         \* the sizes the device (or the image) may have
    ForeignHeaders,    \* headers another tool may have left, good and bad
    ForeignEntries,    \* extents another tool's entries may have
    Sizes,             \* the sizes asked of `add`
    NoGpt, Unused

ASSUME GeometryAssumption ==
    /\ Align \in Nat \ {0}
    /\ LbaLimit \in Nat \ {0} /\ LbaLimit % Align = 0
    /\ NumEntries \in Nat \ {0}
    /\ EntriesPerSector \in Nat \ {0}
    /\ Sizes \subseteq Nat \ {0}

Lba == Nat
Extent == [start : Lba, end : Lba]
Header == [num_entries : Nat, entry_array_lba : Lba, alternate_lba : Lba,
           first_usable_lba : Lba, last_usable_lba : Lba]

\* A device is sized in bytes by a 64-bit count, so its LBAs are far below it.
ASSUME ForeignAssumption ==
    /\ DiskSizes \subseteq 1 .. (LbaLimit - Align)
    /\ ForeignHeaders \subseteq Header
    /\ ForeignEntries \subseteq Extent
    /\ \A x \in ForeignEntries : x.end < LbaLimit
    /\ NoGpt \notin Header /\ Unused \notin Extent

VARIABLES
    sectors,   \* disk_sectors, as the device reports it
    header,    \* the primary header on the disk, or NoGpt
    entries    \* the primary entry array

vars == <<sectors, header, entries>>

-----------------------------------------------------------------------------
(* Layout *)

\* Sectors of one copy of an entry array of n slots.
ArraySectors(n) == (n + EntriesPerSector - 1) \div EntriesPerSector

\* Below this `create` refuses.
MinimumSectors == 3 + 2 * ArraySectors(NumEntries) + Align

\* Rounding multiplies a quotient back, so it wraps at the width of an LBA.
RoundUp(v) == ((v + Align - 1) \div Align) * Align
AlignUp(v) == RoundUp(v) % LbaLimit

SaturatingSucc(v) == IF v = LbaLimit - 1 THEN v ELSE v + 1

Used(es) == {i \in DOMAIN es : es[i] # Unused}

Overlap(x, y) == x.start <= y.end /\ y.start <= x.end

\* GptHeader::primary_array_sectors, the layouts `probe` accepts on a disk of
\* n sectors: the primary array fits between the header and the usable range,
PrimaryClear(h, n) ==
    LET a == ArraySectors(h.num_entries) IN
    /\ a # 0 /\ h.entry_array_lba + a <= n
    /\ h.alternate_lba < n
    /\ h.first_usable_lba <= h.last_usable_lba /\ h.last_usable_lba < n
    /\ h.entry_array_lba >= 2 /\ h.entry_array_lba + a <= h.first_usable_lba

\* and the backup, which may precede the last sector, is above that range.
Accepts(h, n) ==
    /\ PrimaryClear(h, n)
    /\ h.alternate_lba - ArraySectors(h.num_entries) > h.last_usable_lba

\* What a probe of the disk finds: a table it can manage.
HasGpt == header # NoGpt /\ Accepts(header, sectors)

\* Mutant: the usable range runs one sector into the backup array.
FreshHeaderOffByOne(n) ==
    [num_entries |-> NumEntries,
     entry_array_lba |-> 2,
     alternate_lba |-> n - 1,
     first_usable_lba |-> 2 + ArraySectors(NumEntries),
     last_usable_lba |-> n - 1 - ArraySectors(NumEntries)]

\* The header of a fresh, empty table on a disk of n sectors.
FreshHeader(n) ==
    [num_entries |-> NumEntries,
     entry_array_lba |-> 2,
     alternate_lba |-> n - 1,
     first_usable_lba |-> 2 + ArraySectors(NumEntries),
     last_usable_lba |-> n - 1 - ArraySectors(NumEntries) - 1]

\* Mutant: the geometry is recomputed from the defaults of `create`.
HeaderForDefaults(h, n) == FreshHeader(n)

\* header_for: the geometry is carried over from the table that was read;
\* only the backup moves, to the last sector of the disk as it is now.
HeaderFor(h, n) == [h EXCEPT !.alternate_lba = n - 1]

\* Every sector that commit writes, in writes(): the protective MBR, both
\* entry arrays and both headers.
CommitSectors(h, n) ==
    LET a == ArraySectors(h.num_entries) IN
    {0, 1, n - 1} \cup h.entry_array_lba .. (h.entry_array_lba + a - 1)
                  \cup (n - 1 - a) .. (n - 2)

-----------------------------------------------------------------------------
(* Free space *)

\* Mutants: the boundary of the last sector used, not of the one after it; and
\* boundaries that are not rounded.
StopsOffByOne(h, es, passed) ==
    {AlignUp(h.first_usable_lba)} \cup {AlignUp(es[i].end) : i \in passed}
StopsUnaligned(h, es, passed) ==
    {h.first_usable_lba} \cup {SaturatingSucc(es[i].end) : i \in passed}

\* Where the scan of free_extents may stand: the first usable boundary, and
\* the boundary after each of the used entries it has passed.
Stops(h, es, passed) ==
    {AlignUp(h.first_usable_lba)}
        \cup {AlignUp(SaturatingSucc(es[i].end)) : i \in passed}

\* The scan keeps the furthest of them.
IsCursor(c, h, es, passed) ==
    /\ c \in Stops(h, es, passed)
    /\ \A d \in Stops(h, es, passed) : d <= c

\* Entries are visited in order of (start, end), equal ones one after another.
Before(es, i) ==
    {j \in Used(es) : \/ es[j].start < es[i].start
                      \/ es[j].start = es[i].start /\ es[j].end < es[i].end
                      \/ es[j] = es[i] /\ j < i}

\* The gap in front of entry i, and the gap after the last entry.
IsGapBefore(x, h, es, i) ==
    /\ IsCursor(x.start, h, es, Before(es, i))
    /\ es[i].start > x.start
    /\ x.end = es[i].start - 1

IsTail(x, h, es) ==
    /\ IsCursor(x.start, h, es, Used(es))
    /\ x.start <= h.last_usable_lba
    /\ x.end = h.last_usable_lba

FreeExtents(h, es) ==
    {x \in [start : Stops(h, es, Used(es)),
            end   : {es[i].start - 1 : i \in Used(es)} \cup {h.last_usable_lba}] :
        IsTail(x, h, es) \/ \E i \in Used(es) : IsGapBefore(x, h, es, i)}

Sectors(x) == x.end - x.start + 1

\* Mutant: an extent of exactly n sectors is passed over.
FittingStrict(h, es, n) == {x \in FreeExtents(h, es) : Sectors(x) > n}

\* `add` of n sectors takes the first extent that is large enough ...
Fitting(h, es, n) == {x \in FreeExtents(h, es) : Sectors(x) >= n}
FirstFit(x, h, es, n) ==
    /\ x \in Fitting(h, es, n)
    /\ \A y \in Fitting(h, es, n) : x.start <= y.start

\* ... and `add max` the largest, the last of them when several are.
Largest(x, h, es) ==
    /\ x \in FreeExtents(h, es)
    /\ \A y \in FreeExtents(h, es) :
          \/ Sectors(y) < Sectors(x)
          \/ Sectors(y) = Sectors(x) /\ y.start <= x.start

FirstUnused(i, es) ==
    /\ i \in DOMAIN es /\ es[i] = Unused
    /\ \A j \in DOMAIN es : es[j] = Unused => i <= j

-----------------------------------------------------------------------------
(* The commands *)

\* A table another tool left, or a blank disk.
Init ==
    /\ sectors \in DiskSizes
    /\ \/ header = NoGpt /\ entries = <<>>
       \/ /\ header \in ForeignHeaders
          /\ entries \in [1 .. header.num_entries -> ForeignEntries \cup {Unused}]

\* commit, as a value: the new array and the header that vouches for it.
Commit(h, es) ==
    /\ header' = HeaderFor(h, sectors)
    /\ entries' = es
    /\ UNCHANGED sectors

\* `part create`: over a table part understands, over a blank disk, or over
\* anything at all with --force.
Create(force) ==
    /\ header = NoGpt \/ HasGpt \/ force
    /\ sectors >= MinimumSectors
    /\ Commit(FreshHeader(sectors), [i \in 1 .. NumEntries |-> Unused])

\* `part add --size n`
Add(n) ==
    /\ HasGpt
    /\ \E i \in DOMAIN entries : \E x \in FreeExtents(header, entries) :
          /\ FirstUnused(i, entries)
          /\ FirstFit(x, header, entries, n)
          /\ Commit(header, [entries EXCEPT ![i] =
                                 [start |-> x.start, end |-> x.start + n - 1]])

\* `part add --size max`
AddMax ==
    /\ HasGpt
    /\ \E i \in DOMAIN entries : \E x \in FreeExtents(header, entries) :
          /\ FirstUnused(i, entries)
          /\ Largest(x, header, entries)
          /\ Commit(header, [entries EXCEPT ![i] = x])

\* `part del i`
Del(i) ==
    /\ HasGpt
    /\ i \in Used(entries)
    /\ Commit(header, [entries EXCEPT ![i] = Unused])

\* The image is copied to a device of another size: the bytes do not change.
Resize(n) ==
    /\ n # sectors
    /\ sectors' = n
    /\ UNCHANGED <<header, entries>>

Next ==
    \/ \E force \in BOOLEAN : Create(force)
    \/ \E n \in Sizes : Add(n)
    \/ AddMax
    \/ \E i \in DOMAIN entries : Del(i)
    \/ \E n \in DiskSizes : Resize(n)

Spec == Init /\ [][Next]_vars

-----------------------------------------------------------------------------
(* Properties *)

\* Type invariant: the header has its fields, and the array exactly the slots
\* the header announces.
TypeOK ==
    /\ sectors \in DiskSizes
    /\ header \in Header \cup {NoGpt}
    /\ entries \in [DOMAIN entries -> Extent \cup {Unused}]
    /\ DOMAIN entries = IF header = NoGpt THEN {} ELSE 1 .. header.num_entries

\* Gpt::problems is empty: what `part verify` calls structurally sound.
Sound(h, es) ==
    /\ \A i \in Used(es) :
          /\ es[i].start >= h.first_usable_lba /\ es[i].end <= h.last_usable_lba
          /\ es[i].start <= es[i].end
          /\ es[i].start % Align = 0
    /\ \A i, j \in Used(es) : i # j => ~Overlap(es[i], es[j])

\* No sequence of create, add and del makes `part verify` complain of a table
\* it did not complain of before: additions are aligned, inside the usable
\* range and clear of every partition, in whatever order holes opened up.
SoundStaysSound ==
    [][header # NoGpt /\ Sound(header, entries) => Sound(header', entries')]_vars

\* No boundary after a used entry wraps when it is rounded up.
Representable(es) == \A i \in Used(es) : es[i].end + Align < LbaLimit

\* "An inclusive run of unallocated sectors": in an array where another tool
\* left overlapping, misaligned or out-of-range entries, no free extent holds a
\* sector of a used entry - as long as none ends within one alignment unit of
\* the width.  Behind an entry that does, align_up wraps, the scan stays where
\* it was, and it offers the sectors of that entry.
FreeExtentsAreUnallocated ==
    HasGpt /\ Representable(entries) =>
        \A x \in FreeExtents(header, entries) : \A i \in Used(entries) :
            entries[i].start <= entries[i].end => ~Overlap(x, entries[i])

\* A commit rewrites the metadata of the disk as it is now, which may be
\* larger than the disk the table was made for.  No sector it writes belongs
\* to a partition inside the usable range: probe accepted no header for which
\* the two could meet.
CommitSparesPartitions ==
    HasGpt => \A i \in Used(entries) :
        /\ entries[i].start >= header.first_usable_lba
        /\ entries[i].end <= header.last_usable_lba
        => CommitSectors(header, sectors) \cap entries[i].start .. entries[i].end = {}

\* What part writes, part accepts: a command never leaves a header that the
\* next probe on the same disk calls damaged.
WrittenTableParses ==
    [][header' # header \/ entries' # entries => Accepts(header', sectors)]_vars

\* `add` refuses a size only when no aligned hole of that size exists: the scan
\* against a search of every aligned start.
Hole(h, es, n, s) ==
    /\ s % Align = 0 /\ s >= h.first_usable_lba /\ s + n - 1 <= h.last_usable_lba
    /\ \A i \in Used(es) : ~Overlap([start |-> s, end |-> s + n - 1], es[i])

AddFindsAnyHole ==
    HasGpt /\ Sound(header, entries) =>
        \A n \in 1 .. sectors :
            (\E s \in 0 .. sectors : Hole(header, entries, n, s))
                <=> Fitting(header, entries, n) # {}

\* And what `add` takes is the lowest of those holes, or the largest of all for
\* `add max`; it touches no other entry, and `del` gives one back: the scan of
\* free_extents implements the allocator that tries every place.
Places ==
    INSTANCE Allocator WITH
        first <- IF header = NoGpt THEN 0 ELSE header.first_usable_lba,
        last <- IF header = NoGpt THEN 0 ELSE header.last_usable_lba,
        slots <- entries
AllocatesWell == Places!Spec
=============================================================================
