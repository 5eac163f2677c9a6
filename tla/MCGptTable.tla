----------------------------- MODULE MCGptTable -----------------------------
(***************************************************************************)
(* Small disks: 4-sector alignment and 2 entries to a sector, so that an   *)
(* array of 3 slots takes two sectors and a rounding can lose a whole unit.*)
(***************************************************************************)
EXTENDS GptTable

MCHeader(n, array, alt, first, last) ==
    [num_entries |-> n, entry_array_lba |-> array, alternate_lba |-> alt,
     first_usable_lba |-> first, last_usable_lba |-> last]

\* The layout of part on 24 sectors; a 3-slot array with a padded usable range
\* and its backup short of the end; usable ranges that reach into the backup
\* array, and into the primary one; a table without slots.
MCForeignHeaders ==
    {MCHeader(2, 2, 23, 3, 21), MCHeader(3, 2, 20, 5, 17),
     MCHeader(3, 2, 27, 4, 25), MCHeader(3, 2, 23, 4, 20),
     MCHeader(3, 2, 23, 3, 20), MCHeader(0, 2, 23, 3, 21)}

X(s, e) == [start |-> s, end |-> e]

\* Aligned and not, nested, abutting, reversed, out of the usable range, and one
\* whose rounded end wraps.
MCForeignEntries ==
    {X(4, 7), X(8, 9), X(6, 13), X(12, 15), X(14, 10), X(24, 25), X(8, 30)}
=============================================================================
