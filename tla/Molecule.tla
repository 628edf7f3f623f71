------------------------------ MODULE Molecule ------------------------------
(***************************************************************************)
(* The layouts molecule gives to the data of a channel, as                 *)
(* channel/protocol.rs reads, verifies and writes them: arrays, vectors of *)
(* items of one size, vectors of items of any size, and tables.  All four  *)
(* types of layout occur in the generated code once per message type; the  *)
(* operators here say what those copies have in common, and ChannelTypes   *)
(* says which type uses which.                                             *)
(*                                                                         *)
(* A slice is a sequence of bytes.  Positions count from 0, as in the      *)
(* code; the byte at position p is s[p + 1].                               *)
(***************************************************************************)
EXTENDS Integers, SequencesExt

CONSTANT Base                 \* how many values a byte has: 256

ASSUME BaseAssumption == Base \in Nat \ {0, 1}

Byte == 0 .. Base - 1
Slice == Seq(Byte)
Array(size) == [1 .. size -> Byte]
Zeros(size) == [i \in 1 .. size |-> 0]

\* slice[start..end]
Cut(s, start, end) == SubSeq(s, start + 1, end)

-----------------------------------------------------------------------------
(* Numbers: the little-endian u32 of the headers.                          *)

NUMBER_SIZE == 4

\* How many values a number has.
Numbers == Base * Base * Base * Base

pack_number(n) ==
    LET rest(m) == m \div Base
    IN  <<n % Base, rest(n) % Base, rest(rest(n)) % Base, rest(rest(rest(n))) % Base>>

unpack_number(s, at) ==
    s[at + 1] + Base * (s[at + 2] + Base * (s[at + 3] + Base * s[at + 4]))

\* Reading a number past the end of the slice panics.
HasNumber(s, at) == at + NUMBER_SIZE <= Len(s)

-----------------------------------------------------------------------------
(* Vectors of items of one size: the number of items, then the items.      *)

FixvecCount(s) == unpack_number(s, 0)

FixvecVerify(s, size) ==
    /\ HasNumber(s, 0)
    /\ Len(s) = NUMBER_SIZE + size * FixvecCount(s)

FixvecItems(s, size) ==
    [i \in 1 .. FixvecCount(s) |->
        Cut(s, NUMBER_SIZE + size * (i - 1), NUMBER_SIZE + size * i)]

FixvecBuild(items) == pack_number(Len(items)) \o FlattenSeq(items)

\* No item of the vector lies past the end of the slice.
FixvecInBounds(s, size) ==
    /\ HasNumber(s, 0)
    /\ NUMBER_SIZE + size * FixvecCount(s) <= Len(s)

-----------------------------------------------------------------------------
(* Tables and vectors of items of any size: the length of the slice, where *)
(* each part starts, then the parts.                                       *)

TotalSize(s) == unpack_number(s, 0)
Offset(s, i) == unpack_number(s, NUMBER_SIZE * i)

\* How many offsets the header says it has, by where the first part starts.
HeaderCount(s) ==
    IF TotalSize(s) = NUMBER_SIZE THEN 0 ELSE Offset(s, 1) \div NUMBER_SIZE - 1

\* Of n parts each reaches to the next, and the last to the end of the slice.
PartEnd(s, i, n) == IF i = n THEN Len(s) ELSE Offset(s, i + 1)
Part(s, i, n) == Cut(s, Offset(s, i), PartEnd(s, i, n))

\* Slip: the offsets are not compared with one another.
HeaderVerifySlip(s) ==
    /\ HasNumber(s, 0)
    /\ TotalSize(s) = Len(s)
    /\ HasNumber(s, NUMBER_SIZE)
    /\ Offset(s, 1) % NUMBER_SIZE = 0
    /\ Offset(s, 1) \in 2 * NUMBER_SIZE .. Len(s)

HeaderVerify(s) ==
    /\ HasNumber(s, 0)
    /\ TotalSize(s) = Len(s)
    /\ HasNumber(s, NUMBER_SIZE)
    /\ Offset(s, 1) % NUMBER_SIZE = 0
    /\ Offset(s, 1) \in 2 * NUMBER_SIZE .. Len(s)
    /\ LET n == HeaderCount(s)
       IN  \A i \in 1 .. n : Offset(s, i) <= PartEnd(s, i, n)

\* Taking the parts apart panics where one of them does not lie in the slice.
PartsInBounds(s) ==
    LET n == HeaderCount(s)
    IN  \A i \in 1 .. n : /\ Offset(s, i) <= PartEnd(s, i, n)
                          /\ PartEnd(s, i, n) <= Len(s)

\* A vector without items is its length alone; one with items has a header.
DynvecHeaderVerify(s) ==
    \/ Len(s) = NUMBER_SIZE /\ TotalSize(s) = NUMBER_SIZE
    \/ HeaderVerify(s)

DynvecItems(s) ==
    LET n == HeaderCount(s) IN [i \in 1 .. n |-> Part(s, i, n)]

\* Slip: from_slice takes a table with more fields, as from_compatible_slice does.
TableHeaderVerifySlip(s, count) == HeaderVerify(s) /\ HeaderCount(s) >= count

\* from_slice takes a table with as many fields as its type has, no more.
TableHeaderVerify(s, count) == HeaderVerify(s) /\ HeaderCount(s) = count

\* Where the header ends, and each part behind it.
Ends(parts) ==
    LET end[i \in 0 .. Len(parts)] ==
          IF i = 0 THEN NUMBER_SIZE * (Len(parts) + 1) ELSE end[i - 1] + Len(parts[i])
    IN  end

\* The header of parts, and the parts.
WithHeader(parts) ==
    LET end == Ends(parts)
        offsets == [i \in 1 .. Len(parts) |-> pack_number(end[i - 1])]
    IN  pack_number(end[Len(parts)]) \o FlattenSeq(offsets) \o FlattenSeq(parts)

DynvecBuild(items) ==
    IF items = << >> THEN pack_number(NUMBER_SIZE) ELSE WithHeader(items)

TableBuild(parts) == WithHeader(parts)

-----------------------------------------------------------------------------
(* The fields of a table, read by getters that verify nothing.             *)

\* Only the last getter looks whether there are more fields than the type has.
FieldEnd(s, i, count) ==
    IF i = count /\ HeaderCount(s) = count THEN Len(s) ELSE Offset(s, i + 1)

Field(s, i, count) == Cut(s, Offset(s, i), FieldEnd(s, i, count))

\* The getter panics where its range does not lie in the slice.
FieldInBounds(s, i, count) ==
    /\ HasNumber(s, NUMBER_SIZE * i)
    /\ (i # count \/ HeaderCount(s) # count) => HasNumber(s, NUMBER_SIZE * (i + 1))
    /\ Offset(s, i) <= FieldEnd(s, i, count)
    /\ FieldEnd(s, i, count) <= Len(s)

\* field_count() subtracts one from nothing: a debug build panics on it.
FieldCountUnderflows(s) ==
    TotalSize(s) # NUMBER_SIZE /\ Offset(s, 1) < NUMBER_SIZE
=============================================================================
