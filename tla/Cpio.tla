-------------------------------- MODULE Cpio --------------------------------
(***************************************************************************)
(* cpio_parse.c: the search for a file in an archive of the old binary     *)
(* format, in the byte order of either kind of machine.  Memory holds      *)
(* headers, names and data at their addresses; a half word of a header is  *)
(* a number of two bytes.  One step is one pass of the loop.               *)
(***************************************************************************)
EXTENDS Integers, Sequences

CONSTANTS
  Byte,        \* the values of a byte are below it
  Header,      \* sizeof(struct header_pwb_cpio)
  Archives,    \* the archives: sequences of entries [name, namesize, filesize]
  Filenames,   \* what is searched for
  Orders       \* byte orders of archives: "same" as the machine's, or "other"

Half  == Byte * Byte
Word  == Half * Half     \* the values of a uint32_t are below it
Magic == Byte + 2        \* 0x71C7: two bytes that differ

\* What an archive holds of a size: cpio pads names and files to half words.
Padded(size) == 2 * ((size + 1) \div 2)

\* Assumed of the constants, where the module is instantiated: an archive has an
\* entry, each with a name that ends with a 0, sizes that its header holds, and a
\* name and a file that are below 2^32 bytes together, with their paddings.
CpioAssumption ==
  /\ Byte \in Nat \ {0, 1, 2}
  /\ Header \in Nat \ {0} /\ Header % 2 = 0
  /\ Orders \subseteq {"same", "other"}
  /\ \A entries \in Archives :
       /\ Len(entries) \in Nat \ {0} /\ DOMAIN entries = 1..Len(entries)
       /\ \A n \in DOMAIN entries :
            /\ entries[n].namesize \in 1..(Half - 1)
            /\ entries[n].filesize \in 0..(Word - 1)
            /\ Padded(entries[n].namesize) + Padded(entries[n].filesize) < Word

VARIABLES
  archive,     \* the entries, the trailer among them
  order,
  filename,
  ptr,
  datasize,    \* entry_datasize
  found        \* <<>>, or the pointer returned and the file size in the buffer

vars == <<archive, order, filename, ptr, datasize, found>>

\* cpio_parse_swap_endianess_16
Swap16(half) == (half % Byte) * Byte + half \div Byte

\* read_entry: the half words are swapped unless the magic is right, and the
\* halves of a long number are always, since a machine that has the low half
\* first reads it.
Fixed(head, half) == IF head.magic = Magic THEN half ELSE Swap16(half)
NameSize(head)    == Fixed(head, head.namesize)
FileSize(head)    == Fixed(head, head.filesize_hi) * Half + Fixed(head, head.filesize_lw)

\* Mutation: an odd size is not rounded up.
Even_missing(size) == size

Even(size) == (size + (size % 2)) % Word

-----------------------------------------------------------------------------
(* How cpio writes an archive. *)

\* Where each entry begins.
Starts(entries) ==
  LET start[n \in DOMAIN entries] ==
        IF n = 1 THEN 0
        ELSE start[n - 1] + Header + Padded(entries[n - 1].namesize)
               + Padded(entries[n - 1].filesize)
  IN  start

DataStart(entries, n) == Starts(entries)[n] + Header + Padded(entries[n].namesize)

Written(half, ord) == IF ord = "same" THEN half ELSE (half % Byte) * Byte + half \div Byte

HeaderOf(namesize, filesize, ord) ==
  [kind |-> "header", magic |-> Written(Magic, ord), namesize |-> Written(namesize, ord),
   filesize_hi |-> Written(filesize \div Half, ord),
   filesize_lw |-> Written(filesize % Half, ord)]

\* What lies at an address.  The data of every file looks like the header of an
\* archive.
At(x) ==
  LET start == Starts(archive)
      n     == CHOOSE n \in DOMAIN archive :
                 /\ start[n] <= x
                 /\ n < Len(archive) => x < start[n + 1]
      data  == start[n] + Header + Padded(archive[n].namesize)
  IN  CASE x = start[n] -> HeaderOf(archive[n].namesize, archive[n].filesize, order)
        [] x = start[n] + Header -> [kind |-> "name", name |-> archive[n].name]
        [] x >= data /\ x < data + archive[n].filesize -> HeaderOf(0, 0, order)
        [] x >= data + archive[n].filesize -> [kind |-> "erased"]
        [] OTHER -> [kind |-> "filler"]

cpio_head   == At(ptr + datasize)
IsHeader    == cpio_head.kind = "header" /\ cpio_head.magic \in {Magic, Swap16(Magic)}
Names(name) == At(ptr + datasize + Header) = [kind |-> "name", name |-> name]

-----------------------------------------------------------------------------
Return(pointer, size) ==
  /\ found' = <<pointer, size>>
  /\ UNCHANGED <<archive, order, filename, ptr, datasize>>

NoHeader == found = <<>> /\ ~IsHeader /\ Return(0, 0)

Match ==
  /\ found = <<>> /\ IsHeader /\ Names(filename)
  /\ Return(ptr + datasize + Header + Even(NameSize(cpio_head)), FileSize(cpio_head))

Trailer ==
  found = <<>> /\ IsHeader /\ ~Names(filename) /\ Names("TRAILER!!!") /\ Return(0, 0)

NextEntry ==
  /\ found = <<>> /\ IsHeader /\ ~Names(filename) /\ ~Names("TRAILER!!!")
  /\ ptr' = ptr + datasize + Header
  /\ datasize' = (Even(NameSize(cpio_head)) + Even(FileSize(cpio_head))) % Word
  /\ UNCHANGED <<archive, order, filename, found>>

-----------------------------------------------------------------------------
Call(entries, ord, name) ==
  /\ archive = entries
  /\ order = ord
  /\ filename = name
  /\ ptr = 0
  /\ datasize = 0
  /\ found = <<>>

Init == \E entries \in Archives, ord \in Orders, name \in Filenames : Call(entries, ord, name)

Next == NoHeader \/ Match \/ Trailer \/ NextEntry

Spec == Init /\ [][Next]_vars /\ WF_vars(Next)

-----------------------------------------------------------------------------
\* The entries that carry the name, before the trailer.
Matches ==
  {n \in DOMAIN archive :
     archive[n].name = filename /\ \A m \in 1..(n - 1) : archive[m].name # "TRAILER!!!"}

\* get_cpio_entry_header returns where the data of the first file of that name
\* begins, and how long it is, for an archive of either byte order; or 0 if the
\* archive has no such file in front of its trailer, or in front of its end.
CpioFound ==
  found # <<>> =>
    IF Matches = {} THEN found = <<0, 0>>
    ELSE \E n \in Matches :
           /\ \A m \in Matches : n <= m
           /\ found = <<DataStart(archive, n), archive[n].filesize>>
=============================================================================
