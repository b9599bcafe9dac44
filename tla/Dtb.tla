-------------------------------- MODULE Dtb ---------------------------------
(***************************************************************************)
(* dtb_parse.c: the walk over the structure block of a flattened device    *)
(* tree in search of linux,initrd-start.  The blocks are sequences of      *)
(* bytes, offsets count from 0; a word has four bytes, a register XLEN / 8 *)
(* of them.  The walk over the reservation map and the count of the depth  *)
(* have no effect and are left out.                                        *)
(***************************************************************************)
EXTENDS Integers, Sequences, SequencesExt

CONSTANTS
  Byte,        \* the values of a byte are below it
  Register,    \* bytes of a register
  Trees,       \* device trees: sequences of items
  Magics       \* how the header reads: "big", "little" or "wrong"

FDT_BEGIN_NODE == 1
FDT_END_NODE   == 2
FDT_PROP       == 3
FDT_NOP        == 4
FDT_END        == 9

\* The block of the property names: each ends with 0, and the first one is the
\* beginning of the second one and the end of the third.
Initrd  == <<1, 2>>
strings == <<1, 2, 0, 1, 2, 1, 0, 2, 1, 2, 0>>

Square == Byte * Byte      \* a word is below Square * Square

\* The items that are properties linux,initrd-start, up to the end of the tree.
InitrdItems(items) ==
  {n \in DOMAIN items :
     /\ items[n].token = FDT_PROP /\ items[n].nameoff \in {0, 8}
     /\ \A m \in 1..(n - 1) : items[m].token # FDT_END}

\* Assumed of the constants, where the module is instantiated.  A token is a word.
\* Names of nodes are without a 0; the name of a property is in the block of names,
\* and its length is a word.  Only one property is linux,initrd-start.
DtbAssumption ==
  /\ Byte \in Nat /\ Byte > 9
  /\ Register \in Nat \ {0}
  /\ Magics \subseteq {"big", "little", "wrong"}
  /\ \A items \in Trees :
       /\ Len(items) \in Nat \ {0} /\ DOMAIN items = 1..Len(items)
       /\ \A n \in DOMAIN items :
            /\ items[n].token \in 0..(Square * Square - 1)
            /\ items[n].bytes \in Seq(0..(Byte - 1))
            /\ items[n].token = FDT_BEGIN_NODE =>
                 \A k \in DOMAIN items[n].bytes : items[n].bytes[k] # 0
            /\ items[n].token = FDT_PROP =>
                 /\ Len(items[n].bytes) < Square * Square
                 /\ items[n].nameoff \in 0..(Len(strings) - 1)
       /\ \A m, n \in InitrdItems(items) : m = n

VARIABLES
  tree,        \* the items
  magic,
  dt_struct,   \* the structure block
  i,           \* offset in it
  initrd_start,
  place        \* "walk" or "done"

vars == <<tree, magic, dt_struct, i, initrd_start, place>>

-----------------------------------------------------------------------------
(* Reading memory. *)

ByteAt(block, o) == IF o < Len(block) THEN block[o + 1] ELSE 0

Bytes(block, o, n) == [k \in 1..n |-> ByteAt(block, o + k - 1)]

\* Bytes shifted one after the other into a register that holds n.
Shifted(n, bytes) ==
  LET after[k \in 0..Len(bytes)] ==
        IF k = 0 THEN n ELSE (after[k - 1] * Byte + bytes[k]) % Byte^Register
  IN  after[Len(bytes)]

Word4(b3, b2, b1, b0) == ((b3 * Byte + b2) * Byte + b1) * Byte + b0

\* A load of a word: the machine is little-endian if the magic reads swapped.
Load32(o) ==
  IF magic = "little"
  THEN Word4(ByteAt(dt_struct, o + 3), ByteAt(dt_struct, o + 2),
             ByteAt(dt_struct, o + 1), ByteAt(dt_struct, o))
  ELSE Word4(ByteAt(dt_struct, o), ByteAt(dt_struct, o + 1),
             ByteAt(dt_struct, o + 2), ByteAt(dt_struct, o + 3))

\* dtb_parse_swap_endianess_32
Swap32(word) ==
  Word4(word % Byte, (word \div Byte) % Byte, (word \div Square) % Byte,
        word \div (Square * Byte))

Word(o) == IF magic = "little" THEN Swap32(Load32(o)) ELSE Load32(o)

strlen(block, o) == CHOOSE n \in 0..Len(block) :
                      ByteAt(block, o + n) = 0 /\ \A m \in 0..(n - 1) : ByteAt(block, o + m) # 0

strcmp_equal(o, name) == Bytes(strings, o, strlen(strings, o)) = name

\* The offset is rounded up, from the beginning of the block.
Aligned(o) == IF o % 4 = 0 THEN o ELSE (o - (o % 4)) + 4

-----------------------------------------------------------------------------
\* The loop ends with the block, which the block of names follows.
Inside == place = "walk" /\ magic # "wrong" /\ i < Len(dt_struct)

Token(token) == Inside /\ Word(i) = token

GoOn(o) == i' = o /\ UNCHANGED <<tree, magic, dt_struct, place>>

EndNode == Token(FDT_END_NODE) /\ GoOn(i + 4) /\ UNCHANGED initrd_start

BeginNode ==
  /\ Token(FDT_BEGIN_NODE)
  /\ GoOn(Aligned(i + 4 + strlen(dt_struct, i + 4) + 1))
  /\ UNCHANGED initrd_start

Nop == Token(FDT_NOP) /\ GoOn(i + 4) /\ UNCHANGED initrd_start

\* The bytes of the value are shifted into a register, in which the last ones
\* remain.
Prop ==
  /\ Token(FDT_PROP)
  /\ LET len     == Word(i + 4)
         nameoff == Word(i + 8)
     IN  /\ initrd_start' =
              IF strcmp_equal(nameoff, Initrd)
              THEN Shifted(initrd_start, Bytes(dt_struct, i + 12, len))
              ELSE initrd_start
         /\ GoOn(Aligned(i + 12 + len))

\* A word that is no token is passed over.
Other ==
  /\ Inside
  /\ Word(i) \notin {FDT_BEGIN_NODE, FDT_END_NODE, FDT_PROP, FDT_NOP, FDT_END}
  /\ GoOn(i + 4)
  /\ UNCHANGED initrd_start

Finish ==
  /\ place = "walk"
  /\ magic = "wrong" \/ i >= Len(dt_struct) \/ Word(i) = FDT_END
  /\ place' = "done"
  /\ UNCHANGED <<tree, magic, dt_struct, i, initrd_start>>

-----------------------------------------------------------------------------
(* How a device tree compiler writes the block.  An item is a record: a    *)
(* token, and its bytes: the name of a node or the value of a property,    *)
(* which has the offset of its name too.                                   *)

Padding(n) == [k \in 1..((4 - (n % 4)) % 4) |-> 0]
WordOf(n)  ==
  <<n \div (Square * Byte), (n \div Square) % Byte, (n \div Byte) % Byte, n % Byte>>

Spelled(item) ==
  CASE item.token = FDT_BEGIN_NODE ->
         WordOf(item.token) \o item.bytes \o <<0>> \o Padding(Len(item.bytes) + 1)
    [] item.token = FDT_PROP ->
         WordOf(item.token) \o WordOf(Len(item.bytes)) \o WordOf(item.nameoff)
           \o item.bytes \o Padding(Len(item.bytes))
    [] OTHER -> WordOf(item.token)

Call(items, m) ==
  /\ tree = items
  /\ magic = m
  /\ dt_struct = FlattenSeq([n \in DOMAIN items |-> Spelled(items[n])])
  /\ i = 0
  /\ initrd_start = 0
  /\ place = "walk"

Init == \E items \in Trees, m \in Magics : Call(items, m)

Next == EndNode \/ BeginNode \/ Nop \/ Prop \/ Other \/ Finish

Spec == Init /\ [][Next]_vars /\ WF_vars(Next)

-----------------------------------------------------------------------------
\* The values of linux,initrd-start in the tree, up to its end.
Initrds == {tree[n].bytes : n \in InitrdItems(tree)}

\* dtb_parse finds the value of linux,initrd-start wherever it stands, as much
\* of it as a register holds, whatever the names and values before it look like;
\* and nothing in a tree without it or with a header it does not know.
DtbFound ==
  place = "done" =>
    \/ magic = "wrong" /\ initrd_start = 0
    \/ magic # "wrong" /\ Initrds = {} /\ initrd_start = 0
    \/ /\ magic # "wrong"
       /\ \E value \in Initrds : initrd_start = Shifted(0, value)
=============================================================================
