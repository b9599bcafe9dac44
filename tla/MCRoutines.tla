----------------------------- MODULE MCRoutines -----------------------------
(* Routines with registers, buffers, bytes and tables of a small size. *)
EXTENDS Routines

(***************************************************************************)
(* Directives with every flag and every pair of flags in either order;     *)
(* texts that leave the buffer of four empty, part full or flushed once;   *)
(* numbers at the ends of the narrow types, which are cut off in them, and *)
(* numbers with more digits than columns.  The interpreter skips the       *)
(* modifier z, so that what it modifies is an int.                         *)
(***************************************************************************)
FlagLists ==
  LET Flags == {"#", "0", "-", " ", "+"}
  IN  {<<>>} \cup {<<f>> : f \in Flags} \cup {fs \in Flags \X Flags : fs[1] # fs[2]}

Lengths == {"", "hh", "h", "l", "ll", "z"}
MCBits  == [l \in Lengths |-> CASE l = "hh" -> 2 [] l = "h" -> 3 [] l = "l" -> 5
                                [] l = "ll" -> 6 [] OTHER -> 4]

Numbers ==
  [text : {<<"t">>}, flags : FlagLists,
   width : {<<>>, <<"4">>, <<"1", "0">>}, length : Lengths,
   conversion : {"d", "u", "o", "x", "X", "p"}, number : {0, -13, 27}, string : {<<>>}]

Others ==
  [text : {<<>>, <<"t", "e", "x", "t", "1">>}, flags : {<<>>, <<"-">>},
   width : {<<>>, <<"4">>, <<"1", "0">>}, length : {"", "l", "z"},
   conversion : {"c", "s", "%", "e"}, number : {0}, string : {<<"s", "t", "r", "n", "g">>}]

MCDirectives == Numbers \cup Others

MCFollowers ==
  [text : {<<"t">>}, flags : {<<>>}, width : {<<>>}, length : {""}, conversion : {"x"},
   number : {7}, string : {<<>>}]

\* Archives of up to two files with odd and even names and sizes, one that needs
\* both halves and one as long as an entry can be; without a trailer, and with a
\* file behind it.
CpioFiles ==
  LET Sizes == {0, 1, 2, 17, 249}
  IN  [name : {"a"}, namesize : {2}, filesize : Sizes]
        \cup [name : {"bc"}, namesize : {3}, filesize : Sizes]
CpioTrailer == [name : {"TRAILER!!!"}, namesize : {11}, filesize : {0}]

MCArchives ==
  (CpioFiles \X CpioTrailer) \cup (CpioFiles \X CpioFiles)
    \cup (CpioFiles \X CpioTrailer \X CpioFiles) \cup (CpioFiles \X CpioFiles \X CpioTrailer)

\* Names and values of every length up to a word and more, among them words
\* that read as tokens, and values longer than a register.
Items(token, bytes, nameoffs) == [token : {token}, bytes : bytes, nameoff : nameoffs]
Values == {<<>>, <<7>>, <<0, 0, 0, 9>>, <<0, 0, 0, 3, 0>>, <<0, 0, 0, 0, 0, 0, 5, 11>>}
Plain ==
  Items(1, {<<>>, <<1, 2>>, <<3, 3, 3>>, <<3, 3, 3, 3>>}, {0})
    \cup Items(3, Values, {3}) \cup Items(3, {<<7>>}, {7})
    \cup Items(0, {<<>>}, {0}) \cup Items(2, {<<>>}, {0}) \cup Items(4, {<<>>}, {0})
Initrd == Items(3, Values, {0, 8})
End    == Items(9, {<<>>}, {0})

MCTrees ==
  (Plain \X Plain \X (Initrd \cup Plain) \X End) \cup (Initrd \X Plain)
    \cup (Plain \X End \X Initrd)

\* Sv32 and Sv39 with indices of two bits and pages of four: the address of a page
\* is longer than a register in Sv32, and shorter in Sv39.
MCMachines ==
  {[xlen |-> 8, mode |-> 1, index |-> 2, reserved |-> 0, levels |-> 2],
   [xlen |-> 11, mode |-> 2, index |-> 2, reserved |-> 2, levels |-> 3]}

MCTables == <<9, 2, 11>>
MCFrames == [level \in 0..2 |->
  CASE level = 0 -> {5, 14} [] level = 1 -> {4, 8} [] level = 2 -> {16}]
=============================================================================
