------------------------------- MODULE MCLoad -------------------------------
(* Load with addresses of seven bits: the archive below 64, RAM from 64 to 107 *)
(* with the firmware in its first five cells, and boundaries every eight.      *)
EXTENDS Load

MCFlash == [f \in Files |-> CASE f = "kernel" -> 16 [] f = "dtb" -> 32 [] f = "initramfs" -> 40]

\* Kernels that end below the next boundary and behind it; offsets that are zero,
\* a boundary, none, at the end of RAM, and so high that the sum wraps around when
\* it is rounded up or at once.
MCKernels ==
  {k \in [file : {1, 6, 9}, image : {6, 9, 22}, text : {0, 3, 8, 40, 57, 64}] : k.file <= k.image}

MCFwDyninfos ==
  [magic : {"none", "wrong"}, next_addr : {80}]
    \cup [magic : {"right"}, next_addr : {0, 69, 72, 75, 80, 84}]

MCDtbAddrs    == {0, 70, 78, 79, 88, 105}
MCInitrdAddrs == {0, 86, 97}
=============================================================================
