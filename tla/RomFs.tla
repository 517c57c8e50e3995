-------------------------------- MODULE RomFs --------------------------------
(***************************************************************************)
(* The ROM file system: how genmromfs.tcl packs a directory into an image, *)
(* and how mromfs.c finds and reads a file of it.  A build is the sequence *)
(* of the files packed, [name, size]; every file has a head of Align bytes *)
(* (next, size, offset, name) and its data behind it, padded to Align.     *)
(*                                                                         *)
(* An image consists of heads and of data; the byte at an offset is the    *)
(* pair of the file and the position in it.  The script only seeks over    *)
(* padding, so the image ends with the last byte it writes.                *)
(***************************************************************************)
EXTENDS Integers, Sequences, FiniteSetsExt

CONSTANTS HeadSize,  \* HEAD_SIZE, sizeof(struct mromfs_head_t)
          Align,     \* ALIGN
          FileHead   \* bytes the script writes of the head of a file

ASSUME AlignAssumption == Align \in Nat \ {0} /\ HeadSize \in Nat \ {0}
ASSUME FileHeadAssumption == FileHead \in 1 .. Align

MROMFS_ERROR_OUT_OF_BOUND == -3
MROMFS_ERROR_NOT_FOUND    == -4

(* The end of a file whose head is at offset, and the place of the next.   *)
NextOffset(offset, size) ==
    LET end == offset + Align + size
    IN  IF (end % Align) # 0 THEN end + (Align - (end % Align)) ELSE end

(* genmromfs.tcl: the heads, at their offsets.                             *)
Offset(build) ==
    LET at[i \in 1 .. Len(build)] ==
            IF i = 1 THEN HeadSize ELSE NextOffset(at[i - 1], build[i - 1].size)
    IN  at

(* Mutant of Heads: the offset of the data is that of the head.            *)
HeadsOfData(build) ==
    LET at == Offset(build) IN
    [o \in {at[i] : i \in DOMAIN build} |->
        LET i == CHOOSE i \in DOMAIN build : at[i] = o IN
        [next   |-> IF i = Len(build) THEN 0 ELSE at[i + 1],
         size   |-> build[i].size,
         offset |-> o,
         name   |-> build[i].name]]

Heads(build) ==
    LET at == Offset(build) IN
    [o \in {at[i] : i \in DOMAIN build} |->
        LET i == CHOOSE i \in DOMAIN build : at[i] = o IN
        [next   |-> IF i = Len(build) THEN 0 ELSE at[i + 1],
         size   |-> build[i].size,
         offset |-> o + Align,
         name   |-> build[i].name]]

(* The size of the image: where the last byte written ends.                *)
Size(build) ==
    LET at == Offset(build) IN
    Max({HeadSize} \cup {at[i] + FileHead : i \in DOMAIN build}
        \cup {at[i] + Align + build[i].size : i \in {j \in DOMAIN build : build[j].size > 0}})

(* The byte of the image at an offset: of the data of a file, or 0.        *)
Byte(build, o) ==
    LET at == Offset(build)
        in(i) == o \in at[i] + Align .. at[i] + Align + build[i].size - 1
    IN  IF \E i \in DOMAIN build : in(i)
        THEN LET i == CHOOSE i \in DOMAIN build : in(i)
             IN  <<build[i].name, o - (at[i] + Align) + 1>>
        ELSE 0

(* mromfsOpen: the chain of heads is followed to the first one with the    *)
(* name.  A file descriptor, or an error.                                  *)
Open(build, name) ==
    LET heads == Heads(build)
        search[o \in DOMAIN heads \cup {0}] ==
            IF o = 0 THEN [error |-> MROMFS_ERROR_NOT_FOUND]
            ELSE IF o >= Size(build) THEN [error |-> MROMFS_ERROR_OUT_OF_BOUND]
            ELSE IF heads[o].name # name THEN search[heads[o].next]
            ELSE IF heads[o].offset + heads[o].size > Size(build)
            THEN [error |-> MROMFS_ERROR_OUT_OF_BOUND]
            ELSE [error |-> 0, start |-> heads[o].offset, size |-> heads[o].size,
                  offset |-> heads[o].offset]
    IN  search[HeadSize]

(* Mutant of ReadLen: the end of the file is not the limit of what is      *)
(* read.                                                                   *)
ReadLenUnlimited(fd, len) == IF fd.start + fd.size > fd.offset THEN len ELSE 0

(* mromfsRead: how many bytes it copies from fd.offset on.                 *)
ReadLen(fd, len) ==
    LET rest == fd.start + fd.size - fd.offset IN IF rest > len THEN len ELSE rest
===============================================================================
