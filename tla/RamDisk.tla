------------------------------- MODULE RamDisk -------------------------------
(***************************************************************************)
(* The block devices under the file services rcore_sfsfdtab (a vector of    *)
(* bytes, driver_block/src/ramdisk.rs) and ext4fdtab (an image file,        *)
(* driver_block/src/stream_disk.rs), and the adapters that give the file    *)
(* systems byte addresses on them.  A disk is a sequence of bytes; byte     *)
(* addresses and block numbers start at 0, as in the code.                  *)
(***************************************************************************)
EXTENDS Integers, Sequences

CONSTANTS BlockSize,  \* BLOCK_SIZE
          SuperBlock    \* offset and size of the ext4 super block

ASSUME RamDiskAssumption ==
    BlockSize \in Nat \ {0} /\ SuperBlock \in 1..BlockSize

Zeros(n) == [i \in 1..n |-> 0]

\* The bytes of d from address o, and d with the bytes s from address o.
Slice(d, o, n) == SubSeq(d, o + 1, o + n)
Patch(d, o, s) == [i \in 1..Len(d) |-> IF i \in (o + 1)..(o + Len(s)) THEN s[i - o] ELSE d[i]]

Least(a, b) == IF a < b THEN a ELSE b

align_up(n) == ((n + BlockSize - 1) \div BlockSize) * BlockSize

\* RamDisk::new of the sfs device: as large as the image, and empty.
NewDisk(size) == Zeros(align_up(size))

\* RamDisk::from, and the stream disk: the image, its last block filled up.
DiskFrom(image) == image \o Zeros(align_up(Len(image)) - Len(image))

\* The check of read_block and write_block; both return Io when it fails.
BlockThere(d, b) == b * BlockSize + BlockSize <= Len(d)

ReadBlock(d, b) == Slice(d, b * BlockSize, BlockSize)
WriteBlock(d, b, buf) == Patch(d, b * BlockSize, buf)

-----------------------------------------------------------------------------
(* rcore_sfsfdtab: Device for RamDiskDevice *)

\* How much of n bytes at address o one call transfers: no more than the block has.
InBlock(o, n) == Least(n, BlockSize - (o % BlockSize))

\* read_at: the bytes read, at most up to the end of the block, or none and DevError.
SfsReadAt(d, o, n) ==
    IF BlockThere(d, o \div BlockSize)
    THEN Slice(ReadBlock(d, o \div BlockSize), o % BlockSize, InBlock(o, n))
    ELSE <<>>

\* Mutant: the block is written without having been read.
SfsWriteAtBlind(d, o, s) ==
    LET b == o \div BlockSize
    IN IF BlockThere(d, b)
       THEN WriteBlock(d, b, Patch(Zeros(BlockSize), o % BlockSize, Slice(s, 0, InBlock(o, Len(s)))))
       ELSE d

\* write_at: read the block, change what falls in it, write it back; the disk
\* is as it was when the block is not there (DevError).
SfsWriteAt(d, o, s) ==
    LET b == o \div BlockSize
    IN IF BlockThere(d, b)
       THEN WriteBlock(d, b, Patch(ReadBlock(d, b), o % BlockSize, Slice(s, 0, InBlock(o, Len(s)))))
       ELSE d

\* SFS (external) repeats the device's call until all bytes are transferred.
SfsRead(d, o, n) ==
    LET f[m \in 0..n] ==           \* the last m bytes
            IF m = 0 THEN <<>>
            ELSE LET r == SfsReadAt(d, o + n - m, m)
                 IN IF r = <<>> THEN <<>> ELSE r \o f[m - Len(r)]
    IN f[n]

SfsWrite(d, o, s) ==
    LET f[m \in 0..Len(s)] ==      \* the disk once the last m bytes are written
            IF m = 0 THEN d
            ELSE LET at == o + Len(s) - m
                 IN SfsWriteAt(f[m - InBlock(at, m)], at, Slice(s, Len(s) - m, m))
    IN f[Len(s)]

-----------------------------------------------------------------------------
(* ext4fdtab: BlockDevice for RamDiskDevice *)

\* The blocks that the n bytes at address o touch.
Blocks(o, n) == (o \div BlockSize)..((o + n - 1) \div BlockSize)

\* read_offset: 1024 bytes at the super block, a block's worth elsewhere, taken
\* from as many blocks as they span; all zeros when one of those is not there.
Ext4ReadOffset(d, o) ==
    LET n == IF o = SuperBlock THEN SuperBlock ELSE BlockSize
    IN IF \A b \in Blocks(o, n) : BlockThere(d, b) THEN Slice(d, o, n) ELSE Zeros(n)

\* Mutant: every block is patched with the beginning of the data.
Ext4WriteOffsetHead(d, o, s) ==
    LET f[w \in 0..Len(s)] ==
            IF w = Len(s) \/ ~BlockThere(d, (o + w) \div BlockSize) THEN d
            ELSE LET n == InBlock(o + w, Len(s) - w)
                 IN Patch(f[w + n], o + w, Slice(s, 0, n))
    IN f[0]

\* write_offset: block by block, each read, changed and written back; at the
\* first block that is not there it returns without a word, what precedes it
\* written.  f[w]: the effect of the loop with w bytes written already.
Ext4WriteOffset(d, o, s) ==
    LET f[w \in 0..Len(s)] ==
            IF w = Len(s) \/ ~BlockThere(d, (o + w) \div BlockSize) THEN d
            ELSE LET n == InBlock(o + w, Len(s) - w)
                     b == (o + w) \div BlockSize
                 IN WriteBlock(f[w + n], b,
                        Patch(ReadBlock(f[w + n], b), (o + w) % BlockSize, Slice(s, w, n)))
    IN f[0]

\* ext4_rs (external) reads a file block by block.
Ext4Read(d, o, n) ==
    [i \in 1..n |-> LET at == o + i - 1
                    IN Ext4ReadOffset(d, at - (at % BlockSize))[(at % BlockSize) + 1]]
==============================================================================
