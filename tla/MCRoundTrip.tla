---------------------------- MODULE MCRoundTrip ----------------------------
(* Blocks of eight cells, inodes of one or two, dirents of one.            *)
EXTENDS RoundTrip
LOCAL INSTANCE SequencesExt

(* "!!" sorts before the dots; 4, 5 and 6 are names of one and three       *)
(* characters; 7 contains a slash; 8 is longer than MAX_NAME_LEN; 9 is the *)
(* replacement character, 10 and 11 are single bytes that are not UTF-8.   *)
MCNameLen == <<2, 1, 2, 1, 1, 3, 3, 5, 3, 1, 1>>
MCLossy == [n \in 1..11 |-> IF n \in {10, 11} THEN 9 ELSE n]
MCSlash == {7}
MCReadSizes == {3, 8}
MCDepths == {0, 1, 2}
MCRewriteSizes == {1, 9}

Text(n, size) == [i \in 1..size |-> Byte(<<n, 0, i>>)]

-----------------------------------------------------------------------------
(* Host trees: the nodes after the root, as [in, name, type, size].        *)

N(in, name, type, size) == [in |-> in, name |-> name, type |-> type, size |-> size]

Host(rootType, nodes) ==
  LET all == 0..Len(nodes)
  IN  [type |-> [n \in all |-> IF n = 0 THEN rootType ELSE nodes[n].type],
       name |-> [n \in all |-> IF n = 0 THEN Dot ELSE nodes[n].name],
       children |-> [n \in all |-> {c \in 1..Len(nodes) : nodes[c].in = n}],
       content |-> [n \in all |-> IF n = 0 \/ nodes[n].type = "dir" THEN Text(n, 1)
                                  ELSE Text(n, nodes[n].size)],
       rootIsDir |-> rootType \in {"dir", "symlink"}]

MCHosts ==
  { \* a root of two blocks, the first filled to the last cell, dots not first
    Host("dir", <<N(0, 1, "file", 9), N(0, 4, "dir", 0), N(0, 6, "symlink", 8),
                  N(2, 5, "file", 1)>>),
    \* a first block with room to spare, an empty file, nested directories
    Host("dir", <<N(0, 4, "dir", 0), N(1, 4, "dir", 0), N(2, 6, "file", 16),
                  N(0, 6, "file", 0), N(0, 5, "symlink", 0)>>),
    \* directories below the cap on the depth
    Host("dir", <<N(0, 4, "dir", 0), N(1, 4, "dir", 0), N(2, 4, "dir", 0)>>),
    \* more blocks than there are addresses, with and without a last one to take
    Host("dir", <<N(0, 4, "file", 8), N(0, 5, "file", 41)>>),
    Host("dir", <<N(0, 4, "file", 48), N(0, 5, "file", 8)>>),
    Host("dir", <<N(0, 4, "file", 48), N(0, 5, "file", 0)>>),
    Host("dir", <<N(0, 4, "file", 32), N(0, 5, "dir", 0)>>),
    \* names that are not UTF-8, told alike, and one that is told so itself
    Host("dir", <<N(0, 10, "file", 9), N(0, 11, "dir", 0), N(2, 10, "file", 0)>>),
    Host("dir", <<N(0, 9, "dir", 0), N(0, 10, "file", 1), N(1, 4, "file", 0)>>),
    \* a root that is reached through a symlink
    Host("symlink", <<>>),
    \* trees that are refused
    Host("dir", <<N(0, 4, "other", 0)>>),
    Host("dir", <<N(0, 8, "file", 1)>>),
    Host("file", <<>>),
    Host("dir", <<>>)}

(* Files that are empty when they are scanned, beside some that are not.   *)
MCEmptyHosts ==
  {Host("dir", <<N(0, 4, "file", 0), N(0, 5, "file", 9)>>),
   Host("dir", <<N(0, 4, "dir", 0), N(1, 6, "file", 0), N(0, 6, "symlink", 1)>>)}

-----------------------------------------------------------------------------
(* Given images: block 0 holds the superblock, block 1 the inodes.         *)

At(at, cells) == [at |-> at, cells |-> cells]
InodeCells(nid, cells) == At(BlockSize + nid, cells)
BlockCells(addr, cells) == At(addr * BlockSize, cells)

Cells(blocks, pieces) ==
  FoldLeft(LAMBDA cells, p : Put(cells, p.at, p.cells), Blank(blocks),
           <<At(SuperblockOffset, <<Super(0, 1, Plain)>>)>> \o pieces)

E(name, nid, type) == [name |-> name, nid |-> nid, type |-> type]
Used(entries) == Len(SelectSeq(DirBlock(entries), LAMBDA c : c # Zero))

(* A directory with plain data of one block.                               *)
D(nid, addr, entries) ==
  <<InodeCells(nid, Inode("extended", "plain", 0, "dir", Used(entries), addr)),
    BlockCells(addr, DirBlock(entries))>>

F(nid, size, addr) ==
  <<InodeCells(nid, Inode("extended", "plain", 0, "file", size, addr)),
    At(addr * BlockSize, Text(nid, size))>>

Made(blocks, pieces, listing, files, sound) ==
  [cells |-> Cells(blocks, pieces), root |-> 0, listing |-> listing, files |-> files,
   sound |-> sound, tidy |-> sound # {}, shown |-> <<>>]

Both == {"sync", "async"}

Loop == Made(3, D(0, 2, <<E(4, 0, "dir")>>), (0 :> {E(4, 0, "dir")}), <<>>, Both)

Back == Made(4, D(0, 2, <<E(Dot, 0, "dir"), E(4, 2, "dir")>>) \o D(2, 3, <<E(5, 0, "dir")>>),
             (0 :> {E(4, 2, "dir")} @@ 2 :> {E(5, 0, "dir")}), <<>>, Both)

(* A directory with two parents, one inside the other.                     *)
Shared == Made(7, D(0, 2, <<E(4, 2, "dir"), E(5, 4, "dir")>>) \o D(2, 3, <<E(4, 4, "dir")>>)
                  \o D(4, 4, <<E(6, 6, "file")>>) \o F(6, 9, 5),
               (0 :> {E(4, 2, "dir"), E(5, 4, "dir")} @@ 2 :> {E(4, 4, "dir")}
                @@ 4 :> {E(6, 6, "file")}), (6 :> Text(6, 9)), Both)

(* Compact inodes, extended attributes, data behind the inode.             *)
Inline ==
  LET tail == DirBlock(<<E(4, 7, "file"), E(6, 12, "file")>>)
  IN  Made(6, <<InodeCells(0, Inode("compact", "inline", 0, "dir", 8 + 6, 4)),
                BlockCells(4, DirBlock(<<E(Dot, 0, "dir"), E(DotDot, 0, "dir")>>)),
                InodeCells(1, SubSeq(tail, 1, 6)),
                InodeCells(7, Inode("compact", "inline", 1, "file", 3, 0)),
                InodeCells(9, Text(7, 3)),
                InodeCells(12, Inode("extended", "inline", 0, "file", 10, 5)),
                BlockCells(5, SubSeq(Text(12, 10), 1, 8)),
                InodeCells(14, SubSeq(Text(12, 10), 9, 10))>>,
           (0 :> {E(4, 7, "file"), E(6, 12, "file")}),
           (7 :> Text(7, 3) @@ 12 :> Text(12, 10)), Both)

(* Chunks of two blocks, the second one before the first.                  *)
Chunked(second, sound) ==
  Made(7, D(0, 2, <<E(4, 2, "file")>>)
          \o <<InodeCells(2, Inode("extended", "chunk", 1, "file", 19, 1)),
               InodeCells(5, <<ChunkAddr(4), ChunkAddr(second)>>),
               BlockCells(4, SubSeq(Text(2, 19), 1, 16)),
               BlockCells(3, SubSeq(Text(2, 19), 17, 19))>>,
       (0 :> {E(4, 2, "file")}), (2 :> Text(2, 19)), sound)

(* An empty block, then one with an entry.                                 *)
Holed == Made(4, <<InodeCells(0, Inode("extended", "plain", 0, "dir", 10, 2)),
                   BlockCells(3, DirBlock(<<E(4, 2, "file")>>))>> \o F(2, 0, 0),
              (0 :> {E(4, 2, "file")}), (2 :> <<>>), Both)

(* An entry of a directory says that it is a file: it is not entered.      *)
Lie == Made(3, D(0, 2, <<E(4, 0, "file")>>), (0 :> {E(4, 0, "file")}), <<>>, {})

(* The last cell of the image is a compact inode: async reads past it.     *)
AtTheEnd == Made(3, <<InodeCells(0, Inode("compact", "inline", 0, "dir", 2, 0)),
                   InodeCells(1, SubSeq(DirBlock(<<E(4, 15, "file")>>), 1, 2)),
                   InodeCells(15, Inode("compact", "plain", 0, "file", 0, 0))>>,
              (0 :> {E(4, 15, "file")}), (15 :> <<>>), {"sync"})

(* Damage.                                                                 *)
Damage(block, type, tail) ==
  Made(3, <<InodeCells(0, Inode("extended", "plain", 0, "dir", 8, 2)), BlockCells(2, block)>>
          \o tail, (0 :> {E(4, 2, type)} @@ 2 :> {}), (2 :> Text(2, 9)), {})

Damaged ==
  { Chunked(0, {}),
    Damage(<<Dirent(2, 2, "file"), Dirent(2, 9, "file"), NameCells(4)[1]>>, "file", <<>>),
    Damage(<<Dirent(2, 3, "file"), Dirent(2, 2, "file"), NameCells(4)[1]>>, "file", <<>>),
    Damage(DirBlock(<<E(4, 2, "invalid")>>), "invalid", <<>>),
    Damage(DirBlock(<<E(7, 2, "file")>>), "file", <<>>),
    \* a name with a zero in its middle
    [Damage(<<Dirent(2, 1, "file"), NameCells(4)[1], Zero, NameCells(4)[1]>>, "file", <<>>)
       EXCEPT !.listing = (0 :> {E(Garbled, 2, "file")} @@ 2 :> {})],
    Damage(DirBlock(<<E(4, 20, "file")>>), "file", <<>>),
    Damage(DirBlock(<<E(4, 2, "dir")>>), "dir", <<>>),
    \* the second block of the file lies behind the end
    Made(4, D(0, 2, <<E(4, 2, "file")>>)
            \o <<InodeCells(2, Inode("extended", "plain", 0, "file", 9, 3)),
                 BlockCells(3, SubSeq(Text(2, 9), 1, 8))>>,
         (0 :> {E(4, 2, "file")}), (2 :> Text(2, 9)), {}),
    Damage(DirBlock(<<E(4, 2, "file")>>), "file",
            <<InodeCells(2, Inode("extended", "compressed", 0, "file", 9, 1))>>),
    \* the root has no data, or its second block is missing
    Made(3, <<InodeCells(0, Inode("extended", "plain", 0, "dir", 0, 2))>>,
         (0 :> {}), <<>>, {}),
    Made(3, <<InodeCells(0, Inode("extended", "plain", 0, "dir", 16, 2))>>,
         (0 :> {}), <<>>, {}) }

-----------------------------------------------------------------------------
(* Images that the inspector shows and the reader cannot read in full.     *)

Showing(made, shown) == [made EXCEPT !.tidy = TRUE, !.shown = shown]

(* Attributes, shared and inline, and a table of chunks that begins behind *)
(* a cell left for its alignment: a chunk that is here, one on another     *)
(* device, a hole.                                                         *)
Attributes ==
  Showing(Made(8, D(0, 4, <<E(4, 2, "file"), E(5, 10, "file")>>)
                  \o <<InodeCells(2, Inode("extended", "plain", 5, "file", 9, 5)),
                       InodeCells(4, XattrCells(2, <<2>>)),
                       BlockCells(5, Text(2, 9)),
                       InodeCells(10, Inode("compact", "index", 0, "file", 20, 0)),
                       InodeCells(12, IndexCells(0, 7) \o IndexCells(1, 5) \o IndexCells(0, 8))>>,
               (0 :> {E(4, 2, "file"), E(5, 10, "file")}),
               (2 :> Text(2, 9) @@ 10 :> <<>>), {}),
          (10 :> {DataAt(56, 8, 0)}))

(* A map of extent records, and one of packs.                              *)
Records ==
  Showing(Made(7, D(0, 4, <<E(4, 2, "file"), E(5, 16, "file")>>)
                  \o <<InodeCells(2, Inode("extended", "full", 0, "file", 20, 0)),
                       InodeCells(4, MapCells(4, 2, 0, FALSE)),
                       InodeCells(8, ExtentCells(4, 8, 40, 0) \o ExtentCells(4, 4, 48, 16)),
                       InodeCells(16, Inode("compact", "compact", 0, "file", 9, 0)),
                       InodeCells(18, MapCells(0, 0, 0, FALSE))>>,
               (0 :> {E(4, 2, "file"), E(5, 16, "file")}),
               (2 :> <<>> @@ 16 :> <<>>), {}),
          (2 :> {DataAt(40, 8, 0), DataAt(48, 4, 16)} @@ 16 :> {}))

(* Clusters: a head of two blocks, and one whose data lies elsewhere.      *)
Clusters ==
  Showing(Made(8, D(0, 4, <<E(4, 2, "file"), E(5, 14, "file")>>)
                  \o <<InodeCells(2, Inode("extended", "full", 0, "file", 24, 0)),
                       InodeCells(4, MapCells(0, 0, 0, FALSE)),
                       InodeCells(8, ClusterCells("head", 0, 5) \o ClusterCells("nonhead", 2, 0)
                                     \o ClusterCells("plain", 0, 7)),
                       InodeCells(14, Inode("compact", "full", 0, "file", 8, 0)),
                       InodeCells(16, MapCells(0, 0, 0, TRUE)),
                       InodeCells(20, ClusterCells("head", 0, 5))>>,
               (0 :> {E(4, 2, "file"), E(5, 14, "file")}),
               (2 :> <<>> @@ 14 :> <<>>), {}),
          (2 :> {DataAt(40, 16, 0), DataAt(56, 8, 16)} @@ 14 :> {}))

(* Extension slots, settings of two algorithms, a device, and prefixes of  *)
(* which the second lies in the tail of the metabox inode.  The data of    *)
(* the file is all in its tail.                                            *)
Announced(has) ==
  Showing(Made(6, D(0, 3, <<E(4, 8, "file")>>)
                  \o <<At(SuperblockOffset, <<Super(0, 1, has)>>),
                       At(6, RecordCells(1) \o RecordCells(1)),
                       InodeCells(4, Inode("extended", "inline", 0, "file", 10, 4)),
                       At(38, RecordCells(2)), InodeCells(6, RecordCells(2)),
                       At(44, RecordCells(2)),
                       InodeCells(8, Inode("compact", "inline", 0, "file", 2, Unmapped)),
                       InodeCells(9, Text(8, 2))>>,
               (0 :> {E(4, 8, "file")}), (8 :> Text(8, 2)), Both),
          <<>>)

Announcing ==
  [slots |-> 2, devices |-> 1, deviceAt |-> 22, prefixes |-> 2, prefixAt |-> 6,
   prefixIn |-> "metabox", algorithms |-> {0, 2}, metabox |-> 4]

Shown == {Attributes, Records, Clusters, Announced(Announcing),
          Announced([Announcing EXCEPT !.prefixAt = 44, !.prefixIn = "plain", !.prefixes = 1])}

MCGiven == {Loop, Back, Shared, Inline, Chunked(3, Both), Holed, Lie, AtTheEnd} \cup Damaged \cup Shown
=============================================================================
