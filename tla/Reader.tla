------------------------------- MODULE Reader -------------------------------
(***************************************************************************)
(* The reader of images:                                                   *)
(*   erofs/src/filesystem.rs, dirent.rs, sync/*.rs and async/*.rs.         *)
(*                                                                         *)
(* A client walks a directory tree and reads files it meets, in pieces of  *)
(* any size.  The two front ends, sync and async, run the same code except *)
(* for how much of the image they need to read an inode.                   *)
(***************************************************************************)
EXTENDS Layout

CONSTANTS
  DefaultMaxDepth,   \* DEFAULT_MAX_DEPTH, the cap when no depth is asked for
  ReadSizes,         \* lengths of the buffers given to read
  Depths,            \* arguments of max_depth, 0 for the default
  Slash              \* names that contain "/"

ASSUME ReaderAssumption ==
  /\ DefaultMaxDepth \in Nat \ {0}
  /\ ReadSizes \subseteq Nat
  /\ Depths \subseteq Nat
  /\ Slash \subseteq Name
  /\ \A n \in Name : Lossy[n] \in Slash <=> n \in Slash

VARIABLES
  mode,       \* "sync" or "async"
  walk,       \* how far the walk is: "idle", "walking", or how it ended
  maxDepth,   \* WalkDir::max_depth
  stack,      \* WalkDir::dir_stack
  ancestors,  \* WalkDir::ancestor_nids
  start,      \* history: where the walk started
  seen,       \* history: the entries it yielded, at the bytes of their paths
  file        \* the File of the entry that was yielded last, if opened

walkVars == <<walk, maxDepth, stack, ancestors, start, seen>>
readerVars == <<mode, walkVars, file>>

NoFile == [state |-> "none"]

ReaderInit ==
  /\ mode \in {"sync", "async"}
  /\ walk = "idle"
  /\ maxDepth = 0
  /\ stack = <<>>
  /\ ancestors = {}
  /\ start = <<>>
  /\ seen = <<>>
  /\ file = NoFile

-----------------------------------------------------------------------------
(* EroFSCore.  A superblock was read: image[SuperblockOffset].  A block of *)
(* data is its address and length; every error is NoBlock.                 *)

NoBlock == [at |-> 0, len |-> 0]
AtMost(n, m) == IF n < m THEN n ELSE m

InodeOffset(nid) == Superblock.meta * BlockSize + nid

InodeAt(nid) == AsInode(image[InodeOffset(nid)])

InodeSize(inode) == IF inode.version = "compact" THEN 1 ELSE 2

(* get_inode: sync parses what there is, async asks for an extended inode. *)
HasInode(nid) ==
  /\ InodeOffset(nid) < End
  /\ InodeOffset(nid) + (IF mode = "async" THEN 2 ELSE InodeSize(InodeAt(nid))) <= End

BehindInode(nid) == InodeOffset(nid) + InodeSize(InodeAt(nid)) + InodeAt(nid).xattrs

FlatBlock(nid, index) ==
  LET inode == InodeAt(nid)
      rest == inode.size - index * BlockSize
  IN  IF index >= DivCeil(inode.size) THEN NoBlock
      ELSE IF inode.layout = "inline" /\ rest < BlockSize
           THEN [at |-> BehindInode(nid), len |-> rest]
           ELSE [at |-> (inode.addr + index) * BlockSize, len |-> AtMost(rest, BlockSize)]

(* The chunk layout: `addr' is the logarithm of the blocks of a chunk.     *)
ChunkBlock(nid, offset) ==
  LET inode == InodeAt(nid)
      chunk == 2 ^ inode.addr * BlockSize
      index == offset \div chunk
      fixed == (offset % chunk) \div BlockSize
      entry == BehindInode(nid) + index
      rest == inode.size - (index * chunk + fixed * BlockSize)
  IN  IF rest <= 0 \/ entry >= End \/ image[entry].is # "chunk" \/ image[entry].addr <= 0
      THEN NoBlock
      ELSE [at |-> (image[entry].addr + fixed) * BlockSize, len |-> AtMost(rest, BlockSize)]

(* get_inode_block, read_inode_block                                       *)
ReadBlock(nid, offset) ==
  LET layout == InodeAt(nid).layout
      block == IF layout \in {"plain", "inline"} THEN FlatBlock(nid, offset \div BlockSize)
               ELSE IF layout = "chunk" THEN ChunkBlock(nid, offset)
               ELSE NoBlock
  IN  IF block.at + block.len <= End THEN block ELSE NoBlock

-----------------------------------------------------------------------------
(* Directory blocks.                                                       *)

DirentAt(block, i) ==
  LET cell == image[block.at + i]
  IN  IF cell.is = "dirent" THEN cell ELSE Dirent(0, 0, "unknown")

Count(block) == DirentAt(block, 0).off
NameStart(block, i) == DirentAt(block, i).off
NameEnd(block, i) == IF i < Count(block) - 1 THEN DirentAt(block, i + 1).off ELSE block.len

(* The name that is spelt by what is not zero before `end': anything else  *)
(* is something no name equals and every name follows.                     *)
Garbled == 0
NameUpTo(block, i, end) ==
  LET from == NameStart(block, i)
      cells == {c \in from..(end - 1) : image[block.at + c] # Zero}
      spelt == {n \in Name : /\ cells = from..(from + NameLen[n] - 1)
                             /\ \A c \in cells : image[block.at + c] = NameCell(n)}
  IN  IF spelt = {} THEN Garbled ELSE CHOOSE n \in spelt : TRUE

(* try_next_entry takes all of it but the zeros at its end.                *)
NameAt(block, i) == NameUpTo(block, i, NameEnd(block, i))

(* read_nth_id_name takes it to the first zero.                            *)
FirstZero(block, i) ==
  LET ends == {c \in NameStart(block, i)..(NameEnd(block, i) - 1) : image[block.at + c] = Zero}
              \cup {NameEnd(block, i)}
  IN  CHOOSE c \in ends : \A d \in ends : c <= d

KeyAt(block, i) == NameUpTo(block, i, FirstZero(block, i))

DirentIsGood(block, i) ==
  /\ i < block.len
  /\ i < Count(block) - 1 => i + 1 < block.len
  /\ NameStart(block, i) <= NameEnd(block, i) /\ NameEnd(block, i) <= block.len

NameIsGood(block, i) == DirentIsGood(block, i) /\ NameAt(block, i) \notin Slash
KeyIsGood(block, i) == DirentIsGood(block, i) /\ KeyAt(block, i) \notin Slash

(* find_nodeid_by_name: a binary search, over after n turns at most.       *)
Missing == -1
Broken == -2

Halved(block, name, s) ==
  LET half == s.size \div 2
      mid == s.base + half
  IN  IF s.size <= 1 THEN s
      ELSE IF ~KeyIsGood(block, mid) THEN [base |-> Count(block), size |-> 0]
      ELSE [base |-> IF KeyAt(block, mid) > name THEN s.base ELSE mid, size |-> s.size - half]

Find(block, name) ==
  LET n == Count(block)
      search[k \in 0..n] == IF k = 0 THEN [base |-> 0, size |-> n]
                            ELSE Halved(block, name, search[k - 1])
      i == search[n].base
  IN  IF block = NoBlock THEN Broken
      ELSE IF n = 0 THEN Missing
      ELSE IF i = n \/ ~KeyIsGood(block, i) THEN Broken
      ELSE IF KeyAt(block, i) = name THEN DirentAt(block, i).nid
      ELSE Missing

(* get_path_inode: the nid that a path leads to, block after block.        *)
Checked(nid) == IF nid >= 0 /\ ~HasInode(nid) THEN Broken ELSE nid

FindIn(nid, name) ==
  LET blocks == {<<i, ReadBlock(nid, i * BlockSize)>> :
                   i \in 0..(DivCeil(InodeAt(nid).size) - 1)}
      hits == {h \in {<<b[1], Find(b[2], name)>> : b \in blocks} : h[2] # Missing}
  IN  IF InodeAt(nid).type # "dir" \/ hits = {} THEN Missing
      ELSE (CHOOSE h \in hits : \A g \in hits : h[1] <= g[1])[2]

Resolve(nid, name) == IF nid < 0 THEN nid ELSE Checked(FindIn(nid, name))

Lookup(path) ==
  LET at[k \in 0..Len(path)] == IF k = 0 THEN Checked(Superblock.root)
                                ELSE Resolve(at[k - 1], path[k])
  IN  at[Len(path)]

-----------------------------------------------------------------------------
(* WalkDir, with the ReadDir and the DirentBlock on top of its stack.      *)

Frame(nid, path) ==
  [nid |-> nid, path |-> path, offset |-> 0, block |-> ReadBlock(nid, 0), i |-> 0]

Opens(nid) == ReadBlock(nid, 0) # NoBlock

Stop(why) ==
  /\ walk' = why
  /\ file' = NoFile
  /\ UNCHANGED <<mode, maxDepth, stack, ancestors, start, seen>>

StartWalk(path) ==
  /\ walk = "idle"
  /\ \E nid \in {Lookup(path)} :
       \/ /\ nid = Missing
          /\ Stop("not found")
       \/ /\ nid = Broken
          /\ Stop("corrupt")
       \/ /\ nid >= 0 /\ InodeAt(nid).type # "dir"
          /\ Stop("not a directory")
       \/ /\ nid >= 0 /\ InodeAt(nid).type = "dir" /\ ~Opens(nid)
          /\ Stop("corrupt")
       \/ /\ nid >= 0 /\ InodeAt(nid).type = "dir" /\ Opens(nid)
          /\ walk' = "walking"
          /\ maxDepth' \in Depths
          /\ stack' = <<Frame(nid, path)>>
          /\ ancestors' = {nid}
          /\ start' = path
          /\ UNCHANGED <<mode, seen, file>>

Top == Seqs!Last(stack)
WithTop(frame) == [stack EXCEPT ![Len(stack)] = frame]

Limit == IF maxDepth = 0 THEN DefaultMaxDepth ELSE maxDepth
Depth == Len(stack)

Walking == walk = "walking" /\ file.state # "open"
AtEntry == Walking /\ Top.i < Count(Top.block)
AtEnd == Walking /\ Top.i >= Count(Top.block)

Entry == DirentAt(Top.block, Top.i)
EntryName == NameAt(Top.block, Top.i)
EntryPath == Append(Top.path, EntryName)
EntryIsGood == NameIsGood(Top.block, Top.i) /\ Entry.type # "invalid"
EntryIsDot == EntryName \in {Dot, DotDot}

NextBlock ==
  LET offset == Top.offset + Top.block.len
      block == ReadBlock(Top.nid, offset)
  IN  /\ AtEnd /\ offset < InodeAt(Top.nid).size
      /\ IF block = NoBlock THEN Stop("corrupt")
         ELSE /\ stack' = WithTop([Top EXCEPT !.offset = offset, !.block = block, !.i = 0])
              /\ UNCHANGED <<mode, walk, maxDepth, ancestors, start, seen, file>>

(* Mutant: a directory that was left remains an ancestor.                  *)
PopDirForgetful ==
  /\ AtEnd /\ Top.offset + Top.block.len >= InodeAt(Top.nid).size
  /\ stack' = Seqs!Front(stack)
  /\ ancestors' = ancestors
  /\ walk' = IF Len(stack) = 1 THEN "done" ELSE walk
  /\ file' = NoFile
  /\ UNCHANGED <<mode, maxDepth, start, seen>>

PopDir ==
  /\ AtEnd /\ Top.offset + Top.block.len >= InodeAt(Top.nid).size
  /\ stack' = Seqs!Front(stack)
  /\ ancestors' = ancestors \ {Top.nid}
  /\ walk' = IF Len(stack) = 1 THEN "done" ELSE walk
  /\ file' = NoFile
  /\ UNCHANGED <<mode, maxDepth, start, seen>>

BadDirent == AtEntry /\ ~EntryIsGood /\ Stop("corrupt")

(* Mutant: the loop continues before it counts the entry.                  *)
SkipDotInPlace ==
  /\ AtEntry /\ EntryIsGood /\ EntryIsDot
  /\ stack' = stack
  /\ UNCHANGED <<mode, walk, maxDepth, ancestors, start, seen, file>>

SkipDot ==
  /\ AtEntry /\ EntryIsGood /\ EntryIsDot
  /\ stack' = WithTop([Top EXCEPT !.i = @ + 1])
  /\ UNCHANGED <<mode, walk, maxDepth, ancestors, start, seen, file>>

(* get_walk_dir_entry                                                      *)
Descends == Entry.type = "dir" /\ Depth < Limit

Refusal ==
  IF ~HasInode(Entry.nid) THEN "corrupt"
  ELSE IF Descends /\ Entry.nid \in ancestors THEN "cycle"
  ELSE IF Descends /\ ~Opens(Entry.nid) THEN "corrupt"
  ELSE IF Entry.type = "dir" /\ Depth >= Limit /\ maxDepth = 0 THEN "depth"
  ELSE "none"

RefuseEntry ==
  /\ AtEntry /\ EntryIsGood /\ ~EntryIsDot /\ Refusal # "none"
  /\ Stop(Refusal)

(* DirEntry: the path of an entry is the one the walk was asked to start   *)
(* at, and the text of every name below it.  What next() returns.          *)
Told(entry) ==
  LET path == entry.path
  IN  [entry EXCEPT !.path =
         [k \in DOMAIN path |-> IF k <= Len(start) THEN path[k] ELSE AsText(path[k])]]
Yielded == [i \in DOMAIN seen |-> Told(seen[i])]

Enter(stepped) ==
  IF Descends
  THEN /\ stack' = Append(stepped, Frame(Entry.nid, EntryPath))
       /\ ancestors' = ancestors \cup {Entry.nid}
  ELSE stack' = stepped /\ UNCHANGED ancestors

YieldEntry ==
  /\ AtEntry /\ EntryIsGood /\ ~EntryIsDot /\ Refusal = "none"
  /\ Enter(WithTop([Top EXCEPT !.i = @ + 1]))
  /\ seen' = Append(seen, [path |-> EntryPath, nid |-> Entry.nid, type |-> Entry.type])
  /\ file' = [state |-> "offered"]
  /\ UNCHANGED <<mode, walk, maxDepth, start>>

-----------------------------------------------------------------------------
(* File: the entry yielded last is opened and read.  A block is kept as    *)
(* long as part of it was not asked for.                                   *)

(* Only sync has open_inode_data, which takes symlinks too.                *)
Readable == IF mode = "sync" THEN {"file", "symlink"} ELSE {"file"}

OpenFile ==
  /\ walk = "walking" /\ file.state = "offered"
  /\ InodeAt(Seqs!Last(seen).nid).type \in Readable
  /\ file' = [state |-> "open", nid |-> Seqs!Last(seen).nid, offset |-> 0, buf |-> NoBlock,
              got |-> <<>>]
  /\ UNCHANGED <<mode, walkVars>>

AtEof == file.offset >= InodeAt(file.nid).size

Copy(block, n) ==
  LET from == block.at + (file.offset % BlockSize)
  IN  [i \in 1..n |-> image[from + i - 1]]

(* Mutant: a block that was read to its end is kept.                       *)
ReadFromKeeping(block, n) ==
  LET remaining == block.len - (file.offset % BlockSize)
      count == AtMost(n, remaining)
  IN  file' = [file EXCEPT !.offset = @ + count,
                           !.got = @ \o Copy(block, count),
                           !.buf = IF count > remaining THEN NoBlock ELSE block]

ReadFrom(block, n) ==
  LET remaining == block.len - (file.offset % BlockSize)
      count == AtMost(n, remaining)
  IN  file' = [file EXCEPT !.offset = @ + count,
                           !.got = @ \o Copy(block, count),
                           !.buf = IF count = remaining THEN NoBlock ELSE block]

ReadBuffered(n) ==
  /\ file.state = "open" /\ ~AtEof /\ n > 0 /\ file.buf # NoBlock
  /\ ReadFrom(file.buf, n)
  /\ UNCHANGED <<mode, walkVars>>

ReadAnew(n) ==
  LET block == ReadBlock(file.nid, file.offset)
  IN  /\ file.state = "open" /\ ~AtEof /\ n > 0 /\ file.buf = NoBlock
      /\ IF block = NoBlock THEN Stop("unreadable")
         ELSE ReadFrom(block, n) /\ UNCHANGED <<mode, walkVars>>

ReadEof ==
  /\ file.state = "open" /\ AtEof
  /\ file' = [file EXCEPT !.state = "eof"]
  /\ UNCHANGED <<mode, walkVars>>

ReaderStep ==
  \/ NextBlock \/ PopDir \/ BadDirent \/ SkipDot \/ RefuseEntry \/ YieldEntry
  \/ ReadEof
  \/ \E n \in ReadSizes : ReadBuffered(n) \/ ReadAnew(n)
=============================================================================
