------------------------------- MODULE Builder -------------------------------
(***************************************************************************)
(* The image builder:                                                      *)
(*   erofs/src/builder.rs, ImageBuilder::build_from_dir.                   *)
(*                                                                         *)
(* Four passes over a host tree: scan reads the metadata, assign_nids and  *)
(* layout number the inodes and place the data blocks, emit writes them    *)
(* and reads every regular file AGAIN.  Other programs may write to the    *)
(* files meanwhile, or remove them.                                        *)
(*                                                                         *)
(* The passes are recursive and depth-first: `todo' holds the nodes still  *)
(* to be visited, in the order of the recursion.                           *)
(***************************************************************************)
EXTENDS Layout

CONSTANTS
  Hosts,         \* host trees, see below
  Root,          \* the root of every host tree
  Gone,          \* the content of a file that was removed
  RewriteSizes,  \* sizes another program may give to a file
  MaxWrites,     \* bound on the writes of other programs
  MaxNameLen,    \* MAX_NAME_LEN
  MaxBlock       \* u32::MAX, the largest block address

(* A host tree: the type, name, children and content (bytes of a file or   *)
(* target of a symlink) of its nodes, and whether is_dir() holds of the    *)
(* root, which follows symlinks.  Only directories have entries, a node is *)
(* an entry of one directory and the root of none, and no two entries of a *)
(* directory have the same name, or that of a dot.                                           *)
HostType == {"dir", "file", "symlink", "other"}
Sequence(s) == s \in Seq({s[i] : i \in DOMAIN s})
IsBytes(s) == \A i \in DOMAIN s : s[i].is = "byte"

HostTree(h, nodes) ==
  /\ Root \in nodes /\ IsFiniteSet(nodes)
  /\ h.type \in [nodes -> HostType]
  /\ h.name \in [nodes -> Name]
  /\ h.children \in [nodes -> SUBSET nodes]
  /\ DOMAIN h.content = nodes
  /\ \A n \in nodes : Sequence(h.content[n]) /\ IsBytes(h.content[n])
  /\ \A n \in nodes : h.children[n] # {} => h.type[n] = "dir"
  /\ \A n, m \in nodes : h.children[n] \cap h.children[m] # {} => n = m
  /\ \A n \in nodes : \A c, d \in h.children[n] :
       c # Root /\ h.name[c] \notin {Dot, DotDot} /\ (h.name[c] = h.name[d] => c = d)

ASSUME BuilderAssumption ==
  /\ MaxBlock \in Nat
  /\ MaxWrites \in Nat
  /\ MaxNameLen \in Nat
  /\ RewriteSizes \subseteq Nat
  /\ \A n \in Name : NameLen[n] <= MaxNameLen => NameLen[n] < BlockSize
  /\ NameLen[Dot] <= MaxNameLen /\ NameLen[DotDot] <= MaxNameLen
  /\ \A h \in Hosts : HostTree(h, DOMAIN h.type)

VARIABLES
  tree,      \* the host tree
  content,   \* what its files hold now
  writes,    \* writes of other programs so far
  phase,     \* the pass, or how the build ended
  pending,   \* scan: entries still to be scanned, innermost directory first
  todo,      \* the other passes: nodes still to be visited
  node,      \* the builder's Node of each host node
  cursor,    \* nid_cursor and block_cursor
  pack,      \* encode_dirents: the blocks so far and the cells used of the last
  taken      \* history: the payload emitted for each node

builderVars == <<tree, content, writes, phase, pending, todo, node, cursor, pack, taken>>

FirstNid == SuperblockOffset + SuperblockSize
ExtendedInode == 2

(* NULL_BLOCK_ADDR                                                         *)
Null == MaxBlock

NewNode == [size |-> 0, nid |-> 0, blkaddr |-> Null, blocks |-> 0, data |-> <<>>]
EmptyPack == [placed |-> 0, blocks |-> <<<<>>>>, used |-> 0]

BuilderInit ==
  /\ tree \in Hosts
  /\ content = tree.content
  /\ writes = 0
  /\ phase = "scan"
  /\ pending = <<{Root}>>
  /\ todo = <<>>
  /\ node = [n \in DOMAIN tree.type |-> NewNode]
  /\ cursor = [nid |-> FirstNid, block |-> 0]
  /\ pack = EmptyPack
  /\ taken = [n \in DOMAIN tree.type |-> <<>>]
  /\ image = <<>>

-----------------------------------------------------------------------------
(* The host.  assign_nids and layout do not look at it: a write during     *)
(* these passes is one just before emit.                                   *)

HostWrite(f) ==
  /\ phase \in {"scan", "emit"}
  /\ tree.type[f] = "file" /\ content[f] # Gone /\ writes < MaxWrites
  /\ \/ \E size \in RewriteSizes :
          content' = [content EXCEPT ![f] = [i \in 1..size |-> Byte(<<f, writes + 1, i>>)]]
     \/ content' = [content EXCEPT ![f] = Gone]
  /\ writes' = writes + 1
  /\ UNCHANGED <<tree, phase, pending, todo, node, cursor, pack, taken, image>>

-----------------------------------------------------------------------------
(* scan                                                                    *)

IsDir(n) == tree.type[n] = "dir"
Children(n) == tree.children[n]

(* A finite set in the order of a key that tells its elements apart: the   *)
(* i-th element is the one whose key is the i-th.                          *)
Rank(S, key, x) == Cardinality({y \in S : key[y] <= key[x]})
InOrder(S, key) == [i \in 1..Cardinality(S) |-> CHOOSE x \in S : Rank(S, key, x) = i]

SortedChildren(n) == InOrder(Children(n), tree.name)

Fail ==
  /\ phase' = "failed"
  /\ UNCHANGED <<tree, content, writes, pending, todo, node, cursor, pack, taken, image>>

Unpackable(n) ==
  \/ n = Root /\ ~tree.rootIsDir
  \/ n # Root /\ NameLen[tree.name[n]] > MaxNameLen
  \/ content[n] = Gone
  \/ tree.type[n] = "other"

RefuseNode == /\ phase = "scan"
              /\ \E n \in Head(pending) : Unpackable(n)
              /\ Fail

(* The entries of a directory come in any order, and its subdirectories    *)
(* are scanned as they come.                                               *)
NonEmpty(S) == IF S = {} THEN <<>> ELSE <<S>>

ScanNode ==
  /\ phase = "scan"
  /\ \E n \in Head(pending) :
       LET rest == NonEmpty(Children(n)) \o NonEmpty(Head(pending) \ {n}) \o Tail(pending)
       IN  /\ ~Unpackable(n)
           /\ node' = [node EXCEPT ![n].size = IF IsDir(n) THEN 0 ELSE Len(content[n])]
           /\ pending' = rest
           /\ IF rest # <<>> THEN UNCHANGED <<phase, todo>>
              ELSE phase' = "assign" /\ todo' = <<Root>>
  /\ UNCHANGED <<tree, content, writes, cursor, pack, taken, image>>

-----------------------------------------------------------------------------
(* assign_nids: pre-order, children sorted by name.                        *)

Current == Head(todo)
Rest == SortedChildren(Current) \o Tail(todo)

(* Mutant: the data begins in the block of the last inode.                *)
AssignNidFloored ==
  /\ phase = "assign"
  /\ node' = [node EXCEPT ![Current].nid = cursor.nid]
  /\ LET next == cursor.nid + ExtendedInode
     IN  IF Rest # <<>>
         THEN /\ cursor' = [cursor EXCEPT !.nid = next]
              /\ todo' = Rest
              /\ UNCHANGED phase
         ELSE /\ cursor' = [nid |-> next, block |-> next \div BlockSize]
              /\ todo' = <<Root>>
              /\ phase' = "layout"
  /\ UNCHANGED <<tree, content, writes, pending, pack, taken, image>>

AssignNid ==
  /\ phase = "assign"
  /\ node' = [node EXCEPT ![Current].nid = cursor.nid]
  /\ LET next == cursor.nid + ExtendedInode
     IN  IF Rest # <<>>
         THEN /\ cursor' = [cursor EXCEPT !.nid = next]
              /\ todo' = Rest
              /\ UNCHANGED phase
         ELSE /\ cursor' = [nid |-> next, block |-> DivCeil(next)]
              /\ todo' = <<Root>>
              /\ phase' = "layout"
  /\ UNCHANGED <<tree, content, writes, pending, pack, taken, image>>

-----------------------------------------------------------------------------
(* layout: pre-order again, directories packed on the way.                 *)

Parent(n) == IF n = Root THEN Root ELSE CHOOSE p \in DOMAIN tree.type : n \in Children(p)

(* Mutant: the dots come first, as in most file systems.                   *)
EntriesDotsFirst(n) ==
  <<[name |-> Dot, nid |-> node[n].nid, type |-> "dir"],
    [name |-> DotDot, nid |-> node[Parent(n)].nid, type |-> "dir"]>>
  \o [i \in DOMAIN SortedChildren(n) |->
       LET c == SortedChildren(n)[i]
       IN  [name |-> tree.name[c], nid |-> node[c].nid, type |-> tree.type[c]]]

Entries(n) ==
  LET named(c) == [name |-> tree.name[c], nid |-> node[c].nid, type |-> tree.type[c]]
      all == {named(c) : c \in Children(n)}
             \cup {[name |-> Dot, nid |-> node[n].nid, type |-> "dir"],
                   [name |-> DotDot, nid |-> node[Parent(n)].nid, type |-> "dir"]}
  IN  InOrder(all, [e \in all |-> e.name])

Needed(entry) == 1 + NameLen[entry.name]

(* One turn of the loop of encode_dirents.                                 *)
PlaceDirent ==
  /\ phase = "layout" /\ IsDir(Current)
  /\ pack.placed < Len(Entries(Current))
  /\ LET entry == Entries(Current)[pack.placed + 1]
         fits == pack.used + Needed(entry) <= BlockSize
         last == Len(pack.blocks)
     IN  pack' = [placed |-> pack.placed + 1,
                  blocks |-> IF fits THEN [pack.blocks EXCEPT ![last] = Append(@, entry)]
                             ELSE Append(pack.blocks, <<entry>>),
                  used   |-> IF fits THEN pack.used + Needed(entry) ELSE Needed(entry)]
  /\ UNCHANGED <<tree, content, writes, phase, pending, todo, node, cursor, taken, image>>

(* take_blocks.                                                            *)
Place(n, size, blocks, data) ==
  node' = [node EXCEPT ![n].size = size, ![n].blkaddr = cursor.block,
                       ![n].blocks = blocks, ![n].data = data]

(* The end of the pass allocates the image and writes the superblock.      *)
Proceed(block) ==
  /\ cursor' = [cursor EXCEPT !.block = block]
  /\ \/ /\ Rest # <<>>
        /\ todo' = Rest
        /\ UNCHANGED <<phase, image>>
     \/ /\ Rest = <<>> /\ block <= MaxBlock
        /\ todo' = <<Root>>
        /\ phase' = "emit"
        /\ image' = Put(Blank(block), SuperblockOffset, <<Super(node[Root].nid, 0, Plain)>>)
     \/ /\ Rest = <<>> /\ block > MaxBlock
        /\ phase' = "failed"
        /\ UNCHANGED <<todo, image>>

LayoutDir ==
  /\ phase = "layout" /\ IsDir(Current)
  /\ pack.placed = Len(Entries(Current))
  /\ cursor.block <= MaxBlock
  /\ LET blocks == Len(pack.blocks)
     IN  /\ Place(Current, (blocks - 1) * BlockSize + pack.used, blocks, pack.blocks)
         /\ Proceed(cursor.block + blocks)
  /\ pack' = EmptyPack
  /\ UNCHANGED <<tree, content, writes, pending, taken>>

LayoutPayload ==
  /\ phase = "layout" /\ ~IsDir(Current)
  /\ LET size == node[Current].size
     IN  IF size = 0
         THEN Proceed(cursor.block) /\ UNCHANGED node
         ELSE /\ cursor.block <= MaxBlock
              /\ Place(Current, size, DivCeil(size), <<>>)
              /\ Proceed(cursor.block + DivCeil(size))
  /\ UNCHANGED <<tree, content, writes, pending, pack, taken>>

OutOfBlocks ==
  /\ phase = "layout" /\ cursor.block > MaxBlock
  /\ IF IsDir(Current) THEN pack.placed = Len(Entries(Current)) ELSE node[Current].size > 0
  /\ Fail

-----------------------------------------------------------------------------
(* emit: pre-order, reading the files once more.                           *)

Rereads(n) == tree.type[n] = "file" /\ node[n].size > 0
Changed(n) == content[n] # Gone => Len(content[n]) # node[n].size

(* The cells of directory blocks, one block after the other.               *)
DirCells(blocks) ==
  [i \in 1..(Len(blocks) * BlockSize) |->
     DirBlock(blocks[(i - 1) \div BlockSize + 1])[((i - 1) % BlockSize) + 1]]

Payload(n) ==
  IF IsDir(n) THEN DirCells(node[n].data)
  ELSE IF node[n].size > 0 THEN content[n]
  ELSE <<>>

EmitNode ==
  /\ phase = "emit"
  /\ ~(Rereads(Current) /\ Changed(Current))
  /\ LET n == Current
         inode == Inode("extended", "plain", 0, tree.type[n], node[n].size, node[n].blkaddr)
         numbered == Put(image, node[n].nid, inode)
     IN  /\ image' = IF Payload(n) = <<>> THEN numbered
                     ELSE Put(numbered, node[n].blkaddr * BlockSize, Payload(n))
         /\ taken' = [taken EXCEPT ![n] = Payload(n)]
  /\ todo' = Rest
  /\ phase' = IF Rest = <<>> THEN "built" ELSE phase
  /\ UNCHANGED <<tree, content, writes, pending, node, cursor, pack>>

FileChanged ==
  /\ phase = "emit" /\ Rereads(Current) /\ Changed(Current)
  /\ Fail

BuilderStep ==
  \/ RefuseNode \/ ScanNode
  \/ AssignNid
  \/ PlaceDirent \/ LayoutDir \/ LayoutPayload \/ OutOfBlocks
  \/ EmitNode \/ FileChanged

-----------------------------------------------------------------------------
(* Correctness.                                                            *)

Extent(n) == node[n].blkaddr..(node[n].blkaddr + node[n].blocks - 1)
Slots(n) == node[n].nid..(node[n].nid + ExtendedInode - 1)

(* No two nodes share an inode slot or a block, no slot is part of the     *)
(* superblock, the blocks lie past all slots, within the image and below   *)
(* the null address, and every payload fits in the blocks taken for it.    *)
Numbered == {n \in DOMAIN node : node[n].nid # 0}
Placed == {n \in DOMAIN node : node[n].blocks > 0}

NothingOverlaps ==
  /\ \A n \in Numbered :
       /\ FirstNid <= node[n].nid /\ node[n].nid + ExtendedInode <= cursor.nid
       /\ \A m \in Numbered \ {n} : Slots(n) \cap Slots(m) = {}
  /\ \A n \in Placed :
       /\ cursor.nid <= node[n].blkaddr * BlockSize
       /\ node[n].blkaddr + node[n].blocks <= cursor.block
       /\ node[n].size <= node[n].blocks * BlockSize
       /\ \A m \in Placed \ {n} : Extent(n) \cap Extent(m) = {}
  /\ phase \in {"emit", "built"} => cursor.block <= MaxBlock
=============================================================================
