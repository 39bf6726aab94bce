------------------------------- MODULE Layout -------------------------------
(***************************************************************************)
(* An EROFS image as the builder writes it and the reader reads it:        *)
(*   erofs/src/builder.rs, erofs/src/types.rs, erofs/src/filesystem.rs.    *)
(*                                                                         *)
(* An image is a function from addresses to cells.  The cell is the unit   *)
(* of every size and address here: a slot of the inode table, a dirent, a  *)
(* character of a name, a byte of a file.  Their proportions are scaled:   *)
(* what matters is that inodes, dirents, names and data share addresses,   *)
(* that blocks fill up, and that offsets are computed.                     *)
(*                                                                         *)
(* A name is a string of bytes: a number, its rank in the byte-wise order  *)
(* of all names.  Bytes that are not UTF-8 become a replacement character  *)
(* when a name is turned into text, which makes no dot and no slash.       *)
(***************************************************************************)
EXTENDS Integers, Sequences, FiniteSets
Seqs == INSTANCE SequencesExt

CONSTANTS
  BlockSize,
  SuperblockOffset, SuperblockSize,
  NameLen,       \* NameLen[n]: the length of name n
  Dot, DotDot,   \* the names "." and ".."
  Lossy          \* Lossy[n]: String::from_utf8_lossy of name n

Name == DOMAIN NameLen

ASSUME LayoutAssumption ==
  /\ BlockSize \in Nat \ {0}
  /\ SuperblockOffset \in Nat
  /\ SuperblockSize \in Nat \ {0}
  /\ Name \subseteq Nat \ {0}
  /\ NameLen \in [Name -> Nat \ {0}]
  /\ {Dot, DotDot} \subseteq Name /\ Dot # DotDot
  /\ Lossy \in [Name -> Name]
  /\ \A n \in Name : Lossy[Lossy[n]] = Lossy[n]
  /\ \A n \in Name : Lossy[n] \in {Dot, DotDot} \/ n \in {Dot, DotDot} => Lossy[n] = n

(* Names and paths as text; a name of an image may be none of a file.      *)
AsText(name) == IF name \in Name THEN Lossy[name] ELSE name
PathAsText(path) == [k \in DOMAIN path |-> AsText(path[k])]

VARIABLE image

-----------------------------------------------------------------------------
(* Cells.  The first cell of an inode holds its fields, the second one of  *)
(* an extended inode the rest.                                             *)

Zero == [is |-> "zero"]
Byte(value) == [is |-> "byte", value |-> value]
Super(root, meta, has) == [is |-> "super", root |-> root, meta |-> meta, has |-> has]
Dirent(nid, off, type) == [is |-> "dirent", nid |-> nid, off |-> off, type |-> type]
NameCell(name) == [is |-> "name", name |-> name]
NameCells(name) == [i \in 1..NameLen[name] |-> NameCell(name)]
ChunkAddr(addr) == [is |-> "chunk", addr |-> addr]

Inode(version, layout, xattrs, type, size, addr) ==
  <<[is |-> "inode", version |-> version, layout |-> layout, xattrs |-> xattrs,
     type |-> type, size |-> size, addr |-> addr]>>
  \o IF version = "extended" THEN <<[is |-> "rest"]>> ELSE <<>>

(* What a superblock may announce beside the tree: extension slots, a      *)
(* table of devices, records of attribute prefixes with the address and    *)
(* the space they lie in, compression algorithms, the metabox inode.       *)
Plain == [slots |-> 0, devices |-> 0, deviceAt |-> 0, prefixes |-> 0, prefixAt |-> 0,
          prefixIn |-> "none", algorithms |-> {}, metabox |-> -1]

(* Behind an inode: the header of its attributes, shared and inline ones;  *)
(* entries of a chunk table that name devices; the map of a compressed     *)
(* file with its clusters or its extent records.  Prefixes and compression *)
(* settings are records that begin with their length.                      *)
XattrCells(shared, sizes) ==
  <<[is |-> "xattrs", shared |-> shared]>> \o [i \in 1..shared |-> [is |-> "shared"]]
  \o Seqs!FlattenSeq([i \in DOMAIN sizes |->
       <<[is |-> "xattr", size |-> sizes[i]]>> \o [j \in 1..(sizes[i] - 1) |-> Byte(<<"x", i, j>>)]])
IndexCells(device, addr) == <<[is |-> "index", device |-> device], ChunkAddr(addr)>>
MapCells(unit, count, bits, elsewhere) ==
  <<[is |-> "map", unit |-> unit, count |-> count, bits |-> bits,
    elsewhere |-> elsewhere], [is |-> "rest"]>>
ClusterCells(kind, blocks, addr) ==
  <<[is |-> "cluster", kind |-> kind, blocks |-> blocks], ChunkAddr(addr)>>
ExtentCells(unit, plen, pstart, lstart) ==
  <<[is |-> "extent", plen |-> plen, pstart |-> pstart, lstart |-> lstart]>>
  \o [i \in 1..(unit - 1) |-> [is |-> "rest"]]
RecordCells(len) == <<[is |-> "record", len |-> len]>> \o [i \in 1..(len - 1) |-> [is |-> "rest"]]

(* Cells that are no inode read as one of nothing: zeros are a compact     *)
(* inode of no type and no size.                                           *)
NoInode == Inode("compact", "plain", 0, "none", 0, 0)[1]
AsInode(cell) == IF cell.is = "inode" THEN cell ELSE NoInode

End == Cardinality(DOMAIN image)
Superblock == image[SuperblockOffset]

DivCeil(n) == (n + BlockSize - 1) \div BlockSize

Blank(blocks) == [at \in 0..(blocks * BlockSize - 1) |-> Zero]

Put(cells, at, piece) ==
  [c \in DOMAIN cells |->
     IF c \in at..(at + Len(piece) - 1) THEN piece[c - at + 1] ELSE cells[c]]

(* A directory block: the dirents, the names directly behind them, zeros.  *)
DirBlock(entries) ==
  LET n == Len(entries)
      end[i \in 0..n] == IF i = 0 THEN n ELSE end[i - 1] + NameLen[entries[i].name]
      named(c) == {i \in 1..n : end[i - 1] < c /\ c <= end[i]}
  IN  [c \in 1..BlockSize |->
         IF c <= n THEN Dirent(entries[c].nid, end[c - 1], entries[c].type)
         ELSE IF named(c) = {} THEN Zero
         ELSE NameCell(entries[CHOOSE i \in named(c) : TRUE].name)]
=============================================================================
