------------------------------ MODULE Locator ------------------------------
(***************************************************************************)
(* Where the structures of an image lie:                                   *)
(*   erofs-format/src/locator.rs, erofs-format/src/lib.rs.                 *)
(*                                                                         *)
(* The locator shares no code with the reader: it finds inodes, directory  *)
(* entries, chunks, attributes and compression metadata by arithmetic of   *)
(* its own.  An object names a structure, a location is where it begins    *)
(* and how many cells it takes.  Four bytes of metadata are one cell; an   *)
(* inode takes one or two, a directory entry and an attribute header one.  *)
(***************************************************************************)
EXTENDS Layout

Object(is, nid, block, index) == [is |-> is, nid |-> nid, block |-> block, index |-> index]
SuperblockObject == Object("superblock", 0, 0, 0)
InodeObject(nid) == Object("inode", nid, 0, 0)

Span(at, len) == [at |-> at, len |-> len]
Nowhere == Span(0, 0)

IsWithin(span) == span.at >= 0 /\ span.at + span.len <= End
CellAt(at) == IF at \in DOMAIN image THEN image[at] ELSE Zero
Is(at, kind) == CellAt(at).is = kind

AlignUp(at, unit) == ((at + unit - 1) \div unit) * unit
Where(condition, span) == IF condition THEN span ELSE Nowhere
Has == Superblock.has

-----------------------------------------------------------------------------
(* Inodes.                                                                 *)

PrimaryOffset(nid) == Superblock.meta * BlockSize + nid
SizeOf(inode) == IF inode.version = "compact" THEN 1 ELSE 2

(* inode_tail: where an inode lies, if it does, and what follows it and    *)
(* its attributes.                                                         *)
Decode(nid, at, inode) ==
  [nid |-> nid, at |-> at, inode |-> inode, xattrs |-> at + SizeOf(inode),
   behind |-> at + SizeOf(inode) + inode.xattrs, located |-> IsWithin(Span(at, SizeOf(inode)))]
DecodeAt(nid, at) == Decode(nid, at, AsInode(CellAt(at)))
Node(nid) == DecodeAt(nid, PrimaryOffset(nid))

LocateInode(node) == Where(node.located, Span(node.at, SizeOf(node.inode)))

(* map_metabox_offset.  The last block of an inline metabox inode lies     *)
(* behind the inode, full or not.  A location with the cells mapped there. *)
MapInto(node, logical) ==
  LET inode == node.inode
      packed == DivCeil(inode.size) - (IF inode.layout = "inline" THEN 1 ELSE 0)
      limit == packed * BlockSize
  IN  IF ~node.located \/ inode.layout \notin {"plain", "inline"} \/ logical >= inode.size
      THEN Nowhere
      ELSE IF logical < limit THEN Span(inode.addr * BlockSize + logical, limit - logical)
      ELSE Span(node.behind + logical - limit, inode.size - logical)
MapMetabox(logical) ==
  IF Has.metabox < 0 THEN Nowhere ELSE MapInto(Node(Has.metabox), logical)

-----------------------------------------------------------------------------
(* Structures of the superblock.                                           *)

ExtensionsAt == SuperblockOffset + SuperblockSize

LocateExtension(index) == Where(index < Has.slots, Span(ExtensionsAt + index, 1))

LocateDevice(index) ==
  LET span == Span(Has.deviceAt + index, 1)
  IN  Where(index < Has.devices /\ IsWithin(span), span)

(* A record of no length stands for one that is longer than any image.     *)
IsRecord(at) == Is(at, "record")
RecordLen(at) == IF IsRecord(at) THEN CellAt(at).len ELSE End

(* The records lie in the image, or in the data of the metabox inode.      *)
Mapped(pos) ==
  IF Has.prefixIn = "plain" THEN Span(pos, End)
  ELSE IF Has.prefixIn = "metabox" THEN MapMetabox(pos)
  ELSE Nowhere

Prefix(pos, there) == [there |-> there, next |-> pos + RecordLen(there.at)]
PrefixAt(pos) == Prefix(pos, Mapped(pos))
PrefixChain(index) ==
  LET prefix[i \in 0..index] == PrefixAt(IF i = 0 THEN Has.prefixAt ELSE prefix[i - 1].next)
  IN  prefix

WholeRecord(there) ==
  Where(IsRecord(there.at) /\ CellAt(there.at).len <= there.len, Span(there.at, RecordLen(there.at)))
LastPrefix(chain, index) ==
  IF \E i \in 0..index : chain[i].there = Nowhere THEN Nowhere ELSE WholeRecord(chain[index].there)

LocatePrefix(index) ==
  IF index < Has.prefixes THEN LastPrefix(PrefixChain(index), index) ELSE Nowhere

(* Mutant: the settings begin where the extensions do.                     *)
LocateConfigAtExtensions(algorithm) ==
  LET before == {a \in Has.algorithms : a < algorithm}
      pos[i \in 0..algorithm] ==
        IF i = 0 THEN ExtensionsAt
        ELSE pos[i - 1] + (IF i - 1 \in before THEN RecordLen(pos[i - 1]) ELSE 0)
      at == pos[algorithm]
  IN  Where(algorithm \in Has.algorithms /\ at < End,
            Span(at, IF IsRecord(at) THEN RecordLen(at) ELSE 1))

(* The settings of the algorithms, in their order, behind the extensions.  *)
LocateConfig(algorithm) ==
  LET before == {a \in Has.algorithms : a < algorithm}
      pos[i \in 0..algorithm] ==
        IF i = 0 THEN ExtensionsAt + Has.slots
        ELSE pos[i - 1] + (IF i - 1 \in before THEN RecordLen(pos[i - 1]) ELSE 0)
      at == pos[algorithm]
  IN  Where(algorithm \in Has.algorithms /\ at < End,
            Span(at, IF IsRecord(at) THEN RecordLen(at) ELSE 1))

-----------------------------------------------------------------------------
(* Directory entries.                                                      *)

IsTail(inode, block) == inode.size % BlockSize # 0 /\ block = (inode.size - 1) \div BlockSize

(* The first entry tells how many there are, where the names begin.        *)
DirentIn(base, available, index) ==
  LET first == IF Is(base, "dirent") THEN CellAt(base).off ELSE 0
  IN  Where(/\ index < available /\ base + index < End
            /\ first # 0 /\ first < available /\ index < first,
            Span(base + index, 1))

LocateDirent(node, block, index) ==
  LET inode == node.inode
      last == IsTail(inode, block)
      base == IF inode.layout = "inline" /\ last THEN node.behind
              ELSE (inode.addr + block) * BlockSize
  IN  Where(/\ node.located /\ block * BlockSize < inode.size
            /\ inode.layout \in {"plain", "inline"},
            DirentIn(base, IF last THEN inode.size % BlockSize ELSE BlockSize, index))

-----------------------------------------------------------------------------
(* The chunk table begins behind the inode, aligned to its entries.        *)

ChunkUnit(inode) == IF inode.layout = "index" THEN 2 ELSE 1
ChunkSize(inode) == 2 ^ inode.addr * BlockSize
Chunks(inode) == (inode.size + ChunkSize(inode) - 1) \div ChunkSize(inode)

LocateChunk(node, index) ==
  LET unit == ChunkUnit(node.inode)
  IN  Where(/\ node.located /\ node.inode.layout \in {"chunk", "index"}
            /\ index < Chunks(node.inode),
            Span(AlignUp(node.behind, unit) + index * unit, unit))

-----------------------------------------------------------------------------
(* Extended attributes: a header, the shared ids, the inline entries.      *)

SharedCount(node) == IF Is(node.xattrs, "xattrs") THEN CellAt(node.xattrs).shared ELSE 0
HasXattrs(node) == node.located /\ node.inode.xattrs > 0
SharedFit(node, shared) == HasXattrs(node) /\ node.xattrs < End /\ 1 + shared <= node.inode.xattrs

LocateXattrHeader(node) == Where(HasXattrs(node), Span(node.xattrs, 1))

LocateShared(node, index) ==
  Where(SharedFit(node, SharedCount(node)) /\ index < SharedCount(node),
        Span(node.xattrs + 1 + index, 1))

(* An entry of zeros has no name and no value, and takes one cell.         *)
XattrLen(at) == IF Is(at, "xattr") THEN CellAt(at).size ELSE 1

(* The entries up to one, from the first behind the shared ids.            *)
XattrSpans(first, index) ==
  LET entry[i \in 0..index] ==
        IF i = 0 THEN Span(first, XattrLen(first))
        ELSE [at |-> entry[i - 1].at + entry[i - 1].len,
              len |-> XattrLen(entry[i - 1].at + entry[i - 1].len)]
  IN  entry

LastXattr(node, entries, index) ==
  Where(/\ \A i \in 0..index : entries[i].at < node.behind /\ entries[i].at < End
        /\ entries[index].at + entries[index].len <= node.behind,
        entries[index])

LocateInline(node, index) ==
  Where(SharedFit(node, SharedCount(node)),
        LastXattr(node, XattrSpans(node.xattrs + 1 + SharedCount(node), index), index))

-----------------------------------------------------------------------------
(* Compressed files: a map of two cells, and behind it a legacy gap and    *)
(* the clusters, or packs of them, or extent records.                      *)

LocateMap(node) ==
  Where(node.located /\ node.inode.layout \in {"full", "compact"},
        Span(AlignUp(node.behind, 2), 2))

MapAt(at) == IF Is(at, "map") /\ at + 1 < End THEN CellAt(at) ELSE MapCells(0, 0, 0, FALSE)[1]
MapOf(node) == MapAt(LocateMap(node).at)

LocateIndex(map, index) == Where(map # Nowhere, Span(map.at + 4 + 2 * index, 2))

(* The packs of two-byte indices begin where eight cells align.            *)
LocatePack(map, index) ==
  LET unit == IF MapAt(map.at).unit # 0 THEN 8 ELSE 2
  IN  Where(map # Nowhere /\ map.at + 1 < End,
            Span(AlignUp(map.at + 2, unit) + index * unit, unit))

(* Records of one cell have the address of the first before them.          *)
LocateExtent(map, unit, index) ==
  LET start == AlignUp(map.at + 2, unit) + (IF unit = 1 THEN 2 ELSE 0)
  IN  IF map = Nowhere \/ unit = 0 THEN Nowhere ELSE Span(start + index * unit, unit)

-----------------------------------------------------------------------------
(* Locator::locate.  Every field is checked for itself, so that what lies  *)
(* across the end of the image is found in part; a pack is one field.      *)

LocateIn(o, node) ==
  CASE o.is = "superblock" -> Span(SuperblockOffset, SuperblockSize)
    [] o.is = "inode"      -> LocateInode(node)
    [] o.is = "dirent"     -> LocateDirent(node, o.block, o.index)
    [] o.is = "extension"  -> LocateExtension(o.index)
    [] o.is = "device"     -> LocateDevice(o.index)
    [] o.is = "chunk"      -> LocateChunk(node, o.index)
    [] o.is = "header"     -> LocateXattrHeader(node)
    [] o.is = "shared"     -> LocateShared(node, o.index)
    [] o.is = "inline"     -> LocateInline(node, o.index)
    [] o.is = "prefix"     -> LocatePrefix(o.index)
    [] o.is = "config"     -> LocateConfig(o.index)
    [] o.is = "map"        -> LocateMap(node)
    [] o.is = "index"      -> LocateIndex(LocateMap(node), o.index)
    [] o.is = "pack"       -> LocatePack(LocateMap(node), o.index)
    [] o.is = "extent"     -> LocateExtent(LocateMap(node), MapOf(node).unit, o.index)

Locate(o) == LocateIn(o, Node(o.nid))

CellsOf(span, whole) ==
  {c \in span.at..(span.at + span.len - 1) : IF whole THEN IsWithin(span) ELSE c < End}

Found(o) == CellsOf(Locate(o), o.is = "pack")
=============================================================================
