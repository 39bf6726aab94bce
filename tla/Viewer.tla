------------------------------- MODULE Viewer -------------------------------
(***************************************************************************)
(* The image inspector: erofs-cli/src/view.rs, ImageModel and ViewState.   *)
(*                                                                         *)
(* A model of the image is built once: the superblock, the root, and the   *)
(* entries of a walk until it ends or fails; for each where its data lies, *)
(* and the structures the locator finds of it.  Then keys move a selection *)
(* over it, and each pane is drawn from what is selected.                  *)
(***************************************************************************)
EXTENDS Locator
Sets == INSTANCE FiniteSetsExt

CONSTANTS
  Unmapped,    \* u32::MAX as a block address
  JumpSizes    \* bytes highlighted by a jump to an offset

ASSUME ViewerAssumption ==
  /\ Unmapped \in Nat
  /\ JumpSizes \subseteq Nat \ {0}

VARIABLES
  rows,   \* ImageModel::nodes
  view    \* ViewState

viewVars == <<rows, view>>

Closed == [open |-> FALSE]
ViewerInit == rows = <<>> /\ view = Closed

-----------------------------------------------------------------------------
(* ImageModel: an extent is a span of the image and the offset in the file *)
(* that it holds.                                                          *)

DataAt(at, len, logical) == [at |-> at, len |-> len, logical |-> logical]
SomeData(at, len, logical) == IF len > 0 THEN <<DataAt(at, len, logical)>> ELSE <<>>

Kind(inode) == IF inode.type \in {"dir", "symlink"} THEN inode.type ELSE "file"

(* Mutant: the tail is taken from behind the fields of the inode.          *)
FlatExtentsBehindFields(node) ==
  LET inode == node.inode
      blocks == (inode.size \div BlockSize) * BlockSize
      data == inode.addr * BlockSize
  IN  IF inode.addr = Unmapped THEN <<>>
      ELSE IF inode.layout = "plain" THEN SomeData(data, inode.size, 0)
      ELSE IF inode.layout = "inline"
      THEN SomeData(data, blocks, 0) \o SomeData(node.xattrs, inode.size % BlockSize, blocks)
      ELSE <<>>

(* walk: the flat layouts.                                                 *)
FlatExtents(node) ==
  LET inode == node.inode
      blocks == (inode.size \div BlockSize) * BlockSize
      data == inode.addr * BlockSize
  IN  IF inode.addr = Unmapped THEN <<>>
      ELSE IF inode.layout = "plain" THEN SomeData(data, inode.size, 0)
      ELSE IF inode.layout = "inline"
      THEN SomeData(data, blocks, 0) \o SomeData(node.behind, inode.size % BlockSize, blocks)
      ELSE <<>>

(* What is listed one by one ends with the first that is not found.        *)
Leading(objects, enders) ==
  LET ends == {i \in DOMAIN objects : objects[i] \in enders}
  IN  IF ends = {} THEN objects ELSE SubSeq(objects, 1, Sets!Min(ends) - 1)

IsFound(o) == Found(o) # {}
AddrAt(at) == IF Is(at, "chunk") THEN CellAt(at).addr ELSE 0
LeadingFound(objects) == Leading(objects, {o \in Seqs!ToSet(objects) : ~IsFound(o)})
Each(is, nid, block, n) == LeadingFound([i \in 1..n |-> Object(is, nid, block, i - 1)])

(* attach_dirents, attach_xattrs                                           *)
Dirents(node) ==
  IF node.inode.type # "dir" THEN <<>>
  ELSE Seqs!FlattenSeq([b \in 1..DivCeil(node.inode.size) |->
         Each("dirent", node.nid, b - 1, BlockSize)])

WithEntry(node, inline) ==
  Leading(inline, {o \in Seqs!ToSet(inline) : ~Is(LocateInline(node, o.index).at, "xattr")})
Xattrs(node) ==
  IF ~IsFound(Object("header", node.nid, 0, 0)) THEN <<>>
  ELSE <<Object("header", node.nid, 0, 0)>> \o Each("shared", node.nid, 0, node.inode.xattrs)
       \o WithEntry(node, Each("inline", node.nid, 0, node.inode.xattrs))

(* attach_chunk_mappings: chunks on other devices and holes are listed and *)
(* have no extent.                                                         *)
ChunkObjects(node) ==
  IF node.inode.layout \notin {"chunk", "index"} THEN <<>>
  ELSE Each("chunk", node.nid, 0, Chunks(node.inode))

ChunkExtent(inode, at, logical) ==
  LET addr == AddrAt(IF inode.layout = "index" THEN at + 1 ELSE at)
      rest == inode.size - logical
      external == Is(at, "index") /\ CellAt(at).device # 0
  IN  IF external \/ addr \in {0, Unmapped} THEN <<>>
      ELSE <<DataAt(addr * BlockSize,
                    IF rest < ChunkSize(inode) THEN rest ELSE ChunkSize(inode), logical)>>

ChunkExtents(node, chunks) ==
  Seqs!FlattenSeq([k \in DOMAIN chunks |->
    ChunkExtent(node.inode, LocateChunk(node, k - 1).at, (k - 1) * ChunkSize(node.inode))])

(* attach_compressed_mappings.  Extent records of one and two cells hold   *)
(* no position in the file, those of one none in the image either.         *)
ExtentObjects(node, map) ==
  IF node.inode.layout \notin {"full", "compact"} \/ map.unit = 0 THEN <<>>
  ELSE Each("extent", node.nid, 0, map.count)

RecordExtent(at, unit) ==
  LET cell == CellAt(at)
      seen(k) == k < unit /\ at + k < End
  IN  IF cell.is # "extent" THEN <<>>
      ELSE SomeData(IF seen(1) THEN cell.pstart ELSE 0, cell.plen, IF seen(3) THEN cell.lstart ELSE 0)

RecordExtents(node, map, records) ==
  Seqs!FlattenSeq([k \in DOMAIN records |->
    RecordExtent(LocateExtent(LocateMap(node), map.unit, k - 1).at, map.unit)])

ClusterSize(map) == 2 ^ map.bits * BlockSize
IndexObjects(node, map) ==
  IF node.inode.layout # "full" \/ map.unit # 0 THEN <<>>
  ELSE Each("index", node.nid, 0,
            (node.inode.size + ClusterSize(map) - 1) \div ClusterSize(map))

(* A cluster is the head of a run of blocks, whose number the next one     *)
(* may tell if it is none.                                                 *)
ClusterIn(at) == IF Is(at, "cluster") THEN CellAt(at) ELSE ClusterCells("plain", 0, 0)[1]

ClusterExtent(at, next, logical) ==
  IF ClusterIn(at).kind = "nonhead" \/ at + 1 >= End THEN <<>>
  ELSE <<DataAt(AddrAt(at + 1) * BlockSize,
                BlockSize * (IF next.kind = "nonhead" /\ next.blocks > 0 THEN next.blocks ELSE 1),
                logical)>>

ClusterExtents(node, map, clusters) ==
  IF map.elsewhere THEN <<>>
  ELSE Seqs!FlattenSeq([k \in DOMAIN clusters |->
         ClusterExtent(LocateIndex(LocateMap(node), k - 1).at,
                       ClusterIn(LocateIndex(LocateMap(node), k).at), (k - 1) * ClusterSize(map))])

PackObjects(node, map) ==
  IF node.inode.layout = "compact" /\ map.unit = 0
  THEN Each("pack", node.nid, 0, 1) ELSE <<>>

MapObjects(nid) == Each("map", nid, 0, 1)

(* A row, from where its inode lies, its map and what is listed of them.   *)
InodeRowOf(node, map, chunks, records, clusters, path) ==
  [object |-> InodeObject(node.nid), kind |-> Kind(node.inode), path |-> path, depth |-> Len(path),
   meta |-> <<Span(node.at, SizeOf(node.inode)), Span(node.xattrs, node.inode.xattrs)>>,
   data |-> FlatExtents(node) \o ChunkExtents(node, chunks) \o RecordExtents(node, map, records)
            \o ClusterExtents(node, map, clusters),
   related |-> Dirents(node) \o Xattrs(node) \o chunks \o MapObjects(node.nid)
               \o records \o clusters \o PackObjects(node, map)]

MappedRow(node, map, path) ==
  InodeRowOf(node, map, ChunkObjects(node), ExtentObjects(node, map), IndexObjects(node, map), path)
NodeRow(node, path) == MappedRow(node, MapOf(node), path)
InodeRow(nid, path) == NodeRow(Node(nid), path)

(* attach_superblock_related lists the slots, devices and prefixes that    *)
(* the superblock counts, found or not.                                    *)
Listed(o) == IF IsFound(o) THEN <<o>> ELSE <<>>
SuperblockRow ==
  [object |-> SuperblockObject, kind |-> "superblock", path |-> <<>>, depth |-> 0,
   meta |-> <<Span(SuperblockOffset, SuperblockSize + Has.slots)>>, data |-> <<>>,
   related |-> [i \in 1..Has.slots |-> Object("extension", 0, 0, i - 1)]
               \o [i \in 1..Has.devices |-> Object("device", 0, 0, i - 1)]
               \o [i \in 1..Has.prefixes |-> Object("prefix", 0, 0, i - 1)]
               \o Seqs!FlattenSeq([i \in 1..4 |-> Listed(Object("config", 0, 0, i - 1))])]

(* mark_blocks and rebuild_block_owners: the blocks a span touches, which  *)
(* rows own a block, and the strongest use of it.                          *)
Touches(span, block) ==
  span.len > 0 /\ span.at \div BlockSize <= block /\ block <= (span.at + span.len - 1) \div BlockSize

SpansOf(row) == Seqs!ToSet(row.meta) \cup Seqs!ToSet(row.data)
Owners(block) == {i \in DOMAIN rows : \E span \in SpansOf(rows[i]) : Touches(span, block)}

Uses(row, block) ==
  {IF row.kind = "superblock" THEN 4 ELSE 3 : span \in {s \in Seqs!ToSet(row.meta) : Touches(s, block)}}
  \cup {IF row.kind = "dir" THEN 2 ELSE 1 : span \in {e \in Seqs!ToSet(row.data) : Touches(e, block)}}
BlockKind(block) ==
  LET uses == {0} \cup UNION {Uses(rows[i], block) : i \in DOMAIN rows}
  IN  CHOOSE u \in uses : \A v \in uses : v <= u
Blocks == 0..(DivCeil(End) - 1)

-----------------------------------------------------------------------------
(* ViewState.                                                              *)

Row == rows[view.tree]
Selected(row, related) == IF related = 0 THEN row.object ELSE row.related[related]

NoOverride == Nowhere

(* reload_fields, for a row and a related object of it.                    *)
Reloaded(shown, row, related) ==
  [shown EXCEPT !.related = related, !.fields = Found(Selected(row, related)), !.field = 0,
                !.override = NoOverride]

Show(shown) == /\ view.open
               /\ view' = shown
               /\ UNCHANGED rows

(* Mutant: the extent that was selected of the last node is kept.          *)
SelectNodeKeeping(shown, index) ==
  Reloaded([shown EXCEPT !.tree = index], rows[index], 0)

SelectNode(shown, index) ==
  Reloaded([shown EXCEPT !.tree = index, !.extent = 0], rows[index], 0)

OpenView(entries, hasRoot) ==
  /\ ~view.open
  /\ \E visited \in {(IF hasRoot THEN <<[nid |-> Superblock.root, path |-> <<>>]>> ELSE <<>>)
                     \o [i \in DOMAIN entries |-> [nid |-> entries[i].nid, path |-> entries[i].path]]} :
       rows' = <<SuperblockRow>>
               \o [i \in DOMAIN visited |-> InodeRow(visited[i].nid, PathAsText(visited[i].path))]
  /\ view' = [open |-> TRUE, tree |-> 1, focus |-> "tree", collapsed |-> {}, related |-> 0,
              extent |-> 0, fields |-> Found(SuperblockObject), field |-> 0, override |-> NoOverride]

(* A row is hidden below a collapsed one, until the next that is not       *)
(* deeper.                                                                 *)
Hides(c, i) == c < i /\ \A k \in (c + 1)..i : rows[k].depth > rows[c].depth
Visible == {i \in DOMAIN rows : ~\E c \in view.collapsed : Hides(c, i)}
Above(i) == Cardinality({j \in Visible : j < i})

HasChildren(i) == i < Len(rows) /\ rows[i + 1].depth > rows[i].depth
DataExtents == Row.data

Clamp(n, high) == IF n < 0 THEN 0 ELSE IF n > high THEN high ELSE n
Moves == {-10, -1, 1, 10}

(* move_selection, by one or by a page; the hex pane scrolls.              *)
MoveTree(delta) ==
  /\ view.open /\ view.focus = "tree"
  /\ \E here \in {IF view.tree \in Visible THEN Above(view.tree) ELSE 0} :
       \E next \in Visible :
         /\ Above(next) = Clamp(here + delta, Cardinality(Visible) - 1)
         /\ Show(SelectNode(view, next))

MoveField(delta) ==
  /\ view.open /\ view.focus = "fields" /\ view.fields # {}
  /\ Show([view EXCEPT !.field = Clamp(@ + delta, Cardinality(view.fields) - 1)])

HomeOrEnd(first) ==
  /\ view.open
  /\ \/ /\ view.focus = "tree"
        /\ Show(SelectNode(view, IF first THEN Sets!Min(Visible) ELSE Sets!Max(Visible)))
     \/ /\ view.focus = "fields"
        /\ Show([view EXCEPT !.field =
                   IF first \/ view.fields = {} THEN 0 ELSE Cardinality(view.fields) - 1])

Tab ==
  /\ view.open
  /\ Show([view EXCEPT !.focus = CASE @ = "tree" -> "fields"
                                   [] @ = "fields" -> "hex"
                                   [] @ = "hex" -> "tree"])

Collapse(i) == [view EXCEPT !.collapsed = @ \cup {i}]
Expand(i) == [view EXCEPT !.collapsed = @ \ {i}]

ToggleDirectory ==
  /\ view.open /\ view.focus = "tree"
  /\ Row.kind = "dir" /\ HasChildren(view.tree)
  /\ Show(IF view.tree \in view.collapsed THEN Expand(view.tree) ELSE Collapse(view.tree))

TreeRight ==
  /\ view.open /\ view.focus = "tree"
  /\ \/ view.tree \in view.collapsed /\ Show(Expand(view.tree))
     \/ /\ view.tree \notin view.collapsed /\ HasChildren(view.tree)
        /\ Show(SelectNode(view, view.tree + 1))

Closes(i) == rows[i].kind = "dir" /\ HasChildren(i) /\ i \notin view.collapsed

TreeLeft ==
  /\ view.open /\ view.focus = "tree"
  /\ \/ Closes(view.tree) /\ Show(Collapse(view.tree))
     \/ /\ ~Closes(view.tree) /\ Row.depth > 0
        /\ \E parent \in {i \in 1..(view.tree - 1) : rows[i].depth + 1 = Row.depth} :
             /\ \A i \in (parent + 1)..(view.tree - 1) : rows[i].depth + 1 # Row.depth
             /\ Show(SelectNode(view, parent))

CycleRelated ==
  /\ view.open
  /\ Show(Reloaded(view, Row, (view.related + 1) % (Len(Row.related) + 1)))

CycleExtent(delta) ==
  /\ view.open /\ DataExtents # <<>>
  /\ Show([view EXCEPT !.extent = (@ + delta) % Len(DataExtents), !.override = NoOverride])

-----------------------------------------------------------------------------
(* A line of input, typed and entered in one step: a name to search for,   *)
(* or a place to jump to.  No other key does anything until it is entered. *)

Reveal(index) == SelectNode([view EXCEPT !.collapsed = {}, !.focus = "tree"], index)

(* The first row from the one below the selection on, round the end.       *)
NextMatch(matches) ==
  LET later == {i \in matches : i > view.tree}
      of == IF later = {} THEN matches ELSE later
  IN  CHOOSE i \in of : \A j \in of : i <= j

Search(name) ==
  LET matches == {i \in DOMAIN rows : name \in Seqs!ToSet(rows[i].path)}
  IN  view.open /\ matches # {} /\ Show(Reveal(NextMatch(matches)))

JumpToNid(nid) ==
  LET matches == {i \in DOMAIN rows : rows[i].object = InodeObject(nid)}
  IN  view.open /\ matches # {} /\ Show(Reveal(Sets!Min(matches)))

(* A jump shows the place in the hex pane and selects the first owner of   *)
(* its block, if there is one.                                             *)
Owned(owners) ==
  IF owners = {} THEN view ELSE SelectNode([view EXCEPT !.collapsed = {}], Sets!Min(owners))

JumpTo(at, size) ==
  /\ view.open /\ at < End
  /\ Show([Owned(Owners(at \div BlockSize)) EXCEPT
            !.focus = "hex", !.override = Span(at, IF size < End - at THEN size ELSE End - at)])

Key ==
  \/ \E delta \in Moves : MoveTree(delta) \/ MoveField(delta)
  \/ \E first \in BOOLEAN : HomeOrEnd(first)
  \/ Tab \/ ToggleDirectory \/ TreeRight \/ TreeLeft \/ CycleRelated
  \/ CycleExtent(-1) \/ CycleExtent(1)
  \/ \E name \in Name : Search(name)
  \/ \E i \in DOMAIN rows : JumpToNid(rows[i].object.nid)
  \/ \E block \in Blocks : JumpTo(block * BlockSize, BlockSize)
  \/ \E at \in {SuperblockOffset, End - 1}, size \in JumpSizes : JumpTo(at, size)

(* active_span                                                             *)
ActiveSpan ==
  IF view.override # NoOverride THEN view.override
  ELSE IF view.focus = "fields" /\ view.fields # {}
  THEN Span(Seqs!SetToSortSeq(view.fields, <)[view.field + 1], 1)
  ELSE IF view.related > 0 /\ view.fields # {}
  THEN LET first == CHOOSE c \in view.fields : \A d \in view.fields : c <= d
       IN  Span(first, Cardinality(view.fields))
  ELSE IF Row.kind \in {"file", "symlink"} /\ view.extent < Len(DataExtents)
  THEN Span(DataExtents[view.extent + 1].at, DataExtents[view.extent + 1].len)
  ELSE Row.meta[1]

(* visible_blocks: what the physical map shows when it is zoomed.          *)
ZoomedBlocks ==
  LET spans == {s \in SpansOf(Row) : s.len > 0}
      first == Sets!Min({s.at \div BlockSize : s \in spans})
      end == Sets!Max({DivCeil(s.at + s.len) : s \in spans})
  IN  (first - 2)..(end + 1) \cap Blocks
=============================================================================
