------------------------------ MODULE RoundTrip ------------------------------
(***************************************************************************)
(* The builder and the reader together.  An image comes from a host tree   *)
(* that other programs write to while it is packed, or it is given: images *)
(* that the builder never makes, with cycles, shared directories, inline   *)
(* and chunked data, or damage.                                            *)
(***************************************************************************)
EXTENDS Builder, Reader, Viewer

(* A given image: its cells; what its directories list and its files hold, *)
(* by nid; in which modes it can be read without an error, as far as the   *)
(* walk's depth and cycles are not the reason; whether its structures lie  *)
(* where nothing else does, and the extents of files whose layout the      *)
(* reader does not know.                                                   *)
CONSTANTS
  Given,
  FromHost   \* the source of an image that is built

(* A host has no file whose name contains a slash.                         *)
ASSUME RoundTripAssumption ==
  /\ FromHost \notin Given
  /\ {Dot, DotDot} \cap Slash = {}
  /\ \A h \in Hosts : \A n \in DOMAIN h.type : \A c \in h.children[n] : h.name[c] \notin Slash

VARIABLE source

vars == <<image, builderVars, readerVars, viewVars, source>>

NoTree == [type |-> <<>>, name |-> <<>>, children |-> <<>>, content |-> <<>>,
           rootIsDir |-> FALSE]

GivenInit ==
  /\ source \in Given
  /\ image = source.cells
  /\ tree = NoTree
  /\ content = <<>> /\ node = <<>> /\ taken = <<>>
  /\ writes = 0
  /\ phase = "built"
  /\ pending = <<>> /\ todo = <<>>
  /\ cursor = [nid |-> FirstNid, block |-> 0]
  /\ pack = EmptyPack

Init ==
  /\ ReaderInit
  /\ ViewerInit
  /\ \/ BuilderInit /\ source = FromHost
     \/ GivenInit

Build == BuilderStep /\ UNCHANGED <<readerVars, viewVars, source>>

Intrude == (\E f \in DOMAIN tree.type : HostWrite(f)) /\ UNCHANGED <<readerVars, viewVars, source>>

(* Paths a client may ask for.                                             *)
Listing(nid) ==
  IF source # FromHost THEN source.listing[nid]
  ELSE LET dir == CHOOSE n \in DOMAIN node : node[n].nid = nid
       IN  {[name |-> tree.name[c], nid |-> node[c].nid, type |-> tree.type[c]] :
              c \in Children(dir)}

RootNid == IF source = FromHost THEN node[Root].nid ELSE source.root

Extend(found) ==
  UNION {{[path |-> Append(e.path, d.name), nid |-> d.nid, type |-> d.type] :
            d \in Listing(e.nid)} : e \in {x \in found : x.type = "dir"}}

(* What lies at most `depth' levels below a directory.                     *)
Below(dir, depth) ==
  LET level[k \in 0..depth] == IF k = 0 THEN {dir} ELSE Extend(level[k - 1])
  IN  UNION {level[k] : k \in 1..depth}

TheRoot == [path |-> <<>>, nid |-> RootNid, type |-> "dir"]
Reachable == Below(TheRoot, DefaultMaxDepth)

Start ==
  /\ phase = "built"
  /\ \E path \in {e.path : e \in Reachable \cup {TheRoot}}
                \cup {<<n>> : n \in Name \ {Dot, DotDot}} :
       StartWalk(path)
  /\ UNCHANGED <<image, builderVars, viewVars, source>>

Read == phase = "built" /\ (ReaderStep \/ OpenFile) /\ UNCHANGED <<image, builderVars, viewVars, source>>

(* The inspector walks from the root, with no limit of its own, until the  *)
(* walk ends or fails.  Images that were written to while they were built  *)
(* differ in no way that it could tell.                                    *)
RootFails == ~HasInode(Superblock.root) \/ InodeAt(Superblock.root).type # "dir" \/ ~Opens(Superblock.root)
RootWalked ==
  /\ start = <<>> /\ maxDepth = 0
  /\ walk = "done" \/ (stack # <<>> /\ walk \notin {"walking", "unreadable"})

Inspect ==
  /\ phase = "built" /\ mode = "sync" /\ writes = 0
  /\ \/ walk = "idle" /\ RootFails /\ OpenView(<<>>, HasInode(Superblock.root))
     \/ RootWalked /\ OpenView(seen, TRUE)
     \/ Key
  /\ UNCHANGED <<image, builderVars, readerVars, source>>

Finished == phase = "failed" \/ walk \notin {"idle", "walking"}

Terminated == Finished /\ UNCHANGED vars

Step == Build \/ Start \/ Read
Next == Step \/ Intrude \/ Inspect \/ Terminated

Spec == Init /\ [][Next]_vars /\ WF_vars(Step)

-----------------------------------------------------------------------------
(* Correctness.                                                            *)

Sound == source = FromHost \/ mode \in source.sound
TheStart ==
  [path |-> start, type |-> "dir",
   nid |-> (CHOOSE e \in Reachable \cup {TheRoot} : e.path = start).nid]

(* The names of a path are UTF-8.                                          *)
IsText(path) == PathAsText(path) = path

(* The walk yields what lies below its start, each place once, all of it   *)
(* if it ends without an error, to the depth asked for.  It tells the path *)
(* as text: two entries are told under one path only if a name there is    *)
(* not UTF-8.  It reports a cycle or the limit only if there is one, a     *)
(* directory shared by two parents is none, and damage only of a damaged   *)
(* image.                                                                  *)
WalkIsExact ==
  LET below == Below(TheStart, Limit)
      looping == \E d, e \in below \cup {TheStart} :
                   d.nid = e.nid /\ Seqs!IsStrictPrefix(d.path, e.path) /\ e.type = "dir"
      deep == \E e \in below : Len(e.path) = Len(start) + DefaultMaxDepth /\ e.type = "dir"
  IN  phase = "built" /\ walk # "idle" /\ ~view.open =>
        /\ \A i, j \in DOMAIN seen : seen[i].path = seen[j].path => i = j
        /\ \A i, j \in DOMAIN seen :
             Yielded[i].path = Yielded[j].path /\ IsText(seen[i].path) /\ IsText(seen[j].path)
               => i = j
        /\ Seqs!ToSet(seen) \subseteq below
        /\ walk = "done" => Seqs!ToSet(seen) = below
        /\ walk = "cycle" => looping
        /\ walk = "depth" => deep /\ maxDepth = 0
        /\ walk \in {"corrupt", "unreadable"} => ~Sound

(* The doc of build_from_dir: if the size of a file changed since it was   *)
(* scanned, the build fails.  No file is emitted that has another size.    *)
ChangedFilesAreRefused ==
  [][EmitNode /\ tree.type[Current] = "file" /\ content[Current] # Gone
       => Len(content[Current]) = node[Current].size]_vars

(* What was read of a file is the beginning of what it holds, and all of   *)
(* it at the end, whatever buffers it was read with.  For a packed file    *)
(* that is what it held when it was read, in one piece; one that was empty *)
(* when it was scanned is not read again and is packed as empty, whatever  *)
(* was written to it since.                                                *)
Holds(nid) ==
  IF source # FromHost THEN source.files[nid]
  ELSE LET n == CHOOSE n \in DOMAIN node : node[n].nid = nid
       IN  IF node[n].size = 0 THEN <<>> ELSE taken[n]

FilesAreExact ==
  /\ file.state = "open" => Seqs!IsPrefix(file.got, Holds(file.nid))
  /\ file.state = "eof" => file.got = Holds(file.nid)

(* Looking a path up, byte for byte, finds the node that the walk finds    *)
(* there, and nothing where nothing is.  The path that the walk tells of   *)
(* it leads there too if its names are UTF-8, and need not if they are not.*)
LookupAgrees ==
  phase = "built" /\ walk = "idle" /\ Sound /\ ~view.open =>
    /\ \A e \in Reachable : Lookup(e.path) = e.nid
    /\ \A e \in Reachable : IsText(e.path) => Lookup(PathAsText(e.path)) = e.nid
    /\ \A e \in Reachable : \A n \in Name \ {Dot, DotDot} :
         Append(e.path, n) \notin {d.path : d \in Reachable} /\ Len(e.path) < DefaultMaxDepth
           => Lookup(Append(e.path, n)) = Missing

(* The inspector reads with a locator of its own, and shows what the       *)
(* reader reads: every block of a file or directory lies in one extent of  *)
(* its row, at the same address, in blocks that the map marks as used, and *)
(* the entries of a directory are found where the reader finds them.  A    *)
(* tail without blocks before it is the exception: it is not shown.        *)
JustOpened == view.open /\ view.tree = 1 /\ view.focus = "tree" /\ view.related = 0 /\ view.collapsed = {}
InodeRows == {i \in DOMAIN rows : rows[i].kind # "superblock"}
BlocksOf(nid) == {o \in 0..(InodeAt(nid).size - 1) : o % BlockSize = 0 /\ ReadBlock(nid, o) # NoBlock}

Covers(e, offset, block) ==
  /\ e.logical <= offset /\ offset + block.len <= e.logical + e.len
  /\ e.at + offset - e.logical = block.at

ShowsData(row, nid) ==
  InodeAt(nid).addr # Unmapped =>
    \A o \in BlocksOf(nid) : \E block \in {ReadBlock(nid, o)} :
      /\ Cardinality({k \in DOMAIN row.data : Covers(row.data[k], o, block)}) = 1
      /\ BlockKind(block.at \div BlockSize) # 0

ShowsEntries(row, nid) ==
  row.kind = "dir" =>
    \A o \in BlocksOf(nid) : \E block \in {ReadBlock(nid, o)} :
      \A i \in 0..(BlockSize - 1) :
        \E entry \in {Object("dirent", nid, o \div BlockSize, i)} :
          /\ entry \in Seqs!ToSet(row.related) <=> i < Count(block) /\ Count(block) < block.len
          /\ entry \in Seqs!ToSet(row.related) => Locate(entry) = Span(block.at + i, 1)

ViewShowsWhatIsRead ==
  JustOpened =>
    \A i \in InodeRows :
      /\ ShowsData(rows[i], rows[i].object.nid)
      /\ ShowsEntries(rows[i], rows[i].object.nid)
      /\ source # FromHost /\ rows[i].object.nid \in DOMAIN source.shown =>
           Seqs!ToSet(rows[i].data) = source.shown[rows[i].object.nid]

(* In an image that is not damaged no two structures that the locator      *)
(* finds share a cell, and data shares none with a structure, except that  *)
(* the entries of a directory lie in its data.                             *)
Objects(row) == {row.object} \cup Seqs!ToSet(row.related)
StructuresAreApart ==
  JustOpened /\ (source = FromHost \/ source.tidy) =>
    \E all \in {UNION {Objects(rows[i]) : i \in DOMAIN rows}} :
      \E cells \in {[o \in all |-> Found(o)]} :
        /\ \A o, p \in all : o # p => cells[o] \cap cells[p] = {}
        /\ \A i \in InodeRows : \A e \in Seqs!ToSet(rows[i].data), o \in all :
             \/ o.is = "dirent" /\ o.nid = rows[i].object.nid
             \/ cells[o] \cap (e.at..(e.at + e.len - 1)) = {}

(* Whatever keys are pressed, the selection is a row that is visible, the  *)
(* fields are those of the selected object of it, and the field and the    *)
(* extent that are selected exist; only directories are collapsed; the     *)
(* zoomed map holds every block of the row.  A place that was jumped to    *)
(* belongs to the selected row, or to none.                                *)
SelectionIsShown ==
  view.open =>
    /\ view.tree \in Visible
    /\ view.related <= Len(Row.related)
    /\ view.fields = Found(Selected(Row, view.related))
    /\ view.field = 0 \/ view.field < Cardinality(view.fields)
    /\ view.extent = 0 \/ view.extent < Len(DataExtents)
    /\ \A i \in view.collapsed : rows[i].kind = "dir" /\ HasChildren(i)
    /\ \A s \in SpansOf(Row) : {b \in Blocks : Touches(s, b)} \subseteq ZoomedBlocks
    /\ view.override # NoOverride =>
         \E block \in {view.override.at \div BlockSize} :
           Owners(block) = {} \/ view.tree \in Owners(block)

(* Packing a tree and walking an image come to an end.                     *)
EveryWalkEnds == <>Finished
=============================================================================
