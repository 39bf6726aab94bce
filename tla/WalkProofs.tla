------------------------------ MODULE WalkProofs ------------------------------
(***************************************************************************)
(* The walks through packed images (module RoundTrip) and what the         *)
(* inspector shows of them: its rows, what is selected in them and where   *)
(* they lie, for any host trees, any writes to them, any size of blocks    *)
(* and any names.                                                          *)
(***************************************************************************)
EXTENDS RoundTripProofs

-----------------------------------------------------------------------------
(* A walk: what it has found, below a start, so far.                       *)

Spot(frame) == [path |-> frame.path, nid |-> frame.nid, type |-> "dir"]

(* A frame stands in block b of its directory.                             *)
Stands(frame, b) ==
  \E d \in {Owner(frame.nid)} :
    /\ d \in Reached(tree) /\ IsDir(d) /\ frame.nid = node[d].nid
    /\ DOMAIN frame = {"nid", "path", "offset", "block", "i"}
    /\ frame.offset = (b - 1) * BlockSize
    /\ frame.block = ReadBlock(frame.nid, frame.offset)
    /\ frame.i \in 0..Len(node[d].data[b])

(* The entries before block b, and the first i ones of it.                 *)
Passed(d, b, i, name) ==
  \E a \in 1..node[d].blocks : \E j \in 1..Len(node[d].data[a]) :
    node[d].data[a][j].name = name /\ (a < b \/ (a = b /\ j <= i))

FrameHolds(frame, found) ==
  \E b \in 1..node[Owner(frame.nid)].blocks :
    /\ Stands(frame, b)
    /\ \A c \in Children(Owner(frame.nid)) :
         Child(Spot(frame), c) \in found <=> Passed(Owner(frame.nid), b, frame.i, tree.name[c])

FramesHold(S, found, frames) ==
  \A k \in 1..Len(frames) :
    /\ Spot(frames[k]) \in found \cup {S}
    /\ Len(frames[k].path) = Len(S.path) + k - 1
    /\ \A j \in 1..k : Seqs!IsPrefix(frames[j].path, frames[k].path)
    /\ FrameHolds(frames[k], found)

(* Found places that no frame stands at were searched.                     *)
NoFrameAt(frames, path) == \A k \in 1..Len(frames) : frames[k].path # path

Searched(S, depth, found, frames) ==
  \A e \in found \cup {S} :
    Len(e.path) < Len(S.path) + depth /\ NoFrameAt(frames, e.path) =>
      \A c \in Children(Owner(e.nid)) : Child(e, c) \in found

Begins(S) ==
  /\ S \in Spots /\ S.type = "dir" /\ IsDir(Owner(S.nid))
  /\ Leads(tree, node, S.path, S.nid) /\ Len(S.path) <= DefaultMaxDepth

Near(S, depth, found, x) ==
  \E e \in found \cup {S} : \E c \in Children(Owner(e.nid)) :
    x = Child(e, c) /\ Len(S.path) <= Len(e.path) /\ Len(e.path) < Len(S.path) + depth

Apart(T) == \A e, f \in T : e.path = f.path => e = f

Explored(S, depth, found, frames) ==
  /\ Begins(S) /\ depth \in Nat /\ depth > 0
  /\ Sequence(frames) /\ Len(frames) <= depth
  /\ found \subseteq Spots /\ Apart(found \cup {S})
  /\ \A x \in found : Near(S, depth, found, x)
  /\ FramesHold(S, found, frames)
  /\ Searched(S, depth, found, frames)

(* How a walk ended early.                                                 *)
Loops(S, depth, found) ==
  \E d \in found \cup {S} : \E x \in Spots :
    Near(S, depth, found, x) /\ d.nid = x.nid /\ Seqs!IsStrictPrefix(d.path, x.path) /\ x.type = "dir"

IsDeep(S, depth, found) ==
  \E x \in Spots :
    Near(S, depth, found, x) /\ Len(x.path) = Len(S.path) + DefaultMaxDepth /\ x.type = "dir"

PathsDiffer(s) == \A i, j \in DOMAIN s : s[i].path = s[j].path => i = j

Nids(frames) == {frames[k].nid : k \in 1..Len(frames)}

Toured(S) ==
  /\ S.path = start /\ Explored(S, Limit, Elements(seen), stack)
  /\ PathsDiffer(seen)
  /\ walk = "walking" => stack # <<>> /\ ancestors \subseteq Nids(stack)
  /\ walk = "done" => stack = <<>>
  /\ walk = "cycle" => Loops(S, Limit, Elements(seen))
  /\ walk = "depth" => IsDeep(S, Limit, Elements(seen)) /\ maxDepth = 0

NoTour == {"idle", "not found", "not a directory"}

TourInv ==
  /\ maxDepth \in Nat
  /\ \/ walk \in NoTour /\ seen = <<>>
     \/ /\ walk \in {"walking", "done", "cycle", "depth"} /\ phase = "built"
        /\ \E nid \in Nat : Toured([path |-> start, nid |-> nid, type |-> "dir"])

LEMMA NoTourIs ==
  ASSUME NEW w \in NoTour
  PROVE  w \notin {"walking", "done", "cycle", "depth", "corrupt", "unreadable"}
BY Zenon DEF NoTour

LEMMA PrefixGrows ==
  ASSUME NEW p \in Seq(Name), NEW q \in Seq(Name), NEW x \in Name, Seqs!IsPrefix(p, q)
  PROVE  Seqs!IsPrefix(p, Append(q, x)) /\ Seqs!IsStrictPrefix(p, Append(q, x))
<1>1. PICK r, n, m : r = Append(q, x) /\ n = Len(p) /\ m = Len(q)
  OBVIOUS
<1>2. /\ r \in Seq(Name) /\ Len(r) = m + 1 /\ \A i \in 1..m : r[i] = q[i]
      /\ n \in Nat /\ m \in Nat
  BY <1>1
<1>3. n <= m /\ SubSeq(p, 1, n) = SubSeq(q, 1, n)
  BY <1>1 DEF Seqs!IsPrefix
<1>4. SubSeq(r, 1, n) = SubSeq(q, 1, n)
  <2>1. SubSeq(r, 1, n) = [i \in 1..n |-> r[i]]
    BY <1>2, <1>3
  <2>2. SubSeq(q, 1, n) = [i \in 1..n |-> q[i]]
    BY <1>1, <1>2, <1>3
  <2>3. \A i \in 1..n : r[i] = q[i]
    BY <1>2, <1>3
  <2> QED
    BY <2>1, <2>2, <2>3
<1>5. Seqs!IsPrefix(p, r)
  BY <1>1, <1>2, <1>3, <1>4 DEF Seqs!IsPrefix
<1>6. p # r
  BY <1>1, <1>2, <1>3
<1> QED
  BY <1>1, <1>5, <1>6 DEF Seqs!IsStrictPrefix

LEMMA PrefixSelf ==
  ASSUME NEW p \in Seq(Name)
  PROVE  Seqs!IsPrefix(p, p)
BY DEF Seqs!IsPrefix

(* A place that is near lies below the start, no deeper than asked for.    *)
LEMMA NearIs ==
  ASSUME Packed, NEW S \in Spots, NEW depth \in Nat, NEW found \in SUBSET Spots, NEW x,
         Near(S, depth, found, x)
  PROVE  /\ x \in Spots /\ Len(x.path) \in Nat /\ Len(S.path) \in Nat
         /\ Len(S.path) < Len(x.path) /\ Len(x.path) <= Len(S.path) + depth
<1>0. PICK e \in found \cup {S} : \E c \in Children(Owner(e.nid)) :
        x = Child(e, c) /\ Len(S.path) <= Len(e.path) /\ Len(e.path) < Len(S.path) + depth
  BY DEF Near
<1>1. PICK c \in Children(Owner(e.nid)) :
        x = Child(e, c) /\ Len(S.path) <= Len(e.path) /\ Len(e.path) < Len(S.path) + depth
  BY <1>0
<1>2. e \in Spots
  BY <1>1
<1>3. x \in Spots /\ Len(x.path) = Len(e.path) + 1 /\ Len(e.path) \in Nat
  BY <1>1, <1>2, ChildIs
<1>4. Len(S.path) \in Nat
  BY SpotIs
<1> QED
  BY <1>1, <1>3, <1>4

(* What was explored is what lies below.                                   *)
LEMMA ExploredIsBelow ==
  ASSUME Packed, NEW S, NEW depth, NEW found, NEW frames, Explored(S, depth, found, frames)
  PROVE  /\ \A x : Near(S, depth, found, x) => x \in Below(S, depth)
         /\ frames = <<>> => Below(S, depth) \subseteq found
<1>1. /\ S \in Spots /\ depth \in Nat /\ found \in SUBSET Spots
      /\ \A x \in found : Near(S, depth, found, x)
      /\ Searched(S, depth, found, frames)
  BY DEF Explored, Begins
<1>2. PICK level : Levels(level, S, depth) /\ Below(S, depth) = UNION {level[k] : k \in 1..depth}
  BY <1>1, BelowIs
<1>3. /\ level[0] = {S} /\ \A k \in 1..depth : level[k] = Extend(level[k - 1])
      /\ \A k \in 0..depth : level[k] \in SUBSET Spots
  BY <1>2 DEF Levels
<1>4. PICK base \in Nat : base = Len(S.path)
  BY <1>1, SpotIs
<1>5. \A x : Near(S, depth, found, x) =>
        x \in Spots /\ Len(x.path) \in Nat /\ base < Len(x.path) /\ Len(x.path) <= base + depth
  BY <1>1, <1>4, NearIs
<1> DEFINE K == {k \in 0..depth :
                   \A x : Near(S, depth, found, x) \/ x = S => (Len(x.path) = base + k => x \in level[k])}
<1>6. 0 \in K
  BY <1>1, <1>3, <1>4, <1>5
<1>7. ASSUME NEW k \in 1..depth, k - 1 \in K
      PROVE  k \in K
  <2>1. k \in Nat /\ k > 0 /\ k - 1 \in 0..depth /\ k \in 0..depth
    BY <1>1
  <2>2. SUFFICES ASSUME NEW x, Near(S, depth, found, x) \/ x = S, Len(x.path) = base + k
                 PROVE  x \in level[k]
    BY <2>1
  <2>3. Near(S, depth, found, x)
    BY <1>4, <2>1, <2>2
  <2>a. PICK e \in found \cup {S} : \E c \in Children(Owner(e.nid)) : x = Child(e, c)
    BY <2>3 DEF Near
  <2>4. PICK c \in Children(Owner(e.nid)) : x = Child(e, c)
    BY <2>a
  <2>5. e \in Spots /\ (Near(S, depth, found, e) \/ e = S)
    BY <1>1, <2>4
  <2>6. Len(x.path) = Len(e.path) + 1 /\ Len(e.path) \in Nat
    BY <2>4, <2>5, ChildIs
  <2>7. Len(e.path) = base + (k - 1)
    BY <1>4, <2>1, <2>2, <2>6
  <2>8. e \in level[k - 1]
    BY <1>7, <2>5, <2>7
  <2>9. Child(e, c) \in Extend(level[k - 1])
    BY <1>3, <2>1, <2>4, <2>8, ExtendIs
  <2> QED
    BY <1>3, <2>4, <2>9
<1>8. \A k \in 0..depth : k \in K
  <2> HIDE DEF K
  <2> QED
    BY <1>1, <1>6, <1>7, Induction
<1>9. ASSUME NEW x, Near(S, depth, found, x) PROVE x \in Below(S, depth)
  <2>1. PICK k : k = Len(x.path) - base
    OBVIOUS
  <2>2. k \in 1..depth /\ k \in 0..depth /\ Len(x.path) = base + k
    BY <1>1, <1>4, <1>5, <1>9, <2>1
  <2>3. x \in level[k]
    BY <1>8, <1>9, <2>2
  <2> QED
    BY <1>2, <2>2, <2>3
<1> HIDE DEF K
<1>10. ASSUME frames = <<>> PROVE Below(S, depth) \subseteq found
  <2> DEFINE F == {k \in 0..depth : /\ level[k] \subseteq found \cup {S}
                                    /\ \A x \in level[k] : Len(x.path) = base + k /\ (k > 0 => x \in found)}
  <2>1. 0 \in F
    BY <1>1, <1>3, <1>4
  <2>2. ASSUME NEW k \in 1..depth, k - 1 \in F
        PROVE  k \in F
    <3>1. k \in Nat /\ k > 0 /\ k - 1 \in 0..depth /\ k \in 0..depth
      BY <1>1
    <3>2. ASSUME NEW x \in level[k]
          PROVE  x \in found /\ Len(x.path) = base + k
      <4>1. level[k - 1] \in SUBSET Spots /\ level[k] = Extend(level[k - 1])
        BY <1>3, <3>1
      <4>2. PICK e \in level[k - 1] : \E c \in Children(Owner(e.nid)) : x = Child(e, c)
        BY <4>1, ExtendIs
      <4>3. PICK c \in Children(Owner(e.nid)) : x = Child(e, c)
        BY <4>2
      <4>4. e \in found \cup {S} /\ Len(e.path) = base + (k - 1) /\ e \in Spots
        BY <2>2, <4>1
      <4>5. Len(x.path) = Len(e.path) + 1
        BY <4>3, <4>4, ChildIs
      <4>6. Len(e.path) < base + depth /\ Len(x.path) = base + k
        BY <1>1, <1>4, <3>1, <4>4, <4>5
      <4>7. NoFrameAt(frames, e.path)
        BY <1>10 DEF NoFrameAt
      <4>8. Child(e, c) \in found
        BY <1>1, <1>4, <4>3, <4>4, <4>6, <4>7 DEF Searched
      <4> QED
        BY <4>3, <4>6, <4>8
    <3> QED
      BY <3>1, <3>2
  <2>3. \A k \in 0..depth : k \in F
    <3> HIDE DEF F
    <3> QED
      BY <1>1, <2>1, <2>2, Induction
  <2>4. \A k \in 1..depth : level[k] \subseteq found
    <3>1. \A k \in 1..depth : k \in 0..depth /\ k > 0
      BY <1>1
    <3> QED
      BY <2>3, <3>1
  <2> QED
    BY <1>2, <2>4
<1> QED
  BY <1>9, <1>10

(* A path that is no longer than the cap can be reached.                   *)
LEMMA LedIsReachable ==
  ASSUME Packed, source = FromHost, NEW path \in Seq(Name), NEW nid, Leads(tree, node, path, nid),
         Len(path) <= DefaultMaxDepth
  PROVE  \E e \in Reachable \cup {TheRoot} : e.path = path
<1>1. PICK m, n : Way(tree, m, path) /\ n = Len(path)
  BY DEF Leads
<1>2. n \in Nat /\ DefaultMaxDepth \in Nat /\ n <= DefaultMaxDepth
  BY <1>1, ReaderAssumption DEF ReaderAssumption
<1>3. m \in [0..n -> Reached(tree)] /\ m[0] = Root
      /\ \A k \in 1..n : m[k] \in Children(m[k - 1]) /\ tree.name[m[k]] = path[k]
  BY <1>1 DEF Way, Children
<1> DEFINE K == {k \in 0..n : \E e \in Reachable \cup {TheRoot} :
                               e.path = SubSeq(path, 1, k) /\ e.nid = node[m[k]].nid}
<1>4. 0 \in K
  <2>1. TheRoot.path = <<>> /\ TheRoot.nid = node[Root].nid
    BY DEF TheRoot, RootNid
  <2>2. SubSeq(path, 1, 0) = <<>>
    OBVIOUS
  <2>3. 0 \in 0..n /\ TheRoot \in Reachable \cup {TheRoot} /\ m[0] = Root
    BY <1>2, <1>3
  <2>4. TheRoot.path = SubSeq(path, 1, 0) /\ TheRoot.nid = node[m[0]].nid
    BY <2>1, <2>2, <2>3
  <2> QED
    BY ONLY <2>3, <2>4
<1>5. ASSUME NEW k \in 1..n, k - 1 \in K
      PROVE  k \in K
  <2>1. k \in 0..n /\ k - 1 \in 0..n /\ k \in Nat /\ k - 1 \in Nat
    BY <1>2
  <2>2. PICK e \in Reachable \cup {TheRoot} :
          e.path = SubSeq(path, 1, k - 1) /\ e.nid = node[m[k - 1]].nid
    BY <1>5
  <2>3. Owner(e.nid) = m[k - 1]
    BY <1>3, <2>1, <2>2, OwnerIs
  <2>4. m[k] \in Children(Owner(e.nid)) /\ tree.name[m[k]] = path[k]
    BY <1>3, <2>3
  <2>5. Len(e.path) = k - 1 /\ Append(e.path, path[k]) = SubSeq(path, 1, k)
    <3>1. PICK p, q, r : p = SubSeq(path, 1, k - 1) /\ q = Append(p, path[k]) /\ r = SubSeq(path, 1, k)
      OBVIOUS
    <3>2. /\ path \in Seq(Name) /\ Len(path) = n /\ k \in 1..n
      BY <1>1
    <3>3. p \in Seq(Name) /\ Len(p) = k - 1 /\ \A i \in 1..(k - 1) : p[i] = path[i]
      BY <1>2, <2>1, <3>1, <3>2
    <3>4. path[k] \in Name
      BY <3>2
    <3>5. q \in Seq(Name) /\ Len(q) = k /\ \A i \in 1..k : q[i] = IF i = k THEN path[k] ELSE p[i]
      BY <2>1, <3>1, <3>3, <3>4
    <3>6. r \in Seq(Name) /\ Len(r) = k /\ \A i \in 1..k : r[i] = path[i]
      BY <1>2, <2>1, <3>1, <3>2
    <3>7. \A i \in 1..k : q[i] = r[i]
      <4>1. SUFFICES ASSUME NEW i \in 1..k PROVE q[i] = r[i]
        OBVIOUS
      <4>2. i = k \/ i \in 1..(k - 1)
        BY <2>1
      <4> QED
        BY <3>3, <3>5, <3>6, <4>2
    <3>8. q = r
      <4>1. q \in [1..k -> Name] /\ r \in [1..k -> Name]
        BY <3>5, <3>6
      <4> QED
        BY ONLY <3>7, <4>1
    <3> QED
      BY <2>2, <3>1, <3>3, <3>8
  <2>6. Len(e.path) < DefaultMaxDepth
    BY <1>2, <2>1, <2>5
  <2>7. Child(e, m[k]) \in Reachable
    BY <2>4, <2>6, ReachableIs
  <2>8. Child(e, m[k]).path = SubSeq(path, 1, k) /\ Child(e, m[k]).nid = node[m[k]].nid
    BY <2>4, <2>5 DEF Child
  <2> QED
    BY <2>1, <2>7, <2>8
<1> HIDE DEF K
<1>6. \A k \in 0..n : k \in K
  BY <1>2, <1>4, <1>5, Induction
<1>7. n \in K
  BY <1>2, <1>6
<1>8. SubSeq(path, 1, n) = path
  BY <1>1
<1> QED
  BY <1>7, <1>8 DEF K

LEMMA TheStartIs ==
  ASSUME Packed, DirInv, source = FromHost, NEW S, Begins(S), S.path = start,
         NEW nid, S = [path |-> start, nid |-> nid, type |-> "dir"]
  PROVE  TheStart = S
<1>1. start \in Seq(Name) /\ Leads(tree, node, start, nid) /\ Len(start) <= DefaultMaxDepth
  BY SpotIs DEF Begins
<1>2. Lookup(start) = nid
  BY <1>1, LookupFollows
<1>3. \E e \in Reachable \cup {TheRoot} : e.path = start
  BY <1>1, LedIsReachable
<1>4. (CHOOSE e \in Reachable \cup {TheRoot} : e.path = start).nid = nid
  <2>1. PICK e : e = (CHOOSE x \in Reachable \cup {TheRoot} : x.path = start)
    OBVIOUS
  <2>2. e \in Reachable \cup {TheRoot} /\ e.path = start
    BY <1>3, <2>1
  <2>3. Lookup(e.path) = e.nid
    BY <2>2, LookupIsExact
  <2> QED
    BY <1>2, <2>1, <2>2, <2>3
<1> QED
  BY <1>4 DEF TheStart

(* An entry whose names are UTF-8 is told under its path.                  *)
LEMMA TextIsTold ==
  ASSUME NEW e \in Spots, IsText(e.path)
  PROVE  Told(e).path = e.path
<1>1. PICK path : path = e.path
  OBVIOUS
<1>2. path = [k \in DOMAIN path |-> AsText(path[k])]
  BY <1>1 DEF IsText, PathAsText
<1>3. \A k \in DOMAIN path : AsText(path[k]) = path[k]
  BY <1>2
<1>4. [k \in DOMAIN path |-> IF k <= Len(start) THEN path[k] ELSE AsText(path[k])]
        = [k \in DOMAIN path |-> path[k]]
  BY <1>3
<1>5. [k \in DOMAIN path |-> path[k]] = path
  BY <1>2
<1>6. Told(e).path = [k \in DOMAIN path |-> IF k <= Len(start) THEN path[k] ELSE AsText(path[k])]
  BY <1>1 DEF Told, Spots
<1> QED
  BY <1>1, <1>4, <1>5, <1>6

LEMMA TextsDiffer ==
  ASSUME PathsDiffer(seen), \A i \in DOMAIN seen : seen[i] \in Spots,
         NEW i \in DOMAIN seen, NEW j \in DOMAIN seen,
         Yielded[i].path = Yielded[j].path, IsText(seen[i].path), IsText(seen[j].path)
  PROVE  i = j
<1>1. Told(seen[i]).path = seen[i].path /\ Told(seen[j]).path = seen[j].path
  BY TextIsTold
<1>2. Yielded[i] = Told(seen[i]) /\ Yielded[j] = Told(seen[j])
  BY DEF Yielded
<1> QED
  BY <1>1, <1>2 DEF PathsDiffer

(* What the invariant says of a walk is what it should yield.              *)
LEMMA ToursAreExact ==
  ASSUME Packed, DirInv, source = FromHost, TourInv, Sequence(seen)
  PROVE  WalkIsExact
<1> DEFINE below == Below(TheStart, Limit)
           looping == \E d, e \in below \cup {TheStart} :
                        d.nid = e.nid /\ Seqs!IsStrictPrefix(d.path, e.path) /\ e.type = "dir"
           deep == \E e \in below : Len(e.path) = Len(start) + DefaultMaxDepth /\ e.type = "dir"
<1> HIDE DEF below, looping, deep
<1>1. Elements(seen) = Seqs!ToSet(seen)
  BY DEF Elements, Seqs!ToSet, Sequence
<1>2. CASE walk \in NoTour /\ seen = <<>>
  <2>1. DOMAIN seen = {}
    BY <1>2
  <2>2. Seqs!ToSet(seen) = {}
    BY <2>1 DEF Seqs!ToSet
  <2>3. /\ \A i, j \in DOMAIN seen : seen[i].path = seen[j].path => i = j
        /\ \A i, j \in DOMAIN seen :
             Yielded[i].path = Yielded[j].path /\ IsText(seen[i].path) /\ IsText(seen[j].path)
               => i = j
        /\ Seqs!ToSet(seen) \subseteq below
        /\ walk \notin {"done", "cycle", "depth", "corrupt", "unreadable"}
    BY <1>2, <2>1, <2>2, NoTourIs
  <2> QED
    BY <2>3 DEF WalkIsExact, below, looping, deep
<1>3. ASSUME walk \in {"walking", "done", "cycle", "depth"}, NEW nid \in Nat, NEW S,
             S = [path |-> start, nid |-> nid, type |-> "dir"], Toured(S)
      PROVE  WalkIsExact
  <2>1. S.path = start /\ Explored(S, Limit, Elements(seen), stack) /\ PathsDiffer(seen)
    BY <1>3 DEF Toured
  <2>2. TheStart = S
    BY <1>3, <2>1, TheStartIs DEF Explored
  <2>3. /\ \A x : Near(S, Limit, Elements(seen), x) => x \in below
        /\ stack = <<>> => below \subseteq Elements(seen)
    BY <2>1, <2>2, ExploredIsBelow DEF below
  <2>4. Elements(seen) \subseteq below
    BY <2>1, <2>3 DEF Explored
  <2>5. walk = "done" => Elements(seen) = below
    BY <1>3, <2>3, <2>4 DEF Toured
  <2>6. walk = "cycle" => looping
    <3>1. SUFFICES ASSUME walk = "cycle" PROVE looping
      OBVIOUS
    <3>2. PICK d \in Elements(seen) \cup {S}, x \in Spots :
            /\ Near(S, Limit, Elements(seen), x) /\ d.nid = x.nid
            /\ Seqs!IsStrictPrefix(d.path, x.path) /\ x.type = "dir"
      BY <1>3, <3>1 DEF Toured, Loops
    <3> QED
      BY <2>2, <2>3, <2>4, <3>2 DEF looping
  <2>7. walk = "depth" => deep /\ maxDepth = 0
    BY <1>3, <2>1, <2>3 DEF Toured, IsDeep, deep
  <2>a. \A i \in DOMAIN seen : seen[i] \in Spots
    BY <2>1 DEF Explored, Elements
  <2>8. /\ \A i, j \in DOMAIN seen : seen[i].path = seen[j].path => i = j
        /\ \A i, j \in DOMAIN seen :
             Yielded[i].path = Yielded[j].path /\ IsText(seen[i].path) /\ IsText(seen[j].path)
               => i = j
        /\ Seqs!ToSet(seen) \subseteq below
        /\ walk = "done" => Seqs!ToSet(seen) = below
        /\ walk = "cycle" => looping
        /\ walk = "depth" => deep /\ maxDepth = 0
        /\ walk \notin {"corrupt", "unreadable"}
    BY <1>1, <1>3, <2>1, <2>4, <2>5, <2>6, <2>7, <2>a, TextsDiffer DEF PathsDiffer
  <2> QED
    BY <2>8 DEF WalkIsExact, below, looping, deep
<1>4. CASE walk \in {"walking", "done", "cycle", "depth"}
  <2>a. walk \notin NoTour
    BY <1>4, NoTourIs
  <2>1. PICK nid \in Nat : Toured([path |-> start, nid |-> nid, type |-> "dir"])
    BY <2>a DEF TourInv
  <2> QED
    BY <1>3, <1>4, <2>1
<1> QED
  BY <1>2, <1>4 DEF TourInv

-----------------------------------------------------------------------------
(* One step of a walk.                                                     *)

LEMMA AppendsApart ==
  ASSUME NEW p \in Seq(Name), NEW q \in Seq(Name), NEW x \in Name, NEW y \in Name,
         Append(p, x) = Append(q, y)
  PROVE  p = q /\ x = y
<1>1. PICK r, n, m : r = Append(p, x) /\ n = Len(p) /\ m = Len(q)
  OBVIOUS
<1>2. /\ Len(r) = n + 1 /\ r[n + 1] = x /\ (\A i \in 1..n : r[i] = p[i])
      /\ Len(r) = m + 1 /\ r[m + 1] = y /\ (\A i \in 1..m : r[i] = q[i])
      /\ n \in Nat /\ m \in Nat
  <2>1. r = Append(q, y)
    BY <1>1
  <2> QED
    BY <1>1, <2>1
<1>3. n = m
  BY <1>2
<1>4. p \in [1..n -> Name] /\ q \in [1..n -> Name] /\ \A i \in 1..n : p[i] = q[i]
  BY <1>1, <1>2, <1>3
<1>5. p = q
  <2>1. p = [i \in 1..n |-> p[i]] /\ q = [i \in 1..n |-> q[i]]
    BY ONLY <1>4
  <2>2. [i \in 1..n |-> p[i]] = [i \in 1..n |-> q[i]]
    BY ONLY <1>4
  <2> QED
    BY ONLY <2>1, <2>2
<1> QED
  BY <1>2, <1>3, <1>5

(* The stack is what lies below the top and the top.                       *)
LEMMA TopSplits ==
  ASSUME NEW s, Sequence(s), s # <<>>, NEW f
  PROVE  \E lower : /\ Sequence(lower) /\ Len(s) = Len(lower) + 1
                    /\ lower = SubSeq(s, 1, Len(s) - 1)
                    /\ s = Append(lower, s[Len(s)])
                    /\ [s EXCEPT ![Len(s)] = f] = Append(lower, f)
<1>1. PICK n, T, top : n = Len(s) /\ T = {s[i] : i \in DOMAIN s} \cup {f} /\ top = s[Len(s)]
  OBVIOUS
<1>2. s \in Seq(T) /\ n \in Nat \ {0} /\ DOMAIN s = 1..n /\ f \in T /\ top \in T
  BY <1>1 DEF Sequence
<1>3. PICK lower : lower = SubSeq(s, 1, n - 1)
  OBVIOUS
<1>4. lower \in Seq(T) /\ Len(lower) = n - 1 /\ \A i \in 1..(n - 1) : lower[i] = s[i]
  BY <1>1, <1>2, <1>3
<1>5. ASSUME NEW g \in T
      PROVE  /\ Append(lower, g) \in [1..n -> T]
             /\ \A i \in 1..n : Append(lower, g)[i] = IF i = n THEN g ELSE lower[i]
  <2>1. n - 1 \in Nat /\ (n - 1) + 1 = n
    BY <1>2
  <2>2. PICK t, m : t = Append(lower, g) /\ m = n - 1
    OBVIOUS
  <2>3. t \in Seq(T) /\ Len(t) = n /\ t[n] = g /\ \A i \in 1..m : t[i] = lower[i]
    BY <1>4, <2>1, <2>2
  <2>4. t \in [1..n -> T]
    BY <2>3
  <2>5. \A i \in 1..n : i = n \/ i \in 1..m
    BY <1>2, <2>2
  <2> QED
    BY <2>2, <2>3, <2>4, <2>5
<1>6. s \in [1..n -> T] /\ \A i \in 1..n : s[i] = IF i = n THEN top ELSE lower[i]
  <2>1. \A i \in 1..n : i = n \/ i \in 1..(n - 1)
    BY <1>2
  <2> QED
    BY <1>1, <1>2, <1>4, <2>1
<1>7. s = Append(lower, top)
  <2>1. PICK t : t = Append(lower, top)
    OBVIOUS
  <2>2. t \in [1..n -> T] /\ \A i \in 1..n : t[i] = s[i]
    BY <1>2, <1>5, <1>6, <2>1
  <2>3. t = s
    <3>1. t = [i \in 1..n |-> t[i]] /\ s = [i \in 1..n |-> s[i]]
      BY ONLY <1>6, <2>2
    <3>2. [i \in 1..n |-> t[i]] = [i \in 1..n |-> s[i]]
      BY ONLY <1>6, <2>2
    <3> QED
      BY ONLY <3>1, <3>2
  <2> QED
    BY <2>1, <2>3
<1>8. [s EXCEPT ![n] = f] = Append(lower, f)
  <2>1. PICK t, u : t = Append(lower, f) /\ u = [s EXCEPT ![n] = f]
    OBVIOUS
  <2>2. u \in [1..n -> T] /\ \A i \in 1..n : u[i] = IF i = n THEN f ELSE s[i]
    BY <1>2, <2>1
  <2>3. t \in [1..n -> T] /\ \A i \in 1..n : t[i] = u[i]
    BY <1>2, <1>5, <1>6, <2>1, <2>2
  <2>4. t = u
    <3>1. t = [i \in 1..n |-> t[i]] /\ u = [i \in 1..n |-> u[i]]
      BY ONLY <2>2, <2>3
    <3>2. [i \in 1..n |-> t[i]] = [i \in 1..n |-> u[i]]
      BY ONLY <2>2, <2>3
    <3> QED
      BY ONLY <3>1, <3>2
  <2> QED
    BY <2>1, <2>4
<1>9. Sequence(lower)
  BY <1>4, SequenceIs
<1>10. Len(s) = Len(lower) + 1
  BY <1>1, <1>2, <1>4
<1> QED
  BY <1>1, <1>3, <1>7, <1>8, <1>9, <1>10

LEMMA AppendIs ==
  ASSUME NEW s, Sequence(s), NEW f
  PROVE  /\ Sequence(Append(s, f)) /\ Len(s) \in Nat
         /\ Len(Append(s, f)) = Len(s) + 1 /\ Append(s, f)[Len(s) + 1] = f
         /\ \A i \in 1..Len(s) : Append(s, f)[i] = s[i]
<1>1. PICK T, n : T = {s[i] : i \in DOMAIN s} \cup {f} /\ n = Len(s)
  OBVIOUS
<1>2. s \in Seq(T) /\ f \in T /\ n \in Nat
  BY <1>1 DEF Sequence
<1>3. PICK t : t = Append(s, f)
  OBVIOUS
<1>4. t \in Seq(T) /\ Len(t) = n + 1 /\ t[n + 1] = f /\ \A i \in 1..n : t[i] = s[i]
  BY <1>1, <1>2, <1>3
<1>5. Sequence(t)
  BY <1>4, SequenceIs
<1> QED
  BY <1>1, <1>2, <1>3, <1>4, <1>5

(* A place is a child in one way.                                          *)
LEMMA OneChild ==
  ASSUME Packed, NEW e \in Spots, NEW f \in Spots,
         NEW c \in Children(Owner(e.nid)), NEW d \in Children(Owner(f.nid)),
         Child(e, c) = Child(f, d)
  PROVE  c = d /\ e = f
<1>1. /\ Owner(Child(e, c).nid) = c /\ Owner(Child(f, d).nid) = d
      /\ e.type = "dir" /\ f.type = "dir"
      /\ Child(e, c).path = Append(e.path, tree.name[c])
      /\ Child(f, d).path = Append(f.path, tree.name[d])
  BY ChildIs
<1>2. c = d
  BY <1>1
<1>3. /\ e.nid = node[Owner(e.nid)].nid /\ f.nid = node[Owner(f.nid)].nid
      /\ Owner(e.nid) \in Reached(tree) /\ Owner(f.nid) \in Reached(tree)
      /\ e.path \in Seq(Name) /\ f.path \in Seq(Name)
  BY SpotIs
<1>4. Owner(e.nid) = Owner(f.nid)
  <2>1. Owner(e.nid) \in Nodes /\ Owner(f.nid) \in Nodes
    BY <1>3, ChildrenAre
  <2>2. HostTree(tree, Nodes)
    BY HostFacts DEF Packed, BuildTypes, Nodes
  <2> QED
    BY <1>2, <2>1, <2>2 DEF HostTree, Children
<1>5. tree.name[c] \in Name
  BY <1>3, ChildrenAre
<1>6. e.path = f.path
  <2>1. PICK p, q, x : p = e.path /\ q = f.path /\ x = tree.name[c]
    OBVIOUS
  <2>2. Append(p, x) = Append(q, x) /\ p \in Seq(Name) /\ q \in Seq(Name) /\ x \in Name
    BY <1>1, <1>2, <1>3, <1>5, <2>1
  <2>3. p = q
    BY ONLY <2>2, AppendsApart
  <2> QED
    BY <2>1, <2>3
<1>7. e = [path |-> e.path, nid |-> e.nid, type |-> e.type] /\ f = [path |-> f.path, nid |-> f.nid, type |-> f.type]
  BY DEF Spots
<1> QED
  BY <1>1, <1>2, <1>3, <1>4, <1>6, <1>7

(* A directory that is opened stands at its first entry.                   *)
LEMMA NewFrame ==
  ASSUME Packed, DirInv, NEW e \in Spots, e.type = "dir", IsDir(Owner(e.nid)),
         NEW found, \A c \in Children(Owner(e.nid)) : Child(e, c) \notin found
  PROVE  /\ FrameHolds(Frame(e.nid, e.path), found)
         /\ Spot(Frame(e.nid, e.path)) = e
<1>1. PICK frame, d : frame = Frame(e.nid, e.path) /\ d = Owner(e.nid)
  OBVIOUS
<1>2. /\ d \in Reached(tree) /\ IsDir(d) /\ e.nid = node[d].nid
  BY <1>1, SpotIs
<1>3. /\ frame.nid = e.nid /\ frame.path = e.path /\ frame.offset = 0
      /\ frame.block = ReadBlock(e.nid, 0) /\ frame.i = 0
      /\ DOMAIN frame = {"nid", "path", "offset", "block", "i"}
  BY <1>1 DEF Frame
<1>4. 1 \in 1..node[d].blocks /\ Len(node[d].data[1]) \in Nat
  BY <1>2, DirIs
<1>5. (1 - 1) * BlockSize = 0
  BY LayoutAssumption DEF LayoutAssumption
<1>6. Stands(frame, 1)
  <2>1. d \in Reached(tree) /\ IsDir(d) /\ frame.nid = node[d].nid /\ Owner(frame.nid) = d
    BY <1>1, <1>2, <1>3
  <2>2. frame.offset = (1 - 1) * BlockSize /\ frame.block = ReadBlock(frame.nid, frame.offset)
    BY <1>3, <1>5
  <2>3. frame.i \in 0..Len(node[d].data[1])
    BY <1>3, <1>4
  <2> QED
    BY <1>3, <2>1, <2>2, <2>3 DEF Stands
<1>7. \A name : ~Passed(d, 1, 0, name)
  BY DEF Passed
<1>8. Spot(frame) = e
  <2>1. e = [path |-> e.path, nid |-> e.nid, type |-> e.type]
    BY DEF Spots
  <2> QED
    BY <1>3, <2>1 DEF Spot
<1>9. FrameHolds(frame, found)
  BY <1>1, <1>3, <1>4, <1>6, <1>7, <1>8 DEF FrameHolds
<1> QED
  BY <1>1, <1>8, <1>9

LEMMA FramesPop ==
  ASSUME NEW S, NEW found, NEW lower, Sequence(lower), NEW f,
         FramesHold(S, found, Append(lower, f))
  PROVE  FramesHold(S, found, lower)
<1>1. PICK t, n : t = Append(lower, f) /\ n = Len(lower)
  OBVIOUS
<1>2. n \in Nat /\ Len(t) = n + 1 /\ \A k \in 1..n : t[k] = lower[k]
  BY <1>1, AppendIs
<1>3. ASSUME NEW k \in 1..n
      PROVE  /\ Spot(lower[k]) \in found \cup {S}
             /\ Len(lower[k].path) = Len(S.path) + k - 1
             /\ \A j \in 1..k : Seqs!IsPrefix(lower[j].path, lower[k].path)
             /\ FrameHolds(lower[k], found)
  <2>1. k \in 1..(n + 1) /\ \A j \in 1..k : j \in 1..n
    BY <1>2
  <2>2. /\ Spot(t[k]) \in found \cup {S}
        /\ Len(t[k].path) = Len(S.path) + k - 1
        /\ \A j \in 1..k : Seqs!IsPrefix(t[j].path, t[k].path)
        /\ FrameHolds(t[k], found)
    BY <1>1, <1>2, <2>1 DEF FramesHold
  <2> QED
    BY <1>2, <2>1, <2>2
<1> QED
  BY <1>1, <1>3 DEF FramesHold

LEMMA FramesPush ==
  ASSUME NEW S, NEW found, NEW lower, Sequence(lower), NEW f,
         FramesHold(S, found, lower), Spot(f) \in found \cup {S},
         Len(S.path) \in Nat, Len(f.path) = Len(S.path) + Len(lower),
         \A k \in 1..Len(lower) : Seqs!IsPrefix(lower[k].path, f.path),
         Seqs!IsPrefix(f.path, f.path), FrameHolds(f, found)
  PROVE  FramesHold(S, found, Append(lower, f))
<1>1. PICK t, n : t = Append(lower, f) /\ n = Len(lower)
  OBVIOUS
<1>2. n \in Nat /\ Len(t) = n + 1 /\ t[n + 1] = f /\ \A k \in 1..n : t[k] = lower[k]
  BY <1>1, AppendIs
<1>3. ASSUME NEW k \in 1..(n + 1)
      PROVE  /\ Spot(t[k]) \in found \cup {S}
             /\ Len(t[k].path) = Len(S.path) + k - 1
             /\ \A j \in 1..k : Seqs!IsPrefix(t[j].path, t[k].path)
             /\ FrameHolds(t[k], found)
  <2>1. CASE k = n + 1
    <3>1. t[k] = f /\ Len(f.path) = Len(S.path) + k - 1
      BY <1>1, <1>2, <2>1
    <3>2. ASSUME NEW j \in 1..k PROVE Seqs!IsPrefix(t[j].path, f.path)
      <4>1. j = n + 1 \/ j \in 1..n
        BY <1>2, <2>1
      <4> QED
        BY <1>1, <1>2, <4>1
    <3> QED
      BY <3>1, <3>2
  <2>2. CASE k # n + 1
    <3>1. k \in 1..n /\ \A j \in 1..k : j \in 1..n
      BY <1>2, <2>2
    <3>2. /\ Spot(lower[k]) \in found \cup {S}
          /\ Len(lower[k].path) = Len(S.path) + k - 1
          /\ \A j \in 1..k : Seqs!IsPrefix(lower[j].path, lower[k].path)
          /\ FrameHolds(lower[k], found)
      BY <1>1, <3>1 DEF FramesHold
    <3> QED
      BY <1>2, <3>1, <3>2
  <2> QED
    BY <2>1, <2>2
<1> QED
  BY <1>1, <1>2, <1>3 DEF FramesHold

(* What is found elsewhere does not concern a frame.                       *)
LEMMA FramesMore ==
  ASSUME Packed, NEW S \in Spots, NEW found \in SUBSET Spots, NEW frames, FramesHold(S, found, frames),
         NEW e \in Spots, NEW c \in Children(Owner(e.nid)),
         NoFrameAt(frames, e.path)
  PROVE  FramesHold(S, found \cup {Child(e, c)}, frames)
<1>1. PICK x : x = Child(e, c)
  OBVIOUS
<1>2. ASSUME NEW k \in 1..Len(frames)
      PROVE  /\ Spot(frames[k]) \in (found \cup {x}) \cup {S}
             /\ Len(frames[k].path) = Len(S.path) + k - 1
             /\ \A j \in 1..k : Seqs!IsPrefix(frames[j].path, frames[k].path)
             /\ FrameHolds(frames[k], found \cup {x})
  <2>1. PICK frame : frame = frames[k]
    OBVIOUS
  <2>2. /\ Spot(frame) \in found \cup {S}
        /\ Len(frame.path) = Len(S.path) + k - 1
        /\ \A j \in 1..k : Seqs!IsPrefix(frames[j].path, frame.path)
        /\ FrameHolds(frame, found)
    BY <2>1 DEF FramesHold
  <2>3. Spot(frame) \in Spots /\ Spot(frame).nid = frame.nid /\ Spot(frame).path = frame.path
    BY <2>2 DEF Spot
  <2>4. ASSUME NEW d \in Children(Owner(frame.nid)) PROVE Child(Spot(frame), d) # x
    BY <1>1, <2>1, <2>3, OneChild DEF NoFrameAt
  <2>5. FrameHolds(frame, found \cup {x})
    <3>1. PICK b \in 1..node[Owner(frame.nid)].blocks :
            /\ Stands(frame, b)
            /\ \A d \in Children(Owner(frame.nid)) :
                 Child(Spot(frame), d) \in found <=> Passed(Owner(frame.nid), b, frame.i, tree.name[d])
      BY <2>2 DEF FrameHolds
    <3>2. \A d \in Children(Owner(frame.nid)) :
            Child(Spot(frame), d) \in found \cup {x} <=> Passed(Owner(frame.nid), b, frame.i, tree.name[d])
      BY <2>4, <3>1
    <3> QED
      BY <3>1, <3>2 DEF FrameHolds
  <2> QED
    BY <2>1, <2>2, <2>5
<1> QED
  BY <1>1, <1>2 DEF FramesHold

LEMMA NoFrames ==
  ASSUME NEW lower, Sequence(lower), NEW f, NEW path
  PROVE  NoFrameAt(Append(lower, f), path) <=> NoFrameAt(lower, path) /\ f.path # path
<1>1. PICK t, n : t = Append(lower, f) /\ n = Len(lower)
  OBVIOUS
<1>2. n \in Nat /\ Len(t) = n + 1 /\ t[n + 1] = f /\ \A k \in 1..n : t[k] = lower[k]
  BY <1>1, AppendIs
<1>3. n + 1 \in 1..(n + 1) /\ (\A k \in 1..n : k \in 1..(n + 1)) /\ \A k \in 1..(n + 1) : k = n + 1 \/ k \in 1..n
  BY <1>2
<1>4. NoFrameAt(t, path) <=> \A k \in 1..(n + 1) : t[k].path # path
  BY <1>2 DEF NoFrameAt
<1>5. NoFrameAt(lower, path) <=> \A k \in 1..n : lower[k].path # path
  BY <1>1 DEF NoFrameAt
<1>6. (\A k \in 1..(n + 1) : t[k].path # path) <=> (\A k \in 1..n : lower[k].path # path) /\ f.path # path
  BY ONLY <1>2, <1>3
<1> QED
  BY <1>1, <1>4, <1>5, <1>6

Within(lower, depth) == depth \in Nat /\ Len(lower) \in Nat /\ Len(lower) + 1 <= depth
Lies(S, lower, f) == Len(f.path) = Len(S.path) + Len(lower)
Explores(S, depth, found, lower, f) == Explored(S, depth, found, Append(lower, f))

(* What is known of a walk whose top frame is f.                           *)
LEMMA TopFacts ==
  ASSUME Packed, NEW S, NEW depth, NEW found, NEW lower, Sequence(lower), NEW f,
         Explores(S, depth, found, lower, f)
  PROVE  /\ S \in Spots /\ Len(S.path) \in Nat /\ found \in SUBSET Spots
         /\ Within(lower, depth)
         /\ Spot(f) \in found \cup {S} /\ Spot(f) \in Spots
         /\ Spot(f).path = f.path /\ Spot(f).nid = f.nid
         /\ f.path \in Seq(Name) /\ Lies(S, lower, f)
         /\ FrameHolds(f, found) /\ FramesHold(S, found, lower)
         /\ \A k \in 1..Len(lower) : Seqs!IsPrefix(lower[k].path, f.path) /\ lower[k].path \in Seq(Name)
         /\ NoFrameAt(lower, f.path)
<1>1. PICK t, n : t = Append(lower, f) /\ n = Len(lower)
  OBVIOUS
<1>2. n \in Nat /\ Len(t) = n + 1 /\ t[n + 1] = f /\ \A k \in 1..n : t[k] = lower[k]
  BY <1>1, AppendIs
<1>3. /\ S \in Spots /\ found \in SUBSET Spots /\ depth \in Nat /\ n + 1 <= depth
      /\ FramesHold(S, found, t)
  BY <1>1, <1>2 DEF Explored, Explores, Begins
<1>4. PICK base \in Nat : base = Len(S.path)
  BY <1>3, SpotIs
<1>5. /\ Spot(f) \in found \cup {S} /\ Len(f.path) = base + n
      /\ FrameHolds(f, found)
      /\ \A k \in 1..n : Seqs!IsPrefix(t[k].path, f.path)
  <2>1. n + 1 \in 1..(n + 1) /\ \A k \in 1..n : k \in 1..(n + 1)
    BY <1>2
  <2>2. /\ Spot(t[n + 1]) \in found \cup {S} /\ Len(t[n + 1].path) = base + (n + 1) - 1
        /\ FrameHolds(t[n + 1], found)
        /\ \A k \in 1..(n + 1) : Seqs!IsPrefix(t[k].path, t[n + 1].path)
    BY <1>2, <1>3, <1>4, <2>1 DEF FramesHold
  <2> QED
    BY <1>2, <1>4, <2>1, <2>2
<1>6. FramesHold(S, found, lower)
  BY <1>1, <1>3, FramesPop
<1>7. /\ Spot(f) \in Spots /\ Spot(f).path = f.path /\ Spot(f).nid = f.nid
  BY <1>3, <1>5 DEF Spot
<1>8. f.path \in Seq(Name)
  BY <1>7, SpotIs
<1>9. \A k \in 1..n : lower[k].path \in Seq(Name) /\ Len(lower[k].path) = base + k - 1
  <2>1. SUFFICES ASSUME NEW k \in 1..n PROVE lower[k].path \in Seq(Name) /\ Len(lower[k].path) = base + k - 1
    OBVIOUS
  <2>2. Spot(lower[k]) \in found \cup {S} /\ Len(lower[k].path) = base + k - 1
    BY <1>1, <1>4, <1>6 DEF FramesHold
  <2>3. Spot(lower[k]) \in Spots /\ Spot(lower[k]).path = lower[k].path
    BY <1>3, <2>2 DEF Spot
  <2> QED
    BY <2>2, <2>3, SpotIs
<1>10. NoFrameAt(lower, f.path)
  <2>1. \A k \in 1..n : base + k - 1 # base + n
    BY <1>2
  <2> QED
    BY <1>1, <1>5, <1>9, <2>1 DEF NoFrameAt
<1> QED
  BY <1>1, <1>2, <1>3, <1>4, <1>5, <1>6, <1>7, <1>8, <1>9, <1>10 DEF Lies, Within

(* What is known of a walk with its top frame.                             *)
Known(S, depth, found, lower, f) ==
  /\ S \in Spots /\ Len(S.path) \in Nat /\ found \in SUBSET Spots
  /\ Within(lower, depth)
  /\ Spot(f) \in found \cup {S} /\ Spot(f) \in Spots
  /\ Spot(f).path = f.path /\ Spot(f).nid = f.nid
  /\ f.path \in Seq(Name) /\ Lies(S, lower, f)
  /\ FrameHolds(f, found) /\ FramesHold(S, found, lower)
  /\ \A k \in 1..Len(lower) : Seqs!IsPrefix(lower[k].path, f.path) /\ lower[k].path \in Seq(Name)
  /\ NoFrameAt(lower, f.path)

LEMMA TopKnown ==
  ASSUME Packed, NEW S, NEW depth, NEW found, NEW lower, Sequence(lower), NEW f,
         Explores(S, depth, found, lower, f)
  PROVE  Known(S, depth, found, lower, f)
BY TopFacts DEF Known

LEMMA WalkBegins ==
  ASSUME Packed, DirInv, NEW S, Begins(S), NEW depth \in Nat, depth > 0
  PROVE  Explored(S, depth, {}, <<Frame(S.nid, S.path)>>)
<1>1. PICK frame : frame = Frame(S.nid, S.path)
  OBVIOUS
<1>2. S \in Spots /\ S.type = "dir" /\ IsDir(Owner(S.nid)) /\ S.path \in Seq(Name) /\ Len(S.path) \in Nat
  BY SpotIs DEF Begins
<1>3. FrameHolds(frame, {}) /\ Spot(frame) = S
  <2>1. PICK none : none = {}
    OBVIOUS
  <2>2. \A c \in Children(Owner(S.nid)) : Child(S, c) \notin none
    BY <2>1
  <2>3. FrameHolds(frame, none) /\ Spot(frame) = S
    BY <1>1, <1>2, <2>2, NewFrame
  <2> QED
    BY <2>1, <2>3
<1>4. frame.path = S.path
  BY <1>1 DEF Frame
<1>5. Sequence(<<>>) /\ Len(<<>>) = 0 /\ <<frame>> = Append(<<>>, frame)
  BY DEF Sequence
<1>6. FramesHold(S, {}, <<>>)
  BY <1>5 DEF FramesHold
<1>7. FramesHold(S, {}, <<frame>>)
  <2>1. Spot(frame) \in {} \cup {S} /\ Len(frame.path) = Len(S.path) + Len(<<>>)
        /\ Seqs!IsPrefix(frame.path, frame.path)
    BY <1>2, <1>3, <1>4, <1>5, PrefixSelf
  <2>2. PICK none : none = <<>>
    OBVIOUS
  <2>3. /\ Sequence(none) /\ FramesHold(S, {}, none) /\ Len(frame.path) = Len(S.path) + Len(none)
        /\ \A k \in 1..Len(none) : Seqs!IsPrefix(none[k].path, frame.path)
    BY <1>5, <1>6, <2>1, <2>2
  <2>4. FramesHold(S, {}, Append(none, frame))
    BY ONLY <1>2, <1>3, <2>1, <2>3, FramesPush
  <2> QED
    BY <1>5, <2>2, <2>4
<1>8. Sequence(<<frame>>) /\ Len(<<frame>>) = 1 /\ <<frame>>[1] = frame
  <2>1. <<frame>> \in Seq({frame})
    OBVIOUS
  <2>2. Sequence(<<frame>>)
    BY <2>1, SequenceIs
  <2> QED
    BY <2>2
<1>9. Searched(S, depth, {}, <<frame>>)
  BY <1>4, <1>8 DEF Searched, NoFrameAt
<1>10. Len(<<frame>>) <= depth
  BY <1>8
<1> QED
  BY <1>1, <1>7, <1>8, <1>9, <1>10 DEF Explored, Apart

(* The top frame moves on over entries that are not yielded.               *)
LEMMA WalkMoves ==
  ASSUME Packed, NEW S, NEW depth, NEW found, NEW lower, Sequence(lower), NEW f,
         Explores(S, depth, found, lower, f),
         NEW g, g.path = f.path, g.nid = f.nid, FrameHolds(g, found)
  PROVE  Explores(S, depth, found, lower, g)
<1>1. /\ Spot(f) \in found \cup {S} /\ f.path \in Seq(Name) /\ Len(S.path) \in Nat
      /\ Lies(S, lower, f) /\ FramesHold(S, found, lower)
      /\ \A k \in 1..Len(lower) : Seqs!IsPrefix(lower[k].path, f.path)
  <2>1. Known(S, depth, found, lower, f)
    BY TopKnown
  <2> QED
    BY ONLY <2>1 DEF Known
<1>2. Spot(g) = Spot(f)
  BY DEF Spot
<1>3. Seqs!IsPrefix(f.path, f.path)
  BY <1>1, PrefixSelf
<1>4. FramesHold(S, found, Append(lower, g))
  BY <1>1, <1>2, <1>3, FramesPush DEF Lies
<1>5. /\ Sequence(Append(lower, g)) /\ Len(Append(lower, g)) = Len(Append(lower, f))
      /\ \A path : NoFrameAt(Append(lower, g), path) <=> NoFrameAt(Append(lower, f), path)
  BY AppendIs, NoFrames
<1>6. Searched(S, depth, found, Append(lower, g))
  BY <1>5 DEF Explored, Explores, Searched
<1> QED
  BY <1>4, <1>5, <1>6 DEF Explored, Explores

(* A directory whose entries were all passed is left.                      *)
LEMMA WalkLeaves ==
  ASSUME Packed, NEW S, NEW depth, NEW found, NEW lower, Sequence(lower), NEW f,
         Explores(S, depth, found, lower, f),
         \A c \in Children(Owner(f.nid)) : Child(Spot(f), c) \in found
  PROVE  Explored(S, depth, found, lower)
<1>1. /\ Spot(f) \in found \cup {S} /\ Spot(f).path = f.path /\ Spot(f).nid = f.nid
      /\ FramesHold(S, found, lower)
      /\ Within(lower, depth)
  <2>1. Known(S, depth, found, lower, f)
    BY TopKnown
  <2> QED
    BY ONLY <2>1 DEF Known
<1>2. ASSUME NEW e \in found \cup {S}, Len(e.path) < Len(S.path) + depth, NoFrameAt(lower, e.path),
             NEW c \in Children(Owner(e.nid))
      PROVE  Child(e, c) \in found
  <2>1. CASE e.path = f.path
    <3>1. e = Spot(f)
      BY <1>1, <2>1 DEF Explored, Explores, Apart
    <3> QED
      BY <1>1, <3>1
  <2>2. CASE e.path # f.path
    <3>1. NoFrameAt(Append(lower, f), e.path)
      BY <1>2, <2>2, NoFrames
    <3> QED
      BY <1>2, <3>1 DEF Explored, Explores, Searched
  <2> QED
    BY <2>1, <2>2
<1>3. Searched(S, depth, found, lower)
  BY <1>2 DEF Searched
<1> QED
  BY <1>1, <1>3 DEF Explored, Explores, Within

(* The top frame yields c as x; a frame goes on in the same directory.     *)
Yields(f, c, x) == c \in Children(Owner(f.nid)) /\ x = Child(Spot(f), c)
GoesOn(f, g) == g.path = f.path /\ g.nid = f.nid

(* An entry that is yielded was not found before, and nothing below it.    *)
LEMMA EntryIsNew ==
  ASSUME Packed, NEW S, NEW depth, NEW found, NEW lower, Sequence(lower), NEW f,
         Explores(S, depth, found, lower, f),
         NEW c, NEW x, Yields(f, c, x), x \notin found
  PROVE  /\ x \in Spots /\ Near(S, depth, found, x)
         /\ \A e \in found \cup {S} : e.path # x.path
         /\ \A d \in Children(Owner(x.nid)) : Child(x, d) \notin found \cup {x}
<1>k. Known(S, depth, found, lower, f)
  BY TopKnown
<1>c. c \in Children(Owner(f.nid)) /\ x = Child(Spot(f), c)
  BY DEF Yields
<1>1. /\ S \in Spots /\ found \in SUBSET Spots /\ Spot(f) \in found \cup {S} /\ Spot(f) \in Spots
      /\ Spot(f).path = f.path /\ Spot(f).nid = f.nid /\ f.path \in Seq(Name)
      /\ Lies(S, lower, f) /\ Within(lower, depth)
  BY ONLY <1>k DEF Known
<1>2. /\ Apart(found \cup {S}) /\ \A y \in found : Near(S, depth, found, y)
  BY DEF Explores, Explored
<1>3. /\ x \in Spots /\ x.path = Append(f.path, tree.name[c]) /\ tree.name[c] \in Name
      /\ Len(x.path) = Len(f.path) + 1 /\ Len(f.path) \in Nat
  <2>1. c \in Children(Owner(Spot(f).nid))
    BY <1>c, <1>1
  <2>2. tree.name[c] \in Name
    BY <1>1, <2>1, SpotIs, ChildrenAre
  <2> QED
    BY <1>c, <1>1, <2>1, <2>2, ChildIs
<1>4. PICK base \in Nat : base = Len(S.path)
  BY <1>1, SpotIs
<1>5. PICK n \in Nat : n = Len(lower) /\ Len(f.path) = base + n /\ n < depth /\ depth \in Nat
  BY <1>1, <1>4 DEF Lies, Within
<1>6. Near(S, depth, found, x)
  <2>1. c \in Children(Owner(Spot(f).nid)) /\ base <= Len(f.path) /\ Len(f.path) < base + depth
    BY <1>c, <1>1, <1>5
  <2> QED
    BY <1>c, <1>1, <1>4, <2>1 DEF Near
<1>7. ASSUME NEW e \in found \cup {S}, e.path = x.path
      PROVE  FALSE
  <2>1. e # S
    BY <1>3, <1>4, <1>5, <1>7
  <2>2. Near(S, depth, found, e)
    BY <1>2, <2>1
  <2>3. PICK g \in found \cup {S} : \E d \in Children(Owner(g.nid)) : e = Child(g, d)
    BY <2>2 DEF Near
  <2>4. PICK d \in Children(Owner(g.nid)) : e = Child(g, d)
    BY <2>3
  <2>5. /\ g \in Spots /\ g.path \in Seq(Name) /\ tree.name[d] \in Name
        /\ e.path = Append(g.path, tree.name[d])
    BY <1>1, <2>4, SpotIs, ChildrenAre, ChildIs
  <2>6. g.path = f.path /\ tree.name[d] = tree.name[c]
    <3>1. PICK p, q, y, z : p = g.path /\ q = f.path /\ y = tree.name[d] /\ z = tree.name[c]
      OBVIOUS
    <3>2. /\ Append(p, y) = Append(q, z) /\ p \in Seq(Name) /\ q \in Seq(Name)
          /\ y \in Name /\ z \in Name
      BY <1>1, <1>3, <1>7, <2>5, <3>1
    <3>3. p = q /\ y = z
      BY ONLY <3>2, AppendsApart
    <3> QED
      BY <3>1, <3>3
  <2>7. g = Spot(f)
    BY <1>1, <1>2, <2>6 DEF Apart
  <2>8. d = c
    <3>1. Owner(g.nid) \in Reached(tree) /\ d \in Children(Owner(g.nid)) /\ c \in Children(Owner(g.nid))
      BY <1>c, <1>1, <2>4, <2>5, <2>7, SpotIs
    <3> QED
      BY <2>6, <3>1, ChildrenAre
  <2> QED
    BY <1>c, <1>7, <2>1, <2>4, <2>7, <2>8
<1>8. ASSUME NEW d \in Children(Owner(x.nid)), Child(x, d) \in found \cup {x}
      PROVE  FALSE
  <2>1. Len(Child(x, d).path) = Len(x.path) + 1 /\ Len(x.path) \in Nat
    BY <1>3, ChildIs
  <2>2. Child(x, d) \in found
    BY <1>8, <2>1
  <2>3. PICK g \in found \cup {S} : \E h \in Children(Owner(g.nid)) : Child(x, d) = Child(g, h)
    BY <1>2, <2>2 DEF Near
  <2>4. PICK h \in Children(Owner(g.nid)) : Child(x, d) = Child(g, h)
    BY <2>3
  <2>5. x = g
    BY <1>1, <1>3, <2>4, OneChild
  <2> QED
    BY <1>7, <2>5
<1> QED
  BY <1>3, <1>6, <1>7, <1>8

LEMMA NearMore ==
  ASSUME NEW S, NEW depth, NEW found, NEW x, NEW y, Near(S, depth, found, y)
  PROVE  Near(S, depth, found \cup {x}, y)
BY DEF Near

(* What holds whether or not the entry is a directory to walk.             *)
LEMMA EntryFound ==
  ASSUME Packed, NEW S, NEW depth, NEW found, NEW lower, Sequence(lower), NEW f,
         Explores(S, depth, found, lower, f),
         NEW c, NEW x, Yields(f, c, x), x \notin found,
         NEW g, GoesOn(f, g), FrameHolds(g, found \cup {x})
  PROVE  /\ found \cup {x} \in SUBSET Spots /\ Apart((found \cup {x}) \cup {S})
         /\ \A y \in found \cup {x} : Near(S, depth, found \cup {x}, y)
         /\ FramesHold(S, found \cup {x}, Append(lower, g))
         /\ \A e \in found \cup {S} :
              Len(e.path) < Len(S.path) + depth /\ NoFrameAt(Append(lower, g), e.path) =>
                \A d \in Children(Owner(e.nid)) : Child(e, d) \in found \cup {x}
<1>k. Known(S, depth, found, lower, f)
  BY TopKnown
<1>c. c \in Children(Owner(f.nid)) /\ x = Child(Spot(f), c)
  BY DEF Yields
<1>g. g.path = f.path /\ g.nid = f.nid
  BY DEF GoesOn
<1>1. /\ S \in Spots /\ found \in SUBSET Spots /\ Spot(f) \in found \cup {S} /\ Spot(f) \in Spots
      /\ Spot(f).path = f.path /\ Spot(f).nid = f.nid /\ f.path \in Seq(Name) /\ Len(S.path) \in Nat
      /\ Lies(S, lower, f) /\ FramesHold(S, found, lower) /\ NoFrameAt(lower, f.path)
      /\ \A k \in 1..Len(lower) : Seqs!IsPrefix(lower[k].path, f.path)
  BY ONLY <1>k DEF Known
<1>2. /\ x \in Spots /\ Near(S, depth, found, x)
      /\ \A e \in found \cup {S} : e.path # x.path
  BY EntryIsNew
<1>3. /\ Apart(found \cup {S}) /\ \A y \in found : Near(S, depth, found, y)
      /\ Searched(S, depth, found, Append(lower, f))
  BY DEF Explores, Explored
<1>4. Apart((found \cup {x}) \cup {S})
  BY <1>2, <1>3 DEF Apart
<1>5. \A y \in found \cup {x} : Near(S, depth, found \cup {x}, y)
  BY <1>2, <1>3, NearMore
<1>6. FramesHold(S, found \cup {x}, lower)
  <2>1. c \in Children(Owner(Spot(f).nid)) /\ NoFrameAt(lower, Spot(f).path)
    BY <1>c, <1>1
  <2> QED
    BY <1>c, <1>1, <2>1, FramesMore
<1>7. FramesHold(S, found \cup {x}, Append(lower, g))
  <2>1. Spot(g) = Spot(f) /\ Seqs!IsPrefix(f.path, f.path)
    BY <1>g, <1>1, PrefixSelf DEF Spot
  <2>2. Spot(g) \in (found \cup {x}) \cup {S} /\ Len(g.path) = Len(S.path) + Len(lower)
    BY <1>g, <1>1, <2>1 DEF Lies
  <2> QED
    BY <1>g, <1>1, <1>6, <2>1, <2>2, FramesPush
<1>8. ASSUME NEW e \in found \cup {S}, Len(e.path) < Len(S.path) + depth,
             NoFrameAt(Append(lower, g), e.path), NEW d \in Children(Owner(e.nid))
      PROVE  Child(e, d) \in found \cup {x}
  <2>1. NoFrameAt(Append(lower, f), e.path)
    BY <1>g, <1>8, NoFrames
  <2> QED
    BY <1>3, <1>8, <2>1 DEF Searched
<1> QED
  BY <1>1, <1>2, <1>4, <1>5, <1>7, <1>8

(* An entry is yielded that is no directory, or one that lies too deep.    *)
LEMMA WalkYields ==
  ASSUME Packed, NEW S, NEW depth, NEW found, NEW lower, Sequence(lower), NEW f,
         Explores(S, depth, found, lower, f),
         NEW c, NEW x, Yields(f, c, x), x \notin found,
         NEW g, GoesOn(f, g), FrameHolds(g, found \cup {x}),
         ~IsDir(c) \/ Len(lower) + 1 >= depth
  PROVE  Explores(S, depth, found \cup {x}, lower, g)
<1>k. Known(S, depth, found, lower, f)
  BY TopKnown
<1>c. c \in Children(Owner(f.nid)) /\ x = Child(Spot(f), c)
  BY DEF Yields
<1>g. g.path = f.path /\ g.nid = f.nid
  BY DEF GoesOn
<1>1. /\ found \cup {x} \in SUBSET Spots /\ Apart((found \cup {x}) \cup {S})
      /\ \A y \in found \cup {x} : Near(S, depth, found \cup {x}, y)
      /\ FramesHold(S, found \cup {x}, Append(lower, g))
      /\ \A e \in found \cup {S} :
           Len(e.path) < Len(S.path) + depth /\ NoFrameAt(Append(lower, g), e.path) =>
             \A d \in Children(Owner(e.nid)) : Child(e, d) \in found \cup {x}
  BY EntryFound
<1>2. /\ Spot(f) \in Spots /\ Spot(f).nid = f.nid /\ Spot(f).path = f.path
      /\ Len(S.path) \in Nat /\ Lies(S, lower, f) /\ Within(lower, depth)
  BY ONLY <1>k DEF Known
<1>3. /\ Owner(x.nid) = c /\ c \in Reached(tree) /\ Len(x.path) = Len(f.path) + 1
  BY <1>c, <1>2, ChildIs
<1>4. ASSUME Len(x.path) < Len(S.path) + depth, NEW d \in Children(Owner(x.nid))
      PROVE  FALSE
  <2>1. ~(Len(lower) + 1 >= depth)
    BY <1>2, <1>3, <1>4 DEF Lies, Within
  <2>2. ~IsDir(c)
    BY <2>1
  <2> QED
    BY <1>3, <1>4, <2>2, ChildrenAre
<1>5. Searched(S, depth, found \cup {x}, Append(lower, g))
  BY <1>1, <1>4 DEF Searched
<1>6. Sequence(Append(lower, g)) /\ Len(Append(lower, g)) = Len(Append(lower, f))
  BY AppendIs
<1> QED
  BY <1>1, <1>5, <1>6 DEF Explores, Explored

(* An entry is yielded that is a directory, and the walk enters it.        *)
LEMMA WalkEnters ==
  ASSUME Packed, DirInv, NEW S, NEW depth, NEW found, NEW lower, Sequence(lower), NEW f,
         Explores(S, depth, found, lower, f),
         NEW c, NEW x, Yields(f, c, x), x \notin found,
         NEW g, GoesOn(f, g), FrameHolds(g, found \cup {x}),
         IsDir(c), Len(lower) + 1 < depth
  PROVE  Explores(S, depth, found \cup {x}, Append(lower, g), Frame(x.nid, x.path))
<1>k. Known(S, depth, found, lower, f)
  BY TopKnown
<1>c. c \in Children(Owner(f.nid)) /\ x = Child(Spot(f), c)
  BY DEF Yields
<1>g. g.path = f.path /\ g.nid = f.nid
  BY DEF GoesOn
<1>1. /\ found \cup {x} \in SUBSET Spots /\ Apart((found \cup {x}) \cup {S})
      /\ \A y \in found \cup {x} : Near(S, depth, found \cup {x}, y)
      /\ FramesHold(S, found \cup {x}, Append(lower, g))
      /\ \A e \in found \cup {S} :
           Len(e.path) < Len(S.path) + depth /\ NoFrameAt(Append(lower, g), e.path) =>
             \A d \in Children(Owner(e.nid)) : Child(e, d) \in found \cup {x}
  BY EntryFound
<1>2. /\ Spot(f) \in Spots /\ Spot(f).nid = f.nid /\ Spot(f).path = f.path /\ f.path \in Seq(Name)
      /\ Len(S.path) \in Nat /\ Lies(S, lower, f) /\ Within(lower, depth)
      /\ \A k \in 1..Len(lower) : Seqs!IsPrefix(lower[k].path, f.path) /\ lower[k].path \in Seq(Name)
  BY ONLY <1>k DEF Known
<1>3. /\ Owner(x.nid) = c /\ c \in Reached(tree) /\ Len(x.path) = Len(f.path) + 1
      /\ x.path = Append(f.path, tree.name[c]) /\ tree.name[c] \in Name /\ x \in Spots
      /\ x.type = tree.type[c]
  <2>1. c \in Children(Owner(Spot(f).nid))
    BY <1>c, <1>2
  <2>2. tree.name[c] \in Name
    BY <1>2, <2>1, SpotIs, ChildrenAre
  <2>3. x.type = tree.type[c]
    BY <1>c DEF Child
  <2> QED
    BY <1>c, <1>2, <2>1, <2>2, <2>3, ChildIs
<1>4. PICK frame, next : frame = Frame(x.nid, x.path) /\ next = Append(lower, g)
  OBVIOUS
<1>5. frame.path = x.path
  BY <1>4 DEF Frame
<1>6. FrameHolds(frame, found \cup {x}) /\ Spot(frame) = x
  <2>1. \A d \in Children(Owner(x.nid)) : Child(x, d) \notin found \cup {x}
    BY EntryIsNew
  <2>2. x.type = "dir" /\ IsDir(Owner(x.nid))
    BY <1>3 DEF IsDir
  <2> QED
    BY <1>3, <1>4, <2>1, <2>2, NewFrame
<1>7. /\ Sequence(next) /\ Len(next) = Len(lower) + 1 /\ Len(lower) \in Nat
      /\ next[Len(lower) + 1] = g /\ \A k \in 1..Len(lower) : next[k] = lower[k]
  BY <1>4, AppendIs
<1>8. FramesHold(S, found \cup {x}, Append(next, frame))
  <2>1. ASSUME NEW k \in 1..Len(next)
        PROVE  Seqs!IsPrefix(next[k].path, frame.path)
    <3>1. k = Len(lower) + 1 \/ k \in 1..Len(lower)
      BY <1>7
    <3>2. next[k].path \in Seq(Name) /\ Seqs!IsPrefix(next[k].path, f.path)
      BY <1>g, <1>2, <1>7, <3>1, PrefixSelf
    <3>3. Seqs!IsPrefix(next[k].path, Append(f.path, tree.name[c]))
      BY <1>2, <1>3, <3>2, PrefixGrows
    <3> QED
      BY <1>3, <1>5, <3>3
  <2>2. Seqs!IsPrefix(frame.path, frame.path)
    BY <1>3, <1>5, SpotIs, PrefixSelf
  <2>3. Len(frame.path) = Len(S.path) + Len(next)
    <3>1. PICK base, n : base \in Nat /\ n \in Nat /\ base = Len(S.path) /\ n = Len(lower)
      BY <1>2, <1>7
    <3>2. Len(f.path) = base + n
      BY ONLY <1>2, <3>1 DEF Lies
    <3>3. Len(frame.path) = Len(f.path) + 1 /\ Len(next) = n + 1
      BY ONLY <1>3, <1>5, <1>7, <3>1
    <3>4. Len(frame.path) = (base + n) + 1
      BY ONLY <3>2, <3>3
    <3>5. \A i, j \in Nat : (i + j) + 1 = i + (j + 1)
      BY ONLY TRUE
    <3> QED
      BY ONLY Zenon, <3>1, <3>3, <3>4, <3>5
  <2>4. FramesHold(S, found \cup {x}, next) /\ Spot(frame) \in (found \cup {x}) \cup {S}
    BY <1>1, <1>4, <1>6
  <2> QED
    BY <1>2, <1>6, <1>7, <2>1, <2>2, <2>3, <2>4, FramesPush
<1>9. Sequence(Append(next, frame)) /\ Len(Append(next, frame)) <= depth
  <2>1. Sequence(Append(next, frame)) /\ Len(Append(next, frame)) = Len(next) + 1
    BY <1>7, AppendIs
  <2> QED
    BY <1>2, <1>7, <2>1 DEF Within
<1>10. Searched(S, depth, found \cup {x}, Append(next, frame))
  <2>1. ASSUME NEW e \in (found \cup {x}) \cup {S}, Len(e.path) < Len(S.path) + depth,
               NoFrameAt(Append(next, frame), e.path), NEW d \in Children(Owner(e.nid))
        PROVE  Child(e, d) \in found \cup {x}
    <3>1. NoFrameAt(next, e.path) /\ e.path # x.path
      BY <1>5, <1>7, <2>1, NoFrames
    <3>2. e \in found \cup {S}
      BY <3>1
    <3> QED
      BY <1>1, <1>4, <2>1, <3>1, <3>2, SMTT(20)
  <2> QED
    BY <2>1 DEF Searched
<1>11. Begins(S) /\ depth \in Nat /\ depth > 0
  BY DEF Explores, Explored
<1> QED
  BY <1>1, <1>4, <1>8, <1>9, <1>10, <1>11 DEF Explores, Explored

(* What a frame that stands in a block of its directory reads there.       *)
LEMMA FrameReads ==
  ASSUME Packed, DirInv, NEW f, NEW b \in 1..node[Owner(f.nid)].blocks, Stands(f, b)
  PROVE  /\ Owner(f.nid) \in Reached(tree) /\ IsDir(Owner(f.nid)) /\ f.nid = node[Owner(f.nid)].nid
         /\ HoldsEntries(f.block, node[Owner(f.nid)].data[b])
         /\ f.offset = (b - 1) * BlockSize /\ f.offset \in Nat
         /\ f.i \in 0..Len(node[Owner(f.nid)].data[b])
         /\ Len(node[Owner(f.nid)].data[b]) \in Nat
         /\ Count(f.block) = Len(node[Owner(f.nid)].data[b])
<1>1. PICK d : /\ d = Owner(f.nid) /\ d \in Reached(tree) /\ IsDir(d) /\ f.nid = node[d].nid
               /\ f.offset = (b - 1) * BlockSize
               /\ f.block = ReadBlock(f.nid, f.offset)
               /\ f.i \in 0..Len(node[d].data[b])
  BY DEF Stands
<1>2. HoldsEntries(f.block, node[d].data[b]) /\ (b - 1) * BlockSize \in Nat
  <2>1. f.block = ReadBlock(node[d].nid, (b - 1) * BlockSize) /\ b \in 1..node[d].blocks
    BY <1>1
  <2> QED
    BY ONLY <1>1, <2>1, DirBlocks, Packed, DirInv
<1>3. Count(f.block) = Len(node[d].data[b])
  BY <1>2, BlockReads
<1>4. Len(node[d].data[b]) \in Nat
  BY <1>1, DirIs
<1> QED
  BY <1>1, <1>2, <1>3, <1>4

(* An entry of a directory is one of its children, or a dot entry.         *)
EntryOf(d, name, nid, type) ==
  \/ name \in {Dot, DotDot}
  \/ \E c \in Children(d) : name = tree.name[c] /\ nid = node[c].nid /\ type = tree.type[c]

LEMMA EntryReads ==
  ASSUME Packed, DirInv, NEW f, NEW b \in 1..node[Owner(f.nid)].blocks, Stands(f, b),
         f.i < Count(f.block)
  PROVE  /\ f.i + 1 \in 1..Len(node[Owner(f.nid)].data[b])
         /\ node[Owner(f.nid)].data[b][f.i + 1].name = NameAt(f.block, f.i)
         /\ NameIsGood(f.block, f.i) /\ NameAt(f.block, f.i) \in Name
         /\ DirentAt(f.block, f.i).type \in HostType
         /\ EntryOf(Owner(f.nid), NameAt(f.block, f.i), DirentAt(f.block, f.i).nid, DirentAt(f.block, f.i).type)
<1>1. PICK d, i : d = Owner(f.nid) /\ i = f.i + 1
  OBVIOUS
<1>2. /\ d \in Reached(tree) /\ IsDir(d) /\ HoldsEntries(f.block, node[d].data[b])
      /\ f.i \in 0..Len(node[d].data[b]) /\ Len(node[d].data[b]) \in Nat
      /\ Count(f.block) = Len(node[d].data[b])
  BY <1>1, FrameReads
<1>3. i \in 1..Len(node[d].data[b]) /\ i - 1 = f.i
  <2>1. PICK k, n : k = f.i /\ n = Len(node[d].data[b])
    OBVIOUS
  <2>2. k \in 0..n /\ n \in Nat /\ k < n /\ i = k + 1
    BY <1>1, <1>2, <2>1
  <2>3. i \in 1..n /\ i - 1 = k
    BY ONLY <2>2
  <2> QED
    BY <2>1, <2>3
<1>4. PICK e : e = node[d].data[b][i]
  OBVIOUS
<1>5. /\ DirentAt(f.block, f.i).nid = e.nid /\ DirentAt(f.block, f.i).type = e.type
      /\ NameAt(f.block, f.i) = e.name /\ NameIsGood(f.block, f.i)
  <2>1. /\ DirentAt(f.block, i - 1).nid = e.nid /\ DirentAt(f.block, i - 1).type = e.type
        /\ NameAt(f.block, i - 1) = e.name /\ NameIsGood(f.block, i - 1)
    BY <1>2, <1>3, <1>4, BlockReads
  <2> QED
    BY <1>3, <2>1
<1>6. e \in Elements(Entries(d)) /\ e \in DirentPlan
  <2>1. i \in 1..Len(node[d].data[b]) /\ b \in 1..node[d].blocks
    BY <1>1, <1>3
  <2> QED
    BY ONLY <1>2, <1>4, <2>1, NamesDiffer, Packed, DirInv
<1>7. e.name \in Name /\ e.type \in HostType
  BY <1>6 DEF DirentPlan
<1>8. EntryOf(d, e.name, e.nid, e.type)
  <2>1. e \in {Named(c) : c \in Children(d)} \cup {DotOf(d), DotDotOf(d)}
    BY <1>2, <1>6, DirIs
  <2>2. CASE e \in {DotOf(d), DotDotOf(d)}
    BY <2>2 DEF DotOf, DotDotOf, EntryOf
  <2>3. CASE e \in {Named(c) : c \in Children(d)}
    <3>1. PICK c \in Children(d) : e = Named(c)
      BY <2>3
    <3> QED
      BY <3>1 DEF Named, EntryOf
  <2> QED
    BY <2>1, <2>2, <2>3
<1> QED
  BY <1>1, <1>3, <1>4, <1>5, <1>7, <1>8

(* A name is listed in one place.                                          *)
ListsAt(n, b, i, name) ==
  b \in 1..node[n].blocks /\ i \in 1..Len(node[n].data[b]) /\ node[n].data[b][i].name = name

LEMMA NamesOnce ==
  ASSUME Packed, DirInv, NEW n \in Reached(tree), IsDir(n), NEW name,
         NEW b, NEW i, ListsAt(n, b, i, name), NEW c, NEW j, ListsAt(n, c, j, name)
  PROVE  b = c /\ i = j
<1>1. PICK d : d = node[n].data
  OBVIOUS
<1>2. d \in Seq(Seq(DirentPlan)) /\ Ascending(d) /\ Len(d) = node[n].blocks
  BY <1>1, DirIs
<1>3. /\ b \in 1..Len(d) /\ c \in 1..Len(d) /\ i \in 1..Len(d[b]) /\ j \in 1..Len(d[c])
      /\ d[b][i].name = d[c][j].name
  BY <1>1, <1>2 DEF ListsAt
<1>4. /\ d[b][i] \in Holding(d) /\ d[b][i] \in DirentPlan /\ d[b][i].name \in Nat
      /\ b < c \/ (b = c /\ i < j) => d[b][i].name < d[c][j].name
      /\ d[b][i].name = d[c][j].name => b = c /\ i = j
  <2>1. ToldApart(d, b, i, c, j)
    BY ONLY <1>2, <1>3, NamesApart
  <2> QED
    BY ONLY <2>1 DEF ToldApart
<1> QED
  BY <1>3, <1>4

(* Going on to the next entry passes that entry, which was not passed.     *)
LEMMA PassesNext ==
  ASSUME Packed, DirInv, NEW d \in Reached(tree), IsDir(d), NEW b \in 1..node[d].blocks,
         NEW i \in Nat, i + 1 \in 1..Len(node[d].data[b])
  PROVE  /\ \A name : Passed(d, b, i + 1, name) <=> Passed(d, b, i, name) \/ name = node[d].data[b][i + 1].name
         /\ ~Passed(d, b, i, node[d].data[b][i + 1].name)
<1>1. /\ node[d].blocks \in Nat /\ \A a \in 1..node[d].blocks : Len(node[d].data[a]) \in Nat
  BY DirIs
<1>2. PICK e : e = node[d].data[b][i + 1]
  OBVIOUS
<1>3. ASSUME NEW name, Passed(d, b, i + 1, name) PROVE Passed(d, b, i, name) \/ name = e.name
  <2>1. PICK a \in 1..node[d].blocks : \E j \in 1..Len(node[d].data[a]) :
          node[d].data[a][j].name = name /\ (a < b \/ (a = b /\ j <= i + 1))
    BY <1>3 DEF Passed
  <2>2. PICK j \in 1..Len(node[d].data[a]) :
          node[d].data[a][j].name = name /\ (a < b \/ (a = b /\ j <= i + 1))
    BY <2>1
  <2>3. j <= i \/ j = i + 1 \/ a < b
    BY <1>1, <2>2
  <2> QED
    BY <1>2, <2>2, <2>3 DEF Passed
<1>4. ASSUME NEW name, Passed(d, b, i, name) \/ name = e.name PROVE Passed(d, b, i + 1, name)
  <2>1. CASE name = e.name
    BY <1>2, <2>1 DEF Passed
  <2>2. CASE Passed(d, b, i, name)
    <3>1. PICK a \in 1..node[d].blocks : \E j \in 1..Len(node[d].data[a]) :
            node[d].data[a][j].name = name /\ (a < b \/ (a = b /\ j <= i))
      BY <2>2 DEF Passed
    <3>2. PICK j \in 1..Len(node[d].data[a]) :
            node[d].data[a][j].name = name /\ (a < b \/ (a = b /\ j <= i))
      BY <3>1
    <3>3. a < b \/ (a = b /\ j <= i + 1)
      BY <1>1, <3>2
    <3> QED
      BY <3>2, <3>3 DEF Passed
  <2> QED
    BY <1>4, <2>1, <2>2
<1>5. ASSUME Passed(d, b, i, e.name) PROVE FALSE
  <2>1. PICK a \in 1..node[d].blocks : \E j \in 1..Len(node[d].data[a]) :
          node[d].data[a][j].name = e.name /\ (a < b \/ (a = b /\ j <= i))
    BY <1>5 DEF Passed
  <2>2. PICK j \in 1..Len(node[d].data[a]) :
          node[d].data[a][j].name = e.name /\ (a < b \/ (a = b /\ j <= i))
    BY <2>1
  <2>3. PICK m : m = i + 1
    OBVIOUS
  <2>4. ListsAt(d, b, m, e.name) /\ ListsAt(d, a, j, e.name)
    BY <1>2, <2>2, <2>3 DEF ListsAt
  <2>5. a = b /\ j = m
    BY <2>4, NamesOnce
  <2> QED
    BY <2>2, <2>3, <2>5
<1> QED
  BY <1>2, <1>3, <1>4, <1>5

(* At the end of a block the next one begins.                              *)
LEMMA PassesBlock ==
  ASSUME Packed, DirInv, NEW d \in Reached(tree), IsDir(d), NEW b \in 1..node[d].blocks
  PROVE  \A name : Passed(d, b + 1, 0, name) <=> Passed(d, b, Len(node[d].data[b]), name)
<1>1. /\ node[d].blocks \in Nat /\ \A a \in 1..node[d].blocks : Len(node[d].data[a]) \in Nat
  BY DirIs
<1>2. \A a \in 1..node[d].blocks : \A j \in 1..Len(node[d].data[a]) :
        (a < b + 1 \/ (a = b + 1 /\ j <= 0)) <=> (a < b \/ (a = b /\ j <= Len(node[d].data[b])))
  BY <1>1
<1> QED
  BY <1>2 DEF Passed

(* At the end of the last block all entries were passed.                   *)
LEMMA PassesAll ==
  ASSUME Packed, DirInv, NEW d \in Reached(tree), IsDir(d), NEW c \in Children(d)
  PROVE  Passed(d, node[d].blocks, Len(node[d].data[node[d].blocks]), tree.name[c])
<1>1. /\ node[d].blocks \in Nat /\ \A a \in 1..node[d].blocks : Len(node[d].data[a]) \in Nat
  BY DirIs
<1>2. Named(c) \in Elements(Entries(d))
  BY DirIs
<1>3. PICK a \in 1..node[d].blocks : \E j \in 1..Len(node[d].data[a]) : node[d].data[a][j] = Named(c)
  BY <1>2, EntryLies
<1>4. PICK j \in 1..Len(node[d].data[a]) : node[d].data[a][j] = Named(c)
  BY <1>3
<1>5. node[d].data[a][j].name = tree.name[c]
  BY <1>4 DEF Named
<1>6. a < node[d].blocks \/ (a = node[d].blocks /\ j <= Len(node[d].data[node[d].blocks]))
  BY <1>1, <1>4
<1> QED
  BY <1>5, <1>6 DEF Passed

(* A frame holds in the block that it stands in.                           *)
HoldsAt(f, b, found) ==
  /\ b \in 1..node[Owner(f.nid)].blocks /\ Stands(f, b)
  /\ \A c \in Children(Owner(f.nid)) :
       Child(Spot(f), c) \in found <=> Passed(Owner(f.nid), b, f.i, tree.name[c])

(* The entry after the frame's.                                            *)
Stepped(f) == [f EXCEPT !.i = @ + 1]

LEMMA SteppedIs ==
  ASSUME NEW f, NEW b, Stands(f, b)
  PROVE  /\ Stepped(f).i = f.i + 1 /\ Stepped(f).nid = f.nid /\ Stepped(f).path = f.path
         /\ Stepped(f).offset = f.offset /\ Stepped(f).block = f.block
         /\ DOMAIN Stepped(f) = {"nid", "path", "offset", "block", "i"}
         /\ Spot(Stepped(f)) = Spot(f) /\ GoesOn(f, Stepped(f))
<1>1. DOMAIN f = {"nid", "path", "offset", "block", "i"}
  BY DEF Stands
<1>2. /\ Stepped(f).i = f.i + 1 /\ Stepped(f).nid = f.nid /\ Stepped(f).path = f.path
      /\ Stepped(f).offset = f.offset /\ Stepped(f).block = f.block
      /\ DOMAIN Stepped(f) = {"nid", "path", "offset", "block", "i"}
  BY ONLY <1>1 DEF Stepped
<1> QED
  BY <1>2 DEF Spot, GoesOn

(* What is passed with the entry that the frame is at.                     *)
LEMMA FrameSteps ==
  ASSUME Packed, DirInv, NEW f, NEW found, NEW b, HoldsAt(f, b, found), f.i < Count(f.block)
  PROVE  /\ Stands(Stepped(f), b)
         /\ \A c \in Children(Owner(f.nid)) :
              Passed(Owner(f.nid), b, f.i + 1, tree.name[c]) <=>
                Child(Spot(f), c) \in found \/ tree.name[c] = NameAt(f.block, f.i)
         /\ \A c \in Children(Owner(f.nid)) :
              tree.name[c] = NameAt(f.block, f.i) => Child(Spot(f), c) \notin found
<1>1. PICK d : d = Owner(f.nid)
  OBVIOUS
<1>2. /\ b \in 1..node[d].blocks /\ Stands(f, b)
      /\ \A c \in Children(d) : Child(Spot(f), c) \in found <=> Passed(d, b, f.i, tree.name[c])
  BY <1>1 DEF HoldsAt
<1>3. /\ d \in Reached(tree) /\ IsDir(d) /\ f.i \in 0..Len(node[d].data[b]) /\ f.i \in Nat
  BY <1>1, <1>2, FrameReads
<1>4. f.i + 1 \in 1..Len(node[d].data[b]) /\ node[d].data[b][f.i + 1].name = NameAt(f.block, f.i)
  BY <1>1, <1>2, EntryReads
<1>5. /\ \A name : Passed(d, b, f.i + 1, name) <=> Passed(d, b, f.i, name) \/ name = NameAt(f.block, f.i)
      /\ ~Passed(d, b, f.i, NameAt(f.block, f.i))
  <2>1. PICK i : i = f.i
    OBVIOUS
  <2>2. i \in Nat /\ i + 1 \in 1..Len(node[d].data[b])
    BY <1>3, <1>4, <2>1
  <2>3. /\ \A name : Passed(d, b, i + 1, name) <=> Passed(d, b, i, name) \/ name = node[d].data[b][i + 1].name
        /\ ~Passed(d, b, i, node[d].data[b][i + 1].name)
    BY ONLY <1>2, <1>3, <2>2, PassesNext, Packed, DirInv
  <2> QED
    BY <1>4, <2>1, <2>3
<1>6. Stands(Stepped(f), b)
  <2>1. f.i + 1 \in 0..Len(node[d].data[b])
    BY <1>4
  <2> QED
    BY <1>1, <1>2, <2>1, SteppedIs DEF Stands
<1> QED
  BY <1>1, <1>2, <1>5, <1>6

(* A dot entry is passed, and nothing is found.                            *)
LEMMA FrameSkips ==
  ASSUME Packed, DirInv, NEW f, NEW found, FrameHolds(f, found), f.i < Count(f.block),
         NameAt(f.block, f.i) \in {Dot, DotDot}
  PROVE  FrameHolds(Stepped(f), found) /\ GoesOn(f, Stepped(f))
<1>1. PICK b : HoldsAt(f, b, found)
  BY DEF FrameHolds, HoldsAt
<1>2. /\ Stands(Stepped(f), b)
      /\ \A c \in Children(Owner(f.nid)) :
           Passed(Owner(f.nid), b, f.i + 1, tree.name[c]) <=>
             Child(Spot(f), c) \in found \/ tree.name[c] = NameAt(f.block, f.i)
  BY <1>1, FrameSteps
<1>3. Owner(f.nid) \in Reached(tree) /\ Stands(f, b)
  BY <1>1 DEF HoldsAt, Stands
<1>4. \A c \in Children(Owner(f.nid)) : tree.name[c] # NameAt(f.block, f.i)
  BY <1>3, ChildrenAre
<1>5. /\ Stepped(f).i = f.i + 1 /\ Stepped(f).nid = f.nid /\ Spot(Stepped(f)) = Spot(f)
      /\ GoesOn(f, Stepped(f))
  BY <1>3, SteppedIs
<1> QED
  BY <1>1, <1>2, <1>4, <1>5 DEF FrameHolds, HoldsAt

(* Another entry is passed, and its child is found.                        *)
LEMMA FrameYields ==
  ASSUME Packed, DirInv, NEW f, NEW found, FrameHolds(f, found), f.i < Count(f.block),
         NEW c \in Children(Owner(f.nid)), tree.name[c] = NameAt(f.block, f.i)
  PROVE  /\ FrameHolds(Stepped(f), found \cup {Child(Spot(f), c)}) /\ GoesOn(f, Stepped(f))
         /\ Child(Spot(f), c) \notin found
<1>1. PICK b : HoldsAt(f, b, found)
  BY DEF FrameHolds, HoldsAt
<1>2. /\ Stands(Stepped(f), b)
      /\ \A x \in Children(Owner(f.nid)) :
           Passed(Owner(f.nid), b, f.i + 1, tree.name[x]) <=>
             Child(Spot(f), x) \in found \/ tree.name[x] = NameAt(f.block, f.i)
      /\ Child(Spot(f), c) \notin found
  BY <1>1, FrameSteps
<1>3. Owner(f.nid) \in Reached(tree) /\ Stands(f, b)
  BY <1>1 DEF HoldsAt, Stands
<1>4. \A x \in Children(Owner(f.nid)) : tree.name[x] = tree.name[c] <=> Child(Spot(f), x) = Child(Spot(f), c)
  <2>1. SUFFICES ASSUME NEW x \in Children(Owner(f.nid))
                 PROVE  tree.name[x] = tree.name[c] <=> Child(Spot(f), x) = Child(Spot(f), c)
    OBVIOUS
  <2>2. tree.name[x] = tree.name[c] => x = c
    BY <1>3, ChildrenAre
  <2>3. Child(Spot(f), x) = Child(Spot(f), c) => x = c
    <3>1. c \in Reached(tree) /\ x \in Reached(tree)
      BY <1>3, ChildrenAre
    <3>2. Child(Spot(f), x).nid = node[x].nid /\ Child(Spot(f), c).nid = node[c].nid
      BY DEF Child
    <3> QED
      BY <3>1, <3>2, OwnerIs
  <2> QED
    BY <2>2, <2>3
<1>5. /\ Stepped(f).i = f.i + 1 /\ Stepped(f).nid = f.nid /\ Spot(Stepped(f)) = Spot(f)
      /\ GoesOn(f, Stepped(f))
  BY <1>3, SteppedIs
<1>6. \A x \in Children(Owner(f.nid)) :
        Child(Spot(f), x) \in found \cup {Child(Spot(f), c)} <=> Passed(Owner(f.nid), b, f.i + 1, tree.name[x])
  BY <1>2, <1>4
<1> QED
  BY <1>1, <1>2, <1>5, <1>6 DEF FrameHolds, HoldsAt

Moved(f, offset) == [f EXCEPT !.offset = offset, !.block = ReadBlock(f.nid, offset), !.i = 0]

(* Behind a block that is not the last lies the next one.                  *)
LEMMA FrameMoves ==
  ASSUME Packed, DirInv, NEW f, NEW found, FrameHolds(f, found), ~(f.i < Count(f.block)),
         NEW offset, offset = f.offset + f.block.len, offset < InodeAt(f.nid).size
  PROVE  /\ ReadBlock(f.nid, offset) # NoBlock /\ GoesOn(f, Moved(f, offset))
         /\ FrameHolds(Moved(f, offset), found)
<1>1. PICK b, d : HoldsAt(f, b, found) /\ d = Owner(f.nid)
  BY DEF FrameHolds, HoldsAt
<1>2. /\ b \in 1..node[d].blocks /\ Stands(f, b)
      /\ \A c \in Children(d) : Child(Spot(f), c) \in found <=> Passed(d, b, f.i, tree.name[c])
  BY <1>1 DEF HoldsAt
<1>3. /\ d \in Reached(tree) /\ IsDir(d) /\ f.nid = node[d].nid
      /\ f.offset = (b - 1) * BlockSize /\ f.offset \in Nat
      /\ f.i \in 0..Len(node[d].data[b]) /\ Len(node[d].data[b]) \in Nat
      /\ Count(f.block) = Len(node[d].data[b]) /\ f.block = ReadBlock(node[d].nid, (b - 1) * BlockSize)
  BY <1>1, <1>2, FrameReads DEF Stands
<1>4. f.i = Len(node[d].data[b])
  BY <1>3
<1>5. InodeAt(f.nid).size = node[d].size /\ node[d].blocks \in Nat
  <2>1. InodeAt(f.nid) = TheInode(d)[1]
    BY <1>3, NodeIs
  <2>2. TheInode(d)[1].size = node[d].size
    <3>1. PICK r, s : r = TheInode(d)[1] /\ s = node[d].size
      OBVIOUS
    <3>2. r = [is |-> "inode", version |-> "extended", layout |-> "plain", xattrs |-> 0,
               type |-> tree.type[d], size |-> s, addr |-> node[d].blkaddr]
      BY ONLY <3>1, TheInodeIs
    <3> QED
      BY ONLY <3>1, <3>2
  <2> QED
    BY <1>3, <2>1, <2>2, DirIs
<1>6. /\ b < node[d].blocks => f.block.len = BlockSize
      /\ b = node[d].blocks => (b - 1) * BlockSize + f.block.len = node[d].size
  BY <1>2, <1>3, DirBlocks
<1>7. b < node[d].blocks
  BY <1>2, <1>3, <1>5, <1>6
<1>8. offset = ((b + 1) - 1) * BlockSize /\ b + 1 \in 1..node[d].blocks
  <2>1. BlockSize \in Nat /\ b \in Nat
    BY <1>2, LayoutAssumption DEF LayoutAssumption
  <2>2. offset = (b - 1) * BlockSize + BlockSize
    BY <1>3, <1>6, <1>7
  <2>3. (b - 1) * BlockSize + BlockSize = ((b + 1) - 1) * BlockSize
    BY ONLY <2>1
  <2> QED
    BY <1>2, <1>5, <1>7, <2>2, <2>3
<1>9. ReadBlock(f.nid, offset) # NoBlock
  <2>1. PICK a, block : a = b + 1 /\ block = ReadBlock(node[d].nid, (a - 1) * BlockSize)
    OBVIOUS
  <2>2. a \in 1..node[d].blocks
    BY <1>8, <2>1
  <2>3. block # NoBlock
    BY ONLY <1>3, <2>1, <2>2, DirBlocks, Packed, DirInv
  <2> QED
    BY <1>3, <1>8, <2>1, <2>3
<1>10. /\ Moved(f, offset).i = 0 /\ Moved(f, offset).nid = f.nid /\ Moved(f, offset).path = f.path
       /\ Moved(f, offset).offset = offset /\ Moved(f, offset).block = ReadBlock(f.nid, offset)
       /\ DOMAIN Moved(f, offset) = {"nid", "path", "offset", "block", "i"}
  <2>1. DOMAIN f = {"nid", "path", "offset", "block", "i"}
    BY <1>2 DEF Stands
  <2> QED
    BY ONLY <2>1 DEF Moved
<1>11. Spot(Moved(f, offset)) = Spot(f) /\ GoesOn(f, Moved(f, offset))
  BY <1>10 DEF Spot, GoesOn
<1>12. Stands(Moved(f, offset), b + 1)
  <2>1. 0 \in 0..Len(node[d].data[b + 1])
    <3>1. Len(node[d].data[b + 1]) \in 1..BlockSize /\ BlockSize \in Nat
      BY <1>3, <1>8, DirIs, LayoutAssumption DEF LayoutAssumption
    <3> QED
      BY <3>1
  <2>2. Owner(Moved(f, offset).nid) = d
    BY <1>1, <1>10
  <2>3. PICK g : g = Moved(f, offset)
    OBVIOUS
  <2>4. /\ d \in Reached(tree) /\ IsDir(d) /\ g.nid = node[d].nid
        /\ DOMAIN g = {"nid", "path", "offset", "block", "i"}
        /\ g.offset = ((b + 1) - 1) * BlockSize /\ g.block = ReadBlock(g.nid, g.offset)
        /\ g.i \in 0..Len(node[d].data[b + 1]) /\ Owner(g.nid) = d
    BY <1>3, <1>8, <1>10, <2>1, <2>2, <2>3
  <2>5. Stands(g, b + 1)
    BY ONLY <2>4 DEF Stands
  <2> QED
    BY <2>3, <2>5
<1>13. \A name : Passed(d, b + 1, 0, name) <=> Passed(d, b, f.i, name)
  BY <1>2, <1>3, <1>4, PassesBlock
<1> QED
  BY <1>1, <1>2, <1>8, <1>9, <1>10, <1>11, <1>12, <1>13 DEF FrameHolds

(* Behind the last block everything was found.                             *)
LEMMA FrameEnds ==
  ASSUME Packed, DirInv, NEW f, NEW found, FrameHolds(f, found), ~(f.i < Count(f.block)),
         ~(f.offset + f.block.len < InodeAt(f.nid).size), NEW c \in Children(Owner(f.nid))
  PROVE  Child(Spot(f), c) \in found
<1>1. PICK b, d : HoldsAt(f, b, found) /\ d = Owner(f.nid)
  BY DEF FrameHolds, HoldsAt
<1>2. /\ b \in 1..node[d].blocks /\ Stands(f, b)
      /\ \A x \in Children(d) : Child(Spot(f), x) \in found <=> Passed(d, b, f.i, tree.name[x])
  BY <1>1 DEF HoldsAt
<1>3. /\ d \in Reached(tree) /\ IsDir(d) /\ f.nid = node[d].nid
      /\ f.offset = (b - 1) * BlockSize /\ f.offset \in Nat
      /\ f.i \in 0..Len(node[d].data[b]) /\ Len(node[d].data[b]) \in Nat
      /\ Count(f.block) = Len(node[d].data[b]) /\ f.block = ReadBlock(node[d].nid, (b - 1) * BlockSize)
  BY <1>1, <1>2, FrameReads DEF Stands
<1>4. f.i = Len(node[d].data[b])
  BY <1>3
<1>5. InodeAt(f.nid).size = node[d].size /\ node[d].blocks \in Nat
  <2>1. InodeAt(f.nid) = TheInode(d)[1]
    BY <1>3, NodeIs
  <2>2. TheInode(d)[1].size = node[d].size
    <3>1. PICK r, s : r = TheInode(d)[1] /\ s = node[d].size
      OBVIOUS
    <3>2. r = [is |-> "inode", version |-> "extended", layout |-> "plain", xattrs |-> 0,
               type |-> tree.type[d], size |-> s, addr |-> node[d].blkaddr]
      BY ONLY <3>1, TheInodeIs
    <3> QED
      BY ONLY <3>1, <3>2
  <2> QED
    BY <1>3, <2>1, <2>2, DirIs
<1>6. /\ b < node[d].blocks => f.block.len = BlockSize
      /\ b < node[d].blocks => b * BlockSize < node[d].size
  BY <1>2, <1>3, DirBlocks
<1>7. b = node[d].blocks
  <2>1. BlockSize \in Nat /\ b \in Nat
    BY <1>2, LayoutAssumption DEF LayoutAssumption
  <2>2. (b - 1) * BlockSize + BlockSize = b * BlockSize
    BY ONLY <2>1
  <2>3. ~(b < node[d].blocks)
    BY <1>3, <1>5, <1>6, <2>2
  <2> QED
    BY <1>2, <1>5, <2>3
<1>8. Passed(d, b, f.i, tree.name[c])
  BY <1>1, <1>3, <1>4, <1>7, PassesAll
<1> QED
  BY <1>1, <1>2, <1>8

-----------------------------------------------------------------------------
(* Steps of a walk of a built image.                                       *)

(* The reader changes nothing that a walk is about.                        *)
LEMMA ToursAlike ==
  ASSUME UNCHANGED <<tree, node, image, mode>>
  PROVE  /\ \A S, depth, found, frames : Explored(S, depth, found, frames)' = Explored(S, depth, found, frames)
         /\ \A S, depth, found : Loops(S, depth, found)' = Loops(S, depth, found)
         /\ \A S, depth, found : IsDeep(S, depth, found)' = IsDeep(S, depth, found)
<1>1. \A nid, offset : ReadBlock(nid, offset)' = ReadBlock(nid, offset)
  BY ReadsAlike
<1>2. /\ \A nid : Owner(nid)' = Owner(nid)
      /\ \A n : Children(n)' = Children(n)
      /\ \A n : IsDir(n)' = IsDir(n)
      /\ \A e, c : Child(e, c)' = Child(e, c)
  BY DEF Owner, Children, IsDir, Child
<1>3. Reached(tree)' = Reached(tree)
  OBVIOUS
<1>4. Spots' = Spots
  BY <1>3 DEF Spots
<1>5. \A frame, b : Stands(frame, b)' = Stands(frame, b)
  BY <1>1, <1>2, <1>3 DEF Stands
<1>6. \A d, b, i, name : Passed(d, b, i, name)' = Passed(d, b, i, name)
  BY DEF Passed
<1>7. \A frame, found : FrameHolds(frame, found)' = FrameHolds(frame, found)
  BY <1>2, <1>5, <1>6 DEF FrameHolds
<1>8. \A S, found, frames : FramesHold(S, found, frames)' = FramesHold(S, found, frames)
  BY <1>7 DEF FramesHold
<1>9. \A S, depth, found, frames : Searched(S, depth, found, frames)' = Searched(S, depth, found, frames)
  BY <1>2 DEF Searched
<1>10. \A S : Begins(S)' = Begins(S)
  BY <1>2, <1>4 DEF Begins
<1>11. \A S, depth, found, x : Near(S, depth, found, x)' = Near(S, depth, found, x)
  BY <1>2 DEF Near
<1>12. \A S, depth, found, frames : Explored(S, depth, found, frames)' = Explored(S, depth, found, frames)
  BY <1>4, <1>8, <1>9, <1>10, <1>11 DEF Explored
<1>13. \A S, depth, found : Loops(S, depth, found)' = Loops(S, depth, found)
  BY <1>4, <1>11 DEF Loops
<1>14. \A S, depth, found : IsDeep(S, depth, found)' = IsDeep(S, depth, found)
  BY <1>4, <1>11 DEF IsDeep
<1> QED
  BY <1>12, <1>13, <1>14

TheTour(nid) == [path |-> start, nid |-> nid, type |-> "dir"]

(* A walk that is under way has a top frame.                               *)
LEMMA TourIs ==
  ASSUME WalkInv, TourInv, walk = "walking"
  PROVE  \E nid \in Nat : \E lower :
           /\ Sequence(lower) /\ stack = Append(lower, Top) /\ Len(stack) = Len(lower) + 1
           /\ lower = SubSeq(stack, 1, Len(stack) - 1)
           /\ Explores(TheTour(nid), Limit, Elements(seen), lower, Top)
           /\ PathsDiffer(seen) /\ ancestors \subseteq Nids(stack)
<1>1. walk \notin NoTour
  BY NoTourIs
<1>2. PICK nid \in Nat : Toured(TheTour(nid))
  BY <1>1 DEF TourInv, TheTour
<1>3. /\ Explored(TheTour(nid), Limit, Elements(seen), stack)
      /\ PathsDiffer(seen) /\ stack # <<>> /\ ancestors \subseteq Nids(stack)
  BY <1>2 DEF Toured
<1>4. Sequence(stack)
  BY DEF WalkInv, GoodStack
<1>5. PICK lower : /\ Sequence(lower) /\ Len(stack) = Len(lower) + 1
                   /\ lower = SubSeq(stack, 1, Len(stack) - 1)
                   /\ stack = Append(lower, stack[Len(stack)])
  BY <1>3, <1>4, TopSplits
<1>6. Top = stack[Len(stack)]
  BY DEF Top, Seqs!Last
<1> QED
  BY <1>3, <1>5, <1>6 DEF Explores

LEMMA WithTopIs ==
  ASSUME NEW lower, Sequence(lower), stack = Append(lower, Top), NEW g, WalkInv, walk = "walking"
  PROVE  WithTop(g) = Append(lower, g)
<1>1. Sequence(stack) /\ stack # <<>>
  BY DEF WalkInv, GoodStack
<1>2. PICK low : /\ Sequence(low) /\ Len(stack) = Len(low) + 1
                 /\ low = SubSeq(stack, 1, Len(stack) - 1)
                 /\ stack = Append(low, stack[Len(stack)])
                 /\ [stack EXCEPT ![Len(stack)] = g] = Append(low, g)
  BY <1>1, TopSplits
<1>3. lower = SubSeq(stack, 1, Len(stack) - 1)
  <2>1. PICK t, f : t = stack /\ f = Top /\ t = Append(lower, f)
    OBVIOUS
  <2>2. PICK T : T = {lower[i] : i \in DOMAIN lower} \cup {f}
    OBVIOUS
  <2>3. lower \in Seq(T) /\ f \in T
    BY <2>2 DEF Sequence
  <2>4. SubSeq(t, 1, Len(t) - 1) = lower
    BY ONLY <2>1, <2>3
  <2> QED
    BY <2>1, <2>4
<1> QED
  BY <1>2, <1>3 DEF WithTop

LEMMA NidsMore ==
  ASSUME NEW lower, Sequence(lower), NEW f
  PROVE  Nids(Append(lower, f)) = Nids(lower) \cup {f.nid}
<1>1. PICK t, n : t = Append(lower, f) /\ n = Len(lower)
  OBVIOUS
<1>2. n \in Nat /\ Len(t) = n + 1 /\ t[n + 1] = f /\ \A k \in 1..n : t[k] = lower[k]
  BY <1>1, AppendIs
<1>3. \A k \in 1..(n + 1) : k = n + 1 \/ k \in 1..n
  BY <1>2
<1>4. n + 1 \in 1..(n + 1) /\ \A k \in 1..n : k \in 1..(n + 1)
  BY <1>2
<1>5. {t[k].nid : k \in 1..(n + 1)} = {lower[k].nid : k \in 1..n} \cup {f.nid}
  BY <1>2, <1>3, <1>4
<1> QED
  BY <1>1, <1>2, <1>5 DEF Nids

(* What a step of a walk has to show.                                      *)
LEMMA TourGoes ==
  ASSUME UNCHANGED <<tree, node, image, mode, start, maxDepth>>, phase' = "built", maxDepth \in Nat,
         NEW nid \in Nat, walk' \in {"walking", "done", "cycle", "depth"},
         Explored(TheTour(nid), Limit, Elements(seen'), stack'), PathsDiffer(seen'),
         walk' = "walking" => stack' # <<>> /\ ancestors' \subseteq Nids(stack'),
         walk' = "done" => stack' = <<>>,
         walk' = "cycle" => Loops(TheTour(nid), Limit, Elements(seen')),
         walk' = "depth" => IsDeep(TheTour(nid), Limit, Elements(seen')) /\ maxDepth = 0
  PROVE  TourInv'
<1>1. PICK S, depth, found, frames : S = TheTour(nid) /\ depth = Limit /\ found = Elements(seen') /\ frames = stack'
  OBVIOUS
<1>2. Limit' = depth /\ Elements(seen)' = found
  BY <1>1 DEF Limit, Elements
<1>3. S = [path |-> start', nid |-> nid, type |-> "dir"] /\ S.path = start'
  BY <1>1 DEF TheTour
<1>4. Explored(S, depth, found, frames)'
  BY <1>1, ToursAlike
<1>5. walk' = "cycle" => Loops(S, depth, found)'
  BY <1>1, ToursAlike
<1>6. walk' = "depth" => IsDeep(S, depth, found)' /\ maxDepth' = 0
  BY <1>1, ToursAlike
<1>7. PathsDiffer(seen)'
  BY DEF PathsDiffer
<1>8. walk' = "walking" => stack' # <<>> /\ ancestors' \subseteq Nids(stack)'
  BY DEF Nids
<1>9. Toured(S)'
  BY <1>1, <1>2, <1>3, <1>4, <1>5, <1>6, <1>7, <1>8 DEF Toured
<1>10. Toured([path |-> start, nid |-> nid, type |-> "dir"])'
  BY <1>3, <1>9
<1> QED
  BY <1>10 DEF TourInv

LEMMA ForwardsTour ==
  ASSUME Packed, WalkInv, TourInv, walk = "walking", UNCHANGED <<tree, node, image, mode, start, maxDepth, phase>>,
         walk' = "walking", UNCHANGED <<seen, ancestors>>,
         NEW g, GoesOn(Top, g), FrameHolds(g, Elements(seen)), stack' = WithTop(g)
  PROVE  TourInv'
<1>1. PICK nid \in Nat : \E lower :
        /\ Sequence(lower) /\ stack = Append(lower, Top) /\ Len(stack) = Len(lower) + 1
        /\ lower = SubSeq(stack, 1, Len(stack) - 1)
        /\ Explores(TheTour(nid), Limit, Elements(seen), lower, Top)
        /\ PathsDiffer(seen) /\ ancestors \subseteq Nids(stack)
  BY TourIs
<1>2. PICK lower :
        /\ Sequence(lower) /\ stack = Append(lower, Top)
        /\ Explores(TheTour(nid), Limit, Elements(seen), lower, Top)
        /\ PathsDiffer(seen) /\ ancestors \subseteq Nids(stack)
  BY <1>1
<1>3. stack' = Append(lower, g)
  BY <1>2, WithTopIs
<1>4. Explores(TheTour(nid), Limit, Elements(seen), lower, g)
  <2>1. PICK S, depth, found, f : S = TheTour(nid) /\ depth = Limit /\ found = Elements(seen) /\ f = Top
    OBVIOUS
  <2>2. g.path = f.path /\ g.nid = f.nid /\ FrameHolds(g, found) /\ Explores(S, depth, found, lower, f)
    BY <1>2, <2>1 DEF GoesOn
  <2>3. Explores(S, depth, found, lower, g)
    BY ONLY <1>2, <2>2, WalkMoves, Packed
  <2> QED
    BY <2>1, <2>3
<1>5. Nids(stack') = Nids(stack)
  BY <1>2, <1>3, NidsMore DEF GoesOn
<1>6. stack' # <<>>
  <2>1. Len(stack') = Len(lower) + 1 /\ Len(lower) \in Nat
    BY <1>2, <1>3, AppendIs
  <2> QED
    BY <2>1
<1>7. phase' = "built" /\ maxDepth \in Nat
  BY DEF Packed, TourInv
<1>8. Explored(TheTour(nid), Limit, Elements(seen'), stack')
  BY <1>3, <1>4 DEF Explores
<1>9. PathsDiffer(seen') /\ ancestors' \subseteq Nids(stack')
  BY <1>2, <1>5
<1> QED
  BY <1>6, <1>7, <1>8, <1>9, TourGoes

LEMMA NextBlockTours ==
  ASSUME Packed, DirInv, WalkInv, TourInv, UNCHANGED <<image, builderVars, source>>, NextBlock
  PROVE  TourInv'
<1>1. PICK f, found, offset : f = Top /\ found = Elements(seen) /\ offset = Top.offset + Top.block.len
  OBVIOUS
<1>2. /\ walk = "walking" /\ ~(f.i < Count(f.block)) /\ offset < InodeAt(f.nid).size
      /\ UNCHANGED <<mode, maxDepth, start>>
  <2>1. GoodFrame(f) /\ Count(f.block) \in Nat /\ f.i \in Nat
    BY <1>1, TopIs, CountIs DEF NextBlock, AtEnd, Walking, WalkInv, GoodFrame
  <2> QED
    BY <1>1, <2>1 DEF NextBlock, AtEnd, Walking, Stop
<1>3. FrameHolds(f, found)
  BY <1>1, <1>2, TourIs, TopFacts
<1>4. /\ ReadBlock(f.nid, offset) # NoBlock /\ GoesOn(f, Moved(f, offset))
      /\ FrameHolds(Moved(f, offset), found)
  BY <1>1, <1>2, <1>3, FrameMoves
<1>5. stack' = WithTop(Moved(f, offset)) /\ UNCHANGED <<walk, ancestors, seen>>
  BY <1>1, <1>4 DEF NextBlock, Moved
<1> QED
  BY <1>1, <1>2, <1>4, <1>5, ForwardsTour DEF builderVars

LEMMA SkipDotTours ==
  ASSUME Packed, DirInv, WalkInv, TourInv, UNCHANGED <<image, builderVars, source>>, SkipDot
  PROVE  TourInv'
<1>1. PICK f, found : f = Top /\ found = Elements(seen)
  OBVIOUS
<1>2. /\ walk = "walking" /\ f.i < Count(f.block) /\ NameAt(f.block, f.i) \in {Dot, DotDot}
      /\ UNCHANGED <<mode, maxDepth, start, walk, ancestors, seen>>
      /\ stack' = WithTop(Stepped(f))
  BY <1>1 DEF SkipDot, AtEntry, Walking, EntryIsDot, EntryName, Stepped
<1>3. FrameHolds(f, found)
  BY <1>1, <1>2, TourIs, TopFacts
<1>4. FrameHolds(Stepped(f), found) /\ GoesOn(f, Stepped(f))
  BY <1>2, <1>3, FrameSkips
<1> QED
  BY <1>1, <1>2, <1>4, ForwardsTour DEF builderVars

LEMMA PopDirTours ==
  ASSUME Packed, DirInv, WalkInv, TourInv, UNCHANGED <<image, builderVars, source>>, PopDir
  PROVE  TourInv'
<1>1. PICK f, found, depth : f = Top /\ found = Elements(seen) /\ depth = Limit
  OBVIOUS
<1>2. /\ walk = "walking" /\ ~(f.i < Count(f.block)) /\ ~(f.offset + f.block.len < InodeAt(f.nid).size)
      /\ UNCHANGED <<mode, maxDepth, start, seen>> /\ stack' = Seqs!Front(stack)
      /\ ancestors' = ancestors \ {f.nid} /\ walk' = IF Len(stack) = 1 THEN "done" ELSE walk
  <2>1. GoodFrame(f) /\ walk = "walking"
    BY <1>1, TopIs DEF PopDir, AtEnd, Walking, WalkInv
  <2>2. Count(f.block) \in Nat /\ f.i \in Nat /\ f.offset + f.block.len \in Nat /\ InodeAt(f.nid).size \in Nat
    BY <2>1, CountIs, InodeHere DEF GoodFrame, GoodBlock
  <2> QED
    BY <1>1, <2>1, <2>2 DEF PopDir, AtEnd, Walking
<1>3. PICK nid \in Nat : \E lower :
        /\ Sequence(lower) /\ stack = Append(lower, Top) /\ Len(stack) = Len(lower) + 1
        /\ lower = SubSeq(stack, 1, Len(stack) - 1)
        /\ Explores(TheTour(nid), Limit, Elements(seen), lower, Top)
        /\ PathsDiffer(seen) /\ ancestors \subseteq Nids(stack)
  BY <1>2, TourIs
<1>4. PICK lower :
        /\ Sequence(lower) /\ stack = Append(lower, f) /\ Len(stack) = Len(lower) + 1
        /\ lower = SubSeq(stack, 1, Len(stack) - 1)
        /\ Explores(TheTour(nid), depth, found, lower, f)
        /\ PathsDiffer(seen) /\ ancestors \subseteq Nids(stack)
  BY <1>1, <1>3
<1>5. FrameHolds(f, found)
  BY <1>4, TopFacts
<1>6. \A c \in Children(Owner(f.nid)) : Child(Spot(f), c) \in found
  BY <1>2, <1>5, FrameEnds
<1>7. Explored(TheTour(nid), depth, found, lower)
  BY <1>4, <1>6, WalkLeaves
<1>8. stack' = lower
  BY <1>2, <1>4 DEF Seqs!Front
<1>9. ancestors' \subseteq Nids(lower)
  BY <1>2, <1>4, NidsMore
<1>10. Len(lower) \in Nat /\ (Len(lower) = 0 => lower = <<>>) /\ (lower = <<>> => Len(lower) = 0)
  <2>1. lower \in Seq({lower[i] : i \in DOMAIN lower})
    BY <1>4 DEF Sequence
  <2> QED
    BY <2>1
<1>11. \/ walk' = "done" /\ stack' = <<>>
       \/ walk' = "walking" /\ stack' # <<>>
  BY <1>2, <1>4, <1>8, <1>10
<1>12. phase' = "built" /\ maxDepth \in Nat /\ UNCHANGED <<tree, node, image>>
  BY DEF Packed, TourInv, builderVars
<1>13. Explored(TheTour(nid), Limit, Elements(seen'), stack') /\ PathsDiffer(seen') /\ ancestors' \subseteq Nids(stack')
  BY <1>1, <1>2, <1>4, <1>7, <1>8, <1>9
<1> QED
  BY <1>2, <1>11, <1>12, <1>13, TourGoes

(* What is yielded is a child of the directory that the walk is in.        *)
LEMMA EntryIs ==
  ASSUME Packed, DirInv, WalkInv, TourInv, AtEntry
  PROVE  /\ EntryIsGood /\ EntryName \in Name
         /\ ~EntryIsDot => \E c \in Children(Owner(Top.nid)) :
              /\ tree.name[c] = NameAt(Top.block, Top.i) /\ Entry.nid = node[c].nid /\ Entry.type = tree.type[c]
              /\ Child(Spot(Top), c) = [path |-> EntryPath, nid |-> Entry.nid, type |-> Entry.type]
<1>1. PICK f, found : f = Top /\ found = Elements(seen)
  OBVIOUS
<1>2. walk = "walking" /\ f.i < Count(f.block)
  BY <1>1 DEF AtEntry, Walking
<1>3. FrameHolds(f, found)
  BY <1>1, <1>2, TourIs, TopFacts
<1>4. PICK b : HoldsAt(f, b, found)
  BY <1>3 DEF FrameHolds, HoldsAt
<1>5. /\ NameIsGood(f.block, f.i) /\ NameAt(f.block, f.i) \in Name
      /\ DirentAt(f.block, f.i).type \in HostType
      /\ EntryOf(Owner(f.nid), NameAt(f.block, f.i), DirentAt(f.block, f.i).nid, DirentAt(f.block, f.i).type)
  BY <1>2, <1>4, EntryReads DEF HoldsAt
<1>6. EntryIsGood /\ EntryName \in Name
  BY <1>1, <1>5 DEF EntryIsGood, EntryName, Entry, HostType
<1>7. ASSUME ~EntryIsDot
      PROVE  \E c \in Children(Owner(Top.nid)) :
              /\ tree.name[c] = NameAt(Top.block, Top.i) /\ Entry.nid = node[c].nid /\ Entry.type = tree.type[c]
              /\ Child(Spot(Top), c) = [path |-> EntryPath, nid |-> Entry.nid, type |-> Entry.type]
  <2>1. NameAt(f.block, f.i) \notin {Dot, DotDot}
    BY <1>1, <1>7 DEF EntryIsDot, EntryName
  <2>2. PICK c \in Children(Owner(f.nid)) :
          /\ NameAt(f.block, f.i) = tree.name[c]
          /\ DirentAt(f.block, f.i).nid = node[c].nid /\ DirentAt(f.block, f.i).type = tree.type[c]
    BY <1>5, <2>1 DEF EntryOf
  <2>3. Entry.nid = node[c].nid /\ Entry.type = tree.type[c] /\ EntryPath = Append(f.path, tree.name[c])
    BY <1>1, <2>2 DEF Entry, EntryPath, EntryName
  <2>4. Spot(f).path = f.path
    BY DEF Spot
  <2>5. Child(Spot(f), c) = [path |-> EntryPath, nid |-> Entry.nid, type |-> Entry.type]
    BY <2>3, <2>4 DEF Child
  <2> QED
    BY <1>1, <2>2, <2>3, <2>5
<1> QED
  BY <1>6, <1>7

LEMMA BadDirentTours ==
  ASSUME Packed, DirInv, WalkInv, TourInv, BadDirent
  PROVE  FALSE
BY EntryIs DEF BadDirent

(* A child of a directory can be opened.                                   *)
LEMMA ChildOpens ==
  ASSUME Packed, DirInv, NEW d \in Reached(tree), NEW c \in Children(d)
  PROVE  /\ HasInode(node[c].nid) /\ c \in Reached(tree)
         /\ tree.type[c] = "dir" => Opens(node[c].nid)
<1>1. c \in Reached(tree)
  BY ChildrenAre
<1>2. HasInode(node[c].nid)
  BY <1>1, NodeIs DEF Here
<1>3. ASSUME tree.type[c] = "dir" PROVE Opens(node[c].nid)
  <2>1. IsDir(c)
    BY <1>3 DEF IsDir
  <2>2. 1 \in 1..node[c].blocks
    BY <1>1, <2>1, DirIs
  <2>3. PICK block, k : block = ReadBlock(node[c].nid, (k - 1) * BlockSize) /\ k = 1
    OBVIOUS
  <2>4. block # NoBlock
    BY <1>1, <2>1, <2>2, <2>3, DirBlocks
  <2>5. (k - 1) * BlockSize = 0
    BY <2>3, LayoutAssumption DEF LayoutAssumption
  <2> QED
    BY <2>3, <2>4, <2>5 DEF Opens
<1> QED
  BY <1>1, <1>2, <1>3

(* A frame that a descendant stands below.                                 *)
LEMMA FrameAbove ==
  ASSUME Packed, NEW S, NEW depth, NEW found, NEW lower, Sequence(lower), NEW f,
         Explores(S, depth, found, lower, f), NEW nid \in Nids(Append(lower, f)), NEW name \in Name
  PROVE  \E d \in found \cup {S} : d.nid = nid /\ Seqs!IsStrictPrefix(d.path, Append(f.path, name))
<1>1. Known(S, depth, found, lower, f)
  BY TopKnown
<1>2. f.path \in Seq(Name) /\ FramesHold(S, found, lower)
      /\ Spot(f) \in found \cup {S} /\ Spot(f).path = f.path /\ Spot(f).nid = f.nid
      /\ \A k \in 1..Len(lower) : Seqs!IsPrefix(lower[k].path, f.path) /\ lower[k].path \in Seq(Name)
  BY ONLY <1>1 DEF Known
<1>3. nid \in Nids(lower) \/ nid = f.nid
  BY NidsMore
<1>4. CASE nid = f.nid
  <2>1. Seqs!IsPrefix(f.path, f.path)
    BY <1>2, PrefixSelf
  <2>2. Seqs!IsStrictPrefix(f.path, Append(f.path, name))
    BY <1>2, <2>1, PrefixGrows
  <2> QED
    BY <1>2, <1>4, <2>2
<1>5. CASE nid \in Nids(lower)
  <2>1. PICK k \in 1..Len(lower) : nid = lower[k].nid
    BY <1>5 DEF Nids
  <2>2. Spot(lower[k]) \in found \cup {S}
    BY <1>2, <2>1 DEF FramesHold
  <2>3. Spot(lower[k]).path = lower[k].path /\ Spot(lower[k]).nid = nid
    BY <2>1 DEF Spot
  <2>4. lower[k].path \in Seq(Name) /\ Seqs!IsPrefix(lower[k].path, f.path)
    BY <1>2, <2>1
  <2>5. Seqs!IsStrictPrefix(lower[k].path, Append(f.path, name))
    BY <1>2, <2>4, PrefixGrows
  <2> QED
    BY <2>2, <2>3, <2>5
<1> QED
  BY <1>3, <1>4, <1>5

LEMMA RefuseEntryTours ==
  ASSUME Packed, DirInv, WalkInv, TourInv, UNCHANGED <<image, builderVars, source>>, RefuseEntry
  PROVE  TourInv'
<1>1. PICK f, found, depth : f = Top /\ found = Elements(seen) /\ depth = Limit
  OBVIOUS
<1>2. /\ walk = "walking" /\ AtEntry /\ EntryIsGood /\ ~EntryIsDot /\ Refusal # "none"
      /\ UNCHANGED <<mode, maxDepth, start, seen, stack, ancestors>> /\ walk' = Refusal
  BY DEF RefuseEntry, AtEntry, Walking, Stop
<1>3. PICK nid \in Nat : \E lower :
        /\ Sequence(lower) /\ stack = Append(lower, Top) /\ Len(stack) = Len(lower) + 1
        /\ lower = SubSeq(stack, 1, Len(stack) - 1)
        /\ Explores(TheTour(nid), Limit, Elements(seen), lower, Top)
        /\ PathsDiffer(seen) /\ ancestors \subseteq Nids(stack)
  BY <1>2, TourIs
<1>4. PICK S, lower :
        /\ S = TheTour(nid) /\ Sequence(lower) /\ stack = Append(lower, f) /\ Len(stack) = Len(lower) + 1
        /\ Explores(S, depth, found, lower, f)
        /\ PathsDiffer(seen) /\ ancestors \subseteq Nids(Append(lower, f))
  BY <1>1, <1>3
<1>5. Known(S, depth, found, lower, f)
  BY <1>4, TopKnown
<1>6. PICK c \in Children(Owner(f.nid)) :
        /\ tree.name[c] = NameAt(f.block, f.i) /\ Entry.nid = node[c].nid /\ Entry.type = tree.type[c]
        /\ Child(Spot(f), c) = [path |-> EntryPath, nid |-> Entry.nid, type |-> Entry.type]
  BY <1>1, <1>2, EntryIs
<1>7. FrameHolds(f, found) /\ Spot(f) \in Spots /\ Spot(f).nid = f.nid /\ Spot(f).path = f.path
      /\ f.path \in Seq(Name) /\ Lies(S, lower, f) /\ Within(lower, depth) /\ Len(S.path) \in Nat
  BY ONLY <1>5 DEF Known
<1>8. PICK x : x = Child(Spot(f), c)
  OBVIOUS
<1>9. x \notin found
  <2>1. f.i < Count(f.block)
    BY <1>1, <1>2 DEF AtEntry
  <2> QED
    BY <1>6, <1>7, <1>8, <2>1, FrameYields
<1>10. /\ x \in Spots /\ Near(S, depth, found, x) /\ Yields(f, c, x)
  <2>1. Yields(f, c, x)
    BY <1>6, <1>8 DEF Yields
  <2> QED
    BY <1>4, <1>9, <2>1, EntryIsNew
<1>11. x.nid = Entry.nid /\ x.type = Entry.type /\ x.path = Append(f.path, EntryName) /\ EntryName \in Name
  BY <1>1, <1>2, <1>6, <1>8, EntryIs DEF EntryPath
<1>12. HasInode(Entry.nid) /\ (Entry.type = "dir" => Opens(Entry.nid))
  <2>1. Owner(f.nid) \in Reached(tree)
    BY <1>7, SpotIs
  <2> QED
    BY <1>6, <2>1, ChildOpens
<1>13. \/ walk' = "cycle" /\ Entry.type = "dir" /\ Entry.nid \in ancestors
       \/ walk' = "depth" /\ Entry.type = "dir" /\ Depth >= Limit /\ maxDepth = 0
  BY <1>2, <1>12 DEF Refusal, Descends
<1>14. walk' = "cycle" => Loops(S, depth, found)
  <2>1. SUFFICES ASSUME Entry.type = "dir", Entry.nid \in ancestors PROVE Loops(S, depth, found)
    BY <1>13
  <2>2. PICK d \in found \cup {S} : d.nid = Entry.nid /\ Seqs!IsStrictPrefix(d.path, Append(f.path, EntryName))
    BY <1>4, <1>11, <2>1, FrameAbove
  <2>3. d.nid = x.nid /\ Seqs!IsStrictPrefix(d.path, x.path) /\ x.type = "dir"
    BY <1>11, <2>1, <2>2
  <2> QED
    BY <1>10, <2>3 DEF Loops
<1>15. walk' = "depth" => IsDeep(S, depth, found) /\ maxDepth = 0
  <2>1. SUFFICES ASSUME Entry.type = "dir", Depth >= Limit, maxDepth = 0 PROVE IsDeep(S, depth, found)
    BY <1>13
  <2>2. depth = DefaultMaxDepth /\ Len(stack) >= depth
    BY <1>1, <2>1 DEF Limit, Depth
  <2>3. Len(lower) + 1 = DefaultMaxDepth
    BY <1>4, <1>7, <2>2 DEF Within
  <2>4. Len(x.path) = Len(f.path) + 1
    <3>1. Len(x.path) = Len(Spot(f).path) + 1
      BY <1>6, <1>7, <1>8, ChildIs
    <3> QED
      BY <1>7, <3>1
  <2>5. Len(x.path) = Len(S.path) + DefaultMaxDepth
    <3>1. PICK base, n : base = Len(S.path) /\ n = Len(lower)
      OBVIOUS
    <3>2. base \in Nat /\ n \in Nat
      BY <1>7, <3>1 DEF Within
    <3>3. Len(x.path) = (base + n) + 1
      BY <1>7, <2>4, <3>1 DEF Lies
    <3>4. \A i, j \in Nat : (i + j) + 1 = i + (j + 1)
      BY ONLY TRUE
    <3>5. n + 1 = DefaultMaxDepth
      BY <2>3, <3>1
    <3> QED
      BY ONLY Zenon, <3>1, <3>2, <3>3, <3>4, <3>5
  <2> QED
    BY <1>10, <1>11, <2>1, <2>5 DEF IsDeep
<1>16. phase' = "built" /\ maxDepth \in Nat /\ UNCHANGED <<tree, node, image>>
  BY DEF Packed, TourInv, builderVars
<1>17. Explored(TheTour(nid), Limit, Elements(seen'), stack') /\ PathsDiffer(seen')
  BY <1>1, <1>2, <1>4 DEF Explores
<1>18. walk' \in {"cycle", "depth"}
  BY <1>13
<1>19. walk' \notin {"walking", "done"} /\ walk' \in {"walking", "done", "cycle", "depth"}
  BY <1>18
<1>20. /\ walk' = "cycle" => Loops(TheTour(nid), Limit, Elements(seen'))
       /\ walk' = "depth" => IsDeep(TheTour(nid), Limit, Elements(seen')) /\ maxDepth = 0
  BY <1>1, <1>2, <1>4, <1>14, <1>15
<1> QED
  BY <1>2, <1>16, <1>17, <1>19, <1>20, TourGoes

(* What is yielded was not yielded before.                                 *)
LEMMA SeenMore ==
  ASSUME NEW s, Sequence(s), PathsDiffer(s), NEW x, \A y \in Elements(s) : y.path # x.path
  PROVE  /\ Elements(Append(s, x)) = Elements(s) \cup {x}
         /\ PathsDiffer(Append(s, x))
<1>1. PICK t, n : t = Append(s, x) /\ n = Len(s)
  OBVIOUS
<1>2. n \in Nat /\ Len(t) = n + 1 /\ t[n + 1] = x /\ (\A i \in 1..n : t[i] = s[i]) /\ Sequence(t)
  BY <1>1, AppendIs
<1>3. DOMAIN t = 1..(n + 1) /\ DOMAIN s = 1..n
  BY <1>1, <1>2 DEF Sequence
<1>4. (\A i \in 1..(n + 1) : i = n + 1 \/ i \in 1..n) /\ n + 1 \in 1..(n + 1) /\ (\A i \in 1..n : i \in 1..(n + 1))
  BY <1>2
<1>5. Elements(t) = Elements(s) \cup {x}
  BY <1>2, <1>3, <1>4 DEF Elements
<1>6. \A i \in 1..n : s[i] \in Elements(s)
  BY <1>3 DEF Elements
<1>7. PathsDiffer(t)
  <2>1. SUFFICES ASSUME NEW i \in 1..(n + 1), NEW j \in 1..(n + 1), t[i].path = t[j].path PROVE i = j
    BY <1>3 DEF PathsDiffer
  <2>2. CASE i \in 1..n /\ j \in 1..n
    BY <1>2, <1>3, <2>1, <2>2 DEF PathsDiffer
  <2>3. CASE i \in 1..n /\ j = n + 1
    BY <1>2, <1>6, <2>1, <2>3
  <2>4. CASE i = n + 1 /\ j \in 1..n
    BY <1>2, <1>6, <2>1, <2>4
  <2> QED
    BY <1>4, <2>2, <2>3, <2>4
<1> QED
  BY <1>1, <1>5, <1>7

LEMMA YieldEntryTours ==
  ASSUME Packed, DirInv, WalkInv, TourInv, UNCHANGED <<image, builderVars, source>>, YieldEntry
  PROVE  TourInv'
<1>1. PICK f, found, depth, g : f = Top /\ found = Elements(seen) /\ depth = Limit /\ g = Stepped(f)
  OBVIOUS
<1>2. /\ walk = "walking" /\ AtEntry /\ EntryIsGood /\ ~EntryIsDot
      /\ UNCHANGED <<mode, maxDepth, start, walk>>
      /\ seen' = Append(seen, [path |-> EntryPath, nid |-> Entry.nid, type |-> Entry.type])
      /\ \/ /\ Descends
            /\ stack' = Append(WithTop(g), Frame(Entry.nid, EntryPath))
            /\ ancestors' = ancestors \cup {Entry.nid}
         \/ ~Descends /\ stack' = WithTop(g) /\ UNCHANGED ancestors
  BY <1>1 DEF YieldEntry, AtEntry, Walking, Enter, Stepped
<1>3. PICK nid \in Nat : \E lower :
        /\ Sequence(lower) /\ stack = Append(lower, Top) /\ Len(stack) = Len(lower) + 1
        /\ lower = SubSeq(stack, 1, Len(stack) - 1)
        /\ Explores(TheTour(nid), Limit, Elements(seen), lower, Top)
        /\ PathsDiffer(seen) /\ ancestors \subseteq Nids(stack)
  BY <1>2, TourIs
<1>4. PICK S, lower :
        /\ S = TheTour(nid) /\ Sequence(lower) /\ stack = Append(lower, f) /\ Len(stack) = Len(lower) + 1
        /\ Explores(S, depth, found, lower, f)
        /\ PathsDiffer(seen) /\ ancestors \subseteq Nids(Append(lower, f))
  BY <1>1, <1>3
<1>5. Known(S, depth, found, lower, f)
  BY <1>4, TopKnown
<1>6. PICK c \in Children(Owner(f.nid)) :
        /\ tree.name[c] = NameAt(f.block, f.i) /\ Entry.nid = node[c].nid /\ Entry.type = tree.type[c]
        /\ Child(Spot(f), c) = [path |-> EntryPath, nid |-> Entry.nid, type |-> Entry.type]
  BY <1>1, <1>2, EntryIs
<1>7. FrameHolds(f, found)
  BY ONLY <1>5 DEF Known
<1>8. PICK x : x = Child(Spot(f), c)
  OBVIOUS
<1>9. x \notin found /\ FrameHolds(g, found \cup {x}) /\ GoesOn(f, g)
  <2>1. f.i < Count(f.block)
    BY <1>1, <1>2 DEF AtEntry
  <2> QED
    BY <1>1, <1>6, <1>7, <1>8, <2>1, FrameYields
<1>10. Yields(f, c, x) /\ \A e \in found \cup {S} : e.path # x.path
  <2>1. Yields(f, c, x)
    BY <1>6, <1>8 DEF Yields
  <2> QED
    BY <1>4, <1>9, <2>1, EntryIsNew
<1>11. x.nid = Entry.nid /\ x.type = Entry.type /\ x.path = EntryPath
  BY <1>6, <1>8
<1>12. WithTop(g) = Append(lower, g)
  BY <1>1, <1>2, <1>4, WithTopIs
<1>13. Elements(seen') = found \cup {x} /\ PathsDiffer(seen')
  <2>1. seen' = Append(seen, x)
    BY <1>2, <1>6, <1>8
  <2>2. Sequence(seen) /\ PathsDiffer(seen) /\ \A y \in Elements(seen) : y.path # x.path
    BY <1>1, <1>4, <1>10 DEF WalkInv
  <2> QED
    BY <1>1, <2>1, <2>2, SeenMore
<1>14. Len(lower) \in Nat /\ depth \in Nat
  BY ONLY <1>5 DEF Known, Within
<1>15. /\ Explored(S, depth, found \cup {x}, stack')
       /\ stack' # <<>> /\ ancestors' \subseteq Nids(stack')
  <2>1. Sequence(Append(lower, g)) /\ Nids(Append(lower, g)) = Nids(Append(lower, f))
        /\ Len(Append(lower, g)) = Len(lower) + 1
    <3>1. Sequence(lower) /\ g.nid = f.nid
      BY <1>4, <1>9 DEF GoesOn
    <3>2. Nids(Append(lower, g)) = Nids(lower) \cup {g.nid} /\ Nids(Append(lower, f)) = Nids(lower) \cup {f.nid}
      BY <3>1, NidsMore
    <3>3. Sequence(Append(lower, g)) /\ Len(Append(lower, g)) = Len(lower) + 1
      BY <3>1, AppendIs
    <3> QED
      BY <3>1, <3>2, <3>3
  <2>2. CASE Descends
    <3>1. IsDir(c) /\ Len(lower) + 1 < depth
      BY <1>1, <1>4, <1>6, <2>2 DEF Descends, Depth, IsDir
    <3>2. Explores(S, depth, found \cup {x}, Append(lower, g), Frame(x.nid, x.path))
      BY ONLY <1>4, <1>9, <1>10, <3>1, WalkEnters, Packed, DirInv
    <3>3. stack' = Append(Append(lower, g), Frame(x.nid, x.path)) /\ ancestors' = ancestors \cup {x.nid}
      BY <1>2, <1>11, <1>12, <2>2
    <3>4. PICK next, frame : next = Append(lower, g) /\ frame = Frame(x.nid, x.path) /\ frame.nid = x.nid
      <4>1. Frame(x.nid, x.path).nid = x.nid
        BY DEF Frame
      <4> QED
        BY <4>1
    <3>5. Nids(Append(next, frame)) = Nids(next) \cup {frame.nid} /\ Len(Append(next, frame)) = Len(lower) + 1 + 1
      BY <2>1, <3>4, AppendIs, NidsMore
    <3>6. stack' = Append(next, frame)
      BY <3>3, <3>4
    <3>7. ancestors' \subseteq Nids(stack')
      BY <1>4, <2>1, <3>3, <3>4, <3>5, <3>6
    <3>8. stack' # <<>>
      BY <1>14, <3>5, <3>6
    <3>9. Explored(S, depth, found \cup {x}, stack')
      BY <3>2, <3>3 DEF Explores
    <3> QED
      BY <3>7, <3>8, <3>9
  <2>3. CASE ~Descends
    <3>1. ~IsDir(c) \/ Len(lower) + 1 >= depth
      BY <1>1, <1>4, <1>6, <1>14, <2>3 DEF Descends, Depth, IsDir
    <3>2. Explores(S, depth, found \cup {x}, lower, g)
      BY ONLY <1>4, <1>9, <1>10, <3>1, WalkYields, Packed
    <3>3. stack' = Append(lower, g) /\ ancestors' = ancestors
      BY <1>2, <1>12, <2>3
    <3>4. stack' # <<>>
      BY <1>14, <2>1, <3>3
    <3> QED
      BY <1>4, <2>1, <3>2, <3>3, <3>4 DEF Explores
  <2> QED
    BY <2>2, <2>3
<1>16. phase' = "built" /\ maxDepth \in Nat /\ UNCHANGED <<tree, node, image>>
  BY DEF Packed, TourInv, builderVars
<1>17. walk' = "walking"
  BY <1>2
<1>18. Explored(TheTour(nid), Limit, Elements(seen'), stack')
  BY <1>1, <1>4, <1>13, <1>15
<1> QED
  BY <1>2, <1>13, <1>15, <1>16, <1>17, <1>18, TourGoes

(* A file that is not at its end has a block to read.                      *)
LEMMA FileHasBlock ==
  ASSUME Packed, NEW m \in DOMAIN node, Reading(m), file.offset < InodeAt(file.nid).size
  PROVE  ReadBlock(file.nid, file.offset) # NoBlock
<1>1. PICK o, size, addr, nid, S :
        /\ o = file.offset /\ size = node[m].size /\ addr = node[m].blkaddr /\ nid = file.nid
        /\ S = BlockSize
  OBVIOUS
<1>2. /\ m \in Reached(tree) /\ ~IsDir(m) /\ o \in 0..size /\ nid = node[m].nid
  BY <1>1 DEF Reading
<1>3. /\ size \in Nat /\ addr \in Nat /\ S \in Nat /\ S > 0 /\ o \in Nat /\ o < size
      /\ InodeAt(nid).layout = "plain" /\ InodeAt(nid).size = size /\ InodeAt(nid).addr = addr
  <2>1. size \in Nat /\ addr \in Nat
    BY <1>1, <1>2, NodeIs
  <2>2. /\ InodeAt(nid).layout = "plain" /\ InodeAt(nid).size = size /\ InodeAt(nid).addr = addr
    BY <1>1, <1>2, NodeIs, TheFieldsAre
  <2>3. o < size
    BY <1>1, <2>2
  <2> QED
    BY <1>1, <1>2, <2>1, <2>2, <2>3, LayoutAssumption DEF LayoutAssumption
<1>4. PICK q \in Nat, r \in 0..(S - 1) : o = q * S + r /\ o \div S = q
  BY <1>3, DivIs
<1>5. PICK a \in Nat, b \in 0..(S - 1) : size + S - 1 = a * S + b /\ (size + S - 1) \div S = a
  <2>1. size + S - 1 \in Nat
    BY ONLY <1>3
  <2> QED
    BY <1>3, <2>1, DivIs
<1>6. PICK qs, ap, base : qs = q * S /\ ap = a * S /\ base = addr * S
  OBVIOUS
<1>7. qs \in Nat /\ ap \in Nat /\ base \in Nat /\ (addr + q) * S = base + qs
  BY <1>3, <1>6, Spread
<1>8. ~(q >= a)
  <2>1. SUFFICES ASSUME q >= a PROVE FALSE
    OBVIOUS
  <2>2. ap <= qs
    BY <1>3, <1>6, <2>1, Scaled
  <2>3. size + S - 1 = ap + b /\ o = qs + r
    BY <1>4, <1>5, <1>6
  <2> QED
    <3>1. /\ qs \in Nat /\ ap \in Nat /\ S \in Nat /\ size \in Nat /\ o \in Nat /\ o < size
      BY ONLY <1>3, <1>7
    <3>2. r \in Nat
      BY ONLY <1>3, r \in 0..(S - 1)
    <3>3. b \in Int /\ b <= S - 1
      BY ONLY <1>3, b \in 0..(S - 1)
    <3>4. size <= qs
      BY ONLY <2>2, <2>3, <3>1, <3>3
    <3>5. qs <= o
      BY ONLY <2>3, <3>1, <3>2
    <3> QED
      BY ONLY <3>1, <3>4, <3>5
<1>9. PICK at, len : at = base + qs /\ len = AtMost(size - qs, S)
  OBVIOUS
<1>10. len \in Nat /\ len > 0 /\ qs + len <= size /\ at \in Nat
  <2>1. o = qs + r /\ r \in Nat
    BY <1>3, <1>4, <1>6
  <2> QED
    BY ONLY <1>3, <1>7, <1>9, <2>1 DEF AtMost
<1>11. base + size <= End /\ End \in Nat
  <2>1. Written(image, base, taken[m]) /\ Len(taken[m]) = size
    BY <1>1, <1>2, <1>6 DEF Packed, EmitInv, Emitted, Room
  <2>2. size \in 1..size
    BY ONLY <1>3
  <2>3. base + size - 1 \in DOMAIN image
    BY <2>1, <2>2 DEF Written
  <2>4. DOMAIN image = 0..(End - 1) /\ End \in Nat
    BY ImageIs
  <2>5. base + size - 1 \in 0..(End - 1)
    BY <2>3, <2>4
  <2> QED
    BY ONLY <1>3, <1>7, <2>4, <2>5
<1>12. at + len <= End
  BY ONLY <1>3, <1>7, <1>9, <1>10, <1>11
<1>13. FlatBlock(nid, q) = [at |-> at, len |-> len]
  <2>1. DivCeil(size) = a
    BY <1>1, <1>5 DEF DivCeil
  <2>2. FlatBlock(nid, q) = [at |-> (addr + q) * S, len |-> AtMost(size - q * S, S)]
    BY <1>1, <1>3, <1>8, <2>1 DEF FlatBlock
  <2> QED
    BY <1>6, <1>7, <1>9, <2>2
<1>14. ReadBlock(nid, o) = [at |-> at, len |-> len]
  BY <1>1, <1>3, <1>4, <1>12, <1>13 DEF ReadBlock
<1>15. [at |-> at, len |-> len] # NoBlock
  BY <1>10 DEF NoBlock
<1> QED
  BY <1>1, <1>14, <1>15

(* A step that leaves the walk as it is.                                   *)
LEMMA TourStays ==
  ASSUME TourInv, UNCHANGED <<tree, node, image, mode, walkVars, phase>>
  PROVE  TourInv'
<1>1. UNCHANGED <<walk, maxDepth, stack, ancestors, start, seen>>
  BY DEF walkVars
<1>2. CASE walk \in NoTour /\ seen = <<>>
  <2>1. walk' \in NoTour /\ seen' = <<>> /\ maxDepth' \in Nat
    BY <1>1, <1>2 DEF TourInv
  <2> QED
    BY <2>1, Zenon DEF TourInv, NoTour
<1>3. CASE walk \in {"walking", "done", "cycle", "depth"}
  <2>1. walk \notin NoTour
    BY <1>3, NoTourIs
  <2>2. phase = "built" /\ \E nid \in Nat : Toured([path |-> start, nid |-> nid, type |-> "dir"])
    BY <2>1 DEF TourInv
  <2>3. PICK nid \in Nat : Toured(TheTour(nid))
    BY <2>2 DEF TheTour
  <2>4. PICK found : found = Elements(seen)
    OBVIOUS
  <2>5. /\ Explored(TheTour(nid), Limit, found, stack) /\ PathsDiffer(seen)
        /\ walk = "walking" => stack # <<>> /\ ancestors \subseteq Nids(stack)
        /\ walk = "done" => stack = <<>>
        /\ walk = "cycle" => Loops(TheTour(nid), Limit, found)
        /\ walk = "depth" => IsDeep(TheTour(nid), Limit, found) /\ maxDepth = 0
    BY <2>3, <2>4 DEF Toured
  <2>6. Elements(seen') = found
    BY <1>1, <2>4
  <2> QED
    BY <1>1, <1>3, <2>2, <2>5, <2>6, TourGoes DEF TourInv
<1> QED
  BY <1>2, <1>3 DEF TourInv

(* A path that a client may ask for is missing, or leads to a node.        *)
LEMMA PathLeads ==
  ASSUME Packed, DirInv, source = FromHost,
         NEW path \in {e.path : e \in Reachable \cup {TheRoot}} \cup {<<n>> : n \in Name \ {Dot, DotDot}}
  PROVE  \/ Lookup(path) = Missing
         \/ \E m \in Reached(tree) :
              /\ Lookup(path) = node[m].nid /\ Leads(tree, node, path, node[m].nid)
              /\ path \in Seq(Name) /\ Len(path) <= DefaultMaxDepth
<1>0. DefaultMaxDepth \in Nat /\ DefaultMaxDepth >= 1
  BY ReaderAssumption DEF ReaderAssumption
<1>1. \A e \in Reachable \cup {TheRoot} : e \in Spots /\ Leads(tree, node, e.path, e.nid)
        /\ Len(e.path) <= DefaultMaxDepth
  BY <1>0, ReachableIs DEF Rooted
<1>2. CASE path \in {e.path : e \in Reachable \cup {TheRoot}}
  <2>1. PICK e \in Reachable \cup {TheRoot} : path = e.path
    BY <1>2
  <2>2. Lookup(path) = e.nid /\ path \in Seq(Name)
    BY <2>1, LookupIsExact
  <2>3. Owner(e.nid) \in Reached(tree) /\ e.nid = node[Owner(e.nid)].nid
    BY <1>1, SpotIs
  <2> QED
    BY <1>1, <2>1, <2>2, <2>3
<1>3. CASE path \in {<<n>> : n \in Name \ {Dot, DotDot}}
  <2>1. PICK n \in Name \ {Dot, DotDot} : path = <<n>>
    BY <1>3
  <2>2. path \in Seq(Name) /\ Len(path) = 1 /\ path = Append(<<>>, n)
    BY <2>1
  <2>3. TheRoot.path = <<>> /\ TheRoot.nid = node[Root].nid /\ Root \in Reached(tree)
    BY ReachedFacts DEF Packed, BuildTypes, TheRoot, RootNid
  <2>4. Owner(TheRoot.nid) = Root
    BY <2>3, OwnerIs
  <2>5. \/ Lookup(path) = Missing
        \/ \E c \in Children(Root) : tree.name[c] = n /\ Lookup(path) = node[c].nid
    <3>1. PICK e \in Reachable \cup {TheRoot} : e = TheRoot
      OBVIOUS
    <3>2. \A x \in Name \ {Dot, DotDot} :
            \/ Lookup(Append(e.path, x)) = Missing
            \/ \E c \in Children(Owner(e.nid)) : tree.name[c] = x /\ Lookup(Append(e.path, x)) = node[c].nid
      BY LookupIsExact
    <3>3. e.path = <<>> /\ Owner(e.nid) = Root
      BY <2>3, <2>4, <3>1
    <3>4. Append(e.path, n) = path
      BY <2>2, <3>3
    <3> QED
      BY <2>1, <3>2, <3>3, <3>4
  <2>6. CASE Lookup(path) = Missing
    BY <2>6
  <2>7. ASSUME NEW c \in Children(Root), tree.name[c] = n, Lookup(path) = node[c].nid
        PROVE  Leads(tree, node, path, node[c].nid) /\ c \in Reached(tree)
    <3>1. Leads(tree, node, <<>>, TheRoot.nid) /\ <<>> \in Seq(Name)
      BY <1>1, <2>3
    <3>2. Leads(tree, node, Append(<<>>, tree.name[c]), node[c].nid)
      BY <2>4, <2>7, <3>1, WayExtends
    <3>3. c \in Reached(tree)
      BY <2>3, <2>7, ChildrenAre
    <3> QED
      BY <2>2, <2>7, <3>2, <3>3
  <2> QED
    BY <1>0, <2>2, <2>5, <2>6, <2>7
<1> QED
  BY <1>2, <1>3

(* A directory that was reached can be opened.                             *)
LEMMA DirOpens ==
  ASSUME Packed, DirInv, NEW m \in Reached(tree), IsDir(m)
  PROVE  Opens(node[m].nid)
<1>1. 1 \in 1..node[m].blocks
  BY DirIs
<1>2. PICK block, k : block = ReadBlock(node[m].nid, (k - 1) * BlockSize) /\ k = 1
  OBVIOUS
<1>3. block # NoBlock
  BY <1>1, <1>2, DirBlocks
<1>4. (k - 1) * BlockSize = 0
  BY <1>2, LayoutAssumption DEF LayoutAssumption
<1> QED
  BY <1>2, <1>3, <1>4 DEF Opens

LEMMA TourBegins ==
  ASSUME Packed, DirInv, NEW path \in Seq(Name), Len(path) <= DefaultMaxDepth,
         NEW m \in Reached(tree), IsDir(m), NEW nid, nid = node[m].nid, Leads(tree, node, path, nid),
         UNCHANGED <<tree, node, image, mode>>, phase' = "built",
         walk' = "walking", maxDepth' \in Nat, stack' = <<Frame(nid, path)>>, ancestors' = {nid},
         start' = path, seen' = <<>>
  PROVE  TourInv'
<1>1. PICK S, depth, frame, frames :
        /\ S = [path |-> path, nid |-> nid, type |-> "dir"] /\ frame = Frame(nid, path)
        /\ depth = Limit' /\ frames = <<frame>>
  OBVIOUS
<1>2. S.path = path /\ S.nid = nid /\ S.type = "dir" /\ frames = <<Frame(S.nid, S.path)>>
  BY <1>1
<1>3. nid \in Nat
  BY NodeIs DEF Here
<1>4. Begins(S)
  <2>1. S \in Spots
    <3>1. tree.type[m] = "dir" /\ "dir" \in HostType
      BY DEF IsDir, HostType
    <3> QED
      BY <1>1, <1>3, <3>1 DEF Spots
  <2>2. Owner(S.nid) = m
    BY <1>2, OwnerIs
  <2> QED
    BY <1>2, <2>1, <2>2 DEF Begins
<1>5. depth \in Nat /\ depth > 0
  BY <1>1, ReaderAssumption DEF Limit, ReaderAssumption
<1>6. PICK none : none = {}
  OBVIOUS
<1>7. Explored(S, depth, none, frames)
  BY <1>2, <1>4, <1>5, <1>6, WalkBegins
<1>8. Explored(S, depth, none, frames)'
  BY <1>7, ToursAlike
<1>9. Elements(seen)' = none /\ PathsDiffer(seen)'
  BY <1>6 DEF Elements, PathsDiffer
<1>10. stack' = frames /\ stack' # <<>> /\ ancestors' \subseteq Nids(stack)'
  <2>1. frame.nid = nid
    BY <1>1 DEF Frame
  <2>2. Len(frames) = 1 /\ frames[1] = frame
    BY <1>1
  <2>3. 1 \in 1..Len(frames) /\ frames[1].nid = nid
    BY <2>1, <2>2
  <2>4. nid \in {frames[k].nid : k \in 1..Len(frames)}
    BY <2>3
  <2>5. stack' = frames
    BY <1>1
  <2> QED
    BY <2>2, <2>4, <2>5 DEF Nids
<1>11. Toured(S)'
  BY <1>1, <1>2, <1>8, <1>9, <1>10 DEF Toured
<1>12. Toured([path |-> start, nid |-> nid, type |-> "dir"])'
  BY <1>1, <1>11
<1> QED
  BY <1>3, <1>12 DEF TourInv

LEMMA StartTours ==
  ASSUME Packed, DirInv, WalkInv, TourInv, UNCHANGED <<image, builderVars, source>>, Start
  PROVE  TourInv'
<1>1. phase' = "built" /\ phase = "built" /\ UNCHANGED <<tree, node, image>>
  BY DEF Packed, builderVars
<1>a. PICK path \in {e.path : e \in Reachable \cup {TheRoot}} \cup {<<n>> : n \in Name \ {Dot, DotDot}} :
        StartWalk(path)
  BY DEF Start
<1>b. PICK nid : nid = Lookup(path)
  OBVIOUS
<1>c. walk = "idle"
  BY <1>a, Zenon DEF StartWalk
<1>2. /\ path \in {e.path : e \in Reachable \cup {TheRoot}} \cup {<<n>> : n \in Name \ {Dot, DotDot}}
      /\ walk = "idle" /\ nid = Lookup(path) /\ StartWalk(path)
  BY <1>a, <1>b, <1>c
<1>3. seen = <<>> /\ maxDepth \in Nat
  BY <1>2 DEF TourInv
<1>4. CASE nid = Missing
  <2>0. nid # Broken /\ ~(nid >= 0)
    BY <1>4 DEF Missing, Broken
  <2>2. Stop("not found")
    BY <1>2, <2>0, Zenon DEF StartWalk
  <2>1. walk' \in NoTour /\ seen' = seen /\ maxDepth' = maxDepth
    BY <2>2, Zenon DEF Stop, NoTour
  <2> QED
    BY <1>3, <2>1, Zenon DEF TourInv
<1>5. CASE nid # Missing
  <2>1. PICK m \in Reached(tree) :
          /\ nid = node[m].nid /\ Leads(tree, node, path, nid)
          /\ path \in Seq(Name) /\ Len(path) <= DefaultMaxDepth
    BY <1>2, <1>5, PathLeads DEF Packed
  <2>2. nid \in Nat /\ InodeAt(nid).type = tree.type[m]
    BY <2>1, NodeIs, TheFieldsAre DEF Here
  <2>3. nid # Missing /\ nid # Broken
    BY <2>2 DEF Missing, Broken
  <2>4. CASE ~IsDir(m)
    <3>1. InodeAt(nid).type # "dir"
      BY <2>2, <2>4 DEF IsDir
    <3>2. Stop("not a directory")
      BY <1>2, <2>3, <3>1, Zenon DEF StartWalk
    <3>3. walk' \in NoTour /\ seen' = seen /\ maxDepth' = maxDepth
      BY <3>2, Zenon DEF Stop, NoTour
    <3> QED
      BY <1>3, <3>3, Zenon DEF TourInv
  <2>5. CASE IsDir(m)
    <3>1. InodeAt(nid).type = "dir" /\ Opens(nid)
      BY <2>1, <2>2, <2>5, DirOpens DEF IsDir
    <3>2. /\ walk' = "walking" /\ maxDepth' \in Depths
          /\ stack' = <<Frame(nid, path)>> /\ ancestors' = {nid} /\ start' = path
          /\ UNCHANGED <<mode, seen, file>>
      BY <1>2, <2>3, <3>1, Zenon DEF StartWalk
    <3>3. maxDepth' \in Nat /\ seen' = <<>> /\ UNCHANGED <<tree, node, image, mode>>
      BY <1>1, <1>3, <3>2, ReaderAssumption DEF ReaderAssumption
    <3> QED
      BY <1>1, <2>1, <2>5, <3>2, <3>3, TourBegins
  <2> QED
    BY <2>4, <2>5
<1> QED
  BY <1>4, <1>5

LEMMA ReadTours ==
  ASSUME Packed, DirInv, WalkInv, FileInv, TourInv, UNCHANGED <<image, builderVars, source>>,
         ReaderStep \/ OpenFile
  PROVE  TourInv'
<1>1. UNCHANGED <<tree, node, image, phase>>
  BY DEF builderVars
<1>2. CASE OpenFile \/ ReadEof
  BY <1>1, <1>2, TourStays DEF OpenFile, ReadEof
<1>3. ASSUME NEW n \in ReadSizes, ReadBuffered(n) \/ ReadAnew(n) PROVE TourInv'
  <2>1. file.state = "open" /\ ~AtEof
    BY <1>3 DEF ReadBuffered, ReadAnew
  <2>2. PICK m \in DOMAIN node : Reading(m)
    BY <2>1 DEF FileInv, NoFile
  <2>3. file.offset < InodeAt(file.nid).size
    <3>1. InodeAt(file.nid).size = node[m].size /\ node[m].size \in Nat
      BY <2>2, NodeIs, TheFieldsAre DEF Reading
    <3> QED
      BY <2>1, <2>2, <3>1 DEF AtEof, Reading
  <2>4. ReadBlock(file.nid, file.offset) # NoBlock
    BY <2>2, <2>3, FileHasBlock
  <2>5. UNCHANGED <<mode, walkVars>>
    BY <1>3, <2>4 DEF ReadBuffered, ReadAnew
  <2> QED
    BY <1>1, <2>5, TourStays
<1> QED
  BY <1>2, <1>3, NextBlockTours, PopDirTours, BadDirentTours, SkipDotTours, RefuseEntryTours,
     YieldEntryTours DEF ReaderStep

(* While the image is built nobody walks.                                  *)
LEMMA BuildTours ==
  ASSUME TourInv, phase # "built", UNCHANGED readerVars
  PROVE  TourInv'
<1>1. walk' = walk /\ seen' = seen /\ maxDepth' = maxDepth
  BY DEF readerVars, walkVars
<1>2. maxDepth \in Nat /\ walk \in NoTour /\ seen = <<>>
  BY DEF TourInv
<1>3. walk' \in NoTour
  BY <1>1, <1>2, Zenon DEF NoTour
<1> QED
  BY <1>1, <1>2, <1>3 DEF TourInv

ToursInv == PackedInv /\ (source = FromHost => TourInv)

LEMMA ToursInit == Init => ToursInv
<1>1. SUFFICES ASSUME Init PROVE TourInv /\ PackedInv
  BY DEF ToursInv
<1>2. walk \in NoTour /\ seen = <<>> /\ maxDepth = 0
  BY <1>1, Zenon DEF Init, ReaderInit, NoTour
<1> QED
  BY <1>1, <1>2, PackedInit DEF TourInv

LEMMA ToursStep == ToursInv /\ [Next]_vars => ToursInv'
<1>1. SUFFICES ASSUME ToursInv, [Next]_vars, source = FromHost, source' = source PROVE TourInv'
  <2>1. [Next]_vars => source' = source
    BY DEF Next, Step, Build, Intrude, Start, Read, Inspect, Terminated, vars
  <2> QED
    BY <2>1, PackedStep DEF ToursInv
<1>2. BuildTypes /\ LayInv /\ EmitInv /\ WalkInv /\ FileInv /\ DirInv /\ TourInv
  BY <1>1 DEF ToursInv, PackedInv, HostInv
<1>3. CASE Build \/ Intrude
  <2>1. phase # "built" /\ UNCHANGED readerVars
    BY <1>3 DEF Build, Intrude, BuilderStep, RefuseNode, ScanNode, AssignNid, PlaceDirent, LayoutDir,
                LayoutPayload, OutOfBlocks, EmitNode, FileChanged, HostWrite
  <2> QED
    BY <1>2, <2>1, BuildTours
<1>4. CASE Start \/ Read
  <2>1. Packed /\ UNCHANGED <<image, builderVars, source>>
    BY <1>1, <1>2, <1>4 DEF Packed, Start, Read
  <2> QED
    BY <1>2, <1>4, <2>1, StartTours, ReadTours DEF Read
<1>5. CASE Inspect \/ Terminated \/ UNCHANGED vars
  <2>1. UNCHANGED <<tree, node, image, mode, walkVars, phase>>
    BY <1>5 DEF Inspect, Terminated, vars, builderVars, readerVars
  <2> QED
    BY <1>2, <2>1, TourStays
<1> QED
  BY <1>1, <1>3, <1>4, <1>5 DEF Next, Step

(* A walk of a packed image yields what lies below its start in the host   *)
(* tree, each path once, all of it to the depth asked for when it ends,    *)
(* and it never reports damage; a cycle or the limit only where there is   *)
(* one.                                                                    *)
THEOREM PackedWalkIsExact == Spec => [](source = FromHost => WalkIsExact)
<1>1. ToursInv => (source = FromHost => WalkIsExact)
  <2>1. SUFFICES ASSUME ToursInv, source = FromHost PROVE WalkIsExact
    OBVIOUS
  <2>2. CASE phase = "built"
    <3>1. Packed /\ DirInv /\ TourInv /\ Sequence(seen)
      BY <2>1, <2>2 DEF ToursInv, PackedInv, HostInv, Packed, WalkInv
    <3> QED
      BY <2>1, <3>1, ToursAreExact
  <2>3. CASE phase # "built"
    BY <2>3 DEF WalkIsExact
  <2> QED
    BY <2>2, <2>3
<1> QED
  BY <1>1, ToursInit, ToursStep, PTL DEF Spec

-----------------------------------------------------------------------------
(* The locator in a packed image.                                          *)

TheNode(n) ==
  [nid |-> node[n].nid, at |-> node[n].nid, inode |-> TheInode(n)[1], xattrs |-> node[n].nid + 2,
   behind |-> node[n].nid + 2, located |-> TRUE]

LEMMA InodeCells ==
  ASSUME Packed, NEW n \in Reached(tree), NEW nid, nid = node[n].nid
  PROVE  /\ nid \in Nat /\ nid + 1 \in DOMAIN image /\ nid \in DOMAIN image
         /\ image[nid] = TheInode(n)[1]
         /\ TheInode(n)[1].version = "extended" /\ TheInode(n)[1].xattrs = 0
<1>1. Written(image, nid, TheInode(n)) /\ nid \in Nat
  BY NodeIs DEF Packed, EmitInv, Emitted, Here
<1>2. nid + 1 - 1 = nid /\ nid + 2 - 1 = nid + 1
  BY <1>1
<1>3. \A i \in 1..2 : nid + i - 1 \in DOMAIN image /\ image[nid + i - 1] = TheInode(n)[i]
  BY <1>1, TheInodeIs DEF Written
<1>4. PICK inode : inode = TheInode(n)[1]
  OBVIOUS
<1>5. inode = [is |-> "inode", version |-> "extended", layout |-> "plain",
               xattrs |-> 0, type |-> tree.type[n], size |-> node[n].size, addr |-> node[n].blkaddr]
  BY <1>4, TheInodeIs
<1>6. inode.version = "extended" /\ inode.xattrs = 0
  BY <1>5
<1> QED
  BY <1>1, <1>2, <1>3, <1>4, <1>6

LEMMA NodeLocated ==
  ASSUME Packed, NEW n \in Reached(tree)
  PROVE  Node(node[n].nid) = TheNode(n)
<1>1. PICK nid, inode : nid = node[n].nid /\ inode = TheInode(n)[1]
  OBVIOUS
<1>2. nid \in Nat /\ nid + 1 \in DOMAIN image /\ nid \in DOMAIN image /\ image[nid] = inode
  BY <1>1, InodeCells
<1>3. inode.is = "inode" /\ inode.version = "extended" /\ inode.xattrs = 0
  BY <1>1, InodeCells, TheFieldsAre
<1>4. PrimaryOffset(nid) = nid
  BY <1>2, ImageIs DEF PrimaryOffset, InodeOffset
<1>5. AsInode(CellAt(nid)) = inode /\ SizeOf(inode) = 2
  BY <1>2, <1>3 DEF AsInode, CellAt, SizeOf
<1>6. IsWithin(Span(nid, 2)) = TRUE
  BY <1>2, ImageIs DEF IsWithin, Span
<1>7. nid + 2 + 0 = nid + 2
  BY <1>2
<1> QED
  BY <1>1, <1>3, <1>4, <1>5, <1>6, <1>7 DEF Node, DecodeAt, Decode, TheNode

(* Nothing is found nowhere.                                               *)
LEMMA NoCells ==
  ASSUME NEW whole
  PROVE  CellsOf(Nowhere, whole) = {}
BY DEF CellsOf, Nowhere, Span

LEMMA InodeLocated ==
  ASSUME Packed, NEW n \in Reached(tree), NEW o, o = InodeObject(node[n].nid)
  PROVE  /\ Locate(o) = Span(node[n].nid, 2) /\ Found(o) = node[n].nid..(node[n].nid + 1)
<1>1. PICK nid : nid = node[n].nid
  OBVIOUS
<1>2. nid \in Nat /\ nid + 1 \in DOMAIN image /\ DOMAIN image = 0..(End - 1) /\ End \in Nat
  BY <1>1, InodeCells, ImageIs
<1>3. Locate(o) = LocateInode(TheNode(n))
  BY NodeLocated DEF Locate, LocateIn, InodeObject, Object
<1>4. Locate(o) = Span(nid, 2)
  <2>1. TheInode(n)[1].version = "extended"
    BY InodeCells
  <2> QED
    BY <1>1, <1>3, <2>1 DEF LocateInode, TheNode, Where, SizeOf
<1>5. Found(o) = CellsOf(Span(nid, 2), FALSE)
  BY <1>4 DEF Found, InodeObject, Object
<1>6. CellsOf(Span(nid, 2), FALSE) = nid..(nid + 1)
  BY <1>2 DEF CellsOf, Span
<1> QED
  BY <1>1, <1>4, <1>5, <1>6

(* How much of a block the last one of a node has.                         *)
LEMMA TailIs ==
  ASSUME NEW S \in Nat, S > 0, NEW size \in Nat, NEW b \in Nat, b * S < size
  PROVE  (IF size % S # 0 /\ b = (size - 1) \div S THEN size % S ELSE S) = AtMost(size - b * S, S)
<1>1. PICK q \in Nat, r \in 0..(S - 1) : size = q * S + r /\ size \div S = q /\ size % S = r
  BY DivIs
<1>2. size > 0
  <2>1. b * S \in Nat
    OBVIOUS
  <2> QED
    BY <2>1
<1>3. PICK p \in Nat, t \in 0..(S - 1) : size - 1 = p * S + t /\ (size - 1) \div S = p
  <2>1. size - 1 \in Nat
    BY <1>2
  <2> QED
    BY <2>1, DivIs
<1>4. PICK qs, ps, bs : qs = q * S /\ ps = p * S /\ bs = b * S
  OBVIOUS
<1>5. qs \in Nat /\ ps \in Nat /\ bs \in Nat /\ size = qs + r /\ size - 1 = ps + t /\ bs < size
  BY <1>1, <1>3, <1>4
<1>6. r \in Nat /\ r < S /\ t \in Nat /\ t < S
  BY <1>1, <1>3
<1>7. ASSUME NEW x \in Nat, NEW y \in Nat, x < y PROVE x * S + S <= y * S /\ x * S \in Nat /\ y * S \in Nat
  <2>1. (x + 1) * S <= y * S /\ x + 1 \in Nat /\ y * S \in Nat
    BY <1>7, Scaled
  <2>2. (x + 1) * S = x * S + 1 * S /\ x * S \in Nat /\ 1 * S = S
    BY Spread
  <2> QED
    BY <2>1, <2>2
<1>8. CASE r # 0
  <2>1. p = q
    <3>1. ~(p < q)
      <4>1. ASSUME p < q PROVE FALSE
        <5>1. ps + S <= qs
          BY <1>4, <1>7, <4>1
        <5> QED
          BY ONLY <1>5, <1>6, <1>8, <5>1, S \in Nat
      <4> QED
        BY <4>1
    <3>2. ~(q < p)
      <4>1. ASSUME q < p PROVE FALSE
        <5>1. qs + S <= ps
          BY <1>4, <1>7, <4>1
        <5> QED
          BY ONLY <1>5, <1>6, <1>8, <5>1, S \in Nat, S > 0
      <4> QED
        BY <4>1
    <3> QED
      BY <3>1, <3>2
  <2>2. CASE b = p
    <3>1. bs = qs /\ AtMost(size - bs, S) = r
      <4>1. bs = qs
        BY <1>4, <2>1, <2>2
      <4> QED
        BY ONLY <1>5, <1>6, <4>1, S \in Nat DEF AtMost
    <3> QED
      BY <1>1, <1>3, <1>4, <1>8, <2>2, <3>1
  <2>3. CASE b # p
    <3>1. b < q
      <4>1. ~(q < b)
        <5>1. ASSUME q < b PROVE FALSE
          <6>1. qs + S <= bs
            BY <1>4, <1>7, <5>1
          <6> QED
            BY ONLY <1>5, <1>6, <6>1, S \in Nat
        <5> QED
          BY <5>1
      <4> QED
        BY <2>1, <2>3, <4>1
    <3>2. bs + S <= qs
      BY <1>4, <1>7, <3>1
    <3>3. AtMost(size - bs, S) = S
      BY ONLY <1>5, <1>6, <3>2, S \in Nat DEF AtMost
    <3> QED
      BY <1>3, <1>4, <2>3, <3>3
  <2> QED
    BY <2>2, <2>3
<1>9. CASE r = 0
  <2>1. b < q
    <3>1. ASSUME q <= b PROVE FALSE
      <4>1. qs <= bs
        BY <1>4, <3>1, Scaled
      <4> QED
        BY ONLY <1>5, <1>9, <4>1
    <3> QED
      BY <3>1
  <2>2. bs + S <= qs
    BY <1>4, <1>7, <2>1
  <2>3. AtMost(size - bs, S) = S
    BY ONLY <1>5, <1>9, <2>2, S \in Nat DEF AtMost
  <2> QED
    BY <1>1, <1>4, <1>9, <2>3
<1> QED
  BY <1>8, <1>9

(* A dirent is found where the reader finds it.                            *)
LEMMA DirentLocated ==
  ASSUME Packed, NEW n \in Reached(tree), NEW b \in Nat, NEW i \in Nat,
         NEW o, o = Object("dirent", node[n].nid, b, i),
         NEW block, block = ReadBlock(node[n].nid, b * BlockSize)
  PROVE  IF b * BlockSize < node[n].size /\ i < Count(block) /\ Count(block) < block.len
         THEN Locate(o) = Span(block.at + i, 1) /\ Found(o) = {block.at + i}
         ELSE Locate(o) = Nowhere /\ Found(o) = {}
<1>1. PICK size, addr, nid, inode, S :
        /\ size = node[n].size /\ addr = node[n].blkaddr /\ nid = node[n].nid /\ inode = TheInode(n)[1]
        /\ S = BlockSize
  OBVIOUS
<1>2. /\ S \in Nat /\ S > 0 /\ size \in Nat /\ addr \in Nat /\ End \in Nat /\ DOMAIN image = 0..(End - 1)
      /\ inode.layout = "plain" /\ inode.size = size /\ inode.addr = addr
      /\ Here(nid) /\ InodeAt(nid) = inode
  BY <1>1, NodeIs, TheFieldsAre, ImageIs, LayoutAssumption DEF LayoutAssumption
<1>3. Locate(o) = LocateDirent(TheNode(n), b, i)
  BY NodeLocated DEF Locate, LocateIn, Object
<1>4. Found(o) = CellsOf(Locate(o), FALSE)
  BY DEF Found, Object
<1> DEFINE avail == IF IsTail(inode, b) THEN size % S ELSE S
           base == (addr + b) * S
<1>8. IsTail(inode, b) <=> size % S # 0 /\ b = (size - 1) \div S
  BY <1>1, <1>2 DEF IsTail
<1>5. Locate(o) = Where(b * S < size, DirentIn(base, avail, i))
  <2>1. PICK nd : nd = TheNode(n)
    OBVIOUS
  <2>2. nd.inode = inode /\ nd.located = TRUE
    BY <1>1, <2>1 DEF TheNode
  <2>3. Locate(o) = Where(b * S < size, DirentIn(base, IF IsTail(inode, b) THEN size % S ELSE S, i))
    <3>1. PICK tail : tail = IsTail(inode, b)
      OBVIOUS
    <3>2. LocateDirent(nd, b, i) =
            Where(/\ nd.located /\ b * S < size /\ inode.layout \in {"plain", "inline"},
                  DirentIn(base, IF tail THEN size % S ELSE S, i))
      BY <1>1, <1>2, <2>2, <3>1 DEF LocateDirent
    <3> HIDE DEF base
    <3> QED
      BY <1>2, <1>3, <2>1, <2>2, <3>1, <3>2 DEF Where
  <2> QED
    BY <2>3
<1>6. CASE b * S < size
  <2>1. b * S \in Nat /\ (b * S) \div S = b
    <3>1. 0 \in 0..(S - 1) /\ b * S \in Nat
      BY <1>2
    <3>2. (b * S + 0) \div S = b
      BY <1>2, <3>1, DivMod
    <3>3. b * S + 0 = b * S
      BY <3>1
    <3> QED
      BY <3>1, <3>2, <3>3
  <2>2. /\ block # NoBlock /\ GoodBlock(block)
        /\ block = [at |-> (addr + b) * S, len |-> AtMost(size - b * S, S)]
    <3>1. block # NoBlock
      BY <1>1, <1>6, <2>1, BlockLies
    <3>2. PICK offset : offset = b * S
      OBVIOUS
    <3>3. /\ offset \in Nat /\ offset \div S = b /\ block = ReadBlock(nid, offset)
          /\ ReadBlock(nid, offset) # NoBlock
      BY <1>1, <2>1, <3>1, <3>2
    <3>4. /\ GoodBlock(block)
          /\ block = [at |-> (InodeAt(nid).addr + (offset \div BlockSize)) * BlockSize,
                      len |-> AtMost(InodeAt(nid).size - (offset \div BlockSize) * BlockSize, BlockSize)]
      BY <1>2, <3>3, BlockIs
    <3>5. InodeAt(nid).addr = addr /\ InodeAt(nid).size = size /\ offset \div BlockSize = b /\ BlockSize = S
      BY <1>1, <1>2, <3>3
    <3>6. block = [at |-> (addr + b) * S, len |-> AtMost(size - b * S, S)]
      BY <3>4, <3>5
    <3> QED
      BY <3>1, <3>4, <3>6
  <2>3. avail = AtMost(size - b * S, S)
    <3>1. (IF size % S # 0 /\ b = (size - 1) \div S THEN size % S ELSE S) = AtMost(size - b * S, S)
      BY <1>2, <1>6, TailIs
    <3>2. avail = IF size % S # 0 /\ b = (size - 1) \div S THEN size % S ELSE S
      <4>1. CASE IsTail(inode, b)
        BY <1>8, <4>1
      <4>2. CASE ~IsTail(inode, b)
        BY <1>8, <4>2
      <4> QED
        BY <4>1, <4>2
    <3> HIDE DEF avail
    <3> QED
      BY <3>1, <3>2
  <2>4. block.at = base /\ block.len = avail /\ base \in Nat /\ avail \in Nat /\ avail > 0 /\ base + avail <= End
    <3>1. block.at = base /\ block.len = avail
      BY <2>2, <2>3
    <3>2. block.at \in Nat /\ block.len \in Nat /\ block.len > 0 /\ block.at + block.len <= End
      BY <2>2 DEF GoodBlock
    <3> HIDE DEF base, avail
    <3> QED
      BY <3>1, <3>2
  <2> HIDE DEF base, avail
  <2>5. base \in DOMAIN image /\ base + 0 = base
    BY <1>2, <2>4
  <2>6. PICK first : first = Count(block)
    OBVIOUS
  <2>7. first \in Nat /\ first = (IF Is(base, "dirent") THEN CellAt(base).off ELSE 0)
    <3>1. first \in Nat
      BY <2>2, <2>6, CountIs
    <3> QED
      BY <2>4, <2>5, <2>6, <3>1 DEF Count, DirentAt, Is, CellAt, Dirent
  <2>8. Locate(o) = Where(/\ i < avail /\ base + i < End
                          /\ first # 0 /\ first < avail /\ i < first,
                          Span(base + i, 1))
    BY <1>5, <1>6, <2>7 DEF DirentIn, Where
  <2>9. CASE i < first /\ first < avail
    <3>1. i < avail /\ base + i < End /\ first # 0
      BY <1>2, <2>4, <2>7, <2>9
    <3>2. Locate(o) = Span(base + i, 1)
      BY <2>8, <2>9, <3>1 DEF Where
    <3>3. CellsOf(Span(base + i, 1), FALSE) = {base + i}
      BY <2>4, <3>1 DEF CellsOf, Span
    <3> QED
      BY <1>1, <1>4, <1>6, <2>4, <2>6, <2>9, <3>2, <3>3
  <2>10. CASE ~(i < first /\ first < avail)
    <3>1. Locate(o) = Nowhere
      BY <2>8, <2>10 DEF Where
    <3> QED
      BY <1>1, <1>4, <1>6, <2>4, <2>6, <2>10, <3>1, NoCells
  <2> QED
    BY <2>9, <2>10
<1>7. CASE ~(b * S < size)
  <2>1. Locate(o) = Nowhere
    BY <1>5, <1>7 DEF Where
  <2> QED
    BY <1>1, <1>4, <1>7, <2>1, NoCells
<1> QED
  BY <1>6, <1>7

LEMMA LeadingIs ==
  ASSUME NEW T, NEW s \in Seq(T), NEW enders
  PROVE  /\ Leading(s, enders) \in Seq(T)
         /\ Elements(Leading(s, enders)) =
              {s[i] : i \in {k \in 1..Len(s) : \A j \in 1..k : s[j] \notin enders}}
<1>1. PICK ends : ends = {i \in DOMAIN s : s[i] \in enders}
  OBVIOUS
<1>2. DOMAIN s = 1..Len(s) /\ Len(s) \in Nat
  OBVIOUS
<1>3. CASE ends = {}
  <2>1. Leading(s, enders) = s
    BY <1>1, <1>3 DEF Leading
  <2>2. {k \in 1..Len(s) : \A j \in 1..k : s[j] \notin enders} = 1..Len(s)
    BY <1>1, <1>2, <1>3
  <2> QED
    BY <1>2, <2>1, <2>2 DEF Elements
<1>4. CASE ends # {}
  <2>1. ends \in SUBSET Nat
    BY <1>1, <1>2
  <2>2. PICK m : m = Sets!Min(ends) /\ m \in ends /\ \A x \in ends : m <= x
    BY <1>4, <2>1, MinIs
  <2>3. Leading(s, enders) = SubSeq(s, 1, m - 1)
    BY <1>1, <1>4, <2>2 DEF Leading
  <2>4. m \in 1..Len(s) /\ s[m] \in enders
    BY <1>1, <1>2, <2>2
  <2>5. {k \in 1..Len(s) : \A j \in 1..k : s[j] \notin enders} = 1..(m - 1)
    <3>1. ASSUME NEW k \in 1..Len(s), \A j \in 1..k : s[j] \notin enders PROVE k \in 1..(m - 1)
      <4>1. m \notin 1..k
        BY <2>4, <3>1
      <4> QED
        BY <1>2, <2>4, <4>1
    <3>2. ASSUME NEW k \in 1..(m - 1) PROVE k \in 1..Len(s) /\ \A j \in 1..k : s[j] \notin enders
      <4>1. k \in 1..Len(s)
        BY <1>2, <2>4
      <4>2. ASSUME NEW j \in 1..k PROVE s[j] \notin enders
        <5>1. j \in 1..Len(s) /\ ~(m <= j)
          BY <1>2, <2>4
        <5>2. j \notin ends
          BY <2>2, <5>1
        <5> QED
          BY <1>1, <1>2, <5>1, <5>2
      <4> QED
        BY <4>1, <4>2
    <3> QED
      BY <3>1, <3>2
  <2>6. PICK t : t = SubSeq(s, 1, m - 1)
    OBVIOUS
  <2>7. t \in Seq(T) /\ DOMAIN t = 1..(m - 1) /\ \A i \in 1..(m - 1) : t[i] = s[i]
    BY <1>2, <2>4, <2>6
  <2>8. Elements(t) = {s[i] : i \in 1..(m - 1)}
    BY <2>7 DEF Elements
  <2> QED
    BY <2>3, <2>5, <2>6, <2>7, <2>8
<1> QED
  BY <1>3, <1>4

(* Dirents that are listed: those that the reader would read as well.      *)
Shows(n, b, i) ==
  \E block \in {ReadBlock(node[n].nid, b * BlockSize)} :
    b * BlockSize < node[n].size /\ i < Count(block) /\ Count(block) < block.len

ObjectType == [is : {"dirent"}, nid : Nat, block : Nat, index : Nat]
DirentsOf(n) ==
  {o \in ObjectType : o.nid = node[n].nid /\ o.index \in 0..(BlockSize - 1) /\ Shows(n, o.block, o.index)}

LEMMA ShowsFound ==
  ASSUME Packed, NEW n \in Reached(tree), NEW b \in Nat, NEW i \in Nat
  PROVE  /\ Shows(n, b, i) <=> IsFound(Object("dirent", node[n].nid, b, i))
         /\ Shows(n, b, i) => \A j \in 0..i : Shows(n, b, j)
<1>1. PICK block : block = ReadBlock(node[n].nid, b * BlockSize)
  OBVIOUS
<1>2. PICK o : o = Object("dirent", node[n].nid, b, i)
  OBVIOUS
<1>3. IF b * BlockSize < node[n].size /\ i < Count(block) /\ Count(block) < block.len
      THEN Found(o) = {block.at + i} ELSE Found(o) = {}
  BY <1>1, <1>2, DirentLocated
<1>4. Shows(n, b, i) <=> IsFound(o)
  BY <1>1, <1>3 DEF Shows, IsFound
<1>5. ASSUME Shows(n, b, i), NEW j \in 0..i PROVE Shows(n, b, j)
  <2>1. b * BlockSize < node[n].size /\ i < Count(block) /\ Count(block) < block.len
    BY <1>1, <1>5 DEF Shows
  <2>2. ReadBlock(node[n].nid, b * BlockSize) # NoBlock
    BY <2>1, BlockLies, LayoutAssumption DEF LayoutAssumption
  <2>3. Count(block) \in Nat
    <3>1. Here(node[n].nid) /\ b * BlockSize \in Nat
      BY NodeIs, LayoutAssumption DEF LayoutAssumption
    <3>2. GoodBlock(block)
      BY <1>1, <2>2, <3>1, BlockIs
    <3> QED
      BY <3>2, CountIs
  <2>4. j < Count(block)
    BY <2>1, <2>3
  <2> QED
    BY <1>1, <2>1, <2>4 DEF Shows
<1> QED
  BY <1>2, <1>4, <1>5

LEMMA EachIs ==
  ASSUME Packed, NEW n \in Reached(tree), NEW b \in Nat
  PROVE  /\ Each("dirent", node[n].nid, b, BlockSize) \in Seq(ObjectType)
         /\ Elements(Each("dirent", node[n].nid, b, BlockSize)) = {o \in DirentsOf(n) : o.block = b}
<1>1. PICK nid, S : nid = node[n].nid /\ S = BlockSize
  OBVIOUS
<1>2. nid \in Nat /\ S \in Nat
  BY <1>1, NodeIs, LayoutAssumption DEF Here, LayoutAssumption
<1>3. PICK s : s = [i \in 1..S |-> Object("dirent", nid, b, i - 1)]
  OBVIOUS
<1>4. s \in Seq(ObjectType) /\ Len(s) = S /\ \A i \in 1..S : s[i] = Object("dirent", nid, b, i - 1)
  <2>1. \A i \in 1..S : Object("dirent", nid, b, i - 1) \in ObjectType
    BY <1>2 DEF Object, ObjectType
  <2> QED
    BY <1>2, <1>3, <2>1
<1>5. PICK enders : enders = {o \in Seqs!ToSet(s) : ~IsFound(o)}
  OBVIOUS
<1>6. Each("dirent", nid, b, S) = Leading(s, enders)
  BY <1>3, <1>5 DEF Each, LeadingFound
<1>7. \A i \in 1..S : s[i] \in enders <=> ~Shows(n, b, i - 1)
  <2> SUFFICES ASSUME NEW i \in 1..S PROVE s[i] \in enders <=> ~Shows(n, b, i - 1)
    OBVIOUS
  <2>1. i - 1 \in Nat /\ s[i] \in Seqs!ToSet(s)
    BY <1>2, <1>4 DEF Seqs!ToSet
  <2>2. Shows(n, b, i - 1) <=> IsFound(s[i])
    BY <1>1, <1>4, <2>1, ShowsFound
  <2> QED
    BY <1>5, <2>1, <2>2
<1>8. \A i \in 1..S : (\A j \in 1..i : s[j] \notin enders) <=> Shows(n, b, i - 1)
  <2> SUFFICES ASSUME NEW i \in 1..S PROVE (\A j \in 1..i : s[j] \notin enders) <=> Shows(n, b, i - 1)
    OBVIOUS
  <2>1. i \in 1..i /\ i - 1 \in Nat
    BY <1>2
  <2>2. ASSUME Shows(n, b, i - 1), NEW j \in 1..i PROVE s[j] \notin enders
    <3>1. j \in 1..S /\ j - 1 \in 0..(i - 1)
      BY <1>2
    <3>2. Shows(n, b, j - 1)
      BY <2>1, <2>2, <3>1, ShowsFound
    <3> QED
      BY <1>7, <3>1, <3>2
  <2> QED
    BY <1>7, <2>1, <2>2
<1>9. PICK L : L = Leading(s, enders)
  OBVIOUS
<1>10. /\ L \in Seq(ObjectType)
       /\ Elements(L) = {s[i] : i \in {k \in 1..S : \A j \in 1..k : s[j] \notin enders}}
  <2>1. L \in Seq(ObjectType)
        /\ Elements(L) = {s[i] : i \in {k \in 1..Len(s) : \A j \in 1..k : s[j] \notin enders}}
    <3>1. /\ Leading(s, enders) \in Seq(ObjectType)
          /\ Elements(Leading(s, enders)) =
               {s[i] : i \in {k \in 1..Len(s) : \A j \in 1..k : s[j] \notin enders}}
      <4> HIDE DEF ObjectType
      <4> QED
        BY <1>4, LeadingIs
    <3> QED
      BY <1>9, <3>1
  <2> QED
    BY <1>4, <2>1
<1>11. Elements(L) = {s[i] : i \in {k \in 1..S : Shows(n, b, k - 1)}}
  BY <1>8, <1>10
<1>12. Elements(L) \subseteq {o \in DirentsOf(n) : o.block = b}
  <2> SUFFICES ASSUME NEW i \in 1..S, Shows(n, b, i - 1) PROVE s[i] \in {o \in DirentsOf(n) : o.block = b}
    BY <1>11
  <2>1. i - 1 \in 0..(S - 1) /\ s[i] = [is |-> "dirent", nid |-> nid, block |-> b, index |-> i - 1]
        /\ s[i] \in ObjectType
    BY <1>2, <1>4 DEF Object, ObjectType
  <2> QED
    BY <1>1, <2>1 DEF DirentsOf
<1>13. {o \in DirentsOf(n) : o.block = b} \subseteq Elements(L)
  <2> SUFFICES ASSUME NEW o \in DirentsOf(n), o.block = b PROVE o \in Elements(L)
    OBVIOUS
  <2>1. PICK i : i = o.index + 1
    OBVIOUS
  <2>2. o \in ObjectType /\ o.nid = nid /\ o.index \in 0..(S - 1) /\ Shows(n, b, o.index)
    BY <1>1 DEF DirentsOf
  <2>3. i \in 1..S /\ i - 1 = o.index
    BY <1>2, <2>1, <2>2
  <2>4. o = Object("dirent", nid, b, i - 1)
    BY <2>2, <2>3 DEF ObjectType, Object
  <2>5. s[i] = o
    BY <1>4, <2>3, <2>4
  <2> QED
    BY <1>11, <2>2, <2>3, <2>5
<1> QED
  BY <1>1, <1>6, <1>9, <1>10, <1>12, <1>13

LEMMA DirentsAre ==
  ASSUME Packed, NEW n \in Reached(tree)
  PROVE  /\ Dirents(TheNode(n)) \in Seq(ObjectType)
         /\ Elements(Dirents(TheNode(n))) = IF IsDir(n) THEN DirentsOf(n) ELSE {}
<1>1. PICK nid, size, nd : nid = node[n].nid /\ size = node[n].size /\ nd = TheNode(n)
  OBVIOUS
<1>2. nd.inode.type = tree.type[n] /\ nd.inode.size = size /\ nd.nid = nid /\ size \in Nat
  BY <1>1, TheFieldsAre, NodeIs DEF TheNode
<1>3. CASE ~IsDir(n)
  <2>1. Dirents(nd) = <<>>
    BY <1>2, <1>3 DEF Dirents, IsDir
  <2>2. <<>> \in Seq(ObjectType) /\ Elements(<<>>) = {}
    BY DEF Elements
  <2> QED
    BY <1>1, <1>3, <2>1, <2>2
<1>4. CASE IsDir(n)
  <2>1. PICK N : N = DivCeil(size) /\ N \in Nat
    BY <1>2, DivCeilHolds
  <2>2. PICK s : s = [b \in 1..N |-> Each("dirent", nid, b - 1, BlockSize)]
    OBVIOUS
  <2>3. \A b \in 1..N : b - 1 \in Nat
    BY <2>1
  <2>4. s \in Seq(Seq(ObjectType)) /\ Len(s) = N
        /\ \A b \in 1..N : Elements(s[b]) = {o \in DirentsOf(n) : o.block = b - 1}
    <3>1. \A b \in 1..N : s[b] \in Seq(ObjectType) /\ Elements(s[b]) = {o \in DirentsOf(n) : o.block = b - 1}
      BY <1>1, <2>2, <2>3, EachIs
    <3>2. PICK U : U = Seq(ObjectType)
      OBVIOUS
    <3>3. s \in Seq(U) /\ Len(s) = N
      BY <2>1, <2>2, <3>1, <3>2
    <3> QED
      BY <3>1, <3>2, <3>3
  <2>5. Dirents(nd) = Seqs!FlattenSeq(s)
    BY <1>2, <1>4, <2>1, <2>2 DEF Dirents, IsDir
  <2>6. Dirents(nd) \in Seq(ObjectType) /\ Elements(Dirents(nd)) = UNION {Elements(s[b]) : b \in 1..N}
    BY <2>4, <2>5, FlattenIs
  <2>7. ASSUME NEW o \in DirentsOf(n) PROVE \E b \in 1..N : o.block = b - 1
    <3>1. PICK b : b = o.block
      OBVIOUS
    <3>2. b \in Nat /\ b * BlockSize < size
      BY <1>1, <3>1 DEF DirentsOf, ObjectType, Shows
    <3>5. PICK c : c = b + 1
      OBVIOUS
    <3>3. c \in 1..N
      <4>1. ~(N <= b)
        <5>1. ASSUME N <= b PROVE FALSE
          <6>1. N * BlockSize <= b * BlockSize /\ N * BlockSize \in Nat /\ b * BlockSize \in Nat
            BY <2>1, <3>2, <5>1, Scaled, LayoutAssumption DEF LayoutAssumption
          <6>2. size <= N * BlockSize
            BY <1>2, <2>1, DivCeilHolds
          <6> QED
            BY <1>2, <3>2, <6>1, <6>2
        <5> QED
          BY <5>1
      <4> QED
        BY <2>1, <3>2, <3>5, <4>1
    <3>4. o.block = c - 1
      BY <3>1, <3>2, <3>5
    <3> QED
      BY <3>3, <3>4
  <2>8. UNION {Elements(s[b]) : b \in 1..N} = DirentsOf(n)
    BY <2>4, <2>7
  <2> QED
    BY <1>1, <1>4, <2>6, <2>8
<1> QED
  BY <1>3, <1>4

(* What a packed image has nothing of is not listed.                       *)
LEMMA NothingElse ==
  ASSUME Packed, NEW n \in Reached(tree), NEW nd, nd = TheNode(n), NEW map
  PROVE  /\ Xattrs(nd) = <<>> /\ ChunkObjects(nd) = <<>> /\ MapObjects(nd.nid) = <<>>
         /\ ExtentObjects(nd, map) = <<>> /\ IndexObjects(nd, map) = <<>> /\ PackObjects(nd, map) = <<>>
<1>1. PICK nid : nid = node[n].nid
  OBVIOUS
<1>2. /\ nd.inode.layout = "plain" /\ nd.inode.xattrs = 0 /\ nd.nid = nid /\ nd.located = TRUE
      /\ Node(nid) = nd
  BY <1>1, TheFieldsAre, InodeCells, NodeLocated DEF TheNode
<1>3. Xattrs(nd) = <<>>
  <2>1. Locate(Object("header", nid, 0, 0)) = Nowhere
    BY <1>2 DEF Locate, LocateIn, Object, LocateXattrHeader, HasXattrs, Where
  <2>2. ~IsFound(Object("header", nid, 0, 0))
    BY <2>1, NoCells DEF IsFound, Found
  <2> QED
    BY <1>2, <2>2 DEF Xattrs
<1>4. MapObjects(nid) = <<>>
  <2>1. PICK o, s : o = Object("map", nid, 0, 0) /\ s = [i \in 1..1 |-> Object("map", nid, 0, i - 1)]
    OBVIOUS
  <2>2. Locate(o) = Nowhere
    BY <1>2, <2>1 DEF Locate, LocateIn, Object, LocateMap, Where
  <2>3. ~IsFound(o)
    BY <2>2, NoCells DEF IsFound, Found
  <2>4. DOMAIN s = {1} /\ s[1] = o /\ Seqs!ToSet(s) = {o}
    BY <2>1 DEF Seqs!ToSet
  <2>5. PICK enders : enders = {x \in Seqs!ToSet(s) : ~IsFound(x)}
    OBVIOUS
  <2>6. o \in enders
    BY <2>3, <2>4, <2>5
  <2>7. PICK ends : ends = {i \in DOMAIN s : s[i] \in enders}
    OBVIOUS
  <2>8. ends = {1}
    BY <2>4, <2>6, <2>7
  <2>9. Sets!Min(ends) = 1
    <3>1. ends \in SUBSET Nat /\ ends # {}
      BY <2>8
    <3>2. Sets!Min(ends) \in ends
      BY <3>1, MinIs
    <3> QED
      BY <2>8, <3>2
  <2>10. Leading(s, enders) = SubSeq(s, 1, 0)
    <3>1. Leading(s, enders) = IF ends = {} THEN s ELSE SubSeq(s, 1, Sets!Min(ends) - 1)
      BY <2>7, Zenon DEF Leading
    <3> QED
      BY <2>8, <2>9, <3>1
  <2>11. s \in Seq({o})
    BY <2>1, <2>4
  <2>12. SubSeq(s, 1, 0) = <<>>
    BY <2>11
  <2> QED
    BY <2>1, <2>5, <2>10, <2>12 DEF MapObjects, Each, LeadingFound
<1> QED
  BY <1>2, <1>3, <1>4 DEF ChunkObjects, ExtentObjects, IndexObjects, PackObjects

(* The extent of a node: its blocks, if it has a byte and an address.      *)
DataOf(n) ==
  IF node[n].blkaddr = Unmapped THEN <<>>
  ELSE IF node[n].size > 0 THEN <<DataAt(node[n].blkaddr * BlockSize, node[n].size, 0)>> ELSE <<>>

RowFor(n, path) ==
  [object |-> InodeObject(node[n].nid), kind |-> Kind(TheInode(n)[1]), path |-> path, depth |-> Len(path),
   meta |-> <<Span(node[n].nid, 2), Span(node[n].nid + 2, 0)>>,
   data |-> DataOf(n), related |-> Dirents(TheNode(n))]

LEMMA EmptyRight ==
  ASSUME NEW T, NEW s \in Seq(T)
  PROVE  s \o <<>> = s
OBVIOUS

DataType == [at : Nat, len : Nat, logical : {0}]

LEMMA DataIs ==
  ASSUME Packed, NEW n \in Reached(tree)
  PROVE  /\ DataOf(n) \in Seq(DataType) /\ Len(DataOf(n)) \in {0, 1}
         /\ \A k \in DOMAIN DataOf(n) :
              /\ k = 1 /\ DataOf(n)[k] = DataAt(node[n].blkaddr * BlockSize, node[n].size, 0)
              /\ node[n].size > 0 /\ node[n].blkaddr # Unmapped
<1>1. node[n].blkaddr * BlockSize \in Nat /\ node[n].size \in Nat
  BY RoomHolds
<1>2. PICK d : d = DataAt(node[n].blkaddr * BlockSize, node[n].size, 0)
  OBVIOUS
<1>3. d \in DataType
  BY <1>1, <1>2 DEF DataAt, DataType
<1>4. CASE DataOf(n) = <<>>
  BY <1>4
<1>5. CASE DataOf(n) = <<d>> /\ node[n].size > 0 /\ node[n].blkaddr # Unmapped
  <2>1. <<d>> \in Seq(DataType) /\ Len(<<d>>) = 1 /\ DOMAIN <<d>> = {1} /\ <<d>>[1] = d
    BY <1>3
  <2> QED
    BY <1>2, <1>5, <2>1
<1>6. DataOf(n) = <<>> \/ (DataOf(n) = <<d>> /\ node[n].size > 0 /\ node[n].blkaddr # Unmapped)
  BY <1>2 DEF DataOf
<1> QED
  BY <1>4, <1>5, <1>6

LEMMA RowOf ==
  ASSUME Packed, NEW n \in Reached(tree), NEW path
  PROVE  InodeRow(node[n].nid, path) = RowFor(n, path)
<1>1. PICK nid, nd, map : nid = node[n].nid /\ nd = TheNode(n) /\ map = MapOf(nd)
  OBVIOUS
<1>2. /\ nd.inode = TheInode(n)[1] /\ nd.nid = nid /\ nd.at = nid /\ nd.xattrs = nid + 2
      /\ nd.inode.layout = "plain" /\ nd.inode.xattrs = 0 /\ nd.inode.version = "extended"
      /\ nd.inode.addr = node[n].blkaddr /\ nd.inode.size = node[n].size
  BY <1>1, TheFieldsAre, InodeCells DEF TheNode
<1>3. InodeRow(nid, path) = InodeRowOf(nd, map, <<>>, <<>>, <<>>, path)
  <2>1. ChunkObjects(nd) = <<>> /\ ExtentObjects(nd, map) = <<>> /\ IndexObjects(nd, map) = <<>>
    BY <1>1, NothingElse
  <2>2. Node(nid) = nd
    BY <1>1, NodeLocated
  <2> QED
    BY <1>1, <2>1, <2>2 DEF InodeRow, NodeRow, MappedRow
<1>4. FlatExtents(nd) = DataOf(n)
  BY <1>2 DEF FlatExtents, DataOf, SomeData
<1>5. ChunkExtents(nd, <<>>) = <<>> /\ RecordExtents(nd, map, <<>>) = <<>> /\ ClusterExtents(nd, map, <<>>) = <<>>
  <2>1. ASSUME NEW f, f = [k \in DOMAIN <<>> |-> f[k]] PROVE Seqs!FlattenSeq(f) = <<>>
    <3>1. f = <<>>
      BY <2>1
    <3> QED
      BY <3>1 DEF Seqs!FlattenSeq
  <2>2. ChunkExtents(nd, <<>>) = <<>>
    BY <2>1 DEF ChunkExtents
  <2>3. RecordExtents(nd, map, <<>>) = <<>>
    BY <2>1 DEF RecordExtents
  <2>4. CASE map.elsewhere
    BY <2>2, <2>3, <2>4 DEF ClusterExtents
  <2>5. CASE ~map.elsewhere
    BY <2>1, <2>2, <2>3, <2>5 DEF ClusterExtents
  <2> QED
    BY <2>4, <2>5
<1>6. FlatExtents(nd) \o ChunkExtents(nd, <<>>) \o RecordExtents(nd, map, <<>>)
        \o ClusterExtents(nd, map, <<>>) = DataOf(n)
  <2>1. DataOf(n) \in Seq(DataType) /\ DataOf(n) \o <<>> = DataOf(n)
    BY DataIs, EmptyRight
  <2> QED
    BY <1>4, <1>5, <2>1
<1>7. Dirents(nd) \o Xattrs(nd) \o <<>> \o MapObjects(nd.nid) \o <<>> \o <<>> \o PackObjects(nd, map)
        = Dirents(nd)
  <2>1. Dirents(nd) \in Seq(ObjectType) /\ Dirents(nd) \o <<>> = Dirents(nd)
    <3>1. Dirents(nd) \in Seq(ObjectType)
      BY <1>1, DirentsAre
    <3> QED
      BY <3>1, EmptyRight
  <2>2. Xattrs(nd) = <<>> /\ MapObjects(nd.nid) = <<>> /\ PackObjects(nd, map) = <<>>
    BY <1>1, NothingElse
  <2> QED
    BY <2>1, <2>2
<1>8. Span(nd.at, SizeOf(nd.inode)) = Span(nid, 2) /\ Span(nd.xattrs, nd.inode.xattrs) = Span(nid + 2, 0)
  BY <1>2 DEF SizeOf
<1> QED
  BY <1>1, <1>2, <1>3, <1>6, <1>7, <1>8 DEF InodeRowOf, RowFor

LEMMA SuperblockRowIs ==
  ASSUME Packed
  PROVE  SuperblockRow =
           [object |-> SuperblockObject, kind |-> "superblock", path |-> <<>>, depth |-> 0,
            meta |-> <<Span(SuperblockOffset, SuperblockSize)>>, data |-> <<>>, related |-> <<>>]
<1>1. Has = Plain
  BY DEF Has, Superblock, Packed, EmitInv, Super
<1>2. Has.slots = 0 /\ Has.devices = 0 /\ Has.prefixes = 0 /\ Has.algorithms = {}
  BY <1>1 DEF Plain
<1>3. ASSUME NEW i \in 1..4 PROVE Listed(Object("config", 0, 0, i - 1)) = <<>>
  <2>1. Locate(Object("config", 0, 0, i - 1)) = Nowhere
    BY <1>2 DEF Locate, LocateIn, Object, LocateConfig, Where
  <2> QED
    BY <2>1, NoCells DEF Listed, IsFound, Found
<1>4. PICK s : s = [i \in 1..4 |-> Listed(Object("config", 0, 0, i - 1))]
  OBVIOUS
<1>5. s \in Seq(Seq({})) /\ Len(s) = 4 /\ \A i \in 1..4 : s[i] = <<>>
  <2>1. \A i \in 1..4 : s[i] = <<>>
    BY <1>3, <1>4
  <2>4. <<>> \in Seq({})
    OBVIOUS
  <2>2. PICK U : U = Seq({})
    OBVIOUS
  <2>5. PICK n : n \in Nat /\ n = 4
    OBVIOUS
  <2>6. s = [i \in 1..n |-> <<>>]
    BY <1>4, <2>1, <2>5
  <2>8. <<>> \in U
    BY <2>2, <2>4
  <2>7. s \in Seq(U) /\ Len(s) = n
    BY <2>5, <2>6, <2>8
  <2>3. s \in Seq(U) /\ Len(s) = 4
    BY <2>5, <2>7
  <2> QED
    BY <2>1, <2>2, <2>3
<1>6. Seqs!FlattenSeq(s) = <<>>
  <2>1. Seqs!FlattenSeq(s) \in Seq({})
    BY <1>5, FlattenIs
  <2> QED
    BY <2>1
<1>7. PICK a, b, c : /\ a = [i \in 1..Has.slots |-> Object("extension", 0, 0, i - 1)]
                     /\ b = [i \in 1..Has.devices |-> Object("device", 0, 0, i - 1)]
                     /\ c = [i \in 1..Has.prefixes |-> Object("prefix", 0, 0, i - 1)]
  OBVIOUS
<1>8. a = <<>> /\ b = <<>> /\ c = <<>>
  BY <1>2, <1>7
<1>9. <<>> \o <<>> \o <<>> \o <<>> = <<>>
  OBVIOUS
<1>10. SuperblockSize + Has.slots = SuperblockSize
  BY <1>2, LayoutAssumption DEF LayoutAssumption
<1> QED
  BY <1>4, <1>6, <1>7, <1>8, <1>9, <1>10 DEF SuperblockRow

(* A row of a packed image: a node that was reached, with the dirents that *)
(* lie in its data.                                                        *)
RowShows(row, n, path) ==
  /\ row.object = InodeObject(node[n].nid) /\ row.kind = Kind(TheInode(n)[1])
  /\ row.path = path /\ row.depth = Len(path)
  /\ row.meta = <<Span(node[n].nid, 2), Span(node[n].nid + 2, 0)>> /\ row.data = DataOf(n)
  /\ row.related \in Seq(ObjectType)
  /\ Elements(row.related) = IF IsDir(n) THEN DirentsOf(n) ELSE {}

TheSuperblockRow ==
  [object |-> SuperblockObject, kind |-> "superblock", path |-> <<>>, depth |-> 0,
   meta |-> <<Span(SuperblockOffset, SuperblockSize)>>, data |-> <<>>, related |-> <<>>]

PackedRows ==
  /\ Sequence(rows) /\ Len(rows) > 0 /\ rows[1] = TheSuperblockRow
  /\ \A i \in 2..Len(rows) : \E n \in Reached(tree) : \E path \in Seq(Name) : RowShows(rows[i], n, path)
  /\ \A i \in 1..(Len(rows) - 1) : rows[i + 1].depth <= rows[i].depth + 1

LEMMA RowForShows ==
  ASSUME Packed, NEW n \in Reached(tree), NEW path
  PROVE  RowShows(RowFor(n, path), n, path)
BY DirentsAre DEF RowFor, RowShows

LEMMA DirentFound ==
  ASSUME Packed, NEW n \in Reached(tree), NEW o \in DirentsOf(n)
  PROVE  /\ IsFiniteSet(Found(o)) /\ Found(o) \in SUBSET Nat
         /\ \E block \in {ReadBlock(node[n].nid, o.block * BlockSize)} :
              /\ GoodBlock(block) /\ o.block * BlockSize \in Nat /\ o.block * BlockSize < node[n].size
              /\ o.index < Count(block) /\ Count(block) < block.len
              /\ Locate(o) = Span(block.at + o.index, 1) /\ Found(o) = {block.at + o.index}
<1>1. PICK nid, b, i : nid = node[n].nid /\ b = o.block /\ i = o.index
  OBVIOUS
<1>2. b \in Nat /\ i \in Nat /\ o.nid = nid /\ o.is = "dirent" /\ Shows(n, b, i)
      /\ o = [is |-> "dirent", nid |-> nid, block |-> b, index |-> i]
  BY <1>1 DEF DirentsOf, ObjectType
<1>3. o = Object("dirent", nid, b, i)
  BY <1>2 DEF Object
<1>4. PICK block : block = ReadBlock(nid, b * BlockSize)
  OBVIOUS
<1>5. b * BlockSize < node[n].size /\ i < Count(block) /\ Count(block) < block.len
  BY <1>1, <1>2, <1>4 DEF Shows
<1>6. Locate(o) = Span(block.at + i, 1) /\ Found(o) = {block.at + i}
  BY <1>1, <1>2, <1>3, <1>4, <1>5, DirentLocated
<1>7. b * BlockSize \in Nat
  BY <1>2, LayoutAssumption DEF LayoutAssumption
<1>8. GoodBlock(block)
  <2>1. ReadBlock(nid, b * BlockSize) # NoBlock
    BY <1>1, <1>5, <1>7, BlockLies
  <2>2. Here(nid)
    BY <1>1, NodeIs
  <2> QED
    BY <1>4, <1>7, <2>1, <2>2, BlockIs
<1>9. block.at + i \in Nat
  BY <1>2, <1>8 DEF GoodBlock
<1>10. IsFiniteSet({block.at + i}) /\ {block.at + i} \in SUBSET Nat
  BY <1>9, FS_Singleton
<1> QED
  BY <1>1, <1>4, <1>5, <1>6, <1>7, <1>8, <1>10

(* The row of a node is one that can be shown.                             *)
LEMMA ShownRowIs ==
  ASSUME Packed, NEW n \in Reached(tree), NEW path \in Seq(Name), NEW row, RowShows(row, n, path)
  PROVE  RowIs(row)
<1>1. PICK nid, R, D : nid = node[n].nid /\ R = row.related /\ D = DataOf(n)
  OBVIOUS
<1>2. /\ row.object = InodeObject(nid) /\ row.depth = Len(path) /\ row.related = R /\ row.data = D
      /\ row.meta = <<Span(nid, 2), Span(nid + 2, 0)>>
  BY <1>1 DEF RowShows
<1>3. nid \in Nat
  BY <1>1, NodeIs DEF Here
<1>4. R \in Seq(ObjectType) /\ Elements(R) \subseteq DirentsOf(n)
  BY <1>1 DEF RowShows
<1>5. D \in Seq(DataType)
  BY <1>1, DataIs
<1>6. row.depth \in Nat /\ Sequence(row.related) /\ Sequence(row.data)
  BY <1>2, <1>4, <1>5, SequenceIs
<1>7. ASSUME NEW k \in 0..Len(row.related)
      PROVE  IsFiniteSet(Found(Selected(row, k))) /\ Found(Selected(row, k)) \in SUBSET Nat
  <2>1. CASE k = 0
    <3>1. Selected(row, k) = InodeObject(nid)
      BY <1>2, <2>1 DEF Selected
    <3>2. Found(InodeObject(nid)) = nid..(nid + 1)
      BY <1>1, InodeLocated
    <3>3. IsFiniteSet(nid..(nid + 1)) /\ nid..(nid + 1) \in SUBSET Nat
      BY <1>3, FS_Interval
    <3> QED
      BY <3>1, <3>2, <3>3
  <2>2. CASE k # 0
    <3>1. Selected(row, k) = R[k]
      BY <1>2, <2>2 DEF Selected
    <3>2. k \in DOMAIN R
      BY <1>2, <1>4, <2>2
    <3>3. R[k] \in DirentsOf(n)
      BY <1>4, <3>2 DEF Elements
    <3> QED
      BY <3>1, <3>3, DirentFound
  <2> QED
    BY <2>1, <2>2
<1>8. PICK a, z : a = node[n].blkaddr * BlockSize /\ z = node[n].size
  OBVIOUS
<1>9. a \in Nat /\ z \in Nat
  BY <1>8, RoomHolds
<1>10. SpansOf(row) \subseteq {Span(nid, 2), Span(nid + 2, 0), DataAt(a, z, 0)}
  <2>1. Seqs!ToSet(row.meta) = {Span(nid, 2), Span(nid + 2, 0)}
    BY <1>2 DEF Seqs!ToSet
  <2>2. Seqs!ToSet(row.data) \subseteq {DataAt(a, z, 0)}
    BY <1>1, <1>2, <1>8, DataIs DEF Seqs!ToSet
  <2> QED
    BY <2>1, <2>2 DEF SpansOf
<1>11. \A s \in SpansOf(row) : s.at \in Nat /\ s.len \in Nat /\ s.at + s.len <= nid + 2 + a + z
  BY <1>3, <1>9, <1>10 DEF Span, DataAt
<1>12. nid + 2 + a + z \in Nat
  BY <1>3, <1>9
<1> QED
  BY <1>6, <1>7, <1>11, <1>12 DEF RowIs

LEMMA SuperblockIs ==
  ASSUME Packed
  PROVE  /\ Locate(SuperblockObject) = Span(SuperblockOffset, SuperblockSize)
         /\ Found(SuperblockObject) = CellsOf(Span(SuperblockOffset, SuperblockSize), FALSE)
         /\ IsFiniteSet(Found(SuperblockObject)) /\ Found(SuperblockObject) \in SUBSET Nat
         /\ Found(SuperblockObject) \subseteq SuperblockOffset..(FirstNid - 1)
<1>1. Locate(SuperblockObject) = Span(SuperblockOffset, SuperblockSize)
  BY DEF Locate, LocateIn, SuperblockObject, Object
<1>2. Found(SuperblockObject) = CellsOf(Span(SuperblockOffset, SuperblockSize), FALSE)
  BY <1>1 DEF Found, SuperblockObject, Object
<1>3. PICK at, len : at = SuperblockOffset /\ len = SuperblockSize
  OBVIOUS
<1>6. at \in Nat /\ len \in Nat
  BY <1>3, LayoutAssumption DEF LayoutAssumption
<1>4. PICK F : F = CellsOf(Span(at, len), FALSE)
  OBVIOUS
<1>5. IsFiniteSet(F) /\ F \in SUBSET Nat /\ F \subseteq at..(at + len - 1)
  <2>1. F \in SUBSET (at..(at + len - 1))
    BY <1>4 DEF CellsOf, Span
  <2>2. IsFiniteSet(at..(at + len - 1)) /\ at..(at + len - 1) \subseteq Nat
    BY <1>6, FS_Interval
  <2>3. IsFiniteSet(F)
    BY <2>1, <2>2, FS_Subset
  <2>4. F \in SUBSET Nat
    BY <2>1, <2>2
  <2> QED
    BY <2>1, <2>3, <2>4
<1>7. FirstNid - 1 = at + len - 1
  BY <1>3, <1>6 DEF FirstNid
<1>8. Found(SuperblockObject) = F
  BY <1>2, <1>3, <1>4
<1>9. F \subseteq SuperblockOffset..(FirstNid - 1)
  BY <1>3, <1>5, <1>7
<1> QED
  BY <1>1, <1>2, <1>5, <1>8, <1>9

LEMMA SuperblockRowRight ==
  ASSUME Packed, NEW row, row = TheSuperblockRow
  PROVE  RowIs(row) /\ row.depth = 0 /\ row.kind = "superblock" /\ row.related = <<>> /\ row.data = <<>>
         /\ row.object = SuperblockObject /\ row.meta = <<Span(SuperblockOffset, SuperblockSize)>>
<1>3. /\ row.object = SuperblockObject /\ row.depth = 0 /\ row.related = <<>> /\ row.data = <<>>
      /\ row.kind = "superblock" /\ row.meta = <<Span(SuperblockOffset, SuperblockSize)>>
  BY DEF TheSuperblockRow
<1>4. Sequence(<<>>) /\ Len(<<>>) = 0
  BY DEF Sequence
<1>5. \A k \in 0..Len(row.related) : Selected(row, k) = SuperblockObject
  BY <1>3, <1>4 DEF Selected
<1>6. SpansOf(row) = {Span(SuperblockOffset, SuperblockSize)}
  BY <1>3 DEF SpansOf, Seqs!ToSet
<1>7. \A s \in SpansOf(row) : s.at \in Nat /\ s.len \in Nat /\ s.at + s.len <= SuperblockOffset + SuperblockSize
  BY <1>6, LayoutAssumption DEF LayoutAssumption, Span
<1>8. SuperblockOffset + SuperblockSize \in Nat
  BY LayoutAssumption DEF LayoutAssumption
<1>9. RowIs(row)
  <2>1. \A k \in 0..Len(row.related) :
          IsFiniteSet(Found(Selected(row, k))) /\ Found(Selected(row, k)) \in SUBSET Nat
    BY <1>5, SuperblockIs
  <2>2. row.depth \in Nat /\ Sequence(row.related) /\ Sequence(row.data)
    BY <1>3, <1>4
  <2>3. \A s \in SpansOf(row) : s.at \in Nat /\ s.len \in Nat
    BY <1>7
  <2>4. \E limit \in Nat : \A s \in SpansOf(row) : s.at + s.len <= limit
    BY <1>7, <1>8
  <2> QED
    BY <2>1, <2>2, <2>3, <2>4 DEF RowIs
<1> QED
  BY <1>3, <1>9

LEMMA PackedRowsAre ==
  ASSUME Packed, PackedRows
  PROVE  RowsAre
<1>1. Sequence(rows) /\ Len(rows) > 0 /\ rows[1] = TheSuperblockRow
  BY DEF PackedRows
<1>2. rows[1].depth = 0 /\ RowIs(rows[1])
  BY <1>1, SuperblockRowRight
<1>3. ASSUME NEW i \in 1..Len(rows) PROVE RowIs(rows[i])
  <2>1. CASE i = 1
    BY <1>2, <2>1
  <2>2. CASE i # 1
    <3>1. i \in 2..Len(rows)
      BY <2>2
    <3>2. PICK n \in Reached(tree) : \E path \in Seq(Name) : RowShows(rows[i], n, path)
      BY <3>1 DEF PackedRows
    <3>3. PICK path \in Seq(Name) : RowShows(rows[i], n, path)
      BY <3>2
    <3> QED
      BY <3>3, ShownRowIs
  <2> QED
    BY <2>1, <2>2
<1> QED
  BY <1>1, <1>2, <1>3 DEF RowsAre, PackedRows

-----------------------------------------------------------------------------
(* An entry that is yielded lies at most one level deeper than the one     *)
(* before it.                                                              *)

LastDepth == IF seen = <<>> THEN Len(start) ELSE Len(seen[Len(seen)].path)

StepsDown ==
  /\ \A i \in 1..(Len(seen) - 1) : Len(seen[i + 1].path) <= Len(seen[i].path) + 1
  /\ seen # <<>> => Len(seen[1].path) <= Len(start) + 1
  /\ walk = "walking" => Len(Top.path) <= LastDepth

LEMMA LengthsAre ==
  ASSUME Packed, WalkInv, TourInv, walk = "walking"
  PROVE  /\ Len(start) \in Nat /\ Len(seen) \in Nat /\ (seen # <<>> => Len(seen) > 0)
         /\ \A i \in 1..Len(seen) : Len(seen[i].path) \in Nat
         /\ LastDepth \in Nat /\ Top.path \in Seq(Name) /\ Len(Top.path) \in Nat
<1>1. PICK nid \in Nat : \E lower :
        /\ Sequence(lower) /\ stack = Append(lower, Top)
        /\ Explores(TheTour(nid), Limit, Elements(seen), lower, Top)
  BY TourIs
<1>2. PICK S, depth, found, f : S = TheTour(nid) /\ depth = Limit /\ found = Elements(seen) /\ f = Top
  OBVIOUS
<1>3. PICK lower : Sequence(lower) /\ Explores(S, depth, found, lower, f)
  BY <1>1, <1>2
<1>4. S \in Spots /\ Len(S.path) \in Nat /\ found \in SUBSET Spots /\ f.path \in Seq(Name)
  BY <1>3, TopFacts
<1>5. Len(start) \in Nat
  BY <1>2, <1>4 DEF TheTour
<1>6. seen \in Seq({seen[i] : i \in DOMAIN seen})
  BY DEF WalkInv, Sequence
<1>7. Len(seen) \in Nat /\ DOMAIN seen = 1..Len(seen) /\ (seen # <<>> => Len(seen) > 0)
  BY <1>6
<1>8. ASSUME NEW i \in 1..Len(seen) PROVE Len(seen[i].path) \in Nat
  <2>1. PICK e \in Spots : e = seen[i]
    BY <1>2, <1>4, <1>7, <1>8 DEF Elements
  <2>2. e.path \in Seq(Name)
    BY <2>1, SpotIs
  <2> QED
    BY <2>1, <2>2
<1>9. LastDepth \in Nat
  <2>1. CASE seen = <<>>
    BY <1>5, <2>1 DEF LastDepth
  <2>2. CASE seen # <<>>
    <3>1. Len(seen) \in 1..Len(seen)
      BY <1>7, <2>2
    <3> QED
      BY <1>8, <2>2, <3>1 DEF LastDepth
  <2> QED
    BY <2>1, <2>2
<1> QED
  BY <1>2, <1>4, <1>5, <1>7, <1>8, <1>9

(* Nothing is yielded, and the top is no deeper than it was.               *)
LEMMA StaysDown ==
  ASSUME Packed, WalkInv, TourInv, StepsDown, UNCHANGED <<seen, start>>,
         walk' = "walking" => /\ walk = "walking" /\ Len(Top'.path) \in Nat
                              /\ Len(Top'.path) <= Len(Top.path)
  PROVE  StepsDown'
<1>1. LastDepth' = LastDepth
  BY DEF LastDepth
<1>2. ASSUME walk' = "walking" PROVE Len(Top'.path) <= LastDepth
  <2>1. PICK a, b, c : a = Len(Top'.path) /\ b = Len(Top.path) /\ c = LastDepth
    OBVIOUS
  <2>2. a \in Nat /\ b \in Nat /\ c \in Nat /\ a <= b /\ b <= c
    BY <1>2, <2>1, LengthsAre DEF StepsDown
  <2>3. a <= c
    BY <2>2
  <2> QED
    BY <2>1, <2>3
<1>3. (walk = "walking" => Len(Top.path) <= LastDepth)'
  BY <1>1, <1>2
<1> QED
  BY <1>3 DEF StepsDown

LEMMA StopsDown ==
  ASSUME Packed, WalkInv, TourInv, StepsDown, NEW why, why # "walking", Stop(why)
  PROVE  StepsDown'
<1>1. walk' # "walking" /\ UNCHANGED <<seen, start>>
  BY DEF Stop
<1> QED
  BY <1>1, StaysDown

LEMMA LastIs ==
  ASSUME NEW lower, Sequence(lower), NEW f, stack' = Append(lower, f)
  PROVE  Top' = f
<1>1. PICK t, n : t = Append(lower, f) /\ n = Len(lower)
  OBVIOUS
<1>2. n \in Nat /\ Len(t) = n + 1 /\ t[n + 1] = f
  BY <1>1, AppendIs
<1>3. t[Len(t)] = f
  BY <1>2
<1> QED
  BY <1>1, <1>3 DEF Top, Seqs!Last

(* The top frame moves on in its directory.                                *)
LEMMA ForwardsDown ==
  ASSUME Packed, WalkInv, TourInv, StepsDown, walk = "walking", UNCHANGED <<seen, start>>,
         NEW g, g.path = Top.path, stack' = WithTop(g)
  PROVE  StepsDown'
<1>1. PICK nid \in Nat : \E lower :
        /\ Sequence(lower) /\ stack = Append(lower, Top)
        /\ Explores(TheTour(nid), Limit, Elements(seen), lower, Top)
  BY TourIs
<1>2. PICK lower : Sequence(lower) /\ stack = Append(lower, Top)
  BY <1>1
<1>3. stack' = Append(lower, g)
  BY <1>2, WithTopIs
<1>4. Top' = g
  BY <1>2, <1>3, LastIs
<1>5. PICK a : a = Len(Top.path) /\ a \in Nat
  BY LengthsAre
<1>6. Len(Top'.path) = a /\ a <= a
  BY <1>4, <1>5
<1>7. Len(Top'.path) \in Nat /\ Len(Top'.path) <= Len(Top.path)
  BY <1>5, <1>6
<1> QED
  BY <1>7, StaysDown

LEMMA NextBlockDown ==
  ASSUME Packed, WalkInv, TourInv, StepsDown, NextBlock
  PROVE  StepsDown'
<1>1. walk = "walking"
  BY DEF NextBlock, AtEnd, Walking
<1>2. PICK f, offset, block :
        f = Top /\ offset = Top.offset + Top.block.len /\ block = ReadBlock(Top.nid, offset)
  OBVIOUS
<1>3. PICK g : g = [f EXCEPT !.offset = offset, !.block = block, !.i = 0]
  OBVIOUS
<1>4. GoodFrame(f)
  BY <1>1, <1>2, TopIs DEF WalkInv
<1>5. g.path = f.path
  BY <1>3, <1>4 DEF GoodFrame
<1>6. CASE block = NoBlock
  <2>1. Stop("corrupt")
    BY <1>2, <1>6 DEF NextBlock
  <2> QED
    BY <2>1, StopsDown
<1>7. CASE block # NoBlock
  <2>1. stack' = WithTop(g) /\ UNCHANGED <<seen, start>>
    BY <1>2, <1>3, <1>7 DEF NextBlock
  <2> QED
    BY <1>1, <1>2, <1>5, <2>1, ForwardsDown
<1> QED
  BY <1>6, <1>7

LEMMA SkipDotDown ==
  ASSUME Packed, WalkInv, TourInv, StepsDown, SkipDot
  PROVE  StepsDown'
<1>1. walk = "walking"
  BY DEF SkipDot, AtEntry, Walking
<1>2. PICK f : f = Top
  OBVIOUS
<1>3. PICK g : g = [f EXCEPT !.i = @ + 1]
  OBVIOUS
<1>4. GoodFrame(f)
  BY <1>1, <1>2, TopIs DEF WalkInv
<1>5. g.path = f.path
  BY <1>3, <1>4 DEF GoodFrame
<1>6. stack' = WithTop(g) /\ UNCHANGED <<seen, start>>
  BY <1>2, <1>3 DEF SkipDot
<1> QED
  BY <1>1, <1>2, <1>5, <1>6, ForwardsDown

LEMMA PopDirDown ==
  ASSUME Packed, WalkInv, TourInv, StepsDown, PopDir
  PROVE  StepsDown'
<1>1. walk = "walking" /\ UNCHANGED <<seen, start>> /\ stack' = Seqs!Front(stack)
      /\ walk' = IF Len(stack) = 1 THEN "done" ELSE walk
  BY DEF PopDir, AtEnd, Walking
<1>2. PICK S, depth, found, f : f = Top /\ depth = Limit /\ found = Elements(seen) /\ \E lower :
        /\ Sequence(lower) /\ stack = Append(lower, Top) /\ Len(stack) = Len(lower) + 1
        /\ lower = SubSeq(stack, 1, Len(stack) - 1)
        /\ Explores(S, Limit, Elements(seen), lower, Top)
  BY <1>1, TourIs
<1>3. PICK lower :
        /\ Sequence(lower) /\ Len(stack) = Len(lower) + 1
        /\ lower = SubSeq(stack, 1, Len(stack) - 1)
        /\ Explores(S, depth, found, lower, f)
  BY <1>2
<1>4. stack' = lower
  BY <1>1, <1>3 DEF Seqs!Front
<1>5. Known(S, depth, found, lower, f)
  BY <1>3, TopKnown
<1>6. ASSUME walk' = "walking"
      PROVE  Len(Top'.path) \in Nat /\ Len(Top'.path) <= Len(Top.path)
  <2>1. PICK n : n = Len(lower) /\ n \in Nat
    BY ONLY <1>5 DEF Known, Within
  <2>2. n # 0
    BY <1>1, <1>3, <1>6, <2>1
  <2>3. n \in 1..Len(lower)
    BY <2>1, <2>2
  <2>4. Top' = lower[n]
    BY <1>4, <2>1 DEF Top, Seqs!Last
  <2>5. Len(lower[n].path) = Len(S.path) + n - 1 /\ Len(S.path) \in Nat /\ Len(f.path) = Len(S.path) + n
    BY ONLY <1>5, <2>1, <2>3 DEF Known, FramesHold, Lies
  <2>6. PICK a, b, c : a = Len(lower[n].path) /\ b = Len(S.path) /\ c = Len(f.path)
    OBVIOUS
  <2>7. a \in Nat /\ a <= c
    BY <2>1, <2>2, <2>5, <2>6
  <2> QED
    BY <1>2, <2>4, <2>6, <2>7
<1> QED
  BY <1>1, <1>6, StaysDown

LEMMA YieldEntryDown ==
  ASSUME Packed, WalkInv, TourInv, StepsDown, YieldEntry
  PROVE  StepsDown'
<1>1. PICK f, g, p, x : /\ f = Top /\ g = [f EXCEPT !.i = @ + 1] /\ p = EntryPath
                        /\ x = [path |-> EntryPath, nid |-> Entry.nid, type |-> Entry.type]
  OBVIOUS
<1>2. /\ walk = "walking" /\ UNCHANGED start /\ seen' = Append(seen, x)
      /\ \/ stack' = Append(WithTop(g), Frame(Entry.nid, p))
         \/ stack' = WithTop(g)
  BY <1>1 DEF YieldEntry, AtEntry, Walking, Enter
<1>3. PICK lower : Sequence(lower) /\ stack = Append(lower, Top)
  BY <1>2, TourIs
<1>4. WithTop(g) = Append(lower, g)
  BY <1>2, <1>3, WithTopIs
<1>5. GoodFrame(f)
  BY <1>1, <1>2, TopIs DEF WalkInv
<1>6. g.path = f.path /\ Frame(Entry.nid, p).path = p /\ x.path = p
  BY <1>1, <1>5 DEF GoodFrame, Frame
<1>7. Top'.path \in {f.path, p}
  <2>1. CASE stack' = WithTop(g)
    BY <1>3, <1>4, <1>6, <2>1, LastIs
  <2>2. CASE stack' = Append(WithTop(g), Frame(Entry.nid, p))
    <3>1. Sequence(Append(lower, g))
      BY <1>3, AppendIs
    <3>2. Top' = Frame(Entry.nid, p)
      BY <1>4, <2>2, <3>1, LastIs
    <3> QED
      BY <1>6, <3>2
  <2> QED
    BY <1>2, <2>1, <2>2
<1>8. f.path \in Seq(Name)
  BY <1>1, <1>2, LengthsAre
<1>9. PICK a : a = Len(f.path) /\ a \in Nat /\ Len(p) = a + 1
  <2>1. PICK path, name : path = f.path /\ name = EntryName
    OBVIOUS
  <2>2. Len(path) \in Nat /\ Sequence(path)
    BY <1>8, <2>1, SequenceIs
  <2>3. Len(Append(path, name)) = Len(path) + 1
    BY <2>2, AppendIs
  <2>4. p = Append(path, name)
    BY <1>1, <2>1 DEF EntryPath
  <2> QED
    BY <2>1, <2>2, <2>3, <2>4
<1>10. PICK n : n = Len(seen) /\ n \in Nat /\ (seen # <<>> => n > 0) /\ (seen = <<>> => n = 0)
  BY <1>2, LengthsAre
<1>11. /\ Len(seen') = n + 1 /\ seen'[n + 1] = x /\ \A i \in 1..n : seen'[i] = seen[i]
  BY <1>2, <1>10, AppendIs DEF WalkInv
<1>12. seen' # <<>>
  BY <1>10, <1>11
<1>13. LastDepth' = a + 1
  BY <1>6, <1>9, <1>11, <1>12 DEF LastDepth
<1>14. PICK last : last = LastDepth /\ last \in Nat /\ a <= last
  BY <1>1, <1>2, <1>9, LengthsAre DEF StepsDown
<1>15. ASSUME NEW i \in 1..n PROVE Len(seen'[i + 1].path) <= Len(seen'[i].path) + 1
  <2>1. CASE i = n
    <3>1. seen # <<>> /\ Len(seen[n].path) = last
      BY <1>10, <1>14, <2>1 DEF LastDepth
    <3>2. Len(seen'[n + 1].path) = a + 1 /\ Len(seen'[n].path) = last
      BY <1>6, <1>9, <1>11, <2>1, <3>1
    <3>3. a + 1 <= last + 1
      BY <1>9, <1>14
    <3> QED
      BY <2>1, <3>2, <3>3
  <2>2. CASE i # n
    <3>1. i \in 1..(n - 1) /\ i + 1 \in 1..n
      BY <1>10, <2>2
    <3>2. Len(seen[i + 1].path) <= Len(seen[i].path) + 1
      BY <1>10, <3>1 DEF StepsDown
    <3> QED
      BY <1>11, <3>1, <3>2
  <2> QED
    BY <2>1, <2>2
<1>16. Len(seen'[1].path) <= Len(start) + 1
  <2>1. CASE seen = <<>>
    <3>1. seen'[1] = x /\ last = Len(start)
      BY <1>10, <1>11, <1>14, <2>1 DEF LastDepth
    <3>2. a + 1 <= last + 1
      BY <1>9, <1>14
    <3> QED
      BY <1>6, <1>9, <3>1, <3>2
  <2>2. CASE seen # <<>>
    <3>1. 1 \in 1..n
      BY <1>10, <2>2
    <3> QED
      BY <1>11, <2>2, <3>1 DEF StepsDown
  <2> QED
    BY <2>1, <2>2
<1>17. Len(Top'.path) <= LastDepth'
  <2>1. Len(Top'.path) \in {a, a + 1}
    BY <1>7, <1>9
  <2>2. \A b \in {a, a + 1} : b <= a + 1
    BY <1>9
  <2> QED
    BY <1>13, <2>1, <2>2
<1>18. n + 1 - 1 = n
  BY <1>10
<1>19. \A i \in 1..(Len(seen') - 1) : Len(seen'[i + 1].path) <= Len(seen'[i].path) + 1
  <2>1. Len(seen') - 1 = n
    BY <1>10, <1>11
  <2> QED
    BY <1>15, <2>1
<1>20. start' = start
  BY <1>2
<1> QED
  BY <1>16, <1>17, <1>19, <1>20 DEF StepsDown

LEMMA StartDown ==
  ASSUME Packed, WalkInv, TourInv, StepsDown, NEW path, Len(path) \in Nat, StartWalk(path)
  PROVE  StepsDown'
<1>1. walk = "idle"
  BY Zenon DEF StartWalk
<1>2. seen = <<>>
  BY <1>1 DEF TourInv
<1>3. \/ \E why \in {"not found", "corrupt", "not a directory"} : Stop(why)
      \/ \E nid : walk' = "walking" /\ stack' = <<Frame(nid, path)>> /\ start' = path /\ seen' = seen
  BY DEF StartWalk
<1>4. ASSUME NEW why \in {"not found", "corrupt", "not a directory"}, Stop(why) PROVE StepsDown'
  BY <1>4, StopsDown
<1>5. ASSUME NEW nid, stack' = <<Frame(nid, path)>>, start' = path, seen' = seen PROVE StepsDown'
  <2>0. PICK f : f = Frame(nid, path)
    OBVIOUS
  <2>1. f = Frame(nid, path) /\ f.path = path
    BY <2>0 DEF Frame
  <2>2. Top' = f
    BY <1>5, <2>1 DEF Top, Seqs!Last
  <2>3. Len(Top'.path) <= LastDepth'
    <3>1. PICK a : a = Len(path) /\ a \in Nat
      OBVIOUS
    <3>2. Len(Top'.path) = a /\ LastDepth' = a /\ a <= a
      BY <1>2, <1>5, <2>1, <2>2, <3>1 DEF LastDepth
    <3> QED
      BY <3>2
  <2>4. seen' = <<>> /\ Len(seen') = 0
    BY <1>2, <1>5
  <2> QED
    BY <2>3, <2>4 DEF StepsDown
<1> QED
  BY <1>3, <1>4, <1>5

(* Files are read, and nothing is walked.                                  *)
LEMMA WaitsDown ==
  ASSUME StepsDown, UNCHANGED walkVars
  PROVE  StepsDown'
BY DEF StepsDown, LastDepth, Top, walkVars

-----------------------------------------------------------------------------
(* Nothing of a built image changes, and so nothing of what the inspector  *)
(* finds in it.                                                            *)

Plainly == {"superblock", "inode", "dirent"}

LEMMA FoundAlike ==
  ASSUME image' = image
  PROVE  \A o : o.is \in Plainly => Locate(o)' = Locate(o) /\ Found(o)' = Found(o)
<1>1. End' = End /\ Superblock' = Superblock
  BY DEF End, Superblock
<1>2. \A at : CellAt(at)' = CellAt(at)
  BY DEF CellAt
<1>3. \A at, kind : Is(at, kind)' = Is(at, kind)
  BY <1>2 DEF Is
<1>4. \A span : IsWithin(span)' = IsWithin(span)
  BY <1>1 DEF IsWithin
<1>5. \A nid : PrimaryOffset(nid)' = PrimaryOffset(nid)
  BY <1>1 DEF PrimaryOffset
<1>6. \A nid, at, inode : Decode(nid, at, inode)' = Decode(nid, at, inode)
  BY <1>4 DEF Decode
<1>7. \A nid, at : DecodeAt(nid, at)' = DecodeAt(nid, at)
  BY <1>2, <1>6 DEF DecodeAt
<1>8. \A nid : Node(nid)' = Node(nid)
  BY <1>5, <1>7 DEF Node
<1>9. \A base, available, index : DirentIn(base, available, index)' = DirentIn(base, available, index)
  BY <1>1, <1>2, <1>3 DEF DirentIn
<1>10. \A nd, block, index : LocateDirent(nd, block, index)' = LocateDirent(nd, block, index)
  BY <1>9 DEF LocateDirent
<1>11. \A o, nd : o.is \in Plainly => LocateIn(o, nd)' = LocateIn(o, nd)
  <2>1. TAKE o, nd
  <2>2. HAVE o.is \in Plainly
  <2>3. CASE o.is = "superblock"
    BY <2>3 DEF LocateIn
  <2>4. CASE o.is = "inode"
    BY <2>4 DEF LocateIn
  <2>5. CASE o.is = "dirent"
    BY <1>10, <2>5 DEF LocateIn
  <2> QED
    BY <2>2, <2>3, <2>4, <2>5 DEF Plainly
<1>12. \A o : o.is \in Plainly => Locate(o)' = Locate(o)
  BY <1>8, <1>11 DEF Locate
<1>13. \A span, whole : CellsOf(span, whole)' = CellsOf(span, whole)
  BY <1>1, <1>4 DEF CellsOf
<1> QED
  BY <1>12, <1>13 DEF Found

LEMMA BlocksAlike ==
  ASSUME image' = image
  PROVE  /\ \A nid, offset : ReadBlock(nid, offset)' = ReadBlock(nid, offset)
         /\ \A block : Count(block)' = Count(block)
<1>1. End' = End /\ Superblock' = Superblock
  BY DEF End, Superblock
<1>2. \A nid : InodeAt(nid)' = InodeAt(nid) /\ BehindInode(nid)' = BehindInode(nid)
  BY <1>1 DEF InodeAt, BehindInode, InodeOffset
<1>3. \A nid, i : FlatBlock(nid, i)' = FlatBlock(nid, i) /\ ChunkBlock(nid, i)' = ChunkBlock(nid, i)
  BY <1>1, <1>2 DEF FlatBlock, ChunkBlock
<1>4. \A nid, offset : ReadBlock(nid, offset)' = ReadBlock(nid, offset)
  BY <1>1, <1>2, <1>3 DEF ReadBlock
<1>5. \A block, i : DirentAt(block, i)' = DirentAt(block, i)
  BY DEF DirentAt
<1> QED
  BY <1>4, <1>5 DEF Count

LEMMA ShowsAlike ==
  ASSUME UNCHANGED <<image, tree, node>>
  PROVE  \A row, n, path : RowShows(row, n, path)' <=> RowShows(row, n, path)
<1>1. \A n, b, i : Shows(n, b, i)' <=> Shows(n, b, i)
  BY BlocksAlike DEF Shows
<1>2. \A n : DirentsOf(n)' = DirentsOf(n)
  BY <1>1 DEF DirentsOf
<1>3. \A n : TheInode(n)' = TheInode(n) /\ DataOf(n)' = DataOf(n) /\ IsDir(n)' = IsDir(n)
  BY DEF TheInode, DataOf, IsDir
<1> QED
  BY <1>2, <1>3 DEF RowShows

LEMMA RowsAlike ==
  ASSUME UNCHANGED <<image, tree, node, rows>>, PackedRows
  PROVE  PackedRows'
BY ShowsAlike DEF PackedRows

(* What packed rows list.                                                  *)
LEMMA ListedAre ==
  ASSUME Packed, PackedRows, NEW i \in 1..Len(rows), NEW k \in 0..Len(rows[i].related)
  PROVE  Selected(rows[i], k).is \in Plainly
<1>1. CASE i = 1
  <2>1. rows[1].object = SuperblockObject /\ rows[1].related = <<>>
    BY SuperblockRowRight DEF PackedRows
  <2>2. k = 0 /\ Selected(rows[i], k) = SuperblockObject
    BY <1>1, <2>1 DEF Selected
  <2> QED
    BY <2>2 DEF SuperblockObject, Object, Plainly
<1>2. CASE i # 1
  <2>1. i \in 2..Len(rows)
    BY <1>2 DEF PackedRows, Sequence
  <2>2. PICK n \in Reached(tree) : \E path \in Seq(Name) : RowShows(rows[i], n, path)
    BY <2>1 DEF PackedRows
  <2>3. PICK row, R : row = rows[i] /\ R = row.related
    OBVIOUS
  <2>4. row.object = InodeObject(node[n].nid) /\ R \in Seq(ObjectType)
    BY <2>2, <2>3 DEF RowShows
  <2>5. CASE k = 0
    BY <2>3, <2>4, <2>5 DEF Selected, InodeObject, Object, Plainly
  <2>6. CASE k # 0
    <3>1. k \in 1..Len(R)
      BY <2>3, <2>4, <2>6
    <3>2. R[k] \in ObjectType /\ Selected(rows[i], k) = R[k]
      BY <2>3, <2>4, <2>6, <3>1 DEF Selected
    <3> QED
      BY <3>2 DEF ObjectType, Plainly
  <2> QED
    BY <2>5, <2>6
<1> QED
  BY <1>1, <1>2

LEMMA SelectsAlike ==
  ASSUME Packed, PackedRows, UNCHANGED <<image, tree, node, rows>>, Selects(view')
  PROVE  Selects(view)'
<1>1. PICK v : v = view'
  OBVIOUS
<1>2. v \in ViewType /\ v.tree \in 1..Len(rows) /\ v.related \in Nat /\ v.related <= Len(rows[v.tree].related)
      /\ FoldsRight(v) /\ LooksAt(v) /\ v.fields = Found(Selected(rows[v.tree], v.related))
      /\ (v.field = 0 \/ v.field < Cardinality(v.fields))
      /\ (v.extent = 0 \/ v.extent < Len(rows[v.tree].data))
  BY <1>1 DEF Selects, ViewType
<1>3. RowsAre
  BY PackedRowsAre
<1>4. v.related \in 0..Len(rows[v.tree].related)
  BY <1>2, <1>3, RowsFacts
<1>5. Selected(rows[v.tree], v.related).is \in Plainly
  BY <1>2, <1>4, ListedAre
<1>6. PICK o : o = Selected(rows[v.tree], v.related)
  OBVIOUS
<1>7. Found(o)' = v.fields
  BY <1>2, <1>5, <1>6, FoundAlike
<1>8. (v.fields = Found(Selected(rows[v.tree], v.related)))'
  BY <1>1, <1>6, <1>7 DEF Selected
<1>9. (v \in ViewType)'
  BY <1>1, <1>2 DEF ViewType
<1>10. FoldsRight(v)'
  BY <1>2 DEF FoldsRight, Hides, HasChildren
<1>11. LooksAt(v)'
  BY <1>2 DEF LooksAt, Owners
<1> QED
  BY <1>1, <1>2, <1>8, <1>9, <1>10, <1>11 DEF Selects

-----------------------------------------------------------------------------
(* The rows of a packed image, from what was visited.                      *)

Places == {e \in [nid : Nat, path : Seq(Name)] : \E n \in Reached(tree) : e.nid = node[n].nid}

GoesDown(s) ==
  /\ \A i \in 1..(Len(s) - 1) : Len(s[i + 1].path) <= Len(s[i].path) + 1
  /\ s # <<>> => Len(s[1].path) <= 1

RowsShown(r) ==
  /\ Sequence(r) /\ Len(r) > 0 /\ r[1] = TheSuperblockRow
  /\ \A i \in 2..Len(r) : \E n \in Reached(tree) : \E path \in Seq(Name) : RowShows(r[i], n, path)
  /\ \A i \in 1..(Len(r) - 1) : r[i + 1].depth <= r[i].depth + 1

LEMMA TextOf ==
  ASSUME NEW path \in Seq(Name)
  PROVE  PathAsText(path) \in Seq(Name) /\ Len(PathAsText(path)) = Len(path)
<1>1. \A name \in Name : AsText(name) \in Name
  BY LayoutAssumption DEF LayoutAssumption, AsText
<1>2. PathAsText(path) = [k \in 1..Len(path) |-> AsText(path[k])]
  BY DEF PathAsText
<1> QED
  BY <1>1, <1>2

LEMMA PlaceShows ==
  ASSUME Packed, NEW e \in Places, NEW row, row = InodeRow(e.nid, PathAsText(e.path))
  PROVE  /\ \E n \in Reached(tree) : \E path \in Seq(Name) : RowShows(row, n, path)
         /\ row.depth = Len(e.path) /\ Len(e.path) \in Nat
<1>1. PICK n \in Reached(tree) : e.nid = node[n].nid
  BY DEF Places
<1>2. PICK nid, path : nid = e.nid /\ path = PathAsText(e.path)
  OBVIOUS
<1>3. path \in Seq(Name) /\ Len(path) = Len(e.path) /\ Len(path) \in Nat
  BY <1>2, TextOf DEF Places
<1>4. row = RowFor(n, path)
  BY <1>1, <1>2, RowOf
<1>5. RowShows(row, n, path)
  BY <1>4, RowForShows
<1>6. row.depth = Len(path)
  BY <1>5 DEF RowShows
<1> QED
  BY <1>2, <1>3, <1>5, <1>6

LEMMA RowsOf ==
  ASSUME Packed, NEW s \in Seq(Places), GoesDown(s), NEW r,
         r = <<SuperblockRow>> \o [i \in DOMAIN s |-> InodeRow(s[i].nid, PathAsText(s[i].path))]
  PROVE  RowsShown(r)
<1>1. PICK first, rest, m :
        /\ first = SuperblockRow /\ rest = [i \in DOMAIN s |-> InodeRow(s[i].nid, PathAsText(s[i].path))] /\ m = Len(s)
  OBVIOUS
<1>2. m \in Nat /\ DOMAIN s = 1..m
  BY <1>1
<1>3. rest = [i \in 1..m |-> InodeRow(s[i].nid, PathAsText(s[i].path))]
  BY <1>1, <1>2
<1>4. PICK T : T = {first} \cup {rest[i] : i \in 1..m}
  OBVIOUS
<1>5. rest \in Seq(T) /\ Len(rest) = m
  BY <1>2, <1>3, <1>4
<1>a. PICK one : one = <<first>>
  OBVIOUS
<1>6. one \in Seq(T) /\ Len(one) = 1 /\ one[1] = first /\ r = one \o rest
  BY <1>1, <1>4, <1>a
<1>7. /\ r \in Seq(T) /\ Len(r) = m + 1
      /\ \A i \in 1..(m + 1) : r[i] = IF i <= 1 THEN one[i] ELSE rest[i - 1]
  <2>1. /\ one \o rest \in Seq(T) /\ Len(one \o rest) = Len(one) + Len(rest)
        /\ \A i \in 1..(Len(one) + Len(rest)) :
              (one \o rest)[i] = IF i <= Len(one) THEN one[i] ELSE rest[i - Len(one)]
    BY <1>5, <1>6, CatIs
  <2>2. /\ r \in Seq(T) /\ Len(r) = Len(one) + Len(rest)
        /\ \A i \in 1..(Len(one) + Len(rest)) : r[i] = IF i <= Len(one) THEN one[i] ELSE rest[i - Len(one)]
    BY <1>6, <2>1, Zenon
  <2>3. Len(one) + Len(rest) = m + 1
    BY <1>2, <1>5, <1>6
  <2> QED
    BY <1>6, <2>2, <2>3
<1>8. Sequence(r) /\ Len(r) > 0
  <2>1. Sequence(r)
    BY <1>7, SequenceIs, Zenon
  <2>2. m + 1 > 0
    BY <1>2
  <2> QED
    BY <1>7, <2>1, <2>2, Zenon
<1>9. r[1] = TheSuperblockRow
  <2>1. r[1] = first
    BY <1>2, <1>6, <1>7
  <2> QED
    BY <1>1, <2>1, SuperblockRowIs DEF TheSuperblockRow
<1>10. ASSUME NEW i \in 1..m
       PROVE  /\ r[i + 1] = InodeRow(s[i].nid, PathAsText(s[i].path)) /\ s[i] \in Places
  BY <1>2, <1>3, <1>7
<1>11. ASSUME NEW i \in 1..m
       PROVE  /\ \E n \in Reached(tree) : \E path \in Seq(Name) : RowShows(r[i + 1], n, path)
              /\ r[i + 1].depth = Len(s[i].path) /\ Len(s[i].path) \in Nat
  BY <1>10, PlaceShows
<1>12. ASSUME NEW i \in 2..Len(r)
       PROVE  \E n \in Reached(tree) : \E path \in Seq(Name) : RowShows(r[i], n, path)
  <2>1. PICK j : j = i - 1
    OBVIOUS
  <2>2. j \in 1..m /\ r[i] = r[j + 1]
    BY <1>2, <1>7, <2>1
  <2> QED
    BY <1>11, <2>2
<1>13. r[1].depth = 0
  BY <1>9, SuperblockRowRight
<1>14. ASSUME NEW i \in 1..(Len(r) - 1) PROVE r[i + 1].depth <= r[i].depth + 1
  <2>1. i \in 1..m
    BY <1>2, <1>7
  <2>2. CASE i = 1
    <3>1. s # <<>>
      BY <1>1, <2>1
    <3>2. Len(s[1].path) <= 1
      BY <3>1 DEF GoesDown
    <3>3. r[1 + 1].depth = Len(s[1].path)
      BY <1>11, <2>1, <2>2
    <3> QED
      BY <1>13, <2>2, <3>2, <3>3
  <2>3. CASE i # 1
    <3>1. PICK j : j = i - 1
      OBVIOUS
    <3>2. j \in 1..m /\ j \in 1..(Len(s) - 1) /\ i = j + 1
      BY <1>1, <1>2, <2>1, <2>3, <3>1
    <3>3. Len(s[j + 1].path) <= Len(s[j].path) + 1
      BY <3>2 DEF GoesDown
    <3>4. r[i].depth = Len(s[j].path)
      BY <1>11, <3>2
    <3>5. r[i + 1].depth = Len(s[j + 1].path)
      BY <1>11, <2>1, <3>2
    <3> QED
      BY <3>3, <3>4, <3>5
  <2> QED
    BY <2>2, <2>3
<1> QED
  BY <1>8, <1>9, <1>12, <1>14 DEF RowsShown

LEMMA NewRows ==
  ASSUME UNCHANGED <<image, tree, node>>, RowsShown(rows')
  PROVE  PackedRows'
<1>1. PICK r : r = rows'
  OBVIOUS
<1>2. RowsShown(r)
  BY <1>1
<1>3. \A i \in 2..Len(r) : (\E n \in Reached(tree) : \E path \in Seq(Name) : RowShows(r[i], n, path))'
  BY <1>2, ShowsAlike DEF RowsShown
<1> QED
  BY <1>1, <1>2, <1>3 DEF RowsShown, PackedRows

(* The view that is opened.                                                *)
LEMMA FirstView ==
  ASSUME RowsShown(rows'), UNCHANGED <<image, tree, node>>, Packed,
         view' = [open |-> TRUE, tree |-> 1, focus |-> "tree", collapsed |-> {}, related |-> 0,
                  extent |-> 0, fields |-> Found(SuperblockObject), field |-> 0, override |-> NoOverride]
  PROVE  Selects(view)' /\ view'.open
<1>1. PICK r, v, F : r = rows' /\ v = view' /\ F = Found(SuperblockObject)
  OBVIOUS
<1>2. /\ v = [open |-> TRUE, tree |-> 1, focus |-> "tree", collapsed |-> {}, related |-> 0,
              extent |-> 0, fields |-> F, field |-> 0, override |-> NoOverride]
  BY <1>1
<1>3. /\ v.open /\ v.tree = 1 /\ v.focus = "tree" /\ v.collapsed = {} /\ v.related = 0
      /\ v.extent = 0 /\ v.fields = F /\ v.field = 0 /\ v.override = NoOverride
  BY <1>2
<1>4. Len(r) \in Nat /\ Len(r) > 0 /\ r[1] = TheSuperblockRow
  BY <1>1 DEF RowsShown, Sequence
<1>5. r[1].object = SuperblockObject /\ r[1].related = <<>>
  BY <1>4, SuperblockRowRight
<1>6. F \in SUBSET Nat
  BY <1>1, SuperblockIs
<1>7. NoOverride \in [at : Int, len : Int]
  BY DEF NoOverride, Nowhere, Span
<1>8. v \in [open : {TRUE}, tree : 1..Len(r), focus : {"tree", "fields", "hex"}, collapsed : SUBSET (1..Len(r)),
             related : Nat, extent : Nat, fields : SUBSET Nat, field : Nat, override : [at : Int, len : Int]]
  BY <1>2, <1>4, <1>6, <1>7
<1>9. (view \in ViewType)'
  BY <1>1, <1>8 DEF ViewType
<1>10. FoldsRight(view)'
  BY <1>1, <1>3 DEF FoldsRight
<1>11. LooksAt(view)'
  BY <1>1, <1>3 DEF LooksAt
<1>12. Found(SuperblockObject)' = F
  <2>1. PICK o : o = SuperblockObject
    OBVIOUS
  <2>2. o.is \in Plainly
    BY <2>1 DEF SuperblockObject, Object, Plainly
  <2>3. Found(o)' = Found(o)
    BY <2>2, FoundAlike
  <2> QED
    BY <1>1, <2>1, <2>3 DEF SuperblockObject
<1>13. (view.fields = Found(Selected(rows[view.tree], view.related)))'
  <2>1. Selected(r[v.tree], v.related) = SuperblockObject
    BY <1>3, <1>5 DEF Selected
  <2>2. Selected(rows[view.tree], view.related)' = SuperblockObject
    BY <1>1, <2>1 DEF Selected
  <2> QED
    BY <1>1, <1>3, <1>12, <2>2
<1>14. (view.related <= Len(rows[view.tree].related))'
  <2>1. Len(r[v.tree].related) = 0
    BY <1>3, <1>5
  <2> QED
    BY <1>1, <1>3, <2>1
<1> QED
  BY <1>1, <1>3, <1>9, <1>10, <1>11, <1>13, <1>14 DEF Selects

LEMMA SpotsArePlaces ==
  ASSUME NEW e \in Spots
  PROVE  [nid |-> e.nid, path |-> e.path] \in Places
BY DEF Spots, Places

LEMMA SeenAre ==
  ASSUME Packed, WalkInv, TourInv
  PROVE  seen \in Seq(Spots)
<1>1. CASE seen = <<>>
  BY <1>1
<1>2. CASE seen # <<>>
  <2>1. PICK nid \in Nat : Toured([path |-> start, nid |-> nid, type |-> "dir"])
    BY <1>2 DEF TourInv
  <2>2. Elements(seen) \subseteq Spots
    BY <2>1 DEF Toured, Explored
  <2>3. PICK E : E = Elements(seen)
    OBVIOUS
  <2>4. seen \in Seq(E)
    BY <2>3 DEF WalkInv, Sequence, Elements
  <2> QED
    BY <2>2, <2>3, <2>4
<1> QED
  BY <1>1, <1>2

LEMMA RootIsPlace ==
  ASSUME Packed
  PROVE  [nid |-> Superblock.root, path |-> <<>>] \in Places
<1>1. Superblock.root = node[Root].nid
  BY DEF Packed, EmitInv, Superblock, Super
<1>2. Root \in Reached(tree)
  BY ReachedFacts DEF Packed, BuildTypes
<1>3. node[Root].nid \in Nat
  BY <1>2, NodeIs DEF Here
<1>4. <<>> \in Seq(Name)
  OBVIOUS
<1> QED
  BY <1>1, <1>2, <1>3, <1>4 DEF Places

(* What an inspector visits that was given the entries of a walk.          *)
Visited(entries, hasRoot) ==
  (IF hasRoot THEN <<[nid |-> Superblock.root, path |-> <<>>]>> ELSE <<>>)
  \o [i \in DOMAIN entries |-> [nid |-> entries[i].nid, path |-> entries[i].path]]

LEMMA PlacesOf ==
  ASSUME NEW entries \in Seq(Spots), GoesDown(entries), NEW t,
         t = [i \in DOMAIN entries |-> [nid |-> entries[i].nid, path |-> entries[i].path]]
  PROVE  /\ t \in Seq(Places) /\ Len(t) = Len(entries) /\ Len(t) \in Nat
         /\ \A i \in 1..Len(t) : t[i].path = entries[i].path
<1>1. PICK m : m = Len(entries)
  OBVIOUS
<1>2. m \in Nat /\ DOMAIN entries = 1..m /\ \A i \in 1..m : entries[i] \in Spots
  BY <1>1
<1>3. PICK p : p = [i \in 1..m |-> [nid |-> entries[i].nid, path |-> entries[i].path]]
  OBVIOUS
<1>4. t = p
  BY <1>2, <1>3
<1>5. \A i \in 1..m : p[i] = [nid |-> entries[i].nid, path |-> entries[i].path]
  BY <1>3
<1>6. \A i \in 1..m : p[i] \in Places /\ p[i].path = entries[i].path
  BY <1>2, <1>5, SpotsArePlaces
<1>7. p \in [1..m -> Places]
  BY <1>3, <1>6
<1>8. p \in Seq(Places) /\ Len(p) = m
  BY <1>2, <1>7
<1> QED
  BY <1>1, <1>2, <1>4, <1>6, <1>8

LEMMA VisitedAre ==
  ASSUME Packed, NEW entries \in Seq(Spots), GoesDown(entries), NEW hasRoot
  PROVE  Visited(entries, hasRoot) \in Seq(Places) /\ GoesDown(Visited(entries, hasRoot))
<1>1. PICK t : t = [i \in DOMAIN entries |-> [nid |-> entries[i].nid, path |-> entries[i].path]]
  OBVIOUS
<1>2. PICK m, e : m = Len(t) /\ e = [nid |-> Superblock.root, path |-> <<>>]
  OBVIOUS
<1>3. /\ t \in Seq(Places) /\ m = Len(entries) /\ m \in Nat
      /\ \A i \in 1..m : t[i].path = entries[i].path
  BY <1>1, <1>2, PlacesOf
<1>4. e \in Places /\ e.path = <<>> /\ Len(e.path) = 0
  BY <1>2, RootIsPlace
<1>5. GoesDown(t)
  <2>1. ASSUME NEW i \in 1..(m - 1) PROVE Len(t[i + 1].path) <= Len(t[i].path) + 1
    <3>1. i \in 1..m /\ i + 1 \in 1..m
      BY <1>3
    <3>2. Len(entries[i + 1].path) <= Len(entries[i].path) + 1
      BY <1>3 DEF GoesDown
    <3> QED
      BY <1>3, <3>1, <3>2
  <2>2. ASSUME t # <<>> PROVE Len(t[1].path) <= 1
    <3>a. m # 0
      <4>1. \A p \in Seq(Places) : Len(p) = 0 => p = <<>>
        OBVIOUS
      <4> QED
        BY <1>2, <1>3, <2>2, <4>1
    <3>0. m > 0 /\ 1 \in 1..m
      BY <1>3, <3>a
    <3>1. entries # <<>>
      BY <1>3, <3>0
    <3>2. Len(entries[1].path) <= 1
      BY <3>1 DEF GoesDown
    <3> QED
      BY <1>3, <3>0, <3>2
  <2> QED
    BY <1>2, <2>1, <2>2 DEF GoesDown
<1>6. CASE ~hasRoot
  <2>1. Visited(entries, hasRoot) = <<>> \o t
    BY <1>1, <1>6 DEF Visited
  <2>2. <<>> \o t = t
    BY <1>3
  <2> QED
    BY <1>3, <1>5, <2>1, <2>2
<1>7. CASE hasRoot
  <2>1. PICK one, v : one = <<e>> /\ v = Visited(entries, hasRoot)
    OBVIOUS
  <2>2. v = one \o t
    BY <1>1, <1>2, <1>7, <2>1 DEF Visited
  <2>3. one \in Seq(Places) /\ Len(one) = 1 /\ one[1] = e
    BY <1>4, <2>1
  <2>4. /\ one \o t \in Seq(Places) /\ Len(one \o t) = Len(one) + Len(t)
        /\ \A i \in 1..(Len(one) + Len(t)) : (one \o t)[i] = IF i <= Len(one) THEN one[i] ELSE t[i - Len(one)]
    BY <1>3, <2>3, CatIs
  <2>5. /\ v \in Seq(Places) /\ Len(v) = Len(one) + Len(t)
        /\ \A i \in 1..(Len(one) + Len(t)) : v[i] = IF i <= Len(one) THEN one[i] ELSE t[i - Len(one)]
    BY <2>2, <2>4, Zenon
  <2>6. Len(one) + Len(t) = m + 1
    BY <1>2, <1>3, <2>3
  <2>7. /\ v[1] = e /\ Len(v) = m + 1
        /\ \A i \in 1..m : v[i + 1] = t[i]
    <3>1. Len(v) = m + 1 /\ \A i \in 1..(m + 1) : v[i] = IF i <= 1 THEN one[i] ELSE t[i - 1]
      BY <2>3, <2>5, <2>6
    <3>2. v[1] = e
      BY <1>3, <2>3, <3>1
    <3>3. ASSUME NEW i \in 1..m PROVE v[i + 1] = t[i]
      <4>1. PICK j : j = i + 1
        OBVIOUS
      <4>2. j \in 1..(m + 1) /\ ~(j <= 1) /\ j - 1 = i
        BY <1>3, <4>1
      <4> QED
        BY <3>1, <4>1, <4>2
    <3> QED
      BY <3>1, <3>2, <3>3
  <2>8. Len(v[1].path) <= 1
    BY <1>4, <2>7
  <2>9. ASSUME NEW i \in 1..(Len(v) - 1) PROVE Len(v[i + 1].path) <= Len(v[i].path) + 1
    <3>1. i \in 1..m /\ v[i + 1] = t[i]
      BY <1>3, <2>7
    <3>2. CASE i = 1
      <4>1. t # <<>>
        BY <1>2, <3>1
      <4>2. Len(t[1].path) <= 1
        BY <1>5, <4>1 DEF GoesDown
      <4> QED
        BY <1>4, <2>7, <3>1, <3>2, <4>2
    <3>3. CASE i # 1
      <4>1. PICK j : j = i - 1
        OBVIOUS
      <4>2. j \in 1..m /\ j \in 1..(Len(t) - 1) /\ i = j + 1
        BY <1>2, <1>3, <3>1, <3>3, <4>1
      <4>3. Len(t[j + 1].path) <= Len(t[j].path) + 1
        BY <1>5, <4>2 DEF GoesDown
      <4>4. v[i] = t[j]
        BY <2>7, <4>2
      <4> QED
        BY <3>1, <4>2, <4>3, <4>4
    <3> QED
      BY <3>2, <3>3
  <2> QED
    BY <2>1, <2>5, <2>8, <2>9 DEF GoesDown
<1> QED
  BY <1>6, <1>7

LEMMA OpenViewShows ==
  ASSUME Packed, NEW entries \in Seq(Spots), GoesDown(entries), NEW hasRoot,
         OpenView(entries, hasRoot), UNCHANGED <<image, tree, node>>
  PROVE  PackedRows' /\ Selects(view)' /\ view'.open
<1>1. PICK s : s = Visited(entries, hasRoot)
  OBVIOUS
<1>2. s \in Seq(Places) /\ GoesDown(s)
  BY <1>1, VisitedAre
<1>3. rows' = <<SuperblockRow>> \o [i \in DOMAIN s |-> InodeRow(s[i].nid, PathAsText(s[i].path))]
  BY <1>1 DEF OpenView, Visited
<1>4. RowsShown(rows')
  BY <1>2, <1>3, RowsOf
<1>5. view' = [open |-> TRUE, tree |-> 1, focus |-> "tree", collapsed |-> {}, related |-> 0,
               extent |-> 0, fields |-> Found(SuperblockObject), field |-> 0, override |-> NoOverride]
  BY DEF OpenView
<1> QED
  BY <1>4, <1>5, NewRows, FirstView

LEMMA DivMonotone ==
  ASSUME NEW B \in Nat, B > 0, NEW x \in Nat, NEW y \in Nat, x <= y
  PROVE  x \div B \in Nat /\ y \div B \in Nat /\ x \div B <= y \div B
<1>1. PICK p \in Nat, r \in 0..(B - 1) : x = p * B + r /\ x \div B = p
  BY DivIs
<1>2. PICK q \in Nat, t \in 0..(B - 1) : y = q * B + t /\ y \div B = q
  BY DivIs
<1>3. p <= q
  <2>1. SUFFICES ASSUME ~(p <= q) PROVE FALSE
    OBVIOUS
  <2>2. q + 1 \in Nat /\ q + 1 <= p
    BY <2>1
  <2>3. (q + 1) * B <= p * B /\ p * B \in Nat
    BY <2>2, Scaled
  <2>4. (q + 1) * B = q * B + 1 * B /\ q * B \in Nat /\ 1 * B = B
    BY Spread
  <2>5. PICK pb, qb : pb = p * B /\ qb = q * B
    OBVIOUS
  <2>6. qb + B <= pb /\ x = pb + r /\ y = qb + t /\ pb \in Nat /\ qb \in Nat
    BY <1>1, <1>2, <2>3, <2>4, <2>5
  <2>7. r >= 0 /\ t < B /\ r \in Nat /\ t \in Nat
    OBVIOUS
  <2> QED
    BY <2>6, <2>7
<1> QED
  BY <1>1, <1>2, <1>3

(* The zoomed map holds every block that a row touches.                    *)
LEMMA ZoomHolds ==
  ASSUME RowIs(Row), NEW s \in SpansOf(Row), NEW b \in Blocks, Touches(s, b), b \in Int
  PROVE  b \in ZoomedBlocks
<1>1. PICK B : B = BlockSize
  OBVIOUS
<1>2. B \in Nat /\ B > 0
  BY <1>1, LayoutAssumption DEF LayoutAssumption
<1>3. PICK limit \in Nat : \A e \in SpansOf(Row) : e.at + e.len <= limit
  BY DEF RowIs
<1>4. \A e \in SpansOf(Row) : e.at \in Nat /\ e.len \in Nat
  BY DEF RowIs
<1>5. PICK spans : spans = {e \in SpansOf(Row) : e.len > 0}
  OBVIOUS
<1>6. PICK firsts, ends :
        firsts = {e.at \div BlockSize : e \in spans} /\ ends = {DivCeil(e.at + e.len) : e \in spans}
  OBVIOUS
<1>7. s \in spans
  BY <1>5 DEF Touches
<1>8. ASSUME NEW e \in spans PROVE e.at \div B \in Nat
  <2>1. PICK x : x = e.at
    OBVIOUS
  <2>2. x \in Nat
    BY <1>4, <1>5, <2>1
  <2> QED
    BY <1>2, <2>1, <2>2, DivMonotone
<1>9. firsts \in SUBSET Nat /\ s.at \div B \in firsts
  BY <1>1, <1>6, <1>7, <1>8
<1>10. Sets!Min(firsts) \in Nat /\ Sets!Min(firsts) <= s.at \div B
  BY <1>9, MinIs
<1>11. PICK top : top = (limit + B - 1) \div B
  OBVIOUS
<1>12. top \in Nat
  BY <1>2, <1>3, <1>11, DivMonotone
<1>13. ASSUME NEW e \in spans PROVE DivCeil(e.at + e.len) \in 0..top
  <2>1. PICK x : x = e.at + e.len
    OBVIOUS
  <2>2. x \in Nat /\ x <= limit
    BY <1>3, <1>4, <1>5, <2>1
  <2>3. PICK y, z : y = x + B - 1 /\ z = limit + B - 1
    OBVIOUS
  <2>4. y \in Nat /\ z \in Nat /\ y <= z
    BY <1>2, <2>2, <2>3
  <2>5. y \div B \in Nat /\ y \div B <= z \div B /\ z \div B \in Nat
    BY <1>2, <2>4, DivMonotone
  <2>6. DivCeil(x) = y \div B
    BY <1>1, <2>3 DEF DivCeil
  <2> QED
    BY <1>11, <1>12, <2>1, <2>3, <2>5, <2>6
<1>14. ends \in SUBSET (0..top) /\ DivCeil(s.at + s.len) \in ends
  BY <1>6, <1>7, <1>13
<1>15. Sets!Max(ends) \in 0..top /\ DivCeil(s.at + s.len) <= Sets!Max(ends)
  BY <1>12, <1>14, MaxIs
<1>16. (s.at + s.len - 1) \div B <= DivCeil(s.at + s.len) /\ (s.at + s.len - 1) \div B \in Nat
       /\ DivCeil(s.at + s.len) \in Nat
  <2>1. PICK x, y, z : x = s.at + s.len /\ y = x - 1 /\ z = x + B - 1
    OBVIOUS
  <2>2. s.at \in Nat /\ s.len \in Nat /\ s.len > 0
    BY <1>4 DEF Touches
  <2>3. x \in Nat /\ y \in Nat /\ z \in Nat /\ y <= z
    BY <1>2, <2>1, <2>2
  <2>4. y \div B \in Nat /\ y \div B <= z \div B /\ z \div B \in Nat
    BY <1>2, <2>3, DivMonotone
  <2>5. DivCeil(s.at + s.len) = z \div B
    BY <1>1, <2>1 DEF DivCeil
  <2>6. s.at + s.len - 1 = y
    BY <2>1, <2>2, <2>3
  <2>7. (s.at + s.len - 1) \div B = y \div B
    BY <2>6, Zenon
  <2> QED
    BY <2>4, <2>5, <2>7
<1>17. s.at \div B <= b /\ b <= (s.at + s.len - 1) \div B
  BY <1>1 DEF Touches
<1>18. PICK lo, hi, m, u, d : /\ lo = Sets!Min(firsts) /\ hi = Sets!Max(ends) /\ m = s.at \div B
                              /\ u = (s.at + s.len - 1) \div B /\ d = DivCeil(s.at + s.len)
  OBVIOUS
<1>19. /\ lo \in Nat /\ hi \in Nat /\ m \in Nat /\ u \in Nat /\ d \in Nat
       /\ lo <= m /\ m <= b /\ b <= u /\ u <= d /\ d <= hi
  BY <1>7, <1>8, <1>10, <1>12, <1>15, <1>16, <1>17, <1>18
<1>20. b \in (lo - 2)..(hi + 1)
  BY <1>19
<1>21. ZoomedBlocks = (lo - 2)..(hi + 1) \cap Blocks
  BY <1>5, <1>6, <1>18 DEF ZoomedBlocks
<1> QED
  BY <1>20, <1>21

LEMMA SelectedIsShown ==
  ASSUME Packed, PackedRows, Selects(view), view.open
  PROVE  SelectionIsShown
<1>1. RowsAre
  BY PackedRowsAre
<1>2. Looking
  BY <1>1 DEF Looking
<1>3. /\ view \in ViewType /\ view.tree \in 1..Len(rows) /\ Row = rows[view.tree]
      /\ view.tree \in Visible
      /\ \A c \in view.collapsed : rows[c].kind = "dir" /\ HasChildren(c)
  BY <1>2, LookingIs
<1>4. /\ view.related <= Len(Row.related) /\ view.fields = Found(Selected(Row, view.related))
      /\ (view.field = 0 \/ view.field < Cardinality(view.fields))
      /\ (view.extent = 0 \/ view.extent < Len(DataExtents))
      /\ LooksAt(view)
  BY <1>3 DEF Selects, DataExtents
<1>5. RowIs(Row)
  BY <1>1, <1>3 DEF RowsAre
<1>6. \A b \in Blocks : b \in Int
  BY DEF Blocks
<1>7. \A s \in SpansOf(Row) : {b \in Blocks : Touches(s, b)} \subseteq ZoomedBlocks
  BY <1>5, <1>6, ZoomHolds
<1>8. view.override # NoOverride =>
        \E block \in {view.override.at \div BlockSize} : Owners(block) = {} \/ view.tree \in Owners(block)
  BY <1>4 DEF LooksAt
<1> QED
  BY <1>3, <1>4, <1>7, <1>8 DEF SelectionIsShown

(* A view that is open shows a packed image.                               *)
ViewInv == view.open => phase = "built" /\ PackedRows /\ Selects(view)

ShownInv == ToursInv /\ (source = FromHost => StepsDown /\ ViewInv)

LEMMA KeyIsPressed == Key => view.open
BY DEF Key, MoveTree, MoveField, HomeOrEnd, Tab, ToggleDirectory, TreeRight, TreeLeft, CycleRelated,
       CycleExtent, Search, JumpToNid, JumpTo

LEMMA ShownInit == Init => ShownInv
<1>1. SUFFICES ASSUME Init PROVE StepsDown /\ ViewInv
  BY ToursInit DEF ShownInv
<1>2. walk = "idle" /\ seen = <<>> /\ Len(seen) = 0 /\ ~view.open
  BY <1>1 DEF Init, ReaderInit, ViewerInit, Closed
<1> QED
  BY <1>2 DEF StepsDown, ViewInv

(* A view stays as it is, and so does what it shows.                       *)
LEMMA ViewStays ==
  ASSUME ViewInv, UNCHANGED viewVars, view.open => Packed /\ UNCHANGED <<image, tree, node, phase>>
  PROVE  ViewInv'
<1>1. SUFFICES ASSUME view.open PROVE (phase = "built" /\ PackedRows /\ Selects(view))'
  BY DEF ViewInv, viewVars
<1>2. PackedRows /\ Selects(view') /\ phase = "built"
  BY <1>1 DEF ViewInv, viewVars
<1>3. PackedRows'
  BY <1>1, <1>2, RowsAlike DEF viewVars
<1>4. Selects(view)'
  BY <1>1, <1>2, SelectsAlike DEF viewVars
<1> QED
  BY <1>1, <1>2, <1>3, <1>4

LEMMA InspectShows ==
  ASSUME Packed, WalkInv, TourInv, StepsDown, ViewInv, Inspect
  PROVE  ViewInv'
<1>1. UNCHANGED <<image, tree, node, phase>> /\ phase = "built"
  BY DEF Inspect, builderVars
<1>2. CASE OpenView(<<>>, HasInode(Superblock.root))
  <2>1. <<>> \in Seq(Spots) /\ GoesDown(<<>>)
    BY DEF GoesDown
  <2>2. PICK none : none = <<>>
    OBVIOUS
  <2>3. ASSUME NEW hasRoot, OpenView(none, hasRoot) PROVE PackedRows' /\ Selects(view)'
    BY <1>1, <2>1, <2>2, <2>3, OpenViewShows
  <2>4. PackedRows' /\ Selects(view)'
    BY <1>2, <2>2, <2>3, Zenon
  <2> QED
    BY <1>1, <2>4 DEF ViewInv
<1>3. CASE RootWalked /\ OpenView(seen, TRUE)
  <2>1. seen \in Seq(Spots)
    BY SeenAre
  <2>2. GoesDown(seen)
    <3>1. start = <<>> /\ Len(start) + 1 = 1
      BY <1>3 DEF RootWalked
    <3> QED
      BY <3>1 DEF StepsDown, GoesDown
  <2>3. ASSUME NEW hasRoot, OpenView(seen, hasRoot) PROVE PackedRows' /\ Selects(view)'
    BY <1>1, <2>1, <2>2, <2>3, OpenViewShows
  <2>4. PackedRows' /\ Selects(view)'
    BY <1>3, <2>3, Zenon
  <2> QED
    BY <1>1, <2>4 DEF ViewInv
<1>4. CASE Key
  <2>1. view.open
    BY <1>4, KeyIsPressed
  <2>2. PackedRows /\ Selects(view)
    BY <2>1 DEF ViewInv
  <2>3. Looking
    BY <2>1, <2>2, PackedRowsAre DEF Looking
  <2>4. End \in Int
    BY ImageIs
  <2>5. Selects(view') /\ rows' = rows
    BY <1>4, <2>3, <2>4, KeySelects
  <2>6. PackedRows'
    BY <1>1, <2>2, <2>5, RowsAlike
  <2>7. Selects(view)'
    BY <1>1, <2>2, <2>5, SelectsAlike
  <2> QED
    BY <1>1, <2>6, <2>7 DEF ViewInv
<1> QED
  BY <1>2, <1>3, <1>4 DEF Inspect

LEMMA ReadGoesDown ==
  ASSUME Packed, WalkInv, TourInv, StepsDown, Start \/ Read
  PROVE  StepsDown'
<1>1. CASE Start
  <2>1. PICK path \in {e.path : e \in Reachable \cup {TheRoot}} \cup {<<n>> : n \in Name \ {Dot, DotDot}} :
          StartWalk(path)
    BY <1>1 DEF Start
  <2> QED
    BY <2>1, PathsAre, StartDown
<1>2. CASE OpenFile \/ ReadEof
  BY <1>2, WaitsDown DEF OpenFile, ReadEof
<1>3. ASSUME NEW n \in ReadSizes, ReadBuffered(n) \/ ReadAnew(n) PROVE StepsDown'
  <2>1. UNCHANGED walkVars \/ Stop("unreadable")
    BY <1>3 DEF ReadBuffered, ReadAnew
  <2> QED
    BY <2>1, WaitsDown, StopsDown
<1>4. CASE BadDirent
  <2>1. Stop("corrupt")
    BY <1>4 DEF BadDirent
  <2> QED
    BY <2>1, StopsDown
<1>5. CASE RefuseEntry
  <2>1. PICK why : why = Refusal
    OBVIOUS
  <2>2. Stop(why) /\ why # "walking"
    BY <1>5, <2>1 DEF RefuseEntry, Refusal
  <2> QED
    BY <2>2, StopsDown
<1> QED
  BY <1>1, <1>2, <1>3, <1>4, <1>5, NextBlockDown, PopDirDown, SkipDotDown, YieldEntryDown DEF Read, ReaderStep

LEMMA ShownStep == ShownInv /\ [Next]_vars => ShownInv'
<1>1. SUFFICES ASSUME ShownInv, [Next]_vars, source = FromHost, source' = source PROVE (StepsDown /\ ViewInv)'
  <2>1. [Next]_vars => source' = source
    BY DEF Next, Step, Build, Intrude, Start, Read, Inspect, Terminated, vars
  <2> QED
    BY <2>1, ToursStep DEF ShownInv
<1>2. /\ BuildTypes /\ LayInv /\ EmitInv /\ WalkInv /\ TourInv /\ StepsDown /\ ViewInv
  BY <1>1 DEF ShownInv, ToursInv, PackedInv, HostInv
<1>3. CASE Build \/ Intrude
  <2>1. phase # "built" /\ UNCHANGED readerVars /\ UNCHANGED viewVars
    BY <1>3 DEF Build, Intrude, BuilderStep, RefuseNode, ScanNode, AssignNid, PlaceDirent, LayoutDir,
                LayoutPayload, OutOfBlocks, EmitNode, FileChanged, HostWrite
  <2>2. ~view.open
    BY <1>2, <2>1 DEF ViewInv
  <2>3. StepsDown'
    BY <1>2, <2>1, WaitsDown DEF readerVars
  <2> QED
    BY <1>2, <2>1, <2>2, <2>3, ViewStays
<1>4. CASE Start \/ Read
  <2>1. Packed /\ UNCHANGED <<image, builderVars, viewVars>>
    BY <1>1, <1>2, <1>4 DEF Packed, Start, Read
  <2>2. UNCHANGED <<image, tree, node, phase>>
    BY <2>1 DEF builderVars
  <2> QED
    BY <1>2, <1>4, <2>1, <2>2, ReadGoesDown, ViewStays
<1>5. CASE Inspect
  <2>1. Packed /\ UNCHANGED walkVars
    BY <1>1, <1>2, <1>5 DEF Packed, Inspect, readerVars
  <2> QED
    BY <1>2, <1>5, <2>1, InspectShows, WaitsDown
<1>6. CASE Terminated \/ UNCHANGED vars
  <2>1. UNCHANGED <<image, builderVars, readerVars, viewVars>>
    BY <1>6 DEF Terminated, vars
  <2>2. UNCHANGED <<image, tree, node, phase, walkVars, viewVars>>
    BY <2>1 DEF builderVars, readerVars
  <2>3. view.open => Packed
    BY <1>1, <1>2 DEF ViewInv, Packed
  <2> QED
    BY <1>2, <2>2, <2>3, WaitsDown, ViewStays
<1> QED
  BY <1>1, <1>3, <1>4, <1>5, <1>6 DEF Next, Step

(* Whatever keys are pressed in the inspector of a packed image, what is   *)
(* selected is a row that is visible, its fields and extents exist, and    *)
(* the zoomed map holds its blocks.                                        *)
THEOREM PackedSelectionIsShown == Spec => [](source = FromHost => SelectionIsShown)
<1>1. ShownInv => (source = FromHost => SelectionIsShown)
  <2>1. SUFFICES ASSUME ShownInv, source = FromHost, view.open PROVE SelectionIsShown
    BY DEF SelectionIsShown
  <2>2. Packed /\ PackedRows /\ Selects(view)
    BY <2>1 DEF ShownInv, ToursInv, PackedInv, HostInv, ViewInv, Packed
  <2> QED
    BY <2>1, <2>2, SelectedIsShown
<1> QED
  BY <1>1, ShownInit, ShownStep, PTL DEF Spec

-----------------------------------------------------------------------------
(* What a packed row shows, next to what the reader reads.                 *)

(* A row below the first shows a node.                                     *)
LEMMA RowIsOfNode ==
  ASSUME Packed, PackedRows, NEW i \in InodeRows
  PROVE  /\ i \in 2..Len(rows)
         /\ \E n \in Reached(tree) : \E path \in Seq(Name) :
              RowShows(rows[i], n, path) /\ rows[i].object.nid = node[n].nid
<1>1. i \in DOMAIN rows /\ rows[i].kind # "superblock"
  BY DEF InodeRows
<1>2. DOMAIN rows = 1..Len(rows) /\ Len(rows) \in Nat
  BY PackedRowsAre, RowsFacts
<1>3. rows[1].kind = "superblock"
  BY SuperblockRowRight DEF PackedRows
<1>4. i \in 2..Len(rows)
  BY <1>1, <1>2, <1>3
<1>5. PICK n \in Reached(tree) : \E path \in Seq(Name) : RowShows(rows[i], n, path)
  BY <1>4 DEF PackedRows
<1>6. PICK path \in Seq(Name) : RowShows(rows[i], n, path)
  BY <1>5
<1>7. rows[i].object.nid = node[n].nid
  BY <1>6 DEF RowShows, InodeObject, Object
<1> QED
  BY <1>4, <1>6, <1>7

(* A block that begins at an offset of a node's data.                      *)
LEMMA BlockOf ==
  ASSUME Packed, NEW n \in Reached(tree), NEW o \in BlocksOf(node[n].nid), NEW block,
         block = ReadBlock(node[n].nid, o)
  PROVE  /\ o \in Nat /\ o \div BlockSize \in Nat /\ (o \div BlockSize) * BlockSize = o
         /\ block.at = node[n].blkaddr * BlockSize + o /\ node[n].blkaddr * BlockSize \in Nat
         /\ block.len \in Nat /\ block.len > 0 /\ block.len <= BlockSize
         /\ node[n].size \in Nat /\ o + block.len <= node[n].size
<1>1. PICK nid, size, addr, S : nid = node[n].nid /\ size = node[n].size /\ addr = node[n].blkaddr /\ S = BlockSize
  OBVIOUS
<1>2. /\ size \in Nat /\ addr \in Nat /\ S \in Nat /\ S > 0 /\ Here(nid)
      /\ InodeAt(nid).size = size /\ InodeAt(nid).addr = addr
  BY <1>1, NodeIs, TheFieldsAre, LayoutAssumption DEF LayoutAssumption
<1>3. o \in 0..(size - 1) /\ o % S = 0 /\ block # NoBlock /\ block = ReadBlock(nid, o)
  BY <1>1, <1>2 DEF BlocksOf
<1>4. o \in Nat
  BY <1>2, <1>3
<1>5. PICK q \in Nat, r \in 0..(S - 1) : o = q * S + r /\ o \div S = q /\ o % S = r
  BY <1>2, <1>4, DivIs
<1>6. PICK qs, base : qs = q * S /\ base = addr * S
  OBVIOUS
<1>7. qs \in Nat /\ base \in Nat /\ (addr + q) * S = base + qs
  BY <1>2, <1>6, Spread
<1>8. qs = o
  BY <1>3, <1>5, <1>6, <1>7
<1>9. /\ GoodBlock(block)
      /\ block = [at |-> (addr + (o \div S)) * S, len |-> AtMost(size - (o \div S) * S, S)]
  BY <1>1, <1>2, <1>3, <1>4, BlockIs
<1>10. block = [at |-> (addr + q) * S, len |-> AtMost(size - q * S, S)]
  BY <1>5, <1>9
<1>11. block.at = base + o /\ block.len = AtMost(size - o, S)
  BY <1>6, <1>7, <1>8, <1>10
<1>12. block.len \in Nat /\ block.len > 0
  BY <1>9 DEF GoodBlock
<1>13. block.len <= S /\ o + block.len <= size
  <2>1. PICK len : len = block.len
    OBVIOUS
  <2>2. len = AtMost(size - o, S) /\ len \in Nat
    BY <1>11, <1>12, <2>1
  <2>3. len <= S /\ o + len <= size
    BY ONLY <1>2, <1>4, <2>2 DEF AtMost
  <2> QED
    BY <2>1, <2>3
<1> QED
  BY <1>1, <1>2, <1>4, <1>5, <1>6, <1>7, <1>8, <1>11, <1>12, <1>13

(* A block that a row touches is marked.                                   *)
LEMMA UsedIs ==
  ASSUME RowsAre, NEW i \in 1..Len(rows), rows[i].kind # "superblock",
         NEW e \in Seqs!ToSet(rows[i].data), NEW b, Touches(e, b)
  PROVE  BlockKind(b) # 0
<1>1. PICK uses : uses = {0} \cup UNION {Uses(rows[k], b) : k \in DOMAIN rows}
  OBVIOUS
<1>2. i \in DOMAIN rows
  BY RowsFacts
<1>3. \A k : Uses(rows[k], b) \subseteq 1..4
  BY DEF Uses
<1>4. uses \in SUBSET (0..4) /\ uses # {}
  <2>1. \A u \in UNION {Uses(rows[k], b) : k \in DOMAIN rows} : u \in 1..4
    BY <1>3, Zenon
  <2>2. \A u \in uses : u \in 0..4
    BY <1>1, <2>1
  <2>3. 0 \in uses
    BY <1>1
  <2> QED
    BY <2>2, <2>3
<1>5. \E u \in uses : u > 0
  <2>1. \E u \in Uses(rows[i], b) : TRUE
    BY DEF Uses
  <2> QED
    BY <1>1, <1>2, <1>3, <2>1
<1>6. \E u \in uses : \A v \in uses : v <= u
  BY <1>4, GreatestNumber
<1>7. PICK top : top = CHOOSE u \in uses : \A v \in uses : v <= u
  OBVIOUS
<1>8. top \in uses /\ \A v \in uses : v <= top
  BY <1>6, <1>7, Zenon
<1>9. top # 0
  BY <1>4, <1>5, <1>8
<1>10. BlockKind(b) = top
  BY <1>1, <1>7, Zenon DEF BlockKind
<1> QED
  BY <1>9, <1>10

LEMMA DataShown ==
  ASSUME Packed, PackedRows, NEW i \in InodeRows
  PROVE  ShowsData(rows[i], rows[i].object.nid)
<1>1. PICK n \in Reached(tree), path \in Seq(Name) :
        RowShows(rows[i], n, path) /\ rows[i].object.nid = node[n].nid
  BY RowIsOfNode
<1>2. PICK nid, row, D : nid = node[n].nid /\ row = rows[i] /\ D = DataOf(n)
  OBVIOUS
<1>3. row.data = D /\ row.object.nid = nid
  BY <1>1, <1>2 DEF RowShows
<1>4. InodeAt(nid).addr = node[n].blkaddr
  BY <1>2, NodeIs, TheFieldsAre
<1>5. SUFFICES ASSUME node[n].blkaddr # Unmapped, NEW o \in BlocksOf(nid), NEW block, block = ReadBlock(nid, o)
               PROVE  /\ Cardinality({k \in DOMAIN D : Covers(D[k], o, block)}) = 1
                      /\ BlockKind(block.at \div BlockSize) # 0
  BY <1>2, <1>3, <1>4 DEF ShowsData
<1>6. PICK base, size, at, len, S :
        /\ base = node[n].blkaddr * BlockSize /\ size = node[n].size /\ at = block.at /\ len = block.len
        /\ S = BlockSize
  OBVIOUS
<1>7. /\ o \in Nat /\ base \in Nat /\ size \in Nat /\ len \in Nat /\ len > 0 /\ S \in Nat /\ S > 0
      /\ at = base + o /\ o + len <= size
  <2>1. BlockSize \in Nat /\ BlockSize > 0
    BY LayoutAssumption DEF LayoutAssumption
  <2> QED
    BY <1>2, <1>5, <1>6, <2>1, BlockOf
<1>8. size > 0
  BY <1>7
<1>9. PICK e : e = DataAt(base, size, 0)
  OBVIOUS
<1>10. D = <<e>> /\ DOMAIN D = {1} /\ D[1] = e
  <2>1. D = <<e>>
    BY <1>2, <1>5, <1>6, <1>8, <1>9 DEF DataOf
  <2> QED
    BY <2>1
<1>11. e.at = base /\ e.len = size /\ e.logical = 0
  BY <1>9 DEF DataAt
<1>12. Covers(e, o, block)
  BY <1>6, <1>7, <1>11 DEF Covers
<1>13. {k \in DOMAIN D : Covers(D[k], o, block)} = {1}
  BY <1>10, <1>12
<1>14. Cardinality({1}) = 1
  BY FS_Singleton
<1>15. Touches(e, at \div S)
  <2>1. base + size - 1 \in Nat /\ at \in Nat /\ base <= at /\ at <= base + size - 1
    BY <1>7
  <2>2. base \div S <= at \div S
    BY <1>7, <2>1, DivMonotone
  <2>3. PICK z : z = base + size - 1
    OBVIOUS
  <2>4. at \div S <= z \div S
    BY <1>7, <2>1, <2>3, DivMonotone
  <2>5. (e.at + e.len - 1) \div S = z \div S
    BY <1>11, <2>3
  <2>6. e.at \div S = base \div S
    BY <1>11
  <2> QED
    BY <1>6, <1>8, <1>11, <2>2, <2>4, <2>5, <2>6 DEF Touches
<1>16. RowsAre /\ i \in 1..Len(rows) /\ rows[i].kind # "superblock"
  <2>1. RowsAre
    BY PackedRowsAre
  <2> QED
    BY <2>1, RowsFacts DEF InodeRows
<1>17. e \in Seqs!ToSet(rows[i].data)
  BY <1>2, <1>3, <1>10 DEF Seqs!ToSet
<1>18. BlockKind(at \div S) # 0
  BY <1>15, <1>16, <1>17, UsedIs
<1> QED
  BY <1>6, <1>13, <1>14, <1>18

LEMMA EntriesShown ==
  ASSUME Packed, PackedRows, NEW i \in InodeRows
  PROVE  ShowsEntries(rows[i], rows[i].object.nid)
<1>1. PICK n \in Reached(tree), path \in Seq(Name) :
        RowShows(rows[i], n, path) /\ rows[i].object.nid = node[n].nid
  BY RowIsOfNode
<1>2. PICK nid, row : nid = node[n].nid /\ row = rows[i]
  OBVIOUS
<1>3. SUFFICES ASSUME row.kind = "dir", NEW o \in BlocksOf(nid), NEW block, block = ReadBlock(nid, o),
                      NEW k \in 0..(BlockSize - 1), NEW entry, entry = Object("dirent", nid, o \div BlockSize, k)
               PROVE  /\ entry \in Seqs!ToSet(row.related) <=> k < Count(block) /\ Count(block) < block.len
                      /\ entry \in Seqs!ToSet(row.related) => Locate(entry) = Span(block.at + k, 1)
  BY <1>1, <1>2 DEF ShowsEntries
<1>4. IsDir(n)
  <2>1. Kind(TheInode(n)[1]) = "dir" /\ TheInode(n)[1].type = tree.type[n]
    BY <1>1, <1>2, <1>3, TheFieldsAre DEF RowShows
  <2> QED
    BY <2>1 DEF Kind, IsDir
<1>5. Seqs!ToSet(row.related) = DirentsOf(n)
  BY <1>1, <1>2, <1>4 DEF RowShows, Elements, Seqs!ToSet
<1>6. PICK b : b = o \div BlockSize
  OBVIOUS
<1>7. /\ o \in Nat /\ b \in Nat /\ b * BlockSize = o /\ block.len \in Nat /\ block.len > 0
      /\ node[n].size \in Nat /\ o + block.len <= node[n].size
  BY <1>2, <1>3, <1>6, BlockOf
<1>8. k \in Nat /\ nid \in Nat /\ b * BlockSize < node[n].size /\ block = ReadBlock(nid, b * BlockSize)
  <2>1. nid \in Nat
    BY <1>2, NodeIs DEF Here
  <2>2. k \in Nat
    BY LayoutAssumption DEF LayoutAssumption
  <2> QED
    BY <1>3, <1>7, <2>1, <2>2
<1>9. entry = [is |-> "dirent", nid |-> nid, block |-> b, index |-> k]
  BY <1>3, <1>6 DEF Object
<1>10. entry \in ObjectType /\ entry.nid = nid /\ entry.block = b /\ entry.index = k
  BY <1>7, <1>8, <1>9 DEF ObjectType
<1>11. Shows(n, b, k) <=> k < Count(block) /\ Count(block) < block.len
  BY <1>2, <1>8 DEF Shows
<1>12. entry \in DirentsOf(n) <=> Shows(n, b, k)
  BY <1>2, <1>10 DEF DirentsOf
<1>13. ASSUME k < Count(block), Count(block) < block.len PROVE Locate(entry) = Span(block.at + k, 1)
  BY <1>2, <1>3, <1>6, <1>7, <1>8, <1>13, DirentLocated
<1> QED
  BY <1>5, <1>11, <1>12, <1>13

LEMMA ReadIsShown ==
  ASSUME Packed, PackedRows
  PROVE  ViewShowsWhatIsRead
<1>1. source = FromHost
  BY DEF Packed
<1> QED
  BY <1>1, DataShown, EntriesShown DEF ViewShowsWhatIsRead

-----------------------------------------------------------------------------
(* Where the structures of a packed image lie.                             *)

(* A dirent lies in the data of its directory, below no other.             *)
LEMMA DirentLies ==
  ASSUME Packed, NEW n \in Reached(tree), NEW o \in DirentsOf(n)
  PROVE  \E at \in Nat :
           /\ Found(o) = {node[n].blkaddr * BlockSize + at} /\ at < node[n].size
           /\ at = o.block * BlockSize + o.index /\ o.index \in 0..(BlockSize - 1)
           /\ o.block \in Nat /\ o.nid = node[n].nid /\ o.is = "dirent"
<1>1. PICK nid, b, i, base, S, size :
        /\ nid = node[n].nid /\ b = o.block /\ i = o.index /\ base = node[n].blkaddr * BlockSize /\ S = BlockSize
        /\ size = node[n].size
  OBVIOUS
<1>2. b \in Nat /\ i \in Nat /\ i \in 0..(S - 1) /\ o.nid = nid /\ o.is = "dirent" /\ S \in Nat /\ S > 0
  BY <1>1, LayoutAssumption DEF DirentsOf, ObjectType, LayoutAssumption
<1>3. PICK block : block = ReadBlock(nid, b * S)
  OBVIOUS
<1>4. /\ b * S \in Nat /\ b * S < size /\ i < Count(block) /\ Count(block) < block.len
      /\ Found(o) = {block.at + i} /\ GoodBlock(block)
  BY <1>1, <1>3, DirentFound
<1>5. size \in Nat
  BY <1>1, NodeIs
<1>6. PICK at : at = b * S
  OBVIOUS
<1>7. at \in BlocksOf(nid)
  <2>1. (b * S) % S = 0
    <3>1. (b * S + 0) % S = 0
      BY <1>2, DivMod
    <3>2. b * S + 0 = b * S
      BY <1>4
    <3> QED
      BY <3>1, <3>2
  <2>2. InodeAt(nid).size = size
    BY <1>1, NodeIs, TheFieldsAre
  <2>3. block # NoBlock
    BY <1>4 DEF GoodBlock, NoBlock
  <2>4. at \in 0..(size - 1)
    BY <1>4, <1>5, <1>6
  <2> QED
    BY <1>1, <1>3, <1>6, <2>1, <2>2, <2>3, <2>4 DEF BlocksOf
<1>8. /\ block.at = base + at /\ base \in Nat /\ block.len \in Nat /\ at + block.len <= size
  BY <1>1, <1>3, <1>6, <1>7, BlockOf
<1>9. Count(block) \in Nat
  BY <1>4, CountIs
<1>10. PICK c, len, cell : c = Count(block) /\ len = block.len /\ cell = block.at + i
  OBVIOUS
<1>11. at \in Nat /\ i < len /\ at + len <= size
  BY <1>2, <1>4, <1>6, <1>8, <1>9, <1>10
<1>12. cell = base + (at + i) /\ at + i < size /\ at + i \in Nat
  BY <1>2, <1>5, <1>8, <1>10, <1>11
<1>13. Found(o) = {base + (at + i)}
  BY <1>4, <1>10, <1>12
<1> QED
  BY <1>1, <1>2, <1>6, <1>12, <1>13

(* Cells that only one object has: of the superblock, of an inode, of the  *)
(* data of a node.                                                         *)
DataCells(n) == (node[n].blkaddr * BlockSize)..(node[n].blkaddr * BlockSize + node[n].size - 1)
InodeSlots(n) == node[n].nid..(node[n].nid + 1)
SuperblockCells == SuperblockOffset..(FirstNid - 1)

LEMMA RegionsApart ==
  ASSUME Packed, NEW n \in Reached(tree), NEW m \in Reached(tree)
  PROVE  /\ SuperblockCells \cap InodeSlots(n) = {}
         /\ SuperblockCells \cap DataCells(n) = {}
         /\ InodeSlots(m) \cap DataCells(n) = {}
         /\ m # n => InodeSlots(m) \cap InodeSlots(n) = {} /\ DataCells(m) \cap DataCells(n) = {}
<1>1. /\ BuildTypes /\ LayInv /\ phase \in {"emit", "built"}
  BY DEF Packed
<1>2. PICK first, top, a, b, p, q, s, t, r, u, v :
        /\ first = FirstNid /\ top = cursor.nid /\ a = node[n].nid /\ b = node[m].nid
        /\ p = node[n].blkaddr * BlockSize /\ q = node[m].blkaddr * BlockSize
        /\ s = node[n].size /\ t = node[m].size /\ r = Room(n) /\ u = Room(m) /\ v = SuperblockOffset
  OBVIOUS
<1>3. /\ first \in Nat /\ top \in Nat /\ v \in Nat
  BY <1>1, <1>2, LayoutAssumption DEF BuildTypes, FirstNid, LayoutAssumption
<1>4. /\ a \in Nat /\ first <= a /\ a + 2 <= top /\ r \in Nat /\ p \in Nat
      /\ (r > 0 => top <= p)
      /\ (m # n => a + 2 <= b \/ b + 2 <= a)
      /\ (m # n /\ r > 0 /\ u > 0 => p + r <= q \/ q + u <= p)
  BY <1>1, <1>2, Geometry
<1>5. /\ b \in Nat /\ first <= b /\ b + 2 <= top /\ u \in Nat /\ q \in Nat
      /\ (u > 0 => top <= q)
  BY <1>1, <1>2, Geometry
<1>6. s \in Nat /\ t \in Nat /\ s <= r /\ t <= u
  BY <1>2, RoomHolds
<1>7. /\ DataCells(n) = p..(p + s - 1) /\ DataCells(m) = q..(q + t - 1) /\ InodeSlots(n) = a..(a + 1)
      /\ InodeSlots(m) = b..(b + 1) /\ SuperblockCells = v..(first - 1)
  BY <1>2 DEF DataCells, InodeSlots, SuperblockCells
<1>8. \A c \in p..(p + s - 1) : top <= c /\ r > 0 /\ c \in Int /\ p <= c /\ c < p + s
  BY <1>3, <1>4, <1>6
<1>9. \A c \in q..(q + t - 1) : u > 0 /\ c \in Int /\ q <= c /\ c < q + t
  BY <1>5, <1>6
<1>10. (v..(first - 1)) \cap (a..(a + 1)) = {}
  BY <1>3, <1>4
<1>11. (v..(first - 1)) \cap (p..(p + s - 1)) = {}
  BY <1>3, <1>4, <1>8
<1>12. (b..(b + 1)) \cap (p..(p + s - 1)) = {}
  BY <1>3, <1>5, <1>8
<1>13. m # n => (b..(b + 1)) \cap (a..(a + 1)) = {}
  BY <1>4, <1>5
<1>14. m # n => (q..(q + t - 1)) \cap (p..(p + s - 1)) = {}
  BY <1>4, <1>5, <1>6, <1>8, <1>9
<1> QED
  BY <1>7, <1>10, <1>11, <1>12, <1>13, <1>14

(* What an object of a packed image may be.                                *)
OfInode(o, n) == o = InodeObject(node[n].nid) /\ Found(o) = InodeSlots(n)
OfEntry(o, n) == o \in DirentsOf(n) /\ Found(o) \subseteq DataCells(n)

LEMMA EntryInData ==
  ASSUME Packed, NEW n \in Reached(tree), NEW o \in DirentsOf(n)
  PROVE  OfEntry(o, n) /\ o.nid = node[n].nid /\ o.is = "dirent"
<1>1. PICK at \in Nat :
           /\ Found(o) = {node[n].blkaddr * BlockSize + at} /\ at < node[n].size
           /\ o.nid = node[n].nid /\ o.is = "dirent"
  BY DirentLies
<1>2. PICK base, size : base = node[n].blkaddr * BlockSize /\ size = node[n].size
  OBVIOUS
<1>3. base \in Nat /\ size \in Nat
  BY <1>2, RoomHolds
<1>4. base + at \in base..(base + size - 1)
  BY <1>1, <1>2, <1>3
<1>5. Found(o) \subseteq DataCells(n)
  BY <1>1, <1>2, <1>4 DEF DataCells
<1> QED
  BY <1>1, <1>5 DEF OfEntry

(* An offset lies in one block, at one place.                              *)
LEMMA SplitsOnce ==
  ASSUME NEW S \in Nat, S > 0, NEW q \in Nat, NEW r \in 0..(S - 1), NEW u \in Nat, NEW v \in 0..(S - 1),
         q * S + r = u * S + v
  PROVE  q = u /\ r = v
<1>1. PICK a, b : a = q * S + r /\ b = u * S + v
  OBVIOUS
<1>2. a \div S = q /\ a % S = r
  BY <1>1, DivMod, Zenon
<1>3. b \div S = u /\ b % S = v
  BY <1>1, DivMod, Zenon
<1> QED
  BY <1>1, <1>2, <1>3, Zenon

(* Two dirents of a directory are not in the same cell.                    *)
LEMMA EntriesApart ==
  ASSUME Packed, NEW n \in Reached(tree), NEW o \in DirentsOf(n), NEW x \in DirentsOf(n), o # x
  PROVE  Found(o) \cap Found(x) = {}
<1>1. PICK base, S : base = node[n].blkaddr * BlockSize /\ S = BlockSize
  OBVIOUS
<1>2. base \in Nat /\ S \in Nat /\ S > 0
  BY <1>1, RoomHolds, LayoutAssumption DEF LayoutAssumption
<1>3. PICK at \in Nat : /\ Found(o) = {base + at} /\ at = o.block * S + o.index
                        /\ o.index \in 0..(S - 1) /\ o.block \in Nat /\ o.nid = node[n].nid /\ o.is = "dirent"
  BY <1>1, DirentLies
<1>4. PICK bt \in Nat : /\ Found(x) = {base + bt} /\ bt = x.block * S + x.index
                        /\ x.index \in 0..(S - 1) /\ x.block \in Nat /\ x.nid = node[n].nid /\ x.is = "dirent"
  BY <1>1, DirentLies
<1>5. at # bt
  <2>1. SUFFICES ASSUME at = bt PROVE FALSE
    OBVIOUS
  <2>2. PICK b, i, c, j : b = o.block /\ i = o.index /\ c = x.block /\ j = x.index
    OBVIOUS
  <2>3. /\ b \in Nat /\ i \in 0..(S - 1) /\ c \in Nat /\ j \in 0..(S - 1)
        /\ b * S + i = c * S + j
    BY <1>3, <1>4, <2>1, <2>2, Zenon
  <2>4. b = c /\ i = j
    BY <1>2, <2>3, SplitsOnce
  <2>5. o.block = x.block /\ o.index = x.index
    BY <2>2, <2>4
  <2>6. o \in ObjectType /\ x \in ObjectType
    BY DEF DirentsOf
  <2>7. o = [is |-> o.is, nid |-> o.nid, block |-> o.block, index |-> o.index]
    BY <2>6 DEF ObjectType
  <2>8. x = [is |-> x.is, nid |-> x.nid, block |-> x.block, index |-> x.index]
    BY <2>6 DEF ObjectType
  <2> QED
    BY <1>3, <1>4, <2>5, <2>7, <2>8
<1>6. base + at # base + bt
  BY <1>2, <1>5
<1> QED
  BY <1>3, <1>4, <1>6

AllObjects == UNION {Objects(rows[i]) : i \in DOMAIN rows}

LEMMA ObjectsAre ==
  ASSUME Packed, PackedRows, NEW o \in AllObjects
  PROVE  \/ o = SuperblockObject /\ Found(o) \subseteq SuperblockCells
         \/ \E n \in Reached(tree) : OfInode(o, n)
         \/ \E n \in Reached(tree) : OfEntry(o, n)
<1>1. PICK i \in DOMAIN rows : o \in Objects(rows[i])
  BY DEF AllObjects
<1>2. DOMAIN rows = 1..Len(rows) /\ Len(rows) \in Nat
  BY PackedRowsAre, RowsFacts
<1>3. CASE i = 1
  <2>1. rows[1].object = SuperblockObject /\ rows[1].related = <<>>
    BY SuperblockRowRight DEF PackedRows
  <2>2. o = SuperblockObject
    BY <1>1, <1>3, <2>1 DEF Objects, Seqs!ToSet
  <2> QED
    BY <2>2, SuperblockIs DEF SuperblockCells
<1>4. CASE i # 1
  <2>1. i \in 2..Len(rows)
    BY <1>2, <1>4
  <2>2. PICK n \in Reached(tree) : \E path \in Seq(Name) : RowShows(rows[i], n, path)
    BY <2>1 DEF PackedRows
  <2>3. rows[i].object = InodeObject(node[n].nid) /\ Elements(rows[i].related) \subseteq DirentsOf(n)
    BY <2>2 DEF RowShows
  <2>4. o = InodeObject(node[n].nid) \/ o \in DirentsOf(n)
    BY <1>1, <2>3 DEF Objects, Seqs!ToSet, Elements
  <2>5. ASSUME o = InodeObject(node[n].nid) PROVE OfInode(o, n)
    BY <2>5, InodeLocated DEF OfInode, InodeSlots
  <2>6. ASSUME o \in DirentsOf(n) PROVE OfEntry(o, n)
    BY <2>6, EntryInData
  <2> QED
    BY <2>4, <2>5, <2>6
<1> QED
  BY <1>3, <1>4

LEMMA ObjectsApart ==
  ASSUME Packed, PackedRows, NEW o \in AllObjects, NEW x \in AllObjects, o # x
  PROVE  Found(o) \cap Found(x) = {}
<1> DEFINE OfSuper(y) == y = SuperblockObject /\ Found(y) \subseteq SuperblockCells
           Known3(y) == \/ OfSuper(y)
                        \/ \E n \in Reached(tree) : OfInode(y, n)
                        \/ \E n \in Reached(tree) : OfEntry(y, n)
<1>1. Known3(o) /\ Known3(x)
  BY ObjectsAre
<1>2. ASSUME NEW y, NEW z, OfSuper(y), NEW n \in Reached(tree), OfInode(z, n) \/ OfEntry(z, n)
      PROVE  Found(y) \cap Found(z) = {}
  BY <1>2, RegionsApart DEF OfInode, OfEntry
<1>3. ASSUME NEW y, NEW z, NEW m \in Reached(tree), NEW n \in Reached(tree), OfInode(y, m), OfEntry(z, n)
      PROVE  Found(y) \cap Found(z) = {}
  BY <1>3, RegionsApart DEF OfInode, OfEntry
<1>4. ASSUME NEW m \in Reached(tree), NEW n \in Reached(tree), OfInode(o, m), OfInode(x, n)
      PROVE  Found(o) \cap Found(x) = {}
  <2>1. m # n
    BY <1>4 DEF OfInode
  <2> QED
    BY <1>4, <2>1, RegionsApart DEF OfInode
<1>5. ASSUME NEW m \in Reached(tree), NEW n \in Reached(tree), OfEntry(o, m), OfEntry(x, n)
      PROVE  Found(o) \cap Found(x) = {}
  <2>1. CASE m = n
    BY <1>5, <2>1, EntriesApart DEF OfEntry
  <2>2. CASE m # n
    BY <1>5, <2>2, RegionsApart DEF OfEntry
  <2> QED
    BY <2>1, <2>2
<1>6. ~(OfSuper(o) /\ OfSuper(x))
  OBVIOUS
<1>7. \A y, z : Found(y) \cap Found(z) = Found(z) \cap Found(y)
  OBVIOUS
<1> HIDE DEF OfSuper
<1> QED
  BY <1>1, <1>2, <1>3, <1>4, <1>5, <1>6, <1>7

(* The data of a row holds no structure but the dirents of its own.        *)
LEMMA DataApart ==
  ASSUME Packed, PackedRows, NEW i \in InodeRows, NEW e \in Seqs!ToSet(rows[i].data), NEW o \in AllObjects
  PROVE  \/ o.is = "dirent" /\ o.nid = rows[i].object.nid
         \/ Found(o) \cap (e.at..(e.at + e.len - 1)) = {}
<1>1. PICK n \in Reached(tree), path \in Seq(Name) :
        RowShows(rows[i], n, path) /\ rows[i].object.nid = node[n].nid
  BY RowIsOfNode
<1>2. rows[i].data = DataOf(n)
  BY <1>1 DEF RowShows
<1>3. e = DataAt(node[n].blkaddr * BlockSize, node[n].size, 0)
  BY <1>2, DataIs DEF Seqs!ToSet
<1>4. e.at..(e.at + e.len - 1) = DataCells(n)
  BY <1>3 DEF DataAt, DataCells
<1>5. CASE o = SuperblockObject /\ Found(o) \subseteq SuperblockCells
  BY <1>4, <1>5, RegionsApart
<1>6. ASSUME NEW m \in Reached(tree), OfInode(o, m) PROVE Found(o) \cap DataCells(n) = {}
  BY <1>6, RegionsApart DEF OfInode
<1>7. ASSUME NEW m \in Reached(tree), OfEntry(o, m)
      PROVE  \/ o.is = "dirent" /\ o.nid = rows[i].object.nid
             \/ Found(o) \cap DataCells(n) = {}
  <2>1. CASE m = n
    BY <1>1, <1>7, <2>1, EntryInData DEF OfEntry
  <2>2. CASE m # n
    BY <1>7, <2>2, RegionsApart DEF OfEntry
  <2> QED
    BY <2>1, <2>2
<1> QED
  BY <1>4, <1>5, <1>6, <1>7, ObjectsAre

LEMMA ApartAre ==
  ASSUME Packed, PackedRows
  PROVE  StructuresAreApart
<1>1. PICK all : all = AllObjects
  OBVIOUS
<1>2. PICK cells : cells = [o \in all |-> Found(o)]
  OBVIOUS
<1>3. \A o \in all : cells[o] = Found(o)
  BY <1>2
<1>4. \A o, p \in all : o # p => cells[o] \cap cells[p] = {}
  BY <1>1, <1>3, ObjectsApart
<1>5. \A i \in InodeRows : \A e \in Seqs!ToSet(rows[i].data), o \in all :
             \/ o.is = "dirent" /\ o.nid = rows[i].object.nid
             \/ cells[o] \cap (e.at..(e.at + e.len - 1)) = {}
  BY <1>1, <1>3, DataApart
<1>6. /\ all = UNION {Objects(rows[i]) : i \in DOMAIN rows} /\ cells = [o \in all |-> Found(o)]
  BY <1>1, <1>2 DEF AllObjects
<1> QED
  BY <1>4, <1>5, <1>6 DEF StructuresAreApart

(* What the inspector shows of a packed image is what the reader reads:    *)
(* the extents of a row hold every block that a read gives out, and the    *)
(* dirents that a directory's row lists are those that a walk of it meets. *)
THEOREM PackedViewShowsWhatIsRead == Spec => [](source = FromHost => ViewShowsWhatIsRead)
<1>1. ShownInv => (source = FromHost => ViewShowsWhatIsRead)
  <2>1. SUFFICES ASSUME ShownInv, source = FromHost, view.open PROVE ViewShowsWhatIsRead
    BY DEF ViewShowsWhatIsRead, JustOpened
  <2>2. Packed /\ PackedRows
    BY <2>1 DEF ShownInv, ToursInv, PackedInv, HostInv, ViewInv, Packed
  <2> QED
    BY <2>2, ReadIsShown
<1> QED
  BY <1>1, ShownInit, ShownStep, PTL DEF Spec

(* In a packed image no two structures that the locator finds share a      *)
(* cell, and the data of a row holds none but the dirents of its own.      *)
THEOREM PackedStructuresAreApart == Spec => [](source = FromHost => StructuresAreApart)
<1>1. ShownInv => (source = FromHost => StructuresAreApart)
  <2>1. SUFFICES ASSUME ShownInv, source = FromHost, view.open PROVE StructuresAreApart
    BY DEF StructuresAreApart, JustOpened
  <2>2. Packed /\ PackedRows
    BY <2>1 DEF ShownInv, ToursInv, PackedInv, HostInv, ViewInv, Packed
  <2> QED
    BY <2>2, ApartAre
<1> QED
  BY <1>1, ShownInit, ShownStep, PTL DEF Spec
=============================================================================
