--------------------------- MODULE RoundTripProofs ---------------------------
(***************************************************************************)
(* Theorems about images that are packed and read (module RoundTrip), for  *)
(* any host trees, any writes to them, any size of blocks and any names:   *)
(* what the builder emits, what the files hold, what the directories hold  *)
(* and which paths are found in them; and what the keys of the inspector   *)
(* do to any rows.                                                         *)
(***************************************************************************)
EXTENDS RoundTrip, FiniteSetTheorems, SequenceTheorems, WellFoundedInduction, TLAPS

-----------------------------------------------------------------------------
(* Helpers: the order in which children and entries are visited, blocks.   *)

(* Every rank is taken: a finite set in the order of a key that tells its  *)
(* elements apart has each of them once.                                   *)
LEMMA Ranks ==
  ASSUME NEW S, IsFiniteSet(S), NEW key, \A x \in S : key[x] \in Nat,
         \A x, y \in S : key[x] = key[y] => x = y
  PROVE  /\ Cardinality(S) \in Nat
         /\ \A x \in S : Rank(S, key, x) \in 1..Cardinality(S)
         /\ \A x, y \in S : Rank(S, key, x) = Rank(S, key, y) => x = y
         /\ \A i \in 1..Cardinality(S) : \E x \in S : Rank(S, key, x) = i
<1> DEFINE n == Cardinality(S)
           below(x) == {y \in S : key[y] <= key[x]}
           rank == [x \in S |-> Cardinality(below(x))]
<1>1. n \in Nat /\ IsFiniteSet(1..n) /\ Cardinality(1..n) = n
  <2>1. n \in Nat
    BY FS_CardinalityType
  <2>2. IsFiniteSet(1..n) /\ Cardinality(1..n) = IF 1 > n THEN 0 ELSE n - 1 + 1
    BY <2>1, FS_Interval
  <2> HIDE DEF n
  <2> QED
    BY <2>1, <2>2
<1>2. ASSUME NEW x \in S
      PROVE  rank[x] \in 1..n
  <2>1. below(x) \in SUBSET S /\ below(x) # {}
    OBVIOUS
  <2>2. IsFiniteSet(below(x)) /\ Cardinality(below(x)) <= n /\ Cardinality(below(x)) \in Nat
    BY <2>1, FS_Subset, FS_CardinalityType
  <2>3. Cardinality(below(x)) # 0
    BY <2>1, <2>2, FS_EmptySet
  <2> QED
    BY <1>1, <2>2, <2>3
<1>3. ASSUME NEW x \in S, NEW y \in S, key[x] < key[y]
      PROVE  rank[x] # rank[y]
  <2>1. below(x) \in SUBSET below(y) /\ y \in below(y) /\ y \notin below(x)
    <3>1. key[x] \in Nat /\ key[y] \in Nat /\ \A z \in S : key[z] \in Nat
      OBVIOUS
    <3>2. \A z \in S : key[z] <= key[x] => key[z] <= key[y]
      BY <1>3, <3>1
    <3>3. key[y] <= key[y] /\ ~(key[y] <= key[x])
      BY <1>3, <3>1
    <3> QED
      BY <3>2, <3>3
  <2>2. below(y) \in SUBSET S
    OBVIOUS
  <2>3. IsFiniteSet(below(y))
    BY <2>2, FS_Subset
  <2>4. Cardinality(below(y)) # Cardinality(below(x))
    BY <2>1, <2>3, FS_Subset
  <2> QED
    BY <2>4
<1> HIDE DEF rank
<1>4. ASSUME NEW x \in S, NEW y \in S, rank[x] = rank[y]
      PROVE  x = y
  <2>1. key[x] \in Nat /\ key[y] \in Nat
    OBVIOUS
  <2>2. ~(key[x] < key[y]) /\ ~(key[y] < key[x])
    BY <1>3, <1>4
  <2>3. key[x] = key[y]
    BY <2>1, <2>2
  <2> QED
    BY <2>3
<1>5. rank \in Injection(S, 1..n)
  <2>1. rank \in [S -> 1..n]
    BY <1>2 DEF rank
  <2> QED
    BY <2>1, <1>4 DEF Injection, IsInjective
<1>6. rank \in Surjection(S, 1..n)
  BY <1>1, <1>5, FS_Injection
<1>7. \A i \in 1..n : \E x \in S : rank[x] = i
  BY <1>6 DEF Surjection
<1>8. \A x \in S : rank[x] = Rank(S, key, x)
  BY DEF rank, Rank
<1> HIDE DEF n
<1>9. /\ n \in Nat
      /\ \A x \in S : Rank(S, key, x) \in 1..n
      /\ \A x, y \in S : Rank(S, key, x) = Rank(S, key, y) => x = y
      /\ \A i \in 1..n : \E x \in S : Rank(S, key, x) = i
  BY <1>1, <1>2, <1>4, <1>7, <1>8
<1> QED
  BY <1>9 DEF n

(* InOrder is a sequence of the elements of the set, all of them, in the   *)
(* order of their keys.                                                    *)
LEMMA InOrderIs ==
  ASSUME NEW S, IsFiniteSet(S), NEW key, \A x \in S : key[x] \in Nat,
         \A x, y \in S : key[x] = key[y] => x = y
  PROVE  /\ InOrder(S, key) \in Seq(S)
         /\ Len(InOrder(S, key)) = Cardinality(S)
         /\ \A x \in S : \E i \in 1..Cardinality(S) : InOrder(S, key)[i] = x
         /\ \A i, j \in 1..Cardinality(S) :
              i < j => key[InOrder(S, key)[i]] < key[InOrder(S, key)[j]]
<1> DEFINE n == Cardinality(S)
           rank(x) == Rank(S, key, x)
           s == InOrder(S, key)
<1>1. /\ n \in Nat
      /\ \A x \in S : rank(x) \in 1..n
      /\ \A x, y \in S : rank(x) = rank(y) => x = y
      /\ \A i \in 1..n : \E x \in S : rank(x) = i
  BY Ranks
<1>2. s = [i \in 1..n |-> CHOOSE x \in S : rank(x) = i]
  BY DEF InOrder
<1> HIDE DEF n, rank, s
<1>3. \A i \in 1..n : s[i] \in S /\ rank(s[i]) = i
  BY <1>1, <1>2
<1>4. s \in Seq(S) /\ Len(s) = n
  <2>1. s \in [1..n -> S]
    BY <1>2, <1>3
  <2> QED
    BY <1>1, <2>1
<1>5. \A x \in S : rank(x) \in 1..n /\ s[rank(x)] = x
  BY <1>1, <1>3
<1>6. ASSUME NEW x \in S, NEW y \in S, key[x] <= key[y]
      PROVE  rank(x) <= rank(y)
  <2> DEFINE below(z) == {w \in S : key[w] <= key[z]}
  <2>1. below(x) \in SUBSET below(y) /\ below(x) \in SUBSET S /\ below(y) \in SUBSET S
    <3>1. key[x] \in Nat /\ key[y] \in Nat /\ \A z \in S : key[z] \in Nat
      OBVIOUS
    <3>2. \A z \in S : key[z] <= key[x] => key[z] <= key[y]
      BY <1>6, <3>1
    <3> QED
      BY <3>2
  <2>2. IsFiniteSet(below(y))
    BY <2>1, FS_Subset
  <2>3. Cardinality(below(x)) <= Cardinality(below(y))
    BY <2>1, <2>2, FS_Subset
  <2> QED
    BY <2>3 DEF rank, Rank
<1>7. ASSUME NEW i \in 1..n, NEW j \in 1..n, i < j
      PROVE  key[s[i]] < key[s[j]]
  <2>1. s[i] \in S /\ s[j] \in S /\ rank(s[i]) = i /\ rank(s[j]) = j
    BY <1>3
  <2>2. ~(key[s[j]] <= key[s[i]])
    BY <1>1, <1>6, <1>7, <2>1
  <2>3. key[s[i]] \in Nat /\ key[s[j]] \in Nat
    BY <2>1
  <2> QED
    BY <2>2, <2>3
<1> QED
  BY <1>4, <1>5, <1>7 DEF n, s

(* DivCeil blocks hold so many cells, and no fewer do.                     *)
LEMMA DivCeilHolds ==
  ASSUME NEW n \in Nat
  PROVE  /\ DivCeil(n) \in Nat
         /\ n <= DivCeil(n) * BlockSize
         /\ n > 0 => DivCeil(n) > 0 /\ (DivCeil(n) - 1) * BlockSize < n
<1>1. BlockSize \in Nat /\ BlockSize > 0
  BY LayoutAssumption DEF LayoutAssumption
<1> DEFINE q == (n + BlockSize - 1) \div BlockSize
<1>2. q \in Nat /\ q * BlockSize <= n + BlockSize - 1 /\ n + BlockSize - 1 < q * BlockSize + BlockSize
  BY <1>1
<1>3. DivCeil(n) = q
  BY DEF DivCeil
<1> HIDE DEF q
<1>4. (q - 1) * BlockSize = q * BlockSize - BlockSize
  BY <1>1, <1>2
<1>5. q * BlockSize \in Nat
  BY <1>1, <1>2
<1>6. n > 0 => q # 0
  BY <1>1, <1>2
<1> QED
  BY <1>1, <1>2, <1>3, <1>4, <1>5, <1>6

-----------------------------------------------------------------------------
(* The passes of the builder.  Every pass visits the nodes that hang below *)
(* the root: `visited' are those that it has left behind it, and what hangs *)
(* below them is visited as well or is still to do.                        *)

Nodes == DOMAIN tree.type
DownClosed(h, S) == \A n \in S : h.children[n] \subseteq S
Reached(h) ==
  {n \in DOMAIN h.type : \A S \in SUBSET DOMAIN h.type : Root \in S /\ DownClosed(h, S) => n \in S}

Elements(s) == {s[i] : i \in DOMAIN s}
Halfway(visited, ahead) ==
  /\ Root \in visited \cup ahead
  /\ \A n \in visited : Children(n) \subseteq visited \cup ahead

(* An entry of a directory names a node and its type.                      *)
DirentPlan ==
  {e \in [name : Name, nid : Nat, type : HostType] :
     \E m \in Reached(tree) : e.nid = node[m].nid /\ e.type = tree.type[m]}

NodeTypes ==
  \A n \in Nodes :
    /\ DOMAIN node[n] = {"size", "nid", "blkaddr", "blocks", "data"}
    /\ {node[n].size, node[n].nid, node[n].blkaddr, node[n].blocks} \subseteq Nat

BuildTypes ==
  /\ source = FromHost /\ tree \in Hosts
  /\ phase \in {"scan", "assign", "layout", "emit", "built", "failed"}
  /\ DOMAIN node = Nodes /\ NodeTypes
  /\ cursor \in [nid : Nat, block : Nat] /\ FirstNid <= cursor.nid
  /\ DOMAIN content = Nodes
  /\ \A n \in Nodes : content[n] # Gone => Sequence(content[n])
  /\ \A n \in Nodes : tree.type[n] # "file" => content[n] = tree.content[n]
  /\ DOMAIN taken = Nodes

(* A directory block holds at most a block of cells.                       *)
BlocksFit(blocks) ==
  /\ blocks \in Seq(Seq(DirentPlan))
  /\ \A b \in 1..Len(blocks) : Len(blocks[b]) \in 1..BlockSize

PackFits ==
  /\ DOMAIN pack = {"placed", "blocks", "used"} /\ pack.placed \in Nat
  /\ \/ pack = EmptyPack
     \/ /\ BlocksFit(pack.blocks) /\ Len(pack.blocks) > 0
        /\ pack.used \in 1..BlockSize /\ pack.placed > 0
        /\ Len(pack.blocks[Len(pack.blocks)]) <= pack.used

Scanned(n) ==
  /\ n # Root => NameLen[tree.name[n]] <= MaxNameLen
  /\ tree.type[n] = "symlink" => node[n].size = Len(content[n])
  /\ tree.type[n] # "other"

LaidOut(n) ==
  IF IsDir(n)
  THEN /\ BlocksFit(node[n].data) /\ Len(node[n].data) = node[n].blocks
       /\ \E used \in 1..BlockSize :
            /\ node[n].size = (node[n].blocks - 1) * BlockSize + used
            /\ node[n].blocks > 0 /\ Len(node[n].data[node[n].blocks]) <= used
  ELSE node[n].blocks = DivCeil(node[n].size)

Ahead == Elements(todo)
Busy == phase \in {"assign", "layout", "emit"}

TodoInv == Busy => todo # <<>> /\ todo \in Seq(Reached(tree))

ScanInv ==
  phase = "scan" =>
    /\ pending # <<>> /\ pending \in Seq(SUBSET Nodes)
    /\ \A n \in Nodes : node[n].blocks = 0 /\ node[n].nid = 0
    /\ cursor = [nid |-> FirstNid, block |-> 0] /\ pack = EmptyPack
    /\ \E visited \in SUBSET Nodes :
         Halfway(visited, UNION Elements(pending)) /\ \A n \in visited : Scanned(n)

AssignInv ==
  phase = "assign" =>
    /\ \A n \in Nodes : node[n].blocks = 0
    /\ cursor.block = 0 /\ pack = EmptyPack
    /\ \A n \in Reached(tree) : Scanned(n)
    /\ \E visited \in SUBSET Reached(tree) :
         Halfway(visited, Ahead) /\ \A n \in visited : node[n].nid # 0

LayoutInv ==
  phase = "layout" =>
    /\ cursor.nid <= cursor.block * BlockSize /\ PackFits
    /\ \A n \in Reached(tree) :
         Scanned(n) /\ node[n].nid # 0 /\ (node[n].blocks = 0 \/ LaidOut(n))
    /\ \E visited \in SUBSET Reached(tree) :
         Halfway(visited, Ahead) /\ \A n \in visited : LaidOut(n)

LaidInv ==
  phase \in {"emit", "built"} =>
    /\ cursor.nid <= cursor.block * BlockSize
    /\ \A n \in Reached(tree) : Scanned(n) /\ node[n].nid # 0 /\ LaidOut(n)

LayInv == ScanInv /\ AssignInv /\ LayoutInv /\ LaidInv /\ TodoInv /\ NothingOverlaps

(* An image that was not built here.                                       *)
NotBuilt == source # FromHost /\ node = <<>> /\ phase = "built" /\ cursor.block = 0

LEMMA HostFacts ==
  ASSUME NEW h \in Hosts
  PROVE  HostTree(h, DOMAIN h.type)
  BY BuilderAssumption DEF BuilderAssumption

(* What hangs below the root does so by being the child of something.      *)
LEMMA ReachedFacts ==
  ASSUME NEW h \in Hosts
  PROVE  /\ Reached(h) \subseteq DOMAIN h.type
         /\ Root \in Reached(h) /\ DownClosed(h, Reached(h))
         /\ \A n \in Reached(h) \ {Root} : \E p \in Reached(h) : n \in h.children[p]
         /\ \A S \in SUBSET Reached(h) : Root \in S /\ DownClosed(h, S) => S = Reached(h)
<1> DEFINE N == DOMAIN h.type
           R == Reached(h)
<1>1. Root \in N /\ h.children \in [N -> SUBSET N]
  BY HostFacts DEF HostTree
<1>2. R = {n \in N : \A S \in SUBSET N : Root \in S /\ DownClosed(h, S) => n \in S}
  BY DEF Reached
<1> HIDE DEF N, R
<1>3. R \subseteq N /\ Root \in R
  BY <1>1, <1>2
<1>4. DownClosed(h, R)
  <2>1. SUFFICES ASSUME NEW n \in R, NEW c \in h.children[n], NEW S \in SUBSET N,
                        Root \in S, DownClosed(h, S)
                 PROVE  c \in S
    <3>1. \A n \in R : h.children[n] \subseteq N
      BY <1>1, <1>3
    <3> QED
      BY <1>2, <3>1 DEF DownClosed
  <2>2. n \in S
    BY <1>2, <2>1
  <2> QED
    BY <2>1, <2>2 DEF DownClosed
<1>5. ASSUME NEW n \in R \ {Root}, \A p \in R : n \notin h.children[p]
      PROVE  FALSE
  <2>1. R \ {n} \in SUBSET N /\ Root \in R \ {n}
    BY <1>3, <1>5
  <2>2. DownClosed(h, R \ {n})
    BY <1>4, <1>5 DEF DownClosed
  <2> QED
    BY <1>2, <2>1, <2>2
<1>6. ASSUME NEW S \in SUBSET R, Root \in S, DownClosed(h, S)
      PROVE  S = R
  BY <1>2, <1>3, <1>6
<1>7. \A n \in R \ {Root} : \E p \in R : n \in h.children[p]
  BY <1>5
<1> QED
  BY <1>3, <1>4, <1>6, <1>7 DEF R, N

(* The children of a node in the order of their names, all of them.        *)
LEMMA SortedIs ==
  ASSUME tree \in Hosts, NEW n \in Nodes
  PROVE  /\ Children(n) \subseteq Nodes
         /\ SortedChildren(n) \in Seq(Children(n))
         /\ Elements(SortedChildren(n)) = Children(n)
<1>1. HostTree(tree, Nodes)
  BY HostFacts DEF Nodes
<1>2. Children(n) \subseteq Nodes /\ IsFiniteSet(Nodes)
  BY <1>1 DEF HostTree, Children
<1>3. IsFiniteSet(Children(n))
  BY <1>2, FS_Subset
<1>4. \A c \in Children(n) : tree.name[c] \in Nat
  BY <1>1, <1>2, LayoutAssumption DEF HostTree, LayoutAssumption
<1>5. \A c, d \in Children(n) : tree.name[c] = tree.name[d] => c = d
  BY <1>1 DEF HostTree, Children
<1> DEFINE C == Children(n)
           key == tree.name
<1> HIDE DEF C, key
<1>6. /\ InOrder(C, key) \in Seq(C)
      /\ Len(InOrder(C, key)) = Cardinality(C)
      /\ \A x \in C : \E i \in 1..Cardinality(C) : InOrder(C, key)[i] = x
  <2>1. IsFiniteSet(C) /\ (\A x \in C : key[x] \in Nat)
        /\ (\A x, y \in C : key[x] = key[y] => x = y)
    BY <1>3, <1>4, <1>5 DEF C, key
  <2> QED
    BY <2>1, InOrderIs
<1>7. SortedChildren(n) = InOrder(C, key)
  BY DEF SortedChildren, C, key
<1> DEFINE s == SortedChildren(n)
<1> HIDE DEF s
<1>8. s \in Seq(C) /\ \A x \in C : \E i \in DOMAIN s : s[i] = x
  BY <1>6, <1>7 DEF s
<1>9. Elements(s) = C
  BY <1>8 DEF Elements
<1> QED
  BY <1>2, <1>8, <1>9 DEF s, C

LEMMA RestIs ==
  ASSUME tree \in Hosts, todo \in Seq(Reached(tree)), todo # <<>>
  PROVE  /\ Current \in Reached(tree) /\ Current \in Nodes
         /\ Rest \in Seq(Reached(tree))
         /\ Elements(Rest) = Children(Current) \cup Elements(Tail(todo))
         /\ Ahead = {Current} \cup Elements(Tail(todo))
<1> DEFINE R == Reached(tree)
<1>1. R \subseteq Nodes /\ DownClosed(tree, R)
  BY ReachedFacts DEF Nodes
<1> HIDE DEF R
<1>2. todo \in Seq(R)
  BY DEF R
<1>3. /\ Current \in R /\ Tail(todo) \in Seq(R)
      /\ Current = todo[1] /\ Len(todo) \in Nat /\ Len(todo) > 0
      /\ Len(Tail(todo)) = Len(todo) - 1
      /\ \A i \in 1..(Len(todo) - 1) : Tail(todo)[i] = todo[i + 1]
  BY <1>2 DEF Current
<1>4. /\ SortedChildren(Current) \in Seq(Children(Current))
      /\ Elements(SortedChildren(Current)) = Children(Current)
  BY <1>1, <1>3, SortedIs
<1>5. Children(Current) \subseteq R
  BY <1>1, <1>3 DEF DownClosed, Children
<1> DEFINE s == SortedChildren(Current)
           t == Tail(todo)
<1> HIDE DEF s, t
<1>6. s \in Seq(R) /\ t \in Seq(R)
  BY <1>3, <1>4, <1>5 DEF s, t
<1> DEFINE st == s \o t
<1>7. st \in Seq(R) /\ Elements(st) = Elements(s) \cup Elements(t)
  <2>1. /\ st \in Seq(R) /\ Len(st) = Len(s) + Len(t)
        /\ \A i \in 1..(Len(s) + Len(t)) :
             st[i] = IF i <= Len(s) THEN s[i] ELSE t[i - Len(s)]
        /\ DOMAIN s = 1..Len(s) /\ DOMAIN t = 1..Len(t)
        /\ DOMAIN st = 1..Len(st)
        /\ Len(s) \in Nat /\ Len(t) \in Nat
    BY <1>6
  <2> HIDE DEF st
  <2>2. \A i \in DOMAIN s : i \in DOMAIN st /\ st[i] = s[i]
    BY <2>1
  <2>3. ASSUME NEW i \in DOMAIN t
        PROVE  Len(s) + i \in DOMAIN st /\ st[Len(s) + i] = t[i]
    <3>1. Len(s) + i \in 1..(Len(s) + Len(t)) /\ ~(Len(s) + i <= Len(s)) /\ Len(s) + i - Len(s) = i
      BY <2>1
    <3> QED
      BY <2>1, <3>1
  <2>4. ASSUME NEW i \in DOMAIN st, i \notin DOMAIN s
        PROVE  i - Len(s) \in DOMAIN t /\ st[i] = t[i - Len(s)]
    BY <2>1, <2>4
  <2> QED
    BY <2>1, <2>2, <2>3, <2>4 DEF Elements
<1>8. Ahead = {Current} \cup Elements(t)
  <2>1. DOMAIN todo = 1..Len(todo) /\ DOMAIN t = 1..(Len(todo) - 1)
    BY <1>2, <1>3, <1>6 DEF t
  <2>2. Len(todo) \in Nat /\ Len(todo) > 0 /\ \A i \in 1..(Len(todo) - 1) : t[i] = todo[i + 1]
    BY <1>3 DEF t
  <2>3. ASSUME NEW i \in DOMAIN todo, i # 1
        PROVE  i - 1 \in DOMAIN t /\ t[i - 1] = todo[i]
    <3>1. i \in Int /\ i >= 1 /\ i <= Len(todo)
      BY <2>1
    <3>2. i - 1 \in 1..(Len(todo) - 1) /\ i - 1 + 1 = i
      BY <2>2, <2>3, <3>1
    <3> QED
      BY <2>1, <2>2, <3>2
  <2>4. ASSUME NEW i \in DOMAIN t
        PROVE  i + 1 \in DOMAIN todo /\ t[i] = todo[i + 1]
    BY <2>1, <2>2
  <2>5. 1 \in DOMAIN todo
    BY <2>1, <2>2
  <2> QED
    BY <1>3, <2>3, <2>4, <2>5 DEF Ahead, Elements
<1> QED
  BY <1>1, <1>3, <1>4, <1>7, <1>8 DEF Rest, st, s, t, R

(* One more node is visited; when nothing is left to do all of them are.   *)
LEMMA HalfwayStep ==
  ASSUME tree \in Hosts, todo \in Seq(Reached(tree)), todo # <<>>,
         NEW visited \in SUBSET Reached(tree), Halfway(visited, Ahead)
  PROVE  /\ visited \cup {Current} \in SUBSET Reached(tree)
         /\ Halfway(visited \cup {Current}, Elements(Rest))
         /\ Rest = <<>> => visited \cup {Current} = Reached(tree)
<1> DEFINE R == Reached(tree)
           V == visited \cup {Current}
<1>1. /\ Current \in R
      /\ Elements(Rest) = Children(Current) \cup Elements(Tail(todo))
      /\ Ahead = {Current} \cup Elements(Tail(todo))
  BY RestIs
<1>2. Halfway(V, Elements(Rest))
  BY <1>1 DEF Halfway
<1>3. ASSUME Rest = <<>> PROVE V = R
  <2>1. Elements(Rest) = {}
    BY <1>3 DEF Elements
  <2>2. Root \in V /\ DownClosed(tree, V)
    BY <1>2, <2>1 DEF Halfway, DownClosed, Children
  <2>3. V \in SUBSET R
    BY <1>1
  <2> QED
    BY <2>2, <2>3, ReachedFacts
<1> QED
  BY <1>1, <1>2, <1>3

LEMMA LayInit ==
  Init => NotBuilt \/ (BuildTypes /\ LayInv)
<1> SUFFICES ASSUME Init PROVE NotBuilt \/ (BuildTypes /\ LayInv)
  OBVIOUS
<1>1. CASE GivenInit
  <2>1. source \in Given /\ node = <<>> /\ phase = "built"
    BY <1>1 DEF GivenInit
  <2>2. cursor = [nid |-> FirstNid, block |-> 0]
    BY <1>1 DEF GivenInit
  <2> QED
    BY <2>1, <2>2, RoundTripAssumption DEF NotBuilt, RoundTripAssumption
<1>2. CASE BuilderInit /\ source = FromHost
  <2>1. tree \in Hosts /\ HostTree(tree, Nodes) /\ phase = "scan"
    BY <1>2, HostFacts DEF BuilderInit, Nodes
  <2>2. DOMAIN node = Nodes /\ \A n \in Nodes : node[n] = NewNode
    BY <1>2 DEF BuilderInit, Nodes
  <2>3. FirstNid \in Nat /\ Null \in Nat
    BY LayoutAssumption, BuilderAssumption DEF LayoutAssumption, BuilderAssumption, FirstNid, Null
  <2>4. cursor = [nid |-> FirstNid, block |-> 0] /\ pack = EmptyPack /\ pending = <<{Root}>>
    BY <1>2 DEF BuilderInit
  <2>5. NodeTypes
    BY <2>2, <2>3 DEF NodeTypes, NewNode
  <2>6. BuildTypes
    BY <1>2, <2>1, <2>2, <2>3, <2>4, <2>5 DEF BuildTypes, BuilderInit, HostTree, Nodes
  <2>7. ScanInv
    <3>1. Root \in Nodes
      BY <2>1 DEF HostTree
    <3>2. pending # <<>> /\ pending \in Seq(SUBSET Nodes) /\ Root \in UNION Elements(pending)
      BY <2>4, <3>1 DEF Elements
    <3>3. Halfway({}, UNION Elements(pending))
      BY <3>2 DEF Halfway
    <3>4. \A n \in Nodes : node[n].blocks = 0 /\ node[n].nid = 0
      BY <2>2 DEF NewNode
    <3> QED
      BY <2>4, <3>2, <3>3, <3>4 DEF ScanInv
  <2>8. NothingOverlaps
    BY <2>1, <2>2 DEF NothingOverlaps, Numbered, Placed, NewNode
  <2>9. AssignInv /\ LayoutInv /\ LaidInv /\ TodoInv
    BY <2>1 DEF AssignInv, LayoutInv, LaidInv, TodoInv, Busy
  <2> QED
    BY <2>6, <2>7, <2>8, <2>9 DEF LayInv
<1> QED
  BY <1>1, <1>2 DEF Init

(* Writing to a host changes what its files hold, and nothing else.        *)
LEMMA WriteLays ==
  ASSUME BuildTypes, LayInv, source' = source, NEW f \in Nodes, HostWrite(f)
  PROVE  BuildTypes' /\ LayInv'
<1>1. /\ UNCHANGED <<tree, phase, pending, todo, node, cursor, pack, taken, image>>
      /\ tree.type[f] = "file" /\ phase \in {"scan", "emit"}
  BY DEF HostWrite
<1>2. DOMAIN content' = Nodes /\ \A n \in Nodes \ {f} : content'[n] = content[n]
  BY DEF HostWrite, BuildTypes
<1>3. content'[f] # Gone => Sequence(content'[f])
  <2>1. CASE content' = [content EXCEPT ![f] = Gone]
    BY <2>1 DEF BuildTypes
  <2>2. CASE \E size \in RewriteSizes :
               content' = [content EXCEPT ![f] = [i \in 1..size |-> Byte(<<f, writes + 1, i>>)]]
    <3>1. PICK size \in RewriteSizes :
            content'[f] = [i \in 1..size |-> Byte(<<f, writes + 1, i>>)]
      BY <2>2 DEF BuildTypes
    <3>2. size \in Nat
      BY BuilderAssumption DEF BuilderAssumption
    <3> DEFINE s == content'[f]
               S == {s[i] : i \in DOMAIN s}
    <3>3. s \in [1..size -> S]
      BY <3>1
    <3>4. s \in Seq(S)
      BY <3>2, <3>3
    <3> QED
      BY <3>4 DEF Sequence
  <2> QED
    BY <2>1, <2>2 DEF HostWrite
<1>4. BuildTypes'
  BY <1>1, <1>2, <1>3 DEF BuildTypes, Nodes, NodeTypes
<1>5. ScanInv'
  <2> SUFFICES ASSUME phase = "scan" PROVE ScanInv'
    BY <1>1 DEF ScanInv
  <2>1. PICK visited \in SUBSET Nodes :
          Halfway(visited, UNION Elements(pending)) /\ \A n \in visited : Scanned(n)
    BY DEF LayInv, ScanInv
  <2>2. \A n \in visited : Scanned(n)'
    BY <1>1, <1>2, <2>1 DEF Scanned
  <2>3. Halfway(visited, UNION Elements(pending))'
    BY <1>1, <2>1 DEF Halfway, Elements, Children
  <2> QED
    BY <1>1, <2>2, <2>3 DEF ScanInv, LayInv, Nodes
<1>6. AssignInv' /\ LayoutInv'
  BY <1>1 DEF AssignInv, LayoutInv
<1>7. TodoInv' /\ NothingOverlaps'
  BY <1>1 DEF LayInv, TodoInv, Busy, Reached, DownClosed, NothingOverlaps, Numbered, Placed,
              Slots, Extent
<1>8. LaidInv'
  <2> SUFFICES ASSUME phase \in {"emit", "built"} PROVE LaidInv'
    BY <1>1 DEF LaidInv
  <2>1. /\ cursor.nid <= cursor.block * BlockSize
        /\ \A n \in Reached(tree) : Scanned(n) /\ node[n].nid # 0 /\ LaidOut(n)
    BY DEF LayInv, LaidInv
  <2>2. Reached(tree) \subseteq Nodes
    BY ReachedFacts DEF BuildTypes, Nodes
  <2>3. \A n \in Reached(tree) : Scanned(n)'
    BY <1>1, <1>2, <2>1, <2>2 DEF Scanned
  <2>4. \A n \in Reached(tree) : LaidOut(n)'
    BY <1>1, <2>1 DEF LaidOut, IsDir, BlocksFit, DirentPlan
  <2>5. Reached(tree)' = Reached(tree)
    BY <1>1
  <2> QED
    BY <1>1, <2>1, <2>3, <2>4, <2>5 DEF LaidInv
<1> QED
  BY <1>4, <1>5, <1>6, <1>7, <1>8 DEF LayInv

(* The build fails: everything stays as it is.                             *)
LEMMA FailLays ==
  ASSUME BuildTypes, LayInv, source' = source, Fail
  PROVE  BuildTypes' /\ LayInv'
<1>1. /\ phase' = "failed"
      /\ UNCHANGED <<tree, content, writes, pending, todo, node, cursor, pack, taken, image>>
  BY DEF Fail
<1>2. BuildTypes'
  BY <1>1 DEF BuildTypes, Nodes, NodeTypes
<1>3. NothingOverlaps'
  BY <1>1 DEF LayInv, NothingOverlaps, Numbered, Placed, Slots, Extent
<1>4. ScanInv' /\ AssignInv' /\ LayoutInv' /\ LaidInv' /\ TodoInv'
  BY <1>1 DEF ScanInv, AssignInv, LayoutInv, LaidInv, TodoInv, Busy
<1> QED
  BY <1>2, <1>3, <1>4 DEF LayInv

LEMMA CatIs ==
  ASSUME NEW T, NEW a \in Seq(T), NEW b \in Seq(T)
  PROVE  /\ a \o b \in Seq(T) /\ Len(a \o b) = Len(a) + Len(b)
         /\ DOMAIN (a \o b) = 1..Len(a \o b)
         /\ \A i \in 1..(Len(a) + Len(b)) :
              (a \o b)[i] = IF i <= Len(a) THEN a[i] ELSE b[i - Len(a)]
  OBVIOUS

(* A node is scanned: its entries take its place among those pending.      *)
LEMMA PendingIs ==
  ASSUME pending \in Seq(SUBSET Nodes), pending # <<>>, NEW n \in Head(pending),
         Children(n) \in SUBSET Nodes,
         pending' = NonEmpty(Children(n)) \o NonEmpty(Head(pending) \ {n}) \o Tail(pending)
  PROVE  /\ n \in Nodes /\ pending' \in Seq(SUBSET Nodes)
         /\ UNION Elements(pending) \subseteq (UNION Elements(pending')) \cup {n}
         /\ Children(n) \subseteq UNION Elements(pending')
<1> DEFINE S == Nodes
           p == pending
           C == Children(n)
           rest == pending'
<1>a. /\ p \in Seq(SUBSET S) /\ p # <<>> /\ n \in Head(p) /\ C \in SUBSET S
      /\ rest = NonEmpty(C) \o NonEmpty(Head(p) \ {n}) \o Tail(p)
  OBVIOUS
<1> HIDE DEF S, p, C, rest
<1> DEFINE h == Head(p) \ {n}
           a == NonEmpty(C)
           b == NonEmpty(h)
           t == Tail(p)
           ab == a \o b
<1>1. /\ Head(p) \in SUBSET S /\ t \in Seq(SUBSET S) /\ p[1] = Head(p)
      /\ Len(p) \in Nat /\ Len(p) > 0 /\ Len(t) = Len(p) - 1
      /\ \A i \in 1..(Len(p) - 1) : t[i] = p[i + 1]
      /\ DOMAIN p = 1..Len(p) /\ DOMAIN t = 1..Len(t)
  BY <1>a
<1>2. n \in S /\ h \in SUBSET S
  BY <1>1, <1>a
<1>3. ASSUME NEW X \in SUBSET S
      PROVE  /\ NonEmpty(X) \in Seq(SUBSET S) /\ DOMAIN NonEmpty(X) = 1..Len(NonEmpty(X))
             /\ X # {} => Len(NonEmpty(X)) = 1 /\ NonEmpty(X)[1] = X
  <2>1. CASE X = {}
    BY <2>1 DEF NonEmpty
  <2>2. CASE X # {}
    <3>1. NonEmpty(X) = <<X>>
      BY <2>2 DEF NonEmpty
    <3> QED
      BY <3>1
  <2> QED
    BY <2>1, <2>2
<1>4. /\ a \in Seq(SUBSET S) /\ DOMAIN a = 1..Len(a) /\ Len(a) \in Nat
      /\ b \in Seq(SUBSET S) /\ DOMAIN b = 1..Len(b) /\ Len(b) \in Nat
      /\ C # {} => Len(a) = 1 /\ a[1] = C
      /\ h # {} => Len(b) = 1 /\ b[1] = h
  <2> HIDE DEF h
  <2> QED
    BY <1>2, <1>3, <1>a
<1>5. rest = ab \o t
  BY <1>a DEF ab
<1> HIDE DEF h, a, b, t
<1>6. ab \in Seq(SUBSET S) /\ Len(ab) = Len(a) + Len(b)
      /\ \A i \in 1..(Len(a) + Len(b)) : ab[i] = IF i <= Len(a) THEN a[i] ELSE b[i - Len(a)]
  BY <1>4
<1> HIDE DEF ab
<1>7. /\ rest \in Seq(SUBSET S) /\ Len(rest) = Len(ab) + Len(t)
      /\ \A i \in 1..(Len(ab) + Len(t)) : rest[i] = IF i <= Len(ab) THEN ab[i] ELSE t[i - Len(ab)]
      /\ DOMAIN rest = 1..Len(rest)
  <2>1. ab \in Seq(SUBSET S) /\ t \in Seq(SUBSET S)
    BY <1>1, <1>6
  <2> QED
    BY ONLY <1>5, <2>1, CatIs
<1>8. Len(ab) \in Nat /\ Len(t) \in Nat
  BY <1>1, <1>6
<1>9. C # {} => 1 \in DOMAIN rest /\ rest[1] = C
  BY ONLY <1>4, <1>6, <1>7, <1>8
<1>10. h # {} => Len(a) + 1 \in DOMAIN rest /\ rest[Len(a) + 1] = h
  BY ONLY <1>4, <1>6, <1>7, <1>8
<1>11. ASSUME NEW i \in DOMAIN p, i # 1
       PROVE  Len(ab) + (i - 1) \in DOMAIN rest /\ rest[Len(ab) + (i - 1)] = p[i]
  <2>1. i - 1 \in 1..(Len(p) - 1) /\ i - 1 + 1 = i
    BY <1>1, <1>11
  <2>2. t[i - 1] = p[i]
    BY <1>1, <2>1
  <2> DEFINE j == i - 1
  <2>3. j \in 1..Len(t) /\ t[j] = p[i]
    BY <1>1, <2>1, <2>2
  <2> HIDE DEF j
  <2>4. Len(ab) + j \in 1..(Len(ab) + Len(t)) /\ ~(Len(ab) + j <= Len(ab))
        /\ Len(ab) + j - Len(ab) = j
    BY ONLY <1>8, <2>3
  <2>5. Len(ab) + j \in DOMAIN rest /\ rest[Len(ab) + j] = p[i]
    BY ONLY <1>7, <2>3, <2>4
  <2> QED
    BY <2>5 DEF j
<1>12. C \subseteq UNION Elements(rest)
  BY <1>9 DEF Elements
<1>13. ASSUME NEW i \in DOMAIN p, NEW x \in p[i], x # n
       PROVE  x \in UNION Elements(rest)
  <2>1. CASE i = 1
    <3>1. x \in h
      BY <1>1, <1>13, <2>1 DEF h
    <3> QED
      BY <1>10, <3>1 DEF Elements
  <2>2. CASE i # 1
    BY <1>11, <1>13, <2>2 DEF Elements
  <2> QED
    BY <2>1, <2>2
<1>14. UNION Elements(p) \subseteq (UNION Elements(rest)) \cup {n}
  <2>1. SUFFICES ASSUME NEW x \in UNION Elements(p)
                 PROVE  x \in (UNION Elements(rest)) \cup {n}
    OBVIOUS
  <2>2. PICK i \in DOMAIN p : x \in p[i]
    BY <2>1 DEF Elements
  <2>3. CASE x # n
    BY <1>13, <2>2, <2>3
  <2> QED
    BY <2>3
<1> QED
  BY <1>2, <1>7, <1>12, <1>14 DEF S, p, C, rest

(* A pass begins at the root, having visited nothing.                      *)
LEMMA PassBegins ==
  ASSUME tree \in Hosts, tree' = tree, todo' = <<Root>>
  PROVE  /\ todo' # <<>> /\ todo' \in Seq(Reached(tree))
         /\ Halfway({}, Ahead)'
<1>1. Root \in Reached(tree)
  BY ReachedFacts
<1>2. 1 \in DOMAIN todo' /\ todo'[1] = Root
  OBVIOUS
<1>3. Root \in Ahead'
  BY <1>2 DEF Ahead, Elements
<1> QED
  BY <1>1, <1>3 DEF Halfway

LEMMA ScanLays ==
  ASSUME BuildTypes, LayInv, source' = source, ScanNode
  PROVE  BuildTypes' /\ LayInv'
<1>1. /\ phase = "scan" /\ tree \in Hosts /\ ScanInv
      /\ UNCHANGED <<tree, content, writes, cursor, pack, taken, image>>
  BY DEF ScanNode, BuildTypes, LayInv
<1>2. PICK n \in Head(pending) :
        /\ ~Unpackable(n)
        /\ node' = [node EXCEPT ![n].size = IF IsDir(n) THEN 0 ELSE Len(content[n])]
        /\ pending' = NonEmpty(Children(n)) \o NonEmpty(Head(pending) \ {n}) \o Tail(pending)
        /\ IF pending' # <<>> THEN UNCHANGED <<phase, todo>>
           ELSE phase' = "assign" /\ todo' = <<Root>>
  BY DEF ScanNode
<1>3. pending # <<>> /\ pending \in Seq(SUBSET Nodes)
  BY <1>1 DEF ScanInv
<1>4. HostTree(tree, Nodes)
  BY <1>1, HostFacts DEF Nodes
<1>5. \A m \in Nodes : Children(m) \subseteq Nodes
  BY <1>4 DEF HostTree, Children
<1>6. n \in Nodes
  BY <1>3, <1>2
<1>7. /\ pending' \in Seq(SUBSET Nodes)
      /\ UNION Elements(pending) \subseteq (UNION Elements(pending')) \cup {n}
      /\ Children(n) \subseteq UNION Elements(pending')
  BY <1>2, <1>3, <1>5, <1>6, PendingIs
<1>8. /\ DOMAIN node' = Nodes /\ DOMAIN node'[n] = DOMAIN node[n]
      /\ node'[n].size = IF IsDir(n) THEN 0 ELSE Len(content[n])
      /\ node'[n].nid = node[n].nid /\ node'[n].blkaddr = node[n].blkaddr
      /\ node'[n].blocks = node[n].blocks
      /\ \A m \in Nodes \ {n} : node'[m] = node[m]
  BY <1>2, <1>6 DEF BuildTypes, NodeTypes
<1>9. node'[n].size \in Nat
  <2>1. CASE ~IsDir(n)
    <3>1. Sequence(content[n])
      BY <1>2, <1>6 DEF Unpackable, BuildTypes
    <3> QED
      BY <1>8, <2>1, <3>1 DEF Sequence
  <2> QED
    BY <1>8, <2>1
<1>10. NodeTypes'
  <2>1. Nodes' = Nodes
    BY <1>1 DEF Nodes
  <2>2. NodeTypes
    BY DEF BuildTypes
  <2> QED
    BY <1>6, <1>8, <1>9, <2>1, <2>2 DEF NodeTypes
<1>11. phase' \in {"scan", "assign"}
  BY <1>1, <1>2
<1>12. BuildTypes'
  BY <1>1, <1>8, <1>10, <1>11 DEF BuildTypes, Nodes
<1>13. \A m \in Nodes : node'[m].blocks = 0 /\ node'[m].nid = 0
  BY <1>1, <1>6, <1>8 DEF ScanInv
<1>14. NothingOverlaps'
  BY <1>8, <1>11, <1>13 DEF NothingOverlaps, Numbered, Placed
<1>15. PICK visited \in SUBSET Nodes :
         Halfway(visited, UNION Elements(pending)) /\ \A m \in visited : Scanned(m)
  BY <1>1 DEF ScanInv
<1> DEFINE V == visited \cup {n}
<1>16. \A m \in V : Scanned(m)'
  <2>1. Scanned(n)'
    <3>1. ~Unpackable(n) /\ tree' = tree /\ content' = content
      BY <1>1, <1>2
    <3>2. /\ n # Root => NameLen[tree.name[n]] <= MaxNameLen
          /\ tree.type[n] # "other"
      <4>1. \A k \in Nat : ~(k > MaxNameLen) => k <= MaxNameLen
        BY BuilderAssumption DEF BuilderAssumption
      <4>2. NameLen[tree.name[n]] \in Nat
        BY <1>4, <1>6, LayoutAssumption DEF HostTree, LayoutAssumption
      <4> QED
        BY <3>1, <4>1, <4>2 DEF Unpackable
    <3>3. tree.type[n] = "symlink" => node'[n].size = Len(content[n])
      BY <1>8 DEF IsDir
    <3> QED
      BY <3>1, <3>2, <3>3 DEF Scanned
  <2>2. ASSUME NEW m \in visited, m # n PROVE Scanned(m)'
    BY <1>1, <1>8, <1>15, <2>2 DEF Scanned
  <2> QED
    BY <2>1, <2>2
<1>17. V \in SUBSET Nodes /\ Halfway(V, UNION Elements(pending'))
  BY <1>6, <1>7, <1>15 DEF Halfway
<1>18. cursor = [nid |-> FirstNid, block |-> 0] /\ pack = EmptyPack
  BY <1>1 DEF ScanInv
<1>19. CASE pending' # <<>>
  <2>1. phase' = "scan"
    BY <1>1, <1>2, <1>19
  <2>2. Halfway(V, UNION Elements(pending))'
    BY <1>1, <1>17 DEF Halfway, Elements, Children
  <2>3. ScanInv'
    BY <1>1, <1>7, <1>13, <1>16, <1>17, <1>18, <1>19, <2>2 DEF ScanInv, Nodes
  <2>4. AssignInv' /\ LayoutInv' /\ LaidInv' /\ TodoInv'
    BY <2>1 DEF AssignInv, LayoutInv, LaidInv, TodoInv, Busy
  <2> QED
    BY <1>12, <1>14, <2>3, <2>4 DEF LayInv
<1>20. CASE pending' = <<>>
  <2>1. phase' = "assign" /\ todo' = <<Root>>
    BY <1>2, <1>20
  <2>2. UNION Elements(pending') = {}
    BY <1>20 DEF Elements
  <2>3. Root \in V /\ DownClosed(tree, V)
    BY <1>17, <2>2 DEF Halfway, DownClosed, Children
  <2>4. Reached(tree) \subseteq V
    BY <1>17, <2>3 DEF Reached, Nodes
  <2>5. /\ todo' # <<>> /\ todo' \in Seq(Reached(tree))
        /\ Halfway({}, Ahead)'
    BY <1>1, <2>1, PassBegins
  <2>6. Reached(tree)' = Reached(tree) /\ Nodes' = Nodes
    BY <1>1 DEF Nodes
  <2>7. TodoInv'
    BY <2>5, <2>6 DEF TodoInv
  <2>8. AssignInv'
    BY <1>1, <1>13, <1>16, <1>18, <2>4, <2>5, <2>6 DEF AssignInv
  <2>9. ScanInv' /\ LayoutInv' /\ LaidInv'
    BY <2>1 DEF ScanInv, LayoutInv, LaidInv
  <2> QED
    BY <1>12, <1>14, <2>7, <2>8, <2>9 DEF LayInv
<1> QED
  BY <1>19, <1>20

LEMMA AssignLays ==
  ASSUME BuildTypes, LayInv, source' = source, AssignNid
  PROVE  BuildTypes' /\ LayInv'
<1> DEFINE next == cursor.nid + ExtendedInode
<1>a. PICK n : n = Current
  OBVIOUS
<1>b. PICK R : R = Reached(tree)
  OBVIOUS
<1>1. /\ phase = "assign" /\ tree \in Hosts /\ AssignInv
      /\ todo \in Seq(R) /\ todo # <<>>
      /\ UNCHANGED <<tree, content, writes, pending, pack, taken, image>>
  BY <1>b DEF AssignNid, BuildTypes, LayInv, TodoInv, Busy
<1>2. /\ node' = [node EXCEPT ![n].nid = cursor.nid]
      /\ \/ /\ Rest # <<>> /\ cursor' = [cursor EXCEPT !.nid = next]
            /\ todo' = Rest /\ phase' = "assign"
         \/ /\ Rest = <<>> /\ cursor' = [nid |-> next, block |-> DivCeil(next)]
            /\ todo' = <<Root>> /\ phase' = "layout"
  BY <1>a DEF AssignNid
<1>3. n \in R /\ n \in Nodes /\ Rest \in Seq(R)
  BY <1>1, <1>a, <1>b, RestIs
<1>4. FirstNid \in Nat /\ FirstNid > 0
  BY LayoutAssumption DEF LayoutAssumption, FirstNid
<1>5. cursor \in [nid : Nat, block : Nat] /\ FirstNid <= cursor.nid /\ cursor.block = 0
  BY <1>1 DEF BuildTypes, AssignInv
<1>6. next \in Nat /\ next = cursor.nid + 2
  BY <1>5 DEF ExtendedInode
<1>7. DivCeil(next) \in Nat /\ next <= DivCeil(next) * BlockSize
  BY <1>6, DivCeilHolds
<1> HIDE DEF next
<1>8. cursor' \in [nid : Nat, block : Nat] /\ cursor'.nid = next
      /\ (phase' = "assign" => cursor'.block = 0)
      /\ (phase' = "layout" => cursor'.block = DivCeil(next))
  BY <1>2, <1>5, <1>6, <1>7
<1>9. /\ DOMAIN node' = Nodes /\ DOMAIN node'[n] = DOMAIN node[n]
      /\ node'[n].size = node[n].size /\ node'[n].nid = cursor.nid
      /\ node'[n].blkaddr = node[n].blkaddr /\ node'[n].blocks = node[n].blocks
      /\ \A m \in Nodes \ {n} : node'[m] = node[m]
  BY <1>2, <1>3 DEF BuildTypes, NodeTypes
<1>10. Nodes' = Nodes /\ Reached(tree)' = R /\ phase' \in {"assign", "layout"}
  BY <1>1, <1>2, <1>b DEF Nodes
<1>11. NodeTypes'
  <2>1. NodeTypes /\ cursor.nid \in Nat
    BY <1>5 DEF BuildTypes
  <2> QED
    BY <1>3, <1>9, <1>10, <2>1 DEF NodeTypes
<1>12. BuildTypes'
  <2>1. FirstNid <= cursor'.nid
    BY <1>4, <1>5, <1>6, <1>8
  <2> QED
    BY <1>1, <1>8, <1>9, <1>10, <1>11, <2>1 DEF BuildTypes
<1>13. \A m \in Nodes : node'[m].blocks = 0
  BY <1>1, <1>3, <1>9 DEF AssignInv
<1>14. NothingOverlaps'
  <2>1. /\ \A m \in Nodes : node[m].nid \in Nat
        /\ \A m \in Nodes : node[m].nid # 0 =>
             FirstNid <= node[m].nid /\ node[m].nid + 2 <= cursor.nid
        /\ \A m, k \in Nodes : node[m].nid # 0 /\ node[k].nid # 0 /\ m # k =>
             Slots(m) \cap Slots(k) = {}
    BY DEF LayInv, NothingOverlaps, Numbered, ExtendedInode, BuildTypes, NodeTypes
  <2>2. \A m \in Nodes : Slots(m) = node[m].nid..(node[m].nid + 1)
                         /\ Slots(m)' = node'[m].nid..(node'[m].nid + 1)
    BY <2>1, <1>9, <1>3, <1>5 DEF Slots, ExtendedInode
  <2>3. ASSUME NEW m \in Nodes, node'[m].nid # 0
        PROVE  FirstNid <= node'[m].nid /\ node'[m].nid + 2 <= cursor'.nid
    <3>1. CASE m = n
      BY <1>4, <1>5, <1>6, <1>8, <1>9, <3>1
    <3>2. CASE m # n
      BY <1>4, <1>5, <1>6, <1>8, <1>9, <2>1, <2>3, <3>2
    <3> QED
      BY <3>1, <3>2
  <2>4. ASSUME NEW m \in Nodes \ {n}, node[m].nid # 0
        PROVE  Slots(m)' \cap Slots(n)' = {}
    <3>1. Slots(m)' = node[m].nid..(node[m].nid + 1) /\ Slots(n)' = cursor.nid..(cursor.nid + 1)
      BY <1>3, <1>9, <2>2
    <3>2. node[m].nid + 2 <= cursor.nid /\ node[m].nid \in Nat
      BY <2>1, <2>4
    <3> QED
      BY <1>5, <3>1, <3>2
  <2>5. ASSUME NEW m \in Nodes, NEW k \in Nodes, node'[m].nid # 0, node'[k].nid # 0, m # k
        PROVE  Slots(m)' \cap Slots(k)' = {}
    <3>1. CASE m # n /\ k # n
      <4>1. node'[m] = node[m] /\ node'[k] = node[k]
        BY <1>9, <3>1
      <4>2. Slots(m) \cap Slots(k) = {}
        BY <2>1, <2>5, <4>1
      <4> QED
        BY <2>2, <4>1, <4>2
    <3>2. CASE m = n
      <4>1. node[k].nid # 0 /\ k \in Nodes \ {n}
        BY <1>9, <2>5, <3>2
      <4> QED
        BY <2>4, <3>2, <4>1
    <3>3. CASE k = n
      <4>1. node[m].nid # 0 /\ m \in Nodes \ {n}
        BY <1>9, <2>5, <3>3
      <4> QED
        BY <2>4, <3>3, <4>1
    <3> QED
      BY <3>1, <3>2, <3>3
  <2>6. Placed' = {} /\ Numbered' = {m \in Nodes : node'[m].nid # 0}
    BY <1>9, <1>13 DEF Placed, Numbered
  <2> QED
    BY <1>10, <2>3, <2>5, <2>6 DEF NothingOverlaps, ExtendedInode
<1>15. PICK visited \in SUBSET R :
         Halfway(visited, Ahead) /\ \A m \in visited : node[m].nid # 0
  BY <1>1, <1>b DEF AssignInv
<1> DEFINE V == visited \cup {n}
<1>16. \A m \in V : node'[m].nid # 0
  <2>1. R \subseteq Nodes
    BY <1>1, <1>b, ReachedFacts DEF Nodes
  <2> QED
    BY <1>4, <1>5, <1>9, <1>15, <2>1
<1>17. V \in SUBSET R /\ Halfway(V, Elements(Rest)) /\ (Rest = <<>> => V = R)
  BY <1>1, <1>15, <1>a, <1>b, HalfwayStep
<1>18. \A m \in R : Scanned(m)'
  <2>1. \A m \in R : Scanned(m) /\ m \in Nodes
    BY <1>1, <1>b, ReachedFacts DEF AssignInv, Nodes
  <2>2. \A m \in Nodes : node'[m].size = node[m].size
    BY <1>9
  <2> QED
    BY <1>1, <2>1, <2>2 DEF Scanned
<1>19. CASE phase' = "assign"
  <2>1. Rest # <<>> /\ todo' = Rest
    BY <1>2, <1>19
  <2>2. Halfway(V, Ahead)'
    BY <1>1, <1>17, <2>1 DEF Halfway, Ahead, Elements, Children
  <2>3. AssignInv'
    BY <1>1, <1>8, <1>10, <1>13, <1>16, <1>17, <1>18, <1>19, <2>2 DEF AssignInv
  <2>4. TodoInv'
    BY <1>3, <1>10, <2>1 DEF TodoInv
  <2>5. ScanInv' /\ LayoutInv' /\ LaidInv'
    BY <1>19 DEF ScanInv, LayoutInv, LaidInv
  <2> QED
    BY <1>12, <1>14, <2>3, <2>4, <2>5 DEF LayInv
<1>20. CASE phase' = "layout"
  <2>1. Rest = <<>> /\ todo' = <<Root>>
    BY <1>2, <1>20
  <2>2. todo' # <<>> /\ todo' \in Seq(R) /\ Halfway({}, Ahead)'
    BY <1>1, <2>1, <1>b, PassBegins
  <2>3. PackFits'
    BY <1>1 DEF AssignInv, PackFits, EmptyPack
  <2>4. cursor'.nid <= cursor'.block * BlockSize
    BY <1>7, <1>8, <1>20
  <2>5. \A m \in R : node'[m].nid # 0 /\ node'[m].blocks = 0
    <3>1. R \subseteq Nodes
      BY <1>1, <1>b, ReachedFacts DEF Nodes
    <3> QED
      BY <1>13, <1>16, <1>17, <2>1, <3>1
  <2>6. LayoutInv'
    BY <1>10, <1>18, <2>2, <2>3, <2>4, <2>5 DEF LayoutInv
  <2>7. TodoInv'
    BY <1>10, <2>2 DEF TodoInv
  <2>8. ScanInv' /\ AssignInv' /\ LaidInv'
    BY <1>20 DEF ScanInv, AssignInv, LaidInv
  <2> QED
    BY <1>12, <1>14, <2>6, <2>7, <2>8 DEF LayInv
<1> QED
  BY <1>10, <1>19, <1>20

(* The entries of a directory name its children, itself and its parent,    *)
(* in the order of the names.                                              *)
Named(c) == [name |-> tree.name[c], nid |-> node[c].nid, type |-> tree.type[c]]
DotOf(n) == [name |-> Dot, nid |-> node[n].nid, type |-> "dir"]
DotDotOf(n) == [name |-> DotDot, nid |-> node[Parent(n)].nid, type |-> "dir"]

LEMMA EntriesAre ==
  ASSUME tree \in Hosts, DOMAIN node = Nodes, NodeTypes, NEW n \in Reached(tree), IsDir(n),
         \A m \in Reached(tree) : Scanned(m)
  PROVE  /\ Entries(n) \in Seq(DirentPlan) /\ Len(Entries(n)) > 0
         /\ \A i \in 1..Len(Entries(n)) : Needed(Entries(n)[i]) \in 2..BlockSize
         /\ Elements(Entries(n)) = {Named(c) : c \in Children(n)} \cup {DotOf(n), DotDotOf(n)}
         /\ \A i, j \in 1..Len(Entries(n)) : i < j => Entries(n)[i].name < Entries(n)[j].name
<1> DEFINE named(c) == Named(c)
           C == Children(n)
           dot == DotOf(n)
           dotdot == DotDotOf(n)
           all == {named(c) : c \in C} \cup {dot, dotdot}
           key == [e \in all |-> e.name]
<1>1. HostTree(tree, Nodes) /\ Reached(tree) \subseteq Nodes /\ DownClosed(tree, Reached(tree))
  BY HostFacts, ReachedFacts DEF Nodes
<1>2. C \subseteq Reached(tree) /\ C \subseteq Nodes /\ IsFiniteSet(C)
  <2>1. C \subseteq Reached(tree)
    BY <1>1 DEF DownClosed, Children
  <2>2. C \in SUBSET Nodes /\ IsFiniteSet(Nodes)
    BY <1>1, <2>1 DEF HostTree
  <2>3. IsFiniteSet(C)
    BY <2>2, FS_Subset
  <2> QED
    BY <2>1, <2>2, <2>3
<1>3. Parent(n) \in Reached(tree) /\ tree.type[Parent(n)] = "dir"
  <2>1. CASE n = Root
    BY <2>1 DEF Parent, IsDir
  <2>2. CASE n # Root
    <3>1. PICK p \in Reached(tree) : n \in tree.children[p]
      BY <2>2, ReachedFacts
    <3>2. Parent(n) = p
      <4>1. \A q \in Nodes : n \in Children(q) => q = p
        BY <1>1, <3>1 DEF HostTree, Children
      <4>2. p \in Nodes /\ n \in Children(p)
        BY <1>1, <3>1 DEF Children
      <4> QED
        BY <2>2, <4>1, <4>2 DEF Parent, Nodes
    <3> QED
      BY <1>1, <3>1, <3>2 DEF HostTree
  <2> QED
    BY <2>1, <2>2
<1>4. /\ Name \subseteq Nat /\ Dot \in Name /\ DotDot \in Name /\ Dot # DotDot
      /\ NameLen \in [Name -> Nat \ {0}]
  BY LayoutAssumption DEF LayoutAssumption
<1>5. ASSUME NEW m \in Reached(tree)
      PROVE  node[m].nid \in Nat /\ tree.type[m] \in HostType /\ tree.name[m] \in Name
  BY <1>1 DEF HostTree, NodeTypes
<1>6. dot \in DirentPlan /\ dotdot \in DirentPlan
  <2>1. dot \in [name : Name, nid : Nat, type : HostType]
        /\ dotdot \in [name : Name, nid : Nat, type : HostType]
    BY <1>3, <1>4, <1>5 DEF HostType, DotOf, DotDotOf
  <2>2. tree.type[n] = "dir"
    BY DEF IsDir
  <2> QED
    BY <1>3, <2>1, <2>2 DEF DirentPlan, DotOf, DotDotOf
<1>7. ASSUME NEW c \in C
      PROVE  named(c) \in DirentPlan /\ c # Root /\ named(c).name = tree.name[c]
             /\ named(c).name \notin {Dot, DotDot}
  <2>1. c \in Reached(tree) /\ named(c) \in [name : Name, nid : Nat, type : HostType]
    BY <1>2, <1>5 DEF Named
  <2>2. c # Root
    BY <1>1 DEF HostTree, Children
  <2>3. tree.name[c] \notin {Dot, DotDot}
    BY <1>1 DEF HostTree, Children
  <2> QED
    BY <2>1, <2>2, <2>3 DEF DirentPlan, Named
<1>8. IsFiniteSet(all)
  <2> DEFINE f == [c \in C |-> named(c)]
             T == {named(c) : c \in C}
  <2>1. f \in Surjection(C, T)
    BY DEF Surjection
  <2>2. IsFiniteSet(T)
    BY <1>2, <2>1, FS_Surjection
  <2> HIDE DEF T
  <2>3. IsFiniteSet((T \cup {dot}) \cup {dotdot})
    BY <2>2, FS_AddElement
  <2>4. all = (T \cup {dot}) \cup {dotdot}
    BY DEF T
  <2> QED
    BY <2>3, <2>4
<1>9. all \subseteq DirentPlan
  BY <1>6, <1>7
<1>10. ASSUME NEW x \in all, NEW y \in all, x.name = y.name
       PROVE  x = y
  <2>1. \A c, d \in C : tree.name[c] = tree.name[d] => c = d
    BY <1>1 DEF HostTree, Children
  <2>2. dot.name = Dot /\ dotdot.name = DotDot
    BY DEF DotOf, DotDotOf
  <2> QED
    BY <1>4, <1>7, <1>10, <2>1, <2>2
<1>11. \A x \in all : key[x] \in Nat
  BY <1>4, <1>9 DEF DirentPlan
<1>12. dot \in all /\ all # {}
  OBVIOUS
<1>13. Entries(n) = InOrder(all, key)
  BY DEF Entries, Named, DotOf, DotDotOf
<1>14. \A x, y \in all : key[x] = key[y] => x = y
  BY <1>10
<1>15. ASSUME NEW e \in all PROVE Needed(e) \in 2..BlockSize
  <2>1. NameLen[e.name] <= MaxNameLen
    <3>1. NameLen[Dot] <= MaxNameLen /\ NameLen[DotDot] <= MaxNameLen
      BY BuilderAssumption DEF BuilderAssumption
    <3>2. ASSUME NEW c \in C PROVE NameLen[tree.name[c]] <= MaxNameLen
      BY <1>2, <1>7 DEF Scanned
    <3> QED
      BY <1>7, <3>1, <3>2 DEF DotOf, DotDotOf
  <2>2. e.name \in Name
    BY <1>9 DEF DirentPlan
  <2>3. NameLen[e.name] < BlockSize
    BY <2>1, <2>2, BuilderAssumption DEF BuilderAssumption
  <2>4. NameLen[e.name] \in Nat /\ NameLen[e.name] # 0 /\ BlockSize \in Nat
    BY <1>4, <2>2, LayoutAssumption DEF LayoutAssumption
  <2> QED
    BY ONLY <2>3, <2>4 DEF Needed
<1> HIDE DEF all, key, C, named, dot, dotdot
<1> DEFINE s == Entries(n)
<1>16. /\ s \in Seq(all) /\ Len(s) = Cardinality(all)
       /\ \A x \in all : \E i \in 1..Cardinality(all) : s[i] = x
       /\ \A i, j \in 1..Cardinality(all) : i < j => key[s[i]] < key[s[j]]
  BY <1>8, <1>11, <1>13, <1>14, InOrderIs
<1>17. Cardinality(all) \in Nat /\ Cardinality(all) # 0
  BY <1>8, <1>12, FS_CardinalityType, FS_EmptySet
<1> HIDE DEF s
<1>18. s \in Seq(DirentPlan) /\ Len(s) > 0 /\ \A i \in 1..Len(s) : s[i] \in all
  BY <1>9, <1>16, <1>17
<1>19. Elements(s) = all
  BY <1>16, <1>18 DEF Elements
<1>20. \A x \in all : key[x] = x.name
  BY DEF key
<1>21. \A i, j \in 1..Len(s) : i < j => s[i].name < s[j].name
  BY <1>16, <1>18, <1>20
<1> QED
  BY <1>15, <1>18, <1>19, <1>21 DEF s, all, C, named, dot, dotdot

(* An element is put into the last block, or begins another.               *)
LEMMA PutLast ==
  ASSUME NEW T, NEW bs \in Seq(Seq(T)), Len(bs) > 0, NEW e \in T, NEW bs1,
         bs1 = [bs EXCEPT ![Len(bs)] = Append(@, e)]
  PROVE  /\ bs1 \in Seq(Seq(T)) /\ Len(bs1) = Len(bs)
         /\ Len(bs1[Len(bs)]) = Len(bs[Len(bs)]) + 1
         /\ \A b \in 1..Len(bs) : b # Len(bs) => bs1[b] = bs[b]
<1>1. PICK last : last = Len(bs)
  OBVIOUS
<1>2. last \in Nat /\ last \in 1..last /\ bs \in [1..last -> Seq(T)]
  BY <1>1
<1>3. bs[last] \in Seq(T)
  BY <1>2
<1>4. PICK x : x = Append(bs[last], e)
  OBVIOUS
<1>5. x \in Seq(T) /\ Len(x) = Len(bs[last]) + 1
  BY <1>3, <1>4
<1>6. bs1 = [bs EXCEPT ![last] = x]
  BY <1>1, <1>4
<1>7. bs1 \in [1..last -> Seq(T)] /\ bs1[last] = x /\ \A b \in 1..last : b # last => bs1[b] = bs[b]
  BY <1>2, <1>5, <1>6
<1>8. bs1 \in Seq(Seq(T)) /\ Len(bs1) = last
  BY <1>2, <1>7
<1> QED
  BY <1>1, <1>5, <1>7, <1>8

LEMMA AddBlock ==
  ASSUME NEW T, NEW bs \in Seq(Seq(T)), NEW e \in T, NEW bs1, bs1 = Append(bs, <<e>>)
  PROVE  /\ bs1 \in Seq(Seq(T)) /\ Len(bs1) = Len(bs) + 1
         /\ Len(bs1[Len(bs) + 1]) = 1
         /\ \A b \in 1..Len(bs) : bs1[b] = bs[b]
<1>1. PICK x : x = <<e>>
  OBVIOUS
<1>2. x \in Seq(T) /\ Len(x) = 1
  BY <1>1
<1>3. bs1 = Append(bs, x)
  BY <1>1
<1>4. /\ bs1 \in Seq(Seq(T)) /\ Len(bs1) = Len(bs) + 1 /\ bs1[Len(bs) + 1] = x
      /\ \A b \in 1..Len(bs) : bs1[b] = bs[b]
  BY <1>2, <1>3
<1> QED
  BY <1>2, <1>4

(* One turn of encode_dirents: the entry goes into the last block, if it   *)
(* fits there, or begins another.                                          *)
LEMMA PlaceDirentLays ==
  ASSUME BuildTypes, LayInv, source' = source, PlaceDirent
  PROVE  BuildTypes' /\ LayInv'
<1>1. /\ phase = "layout" /\ tree \in Hosts /\ IsDir(Current)
      /\ UNCHANGED <<tree, content, writes, phase, pending, todo, node, cursor, taken, image>>
      /\ pack.placed < Len(Entries(Current))
  BY DEF PlaceDirent, BuildTypes
<1>2. LayoutInv /\ PackFits /\ Current \in Reached(tree)
  BY <1>1, RestIs DEF LayInv, LayoutInv, TodoInv, Busy
<1>3. /\ Entries(Current) \in Seq(DirentPlan)
      /\ \A i \in 1..Len(Entries(Current)) : Needed(Entries(Current)[i]) \in 2..BlockSize
  BY <1>1, <1>2, EntriesAre DEF LayoutInv, BuildTypes
<1> DEFINE entries == Entries(Current)
           entry == entries[pack.placed + 1]
           need == Needed(entry)
           last == Len(pack.blocks)
           fits == pack.used + need <= BlockSize
<1>4. pack' = [placed |-> pack.placed + 1,
               blocks |-> IF fits THEN [pack.blocks EXCEPT ![last] = Append(@, entry)]
                          ELSE Append(pack.blocks, <<entry>>),
               used   |-> IF fits THEN pack.used + need ELSE need]
  BY DEF PlaceDirent
<1>5. entry \in DirentPlan /\ need \in 2..BlockSize /\ pack.placed \in Nat
  <2>1. pack.placed \in Nat
    BY <1>2 DEF PackFits
  <2>2. pack.placed + 1 \in 1..Len(entries)
    BY <1>1, <1>3, <2>1
  <2> QED
    BY <1>3, <2>1, <2>2
<1>6. BlockSize \in Nat /\ BlockSize > 0
  BY LayoutAssumption DEF LayoutAssumption
<1> HIDE DEF entries, entry, need
<1>7. PackFits'
  <2>1. PICK bs, l, u, bs1, u1 : /\ bs = pack.blocks /\ l = Len(bs) /\ u = pack.used
                                 /\ bs1 = pack'.blocks /\ u1 = pack'.used
    OBVIOUS
  <2>2. /\ DOMAIN pack' = {"placed", "blocks", "used"}
        /\ pack'.placed = pack.placed + 1
        /\ u + need <= BlockSize => bs1 = [bs EXCEPT ![l] = Append(@, entry)] /\ u1 = u + need
        /\ ~(u + need <= BlockSize) => bs1 = Append(bs, <<entry>>) /\ u1 = need
    BY <1>4, <2>1
  <2>3. /\ bs \in Seq(Seq(DirentPlan)) /\ l > 0 /\ l \in Nat
        /\ Len(bs[l]) \in Nat /\ Len(bs[l]) <= u /\ u \in 0..BlockSize
        /\ \A b \in 1..l : b # l => Len(bs[b]) \in 1..BlockSize
        /\ ~(u + need <= BlockSize) => \A b \in 1..l : Len(bs[b]) \in 1..BlockSize
    <3>1. CASE pack = EmptyPack
      <4>1. bs = <<<<>>>> /\ u = 0 /\ l = 1 /\ bs[1] = <<>> /\ bs \in Seq(Seq(DirentPlan))
        BY <2>1, <3>1 DEF EmptyPack
      <4> QED
        BY <1>5, <1>6, <4>1
    <3>2. CASE /\ BlocksFit(pack.blocks) /\ Len(pack.blocks) > 0
               /\ pack.used \in 1..BlockSize /\ pack.placed > 0
               /\ Len(pack.blocks[Len(pack.blocks)]) <= pack.used
      <4>1. /\ bs \in Seq(Seq(DirentPlan)) /\ \A b \in 1..l : Len(bs[b]) \in 1..BlockSize
            /\ l > 0 /\ u \in 1..BlockSize /\ Len(bs[l]) <= u
        BY <2>1, <3>2 DEF BlocksFit
      <4>2. l \in Nat /\ l \in 1..l
        BY <2>1, <4>1
      <4> QED
        BY <1>6, <4>1, <4>2
    <3> QED
      BY <1>2, <3>1, <3>2 DEF PackFits
  <2>4. DirentPlan' = DirentPlan
    BY <1>1 DEF DirentPlan
  <2>5. CASE u + need <= BlockSize
    <3>1. /\ bs1 \in Seq(Seq(DirentPlan)) /\ Len(bs1) = l
          /\ Len(bs1[l]) = Len(bs[l]) + 1
          /\ \A b \in 1..l : b # l => bs1[b] = bs[b]
      <4>1. bs1 = [bs EXCEPT ![Len(bs)] = Append(@, entry)] /\ Len(bs) > 0
        BY <2>1, <2>2, <2>3, <2>5
      <4>2. entry \in DirentPlan /\ bs \in Seq(Seq(DirentPlan)) /\ l = Len(bs)
        BY <1>5, <2>1, <2>3
      <4> QED
        BY ONLY <4>1, <4>2, PutLast
    <3>2. u1 \in 1..BlockSize /\ Len(bs1[l]) <= u1 /\ Len(bs1[l]) \in 1..BlockSize
      BY ONLY <1>5, <1>6, <2>2, <2>3, <2>5, <3>1
    <3>3. \A b \in 1..l : Len(bs1[b]) \in 1..BlockSize
      BY <2>3, <3>1, <3>2
    <3>4. BlocksFit(pack.blocks)'
      BY <2>1, <2>4, <3>1, <3>3 DEF BlocksFit
    <3>5. Len(pack'.blocks) > 0 /\ Len(pack'.blocks[Len(pack'.blocks)]) <= pack'.used
      BY <2>1, <2>3, <3>1, <3>2
    <3>6. pack'.used \in 1..BlockSize
      BY <2>1, <3>2
    <3>7. pack'.placed \in Nat /\ pack'.placed > 0
      BY <1>5, <2>2
    <3> QED
      BY <2>2, <3>4, <3>5, <3>6, <3>7 DEF PackFits
  <2>6. CASE ~(u + need <= BlockSize)
    <3>1. /\ bs1 \in Seq(Seq(DirentPlan)) /\ Len(bs1) = l + 1
          /\ Len(bs1[l + 1]) = 1
          /\ \A b \in 1..l : bs1[b] = bs[b]
      <4>1. bs1 = Append(bs, <<entry>>) /\ l = Len(bs)
        BY <2>1, <2>2, <2>6
      <4>2. entry \in DirentPlan /\ bs \in Seq(Seq(DirentPlan))
        BY <1>5, <2>3
      <4> QED
        BY ONLY <4>1, <4>2, AddBlock
    <3>2. u1 \in 1..BlockSize /\ 1 <= u1
      BY <1>5, <1>6, <2>2, <2>6
    <3>3. ASSUME NEW b \in 1..(l + 1) PROVE Len(bs1[b]) \in 1..BlockSize
      <4>1. CASE b = l + 1
        <5>1. 1 \in 1..BlockSize
          BY <1>6
        <5> QED
          BY ONLY <3>1, <4>1, <5>1
      <4>2. CASE b # l + 1
        <5>1. b \in 1..l
          BY <2>3, <4>2
        <5> QED
          BY <2>3, <2>6, <3>1, <5>1
      <4> QED
        BY <4>1, <4>2
    <3>4. BlocksFit(pack.blocks)'
      BY <2>1, <2>4, <3>1, <3>3 DEF BlocksFit
    <3>5. Len(pack'.blocks) > 0 /\ Len(pack'.blocks[Len(pack'.blocks)]) <= pack'.used
      BY <2>1, <2>3, <3>1, <3>2
    <3>6. pack'.used \in 1..BlockSize
      BY <2>1, <3>2
    <3>7. pack'.placed \in Nat /\ pack'.placed > 0
      BY <1>5, <2>2
    <3> QED
      BY <2>2, <3>4, <3>5, <3>6, <3>7 DEF PackFits
  <2> QED
    BY <2>5, <2>6
<1>8. BuildTypes' /\ NothingOverlaps'
  BY <1>1 DEF BuildTypes, Nodes, NodeTypes, LayInv, NothingOverlaps, Numbered, Placed, Slots, Extent
<1>9. LayoutInv'
  <2>1. PICK visited \in SUBSET Reached(tree) :
          Halfway(visited, Ahead) /\ \A n \in visited : LaidOut(n)
    BY <1>1, <1>2 DEF LayoutInv
  <2>6. \A n : LaidOut(n)' <=> LaidOut(n)
    <3>1. DirentPlan' = DirentPlan
      BY <1>1 DEF DirentPlan
    <3>2. \A blocks : BlocksFit(blocks)' <=> BlocksFit(blocks)
      BY <3>1 DEF BlocksFit
    <3> QED
      BY <1>1, <3>2 DEF LaidOut, IsDir
  <2>2. Halfway(visited, Ahead)' /\ \A n \in visited : LaidOut(n)'
    <3>1. Halfway(visited, Ahead)'
      BY <1>1, <2>1 DEF Halfway, Ahead, Elements, Children
    <3> QED
      BY <2>1, <2>6, <3>1
  <2>3. \A n \in Reached(tree) : Scanned(n)' /\ node'[n].nid # 0
    BY <1>1, <1>2 DEF LayoutInv, Scanned
  <2>4. Reached(tree)' = Reached(tree)
    BY <1>1
  <2>5. \A n \in Reached(tree) : node'[n].blocks = 0 \/ LaidOut(n)'
    BY <1>1, <1>2, <2>6 DEF LayoutInv
  <2> QED
    BY <1>1, <1>2, <1>7, <2>2, <2>3, <2>4, <2>5 DEF LayoutInv
<1>10. TodoInv'
  BY <1>1 DEF LayInv, TodoInv, Busy
<1>11. ScanInv' /\ AssignInv' /\ LaidInv'
  BY <1>1 DEF ScanInv, AssignInv, LaidInv
<1> QED
  BY <1>7, <1>8, <1>9, <1>10, <1>11 DEF LayInv

(* The blocks that a node takes are those past all blocks taken so far.    *)
LEMMA TakeBlocks ==
  ASSUME BuildTypes, NothingOverlaps, cursor.nid <= cursor.block * BlockSize,
         NEW n \in Nodes, NEW size \in Nat, NEW blocks \in Nat, NEW data,
         blocks > 0, size <= blocks * BlockSize, Place(n, size, blocks, data),
         cursor' = [cursor EXCEPT !.block = cursor.block + blocks],
         phase' \in {"emit", "built"} => cursor'.block <= MaxBlock
  PROVE  /\ DOMAIN node' = Nodes
         /\ \A m \in Nodes : m # n => node'[m] = node[m]
         /\ DOMAIN node'[n] = DOMAIN node[n] /\ node'[n].nid = node[n].nid
         /\ node'[n].size = size /\ node'[n].blocks = blocks /\ node'[n].data = data
         /\ node'[n].blkaddr = cursor.block
         /\ cursor.nid <= (cursor.block + blocks) * BlockSize
         /\ NothingOverlaps'
<1>1. cursor \in [nid : Nat, block : Nat] /\ DOMAIN node = Nodes /\ NodeTypes
  BY DEF BuildTypes
<1>2. BlockSize \in Nat /\ BlockSize > 0
  BY LayoutAssumption DEF LayoutAssumption
<1>3. cursor'.nid = cursor.nid /\ cursor'.block = cursor.block + blocks
  BY <1>1
<1>4. /\ DOMAIN node' = Nodes /\ DOMAIN node'[n] = DOMAIN node[n]
      /\ node'[n].size = size /\ node'[n].nid = node[n].nid
      /\ node'[n].blkaddr = cursor.block /\ node'[n].blocks = blocks /\ node'[n].data = data
      /\ \A m \in Nodes \ {n} : node'[m] = node[m]
  BY <1>1 DEF Place, NodeTypes
<1>5. cursor.nid <= (cursor.block + blocks) * BlockSize
  <2>1. (cursor.block + blocks) * BlockSize = cursor.block * BlockSize + blocks * BlockSize
    BY <1>1, <1>2
  <2>2. cursor.block * BlockSize \in Nat /\ blocks * BlockSize \in Nat /\ cursor.nid \in Nat
    BY <1>1, <1>2
  <2> QED
    BY <2>1, <2>2
<1>6. \A m \in Nodes : node'[m].nid = node[m].nid
  BY <1>4
<1>7. Numbered' = Numbered /\ \A m \in Nodes : Slots(m)' = Slots(m)
  BY <1>1, <1>4, <1>6 DEF Numbered, Slots
<1>8. /\ Placed \subseteq Nodes /\ Placed' = Placed \cup {n}
      /\ \A m \in Placed : m # n => node'[m] = node[m]
  BY <1>1, <1>4 DEF Placed
<1>9. \A m \in Numbered :
        /\ FirstNid <= node'[m].nid /\ node'[m].nid + ExtendedInode <= cursor'.nid
        /\ \A k \in Numbered \ {m} : Slots(m)' \cap Slots(k)' = {}
  <2>1. Numbered \subseteq Nodes
    BY <1>1 DEF Numbered
  <2> QED
    BY <1>3, <1>6, <1>7, <2>1 DEF NothingOverlaps
<1>10. \A m \in Nodes :
         /\ node[m].blkaddr \in Nat /\ node[m].blocks \in Nat /\ node[m].size \in Nat
         /\ Extent(m)' = node'[m].blkaddr..(node'[m].blkaddr + node'[m].blocks - 1)
         /\ Extent(m) = node[m].blkaddr..(node[m].blkaddr + node[m].blocks - 1)
  BY <1>1 DEF NodeTypes, Extent
<1>11. \A m \in Placed :
         /\ cursor.nid <= node[m].blkaddr * BlockSize
         /\ node[m].blkaddr + node[m].blocks <= cursor.block
         /\ node[m].size <= node[m].blocks * BlockSize
         /\ \A k \in Placed \ {m} : Extent(m) \cap Extent(k) = {}
  BY DEF NothingOverlaps
<1>12. ASSUME NEW m \in Placed \ {n}
       PROVE  Extent(m)' \cap Extent(n)' = {}
  <2>1. Extent(m)' = node[m].blkaddr..(node[m].blkaddr + node[m].blocks - 1)
    BY <1>8, <1>10
  <2>2. Extent(n)' = cursor.block..(cursor.block + blocks - 1)
    BY <1>4, <1>10
  <2>3. node[m].blkaddr + node[m].blocks <= cursor.block
        /\ node[m].blkaddr \in Nat /\ node[m].blocks \in Nat
    BY <1>8, <1>10, <1>11
  <2>4. PICK a, b, c, d : /\ a = node[m].blkaddr /\ b = node[m].blocks
                          /\ c = cursor.block /\ d = blocks
    OBVIOUS
  <2>5. a \in Nat /\ b \in Nat /\ c \in Nat /\ d \in Nat /\ a + b <= c
    BY <1>1, <2>3, <2>4
  <2>6. (a..(a + b - 1)) \cap (c..(c + d - 1)) = {}
    BY ONLY <2>5
  <2> QED
    BY <2>1, <2>2, <2>4, <2>6
<1>13. ASSUME NEW m \in Placed \cup {n}
       PROVE  /\ cursor'.nid <= node'[m].blkaddr * BlockSize
              /\ node'[m].blkaddr + node'[m].blocks <= cursor'.block
              /\ node'[m].size <= node'[m].blocks * BlockSize
              /\ \A k \in (Placed \cup {n}) \ {m} : Extent(m)' \cap Extent(k)' = {}
  <2>1. CASE m = n
    <3>1. \A k \in Placed \ {n} : Extent(n)' \cap Extent(k)' = {}
      BY <1>12
    <3>2. cursor.block + blocks <= cursor'.block
      BY <1>1, <1>3
    <3> QED
      BY <1>3, <1>4, <2>1, <3>1, <3>2
  <2>2. CASE m # n
    <3>1. m \in Placed /\ node'[m] = node[m] /\ Extent(m)' = Extent(m)
      BY <1>8, <1>10, <2>2
    <3>2. node[m].blkaddr + node[m].blocks <= cursor'.block
      <4>1. node[m].blkaddr + node[m].blocks <= cursor.block
            /\ node[m].blkaddr \in Nat /\ node[m].blocks \in Nat
        BY <1>8, <1>10, <1>11, <3>1
      <4> QED
        BY <1>1, <1>3, <4>1
    <3>3. \A k \in Placed \ {m} : k # n => Extent(m)' \cap Extent(k)' = {}
      <4>1. \A k \in Placed : k # n => Extent(k)' = Extent(k)
        BY <1>8, <1>10
      <4> QED
        BY <1>11, <3>1, <4>1
    <3> QED
      BY <1>3, <1>11, <1>12, <2>2, <3>1, <3>2, <3>3
  <2> QED
    BY <2>1, <2>2
<1>14. NothingOverlaps'
  BY <1>7, <1>8, <1>9, <1>13 DEF NothingOverlaps
<1> QED
  BY <1>4, <1>5, <1>14

(* A node is laid out, and the pass goes on, or ends.                      *)
LEMMA ProceedLays ==
  ASSUME BuildTypes, LayInv, source' = source, phase = "layout",
         NEW n, n = Current, NEW block \in Nat, Proceed(block),
         UNCHANGED <<tree, content, taken>>,
         DOMAIN node' = Nodes, \A m \in Nodes : m # n => node'[m] = node[m],
         DOMAIN node'[n] = DOMAIN node[n],
         {node'[n].size, node'[n].blocks, node'[n].blkaddr} \subseteq Nat,
         node'[n].nid = node[n].nid, tree.type[n] = "symlink" => node'[n].size = node[n].size,
         cursor.nid <= block * BlockSize, LaidOut(n)', PackFits', NothingOverlaps'
  PROVE  BuildTypes' /\ LayInv'
<1>b. PICK R : R = Reached(tree)
  OBVIOUS
<1>1. /\ tree \in Hosts /\ LayoutInv /\ todo \in Seq(R) /\ todo # <<>>
      /\ cursor \in [nid : Nat, block : Nat] /\ FirstNid <= cursor.nid
  BY <1>b DEF BuildTypes, LayInv, TodoInv, Busy
<1>2. n \in R /\ n \in Nodes /\ Rest \in Seq(R) /\ R \subseteq Nodes
  BY <1>1, <1>b, RestIs, ReachedFacts DEF Nodes
<1>3. /\ cursor' \in [nid : Nat, block : Nat] /\ cursor'.nid = cursor.nid /\ cursor'.block = block
      /\ phase' \in {"layout", "emit", "failed"}
  BY <1>1 DEF Proceed
<1>4. Nodes' = Nodes /\ Reached(tree)' = R
  BY <1>b DEF Nodes
<1>5. NodeTypes'
  <2>1. NodeTypes
    BY DEF BuildTypes
  <2> QED
    BY <1>2, <1>4, <2>1 DEF NodeTypes
<1>6. BuildTypes'
  BY <1>1, <1>3, <1>4, <1>5 DEF BuildTypes
<1>7. DirentPlan' = DirentPlan
  <2>1. \A m \in R : node'[m].nid = node[m].nid
    BY <1>2
  <2> QED
    BY <1>4, <1>b, <2>1 DEF DirentPlan
<1>8. ASSUME NEW m \in R
      PROVE  /\ Scanned(m)' /\ node'[m].nid # 0
             /\ node'[m].blocks = 0 \/ LaidOut(m)'
             /\ LaidOut(m) => LaidOut(m)'
  <2>1. Scanned(m) /\ node[m].nid # 0 /\ (node[m].blocks = 0 \/ LaidOut(m))
    BY <1>1, <1>b DEF LayoutInv
  <2>2. CASE m = n
    BY <2>1, <2>2 DEF Scanned
  <2>3. CASE m # n
    <3>1. node'[m] = node[m] /\ tree' = tree
      BY <1>2, <2>3
    <3>2. LaidOut(m) => LaidOut(m)'
      BY <1>7, <3>1 DEF LaidOut, IsDir, BlocksFit
    <3> QED
      BY <2>1, <3>1, <3>2 DEF Scanned
  <2> QED
    BY <2>2, <2>3
<1>9. PICK visited \in SUBSET R :
         Halfway(visited, Ahead) /\ \A m \in visited : LaidOut(m)
  BY <1>1, <1>b DEF LayoutInv
<1> DEFINE V == visited \cup {n}
<1>10. V \in SUBSET R /\ Halfway(V, Elements(Rest)) /\ (Rest = <<>> => V = R)
  BY <1>1, <1>9, <1>b, HalfwayStep
<1>11. \A m \in V : LaidOut(m)'
  BY <1>8, <1>9
<1>12. CASE phase' = "layout"
  <2>1. Rest # <<>> /\ todo' = Rest
    BY <1>12 DEF Proceed
  <2>2. Halfway(V, Ahead)'
    BY <1>1, <1>10, <2>1 DEF Halfway, Ahead, Elements, Children
  <2>3. LayoutInv'
    BY <1>3, <1>4, <1>8, <1>10, <1>11, <2>2 DEF LayoutInv
  <2>4. TodoInv'
    BY <1>2, <1>4, <2>1 DEF TodoInv
  <2>5. ScanInv' /\ AssignInv' /\ LaidInv'
    BY <1>12 DEF ScanInv, AssignInv, LaidInv
  <2> QED
    BY <1>6, <2>3, <2>4, <2>5 DEF LayInv
<1>13. CASE phase' = "emit"
  <2>1. Rest = <<>> /\ todo' = <<Root>>
    BY <1>13 DEF Proceed
  <2>2. todo' # <<>> /\ todo' \in Seq(R) /\ Halfway({}, Ahead)'
    BY <1>1, <2>1, <1>b, PassBegins
  <2>3. LaidInv'
    BY <1>3, <1>4, <1>8, <1>10, <1>11, <2>1 DEF LaidInv
  <2>4. TodoInv'
    BY <1>4, <2>2 DEF TodoInv
  <2>5. ScanInv' /\ AssignInv' /\ LayoutInv'
    BY <1>13 DEF ScanInv, AssignInv, LayoutInv
  <2> QED
    BY <1>6, <2>3, <2>4, <2>5 DEF LayInv
<1>14. CASE phase' = "failed"
  BY <1>6, <1>14 DEF LayInv, ScanInv, AssignInv, LayoutInv, LaidInv, TodoInv, Busy
<1> QED
  BY <1>3, <1>12, <1>13, <1>14

LEMMA LayoutDirLays ==
  ASSUME BuildTypes, LayInv, source' = source, LayoutDir
  PROVE  BuildTypes' /\ LayInv'
<1>a. PICK n, blocks, used, size :
        /\ n = Current /\ blocks = Len(pack.blocks) /\ used = pack.used
        /\ size = (blocks - 1) * BlockSize + used
  OBVIOUS
<1>1. /\ phase = "layout" /\ tree \in Hosts /\ IsDir(n) /\ LayoutInv
      /\ pack.placed = Len(Entries(n)) /\ cursor.block <= MaxBlock
      /\ Place(n, size, blocks, pack.blocks) /\ Proceed(cursor.block + blocks)
      /\ pack' = EmptyPack
      /\ UNCHANGED <<tree, content, writes, pending, taken>>
  BY <1>a DEF LayoutDir, BuildTypes, LayInv
<1>2. n \in Reached(tree) /\ n \in Nodes
  BY <1>1, <1>a, RestIs DEF LayInv, TodoInv, Busy, BuildTypes
<1>3. pack.placed > 0
  BY <1>1, <1>2, EntriesAre DEF LayoutInv, BuildTypes
<1>4. /\ BlocksFit(pack.blocks) /\ blocks > 0 /\ used \in 1..BlockSize
      /\ Len(pack.blocks[blocks]) <= used
  <2>1. PackFits
    BY <1>1 DEF LayoutInv
  <2>2. pack # EmptyPack
    BY <1>3 DEF EmptyPack
  <2> QED
    BY <1>a, <2>1, <2>2 DEF PackFits
<1>5. blocks \in Nat /\ BlockSize \in Nat /\ BlockSize > 0
  BY <1>4, <1>a, LayoutAssumption DEF BlocksFit, LayoutAssumption
<1>6. size \in Nat /\ size <= blocks * BlockSize
  <2>1. (blocks - 1) * BlockSize = blocks * BlockSize - BlockSize
        /\ (blocks - 1) * BlockSize \in Nat /\ blocks * BlockSize \in Nat
    BY <1>4, <1>5
  <2> QED
    BY <1>4, <1>5, <1>a, <2>1
<1>7. /\ cursor' = [cursor EXCEPT !.block = cursor.block + blocks]
      /\ phase' \in {"emit", "built"} => cursor'.block <= MaxBlock
      /\ cursor.block \in Nat
  BY <1>1 DEF Proceed, BuildTypes
<1>8. /\ DOMAIN node' = Nodes
      /\ \A m \in Nodes : m # n => node'[m] = node[m]
      /\ DOMAIN node'[n] = DOMAIN node[n] /\ node'[n].nid = node[n].nid
      /\ node'[n].size = size /\ node'[n].blocks = blocks /\ node'[n].data = pack.blocks
      /\ node'[n].blkaddr = cursor.block
      /\ cursor.nid <= (cursor.block + blocks) * BlockSize
      /\ NothingOverlaps'
  BY <1>1, <1>2, <1>4, <1>5, <1>6, <1>7, TakeBlocks DEF LayoutInv, LayInv
<1>9. LaidOut(n)'
  <2>1. DirentPlan' = DirentPlan
    <3>1. \A m \in Reached(tree) : node'[m].nid = node[m].nid
      BY <1>1, <1>8, ReachedFacts DEF Nodes
    <3> QED
      BY <1>1, <3>1 DEF DirentPlan
  <2>2. BlocksFit(node[n].data)' /\ Len(node'[n].data) = blocks
    BY <1>4, <1>8, <1>a, <2>1 DEF BlocksFit
  <2> QED
    BY <1>1, <1>4, <1>8, <1>a, <2>2 DEF LaidOut, IsDir
<1>10. PackFits'
  BY <1>1 DEF PackFits, EmptyPack
<1>11. tree.type[n] # "symlink"
  BY <1>1 DEF IsDir
<1>12. cursor.block + blocks \in Nat
  BY <1>5, <1>7
<1> QED
  BY <1>1, <1>2, <1>5, <1>6, <1>7, <1>8, <1>9, <1>10, <1>11, <1>12, <1>a, ProceedLays

LEMMA LayoutPayloadLays ==
  ASSUME BuildTypes, LayInv, source' = source, LayoutPayload
  PROVE  BuildTypes' /\ LayInv'
<1>a. PICK n, size : n = Current /\ size = node[n].size
  OBVIOUS
<1>1. /\ phase = "layout" /\ tree \in Hosts /\ ~IsDir(n) /\ LayoutInv
      /\ UNCHANGED <<tree, content, writes, pending, pack, taken>>
  BY <1>a DEF LayoutPayload, BuildTypes, LayInv
<1>2. n \in Reached(tree) /\ n \in Nodes
  BY <1>1, <1>a, RestIs DEF LayInv, TodoInv, Busy, BuildTypes
<1>3. /\ DOMAIN node = Nodes /\ NodeTypes /\ size \in Nat /\ cursor \in [nid : Nat, block : Nat]
  BY <1>2, <1>a DEF BuildTypes, NodeTypes
<1>4. cursor.nid <= cursor.block * BlockSize /\ PackFits /\ NothingOverlaps
  BY <1>1 DEF LayoutInv, LayInv
<1>5. BlockSize \in Nat /\ BlockSize > 0
  BY LayoutAssumption DEF LayoutAssumption
<1>6. /\ DivCeil(size) \in Nat /\ size <= DivCeil(size) * BlockSize
      /\ size > 0 => DivCeil(size) > 0
  BY <1>3, DivCeilHolds
<1>7. CASE size = 0
  <2>1. Proceed(cursor.block) /\ node' = node
    BY <1>7, <1>a DEF LayoutPayload
  <2>2. DivCeil(0) = 0
    <3>1. BlockSize - 1 \in 0..(BlockSize - 1)
      BY <1>5
    <3> QED
      BY <1>5, <3>1 DEF DivCeil
  <2>3. node[n].blocks = 0
    <3>1. node[n].blocks = 0 \/ LaidOut(n)
      BY <1>1, <1>2 DEF LayoutInv
    <3> QED
      BY <1>1, <1>7, <1>a, <2>2, <3>1 DEF LaidOut
  <2>4. LaidOut(n)'
    BY <1>1, <1>7, <1>a, <2>1, <2>2, <2>3 DEF LaidOut, IsDir
  <2>5. PackFits'
    <3>1. DirentPlan' = DirentPlan
      BY <1>1, <2>1 DEF DirentPlan
    <3> QED
      BY <1>1, <1>4, <3>1 DEF PackFits, BlocksFit, EmptyPack
  <2>6. /\ cursor' = [cursor EXCEPT !.block = cursor.block]
        /\ phase' \in {"emit", "built"} => cursor'.block <= MaxBlock
    BY <1>1, <2>1 DEF Proceed
  <2>7. NothingOverlaps'
    BY <1>3, <1>4, <2>1, <2>6 DEF NothingOverlaps, Numbered, Placed, Slots, Extent
  <2>8. {node'[n].size, node'[n].blocks, node'[n].blkaddr} \subseteq Nat
    BY <1>2, <1>3, <2>1 DEF NodeTypes
  <2> QED
    BY <1>1, <1>3, <1>4, <1>a, <2>1, <2>4, <2>5, <2>7, <2>8, ProceedLays
<1>8. CASE size # 0
  <2>b. PICK blocks : blocks = DivCeil(size)
    OBVIOUS
  <2>1. /\ cursor.block <= MaxBlock
        /\ Place(n, size, blocks, <<>>) /\ Proceed(cursor.block + blocks)
    BY <1>8, <1>a, <2>b DEF LayoutPayload
  <2>2. blocks \in Nat /\ blocks > 0 /\ size <= blocks * BlockSize
    BY <1>3, <1>6, <1>8, <2>b
  <2>3. /\ cursor' = [cursor EXCEPT !.block = cursor.block + blocks]
        /\ phase' \in {"emit", "built"} => cursor'.block <= MaxBlock
    BY <1>1, <2>1 DEF Proceed
  <2>4. /\ DOMAIN node' = Nodes
        /\ \A m \in Nodes : m # n => node'[m] = node[m]
        /\ DOMAIN node'[n] = DOMAIN node[n] /\ node'[n].nid = node[n].nid
        /\ node'[n].size = size /\ node'[n].blocks = blocks
        /\ node'[n].blkaddr = cursor.block
        /\ cursor.nid <= (cursor.block + blocks) * BlockSize
        /\ NothingOverlaps'
    BY <1>2, <1>3, <1>4, <2>1, <2>2, <2>3, TakeBlocks
  <2>5. LaidOut(n)'
    BY <1>1, <2>b, <2>4 DEF LaidOut, IsDir
  <2>6. PackFits'
    <3>1. \A m \in Reached(tree) : node'[m].nid = node[m].nid
      BY <1>1, <2>4, ReachedFacts DEF Nodes
    <3>2. DirentPlan' = DirentPlan
      BY <1>1, <3>1 DEF DirentPlan
    <3> QED
      BY <1>1, <1>4, <3>2 DEF PackFits, BlocksFit, EmptyPack
  <2>7. cursor.block + blocks \in Nat
    BY <1>3, <2>2
  <2>8. {node'[n].size, node'[n].blocks, node'[n].blkaddr} \subseteq Nat
    BY <1>3, <2>2, <2>4
  <2> QED
    BY <1>1, <1>a, <2>1, <2>4, <2>5, <2>6, <2>7, <2>8, ProceedLays
<1> QED
  BY <1>7, <1>8

(* Writing the image changes nothing of what was laid out.                 *)
LEMMA EmitLays ==
  ASSUME BuildTypes, LayInv, source' = source, EmitNode
  PROVE  BuildTypes' /\ LayInv'
<1>1. /\ phase = "emit" /\ tree \in Hosts /\ LaidInv /\ NothingOverlaps
      /\ todo \in Seq(Reached(tree)) /\ todo # <<>>
      /\ todo' = Rest
      /\ UNCHANGED <<tree, content, writes, pending, node, cursor, pack>>
      /\ phase' = IF Rest = <<>> THEN "built" ELSE phase
      /\ DOMAIN taken' = DOMAIN taken
  BY DEF EmitNode, BuildTypes, LayInv, TodoInv, Busy
<1>2. Rest \in Seq(Reached(tree))
  BY <1>1, RestIs
<1>3. BuildTypes'
  BY <1>1 DEF BuildTypes, Nodes, NodeTypes
<1>4. LaidInv'
  BY <1>1 DEF LaidInv, Scanned, LaidOut, IsDir, BlocksFit, DirentPlan
<1>5. NothingOverlaps'
  BY <1>1 DEF NothingOverlaps, Numbered, Placed, Slots, Extent
<1>6. TodoInv'
  BY <1>1, <1>2 DEF TodoInv, Busy
<1>7. ScanInv' /\ AssignInv' /\ LayoutInv'
  BY <1>1 DEF ScanInv, AssignInv, LayoutInv
<1> QED
  BY <1>3, <1>4, <1>5, <1>6, <1>7 DEF LayInv

LEMMA StutterLays ==
  ASSUME BuildTypes, LayInv, UNCHANGED <<builderVars, source>>
  PROVE  BuildTypes' /\ LayInv'
<1>1. UNCHANGED <<tree, content, writes, phase, pending, todo, node, cursor, pack, taken, source>>
  BY DEF builderVars
<1>2. BuildTypes'
  BY <1>1 DEF BuildTypes, NodeTypes, Nodes
<1>3. DirentPlan' = DirentPlan
  BY <1>1 DEF DirentPlan
<1>4. \A n \in Nodes : (Scanned(n) => Scanned(n)') /\ (LaidOut(n) => LaidOut(n)')
  BY <1>1, <1>3 DEF Scanned, LaidOut, IsDir, BlocksFit
<1>5. Reached(tree) \subseteq Nodes
  BY ReachedFacts DEF Nodes, BuildTypes
<1>6. \A S : \A T : Halfway(S, T) => Halfway(S, T)'
  BY <1>1 DEF Halfway, Children
<1>7. Ahead' = Ahead /\ Elements(pending') = Elements(pending)
  BY <1>1 DEF Ahead, Elements
<1>8. ScanInv'
  BY <1>1, <1>4, <1>6, <1>7 DEF LayInv, ScanInv, Nodes, EmptyPack
<1>9. AssignInv'
  BY <1>1, <1>4, <1>5, <1>6, <1>7 DEF LayInv, AssignInv, Nodes, EmptyPack
<1>10. LayoutInv'
  BY <1>1, <1>3, <1>4, <1>5, <1>6, <1>7 DEF LayInv, LayoutInv, PackFits, BlocksFit, EmptyPack
<1>11. LaidInv' /\ TodoInv'
  BY <1>1, <1>4, <1>5 DEF LayInv, LaidInv, TodoInv, Busy
<1>12. NothingOverlaps'
  BY <1>1 DEF LayInv, NothingOverlaps, Numbered, Placed, Slots, Extent
<1> QED
  BY <1>2, <1>8, <1>9, <1>10, <1>11, <1>12 DEF LayInv

LEMMA GivenStays ==
  ASSUME NotBuilt, [Next]_vars
  PROVE  NotBuilt'
<1>1. CASE Build \/ Intrude
  BY <1>1 DEF NotBuilt, Build, BuilderStep, Intrude, RefuseNode, ScanNode, AssignNid, PlaceDirent,
              LayoutDir, LayoutPayload, OutOfBlocks, EmitNode, FileChanged, HostWrite
<1>2. CASE UNCHANGED <<builderVars, source>>
  BY <1>2 DEF NotBuilt, builderVars
<1>3. CASE Start \/ Read \/ Inspect \/ Terminated \/ UNCHANGED vars
  BY <1>2, <1>3 DEF Start, Read, Inspect, Terminated, vars
<1> QED
  BY <1>1, <1>3 DEF Next, Step

LEMMA StepLays ==
  ASSUME BuildTypes, LayInv, [Next]_vars
  PROVE  BuildTypes' /\ LayInv'
<1>1. CASE Build
  <2>1. source' = source /\ BuilderStep
    BY <1>1 DEF Build
  <2>2. CASE RefuseNode \/ OutOfBlocks \/ FileChanged
    BY <2>1, <2>2, FailLays DEF RefuseNode, OutOfBlocks, FileChanged
  <2> QED
    BY <2>1, <2>2, ScanLays, AssignLays, PlaceDirentLays, LayoutDirLays, LayoutPayloadLays, EmitLays
       DEF BuilderStep
<1>2. CASE Intrude
  BY <1>2, WriteLays DEF Intrude, Nodes
<1>3. CASE Start \/ Read \/ Inspect \/ Terminated \/ UNCHANGED vars
  BY <1>3, StutterLays DEF Start, Read, Inspect, Terminated, vars
<1> QED
  BY <1>1, <1>2, <1>3 DEF Next, Step

(* Numbering and laying out: whatever the host tree, whoever writes to its *)
(* files meanwhile, and whatever was done before, no two nodes share a     *)
(* slot or a block, the data lies past the slots, every payload fits in    *)
(* its blocks, and a finished image lies below the null address.           *)
THEOREM NothingOverlapsHolds == Spec => []NothingOverlaps
<1> DEFINE Inv == NotBuilt \/ (BuildTypes /\ LayInv)
<1>1. Init => Inv
  BY LayInit
<1>2. Inv /\ [Next]_vars => Inv'
  BY GivenStays, StepLays
<1>3. Inv => NothingOverlaps
  <2>1. ASSUME NotBuilt PROVE NothingOverlaps
    <3>1. Numbered = {} /\ Placed = {} /\ cursor.block = 0
      BY <2>1 DEF NotBuilt, Numbered, Placed
    <3>2. MaxBlock \in Nat
      BY BuilderAssumption DEF BuilderAssumption
    <3> QED
      BY <3>1, <3>2 DEF NothingOverlaps
  <2> QED
    BY <2>1 DEF LayInv
<1> QED
  BY <1>1, <1>2, <1>3, PTL DEF Spec

-----------------------------------------------------------------------------
(* Numbers: a least one, induction over an interval, and what a recursive  *)
(* function over an interval is.                                           *)

LEMMA LeastNumber ==
  ASSUME NEW T \in SUBSET Nat, T # {}
  PROVE  \E x \in T : \A y \in T : x <= y
<1> DEFINE R == OpToRel(<, Nat)
<1>1. IsWellFoundedOn(R, Nat)
  BY NatLessThanWellFounded
<1>2. ASSUME NEW x \in T, NEW y \in T, ~ (<<y, x>> \in R) PROVE x <= y
  <2>1. ~ (y < x)
    BY <1>2 DEF OpToRel
  <2>2. QED
    BY <2>1
<1> HIDE DEF R
<1>3. \E x \in T : \A y \in T : ~ (<<y, x>> \in R)
  BY <1>1, WFMin
<1>4. QED
  BY <1>2, <1>3

LEMMA Induction ==
  ASSUME NEW S, NEW n \in Nat, 0 \in S,
         \A k \in 1..n : k - 1 \in S => k \in S
  PROVE  \A k \in 0..n : k \in S
<1> DEFINE Bad == (0..n) \ S
<1>1. ASSUME Bad # {} PROVE FALSE
  <2>1. Bad \in SUBSET Nat
    OBVIOUS
  <2>2. PICK k \in Bad : \A m \in Bad : k <= m
    BY <1>1, <2>1, LeastNumber, Zenon
  <2>3. k \in 1..n /\ k - 1 \in 0..n /\ ~(k <= k - 1)
    <3>1. k \in 0..n /\ k # 0
      OBVIOUS
    <3> QED
      BY <3>1
  <2>4. k - 1 \in S
    BY <2>2, <2>3
  <2> QED
    BY <2>3, <2>4
<1> QED
  BY <1>1

(* A step that leads from V into V, and depends on how many went before,   *)
(* can be taken so many times.                                             *)
Iterate(f, V, N, a, g) ==
  f \in [0..N -> V] /\ f[0] = a /\ \A k \in 1..N : f[k] = g[<<f[k - 1], k>>]

LEMMA Iterates ==
  ASSUME NEW V, NEW N \in Nat, NEW a \in V, NEW g \in [V \X (1..N) -> V]
  PROVE  \E f : Iterate(f, V, N, a, g)
<1> DEFINE Good(n, f) == f \in [0..n -> V] /\ f[0] = a /\ \A k \in 1..n : f[k] = g[<<f[k - 1], k>>]
           S == {n \in Nat : \E f : Good(n, f)}
<1>1. 0 \in S
  <2> DEFINE h == [k \in 0..0 |-> a]
  <2>1. Good(0, h)
    OBVIOUS
  <2> QED
    BY <2>1
<1>2. ASSUME NEW n \in 1..N, n - 1 \in S
      PROVE  n \in S
  <2>1. n \in Nat /\ n # 0 /\ n - 1 \in Nat /\ n - 1 \in 0..(n - 1)
    OBVIOUS
  <2>2. PICK f : Good(n - 1, f)
    BY <1>2
  <2> DEFINE v == g[<<f[n - 1], n>>]
             h == [k \in 0..n |-> IF k = n THEN v ELSE f[k]]
  <2>3. v \in V
    BY <2>1, <2>2
  <2> HIDE DEF v
  <2>4. \A k \in 0..(n - 1) : h[k] = f[k] /\ f[k] \in V
    BY <2>1, <2>2
  <2>5. h \in [0..n -> V] /\ h[0] = a /\ h[n] = v
    BY <2>1, <2>2, <2>3
  <2>6. ASSUME NEW k \in 1..n
        PROVE  h[k] = g[<<h[k - 1], k>>]
    <3>1. k - 1 \in 0..(n - 1) /\ h[k - 1] = f[k - 1]
      BY <2>1, <2>4
    <3>2. CASE k = n
      BY <2>5, <3>1, <3>2 DEF v
    <3>3. CASE k # n
      <4>1. k \in 1..(n - 1) /\ k \in 0..(n - 1)
        BY <2>1, <3>3
      <4> QED
        BY <2>2, <2>4, <3>1, <4>1
    <3> QED
      BY <3>2, <3>3
  <2> HIDE DEF h
  <2>7. Good(n, h)
    BY <2>5, <2>6
  <2> QED
    BY <2>1, <2>7
<1> HIDE DEF S
<1>3. N \in S
  BY <1>1, <1>2, Induction
<1> QED
  BY <1>3 DEF S, Iterate

LEMMA StaysIn ==
  ASSUME NEW V, NEW N \in Nat, NEW f, f[0] \in V, \A k \in 1..N : f[k - 1] \in V => f[k] \in V
  PROVE  \A k \in 0..N : f[k] \in V
<1> DEFINE S == {k \in 0..N : f[k] \in V}
<1>1. 0 \in S /\ \A k \in 1..N : k - 1 \in S => k \in S
  <2>1. 0 \in S
    OBVIOUS
  <2>2. ASSUME NEW k \in 1..N, k - 1 \in S PROVE k \in S
    <3>1. k \in 0..N /\ f[k - 1] \in V
      BY <2>2
    <3> QED
      BY <3>1
  <2> QED
    BY <2>1, <2>2
<1>2. \A k \in 0..N : k \in S
  <2> HIDE DEF S
  <2> QED
    BY <1>1, Induction
<1> QED
  BY <1>2

(* An offset lies in one block.                                            *)
LEMMA DivMod ==
  ASSUME NEW B \in Nat, B > 0, NEW q \in Nat, NEW r \in 0..(B - 1)
  PROVE  /\ q * B \in Nat
         /\ (q * B + r) \div B = q /\ (q * B + r) % B = r
<1>1. q * B \in Nat
  OBVIOUS
<1>2. (q * B + r) \div B = q
  OBVIOUS
<1>3. (q * B + r) % B = r
  OBVIOUS
<1> QED
  BY <1>1, <1>2, <1>3

LEMMA DivIs ==
  ASSUME NEW B \in Nat, B > 0, NEW x \in Nat
  PROVE  \E q \in Nat, r \in 0..(B - 1) : x = q * B + r /\ x \div B = q /\ x % B = r
<1>1. PICK q : q = x \div B
  OBVIOUS
<1>2. q \in Nat /\ q * B <= x /\ x < q * B + B /\ q * B \in Nat
  BY <1>1
<1>3. PICK r : r = x - q * B
  OBVIOUS
<1>4. r \in 0..(B - 1) /\ x = q * B + r
  BY <1>2, <1>3
<1>5. (q * B + r) % B = r
  BY ONLY B \in Nat, B > 0, <1>2, <1>4, DivMod
<1>6. x % B = r
  BY <1>4, <1>5
<1>7. q \in Nat /\ r \in 0..(B - 1) /\ x = q * B + r /\ x \div B = q /\ x % B = r
  BY <1>1, <1>2, <1>4, <1>6
<1> QED
  BY ONLY <1>7

LEMMA Scaled ==
  ASSUME NEW B \in Nat, NEW p \in Nat, NEW q \in Nat, p <= q
  PROVE  p * B <= q * B /\ p * B \in Nat /\ q * B \in Nat
<1>1. PICK d \in Nat : q = p + d
  <2>1. q - p \in Nat /\ q = p + (q - p)
    OBVIOUS
  <2> QED
    BY <2>1
<1>2. q * B = p * B + d * B /\ d * B \in Nat /\ p * B \in Nat
  BY <1>1
<1> QED
  BY <1>2

LEMMA Spread ==
  ASSUME NEW B \in Nat, NEW p \in Nat, NEW q \in Nat
  PROVE  p * B \in Nat /\ q * B \in Nat /\ (p + q) * B = p * B + q * B
<1>1. p * B \in Nat /\ q * B \in Nat
  OBVIOUS
<1>2. (p + q) * B = p * B + q * B
  OBVIOUS
<1> QED
  BY <1>1, <1>2

-----------------------------------------------------------------------------
(* A cell that is no inode, and a number where a dirent has one.           *)

Tame(cell) ==
  /\ cell.is # "inode"
  /\ cell.is = "dirent" => cell.nid \in Nat /\ cell.off \in Nat

LEMMA DirBlockIsTame ==
  ASSUME NEW entries \in Seq(DirentPlan), Len(entries) \in 1..BlockSize
  PROVE  \A c \in 1..BlockSize : Tame(DirBlock(entries)[c])
<1> DEFINE n == Len(entries)
           end[i \in 0..n] == IF i = 0 THEN n ELSE end[i - 1] + NameLen[entries[i].name]
           named(c) == {i \in 1..n : end[i - 1] < c /\ c <= end[i]}
<1>1. DirBlock(entries) =
        [c \in 1..BlockSize |->
           IF c <= n THEN Dirent(entries[c].nid, end[c - 1], entries[c].type)
           ELSE IF named(c) = {} THEN Zero
           ELSE NameCell(entries[CHOOSE i \in named(c) : TRUE].name)]
  BY DEF DirBlock
<1>0. \A e \in DirentPlan : NameLen[e.name] \in Nat /\ e.nid \in Nat
  BY LayoutAssumption DEF LayoutAssumption, DirentPlan
<1>2. n \in Nat /\ n >= 1 /\ n <= BlockSize /\ BlockSize \in Nat
      /\ \A k \in 1..n : NameLen[entries[k].name] \in Nat /\ entries[k].nid \in Nat
  <2>1. BlockSize \in Nat
    BY LayoutAssumption DEF LayoutAssumption
  <2> QED
    BY <1>0, <2>1
<1>3. end = [i \in 0..n |-> IF i = 0 THEN n ELSE end[i - 1] + NameLen[entries[i].name]]
  <2> DEFINE g == [x \in Nat \X (1..n) |-> x[1] + NameLen[entries[x[2]].name]]
  <2>1. \A v \in Nat : \A k \in 1..n :
          g[<<v, k>>] = v + NameLen[entries[k].name] /\ g[<<v, k>>] \in Nat
    BY <1>2
  <2>2. g \in [Nat \X (1..n) -> Nat]
    BY <2>1
  <2> HIDE DEF g, n
  <2>3. PICK f : Iterate(f, Nat, n, n, g)
    BY <1>2, <2>2, Iterates
  <2>4. f = [i \in 0..n |-> IF i = 0 THEN n ELSE f[i - 1] + NameLen[entries[i].name]]
    <3>1. \A k \in 0..n : f[k] = IF k = 0 THEN n ELSE f[k - 1] + NameLen[entries[k].name]
      <4> SUFFICES ASSUME NEW k \in 0..n, k # 0 PROVE f[k] = f[k - 1] + NameLen[entries[k].name]
        BY <2>3 DEF Iterate
      <4>1. k \in 1..n /\ k - 1 \in 0..n
        BY <1>2
      <4> QED
        BY <2>1, <2>3, <4>1 DEF Iterate
    <3>2. f \in [0..n -> Nat]
      BY <2>3 DEF Iterate
    <3> QED
      BY <3>1, <3>2
  <2> QED
    BY <2>4
<1> HIDE DEF n, end, named
<1>5. \A k \in 0..n : end[k] \in Nat
  <2>1. end[0] \in Nat
    BY <1>2, <1>3
  <2>2. ASSUME NEW k \in 1..n, end[k - 1] \in Nat PROVE end[k] \in Nat
    <3>1. k \in 0..n /\ k # 0
      BY <1>2
    <3>2. end[k] = end[k - 1] + NameLen[entries[k].name]
      BY <1>3, <3>1
    <3> QED
      BY <1>2, <2>2, <3>2
  <2> QED
    BY <1>2, <2>1, <2>2, StaysIn
<1>4. ASSUME NEW c \in 1..BlockSize
      PROVE  Tame(DirBlock(entries)[c])
  <2>1. CASE c <= n
    <3>1. c \in 1..n /\ c - 1 \in 0..n
      BY <1>2, <2>1
    <3>2. end[c - 1] \in Nat /\ entries[c].nid \in Nat
      BY <1>2, <1>5, <3>1
    <3>3. DirBlock(entries)[c] = Dirent(entries[c].nid, end[c - 1], entries[c].type)
      BY <1>1, <2>1
    <3> QED
      BY <3>2, <3>3 DEF Dirent, Tame
  <2>2. CASE ~(c <= n)
    <3>1. PICK name : DirBlock(entries)[c] = Zero \/ DirBlock(entries)[c] = NameCell(name)
      BY <1>1, <2>2
    <3> QED
      BY <3>1 DEF Zero, NameCell, Tame
  <2> QED
    BY <2>1, <2>2
<1> QED
  BY <1>4

-----------------------------------------------------------------------------
(* The image while it is written, and when it is built.                    *)

Written(cells, at, piece) ==
  \A i \in 1..Len(piece) : at + i - 1 \in DOMAIN cells /\ cells[at + i - 1] = piece[i]

TheInode(n) == Inode("extended", "plain", 0, tree.type[n], node[n].size, node[n].blkaddr)

(* The cells of the payload of a node: directories fill their blocks.      *)
Room(n) == IF IsDir(n) THEN node[n].blocks * BlockSize ELSE node[n].size

Emitted(n) ==
  /\ Sequence(taken[n]) /\ Len(taken[n]) = Room(n)
  /\ Written(image, node[n].nid, TheInode(n))
  /\ Written(image, node[n].blkaddr * BlockSize, taken[n])

(* An inode is one of a reached node; the numbers of a dirent are such.    *)
CellsAreGood ==
  \A a \in DOMAIN image :
    \/ Tame(image[a])
    \/ \E m \in Reached(tree) : a = node[m].nid /\ image[a] = TheInode(m)[1]

EmitInv ==
  /\ \A n \in Nodes : content[n] # Gone => IsBytes(content[n])
  /\ phase \in {"emit", "built"} =>
       /\ DOMAIN image = 0..(cursor.block * BlockSize - 1)
       /\ image[SuperblockOffset] = Super(node[Root].nid, 0, Plain)
       /\ CellsAreGood
       /\ \E visited \in SUBSET Reached(tree) :
            /\ Halfway(visited, Ahead) /\ \A n \in visited : Emitted(n)
            /\ phase = "built" => visited = Reached(tree)

LEMMA PutWrites ==
  ASSUME NEW cells, NEW at \in Nat, NEW piece, Len(piece) \in Nat,
         at..(at + Len(piece) - 1) \subseteq DOMAIN cells
  PROVE  Written(Put(cells, at, piece), at, piece)
<1> SUFFICES ASSUME NEW i \in 1..Len(piece)
             PROVE  /\ at + i - 1 \in DOMAIN Put(cells, at, piece)
                    /\ Put(cells, at, piece)[at + i - 1] = piece[i]
  BY DEF Written
<1>1. at + i - 1 \in at..(at + Len(piece) - 1) /\ at + i - 1 - at + 1 = i
  OBVIOUS
<1>2. at + i - 1 \in DOMAIN cells
  BY <1>1
<1> QED
  BY <1>1, <1>2 DEF Put

LEMMA PutKeeps ==
  ASSUME NEW cells, NEW at \in Nat, NEW piece, Len(piece) \in Nat,
         NEW a \in Nat, NEW p, Len(p) \in Nat, Written(cells, a, p),
         a + Len(p) <= at \/ at + Len(piece) <= a
  PROVE  Written(Put(cells, at, piece), a, p)
<1> SUFFICES ASSUME NEW i \in 1..Len(p)
             PROVE  /\ a + i - 1 \in DOMAIN Put(cells, at, piece)
                    /\ Put(cells, at, piece)[a + i - 1] = p[i]
  BY DEF Written
<1>1. a + i - 1 \in DOMAIN cells /\ cells[a + i - 1] = p[i]
  BY DEF Written
<1>2. a + i - 1 \notin at..(at + Len(piece) - 1)
  OBVIOUS
<1> QED
  BY <1>1, <1>2 DEF Put

LEMMA TheInodeIs ==
  ASSUME NEW n
  PROVE  /\ Len(TheInode(n)) = 2
         /\ TheInode(n)[1] = [is |-> "inode", version |-> "extended", layout |-> "plain",
                              xattrs |-> 0, type |-> tree.type[n], size |-> node[n].size,
                              addr |-> node[n].blkaddr]
         /\ Tame(TheInode(n)[2])
<1> DEFINE first == [is |-> "inode", version |-> "extended", layout |-> "plain", xattrs |-> 0,
                     type |-> tree.type[n], size |-> node[n].size, addr |-> node[n].blkaddr]
           rest == [is |-> "rest"]
           T == {first, rest}
<1>1. TheInode(n) = <<first>> \o <<rest>>
  BY DEF TheInode, Inode
<1>2. Tame(rest)
  BY DEF Tame
<1> HIDE DEF first, rest
<1>3. <<first>> \in Seq(T) /\ <<rest>> \in Seq(T) /\ Len(<<first>>) = 1 /\ Len(<<rest>>) = 1
      /\ <<first>>[1] = first /\ <<rest>>[1] = rest
  OBVIOUS
<1>4. Len(<<first>> \o <<rest>>) = 2 /\ (<<first>> \o <<rest>>)[1] = first
      /\ (<<first>> \o <<rest>>)[2] = rest
  BY <1>3, CatIs
<1> QED
  BY <1>1, <1>2, <1>4 DEF first

LEMMA TheFieldsAre ==
  ASSUME NEW n
  PROVE  /\ TheInode(n)[1].is = "inode" /\ TheInode(n)[1].layout = "plain"
         /\ TheInode(n)[1].type = tree.type[n] /\ TheInode(n)[1].size = node[n].size
         /\ TheInode(n)[1].addr = node[n].blkaddr
<1>1. PICK cell : cell = TheInode(n)[1]
  OBVIOUS
<1>2. cell = [is |-> "inode", version |-> "extended", layout |-> "plain", xattrs |-> 0,
              type |-> tree.type[n], size |-> node[n].size, addr |-> node[n].blkaddr]
  BY <1>1, TheInodeIs
<1>3. cell.is = "inode" /\ cell.layout = "plain" /\ cell.type = tree.type[n]
      /\ cell.size = node[n].size /\ cell.addr = node[n].blkaddr
  BY <1>2
<1> QED
  BY <1>1, <1>3

(* Where the structures of a node lie, next to those of another.           *)
LEMMA Geometry ==
  ASSUME BuildTypes, LayInv, phase \in {"emit", "built"}, NEW n \in Reached(tree)
  PROVE  /\ n \in Nodes /\ node[n].nid \in Nat /\ FirstNid <= node[n].nid
         /\ node[n].nid + 2 <= cursor.nid /\ cursor.nid <= cursor.block * BlockSize
         /\ Room(n) \in Nat /\ node[n].blkaddr * BlockSize \in Nat
         /\ Room(n) > 0 => /\ cursor.nid <= node[n].blkaddr * BlockSize
                           /\ node[n].blkaddr * BlockSize + Room(n) <= cursor.block * BlockSize
         /\ \A m \in Reached(tree) \ {n} :
              \/ node[n].nid + 2 <= node[m].nid
              \/ node[m].nid + 2 <= node[n].nid
         /\ \A m \in Reached(tree) \ {n} : Room(n) > 0 /\ Room(m) > 0 =>
              \/ node[n].blkaddr * BlockSize + Room(n) <= node[m].blkaddr * BlockSize
              \/ node[m].blkaddr * BlockSize + Room(m) <= node[n].blkaddr * BlockSize
<1>1. BlockSize \in Nat /\ BlockSize > 0
  BY LayoutAssumption DEF LayoutAssumption
<1>2. /\ LaidInv /\ NothingOverlaps /\ NodeTypes /\ DOMAIN node = Nodes
      /\ cursor.nid \in Nat /\ cursor.block \in Nat
      /\ Reached(tree) \subseteq Nodes
  BY ReachedFacts DEF LayInv, BuildTypes, Nodes
<1>3. ASSUME NEW m \in Reached(tree)
      PROVE  /\ m \in Nodes /\ node[m].nid \in Nat /\ node[m].nid # 0 /\ LaidOut(m)
             /\ node[m].blkaddr \in Nat /\ node[m].blocks \in Nat /\ node[m].size \in Nat
  BY <1>2 DEF LaidInv, NodeTypes
<1>4. ASSUME NEW m \in Reached(tree)
      PROVE  /\ FirstNid <= node[m].nid /\ node[m].nid + 2 <= cursor.nid
             /\ \A k \in Reached(tree) \ {m} : Slots(m) \cap Slots(k) = {}
             /\ Slots(m) = node[m].nid..(node[m].nid + 1)
  <2>1. m \in Numbered /\ \A k \in Reached(tree) : k \in Numbered
    BY <1>2, <1>3 DEF Numbered
  <2>2. Slots(m) = node[m].nid..(node[m].nid + 1)
    BY <1>3 DEF Slots, ExtendedInode
  <2> QED
    BY <1>2, <2>1, <2>2 DEF NothingOverlaps, ExtendedInode
<1>5. ASSUME NEW m \in Reached(tree)
      PROVE  /\ Room(m) \in Nat /\ Room(m) <= node[m].blocks * BlockSize
             /\ node[m].blocks * BlockSize \in Nat
             /\ Room(m) > 0 => m \in Placed
  <2>1. node[m].blocks * BlockSize \in Nat
    BY <1>1, <1>3
  <2>2. CASE IsDir(m)
    <3>1. Room(m) = node[m].blocks * BlockSize /\ node[m].blocks > 0
      BY <1>3, <2>2 DEF Room, LaidOut
    <3> QED
      BY <1>2, <1>3, <2>1, <3>1 DEF Placed
  <2>3. CASE ~IsDir(m)
    <3>1. Room(m) = node[m].size /\ node[m].blocks = DivCeil(node[m].size)
      BY <1>3, <2>3 DEF Room, LaidOut
    <3>2. node[m].size <= node[m].blocks * BlockSize
          /\ (node[m].size > 0 => node[m].blocks > 0)
      BY <1>3, <3>1, DivCeilHolds
    <3> QED
      BY <1>2, <1>3, <2>1, <3>1, <3>2 DEF Placed
  <2> QED
    BY <2>2, <2>3
<1>6. ASSUME NEW m \in Placed, m \in Reached(tree)
      PROVE  /\ cursor.nid <= node[m].blkaddr * BlockSize
             /\ node[m].blkaddr + node[m].blocks <= cursor.block /\ node[m].blocks > 0
             /\ Extent(m) = node[m].blkaddr..(node[m].blkaddr + node[m].blocks - 1)
             /\ \A k \in Placed \ {m} : Extent(m) \cap Extent(k) = {}
  BY <1>2, <1>3 DEF NothingOverlaps, Extent, Placed
<1>7. ASSUME NEW m \in Reached(tree), NEW b \in Nat, node[m].blkaddr + node[m].blocks <= b
      PROVE  node[m].blkaddr * BlockSize + Room(m) <= b * BlockSize
  <2>1. PICK a, c, r : a = node[m].blkaddr /\ c = node[m].blocks /\ r = Room(m)
    OBVIOUS
  <2>2. a \in Nat /\ c \in Nat /\ r \in Nat /\ r <= c * BlockSize /\ a + c <= b
    BY <1>3, <1>5, <1>7, <2>1
  <2>3. (a + c) * BlockSize <= b * BlockSize /\ b * BlockSize \in Nat
    BY <1>1, <2>2, Scaled
  <2>4. (a + c) * BlockSize = a * BlockSize + c * BlockSize
        /\ a * BlockSize \in Nat /\ c * BlockSize \in Nat
    BY <1>1, <2>2
  <2>5. a * BlockSize + r <= b * BlockSize
    BY <2>2, <2>3, <2>4
  <2> QED
    BY <2>1, <2>5
<1>8. node[n].blkaddr * BlockSize \in Nat
  BY <1>1, <1>3
<1>9. Room(n) > 0 => /\ cursor.nid <= node[n].blkaddr * BlockSize
                     /\ node[n].blkaddr * BlockSize + Room(n) <= cursor.block * BlockSize
  BY <1>2, <1>5, <1>6, <1>7
<1>10. ASSUME NEW m \in Reached(tree) \ {n}
       PROVE  \/ node[n].nid + 2 <= node[m].nid
              \/ node[m].nid + 2 <= node[n].nid
  <2>1. Slots(n) \cap Slots(m) = {}
        /\ Slots(n) = node[n].nid..(node[n].nid + 1) /\ Slots(m) = node[m].nid..(node[m].nid + 1)
    BY <1>4
  <2>2. PICK a, b : a = node[n].nid /\ b = node[m].nid
    OBVIOUS
  <2>3. a \in Nat /\ b \in Nat /\ (a..(a + 1)) \cap (b..(b + 1)) = {}
    BY <1>3, <2>1, <2>2
  <2>4. a \notin b..(b + 1) /\ b \notin a..(a + 1)
    BY <2>3
  <2> QED
    BY <2>2, <2>3, <2>4
<1>11. ASSUME NEW m \in Reached(tree) \ {n}, Room(n) > 0, Room(m) > 0
       PROVE  \/ node[n].blkaddr * BlockSize + Room(n) <= node[m].blkaddr * BlockSize
              \/ node[m].blkaddr * BlockSize + Room(m) <= node[n].blkaddr * BlockSize
  <2>1. n \in Placed /\ m \in Placed
    BY <1>5, <1>11
  <2>2. PICK a, b, c, d : /\ a = node[n].blkaddr /\ b = node[n].blocks
                          /\ c = node[m].blkaddr /\ d = node[m].blocks
    OBVIOUS
  <2>3. (a..(a + b - 1)) \cap (c..(c + d - 1)) = {} /\ b > 0 /\ d > 0
    BY <1>6, <2>1, <2>2
  <2>4. a \in Nat /\ b \in Nat /\ c \in Nat /\ d \in Nat
    BY <1>3, <2>2
  <2>5. a + b <= c \/ c + d <= a
    <3>1. a \notin c..(c + d - 1) /\ c \notin a..(a + b - 1)
      BY <2>3, <2>4
    <3> QED
      BY <2>3, <2>4, <3>1
  <2> QED
    BY <1>3, <1>7, <2>2, <2>4, <2>5
<1> QED
  BY <1>2, <1>3, <1>4, <1>5, <1>8, <1>9, <1>10, <1>11 DEF LaidInv

(* Before anything is emitted, the image has a superblock and is blank.    *)
LEMMA LayoutEmits ==
  ASSUME BuildTypes, LayInv, EmitInv, source' = source, LayoutDir \/ LayoutPayload
  PROVE  EmitInv'
<1>1. BuildTypes' /\ LayInv' /\ tree' = tree /\ tree \in Hosts
  BY LayoutDirLays, LayoutPayloadLays DEF LayoutDir, LayoutPayload, BuildTypes
<1>0. (\A n \in Nodes : content[n] # Gone => IsBytes(content[n]))'
  <2>1. content' = content /\ Nodes' = Nodes
    BY <1>1 DEF LayoutDir, LayoutPayload, Nodes
  <2> QED
    BY <2>1 DEF EmitInv, IsBytes
<1>2. PICK block : Proceed(block) /\ phase = "layout" /\ node'[Root].nid = node[Root].nid
  <2>1. Root \in Nodes /\ DOMAIN node = Nodes /\ NodeTypes
    BY <1>1, HostFacts DEF HostTree, BuildTypes, Nodes
  <2>2. PICK n : n = Current
    OBVIOUS
  <2>3. node' = node \/ \E size, blocks, data : Place(n, size, blocks, data)
    <3>1. CASE LayoutDir
      BY <2>2, <3>1 DEF LayoutDir
    <3>2. CASE LayoutPayload
      BY <2>2, <3>2 DEF LayoutPayload
    <3> QED
      BY <3>1, <3>2
  <2>4. node'[Root].nid = node[Root].nid
    <3>1. n \in Nodes
      BY <1>1, <2>2, RestIs DEF LayInv, TodoInv, Busy, LayoutDir, LayoutPayload
    <3>2. ASSUME NEW size, NEW blocks, NEW data, Place(n, size, blocks, data)
          PROVE  node'[Root].nid = node[Root].nid
      BY <2>1, <3>1, <3>2 DEF Place, NodeTypes
    <3> QED
      BY <2>3, <3>2
  <2> QED
    BY <2>4 DEF LayoutDir, LayoutPayload
<1>3. CASE phase' = "emit"
  <2>1. /\ todo' = <<Root>> /\ cursor'.block = block
        /\ image' = Put(Blank(block), SuperblockOffset, <<Super(node[Root].nid, 0, Plain)>>)
    BY <1>2, <1>3 DEF Proceed, BuildTypes
  <2>2. DOMAIN image' = 0..(block * BlockSize - 1)
    BY <2>1 DEF Put, Blank
  <2>3. SuperblockOffset \in DOMAIN image'
    <3>1. /\ cursor'.nid <= block * BlockSize /\ FirstNid <= cursor'.nid
          /\ cursor'.nid \in Nat /\ block \in Nat
      BY <1>1, <1>3, <2>1 DEF BuildTypes, LayInv, LaidInv
    <3>2. SuperblockOffset \in Nat /\ SuperblockSize \in Nat /\ SuperblockSize > 0
          /\ BlockSize \in Nat
      BY LayoutAssumption DEF LayoutAssumption
    <3>3. block * BlockSize \in Nat
      BY <3>1, <3>2
    <3>4. FirstNid = SuperblockOffset + SuperblockSize
      BY DEF FirstNid
    <3> QED
      BY <2>2, <3>1, <3>2, <3>3, <3>4
  <2>4. image'[SuperblockOffset] = Super(node[Root].nid, 0, Plain)
    <3>1. PICK s : s = Super(node[Root].nid, 0, Plain)
      OBVIOUS
    <3>2. SuperblockOffset \in SuperblockOffset..(SuperblockOffset + Len(<<s>>) - 1)
          /\ <<s>>[SuperblockOffset - SuperblockOffset + 1] = s
      BY LayoutAssumption DEF LayoutAssumption
    <3>3. SuperblockOffset \in DOMAIN Blank(block)
      BY <2>1, <2>3 DEF Put
    <3>4. image' = Put(Blank(block), SuperblockOffset, <<s>>)
      BY <2>1, <3>1
    <3> QED
      BY <3>1, <3>2, <3>3, <3>4 DEF Put
  <2>5. image'[SuperblockOffset] = Super(node[Root].nid, 0, Plain)'
    BY <1>2, <2>4 DEF Super, Plain
  <2>6. Halfway({}, Ahead)'
    BY <1>1, <2>1, PassBegins
  <2>7. CellsAreGood'
    <3>1. PICK s : s = Super(node[Root].nid, 0, Plain)
      OBVIOUS
    <3>2. ASSUME NEW a \in DOMAIN image'
          PROVE  image'[a] = s \/ image'[a] = Zero
      <4>1. image' = Put(Blank(block), SuperblockOffset, <<s>>) /\ Len(<<s>>) = 1 /\ <<s>>[1] = s
        BY <2>1, <3>1
      <4>2. SuperblockOffset \in Nat /\ a \in DOMAIN Blank(block)
        BY <4>1, LayoutAssumption DEF LayoutAssumption, Put
      <4>3. image'[a] = IF a \in SuperblockOffset..SuperblockOffset
                        THEN <<s>>[a - SuperblockOffset + 1] ELSE Blank(block)[a]
        <5>1. SuperblockOffset + Len(<<s>>) - 1 = SuperblockOffset
          BY <4>1, <4>2
        <5> QED
          BY <4>1, <4>2, <5>1 DEF Put
      <4>4. Blank(block)[a] = Zero
        BY <4>2 DEF Blank
      <4>5. a \in SuperblockOffset..SuperblockOffset => a - SuperblockOffset + 1 = 1
        BY <4>2
      <4> QED
        BY <4>1, <4>3, <4>4, <4>5
    <3>3. Tame(s) /\ Tame(Zero)
      BY <3>1 DEF Super, Zero, Tame
    <3>4. \A a \in DOMAIN image' : Tame(image'[a])
      BY <3>2, <3>3
    <3> QED
      BY <3>4 DEF CellsAreGood, Tame
  <2> QED
    BY <1>0, <1>1, <1>3, <2>1, <2>2, <2>5, <2>6, <2>7 DEF EmitInv
<1>4. CASE phase' # "emit"
  BY <1>0, <1>2, <1>4 DEF Proceed, EmitInv
<1> QED
  BY <1>3, <1>4

(* The payload of a node fills its room.                                   *)
LEMMA PayloadIs ==
  ASSUME BuildTypes, LayInv, phase = "emit", NEW n \in Reached(tree),
         ~(Rereads(n) /\ Changed(n))
  PROVE  /\ Sequence(Payload(n)) /\ Len(Payload(n)) = Room(n)
         /\ IsDir(n) => Payload(n) = DirCells(node[n].data)
<1>1. n \in Nodes /\ LaidOut(n) /\ Scanned(n) /\ Room(n) \in Nat
  BY Geometry DEF LayInv, LaidInv
<1>2. node[n].size \in Nat /\ node[n].blocks \in Nat /\ BlockSize \in Nat
  BY <1>1, LayoutAssumption DEF BuildTypes, NodeTypes, LayoutAssumption
<1>3. CASE IsDir(n)
  <2>1. Payload(n) = DirCells(node[n].data) /\ Len(node[n].data) = node[n].blocks
        /\ Room(n) = node[n].blocks * BlockSize
    BY <1>1, <1>3 DEF Payload, LaidOut, Room
  <2>2. PICK len : len = Len(node[n].data) * BlockSize
    OBVIOUS
  <2>3. len \in Nat /\ len = Room(n)
    BY <1>1, <2>1, <2>2
  <2>4. PICK s : s = DirCells(node[n].data)
    OBVIOUS
  <2>5. DOMAIN s = 1..len /\ s = [i \in 1..len |-> s[i]]
    BY <2>2, <2>4 DEF DirCells
  <2>6. s \in Seq({s[i] : i \in DOMAIN s}) /\ Len(s) = len
    <3>1. s \in [1..len -> {s[i] : i \in DOMAIN s}]
      BY <2>5
    <3> QED
      BY <2>3, <3>1
  <2> QED
    BY <2>1, <2>3, <2>4, <2>6 DEF Sequence
<1>4. CASE ~IsDir(n) /\ node[n].size > 0
  <2>1. Payload(n) = content[n] /\ Room(n) = node[n].size
    BY <1>4 DEF Payload, Room
  <2>2. Sequence(content[n]) /\ Len(content[n]) = node[n].size
    <3>1. CASE tree.type[n] = "file"
      BY <1>1, <1>4, <3>1 DEF Rereads, Changed, BuildTypes
    <3>2. CASE tree.type[n] # "file"
      <4>1. HostTree(tree, Nodes)
        BY HostFacts DEF BuildTypes, Nodes
      <4>2. tree.type[n] = "symlink" /\ content[n] = tree.content[n]
        BY <1>1, <1>4, <3>2, <4>1 DEF HostTree, HostType, Scanned, IsDir, BuildTypes
      <4> QED
        BY <1>1, <4>1, <4>2 DEF HostTree, Scanned
    <3> QED
      BY <3>1, <3>2
  <2> QED
    BY <1>4, <2>1, <2>2
<1>5. CASE ~IsDir(n) /\ ~(node[n].size > 0)
  <2>1. Payload(n) = <<>> /\ Room(n) = 0
    BY <1>2, <1>5 DEF Payload, Room
  <2>2. Sequence(<<>>)
    BY DEF Sequence
  <2> QED
    BY <1>5, <2>1, <2>2
<1> QED
  BY <1>3, <1>4, <1>5

(* There is no inode in it, and its dirents hold numbers.                  *)
LEMMA PayloadIsTame ==
  ASSUME BuildTypes, LayInv, EmitInv, phase = "emit", NEW n \in Reached(tree),
         ~(Rereads(n) /\ Changed(n))
  PROVE  \A i \in 1..Len(Payload(n)) : Tame(Payload(n)[i])
<1>1. n \in Nodes /\ LaidOut(n) /\ Scanned(n) /\ BlockSize \in Nat /\ BlockSize > 0
  BY Geometry, LayoutAssumption DEF LayInv, LaidInv, LayoutAssumption
<1>2. CASE IsDir(n)
  <2>1. PICK blocks : blocks = node[n].data
    OBVIOUS
  <2>2. Payload(n) = DirCells(blocks) /\ BlocksFit(blocks)
    BY <1>1, <1>2, <2>1 DEF Payload, LaidOut
  <2>3. Len(blocks) \in Nat /\ \A b \in 1..Len(blocks) :
          blocks[b] \in Seq(DirentPlan) /\ Len(blocks[b]) \in 1..BlockSize
    BY <2>2 DEF BlocksFit
  <2>4. PICK len : len = Len(blocks) * BlockSize
    OBVIOUS
  <2>5. len \in Nat /\ Len(Payload(n)) = len
    BY <1>1, <2>1, <2>2, <2>3, <2>4, PayloadIs DEF DirCells
  <2>6. ASSUME NEW i \in 1..len
        PROVE  Tame(Payload(n)[i])
    <3>1. PICK q \in Nat, r \in 0..(BlockSize - 1) :
            i - 1 = q * BlockSize + r /\ (i - 1) \div BlockSize = q /\ (i - 1) % BlockSize = r
      <4>1. i - 1 \in Nat
        BY <2>5
      <4> QED
        BY <1>1, <4>1, DivIs
    <3>2. q + 1 \in 1..Len(blocks)
      <4>1. ~(Len(blocks) <= q)
        <5>1. ASSUME Len(blocks) <= q PROVE FALSE
          <6>1. Len(blocks) * BlockSize <= q * BlockSize /\ q * BlockSize \in Nat
            BY <1>1, <2>3, <3>1, <5>1, Scaled
          <6> QED
            BY <2>4, <2>5, <3>1, <6>1
        <5> QED
          BY <5>1
      <4> QED
        BY <2>3, <4>1
    <3>3. Payload(n)[i] = DirBlock(blocks[q + 1])[r + 1]
      BY <2>2, <2>4, <3>1 DEF DirCells
    <3>4. r + 1 \in 1..BlockSize
      BY <1>1
    <3> QED
      BY <2>3, <3>2, <3>3, <3>4, DirBlockIsTame
  <2> QED
    BY <2>5, <2>6
<1>3. CASE ~IsDir(n) /\ node[n].size > 0
  <2>1. Payload(n) = content[n]
    BY <1>3 DEF Payload
  <2>2. Sequence(content[n]) /\ IsBytes(content[n])
    <3>1. CASE content[n] # Gone
      BY <1>1, <3>1 DEF BuildTypes, EmitInv
    <3>2. CASE content[n] = Gone
      <4>1. HostTree(tree, Nodes)
        BY HostFacts DEF BuildTypes, Nodes
      <4>2. tree.type[n] # "file"
        BY <1>3, <3>2 DEF Rereads, Changed
      <4> QED
        BY <1>1, <4>1, <4>2 DEF BuildTypes, HostTree
    <3> QED
      BY <3>1, <3>2
  <2>3. \A i \in 1..Len(content[n]) : content[n][i].is = "byte"
    BY <2>2 DEF Sequence, IsBytes
  <2> QED
    BY <2>1, <2>3 DEF Tame
<1>4. CASE ~IsDir(n) /\ ~(node[n].size > 0)
  BY <1>4 DEF Payload
<1> QED
  BY <1>2, <1>3, <1>4

(* A node is emitted: nothing that was emitted before it is lost.          *)
LEMMA EmitEmits ==
  ASSUME BuildTypes, LayInv, EmitInv, source' = source, EmitNode
  PROVE  EmitInv'
<1>a. PICK n, inode, payload, numbered, at, data :
        /\ n = Current /\ inode = TheInode(n) /\ payload = Payload(n)
        /\ at = node[n].nid /\ data = node[n].blkaddr * BlockSize
        /\ numbered = Put(image, at, inode)
  OBVIOUS
<1>b. PICK R : R = Reached(tree)
  OBVIOUS
<1>1. /\ phase = "emit" /\ tree \in Hosts /\ EmitInv
      /\ todo \in Seq(R) /\ todo # <<>>
      /\ todo' = Rest
      /\ UNCHANGED <<tree, content, writes, pending, node, cursor, pack>>
      /\ phase' = IF Rest = <<>> THEN "built" ELSE "emit"
      /\ ~(Rereads(n) /\ Changed(n))
      /\ taken' = [taken EXCEPT ![n] = payload] /\ DOMAIN taken = Nodes
  BY <1>a, <1>b DEF EmitNode, BuildTypes, LayInv, TodoInv, Busy
<1>2. image' = IF payload = <<>> THEN numbered ELSE Put(numbered, data, payload)
  BY <1>a DEF EmitNode, TheInode
<1>3. n \in R /\ Rest \in Seq(R)
  BY <1>1, <1>a, <1>b, RestIs
<1>4. /\ Sequence(payload) /\ Len(payload) = Room(n)
      /\ IsDir(n) => payload = DirCells(node[n].data)
  BY <1>1, <1>3, <1>a, <1>b, PayloadIs
<1>5. Len(inode) = 2
  BY <1>a, TheInodeIs
<1>6. \A m \in R : Len(TheInode(m)) = 2
  BY TheInodeIs
<1>7. /\ n \in Nodes /\ at \in Nat /\ FirstNid <= at /\ data \in Nat
      /\ at + 2 <= cursor.nid /\ cursor.nid <= cursor.block * BlockSize
      /\ Room(n) \in Nat
      /\ Room(n) > 0 => cursor.nid <= data /\ data + Room(n) <= cursor.block * BlockSize
  BY <1>1, <1>3, <1>a, <1>b, Geometry
<1>8. cursor.nid \in Nat /\ cursor.block * BlockSize \in Nat
  BY LayoutAssumption DEF BuildTypes, LayoutAssumption
<1>9. DOMAIN image = 0..(cursor.block * BlockSize - 1)
      /\ DOMAIN numbered = DOMAIN image /\ DOMAIN image' = DOMAIN image
  BY <1>1, <1>2, <1>a DEF EmitInv, Put
<1>10. Written(numbered, at, inode)
  <2>1. at..(at + Len(inode) - 1) \subseteq DOMAIN image
    BY <1>5, <1>7, <1>8, <1>9
  <2>2. Len(inode) \in Nat
    BY <1>5
  <2>3. Written(Put(image, at, inode), at, inode)
    BY <1>7, <2>1, <2>2, PutWrites
  <2> QED
    BY <1>a, <2>3
<1>11. ASSUME NEW p, NEW a \in Nat, Len(p) \in Nat, Written(image, a, p),
              a + Len(p) <= at \/ at + 2 <= a,
              Room(n) > 0 => a + Len(p) <= data \/ data + Room(n) <= a
       PROVE  Written(image', a, p)
  <2>1. Written(numbered, a, p)
    <3>1. Len(inode) \in Nat /\ (a + Len(p) <= at \/ at + Len(inode) <= a)
      BY <1>5, <1>11
    <3>2. Written(Put(image, at, inode), a, p)
      BY <1>7, <1>11, <3>1, PutKeeps
    <3> QED
      BY <1>a, <3>2
  <2>2. CASE payload = <<>>
    BY <1>2, <2>1, <2>2
  <2>3. CASE payload # <<>>
    <3>1. Room(n) > 0
      BY <1>4, <1>7, <2>3 DEF Sequence
    <3> QED
      BY <1>2, <1>4, <1>7, <1>11, <2>1, <2>3, <3>1, PutKeeps
  <2> QED
    BY <2>2, <2>3
<1>12. Written(image', at, inode)
  <2>1. CASE payload = <<>>
    BY <1>2, <1>10, <2>1
  <2>2. CASE payload # <<>>
    <3>1. Room(n) > 0
      BY <1>4, <1>7, <2>2 DEF Sequence
    <3>2. at + Len(inode) <= data
      BY <1>5, <1>7, <1>8, <3>1
    <3>3. Written(Put(numbered, data, payload), at, inode)
      <4>1. Len(inode) \in Nat /\ Len(payload) \in Nat
        BY <1>4, <1>5, <1>7
      <4> QED
        BY <1>7, <1>10, <3>2, <4>1, PutKeeps
    <3> QED
      BY <1>2, <2>2, <3>3
  <2> QED
    BY <2>1, <2>2
<1>13. Written(image', data, payload)
  <2>1. CASE payload = <<>>
    BY <2>1 DEF Written
  <2>2. CASE payload # <<>>
    <3>1. Room(n) > 0
      BY <1>4, <1>7, <2>2 DEF Sequence
    <3>2. data..(data + Len(payload) - 1) \subseteq DOMAIN numbered
      BY <1>4, <1>7, <1>8, <1>9, <3>1
    <3> QED
      BY <1>2, <1>4, <1>7, <2>2, <3>2, PutWrites
  <2> QED
    BY <2>1, <2>2
<1>14. UNCHANGED <<tree, node>>
  BY <1>1
<1>15. \A m \in R : Room(m)' = Room(m) /\ TheInode(m)' = TheInode(m) /\ IsDir(m)' = IsDir(m)
  BY <1>14 DEF Room, TheInode, IsDir
<1>16. Emitted(n)'
  <2>1. taken'[n] = payload
    BY <1>1, <1>7
  <2>2. node'[n].data = node[n].data /\ node'[n].nid = at /\ node'[n].blkaddr * BlockSize = data
    BY <1>14, <1>a
  <2>3. TheInode(n)' = inode
    BY <1>3, <1>15, <1>a
  <2> QED
    BY <1>3, <1>4, <1>12, <1>13, <1>15, <2>1, <2>2, <2>3 DEF Emitted
<1>17. ASSUME NEW m \in R, m # n, Emitted(m)
       PROVE  Emitted(m)'
  <2>1. /\ node[m].nid \in Nat /\ node[m].blkaddr * BlockSize \in Nat /\ Room(m) \in Nat
        /\ node[m].nid + 2 <= cursor.nid
        /\ Room(m) > 0 => cursor.nid <= node[m].blkaddr * BlockSize
    BY <1>1, <1>b, Geometry
  <2>2. at + 2 <= node[m].nid \/ node[m].nid + 2 <= at
    BY <1>1, <1>3, <1>17, <1>a, <1>b, Geometry
  <2>3. Room(n) > 0 /\ Room(m) > 0 =>
          \/ data + Room(n) <= node[m].blkaddr * BlockSize
          \/ node[m].blkaddr * BlockSize + Room(m) <= data
    BY <1>1, <1>3, <1>17, <1>a, <1>b, Geometry
  <2>4. Written(image', node[m].nid, TheInode(m))
    <3>1. Len(TheInode(m)) = 2 /\ Written(image, node[m].nid, TheInode(m))
      BY <1>6, <1>17 DEF Emitted
    <3>2. Room(n) > 0 => node[m].nid + 2 <= data
      BY <1>7, <1>8, <2>1
    <3>3. node[m].nid + Len(TheInode(m)) <= at \/ at + 2 <= node[m].nid
      BY <2>2, <3>1
    <3>4. Room(n) > 0 => node[m].nid + Len(TheInode(m)) <= data
      BY <3>1, <3>2
    <3>5. Len(TheInode(m)) \in Nat
      BY <3>1
    <3> QED
      BY <1>11, <2>1, <3>1, <3>3, <3>4, <3>5
  <2>5. Written(image', node[m].blkaddr * BlockSize, taken[m])
    <3>1. CASE Room(m) = 0
      BY <1>17, <3>1 DEF Emitted, Written
    <3>2. CASE Room(m) > 0
      <4>1. at + 2 <= node[m].blkaddr * BlockSize
        BY <1>7, <1>8, <2>1, <3>2
      <4>2. Len(taken[m]) = Room(m) /\ Written(image, node[m].blkaddr * BlockSize, taken[m])
        BY <1>17 DEF Emitted
      <4> QED
        BY <1>11, <2>1, <2>3, <3>2, <4>1, <4>2
    <3> QED
      BY <2>1, <3>1, <3>2
  <2>6. taken'[m] = taken[m] /\ node'[m] = node[m]
    <3>1. m \in Nodes
      BY <1>1, <1>b, ReachedFacts DEF Nodes
    <3> QED
      BY <1>1, <1>17, <3>1
  <2> QED
    BY <1>15, <1>17, <2>4, <2>5, <2>6 DEF Emitted
<1>18. PICK visited \in SUBSET R : Halfway(visited, Ahead) /\ \A m \in visited : Emitted(m)
  BY <1>1, <1>b DEF EmitInv
<1> DEFINE V == visited \cup {n}
<1>19. V \in SUBSET R /\ Halfway(V, Elements(Rest)) /\ (Rest = <<>> => V = R)
  BY <1>1, <1>18, <1>a, <1>b, HalfwayStep
<1>20. \A m \in V : Emitted(m)'
  BY <1>16, <1>17, <1>18
<1>21. Halfway(V, Ahead)'
  BY <1>1, <1>19 DEF Halfway, Ahead, Elements, Children
<1>22. image'[SuperblockOffset] = Super(node[Root].nid, 0, Plain)'
  <2>1. PICK s : s = Super(node[Root].nid, 0, Plain)
    OBVIOUS
  <2>2. SuperblockOffset \in Nat /\ SuperblockOffset + 1 <= FirstNid /\ FirstNid \in Nat
    BY LayoutAssumption DEF LayoutAssumption, FirstNid
  <2>3. Len(<<s>>) = 1 /\ <<s>>[1] = s /\ image[SuperblockOffset] = s
    BY <1>1, <2>1 DEF EmitInv
  <2>4. Written(image, SuperblockOffset, <<s>>)
    <3>1. SuperblockOffset \in DOMAIN image
      BY <1>7, <1>8, <1>9, <2>2
    <3>2. \A i \in 1..1 : SuperblockOffset + i - 1 = SuperblockOffset /\ i = 1
      BY <2>2
    <3> QED
      BY <2>3, <3>1, <3>2 DEF Written
  <2>5. Written(image', SuperblockOffset, <<s>>)
    <3>1. SuperblockOffset + Len(<<s>>) <= at
      BY <1>7, <2>2, <2>3
    <3>2. Room(n) > 0 => SuperblockOffset + Len(<<s>>) <= data
      BY <1>7, <1>8, <2>2, <2>3
    <3> QED
      BY <1>11, <2>2, <2>3, <2>4, <3>1, <3>2
  <2>6. image'[SuperblockOffset] = s
    <3>1. SuperblockOffset + 1 - 1 = SuperblockOffset /\ 1 \in 1..Len(<<s>>)
      BY <2>2, <2>3
    <3> QED
      BY <2>3, <2>5, <3>1 DEF Written
  <2> QED
    BY <1>14, <2>1, <2>6 DEF Super, Plain
<1>23. Reached(tree)' = R /\ cursor' = cursor
  BY <1>1, <1>b
<1>24. phase' = "built" => V = R
  BY <1>1, <1>19
<1>25. (\A m \in Nodes : content[m] # Gone => IsBytes(content[m]))'
  BY <1>1 DEF EmitInv, IsBytes, Nodes
<1>26. CellsAreGood'
  <2>1. \A i \in 1..Len(payload) : Tame(payload[i])
    BY <1>1, <1>3, <1>a, <1>b, PayloadIsTame
  <2>2. ASSUME NEW a \in DOMAIN image
        PROVE  \/ Tame(numbered[a]) \/ numbered[a] = image[a]
               \/ a = at /\ numbered[a] = inode[1]
    <3>1. numbered[a] = IF a \in at..(at + 2 - 1) THEN inode[a - at + 1] ELSE image[a]
      BY <1>5, <1>a DEF Put
    <3>2. CASE a \in at..(at + 1)
      <4>1. a = at \/ a = at + 1
        BY <1>7, <3>2
      <4>2. (a = at => a - at + 1 = 1) /\ (a = at + 1 => a - at + 1 = 2) /\ at + 2 - 1 = at + 1
        BY <1>7
      <4>3. Tame(inode[2])
        BY <1>a, TheInodeIs
      <4> QED
        BY <3>1, <3>2, <4>1, <4>2, <4>3
    <3>3. CASE a \notin at..(at + 1)
      BY <1>7, <3>1, <3>3
    <3> QED
      BY <3>2, <3>3
  <2>3. ASSUME NEW a \in DOMAIN image
        PROVE  Tame(image'[a]) \/ image'[a] = numbered[a]
    <3>1. CASE payload = <<>>
      BY <1>2, <3>1
    <3>2. CASE payload # <<>>
      <4>1. image'[a] = IF a \in data..(data + Len(payload) - 1)
                        THEN payload[a - data + 1] ELSE numbered[a]
        BY <1>2, <1>9, <3>2 DEF Put
      <4>2. a \in data..(data + Len(payload) - 1) => a - data + 1 \in 1..Len(payload)
        BY <1>4, <1>7
      <4> QED
        BY <2>1, <4>1, <4>2
    <3> QED
      BY <3>1, <3>2
  <2>4. ASSUME NEW a \in DOMAIN image
        PROVE  \/ Tame(image'[a])
               \/ \E m \in R : a = node[m].nid /\ image'[a] = TheInode(m)[1]
    BY <1>1, <1>3, <1>a, <1>b, <2>2, <2>3 DEF EmitInv, CellsAreGood
  <2>5. \A m \in R : node'[m].nid = node[m].nid /\ TheInode(m)' = TheInode(m)
    BY <1>14, <1>15
  <2> QED
    BY <1>9, <1>23, <2>4, <2>5 DEF CellsAreGood, Tame
<1> QED
  BY <1>9, <1>19, <1>20, <1>21, <1>22, <1>23, <1>24, <1>25, <1>26 DEF EmitInv

(* Nothing else touches the image.                                         *)
LEMMA ImageStays ==
  ASSUME EmitInv, UNCHANGED <<tree, phase, todo, node, cursor, taken, image>>,
         (\A n \in Nodes : content[n] # Gone => IsBytes(content[n]))'
  PROVE  EmitInv'
<1>1. Reached(tree)' = Reached(tree) /\ Ahead' = Ahead
  BY DEF Ahead, Elements
<1>2. \A n : TheInode(n)' = TheInode(n)
  BY DEF TheInode
<1>3. CellsAreGood => CellsAreGood'
  BY <1>1, <1>2 DEF CellsAreGood
<1>4. \A n : Emitted(n) => Emitted(n)'
  BY <1>2 DEF Emitted, Room, IsDir
<1>5. \A S, T : Halfway(S, T) => Halfway(S, T)'
  BY DEF Halfway, Children
<1>6. Super(node[Root].nid, 0, Plain)' = Super(node[Root].nid, 0, Plain)
  BY DEF Super, Plain
<1> QED
  BY <1>1, <1>3, <1>4, <1>5, <1>6 DEF EmitInv

LEMMA WriteEmits ==
  ASSUME BuildTypes, EmitInv, NEW f \in Nodes, HostWrite(f)
  PROVE  EmitInv'
<1>1. UNCHANGED <<tree, phase, todo, node, cursor, taken, image>> /\ DOMAIN content = Nodes
  BY DEF HostWrite, BuildTypes
<1>2. content'[f] # Gone => IsBytes(content'[f])
  <2>1. \/ \E size \in RewriteSizes : content'[f] = [i \in 1..size |-> Byte(<<f, writes + 1, i>>)]
        \/ content'[f] = Gone
    BY <1>1 DEF HostWrite
  <2>2. ASSUME NEW size, content'[f] = [i \in 1..size |-> Byte(<<f, writes + 1, i>>)]
        PROVE  IsBytes(content'[f])
    BY <2>2 DEF IsBytes, Byte
  <2> QED
    BY <2>1, <2>2
<1>3. \A n \in Nodes : n # f => content'[n] = content[n]
  BY <1>1 DEF HostWrite
<1>4. (\A n \in Nodes : content[n] # Gone => IsBytes(content[n]))'
  BY <1>1, <1>2, <1>3 DEF EmitInv, Nodes, IsBytes
<1> QED
  BY <1>1, <1>4, ImageStays

(* The passes that write nothing.                                          *)
LEMMA QuietEmits ==
  ASSUME BuildTypes, EmitInv, source' = source,
         RefuseNode \/ ScanNode \/ AssignNid \/ PlaceDirent \/ OutOfBlocks \/ FileChanged
  PROVE  EmitInv'
<1>1. UNCHANGED <<tree, content>> /\ phase' \notin {"emit", "built"}
  <2>1. CASE RefuseNode \/ OutOfBlocks \/ FileChanged
    BY <2>1 DEF RefuseNode, OutOfBlocks, FileChanged, Fail
  <2>2. CASE ScanNode
    BY <2>2 DEF ScanNode
  <2>3. CASE AssignNid
    BY <2>3 DEF AssignNid
  <2>4. CASE PlaceDirent
    BY <2>4 DEF PlaceDirent
  <2> QED
    BY <2>1, <2>2, <2>3, <2>4
<1>2. (\A n \in Nodes : content[n] # Gone => IsBytes(content[n]))'
  BY <1>1 DEF EmitInv, Nodes, IsBytes
<1> QED
  BY <1>1, <1>2 DEF EmitInv

LEMMA InitEmits ==
  ASSUME Init, source = FromHost
  PROVE  BuildTypes /\ LayInv /\ EmitInv
<1>1. BuildTypes /\ LayInv
  BY LayInit, RoundTripAssumption DEF NotBuilt, RoundTripAssumption
<1>2. tree \in Hosts /\ content = tree.content /\ phase = "scan"
  BY RoundTripAssumption DEF Init, GivenInit, BuilderInit, RoundTripAssumption
<1>3. \A n \in Nodes : IsBytes(content[n])
  BY <1>2, HostFacts DEF HostTree, Nodes
<1> QED
  BY <1>1, <1>2, <1>3 DEF EmitInv

LEMMA StepEmits ==
  ASSUME BuildTypes, LayInv, EmitInv, [Next]_vars
  PROVE  EmitInv'
<1>1. CASE Build
  <2>1. source' = source /\ BuilderStep
    BY <1>1 DEF Build
  <2> QED
    BY <2>1, LayoutEmits, EmitEmits, QuietEmits DEF BuilderStep
<1>2. CASE Intrude
  BY <1>2, WriteEmits DEF Intrude, Nodes
<1>3. CASE Start \/ Read \/ Inspect \/ Terminated \/ UNCHANGED vars
  <2>1. UNCHANGED <<image, tree, content, writes, phase, pending, todo, node, cursor, pack, taken>>
    BY <1>3 DEF Start, Read, Inspect, Terminated, vars, builderVars
  <2>2. (\A n \in Nodes : content[n] # Gone => IsBytes(content[n]))'
    BY <2>1 DEF EmitInv, Nodes, IsBytes
  <2> QED
    BY <2>1, <2>2, ImageStays
<1> QED
  BY <1>1, <1>2, <1>3 DEF Next, Step

-----------------------------------------------------------------------------
(* A built image and its reader.                                           *)

Packed ==
  source = FromHost /\ BuildTypes /\ LayInv /\ EmitInv /\ phase = "built"

Here(nid) == nid \in Nat /\ HasInode(nid)

GoodBlock(block) ==
  block \in [at : Nat, len : Nat \ {0}] /\ block.at + block.len <= End

GoodFrame(frame) ==
  /\ DOMAIN frame = {"nid", "path", "offset", "block", "i"}
  /\ Here(frame.nid) /\ frame.offset \in Nat /\ frame.i \in Nat
  /\ GoodBlock(frame.block)

GoodStack(frames) ==
  Sequence(frames) /\ frames # <<>> /\ \A i \in DOMAIN frames : GoodFrame(frames[i])

WalkInv ==
  /\ phase # "built" => walk = "idle"
  /\ walk = "idle" => file = NoFile
  /\ Sequence(seen)
  /\ walk = "walking" => GoodStack(stack)

(* What was read of a file are the bytes that were taken of it, up to the  *)
(* offset; a block that is kept is the one that the offset lies in.        *)
Reading(m) ==
  /\ m \in Reached(tree) /\ ~IsDir(m)
  /\ DOMAIN file = {"state", "nid", "offset", "buf", "got"}
  /\ file.state \in {"open", "eof"} /\ file.nid = node[m].nid
  /\ file.offset \in 0..node[m].size
  /\ file.got = [i \in 1..file.offset |-> taken[m][i]]
  /\ file.buf = NoBlock \/ file.buf = ReadBlock(file.nid, file.offset)
  /\ file.state = "eof" => file.offset = node[m].size

FileInv ==
  \/ file = NoFile
  \/ file = [state |-> "offered"] /\ seen # <<>> /\ Here(Seqs!Last(seen).nid)
  \/ \E m \in DOMAIN node : Reading(m)

LEMMA ImageIs ==
  ASSUME Packed
  PROVE  /\ End \in Nat /\ DOMAIN image = 0..(End - 1)
         /\ Superblock.meta = 0 /\ Superblock.root \in Nat
         /\ \A nid \in Nat : InodeOffset(nid) = nid
<1>1. cursor.block * BlockSize \in Nat /\ BlockSize \in Nat
  BY LayoutAssumption DEF Packed, BuildTypes, LayoutAssumption
<1>2. PICK n : n = cursor.block * BlockSize
  OBVIOUS
<1>3. DOMAIN image = 0..(n - 1)
  BY <1>2 DEF Packed, EmitInv
<1>4. n \in Nat /\ Cardinality(0..(n - 1)) = n
  <2>1. n \in Nat
    BY <1>1, <1>2
  <2>2. Cardinality(0..(n - 1)) = IF 0 > n - 1 THEN 0 ELSE (n - 1) - 0 + 1
    BY <2>1, FS_Interval
  <2> QED
    BY <2>1, <2>2
<1>5. Superblock = Super(node[Root].nid, 0, Plain)
  BY DEF Packed, EmitInv, Superblock
<1>6. node[Root].nid \in Nat
  <2>1. Root \in Nodes
    BY HostFacts DEF Packed, BuildTypes, HostTree, Nodes
  <2> QED
    BY <2>1 DEF Packed, BuildTypes, NodeTypes
<1>7. Superblock.meta = 0 /\ Superblock.root \in Nat
  BY <1>5, <1>6 DEF Super
<1>8. 0 * BlockSize = 0
  BY <1>1
<1> QED
  BY <1>3, <1>4, <1>7, <1>8 DEF End, InodeOffset

(* Where no inode was written, there is one of nothing.                    *)
LEMMA InodeHere ==
  ASSUME Packed, NEW nid, Here(nid)
  PROVE  /\ nid \in Nat
         /\ InodeAt(nid).layout = "plain" /\ InodeAt(nid).size \in Nat /\ InodeAt(nid).addr \in Nat
         /\ InodeAt(nid).type \in {"file", "symlink"} =>
              \E m \in Reached(tree) : ~IsDir(m) /\ nid = node[m].nid
                                       /\ InodeAt(nid) = TheInode(m)[1]
<1>1. nid \in Nat /\ InodeOffset(nid) = nid /\ nid \in DOMAIN image
  BY ImageIs DEF Here, HasInode
<1>2. CASE Tame(image[nid])
  <2>1. InodeAt(nid) = NoInode
    BY <1>1, <1>2 DEF InodeAt, AsInode, Tame
  <2>2. NoInode = [is |-> "inode", version |-> "compact", layout |-> "plain", xattrs |-> 0,
                   type |-> "none", size |-> 0, addr |-> 0]
    BY DEF NoInode, Inode
  <2> QED
    BY <1>1, <2>1, <2>2
<1>3. CASE \E m \in Reached(tree) : nid = node[m].nid /\ image[nid] = TheInode(m)[1]
  <2>1. PICK m \in Reached(tree) : nid = node[m].nid /\ image[nid] = TheInode(m)[1]
    BY <1>3
  <2>2. InodeAt(nid) = TheInode(m)[1]
    BY <1>1, <2>1, TheFieldsAre DEF InodeAt, AsInode
  <2>3. node[m].size \in Nat /\ node[m].blkaddr \in Nat
    BY Geometry DEF Packed, BuildTypes, NodeTypes
  <2>4. /\ TheInode(m)[1].layout = "plain" /\ TheInode(m)[1].size = node[m].size
        /\ TheInode(m)[1].addr = node[m].blkaddr /\ TheInode(m)[1].type = tree.type[m]
    BY TheFieldsAre
  <2> QED
    BY <1>1, <2>1, <2>2, <2>3, <2>4 DEF IsDir
<1> QED
  BY <1>1, <1>2, <1>3 DEF Packed, EmitInv, CellsAreGood

(* A block that can be read lies in the image, where the inode says.       *)
LEMMA BlockIs ==
  ASSUME Packed, NEW nid, Here(nid), NEW offset \in Nat, ReadBlock(nid, offset) # NoBlock
  PROVE  /\ GoodBlock(ReadBlock(nid, offset))
         /\ (offset \div BlockSize) * BlockSize < InodeAt(nid).size
         /\ ReadBlock(nid, offset) =
              [at |-> (InodeAt(nid).addr + (offset \div BlockSize)) * BlockSize,
               len |-> AtMost(InodeAt(nid).size - (offset \div BlockSize) * BlockSize, BlockSize)]
<1>1. BlockSize \in Nat /\ BlockSize > 0 /\ End \in Nat
  BY LayoutAssumption, ImageIs DEF LayoutAssumption
<1>2. PICK size, addr : size = InodeAt(nid).size /\ addr = InodeAt(nid).addr
  OBVIOUS
<1>3. size \in Nat /\ addr \in Nat /\ InodeAt(nid).layout = "plain"
  BY <1>2, InodeHere
<1>4. PICK q \in Nat : q = offset \div BlockSize
  <2>1. offset \div BlockSize \in Nat
    BY <1>1, DivIs
  <2> QED
    BY <2>1
<1>5. PICK at, len : at = (addr + q) * BlockSize /\ len = AtMost(size - q * BlockSize, BlockSize)
  OBVIOUS
<1>6. /\ ReadBlock(nid, offset) = [at |-> at, len |-> len]
      /\ q < DivCeil(size) /\ at + len <= End
  <2>1. DivCeil(size) \in Nat
    BY <1>3, DivCeilHolds
  <2>2. FlatBlock(nid, q) = IF q >= DivCeil(size) THEN NoBlock ELSE [at |-> at, len |-> len]
    BY <1>2, <1>3, <1>5 DEF FlatBlock
  <2>3. ReadBlock(nid, offset) = FlatBlock(nid, q)
        /\ FlatBlock(nid, q).at + FlatBlock(nid, q).len <= End
    BY <1>3, <1>4 DEF ReadBlock
  <2>4. ~(q >= DivCeil(size))
    BY <2>2, <2>3
  <2> QED
    BY <1>4, <2>1, <2>2, <2>3, <2>4
<1>7. q * BlockSize < size /\ q * BlockSize \in Nat
  <2>1. q <= DivCeil(size) - 1 /\ DivCeil(size) - 1 \in Nat /\ size > 0
    <3>1. DivCeil(size) \in Nat /\ DivCeil(size) > q
      BY <1>3, <1>6, DivCeilHolds
    <3>2. size # 0
      <4>1. ASSUME size = 0 PROVE FALSE
        <5>1. BlockSize - 1 \in 0..(BlockSize - 1) /\ DivCeil(0) = (BlockSize - 1) \div BlockSize
          BY <1>1 DEF DivCeil
        <5>2. (BlockSize - 1) \div BlockSize = 0
          BY <1>1
        <5> QED
          BY <1>4, <3>1, <4>1, <5>1, <5>2
      <4> QED
        BY <4>1
    <3> QED
      BY <1>3, <1>4, <3>1, <3>2
  <2>2. (DivCeil(size) - 1) * BlockSize < size
    BY <1>3, <2>1, DivCeilHolds
  <2>3. q * BlockSize <= (DivCeil(size) - 1) * BlockSize /\ q * BlockSize \in Nat
        /\ (DivCeil(size) - 1) * BlockSize \in Nat
    BY <1>1, <1>4, <2>1, Scaled
  <2> QED
    BY <1>3, <2>2, <2>3
<1>8. at \in Nat /\ len \in Nat \ {0}
  <2>1. at \in Nat
    BY <1>1, <1>3, <1>4, <1>5
  <2>2. len \in Nat \ {0}
    BY <1>1, <1>3, <1>5, <1>7 DEF AtMost
  <2> QED
    BY <2>1, <2>2
<1>9. GoodBlock(ReadBlock(nid, offset))
  BY <1>6, <1>8 DEF GoodBlock
<1> QED
  BY <1>2, <1>4, <1>5, <1>6, <1>7, <1>9

LEMMA DirentHere ==
  ASSUME Packed, NEW block, GoodBlock(block), NEW i \in Nat, i < block.len
  PROVE  DirentAt(block, i).nid \in Nat /\ DirentAt(block, i).off \in Nat
<1>1. block.at + i \in DOMAIN image
  BY ImageIs DEF GoodBlock
<1>2. image[block.at + i].is = "dirent" =>
        image[block.at + i].nid \in Nat /\ image[block.at + i].off \in Nat
  BY <1>1, TheFieldsAre DEF Packed, EmitInv, CellsAreGood, Tame
<1> QED
  BY <1>2 DEF DirentAt, Dirent

LEMMA CountIs ==
  ASSUME Packed, NEW block, GoodBlock(block)
  PROVE  Count(block) \in Nat
  BY DirentHere DEF GoodBlock, Count

(* Looking a name up ends with a number.                                   *)
LEMMA FindIs ==
  ASSUME Packed, NEW block, block = NoBlock \/ GoodBlock(block), NEW name
  PROVE  Find(block, name) \in Int
<1> DEFINE n == Count(block)
           search[k \in 0..n] == IF k = 0 THEN [base |-> 0, size |-> n]
                                 ELSE Halved(block, name, search[k - 1])
           V == [base : Nat, size : Nat]
           a == [base |-> 0, size |-> n]
<1>1. Find(block, name) =
        IF block = NoBlock THEN Broken
        ELSE IF n = 0 THEN Missing
        ELSE IF search[n].base = n \/ ~KeyIsGood(block, search[n].base) THEN Broken
        ELSE IF KeyAt(block, search[n].base) = name THEN DirentAt(block, search[n].base).nid
        ELSE Missing
  BY DEF Find
<1>2. CASE block = NoBlock
  BY <1>1, <1>2 DEF Broken
<1>3. CASE GoodBlock(block)
  <2>1. n \in Nat
    BY <1>3, CountIs
  <2>2. \A s \in V : Halved(block, name, s) \in V
    <3>1. SUFFICES ASSUME NEW s \in V PROVE Halved(block, name, s) \in V
      OBVIOUS
    <3>2. PICK half : half = s.size \div 2
      OBVIOUS
    <3>3. half \in Nat /\ half <= s.size /\ s.size - half \in Nat /\ s.base + half \in Nat
      BY <3>2
    <3>4. \/ Halved(block, name, s) = s
          \/ Halved(block, name, s) = [base |-> n, size |-> 0]
          \/ Halved(block, name, s) = [base |-> s.base, size |-> s.size - half]
          \/ Halved(block, name, s) = [base |-> s.base + half, size |-> s.size - half]
      BY <3>2 DEF Halved
    <3> QED
      BY <2>1, <3>3, <3>4
  <2> DEFINE g == [x \in V \X (1..n) |-> Halved(block, name, x[1])]
  <2>3. /\ a \in V
        /\ \A s \in V : \A k \in 1..n : g[<<s, k>>] = Halved(block, name, s)
        /\ g \in [V \X (1..n) -> V]
    BY <2>1, <2>2
  <2> HIDE DEF g, n, V, a
  <2>4. PICK f : Iterate(f, V, n, a, g)
    BY <2>1, <2>3, Iterates
  <2>5. f = [k \in 0..n |-> IF k = 0 THEN a ELSE Halved(block, name, f[k - 1])]
    <3>1. \A k \in 0..n : f[k] = IF k = 0 THEN a ELSE Halved(block, name, f[k - 1])
      <4> SUFFICES ASSUME NEW k \in 0..n, k # 0 PROVE f[k] = Halved(block, name, f[k - 1])
        BY <2>4 DEF Iterate
      <4>1. k \in 1..n /\ k - 1 \in 0..n
        BY <2>1
      <4> QED
        BY <2>3, <2>4, <4>1 DEF Iterate
    <3>2. f \in [0..n -> V]
      BY <2>4 DEF Iterate
    <3> QED
      BY <3>1, <3>2
  <2>6. search = [k \in 0..n |-> IF k = 0 THEN a ELSE Halved(block, name, search[k - 1])]
    BY <2>5 DEF a
  <2> HIDE DEF search
  <2>7. search[n] \in V
    <3>1. search[0] \in V
      BY <2>1, <2>3, <2>6
    <3>2. ASSUME NEW k \in 1..n, search[k - 1] \in V PROVE search[k] \in V
      <4>1. k \in 0..n /\ k # 0
        BY <2>1
      <4>2. search[k] = Halved(block, name, search[k - 1])
        BY <2>6, <4>1
      <4> QED
        BY <2>2, <3>2, <4>2
    <3>3. \A k \in 0..n : search[k] \in V
      BY <2>1, <3>1, <3>2, StaysIn
    <3> QED
      BY <2>1, <3>3
  <2>8. PICK i : i = search[n].base
    OBVIOUS
  <2>9. i \in Nat
    BY <2>7, <2>8 DEF V
  <2>10. KeyIsGood(block, i) => DirentAt(block, i).nid \in Nat
    BY <1>3, <2>9, DirentHere DEF KeyIsGood, DirentIsGood
  <2> QED
    BY <1>1, <2>8, <2>10 DEF Broken, Missing
<1> QED
  BY <1>2, <1>3

(* What get_path_inode may return: an error, or an inode in the image.     *)
Answer == {v \in Int : v < 0 \/ HasInode(v)}

LEMMA CheckedIs ==
  ASSUME NEW nid \in Int
  PROVE  Checked(nid) \in Answer
  BY DEF Checked, Answer, Broken

LEMMA FindInIs ==
  ASSUME Packed, NEW nid, Here(nid), NEW name
  PROVE  FindIn(nid, name) \in Int
<1> DEFINE blocks == {<<i, ReadBlock(nid, i * BlockSize)>> :
                        i \in 0..(DivCeil(InodeAt(nid).size) - 1)}
           hits == {h \in {<<b[1], Find(b[2], name)>> : b \in blocks} : h[2] # Missing}
<1>1. FindIn(nid, name) =
        IF InodeAt(nid).type # "dir" \/ hits = {} THEN Missing
        ELSE (CHOOSE h \in hits : \A g \in hits : h[1] <= g[1])[2]
  BY DEF FindIn
<1>2. ASSUME NEW h \in hits
      PROVE  h[1] \in Nat /\ h[2] \in Int
  <2>1. PICK b \in blocks : h = <<b[1], Find(b[2], name)>>
    OBVIOUS
  <2>2. PICK i \in 0..(DivCeil(InodeAt(nid).size) - 1) : b = <<i, ReadBlock(nid, i * BlockSize)>>
    BY <2>1
  <2>3. i \in Nat /\ i * BlockSize \in Nat
    <3>1. DivCeil(InodeAt(nid).size) \in Nat /\ BlockSize \in Nat
      BY InodeHere, DivCeilHolds, LayoutAssumption DEF LayoutAssumption
    <3> QED
      BY <3>1
  <2>4. Find(ReadBlock(nid, i * BlockSize), name) \in Int
    BY <2>3, BlockIs, FindIs
  <2> QED
    BY <2>1, <2>2, <2>3, <2>4
<1> HIDE DEF hits
<1>3. CASE hits # {}
  <2>1. \E h \in hits : \A g \in hits : h[1] <= g[1]
    <3> DEFINE T == {h[1] : h \in hits}
    <3>1. T \in SUBSET Nat /\ T # {}
      BY <1>2, <1>3
    <3>2. PICK x \in T : \A y \in T : x <= y
      <4> HIDE DEF T
      <4> QED
        BY <3>1, LeastNumber
    <3> QED
      BY <3>2
  <2>2. (CHOOSE h \in hits : \A g \in hits : h[1] <= g[1]) \in hits
    BY <2>1
  <2> QED
    BY <1>1, <1>2, <2>2 DEF Missing
<1>4. CASE hits = {}
  BY <1>1, <1>4 DEF Missing
<1> QED
  BY <1>3, <1>4

LEMMA ResolveIs ==
  ASSUME Packed, NEW nid \in Answer, NEW name
  PROVE  Resolve(nid, name) \in Answer
<1>1. CASE nid < 0
  BY <1>1 DEF Resolve
<1>2. CASE ~(nid < 0)
  <2>1. Here(nid)
    BY <1>2 DEF Answer, Here
  <2> QED
    BY <1>2, <2>1, FindInIs, CheckedIs DEF Resolve
<1> QED
  BY <1>1, <1>2

LEMMA LookupIs ==
  ASSUME Packed, NEW path, Len(path) \in Nat
  PROVE  Lookup(path) \in Answer
<1> DEFINE n == Len(path)
           at[k \in 0..n] == IF k = 0 THEN Checked(Superblock.root)
                             ELSE Resolve(at[k - 1], path[k])
           a == Checked(Superblock.root)
           g == [x \in Answer \X (1..n) |-> Resolve(x[1], path[x[2]])]
<1>1. Lookup(path) = at[n]
  BY DEF Lookup
<1>2. n \in Nat
  OBVIOUS
<1>3. a \in Answer
  BY ImageIs, CheckedIs
<1>4. \A v \in Answer : \A k \in 1..n :
        g[<<v, k>>] = Resolve(v, path[k]) /\ Resolve(v, path[k]) \in Answer
  BY ResolveIs
<1>5. g \in [Answer \X (1..n) -> Answer]
  BY <1>4
<1> HIDE DEF g, n, a
<1>6. PICK f : Iterate(f, Answer, n, a, g)
  BY <1>2, <1>3, <1>5, Iterates
<1>7. f = [k \in 0..n |-> IF k = 0 THEN a ELSE Resolve(f[k - 1], path[k])]
  <2>1. \A k \in 0..n : f[k] = IF k = 0 THEN a ELSE Resolve(f[k - 1], path[k])
    <3> SUFFICES ASSUME NEW k \in 0..n, k # 0 PROVE f[k] = Resolve(f[k - 1], path[k])
      BY <1>6 DEF Iterate
    <3>1. k \in 1..n /\ k - 1 \in 0..n
      BY <1>2
    <3> QED
      BY <1>4, <1>6, <3>1 DEF Iterate
  <2>2. f \in [0..n -> Answer]
    BY <1>6 DEF Iterate
  <2> QED
    BY <2>1, <2>2
<1>8. at = [k \in 0..n |-> IF k = 0 THEN a ELSE Resolve(at[k - 1], path[k])]
  BY <1>7 DEF a
<1> HIDE DEF at
<1>9. at[0] \in Answer
  BY <1>2, <1>3, <1>8
<1>10. ASSUME NEW k \in 1..n, at[k - 1] \in Answer PROVE at[k] \in Answer
  <2>1. k \in 0..n /\ k # 0
    BY <1>2
  <2>2. at[k] = Resolve(at[k - 1], path[k])
    BY <1>8, <2>1
  <2> QED
    BY <1>10, <2>2, ResolveIs
<1>11. \A k \in 0..n : at[k] \in Answer
  BY <1>2, <1>9, <1>10, StaysIn
<1> QED
  BY <1>1, <1>2, <1>11

(* A client asks for paths.                                                *)
LEMMA PathsAre ==
  ASSUME Packed, NEW path \in {e.path : e \in Reachable \cup {TheRoot}}
                              \cup {<<n>> : n \in Name \ {Dot, DotDot}}
  PROVE  Len(path) \in Nat
<1> DEFINE Nids == {node[n].nid : n \in Nodes}
           E == [path : Seq(Name), nid : Nids, type : HostType]
<1>1. HostTree(tree, Nodes) /\ DOMAIN node = Nodes
  BY HostFacts DEF Packed, BuildTypes, Nodes
<1>2. TheRoot \in E
  <2>1. RootNid \in Nids
    BY <1>1 DEF Packed, RootNid, HostTree
  <2>2. "dir" \in HostType /\ <<>> \in Seq(Name)
    BY DEF HostType
  <2> QED
    BY <2>1, <2>2 DEF TheRoot
<1>3. ASSUME NEW found \in SUBSET E
      PROVE  Extend(found) \in SUBSET E
  <2>1. SUFFICES ASSUME NEW e \in found, e.type = "dir", NEW d \in Listing(e.nid)
                 PROVE  [path |-> Append(e.path, d.name), nid |-> d.nid, type |-> d.type] \in E
    <3> HIDE DEF E
    <3> DEFINE From(e) == {[path |-> Append(e.path, d.name), nid |-> d.nid, type |-> d.type] :
                             d \in Listing(e.nid)}
    <3>1. Extend(found) = UNION {From(e) : e \in {x \in found : x.type = "dir"}}
      BY DEF Extend
    <3>2. \A e \in found : e.type = "dir" => From(e) \subseteq E
      BY <2>1
    <3> HIDE DEF From
    <3> QED
      BY <3>1, <3>2
  <2>2. PICK dir : dir = (CHOOSE n \in DOMAIN node : node[n].nid = e.nid)
    OBVIOUS
  <2>3. dir \in Nodes
    BY <1>1, <2>1, <2>2
  <2>4. PICK c \in Children(dir) : d = [name |-> tree.name[c], nid |-> node[c].nid, type |-> tree.type[c]]
    BY <2>1, <2>2 DEF Listing, Packed
  <2>5. c \in Nodes
    BY <1>1, <2>3, <2>4 DEF HostTree, Children
  <2>6. d.name \in Name /\ d.nid \in Nids /\ d.type \in HostType
    BY <1>1, <2>4, <2>5 DEF HostTree
  <2>7. e.path \in Seq(Name)
    BY <2>1
  <2>8. Append(e.path, d.name) \in Seq(Name)
    BY <2>6, <2>7
  <2> QED
    BY <2>6, <2>8
<1>4. Reachable \in SUBSET E
  <2> DEFINE depth == DefaultMaxDepth
             level[k \in 0..depth] == IF k = 0 THEN {TheRoot} ELSE Extend(level[k - 1])
             V == SUBSET E
             a == {TheRoot}
             g == [x \in V \X (1..depth) |-> Extend(x[1])]
  <2>1. Reachable = UNION {level[k] : k \in 1..depth}
    BY DEF Reachable, Below
  <2>2. depth \in Nat
    BY ReaderAssumption DEF ReaderAssumption
  <2>3. a \in V
    BY <1>2
  <2>4. \A v \in V : Extend(v) \in V
    BY <1>3
  <2>5. g \in [V \X (1..depth) -> V] /\ \A v \in V : \A k \in 1..depth : g[<<v, k>>] = Extend(v)
    BY <2>4
  <2> HIDE DEF g, depth, a, V
  <2>6. PICK f : Iterate(f, V, depth, a, g)
    BY <2>2, <2>3, <2>5, Iterates
  <2>7. f = [k \in 0..depth |-> IF k = 0 THEN a ELSE Extend(f[k - 1])]
    <3>1. \A k \in 0..depth : f[k] = IF k = 0 THEN a ELSE Extend(f[k - 1])
      <4> SUFFICES ASSUME NEW k \in 0..depth, k # 0 PROVE f[k] = Extend(f[k - 1])
        BY <2>6 DEF Iterate
      <4>1. k \in 1..depth /\ k - 1 \in 0..depth
        BY <2>2
      <4> QED
        BY <2>5, <2>6, <4>1 DEF Iterate
    <3>2. f \in [0..depth -> V]
      BY <2>6 DEF Iterate
    <3> QED
      BY <3>1, <3>2
  <2>8. level = [k \in 0..depth |-> IF k = 0 THEN a ELSE Extend(level[k - 1])]
    BY <2>7 DEF a
  <2> HIDE DEF level
  <2>9. level[0] \in V
    BY <2>2, <2>3, <2>8
  <2>10. ASSUME NEW k \in 1..depth, level[k - 1] \in V PROVE level[k] \in V
    <3>1. k \in 0..depth /\ k # 0
      BY <2>2
    <3>2. level[k] = Extend(level[k - 1])
      BY <2>8, <3>1
    <3> QED
      BY <2>4, <2>10, <3>2
  <2>11. \A k \in 0..depth : level[k] \in V
    BY <2>2, <2>9, <2>10, StaysIn
  <2>12. \A k \in 1..depth : level[k] \in V
    BY <2>2, <2>11
  <2> QED
    BY <2>1, <2>12 DEF V
<1>5. CASE path \in {e.path : e \in Reachable \cup {TheRoot}}
  <2>1. PICK e \in Reachable \cup {TheRoot} : path = e.path
    BY <1>5
  <2>2. e \in E
    BY <1>2, <1>4
  <2> QED
    BY <2>1, <2>2
<1>6. CASE path \in {<<n>> : n \in Name \ {Dot, DotDot}}
  BY <1>6
<1> QED
  BY <1>5, <1>6

-----------------------------------------------------------------------------
(* Walks and files.                                                        *)

(* The reader changes nothing of the image.                                *)
LEMMA ReadsAlike ==
  ASSUME UNCHANGED <<image, mode>>
  PROVE  /\ \A nid : Here(nid)' = Here(nid)
         /\ \A frames : GoodStack(frames)' = GoodStack(frames)
         /\ \A nid, offset : ReadBlock(nid, offset)' = ReadBlock(nid, offset)
<1>1. \A nid : InodeOffset(nid)' = InodeOffset(nid) /\ InodeAt(nid)' = InodeAt(nid)
  BY DEF InodeOffset, Superblock, InodeAt, AsInode, NoInode
<1>2. \A nid : Here(nid)' = Here(nid)
  BY <1>1 DEF Here, HasInode, End, InodeSize
<1>3. \A block : GoodBlock(block)' = GoodBlock(block)
  BY DEF GoodBlock, End
<1>4. \A frames : GoodStack(frames)' = GoodStack(frames)
  BY <1>2, <1>3 DEF GoodStack, GoodFrame
<1>5. \A nid : BehindInode(nid)' = BehindInode(nid)
  BY <1>1 DEF BehindInode, InodeSize
<1>6. \A nid, index : FlatBlock(nid, index)' = FlatBlock(nid, index)
  BY <1>1, <1>5 DEF FlatBlock
<1>7. \A nid, offset : ChunkBlock(nid, offset)' = ChunkBlock(nid, offset)
  BY <1>1, <1>5 DEF ChunkBlock, End
<1>8. \A nid, offset : ReadBlock(nid, offset)' = ReadBlock(nid, offset)
  BY <1>1, <1>6, <1>7 DEF ReadBlock, End
<1> QED
  BY <1>2, <1>4, <1>8

LEMMA SequenceIs ==
  ASSUME NEW T, NEW s \in Seq(T)
  PROVE  Sequence(s)
<1>1. s \in [1..Len(s) -> {s[i] : i \in DOMAIN s}] /\ Len(s) \in Nat
  OBVIOUS
<1> QED
  BY <1>1 DEF Sequence

LEMMA FrameIs ==
  ASSUME Packed, NEW nid, Here(nid), Opens(nid), NEW path
  PROVE  GoodFrame(Frame(nid, path))
<1>1. GoodBlock(ReadBlock(nid, 0))
  BY BlockIs DEF Opens
<1> QED
  BY <1>1 DEF GoodFrame, Frame

LEMMA TopIs ==
  ASSUME GoodStack(stack)
  PROVE  GoodFrame(Top) /\ Top = stack[Len(stack)] /\ Len(stack) \in Nat \ {0}
  BY DEF GoodStack, Sequence, Top, Seqs!Last

LEMMA ReplaceTop ==
  ASSUME GoodStack(stack), NEW frame, GoodFrame(frame)
  PROVE  GoodStack(WithTop(frame))
<1>1. PICK s, n, T : s = stack /\ n = Len(stack) /\ T = {s[i] : i \in DOMAIN s} \cup {frame}
  OBVIOUS
<1>2. s \in Seq(T) /\ n \in Nat \ {0} /\ DOMAIN s = 1..n /\ n = Len(s)
  BY <1>1 DEF GoodStack, Sequence
<1>3. PICK t : t = [s EXCEPT ![n] = frame]
  OBVIOUS
<1>4. t \in [1..n -> T]
  BY <1>1, <1>2, <1>3
<1>5. t \in Seq(T) /\ Len(t) = n /\ \A i \in 1..n : GoodFrame(t[i])
  BY <1>1, <1>2, <1>3, <1>4 DEF GoodStack
<1>6. Sequence(t)
  BY <1>5, SequenceIs
<1>7. t # <<>> /\ \A i \in DOMAIN t : GoodFrame(t[i])
  BY <1>2, <1>4, <1>5
<1> QED
  BY <1>1, <1>3, <1>6, <1>7 DEF GoodStack, WithTop

LEMMA PushFrame ==
  ASSUME NEW s, GoodStack(s), NEW frame, GoodFrame(frame)
  PROVE  GoodStack(Append(s, frame))
<1>1. PICK T : T = {s[i] : i \in DOMAIN s} \cup {frame}
  OBVIOUS
<1>2. s \in Seq(T) /\ frame \in T
  BY <1>1 DEF GoodStack, Sequence
<1>3. Append(s, frame) \in Seq(T) /\ Len(Append(s, frame)) = Len(s) + 1 /\ Len(s) \in Nat
      /\ \A i \in 1..(Len(s) + 1) : Append(s, frame)[i] = IF i = Len(s) + 1 THEN frame ELSE s[i]
  BY <1>2
<1>4. \A i \in 1..(Len(s) + 1) : GoodFrame(Append(s, frame)[i])
  BY <1>2, <1>3 DEF GoodStack
<1>5. PICK t : t = Append(s, frame)
  OBVIOUS
<1>6. t # <<>> /\ \A i \in DOMAIN t : GoodFrame(t[i])
  BY <1>3, <1>4, <1>5
<1>7. Sequence(t)
  BY <1>3, <1>5, SequenceIs
<1> QED
  BY <1>5, <1>6, <1>7 DEF GoodStack

LEMMA PopFrame ==
  ASSUME GoodStack(stack), Len(stack) # 1
  PROVE  GoodStack(Seqs!Front(stack))
<1>1. PICK s, n, T : s = stack /\ n = Len(stack) /\ T = {s[i] : i \in DOMAIN s}
  OBVIOUS
<1>2. s \in Seq(T) /\ n \in Nat \ {0, 1} /\ n = Len(s)
  BY <1>1 DEF GoodStack, Sequence
<1>3. PICK t : t = SubSeq(s, 1, n - 1)
  OBVIOUS
<1>4. t \in Seq(T) /\ Len(t) = n - 1 /\ \A i \in 1..(n - 1) : t[i] = s[i]
  BY <1>2, <1>3
<1>5. t # <<>> /\ \A i \in DOMAIN t : GoodFrame(t[i])
  BY <1>1, <1>2, <1>4 DEF GoodStack
<1> QED
  BY <1>1, <1>3, <1>4, <1>5, SequenceIs DEF GoodStack, Seqs!Front

LEMMA StopReads ==
  ASSUME WalkInv, phase' = "built", NEW why, why \notin {"idle", "walking"}, Stop(why)
  PROVE  WalkInv' /\ FileInv'
<1>1. walk' = why /\ file' = NoFile /\ seen' = seen
  BY DEF Stop
<1>2. WalkInv'
  BY <1>1 DEF WalkInv, Sequence, NoFile
<1>3. FileInv'
  BY <1>1 DEF FileInv, NoFile
<1> QED
  BY <1>2, <1>3

LEMMA StartReads ==
  ASSUME Packed, WalkInv, UNCHANGED <<image, builderVars, source>>, Start
  PROVE  WalkInv' /\ FileInv'
<1>1. phase' = "built" /\ phase = "built"
  BY DEF Packed, builderVars
<1>2. PICK path, nid :
        /\ path \in {e.path : e \in Reachable \cup {TheRoot}}
                    \cup {<<n>> : n \in Name \ {Dot, DotDot}}
        /\ walk = "idle" /\ nid = Lookup(path)
        /\ \/ \E why \in {"not found", "corrupt", "not a directory"} : Stop(why)
           \/ /\ nid >= 0 /\ Opens(nid)
              /\ walk' = "walking" /\ stack' = <<Frame(nid, path)>>
              /\ UNCHANGED <<mode, seen, file>>
  BY DEF Start, StartWalk
<1>3. nid \in Answer
  BY <1>2, PathsAre, LookupIs
<1>4. CASE \E why \in {"not found", "corrupt", "not a directory"} : Stop(why)
  BY <1>1, <1>4, StopReads
<1>5. CASE /\ nid >= 0 /\ Opens(nid)
           /\ walk' = "walking" /\ stack' = <<Frame(nid, path)>>
           /\ UNCHANGED <<mode, seen, file>>
  <2>1. Here(nid)
    BY <1>3, <1>5 DEF Answer, Here
  <2>2. PICK frame : frame = Frame(nid, path)
    OBVIOUS
  <2>3. GoodFrame(frame)
    BY <1>5, <2>1, <2>2, FrameIs
  <2>4. PICK s : s = <<frame>>
    OBVIOUS
  <2>5. s \in Seq({frame}) /\ s # <<>> /\ \A i \in DOMAIN s : s[i] = frame
    BY <2>4
  <2>6. GoodStack(s)
    BY <2>3, <2>5, SequenceIs DEF GoodStack
  <2>7. GoodStack(s)'
    BY <1>5, <2>6, ReadsAlike
  <2>8. stack' = s
    BY <1>5, <2>2, <2>4
  <2>9. GoodStack(stack)'
    BY <2>7, <2>8
  <2>10. WalkInv'
    BY <1>1, <1>5, <2>9 DEF WalkInv, Sequence
  <2>11. FileInv'
    BY <1>2, <1>5 DEF WalkInv, FileInv, NoFile
  <2> QED
    BY <2>10, <2>11
<1> QED
  BY <1>2, <1>4, <1>5

(* What a walk does beside opening files.                                  *)
LEMMA FileStays ==
  ASSUME FileInv, UNCHANGED <<image, builderVars, source, mode, file, seen>>
  PROVE  FileInv'
<1>1. UNCHANGED <<tree, node, taken>>
  BY DEF builderVars
<1>2. /\ \A nid : Here(nid)' = Here(nid)
      /\ \A nid, offset : ReadBlock(nid, offset)' = ReadBlock(nid, offset)
  BY ReadsAlike
<1>3. CASE file = NoFile
  BY <1>3 DEF FileInv, NoFile
<1>4. CASE file = [state |-> "offered"] /\ seen # <<>> /\ Here(Seqs!Last(seen).nid)
  <2>1. Here(Seqs!Last(seen).nid)'
    BY <1>2, <1>4 DEF Seqs!Last
  <2> QED
    BY <1>4, <2>1 DEF FileInv
<1>5. ASSUME NEW m \in DOMAIN node, Reading(m)
      PROVE  FileInv'
  <2>1. Reached(tree)' = Reached(tree) /\ IsDir(m)' = IsDir(m)
    BY <1>1 DEF IsDir
  <2>2. ReadBlock(file.nid, file.offset)' = ReadBlock(file.nid, file.offset)
    BY <1>2
  <2>3. Reading(m)'
    BY <1>1, <1>5, <2>1, <2>2 DEF Reading, NoBlock
  <2> QED
    BY <1>1, <2>3 DEF FileInv
<1> QED
  BY <1>3, <1>4, <1>5 DEF FileInv

LEMMA NextBlockReads ==
  ASSUME Packed, WalkInv, FileInv, UNCHANGED <<image, builderVars, source>>, NextBlock
  PROVE  WalkInv' /\ FileInv'
<1>1. phase' = "built" /\ walk = "walking" /\ GoodStack(stack) /\ GoodFrame(Top)
  BY TopIs DEF Packed, builderVars, NextBlock, AtEnd, Walking, WalkInv
<1>2. PICK offset, block :
        /\ offset = Top.offset + Top.block.len /\ block = ReadBlock(Top.nid, offset)
        /\ \/ block = NoBlock /\ Stop("corrupt")
           \/ /\ block # NoBlock
              /\ stack' = WithTop([Top EXCEPT !.offset = offset, !.block = block, !.i = 0])
              /\ UNCHANGED <<mode, walk, maxDepth, ancestors, start, seen, file>>
  BY DEF NextBlock
<1>3. CASE block = NoBlock /\ Stop("corrupt")
  BY <1>1, <1>3, StopReads
<1>4. CASE /\ block # NoBlock
           /\ stack' = WithTop([Top EXCEPT !.offset = offset, !.block = block, !.i = 0])
           /\ UNCHANGED <<mode, walk, maxDepth, ancestors, start, seen, file>>
  <2>1. offset \in Nat /\ Here(Top.nid)
    BY <1>1, <1>2 DEF GoodFrame, GoodBlock
  <2>2. GoodBlock(block)
    BY <1>2, <1>4, <2>1, BlockIs
  <2>3. PICK frame : frame = [Top EXCEPT !.offset = offset, !.block = block, !.i = 0]
    OBVIOUS
  <2>4. GoodFrame(frame)
    BY <1>1, <2>1, <2>2, <2>3 DEF GoodFrame
  <2>5. PICK s : s = WithTop(frame)
    OBVIOUS
  <2>6. GoodStack(s)
    BY <1>1, <2>4, <2>5, ReplaceTop
  <2>7. stack' = s /\ GoodStack(s)'
    BY <1>4, <2>3, <2>5, <2>6, ReadsAlike
  <2>8. GoodStack(stack)'
    BY <2>7
  <2>9. WalkInv'
    BY <1>1, <1>4, <2>8 DEF WalkInv, Sequence
  <2> QED
    BY <1>4, <2>9, FileStays
<1> QED
  BY <1>2, <1>3, <1>4

LEMMA PopDirReads ==
  ASSUME Packed, WalkInv, FileInv, UNCHANGED <<image, builderVars, source>>, PopDir
  PROVE  WalkInv' /\ FileInv'
<1>1. /\ phase' = "built" /\ walk = "walking" /\ GoodStack(stack)
      /\ stack' = Seqs!Front(stack) /\ file' = NoFile /\ UNCHANGED <<mode, seen>>
      /\ walk' = IF Len(stack) = 1 THEN "done" ELSE walk
  BY DEF Packed, builderVars, PopDir, AtEnd, Walking, WalkInv
<1>2. walk' = "walking" => GoodStack(stack)'
  <2>1. SUFFICES ASSUME walk' = "walking" PROVE GoodStack(stack)'
    OBVIOUS
  <2>2. PICK s : s = Seqs!Front(stack)
    OBVIOUS
  <2>3. GoodStack(s)
    BY <1>1, <2>1, <2>2, PopFrame
  <2>4. stack' = s /\ GoodStack(s)'
    BY <1>1, <2>2, <2>3, ReadsAlike
  <2> QED
    BY <2>4
<1>3. WalkInv'
  BY <1>1, <1>2 DEF WalkInv, Sequence
<1>4. FileInv'
  BY <1>1 DEF FileInv, NoFile
<1> QED
  BY <1>3, <1>4

LEMMA SkipDotReads ==
  ASSUME Packed, WalkInv, FileInv, UNCHANGED <<image, builderVars, source>>, SkipDot
  PROVE  WalkInv' /\ FileInv'
<1>1. /\ phase' = "built" /\ walk = "walking" /\ GoodStack(stack) /\ GoodFrame(Top)
      /\ stack' = WithTop([Top EXCEPT !.i = @ + 1])
      /\ UNCHANGED <<mode, walk, seen, file>>
  BY TopIs DEF Packed, builderVars, SkipDot, AtEntry, Walking, WalkInv
<1>2. PICK frame : frame = [Top EXCEPT !.i = @ + 1]
  OBVIOUS
<1>3. GoodFrame(frame)
  BY <1>1, <1>2 DEF GoodFrame
<1>4. PICK s : s = WithTop(frame)
  OBVIOUS
<1>5. GoodStack(s)
  BY <1>1, <1>3, <1>4, ReplaceTop
<1>6. stack' = s /\ GoodStack(s)'
  BY <1>1, <1>2, <1>4, <1>5, ReadsAlike
<1>7. GoodStack(stack)'
  BY <1>6
<1>8. WalkInv'
  BY <1>1, <1>7 DEF WalkInv, Sequence
<1> QED
  BY <1>1, <1>8, FileStays

LEMMA YieldReads ==
  ASSUME Packed, WalkInv, FileInv, UNCHANGED <<image, builderVars, source>>, YieldEntry
  PROVE  WalkInv' /\ FileInv'
<1>1. /\ phase' = "built" /\ walk = "walking" /\ GoodStack(stack) /\ GoodFrame(Top)
      /\ Enter(WithTop([Top EXCEPT !.i = @ + 1]))
      /\ file' = [state |-> "offered"]
      /\ UNCHANGED <<mode, walk>>
  BY TopIs DEF Packed, builderVars, YieldEntry, AtEntry, Walking, WalkInv
<1>2. Here(Entry.nid) /\ (Descends => Opens(Entry.nid))
  <2>1. Top.i < Top.block.len
    BY DEF YieldEntry, EntryIsGood, NameIsGood, DirentIsGood
  <2>2. Entry.nid \in Nat
    BY <1>1, <2>1, DirentHere DEF GoodFrame, Entry
  <2>3. HasInode(Entry.nid) /\ (Descends => Opens(Entry.nid))
    BY DEF YieldEntry, Refusal
  <2> QED
    BY <2>2, <2>3 DEF Here
<1>3. PICK next : next = [Top EXCEPT !.i = @ + 1]
  OBVIOUS
<1>4. GoodFrame(next)
  BY <1>1, <1>3 DEF GoodFrame
<1>5. PICK stepped : stepped = WithTop(next)
  OBVIOUS
<1>6. GoodStack(stepped)
  BY <1>1, <1>4, <1>5, ReplaceTop
<1>7. GoodStack(stack)'
  <2>1. CASE Descends
    <3>1. PICK frame : frame = Frame(Entry.nid, EntryPath)
      OBVIOUS
    <3>2. GoodFrame(frame)
      BY <1>2, <2>1, <3>1, FrameIs
    <3>3. PICK s : s = Append(stepped, frame)
      OBVIOUS
    <3>4. GoodStack(s)
      BY <1>6, <3>2, <3>3, PushFrame
    <3>5. stack' = s /\ GoodStack(s)'
      BY <1>1, <1>3, <1>5, <2>1, <3>1, <3>3, <3>4, ReadsAlike DEF Enter
    <3> QED
      BY <3>5
  <2>2. CASE ~Descends
    <3>1. stack' = stepped /\ GoodStack(stepped)'
      BY <1>1, <1>3, <1>5, <1>6, <2>2, ReadsAlike DEF Enter
    <3> QED
      BY <3>1
  <2> QED
    BY <2>1, <2>2
<1>8. PICK entry : entry = [path |-> EntryPath, nid |-> Entry.nid, type |-> Entry.type]
  OBVIOUS
<1>9. seen' = Append(seen, entry) /\ entry.nid = Entry.nid
  BY <1>8 DEF YieldEntry
<1>10. Sequence(seen') /\ seen' # <<>> /\ Seqs!Last(seen)' = entry
  <2>1. PICK s, T : s = seen /\ T = {s[i] : i \in DOMAIN s} \cup {entry}
    OBVIOUS
  <2>2. s \in Seq(T) /\ entry \in T
    BY <2>1 DEF WalkInv, Sequence
  <2>3. PICK t : t = Append(s, entry)
    OBVIOUS
  <2>4. t \in Seq(T) /\ Len(t) = Len(s) + 1 /\ Len(s) \in Nat /\ t[Len(t)] = entry
    BY <2>2, <2>3
  <2>5. t # <<>> /\ Sequence(t)
    BY <2>4, SequenceIs
  <2> QED
    BY <1>9, <2>1, <2>3, <2>4, <2>5 DEF Seqs!Last
<1>11. WalkInv'
  BY <1>1, <1>7, <1>10 DEF WalkInv, Sequence
<1>12. Here(Seqs!Last(seen).nid)'
  <2>1. PICK nid : nid = entry.nid
    OBVIOUS
  <2>2. Here(nid)'
    BY <1>1, <1>2, <1>9, <2>1, ReadsAlike
  <2>3. (Seqs!Last(seen).nid)' = nid
    BY <1>10, <2>1
  <2> QED
    BY <2>2, <2>3
<1>13. FileInv'
  BY <1>1, <1>10, <1>12 DEF FileInv
<1> QED
  BY <1>11, <1>13

(* The inode and the payload of a node, as they were written.              *)
LEMMA NodeIs ==
  ASSUME Packed, NEW m \in Reached(tree)
  PROVE  /\ m \in DOMAIN node /\ Here(node[m].nid)
         /\ InodeAt(node[m].nid) = TheInode(m)[1]
         /\ node[m].size \in Nat /\ node[m].blkaddr \in Nat
         /\ \A i \in 1..Room(m) : image[node[m].blkaddr * BlockSize + i - 1] = taken[m][i]
         /\ Sequence(taken[m]) /\ Len(taken[m]) = Room(m)
<1>1. Emitted(m)
  BY DEF Packed, EmitInv
<1>2. PICK nid : nid = node[m].nid
  OBVIOUS
<1>3. nid \in Nat /\ m \in DOMAIN node /\ node[m].size \in Nat /\ node[m].blkaddr \in Nat
  BY <1>2, Geometry DEF Packed, BuildTypes, NodeTypes
<1>4. nid \in DOMAIN image /\ image[nid] = TheInode(m)[1] /\ nid + 1 \in DOMAIN image
  <2>1. \A i \in 1..2 : nid + i - 1 \in DOMAIN image /\ image[nid + i - 1] = TheInode(m)[i]
    BY <1>1, <1>2, TheInodeIs DEF Emitted, Written
  <2>2. nid + 1 - 1 = nid /\ nid + 2 - 1 = nid + 1
    BY <1>3
  <2> QED
    BY <2>1, <2>2
<1>5. InodeAt(nid) = TheInode(m)[1]
  BY <1>3, <1>4, ImageIs, TheFieldsAre DEF InodeAt, AsInode
<1>6. HasInode(nid)
  BY <1>3, <1>4, ImageIs DEF HasInode, InodeSize
<1>7. \A i \in 1..Room(m) : image[node[m].blkaddr * BlockSize + i - 1] = taken[m][i]
  BY <1>1 DEF Emitted, Written
<1>8. Sequence(taken[m]) /\ Len(taken[m]) = Room(m)
  BY <1>1 DEF Emitted
<1> QED
  BY <1>2, <1>3, <1>5, <1>6, <1>7, <1>8 DEF Here

LEMMA OpenReads ==
  ASSUME Packed, WalkInv, FileInv, UNCHANGED <<image, builderVars, source>>, OpenFile
  PROVE  WalkInv' /\ FileInv'
<1>1. PICK nid : nid = Seqs!Last(seen).nid
  OBVIOUS
<1>2. /\ phase' = "built" /\ walk = "walking" /\ file.state = "offered"
      /\ InodeAt(nid).type \in {"file", "symlink"}
      /\ file' = [state |-> "open", nid |-> nid, offset |-> 0, buf |-> NoBlock, got |-> <<>>]
      /\ UNCHANGED <<mode, walk, stack, seen, tree, node, taken, image>>
  BY <1>1 DEF Packed, builderVars, OpenFile, Readable, walkVars
<1>3. Here(nid)
  BY <1>1, <1>2 DEF FileInv, Reading, NoFile
<1>4. PICK m \in Reached(tree) : ~IsDir(m) /\ nid = node[m].nid
  BY <1>2, <1>3, InodeHere
<1>5. node[m].size \in Nat /\ m \in DOMAIN node
  BY NodeIs
<1>6. Reading(m)'
  <2>1. Reached(tree)' = Reached(tree) /\ IsDir(m)' = IsDir(m)
    BY <1>2 DEF IsDir
  <2>2. <<>> = [i \in 1..0 |-> taken[m][i]]
    OBVIOUS
  <2> QED
    BY <1>2, <1>4, <1>5, <2>1, <2>2 DEF Reading, NoBlock
<1>7. FileInv'
  BY <1>2, <1>5, <1>6 DEF FileInv
<1>8. WalkInv'
  <2>1. PICK s : s = stack
    OBVIOUS
  <2>2. GoodStack(s)' /\ stack' = s
    BY <1>2, <2>1, ReadsAlike DEF WalkInv
  <2>3. GoodStack(stack)'
    BY <2>2
  <2> QED
    BY <1>2, <2>3 DEF WalkInv, Sequence
<1> QED
  BY <1>7, <1>8

(* The walk waits while a file is read.                                    *)
LEMMA WalkStays ==
  ASSUME WalkInv, UNCHANGED <<image, builderVars, source, mode, walkVars>>, walk # "idle"
  PROVE  WalkInv'
<1>1. UNCHANGED <<image, mode, phase, walk, stack, seen>>
  BY DEF builderVars, walkVars
<1>2. walk = "walking" => GoodStack(stack)'
  <2>1. SUFFICES ASSUME walk = "walking" PROVE GoodStack(stack)'
    OBVIOUS
  <2>2. PICK s : s = stack
    OBVIOUS
  <2>3. GoodStack(s)' /\ stack' = s
    BY <1>1, <2>1, <2>2, ReadsAlike DEF WalkInv
  <2> QED
    BY <2>3
<1> QED
  BY <1>1, <1>2 DEF WalkInv, Sequence

LEMMA EofReads ==
  ASSUME Packed, WalkInv, FileInv, UNCHANGED <<image, builderVars, source>>, ReadEof
  PROVE  WalkInv' /\ FileInv'
<1>1. /\ file.state = "open" /\ file.offset >= InodeAt(file.nid).size
      /\ file' = [file EXCEPT !.state = "eof"]
      /\ UNCHANGED <<image, mode, walkVars, tree, node, taken>>
  BY DEF ReadEof, AtEof, builderVars
<1>2. PICK m \in DOMAIN node : Reading(m)
  BY <1>1 DEF FileInv, NoFile
<1>3. InodeAt(file.nid).size = node[m].size /\ node[m].size \in Nat
  BY <1>2, NodeIs, TheFieldsAre DEF Reading
<1>4. file.offset = node[m].size
  BY <1>1, <1>2, <1>3 DEF Reading
<1>5. Reading(m)'
  <2>1. Reached(tree)' = Reached(tree) /\ IsDir(m)' = IsDir(m)
    BY <1>1 DEF IsDir
  <2>2. PICK nid, offset : nid = file.nid /\ offset = file.offset
    OBVIOUS
  <2>3. ReadBlock(nid, offset)' = ReadBlock(nid, offset)
    BY <1>1, ReadsAlike
  <2>4. /\ DOMAIN file' = DOMAIN file /\ file'.state = "eof" /\ file'.nid = nid
        /\ file'.offset = offset /\ file'.buf = file.buf /\ file'.got = file.got
    BY <1>1, <1>2, <2>2 DEF Reading
  <2>5. ReadBlock(file.nid, file.offset)' = ReadBlock(nid, offset)
    BY <2>3, <2>4
  <2> QED
    BY <1>1, <1>2, <1>4, <2>1, <2>2, <2>4, <2>5 DEF Reading, NoBlock
<1>6. FileInv'
  BY <1>1, <1>2, <1>5 DEF FileInv
<1>7. WalkInv'
  BY <1>1, <1>2, WalkStays DEF WalkInv, Reading, NoFile
<1> QED
  BY <1>6, <1>7

(* Part of a block is handed out: the bytes that follow, and no others.    *)
LEMMA PieceReads ==
  ASSUME Packed, WalkInv, NEW m \in DOMAIN node, Reading(m),
         UNCHANGED <<image, builderVars, source, mode, walkVars>>,
         file.state = "open", file.offset < InodeAt(file.nid).size,
         NEW n \in Nat, n > 0, NEW block, block = ReadBlock(file.nid, file.offset),
         block # NoBlock, ReadFrom(block, n)
  PROVE  WalkInv' /\ FileInv'
<1>1. PICK o, size, addr, nid, q, r :
        /\ o = file.offset /\ size = node[m].size /\ addr = node[m].blkaddr /\ nid = file.nid
        /\ q = o \div BlockSize /\ r = o % BlockSize
  OBVIOUS
<1>2. BlockSize \in Nat /\ BlockSize > 0
  BY LayoutAssumption DEF LayoutAssumption
<1>3. /\ m \in Reached(tree) /\ ~IsDir(m) /\ o \in 0..size /\ nid = node[m].nid
      /\ DOMAIN file = {"state", "nid", "offset", "buf", "got"}
      /\ file.got = [i \in 1..o |-> taken[m][i]]
  BY <1>1 DEF Reading
<1>4. /\ size \in Nat /\ addr \in Nat /\ Here(nid) /\ Room(m) = size
      /\ InodeAt(nid).size = size /\ InodeAt(nid).addr = addr /\ InodeAt(nid).layout = "plain"
      /\ \A i \in 1..size : image[addr * BlockSize + i - 1] = taken[m][i]
      /\ Sequence(taken[m]) /\ Len(taken[m]) = size
  BY <1>1, <1>3, NodeIs, TheFieldsAre DEF Room
<1>5. o \in Nat /\ o < size
  BY <1>1, <1>3, <1>4
<1>6. q \in Nat /\ r \in 0..(BlockSize - 1) /\ o = q * BlockSize + r
  <2>1. PICK a \in Nat, b \in 0..(BlockSize - 1) :
          o = a * BlockSize + b /\ o \div BlockSize = a /\ o % BlockSize = b
    BY ONLY <1>2, <1>5, DivIs
  <2> QED
    BY <1>1, <2>1
<1>7. PICK len : len = AtMost(size - q * BlockSize, BlockSize)
  OBVIOUS
<1>8. block.at = (addr + q) * BlockSize /\ block.len = len
  <2>1. block = [at |-> (addr + q) * BlockSize, len |-> len]
    BY <1>1, <1>4, <1>5, <1>7, BlockIs
  <2> QED
    BY <2>1
<1>9. q * BlockSize \in Nat /\ addr * BlockSize \in Nat
      /\ (addr + q) * BlockSize = addr * BlockSize + q * BlockSize
  <2>1. BlockSize \in Nat /\ addr \in Nat /\ q \in Nat
    BY <1>2, <1>4, <1>6
  <2> QED
    BY ONLY <2>1, Spread
<1>10. /\ len \in Nat /\ len <= BlockSize /\ q * BlockSize + len <= size /\ r < len
  BY <1>2, <1>4, <1>5, <1>6, <1>7, <1>9 DEF AtMost
<1>11. PICK count : count = AtMost(n, len - r)
  OBVIOUS
<1>12. count \in Nat /\ count <= len - r /\ o + count <= size
  <2>1. PICK base : base = q * BlockSize
    OBVIOUS
  <2>2. /\ base \in Nat /\ o = base + r /\ r \in Nat /\ len \in Nat /\ r < len
        /\ base + len <= size /\ size \in Nat
    BY <1>2, <1>4, <1>6, <1>9, <1>10, <2>1
  <2>3. count \in Nat /\ count <= len - r
    BY <1>11, <2>2 DEF AtMost
  <2> QED
    BY <2>2, <2>3
<1>13. PICK piece, got : piece = Copy(block, count) /\ got = file.got \o piece
  OBVIOUS
<1>14. file' = [file EXCEPT !.offset = o + count, !.got = got,
                            !.buf = IF count = len - r THEN NoBlock ELSE block]
  BY <1>1, <1>8, <1>11, <1>13 DEF ReadFrom
<1>15. piece = [i \in 1..count |-> taken[m][o + i]]
  <2>1. piece = [i \in 1..count |-> image[block.at + r + i - 1]]
    BY <1>1, <1>13 DEF Copy
  <2>2. ASSUME NEW i \in 1..count
        PROVE  image[block.at + r + i - 1] = taken[m][o + i]
    <3>1. o + i \in 1..size
      BY <1>4, <1>5, <1>12
    <3>2. block.at + r + i - 1 = addr * BlockSize + (o + i) - 1
      BY <1>6, <1>8, <1>9, <1>12
    <3> QED
      BY <1>4, <3>1, <3>2
  <2> QED
    BY <2>1, <2>2
<1>16. got = [i \in 1..(o + count) |-> taken[m][i]]
  <2>1. PICK T : T = {taken[m][i] : i \in DOMAIN taken[m]}
    OBVIOUS
  <2>2. \A i \in 1..size : taken[m][i] \in T
    BY <1>4, <2>1 DEF Sequence
  <2>3. PICK g : g = file.got
    OBVIOUS
  <2>4. g \in Seq(T) /\ Len(g) = o /\ \A i \in 1..o : g[i] = taken[m][i]
    <3>1. \A i \in 1..o : taken[m][i] \in T
      BY <1>4, <1>5, <2>2
    <3> QED
      BY <1>3, <1>5, <2>3, <3>1
  <2>5. piece \in Seq(T) /\ Len(piece) = count /\ \A i \in 1..count : piece[i] = taken[m][o + i]
    <3>1. \A i \in 1..count : o + i \in 1..size
      BY <1>4, <1>5, <1>12
    <3>2. \A i \in 1..count : taken[m][o + i] \in T
      BY <2>2, <3>1
    <3> QED
      BY <1>12, <1>15, <3>2
  <2>6. /\ got \in Seq(T) /\ Len(got) = o + count /\ DOMAIN got = 1..(o + count)
        /\ \A i \in 1..(o + count) : got[i] = IF i <= o THEN g[i] ELSE piece[i - o]
    <3>1. /\ g \o piece \in Seq(T) /\ Len(g \o piece) = Len(g) + Len(piece)
          /\ DOMAIN (g \o piece) = 1..Len(g \o piece)
          /\ \A i \in 1..(Len(g) + Len(piece)) :
               (g \o piece)[i] = IF i <= Len(g) THEN g[i] ELSE piece[i - Len(g)]
      BY <2>4, <2>5, CatIs
    <3>2. Len(g) = o /\ Len(piece) = count /\ got = g \o piece
      BY <1>13, <2>3, <2>4, <2>5
    <3> QED
      BY <3>1, <3>2
  <2>7. \A i \in 1..(o + count) : got[i] = taken[m][i]
    <3>1. SUFFICES ASSUME NEW i \in 1..(o + count) PROVE got[i] = taken[m][i]
      OBVIOUS
    <3>2. CASE i <= o
      <4>1. i \in 1..o
        BY <1>5, <1>12, <3>2
      <4> QED
        BY <2>4, <2>6, <3>2, <4>1
    <3>3. CASE ~(i <= o)
      <4>1. i - o \in 1..count /\ o + (i - o) = i
        BY <1>5, <1>12, <3>3
      <4> QED
        BY <2>5, <2>6, <3>3, <4>1
    <3> QED
      BY <3>2, <3>3
  <2>8. got = [i \in DOMAIN got |-> got[i]]
    BY <2>6
  <2> QED
    BY <2>6, <2>7, <2>8
<1>17. count # len - r => ReadBlock(nid, o + count) = block
  <2>1. SUFFICES ASSUME count # len - r PROVE ReadBlock(nid, o + count) = block
    OBVIOUS
  <2>2. PICK s \in 0..(BlockSize - 1) : s = r + count /\ o + count = q * BlockSize + s
    <3>1. r + count \in 0..(BlockSize - 1) /\ o + count = q * BlockSize + (r + count)
      BY <1>2, <1>6, <1>9, <1>10, <1>12, <2>1
    <3> QED
      BY <3>1
  <2>3. (o + count) \div BlockSize = q
    BY ONLY <1>2, <1>6, <2>2, DivMod
  <2> QED
    BY <1>1, <1>4, <2>3 DEF ReadBlock
<1>18. /\ DOMAIN file' = {"state", "nid", "offset", "buf", "got"}
       /\ file'.state = "open" /\ file'.nid = nid /\ file'.offset = o + count
       /\ file'.got = [i \in 1..(o + count) |-> taken[m][i]]
       /\ file'.buf = NoBlock \/ file'.buf = ReadBlock(nid, o + count)
  BY <1>1, <1>3, <1>14, <1>16, <1>17
<1>19. UNCHANGED <<image, tree, node, taken, mode>>
  BY DEF builderVars
<1>20. ReadBlock(file.nid, file.offset)' = ReadBlock(nid, o + count)
  <2>1. PICK offset : offset = o + count
    OBVIOUS
  <2>2. ReadBlock(nid, offset)' = ReadBlock(nid, offset)
    BY <1>19, ReadsAlike
  <2>3. file'.nid = nid /\ file'.offset = offset
    BY <1>18, <2>1
  <2> QED
    BY <2>1, <2>2, <2>3
<1>21. Reading(m)'
  <2>1. Reached(tree)' = Reached(tree) /\ IsDir(m)' = IsDir(m)
    BY <1>19 DEF IsDir
  <2>2. file'.offset \in 0..node'[m].size
    BY <1>1, <1>4, <1>5, <1>12, <1>18, <1>19
  <2> QED
    BY <1>3, <1>18, <1>19, <1>20, <2>1, <2>2 DEF Reading, NoBlock
<1>22. FileInv'
  BY <1>19, <1>21 DEF FileInv
<1>23. WalkInv'
  BY WalkStays DEF WalkInv, NoFile
<1> QED
  BY <1>22, <1>23

LEMMA ReadReads ==
  ASSUME Packed, WalkInv, FileInv, UNCHANGED <<image, builderVars, source>>,
         NEW n \in ReadSizes, ReadBuffered(n) \/ ReadAnew(n)
  PROVE  WalkInv' /\ FileInv'
<1>1. n \in Nat /\ n > 0 /\ file.state = "open" /\ ~AtEof
  BY ReaderAssumption DEF ReaderAssumption, ReadBuffered, ReadAnew
<1>2. PICK m \in DOMAIN node : Reading(m)
  BY <1>1 DEF FileInv, NoFile
<1>3. file.offset < InodeAt(file.nid).size
  <2>1. InodeAt(file.nid).size = node[m].size /\ node[m].size \in Nat
    BY <1>2, NodeIs, TheFieldsAre DEF Reading
  <2> QED
    BY <1>1, <1>2, <2>1 DEF AtEof, Reading
<1>4. PICK block : block = ReadBlock(file.nid, file.offset)
  OBVIOUS
<1>5. \/ Stop("unreadable")
      \/ /\ block # NoBlock /\ ReadFrom(block, n)
         /\ UNCHANGED <<mode, walkVars>>
  <2>1. CASE ReadBuffered(n)
    BY <1>2, <1>4, <2>1 DEF ReadBuffered, Reading
  <2>2. CASE ReadAnew(n)
    BY <1>4, <2>2 DEF ReadAnew
  <2> QED
    BY <2>1, <2>2
<1>6. CASE Stop("unreadable")
  <2>1. phase' = "built"
    BY DEF Packed, builderVars
  <2> QED
    BY <1>6, <2>1, StopReads
<1>7. CASE /\ block # NoBlock /\ ReadFrom(block, n)
           /\ UNCHANGED <<mode, walkVars>>
  BY <1>1, <1>2, <1>3, <1>4, <1>7, PieceReads
<1> QED
  BY <1>5, <1>6, <1>7

LEMMA StepReads ==
  ASSUME Packed, WalkInv, FileInv, UNCHANGED <<image, builderVars, source>>,
         ReaderStep \/ OpenFile
  PROVE  WalkInv' /\ FileInv'
<1>1. phase' = "built"
  BY DEF Packed, builderVars
<1>2. CASE BadDirent
  BY <1>1, <1>2, StopReads DEF BadDirent
<1>3. CASE RefuseEntry
  <2>1. Refusal \notin {"idle", "walking"}
    BY DEF Refusal
  <2> QED
    BY <1>1, <1>3, <2>1, StopReads DEF RefuseEntry
<1> QED
  BY <1>2, <1>3, NextBlockReads, PopDirReads, SkipDotReads, YieldReads, EofReads, ReadReads,
     OpenReads DEF ReaderStep

(* While the image is built nobody reads it.                               *)
LEMMA BuildReads ==
  ASSUME WalkInv, FileInv, phase # "built", UNCHANGED readerVars
  PROVE  WalkInv' /\ FileInv'
<1>1. walk' = "idle" /\ file' = NoFile /\ seen' = seen
  BY DEF WalkInv, readerVars, walkVars
<1> QED
  BY <1>1 DEF WalkInv, FileInv, NoFile, Sequence

LEMMA WaitReads ==
  ASSUME WalkInv, FileInv, UNCHANGED <<image, builderVars, source, readerVars>>
  PROVE  WalkInv' /\ FileInv'
<1>1. UNCHANGED <<mode, walkVars, file, walk, seen, phase>>
  BY DEF readerVars, walkVars, builderVars
<1>2. CASE walk = "idle"
  BY <1>1, <1>2 DEF WalkInv, FileInv, NoFile, Sequence
<1>3. CASE walk # "idle"
  BY <1>1, <1>3, WalkStays, FileStays
<1> QED
  BY <1>2, <1>3

HostInv ==
  source = FromHost => BuildTypes /\ LayInv /\ EmitInv /\ WalkInv /\ FileInv

LEMMA StepHolds ==
  ASSUME HostInv, [Next]_vars
  PROVE  HostInv'
<1>1. source' = source
  BY DEF Next, Step, Build, Intrude, Start, Read, Inspect, Terminated, vars
<1>2. SUFFICES ASSUME source = FromHost
               PROVE  (BuildTypes /\ LayInv /\ EmitInv /\ WalkInv /\ FileInv)'
  BY <1>1 DEF HostInv
<1>3. BuildTypes /\ LayInv /\ EmitInv /\ WalkInv /\ FileInv
  BY <1>2 DEF HostInv
<1>4. BuildTypes' /\ LayInv' /\ EmitInv'
  BY <1>3, StepLays, StepEmits
<1>5. CASE Build \/ Intrude
  <2>1. phase # "built" /\ UNCHANGED readerVars
    BY <1>5 DEF Build, Intrude, BuilderStep, RefuseNode, ScanNode, AssignNid, PlaceDirent, LayoutDir,
                LayoutPayload, OutOfBlocks, EmitNode, FileChanged, HostWrite
  <2> QED
    BY <1>3, <1>4, <2>1, BuildReads
<1>6. CASE Start \/ Read
  <2>1. Packed /\ UNCHANGED <<image, builderVars, source>>
    BY <1>2, <1>3, <1>6 DEF Packed, Start, Read
  <2> QED
    BY <1>3, <1>4, <1>6, <2>1, StartReads, StepReads DEF Read
<1>7. CASE Inspect \/ Terminated \/ UNCHANGED vars
  <2>1. UNCHANGED <<image, builderVars, source, readerVars>>
    BY <1>7 DEF Inspect, Terminated, vars
  <2> QED
    BY <1>3, <1>4, <2>1, WaitReads
<1> QED
  BY <1>4, <1>5, <1>6, <1>7 DEF Next, Step

(* A packed file is read as it was when its bytes were taken: whatever the *)
(* host tree, whoever writes to it meanwhile, and whatever buffers it is   *)
(* read with, what was read is the beginning of those bytes, and all of    *)
(* them at the end of the file.                                            *)
THEOREM PackedFilesAreExact == Spec => [](source = FromHost => FilesAreExact)
<1>1. Init => HostInv
  <2>1. ASSUME Init, source = FromHost PROVE WalkInv /\ FileInv
    BY <2>1 DEF Init, ReaderInit, WalkInv, FileInv, Sequence
  <2> QED
    BY <2>1, InitEmits DEF HostInv
<1>2. HostInv /\ [Next]_vars => HostInv'
  BY StepHolds
<1>3. HostInv => (source = FromHost => FilesAreExact)
  <2>1. SUFFICES ASSUME source = FromHost, BuildTypes, LayInv, EmitInv, WalkInv, FileInv
                 PROVE  FilesAreExact
    BY DEF HostInv
  <2>2. CASE file.state \notin {"open", "eof"}
    BY <2>2 DEF FilesAreExact
  <2>3. CASE file.state \in {"open", "eof"}
    <3>1. PICK m \in DOMAIN node : Reading(m)
      BY <2>1, <2>3 DEF FileInv, NoFile
    <3>2. Packed
      BY <2>1, <2>3 DEF Packed, WalkInv, NoFile
    <3>3. /\ m \in Reached(tree) /\ ~IsDir(m)
          /\ node[m].nid # 0 /\ node[m].nid \in Nat /\ node[m].size \in Nat
          /\ Sequence(taken[m]) /\ Len(taken[m]) = node[m].size
      BY <3>1, <3>2, NodeIs, Geometry DEF Reading, Room, Packed, LayInv, LaidInv
    <3>4. \A n \in DOMAIN node : node[n].nid = node[m].nid => n = m
      <4>1. ASSUME NEW n \in DOMAIN node, node[n].nid = node[m].nid, n # m
            PROVE  FALSE
        <5>1. n \in Numbered /\ m \in Numbered \ {n}
          BY <3>3, <4>1 DEF Numbered
        <5>2. Slots(n) \cap Slots(m) = {}
          BY <2>1, <5>1 DEF LayInv, NothingOverlaps
        <5>3. node[n].nid \in Slots(n) /\ node[n].nid \in Slots(m)
          BY <3>3, <4>1 DEF Slots, ExtendedInode
        <5> QED
          BY <5>2, <5>3
      <4> QED
        BY <4>1
    <3>5. (CHOOSE n \in DOMAIN node : node[n].nid = file.nid) = m
      BY <3>1, <3>4 DEF Reading
    <3>6. Holds(file.nid) = taken[m]
      <4>1. Holds(file.nid) = IF node[m].size = 0 THEN <<>> ELSE taken[m]
        <5> DEFINE c == CHOOSE n \in DOMAIN node : node[n].nid = file.nid
        <5>1. Holds(file.nid) = IF node[c].size = 0 THEN <<>> ELSE taken[c]
          BY <2>1, Zenon DEF Holds
        <5>2. c = m
          BY <3>5
        <5> HIDE DEF c
        <5> QED
          BY <5>1, <5>2
      <4>2. node[m].size = 0 => taken[m] = <<>>
        BY <3>3 DEF Sequence
      <4> QED
        BY <4>1, <4>2
    <3>7. PICK s, o, got : s = taken[m] /\ o = file.offset /\ got = file.got
      OBVIOUS
    <3>8. o \in 0..Len(s) /\ Len(s) \in Nat /\ got = [i \in 1..o |-> s[i]]
          /\ s \in Seq({s[i] : i \in DOMAIN s})
      BY <3>1, <3>3, <3>7 DEF Reading, Sequence
    <3>9. SubSeq(s, 1, o) = got /\ Len(got) = o /\ SubSeq(got, 1, o) = got
      <4>1. o \in Nat /\ \A i \in 1..o : i \in 1..Len(s) /\ s[i] \in {s[j] : j \in DOMAIN s}
        BY <3>8
      <4>2. got \in Seq({s[i] : i \in DOMAIN s}) /\ Len(got) = o
        BY <3>8, <4>1
      <4>3. SubSeq(s, 1, o) = [i \in 1..o |-> s[i]]
        BY <3>8, <4>1
      <4>4. SubSeq(got, 1, o) = [i \in 1..o |-> got[i]]
        BY <4>1, <4>2
      <4> QED
        BY <3>8, <4>2, <4>3, <4>4
    <3>10. Seqs!IsPrefix(got, s)
      BY <3>8, <3>9 DEF Seqs!IsPrefix
    <3>11. file.state = "eof" => got = s
      <4>1. SUFFICES ASSUME file.state = "eof" PROVE got = s
        OBVIOUS
      <4>2. o = Len(s)
        BY <3>1, <3>3, <3>7, <4>1 DEF Reading
      <4>3. s = [i \in 1..Len(s) |-> s[i]]
        BY <3>8
      <4> QED
        BY <3>8, <4>2, <4>3
    <3> QED
      BY <3>6, <3>7, <3>10, <3>11 DEF FilesAreExact
  <2> QED
    BY <2>2, <2>3
<1> QED
  BY <1>1, <1>2, <1>3, PTL DEF Spec

-----------------------------------------------------------------------------
(* What a packed directory holds.  The entries of its blocks, one block    *)
(* after the other, ascend and are the first ones of the directory.        *)

(* Where the name of every entry ends in a block.                          *)
Ends(entries, end) ==
  /\ end \in [0..Len(entries) -> Nat] /\ end[0] = Len(entries)
  /\ \A k \in 1..Len(entries) : end[k] = end[k - 1] + NameLen[entries[k].name]

Fills(entries, used) == \E end : Ends(entries, end) /\ end[Len(entries)] = used

Ascending(blocks) ==
  \A b, c \in DOMAIN blocks : \A i \in DOMAIN blocks[b], j \in DOMAIN blocks[c] :
    b < c \/ (b = c /\ i < j) => blocks[b][i].name < blocks[c][j].name

Holding(blocks) == UNION {Elements(blocks[b]) : b \in DOMAIN blocks}
First(entries, placed) == {entries[i] : i \in 1..placed}

Arranges(blocks, used, entries, placed) ==
  /\ Ascending(blocks)
  /\ Holding(blocks) = First(entries, placed)
  /\ \A b \in 1..(Len(blocks) - 1) : \E u \in 1..BlockSize : Fills(blocks[b], u)
  /\ Fills(blocks[Len(blocks)], used)

Arranged(n) ==
  \E used \in 1..BlockSize :
    /\ node[n].size = (node[n].blocks - 1) * BlockSize + used
    /\ Arranges(node[n].data, used, Entries(n), Len(Entries(n)))

DirInv ==
  /\ phase = "layout" =>
       pack = EmptyPack \/ (IsDir(Current) /\ Arranges(pack.blocks, pack.used, Entries(Current), pack.placed))
  /\ phase \in {"layout", "emit", "built"} =>
       \A n \in Reached(tree) : IsDir(n) /\ node[n].blocks # 0 => Arranged(n)
  /\ phase \in {"scan", "assign", "layout"} => \A n \in Nodes : taken[n] = <<>>
  /\ phase \in {"emit", "built"} =>
       \A n \in Nodes : IsDir(n) /\ taken[n] # <<>> => taken[n] = DirCells(node[n].data)

LEMMA FillsNone == Fills(<<>>, 0)
<1>1. PICK end : end = [k \in 0..0 |-> 0]
  OBVIOUS
<1>2. Len(<<>>) = 0
  OBVIOUS
<1>3. end \in [0..0 -> Nat] /\ end[0] = 0
  BY <1>1
<1>4. Ends(<<>>, end)
  BY <1>2, <1>3 DEF Ends
<1> QED
  BY <1>2, <1>3, <1>4 DEF Fills

LEMMA FillsMore ==
  ASSUME NEW entries \in Seq(DirentPlan), NEW used \in Nat, Fills(entries, used), NEW e \in DirentPlan
  PROVE  Fills(Append(entries, e), used + Needed(e)) /\ Needed(e) \in Nat
<1>1. PICK end : Ends(entries, end) /\ end[Len(entries)] = used
  BY DEF Fills
<1>2. PICK n, more, last, full :
        /\ n = Len(entries) /\ more = Append(entries, e)
        /\ last = NameLen[e.name] /\ full = used + Needed(e)
  OBVIOUS
<1>3. /\ n \in Nat /\ Len(more) = n + 1 /\ more[n + 1] = e /\ \A k \in 1..n : more[k] = entries[k]
      /\ last \in Nat /\ full = used + 1 + last /\ full \in Nat
  <2>1. last \in Nat
    BY <1>2, LayoutAssumption DEF LayoutAssumption, DirentPlan
  <2>2. full = used + (1 + last)
    BY <1>2 DEF Needed
  <2>3. n \in Nat /\ Len(more) = n + 1 /\ more[n + 1] = e /\ \A k \in 1..n : more[k] = entries[k]
    BY <1>2
  <2> QED
    BY <2>1, <2>2, <2>3
<1>4. /\ end \in [0..n -> Nat] /\ end[0] = n /\ end[n] = used
      /\ \A k \in 1..n : end[k] = end[k - 1] + NameLen[entries[k].name]
  BY <1>1, <1>2 DEF Ends
<1>5. PICK later : later = [k \in 0..(n + 1) |-> IF k = n + 1 THEN full ELSE end[k] + 1]
  OBVIOUS
<1>6. /\ later[n + 1] = full /\ \A k \in 0..n : later[k] = end[k] + 1 /\ end[k] \in Nat
      /\ later \in [0..(n + 1) -> Nat]
  <2>1. \A k \in 0..(n + 1) : k # n + 1 => k \in 0..n
    BY <1>3
  <2>2. n + 1 \in 0..(n + 1) /\ \A k \in 0..n : k \in 0..(n + 1) /\ k # n + 1
    BY <1>3
  <2>3. \A k \in 0..n : end[k] \in Nat
    BY <1>4
  <2> QED
    BY <1>3, <1>5, <2>1, <2>2, <2>3
<1>7. later[0] = n + 1
  BY <1>3, <1>4, <1>6
<1>8. ASSUME NEW k \in 1..(n + 1)
      PROVE  later[k] = later[k - 1] + NameLen[more[k].name]
  <2>1. CASE k = n + 1
    <3>1. later[n] = used + 1 /\ k - 1 = n
      BY <1>3, <1>4, <1>6, <2>1
    <3> QED
      BY <1>2, <1>3, <1>6, <2>1, <3>1
  <2>2. CASE k # n + 1
    <3>1. k \in 1..n /\ k \in 0..n /\ k - 1 \in 0..n
      BY <1>3, <2>2
    <3>2. PICK len : len = NameLen[entries[k].name]
      OBVIOUS
    <3>3. len \in Nat /\ NameLen[more[k].name] = len
      <4>1. entries[k] \in DirentPlan
        BY <1>2, <3>1
      <4> QED
        BY <1>3, <3>1, <3>2, <4>1, LayoutAssumption DEF LayoutAssumption, DirentPlan
    <3>4. end[k] = end[k - 1] + len
      BY <1>4, <3>1, <3>2
    <3> QED
      BY <1>6, <3>1, <3>3, <3>4
  <2> QED
    BY <2>1, <2>2
<1>9. Ends(more, later)
  BY <1>3, <1>6, <1>7, <1>8 DEF Ends
<1>10. Needed(e) \in Nat
  BY <1>2, <1>3 DEF Needed
<1> QED
  BY <1>2, <1>3, <1>6, <1>9, <1>10 DEF Fills

(* One more entry, behind all others.                                      *)
Adds(blocks, more, e) ==
  /\ \A b \in DOMAIN blocks : b \in DOMAIN more
       /\ \A i \in DOMAIN blocks[b] : i \in DOMAIN more[b] /\ more[b][i] = blocks[b][i]
  /\ \A b \in DOMAIN more : \A i \in DOMAIN more[b] :
       \/ b \in DOMAIN blocks /\ i \in DOMAIN blocks[b]
       \/ b = Len(more) /\ i = Len(more[b]) /\ more[b][i] = e
  /\ \E b \in DOMAIN more : \E i \in DOMAIN more[b] : more[b][i] = e

LEMMA AddsLast ==
  ASSUME NEW T, NEW bs \in Seq(Seq(T)), Len(bs) > 0, NEW e \in T, NEW bs1,
         bs1 = [bs EXCEPT ![Len(bs)] = Append(@, e)]
  PROVE  Adds(bs, bs1, e) /\ bs1[Len(bs)] = Append(bs[Len(bs)], e)
<1>1. PICK l : l = Len(bs)
  OBVIOUS
<1>2. l \in Nat /\ l \in 1..l /\ bs \in [1..l -> Seq(T)] /\ DOMAIN bs = 1..l
  BY <1>1
<1>3. PICK s : s = bs[l]
  OBVIOUS
<1>4. s \in Seq(T)
  BY <1>2, <1>3
<1>5. PICK t : t = Append(s, e)
  OBVIOUS
<1>6. /\ DOMAIN t = 1..(Len(s) + 1) /\ DOMAIN s = 1..Len(s) /\ Len(s) \in Nat /\ Len(t) = Len(s) + 1
      /\ \A i \in 1..Len(s) : t[i] = s[i] /\ t[Len(s) + 1] = e
      /\ t \in Seq(T) /\ t[Len(t)] = e
  BY <1>4, <1>5
<1>7. bs1 = [bs EXCEPT ![l] = t]
  BY <1>1, <1>3, <1>5
<1>8. DOMAIN bs1 = 1..l /\ bs1[l] = t /\ \A b \in 1..l : b # l => bs1[b] = bs[b]
  BY <1>2, <1>7
<1>9. bs1 \in [1..l -> Seq(T)]
  BY <1>2, <1>6, <1>8, <1>7
<1>10. Len(bs1) = l
  BY <1>2, <1>9
<1>11. ASSUME NEW b \in 1..l
       PROVE  \A i \in DOMAIN bs[b] : i \in DOMAIN bs1[b] /\ bs1[b][i] = bs[b][i]
  BY <1>2, <1>3, <1>6, <1>8
<1>12. ASSUME NEW b \in 1..l, NEW i \in DOMAIN bs1[b]
       PROVE  \/ i \in DOMAIN bs[b]
              \/ b = l /\ i = Len(bs1[b]) /\ bs1[b][i] = e
  <2>1. CASE b # l
    BY <1>8, <2>1
  <2>2. CASE b = l
    <3>1. i \in 1..(Len(s) + 1)
      BY <1>6, <1>8, <2>2
    <3>2. i \in 1..Len(s) \/ i = Len(s) + 1
      BY <1>6, <3>1
    <3> QED
      BY <1>3, <1>6, <1>8, <2>2, <3>2
  <2> QED
    BY <2>1, <2>2
<1>13. l \in DOMAIN bs1 /\ Len(t) \in DOMAIN bs1[l] /\ bs1[l][Len(t)] = e
  BY <1>2, <1>6, <1>8
<1>14. Adds(bs, bs1, e)
  BY <1>2, <1>8, <1>10, <1>11, <1>12, <1>13 DEF Adds
<1> QED
  BY <1>1, <1>3, <1>5, <1>8, <1>14

LEMMA AddsBlock ==
  ASSUME NEW T, NEW bs \in Seq(Seq(T)), NEW e \in T, NEW bs1, bs1 = Append(bs, <<e>>)
  PROVE  Adds(bs, bs1, e) /\ bs1[Len(bs) + 1] = <<e>>
<1>1. PICK x, l : x = <<e>> /\ l = Len(bs)
  OBVIOUS
<1>2. x \in Seq(T) /\ Len(x) = 1 /\ DOMAIN x = 1..1 /\ x[1] = e
  BY <1>1
<1>3. bs1 = Append(bs, x)
  BY <1>1
<1>4. /\ bs1 \in Seq(Seq(T)) /\ Len(bs1) = l + 1 /\ bs1[l + 1] = x
      /\ l \in Nat /\ DOMAIN bs1 = 1..(l + 1) /\ DOMAIN bs = 1..l
      /\ \A b \in 1..l : bs1[b] = bs[b]
  BY <1>1, <1>2, <1>3
<1>5. \A b \in DOMAIN bs1 : b \in DOMAIN bs \/ b = l + 1
  BY <1>4
<1>6. \A b \in 1..l : b \in 1..(l + 1)
  BY <1>4
<1>7. \A i \in DOMAIN bs1[l + 1] : i = Len(bs1[l + 1]) /\ bs1[l + 1][i] = e
  BY <1>2, <1>4
<1>8. l + 1 \in DOMAIN bs1 /\ 1 \in DOMAIN bs1[l + 1] /\ bs1[l + 1][1] = e
  BY <1>2, <1>4
<1>9. Adds(bs, bs1, e)
  BY <1>4, <1>5, <1>6, <1>7, <1>8 DEF Adds
<1> QED
  BY <1>1, <1>4, <1>9

LEMMA AddsNext ==
  ASSUME NEW bs \in Seq(Seq(DirentPlan)), NEW bs1 \in Seq(Seq(DirentPlan)),
         NEW entries \in Seq(DirentPlan), NEW p \in Nat, p + 1 <= Len(entries),
         \A i, j \in 1..Len(entries) : i < j => entries[i].name < entries[j].name,
         Ascending(bs), Holding(bs) = First(entries, p), Adds(bs, bs1, entries[p + 1])
  PROVE  Ascending(bs1) /\ Holding(bs1) = First(entries, p + 1)
<1>1. PICK e : e = entries[p + 1]
  OBVIOUS
<1>2. \A x \in Holding(bs) : x.name < e.name
  <2>1. SUFFICES ASSUME NEW i \in 1..p PROVE entries[i].name < e.name
    BY DEF First
  <2>2. i \in 1..Len(entries) /\ p + 1 \in 1..Len(entries) /\ i < p + 1
    OBVIOUS
  <2> QED
    BY <1>1, <2>2
<1>3. \A b \in DOMAIN bs : \A i \in DOMAIN bs[b] : bs[b][i] \in Holding(bs)
  BY DEF Holding, Elements
<1>4. Ascending(bs1)
  <2>1. SUFFICES ASSUME NEW b \in DOMAIN bs1, NEW c \in DOMAIN bs1,
                        NEW i \in DOMAIN bs1[b], NEW j \in DOMAIN bs1[c],
                        b < c \/ (b = c /\ i < j)
                 PROVE  bs1[b][i].name < bs1[c][j].name
    BY DEF Ascending
  <2>2. ~(b = Len(bs1) /\ i = Len(bs1[b]))
    <3>1. DOMAIN bs1 = 1..Len(bs1) /\ Len(bs1) \in Nat
      OBVIOUS
    <3>2. bs1[c] \in Seq(DirentPlan)
      OBVIOUS
    <3>3. DOMAIN bs1[c] = 1..Len(bs1[c]) /\ Len(bs1[c]) \in Nat
      BY <3>2
    <3> QED
      BY <2>1, <3>1, <3>3
  <2>3. b \in DOMAIN bs /\ i \in DOMAIN bs[b] /\ bs1[b][i] = bs[b][i]
    BY <2>2 DEF Adds
  <2>4. CASE c \in DOMAIN bs /\ j \in DOMAIN bs[c]
    <3>1. bs1[c][j] = bs[c][j]
      BY <2>4 DEF Adds
    <3> QED
      BY <2>1, <2>3, <2>4, <3>1 DEF Ascending
  <2>5. CASE bs1[c][j] = e
    BY <1>2, <1>3, <2>3, <2>5
  <2> QED
    BY <1>1, <2>4, <2>5 DEF Adds
<1>5. Holding(bs1) = Holding(bs) \cup {e}
  <2>1. ASSUME NEW x \in Holding(bs1) PROVE x \in Holding(bs) \cup {e}
    <3>1. PICK b \in DOMAIN bs1 : \E i \in DOMAIN bs1[b] : x = bs1[b][i]
      BY DEF Holding, Elements
    <3>2. PICK i \in DOMAIN bs1[b] : x = bs1[b][i]
      BY <3>1
    <3>3. \/ b \in DOMAIN bs /\ i \in DOMAIN bs[b] /\ x = bs[b][i]
          \/ x = e
      BY <1>1, <3>2 DEF Adds
    <3> QED
      BY <1>3, <3>3
  <2>2. ASSUME NEW x \in Holding(bs) PROVE x \in Holding(bs1)
    <3>1. PICK b \in DOMAIN bs : \E i \in DOMAIN bs[b] : x = bs[b][i]
      BY DEF Holding, Elements
    <3>2. PICK i \in DOMAIN bs[b] : x = bs[b][i]
      BY <3>1
    <3>3. b \in DOMAIN bs1 /\ i \in DOMAIN bs1[b] /\ bs1[b][i] = x
      BY <3>2 DEF Adds
    <3> QED
      BY <3>3 DEF Holding, Elements
  <2>3. e \in Holding(bs1)
    BY <1>1 DEF Holding, Elements, Adds
  <2> QED
    BY <2>1, <2>2, <2>3
<1>6. First(entries, p + 1) = First(entries, p) \cup {e}
  <2>1. \A i \in 1..(p + 1) : i \in 1..p \/ i = p + 1
    OBVIOUS
  <2>2. p + 1 \in 1..(p + 1) /\ \A i \in 1..p : i \in 1..(p + 1)
    OBVIOUS
  <2> QED
    BY <1>1, <2>1, <2>2 DEF First
<1> QED
  BY <1>4, <1>5, <1>6

LEMMA ArrangesMore ==
  ASSUME NEW bs \in Seq(Seq(DirentPlan)), Len(bs) > 0, NEW u \in 0..BlockSize,
         NEW entries \in Seq(DirentPlan), NEW p \in Nat, p + 1 <= Len(entries),
         \A i, j \in 1..Len(entries) : i < j => entries[i].name < entries[j].name,
         Arranges(bs, u, entries, p), NEW e, e = entries[p + 1], Needed(e) \in 1..BlockSize
  PROVE  /\ u + Needed(e) <= BlockSize =>
              Arranges([bs EXCEPT ![Len(bs)] = Append(@, e)], u + Needed(e), entries, p + 1)
         /\ ~(u + Needed(e) <= BlockSize) =>
              Arranges(Append(bs, <<e>>), Needed(e), entries, p + 1)
<1>1. PICK l, need : l = Len(bs) /\ need = Needed(e)
  OBVIOUS
<1>2. /\ l \in Nat /\ l > 0 /\ l \in 1..l /\ need \in 1..BlockSize /\ u \in Nat
      /\ BlockSize \in Nat /\ e \in DirentPlan /\ bs[l] \in Seq(DirentPlan)
  <2>1. BlockSize \in Nat
    BY LayoutAssumption DEF LayoutAssumption
  <2>2. p + 1 \in 1..Len(entries)
    OBVIOUS
  <2> QED
    BY <1>1, <2>1, <2>2
<1>3. /\ Ascending(bs) /\ Holding(bs) = First(entries, p)
      /\ \A b \in 1..(l - 1) : \E v \in 1..BlockSize : Fills(bs[b], v)
      /\ Fills(bs[l], u)
  BY <1>1 DEF Arranges
<1>9. p + 1 <= Len(entries) /\ e = entries[p + 1]
      /\ \A i, j \in 1..Len(entries) : i < j => entries[i].name < entries[j].name
  OBVIOUS
<1>4. ASSUME u + need <= BlockSize, NEW bs1 \in Seq(Seq(DirentPlan)), Len(bs1) = l,
             \A b \in 1..l : b # l => bs1[b] = bs[b],
             Adds(bs, bs1, e), bs1[l] = Append(bs[l], e)
      PROVE  Arranges(bs1, u + need, entries, p + 1)
  <2>3. Ascending(bs1) /\ Holding(bs1) = First(entries, p + 1)
    BY ONLY bs \in Seq(Seq(DirentPlan)), entries \in Seq(DirentPlan), p \in Nat, <1>3, <1>4, <1>9,
            bs1 \in Seq(Seq(DirentPlan)), AddsNext, SMTT(20)
  <2>4. Fills(bs1[l], u + need)
    BY <1>1, <1>2, <1>3, <1>4, FillsMore
  <2>5. \A b \in 1..(l - 1) : b \in 1..l /\ b # l
    BY ONLY <1>2
  <2>6. \A b \in 1..(l - 1) : \E v \in 1..BlockSize : Fills(bs1[b], v)
    BY ONLY <1>3, <1>4, <2>5
  <2> QED
    BY ONLY <1>4, <2>3, <2>4, <2>6 DEF Arranges
<1>5. ASSUME ~(u + need <= BlockSize), NEW bs1 \in Seq(Seq(DirentPlan)), Len(bs1) = l + 1,
             \A b \in 1..l : bs1[b] = bs[b],
             Adds(bs, bs1, e), bs1[l + 1] = <<e>>
      PROVE  Arranges(bs1, need, entries, p + 1)
  <2>3. Ascending(bs1) /\ Holding(bs1) = First(entries, p + 1)
    BY ONLY bs \in Seq(Seq(DirentPlan)), entries \in Seq(DirentPlan), p \in Nat, <1>3, <1>5, <1>9,
            bs1 \in Seq(Seq(DirentPlan)), AddsNext
  <2>4. Fills(bs1[l + 1], need)
    <3>1. <<>> \in Seq(DirentPlan) /\ <<e>> = Append(<<>>, e) /\ 0 \in Nat
      OBVIOUS
    <3>2. Fills(Append(<<>>, e), 0 + Needed(e))
      BY <1>2, <3>1, FillsNone, FillsMore
    <3>3. 0 + Needed(e) = need
      BY <1>1, <1>2
    <3> QED
      BY <1>5, <3>1, <3>2, <3>3
  <2>5. u \in 1..BlockSize
    BY ONLY <1>2, <1>5
  <2>6. \A b \in 1..l : b \in 1..(l - 1) \/ b = l
    BY ONLY <1>2
  <2>7. \A b \in 1..l : \E v \in 1..BlockSize : Fills(bs1[b], v)
    BY ONLY <1>3, <1>5, <2>5, <2>6
  <2>8. Len(bs1) - 1 = l /\ bs1[Len(bs1)] = bs1[l + 1]
    BY ONLY <1>2, <1>5
  <2>9. \A b \in 1..(Len(bs1) - 1) : \E v \in 1..BlockSize : Fills(bs1[b], v)
    BY ONLY <2>7, <2>8
  <2> QED
    BY ONLY <2>3, <2>4, <2>8, <2>9 DEF Arranges
<1>6. ASSUME u + need <= BlockSize, NEW bs1, bs1 = [bs EXCEPT ![Len(bs)] = Append(@, e)]
      PROVE  Arranges(bs1, u + need, entries, p + 1)
  <2>1. bs1 \in Seq(Seq(DirentPlan)) /\ Len(bs1) = l /\ \A b \in 1..l : b # l => bs1[b] = bs[b]
    BY <1>1, <1>2, <1>6, PutLast
  <2>2. Adds(bs, bs1, e) /\ bs1[l] = Append(bs[l], e)
    BY <1>1, <1>2, <1>6, AddsLast
  <2> QED
    BY ONLY <1>4, <1>6, <2>1, <2>2
<1>7. ASSUME ~(u + need <= BlockSize), NEW bs1, bs1 = Append(bs, <<e>>)
      PROVE  Arranges(bs1, need, entries, p + 1)
  <2>1. bs1 \in Seq(Seq(DirentPlan)) /\ Len(bs1) = l + 1 /\ \A b \in 1..l : bs1[b] = bs[b]
    BY <1>1, <1>2, <1>7, AddBlock
  <2>2. Adds(bs, bs1, e) /\ bs1[l + 1] = <<e>>
    BY <1>1, <1>2, <1>7, AddsBlock
  <2> QED
    BY ONLY <1>5, <1>7, <2>1, <2>2
<1> QED
  BY <1>1, <1>6, <1>7

LEMMA EmptyArranges ==
  ASSUME NEW entries
  PROVE  Arranges(EmptyPack.blocks, EmptyPack.used, entries, EmptyPack.placed)
<1>1. PICK bs : bs = <<<<>>>>
  OBVIOUS
<1>2. EmptyPack.blocks = bs /\ EmptyPack.used = 0 /\ EmptyPack.placed = 0
  BY <1>1 DEF EmptyPack
<1>3. Len(bs) = 1 /\ DOMAIN bs = 1..1 /\ bs[1] = <<>>
  BY <1>1
<1>4. \A b \in DOMAIN bs : bs[b] = <<>>
  BY <1>3
<1>5. DOMAIN <<>> = {}
  OBVIOUS
<1>6. Ascending(bs)
  BY <1>4, <1>5 DEF Ascending
<1>7. Holding(bs) = {} /\ First(entries, 0) = {}
  BY <1>4, <1>5 DEF Holding, Elements, First
<1>8. Fills(bs[1], 0)
  BY <1>3, FillsNone
<1>9. \A b \in 1..(1 - 1) : \E v \in 1..BlockSize : Fills(bs[b], v)
  OBVIOUS
<1> QED
  BY <1>2, <1>3, <1>6, <1>7, <1>8, <1>9 DEF Arranges

(* The entries of a directory are what the numbers of the nodes make them. *)
LEMMA EntriesStay ==
  ASSUME tree \in Hosts, tree' = tree, \A m \in Nodes : node'[m].nid = node[m].nid,
         NEW n \in Reached(tree)
  PROVE  Entries(n)' = Entries(n)
<1>1. HostTree(tree, Nodes) /\ Reached(tree) \subseteq Nodes /\ DownClosed(tree, Reached(tree))
  BY HostFacts, ReachedFacts DEF Nodes
<1>2. Parent(n) \in Nodes /\ Parent(n)' = Parent(n)
  <2>1. CASE n = Root
    BY <1>1, <2>1 DEF Parent
  <2>2. CASE n # Root
    <3>1. PICK p \in Nodes : n \in Children(p)
      BY <1>1, <2>2, ReachedFacts DEF Children
    <3>2. Parent(n) = CHOOSE p1 \in Nodes : n \in Children(p1)
      BY <2>2 DEF Parent, Nodes
    <3>3. Parent(n) \in Nodes
      BY <3>1, <3>2
    <3>4. Parent(n)' = Parent(n)
      BY DEF Parent, Children
    <3> QED
      BY <3>3, <3>4
  <2> QED
    BY <2>1, <2>2
<1>3. Children(n)' = Children(n) /\ \A c \in Children(n) : Named(c)' = Named(c)
  BY <1>1 DEF Children, Named, DownClosed
<1>4. DotOf(n)' = DotOf(n) /\ DotDotOf(n)' = DotDotOf(n)
  BY <1>1, <1>2 DEF DotOf, DotDotOf
<1> DEFINE all == {Named(c) : c \in Children(n)} \cup {DotOf(n), DotDotOf(n)}
<1>5. all' = all
  BY <1>3, <1>4
<1>6. Entries(n) = InOrder(all, [e \in all |-> e.name])
  BY DEF Entries, Named, DotOf, DotDotOf
<1>7. Entries(n)' = InOrder(all', [e \in all' |-> e.name])
  BY DEF Entries, Named, DotOf, DotDotOf
<1> HIDE DEF all
<1> QED
  BY <1>5, <1>6, <1>7

LEMMA ArrangedStays ==
  ASSUME tree \in Hosts, tree' = tree, \A m \in Nodes : node'[m].nid = node[m].nid,
         NEW n \in Reached(tree), node'[n] = node[n], Arranged(n)
  PROVE  Arranged(n)'
  BY EntriesStay DEF Arranged

(* The numbers, the layout and what was taken stay.                        *)
LEMMA DirStays ==
  ASSUME BuildTypes, DirInv, UNCHANGED <<tree, node, taken>>,
         \/ UNCHANGED <<phase, todo, pack>>
         \/ phase' = "failed"
  PROVE  DirInv'
<1>1. tree \in Hosts /\ Reached(tree) \subseteq Nodes
  BY ReachedFacts DEF BuildTypes, Nodes
<1>2. \A n \in Reached(tree) : Arranged(n) => Arranged(n)'
  BY <1>1, ArrangedStays
<1>3. CASE phase' = "failed"
  BY <1>3 DEF DirInv
<1>4. CASE UNCHANGED <<phase, todo, pack>>
  <2>1. \A n \in Nodes : taken[n] = <<>> => taken'[n] = <<>>
    OBVIOUS
  <2>2. phase' \in {"emit", "built"} =>
          \A n \in Nodes' : IsDir(n)' /\ taken'[n] # <<>> => taken'[n] = DirCells(node'[n].data)
    BY <1>4 DEF DirInv, Nodes, IsDir
  <2>3. phase' \in {"scan", "assign", "layout"} => \A n \in Nodes' : taken'[n] = <<>>
    BY <1>4 DEF DirInv, Nodes
  <2>4. phase' \in {"layout", "emit", "built"} =>
         \A n \in Reached(tree) : IsDir(n)' /\ node'[n].blocks # 0 => Arranged(n)'
    BY <1>2, <1>4 DEF DirInv, IsDir
  <2>5. phase' = "layout" =>
         pack' = EmptyPack \/ (IsDir(Current)' /\ Arranges(pack.blocks, pack.used, Entries(Current), pack.placed)')
    <3>1. SUFFICES ASSUME phase' = "layout", pack # EmptyPack
                   PROVE  IsDir(Current)' /\ Arranges(pack.blocks, pack.used, Entries(Current), pack.placed)'
      BY <1>4 DEF EmptyPack
    <3>2. IsDir(Current) /\ Arranges(pack.blocks, pack.used, Entries(Current), pack.placed)
      BY <1>4, <3>1 DEF DirInv
    <3>3. /\ Entries(Current)' = Entries(Current) /\ Current' = Current
      BY <1>4 DEF Entries, Parent, Children, Current
    <3> QED
      BY <1>4, <3>2, <3>3 DEF IsDir
  <2>6. EmptyPack' = EmptyPack
    BY DEF EmptyPack
  <2> QED
    BY <2>2, <2>3, <2>4, <2>5 DEF DirInv
<1> QED
  BY <1>3, <1>4

LEMMA PlaceDirentFills ==
  ASSUME BuildTypes, LayInv, DirInv, PlaceDirent
  PROVE  DirInv'
<1>1. /\ phase = "layout" /\ tree \in Hosts /\ IsDir(Current)
      /\ UNCHANGED <<tree, content, writes, phase, pending, todo, node, cursor, taken, image>>
      /\ pack.placed < Len(Entries(Current))
  BY DEF PlaceDirent, BuildTypes
<1>2. LayoutInv /\ PackFits /\ Current \in Reached(tree)
  BY <1>1, RestIs DEF LayInv, LayoutInv, TodoInv, Busy
<1>a. PICK entries, bs, u, p, e, last :
         /\ entries = Entries(Current) /\ bs = pack.blocks /\ u = pack.used /\ p = pack.placed
         /\ e = entries[p + 1] /\ last = Len(bs)
  OBVIOUS
<1>3. /\ entries \in Seq(DirentPlan)
      /\ \A i \in 1..Len(entries) : Needed(entries[i]) \in 2..BlockSize
      /\ \A i, j \in 1..Len(entries) : i < j => entries[i].name < entries[j].name
  BY <1>1, <1>2, <1>a, EntriesAre DEF LayoutInv, BuildTypes
<1>4. /\ pack'.placed = p + 1
      /\ pack'.blocks = IF u + Needed(e) <= BlockSize THEN [bs EXCEPT ![last] = Append(@, e)]
                        ELSE Append(bs, <<e>>)
      /\ pack'.used = IF u + Needed(e) <= BlockSize THEN u + Needed(e) ELSE Needed(e)
  BY <1>a DEF PlaceDirent
<1>5. Arranges(bs, u, entries, p)
  <2>1. CASE pack = EmptyPack
    BY <1>a, <2>1, EmptyArranges
  <2>2. CASE pack # EmptyPack
    BY <1>1, <1>a, <2>2 DEF DirInv
  <2> QED
    BY <2>1, <2>2
<1>6. p \in Nat /\ p + 1 <= Len(entries)
  BY <1>1, <1>2, <1>3, <1>a DEF PackFits
<1>7. bs \in Seq(Seq(DirentPlan)) /\ Len(bs) > 0 /\ u \in 0..BlockSize
  <2>0. BlockSize \in Nat
    BY LayoutAssumption DEF LayoutAssumption
  <2>1. CASE pack = EmptyPack
    <3>1. bs = <<<<>>>> /\ u = 0
      BY <1>a, <2>1 DEF EmptyPack
    <3> QED
      BY <2>0, <3>1
  <2>2. CASE pack # EmptyPack
    BY <1>2, <1>a, <2>0, <2>2 DEF PackFits, BlocksFit
  <2> QED
    BY <2>1, <2>2
<1>8. Needed(e) \in 1..BlockSize
  <2>1. p + 1 \in 1..Len(entries)
    BY <1>3, <1>6
  <2> QED
    BY <1>3, <1>a, <2>1
<1>9. Arranges(pack'.blocks, pack'.used, entries, p + 1)
  <2>1. /\ u + Needed(e) <= BlockSize =>
              Arranges([bs EXCEPT ![Len(bs)] = Append(@, e)], u + Needed(e), entries, p + 1)
        /\ ~(u + Needed(e) <= BlockSize) =>
              Arranges(Append(bs, <<e>>), Needed(e), entries, p + 1)
    BY <1>3, <1>5, <1>6, <1>7, <1>8, <1>a, ArrangesMore
  <2> QED
    BY <1>4, <1>a, <2>1
<1>10. Entries(Current)' = entries /\ IsDir(Current)'
  <2>1. Current' = Current /\ Entries(Current)' = Entries(Current)
    BY <1>1 DEF Entries, Parent, Children, Current
  <2> QED
    BY <1>1, <1>a, <2>1 DEF IsDir
<1>11. \A n \in Reached(tree) : Arranged(n) => Arranged(n)'
  BY <1>1, ArrangedStays
<1>12. (phase' = "layout" =>
         pack' = EmptyPack \/ (IsDir(Current) /\ Arranges(pack.blocks, pack.used, Entries(Current), pack.placed))')
  BY <1>4, <1>9, <1>10
<1>13. \A n \in Reached(tree) : IsDir(n)' /\ node'[n].blocks # 0 => Arranged(n)'
  BY <1>1, <1>11 DEF DirInv, IsDir
<1>14. \A n \in Nodes' : taken'[n] = <<>>
  BY <1>1 DEF DirInv, Nodes
<1>15. phase' = "layout" /\ Reached(tree)' = Reached(tree)
  BY <1>1
<1> QED
  BY <1>12, <1>13, <1>14, <1>15 DEF DirInv, EmptyPack

LEMMA ScanFills ==
  ASSUME BuildTypes, LayInv, DirInv, ScanNode
  PROVE  DirInv'
<1>1. phase = "scan" /\ phase' \in {"scan", "assign"} /\ UNCHANGED <<tree, taken>>
  BY DEF ScanNode
<1> QED
  BY <1>1 DEF DirInv, Nodes

LEMMA AssignFills ==
  ASSUME BuildTypes, LayInv, DirInv, AssignNid
  PROVE  DirInv'
<1>1. /\ phase = "assign" /\ phase' \in {"assign", "layout"} /\ UNCHANGED <<tree, pack, taken>>
      /\ node' = [node EXCEPT ![Current].nid = cursor.nid]
  BY DEF AssignNid
<1>2. pack' = EmptyPack /\ \A n \in Nodes : node[n].blocks = 0
  BY <1>1 DEF LayInv, AssignInv
<1>3. \A n \in Nodes : node'[n].blocks = 0
  BY <1>1, <1>2 DEF BuildTypes, NodeTypes
<1>4. Reached(tree) \subseteq Nodes /\ Nodes' = Nodes
  BY <1>1, ReachedFacts DEF Nodes, BuildTypes
<1>5. \A n \in Nodes : taken'[n] = <<>>
  BY <1>1 DEF DirInv
<1>6. EmptyPack' = EmptyPack
  BY DEF EmptyPack
<1> QED
  BY <1>1, <1>2, <1>3, <1>4, <1>5, <1>6 DEF DirInv

(* A node is laid out: its blocks hold its entries.                        *)
LEMMA ProceedFills ==
  ASSUME BuildTypes, DirInv, phase = "layout", pack' = EmptyPack,
         UNCHANGED <<tree, taken>>, NEW n \in Nodes,
         phase' \in {"layout", "emit", "failed"},
         \A m \in Nodes : m # n => node'[m] = node[m],
         node'[n].nid = node[n].nid, IsDir(n) /\ node'[n].blocks # 0 => Arranged(n)'
  PROVE  DirInv'
<1>1. Reached(tree) \subseteq Nodes /\ Nodes' = Nodes /\ tree \in Hosts
  BY ReachedFacts DEF Nodes, BuildTypes
<1>2. \A m \in Nodes : node'[m].nid = node[m].nid
  OBVIOUS
<1>3. ASSUME NEW m \in Reached(tree), IsDir(m)', node'[m].blocks # 0
      PROVE  Arranged(m)'
  <2>1. IsDir(m)
    BY <1>3 DEF IsDir
  <2>2. CASE m = n
    BY <1>3, <2>1, <2>2
  <2>3. CASE m # n
    <3>1. node'[m] = node[m]
      BY <1>1, <2>3
    <3>2. Arranged(m)
      BY <1>3, <2>1, <3>1 DEF DirInv
    <3> QED
      BY <1>1, <1>2, <3>1, <3>2, ArrangedStays
  <2> QED
    BY <2>2, <2>3
<1>4. \A m \in Nodes : taken'[m] = <<>>
  BY DEF DirInv
<1>5. EmptyPack' = EmptyPack
  BY DEF EmptyPack
<1>6. Reached(tree)' = Reached(tree)
  OBVIOUS
<1> QED
  BY <1>1, <1>3, <1>4, <1>5, <1>6 DEF DirInv

LEMMA LayoutDirFills ==
  ASSUME BuildTypes, LayInv, DirInv, LayoutDir
  PROVE  DirInv'
<1>a. PICK n, blocks, used, size, placed, bs :
        /\ n = Current /\ blocks = Len(bs) /\ used = pack.used
        /\ size = (blocks - 1) * BlockSize + used /\ placed = pack.placed /\ bs = pack.blocks
  OBVIOUS
<1>1. /\ phase = "layout" /\ tree \in Hosts /\ IsDir(n) /\ LayoutInv
      /\ placed = Len(Entries(n))
      /\ Place(n, size, blocks, bs) /\ Proceed(cursor.block + blocks)
      /\ pack' = EmptyPack /\ UNCHANGED <<tree, taken>>
  BY <1>a DEF LayoutDir, BuildTypes, LayInv
<1>2. n \in Reached(tree) /\ n \in Nodes
  BY <1>1, <1>a, RestIs DEF LayInv, TodoInv, Busy, BuildTypes
<1>3. placed > 0
  BY <1>1, <1>2, EntriesAre DEF LayoutInv, BuildTypes
<1>4. pack # EmptyPack
  BY <1>3, <1>a DEF EmptyPack
<1>5. used \in 1..BlockSize
  BY <1>1, <1>4, <1>a DEF LayoutInv, PackFits
<1>6. Arranges(bs, used, Entries(n), placed)
  BY <1>1, <1>4, <1>a DEF DirInv
<1>7. /\ \A m \in Nodes : m # n => node'[m] = node[m]
      /\ node'[n].nid = node[n].nid /\ node'[n].size = size /\ node'[n].blocks = blocks
      /\ node'[n].data = bs
  BY <1>1, <1>2 DEF Place, BuildTypes, NodeTypes
<1>8. \A m \in Nodes : node'[m].nid = node[m].nid
  BY <1>7
<1>9. Entries(n)' = Entries(n)
  BY <1>1, <1>2, <1>8, EntriesStay
<1>10. Arranged(n)'
  BY <1>1, <1>5, <1>6, <1>7, <1>9, <1>a DEF Arranged
<1>11. phase' \in {"layout", "emit", "failed"}
  BY <1>1 DEF Proceed
<1> QED
  BY <1>1, <1>2, <1>7, <1>10, <1>11, ProceedFills

LEMMA LayoutPayloadFills ==
  ASSUME BuildTypes, LayInv, DirInv, LayoutPayload
  PROVE  DirInv'
<1>a. PICK n : n = Current
  OBVIOUS
<1>1. /\ phase = "layout" /\ tree \in Hosts /\ ~IsDir(n)
      /\ UNCHANGED <<tree, taken, pack>> /\ phase' \in {"layout", "emit", "failed"}
  BY <1>a DEF LayoutPayload, BuildTypes, Proceed
<1>2. n \in Reached(tree) /\ n \in Nodes
  BY <1>1, <1>a, RestIs DEF LayInv, TodoInv, Busy, BuildTypes
<1>3. pack' = EmptyPack
  BY <1>1, <1>a DEF DirInv
<1>4. \A m \in Nodes : m # n => node'[m] = node[m]
  BY <1>a DEF LayoutPayload, Place, BuildTypes
<1>5. node'[n].nid = node[n].nid
  <2>1. \/ node' = node
        \/ \E size, blocks : Place(n, size, blocks, <<>>)
    BY <1>a DEF LayoutPayload
  <2>2. DOMAIN node = Nodes /\ DOMAIN node[n] = {"size", "nid", "blkaddr", "blocks", "data"}
    BY <1>2 DEF BuildTypes, NodeTypes
  <2>3. ASSUME NEW size, NEW blocks, Place(n, size, blocks, <<>>)
        PROVE  node'[n].nid = node[n].nid
    BY ONLY <1>2, <2>2, <2>3 DEF Place
  <2> QED
    BY <2>1, <2>3
<1> QED
  BY <1>1, <1>2, <1>3, <1>4, <1>5, ProceedFills

LEMMA EmitFills ==
  ASSUME BuildTypes, LayInv, DirInv, EmitNode
  PROVE  DirInv'
<1>a. PICK n : n = Current
  OBVIOUS
<1>1. /\ phase = "emit" /\ tree \in Hosts /\ phase' \in {"emit", "built"}
      /\ UNCHANGED <<tree, node, pack>>
      /\ taken' = [taken EXCEPT ![n] = Payload(n)] /\ DOMAIN taken = Nodes
  BY <1>a DEF EmitNode, BuildTypes
<1>2. \A m \in Reached(tree) : Arranged(m) => Arranged(m)'
  BY <1>1, ArrangedStays
<1>3. Nodes' = Nodes
  BY <1>1 DEF Nodes
<1>4. ASSUME NEW m \in Nodes, IsDir(m)', taken'[m] # <<>>
      PROVE  taken'[m] = DirCells(node'[m].data)
  <2>1. IsDir(m)
    BY <1>1, <1>4 DEF IsDir
  <2>2. CASE m = n
    <3>1. taken'[m] = Payload(n)
      BY <1>1, <2>2
    <3> QED
      BY <1>1, <2>1, <2>2, <3>1 DEF Payload
  <2>3. CASE m # n
    <3>1. taken'[m] = taken[m]
      BY <1>1, <2>3
    <3> QED
      BY <1>1, <1>4, <2>1, <3>1 DEF DirInv
  <2> QED
    BY <2>2, <2>3
<1>5. \A m \in Reached(tree) : IsDir(m)' /\ node'[m].blocks # 0 => Arranged(m)'
  BY <1>1, <1>2 DEF DirInv, IsDir
<1>6. Reached(tree)' = Reached(tree)
  BY <1>1
<1> QED
  BY <1>1, <1>3, <1>4, <1>5, <1>6 DEF DirInv

LEMMA InitFills ==
  ASSUME Init, source = FromHost
  PROVE  DirInv
<1>1. BuilderInit
  BY RoundTripAssumption DEF Init, GivenInit, RoundTripAssumption
<1> QED
  BY <1>1 DEF BuilderInit, DirInv, Nodes

LEMMA StepFills ==
  ASSUME BuildTypes, LayInv, DirInv, [Next]_vars
  PROVE  DirInv'
<1>1. CASE Build
  <2>1. CASE RefuseNode \/ OutOfBlocks \/ FileChanged
    BY <2>1, DirStays DEF RefuseNode, OutOfBlocks, FileChanged, Fail
  <2> QED
    BY <1>1, <2>1, ScanFills, AssignFills, PlaceDirentFills, LayoutDirFills, LayoutPayloadFills, EmitFills
       DEF Build, BuilderStep
<1>2. CASE Intrude
  BY <1>2, DirStays DEF Intrude, HostWrite
<1>3. CASE Start \/ Read \/ Inspect \/ Terminated \/ UNCHANGED vars
  BY <1>3, DirStays DEF Start, Read, Inspect, Terminated, vars, builderVars
<1> QED
  BY <1>1, <1>2, <1>3 DEF Next, Step

-----------------------------------------------------------------------------
(* Reading a directory block: what was arranged in it is found in it.      *)

LEMMA EndsGrow ==
  ASSUME NEW entries \in Seq(DirentPlan), NEW end, Ends(entries, end)
  PROVE  /\ \A i, j \in 0..Len(entries) : i < j => end[i] < end[j]
         /\ \A i \in 0..Len(entries) : end[i] \in Nat /\ Len(entries) <= end[i]
<1>1. PICK n : n = Len(entries)
  OBVIOUS
<1>2. /\ n \in Nat /\ end \in [0..n -> Nat] /\ end[0] = n
      /\ \A k \in 1..n : end[k] = end[k - 1] + NameLen[entries[k].name]
  BY <1>1 DEF Ends
<1>3. \A k \in 1..n : NameLen[entries[k].name] \in Nat \ {0}
  <2>1. \A e \in DirentPlan : NameLen[e.name] \in Nat \ {0}
    BY LayoutAssumption DEF LayoutAssumption, DirentPlan
  <2> QED
    BY <1>1, <2>1
<1>4. \A k \in 1..n : end[k - 1] < end[k] /\ end[k - 1] \in Nat /\ end[k] \in Nat
  <2>1. SUFFICES ASSUME NEW k \in 1..n
                 PROVE  end[k - 1] < end[k] /\ end[k - 1] \in Nat /\ end[k] \in Nat
    OBVIOUS
  <2>2. k - 1 \in 0..n /\ k \in 0..n
    BY <1>2
  <2>3. PICK len \in Nat \ {0} : len = NameLen[entries[k].name]
    BY <1>3
  <2>4. end[k] = end[k - 1] + len /\ end[k - 1] \in Nat
    BY <1>2, <2>2, <2>3
  <2>5. end[k - 1] < end[k] /\ end[k] \in Nat
    BY <2>4
  <2> QED
    BY <2>4, <2>5
<1>5. ASSUME NEW i \in 0..n
      PROVE  \A k \in 0..n : i < k => end[i] < end[k]
  <2>1. PICK S : S = {k \in 0..n : i < k => end[i] < end[k]}
    OBVIOUS
  <2>2. 0 \in S
    BY <1>2, <2>1
  <2>3. ASSUME NEW k \in 1..n, k - 1 \in S PROVE k \in S
    <3>1. k \in 0..n /\ k - 1 \in 0..n /\ (i < k => i < k - 1 \/ i = k - 1)
      BY <1>2
    <3>2. end[i] \in Nat /\ end[k] \in Nat /\ end[k - 1] \in Nat /\ end[k - 1] < end[k]
      BY <1>2, <1>4
    <3> QED
      BY <2>1, <2>3, <3>1, <3>2
  <2>4. \A k \in 0..n : k \in S
    BY <1>2, <2>2, <2>3, Induction
  <2> QED
    BY <2>1, <2>4
<1>6. \A i \in 0..n : end[i] \in Nat /\ n <= end[i]
  <2>1. SUFFICES ASSUME NEW i \in 0..n PROVE end[i] \in Nat /\ n <= end[i]
    OBVIOUS
  <2>2. 0 \in 0..n /\ (i = 0 \/ 0 < i) /\ end[i] \in Nat
    BY <1>2
  <2> QED
    BY <1>2, <1>5, <2>2
<1> QED
  BY <1>1, <1>5, <1>6

(* The cells of a directory block: dirents, names, zeros.                  *)
LEMMA DirBlockIs ==
  ASSUME NEW entries \in Seq(DirentPlan), NEW end, Ends(entries, end),
         NEW c \in 1..BlockSize
  PROVE  /\ c <= Len(entries) =>
              DirBlock(entries)[c] = Dirent(entries[c].nid, end[c - 1], entries[c].type)
         /\ \A i \in 1..Len(entries) : end[i - 1] < c /\ c <= end[i] =>
              DirBlock(entries)[c] = NameCell(entries[i].name)
         /\ c > end[Len(entries)] => DirBlock(entries)[c] = Zero
<1> DEFINE n == Len(entries)
           ends[i \in 0..n] == IF i = 0 THEN n ELSE ends[i - 1] + NameLen[entries[i].name]
           named(d) == {i \in 1..n : ends[i - 1] < d /\ d <= ends[i]}
<1>1. DirBlock(entries)[c] =
        IF c <= n THEN Dirent(entries[c].nid, ends[c - 1], entries[c].type)
        ELSE IF named(c) = {} THEN Zero
        ELSE NameCell(entries[CHOOSE i \in named(c) : TRUE].name)
  BY DEF DirBlock
<1>2. n \in Nat /\ end \in [0..n -> Nat] /\ end[0] = n
      /\ \A k \in 1..n : end[k] = end[k - 1] + NameLen[entries[k].name]
  BY DEF Ends
<1>3. ends = [i \in 0..n |-> IF i = 0 THEN n ELSE ends[i - 1] + NameLen[entries[i].name]]
  <2>1. end = [i \in 0..n |-> IF i = 0 THEN n ELSE end[i - 1] + NameLen[entries[i].name]]
    <3>1. \A k \in 0..n : k = 0 \/ k \in 1..n
      BY <1>2
    <3> QED
      BY <1>2, <3>1
  <2> QED
    BY <2>1
<1> HIDE DEF n, ends
<1>4. \A k \in 0..n : ends[k] = end[k]
  <2>1. PICK S : S = {k \in 0..n : ends[k] = end[k]}
    OBVIOUS
  <2>2. 0 \in S
    BY <1>2, <1>3, <2>1
  <2>3. ASSUME NEW k \in 1..n, k - 1 \in S PROVE k \in S
    <3>1. k \in 0..n /\ k # 0
      BY <1>2
    <3> QED
      BY <1>2, <1>3, <2>1, <2>3, <3>1
  <2>4. \A k \in 0..n : k \in S
    BY <1>2, <2>2, <2>3, Induction
  <2> QED
    BY <2>1, <2>4
<1>5. /\ \A i, j \in 0..n : i < j => end[i] < end[j]
      /\ \A i \in 0..n : end[i] \in Nat /\ n <= end[i]
  BY EndsGrow DEF n
<1>6. c \in Nat
  BY LayoutAssumption DEF LayoutAssumption
<1>7. ASSUME c <= n PROVE DirBlock(entries)[c] = Dirent(entries[c].nid, end[c - 1], entries[c].type)
  <2>1. c - 1 \in 0..n
    BY <1>2, <1>7
  <2> QED
    BY <1>1, <1>4, <1>7, <2>1
<1>8. ASSUME NEW i \in 1..n, end[i - 1] < c, c <= end[i]
      PROVE  DirBlock(entries)[c] = NameCell(entries[i].name)
  <2>1. i - 1 \in 0..n /\ i \in 0..n
    BY <1>2
  <2>2. ~(c <= n)
    BY ONLY <1>2, <1>5, <1>6, <1>8, <2>1
  <2>3. i \in named(c)
    BY <1>4, <1>8, <2>1
  <2>4. ASSUME NEW j \in named(c) PROVE j = i
    <3>1. j \in 1..n /\ j \in 0..n /\ j - 1 \in 0..n /\ end[j - 1] < c /\ c <= end[j]
      BY <1>2, <1>4
    <3>2. ~(j < i)
      <4>1. ASSUME j < i PROVE FALSE
        <5>1. j = i - 1 \/ j < i - 1
          BY <3>1, <4>1
        <5>2. end[j] <= end[i - 1]
          BY ONLY <1>2, <1>5, <2>1, <3>1, <5>1, SMTT(20)
        <5> QED
          BY <1>5, <1>6, <1>8, <2>1, <3>1, <5>2
      <4> QED
        BY <4>1
    <3>3. ~(i < j)
      <4>1. ASSUME i < j PROVE FALSE
        <5>1. i = j - 1 \/ i < j - 1
          BY <3>1, <4>1
        <5>2. end[i] <= end[j - 1]
          BY ONLY <1>2, <1>5, <2>1, <3>1, <5>1, SMTT(20)
        <5> QED
          BY <1>5, <1>6, <1>8, <2>1, <3>1, <5>2
      <4> QED
        BY <4>1
    <3> QED
      BY <3>1, <3>2, <3>3
  <2> HIDE DEF named
  <2>5. (CHOOSE j \in named(c) : TRUE) = i
    BY <2>3, <2>4
  <2> QED
    BY <1>1, <2>2, <2>3, <2>5
<1>9. ASSUME c > end[n] PROVE DirBlock(entries)[c] = Zero
  <2>1. n \in 0..n
    BY <1>2
  <2>2. ~(c <= n)
    BY <1>2, <1>5, <1>6, <1>9, <2>1
  <2>3. ASSUME NEW j \in named(c) PROVE FALSE
    <3>1. j \in 1..n /\ j \in 0..n /\ c <= end[j]
      BY <1>2, <1>4
    <3>2. end[j] <= end[n]
      BY <1>5, <2>1, <3>1
    <3> QED
      BY <1>5, <1>6, <1>9, <2>1, <3>1, <3>2
  <2> QED
    BY <1>1, <2>2, <2>3
<1> QED
  BY <1>7, <1>8, <1>9 DEF n

(* A block of the image that holds entries, in the order of their names.   *)
HoldsEntries(block, entries) ==
  /\ GoodBlock(block) /\ block.len <= BlockSize
  /\ entries \in Seq(DirentPlan) /\ Len(entries) > 0
  /\ \A i, j \in 1..Len(entries) : i < j => entries[i].name < entries[j].name
  /\ \A i \in 1..Len(entries) : entries[i].name \notin Slash
  /\ \E end : Ends(entries, end) /\ end[Len(entries)] <= block.len
  /\ \A c \in 1..block.len : image[block.at + c - 1] = DirBlock(entries)[c]

LEMMA BlockReads ==
  ASSUME NEW block, NEW entries, HoldsEntries(block, entries)
  PROVE  /\ Count(block) = Len(entries) /\ Len(entries) < block.len
         /\ \A i \in 1..Len(entries) :
              /\ DirentAt(block, i - 1).nid = entries[i].nid
              /\ DirentAt(block, i - 1).type = entries[i].type
              /\ NameAt(block, i - 1) = entries[i].name /\ KeyAt(block, i - 1) = entries[i].name
              /\ NameIsGood(block, i - 1) /\ KeyIsGood(block, i - 1)
<1>1. PICK end : Ends(entries, end) /\ end[Len(entries)] <= block.len
  BY DEF HoldsEntries
<1>2. PICK n, at, len : n = Len(entries) /\ at = block.at /\ len = block.len
  OBVIOUS
<1>3. /\ n \in Nat /\ n > 0 /\ at \in Nat /\ len \in Nat /\ len > 0 /\ len <= BlockSize
      /\ BlockSize \in Nat /\ entries \in Seq(DirentPlan)
      /\ \A i \in 1..n : entries[i].name \notin Slash
      /\ \A c \in 1..len : image[at + c - 1] = DirBlock(entries)[c]
  <2>1. GoodBlock(block) /\ at = block.at /\ len = block.len
    BY <1>2 DEF HoldsEntries
  <2>2. at \in Nat /\ len \in Nat /\ len > 0
    BY <2>1 DEF GoodBlock
  <2>3. /\ block.len <= BlockSize
        /\ entries \in Seq(DirentPlan) /\ Len(entries) > 0
        /\ \A i \in 1..Len(entries) : entries[i].name \notin Slash
        /\ \A c \in 1..block.len : image[block.at + c - 1] = DirBlock(entries)[c]
    BY DEF HoldsEntries
  <2>4. Len(entries) \in Nat
    BY <2>3
  <2>5. BlockSize \in Nat
    BY LayoutAssumption DEF LayoutAssumption
  <2> QED
    BY <1>2, <2>2, <2>3, <2>4, <2>5
<1>0. n \in Nat /\ n > 0 /\ len \in Nat /\ at \in Nat
  BY <1>3
<1>4. /\ \A i, j \in 0..n : i < j => end[i] < end[j]
      /\ \A i \in 0..n : end[i] \in Nat /\ n <= end[i]
      /\ end[n] <= len /\ end[0] = n
  BY <1>1, <1>2, <1>3, EndsGrow DEF Ends
<1>5. n < len
  <2>1. 0 \in 0..n /\ n \in 0..n /\ 0 < n
    BY <1>3
  <2>2. end[0] < end[n]
    BY <1>4, <2>1
  <2> QED
    BY ONLY <1>3, <1>4, <2>1, <2>2
<1>6. ASSUME NEW c \in 1..len
      PROVE  /\ c <= n => image[at + c - 1] = Dirent(entries[c].nid, end[c - 1], entries[c].type)
             /\ \A i \in 1..n : end[i - 1] < c /\ c <= end[i] =>
                  image[at + c - 1] = NameCell(entries[i].name)
             /\ c > end[n] => image[at + c - 1] = Zero
  <2>1. c \in 1..BlockSize
    BY <1>3
  <2>2. /\ c <= Len(entries) =>
              DirBlock(entries)[c] = Dirent(entries[c].nid, end[c - 1], entries[c].type)
        /\ \A i \in 1..Len(entries) : end[i - 1] < c /\ c <= end[i] =>
              DirBlock(entries)[c] = NameCell(entries[i].name)
        /\ c > end[Len(entries)] => DirBlock(entries)[c] = Zero
    BY <1>1, <1>3, <2>1, DirBlockIs
  <2>3. image[at + c - 1] = DirBlock(entries)[c]
    BY <1>3
  <2> QED
    BY <1>2, <2>2, <2>3
<1>7. ASSUME NEW i \in 0..(n - 1)
      PROVE  DirentAt(block, i) = Dirent(entries[i + 1].nid, end[i], entries[i + 1].type)
  <2>1. i + 1 \in 1..len /\ i + 1 <= n /\ at + (i + 1) - 1 = at + i /\ (i + 1) - 1 = i
    BY <1>3, <1>5
  <2>2. image[at + i] = Dirent(entries[i + 1].nid, end[i], entries[i + 1].type)
    BY <1>6, <2>1
  <2> QED
    BY <1>2, <2>2 DEF DirentAt, Dirent
<1>8. Count(block) = n
  <2>1. 0 \in 0..(n - 1)
    BY <1>3
  <2> QED
    BY <1>4, <1>7, <2>1 DEF Count, Dirent
<1>9. ASSUME NEW i \in 0..(n - 1)
      PROVE  /\ NameStart(block, i) = end[i]
             /\ NameEnd(block, i) = IF i < n - 1 THEN end[i + 1] ELSE len
  <2>1. i < n - 1 => i + 1 \in 0..(n - 1)
    BY <1>3
  <2> QED
    BY <1>2, <1>7, <1>8, <2>1 DEF NameStart, NameEnd, Dirent
<1>10. ASSUME NEW i \in 0..(n - 1)
       PROVE  /\ NameAt(block, i) = entries[i + 1].name /\ KeyAt(block, i) = entries[i + 1].name
              /\ NameIsGood(block, i) /\ KeyIsGood(block, i)
  <2>1. PICK name : name = entries[i + 1].name
    OBVIOUS
  <2>2. name \in Name /\ name \notin Slash /\ NameLen[name] \in Nat \ {0}
    <3>1. i + 1 \in 1..n
      BY <1>3
    <3>2. entries[i + 1] \in DirentPlan
      BY <1>2, <1>3, <3>1
    <3> QED
      BY <1>3, <2>1, <3>1, <3>2, LayoutAssumption DEF LayoutAssumption, DirentPlan
  <2>3. PICK from, upto, past : from = end[i] /\ upto = end[i + 1] /\ past = NameEnd(block, i)
    OBVIOUS
  <2>4. /\ from \in Nat /\ upto \in Nat /\ from < upto /\ upto <= past /\ past <= len
        /\ (past = upto \/ upto = end[n]) /\ past \in Nat
    <3>1. i \in 0..n /\ i + 1 \in 0..n /\ n \in 0..n /\ i < i + 1 /\ (i + 1 < n \/ i + 1 = n)
      BY ONLY <1>0, i \in 0..(n - 1)
    <3>2. end[i] < end[i + 1] /\ end[i] \in Nat /\ end[i + 1] \in Nat /\ end[n] \in Nat
          /\ (i + 1 < n => end[i + 1] < end[n])
      BY ONLY <1>4, <3>1
    <3>3. past = IF i < n - 1 THEN upto ELSE len
      BY <1>9, <2>3
    <3> QED
      BY ONLY <1>3, <1>4, <2>3, <3>1, <3>2, <3>3
  <2>5. upto = from + NameLen[name] /\ from..(from + NameLen[name] - 1) = from..(upto - 1)
    <3>1. i + 1 \in 1..Len(entries) /\ (i + 1) - 1 = i
      BY <1>2, <1>3
    <3>2. end[i + 1] = end[(i + 1) - 1] + NameLen[entries[i + 1].name]
      BY <1>1, <3>1 DEF Ends
    <3>3. upto = from + NameLen[name]
      BY ONLY <2>1, <2>3, <3>1, <3>2
    <3>4. from + NameLen[name] - 1 = upto - 1
      BY ONLY <2>2, <2>4, <3>3
    <3> QED
      BY ONLY <3>3, <3>4
  <2>6. ASSUME NEW c \in from..(upto - 1) PROVE image[at + c] = NameCell(name)
    <3>1. c + 1 \in 1..len /\ end[i] < c + 1 /\ c + 1 <= end[i + 1] /\ at + (c + 1) - 1 = at + c
      BY ONLY <1>0, <2>3, <2>4, c \in from..(upto - 1)
    <3>2. i + 1 \in 1..n /\ (i + 1) - 1 = i
      BY <1>3
    <3> QED
      BY <1>6, <2>1, <3>1, <3>2
  <2>7. ASSUME NEW c \in upto..(past - 1) PROVE image[at + c] = Zero
    <3>1. upto = end[n]
      BY ONLY <2>4, <2>7, c \in upto..(past - 1)
    <3>2. c + 1 \in 1..len /\ c + 1 > end[n] /\ at + (c + 1) - 1 = at + c
      BY ONLY <1>3, <2>4, <3>1, c \in upto..(past - 1)
    <3> QED
      BY <1>6, <3>2
  <2>8. \A x : NameCell(x) # Zero
    <3>1. SUFFICES ASSUME NEW x, NameCell(x) = Zero PROVE FALSE
      OBVIOUS
    <3>2. NameCell(x).is = "name" /\ Zero.is = "zero"
      BY DEF NameCell, Zero
    <3> QED
      BY <3>1, <3>2
  <2>9. NameStart(block, i) = from /\ NameEnd(block, i) = past
    BY <1>9, <2>3
  <2>10. ASSUME NEW stop, stop = upto \/ stop = past
         PROVE  NameUpTo(block, i, stop) = name
    <3>1. PICK cells : cells = {c \in from..(stop - 1) : image[at + c] # Zero}
      OBVIOUS
    <3>2. cells = from..(from + NameLen[name] - 1)
      <4>1. \A c \in from..(stop - 1) : c \in from..(upto - 1) \/ c \in upto..(past - 1)
        BY ONLY <2>4, <2>10
      <4>2. \A c \in from..(upto - 1) : c \in from..(stop - 1)
        BY ONLY <2>4, <2>10
      <4>3. cells = from..(upto - 1)
        BY <2>6, <2>7, <2>8, <3>1, <4>1, <4>2
      <4> QED
        BY ONLY <2>5, <4>3
    <3>3. from \in cells
      <4>1. from \in from..(upto - 1)
        BY ONLY <2>4
      <4> QED
        BY ONLY <2>5, <3>2, <4>1
    <3> DEFINE spelt == {x \in Name : /\ cells = from..(from + NameLen[x] - 1)
                                      /\ \A c \in cells : image[at + c] = NameCell(x)}
    <3>4. NameUpTo(block, i, stop) = IF spelt = {} THEN Garbled ELSE CHOOSE x \in spelt : TRUE
      BY <1>2, <2>9, <3>1 DEF NameUpTo
    <3>5. name \in spelt
      <4>1. \A c \in cells : image[at + c] = NameCell(name)
        BY ONLY <2>5, <2>6, <3>2
      <4> QED
        BY <2>2, <3>2, <4>1
    <3>6. ASSUME NEW x \in spelt PROVE x = name
      <4>1. NameCell(x) = NameCell(name)
        BY <3>3, <3>5
      <4> QED
        BY <4>1 DEF NameCell
    <3> HIDE DEF spelt
    <3> QED
      BY <3>4, <3>5, <3>6
  <2>11. FirstZero(block, i) = upto
    <3> DEFINE ends == {c \in from..(past - 1) : image[at + c] = Zero} \cup {past}
    <3>1. FirstZero(block, i) = CHOOSE c \in ends : \A d \in ends : c <= d
      BY <1>2, <2>9 DEF FirstZero
    <3>2. upto \in ends
      <4>1. upto = past \/ (upto \in from..(past - 1) /\ upto \in upto..(past - 1))
        BY ONLY <2>4
      <4> QED
        BY <2>7, <4>1
    <3>3. ASSUME NEW d \in ends PROVE d \in Nat /\ upto <= d
      <4>1. CASE d = past
        BY ONLY <2>4, <4>1
      <4>2. CASE d # past
        <5>1. d \in from..(past - 1) /\ image[at + d] = Zero
          BY <4>2
        <5>2. d \notin from..(upto - 1)
          BY <2>6, <2>8, <5>1
        <5> QED
          BY ONLY <2>4, <5>1, <5>2
      <4> QED
        BY <4>1, <4>2
    <3> HIDE DEF ends
    <3> DEFINE P(c) == c \in ends /\ \A d \in ends : c <= d
    <3>4. \A c : P(c) => c = upto
      BY <2>4, <3>2, <3>3
    <3>5. P(upto)
      BY <3>2, <3>3
    <3>6. FirstZero(block, i) = CHOOSE c : P(c)
      BY <3>1
    <3> QED
      BY <3>4, <3>5, <3>6
  <2>12. NameAt(block, i) = name /\ KeyAt(block, i) = name
    BY <2>9, <2>10, <2>11 DEF NameAt, KeyAt
  <2>13. i < len /\ (i < n - 1 => i + 1 < len)
    BY <1>3, <1>5
  <2>14. DirentIsGood(block, i)
    <3>1. from <= past
      BY ONLY <2>4
    <3> QED
      BY <1>2, <1>8, <2>4, <2>9, <2>13, <3>1 DEF DirentIsGood
  <2> QED
    BY <2>1, <2>2, <2>12, <2>14 DEF NameIsGood, KeyIsGood
<1>11. ASSUME NEW i \in 1..n
       PROVE  /\ DirentAt(block, i - 1).nid = entries[i].nid
              /\ DirentAt(block, i - 1).type = entries[i].type
              /\ NameAt(block, i - 1) = entries[i].name /\ KeyAt(block, i - 1) = entries[i].name
              /\ NameIsGood(block, i - 1) /\ KeyIsGood(block, i - 1)
  <2>1. i - 1 \in 0..(n - 1) /\ (i - 1) + 1 = i
    BY <1>3
  <2> QED
    BY <1>7, <1>10, <2>1 DEF Dirent
<1> QED
  BY <1>2, <1>5, <1>8, <1>11

(* One turn of the search: the place of the name stays where is looked.    *)
Narrowed(entries, name, s, k) ==
  /\ s \in [base : Nat, size : Nat]
  /\ s.size > 0 /\ s.base + s.size <= Len(entries)
  /\ s.size = 1 \/ s.size + k <= Len(entries)
  /\ \A p \in 1..Len(entries) :
       entries[p].name = name => s.base < p /\ p <= s.base + s.size

LEMMA HalvedNarrows ==
  ASSUME NEW block, NEW entries, HoldsEntries(block, entries), NEW name \in Name,
         NEW k \in Nat, NEW s, Narrowed(entries, name, s, k)
  PROVE  Narrowed(entries, name, Halved(block, name, s), k + 1)
<1>1. PICK n, base, size : n = Len(entries) /\ base = s.base /\ size = s.size
  OBVIOUS
<1>2. /\ n \in Nat /\ base \in Nat /\ size \in Nat /\ size > 0 /\ base + size <= n
      /\ size = 1 \/ size + k <= n
      /\ \A p \in 1..n : entries[p].name = name => base < p /\ p <= base + size
      /\ entries \in Seq(DirentPlan)
      /\ \A i, j \in 1..n : i < j => entries[i].name < entries[j].name
  BY <1>1 DEF Narrowed, HoldsEntries
<1>0. n \in Nat /\ base \in Nat /\ size \in Nat
  BY <1>2
<1>3. name \in Nat /\ \A i \in 1..n : entries[i].name \in Nat
  <2>1. Name \subseteq Nat
    BY LayoutAssumption DEF LayoutAssumption
  <2>2. \A i \in 1..n : entries[i] \in DirentPlan
    BY <1>1, <1>2
  <2> QED
    BY <2>1, <2>2 DEF DirentPlan
<1>4. CASE size = 1
  <2>1. Halved(block, name, s) = s
    BY <1>1, <1>4 DEF Halved
  <2> QED
    BY <1>1, <1>4, <2>1 DEF Narrowed
<1>5. CASE size # 1
  <2>1. PICK half : half = size \div 2
    OBVIOUS
  <2>2. half \in Nat /\ half > 0 /\ half <= size - half /\ size - half < size /\ size - half \in Nat
    <3>1. size \in Nat /\ size > 1
      BY <1>2, <1>5
    <3> QED
      BY ONLY <2>1, <3>1
  <2>3. PICK mid : mid = base + half
    OBVIOUS
  <2>4. mid \in Nat /\ mid + 1 \in 1..n /\ mid = (mid + 1) - 1
    BY <1>2, <2>2, <2>3
  <2>5. KeyIsGood(block, mid) /\ KeyAt(block, mid) = entries[mid + 1].name
    BY <1>1, <2>4, BlockReads
  <2>6. PICK t : t = Halved(block, name, s)
    OBVIOUS
  <2>7. t = [base |-> IF entries[mid + 1].name > name THEN base ELSE mid, size |-> size - half]
    <3>1. ~(s.size <= 1) /\ s.size \div 2 = half /\ s.base + half = mid /\ s.size - half = size - half
      BY <1>1, <1>2, <1>5, <2>1, <2>3
    <3> QED
      BY ONLY <1>1, <2>5, <2>6, <3>1 DEF Halved
  <2>8. t.size = size - half /\ t.base = IF entries[mid + 1].name > name THEN base ELSE mid
    BY <2>7
  <2>9. ASSUME NEW p \in 1..n, entries[p].name = name
        PROVE  t.base < p /\ p <= t.base + t.size
    <3>1. base < p /\ p <= base + size
      BY <1>2, <2>9
    <3>2. CASE entries[mid + 1].name > name
      <4>1. p < mid + 1
        <5>1. entries[mid + 1].name \in Nat /\ entries[p].name \in Nat /\ p # mid + 1
          BY <1>3, <2>4, <2>9, <3>2
        <5>2. ~(mid + 1 < p)
          <6>1. mid + 1 < p => entries[mid + 1].name < entries[p].name
            BY <1>2, <2>4
          <6>2. ~(entries[mid + 1].name < entries[p].name)
            BY ONLY <2>9, <3>2, <5>1
          <6> QED
            BY ONLY <6>1, <6>2
        <5> QED
          BY <2>4, <5>1, <5>2
      <4> QED
        BY ONLY <1>0, <2>2, <2>3, <2>8, <3>1, <3>2, <4>1, p \in 1..n
    <3>3. CASE ~(entries[mid + 1].name > name)
      <4>1. ~(p < mid + 1)
        BY <1>2, <1>3, <2>4, <2>9, <3>3
      <4> QED
        BY ONLY <1>0, <2>2, <2>3, <2>8, <3>1, <3>3, <4>1, p \in 1..n
    <3> QED
      BY <3>2, <3>3
  <2>10. t.base \in Nat /\ t.base + t.size <= n
    BY ONLY <1>2, <2>2, <2>3, <2>4, <2>8
  <2>11. t.size \in Nat /\ t.size > 0 /\ t.size + (k + 1) <= n
    BY ONLY <1>2, <1>5, <2>2, <2>8, k \in Nat
  <2>12. t \in [base : Nat, size : Nat]
    BY ONLY <1>2, <2>2, <2>4, <2>7
  <2> QED
    BY <1>1, <2>6, <2>9, <2>10, <2>11, <2>12 DEF Narrowed
<1> QED
  BY <1>4, <1>5

(* The search finds the entry of a name, if there is one.                  *)
LEMMA Finds ==
  ASSUME Packed, NEW block, NEW entries, HoldsEntries(block, entries), NEW name \in Name
  PROVE  /\ \A p \in 1..Len(entries) : entries[p].name = name => Find(block, name) = entries[p].nid
         /\ (\A p \in 1..Len(entries) : entries[p].name # name) => Find(block, name) = Missing
<1> DEFINE n == Count(block)
           search[k \in 0..n] == IF k = 0 THEN [base |-> 0, size |-> n]
                                 ELSE Halved(block, name, search[k - 1])
           V == {s \in [base : Nat, size : Nat] : s.size > 0 /\ s.base + s.size <= n}
           a == [base |-> 0, size |-> n]
<1>1. Find(block, name) =
        IF block = NoBlock THEN Broken
        ELSE IF n = 0 THEN Missing
        ELSE IF search[n].base = n \/ ~KeyIsGood(block, search[n].base) THEN Broken
        ELSE IF KeyAt(block, search[n].base) = name THEN DirentAt(block, search[n].base).nid
        ELSE Missing
  BY DEF Find
<1>2. n = Len(entries) /\ n \in Nat /\ n > 0 /\ block # NoBlock
  <2>1. n = Len(entries)
    BY BlockReads
  <2>2. Len(entries) > 0 /\ Len(entries) \in Nat /\ GoodBlock(block)
    BY DEF HoldsEntries
  <2> QED
    BY <2>1, <2>2 DEF GoodBlock, NoBlock
<1> DEFINE Inv(s, k) == Narrowed(entries, name, s, k)
<1>3. Inv(a, 0)
  BY <1>2 DEF Narrowed
<1>4. search = [k \in 0..n |-> IF k = 0 THEN a ELSE Halved(block, name, search[k - 1])]
  <2> DEFINE W == [base : Nat, size : Nat]
             h(s) == Halved(block, name, s)
             g == [x \in W \X (1..n) |-> Halved(block, name, x[1])]
  <2>2. \A s \in W : Halved(block, name, s) \in W
    <3>1. SUFFICES ASSUME NEW s \in W PROVE Halved(block, name, s) \in W
      OBVIOUS
    <3>2. PICK half : half = s.size \div 2
      OBVIOUS
    <3>3. half \in Nat /\ half <= s.size /\ s.size - half \in Nat /\ s.base + half \in Nat
      BY <3>2
    <3>4. \/ Halved(block, name, s) = s
          \/ Halved(block, name, s) = [base |-> n, size |-> 0]
          \/ Halved(block, name, s) = [base |-> s.base, size |-> s.size - half]
          \/ Halved(block, name, s) = [base |-> s.base + half, size |-> s.size - half]
      BY <3>2 DEF Halved
    <3> QED
      BY <1>2, <3>3, <3>4
  <2>3. /\ a \in W
        /\ \A s \in W : \A k \in 1..n : g[<<s, k>>] = Halved(block, name, s)
        /\ g \in [W \X (1..n) -> W]
    BY <1>2, <2>2
  <2> HIDE DEF g, n, W, a
  <2>4. PICK f : Iterate(f, W, n, a, g)
    BY <1>2, <2>3, Iterates
  <2>5. f = [k \in 0..n |-> IF k = 0 THEN a ELSE Halved(block, name, f[k - 1])]
    <3>1. \A k \in 0..n : f[k] = IF k = 0 THEN a ELSE Halved(block, name, f[k - 1])
      <4> SUFFICES ASSUME NEW k \in 0..n, k # 0 PROVE f[k] = Halved(block, name, f[k - 1])
        BY <2>4 DEF Iterate
      <4>1. k \in 1..n /\ k - 1 \in 0..n
        BY <1>2
      <4> QED
        BY <2>3, <2>4, <4>1 DEF Iterate
    <3>2. f \in [0..n -> W]
      BY <2>4 DEF Iterate
    <3> QED
      BY <3>1, <3>2
  <2> QED
    BY <2>5 DEF a
<1> HIDE DEF n, search, a
<1>5. \A k \in 0..n : Inv(search[k], k)
  <2>1. PICK S : S = {k \in 0..n : Inv(search[k], k)}
    OBVIOUS
  <2>2. 0 \in S
    BY <1>2, <1>3, <1>4, <2>1
  <2>3. ASSUME NEW k \in 1..n, k - 1 \in S PROVE k \in S
    <3>1. k \in 0..n /\ k # 0 /\ k - 1 \in Nat /\ (k - 1) + 1 = k
      BY <1>2
    <3>2. search[k] = Halved(block, name, search[k - 1]) /\ Inv(search[k - 1], k - 1)
      BY <1>4, <2>1, <2>3, <3>1
    <3>3. Inv(search[k], (k - 1) + 1)
      BY <3>1, <3>2, HalvedNarrows
    <3> QED
      BY <2>1, <3>1, <3>3
  <2>4. \A k \in 0..n : k \in S
    BY <1>2, <2>2, <2>3, Induction
  <2> QED
    BY <2>1, <2>4
<1>6. PICK i : i = search[n].base
  OBVIOUS
<1>7. /\ i \in Nat /\ i + 1 \in 1..n /\ i # n
      /\ \A p \in 1..n : entries[p].name = name => p = i + 1
  <2>1. Inv(search[n], n)
    BY <1>2, <1>5
  <2>2. PICK size : size = search[n].size
    OBVIOUS
  <2>3. /\ i \in Nat /\ size \in Nat /\ size > 0 /\ i + size <= n /\ (size = 1 \/ size + n <= n)
        /\ \A p \in 1..n : entries[p].name = name => i < p /\ p <= i + size
    BY <1>2, <1>6, <2>1, <2>2 DEF Narrowed
  <2>4. size = 1
    BY <1>2, <2>3
  <2> QED
    BY <1>2, <2>3, <2>4
<1>8. /\ KeyIsGood(block, i) /\ KeyAt(block, i) = entries[i + 1].name
      /\ DirentAt(block, i).nid = entries[i + 1].nid
  <2>1. (i + 1) - 1 = i
    BY <1>7
  <2> QED
    BY <1>2, <1>7, <2>1, BlockReads
<1>9. Find(block, name) = IF entries[i + 1].name = name THEN entries[i + 1].nid ELSE Missing
  BY <1>1, <1>2, <1>6, <1>7, <1>8
<1> QED
  BY <1>2, <1>7, <1>9

-----------------------------------------------------------------------------
(* The blocks of a packed directory hold its entries.                      *)

LEMMA DirIs ==
  ASSUME Packed, DirInv, NEW n \in Reached(tree), IsDir(n)
  PROVE  /\ node[n].blocks \in Nat /\ node[n].blocks > 0
         /\ node[n].data \in Seq(Seq(DirentPlan)) /\ Len(node[n].data) = node[n].blocks
         /\ \A b \in 1..node[n].blocks : Len(node[n].data[b]) \in 1..BlockSize
         /\ Arranged(n) /\ Ascending(node[n].data)
         /\ Holding(node[n].data) = Elements(Entries(n))
         /\ Entries(n) \in Seq(DirentPlan)
         /\ Elements(Entries(n)) = {Named(c) : c \in Children(n)} \cup {DotOf(n), DotDotOf(n)}
         /\ \A e \in Elements(Entries(n)) : e.name \notin Slash
         /\ taken[n] = DirCells(node[n].data)
         /\ Len(taken[n]) = node[n].blocks * BlockSize
<1>1. /\ BuildTypes /\ LayInv /\ LaidInv /\ phase = "built" /\ tree \in Hosts
      /\ n \in Nodes
  BY ReachedFacts DEF Packed, LayInv, BuildTypes, Nodes
<1>2. LaidOut(n) /\ \A m \in Reached(tree) : Scanned(m)
  BY <1>1 DEF LaidInv
<1>3. node[n].blocks \in Nat /\ node[n].blocks > 0
  BY <1>1, <1>2 DEF LaidOut, BuildTypes, NodeTypes
<1>4. /\ node[n].data \in Seq(Seq(DirentPlan)) /\ Len(node[n].data) = node[n].blocks
      /\ \A b \in 1..node[n].blocks : Len(node[n].data[b]) \in 1..BlockSize
  BY <1>2 DEF LaidOut, BlocksFit
<1>5. Arranged(n)
  BY <1>1, <1>3 DEF DirInv
<1>6. Ascending(node[n].data) /\ Holding(node[n].data) = First(Entries(n), Len(Entries(n)))
  BY <1>5 DEF Arranged, Arranges
<1>7. /\ Entries(n) \in Seq(DirentPlan)
      /\ Elements(Entries(n)) = {Named(c) : c \in Children(n)} \cup {DotOf(n), DotDotOf(n)}
  BY <1>1, <1>2, EntriesAre DEF BuildTypes
<1>8. First(Entries(n), Len(Entries(n))) = Elements(Entries(n))
  <2>1. DOMAIN Entries(n) = 1..Len(Entries(n))
    BY <1>7
  <2> QED
    BY <2>1 DEF First, Elements
<1>9. \A e \in Elements(Entries(n)) : e.name \notin Slash
  <2>1. Dot \notin Slash /\ DotDot \notin Slash
    BY RoundTripAssumption DEF RoundTripAssumption
  <2>2. \A c \in Children(n) : tree.name[c] \notin Slash
    BY <1>1, RoundTripAssumption DEF RoundTripAssumption, Children, Nodes
  <2>3. DotOf(n).name = Dot /\ DotDotOf(n).name = DotDot /\ \A c : Named(c).name = tree.name[c]
    BY DEF DotOf, DotDotOf, Named
  <2> QED
    BY <1>7, <2>1, <2>2, <2>3
<1>10. Len(taken[n]) = node[n].blocks * BlockSize /\ BlockSize \in Nat /\ BlockSize > 0
  BY NodeIs, LayoutAssumption DEF Room, LayoutAssumption
<1>11. taken[n] # <<>>
  <2>1. node[n].blocks * BlockSize # 0
    BY <1>3, <1>10, Scaled
  <2>2. Len(<<>>) = 0
    OBVIOUS
  <2> QED
    BY <1>10, <2>1, <2>2
<1>12. taken[n] = DirCells(node[n].data)
  BY <1>1, <1>11 DEF DirInv
<1> QED
  BY <1>3, <1>4, <1>5, <1>6, <1>7, <1>8, <1>9, <1>10, <1>12

LEMMA DirBlocks ==
  ASSUME Packed, DirInv, NEW n \in Reached(tree), IsDir(n), NEW b \in 1..node[n].blocks,
         NEW block, block = ReadBlock(node[n].nid, (b - 1) * BlockSize)
  PROVE  /\ HoldsEntries(block, node[n].data[b]) /\ block # NoBlock
         /\ b < node[n].blocks => block.len = BlockSize
         /\ b = node[n].blocks => (b - 1) * BlockSize + block.len = node[n].size
         /\ b < node[n].blocks => b * BlockSize < node[n].size
         /\ DivCeil(node[n].size) = node[n].blocks /\ (b - 1) * BlockSize \in Nat
<1>1. PICK size, blocks, addr, data, nid, q, S :
        /\ size = node[n].size /\ blocks = node[n].blocks /\ addr = node[n].blkaddr
        /\ data = node[n].data /\ nid = node[n].nid /\ q = b - 1 /\ S = BlockSize
  OBVIOUS
<1>2. PICK used \in 1..S :
        /\ size = (blocks - 1) * S + used
        /\ Arranges(data, used, Entries(n), Len(Entries(n)))
  BY <1>1, DirIs DEF Arranged
<1>3. /\ blocks \in Nat /\ blocks > 0 /\ data \in Seq(Seq(DirentPlan)) /\ Len(data) = blocks
      /\ Len(data[b]) \in 1..S
      /\ taken[n] = DirCells(data) /\ Len(taken[n]) = blocks * S
  BY <1>1, DirIs
<1>4. /\ size \in Nat /\ addr \in Nat /\ S \in Nat /\ S > 0 /\ b \in 1..blocks /\ q \in Nat
      /\ q + 1 = b /\ used \in Nat /\ blocks \in Nat
  <2>1. size \in Nat /\ addr \in Nat
    BY <1>1, NodeIs
  <2>2. S \in Nat /\ S > 0
    BY <1>1, LayoutAssumption DEF LayoutAssumption
  <2>3. b \in 1..blocks /\ q = b - 1 /\ blocks \in Nat
    BY <1>1, <1>3
  <2>4. q \in Nat /\ q + 1 = b
    BY ONLY <2>3
  <2>5. used \in Nat
    BY <2>2
  <2> QED
    BY ONLY <2>1, <2>2, <2>3, <2>4, <2>5
<1>5. /\ InodeAt(nid).layout = "plain" /\ InodeAt(nid).size = size /\ InodeAt(nid).addr = addr
  BY <1>1, NodeIs, TheFieldsAre
<1>6. PICK qs, bs, last, full, base :
        /\ qs = q * S /\ bs = b * S /\ last = (blocks - 1) * S /\ full = blocks * S
        /\ base = addr * S
  OBVIOUS
<1>7. /\ qs \in Nat /\ bs \in Nat /\ last \in Nat /\ full \in Nat /\ base \in Nat
      /\ bs = qs + S /\ full = last + S
      /\ b < blocks => bs <= last
      /\ qs <= last
      /\ (addr + q) * S = base + qs
      /\ b = blocks => qs = last
  <2>1. blocks - 1 \in Nat /\ 1 \in Nat
    BY <1>3
  <2>2. q * S \in Nat /\ 1 * S = S /\ (q + 1) * S = q * S + 1 * S
    BY <1>4, <2>1, Spread
  <2>3. (blocks - 1) * S \in Nat /\ ((blocks - 1) + 1) * S = (blocks - 1) * S + 1 * S
    BY <1>4, <2>1, Spread
  <2>4. (addr + q) * S = addr * S + q * S /\ addr * S \in Nat
    BY <1>4, Spread
  <2>5. b < blocks => b * S <= (blocks - 1) * S
    BY <1>3, <1>4, <2>1, Scaled
  <2>6. q * S <= (blocks - 1) * S
    <3>1. q <= blocks - 1
      BY ONLY <1>4
    <3> QED
      BY <1>4, <2>1, <3>1, Scaled
  <2>7. (blocks - 1) + 1 = blocks
    BY <1>3
  <2>8. b = blocks => q = blocks - 1
    BY ONLY <1>3, <1>4
  <2> QED
    BY ONLY <1>4, <1>6, <2>2, <2>3, <2>4, <2>5, <2>6, <2>7, <2>8
<1>8. DivCeil(size) = blocks
  <2>1. used - 1 \in 0..(S - 1) /\ (full + (used - 1)) \div S = blocks
    <3>1. used - 1 \in 0..(S - 1)
      BY <1>2, <1>4
    <3> QED
      BY <1>3, <1>4, <1>6, <3>1, DivMod, Zenon
  <2>2. size + S - 1 = full + (used - 1)
    <3>1. size = last + used
      BY <1>2, <1>6
    <3> QED
      BY ONLY <1>4, <1>7, <3>1
  <2> QED
    BY <1>1, <2>1, <2>2 DEF DivCeil
<1>9. PICK len : len = IF b < blocks THEN S ELSE used
  OBVIOUS
<1>10. len \in 1..S /\ len = AtMost(size - qs, S) /\ (b < blocks => bs < size)
       /\ (b = blocks => qs + len = size)
  <2>1. size = last + used
    BY <1>2, <1>6
  <2>2. CASE b < blocks
    <3>1. size - qs \in Nat /\ size - qs > S /\ bs < size
      BY ONLY <1>2, <1>4, <1>7, <2>1, <2>2, used \in 1..S
    <3> QED
      BY ONLY <1>4, <1>9, <2>2, <3>1 DEF AtMost
  <2>3. CASE ~(b < blocks)
    <3>1. b = blocks
      BY ONLY <1>4, <2>3
    <3>2. size - qs = used
      BY ONLY <1>2, <1>4, <1>7, <2>1, <3>1, used \in 1..S
    <3> QED
      BY ONLY <1>4, <1>7, <1>9, <2>1, <2>3, <3>1, <3>2, used \in 1..S DEF AtMost
  <2> QED
    BY <2>2, <2>3
<1>11. Room(n) = full
  BY <1>1, <1>6 DEF Room
<1>12. base + full <= End /\ End \in Nat
  <2>1. Written(image, base, taken[n]) /\ Len(taken[n]) = full
    BY <1>1, <1>3, <1>6 DEF Packed, EmitInv, Emitted
  <2>2. full > 0 /\ full \in 1..full
    BY ONLY <1>4, <1>7
  <2>3. base + full - 1 \in DOMAIN image
    BY <2>1, <2>2 DEF Written
  <2>4. DOMAIN image = 0..(End - 1) /\ End \in Nat
    BY ImageIs
  <2>5. base + full - 1 \in 0..(End - 1)
    BY <2>3, <2>4
  <2>6. base \in Nat /\ full \in Nat
    BY <1>7
  <2> QED
    BY ONLY <2>4, <2>5, <2>6
<1>13. PICK at : at = base + qs
  OBVIOUS
<1>14. block = [at |-> at, len |-> len]
  <2>1. (q * S) \div S = q
    <3>1. 0 \in 0..(S - 1)
      BY <1>4
    <3>2. (q * S + 0) \div S = q
      BY <1>4, <3>1, DivMod
    <3> QED
      BY <1>6, <1>7, <3>2
  <2>2. ~(q >= blocks)
    BY ONLY <1>3, <1>4
  <2>3. FlatBlock(nid, q) = [at |-> (addr + q) * S, len |-> AtMost(size - q * S, S)]
    BY <1>1, <1>5, <1>8, <2>2 DEF FlatBlock
  <2>4. FlatBlock(nid, q) = [at |-> at, len |-> len]
    BY <1>6, <1>7, <1>10, <1>13, <2>3
  <2>5. at + len <= End
    BY ONLY <1>4, <1>7, <1>10, <1>12, <1>13
  <2>6. ReadBlock(nid, q * S) = FlatBlock(nid, q)
    BY <1>1, <1>5, <2>1, <2>4, <2>5 DEF ReadBlock
  <2> QED
    BY <1>1, <2>4, <2>6
<1>15. block.at = at /\ block.len = len /\ at \in Nat /\ len \in Nat /\ len > 0 /\ len <= S
       /\ at + len <= End
  BY ONLY <1>4, <1>7, <1>10, <1>12, <1>13, <1>14
<1>16. GoodBlock(block) /\ block # NoBlock
  BY <1>14, <1>15 DEF GoodBlock, NoBlock
<1>17. ASSUME NEW c \in 1..len
       PROVE  image[at + c - 1] = DirBlock(data[b])[c]
  <2>1. PICK i : i = qs + c
    OBVIOUS
  <2>2. i \in 1..full /\ at + c - 1 = base + i - 1 /\ i - 1 = qs + (c - 1) /\ c - 1 \in 0..(S - 1)
        /\ (c - 1) + 1 = c
    <3>1. qs + S <= full
      BY ONLY <1>4, <1>7
    <3> QED
      BY ONLY <1>7, <1>4, <1>13, <1>15, <2>1, <3>1, c \in 1..len
  <2>3. image[base + i - 1] = taken[n][i]
    BY <1>1, <1>6, <1>11, <2>2, NodeIs
  <2>4. (i - 1) \div S = q /\ (i - 1) % S = c - 1
    BY <1>4, <1>6, <2>2, DivMod
  <2>5. DirCells(data)[i] = DirBlock(data[(i - 1) \div S + 1])[((i - 1) % S) + 1]
    BY <1>1, <1>3, <1>6, <2>2 DEF DirCells
  <2> QED
    BY <1>3, <1>4, <2>2, <2>3, <2>4, <2>5
<1>18. \E end : Ends(data[b], end) /\ end[Len(data[b])] <= len
  <2>1. CASE b < blocks
    <3>1. b \in 1..(Len(data) - 1)
      BY <1>3, <1>4, <2>1
    <3>2. PICK u \in 1..S : Fills(data[b], u)
      BY <1>1, <1>2, <3>1 DEF Arranges
    <3> QED
      BY <1>9, <2>1, <3>2 DEF Fills
  <2>2. CASE ~(b < blocks)
    <3>1. b = Len(data)
      BY <1>3, <1>4, <2>2
    <3>2. Fills(data[b], used)
      BY <1>2, <3>1 DEF Arranges
    <3> QED
      BY <1>4, <1>9, <2>2, <3>2 DEF Fills
  <2> QED
    BY <2>1, <2>2
<1>19. data[b] \in Seq(DirentPlan) /\ DOMAIN data[b] = 1..Len(data[b]) /\ b \in DOMAIN data
  BY <1>3, <1>4
<1>20. \A i, j \in 1..Len(data[b]) : i < j => data[b][i].name < data[b][j].name
  BY <1>1, <1>19, DirIs DEF Ascending
<1>21. \A i \in 1..Len(data[b]) : data[b][i].name \notin Slash
  <2>1. \A i \in 1..Len(data[b]) : data[b][i] \in Holding(data)
    BY <1>19 DEF Holding, Elements
  <2> QED
    BY <1>1, <2>1, DirIs
<1>22. HoldsEntries(block, data[b])
  <2>1. Len(data[b]) > 0
    BY <1>3, <1>4
  <2>2. \A c \in 1..block.len : image[block.at + c - 1] = DirBlock(data[b])[c]
    BY <1>15, <1>17
  <2>3. block.len <= BlockSize
    BY <1>1, <1>15
  <2> QED
    BY <1>15, <1>16, <1>18, <1>19, <1>20, <1>21, <2>1, <2>2, <2>3 DEF HoldsEntries
<1>23. /\ b < blocks => block.len = S
       /\ b = blocks => q * S + block.len = size
       /\ b < blocks => b * S < size
  BY ONLY <1>3, <1>4, <1>6, <1>9, <1>10, <1>15
<1> QED
  BY <1>1, <1>6, <1>7, <1>8, <1>16, <1>22, <1>23

(* An entry of a packed directory lies in one of its blocks, and only      *)
(* there.                                                                  *)
LEMMA EntryLies ==
  ASSUME Packed, DirInv, NEW n \in Reached(tree), IsDir(n), NEW e \in Elements(Entries(n))
  PROVE  \E b \in 1..node[n].blocks : \E i \in 1..Len(node[n].data[b]) : node[n].data[b][i] = e
<1>1. /\ node[n].data \in Seq(Seq(DirentPlan)) /\ Len(node[n].data) = node[n].blocks
      /\ Holding(node[n].data) = Elements(Entries(n))
  BY DirIs
<1>2. PICK b \in DOMAIN node[n].data : e \in Elements(node[n].data[b])
  BY <1>1 DEF Holding
<1>3. PICK i \in DOMAIN node[n].data[b] : e = node[n].data[b][i]
  BY <1>2 DEF Elements
<1>4. node[n].data[b] \in Seq(DirentPlan)
  BY <1>1
<1>5. DOMAIN node[n].data[b] = 1..Len(node[n].data[b]) /\ DOMAIN node[n].data = 1..node[n].blocks
  BY <1>1, <1>4
<1> QED
  BY <1>2, <1>3, <1>5

(* What two entries of a directory have to do with each other.             *)
ToldApart(d, b, i, c, j) ==
  /\ d[b][i] \in Holding(d) /\ d[b][i] \in DirentPlan /\ d[b][i].name \in Nat
  /\ b < c \/ (b = c /\ i < j) => d[b][i].name < d[c][j].name
  /\ d[b][i].name = d[c][j].name => b = c /\ i = j

LEMMA NamesApart ==
  ASSUME NEW d \in Seq(Seq(DirentPlan)), Ascending(d),
         NEW b \in 1..Len(d), NEW i \in 1..Len(d[b]), NEW c \in 1..Len(d), NEW j \in 1..Len(d[c])
  PROVE  ToldApart(d, b, i, c, j)
<1>3. d[b] \in Seq(DirentPlan) /\ d[c] \in Seq(DirentPlan) /\ b \in DOMAIN d /\ c \in DOMAIN d
  OBVIOUS
<1>4. i \in DOMAIN d[b] /\ j \in DOMAIN d[c] /\ d[b][i] \in DirentPlan /\ d[c][j] \in DirentPlan
  BY <1>3
<1>5. d[b][i] \in Holding(d)
  BY <1>3, <1>4 DEF Holding, Elements
<1>6. d[b][i].name \in Nat /\ d[c][j].name \in Nat
  <2>1. Name \subseteq Nat
    BY LayoutAssumption DEF LayoutAssumption
  <2> QED
    BY <1>4, <2>1 DEF DirentPlan
<1>7. /\ b < c \/ (b = c /\ i < j) => d[b][i].name < d[c][j].name
      /\ c < b \/ (c = b /\ j < i) => d[c][j].name < d[b][i].name
  BY <1>3, <1>4 DEF Ascending
<1>8. b \in Nat /\ c \in Nat /\ i \in Nat /\ j \in Nat
  BY <1>3
<1>9. d[b][i].name = d[c][j].name => b = c /\ i = j
  <2>1. PICK x, y : x = d[b][i].name /\ y = d[c][j].name
    OBVIOUS
  <2>2. x \in Nat /\ y \in Nat /\ (b < c \/ (b = c /\ i < j) => x < y) /\ (c < b \/ (c = b /\ j < i) => y < x)
    BY ONLY <1>6, <1>7, <2>1
  <2>3. x = y => b = c /\ i = j
    BY ONLY <1>8, <2>2
  <2> QED
    BY ONLY <2>1, <2>3
<1> QED
  BY <1>4, <1>5, <1>6, <1>7, <1>9 DEF ToldApart

LEMMA NamesDiffer ==
  ASSUME Packed, DirInv, NEW n \in Reached(tree), IsDir(n),
         NEW b \in 1..node[n].blocks, NEW i \in 1..Len(node[n].data[b]),
         NEW c \in 1..node[n].blocks, NEW j \in 1..Len(node[n].data[c])
  PROVE  /\ node[n].data[b][i] \in Elements(Entries(n))
         /\ node[n].data[b][i] \in DirentPlan /\ node[n].data[b][i].name \in Nat
         /\ b < c \/ (b = c /\ i < j) => node[n].data[b][i].name < node[n].data[c][j].name
         /\ node[n].data[b][i].name = node[n].data[c][j].name => b = c /\ i = j
<1>1. /\ node[n].data \in Seq(Seq(DirentPlan)) /\ Len(node[n].data) = node[n].blocks
      /\ Ascending(node[n].data) /\ Holding(node[n].data) = Elements(Entries(n))
  BY DirIs
<1>2. PICK d : d = node[n].data
  OBVIOUS
<1>3. /\ d \in Seq(Seq(DirentPlan)) /\ Ascending(d) /\ b \in 1..Len(d) /\ c \in 1..Len(d)
      /\ i \in 1..Len(d[b]) /\ j \in 1..Len(d[c]) /\ Holding(d) = Elements(Entries(n))
  BY <1>1, <1>2
<1>4. /\ d[b][i] \in Holding(d) /\ d[b][i] \in DirentPlan /\ d[b][i].name \in Nat
      /\ b < c \/ (b = c /\ i < j) => d[b][i].name < d[c][j].name
      /\ d[b][i].name = d[c][j].name => b = c /\ i = j
  <2>1. ToldApart(d, b, i, c, j)
    BY ONLY <1>3, NamesApart
  <2> QED
    BY ONLY <2>1 DEF ToldApart
<1> QED
  BY <1>2, <1>3, <1>4

(* Looking a name up in a packed directory.                                *)
LEMMA FindInDir ==
  ASSUME Packed, DirInv, NEW n \in Reached(tree), IsDir(n), NEW name \in Name
  PROVE  /\ \A e \in Elements(Entries(n)) : e.name = name => FindIn(node[n].nid, name) = e.nid
         /\ (\A e \in Elements(Entries(n)) : e.name # name) => FindIn(node[n].nid, name) = Missing
<1>1. PICK nid, B, d : nid = node[n].nid /\ B = node[n].blocks /\ d = node[n].data
  OBVIOUS
<1> DEFINE blocks == {<<i, ReadBlock(nid, i * BlockSize)>> :
                        i \in 0..(DivCeil(InodeAt(nid).size) - 1)}
           hits == {h \in {<<b[1], Find(b[2], name)>> : b \in blocks} : h[2] # Missing}
           At(b) == Find(ReadBlock(nid, (b - 1) * BlockSize), name)
<1>2. FindIn(nid, name) =
        IF InodeAt(nid).type # "dir" \/ hits = {} THEN Missing
        ELSE (CHOOSE h \in hits : \A g \in hits : h[1] <= g[1])[2]
  BY DEF FindIn
<1>3. InodeAt(nid).type = "dir" /\ InodeAt(nid).size = node[n].size
  BY <1>1, NodeIs, TheFieldsAre DEF IsDir
<1>4. B \in Nat /\ B > 0 /\ 1 \in 1..B
  BY <1>1, DirIs
<1>5. DivCeil(InodeAt(nid).size) = B
  BY <1>1, <1>3, <1>4, DirBlocks
<1>6. hits = {h \in {<<b - 1, At(b)>> : b \in 1..B} : h[2] # Missing}
  <2>1. {<<b[1], Find(b[2], name)>> : b \in blocks} = {<<i, Find(ReadBlock(nid, i * BlockSize), name)>> : i \in 0..(B - 1)}
    <3> DEFINE T == {<<b[1], Find(b[2], name)>> : b \in blocks}
               U == {<<i, Find(ReadBlock(nid, i * BlockSize), name)>> : i \in 0..(B - 1)}
    <3>1. blocks = {<<i, ReadBlock(nid, i * BlockSize)>> : i \in 0..(B - 1)}
      BY <1>5
    <3>2. ASSUME NEW t \in T PROVE t \in U
      <4>1. PICK b \in blocks : t = <<b[1], Find(b[2], name)>>
        OBVIOUS
      <4>2. PICK i \in 0..(B - 1) : b = <<i, ReadBlock(nid, i * BlockSize)>>
        BY <3>1
      <4>3. b[1] = i /\ b[2] = ReadBlock(nid, i * BlockSize)
        BY <4>2
      <4> QED
        BY <4>1, <4>3
    <3>3. ASSUME NEW t \in U PROVE t \in T
      <4>1. PICK i \in 0..(B - 1) : t = <<i, Find(ReadBlock(nid, i * BlockSize), name)>>
        OBVIOUS
      <4>2. PICK b : b = <<i, ReadBlock(nid, i * BlockSize)>>
        OBVIOUS
      <4>3. b[1] = i /\ b[2] = ReadBlock(nid, i * BlockSize) /\ b \in blocks
        BY <3>1, <4>2
      <4> QED
        BY <4>1, <4>3
    <3> QED
      BY <3>2, <3>3
  <2>2. \A i \in 0..(B - 1) : i + 1 \in 1..B /\ (i + 1) - 1 = i
    BY <1>4
  <2>3. \A b \in 1..B : b - 1 \in 0..(B - 1)
    BY <1>4
  <2>4. {<<i, Find(ReadBlock(nid, i * BlockSize), name)>> : i \in 0..(B - 1)} = {<<b - 1, At(b)>> : b \in 1..B}
    BY <2>2, <2>3
  <2> QED
    BY <2>1, <2>4
<1> HIDE DEF hits
<1>7. ASSUME NEW b \in 1..B
      PROVE  /\ \A i \in 1..Len(d[b]) : d[b][i].name = name => At(b) = d[b][i].nid
             /\ (\A i \in 1..Len(d[b]) : d[b][i].name # name) => At(b) = Missing
  <2>1. HoldsEntries(ReadBlock(nid, (b - 1) * BlockSize), d[b])
    BY <1>1, DirBlocks
  <2> QED
    BY <2>1, Finds
<1>8. ASSUME NEW e \in Elements(Entries(n)), e.name = name
      PROVE  FindIn(nid, name) = e.nid
  <2>1. PICK b \in 1..B : \E i \in 1..Len(d[b]) : d[b][i] = e
    BY <1>1, EntryLies
  <2>2. PICK i \in 1..Len(d[b]) : d[b][i] = e
    BY <2>1
  <2>3. At(b) = e.nid /\ e.nid \in Nat
    BY <1>1, <1>7, <1>8, <2>2, NamesDiffer DEF DirentPlan
  <2>4. ASSUME NEW c \in 1..B, c # b PROVE At(c) = Missing
    <3>1. ASSUME NEW j \in 1..Len(d[c]) PROVE d[c][j].name # name
      <4>1. d[b][i].name = d[c][j].name => b = c
        <5>1. d \in Seq(Seq(DirentPlan)) /\ Ascending(d) /\ Len(d) = B
          BY <1>1, DirIs
        <5>2. /\ b \in 1..Len(d) /\ c \in 1..Len(d)
              /\ i \in 1..Len(d[b]) /\ j \in 1..Len(d[c])
          BY <5>1
        <5>3. /\ d[b][i] \in Holding(d) /\ d[b][i] \in DirentPlan /\ d[b][i].name \in Nat
              /\ b < c \/ (b = c /\ i < j) => d[b][i].name < d[c][j].name
              /\ d[b][i].name = d[c][j].name => b = c /\ i = j
          <6>1. d \in Seq(Seq(DirentPlan)) /\ Ascending(d)
            BY <5>1
          <6> QED
            <7>1. ToldApart(d, b, i, c, j)
              BY ONLY <5>2, <6>1, NamesApart
            <7> QED
              BY ONLY <7>1 DEF ToldApart
        <5> QED
          BY <5>3
      <4> QED
        BY <1>8, <2>2, <2>4, <4>1
    <3> QED
      BY <1>7, <3>1
  <2>5. At(b) # Missing
    BY <2>3 DEF Missing
  <2>6. hits = {<<b - 1, At(b)>>}
    <3> HIDE DEF At
    <3>1. \A h \in hits : h = <<b - 1, At(b)>>
      BY <1>6, <2>4
    <3>2. <<b - 1, At(b)>> \in hits
      <4>1. PICK h : h = <<b - 1, At(b)>>
        OBVIOUS
      <4>2. h[2] # Missing
        BY <2>5, <4>1
      <4> QED
        BY <1>6, <4>1, <4>2
    <3> QED
      BY <3>1, <3>2
  <2>7. (CHOOSE h \in hits : \A g \in hits : h[1] <= g[1]) = <<b - 1, At(b)>>
    <3> HIDE DEF At
    <3>1. PICK t : t = <<b - 1, At(b)>>
      OBVIOUS
    <3>2. t[1] = b - 1 /\ b - 1 \in Int
      BY <1>4, <3>1
    <3>3. t[1] <= t[1] /\ hits = {t}
      BY <2>6, <3>1, <3>2
    <3> QED
      BY ONLY <3>1, <3>3
  <2> QED
    BY <1>2, <1>3, <2>3, <2>6, <2>7
<1>9. ASSUME \A e \in Elements(Entries(n)) : e.name # name
      PROVE  FindIn(nid, name) = Missing
  <2>1. ASSUME NEW c \in 1..B PROVE At(c) = Missing
    <3>1. ASSUME NEW j \in 1..Len(d[c]) PROVE d[c][j].name # name
      BY <1>1, <1>9, NamesDiffer
    <3> QED
      BY <1>7, <3>1
  <2>2. hits = {}
    <3> HIDE DEF At
    <3> QED
      BY <1>6, <2>1
  <2> QED
    BY <1>2, <2>2
<1> QED
  BY <1>1, <1>8, <1>9

(* What get_path_inode takes for the next step.                            *)
LEMMA ResolveIn ==
  ASSUME Packed, DirInv, NEW n \in Reached(tree), NEW name \in Name \ {Dot, DotDot}
  PROVE  /\ \A c \in Children(n) : tree.name[c] = name => Resolve(node[n].nid, name) = node[c].nid
         /\ (\A c \in Children(n) : tree.name[c] # name) => Resolve(node[n].nid, name) = Missing
<1>1. /\ node[n].nid \in Nat /\ HostTree(tree, Nodes) /\ n \in Nodes
      /\ Children(n) \subseteq Reached(tree)
  BY NodeIs, HostFacts, ReachedFacts DEF Here, Packed, BuildTypes, Nodes, DownClosed, Children
<1>2. Resolve(node[n].nid, name) = Checked(FindIn(node[n].nid, name))
  BY <1>1 DEF Resolve
<1>3. Checked(Missing) = Missing
  BY DEF Checked, Missing
<1>4. CASE ~IsDir(n)
  <2>1. Children(n) = {}
    BY <1>1, <1>4 DEF HostTree, Children, IsDir
  <2>2. InodeAt(node[n].nid).type # "dir"
    BY <1>4, NodeIs, TheFieldsAre DEF IsDir
  <2>3. FindIn(node[n].nid, name) = Missing
    BY <2>2 DEF FindIn
  <2> QED
    BY <1>2, <1>3, <2>1, <2>3
<1>5. CASE IsDir(n)
  <2>1. Elements(Entries(n)) = {Named(c) : c \in Children(n)} \cup {DotOf(n), DotDotOf(n)}
    BY <1>5, DirIs
  <2>2. ASSUME NEW c \in Children(n), tree.name[c] = name
        PROVE  Resolve(node[n].nid, name) = node[c].nid
    <3>1. Named(c) \in Elements(Entries(n)) /\ Named(c).name = name /\ Named(c).nid = node[c].nid
      BY <2>1, <2>2 DEF Named
    <3>2. FindIn(node[n].nid, name) = node[c].nid
      BY <1>5, <3>1, FindInDir
    <3>3. HasInode(node[c].nid) /\ node[c].nid \in Nat
      BY <1>1, NodeIs DEF Here
    <3> QED
      BY <1>2, <3>2, <3>3 DEF Checked
  <2>3. ASSUME \A c \in Children(n) : tree.name[c] # name
        PROVE  Resolve(node[n].nid, name) = Missing
    <3>1. ASSUME NEW e \in Elements(Entries(n)) PROVE e.name # name
      BY <2>1, <2>3 DEF Named, DotOf, DotDotOf
    <3>2. FindIn(node[n].nid, name) = Missing
      BY <1>5, <3>1, FindInDir
    <3> QED
      BY <1>2, <1>3, <3>2
  <2> QED
    BY <2>2, <2>3
<1> QED
  BY <1>4, <1>5

-----------------------------------------------------------------------------
(* Paths: what lies below a directory, level by level.                     *)

Owner(nid) == CHOOSE n \in DOMAIN node : node[n].nid = nid

(* A place in the tree: a path to a node that was reached.                 *)
Spots ==
  {e \in [path : Seq(Name), nid : Nat, type : HostType] :
     \E m \in Reached(tree) :
       /\ e.nid = node[m].nid
       /\ e.type = tree.type[m] \/ (e.type = "dir" /\ m = Root)}

Child(e, c) == [path |-> Append(e.path, tree.name[c]), nid |-> node[c].nid, type |-> tree.type[c]]

LEMMA OwnerIs ==
  ASSUME Packed, NEW m \in Reached(tree)
  PROVE  Owner(node[m].nid) = m
<1>1. m \in DOMAIN node /\ node[m].nid \in Nat /\ node[m].nid # 0 /\ NothingOverlaps
  BY NodeIs DEF Here, Packed, LayInv, LaidInv
<1>2. ASSUME NEW n \in DOMAIN node, node[n].nid = node[m].nid PROVE n = m
  <2>1. m \in Numbered /\ n \in Numbered
    BY <1>1, <1>2 DEF Numbered
  <2>2. node[m].nid \in Slots(m) /\ node[m].nid \in Slots(n)
    BY <1>1, <1>2 DEF Slots, ExtendedInode
  <2> QED
    BY <1>1, <2>1, <2>2 DEF NothingOverlaps
<1> QED
  BY <1>1, <1>2 DEF Owner

LEMMA ChildrenAre ==
  ASSUME Packed, NEW m \in Reached(tree)
  PROVE  /\ Children(m) \subseteq Reached(tree) /\ m \in Nodes
         /\ Children(m) # {} => IsDir(m)
         /\ \A c \in Children(m) :
              /\ tree.name[c] \in Name \ {Dot, DotDot} /\ tree.type[c] \in HostType
              /\ node[c].nid \in Nat
         /\ \A c, d \in Children(m) : tree.name[c] = tree.name[d] => c = d
<1>1. HostTree(tree, Nodes) /\ Reached(tree) \subseteq Nodes /\ DownClosed(tree, Reached(tree))
  BY HostFacts, ReachedFacts DEF Packed, BuildTypes, Nodes
<1>2. Children(m) \subseteq Reached(tree) /\ m \in Nodes
  BY <1>1 DEF DownClosed, Children
<1>3. \A c \in Children(m) : c \in Nodes /\ node[c].nid \in Nat
  BY <1>1, <1>2, NodeIs DEF Here
<1> QED
  BY <1>1, <1>2, <1>3 DEF HostTree, Children, IsDir

LEMMA SpotIs ==
  ASSUME Packed, NEW e \in Spots
  PROVE  /\ Owner(e.nid) \in Reached(tree) /\ e.nid = node[Owner(e.nid)].nid
         /\ e.path \in Seq(Name) /\ e.nid \in Nat
         /\ e.type = tree.type[Owner(e.nid)] \/ (e.type = "dir" /\ Owner(e.nid) = Root)
         /\ Children(Owner(e.nid)) # {} => e.type = "dir"
<1>1. PICK m \in Reached(tree) :
        /\ e.nid = node[m].nid
        /\ e.type = tree.type[m] \/ (e.type = "dir" /\ m = Root)
  BY DEF Spots
<1>2. Owner(e.nid) = m
  BY <1>1, OwnerIs
<1>3. Children(m) # {} => e.type = "dir"
  BY <1>1, ChildrenAre DEF IsDir
<1> QED
  BY <1>1, <1>2, <1>3 DEF Spots

LEMMA ChildIs ==
  ASSUME Packed, NEW e \in Spots, NEW c \in Children(Owner(e.nid))
  PROVE  /\ Child(e, c) \in Spots /\ e.type = "dir"
         /\ Len(Child(e, c).path) = Len(e.path) + 1 /\ Len(e.path) \in Nat
         /\ Child(e, c).path = Append(e.path, tree.name[c])
         /\ Owner(Child(e, c).nid) = c /\ c \in Reached(tree)
<1>1. PICK m \in Reached(tree) : m = Owner(e.nid) /\ e.path \in Seq(Name) /\ e.type = "dir"
  BY SpotIs
<1>2. /\ c \in Reached(tree) /\ tree.name[c] \in Name /\ tree.type[c] \in HostType
      /\ node[c].nid \in Nat
  BY <1>1, ChildrenAre
<1>3. PICK p, x : p = Append(e.path, x) /\ x = tree.name[c]
  OBVIOUS
<1>4. p \in Seq(Name) /\ Len(p) = Len(e.path) + 1 /\ Len(e.path) \in Nat
  BY <1>1, <1>2, <1>3
<1>5. Child(e, c) = [path |-> p, nid |-> node[c].nid, type |-> tree.type[c]]
  BY <1>3 DEF Child
<1>6. Child(e, c) \in Spots
  BY <1>2, <1>4, <1>5 DEF Spots
<1>7. Owner(Child(e, c).nid) = c
  BY <1>2, <1>5, OwnerIs
<1> QED
  BY <1>1, <1>2, <1>3, <1>4, <1>5, <1>6, <1>7

LEMMA ExtendIs ==
  ASSUME Packed, NEW found \in SUBSET Spots
  PROVE  /\ Extend(found) \in SUBSET Spots
         /\ \A x \in Extend(found) : \E e \in found : \E c \in Children(Owner(e.nid)) : x = Child(e, c)
         /\ \A e \in found : \A c \in Children(Owner(e.nid)) : Child(e, c) \in Extend(found)
<1> DEFINE From(e) == {[path |-> Append(e.path, d.name), nid |-> d.nid, type |-> d.type] :
                         d \in Listing(e.nid)}
<1>1. Extend(found) = UNION {From(e) : e \in {x \in found : x.type = "dir"}}
  BY DEF Extend
<1>2. ASSUME NEW e \in found
      PROVE  From(e) = {Child(e, c) : c \in Children(Owner(e.nid))}
  <2>1. Listing(e.nid) = {Named(c) : c \in Children(Owner(e.nid))}
    BY DEF Listing, Packed, Owner, Named
  <2>2. \A c : [path |-> Append(e.path, Named(c).name), nid |-> Named(c).nid, type |-> Named(c).type] = Child(e, c)
    BY DEF Named, Child
  <2> QED
    BY <2>1, <2>2
<1> HIDE DEF From
<1>3. \A x \in Extend(found) : \E e \in found : \E c \in Children(Owner(e.nid)) : x = Child(e, c)
  BY <1>1, <1>2
<1>4. \A e \in found : \A c \in Children(Owner(e.nid)) : Child(e, c) \in Extend(found)
  <2>1. SUFFICES ASSUME NEW e \in found, NEW c \in Children(Owner(e.nid)) PROVE Child(e, c) \in Extend(found)
    OBVIOUS
  <2>2. e.type = "dir"
    BY ChildIs
  <2> QED
    BY <1>1, <1>2, <2>2
<1>5. Extend(found) \in SUBSET Spots
  BY <1>3, ChildIs
<1> QED
  BY <1>3, <1>4, <1>5

Levels(level, dir, depth) ==
  /\ level \in [0..depth -> SUBSET Spots] /\ level[0] = {dir}
  /\ \A k \in 1..depth : level[k] = Extend(level[k - 1])

LEMMA BelowIs ==
  ASSUME Packed, NEW dir \in Spots, NEW depth \in Nat
  PROVE  \E level : Levels(level, dir, depth) /\ Below(dir, depth) = UNION {level[k] : k \in 1..depth}
<1> DEFINE level[k \in 0..depth] == IF k = 0 THEN {dir} ELSE Extend(level[k - 1])
           V == SUBSET Spots
           a == {dir}
           g == [x \in V \X (1..depth) |-> Extend(x[1])]
<1>1. Below(dir, depth) = UNION {level[k] : k \in 1..depth}
  BY DEF Below
<1>3. a \in V
  OBVIOUS
<1>4. \A v \in V : Extend(v) \in V
  BY ExtendIs
<1>5. g \in [V \X (1..depth) -> V] /\ \A v \in V : \A k \in 1..depth : g[<<v, k>>] = Extend(v)
  BY <1>4
<1> HIDE DEF g, a, V
<1>6. PICK f : Iterate(f, V, depth, a, g)
  BY <1>3, <1>5, Iterates
<1>7. f = [k \in 0..depth |-> IF k = 0 THEN a ELSE Extend(f[k - 1])]
  <2>1. \A k \in 0..depth : f[k] = IF k = 0 THEN a ELSE Extend(f[k - 1])
    <3> SUFFICES ASSUME NEW k \in 0..depth, k # 0 PROVE f[k] = Extend(f[k - 1])
      BY <1>6 DEF Iterate
    <3>1. k \in 1..depth /\ k - 1 \in 0..depth
      OBVIOUS
    <3> QED
      BY <1>5, <1>6, <3>1 DEF Iterate
  <2>2. f \in [0..depth -> V]
    BY <1>6 DEF Iterate
  <2> QED
    BY <2>1, <2>2
<1>8. level = [k \in 0..depth |-> IF k = 0 THEN a ELSE Extend(level[k - 1])]
  BY <1>7 DEF a
<1> HIDE DEF level
<1>9. level[0] = {dir} /\ \A k \in 1..depth : level[k] = Extend(level[k - 1])
  <2>1. 0 \in 0..depth /\ \A k \in 1..depth : k \in 0..depth /\ k # 0
    OBVIOUS
  <2>2. level[0] = a
    BY ONLY <1>8, <2>1
  <2>3. ASSUME NEW k \in 1..depth PROVE level[k] = Extend(level[k - 1])
    BY ONLY <1>8, <2>1, <2>3
  <2> QED
    BY <2>2, <2>3 DEF a
<1>10. \A k \in 0..depth : level[k] \in V
  <2>1. level[0] \in V
    BY <1>3, <1>9 DEF a
  <2>2. ASSUME NEW k \in 1..depth, level[k - 1] \in V PROVE level[k] \in V
    BY <1>4, <1>9, <2>2
  <2> QED
    BY <2>1, <2>2, StaysIn
<1>11. level \in [0..depth -> V]
  BY <1>8, <1>10
<1>12. Levels(level, dir, depth)
  BY <1>9, <1>11 DEF Levels, V
<1> QED
  BY <1>1, <1>12

-----------------------------------------------------------------------------
(* Looking paths up.                                                       *)

(* A way through the tree that a path spells.                              *)
Way(t, m, path) ==
  /\ m \in [0..Len(path) -> Reached(t)] /\ m[0] = Root
  /\ \A k \in 1..Len(path) : m[k] \in t.children[m[k - 1]] /\ t.name[m[k]] = path[k]

Leads(t, nd, path, nid) ==
  \E m \in [0..Len(path) -> Reached(t)] : Way(t, m, path) /\ nid = nd[m[Len(path)]].nid

LookupSteps(path, at) ==
  /\ at[0] = Checked(Superblock.root)
  /\ \A k \in 1..Len(path) : at[k] = Resolve(at[k - 1], path[k])
  /\ Lookup(path) = at[Len(path)]

(* Looking a path up takes one step for each of its names.                 *)
LEMMA LookupGoes ==
  ASSUME Packed, NEW path, Len(path) \in Nat
  PROVE  \E at : LookupSteps(path, at)
<1> DEFINE n == Len(path)
           at[k \in 0..n] == IF k = 0 THEN Checked(Superblock.root)
                             ELSE Resolve(at[k - 1], path[k])
           a == Checked(Superblock.root)
           g == [x \in Answer \X (1..n) |-> Resolve(x[1], path[x[2]])]
<1>1. Lookup(path) = at[n]
  BY DEF Lookup
<1>2. n \in Nat
  OBVIOUS
<1>3. a \in Answer
  BY ImageIs, CheckedIs
<1>4. \A v \in Answer : \A k \in 1..n :
        g[<<v, k>>] = Resolve(v, path[k]) /\ Resolve(v, path[k]) \in Answer
  BY ResolveIs
<1>5. g \in [Answer \X (1..n) -> Answer]
  BY <1>4
<1> HIDE DEF g, n, a
<1>6. PICK f : Iterate(f, Answer, n, a, g)
  BY <1>2, <1>3, <1>5, Iterates
<1>7. f = [k \in 0..n |-> IF k = 0 THEN a ELSE Resolve(f[k - 1], path[k])]
  <2>1. \A k \in 0..n : f[k] = IF k = 0 THEN a ELSE Resolve(f[k - 1], path[k])
    <3> SUFFICES ASSUME NEW k \in 0..n, k # 0 PROVE f[k] = Resolve(f[k - 1], path[k])
      BY <1>6 DEF Iterate
    <3>1. k \in 1..n /\ k - 1 \in 0..n
      BY <1>2
    <3> QED
      BY <1>4, <1>6, <3>1 DEF Iterate
  <2>2. f \in [0..n -> Answer]
    BY <1>6 DEF Iterate
  <2> QED
    BY <2>1, <2>2
<1>8. at = [k \in 0..n |-> IF k = 0 THEN a ELSE Resolve(at[k - 1], path[k])]
  BY <1>7 DEF a
<1> HIDE DEF at
<1>9. at[0] = a /\ \A k \in 1..n : at[k] = Resolve(at[k - 1], path[k])
  <2>1. 0 \in 0..n /\ \A k \in 1..n : k \in 0..n /\ k # 0
    BY <1>2
  <2>2. at[0] = a
    BY ONLY <1>8, <2>1
  <2>3. ASSUME NEW k \in 1..n PROVE at[k] = Resolve(at[k - 1], path[k])
    BY ONLY <1>8, <2>1, <2>3
  <2> QED
    BY <2>2, <2>3
<1>10. LookupSteps(path, at)
  BY <1>1, <1>9 DEF LookupSteps, n, a
<1> QED
  BY <1>10

LEMMA FollowsWay ==
  ASSUME Packed, DirInv, NEW path \in Seq(Name), NEW m, Way(tree, m, path), NEW at, NEW p,
         at[0] = Checked(Superblock.root), NEW n \in Nat, n = Len(path),
         \A k \in 1..n : at[k] = Resolve(at[k - 1], p[k]) /\ p[k] = path[k]
  PROVE  at[n] = node[m[n]].nid
<1> DEFINE S == {k \in 0..n : at[k] = node[m[k]].nid}
<1>1. m[0] = Root /\ \A k \in 0..n : m[k] \in Reached(tree)
  BY DEF Way
<1>2. 0 \in S
  <2>1. 0 \in 0..n /\ Root \in Reached(tree)
    BY <1>1
  <2>2. Here(node[Root].nid) /\ Superblock.root = node[Root].nid
    BY <2>1, NodeIs DEF Packed, EmitInv, Superblock, Super
  <2>3. at[0] = node[Root].nid
    BY <2>2 DEF Checked, Here
  <2> QED
    BY <1>1, <2>1, <2>3
<1>3. ASSUME NEW k \in 1..n, k - 1 \in S PROVE k \in S
  <2>1. k \in 0..n /\ k - 1 \in 0..n
    OBVIOUS
  <2>2. /\ at[k - 1] = node[m[k - 1]].nid /\ at[k] = Resolve(at[k - 1], path[k])
        /\ m[k - 1] \in Reached(tree) /\ m[k] \in Children(m[k - 1]) /\ tree.name[m[k]] = path[k]
    BY <1>1, <1>3, <2>1 DEF Way, Children
  <2>3. path[k] \in Name \ {Dot, DotDot}
    BY <2>2, ChildrenAre
  <2>4. at[k] = node[m[k]].nid
    BY <2>2, <2>3, ResolveIn
  <2> QED
    BY <2>1, <2>4
<1> HIDE DEF S
<1>4. \A k \in 0..n : k \in S
  BY <1>2, <1>3, Induction
<1>5. n \in 0..n
  OBVIOUS
<1>6. n \in S
  BY <1>4, <1>5
<1> QED
  BY <1>6 DEF S

(* A path that leads to a node is looked up as that node, and one that     *)
(* goes further as what is looked up there.                                *)
LEMMA LookupFollows ==
  ASSUME Packed, DirInv, NEW path \in Seq(Name), NEW nid, Leads(tree, node, path, nid)
  PROVE  /\ Lookup(path) = nid
         /\ \A x \in Name : Lookup(Append(path, x)) = Resolve(nid, x)
<1>1. PICK m : Way(tree, m, path) /\ nid = node[m[Len(path)]].nid
  BY DEF Leads
<1>2. PICK n : n = Len(path)
  OBVIOUS
<1>3. n \in Nat
  BY <1>2
<1>4. Lookup(path) = nid
  <2>1. PICK at : LookupSteps(path, at)
    BY LookupGoes
  <2>2. /\ at[0] = Checked(Superblock.root) /\ Lookup(path) = at[n]
        /\ \A k \in 1..n : at[k] = Resolve(at[k - 1], path[k])
    BY <1>2, <2>1 DEF LookupSteps
  <2>3. at[n] = node[m[n]].nid
    BY <1>1, <1>2, <1>3, <2>2, FollowsWay
  <2> QED
    BY <1>1, <1>2, <2>2, <2>3
<1>5. ASSUME NEW x \in Name PROVE Lookup(Append(path, x)) = Resolve(nid, x)
  <2>1. PICK p : p = Append(path, x)
    OBVIOUS
  <2>2. Len(p) = n + 1 /\ p[n + 1] = x /\ \A k \in 1..n : p[k] = path[k]
    BY <1>2, <2>1
  <2>3. PICK at : LookupSteps(p, at)
    BY <1>3, <2>2, LookupGoes
  <2>4. 1..n \subseteq 1..(n + 1) /\ n + 1 \in 1..(n + 1) /\ (n + 1) - 1 = n
    BY <1>3
  <2>5. /\ at[0] = Checked(Superblock.root) /\ Lookup(p) = at[n + 1]
        /\ \A k \in 1..(n + 1) : at[k] = Resolve(at[k - 1], p[k])
    BY <2>2, <2>3 DEF LookupSteps
  <2>6. /\ \A k \in 1..n : at[k] = Resolve(at[k - 1], p[k]) /\ p[k] = path[k]
        /\ at[n + 1] = Resolve(at[n], x)
    BY <2>2, <2>4, <2>5
  <2>7. at[n] = node[m[n]].nid
    BY <1>1, <1>2, <1>3, <2>5, <2>6, FollowsWay
  <2> QED
    BY <1>1, <1>2, <2>1, <2>5, <2>6, <2>7
<1> QED
  BY <1>4, <1>5

LEMMA WayExtends ==
  ASSUME Packed, NEW path \in Seq(Name), NEW nid, Leads(tree, node, path, nid),
         NEW c \in Children(Owner(nid))
  PROVE  Leads(tree, node, Append(path, tree.name[c]), node[c].nid)
<1>1. PICK m, n, p :
        /\ Way(tree, m, path) /\ nid = node[m[Len(path)]].nid
        /\ n = Len(path) /\ p = Append(path, tree.name[c])
  BY DEF Leads
<1>2. n \in Nat /\ n \in 0..n /\ m \in [0..n -> Reached(tree)] /\ m[0] = Root
  BY <1>1 DEF Way
<1>3. Owner(nid) = m[n]
  BY <1>1, <1>2, OwnerIs
<1>4. c \in Reached(tree) /\ c \in tree.children[m[n]] /\ tree.name[c] \in Name
  BY <1>2, <1>3, ChildrenAre DEF Children
<1>5. Len(p) = n + 1 /\ p[n + 1] = tree.name[c] /\ \A k \in 1..n : p[k] = path[k]
  BY <1>1, <1>4
<1>6. PICK w : w = [k \in 0..(n + 1) |-> IF k = n + 1 THEN c ELSE m[k]]
  OBVIOUS
<1>7. w \in [0..(n + 1) -> Reached(tree)] /\ w[0] = Root /\ w[n + 1] = c
      /\ \A k \in 0..n : w[k] = m[k]
  BY <1>2, <1>4, <1>6
<1>8. ASSUME NEW k \in 1..(n + 1)
      PROVE  w[k] \in tree.children[w[k - 1]] /\ tree.name[w[k]] = p[k]
  <2>1. CASE k = n + 1
    <3>1. k - 1 = n
      BY <1>2, <2>1
    <3> QED
      BY <1>2, <1>4, <1>5, <1>7, <2>1, <3>1
  <2>2. CASE k # n + 1
    <3>1. k \in 1..n /\ k \in 0..n /\ k - 1 \in 0..n
      BY <1>2, <2>2
    <3>2. m[k] \in tree.children[m[k - 1]] /\ tree.name[m[k]] = path[k]
      BY <1>1, <3>1 DEF Way
    <3> QED
      BY <1>5, <1>7, <3>1, <3>2
  <2> QED
    BY <2>1, <2>2
<1>9. Way(tree, w, p)
  BY <1>5, <1>7, <1>8 DEF Way
<1> QED
  BY <1>1, <1>5, <1>7, <1>9 DEF Leads

(* Places that are so many levels below the root.                          *)
Rooted(k) == {e \in Spots : Len(e.path) = k /\ Leads(tree, node, e.path, e.nid)}

LEMMA RootIs ==
  ASSUME Packed, source = FromHost
  PROVE  TheRoot \in Rooted(0)
<1>1. Root \in Reached(tree)
  BY ReachedFacts DEF Packed, BuildTypes
<1>2. node[Root].nid \in Nat /\ <<>> \in Seq(Name) /\ Len(<<>>) = 0 /\ "dir" \in HostType
  BY <1>1, NodeIs DEF Here, HostType
<1>3. TheRoot = [path |-> <<>>, nid |-> node[Root].nid, type |-> "dir"]
  BY DEF TheRoot, RootNid
<1>4. TheRoot \in Spots
  BY <1>1, <1>2, <1>3 DEF Spots
<1>5. PICK m : m = [k \in 0..0 |-> Root]
  OBVIOUS
<1>6. Way(tree, m, <<>>) /\ m[0] = Root
  BY <1>1, <1>2, <1>5 DEF Way
<1>7. Leads(tree, node, <<>>, node[Root].nid)
  BY <1>2, <1>6 DEF Leads, Way
<1> QED
  BY <1>2, <1>3, <1>4, <1>7 DEF Rooted

LEMMA RootedGrow ==
  ASSUME Packed, NEW k \in Nat, NEW found \in SUBSET Rooted(k)
  PROVE  /\ Extend(found) \in SUBSET Rooted(k + 1)
         /\ \A e \in found : \A c \in Children(Owner(e.nid)) : Child(e, c) \in Extend(found)
<1>1. found \in SUBSET Spots
  BY DEF Rooted
<1>2. /\ \A x \in Extend(found) : \E e \in found : \E c \in Children(Owner(e.nid)) : x = Child(e, c)
      /\ \A e \in found : \A c \in Children(Owner(e.nid)) : Child(e, c) \in Extend(found)
  BY <1>1, ExtendIs
<1>3. ASSUME NEW e \in found, NEW c \in Children(Owner(e.nid))
      PROVE  Child(e, c) \in Rooted(k + 1)
  <2>1. e \in Spots /\ Len(e.path) = k /\ Leads(tree, node, e.path, e.nid)
    BY DEF Rooted
  <2>2. /\ Child(e, c) \in Spots /\ Len(Child(e, c).path) = k + 1
        /\ Child(e, c).path = Append(e.path, tree.name[c])
    BY <2>1, ChildIs
  <2>3. Leads(tree, node, Append(e.path, tree.name[c]), node[c].nid)
    BY <2>1, SpotIs, WayExtends
  <2>4. Child(e, c).nid = node[c].nid
    BY DEF Child
  <2> QED
    BY <2>2, <2>3, <2>4 DEF Rooted
<1> QED
  BY <1>2, <1>3

(* What can be reached, and what can be reached next.                      *)
LEMMA ReachableIs ==
  ASSUME Packed, source = FromHost
  PROVE  /\ \A e \in Reachable \cup {TheRoot} : \E k \in 0..DefaultMaxDepth : e \in Rooted(k)
         /\ \A e \in Reachable \cup {TheRoot} : \A c \in Children(Owner(e.nid)) :
              Len(e.path) < DefaultMaxDepth => Child(e, c) \in Reachable
<1>1. PICK depth : depth = DefaultMaxDepth
  OBVIOUS
<1>2. depth \in Nat
  BY <1>1, ReaderAssumption DEF ReaderAssumption
<1>3. TheRoot \in Rooted(0) /\ TheRoot \in Spots
  BY RootIs DEF Rooted
<1>4. PICK level : Levels(level, TheRoot, depth) /\ Reachable = UNION {level[k] : k \in 1..depth}
  BY <1>1, <1>2, <1>3, BelowIs DEF Reachable
<1> DEFINE S == {k \in 0..depth : level[k] \subseteq Rooted(k)}
<1>5. 0 \in S
  <2>1. level[0] = {TheRoot} /\ 0 \in 0..depth
    BY <1>2, <1>4 DEF Levels
  <2> QED
    BY <1>3, <2>1
<1>6. ASSUME NEW k \in 1..depth, k - 1 \in S PROVE k \in S
  <2>1. k \in 0..depth /\ k - 1 \in Nat /\ (k - 1) + 1 = k /\ level[k - 1] \subseteq Rooted(k - 1)
    BY <1>2, <1>6
  <2>2. level[k] = Extend(level[k - 1])
    BY <1>4 DEF Levels
  <2>3. Extend(level[k - 1]) \in SUBSET Rooted((k - 1) + 1)
    BY <2>1, RootedGrow
  <2> QED
    BY <2>1, <2>2, <2>3
<1>7. \A k \in 0..depth : k \in S
  <2> HIDE DEF S
  <2> QED
    BY <1>2, <1>5, <1>6, Induction
<1>8. \A k \in 0..depth : level[k] \subseteq Rooted(k)
  BY <1>7
<1> HIDE DEF S
<1>9. ASSUME NEW e \in Reachable \cup {TheRoot}
      PROVE  \E k \in 0..depth : e \in level[k] /\ e \in Rooted(k)
  <2>1. CASE e = TheRoot
    BY <1>2, <1>3, <1>4, <2>1 DEF Levels
  <2>2. CASE e \in Reachable
    <3>1. PICK k \in 1..depth : e \in level[k]
      BY <1>4, <2>2
    <3>2. k \in 0..depth
      BY <1>2
    <3> QED
      BY <1>8, <3>1, <3>2
  <2> QED
    BY <2>1, <2>2
<1>10. ASSUME NEW e \in Reachable \cup {TheRoot}, NEW c \in Children(Owner(e.nid)), Len(e.path) < depth
       PROVE  Child(e, c) \in Reachable
  <2>1. PICK k \in 0..depth : e \in level[k] /\ e \in Rooted(k)
    BY <1>9
  <2>2. k = Len(e.path)
    BY <2>1 DEF Rooted
  <2>3. k + 1 \in 1..depth /\ (k + 1) - 1 = k /\ k \in Nat
    BY <1>2, <1>10, <2>2
  <2>4. level[k + 1] = Extend(level[k]) /\ level[k] \in SUBSET Rooted(k)
    BY <1>4, <1>8, <2>3 DEF Levels
  <2>5. Child(e, c) \in level[k + 1]
    BY <2>1, <2>3, <2>4, RootedGrow
  <2> QED
    BY <1>4, <2>3, <2>5
<1> QED
  BY <1>1, <1>9, <1>10

(* Paths are looked up as the tree says.                                   *)
LEMMA LookupIsExact ==
  ASSUME Packed, DirInv, source = FromHost, NEW e \in Reachable \cup {TheRoot}
  PROVE  /\ Lookup(e.path) = e.nid /\ e.path \in Seq(Name)
         /\ \A n \in Name \ {Dot, DotDot} :
              \/ Lookup(Append(e.path, n)) = Missing
              \/ \E c \in Children(Owner(e.nid)) :
                   tree.name[c] = n /\ Lookup(Append(e.path, n)) = node[c].nid
<1>1. e \in Spots /\ Leads(tree, node, e.path, e.nid)
  BY ReachableIs DEF Rooted
<1>2. Owner(e.nid) \in Reached(tree) /\ e.nid = node[Owner(e.nid)].nid /\ e.path \in Seq(Name)
  BY <1>1, SpotIs
<1>3. /\ Lookup(e.path) = e.nid
      /\ \A x \in Name : Lookup(Append(e.path, x)) = Resolve(e.nid, x)
  BY <1>1, <1>2, LookupFollows
<1>4. ASSUME NEW n \in Name \ {Dot, DotDot}
      PROVE  \/ Lookup(Append(e.path, n)) = Missing
             \/ \E c \in Children(Owner(e.nid)) :
                  tree.name[c] = n /\ Lookup(Append(e.path, n)) = node[c].nid
  <2>1. Lookup(Append(e.path, n)) = Resolve(node[Owner(e.nid)].nid, n)
    BY <1>2, <1>3
  <2> QED
    BY <1>2, <2>1, ResolveIn
<1> QED
  BY <1>2, <1>3, <1>4

LEMMA LookupsAgree ==
  ASSUME Packed, DirInv, source = FromHost
  PROVE  LookupAgrees
<1>1. \A e \in Reachable : Lookup(e.path) = e.nid
  BY LookupIsExact
<1>2. ASSUME NEW e \in Reachable, NEW n \in Name \ {Dot, DotDot},
             Append(e.path, n) \notin {d.path : d \in Reachable}, Len(e.path) < DefaultMaxDepth
      PROVE  Lookup(Append(e.path, n)) = Missing
  <2>1. ASSUME NEW c \in Children(Owner(e.nid)), tree.name[c] = n PROVE FALSE
    <3>1. Child(e, c) \in Reachable
      BY <1>2, ReachableIs
    <3>2. Child(e, c).path = Append(e.path, n)
      BY <2>1 DEF Child
    <3> QED
      BY <1>2, <3>1, <3>2
  <2> QED
    BY <2>1, LookupIsExact
<1>3. \A e \in Reachable : IsText(e.path) => Lookup(PathAsText(e.path)) = e.nid
  BY <1>1 DEF IsText
<1> QED
  BY <1>1, <1>2, <1>3 DEF LookupAgrees

PackedInv == HostInv /\ (source = FromHost => DirInv)

LEMMA PackedInit == Init => PackedInv
<1>1. ASSUME Init, source = FromHost PROVE WalkInv /\ FileInv
  BY <1>1 DEF Init, ReaderInit, WalkInv, FileInv, Sequence
<1> QED
  BY <1>1, InitEmits, InitFills DEF HostInv, PackedInv

LEMMA PackedStep == PackedInv /\ [Next]_vars => PackedInv'
<1>1. SUFFICES ASSUME PackedInv, [Next]_vars PROVE PackedInv'
  OBVIOUS
<1>2. source' = source
  BY <1>1 DEF Next, Step, Build, Intrude, Start, Read, Inspect, Terminated, vars
<1>3. HostInv'
  BY <1>1, StepHolds DEF PackedInv
<1>4. ASSUME source = FromHost PROVE DirInv'
  BY <1>1, <1>4, StepFills DEF PackedInv, HostInv
<1> QED
  BY <1>2, <1>3, <1>4 DEF PackedInv

(* In a packed image a path is looked up as the node that lies there, and  *)
(* one that leads nowhere as missing.                                      *)
THEOREM PackedLookupAgrees == Spec => [](source = FromHost => LookupAgrees)
<1>1. PackedInv => (source = FromHost => LookupAgrees)
  <2>1. SUFFICES ASSUME PackedInv, source = FromHost PROVE LookupAgrees
    OBVIOUS
  <2>2. CASE phase = "built"
    BY <2>1, <2>2, LookupsAgree DEF PackedInv, HostInv, Packed
  <2>3. CASE phase # "built"
    BY <2>3 DEF LookupAgrees
  <2> QED
    BY <2>2, <2>3
<1> QED
  BY <1>1, PackedInit, PackedStep, PTL DEF Spec

-----------------------------------------------------------------------------
(* The inspector.  A row: what it lists and where it lies.                 *)

RowIs(row) ==
  /\ row.depth \in Nat /\ Sequence(row.related) /\ Sequence(row.data)
  /\ \A k \in 0..Len(row.related) :
       IsFiniteSet(Found(Selected(row, k))) /\ Found(Selected(row, k)) \in SUBSET Nat
  /\ \E limit \in Nat : \A s \in SpansOf(row) : s.at + s.len <= limit
  /\ \A s \in SpansOf(row) : s.at \in Nat /\ s.len \in Nat

RowsAre ==
  /\ Sequence(rows) /\ Len(rows) > 0 /\ rows[1].depth = 0
  /\ \A i \in 1..Len(rows) : RowIs(rows[i])
  /\ \A i \in 1..(Len(rows) - 1) : rows[i + 1].depth <= rows[i].depth + 1

ViewType ==
  [open : {TRUE}, tree : 1..Len(rows), focus : {"tree", "fields", "hex"}, collapsed : SUBSET (1..Len(rows)),
   related : Nat, extent : Nat, fields : SUBSET Nat, field : Nat, override : [at : Int, len : Int]]

(* What a view folds and selects.                                          *)
FoldsRight(v) ==
  \A c \in v.collapsed : ~Hides(c, v.tree) /\ rows[c].kind = "dir" /\ HasChildren(c)

LooksAt(v) == v.override # NoOverride =>
  Owners(v.override.at \div BlockSize) = {} \/ v.tree \in Owners(v.override.at \div BlockSize)

Selects(v) ==
  /\ v \in ViewType
  /\ FoldsRight(v)
  /\ v.related <= Len(rows[v.tree].related)
  /\ v.fields = Found(Selected(rows[v.tree], v.related))
  /\ v.field = 0 \/ v.field < Cardinality(v.fields)
  /\ v.extent = 0 \/ v.extent < Len(rows[v.tree].data)
  /\ LooksAt(v)

LEMMA RowsFacts ==
  ASSUME RowsAre
  PROVE  /\ Len(rows) \in Nat /\ DOMAIN rows = 1..Len(rows)
         /\ \A i \in 1..Len(rows) :
              /\ rows[i].depth \in Nat
              /\ Len(rows[i].related) \in Nat /\ DOMAIN rows[i].related = 1..Len(rows[i].related)
              /\ Len(rows[i].data) \in Nat /\ DOMAIN rows[i].data = 1..Len(rows[i].data)
<1>1. Len(rows) \in Nat /\ DOMAIN rows = 1..Len(rows)
  BY SequenceIs DEF RowsAre
<1>2. ASSUME NEW i \in 1..Len(rows)
      PROVE  /\ rows[i].depth \in Nat
             /\ Len(rows[i].related) \in Nat /\ DOMAIN rows[i].related = 1..Len(rows[i].related)
             /\ Len(rows[i].data) \in Nat /\ DOMAIN rows[i].data = 1..Len(rows[i].data)
  <2>1. rows[i].depth \in Nat /\ Sequence(rows[i].related) /\ Sequence(rows[i].data)
    BY <1>2 DEF RowsAre, RowIs
  <2> QED
    BY <2>1, SequenceIs
<1> QED
  BY <1>1, <1>2

(* A view with another row selected of it.                                 *)
LEMMA ReloadedIs ==
  ASSUME RowsAre, NEW v \in ViewType, NEW k \in 0..Len(rows[v.tree].related), FoldsRight(v),
         v.extent = 0 \/ v.extent < Len(rows[v.tree].data)
  PROVE  Selects(Reloaded(v, rows[v.tree], k))
<1> DEFINE w == Reloaded(v, rows[v.tree], k)
<1>1. PICK F : F = Found(Selected(rows[v.tree], k))
  OBVIOUS
<1>2. F \in SUBSET Nat /\ IsFiniteSet(F) /\ Len(rows[v.tree].related) \in Nat
  <2>1. v.tree \in 1..Len(rows)
    BY DEF ViewType
  <2> QED
    BY <1>1, <2>1, RowsFacts DEF RowsAre, RowIs
<1>3. w = [v EXCEPT !.related = k, !.fields = F, !.field = 0, !.override = NoOverride]
  BY <1>1 DEF Reloaded
<1>4. NoOverride \in [at : Int, len : Int]
  BY DEF NoOverride, Nowhere, Span
<1> HIDE DEF w
<1>5. /\ w \in ViewType /\ w.tree = v.tree /\ w.collapsed = v.collapsed /\ w.extent = v.extent
      /\ w.related = k /\ w.fields = F /\ w.field = 0 /\ w.override = NoOverride
  <2>1. k \in Nat
    BY <1>2
  <2> QED
    BY <1>2, <1>3, <1>4, <2>1 DEF ViewType
<1>6. k <= Len(rows[v.tree].related)
  BY <1>2
<1>7. FoldsRight(w) /\ LooksAt(w)
  BY <1>5 DEF FoldsRight, LooksAt
<1> QED
  BY <1>1, <1>5, <1>6, <1>7 DEF Selects, w

LEMMA SelectNodeIs ==
  ASSUME RowsAre, NEW v \in ViewType, NEW index \in 1..Len(rows),
         \A c \in v.collapsed : ~Hides(c, index) /\ rows[c].kind = "dir" /\ HasChildren(c)
  PROVE  Selects(SelectNode(v, index)) /\ SelectNode(v, index).tree = index
<1>1. PICK w : w = [v EXCEPT !.tree = index, !.extent = 0]
  OBVIOUS
<1>2. w \in ViewType /\ w.tree = index /\ w.extent = 0 /\ w.collapsed = v.collapsed
  BY <1>1 DEF ViewType
<1>3. FoldsRight(w)
  BY <1>2 DEF FoldsRight
<1>4. 0 \in 0..Len(rows[index].related)
  BY RowsFacts
<1>5. SelectNode(v, index) = Reloaded(w, rows[w.tree], 0)
  BY <1>1, <1>2 DEF SelectNode
<1>6. Selects(SelectNode(v, index))
  BY <1>2, <1>3, <1>4, <1>5, ReloadedIs
<1>7. SelectNode(v, index).tree = index
  BY <1>2, <1>5 DEF Reloaded, ViewType
<1> QED
  BY <1>6, <1>7

LEMMA MinIs ==
  ASSUME NEW T \in SUBSET Nat, T # {}
  PROVE  Sets!Min(T) \in T /\ \A x \in T : Sets!Min(T) <= x
<1>1. \E x \in T : \A y \in T : x <= y
  BY LeastNumber
<1> QED
  BY <1>1 DEF Sets!Min

LEMMA GreatestNumber ==
  ASSUME NEW n \in Nat, NEW T \in SUBSET (0..n), T # {}
  PROVE  \E x \in T : \A y \in T : y <= x
<1> DEFINE U == {n - x : x \in T}
<1>1. U \in SUBSET Nat /\ U # {}
  <2>1. \A x \in T : x \in 0..n /\ n - x \in Nat
    OBVIOUS
  <2> QED
    BY <2>1
<1>2. PICK u \in U : \A w \in U : u <= w
  BY <1>1, LeastNumber
<1>3. PICK x \in T : u = n - x
  OBVIOUS
<1>4. ASSUME NEW y \in T PROVE y <= x
  <2>1. n - y \in U
    OBVIOUS
  <2>2. n - x <= n - y
    BY <1>2, <1>3, <2>1
  <2>3. x \in Int /\ y \in Int
    OBVIOUS
  <2> QED
    BY <2>2, <2>3
<1> QED
  BY <1>4

LEMMA MaxIs ==
  ASSUME NEW n \in Nat, NEW T \in SUBSET (0..n), T # {}
  PROVE  Sets!Max(T) \in T /\ \A x \in T : x <= Sets!Max(T)
<1>1. \E x \in T : \A y \in T : x >= y
  <2>1. PICK x \in T : \A y \in T : y <= x
    BY GreatestNumber
  <2>2. \A y \in T : y \in Int
    OBVIOUS
  <2> QED
    BY <2>1, <2>2
<1>2. Sets!Max(T) \in T /\ \A x \in T : Sets!Max(T) >= x
  BY <1>1 DEF Sets!Max
<1> QED
  BY <1>2

-----------------------------------------------------------------------------
(* The keys of the inspector, on any rows.                                 *)

Looking == RowsAre /\ view.open /\ Selects(view)

LEMMA LookingIs ==
  ASSUME Looking
  PROVE  /\ RowsAre /\ view \in ViewType /\ view.tree \in 1..Len(rows) /\ Row = rows[view.tree]
         /\ view.tree \in Visible /\ Visible \in SUBSET (1..Len(rows)) /\ Len(rows) \in Nat
         /\ view.collapsed \in SUBSET (1..Len(rows))
         /\ \A c \in view.collapsed : rows[c].kind = "dir" /\ HasChildren(c)
<1>1. /\ RowsAre /\ view \in ViewType /\ view.tree \in 1..Len(rows)
      /\ FoldsRight(view) /\ view.collapsed \in SUBSET (1..Len(rows))
  BY DEF Looking, Selects, ViewType
<1>2. Len(rows) \in Nat /\ DOMAIN rows = 1..Len(rows)
  BY <1>1, RowsFacts
<1>3. view.tree \in Visible /\ Visible \in SUBSET (1..Len(rows))
  BY <1>1, <1>2 DEF Visible, FoldsRight
<1>4. Row = rows[view.tree]
  BY DEF Row
<1> QED
  BY <1>1, <1>2, <1>3, <1>4 DEF FoldsRight

LEMMA SelectVisible ==
  ASSUME Looking, NEW index \in Visible
  PROVE  Selects(SelectNode(view, index))
<1>1. index \in 1..Len(rows) /\ \A c \in view.collapsed : ~Hides(c, index)
  BY LookingIs DEF Visible
<1> QED
  BY <1>1, LookingIs, SelectNodeIs

LEMMA MoveTreeSelects ==
  ASSUME Looking, NEW delta \in Moves, MoveTree(delta)
  PROVE  Selects(view')
BY SelectVisible DEF MoveTree, Show

LEMMA ClampIs ==
  ASSUME NEW n \in Int, NEW high \in Nat
  PROVE  Clamp(n, high) \in 0..high
BY DEF Clamp

LEMMA FieldsAre ==
  ASSUME Looking
  PROVE  /\ Cardinality(view.fields) \in Nat
         /\ view.fields # {} => Cardinality(view.fields) - 1 \in Nat
<1>1. IsFiniteSet(view.fields)
  <2>1. RowIs(Row) /\ view.fields = Found(Selected(Row, view.related))
        /\ view.related <= Len(Row.related) /\ view.related \in Nat
    BY LookingIs DEF Looking, Selects, RowsAre, ViewType
  <2>2. view.related \in 0..Len(Row.related)
    BY <2>1, LookingIs, RowsFacts
  <2> QED
    BY <2>1, <2>2 DEF RowIs
<1> QED
  BY <1>1, FS_CardinalityType, FS_EmptySet

LEMMA FieldSelects ==
  ASSUME Looking, NEW n, n = 0 \/ n \in 0..(Cardinality(view.fields) - 1),
         view' = [view EXCEPT !.field = n]
  PROVE  Selects(view')
<1>1. n \in Nat /\ (n = 0 \/ n < Cardinality(view.fields))
  BY FieldsAre
<1>2. view \in ViewType
  BY LookingIs
<1>3. /\ view' \in ViewType /\ view'.tree = view.tree /\ view'.collapsed = view.collapsed
      /\ view'.related = view.related /\ view'.fields = view.fields /\ view'.extent = view.extent
      /\ view'.override = view.override /\ view'.field = n
  BY <1>1, <1>2 DEF ViewType
<1> QED
  BY <1>1, <1>3 DEF Looking, Selects, FoldsRight, LooksAt

LEMMA MoveFieldSelects ==
  ASSUME Looking, NEW delta \in Moves, MoveField(delta)
  PROVE  Selects(view')
<1>1. PICK n : n = Clamp(view.field + delta, Cardinality(view.fields) - 1)
  OBVIOUS
<1>2. view.field + delta \in Int
  BY LookingIs DEF ViewType, Moves
<1>3. n \in 0..(Cardinality(view.fields) - 1)
  <2>1. view.fields # {}
    BY DEF MoveField
  <2> QED
    BY <1>1, <1>2, <2>1, FieldsAre, ClampIs
<1>4. view' = [view EXCEPT !.field = n]
  BY <1>1 DEF MoveField, Show
<1> QED
  BY <1>3, <1>4, FieldSelects

LEMMA HomeOrEndSelects ==
  ASSUME Looking, NEW first \in BOOLEAN, HomeOrEnd(first)
  PROVE  Selects(view')
<1>1. CASE view' = SelectNode(view, IF first THEN Sets!Min(Visible) ELSE Sets!Max(Visible))
  <2>1. Visible \in SUBSET Nat /\ Visible \in SUBSET (0..Len(rows)) /\ Visible # {} /\ Len(rows) \in Nat
    BY LookingIs
  <2>2. Sets!Min(Visible) \in Visible /\ Sets!Max(Visible) \in Visible
    BY <2>1, MinIs, MaxIs
  <2> QED
    BY <1>1, <2>2, SelectVisible
<1>2. CASE view' = [view EXCEPT !.field = IF first \/ view.fields = {} THEN 0 ELSE Cardinality(view.fields) - 1]
  <2>1. PICK n : n = IF first \/ view.fields = {} THEN 0 ELSE Cardinality(view.fields) - 1
    OBVIOUS
  <2>2. n = 0 \/ n \in 0..(Cardinality(view.fields) - 1)
    BY <2>1, FieldsAre
  <2> QED
    BY <1>2, <2>1, <2>2, FieldSelects
<1> QED
  BY <1>1, <1>2 DEF HomeOrEnd, Show

LEMMA TabSelects ==
  ASSUME Looking, Tab
  PROVE  Selects(view')
<1>1. PICK f : f = CASE view.focus = "tree" -> "fields"
                     [] view.focus = "fields" -> "hex"
                     [] view.focus = "hex" -> "tree"
  OBVIOUS
<1>2. view \in ViewType
  BY LookingIs
<1>3. f \in {"tree", "fields", "hex"}
  <2>1. view.focus \in {"tree", "fields", "hex"}
    BY <1>2 DEF ViewType
  <2> QED
    BY <1>1, <2>1
<1>4. view' = [view EXCEPT !.focus = f]
  BY <1>1 DEF Tab, Show
<1>5. /\ view' \in ViewType /\ view'.tree = view.tree /\ view'.collapsed = view.collapsed
      /\ view'.related = view.related /\ view'.fields = view.fields /\ view'.extent = view.extent
      /\ view'.override = view.override /\ view'.field = view.field
  BY <1>2, <1>3, <1>4 DEF ViewType
<1> QED
  BY <1>5 DEF Looking, Selects, FoldsRight, LooksAt

LEMMA FoldSelects ==
  ASSUME Looking, NEW C \in SUBSET (1..Len(rows)), view' = [view EXCEPT !.collapsed = C],
         \A c \in C : c \in view.collapsed \/ (c = view.tree /\ Row.kind = "dir" /\ HasChildren(c))
  PROVE  Selects(view')
<1>1. view \in ViewType /\ FoldsRight(view) /\ view.tree \in 1..Len(rows) /\ Len(rows) \in Nat
  BY LookingIs DEF Looking, Selects
<1>2. /\ view' \in ViewType /\ view'.tree = view.tree /\ view'.collapsed = C
      /\ view'.related = view.related /\ view'.fields = view.fields /\ view'.extent = view.extent
      /\ view'.override = view.override /\ view'.field = view.field
  BY <1>1 DEF ViewType
<1>3. ~Hides(view.tree, view.tree)
  BY <1>1 DEF Hides
<1>4. FoldsRight(view')
  BY <1>1, <1>2, <1>3 DEF FoldsRight, Row
<1> QED
  BY <1>2, <1>4 DEF Looking, Selects, LooksAt

LEMMA ToggleSelects ==
  ASSUME Looking, ToggleDirectory
  PROVE  Selects(view')
<1>1. CASE view' = [view EXCEPT !.collapsed = @ \ {view.tree}]
  <2>1. PICK C : C = view.collapsed \ {view.tree}
    OBVIOUS
  <2> QED
    BY <1>1, <2>1, LookingIs, FoldSelects
<1>2. CASE view' = [view EXCEPT !.collapsed = @ \cup {view.tree}]
  <2>1. PICK C : C = view.collapsed \cup {view.tree}
    OBVIOUS
  <2>2. Row.kind = "dir" /\ HasChildren(view.tree)
    BY DEF ToggleDirectory
  <2> QED
    BY <1>2, <2>1, <2>2, LookingIs, FoldSelects
<1> QED
  BY <1>1, <1>2 DEF ToggleDirectory, Show, Expand, Collapse

LEMMA TreeRightSelects ==
  ASSUME Looking, TreeRight
  PROVE  Selects(view')
<1>1. CASE view' = [view EXCEPT !.collapsed = @ \ {view.tree}]
  <2>1. PICK C : C = view.collapsed \ {view.tree}
    OBVIOUS
  <2> QED
    BY <1>1, <2>1, LookingIs, FoldSelects
<1>2. CASE view.tree \notin view.collapsed /\ HasChildren(view.tree) /\ view' = SelectNode(view, view.tree + 1)
  <2>1. view.tree \in 1..Len(rows) /\ Len(rows) \in Nat /\ view.tree + 1 \in 1..Len(rows)
    BY <1>2, LookingIs DEF HasChildren
  <2>2. ASSUME NEW c \in view.collapsed PROVE ~Hides(c, view.tree + 1)
    <3>1. c \in 1..Len(rows) /\ c # view.tree /\ ~Hides(c, view.tree)
      BY <1>2, LookingIs DEF Looking, Selects, FoldsRight
    <3>2. ASSUME Hides(c, view.tree + 1) PROVE Hides(c, view.tree)
      <4>1. c < view.tree
        BY <2>1, <3>1, <3>2 DEF Hides
      <4>2. \A k \in (c + 1)..view.tree : k \in (c + 1)..(view.tree + 1)
        BY <2>1, <3>1
      <4> QED
        BY <3>2, <4>1, <4>2 DEF Hides
    <3> QED
      BY <3>1, <3>2
  <2>3. view.tree + 1 \in Visible
    BY <2>1, <2>2, LookingIs, RowsFacts DEF Visible
  <2> QED
    BY <1>2, <2>3, SelectVisible
<1> QED
  BY <1>1, <1>2 DEF TreeRight, Show, Expand

(* From a row down to the next one that is one level above a later one,    *)
(* every row is deeper.                                                    *)
LEMMA NoneBetween ==
  ASSUME RowsAre, NEW t \in 1..Len(rows), NEW p \in 1..(t - 1), rows[p].depth + 1 = rows[t].depth,
         \A i \in (p + 1)..(t - 1) : rows[i].depth + 1 # rows[t].depth,
         NEW k \in (p + 1)..t
  PROVE  rows[t].depth <= rows[k].depth
<1>1. /\ Len(rows) \in Nat /\ \A i \in 1..Len(rows) : rows[i].depth \in Nat
      /\ \A i \in 1..(Len(rows) - 1) : rows[i + 1].depth <= rows[i].depth + 1
  BY RowsFacts DEF RowsAre
<1>2. PICK depth : depth = [i \in 1..Len(rows) |-> rows[i].depth]
  OBVIOUS
<1>3. t \in Nat /\ p \in Nat /\ t <= Len(rows) /\ k \in Nat /\ 1 <= k /\ k <= t /\ p + 1 <= k
  BY <1>1
<1>4. /\ \A i \in 1..Len(rows) : depth[i] \in Nat
      /\ \A i \in 1..(Len(rows) - 1) : depth[i + 1] <= depth[i] + 1
      /\ \A i \in (p + 1)..(t - 1) : depth[i] + 1 # depth[t]
  <2>1. \A i \in 1..(Len(rows) - 1) : i \in 1..Len(rows) /\ i + 1 \in 1..Len(rows)
    BY <1>1
  <2>2. \A i \in (p + 1)..(t - 1) : i \in 1..Len(rows)
    BY <1>1, <1>3
  <2> QED
    BY <1>1, <1>2, <2>1, <2>2
<1> DEFINE T == {i \in (p + 1)..t : depth[i] < depth[t]}
<1>5. ASSUME T # {} PROVE FALSE
  <2>1. T \in SUBSET (0..t)
    BY <1>3
  <2>2. PICK m \in T : \A i \in T : i <= m
    BY <1>3, <1>5, <2>1, GreatestNumber
  <2>3. m \in (p + 1)..t /\ depth[m] < depth[t]
    OBVIOUS
  <2> HIDE DEF T
  <2>4. m # t /\ m \in Nat /\ m + 1 \in (p + 1)..t /\ m \in (p + 1)..(t - 1) /\ m \in 1..Len(rows)
        /\ m \in 1..(Len(rows) - 1) /\ m + 1 \in 1..Len(rows) /\ t \in 1..Len(rows)
    BY <1>1, <1>3, <1>4, <2>3
  <2>5. m + 1 \notin T
    BY <2>2, <2>4
  <2>6. ~(depth[m + 1] < depth[t])
    BY <2>4, <2>5 DEF T
  <2>7. depth[m + 1] <= depth[m] + 1 /\ depth[m] + 1 # depth[t]
    BY <1>4, <2>4
  <2>8. depth[m + 1] \in Nat /\ depth[m] \in Nat /\ depth[t] \in Nat
    BY <1>4, <2>4
  <2>9. PICK x, y, z : x = depth[m + 1] /\ y = depth[m] /\ z = depth[t]
    OBVIOUS
  <2>10. x \in Nat /\ y \in Nat /\ z \in Nat /\ y < z /\ ~(x < z) /\ x <= y + 1 /\ y + 1 # z
    BY <2>3, <2>6, <2>7, <2>8, <2>9
  <2> QED
    BY <2>10
<1>6. ~(depth[k] < depth[t])
  BY <1>5
<1>7. k \in 1..Len(rows)
  BY <1>1, <1>3
<1> QED
  BY <1>1, <1>2, <1>6, <1>7

LEMMA TreeLeftSelects ==
  ASSUME Looking, TreeLeft
  PROVE  Selects(view')
<1>1. CASE Closes(view.tree) /\ view' = [view EXCEPT !.collapsed = @ \cup {view.tree}]
  <2>1. PICK C : C = view.collapsed \cup {view.tree}
    OBVIOUS
  <2>2. Row.kind = "dir" /\ HasChildren(view.tree)
    BY <1>1 DEF Closes, Row
  <2> QED
    BY <1>1, <2>1, <2>2, LookingIs, FoldSelects
<1>2. ASSUME NEW p \in {i \in 1..(view.tree - 1) : rows[i].depth + 1 = Row.depth},
             \A i \in (p + 1)..(view.tree - 1) : rows[i].depth + 1 # Row.depth,
             view' = SelectNode(view, p)
      PROVE  Selects(view')
  <2>1. PICK t : t = view.tree
    OBVIOUS
  <2>2. /\ RowsAre /\ t \in 1..Len(rows) /\ p \in 1..(t - 1) /\ rows[p].depth + 1 = rows[t].depth
        /\ \A i \in (p + 1)..(t - 1) : rows[i].depth + 1 # rows[t].depth /\ Len(rows) \in Nat
        /\ p \in 1..Len(rows)
    BY <1>2, <2>1, LookingIs
  <2>3. ASSUME NEW c \in view.collapsed, Hides(c, p) PROVE Hides(c, t)
    <3>1. c \in 1..Len(rows) /\ c < p /\ c < t /\ p \in (c + 1)..p
      BY <2>2, <2>3, LookingIs DEF Hides
    <3>2. rows[c].depth \in Nat /\ rows[p].depth \in Nat /\ rows[p].depth > rows[c].depth
      BY <2>2, <2>3, <3>1, RowsFacts DEF Hides
    <3>3. ASSUME NEW k \in (c + 1)..t PROVE rows[k].depth > rows[c].depth
      <4>1. CASE k \in (c + 1)..p
        BY <2>3, <4>1 DEF Hides
      <4>2. CASE k \in (p + 1)..t
        <5>1. rows[t].depth <= rows[k].depth
          BY <2>2, <4>2, NoneBetween
        <5>2. k \in 1..Len(rows)
          BY <2>2, <4>2
        <5>3. rows[k].depth \in Nat /\ rows[t].depth \in Nat
          BY <2>2, <5>2, RowsFacts
        <5>4. PICK x, y, z, u : x = rows[k].depth /\ y = rows[t].depth /\ z = rows[c].depth /\ u = rows[p].depth
          OBVIOUS
        <5>5. x \in Nat /\ y \in Nat /\ z \in Nat /\ u \in Nat /\ u > z /\ y <= x /\ u + 1 = y
          BY <2>2, <3>2, <5>1, <5>3, <5>4
        <5>6. x > z
          BY <5>5
        <5> QED
          BY <5>4, <5>6
      <4>3. k \in (c + 1)..p \/ k \in (p + 1)..t
        BY <2>2, <3>1
      <4> QED
        BY <4>1, <4>2, <4>3
    <3> QED
      BY <3>1, <3>3 DEF Hides
  <2>4. p \in Visible
    <3>1. \A c \in view.collapsed : ~Hides(c, t)
      BY <2>1 DEF Looking, Selects, FoldsRight
    <3> QED
      BY <2>2, <2>3, <3>1, RowsFacts DEF Visible
  <2> QED
    BY <1>2, <2>4, SelectVisible
<1> QED
  BY <1>1, <1>2 DEF TreeLeft, Show, Collapse

LEMMA ModIs ==
  ASSUME NEW x \in Int, NEW n \in Nat, n > 0
  PROVE  x % n \in 0..(n - 1)
<1>1. x % n \in Int /\ 0 <= x % n /\ x % n < n
  OBVIOUS
<1> QED
  BY <1>1

LEMMA CycleRelatedSelects ==
  ASSUME Looking, CycleRelated
  PROVE  Selects(view')
<1>1. PICK n, q : n = Len(rows[view.tree].related) /\ q = view.related
  OBVIOUS
<1>2. n \in Nat /\ q \in Nat
  BY <1>1, LookingIs, RowsFacts DEF ViewType
<1>5. PICK r, m, k : r = q + 1 /\ m = n + 1 /\ k = r % m
  OBVIOUS
<1>3. k \in 0..n
  <2>1. r \in Int /\ m \in Nat /\ m > 0
    BY <1>2, <1>5
  <2>2. k \in 0..(m - 1)
    BY <1>5, <2>1, ModIs
  <2> QED
    BY <1>2, <1>5, <2>2
<1>4. view' = Reloaded(view, rows[view.tree], k)
  BY <1>1, <1>5 DEF CycleRelated, Show, Row
<1> QED
  BY <1>1, <1>3, <1>4, LookingIs, ReloadedIs DEF Looking, Selects

LEMMA CycleExtentSelects ==
  ASSUME Looking, NEW delta \in {-1, 1}, CycleExtent(delta)
  PROVE  Selects(view')
<1>1. PICK n, k : n = Len(rows[view.tree].data) /\ k = (view.extent + delta) % n
  OBVIOUS
<1>2. n \in Nat /\ n > 0 /\ view.extent \in Nat /\ view \in ViewType
  <2>1. n \in Nat /\ Sequence(rows[view.tree].data) /\ rows[view.tree].data # <<>>
    BY <1>1, LookingIs, RowsFacts DEF CycleExtent, DataExtents, RowsAre, RowIs
  <2>2. PICK d : d = rows[view.tree].data
    OBVIOUS
  <2>3. PICK T : d \in Seq(T) /\ d # <<>> /\ Len(d) = n
    BY <1>1, <2>1, <2>2 DEF Sequence
  <2>4. n # 0
    BY <2>3
  <2>5. view \in ViewType
    BY LookingIs
  <2>6. view.extent \in Nat
    BY <2>5 DEF ViewType
  <2> QED
    BY <2>1, <2>4, <2>5, <2>6
<1>3. k \in 0..(n - 1)
  <2>1. view.extent + delta \in Int
    BY <1>2
  <2> QED
    BY <1>1, <1>2, <2>1, ModIs
<1>4. view' = [view EXCEPT !.extent = k, !.override = NoOverride]
  BY <1>1 DEF CycleExtent, Show, DataExtents, Row
<1>5. /\ view' \in ViewType /\ view'.tree = view.tree /\ view'.collapsed = view.collapsed
      /\ view'.related = view.related /\ view'.fields = view.fields /\ view'.extent = k
      /\ view'.override = NoOverride /\ view'.field = view.field
  <2>1. NoOverride \in [at : Int, len : Int] /\ k \in Nat
    BY <1>2, <1>3 DEF NoOverride, Nowhere, Span
  <2> QED
    BY <1>2, <1>4, <2>1 DEF ViewType
<1>6. k < Len(rows[view.tree].data)
  BY <1>1, <1>2, <1>3
<1> QED
  BY <1>5, <1>6 DEF Looking, Selects, FoldsRight, LooksAt

LEMMA RevealSelects ==
  ASSUME Looking, NEW index \in 1..Len(rows)
  PROVE  Selects(Reveal(index))
<1>1. PICK w : w = [view EXCEPT !.collapsed = {}, !.focus = "tree"]
  OBVIOUS
<1>2. w \in ViewType /\ w.collapsed = {}
  BY <1>1, LookingIs DEF ViewType
<1> QED
  BY <1>1, <1>2, LookingIs, SelectNodeIs DEF Reveal

LEMMA SearchSelects ==
  ASSUME Looking, NEW name, Search(name)
  PROVE  Selects(view')
<1>1. PICK matches : /\ matches = {i \in DOMAIN rows : name \in Seqs!ToSet(rows[i].path)}
                     /\ matches # {} /\ view' = Reveal(NextMatch(matches))
  BY DEF Search, Show
<1>2. matches \in SUBSET (1..Len(rows)) /\ Len(rows) \in Nat
  BY <1>1, LookingIs, RowsFacts
<1>3. PICK of : /\ of = (IF {i \in matches : i > view.tree} = {} THEN matches ELSE {i \in matches : i > view.tree})
                /\ NextMatch(matches) = CHOOSE i \in of : \A j \in of : i <= j
  BY DEF NextMatch
<1>4. of \in SUBSET Nat /\ of # {} /\ of \in SUBSET (1..Len(rows))
  BY <1>1, <1>2, <1>3
<1>5. NextMatch(matches) \in of
  BY <1>3, <1>4, LeastNumber
<1> QED
  BY <1>1, <1>4, <1>5, RevealSelects

LEMMA JumpToNidSelects ==
  ASSUME Looking, NEW nid, JumpToNid(nid)
  PROVE  Selects(view')
<1>1. PICK matches : /\ matches = {i \in DOMAIN rows : rows[i].object = InodeObject(nid)}
                     /\ matches # {} /\ view' = Reveal(Sets!Min(matches))
  BY DEF JumpToNid, Show
<1>2. matches \in SUBSET (1..Len(rows)) /\ Len(rows) \in Nat
  BY <1>1, LookingIs, RowsFacts
<1>3. matches \in SUBSET Nat
  BY <1>2
<1>4. Sets!Min(matches) \in 1..Len(rows)
  BY <1>1, <1>2, <1>3, MinIs
<1> QED
  BY <1>1, <1>4, RevealSelects

LEMMA JumpToSelects ==
  ASSUME Looking, NEW at \in Int, NEW size \in Int, End \in Int, JumpTo(at, size)
  PROVE  Selects(view')
<1>1. PICK len : len = IF size < End - at THEN size ELSE End - at
  OBVIOUS
<1>2. PICK owners : owners = Owners(at \div BlockSize)
  OBVIOUS
<1>3. PICK w : w = Owned(owners)
  OBVIOUS
<1>4. Selects(w) /\ (owners = {} \/ w.tree \in owners)
  <2>1. CASE owners = {}
    BY <1>3, <2>1 DEF Owned, Looking
  <2>2. CASE owners # {}
    <3>1. owners \in SUBSET (1..Len(rows)) /\ Len(rows) \in Nat
      BY <1>2, LookingIs, RowsFacts DEF Owners
    <3>2. owners \in SUBSET Nat
      BY <3>1
    <3>3. PICK first : first = Sets!Min(owners) /\ first \in owners
      BY <2>2, <3>2, MinIs
    <3>4. PICK v : v = [view EXCEPT !.collapsed = {}]
      OBVIOUS
    <3>5. v \in ViewType /\ v.collapsed = {}
      BY <3>4, LookingIs DEF ViewType
    <3>6. w = SelectNode(v, first)
      BY <1>3, <2>2, <3>3, <3>4 DEF Owned
    <3> QED
      BY <3>1, <3>3, <3>5, <3>6, LookingIs, SelectNodeIs
  <2> QED
    BY <2>1, <2>2
<1>5. view' = [w EXCEPT !.focus = "hex", !.override = [at |-> at, len |-> len]]
  BY <1>1, <1>2, <1>3 DEF JumpTo, Show, Span
<1>6. len \in Int /\ w \in ViewType
  BY <1>1, <1>4 DEF Selects
<1>7. /\ view' \in ViewType /\ view'.tree = w.tree /\ view'.collapsed = w.collapsed
      /\ view'.related = w.related /\ view'.fields = w.fields /\ view'.extent = w.extent
      /\ view'.override.at = at /\ view'.field = w.field
  BY <1>5, <1>6 DEF ViewType
<1>8. LooksAt(view')
  BY <1>2, <1>4, <1>7 DEF LooksAt
<1> QED
  BY <1>4, <1>7, <1>8 DEF Selects, FoldsRight

LEMMA KeySelects ==
  ASSUME Looking, Key, End \in Int
  PROVE  Selects(view') /\ rows' = rows /\ view'.open
<1>1. Selects(view')
  <2>1. ASSUME NEW block \in Blocks, JumpTo(block * BlockSize, BlockSize) PROVE Selects(view')
    <3>1. block * BlockSize \in Int /\ BlockSize \in Int
      BY LayoutAssumption DEF Blocks
    <3> QED
      BY <2>1, <3>1, JumpToSelects
  <2>2. ASSUME NEW at \in {SuperblockOffset, End - 1}, NEW size \in JumpSizes, JumpTo(at, size) PROVE Selects(view')
    <3>1. at \in Int /\ size \in Int
      BY LayoutAssumption, ViewerAssumption
    <3> QED
      BY <2>2, <3>1, JumpToSelects
  <2> QED
    BY <2>1, <2>2, MoveTreeSelects, MoveFieldSelects, HomeOrEndSelects, TabSelects, ToggleSelects,
       TreeRightSelects, TreeLeftSelects, CycleRelatedSelects, CycleExtentSelects, SearchSelects,
       JumpToNidSelects DEF Key
<1>2. rows' = rows
  <2>1. ASSUME NEW v, Show(v) PROVE rows' = rows
    BY <2>1 DEF Show
  <2>2. ASSUME NEW delta, MoveTree(delta) PROVE rows' = rows
    BY <2>2, <2>1 DEF MoveTree
  <2>3. ASSUME NEW delta, MoveField(delta) PROVE rows' = rows
    BY <2>3, <2>1 DEF MoveField
  <2>4. ASSUME NEW first, HomeOrEnd(first) PROVE rows' = rows
    BY <2>4, <2>1 DEF HomeOrEnd
  <2>5. CASE Tab
    BY <2>5, <2>1 DEF Tab
  <2>6. CASE ToggleDirectory
    BY <2>6, <2>1 DEF ToggleDirectory
  <2>7. CASE TreeRight
    BY <2>7, <2>1 DEF TreeRight
  <2>8. CASE TreeLeft
    BY <2>8, <2>1 DEF TreeLeft
  <2>9. CASE CycleRelated
    BY <2>9, <2>1 DEF CycleRelated
  <2>10. ASSUME NEW delta, CycleExtent(delta) PROVE rows' = rows
    BY <2>10, <2>1 DEF CycleExtent
  <2>11. ASSUME NEW name, Search(name) PROVE rows' = rows
    BY <2>11, <2>1 DEF Search
  <2>12. ASSUME NEW nid, JumpToNid(nid) PROVE rows' = rows
    BY <2>12, <2>1 DEF JumpToNid
  <2>13. ASSUME NEW at, NEW size, JumpTo(at, size) PROVE rows' = rows
    BY <2>13, <2>1 DEF JumpTo
  <2> QED
    BY <2>2, <2>3, <2>4, <2>5, <2>6, <2>7, <2>8, <2>9, <2>10, <2>11, <2>12, <2>13 DEF Key
<1>3. view'.open
  BY <1>1 DEF Selects, ViewType
<1> QED
  BY <1>1, <1>2, <1>3

LEMMA CatElements ==
  ASSUME NEW T, NEW a \in Seq(T), NEW b \in Seq(T)
  PROVE  a \o b \in Seq(T) /\ Elements(a \o b) = Elements(a) \cup Elements(b)
<1>1. /\ a \o b \in Seq(T) /\ DOMAIN (a \o b) = 1..(Len(a) + Len(b))
      /\ DOMAIN a = 1..Len(a) /\ DOMAIN b = 1..Len(b) /\ Len(a) \in Nat /\ Len(b) \in Nat
      /\ \A i \in 1..(Len(a) + Len(b)) : (a \o b)[i] = IF i <= Len(a) THEN a[i] ELSE b[i - Len(a)]
  BY CatIs
<1>2. PICK c, m, n : c = a \o b /\ m = Len(a) /\ n = Len(b)
  OBVIOUS
<1>3. \A i \in 1..(m + n) : (i \in 1..m /\ c[i] = a[i]) \/ (i - m \in 1..n /\ c[i] = b[i - m])
  BY <1>1, <1>2
<1>4. \A i \in 1..m : i \in 1..(m + n) /\ c[i] = a[i]
  BY <1>1, <1>2
<1>5. \A i \in 1..n : m + i \in 1..(m + n) /\ c[m + i] = b[i]
  BY <1>1, <1>2
<1>6. /\ Elements(c) = {c[i] : i \in 1..(m + n)} /\ Elements(a) = {a[i] : i \in 1..m}
      /\ Elements(b) = {b[i] : i \in 1..n}
  BY <1>1, <1>2 DEF Elements
<1>7. Elements(c) \subseteq Elements(a) \cup Elements(b)
  BY <1>3, <1>6
<1>8. Elements(a) \cup Elements(b) \subseteq Elements(c)
  BY <1>4, <1>5, <1>6
<1> QED
  BY <1>1, <1>2, <1>7, <1>8

(* Sequences put one behind the other hold what any of them holds.         *)
LEMMA FlattenIs ==
  ASSUME NEW T, NEW s \in Seq(Seq(T))
  PROVE  /\ Seqs!FlattenSeq(s) \in Seq(T)
         /\ Elements(Seqs!FlattenSeq(s)) = UNION {Elements(s[i]) : i \in 1..Len(s)}
<1>1. CASE Len(s) = 0
  <2>1. Seqs!FlattenSeq(s) = s /\ s = <<>>
    BY <1>1 DEF Seqs!FlattenSeq
  <2> QED
    BY <1>1, <2>1 DEF Elements
<1>2. CASE Len(s) # 0
  <2> DEFINE N == Len(s)
             flatten[i \in 1..N] == IF i = 1 THEN s[i] ELSE flatten[i - 1] \o s[i]
  <2>1. Seqs!FlattenSeq(s) = flatten[N] /\ N \in Nat /\ N > 0 /\ \A i \in 1..N : s[i] \in Seq(T)
    BY <1>2 DEF Seqs!FlattenSeq
  <2>2. flatten = [i \in 1..N |-> IF i = 1 THEN s[i] ELSE flatten[i - 1] \o s[i]]
    <3> DEFINE g == [x \in Seq(T) \X (1..N) |-> x[1] \o s[x[2]]]
    <3>1. \A v \in Seq(T) : \A k \in 1..N : g[<<v, k>>] = v \o s[k] /\ g[<<v, k>>] \in Seq(T)
      <4>1. \A v \in Seq(T) : \A k \in 1..N : v \o s[k] \in Seq(T)
        BY <2>1, CatIs
      <4> QED
        BY <4>1
    <3>2. g \in [Seq(T) \X (1..N) -> Seq(T)]
      BY <3>1
    <3> HIDE DEF g, N
    <3>3. PICK f : Iterate(f, Seq(T), N, <<>>, g)
      <4>1. <<>> \in Seq(T)
        OBVIOUS
      <4> QED
        BY <2>1, <3>2, <4>1, Iterates
    <3>6. PICK h : h = [i \in 1..N |-> f[i]]
      OBVIOUS
    <3>4. \A i \in 1..N : h[i] = IF i = 1 THEN s[i] ELSE h[i - 1] \o s[i]
      <4> SUFFICES ASSUME NEW i \in 1..N PROVE h[i] = IF i = 1 THEN s[i] ELSE h[i - 1] \o s[i]
        OBVIOUS
      <4>1. f[i] = f[i - 1] \o s[i]
        <5>1. f[i - 1] \in Seq(T)
          BY <2>1, <3>3 DEF Iterate
        <5> QED
          BY <3>1, <3>3, <5>1 DEF Iterate
      <4>2. CASE i = 1
        <5>1. f[0] = <<>> /\ i - 1 = 0 /\ s[i] \in Seq(T)
          BY <2>1, <3>3, <4>2 DEF Iterate
        <5>2. f[i] = <<>> \o s[i]
          BY <4>1, <5>1
        <5>3. <<>> \o s[i] = s[i]
          BY <5>1
        <5> QED
          BY <3>6, <4>2, <5>2, <5>3
      <4>3. CASE i # 1
        <5>1. i - 1 \in 1..N
          BY <2>1, <4>3
        <5> QED
          BY <3>6, <4>1, <4>3, <5>1
      <4> QED
        BY <4>2, <4>3
    <3>5. h = [i \in 1..N |-> IF i = 1 THEN s[i] ELSE h[i - 1] \o s[i]]
      BY <3>4, <3>6
    <3> QED
      BY <3>5, Zenon
  <2> DEFINE Holds2(i) == flatten[i] \in Seq(T) /\ Elements(flatten[i]) = UNION {Elements(s[j]) : j \in 1..i}
             S == {i \in 0..N : i = 0 \/ Holds2(i)}
  <2> HIDE DEF flatten, N
  <2>3. ASSUME NEW i \in 1..N, i - 1 \in S PROVE i \in S
    <3>1. CASE i = 1
      <4>1. flatten[1] = s[1] /\ s[1] \in Seq(T)
        BY <2>1, <2>2, <3>1
      <4>2. UNION {Elements(s[j]) : j \in 1..1} = Elements(s[1])
        OBVIOUS
      <4> QED
        BY <3>1, <4>1, <4>2
    <3>2. CASE i # 1
      <4>0. i - 1 \in 1..N /\ i - 1 # 0
        BY <2>1, <3>2
      <4>1. Holds2(i - 1) /\ s[i] \in Seq(T) /\ flatten[i] = flatten[i - 1] \o s[i]
        BY <2>1, <2>2, <2>3, <3>2, <4>0
      <4>2. PICK a, b : a = flatten[i - 1] /\ b = s[i]
        OBVIOUS
      <4>3. a \in Seq(T) /\ b \in Seq(T) /\ flatten[i] = a \o b /\ Elements(a) = UNION {Elements(s[j]) : j \in 1..(i - 1)}
        BY <4>1, <4>2
      <4>4. a \o b \in Seq(T) /\ Elements(a \o b) = Elements(a) \cup Elements(b)
        BY <4>3, CatElements
      <4>5. Elements(a) \cup Elements(b) = UNION {Elements(s[j]) : j \in 1..i}
        <5>1. 1..i = (1..(i - 1)) \cup {i}
          BY <2>1
        <5> QED
          BY <4>2, <4>3, <5>1
      <4>6. Holds2(i)
        BY <4>3, <4>4, <4>5
      <4> QED
        BY <2>3, <4>6
    <3> QED
      BY <3>1, <3>2
  <2>4. N \in S
    <3>1. 0 \in S
      BY <2>1
    <3> HIDE DEF S
    <3>2. \A k \in 0..N : k \in S
      BY <2>1, <2>3, <3>1, Induction
    <3> QED
      BY <2>1, <3>2
  <2> QED
    BY <2>1, <2>4 DEF N
<1> QED
  BY <1>1, <1>2

LEMMA RoomHolds ==
  ASSUME Packed, NEW n \in Reached(tree)
  PROVE  /\ node[n].size \in Nat /\ Room(n) \in Nat /\ node[n].size <= Room(n)
         /\ node[n].blkaddr * BlockSize \in Nat
         /\ Room(n) > 0 => node[n].blkaddr * BlockSize + Room(n) <= End
<1>1. /\ Room(n) \in Nat /\ node[n].size \in Nat /\ node[n].blkaddr * BlockSize \in Nat
      /\ BuildTypes /\ LayInv /\ phase = "built"
  BY NodeIs, Geometry DEF Packed
<1>2. node[n].size <= Room(n)
  <2>1. CASE IsDir(n)
    <3>1. n \in Placed /\ Room(n) = node[n].blocks * BlockSize
      <4>1. LaidOut(n) /\ n \in DOMAIN node
        BY <1>1, NodeIs DEF LayInv, LaidInv
      <4> QED
        BY <2>1, <4>1 DEF LaidOut, Placed, Room
    <3> QED
      BY <1>1, <3>1 DEF LayInv, NothingOverlaps
  <2>2. CASE ~IsDir(n)
    BY <1>1, <2>2 DEF Room
  <2> QED
    BY <2>1, <2>2
<1>3. ASSUME Room(n) > 0 PROVE node[n].blkaddr * BlockSize + Room(n) <= End
  <2>1. PICK base, room : base = node[n].blkaddr * BlockSize /\ room = Room(n)
    OBVIOUS
  <2>2. base \in Nat /\ room \in Nat /\ room > 0
    BY <1>1, <1>3, <2>1
  <2>3. Written(image, base, taken[n]) /\ Len(taken[n]) = room
    BY <2>1 DEF Packed, EmitInv, Emitted
  <2>4. room \in 1..room
    BY ONLY <2>2
  <2>5. base + room - 1 \in DOMAIN image
    BY <2>3, <2>4 DEF Written
  <2>6. DOMAIN image = 0..(End - 1) /\ End \in Nat
    BY ImageIs
  <2>7. base + room - 1 \in 0..(End - 1)
    BY <2>5, <2>6
  <2>8. base + room <= End
    BY ONLY <2>2, <2>6, <2>7
  <2> QED
    BY <2>1, <2>8
<1> QED
  BY <1>1, <1>2, <1>3

(* Before its end, a node has a block to read.                             *)
LEMMA BlockLies ==
  ASSUME Packed, NEW m \in Reached(tree), NEW o \in Nat, o < node[m].size
  PROVE  ReadBlock(node[m].nid, o) # NoBlock
<1>1. PICK size, addr, nid, S :
        size = node[m].size /\ addr = node[m].blkaddr /\ nid = node[m].nid /\ S = BlockSize
  OBVIOUS
<1>3. /\ size \in Nat /\ addr \in Nat /\ S \in Nat /\ S > 0 /\ o \in Nat /\ o < size
      /\ InodeAt(nid).layout = "plain" /\ InodeAt(nid).size = size /\ InodeAt(nid).addr = addr
  <2>1. size \in Nat /\ addr \in Nat
    BY <1>1, NodeIs
  <2>2. /\ InodeAt(nid).layout = "plain" /\ InodeAt(nid).size = size /\ InodeAt(nid).addr = addr
    BY <1>1, NodeIs, TheFieldsAre
  <2> QED
    BY <1>1, <2>1, <2>2, LayoutAssumption DEF LayoutAssumption
<1>4. PICK q \in Nat, r \in 0..(S - 1) : o = q * S + r /\ o \div S = q
  BY <1>3, DivIs
<1>5. PICK a \in Nat, b \in 0..(S - 1) : size + S - 1 = a * S + b /\ (size + S - 1) \div S = a
  <2>1. size + S - 1 \in Nat
    BY ONLY <1>3
  <2> QED
    BY <1>3, <2>1, DivIs
<1>6. PICK qs, ap, base : qs = q * S /\ ap = a * S /\ base = addr * S
  OBVIOUS
<1>7. qs \in Nat /\ ap \in Nat /\ base \in Nat /\ (addr + q) * S = base + qs
  BY <1>3, <1>6, Spread
<1>8. ~(q >= a)
  <2>1. SUFFICES ASSUME q >= a PROVE FALSE
    OBVIOUS
  <2>2. ap <= qs
    BY <1>3, <1>6, <2>1, Scaled
  <2>3. size + S - 1 = ap + b /\ o = qs + r
    BY <1>4, <1>5, <1>6
  <2> QED
    <3>1. /\ qs \in Nat /\ ap \in Nat /\ S \in Nat /\ size \in Nat /\ o \in Nat /\ o < size
      BY ONLY <1>3, <1>7
    <3>2. r \in Nat
      BY ONLY <1>3, r \in 0..(S - 1)
    <3>3. b \in Int /\ b <= S - 1
      BY ONLY <1>3, b \in 0..(S - 1)
    <3>4. size <= qs
      BY ONLY <2>2, <2>3, <3>1, <3>3
    <3>5. qs <= o
      BY ONLY <2>3, <3>1, <3>2
    <3> QED
      BY ONLY <3>1, <3>4, <3>5
<1>9. PICK at, len : at = base + qs /\ len = AtMost(size - qs, S)
  OBVIOUS
<1>10. len \in Nat /\ len > 0 /\ qs + len <= size /\ at \in Nat
  <2>1. o = qs + r /\ r \in Nat
    BY <1>3, <1>4, <1>6
  <2> QED
    BY ONLY <1>3, <1>7, <1>9, <2>1 DEF AtMost
<1>11. base + size <= End /\ End \in Nat
  <2>1. PICK room : room = Room(m)
    OBVIOUS
  <2>2. room \in Nat /\ size <= room /\ (room > 0 => base + room <= End) /\ End \in Nat
    BY <1>1, <1>6, <2>1, RoomHolds, ImageIs
  <2> QED
    BY ONLY <1>3, <1>7, <2>2
<1>12. at + len <= End
  BY ONLY <1>3, <1>7, <1>9, <1>10, <1>11
<1>13. FlatBlock(nid, q) = [at |-> at, len |-> len]
  <2>1. DivCeil(size) = a
    BY <1>1, <1>5 DEF DivCeil
  <2>2. FlatBlock(nid, q) = [at |-> (addr + q) * S, len |-> AtMost(size - q * S, S)]
    BY <1>1, <1>3, <1>8, <2>1 DEF FlatBlock
  <2> QED
    BY <1>6, <1>7, <1>9, <2>2
<1>14. ReadBlock(nid, o) = [at |-> at, len |-> len]
  BY <1>1, <1>3, <1>4, <1>12, <1>13 DEF ReadBlock
<1>15. [at |-> at, len |-> len] # NoBlock
  BY <1>10 DEF NoBlock
<1> QED
  BY <1>1, <1>14, <1>15
=============================================================================
