-------------------------- MODULE LegacyFs_proofs --------------------------
(***************************************************************************)
(* The in-memory tree is sound and, seen through the names, a map: what    *)
(* each command does to the array of children it does to the map.  First   *)
(* what paths lead to, then what adding, renaming, rewriting and removing  *)
(* a node do to a tree given by its two arrays, then the commands.         *)
(***************************************************************************)
EXTENDS LegacyFs, SequenceTheorems, FiniteSetTheorems, WellFoundedInduction, TLAPS

(* Induction up to m, on a set of numbers: the initial segments that end   *)
(* outside of it are well founded by inclusion.                            *)
LEMMA UpTo ==
  ASSUME NEW m \in Nat, NEW S, 0 \in S, \A k \in 0 .. m - 1 : k \in S => k + 1 \in S
  PROVE  m \in S
<1> DEFINE R == StrictSubsetOrdering(0 .. m)
           T == {0 .. x : x \in (0 .. m) \ S}
<1> SUFFICES ASSUME m \notin S PROVE FALSE
  OBVIOUS
<1>1. IsWellFoundedOn(R, FiniteSubsetsOf(0 .. m))
  BY FS_StrictSubsetOrderingWellFounded
<1>2. T \subseteq FiniteSubsetsOf(0 .. m) /\ T # {}
  <2>1. \A x \in 0 .. m : IsFiniteSet(0 .. x) /\ 0 .. x \subseteq 0 .. m
    BY FS_Interval
  <2> QED BY <2>1 DEF FiniteSubsetsOf
<1>3. PICK t \in T : \A u \in T : ~(<<u, t>> \in R)
  <2> HIDE DEF R, T
  <2> QED BY <1>1, <1>2, WFMin
<1>4. PICK x \in (0 .. m) \ S : t = 0 .. x
  OBVIOUS
<1>5. x # 0 /\ x - 1 \in 0 .. m - 1 /\ x - 1 \in 0 .. m /\ x - 1 + 1 = x
  BY <1>4
<1>6. x - 1 \notin S
  BY <1>4, <1>5
<1>7. 0 .. (x - 1) \in T
  BY <1>5, <1>6
<1>8. 0 .. (x - 1) \subseteq 0 .. x /\ 0 .. (x - 1) # 0 .. x
  BY <1>5
<1>9. <<0 .. (x - 1), 0 .. x>> \in R
  BY <1>4, <1>5, <1>8 DEF StrictSubsetOrdering
<1> QED BY <1>3, <1>4, <1>7, <1>9

-----------------------------------------------------------------------------
(* A path leads to nothing, to the root or to a node in it.                *)
Onward(n, k, names) ==
  CASE n = None \/ names[k] = "." -> n
    [] names[k] = ".." -> Root
    [] OTHER -> LET m == fs_find_node(n, names[k])
                IN  IF IsFile(m) /\ k < Len(names) THEN None ELSE m

IsWalk(f, names, n) == f = [k \in 0 .. n |-> IF k = 0 THEN Root ELSE Onward(f[k - 1], k, names)]

(* The loop of fs_find_node_by_path, unfolded.                             *)
LEMMA PathIs ==
  ASSUME NEW p
  PROVE  fs_find_node_by_path(p)
           = (CHOOSE f : IsWalk(f, Components[p], Len(Components[p])))[Len(Components[p])]
BY DEF fs_find_node_by_path, IsWalk, Onward

(* It takes its first n steps, whatever n is.                              *)
LEMMA WalkExists ==
  ASSUME NEW names, NEW n \in Nat
  PROVE  \E f : IsWalk(f, names, n)
<1> DEFINE Walked == {m \in 0 .. n : \E f : IsWalk(f, names, m)}
<1>1. 0 \in Walked
  <2>1. IsWalk([k \in 0 .. 0 |-> Root], names, 0)
    BY DEF IsWalk
  <2> QED BY <2>1
<1>2. ASSUME NEW m \in 0 .. n - 1, m \in Walked PROVE m + 1 \in Walked
  <2>1. PICK f : IsWalk(f, names, m)
    BY <1>2
  <2> DEFINE g == [k \in 0 .. m + 1 |-> IF k = m + 1 THEN Onward(f[m], m + 1, names) ELSE f[k]]
  <2>2. \A k \in 0 .. m : f[k] = IF k = 0 THEN Root ELSE Onward(f[k - 1], k, names)
    BY <2>1 DEF IsWalk
  <2>3. \A k \in 0 .. m + 1 : g[k] = IF k = 0 THEN Root ELSE Onward(g[k - 1], k, names)
    <3> TAKE k \in 0 .. m + 1
    <3>1. CASE k = m + 1
      <4>1. g[k] = Onward(f[m], k, names) /\ k # 0 /\ k - 1 = m /\ g[m] = f[m]
        BY <3>1
      <4> QED BY <4>1
    <3>2. CASE k # m + 1
      <4>1. k \in 0 .. m /\ g[k] = f[k]
        BY <3>2
      <4>2. k # 0 => g[k - 1] = f[k - 1]
        BY <4>1
      <4> QED BY <2>2, <4>1, <4>2
    <3> QED BY <3>1, <3>2
  <2>4. DOMAIN g = 0 .. m + 1 /\ g = [k \in 0 .. m + 1 |-> g[k]]
    OBVIOUS
  <2> HIDE DEF g
  <2>5. IsWalk(g, names, m + 1)
    BY <2>3, <2>4 DEF IsWalk
  <2> QED BY <2>5
<1>3. n \in Walked
  <2> HIDE DEF Walked
  <2> QED BY <1>1, <1>2, UpTo
<1> QED BY <1>3

(* So each of its steps is one of Onward.                                  *)
LEMMA WalkOf ==
  ASSUME NEW p \in Text
  PROVE  \E f : /\ fs_find_node_by_path(p) = f[Len(Components[p])]
                /\ \A k \in 0 .. Len(Components[p]) :
                     f[k] = IF k = 0 THEN Root ELSE Onward(f[k - 1], k, Components[p])
<1> DEFINE names == Components[p]
<1>1. names \in Seq(Text \cup {".", ".."}) /\ Len(names) \in Nat
  <2>1. names \in Seq(Text \cup {".", ".."})
    BY LegacyAssumption
  <2> QED BY <2>1, LenProperties
<1> HIDE DEF names
<1>2. PICK f : f = CHOOSE g : IsWalk(g, names, Len(names))
  OBVIOUS
<1>3. IsWalk(f, names, Len(names))
  BY <1>1, <1>2, WalkExists
<1>4. fs_find_node_by_path(p) = f[Len(names)]
  BY <1>2, PathIs DEF names
<1>5. \A k \in 0 .. Len(names) : f[k] = IF k = 0 THEN Root ELSE Onward(f[k - 1], k, names)
  BY <1>3 DEF IsWalk
<1> QED BY <1>4, <1>5 DEF names

-----------------------------------------------------------------------------
LEMMA MinUpTo ==
  ASSUME NEW n \in Nat, NEW t \in SUBSET (1 .. n), t # {}
  PROVE  Min(t) \in t
<1> DEFINE S == {k \in 0 .. n : (\A y \in t : y > k) \/ \E x \in t : \A y \in t : x <= y}
<1>1. 0 \in S
  OBVIOUS
<1>2. ASSUME NEW k \in 0 .. n - 1, k \in S PROVE k + 1 \in S
  <2>1. CASE k + 1 \in t
    BY <1>2, <2>1
  <2>2. CASE k + 1 \notin t
    BY <1>2, <2>2
  <2> QED BY <2>1, <2>2
<1>3. n \in S
  <2> HIDE DEF S
  <2> QED BY <1>1, <1>2, UpTo
<1>4. \E y \in t : y <= n
  <2>1. PICK y : y \in t
    OBVIOUS
  <2>2. y \in 1 .. n
    BY <2>1
  <2> QED BY <2>1, <2>2
<1>5. \E x \in t : \A y \in t : x <= y
  <2>1. \A y \in t : y \in 1 .. n
    OBVIOUS
  <2> QED BY <1>3, <1>4, <2>1
<1> QED BY <1>5, Zenon DEF Min

(* A tree, given by its nodes and the root's children, as the commands     *)
(* keep it: the root is no child, and what a name leads to is one node.    *)
Names(nodes, kids, i) == nodes[kids[i]].name

Distinct(nodes, kids) ==
  \A i, j \in 1 .. Len(kids) : i # j =>
    kids[i] # kids[j] /\ (Names(nodes, kids, i) = Names(nodes, kids, j) => Names(nodes, kids, i) \notin Name)

Sound(nodes, kids) ==
  /\ nodes \in Seq(Node) /\ Len(nodes) \in 1 .. MaxFiles /\ nodes[Root].content = Directory
  /\ \A n \in 2 .. Len(nodes) : nodes[n].name \in Text
  /\ kids \in Seq(2 .. Len(nodes)) /\ Len(kids) <= MaxChildren
  /\ Distinct(nodes, kids)

(* The first child that has a name, and what it holds.                     *)
Named(nodes, kids, name) == {i \in 1 .. Len(kids) : Names(nodes, kids, i) = name}
FirstNamed(nodes, kids, name) ==
  LET I == Named(nodes, kids, name)
      k == IF I # {} THEN Min(I) ELSE 0
  IN  IF k = 0 THEN None ELSE kids[k]

HeldIn(nodes, kids, name) ==
  LET n == FirstNamed(nodes, kids, name) IN IF n = None THEN NoFile ELSE nodes[n].content

LEMMA FindIs ==
  ASSUME NEW name
  PROVE  fs_find_node(Root, name) = FirstNamed(fs_nodes, children, name)
BY DEF fs_find_node, SelectInSeq, Named, Names, FirstNamed

LEMMA KidsAre ==
  ASSUME NEW nodes, NEW kids, Sound(nodes, kids)
  PROVE  /\ Len(kids) \in Nat /\ Len(nodes) \in Nat /\ Len(nodes) >= 1
         /\ \A n \in 1 .. Len(nodes) : nodes[n] \in Node
         /\ \A i \in 1 .. Len(kids) :
              /\ kids[i] \in 2 .. Len(nodes) /\ kids[i] \in 1 .. Len(nodes)
              /\ kids[i] # None /\ kids[i] # Root
              /\ Names(nodes, kids, i) \in Text
<1>1. Len(kids) \in Nat /\ \A i \in 1 .. Len(kids) : kids[i] \in 2 .. Len(nodes)
  BY DEF Sound
<1>2. Len(nodes) \in Nat /\ Len(nodes) >= 1 /\ \A n \in 1 .. Len(nodes) : nodes[n] \in Node
  <2>1. nodes \in Seq(Node) /\ Len(nodes) \in 1 .. MaxFiles
    BY DEF Sound
  <2>2. MaxFiles \in Nat
    BY LegacyAssumption
  <2> QED BY <2>1, <2>2, ElementOfSeq
<1>3. \A n \in 2 .. Len(nodes) : n \in 1 .. Len(nodes) /\ n # None /\ n # Root /\ nodes[n].name \in Text
  BY <1>2 DEF Sound, None, Root
<1> QED BY <1>1, <1>2, <1>3 DEF Names

LEMMA FirstSays ==
  ASSUME NEW nodes, NEW kids, Sound(nodes, kids), NEW name
  PROVE  /\ Named(nodes, kids, name) = {} =>
              FirstNamed(nodes, kids, name) = None /\ HeldIn(nodes, kids, name) = NoFile
         /\ Named(nodes, kids, name) # {} =>
              \E i \in Named(nodes, kids, name) :
                /\ FirstNamed(nodes, kids, name) = kids[i] /\ kids[i] # None
                /\ HeldIn(nodes, kids, name) = nodes[kids[i]].content
<1> DEFINE I == Named(nodes, kids, name)
<1>1. I \in SUBSET (1 .. Len(kids)) /\ Len(kids) \in Nat
  BY KidsAre DEF Named
<1>2. CASE I = {}
  BY <1>2 DEF FirstNamed, HeldIn
<1>3. CASE I # {}
  <2>1. Min(I) \in I
    <3> HIDE DEF I
    <3> QED BY <1>1, <1>3, MinUpTo
  <2>2. Min(I) \in 1 .. Len(kids) /\ Min(I) # 0
    BY <1>1, <2>1
  <2>3. FirstNamed(nodes, kids, name) = kids[Min(I)]
    BY <1>3, <2>2 DEF FirstNamed
  <2>4. kids[Min(I)] # None
    BY <2>2, KidsAre
  <2>5. HeldIn(nodes, kids, name) = nodes[kids[Min(I)]].content
    BY <2>3, <2>4 DEF HeldIn
  <2> QED BY <1>3, <2>1, <2>3, <2>4, <2>5
<1> QED BY <1>2, <1>3

(* What a name leads to is the one child that has it.                      *)
LEMMA HeldIs ==
  ASSUME NEW nodes, NEW kids, Sound(nodes, kids), NEW name \in Name,
         NEW i \in Named(nodes, kids, name)
  PROVE  /\ FirstNamed(nodes, kids, name) = kids[i]
         /\ HeldIn(nodes, kids, name) = nodes[kids[i]].content
<1>1. i \in 1 .. Len(kids) /\ Names(nodes, kids, i) = name
  BY DEF Named
<1>2. PICK j \in Named(nodes, kids, name) :
        /\ FirstNamed(nodes, kids, name) = kids[j]
        /\ HeldIn(nodes, kids, name) = nodes[kids[j]].content
  BY FirstSays
<1>3. j \in 1 .. Len(kids) /\ Names(nodes, kids, j) = name
  BY DEF Named
<1>4. i = j
  BY <1>1, <1>3 DEF Sound, Distinct
<1> QED BY <1>2, <1>4

(* Two trees hold the same under a name if their children of that name do. *)
Alike(nodes, kids, nodes2, kids2, name) ==
  /\ \A i \in 1 .. Len(kids) : Names(nodes, kids, i) = name =>
       \E j \in 1 .. Len(kids2) :
         Names(nodes2, kids2, j) = name /\ nodes2[kids2[j]].content = nodes[kids[i]].content
  /\ \A j \in 1 .. Len(kids2) : Names(nodes2, kids2, j) = name =>
       \E i \in 1 .. Len(kids) : Names(nodes, kids, i) = name

LEMMA HeldAlike ==
  ASSUME NEW nodes, NEW kids, Sound(nodes, kids), NEW nodes2, NEW kids2, Sound(nodes2, kids2),
         NEW name \in Name, Alike(nodes, kids, nodes2, kids2, name)
  PROVE  HeldIn(nodes2, kids2, name) = HeldIn(nodes, kids, name)
<1>1. CASE Named(nodes, kids, name) = {}
  <2>1. Named(nodes2, kids2, name) = {}
    BY <1>1 DEF Named, Alike
  <2> QED BY <1>1, <2>1, FirstSays
<1>2. CASE Named(nodes, kids, name) # {}
  <2>1. PICK i \in Named(nodes, kids, name) :
          i \in 1 .. Len(kids) /\ Names(nodes, kids, i) = name
    BY <1>2 DEF Named
  <2>2. PICK j \in 1 .. Len(kids2) :
          Names(nodes2, kids2, j) = name /\ nodes2[kids2[j]].content = nodes[kids[i]].content
    BY <2>1 DEF Alike
  <2>3. j \in Named(nodes2, kids2, name)
    BY <2>2 DEF Named
  <2>4. HeldIn(nodes2, kids2, name) = nodes2[kids2[j]].content
    BY <2>3, HeldIs
  <2>5. HeldIn(nodes, kids, name) = nodes[kids[i]].content
    BY HeldIs
  <2> QED BY <2>2, <2>4, <2>5
<1> QED BY <1>1, <1>2

-----------------------------------------------------------------------------
(* A node is added at the end, under a name that no child has.             *)
Added(nodes, kids, t, c, nodes2, kids2) ==
  /\ nodes2 = Append(nodes, [name |-> t, content |-> c])
  /\ kids2 = Append(kids, Len(nodes) + 1)

LEMMA AddKeeps ==
  ASSUME NEW nodes, NEW kids, Sound(nodes, kids), NEW t \in Text, NEW c \in Content,
         Len(kids) < MaxChildren, Len(nodes) < MaxFiles, FirstNamed(nodes, kids, t) = None,
         NEW nodes2, NEW kids2, Added(nodes, kids, t, c, nodes2, kids2)
  PROVE  /\ Sound(nodes2, kids2)
         /\ t \in Name => HeldIn(nodes, kids, t) = NoFile
         /\ \A n \in Name :
              HeldIn(nodes2, kids2, n) = IF n = t THEN c ELSE HeldIn(nodes, kids, n)
<1> DEFINE l == Len(nodes)
           k == Len(kids)
           new == [name |-> t, content |-> c]
<1>1. /\ nodes \in Seq(Node) /\ kids \in Seq(2 .. l) /\ l \in Nat /\ k \in Nat /\ l >= 1
      /\ MaxFiles \in Nat /\ MaxChildren \in Nat /\ new \in Node
  BY KidsAre, LegacyAssumption DEF Sound, Node
<1>2. /\ nodes2 \in Seq(Node) /\ Len(nodes2) = l + 1
      /\ \A i \in 1 .. l : nodes2[i] = nodes[i]
      /\ nodes2[l + 1] = new
  BY <1>1, AppendProperties DEF Added
<1>3. /\ kids2 \in Seq(2 .. l + 1) /\ Len(kids2) = k + 1
      /\ \A i \in 1 .. k : kids2[i] = kids[i]
      /\ kids2[k + 1] = l + 1
  <2>1. kids \in Seq(2 .. l + 1) /\ l + 1 \in 2 .. l + 1
    <3>1. 2 .. l \subseteq 2 .. l + 1
      BY <1>1
    <3> QED BY <1>1, <3>1, SeqMonotonic
  <2> QED BY <1>1, <2>1, AppendProperties DEF Added
<1>4. Named(nodes, kids, t) = {}
  BY FirstSays
<1>5. new.name = t /\ new.content = c
  OBVIOUS
<1> HIDE DEF l, k, new
<1>6. /\ \A i \in 1 .. k : /\ Names(nodes2, kids2, i) = Names(nodes, kids, i)
                           /\ nodes2[kids2[i]] = nodes[kids[i]] /\ Names(nodes, kids, i) # t
      /\ Names(nodes2, kids2, k + 1) = t /\ nodes2[kids2[k + 1]].content = c
  BY <1>1, <1>2, <1>3, <1>4, <1>5, KidsAre DEF Names, Named, l, k
<1>7. Distinct(nodes2, kids2)
  <2> SUFFICES ASSUME NEW i \in 1 .. k + 1, NEW j \in 1 .. k + 1, i # j
               PROVE  kids2[i] # kids2[j] /\ (Names(nodes2, kids2, i) = Names(nodes2, kids2, j)
                                                => Names(nodes2, kids2, i) \notin Name)
    BY <1>3 DEF Distinct
  <2>1. CASE i \in 1 .. k /\ j \in 1 .. k
    BY <1>3, <1>6, <2>1 DEF Sound, Distinct, k
  <2>2. CASE i \in 1 .. k /\ j = k + 1
    <3>1. kids[i] \in 2 .. l
      BY <2>2, KidsAre DEF l, k
    <3> QED BY <1>1, <1>3, <1>6, <2>2, <3>1
  <2>3. CASE i = k + 1 /\ j \in 1 .. k
    <3>1. kids2[j] \in 2 .. l /\ kids2[i] = l + 1
      BY <1>3, <2>3, KidsAre DEF l, k
    <3>2. Names(nodes2, kids2, i) = t /\ Names(nodes2, kids2, j) # t
      BY <1>6, <2>3
    <3>3. kids2[i] # kids2[j]
      BY <1>1, <3>1
    <3> QED BY <3>2, <3>3
  <2>4. (i \in 1 .. k \/ i = k + 1) /\ (j \in 1 .. k \/ j = k + 1)
    BY <1>1
  <2> QED BY <2>1, <2>2, <2>3, <2>4
<1>8. Sound(nodes2, kids2)
  <2>1. Len(nodes2) \in 1 .. MaxFiles /\ Len(kids2) <= MaxChildren
    BY <1>1, <1>2, <1>3 DEF l, k
  <2>2. nodes2[Root].content = Directory
    BY <1>1, <1>2 DEF Sound, Root
  <2>3. \A n \in 2 .. l + 1 : nodes2[n].name \in Text
    <3> TAKE n \in 2 .. l + 1
    <3>1. CASE n = l + 1
      BY <1>2, <1>5, <3>1
    <3>2. CASE n # l + 1
      <4>1. n \in 1 .. l /\ n \in 2 .. l
        BY <1>1, <3>2
      <4>2. nodes[n].name \in Text /\ nodes2[n] = nodes[n]
        BY <1>2, <4>1 DEF Sound, l
      <4> QED BY <4>2
    <3> QED BY <3>1, <3>2
  <2> QED BY <1>2, <1>3, <1>7, <2>1, <2>2, <2>3 DEF Sound
<1>9. t \in Name => HeldIn(nodes, kids, t) = NoFile
  BY <1>4, FirstSays
<1>10. ASSUME NEW n \in Name
       PROVE  HeldIn(nodes2, kids2, n) = IF n = t THEN c ELSE HeldIn(nodes, kids, n)
  <2>1. CASE n = t
    <3>1. PICK j \in 1 .. Len(kids2) : Names(nodes2, kids2, j) = n /\ nodes2[kids2[j]].content = c
      BY <1>1, <1>3, <1>6, <2>1
    <3>2. j \in Named(nodes2, kids2, n)
      BY <3>1 DEF Named
    <3>3. HeldIn(nodes2, kids2, n) = nodes2[kids2[j]].content
      BY <1>8, <3>2, HeldIs
    <3> QED BY <2>1, <3>1, <3>3
  <2>2. CASE n # t
    <3>1. \A i \in 1 .. Len(kids) : Names(nodes, kids, i) = n =>
            \E j \in 1 .. Len(kids2) :
              Names(nodes2, kids2, j) = n /\ nodes2[kids2[j]].content = nodes[kids[i]].content
      <4> SUFFICES ASSUME NEW i \in 1 .. k, Names(nodes, kids, i) = n
                   PROVE  \E j \in 1 .. Len(kids2) : /\ Names(nodes2, kids2, j) = n
                            /\ nodes2[kids2[j]].content = nodes[kids[i]].content
        BY DEF k
      <4>1. i \in 1 .. Len(kids2)
        BY <1>1, <1>3
      <4> QED BY <1>6, <4>1
    <3>2. \A j \in 1 .. Len(kids2) : Names(nodes2, kids2, j) = n =>
            \E i \in 1 .. Len(kids) : Names(nodes, kids, i) = n
      <4> SUFFICES ASSUME NEW j \in 1 .. k + 1, Names(nodes2, kids2, j) = n
                   PROVE  \E i \in 1 .. Len(kids) : Names(nodes, kids, i) = n
        BY <1>3
      <4>1. j # k + 1
        BY <1>6, <2>2
      <4>2. j \in 1 .. k
        BY <1>1, <4>1
      <4> QED BY <1>6, <4>2 DEF k
    <3>3. Alike(nodes, kids, nodes2, kids2, n)
      BY <3>1, <3>2 DEF Alike
    <3> QED BY <1>8, <2>2, <3>3, HeldAlike
  <2> QED BY <2>1, <2>2
<1> QED BY <1>8, <1>9, <1>10

(* A child's content is replaced.                                          *)
Replaced(nodes, n, c, nodes2) == nodes2 = [nodes EXCEPT ![n].content = c]

LEMMA PutKeeps ==
  ASSUME NEW nodes, NEW kids, Sound(nodes, kids), NEW m \in 1 .. Len(kids), NEW c \in Content,
         NEW nodes2, Replaced(nodes, kids[m], c, nodes2)
  PROVE  /\ Sound(nodes2, kids)
         /\ \A n \in Name :
              HeldIn(nodes2, kids, n) =
                IF n = Names(nodes, kids, m) THEN c ELSE HeldIn(nodes, kids, n)
<1> DEFINE l == Len(nodes)
           k == Len(kids)
           x == kids[m]
           e == [nodes[x] EXCEPT !.content = c]
<1>1. /\ nodes \in Seq(Node) /\ l \in Nat /\ k \in Nat /\ x \in 1 .. l /\ x # Root
      /\ nodes[x] \in Node
  BY KidsAre DEF Sound
<1>2. e \in Node /\ e.name = nodes[x].name /\ e.content = c
  BY <1>1 DEF Node
<1>3. nodes2 = [nodes EXCEPT ![x] = e]
  BY DEF Replaced
<1> HIDE DEF l, k, x, e
<1>4. /\ nodes2 \in Seq(Node) /\ Len(nodes2) = l
      /\ \A i \in 1 .. l : nodes2[i] = IF i = x THEN e ELSE nodes[i]
  <2>1. nodes \in Seq(Node) /\ x \in 1 .. Len(nodes) /\ e \in Node
    BY <1>1, <1>2 DEF l
  <2>2. /\ [nodes EXCEPT ![x] = e] \in Seq(Node) /\ Len([nodes EXCEPT ![x] = e]) = Len(nodes)
        /\ \A j \in 1 .. Len(nodes) : [nodes EXCEPT ![x] = e][j] = IF j = x THEN e ELSE nodes[j]
    BY <2>1, ExceptSeq
  <2> QED BY <1>3, <2>2 DEF l
<1>5. \A i \in 1 .. l : nodes2[i].name = nodes[i].name
  BY <1>2, <1>4
<1>6. /\ \A i \in 1 .. k : Names(nodes2, kids, i) = Names(nodes, kids, i)
      /\ nodes2[kids[m]].content = c
      /\ \A i \in 1 .. k : i # m => nodes2[kids[i]] = nodes[kids[i]]
  <2>1. \A i \in 1 .. k : kids[i] \in 1 .. l
    BY KidsAre DEF k, l
  <2>2. \A i \in 1 .. k : i # m => kids[i] # x
    BY DEF Sound, Distinct, k, x
  <2> QED BY <1>1, <1>2, <1>4, <1>5, <2>1, <2>2 DEF Names, x
<1>7. Sound(nodes2, kids)
  <2>1. Distinct(nodes2, kids)
    BY <1>6 DEF Sound, Distinct, k
  <2>2. nodes2[Root].content = Directory
    <3>1. Root \in 1 .. l
      BY <1>1, KidsAre DEF Root, l
    <3> QED BY <1>1, <1>4, <3>1 DEF Sound
  <2>3. \A n \in 2 .. l : nodes2[n].name \in Text
    <3>1. \A n \in 2 .. l : n \in 1 .. l
      BY <1>1
    <3> QED BY <1>5, <3>1 DEF Sound, l
  <2> QED BY <1>4, <2>1, <2>2, <2>3 DEF Sound, l
<1>8. ASSUME NEW n \in Name
      PROVE  HeldIn(nodes2, kids, n) =
                IF n = Names(nodes, kids, m) THEN c ELSE HeldIn(nodes, kids, n)
  <2>1. CASE n = Names(nodes, kids, m)
    <3>1. m \in Named(nodes2, kids, n)
      BY <1>6, <2>1 DEF k, Named
    <3>2. HeldIn(nodes2, kids, n) = nodes2[kids[m]].content
      BY <1>7, <3>1, HeldIs
    <3> QED BY <1>6, <2>1, <3>2
  <2>2. CASE n # Names(nodes, kids, m)
    <3>1. \A i \in 1 .. Len(kids) : Names(nodes, kids, i) = n =>
            \E j \in 1 .. Len(kids) :
              Names(nodes2, kids, j) = n /\ nodes2[kids[j]].content = nodes[kids[i]].content
      BY <1>6, <2>2 DEF k
    <3>2. \A j \in 1 .. Len(kids) : Names(nodes2, kids, j) = n =>
            \E i \in 1 .. Len(kids) : Names(nodes, kids, i) = n
      BY <1>6 DEF k
    <3>3. Alike(nodes, kids, nodes2, kids, n)
      BY <3>1, <3>2 DEF Alike
    <3> QED BY <1>7, <2>2, <3>3, HeldAlike
  <2> QED BY <2>1, <2>2
<1> QED BY <1>7, <1>8

(* A child is given another name, which no path led to before.             *)
Renamed(nodes, n, t, nodes2) == nodes2 = [nodes EXCEPT ![n].name = t]

(* No path leads to a node of that name.                                   *)
Unseen(nodes, kids, t) == t \in Name => FirstNamed(nodes, kids, t) = None

AfterRename(nodes, kids, m, t, n) ==
  IF n = t THEN nodes[kids[m]].content
  ELSE IF n = Names(nodes, kids, m) THEN NoFile ELSE HeldIn(nodes, kids, n)

LEMMA RenameKeeps ==
  ASSUME NEW nodes, NEW kids, Sound(nodes, kids), NEW m \in 1 .. Len(kids), NEW t \in Text,
         Unseen(nodes, kids, t), NEW nodes2, Renamed(nodes, kids[m], t, nodes2)
  PROVE  /\ Sound(nodes2, kids)
         /\ \A n \in Name : HeldIn(nodes2, kids, n) = AfterRename(nodes, kids, m, t, n)
<1> DEFINE l == Len(nodes)
           k == Len(kids)
           x == kids[m]
           e == [nodes[x] EXCEPT !.name = t]
<1>1. /\ nodes \in Seq(Node) /\ l \in Nat /\ k \in Nat /\ x \in 1 .. l /\ x # Root
      /\ nodes[x] \in Node
  BY KidsAre DEF Sound
<1>2. e \in Node /\ e.name = t /\ e.content = nodes[x].content
  BY <1>1 DEF Node
<1>3. nodes2 = [nodes EXCEPT ![x] = e]
  BY DEF Renamed
<1> HIDE DEF l, k, x, e
<1>4. /\ nodes2 \in Seq(Node) /\ Len(nodes2) = l
      /\ \A i \in 1 .. l : nodes2[i] = IF i = x THEN e ELSE nodes[i]
  <2>1. nodes \in Seq(Node) /\ x \in 1 .. Len(nodes) /\ e \in Node
    BY <1>1, <1>2 DEF l
  <2>2. /\ [nodes EXCEPT ![x] = e] \in Seq(Node) /\ Len([nodes EXCEPT ![x] = e]) = Len(nodes)
        /\ \A j \in 1 .. Len(nodes) : [nodes EXCEPT ![x] = e][j] = IF j = x THEN e ELSE nodes[j]
    BY <2>1, ExceptSeq
  <2> QED BY <1>3, <2>2 DEF l
<1>5. \A i \in 1 .. l : nodes2[i].content = nodes[i].content
  BY <1>2, <1>4
<1>6. /\ Names(nodes2, kids, m) = t
      /\ \A i \in 1 .. k : nodes2[kids[i]].content = nodes[kids[i]].content
      /\ \A i \in 1 .. k : i # m => Names(nodes2, kids, i) = Names(nodes, kids, i)
  <2>1. \A i \in 1 .. k : kids[i] \in 1 .. l
    BY KidsAre DEF k, l
  <2>2. \A i \in 1 .. k : i # m => kids[i] # x
    BY DEF Sound, Distinct, k, x
  <2> QED BY <1>1, <1>2, <1>4, <1>5, <2>1, <2>2 DEF Names, x
<1>7. t \in Name => \A i \in 1 .. k : Names(nodes, kids, i) # t
  <2> SUFFICES ASSUME t \in Name, NEW i \in 1 .. k, Names(nodes, kids, i) = t
               PROVE  FALSE
    OBVIOUS
  <2>1. i \in Named(nodes, kids, t)
    BY DEF Named, k
  <2>2. FirstNamed(nodes, kids, t) # None
    BY <2>1, FirstSays
  <2> QED BY <2>2 DEF Unseen
<1>8. Sound(nodes2, kids)
  <2>1. Distinct(nodes2, kids)
    <3> SUFFICES ASSUME NEW i \in 1 .. k, NEW j \in 1 .. k, i # j
                 PROVE  /\ kids[i] # kids[j]
                        /\ Names(nodes2, kids, i) = Names(nodes2, kids, j)
                             => Names(nodes2, kids, i) \notin Name
      BY DEF Distinct, k
    <3>1. /\ kids[i] # kids[j]
          /\ Names(nodes, kids, i) = Names(nodes, kids, j) => Names(nodes, kids, i) \notin Name
      BY DEF Sound, Distinct, k
    <3>2. CASE i # m /\ j # m
      BY <1>6, <3>1, <3>2
    <3>3. CASE i = m
      BY <1>6, <1>7, <3>1, <3>3
    <3>4. CASE j = m
      BY <1>6, <1>7, <3>1, <3>4
    <3> QED BY <3>2, <3>3, <3>4
  <2>2. nodes2[Root].content = Directory
    <3>1. Root \in 1 .. l
      BY <1>1, KidsAre DEF Root, l
    <3> QED BY <1>5, <3>1 DEF Sound
  <2>3. \A n \in 2 .. l : nodes2[n].name \in Text
    <3> TAKE n \in 2 .. l
    <3>1. n \in 1 .. l /\ nodes[n].name \in Text
      BY <1>1 DEF Sound, l
    <3> QED BY <1>2, <1>4, <3>1
  <2> QED BY <1>4, <2>1, <2>2, <2>3 DEF Sound, l
<1>9. ASSUME NEW n \in Name
      PROVE  HeldIn(nodes2, kids, n) = AfterRename(nodes, kids, m, t, n)
  <2>1. CASE n = t
    <3>1. m \in Named(nodes2, kids, n)
      BY <1>6, <2>1 DEF k, Named
    <3>2. HeldIn(nodes2, kids, n) = nodes2[kids[m]].content
      BY <1>8, <3>1, HeldIs
    <3> QED BY <1>6, <2>1, <3>2 DEF k, AfterRename
  <2>2. CASE n # t /\ n = Names(nodes, kids, m)
    <3>1. \A i \in 1 .. k : Names(nodes2, kids, i) # n
      <4> TAKE i \in 1 .. k
      <4>1. CASE i = m
        BY <1>6, <2>2, <4>1
      <4>2. CASE i # m
        <5>1. kids[i] # kids[m] /\ Names(nodes, kids, i) # n
          BY <2>2, <4>2 DEF Sound, Distinct, k
        <5> QED BY <1>6, <4>2, <5>1
      <4> QED BY <4>1, <4>2
    <3>2. Named(nodes2, kids, n) = {}
      BY <3>1 DEF Named, k
    <3>3. HeldIn(nodes2, kids, n) = NoFile
      BY <1>8, <3>2, FirstSays
    <3> QED BY <2>2, <3>3 DEF AfterRename
  <2>3. CASE n # t /\ n # Names(nodes, kids, m)
    <3>1. \A i \in 1 .. k : Names(nodes, kids, i) = n => i # m
      BY <2>3
    <3>2. \A j \in 1 .. k : Names(nodes2, kids, j) = n => j # m
      BY <1>6, <2>3
    <3>3. Alike(nodes, kids, nodes2, kids, n)
      BY <1>6, <3>1, <3>2 DEF Alike, k
    <3>4. HeldIn(nodes2, kids, n) = HeldIn(nodes, kids, n)
      BY <1>8, <3>3, HeldAlike
    <3> QED BY <2>3, <3>4 DEF AfterRename
  <2> QED BY <2>1, <2>2, <2>3
<1> QED BY <1>8, <1>9

(* The root's own name is never looked up.                                 *)
LEMMA RenameRootKeeps ==
  ASSUME NEW nodes, NEW kids, Sound(nodes, kids), NEW t \in Text,
         NEW nodes2, Renamed(nodes, Root, t, nodes2)
  PROVE  /\ Sound(nodes2, kids)
         /\ \A n \in Name : HeldIn(nodes2, kids, n) = HeldIn(nodes, kids, n)
<1> DEFINE l == Len(nodes)
           k == Len(kids)
           e == [nodes[Root] EXCEPT !.name = t]
<1>1. /\ nodes \in Seq(Node) /\ l \in Nat /\ k \in Nat /\ Root \in 1 .. l /\ nodes[Root] \in Node
  BY KidsAre DEF Sound, Root
<1>2. e \in Node /\ e.content = nodes[Root].content
  BY <1>1 DEF Node
<1>3. nodes2 = [nodes EXCEPT ![Root] = e]
  BY DEF Renamed
<1> HIDE DEF l, k, e
<1>4. /\ nodes2 \in Seq(Node) /\ Len(nodes2) = l
      /\ \A i \in 1 .. l : nodes2[i] = IF i = Root THEN e ELSE nodes[i]
  <2>1. nodes \in Seq(Node) /\ Root \in 1 .. Len(nodes) /\ e \in Node
    BY <1>1, <1>2 DEF l
  <2>2. /\ [nodes EXCEPT ![Root] = e] \in Seq(Node) /\ Len([nodes EXCEPT ![Root] = e]) = Len(nodes)
        /\ \A j \in 1 .. Len(nodes) : [nodes EXCEPT ![Root] = e][j] = IF j = Root THEN e ELSE nodes[j]
    BY <2>1, ExceptSeq
  <2> QED BY <1>3, <2>2 DEF l
<1>5. \A i \in 1 .. k : /\ nodes2[kids[i]] = nodes[kids[i]]
                        /\ Names(nodes2, kids, i) = Names(nodes, kids, i)
  <2>1. \A i \in 1 .. k : kids[i] \in 1 .. l /\ kids[i] # Root
    BY KidsAre DEF k, l
  <2> QED BY <1>4, <2>1 DEF Names
<1>6. Sound(nodes2, kids)
  <2>1. Distinct(nodes2, kids)
    BY <1>5 DEF Sound, Distinct, k
  <2>2. nodes2[Root].content = Directory
    BY <1>1, <1>2, <1>4 DEF Sound
  <2>3. \A n \in 2 .. l : nodes2[n].name \in Text
    <3> TAKE n \in 2 .. l
    <3>1. n \in 1 .. l /\ n # Root /\ nodes[n].name \in Text
      BY <1>1 DEF Sound, l, Root
    <3> QED BY <1>4, <3>1
  <2> QED BY <1>4, <2>1, <2>2, <2>3 DEF Sound, l
<1>7. ASSUME NEW n \in Name PROVE HeldIn(nodes2, kids, n) = HeldIn(nodes, kids, n)
  <2>1. Alike(nodes, kids, nodes2, kids, n)
    BY <1>5 DEF Alike, k
  <2> QED BY <1>6, <2>1, HeldAlike
<1> QED BY <1>6, <1>7

(* A child is unlinked and the ones behind it move up; its node stays.     *)
Past(i, m) == IF i < m THEN i ELSE i + 1

LEMMA RemoveAtIs ==
  ASSUME NEW S, NEW kids \in Seq(S), NEW m \in 1 .. Len(kids)
  PROVE  /\ RemoveAt(kids, m) \in Seq(S) /\ Len(RemoveAt(kids, m)) = Len(kids) - 1
         /\ \A i \in 1 .. Len(kids) - 1 : RemoveAt(kids, m)[i] = kids[Past(i, m)]
<1> DEFINE l == Len(kids)
           a == SubSeq(kids, 1, m - 1)
           b == SubSeq(kids, m + 1, l)
<1>1. l \in Nat /\ m \in Int /\ m >= 1 /\ m <= l /\ \A i \in 1 .. l : kids[i] \in S
  OBVIOUS
<1>2. a \in Seq(S) /\ Len(a) = m - 1 /\ \A i \in 1 .. m - 1 : a[i] = kids[i]
  <2>1. \A i \in 1 .. m - 1 : kids[i] \in S
    BY <1>1
  <2>2. 1 \in Int /\ m - 1 \in Int
    BY <1>1
  <2>3. /\ a \in Seq(S) /\ Len(a) = IF 1 <= m - 1 THEN (m - 1) - 1 + 1 ELSE 0
        /\ \A i \in 1 .. (m - 1) - 1 + 1 : a[i] = kids[1 + i - 1]
    BY <2>1, <2>2, SubSeqProperties
  <2> HIDE DEF a
  <2>4. Len(a) = m - 1
    BY <1>1, <2>3
  <2>5. \A i \in 1 .. m - 1 : i \in 1 .. (m - 1) - 1 + 1 /\ 1 + i - 1 = i
    BY <1>1
  <2> QED BY <2>3, <2>4, <2>5
<1>3. b \in Seq(S) /\ Len(b) = l - m /\ \A i \in 1 .. l - m : b[i] = kids[m + i]
  <2>1. \A i \in m + 1 .. l : kids[i] \in S
    BY <1>1
  <2>2. m + 1 \in Int /\ l \in Int
    BY <1>1
  <2>3. /\ b \in Seq(S) /\ Len(b) = IF m + 1 <= l THEN l - (m + 1) + 1 ELSE 0
        /\ \A i \in 1 .. l - (m + 1) + 1 : b[i] = kids[m + 1 + i - 1]
    BY <2>1, <2>2, SubSeqProperties
  <2> HIDE DEF b
  <2>4. Len(b) = l - m
    BY <1>1, <2>3
  <2>5. \A i \in 1 .. l - m : i \in 1 .. l - (m + 1) + 1 /\ m + 1 + i - 1 = m + i
    BY <1>1
  <2> QED BY <2>3, <2>4, <2>5
<1>4. RemoveAt(kids, m) = a \o b
  BY DEF RemoveAt
<1> HIDE DEF a, b, l
<1>5. /\ a \o b \in Seq(S) /\ Len(a \o b) = Len(a) + Len(b)
      /\ \A i \in 1 .. Len(a) + Len(b) : (a \o b)[i] = IF i <= Len(a) THEN a[i] ELSE b[i - Len(a)]
  BY <1>2, <1>3, ConcatProperties
<1>6. Len(a) + Len(b) = l - 1
  BY <1>1, <1>2, <1>3
<1>7. ASSUME NEW i \in 1 .. l - 1 PROVE (a \o b)[i] = kids[Past(i, m)]
  <2>1. (a \o b)[i] = IF i <= m - 1 THEN a[i] ELSE b[i - (m - 1)]
    BY <1>2, <1>5, <1>6
  <2>2. CASE i < m
    <3>1. i \in 1 .. m - 1
      BY <1>1, <2>2
    <3> QED BY <1>1, <1>2, <2>1, <2>2, <3>1 DEF Past
  <2>3. CASE ~(i < m)
    <3>1. i - (m - 1) \in 1 .. l - m /\ m + (i - (m - 1)) = i + 1 /\ ~(i <= m - 1)
      BY <1>1, <2>3
    <3> QED BY <1>3, <2>1, <2>3, <3>1 DEF Past
  <2> QED BY <2>2, <2>3
<1> QED BY <1>4, <1>5, <1>6, <1>7 DEF l

LEMMA RemoveFirstIs ==
  ASSUME NEW S, NEW kids \in Seq(S), NEW m \in 1 .. Len(kids),
         \A i \in 1 .. Len(kids) : i # m => kids[i] # kids[m]
  PROVE  RemoveFirst(kids, kids[m]) = RemoveAt(kids, m)
<1> DEFINE I == {i \in 1 .. Len(kids) : kids[i] = kids[m]}
<1>1. I = {m}
  OBVIOUS
<1>2. Min(I) = m
  <2>1. Len(kids) \in Nat /\ I \in SUBSET (1 .. Len(kids)) /\ I # {}
    BY <1>1
  <2> HIDE DEF I
  <2>2. Min(I) \in I
    BY <2>1, MinUpTo
  <2> QED BY <1>1, <2>2
<1>3. SelectInSeq(kids, LAMBDA v : v = kids[m]) = m
  BY <1>1, <1>2 DEF SelectInSeq
<1>4. \E i \in 1 .. Len(kids) : kids[i] = kids[m]
  OBVIOUS
<1> QED BY <1>3, <1>4 DEF RemoveFirst

LEMMA RemoveKeeps ==
  ASSUME NEW nodes, NEW kids, Sound(nodes, kids), NEW m \in 1 .. Len(kids),
         NEW kids2, kids2 = RemoveFirst(kids, kids[m])
  PROVE  /\ Sound(nodes, kids2)
         /\ \A n \in Name :
              HeldIn(nodes, kids2, n) =
                IF n = Names(nodes, kids, m) THEN NoFile ELSE HeldIn(nodes, kids, n)
<1> DEFINE l == Len(nodes)
           k == Len(kids)
<1>1. k \in Nat /\ l \in Nat /\ kids \in Seq(2 .. l) /\ m \in 1 .. k
  BY KidsAre DEF Sound
<1>2. \A i, j \in 1 .. k : i # j => kids[i] # kids[j]
  BY DEF Sound, Distinct
<1>3. kids2 = RemoveAt(kids, m)
  BY <1>1, <1>2, RemoveFirstIs
<1>4. /\ kids2 \in Seq(2 .. l) /\ Len(kids2) = k - 1
      /\ \A i \in 1 .. k - 1 : kids2[i] = kids[Past(i, m)]
  BY <1>1, <1>3, RemoveAtIs
<1> HIDE DEF l, k
<1>5. \A i \in 1 .. k - 1 : Past(i, m) \in 1 .. k /\ Past(i, m) # m
  BY <1>1 DEF Past
<1>6. \A i, j \in 1 .. k - 1 : i # j => Past(i, m) # Past(j, m)
  BY <1>1 DEF Past
<1>7. \A j \in 1 .. k : j # m => \E i \in 1 .. k - 1 : Past(i, m) = j
  <2> SUFFICES ASSUME NEW j \in 1 .. k, j # m PROVE \E i \in 1 .. k - 1 : Past(i, m) = j
    OBVIOUS
  <2>1. CASE j < m
    <3>1. j \in 1 .. k - 1 /\ Past(j, m) = j
      BY <1>1, <2>1 DEF Past
    <3> QED BY <3>1
  <2>2. CASE j > m
    <3>1. j - 1 \in 1 .. k - 1 /\ Past(j - 1, m) = j
      BY <1>1, <2>2 DEF Past
    <3> QED BY <3>1
  <2> QED BY <1>1, <2>1, <2>2
<1>8. \A i \in 1 .. k - 1 : /\ Names(nodes, kids2, i) = Names(nodes, kids, Past(i, m))
                            /\ nodes[kids2[i]] = nodes[kids[Past(i, m)]]
  BY <1>4 DEF Names
<1>9. Sound(nodes, kids2)
  <2>1. Distinct(nodes, kids2)
    <3> SUFFICES ASSUME NEW i \in 1 .. k - 1, NEW j \in 1 .. k - 1, i # j
                 PROVE  /\ kids2[i] # kids2[j]
                        /\ Names(nodes, kids2, i) = Names(nodes, kids2, j)
                             => Names(nodes, kids2, i) \notin Name
      BY <1>4 DEF Distinct
    <3> DEFINE a == Past(i, m)
               b == Past(j, m)
    <3>1. a \in 1 .. k /\ b \in 1 .. k /\ a # b
      BY <1>5, <1>6
    <3> HIDE DEF a, b
    <3>2. /\ kids[a] # kids[b]
          /\ Names(nodes, kids, a) = Names(nodes, kids, b) => Names(nodes, kids, a) \notin Name
      BY <3>1 DEF Sound, Distinct, k
    <3> QED BY <1>4, <1>8, <3>2 DEF a, b
  <2>2. Len(kids2) <= MaxChildren
    <3>1. k <= MaxChildren /\ MaxChildren \in Nat
      BY LegacyAssumption DEF Sound, k
    <3> QED BY <1>1, <1>4, <3>1
  <2> QED BY <1>4, <2>1, <2>2 DEF Sound, l
<1>10. ASSUME NEW n \in Name
       PROVE  HeldIn(nodes, kids2, n) =
                IF n = Names(nodes, kids, m) THEN NoFile ELSE HeldIn(nodes, kids, n)
  <2>1. CASE n = Names(nodes, kids, m)
    <3>1. \A i \in 1 .. k - 1 : Names(nodes, kids2, i) # n
      <4> SUFFICES ASSUME NEW i \in 1 .. k - 1 PROVE Names(nodes, kids2, i) # n
        OBVIOUS
      <4> DEFINE a == Past(i, m)
      <4>1. a \in 1 .. k /\ a # m
        BY <1>5
      <4> HIDE DEF a
      <4>2. Names(nodes, kids, a) # n
        BY <1>1, <2>1, <4>1 DEF Sound, Distinct, k
      <4> QED BY <1>8, <4>2 DEF a
    <3>2. Named(nodes, kids2, n) = {}
      BY <1>4, <3>1 DEF Named
    <3>3. HeldIn(nodes, kids2, n) = NoFile
      BY <1>9, <3>2, FirstSays
    <3> QED BY <2>1, <3>3
  <2>2. CASE n # Names(nodes, kids, m)
    <3>1. \A j \in 1 .. k : Names(nodes, kids, j) = n =>
            \E i \in 1 .. k - 1 :
              Names(nodes, kids2, i) = n /\ nodes[kids2[i]].content = nodes[kids[j]].content
      <4> SUFFICES ASSUME NEW j \in 1 .. k, Names(nodes, kids, j) = n
                   PROVE  \E i \in 1 .. k - 1 : /\ Names(nodes, kids2, i) = n
                             /\ nodes[kids2[i]].content = nodes[kids[j]].content
        OBVIOUS
      <4>1. j # m
        BY <2>2
      <4>2. PICK i \in 1 .. k - 1 : Past(i, m) = j
        BY <1>7, <4>1
      <4> QED BY <1>8, <4>2
    <3>2. \A i \in 1 .. k - 1 : Names(nodes, kids2, i) = n =>
            \E j \in 1 .. k : Names(nodes, kids, j) = n
      BY <1>5, <1>8
    <3>3. Alike(nodes, kids, nodes, kids2, n)
      BY <1>4, <3>1, <3>2 DEF Alike, k
    <3>4. HeldIn(nodes, kids2, n) = HeldIn(nodes, kids, n)
      BY <1>9, <3>3, HeldAlike
    <3> QED BY <2>2, <3>4
  <2> QED BY <2>1, <2>2
<1> QED BY <1>9, <1>10

-----------------------------------------------------------------------------
InTree(n) == n \in {None, Root} \cup {children[i] : i \in 1 .. Len(children)}

(* Whatever is looked up or walked to is nothing, the root or a child.     *)
LEMMA FindInTree ==
  ASSUME Sound(fs_nodes, children), NEW dir, NEW name
  PROVE  InTree(fs_find_node(dir, name))
<1>1. CASE dir = Root
  <2>1. InTree(FirstNamed(fs_nodes, children, name))
    <3>1. CASE Named(fs_nodes, children, name) = {}
      BY <3>1, FirstSays DEF InTree
    <3>2. CASE Named(fs_nodes, children, name) # {}
      <4>1. PICK i \in Named(fs_nodes, children, name) :
              FirstNamed(fs_nodes, children, name) = children[i]
        BY <3>2, FirstSays
      <4>2. i \in 1 .. Len(children)
        BY DEF Named
      <4> QED BY <4>1, <4>2 DEF InTree
    <3> QED BY <3>1, <3>2
  <2> QED BY <1>1, <2>1, FindIs
<1>2. CASE dir # Root
  BY <1>2 DEF fs_find_node, InTree
<1> QED BY <1>1, <1>2

LEMMA PathInTree ==
  ASSUME Sound(fs_nodes, children), NEW p \in Text
  PROVE  InTree(fs_find_node_by_path(p))
<1> DEFINE names == Components[p]
<1>1. Len(names) \in Nat
  <2>1. names \in Seq(Text \cup {".", ".."})
    BY LegacyAssumption
  <2> QED BY <2>1, LenProperties
<1> HIDE DEF names
<1>2. PICK f : /\ fs_find_node_by_path(p) = f[Len(names)]
               /\ \A k \in 0 .. Len(names) :
                    f[k] = IF k = 0 THEN Root ELSE Onward(f[k - 1], k, names)
  BY WalkOf DEF names
<1> DEFINE S == {k \in 0 .. Len(names) : InTree(f[k])}
<1>3. 0 \in S
  <2>1. f[0] = Root
    BY <1>1, <1>2
  <2> QED BY <1>1, <2>1 DEF InTree
<1>4. ASSUME NEW k \in 0 .. Len(names) - 1, k \in S PROVE k + 1 \in S
  <2>1. InTree(f[k])
    BY <1>4
  <2>2. k + 1 \in 0 .. Len(names) /\ k + 1 # 0 /\ k + 1 - 1 = k
    BY <1>1
  <2>3. f[k + 1] = Onward(f[k], k + 1, names)
    BY <1>2, <2>2
  <2>4. InTree(Onward(f[k], k + 1, names))
    <3> DEFINE m == fs_find_node(f[k], names[k + 1])
    <3>1. InTree(m) /\ InTree(None) /\ InTree(Root)
      <4>1. InTree(m)
        BY FindInTree
      <4> QED BY <4>1 DEF InTree
    <3>2. Onward(f[k], k + 1, names) \in {f[k], Root, None, m}
      <4> HIDE DEF m
      <4>1. CASE f[k] = None \/ names[k + 1] = "."
        BY <4>1 DEF Onward
      <4>2. CASE ~(f[k] = None \/ names[k + 1] = ".")
        <5>1. CASE names[k + 1] = ".."
          BY <4>2, <5>1 DEF Onward
        <5>2. CASE names[k + 1] # ".."
          BY <4>2, <5>2 DEF Onward, m
        <5> QED BY <5>1, <5>2
      <4> QED BY <4>1, <4>2
    <3> HIDE DEF m
    <3> QED BY <2>1, <3>1, <3>2
  <2> QED BY <2>2, <2>3, <2>4
<1>5. Len(names) \in S
  <2> HIDE DEF S
  <2> QED BY <1>1, <1>3, <1>4, UpTo
<1> QED BY <1>2, <1>5

(* A text that leads to the node it names is looked up as a name, unless   *)
(* it is one of the two that lead to the root.                             *)
LEMMA NameLeads ==
  ASSUME NEW t \in Text, t \in Name
  PROVE  fs_find_node_by_path(t) \in {Root, fs_find_node(Root, t)}
<1>1. Components[t] = <<t>> /\ Len(<<t>>) = 1 /\ <<t>>[1] = t
  BY DEF Name
<1>2. PICK f : /\ fs_find_node_by_path(t) = f[Len(Components[t])]
               /\ \A k \in 0 .. Len(Components[t]) :
                    f[k] = IF k = 0 THEN Root ELSE Onward(f[k - 1], k, Components[t])
  BY WalkOf
<1>3. /\ fs_find_node_by_path(t) = f[1]
      /\ \A k \in 0 .. 1 : f[k] = IF k = 0 THEN Root ELSE Onward(f[k - 1], k, <<t>>)
  BY <1>1, <1>2
<1>4. f[0] = Root
  BY <1>3
<1>5. f[1] = Onward(Root, 1, <<t>>)
  <2>1. f[1] = Onward(f[0], 1, <<t>>)
    BY <1>3
  <2> QED BY <1>4, <2>1
<1> DEFINE m == fs_find_node(Root, t)
<1>6. Onward(Root, 1, <<t>>) \in {Root, m}
  <2> HIDE DEF m
  <2>1. CASE t = "."
    BY <1>1, <2>1 DEF Onward
  <2>2. CASE t = ".."
    BY <1>1, <2>2 DEF Onward, Root, None
  <2>3. CASE t # "." /\ t # ".."
    <3>1. Root # None
      BY DEF Root, None
    <3>2. ~(1 < Len(<<t>>))
      BY <1>1
    <3>3. Onward(Root, 1, <<t>>) = m
      BY <1>1, <2>3, <3>1, <3>2 DEF Onward, m
    <3> QED BY <3>3
  <2> QED BY <2>1, <2>2, <2>3
<1> QED BY <1>3, <1>5, <1>6

LEMMA NotLeading ==
  ASSUME Sound(fs_nodes, children), NEW t \in Text, fs_find_node_by_path(t) = None
  PROVE  Unseen(fs_nodes, children, t)
<1>1. t \in Name => fs_find_node(Root, t) = None
  <2>1. Root # None
    BY DEF Root, None
  <2> QED BY <2>1, NameLeads
<1> QED BY <1>1, FindIs DEF Unseen

-----------------------------------------------------------------------------
(* The store as the tree shows it.                                         *)
View == [n \in Name |-> HeldIn(fs_nodes, children, n)]

Held == Content \cup {NoFile, Directory}

MayHold(t) == IF t \in Name THEN {View[t]} ELSE Held

With(f, t, c) == [n \in Name |-> IF n = t THEN c ELSE f[n]]

LegacyInv == Sound(fs_nodes, children)

(* It is what the refinement mapping of LegacyFs maps the store to.        *)
LEMMA ViewIs ==
  [n \in Name |-> Holds(n)] = View /\ [n \in Name |-> Holds(n)]' = View'
<1>1. \A n \in Name : Holds(n) = HeldIn(fs_nodes, children, n)
  BY FindIs DEF Holds, HeldIn
<1>2. \A n \in Name : Holds(n)' = HeldIn(fs_nodes, children, n)'
  BY DEF Holds, HeldIn, fs_find_node, SelectInSeq, Named, Names, FirstNamed
<1> QED BY <1>1, <1>2 DEF View

LEMMA HeldTyped ==
  ASSUME NEW nodes, NEW kids, Sound(nodes, kids), NEW n
  PROVE  HeldIn(nodes, kids, n) \in Held
<1>1. CASE Named(nodes, kids, n) = {}
  BY <1>1, FirstSays DEF Held
<1>2. CASE Named(nodes, kids, n) # {}
  <2>1. PICK i \in Named(nodes, kids, n) : HeldIn(nodes, kids, n) = nodes[kids[i]].content
    BY <1>2, FirstSays
  <2>2. i \in 1 .. Len(kids)
    BY DEF Named
  <2>3. nodes[kids[i]] \in Node
    BY <2>2, KidsAre
  <2> QED BY <2>1, <2>3 DEF Node, Held
<1> QED BY <1>1, <1>2

(* What the functions and the commands do to the view.                     *)
LEMMA CreateStep ==
  ASSUME LegacyInv, NEW t \in Text, NEW c \in Content, fs_create_file(t, c)
  PROVE  LegacyInv' /\ NoFile \in MayHold(t) /\ View' = With(View, t, c)
<1>1. /\ Len(children) < MaxChildren /\ Len(fs_nodes) < MaxFiles
      /\ FirstNamed(fs_nodes, children, t) = None
      /\ Added(fs_nodes, children, t, c, fs_nodes', children')
  BY FindIs DEF fs_create_file, Added
<1>2. /\ Sound(fs_nodes', children')
      /\ t \in Name => HeldIn(fs_nodes, children, t) = NoFile
      /\ \A n \in Name :
           HeldIn(fs_nodes', children', n) = IF n = t THEN c ELSE HeldIn(fs_nodes, children, n)
  BY <1>1, AddKeeps DEF LegacyInv
<1>3. NoFile \in MayHold(t)
  BY <1>2 DEF MayHold, View, Held
<1> QED BY <1>2, <1>3 DEF LegacyInv, View, With

(* A file in the tree is a child that holds contents.                      *)
LEMMA FileIs ==
  ASSUME LegacyInv, NEW n, InTree(n), IsFile(n)
  PROVE  \E m \in 1 .. Len(children) : n = children[m] /\ fs_nodes[n].content \in Content
<1>1. n # Root /\ n # None
  BY DEF LegacyInv, Sound, IsFile
<1>2. PICK m \in 1 .. Len(children) : n = children[m]
  BY <1>1 DEF InTree
<1>3. fs_nodes[n] \in Node
  BY <1>2, KidsAre DEF LegacyInv
<1> QED BY <1>2, <1>3 DEF IsFile, Node

(* What may be held by the name of a child.                                *)
LEMMA ChildMayHold ==
  ASSUME LegacyInv, NEW m \in 1 .. Len(children)
  PROVE  /\ fs_nodes[children[m]].content \in MayHold(fs_nodes[children[m]].name)
         /\ fs_nodes[children[m]].content \in Content \cup {Directory}
         /\ fs_nodes[children[m]].name \in Text
         /\ fs_nodes[children[m]].name = Names(fs_nodes, children, m)
         /\ fs_nodes[children[m]].content \in Content
              => MayHold(fs_nodes[children[m]].name) # {Directory}
<1> DEFINE t == fs_nodes[children[m]].name
           c == fs_nodes[children[m]].content
<1>1. c \in Content \cup {Directory} /\ t = Names(fs_nodes, children, m) /\ t \in Text
  BY KidsAre DEF LegacyInv, Node, Names
<1>2. t \in Name => HeldIn(fs_nodes, children, t) = c
  <2>1. m \in Named(fs_nodes, children, t)
    BY <1>1 DEF Named
  <2> HIDE DEF t
  <2> QED BY <2>1, HeldIs DEF LegacyInv
<1>3. Directory \notin Content /\ NoFile # Directory
  BY LegacyAssumption
<1> HIDE DEF t, c
<1>4. c \in MayHold(t) /\ (c \in Content => MayHold(t) # {Directory})
  BY <1>1, <1>2, <1>3 DEF MayHold, View, Held
<1> QED BY <1>1, <1>4 DEF t, c

LEMMA WriteStep ==
  ASSUME LegacyInv, NEW t \in Text, NEW c \in Content, fs_write_file(fs_find_node(Root, t), c)
  PROVE  LegacyInv' /\ MayHold(t) # {Directory} /\ View' = With(View, t, c)
<1> DEFINE n == fs_find_node(Root, t)
<1>1. IsFile(n) /\ Replaced(fs_nodes, n, c, fs_nodes') /\ children' = children
  BY DEF fs_write_file, Replaced
<1>2. n = FirstNamed(fs_nodes, children, t) /\ n # None
  BY <1>1, FindIs DEF IsFile
<1> HIDE DEF n
<1>3. PICK m \in Named(fs_nodes, children, t) : n = children[m]
  BY <1>2, FirstSays DEF LegacyInv
<1>4. m \in 1 .. Len(children) /\ Names(fs_nodes, children, m) = t
  BY DEF Named
<1>5. InTree(n)
  BY <1>3, <1>4 DEF InTree
<1>6. fs_nodes[n].content \in Content
  BY <1>1, <1>5, FileIs
<1>7. MayHold(t) # {Directory}
  BY <1>3, <1>4, <1>6, ChildMayHold
<1>8. Replaced(fs_nodes, children[m], c, fs_nodes')
  BY <1>1, <1>3
<1>9. /\ Sound(fs_nodes', children)
      /\ \A x \in Name : HeldIn(fs_nodes', children, x) =
           IF x = Names(fs_nodes, children, m) THEN c ELSE HeldIn(fs_nodes, children, x)
  BY <1>4, <1>8, PutKeeps DEF LegacyInv
<1> QED BY <1>1, <1>4, <1>7, <1>9 DEF LegacyInv, View, With

(* The entry a path leads to.                                              *)
LEMMA EntryIs ==
  ASSUME LegacyInv, NEW m \in 1 .. Len(children), NEW p, fs_find_node_by_path(p) = children[m]
  PROVE  Entry(p) = fs_nodes[children[m]].name /\ Entry(p) = Names(fs_nodes, children, m)
<1>1. children[m] # None /\ children[m] # Root
  BY KidsAre DEF LegacyInv
<1> QED BY <1>1 DEF Entry, Names

LEMMA RmStep ==
  ASSUME LegacyInv, NEW p \in Text, Rm(p)
  PROVE  /\ LegacyInv'
         /\ Entry(p) \in Text /\ MayHold(Entry(p)) \cap Content # {}
         /\ View' = With(View, Entry(p), NoFile)
<1> DEFINE file == fs_find_node_by_path(p)
<1>1. IsFile(file) /\ children' = RemoveFirst(children, file) /\ fs_nodes' = fs_nodes
  BY DEF Rm, Without
<1>2. InTree(file)
  BY PathInTree DEF LegacyInv
<1>3. PICK m \in 1 .. Len(children) : file = children[m] /\ fs_nodes[file].content \in Content
  <2> HIDE DEF file
  <2> QED BY <1>1, <1>2, FileIs
<1>4. Entry(p) = fs_nodes[children[m]].name /\ Entry(p) = Names(fs_nodes, children, m)
  BY <1>3, EntryIs
<1> HIDE DEF file
<1>5. Entry(p) \in Text /\ MayHold(Entry(p)) \cap Content # {}
  BY <1>3, <1>4, ChildMayHold
<1>6. children' = RemoveFirst(children, children[m])
  BY <1>1, <1>3
<1>7. /\ Sound(fs_nodes, children')
      /\ \A x \in Name : HeldIn(fs_nodes, children', x) =
           IF x = Names(fs_nodes, children, m) THEN NoFile ELSE HeldIn(fs_nodes, children, x)
  BY <1>6, RemoveKeeps DEF LegacyInv
<1> QED BY <1>1, <1>4, <1>5, <1>7 DEF LegacyInv, View, With

LEMMA CpStep ==
  ASSUME LegacyInv, NEW p \in Text, NEW q \in Text, Cp(p, q)
  PROVE  /\ LegacyInv'
         /\ Entry(p) \in Text /\ NoFile \in MayHold(q)
         /\ \E c \in MayHold(Entry(p)) \cap Content : View' = With(View, q, c)
<1> DEFINE src == fs_find_node_by_path(p)
<1>1. IsFile(src) /\ fs_create_file(q, fs_nodes[src].content)
  BY DEF Cp
<1>2. InTree(src)
  BY PathInTree DEF LegacyInv
<1>3. PICK m \in 1 .. Len(children) : src = children[m] /\ fs_nodes[src].content \in Content
  <2> HIDE DEF src
  <2> QED BY <1>1, <1>2, FileIs
<1>4. Entry(p) = fs_nodes[children[m]].name
  BY <1>3, EntryIs
<1> HIDE DEF src
<1>5. Entry(p) \in Text /\ fs_nodes[src].content \in MayHold(Entry(p)) \cap Content
  BY <1>3, <1>4, ChildMayHold
<1>6. /\ LegacyInv' /\ NoFile \in MayHold(q)
      /\ View' = With(View, q, fs_nodes[src].content)
  BY <1>1, <1>3, CreateStep
<1> QED BY <1>5, <1>6

(* mv of a path to the root renames the root, which nothing looks at.      *)
LEMMA MvStep ==
  ASSUME LegacyInv, NEW p \in Text, NEW q \in Text, Mv(p, q)
  PROVE  /\ LegacyInv' /\ NoFile \in MayHold(q)
         /\ \/ /\ Entry(p) \in Text
               /\ \E c \in MayHold(Entry(p)) \ {NoFile} :
                    View' = With(With(View, Entry(p), NoFile), q, c)
            \/ Entry(p) = NoFile /\ View' = View
<1> DEFINE src == fs_find_node_by_path(p)
<1>1. /\ src # None /\ fs_find_node_by_path(q) = None
      /\ Renamed(fs_nodes, src, q, fs_nodes') /\ children' = children
  BY DEF Mv, Renamed
<1>2. InTree(src)
  BY PathInTree DEF LegacyInv
<1>3. Unseen(fs_nodes, children, q)
  BY <1>1, NotLeading DEF LegacyInv
<1>4. NoFile \in MayHold(q)
  <2>1. q \in Name => HeldIn(fs_nodes, children, q) = NoFile
    BY <1>3 DEF HeldIn, Unseen
  <2> QED BY <2>1 DEF MayHold, View, Held
<1>5. CASE src = Root
  <2>1. Renamed(fs_nodes, Root, q, fs_nodes')
    BY <1>1, <1>5
  <2>2. /\ Sound(fs_nodes', children)
        /\ \A x \in Name : HeldIn(fs_nodes', children, x) = HeldIn(fs_nodes, children, x)
    BY <2>1, RenameRootKeeps DEF LegacyInv
  <2>3. Entry(p) = NoFile
    BY <1>5 DEF Entry
  <2>4. LegacyInv' /\ View' = View
    BY <1>1, <2>2 DEF LegacyInv, View
  <2> QED BY <1>4, <2>3, <2>4
<1>6. CASE src # Root
  <2>1. PICK m \in 1 .. Len(children) : src = children[m]
    BY <1>1, <1>2, <1>6 DEF InTree
  <2>2. Entry(p) = fs_nodes[children[m]].name /\ Entry(p) = Names(fs_nodes, children, m)
    BY <2>1, EntryIs
  <2> DEFINE c == fs_nodes[children[m]].content
  <2>3. Renamed(fs_nodes, children[m], q, fs_nodes')
    BY <1>1, <2>1
  <2>4. Entry(p) \in Text /\ c \in MayHold(Entry(p)) \ {NoFile}
    <3>1. NoFile \notin Content \cup {Directory}
      BY LegacyAssumption
    <3> QED BY <2>2, <3>1, ChildMayHold
  <2>5. /\ Sound(fs_nodes', children)
        /\ \A x \in Name : HeldIn(fs_nodes', children, x) = AfterRename(fs_nodes, children, m, q, x)
    <3> HIDE DEF src
    <3> QED BY <1>3, <2>3, RenameKeeps DEF LegacyInv
  <2> HIDE DEF c
  <2>6. LegacyInv' /\ View' = With(With(View, Entry(p), NoFile), q, c)
    BY <1>1, <2>2, <2>5 DEF LegacyInv, View, With, AfterRename, c
  <2> QED BY <1>4, <2>4, <2>6
<1> QED BY <1>5, <1>6

-----------------------------------------------------------------------------
LEMMA LegacyInitInv == LegacyInit => LegacyInv
<1> SUFFICES ASSUME LegacyInit PROVE LegacyInv
  OBVIOUS
<1> DEFINE l == Len(Initial)
           root == [name |-> "root", content |-> Directory]
<1>1. /\ l \in Nat /\ MaxFiles \in Nat /\ l <= MaxChildren /\ l < MaxFiles
      /\ Initial \in Seq([name : Text, content : Content \cup {Directory}])
      /\ \A i, j \in 1 .. l : i # j => Initial[i].name # Initial[j].name
  <2>1. Initial \in Seq([name : Text, content : Content \cup {Directory}])
    BY LegacyAssumption
  <2>2. l \in Nat /\ DOMAIN Initial = 1 .. l
    BY <2>1, LenProperties
  <2> QED BY <2>1, <2>2, LegacyAssumption
<1>2. Initial \in Seq(Node) /\ <<root>> \in Seq(Node) /\ Len(<<root>>) = 1
  <2>1. [name : Text, content : Content \cup {Directory}] \subseteq Node
    BY DEF Node
  <2>2. Initial \in Seq(Node)
    BY <1>1, <2>1, SeqMonotonic
  <2>3. root \in Node
    BY DEF Node
  <2> HIDE DEF root
  <2> QED BY <2>2, <2>3
<1>3. fs_nodes = <<root>> \o Initial /\ children = [i \in 1 .. l |-> i + 1]
  BY DEF LegacyInit
<1>4. root.content = Directory
  OBVIOUS
<1> HIDE DEF l, root
<1>5. /\ fs_nodes \in Seq(Node) /\ Len(fs_nodes) = 1 + l
      /\ fs_nodes[1] = root
      /\ \A i \in 1 .. l : fs_nodes[i + 1] = Initial[i]
  <2>1. /\ <<root>> \o Initial \in Seq(Node) /\ Len(<<root>> \o Initial) = Len(<<root>>) + Len(Initial)
        /\ \A i \in 1 .. Len(<<root>>) + Len(Initial) :
             (<<root>> \o Initial)[i] = IF i <= Len(<<root>>) THEN <<root>>[i] ELSE Initial[i - Len(<<root>>)]
    BY <1>2, ConcatProperties
  <2>2. Len(fs_nodes) = 1 + l /\ \A i \in 1 .. 1 + l :
          fs_nodes[i] = IF i <= 1 THEN <<root>>[i] ELSE Initial[i - 1]
    BY <1>2, <1>3, <2>1 DEF l
  <2>3. fs_nodes[1] = root
    BY <1>1, <2>2
  <2>4. ASSUME NEW i \in 1 .. l PROVE fs_nodes[i + 1] = Initial[i]
    <3>1. i + 1 \in 1 .. 1 + l /\ ~(i + 1 <= 1) /\ i + 1 - 1 = i
      BY <1>1
    <3>2. fs_nodes[i + 1] = Initial[i + 1 - 1]
      BY <2>2, <3>1
    <3> QED BY <3>1, <3>2
  <2> QED BY <1>3, <2>1, <2>2, <2>3, <2>4
<1>6. /\ children \in Seq(2 .. 1 + l) /\ Len(children) = l
      /\ \A i \in 1 .. l : children[i] = i + 1
  <2>1. \A i \in 1 .. l : i + 1 \in 2 .. 1 + l
    BY <1>1
  <2>2. children \in [1 .. l -> 2 .. 1 + l]
    BY <1>3, <2>1
  <2> QED BY <1>1, <1>3, <2>2
<1>7. \A i \in 1 .. l : Names(fs_nodes, children, i) = Initial[i].name
  BY <1>5, <1>6 DEF Names
<1>8. Distinct(fs_nodes, children)
  <2> SUFFICES ASSUME NEW i \in 1 .. l, NEW j \in 1 .. l, i # j
               PROVE  /\ children[i] # children[j]
                      /\ Names(fs_nodes, children, i) # Names(fs_nodes, children, j)
    BY <1>6 DEF Distinct
  <2>1. i + 1 # j + 1
    BY <1>1
  <2>2. Initial[i].name # Initial[j].name
    BY <1>1
  <2> QED BY <1>6, <1>7, <2>1, <2>2
<1>9. \A n \in 2 .. 1 + l : fs_nodes[n].name \in Text
  <2> SUFFICES ASSUME NEW n \in 2 .. 1 + l PROVE fs_nodes[n].name \in Text
    OBVIOUS
  <2>1. n - 1 \in 1 .. l /\ n - 1 + 1 = n
    BY <1>1
  <2>2. fs_nodes[n] = Initial[n - 1]
    BY <1>5, <2>1
  <2>3. Initial[n - 1] \in [name : Text, content : Content \cup {Directory}]
    BY <1>1, <2>1, ElementOfSeq DEF l
  <2> QED BY <2>2, <2>3
<1>10. 1 + l \in 1 .. MaxFiles
  BY <1>1
<1> QED BY <1>1, <1>4, <1>5, <1>6, <1>8, <1>9, <1>10 DEF LegacyInv, Sound, Root

(* What each command does to the tree and to its view.                     *)
LEMMA WriteDoes ==
  ASSUME LegacyInv, NEW t \in Text, NEW c \in Content \cup TooLong, Write(t, c)
  PROVE  /\ LegacyInv'
         /\ c \in Content => MayHold(t) # {Directory} /\ View' = With(View, t, c)
         /\ c \in TooLong => NoFile \in MayHold(t) /\ View' = With(View, t, "")
<1>1. "" \in Content /\ TooLong \cap Content = {} /\ NoFile # Directory
  BY LegacyAssumption
<1>2. CASE fs_write_file(fs_find_node(Root, t), c)
  <2>1. c \in Content
    BY <1>2 DEF fs_write_file
  <2> QED BY <1>1, <1>2, <2>1, WriteStep
<1>3. CASE fs_create_file(t, c) /\ c \in Content
  BY <1>1, <1>3, CreateStep
<1>4. CASE fs_create_file(t, "") /\ c \in TooLong
  BY <1>1, <1>4, CreateStep
<1>5. fs_create_file(t, IF c \in TooLong THEN "" ELSE c) =>
        (fs_create_file(t, c) /\ c \in Content) \/ (fs_create_file(t, "") /\ c \in TooLong)
  <2>1. CASE c \in TooLong
    BY <2>1
  <2>2. CASE c \notin TooLong
    BY <2>2
  <2> QED BY <2>1, <2>2
<1> QED BY <1>2, <1>3, <1>4, <1>5 DEF Write

LEMMA TouchDoes ==
  ASSUME LegacyInv, NEW t \in Text, Touch(t)
  PROVE  LegacyInv' /\ NoFile \in MayHold(t) /\ View' = With(View, t, "")
BY CreateStep, LegacyAssumption DEF Touch

LEMMA LegacyNextInv == LegacyInv /\ [LegacyNext]_legacyVars => LegacyInv'
<1>1. ASSUME LegacyInv, LegacyNext PROVE LegacyInv'
  <2> PICK p \in Text : \/ Touch(p) \/ Rm(p)
                        \/ \E c \in (Content \cup TooLong) \ {""} : Write(p, c)
                        \/ \E q \in Text : Cp(p, q) \/ Mv(p, q)
    BY <1>1 DEF LegacyNext
  <2>1. CASE Touch(p)
    BY <1>1, <2>1, TouchDoes
  <2>2. CASE Rm(p)
    BY <1>1, <2>2, RmStep
  <2>3. ASSUME NEW c \in Content \cup TooLong, Write(p, c) PROVE LegacyInv'
    BY <1>1, <2>3, WriteDoes
  <2>4. ASSUME NEW q \in Text, Cp(p, q) PROVE LegacyInv'
    BY <1>1, <2>4, CpStep
  <2>5. ASSUME NEW q \in Text, Mv(p, q) PROVE LegacyInv'
    BY <1>1, <2>5, MvStep
  <2> QED BY <2>1, <2>2, <2>3, <2>4, <2>5
<1>2. ASSUME LegacyInv, UNCHANGED legacyVars PROVE LegacyInv'
  BY <1>2 DEF LegacyInv, legacyVars
<1> QED BY <1>1, <1>2

LEMMA LegacyInvHolds == LegacySpec => []LegacyInv
BY LegacyInitInv, LegacyNextInv, PTL DEF LegacySpec

(* The pool and the directory never overflow, and no pointer leaves the    *)
(* nodes handed out, for every size of both.                               *)
THEOREM LegacyTypeCorrect == LegacySpec => []LegacyTypeOK
<1>1. LegacyInv => LegacyTypeOK
  <2> SUFFICES ASSUME LegacyInv PROVE LegacyTypeOK
    OBVIOUS
  <2>1. /\ fs_nodes \in Seq(Node) /\ Len(fs_nodes) \in 1 .. MaxFiles /\ MaxFiles \in Nat
        /\ children \in Seq(2 .. Len(fs_nodes)) /\ Len(children) <= MaxChildren
    BY LegacyAssumption DEF LegacyInv, Sound
  <2>2. 2 .. Len(fs_nodes) \subseteq Nodes
    BY <2>1 DEF Nodes
  <2>3. children \in Seq(Nodes)
    BY <2>1, <2>2, SeqMonotonic
  <2> QED BY <2>1, <2>3 DEF LegacyTypeOK
<1> QED BY <1>1, LegacyInvHolds, PTL

(* Whatever paths the commands are given, no node is in the root twice and *)
(* no two nodes have one name that leads to them.                          *)
THEOREM LegacyTreeSound == LegacySpec => []TreeSound
<1>1. LegacyInv => TreeSound
  <2> SUFFICES ASSUME LegacyInv PROVE TreeSound
    OBVIOUS
  <2>1. DOMAIN children = 1 .. Len(children)
    BY DEF LegacyInv, Sound
  <2>2. \A i \in 1 .. Len(children) : children[i] # Root
    BY KidsAre DEF LegacyInv
  <2> QED BY <2>1, <2>2 DEF LegacyInv, Sound, Distinct, Names, TreeSound
<1> QED BY <1>1, LegacyInvHolds, PTL

-----------------------------------------------------------------------------
(* The abstract specification's operators, under the refinement mapping.   *)
LEMMA StoreHas ==
  /\ \A t : Store!MayHold(t) = MayHold(t)
  /\ \A f, t, c : Store!With(f, t, c) = With(f, t, c)
BY ViewIs DEF Store!MayHold, Store!With, MayHold, With, Held, Store!Held

LEMMA AskedSteps ==
  ASSUME LegacyInv
  PROVE  AsAsked
<1> SUFFICES ASSUME NEW p \in Text
             PROVE  /\ Touch(p) => Store!Create(p)
                    /\ Rm(p) => Store!Remove(Entry(p))
                    /\ \A c \in Content \ {""} : Write(p, c) => Store!Put(p, c)
                    /\ \A q \in Text : Cp(p, q) => Store!Copy(Entry(p), q)
                    /\ \A q \in Text : Mv(p, q) => Store!Rename(Entry(p), q)
  BY DEF AsAsked
<1>1. Touch(p) => Store!Create(p)
  BY TouchDoes, StoreHas, ViewIs DEF Store!Create
<1>2. Rm(p) => Store!Remove(Entry(p))
  BY RmStep, StoreHas, ViewIs DEF Store!Remove
<1>3. \A c \in Content \ {""} : Write(p, c) => Store!Put(p, c)
  BY WriteDoes, StoreHas, ViewIs DEF Store!Put
<1>4. \A q \in Text : Cp(p, q) => Store!Copy(Entry(p), q)
  BY CpStep, StoreHas, ViewIs DEF Store!Copy
<1>5. \A q \in Text : Mv(p, q) => Store!Rename(Entry(p), q)
  <2> SUFFICES ASSUME NEW q \in Text, Mv(p, q) PROVE Store!Rename(Entry(p), q)
    OBVIOUS
  <2> DEFINE e == Entry(p)
  <2>1. /\ NoFile \in MayHold(q)
        /\ \/ /\ e \in Text
              /\ \E c \in MayHold(e) \ {NoFile} : View' = With(With(View, e, NoFile), q, c)
           \/ e = NoFile /\ View' = View
    BY MvStep
  <2> HIDE DEF e
  <2>2. MayHold(e) # {NoFile} /\ \E c \in MayHold(e) : View' = With(With(View, e, NoFile), q, c)
    <3>1. CASE \E c \in MayHold(e) \ {NoFile} : View' = With(With(View, e, NoFile), q, c)
      BY <3>1
    <3>2. CASE e = NoFile /\ View' = View
      <4>1. NoFile \notin Text /\ NoFile # Directory /\ Name \subseteq Text
        BY LegacyAssumption DEF Name
      <4>2. NoFile \in MayHold(e) /\ MayHold(e) # {NoFile}
        BY <3>2, <4>1 DEF MayHold, Held
      <4>3. q \in Name => View[q] = NoFile
        BY <2>1 DEF MayHold
      <4>4. \A n \in Name : n # e
        BY <3>2, <4>1
      <4>5. With(With(View, e, NoFile), q, NoFile) = View
        <5>1. \A n \in Name : With(With(View, e, NoFile), q, NoFile)[n] = View[n]
          BY <4>3, <4>4 DEF With
        <5>2. /\ With(With(View, e, NoFile), q, NoFile)
                   = [n \in Name |-> With(With(View, e, NoFile), q, NoFile)[n]]
              /\ View = [n \in Name |-> View[n]]
          BY DEF With, View
        <5> QED BY <5>1, <5>2
      <4> QED BY <3>2, <4>2, <4>5
    <3> QED BY <2>1, <3>1, <3>2
  <2> QED BY <2>1, <2>2, StoreHas, ViewIs DEF Store!Rename, e
<1> QED BY <1>1, <1>2, <1>3, <1>4, <1>5

(* Every step is one of the abstract store, or mv of a path to the root.   *)
LEMMA StoreSteps ==
  ASSUME LegacyInv, [LegacyNext]_legacyVars
  PROVE  Store!StoreNext \/ [n \in Name |-> Holds(n)]' = [n \in Name |-> Holds(n)]
<1>1. CASE UNCHANGED legacyVars
  <2>1. View' = View
    BY <1>1 DEF View, legacyVars
  <2> QED BY <2>1, ViewIs
<1>2. ASSUME NEW p \in Text, Touch(p) PROVE Store!StoreNext
  <2>1. Store!Create(p)
    BY <1>2, AskedSteps DEF AsAsked
  <2> QED BY <2>1 DEF Store!StoreNext
<1>3. ASSUME NEW p \in Text, Rm(p) PROVE Store!StoreNext
  <2>1. Store!Remove(Entry(p)) /\ Entry(p) \in Text
    BY <1>3, AskedSteps, RmStep DEF AsAsked
  <2> QED BY <2>1 DEF Store!StoreNext
<1>4. ASSUME NEW p \in Text, NEW c \in (Content \cup TooLong) \ {""}, Write(p, c)
      PROVE  Store!StoreNext
  <2>1. CASE c \in Content
    <3>1. Store!Put(p, c)
      BY <1>4, <2>1, AskedSteps DEF AsAsked
    <3> QED BY <2>1, <3>1 DEF Store!StoreNext
  <2>2. CASE c \in TooLong
    <3>1. NoFile \in MayHold(p) /\ View' = With(View, p, "")
      BY <1>4, <2>2, WriteDoes
    <3>2. Store!Create(p)
      BY <3>1, StoreHas, ViewIs DEF Store!Create
    <3> QED BY <3>2 DEF Store!StoreNext
  <2> QED BY <2>1, <2>2
<1>5. ASSUME NEW p \in Text, NEW q \in Text, Cp(p, q) PROVE Store!StoreNext
  <2>1. Store!Copy(Entry(p), q) /\ Entry(p) \in Text
    BY <1>5, AskedSteps, CpStep DEF AsAsked
  <2> QED BY <2>1 DEF Store!StoreNext
<1>6. ASSUME NEW p \in Text, NEW q \in Text, Mv(p, q)
      PROVE  Store!StoreNext \/ [n \in Name |-> Holds(n)]' = [n \in Name |-> Holds(n)]
  <2>1. CASE Entry(p) \in Text
    <3>1. Store!Rename(Entry(p), q)
      BY <1>6, AskedSteps DEF AsAsked
    <3> QED BY <2>1, <3>1 DEF Store!StoreNext
  <2>2. CASE View' = View
    BY <2>2, ViewIs
  <2> QED BY <1>6, <2>1, <2>2, MvStep
<1> QED BY <1>1, <1>2, <1>3, <1>4, <1>5, <1>6 DEF LegacyNext

(* Seen through the names, the tree is a map, and each command does to it  *)
(* what it is asked and nothing else, for every way in which paths lead to *)
(* nodes and every size of directory and pool.                             *)
THEOREM LegacyImplementsStore == LegacySpec => ImplementsStore
<1>1. LegacyInit => Store!StoreInit
  <2> SUFFICES ASSUME LegacyInit PROVE [n \in Name |-> Holds(n)] \in [Name -> Store!Held]
    BY DEF Store!StoreInit
  <2>1. LegacyInv
    BY LegacyInitInv
  <2>2. View \in [Name -> Held]
    BY <2>1, HeldTyped DEF View, LegacyInv
  <2> QED BY <2>2, ViewIs DEF Held, Store!Held
<1>2. LegacyInv /\ [LegacyNext]_legacyVars
        => [Store!StoreNext]_([n \in Name |-> Holds(n)])
  BY StoreSteps
<1>3. LegacyInv /\ [LegacyNext]_legacyVars => [AsAsked]_legacyVars
  BY AskedSteps
<1> QED BY <1>1, <1>2, <1>3, LegacyInvHolds, PTL DEF LegacySpec, ImplementsStore, Store!StoreSpec
=============================================================================
