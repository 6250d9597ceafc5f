------------------------------ MODULE LegacyFs ------------------------------
(***************************************************************************)
(* The in-memory tree at the end of src/kernel/filesystem.c and the file   *)
(* commands that use it while no volume is mounted: touch, write, cp, mv   *)
(* and rm, each from its command line to its end.                          *)
(***************************************************************************)
EXTENDS Integers, Sequences, SequencesExt

CONSTANTS
  Text,         \* the names and paths that users type, without spaces
  Components,   \* what fs_find_node_by_path makes of each: its components
  Content,      \* what files can hold, "" among it
  TooLong,      \* and what exceeds FS_MAX_CONTENT_SIZE
  NoFile, Directory, \* no contents
  Initial,      \* the names and contents that fs_get_root creates
  MaxChildren,  \* FS_MAX_CHILDREN, 32
  MaxFiles      \* FS_MAX_FILES, 256

(* A path leads from the root, which is also the working directory: no     *)
(* command sets another.  fs_get_root gives every node a name of its own.  *)
ASSUME LegacyAssumption ==
  /\ NoFile \notin Text
  /\ Components \in [Text -> Seq(Text \cup {".", ".."})]
  /\ "" \in Content /\ TooLong \cap Content = {}
  /\ {NoFile, Directory} \cap (Content \cup TooLong) = {} /\ NoFile # Directory
  /\ Initial \in Seq([name : Text, content : Content \cup {Directory}])
  /\ \A i, j \in DOMAIN Initial : i # j => Initial[i].name # Initial[j].name
  /\ MaxChildren \in Nat /\ MaxFiles \in Nat
  /\ Len(Initial) <= MaxChildren /\ Len(Initial) < MaxFiles

VARIABLES
  fs_nodes, \* the nodes handed out so far
  children  \* the nodes in the root; the other directories stay empty

legacyVars == <<fs_nodes, children>>

(* A node holds Directory if it is one.  Node 1 is the root.               *)
Node == [name : Text \cup {"root"}, content : Content \cup {Directory}]

LegacyInit ==
  /\ fs_nodes = <<[name |-> "root", content |-> Directory]>> \o Initial
  /\ children = [i \in 1 .. Len(Initial) |-> i + 1]

-----------------------------------------------------------------------------
Nodes == 1 .. Len(fs_nodes)
Root == 1
None == 0 \* NULL
IsFile(n) == n # None /\ fs_nodes[n].content # Directory

fs_find_node(dir, name) ==
  LET k == IF dir = Root THEN SelectInSeq(children, LAMBDA n : fs_nodes[n].name = name) ELSE 0
  IN  IF k = 0 THEN None ELSE children[k]

fs_find_node_by_path(path) ==
  LET names == Components[path]
      current[k \in 0 .. Len(names)] ==
        IF k = 0 THEN Root
        ELSE CASE current[k - 1] = None \/ names[k] = "." -> current[k - 1]
               [] names[k] = ".." -> Root
               [] OTHER ->
                    LET n == fs_find_node(current[k - 1], names[k])
                    IN  IF IsFile(n) /\ k < Len(names) THEN None ELSE n
  IN  current[Len(names)]

(* Mutant: only the directory's room is looked at, not the pool's.         *)
CreateBeyondPool(name, content) ==
  /\ Len(children) < MaxChildren /\ fs_find_node(Root, name) = None
  /\ fs_nodes' = Append(fs_nodes, [name |-> name, content |-> content])
  /\ children' = Append(children, Len(fs_nodes) + 1)

fs_create_file(name, content) ==
  /\ Len(children) < MaxChildren /\ Len(fs_nodes) < MaxFiles
  /\ fs_find_node(Root, name) = None
  /\ fs_nodes' = Append(fs_nodes, [name |-> name, content |-> content])
  /\ children' = Append(children, Len(fs_nodes) + 1)

fs_write_file(n, content) ==
  /\ IsFile(n) /\ content \notin TooLong
  /\ fs_nodes' = [fs_nodes EXCEPT ![n].content = content]
  /\ UNCHANGED children

-----------------------------------------------------------------------------
(* What the user types; a command that is refused changes nothing.         *)
Touch(t) == fs_create_file(t, "")

(* write creates its file before it looks at what it was given to write.   *)
Write(t, c) ==
  \/ fs_write_file(fs_find_node(Root, t), c)
  \/ fs_create_file(t, IF c \in TooLong THEN "" ELSE c)

Cp(p, q) ==
  LET src == fs_find_node_by_path(p) IN
  /\ IsFile(src) /\ fs_find_node_by_path(q) = None
  /\ fs_create_file(q, fs_nodes[src].content)

(* Mutant: the destination is not looked for.                              *)
MvOnto(p, q) ==
  LET src == fs_find_node_by_path(p) IN
  /\ src # None
  /\ fs_nodes' = [fs_nodes EXCEPT ![src].name = q]
  /\ UNCHANGED children

Mv(p, q) ==
  LET src == fs_find_node_by_path(p) IN
  /\ src # None /\ fs_find_node_by_path(q) = None
  /\ fs_nodes' = [fs_nodes EXCEPT ![src].name = q]
  /\ UNCHANGED children

(* Mutant: the children behind the deleted one are not shifted.            *)
WithoutLast(n) == Front(children)

Without(n) == RemoveFirst(children, n)

(* The node leaves its directory and is lost to the pool.                  *)
Rm(p) ==
  LET file == fs_find_node_by_path(p) IN
  /\ IsFile(file)
  /\ children' = Without(file)
  /\ UNCHANGED fs_nodes

LegacyNext ==
  \E p \in Text :
    \/ Touch(p) \/ Rm(p)
    \/ \E c \in (Content \cup TooLong) \ {""} : Write(p, c)
    \/ \E q \in Text : Cp(p, q) \/ Mv(p, q)

LegacySpec == LegacyInit /\ [][LegacyNext]_legacyVars

-----------------------------------------------------------------------------
(* Every part of the state is of its type.                                 *)
LegacyTypeOK ==
  /\ fs_nodes \in Seq(Node) /\ Len(fs_nodes) <= MaxFiles
  /\ children \in Seq(Nodes) /\ Len(children) <= MaxChildren

(* The texts that lead to the node they name: touch also creates "a/b" and *)
(* "~a", which lead elsewhere or nowhere.                                  *)
Name == {t \in Text : Components[t] = <<t>>}

(* No node is in the root twice, and no two nodes have one name that leads *)
(* to them, though mv only looks its destination up by path.               *)
TreeSound ==
  \A i, j \in DOMAIN children : i # j =>
    /\ children[i] # children[j] /\ children[i] # Root
    /\ fs_nodes[children[i]].name = fs_nodes[children[j]].name => fs_nodes[children[i]].name \notin Name

(* Seen through the names the root is a map, and each command does to it   *)
(* what it is asked: to the entries its paths lead to and to no other, and *)
(* on a full directory or an exhausted pool nothing.                       *)
Holds(n) == LET i == fs_find_node(Root, n) IN IF i = None THEN NoFile ELSE fs_nodes[i].content

Store == INSTANCE FileStore WITH Empty <- "", store <- [n \in Name |-> Holds(n)]

Entry(p) ==
  LET n == fs_find_node_by_path(p) IN IF n \in {None, Root} THEN NoFile ELSE fs_nodes[n].name

AsAsked ==
  \A p \in Text :
    /\ Touch(p) => Store!Create(p)
    /\ Rm(p) => Store!Remove(Entry(p))
    /\ \A c \in Content \ {""} : Write(p, c) => Store!Put(p, c)
    /\ \A q \in Text : Cp(p, q) => Store!Copy(Entry(p), q)
    /\ \A q \in Text : Mv(p, q) => Store!Rename(Entry(p), q)

ImplementsStore == Store!StoreSpec /\ [][AsAsked]_legacyVars
=============================================================================
