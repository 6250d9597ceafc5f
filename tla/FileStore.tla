----------------------------- MODULE FileStore -----------------------------
(***************************************************************************)
(* What the file commands promise of a directory: a map from names to      *)
(* contents, in which a command changes the entries it names and a command *)
(* that is refused changes nothing.                                        *)
(***************************************************************************)
CONSTANTS
  Text,      \* what users type
  Name,      \* those among them that name an entry
  Content, Empty,   \* what files hold; Empty is in Content
  NoFile, Directory \* not in Content

VARIABLE store

Held == Content \cup {NoFile, Directory}

StoreInit == store \in [Name -> Held]

(* What is stored under other texts is not seen.                           *)
MayHold(t) == IF t \in Name THEN {store[t]} ELSE Held

With(f, t, c) == [n \in Name |-> IF n = t THEN c ELSE f[n]]

(* touch; write; rm; cp; mv.                                               *)
Create(t) == NoFile \in MayHold(t) /\ store' = With(store, t, Empty)

Put(t, c) == MayHold(t) # {Directory} /\ store' = With(store, t, c)

Remove(t) == MayHold(t) \cap Content # {} /\ store' = With(store, t, NoFile)

Copy(t, u) ==
  /\ NoFile \in MayHold(u)
  /\ \E c \in MayHold(t) \cap Content : store' = With(store, u, c)

Rename(t, u) ==
  /\ NoFile \in MayHold(u) /\ MayHold(t) # {NoFile}
  /\ \E c \in MayHold(t) : store' = With(With(store, t, NoFile), u, c)

StoreNext ==
  \E t \in Text :
    \/ Create(t) \/ Remove(t)
    \/ \E c \in Content : Put(t, c)
    \/ \E u \in Text : Copy(t, u) \/ Rename(t, u)

StoreSpec == StoreInit /\ [][StoreNext]_store
=============================================================================
