---------------------------- MODULE PropertyTrees ----------------------------
(***************************************************************************)
(* What the property functions of libdsvdc promise an application: every   *)
(* handle is a tree of its own.  Whatever is done to one handle leaves all *)
(* others as they were; a call that fails leaves its tree as it was.       *)
(*                                                                         *)
(* A tree is the sequence of its elements; an element has a name, a value  *)
(* and the tree below it.  VdcProperties, where the trees are blocks of    *)
(* memory, is shown to implement this module.                              *)
(***************************************************************************)
EXTENDS Naturals, Sequences

CONSTANTS
  Slots,     \* variables of the application that hold a property handle
  Query,     \* the read-only handle an application sees in a callback
  Keys,      \* names of elements
  Kinds,     \* kinds of values
  Messages,  \* the trees the vdSM sends and the database contains
  NULL,      \* no tree, no name, no value
  Unusable,  \* a tree that counts elements it does not have
  Holes      \* what can be found instead of an element

VARIABLE
  tree       \* the tree behind each handle

Handles == Slots \cup {Query}

Leaf(key, kind) == [name |-> key, value |-> kind, below |-> <<>>]
Branch(key, t) == [name |-> key, value |-> NULL, below |-> t]

(* An element added to an unusable tree comes after the one it counted. *)
Extended(t, element) ==
  IF t = Unusable THEN {<<hole, element>> : hole \in Holes}
  ELSE {Append(t, element)}

Readable(h) == tree[h] \notin {NULL, Unusable}

Indices(h) == IF Readable(h) THEN DOMAIN tree[h] ELSE {}

(* i is the first element of that name. *)
IsFirst(t, key, i) ==
  /\ t[i] \notin Holes
  /\ t[i].name = key
  /\ \A j \in 1..(i - 1) : t[j] \notin Holes => t[j].name # key

Init == tree = [h \in Handles |-> NULL]

Gets(s, t) == tree' = [tree EXCEPT ![s] = t]

Create(s) ==
  /\ tree[s] = NULL
  /\ Gets(s, <<>>)

Release(s) ==
  /\ tree[s] # NULL
  /\ Gets(s, NULL)

AddLeaf(s, key, kind) ==
  /\ tree[s] # NULL
  /\ \E longer \in Extended(tree[s], Leaf(key, kind)) : Gets(s, longer)

(* Attaching a tree takes it from the application. *)
Attach(s, key, t) ==
  /\ s # t
  /\ NULL \notin {tree[s], tree[t]}
  /\ \E longer \in Extended(tree[s], Branch(key, tree[t])) :
       tree' = [tree EXCEPT ![s] = longer, ![t] = NULL]

(* Without memory to attach it, the tree is taken and lost. *)
AttachLost(s, t) ==
  /\ s # t
  /\ NULL \notin {tree[s], tree[t]}
  /\ Gets(t, NULL)

CopyByIndex(h, i, t) ==
  /\ i \in Indices(h)
  /\ tree[h][i] \notin Holes
  /\ tree[t] = NULL
  /\ Gets(t, tree[h][i].below)

(* By name, an element with nothing below it is copied itself. *)
CopyByName(h, key, t) ==
  /\ tree[t] = NULL
  /\ \E i \in Indices(h) :
       /\ IsFirst(tree[h], key, i)
       /\ \/ /\ tree[h][i].below # <<>>
             /\ Gets(t, tree[h][i].below)
          \/ /\ tree[h][i].below = <<>>
             /\ Gets(t, <<tree[h][i]>>)
          \/ /\ tree[h][i].below = <<>>
             /\ Gets(t, Unusable)

(* A request hands the application an empty tree for the answer and a copy *)
(* of the query, which is taken back when the callback returns.            *)
Receive(s, message) ==
  /\ tree[Query] = NULL
  /\ tree[s] = NULL
  /\ \E copy \in {message, Unusable} :
       tree' = [tree EXCEPT ![s] = <<>>, ![Query] = copy]

Return == Release(Query)

Load(s, stored) ==
  /\ tree[s] = NULL
  /\ Gets(s, stored)

Next ==
  \/ \E s \in Slots :
       \/ Create(s)
       \/ Release(s)
       \/ \E key \in Keys, kind \in Kinds : AddLeaf(s, key, kind)
       \/ \E t \in Slots :
            \/ \E key \in Keys \cup {NULL} : Attach(s, key, t)
            \/ AttachLost(s, t)
       \/ \E t \in Messages : Receive(s, t) \/ Load(s, t)
  \/ \E h \in Handles, t \in Slots :
       \/ \E i \in Indices(h) : CopyByIndex(h, i, t)
       \/ \E key \in Keys : CopyByName(h, key, t)
  \/ Return

Spec == Init /\ [][Next]_tree
=============================================================================
