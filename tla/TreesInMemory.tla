--------------------------- MODULE TreesInMemory ---------------------------
(***************************************************************************)
(* The blocks of VdcProperties read as trees: an application that only     *)
(* calls the property functions sees what PropertyTrees says.              *)
(***************************************************************************)
EXTENDS VdcProperties

CONSTANT Unusable  \* see PropertyTrees

(* What a tree in the memory h says.  What cannot be read because the      *)
(* memory is gone is as if it had never been assigned.                     *)
Readable(h, b) == b \in DOMAIN h /\ h[b].kind # "free"

SaysIn(h, b) == IF Readable(h, b) THEN h[b].says ELSE NULL

KindOf(h, v) == IF v # NULL /\ SaysIn(h, v) = NULL THEN "string" ELSE SaysIn(h, v)

RECURSIVE TreeBehind(_, _, _)

ElementAt(h, el) ==
  IF Readable(h, el)
  THEN [name |-> SaysIn(h, h[el].own[1]),
        value |-> KindOf(h, h[el].own[2]),
        below |-> TreeBehind(h, h[el].own[3], h[el].n)]
  ELSE IF el = NULL THEN NULL ELSE WILD

TreeBehind(h, array, n) ==
  CASE n = 0 -> <<>>
    [] n > 0 /\ Readable(h, array) -> [i \in 1..n |-> ElementAt(h, h[array].own[i])]
    [] OTHER -> Unusable

TreeOf(h, p) ==
  CASE p = NULL -> NULL
    [] Readable(h, p) -> TreeBehind(h, h[p].own[1], h[p].n)
    [] OTHER -> Unusable

(* Trees behave as values: a change of one handle is never seen through    *)
(* another, a failing call changes nothing, and a copy, a query and a tree *)
(* from the database are the tree that was copied, received and stored.    *)
(* A call under way is seen as not begun, but for what it took over.       *)
Trees == INSTANCE PropertyTrees WITH
  Holes <- {NULL, WILD},
  Messages <- {TreeOf(t, 1) : t \in Messages},
  tree <- [h \in Handles |-> TreeOf(settled, settled[h].own[1])]

TreesAreValues == Trees!Spec
=============================================================================
