--------------------------- MODULE MCVdcProperties ---------------------------
(* VdcProperties on small instances: what the vdSM sends. *)
EXTENDS TreesInMemory

CONSTANTS k1, k2

(* Two elements, the first with another below it: a copy that fails in the *)
(* nested array leaves the second unassigned.                              *)
MCMessages ==
  {<<Cell("shell", NULL, 2, <<2>>),
     Cell("array", NULL, 2, <<3, 4>>),
     Cell("element", NULL, 1, <<5, NULL, 6>>),
     Element,
     Data(k1),
     Cell("array", NULL, 1, <<7>>),
     Cell("element", NULL, 0, <<NULL, 8, NULL>>),
     Cell("value", "bytes", 0, <<NULL, 9>>),
     Data(NULL)>>}

(* Behaviour does not depend on which addresses malloc() chose: between    *)
(* calls, states are told apart by their trees, the number of blocks and   *)
(* the shapes of these.                                                    *)
View ==
  IF calls # <<>> THEN vars
  ELSE <<[v \in Variables |-> TreeOf(heap, Held(v))],
         Cardinality(Allocated),
         {<<heap[b].kind, heap[b].n>> : b \in Allocated},
         Cardinality(lost), fault>>
=============================================================================
