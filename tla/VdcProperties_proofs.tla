------------------------ MODULE VdcProperties_proofs ------------------------
(***************************************************************************)
(* VdcProperties: whatever the application and the vdSM do and whichever   *)
(* allocation fails, memory is typed, no block has two owners, none is     *)
(* left without one, and none is used after it was released.               *)
(*                                                                         *)
(* The pointers that a release has followed count no more: `Remaining' is  *)
(* memory without them.  In what remains every block has one owner, a      *)
(* pointer, a task that is going to release it, or nobody any more (lost). *)
(***************************************************************************)
EXTENDS OwnedMemory, FiniteSetTheorems

(* For a stack c of tasks: the pointers that were followed, the blocks that*)
(* are to be released.                                                     *)
Spent(c) ==
  {p \in Addresses \X Nat :
     \E j \in DOMAIN c : c[j].do = "release" /\ c[j].at = p[1] /\ p[2] < c[j].i}

Freeing(c) ==
  {q \in Blocks : \E j \in DOMAIN c : c[j].do = "release" /\ c[j].at = q}

Remaining(h, c) == Detached(h, Spent(c))

MemoryOK(h, c, l) ==
  /\ DOMAIN h = Addresses
  /\ Shaped(h)
  /\ Sound(Remaining(h, c), Freeing(c) \cup l)
  /\ Freeing(c) \cap l = {}
  /\ \A j, k \in DOMAIN c :
       c[j].do = "release" /\ c[k].do = "release" /\ c[j].at = c[k].at /\ c[j].at \in Blocks
       => j = k

-----------------------------------------------------------------------------
(* The tasks *)

CopyDo == {"deepCopy", "copyElement", "copyLeaf", "copyBelow", "copiedBelow", "giveUp"}
TreeDo == {"copyTree", "copyTreeUnchecked", "checkTree"}
BuildDo == {"build", "adopt", "add"}
FirstDo == BuildDo \cup {"request", "answer", "loaded"}

Tasks ==
  [do : {"release", "pack"} \cup CopyDo \cup TreeDo \cup FirstDo,
   at : Pointers \cup Variables,
   from : Pointers \cup Variables,
   skip : Nat, n : Nat, i : Nat \ {0},
   want : [name : Keys \cup {NULL}, value : BOOLEAN, says : Kinds \cup {NULL}, data : 0..2]]

(* What each relies on, in the memory h, which was s when the call began.  *)
Hooked(h, t) == h[t.at].own[Hook(h[t.at])]
Child(h, t) == h[Hooked(h, t)].own[t.i]
SourceIn(s, t) == s[t.from].own[t.skip + t.i]

OldArray(s, t, n) ==
  t.from # NULL =>
    t.from \in Blocks /\ s[t.from].kind = "array" /\ t.skip + n <= s[t.from].n

(* An element without any below, whose value has only what is wanted.      *)
Leaf(h, el, want) ==
  /\ el \in Blocks /\ h[el].kind = "element" /\ h[el].n = 0 /\ h[el].own[3] = NULL
  /\ want.data \in 0..2
  /\ want.data # 0 => want.value
  /\ h[el].own[2] \in Blocks =>
       \A k \in 1..2 : k # want.data => h[h[el].own[2]].own[k] = NULL

SameAs(h, el) ==
  [name |-> IF h[el].own[1] = NULL THEN NULL ELSE h[h[el].own[1]].says,
   value |-> h[el].own[2] # NULL,
   says |-> IF h[el].own[2] = NULL THEN NULL ELSE h[h[el].own[2]].says,
   data |-> IF h[el].own[2] = NULL THEN 0
            ELSE IF h[h[el].own[2]].own[1] # NULL THEN 1
            ELSE IF h[h[el].own[2]].own[2] # NULL THEN 2 ELSE 0]

ReleaseOK(t) == t.at \in Pointers

PackOK(h, t) == t.at \in Blocks /\ h[t.at].kind \in {"shell", "element"}

BuildOK(h, t) ==
  /\ t.at \in Slots /\ h[t.at].own[1] \in Blocks
  /\ t.from # NULL => t.from \in Slots /\ t.from # t.at
  /\ t.do # "add" /\ t.from # NULL => h[t.from].own[1] \in Blocks
  /\ t.do = "adopt" => t.from # NULL
  /\ h[New].own[1] \in Blocks
  /\ t.do # "add" \/ t.from = NULL => Leaf(h, h[New].own[1], t.want)

TreeOK(h, s, t) ==
  /\ t.at \in Handles
  /\ t.at = Query => h[Message].own[1] \in Blocks
  /\ t.do = "checkTree" => h[t.at].own[1] \in Blocks /\ s[h[t.at].own[1]].kind = "free"
  /\ t.do # "checkTree" => h[t.at].own[1] = NULL /\ OldArray(s, t, t.n)

CopyOK(h, s, c, t) ==
  LET n == h[t.at].n
  IN /\ t.at \in Blocks /\ t.at \notin Freeing(c)
     /\ h[t.at].kind \in {"shell", "element"}
     /\ s[t.at].kind = "free"
     /\ OldArray(s, t, n)
     /\ t.do = "deepCopy" => n > 0 /\ Hooked(h, t) = NULL /\ t.i = 1
     /\ t.do # "deepCopy" => t.from # NULL /\ Hooked(h, t) \in Blocks
     /\ t.do \notin {"deepCopy", "giveUp"} =>
          \A k \in 1..n : k > t.i \/ (k = t.i /\ t.do = "copyElement") =>
            h[Hooked(h, t)].own[k] \in {NULL, WILD}
     /\ t.do \in {"copyLeaf", "copyBelow", "copiedBelow"} =>
          t.i <= n /\ Child(h, t) \in Blocks
     /\ t.do = "copyLeaf" /\ SourceIn(s, t) \in Blocks =>
          Leaf(h, Child(h, t), SameAs(s, SourceIn(s, t)))
     /\ t.do = "copyBelow" =>
          SourceIn(s, t) \in Blocks /\ h[Child(h, t)].n = 0 /\ h[Child(h, t)].own[3] = NULL

RequestOK(h, s, t) ==
  /\ t.at \in Slots /\ h[Message].own[1] \in Blocks
  /\ t.do = "request" => h = s /\ h[t.at].own[1] = NULL /\ h[Query].own[1] = NULL
  /\ t.do = "answer" => h[t.at].own[1] \in Blocks

TaskOK(h, s, c, t) ==
  /\ t.do = "release" => ReleaseOK(t)
  /\ t.do = "pack" => PackOK(h, t)
  /\ t.do \in BuildDo => BuildOK(h, t)
  /\ t.do \in TreeDo => TreeOK(h, s, t)
  /\ t.do \in CopyDo => CopyOK(h, s, c, t)
  /\ t.do \in {"request", "answer"} => RequestOK(h, s, t)
  /\ t.do = "loaded" => h[Stored].own[1] \in Blocks

(* Which tasks wait for which.                                             *)
Waiting == {"release", "pack", "checkTree", "copiedBelow", "answer", "loaded"}

StackOK(c) ==
  \A j, k \in DOMAIN c :
    /\ c[j].do = "release" /\ c[k].do = "pack" => c[j].i = 1
    /\ j < k =>
         /\ c[j].do \in Waiting
         /\ c[j].do = "release" => c[k].do \in {"release", "pack"}
         /\ c[j].do = "pack" => c[k].do = "pack"
         /\ c[k].do \notin FirstDo
         /\ c[k].do \in TreeDo =>
              c[j].do = IF c[k].do = "copyTreeUnchecked" THEN "answer" ELSE "loaded"

(* Each copying task fills what a variable or the task below leads to, and *)
(* no two fill the same.                                                   *)
Anchored(h, c, k) ==
  \/ \E v \in Handles : h[v].own[1] = c[k].at
  \/ k - 1 \in DOMAIN c /\ c[k - 1].do = "copiedBelow" /\ c[k].at = Child(h, c[k - 1])

ChainOK(h, c) ==
  /\ \A k \in DOMAIN c : c[k].do \in CopyDo => Anchored(h, c, k)
  /\ \A j, k \in DOMAIN c :
       c[j].do \in CopyDo /\ c[k].do \in CopyDo /\ c[j].at = c[k].at => j = k

(* While something is copied, what there was stays, and what is new leads  *)
(* only to what is new.                                                    *)
Borrowing == CopyDo \cup TreeDo \cup {"request", "answer", "loaded"}

Apart(h, s) ==
  /\ \A b \in Blocks : s[b].kind # "free" => h[b] = s[b]
  /\ \A b \in Blocks : s[b].kind = "free" =>
       \A i \in 1..Size(h[b]) : h[b].own[i] \in Blocks => s[h[b].own[i]].kind = "free"

BorrowOK(h, s, c) ==
  (\E j \in DOMAIN c : c[j].do \in Borrowing) =>
    Apart(h, s) /\ \A q \in Freeing(c) : s[q].kind = "free"

SettledOK(s) == DOMAIN s = Addresses /\ Shaped(s) /\ Pointed(s)

VariablesOK(h, c) ==
  /\ h[New].own[1] # NULL => \E j \in DOMAIN c : c[j].do \in BuildDo
  /\ h[Stored].own[1] # NULL => \E j \in DOMAIN c : c[j].do = "loaded"
  /\ h[Query].own[1] # NULL => h[Message].own[1] # NULL

TasksOK(h, s, c) == \A j \in DOMAIN c : TaskOK(h, s, c, c[j])

Good(h, s, c, l) ==
  /\ c \in Seq(Tasks)
  /\ MemoryOK(h, c, l)
  /\ TasksOK(h, s, c)
  /\ StackOK(c)
  /\ ChainOK(h, c)
  /\ BorrowOK(h, s, c)
  /\ SettledOK(s)
  /\ VariablesOK(h, c)

IndInv ==
  /\ Good(heap, settled, calls, lost)
  /\ fault \in {"none", "null", "unassigned", "unnamed"}
-----------------------------------------------------------------------------
(* Stacks *)

(* The indices of a stack of tasks, and what is on it.                     *)
LEMMA StackParts ==
  ASSUME NEW c \in Seq(Tasks), c # <<>>
  PROVE  /\ Len(c) \in Nat \ {0} /\ DOMAIN c = 1..Len(c) /\ Len(c) \in DOMAIN c
         /\ c[Len(c)] \in Tasks
         /\ \A j \in DOMAIN c : j \in Nat /\ c[j] \in Tasks /\ (j # Len(c) => j < Len(c))
  OBVIOUS

(* The task at work is replaced by another.                                *)
LEMMA Becoming ==
  ASSUME NEW c \in Seq(Tasks), c # <<>>, NEW t \in Tasks, NEW d, d = [c EXCEPT ![Len(c)] = t]
  PROVE  /\ d \in Seq(Tasks) /\ Len(d) = Len(c) /\ DOMAIN d = DOMAIN c
         /\ d[Len(c)] = t /\ \A j \in DOMAIN c : j # Len(c) => d[j] = c[j]
  OBVIOUS

(* The task at work is replaced, and another called on top of it.          *)
LEMMA Calling ==
  ASSUME NEW c \in Seq(Tasks), c # <<>>, NEW t \in Tasks, NEW u \in Tasks,
         NEW d, d = Append([c EXCEPT ![Len(c)] = t], u)
  PROVE  /\ d \in Seq(Tasks) /\ Len(d) = Len(c) + 1 /\ DOMAIN d = DOMAIN c \cup {Len(c) + 1}
         /\ d[Len(c)] = t /\ d[Len(c) + 1] = u
         /\ \A j \in DOMAIN c : j # Len(c) => d[j] = c[j]
<1> DEFINE e == [c EXCEPT ![Len(c)] = t]
<1>1. e \in Seq(Tasks) /\ Len(e) = Len(c) /\ e[Len(c)] = t
      /\ \A j \in DOMAIN c : j # Len(c) => e[j] = c[j]
  BY Becoming
<1> HIDE DEF e
<1>2. /\ Append(e, u) \in Seq(Tasks) /\ Len(Append(e, u)) = Len(e) + 1
      /\ \A j \in 1..Len(e) : Append(e, u)[j] = e[j]
      /\ Append(e, u)[Len(e) + 1] = u
  BY <1>1
<1>3. DOMAIN c = 1..Len(c) /\ DOMAIN Append(e, u) = 1..(Len(e) + 1) /\ Len(c) \in Nat \ {0}
  BY <1>1, <1>2, StackParts
<1>4. d = Append(e, u)
  BY DEF e
<1>5. QED
  BY <1>1, <1>2, <1>3, <1>4

(* The task at work is removed.                                            *)
LEMMA Returning ==
  ASSUME NEW c \in Seq(Tasks), c # <<>>, NEW d, d = SubSeq(c, 1, Len(c) - 1)
  PROVE  /\ d \in Seq(Tasks) /\ Len(d) = Len(c) - 1 /\ DOMAIN d = DOMAIN c \ {Len(c)}
         /\ \A j \in DOMAIN d : d[j] = c[j] /\ j < Len(c)
<1>1. Len(c) \in Nat \ {0} /\ DOMAIN c = 1..Len(c)
  BY StackParts
<1>2. /\ d \in Seq(Tasks) /\ Len(d) = Len(c) - 1
      /\ \A j \in 1..(Len(c) - 1) : d[j] = c[j]
  BY <1>1
<1>3. QED
  BY <1>1, <1>2
-----------------------------------------------------------------------------
(* Memory and the releases under way *)

(* A pointer is spent if a release that is under way has followed it.      *)
LEMMA SpentParts ==
  ASSUME NEW c, NEW b \in Addresses, NEW i \in Nat
  PROVE  <<b, i>> \in Spent(c) <=> \E j \in DOMAIN c : c[j].do = "release" /\ c[j].at = b /\ i < c[j].i
  BY DEF Spent

(* Sound memory is a matter of what is at each address.                    *)
LEMMA SameMemory ==
  ASSUME NEW h, NEW R, Sound(h, R), NEW g, DOMAIN g = Addresses, \A b \in Addresses : g[b] = h[b]
  PROVE  Sound(g, R)
<1>0. Shaped(h) /\ Pointed(h) /\ Unique(h) /\ Roots(h, R) /\ Owned(h, R) /\ DOMAIN h = Addresses
  BY DEF Sound
<1>1. \A b \in Addresses : Size(g[b]) = Size(h[b])
  OBVIOUS
<1>2. Shaped(g)
  BY <1>0 DEF Shaped
<1>3. Pointed(g)
  <2>1. ASSUME NEW b \in Addresses, NEW i \in 1..Size(g[b]) PROVE PointsWell(g, b, i)
    <3>1. PointsWell(h, b, i)
      BY <1>0, <1>1 DEF Pointed
    <3>2. QED
      BY <1>0, <3>1, Names DEF PointsWell, PointerOK
  <2>2. QED
    BY <2>1 DEF Pointed
<1>4. Unique(g)
  BY <1>0, <1>1 DEF Unique
<1>5. Roots(g, R)
  BY <1>0, <1>1, Names DEF Roots
<1>6. Owned(g, R)
  BY <1>0, <1>1, Names DEF Owned
<1>7. QED
  BY <1>2, <1>3, <1>4, <1>5, <1>6 DEF Sound

(* Where no pointer was followed, all of memory remains.                   *)
Beginning(c) == \A j \in DOMAIN c : c[j].do = "release" => c[j].i = 1

(* Where no release has followed a pointer, what remains of memory is all  *)
(* of it.                                                                  *)
LEMMA Whole ==
  ASSUME NEW h, Shaped(h), DOMAIN h = Addresses, NEW c, Beginning(c), NEW R
  PROVE  Sound(Remaining(h, c), R) <=> Sound(h, R)
<1> DEFINE g == Remaining(h, c)
<1>1. DOMAIN g = Addresses
  BY DEF Remaining, Detached
<1>2. ASSUME NEW b \in Addresses PROVE g[b] = h[b]
  <2>1. ShapeOK(h[b], Pointers)
    BY DEF Shaped
  <2>2. \A i \in 1..Size(h[b]) : <<b, i>> \notin Spent(c)
    BY SpentParts DEF Beginning
  <2>3. [i \in 1..Size(h[b]) |-> IF <<b, i>> \in Spent(c) THEN NULL ELSE h[b].own[i]] = h[b].own
    BY <2>1, <2>2 DEF ShapeOK
  <2>4. g[b] = Cell(h[b].kind, h[b].says, h[b].n, h[b].own)
    BY <2>3 DEF Remaining, Detached
  <2>5. QED
    BY <2>1, <2>4 DEF ShapeOK
<1> HIDE DEF g
<1>3. Sound(g, R) => Sound(h, R)
  BY <1>1, <1>2, SameMemory
<1>4. Sound(h, R) => Sound(g, R)
  BY <1>1, <1>2, SameMemory
<1>5. QED
  BY <1>3, <1>4 DEF g

(* Memory with releases that have not followed a pointer yet.              *)
LEMMA Beginnings ==
  ASSUME NEW h, NEW c, NEW l, Beginning(c),
         Sound(h, Freeing(c) \cup l), Freeing(c) \cap l = {},
         \A j, k \in DOMAIN c :
           c[j].do = "release" /\ c[k].do = "release" /\ c[j].at = c[k].at /\ c[j].at \in Blocks
           => j = k
  PROVE  MemoryOK(h, c, l)
<1>1. Shaped(h) /\ DOMAIN h = Addresses
  BY DEF Sound
<1>2. QED
  BY <1>1, Whole DEF MemoryOK

(* The converse: what is going to be released owns itself.                 *)
LEMMA Begun ==
  ASSUME NEW h, NEW c, NEW l, Beginning(c), MemoryOK(h, c, l)
  PROVE  Sound(h, Freeing(c) \cup l)
  BY Whole DEF MemoryOK

(* Without releases, or with the first step of one.                        *)
LEMMA NoReleases ==
  ASSUME NEW h, NEW c, NEW l, \A j \in DOMAIN c : c[j].do # "release"
  PROVE  Freeing(c) = {} /\ Beginning(c) /\ (MemoryOK(h, c, l) <=> Sound(h, l))
<1>1. Freeing(c) = {} /\ Beginning(c)
  BY DEF Freeing, Beginning
<1>2. MemoryOK(h, c, l) => Sound(h, l)
  BY <1>1, Begun
<1>3. Sound(h, l) => MemoryOK(h, c, l)
  BY <1>1, Beginnings
<1>4. QED
  BY <1>1, <1>2, <1>3

(* Memory with a single release, which has not followed a pointer yet.     *)
LEMMA OneRelease ==
  ASSUME NEW h, NEW c, NEW l, NEW m, NEW q,
         \A j \in DOMAIN c : c[j].do = "release" => j = m /\ c[j].at = q /\ c[j].i = 1,
         m \in DOMAIN c, c[m].do = "release",
         Sound(h, l \cup ({q} \cap Blocks)), q \notin l
  PROVE  MemoryOK(h, c, l) /\ Beginning(c) /\ Freeing(c) = {q} \cap Blocks
<1>1. Freeing(c) = {q} \cap Blocks /\ Beginning(c)
  BY DEF Freeing, Beginning
<1>2. Freeing(c) \cup l = l \cup ({q} \cap Blocks) /\ Freeing(c) \cap l = {}
  BY <1>1
<1>3. Sound(h, Freeing(c) \cup l)
  BY <1>2
<1>4. QED
  BY <1>1, <1>2, <1>3, Beginnings
-----------------------------------------------------------------------------
(* What the invariant says of the task that is at work.                    *)

(* While the task at work neither releases nor packs, none of those below  *)
(* it does, and memory is sound.                                           *)
LEMMA Quiet ==
  ASSUME NEW h, NEW s, NEW c, NEW l, Good(h, s, c, l), c # <<>>,
         c[Len(c)].do \notin {"release", "pack"}
  PROVE  /\ \A j \in DOMAIN c : c[j].do \notin {"release", "pack"}
         /\ Freeing(c) = {} /\ Sound(h, l)
<1>1. ASSUME NEW j \in DOMAIN c PROVE c[j].do \notin {"release", "pack"}
  <2>1. Len(c) \in DOMAIN c /\ (j # Len(c) => j < Len(c))
    BY StackParts DEF Good
  <2>2. QED
    BY <2>1 DEF Good, StackOK
<1>2. QED
  BY <1>1, NoReleases DEF Good

(* Nothing waits for anything else while it packs.                         *)
LEMMA NoPacks ==
  ASSUME NEW c \in Seq(Tasks), StackOK(c), c # <<>>, c[Len(c)].do # "pack"
  PROVE  \A j \in DOMAIN c : c[j].do # "pack"
<1>1. ASSUME NEW j \in DOMAIN c PROVE c[j].do # "pack"
  <2>1. Len(c) \in DOMAIN c /\ (j # Len(c) => j < Len(c))
    BY StackParts
  <2>2. QED
    BY <2>1 DEF StackOK
<1>2. QED
  BY <1>1

(* Between two calls memory is sound, and nothing is in the making.        *)
LEMMA Idling ==
  ASSUME NEW h, NEW s, NEW l, Good(h, s, <<>>, l)
  PROVE  /\ Sound(h, l) /\ h[New].own[1] = NULL /\ h[Stored].own[1] = NULL
         /\ (h[Query].own[1] # NULL => h[Message].own[1] # NULL)
  BY NoReleases DEF Good, VariablesOK

(* A step within a call, which may be the last.                            *)
LEMMA Within ==
  ASSUME NEW g, NEW s, NEW t, NEW d, NEW l, d = <<>> => t = g, d # <<>> => t = s,
         d \in Seq(Tasks), MemoryOK(g, d, l), TasksOK(g, s, d), StackOK(d), ChainOK(g, d),
         BorrowOK(g, s, d), SettledOK(s), VariablesOK(g, d)
  PROVE  Good(g, t, d, l)
<1>1. CASE d # <<>>
  BY <1>1 DEF Good
<1>2. CASE d = <<>>
  <2>1. Sound(g, l)
    BY <1>2, NoReleases
  <2>2. SettledOK(t)
    BY <1>2, <2>1 DEF SettledOK, Sound
  <2>3. TasksOK(g, t, d) /\ BorrowOK(g, t, d)
    BY <1>2 DEF TasksOK, BorrowOK
  <2>4. QED
    BY <2>2, <2>3 DEF Good
<1>3. QED
  BY <1>1, <1>2

(* The first step of a call.                                               *)
LEMMA Starting ==
  ASSUME NEW g, NEW t, NEW d, NEW l, t = g,
         d \in Seq(Tasks), MemoryOK(g, d, l), Beginning(d), TasksOK(g, g, d), StackOK(d),
         ChainOK(g, d), VariablesOK(g, d),
         (\E j \in DOMAIN d : d[j].do \in Borrowing) => \A q \in Freeing(d) : g[q].kind = "free"
  PROVE  Good(g, t, d, l)
<1>1. Sound(g, Freeing(d) \cup l)
  BY Begun
<1>2. SettledOK(g)
  BY <1>1 DEF SettledOK, Sound
<1>3. ASSUME NEW b \in Blocks, g[b].kind = "free" PROVE Size(g[b]) = 0
  BY <1>3 DEF Size
<1>4. Apart(g, g)
  BY <1>3 DEF Apart
<1>5. BorrowOK(g, g, d)
  BY <1>4 DEF BorrowOK
<1>6. QED
  BY <1>2, <1>5 DEF Good

(* Where a waiting task finds what it copies to.                           *)
LEMMA CopyParts ==
  ASSUME NEW h, NEW s, NEW c, NEW l, Good(h, s, c, l), NEW j \in DOMAIN c,
         c[j].do \in CopyDo, c[j].do # "deepCopy"
  PROVE  LET t == c[j]
             a == Hooked(h, t)
         IN /\ t.at \in Blocks /\ t.at \in Addresses /\ h[t.at].kind \in {"shell", "element"}
            /\ ShapeOK(h[t.at], Pointers) /\ Hook(h[t.at]) \in 1..Size(h[t.at])
            /\ a \in Blocks /\ a \in Addresses /\ h[a].kind = "array"
            /\ h[a].n = h[t.at].n /\ Size(h[a]) = h[t.at].n /\ h[t.at].n \in Nat
            /\ t.at \notin Freeing(c) /\ a \notin Freeing(c)
            /\ a \notin l
            /\ t.i \in Nat
            /\ t.do # "giveUp" =>
                 \A i \in 1..Size(h[a]) : i > t.i => h[a].own[i] \in {NULL, WILD}
            /\ t.do \in {"copyLeaf", "copyBelow", "copiedBelow"} =>
                 /\ t.i \in 1..Size(h[a])
                 /\ Child(h, t) \in Blocks /\ Child(h, t) \in Addresses
                 /\ h[Child(h, t)].kind = "element"
                 /\ Child(h, t) \notin Freeing(c)
                 /\ Child(h, t) = h[a].own[t.i]
<1> DEFINE t == c[j]
           a == Hooked(h, t)
           g == Remaining(h, c)
<1>1. CopyOK(h, s, c, t) /\ t \in Tasks /\ Shaped(h) /\ DOMAIN h = Addresses
  BY StackParts DEF Good, TasksOK, TaskOK, MemoryOK
<1>2. t.at \in Blocks /\ t.at \in Addresses /\ h[t.at].kind \in {"shell", "element"}
      /\ t.at \notin Freeing(c) /\ a \in Blocks /\ a \in Addresses
  BY <1>1, Names DEF CopyOK
<1>3. ShapeOK(h[t.at], Pointers) /\ ShapeOK(h[a], Pointers) /\ h[t.at].n \in Nat
  BY <1>1, <1>2 DEF Shaped, ShapeOK
<1>4. Hook(h[t.at]) \in 1..Size(h[t.at])
  BY <1>2 DEF Hook, Size
<1>5. \A b \in Addresses :
        /\ g[b].kind = h[b].kind /\ g[b].n = h[b].n /\ Size(g[b]) = Size(h[b])
        /\ \A i \in 1..Size(h[b]) : g[b].own[i] = IF <<b, i>> \in Spent(c) THEN NULL ELSE h[b].own[i]
  BY <1>1, DetachedParts DEF Remaining
<1>6. Sound(g, Freeing(c) \cup l)
  BY DEF Good, MemoryOK
<1> HIDE DEF g, t
<1>7. \A b \in Blocks : b \notin Freeing(c) =>
        \A i \in 1..Size(h[b]) : b \in Addresses /\ g[b].own[i] = h[b].own[i]
  <2>1. ASSUME NEW b \in Blocks, b \notin Freeing(c), NEW i \in 1..Size(h[b])
        PROVE  <<b, i>> \notin Spent(c)
    BY <2>1, SpentParts, Names DEF Freeing
  <2>2. QED
    BY <1>5, <2>1, Names
<1>8. g[t.at].own[Hook(h[t.at])] = a
  BY <1>2, <1>4, <1>7 DEF Hooked
<1>9. a \notin Freeing(c) /\ a \notin l
  BY <1>2, <1>4, <1>5, <1>6, <1>8 DEF Sound, Roots
<1>10. h[a].kind = "array" /\ h[a].n = h[t.at].n
  <2>1. g[a].kind = Target(g[t.at].kind, Hook(h[t.at])) /\ (g[a].kind = "array" => g[a].n = g[t.at].n)
    BY <1>2, <1>4, <1>5, <1>6, <1>8, Followed DEF Place, Sound
  <2>2. Target(h[t.at].kind, Hook(h[t.at])) = "array"
    BY <1>2 DEF Target, Hook
  <2>3. QED
    BY <1>2, <1>5, <2>1, <2>2
<1>11. Size(h[a]) = h[t.at].n
  BY <1>10 DEF Size
<1>12. t.i \in Nat /\ t.i > 0
  BY <1>1 DEF Tasks, t
<1>13. t.do \in CopyDo /\ t.do # "deepCopy"
  BY DEF t
<1>14. t.do # "giveUp" => \A i \in 1..Size(h[a]) : i > t.i => h[a].own[i] \in {NULL, WILD}
  BY <1>1, <1>11, <1>13 DEF CopyOK, t
<1>15. ASSUME t.do \in {"copyLeaf", "copyBelow", "copiedBelow"}
       PROVE  /\ t.i \in 1..Size(h[a])
              /\ Child(h, t) \in Blocks /\ Child(h, t) \in Addresses
              /\ h[Child(h, t)].kind = "element" /\ Child(h, t) \notin Freeing(c)
              /\ Child(h, t) = h[a].own[t.i]
  <2>1. t.i <= h[t.at].n /\ Child(h, t) \in Blocks
    BY <1>1, <1>15 DEF CopyOK, t
  <2>2. t.i \in 1..Size(h[a])
    BY <1>3, <1>11, <1>12, <2>1
  <2>3. Child(h, t) = h[a].own[t.i]
    BY DEF Child, a
  <2>4. g[a].own[t.i] = Child(h, t)
    BY <1>2, <1>7, <1>9, <2>2, <2>3
  <2>5. Child(h, t) \notin Freeing(c)
    BY <1>2, <1>5, <1>6, <2>2, <2>4 DEF Sound, Roots
  <2>6. g[Child(h, t)].kind = Target(g[a].kind, t.i)
    BY <1>2, <1>5, <1>6, <2>1, <2>2, <2>4, Followed DEF Place, Sound
  <2>7. h[Child(h, t)].kind = "element"
    BY <1>2, <1>5, <1>10, <2>1, <2>6, Names DEF Target
  <2>8. QED
    BY <2>1, <2>2, <2>3, <2>5, <2>7, Names
<1>16. QED
  BY <1>2, <1>3, <1>4, <1>9, <1>10, <1>11, <1>12, <1>14, <1>15 DEF t
-----------------------------------------------------------------------------
(* Releasing *)

(* The fields of a new task.                                               *)
LEMMA TaskParts ==
  ASSUME NEW do \in {"release", "pack"} \cup CopyDo \cup TreeDo \cup FirstDo,
         NEW at \in Pointers \cup Variables
  PROVE  LET t == Task(do, at)
         IN /\ t \in Tasks /\ t.do = do /\ t.at = at /\ t.from = NULL /\ t.skip = 0 /\ t.n = 0
            /\ t.i = 1
<1>1. Wanted(NULL, NULL) \in [name : Keys \cup {NULL}, value : BOOLEAN, says : Kinds \cup {NULL}, data : 0..2]
  BY DEF Wanted
<1>2. NULL \in Pointers \cup Variables
  BY DEF Pointers
<1>3. QED
  BY <1>1, <1>2 DEF Task, Tasks

Doings == {"release", "pack"} \cup CopyDo \cup TreeDo \cup FirstDo

(* The types of the fields of a task.                                      *)
LEMMA TaskFields ==
  ASSUME NEW t \in Tasks
  PROVE  /\ t.do \in Doings /\ t.at \in Pointers \cup Variables /\ t.from \in Pointers \cup Variables
         /\ t.skip \in Nat /\ t.n \in Nat /\ t.i \in Nat /\ t.i > 0 /\ t.i + 1 \in Nat \ {0}
  BY DEF Tasks, Doings

(* A task goes on with something else.                                     *)
LEMMA Going ==
  ASSUME NEW t \in Tasks, NEW do \in Doings
  PROVE  LET u == [t EXCEPT !.do = do]
         IN /\ u \in Tasks /\ u.do = do /\ u.at = t.at /\ u.from = t.from /\ u.skip = t.skip
            /\ u.n = t.n /\ u.i = t.i /\ u.want = t.want
  BY DEF Tasks, Doings

(* A task goes on with something else at the next index.                   *)
LEMMA Proceeding ==
  ASSUME NEW t \in Tasks, NEW do \in Doings
  PROVE  LET u == [t EXCEPT !.do = do, !.i = @ + 1]
         IN /\ u \in Tasks /\ u.do = do /\ u.at = t.at /\ u.from = t.from /\ u.skip = t.skip
            /\ u.n = t.n /\ u.i = t.i + 1 /\ u.want = t.want
<1>1. t.i + 1 \in Nat \ {0}
  BY TaskFields
<1>2. QED
  BY <1>1 DEF Tasks, Doings

(* A task goes on with the next index.                                     *)
LEMMA NextOne ==
  ASSUME NEW t \in Tasks
  PROVE  LET u == [t EXCEPT !.i = @ + 1]
         IN /\ u \in Tasks /\ u.do = t.do /\ u.at = t.at /\ u.from = t.from /\ u.skip = t.skip
            /\ u.n = t.n /\ u.i = t.i + 1 /\ u.want = t.want
<1>1. t.i + 1 \in Nat \ {0}
  BY TaskFields
<1>2. QED
  BY <1>1 DEF Tasks

(* If a step spends the pointers D, what remains afterwards is what        *)
(* remained before without D.                                              *)
LEMMA FollowingOn ==
  ASSUME NEW h, Shaped(h), NEW c, NEW d, NEW D, NEW R,
         \A x \in Addresses : \A k \in 1..Size(h[x]) :
           <<x, k>> \in Spent(d) <=> <<x, k>> \in Spent(c) \/ <<x, k>> \in D,
         Sound(Detached(Remaining(h, c), D), R)
  PROVE  Sound(Remaining(h, d), R)
<1> DEFINE g == Remaining(h, c)
           e == Detached(g, D)
           f == Remaining(h, d)
<1>1. DOMAIN f = Addresses
  BY DEF Remaining, Detached
<1>2. ASSUME NEW x \in Addresses PROVE f[x] = e[x]
  <2>1. /\ g[x].kind = h[x].kind /\ g[x].says = h[x].says /\ g[x].n = h[x].n /\ Size(g[x]) = Size(h[x])
        /\ \A k \in 1..Size(h[x]) : g[x].own[k] = IF <<x, k>> \in Spent(c) THEN NULL ELSE h[x].own[k]
    BY DetachedParts DEF Remaining
  <2>2. e[x] = Cell(g[x].kind, g[x].says, g[x].n,
                    [k \in 1..Size(g[x]) |-> IF <<x, k>> \in D THEN NULL ELSE g[x].own[k]])
    BY DEF Detached
  <2>3. f[x] = Cell(h[x].kind, h[x].says, h[x].n,
                    [k \in 1..Size(h[x]) |-> IF <<x, k>> \in Spent(d) THEN NULL ELSE h[x].own[k]])
    BY DEF Remaining, Detached
  <2> HIDE DEF g, e, f
  <2>4. [k \in 1..Size(g[x]) |-> IF <<x, k>> \in D THEN NULL ELSE g[x].own[k]]
        = [k \in 1..Size(h[x]) |-> IF <<x, k>> \in Spent(d) THEN NULL ELSE h[x].own[k]]
    BY <2>1
  <2>5. QED
    BY <2>1, <2>2, <2>3, <2>4
<1> HIDE DEF e, f
<1>3. Sound(e, R)
  BY DEF e
<1>4. Sound(f, R)
  BY <1>1, <1>2, <1>3, SameMemory
<1>5. QED
  BY <1>4 DEF f

(* What a waiting task relies on stays as it is.                           *)
Steady(h, g, c, d) ==
  /\ \A v \in Variables : g[v] = h[v]
  /\ \A j \in DOMAIN c : c[j].do = "copiedBelow" =>
       /\ g[c[j].at] = h[c[j].at] /\ g[Hooked(h, c[j])] = h[Hooked(h, c[j])]
       /\ c[j].at \notin Freeing(d)

(* What a waiting task relies on is left alone by a step that keeps the    *)
(* variables and what is copied to.                                        *)
LEMMA Waits ==
  ASSUME NEW h, NEW s, NEW c, NEW l, Good(h, s, c, l), NEW g, NEW d, NEW j \in DOMAIN c,
         c[j].do \in Waiting \ {"pack"}, Steady(h, g, c, d)
  PROVE  TaskOK(g, s, d, c[j])
<1> DEFINE t == c[j]
<1>1. TaskOK(h, s, c, t) /\ t \in Tasks
  BY StackParts DEF Good, TasksOK
<1>2. Stored \in Variables /\ Message \in Variables /\ Slots \subseteq Handles /\ Handles \subseteq Variables
  BY DEF Variables, Handles
<1>3. CASE t.do = "release"
  BY <1>1, <1>3 DEF TaskOK, BuildDo, TreeDo, CopyDo
<1>4. CASE t.do = "checkTree"
  <2>1. TreeOK(h, s, t)
    BY <1>1, <1>4 DEF TaskOK, TreeDo
  <2>2. g[t.at] = h[t.at] /\ g[Message] = h[Message]
    BY <1>2, <2>1 DEF Steady, TreeOK
  <2>3. TreeOK(g, s, t)
    BY <1>4, <2>1, <2>2 DEF TreeOK
  <2>4. QED
    BY <1>4, <2>3 DEF TaskOK, BuildDo, CopyDo
<1>5. CASE t.do = "answer"
  <2>1. RequestOK(h, s, t)
    BY <1>1, <1>5 DEF TaskOK
  <2>2. g[t.at] = h[t.at] /\ g[Message] = h[Message]
    BY <1>2, <2>1 DEF Steady, RequestOK
  <2>3. RequestOK(g, s, t)
    BY <1>5, <2>1, <2>2 DEF RequestOK
  <2>4. QED
    BY <1>5, <2>3 DEF TaskOK, BuildDo, CopyDo, TreeDo
<1>6. CASE t.do = "loaded"
  BY <1>1, <1>2, <1>6 DEF TaskOK, Steady, BuildDo, CopyDo, TreeDo
<1>7. CASE t.do = "copiedBelow"
  <2>1. CopyOK(h, s, c, t)
    BY <1>1, <1>7 DEF TaskOK, CopyDo
  <2>2. g[t.at] = h[t.at] /\ g[Hooked(h, t)] = h[Hooked(h, t)] /\ t.at \notin Freeing(d)
    BY <1>7 DEF Steady
  <2>3. Hooked(g, t) = Hooked(h, t) /\ Child(g, t) = Child(h, t)
    BY <2>2 DEF Hooked, Child
  <2>4. CopyOK(g, s, d, t)
    <3>1. g[t.at] = h[t.at] /\ g[Hooked(g, t)] = h[Hooked(h, t)]
      BY <2>2, <2>3
    <3> HIDE DEF t
    <3>2. QED
      BY <1>7, <2>1, <2>2, <2>3, <3>1 DEF CopyOK
  <2>5. QED
    BY <1>7, <2>4 DEF TaskOK, BuildDo, TreeDo
<1>8. QED
  BY <1>3, <1>4, <1>5, <1>6, <1>7 DEF Waiting

(* What a copying task fills is still led to by the same variable or by    *)
(* the task below.                                                         *)
LEMMA Anchors ==
  ASSUME NEW h, NEW s, NEW c, NEW l, Good(h, s, c, l), NEW g, NEW d, Steady(h, g, c, d),
         NEW j \in DOMAIN c, c[j].do \in CopyDo,
         d[j].at = c[j].at, j - 1 \in DOMAIN c => j - 1 \in DOMAIN d /\ d[j - 1] = c[j - 1]
  PROVE  Anchored(g, d, j)
<1>1. Anchored(h, c, j)
  BY DEF Good, ChainOK
<1>2. Handles \subseteq Variables
  BY DEF Variables
<1>3. CASE \E v \in Handles : h[v].own[1] = c[j].at
  BY <1>2, <1>3 DEF Anchored, Steady
<1>4. CASE j - 1 \in DOMAIN c /\ c[j - 1].do = "copiedBelow" /\ c[j].at = Child(h, c[j - 1])
  <2>1. Child(g, c[j - 1]) = Child(h, c[j - 1])
    BY <1>4 DEF Steady, Child, Hooked
  <2>2. QED
    BY <1>4, <2>1 DEF Anchored
<1>5. QED
  BY <1>1, <1>3, <1>4 DEF Anchored
(* The release at work, and the block it is about.                         *)
LEMMA TopRelease ==
  ASSUME NEW h, NEW s, NEW c, NEW l, Good(h, s, c, l), c # <<>>, NEW m, m = Len(c),
         c[m].do = "release", NEW b, b = c[m].at
  PROVE  /\ m \in DOMAIN c /\ b \in Pointers
         /\ b \in Blocks => b \in Freeing(c) /\ b \in Addresses /\ h[b].kind # "free"
         /\ \A j \in DOMAIN c : j # m => /\ j < m /\ c[j].do \in Waiting \ {"pack"}
                                          /\ (c[j].do = "release" /\ b \in Blocks => c[j].at # b)
         /\ \A j \in DOMAIN c : c[j].do # "pack"
         /\ \A j \in DOMAIN c : c[j].do = "copiedBelow" =>
              c[j].at # b /\ Hooked(h, c[j]) # b
<1>1. m \in DOMAIN c /\ \A j \in DOMAIN c : j # m => j < m
  BY StackParts DEF Good
<1>2. b \in Pointers
  BY <1>1 DEF Good, TasksOK, TaskOK, ReleaseOK
<1>3. ASSUME b \in Blocks PROVE b \in Freeing(c) /\ b \in Addresses /\ h[b].kind # "free"
  <2>1. b \in Freeing(c) /\ b \in Addresses
    BY <1>1, <1>3, Names DEF Freeing
  <2>2. Remaining(h, c)[b].kind # "free"
    BY <2>1 DEF Good, MemoryOK, Sound, Roots
  <2>3. Remaining(h, c)[b].kind = h[b].kind
    BY <2>1, DetachedParts DEF Good, MemoryOK, Remaining
  <2>4. QED
    BY <2>1, <2>2, <2>3
<1>4. \A j \in DOMAIN c : c[j].do # "pack"
  BY NoPacks DEF Good
<1>5. \A j \in DOMAIN c : j # m => /\ j < m /\ c[j].do \in Waiting \ {"pack"}
                                   /\ (c[j].do = "release" /\ b \in Blocks => c[j].at # b)
  BY <1>1, <1>4 DEF Good, StackOK, MemoryOK
<1>6. ASSUME NEW j \in DOMAIN c, c[j].do = "copiedBelow"
      PROVE  c[j].at # b /\ Hooked(h, c[j]) # b
  <2>1. /\ c[j].at \in Blocks /\ Hooked(h, c[j]) \in Blocks
        /\ c[j].at \notin Freeing(c) /\ Hooked(h, c[j]) \notin Freeing(c)
    BY <1>6, CopyParts DEF CopyDo
  <2>2. QED
    BY <1>3, <2>1
<1>7. QED
  BY <1>1, <1>2, <1>3, <1>4, <1>5, <1>6

(* A release follows the next pointer: what that leads to is now the       *)
(* callee's to release.                                                    *)
LEMMA ReleaseNextGood ==
  ASSUME Good(heap, settled, calls, lost), ReleaseNext, Settles
  PROVE  Good(heap', settled', calls', lost')
<1> DEFINE c == calls
           d == calls'
           m == Len(calls)
           b == c[m].at
           i == c[m].i
           q == heap[b].own[i]
           g == Remaining(heap, c)
           D == {<<b, i>>}
<1>1. /\ c # <<>> /\ c \in Seq(Tasks) /\ c[m].do = "release" /\ b \in Blocks /\ i <= Size(heap[b])
      /\ heap' = heap /\ lost' = lost
      /\ d = Append([c EXCEPT ![m] = [c[m] EXCEPT !.i = @ + 1]], Release(Released(b, i)))
      /\ Shaped(heap) /\ DOMAIN heap = Addresses /\ Sound(g, Freeing(c) \cup lost)
  BY DEF ReleaseNext, In, Top, Live, Calls, Good, MemoryOK
<1>2. /\ m \in DOMAIN c /\ m \in Nat /\ c[m] \in Tasks /\ m + 1 \notin DOMAIN c
      /\ b \in Freeing(c) /\ b \in Addresses
      /\ \A j \in DOMAIN c : j # m => /\ j < m /\ c[j].do \in Waiting \ {"pack"}
                                       /\ (c[j].do = "release" => c[j].at # b)
      /\ \A j \in DOMAIN c : c[j].do # "pack"
  BY <1>1, TopRelease, StackParts
<1>3. i \in Nat \ {0} /\ i \in 1..Size(heap[b]) /\ ShapeOK(heap[b], Pointers) /\ q \in Pointers
  <2>1. i \in Nat \ {0} /\ ShapeOK(heap[b], Pointers)
    BY <1>1, <1>2 DEF Tasks, Shaped
  <2>2. Size(heap[b]) \in Nat
    BY <2>1, SizeType
  <2>3. i \in 1..Size(heap[b])
    BY <1>1, <2>1, <2>2
  <2>4. QED
    BY <2>1, <2>3 DEF ShapeOK
<1>4. Released(b, i) = q
  BY <1>3 DEF Released, ShapeOK, Size
<1> DEFINE t == [c[m] EXCEPT !.i = i + 1]
           u == Release(q)
<1>5. /\ t \in Tasks /\ t.do = "release" /\ t.at = b /\ t.i = i + 1
      /\ u \in Tasks /\ u.do = "release" /\ u.at = q /\ u.i = 1
  <2>1. t \in Tasks /\ t.do = "release" /\ t.at = b /\ t.i = i + 1
    BY <1>1, <1>2, <1>3 DEF Tasks
  <2>2. u \in Tasks /\ u.do = "release" /\ u.at = q /\ u.i = 1
    BY <1>3, TaskParts DEF Release
  <2>3. QED
    BY <2>1, <2>2
<1> HIDE DEF t, u
<1>6. d = Append([c EXCEPT ![m] = t], u)
  BY <1>1, <1>4 DEF t, u
<1>7. /\ d \in Seq(Tasks) /\ DOMAIN d = DOMAIN c \cup {m + 1} /\ d[m] = t /\ d[m + 1] = u
      /\ \A j \in DOMAIN c : j # m => d[j] = c[j]
  BY <1>1, <1>5, <1>6, Calling
<1> HIDE DEF d, g
<1>8. ASSUME NEW x \in Addresses, NEW k \in 1..Size(heap[x])
      PROVE  <<x, k>> \in Spent(d) <=> <<x, k>> \in Spent(c) \/ <<x, k>> \in D
  <2>1. /\ <<x, k>> \in Spent(c) <=> \E j \in DOMAIN c : c[j].do = "release" /\ c[j].at = x /\ k < c[j].i
        /\ <<x, k>> \in Spent(d) <=> \E j \in DOMAIN d : d[j].do = "release" /\ d[j].at = x /\ k < d[j].i
    BY SpentParts
  <2>2. ASSUME NEW j \in DOMAIN d, d[j].do = "release", d[j].at = x, k < d[j].i
        PROVE  <<x, k>> \in Spent(c) \/ <<x, k>> \in D
    <3>1. CASE j = m + 1
      BY <1>5, <1>7, <2>2, <3>1
    <3>2. CASE j = m
      <4>1. x = b /\ k < i + 1 /\ (k < i \/ k = i)
        BY <1>3, <1>5, <1>7, <2>2, <3>2
      <4>2. QED
        BY <1>1, <1>2, <2>1, <4>1
    <3>3. CASE j \in DOMAIN c /\ j # m
      BY <1>7, <2>1, <2>2, <3>3
    <3>4. QED
      BY <1>7, <3>1, <3>2, <3>3
  <2>3. ASSUME NEW j \in DOMAIN c, c[j].do = "release", c[j].at = x, k < c[j].i
        PROVE  <<x, k>> \in Spent(d)
    <3>1. CASE j = m
      BY <1>3, <1>5, <1>7, <2>1, <2>3, <3>1
    <3>2. CASE j # m
      BY <1>7, <2>1, <2>3, <3>2
    <3>3. QED
      BY <3>1, <3>2
  <2>4. ASSUME <<x, k>> \in D PROVE <<x, k>> \in Spent(d)
    <3>1. x = b /\ k = i /\ k < i + 1
      BY <1>3, <2>4
    <3>2. m \in DOMAIN d /\ d[m].do = "release" /\ d[m].at = x /\ k < d[m].i
      BY <1>2, <1>5, <1>7, <3>1
    <3>3. QED
      BY <2>1, <3>2
  <2>5. QED
    BY <2>1, <2>2, <2>3, <2>4
<1>9. g[b].own[i] = q /\ Size(g[b]) = Size(heap[b])
  <2>1. <<b, i>> \notin Spent(c)
    <3>1. ASSUME NEW j \in DOMAIN c, c[j].do = "release", c[j].at = b, i < c[j].i PROVE FALSE
      BY <1>2, <1>3, <3>1
    <3>2. QED
      BY <1>2, <1>3, <3>1, SpentParts
  <2>2. QED
    BY <1>1, <1>2, <1>3, <2>1, DetachedParts DEF g, Remaining
<1>10. Handed(g, D) = {q} \cap Blocks
  BY <1>2, <1>3, <1>9 DEF Handed
<1>11. q \in Blocks => q \notin Freeing(c) \cup lost
  BY <1>1, <1>2, <1>3, <1>9 DEF Sound, Roots
<1>12. Freeing(d) = Freeing(c) \cup ({q} \cap Blocks)
  <2>1. ASSUME NEW x \in Blocks
        PROVE  x \in Freeing(d) <=> x \in Freeing(c) \/ x = q
    <3>1. ASSUME NEW j \in DOMAIN d, d[j].do = "release", d[j].at = x
          PROVE  x \in Freeing(c) \/ x = q
      <4>1. CASE j = m + 1
        BY <1>5, <1>7, <3>1, <4>1
      <4>2. CASE j = m
        BY <1>2, <1>5, <1>7, <3>1, <4>2
      <4>3. CASE j \in DOMAIN c /\ j # m
        BY <1>7, <3>1, <4>3 DEF Freeing
      <4>4. QED
        BY <1>7, <4>1, <4>2, <4>3
    <3>2. ASSUME NEW j \in DOMAIN c, c[j].do = "release", c[j].at = x
          PROVE  x \in Freeing(d)
      <4>1. j \in DOMAIN d /\ d[j].do = "release" /\ d[j].at = x
        BY <1>5, <1>7, <3>2
      <4>2. QED
        BY <4>1 DEF Freeing
    <3>3. q = x => x \in Freeing(d)
      BY <1>5, <1>7 DEF Freeing
    <3>4. QED
      BY <3>1, <3>2, <3>3 DEF Freeing
  <2>2. Freeing(d) \subseteq Blocks /\ Freeing(c) \subseteq Blocks
    BY DEF Freeing
  <2>3. QED
    BY <2>1, <2>2
<1>13. MemoryOK(heap, d, lost)
  <2>1. Sound(Detached(g, D), (Freeing(c) \cup lost) \cup Handed(g, D))
    BY <1>1, Detaching
  <2>2. (Freeing(c) \cup lost) \cup Handed(g, D) = Freeing(d) \cup lost
    BY <1>10, <1>12
  <2>3. Sound(Remaining(heap, d), Freeing(d) \cup lost)
    <3>1. Sound(Detached(Remaining(heap, c), D), Freeing(d) \cup lost)
      BY <2>1, <2>2 DEF g
    <3>2. Shaped(heap)
      BY <1>1
    <3> HIDE DEF D, c, b, i, q
    <3>3. QED
      BY <1>8, <3>1, <3>2, FollowingOn
  <2>4. Freeing(d) \cap lost = {}
    BY <1>11, <1>12 DEF Good, MemoryOK
  <2>5. ASSUME NEW j \in DOMAIN d, NEW k \in DOMAIN d, d[j].do = "release", d[k].do = "release",
               d[j].at = d[k].at, d[j].at \in Blocks
        PROVE  j = k
    <3>1. \A x \in DOMAIN c : c[x].do = "release" /\ c[x].at \in Blocks => c[x].at \in Freeing(c)
      BY DEF Freeing
    <3>2. \A x \in DOMAIN c : d[x].do = c[x].do /\ d[x].at = c[x].at
      BY <1>1, <1>5, <1>7
    <3>3. \A x, y \in DOMAIN c :
            c[x].do = "release" /\ c[y].do = "release" /\ c[x].at = c[y].at /\ c[x].at \in Blocks
            => x = y
      BY DEF Good, MemoryOK
    <3>4. QED
      BY <1>5, <1>7, <1>11, <2>5, <3>1, <3>2, <3>3
  <2>6. QED
    BY <1>1, <2>3, <2>4, <2>5 DEF MemoryOK
<1>14. Steady(heap, heap, c, d)
  <2>1. ASSUME NEW j \in DOMAIN c, c[j].do = "copiedBelow" PROVE c[j].at \notin Freeing(d)
    <3>1. c[j].at \notin Freeing(c)
      BY <2>1, CopyParts DEF CopyDo
    <3>2. CopyOK(heap, settled, c, c[j]) /\ c[j].at \in Blocks
      BY <2>1, CopyParts DEF CopyDo, Good, TasksOK, TaskOK
    <3>3. ASSUME c[j].at = q PROVE FALSE
      <4>1. Anchored(heap, c, j)
        BY <2>1 DEF Good, ChainOK, CopyDo
      <4>2. CASE \E v \in Handles : heap[v].own[1] = c[j].at
        <5>1. PICK v \in Handles : heap[v].own[1] = c[j].at
          BY <4>2
        <5>2. v \in Addresses /\ v \notin Blocks
          BY Names DEF Variables
        <5>3. heap[v].kind \in {"handle", "local"} /\ Size(heap[v]) = 1
          BY <1>1, <5>2 DEF Shaped, KindAt, Size
        <5>4. \A x \in 1..1 : <<v, x>> \notin Spent(c)
          <6>1. ASSUME NEW x \in DOMAIN c, c[x].do = "release", c[x].at = v PROVE FALSE
            <7>1. c[x].at \in Pointers
              BY <6>1 DEF Good, TasksOK, TaskOK, ReleaseOK
            <7>2. QED
              BY <5>2, <6>1, <7>1, Names DEF Pointers
          <6>2. QED
            BY <5>2, <6>1, SpentParts
        <5>5. g[v].own[1] = heap[v].own[1] /\ Size(g[v]) = 1
          BY <1>1, <5>2, <5>3, <5>4, DetachedParts DEF g, Remaining
        <5>6. QED
          BY <1>1, <1>2, <1>3, <1>9, <3>2, <3>3, <5>1, <5>2, <5>5 DEF Sound, Unique
      <4>3. CASE j - 1 \in DOMAIN c /\ c[j - 1].do = "copiedBelow" /\ c[j].at = Child(heap, c[j - 1])
        <5> DEFINE a == Hooked(heap, c[j - 1])
                   k == c[j - 1].i
        <5>1. /\ a \in Blocks /\ a \in Addresses /\ a \notin Freeing(c) /\ k \in 1..Size(heap[a])
              /\ heap[a].own[k] = Child(heap, c[j - 1])
          BY <4>3, CopyParts DEF CopyDo
        <5> HIDE DEF a, k
        <5>2. <<a, k>> \notin Spent(c)
          BY <5>1, SpentParts DEF Freeing
        <5>3. g[a].own[k] = heap[a].own[k] /\ k \in 1..Size(g[a])
          BY <1>1, <5>1, <5>2, DetachedParts DEF g, Remaining
        <5>4. a # b
          BY <1>2, <5>1
        <5>5. g[a].own[k] = g[b].own[i] /\ g[a].own[k] \in Blocks
          BY <1>9, <3>2, <3>3, <4>3, <5>1, <5>3
        <5>6. QED
          BY <1>1, <1>2, <1>3, <1>9, <5>1, <5>3, <5>4, <5>5 DEF Sound, Unique
      <4>4. QED
        BY <4>1, <4>2, <4>3 DEF Anchored
    <3>4. QED
      BY <1>12, <3>1, <3>3
  <2>2. QED
    BY <2>1 DEF Steady
<1>15. TasksOK(heap, settled, d)
  <2>1. ASSUME NEW j \in DOMAIN d PROVE TaskOK(heap, settled, d, d[j])
    <3>1. CASE j = m \/ j = m + 1
      <4>1. d[j].do = "release" /\ (d[j].at = b \/ d[j].at = q) /\ b \in Pointers
        BY <1>1, <1>5, <1>7, <3>1 DEF Pointers
      <4>2. QED
        BY <1>3, <4>1 DEF TaskOK, ReleaseOK, BuildDo, TreeDo, CopyDo
    <3>2. CASE j \in DOMAIN c /\ j # m
      BY <1>2, <1>7, <1>14, <3>2, Waits
    <3>3. QED
      BY <1>7, <3>1, <3>2
  <2>2. QED
    BY <2>1 DEF TasksOK
<1>16. StackOK(d)
  <2>1. \A j \in DOMAIN c : d[j].do = c[j].do
    BY <1>1, <1>5, <1>7
  <2>2. \A j \in DOMAIN d : d[j].do # "pack"
    BY <1>2, <1>5, <1>7, <2>1
  <2>3. ASSUME NEW j \in DOMAIN d, NEW k \in DOMAIN d, j < k
        PROVE  /\ d[j].do \in Waiting
               /\ d[j].do = "release" => d[k].do \in {"release", "pack"}
               /\ d[k].do \notin FirstDo
               /\ d[k].do \in TreeDo =>
                    d[j].do = IF d[k].do = "copyTreeUnchecked" THEN "answer" ELSE "loaded"
    <3>1. CASE k = m + 1
      <4>1. d[k].do = "release" /\ j \in DOMAIN c
        BY <1>2, <1>5, <1>7, <2>3, <3>1
      <4>2. d[j].do \in Waiting
        BY <1>1, <1>2, <2>1, <4>1 DEF Waiting
      <4>3. QED
        BY <4>1, <4>2 DEF FirstDo, TreeDo, BuildDo
    <3>2. CASE k \in DOMAIN c
      <4>1. j \in DOMAIN c
        BY <1>2, <1>7, <2>3, <3>2, StackParts, <1>1
      <4>2. QED
        BY <2>1, <2>3, <3>2, <4>1 DEF Good, StackOK
    <3>3. QED
      BY <1>7, <3>1, <3>2
  <2>4. QED
    BY <2>2, <2>3 DEF StackOK
<1>17. ChainOK(heap, d)
  <2>1. \A j \in DOMAIN d : d[j].do \in CopyDo => j \in DOMAIN c /\ j # m /\ d[j] = c[j]
    BY <1>5, <1>7 DEF CopyDo
  <2>2. ASSUME NEW j \in DOMAIN d, d[j].do \in CopyDo PROVE Anchored(heap, d, j)
    <3>1. j \in DOMAIN c /\ d[j] = c[j] /\ j < m
      BY <1>2, <2>1, <2>2
    <3>2. j - 1 \in DOMAIN c => j - 1 \in DOMAIN d /\ d[j - 1] = c[j - 1]
      BY <1>1, <1>2, <1>7, <3>1, StackParts
    <3>3. QED
      BY <1>14, <2>2, <3>1, <3>2, Anchors
  <2>3. QED
    BY <2>1, <2>2 DEF Good, ChainOK
<1>18. BorrowOK(heap, settled, d)
  <2>1. ASSUME \E j \in DOMAIN d : d[j].do \in Borrowing
        PROVE  Apart(heap, settled) /\ \A x \in Freeing(d) : settled[x].kind = "free"
    <3>1. \E j \in DOMAIN c : c[j].do \in Borrowing
      BY <1>5, <1>7, <2>1 DEF Borrowing, CopyDo, TreeDo
    <3>2. Apart(heap, settled) /\ \A x \in Freeing(c) : settled[x].kind = "free"
      BY <3>1 DEF Good, BorrowOK
    <3>3. q \in Blocks => settled[q].kind = "free"
      BY <1>1, <1>2, <1>3, <3>2 DEF Apart
    <3>4. QED
      BY <1>12, <3>2, <3>3
  <2>2. QED
    BY <2>1 DEF BorrowOK
<1>19. VariablesOK(heap, d)
  <2>1. \A j \in DOMAIN c : j \in DOMAIN d /\ d[j].do = c[j].do
    BY <1>1, <1>5, <1>7
  <2>2. QED
    BY <2>1 DEF Good, VariablesOK
<1>20. (d = <<>> => settled' = heap) /\ (d # <<>> => settled' = settled)
  BY <1>1 DEF Settles, d
<1>21. SettledOK(settled)
  BY DEF Good
<1>22. Good(heap, settled', d, lost)
  <2>1. c # <<>> /\ d \in Seq(Tasks)
    BY <1>1, <1>7
  <2> HIDE DEF c
  <2>2. QED
    BY <1>13, <1>15, <1>16, <1>17, <1>18, <1>19, <1>20, <1>21, <2>1, Within
<1>23. QED
  BY <1>1, <1>22 DEF d

(* The order of the tasks on a stack stays right when the one at work is   *)
(* removed.                                                                *)
LEMMA StackReturns ==
  ASSUME NEW c \in Seq(Tasks), StackOK(c), c # <<>>, NEW d, d = SubSeq(c, 1, Len(c) - 1)
  PROVE  StackOK(d)
<1>1. \A j \in DOMAIN d : j \in DOMAIN c /\ d[j] = c[j]
  BY Returning
<1>2. QED
  BY <1>1 DEF StackOK

(* A release frees the block after all that was behind it: nothing leads   *)
(* to it, it leads to nothing that is left.                                *)
LEMMA ReleaseBlockGood ==
  ASSUME Good(heap, settled, calls, lost), ReleaseBlock, Settles
  PROVE  Good(heap', settled', calls', lost')
<1> DEFINE c == calls
           d == calls'
           m == Len(calls)
           b == c[m].at
           g == Remaining(heap, c)
           h == heap'
<1>1. /\ c # <<>> /\ c \in Seq(Tasks) /\ c[m].do = "release" /\ b \in Blocks
      /\ c[m].i > Size(heap[b])
      /\ h = Without({b}, NULL, 1) /\ lost' = lost
      /\ d = SubSeq(c, 1, m - 1)
      /\ Shaped(heap) /\ DOMAIN heap = Addresses /\ Sound(g, Freeing(c) \cup lost)
  BY DEF ReleaseBlock, In, Top, Live, Returns, Good, MemoryOK
<1>2. /\ m \in DOMAIN c /\ c[m] \in Tasks
      /\ b \in Freeing(c) /\ b \in Addresses
      /\ \A j \in DOMAIN c : j # m => /\ j < m /\ c[j].do \in Waiting \ {"pack"}
                                       /\ (c[j].do = "release" => c[j].at # b)
      /\ \A j \in DOMAIN c : c[j].do = "copiedBelow" => c[j].at # b /\ Hooked(heap, c[j]) # b
  BY <1>1, TopRelease, StackParts
<1>3. /\ d \in Seq(Tasks) /\ DOMAIN d = DOMAIN c \ {m}
      /\ \A j \in DOMAIN d : d[j] = c[j]
  BY <1>1, Returning
<1>4. DOMAIN h = Addresses /\ h[b] = Free /\ \A x \in Addresses : x # b => h[x] = heap[x]
  BY <1>1, <1>2, Names DEF Without
<1> HIDE DEF d, g, h
<1>5. Freeing(d) = Freeing(c) \ {b}
  BY <1>1, <1>2, <1>3 DEF Freeing
<1>6. Shaped(h)
  BY <1>1, <1>2, <1>4, FreeParts DEF Shaped, KindAt
<1>7. MemoryOK(h, d, lost)
  <2> DEFINE e == Emptied(g, {b}, NULL, 1)
             f == Remaining(h, d)
  <2>1. ASSUME NEW i \in 1..Size(g[b]) PROVE g[b].own[i] = NULL
    <3>1. i \in 1..Size(heap[b])
      BY <1>1, <1>2, DetachedParts DEF g, Remaining
    <3>2. ShapeOK(heap[b], Pointers) /\ c[m].i \in Nat
      BY <1>1, <1>2 DEF Shaped, Tasks
    <3>3. i < c[m].i /\ i \in Nat
      BY <1>1, <3>1, <3>2, SizeType
    <3>4. <<b, i>> \in Spent(c)
      BY <1>1, <1>2, <3>3, SpentParts
    <3>5. QED
      BY <1>1, <1>2, <3>1, <3>4, DetachedParts DEF g, Remaining
  <2>2. \A x \in Addresses : \A i \in 1..Size(g[x]) : g[x].own[i] # b
    BY <1>1, <1>2 DEF Sound, Roots
  <2>3. Sound(e, (Freeing(c) \cup lost) \ {b})
    BY <1>1, <2>1, <2>2, Names, Emptying
  <2>4. ASSUME NEW x \in Addresses PROVE f[x] = e[x]
    <3>1. f[x] = Cell(h[x].kind, h[x].says, h[x].n,
                      [k \in 1..Size(h[x]) |-> IF <<x, k>> \in Spent(d) THEN NULL ELSE h[x].own[k]])
      BY DEF Remaining, Detached
    <3>2. CASE x = b
      <4>1. h[x] = Free /\ e[x] = Free /\ Size(Free) = 0 /\ Free.own \in [1..0 -> Pointers]
        BY <1>4, <3>2, FreeParts DEF Emptied, ShapeOK
      <4>2. f[x] = Cell(Free.kind, Free.says, Free.n,
                        [k \in 1..0 |-> IF <<x, k>> \in Spent(d) THEN NULL ELSE Free.own[k]])
        BY <3>1, <4>1
      <4>3. [k \in 1..0 |-> IF <<x, k>> \in Spent(d) THEN NULL ELSE Free.own[k]] = Free.own
        BY <4>1
      <4>4. Free = Cell(Free.kind, Free.says, Free.n, Free.own)
        BY FreeParts DEF ShapeOK
      <4>5. QED
        BY <4>1, <4>2, <4>3, <4>4
    <3>3. CASE x # b
      <4>1. e[x] = g[x] /\ h[x] = heap[x]
        BY <1>4, <3>3, Names DEF Emptied
      <4>2. g[x] = Cell(h[x].kind, h[x].says, h[x].n,
                        [k \in 1..Size(h[x]) |-> IF <<x, k>> \in Spent(c) THEN NULL ELSE h[x].own[k]])
        BY <4>1 DEF g, Remaining, Detached
      <4>3. \A k \in 1..Size(h[x]) : <<x, k>> \in Spent(c) <=> <<x, k>> \in Spent(d)
        <5>1. ASSUME NEW k \in Nat
              PROVE  /\ <<x, k>> \in Spent(c) <=> \E j \in DOMAIN c : c[j].do = "release" /\ c[j].at = x /\ k < c[j].i
                     /\ <<x, k>> \in Spent(d) <=> \E j \in DOMAIN d : d[j].do = "release" /\ d[j].at = x /\ k < d[j].i
          BY SpentParts
        <5>2. QED
          BY <1>3, <3>3, <5>1
      <4>4. [k \in 1..Size(h[x]) |-> IF <<x, k>> \in Spent(c) THEN NULL ELSE h[x].own[k]]
            = [k \in 1..Size(h[x]) |-> IF <<x, k>> \in Spent(d) THEN NULL ELSE h[x].own[k]]
        BY <4>3
      <4>5. QED
        BY <3>1, <4>1, <4>2, <4>4
    <3>4. QED
      BY <3>2, <3>3
  <2>5. DOMAIN f = Addresses
    BY DEF Remaining, Detached
  <2> HIDE DEF e, f
  <2>6. Sound(f, (Freeing(c) \cup lost) \ {b})
    BY <2>3, <2>4, <2>5, SameMemory
  <2>7. (Freeing(c) \cup lost) \ {b} = Freeing(d) \cup lost /\ Freeing(d) \cap lost = {}
    <3>1. Freeing(c) \cap lost = {}
      BY DEF Good, MemoryOK
    <3>2. QED
      BY <1>2, <1>5, <3>1
  <2>8. \A j, k \in DOMAIN d :
          d[j].do = "release" /\ d[k].do = "release" /\ d[j].at = d[k].at /\ d[j].at \in Blocks => j = k
    <3>1. \A j, k \in DOMAIN c :
            c[j].do = "release" /\ c[k].do = "release" /\ c[j].at = c[k].at /\ c[j].at \in Blocks => j = k
      BY DEF Good, MemoryOK
    <3>2. QED
      BY <1>3, <3>1
  <2>9. QED
    BY <1>4, <1>6, <2>6, <2>7, <2>8 DEF MemoryOK, f
<1>8. Steady(heap, h, c, d)
  <2>1. \A v \in Variables : h[v] = heap[v]
    BY <1>1, <1>4, Names
  <2>2. ASSUME NEW j \in DOMAIN c, c[j].do = "copiedBelow"
        PROVE  /\ h[c[j].at] = heap[c[j].at] /\ h[Hooked(heap, c[j])] = heap[Hooked(heap, c[j])]
               /\ c[j].at \notin Freeing(d)
    <3>1. c[j].at \in Addresses /\ Hooked(heap, c[j]) \in Addresses /\ c[j].at \notin Freeing(c)
      BY <2>2, CopyParts DEF CopyDo
    <3>2. QED
      BY <1>2, <1>4, <1>5, <2>2, <3>1
  <2>3. QED
    BY <2>1, <2>2 DEF Steady
<1>9. TasksOK(h, settled, d)
  <2>1. ASSUME NEW j \in DOMAIN d PROVE TaskOK(h, settled, d, d[j])
    <3>1. j \in DOMAIN c /\ d[j] = c[j] /\ c[j].do \in Waiting \ {"pack"}
      BY <1>2, <1>3
    <3>2. QED
      BY <1>8, <3>1, Waits
  <2>2. QED
    BY <2>1 DEF TasksOK
<1>10. StackOK(d)
  BY <1>1, StackReturns DEF Good
<1>11. ChainOK(h, d)
  <2>1. ASSUME NEW j \in DOMAIN d, d[j].do \in CopyDo PROVE Anchored(h, d, j)
    <3>1. j \in DOMAIN c /\ d[j] = c[j] /\ j < m
      BY <1>2, <1>3
    <3>2. j - 1 \in DOMAIN c => j - 1 \in DOMAIN d /\ d[j - 1] = c[j - 1]
      BY <1>1, <1>2, <1>3, <3>1, StackParts
    <3>3. QED
      BY <1>8, <2>1, <3>1, <3>2, Anchors
  <2>2. QED
    BY <1>3, <2>1 DEF Good, ChainOK
<1>12. BorrowOK(h, settled, d)
  <2>1. ASSUME \E j \in DOMAIN d : d[j].do \in Borrowing
        PROVE  Apart(h, settled) /\ \A x \in Freeing(d) : settled[x].kind = "free"
    <3>1. \E j \in DOMAIN c : c[j].do \in Borrowing
      BY <1>3, <2>1
    <3>2. Apart(heap, settled) /\ \A x \in Freeing(c) : settled[x].kind = "free"
      BY <3>1 DEF Good, BorrowOK
    <3>3. ASSUME NEW x \in Blocks, settled[x].kind # "free" PROVE h[x] = settled[x]
      BY <1>2, <1>4, <3>2, <3>3, Names DEF Apart
    <3>4. ASSUME NEW x \in Blocks, settled[x].kind = "free", NEW i \in 1..Size(h[x]), h[x].own[i] \in Blocks
          PROVE  settled[h[x].own[i]].kind = "free"
      <4>1. x # b
        BY <1>4, <3>4, FreeParts
      <4>2. h[x] = heap[x]
        BY <1>4, <4>1, Names
      <4>3. QED
        BY <3>2, <3>4, <4>2 DEF Apart
    <3>5. QED
      BY <1>5, <3>2, <3>3, <3>4 DEF Apart
  <2>2. QED
    BY <2>1 DEF BorrowOK
<1>13. VariablesOK(h, d)
  <2>1. New \in Variables /\ Stored \in Variables /\ Query \in Variables /\ Message \in Variables
    BY DEF Variables, Handles
  <2>2. h[New] = heap[New] /\ h[Stored] = heap[Stored] /\ h[Query] = heap[Query] /\ h[Message] = heap[Message]
    BY <1>8, <2>1 DEF Steady
  <2>3. \A j \in DOMAIN c : c[j].do \in BuildDo \cup {"loaded"} => j \in DOMAIN d /\ d[j] = c[j]
    BY <1>1, <1>3 DEF BuildDo
  <2>4. QED
    BY <2>2, <2>3 DEF Good, VariablesOK
<1>14. (d = <<>> => settled' = h) /\ (d # <<>> => settled' = settled)
  BY <1>1 DEF Settles, d, h
<1>15. SettledOK(settled)
  BY DEF Good
<1>16. Good(h, settled', d, lost)
  BY <1>3, <1>7, <1>9, <1>10, <1>11, <1>12, <1>13, <1>14, <1>15, Within
<1>17. QED
  BY <1>1, <1>16 DEF d, h

(* A release that finds nothing ends; there is no dead block to find.      *)
LEMMA NothingReleased ==
  ASSUME NEW h, NEW s, NEW c, NEW l, Good(h, s, c, l), c # <<>>, NEW d, NEW t, d = SubSeq(c, 1, Len(c) - 1),
         c[Len(c)].do = "release" => c[Len(c)].at \notin Blocks,
         c[Len(c)].do \in {"release", "pack"},
         d = <<>> => t = h, d # <<>> => t = s
  PROVE  Good(h, t, d, l)
<1> DEFINE m == Len(c)
<1>1. /\ d \in Seq(Tasks) /\ DOMAIN d = DOMAIN c \ {m} /\ m \in DOMAIN c
      /\ \A j \in DOMAIN d : d[j] = c[j] /\ j < m
      /\ c \in Seq(Tasks)
  BY Returning, StackParts DEF Good
<1>2. Freeing(d) = Freeing(c)
  BY <1>1 DEF Freeing
<1>3. \A x \in Addresses : \A k \in 1..Size(h[x]) :
        <<x, k>> \in Spent(d) <=> <<x, k>> \in Spent(c) \/ <<x, k>> \in {}
  <2>1. ASSUME NEW x \in Addresses, NEW k \in 1..Size(h[x])
        PROVE  <<x, k>> \in Spent(d) <=> <<x, k>> \in Spent(c)
    <3>1. /\ <<x, k>> \in Spent(c) <=> \E j \in DOMAIN c : c[j].do = "release" /\ c[j].at = x /\ k < c[j].i
          /\ <<x, k>> \in Spent(d) <=> \E j \in DOMAIN d : d[j].do = "release" /\ d[j].at = x /\ k < d[j].i
      <4>1. Size(h[x]) \in Nat
        BY SizeType DEF Good, MemoryOK, Shaped
      <4>2. k \in Nat
        BY <4>1
      <4>3. <<x, k>> \in Spent(c) <=> \E j \in DOMAIN c : c[j].do = "release" /\ c[j].at = x /\ k < c[j].i
        BY <4>2 DEF Spent
      <4>4. <<x, k>> \in Spent(d) <=> \E j \in DOMAIN d : d[j].do = "release" /\ d[j].at = x /\ k < d[j].i
        BY <4>2 DEF Spent
      <4>5. QED
        BY <4>3, <4>4
    <3>2. c[m].do = "release" => c[m].at \notin Addresses
      <4>1. c[m].do = "release" => c[m].at \in Pointers
        BY <1>1 DEF Good, TasksOK, TaskOK, ReleaseOK
      <4>2. QED
        BY <4>1, Names DEF Pointers
    <3>3. QED
      BY <1>1, <3>1, <3>2
  <2>2. QED
    BY <2>1
<1>4. MemoryOK(h, d, l)
  <2>1. Shaped(h) /\ DOMAIN h = Addresses /\ Sound(Remaining(h, c), Freeing(c) \cup l)
    BY DEF Good, MemoryOK
  <2>2. Sound(Detached(Remaining(h, c), {}), (Freeing(c) \cup l) \cup Handed(Remaining(h, c), {}))
    BY <2>1, Detaching
  <2>3. Handed(Remaining(h, c), {}) = {}
    BY DEF Handed
  <2>4. Sound(Detached(Remaining(h, c), {}), Freeing(d) \cup l)
    BY <1>2, <2>2, <2>3
  <2>5. Sound(Remaining(h, d), Freeing(d) \cup l)
    BY <1>3, <2>1, <2>4, FollowingOn
  <2>6. \A j, k \in DOMAIN c :
          c[j].do = "release" /\ c[k].do = "release" /\ c[j].at = c[k].at /\ c[j].at \in Blocks => j = k
    BY DEF Good, MemoryOK
  <2>7. \A j, k \in DOMAIN d :
          d[j].do = "release" /\ d[k].do = "release" /\ d[j].at = d[k].at /\ d[j].at \in Blocks => j = k
    BY <1>1, <2>6
  <2>8. Freeing(d) \cap l = {}
    BY <1>2 DEF Good, MemoryOK
  <2>9. QED
    BY <2>1, <2>5, <2>7, <2>8 DEF MemoryOK
<1>5. TasksOK(h, s, d)
  BY <1>1, <1>2 DEF Good, TasksOK, TaskOK, CopyOK
<1>6. StackOK(d)
  BY <1>1, StackReturns DEF Good
<1>7. ChainOK(h, d)
  <2>1. ASSUME NEW j \in DOMAIN d, d[j].do \in CopyDo PROVE Anchored(h, d, j)
    <3>1. j \in DOMAIN c /\ d[j] = c[j] /\ j < m
      BY <1>1
    <3>2. j - 1 \in DOMAIN c => j - 1 \in DOMAIN d /\ d[j - 1] = c[j - 1]
      BY <1>1, <3>1, StackParts
    <3>3. Anchored(h, c, j)
      BY <2>1, <3>1 DEF Good, ChainOK
    <3>4. QED
      BY <3>1, <3>2, <3>3 DEF Anchored
  <2>2. QED
    BY <1>1, <2>1 DEF Good, ChainOK
<1>8. BorrowOK(h, s, d)
  BY <1>1, <1>2 DEF Good, BorrowOK
<1>9. VariablesOK(h, d)
  <2>1. \A j \in DOMAIN c : c[j].do \in BuildDo \cup {"loaded"} => j \in DOMAIN d /\ d[j] = c[j]
    BY <1>1 DEF BuildDo
  <2>2. QED
    BY <2>1 DEF Good, VariablesOK
<1>10. SettledOK(s) /\ d \in Seq(Tasks)
  BY <1>1 DEF Good
<1>11. QED
  BY <1>4, <1>5, <1>6, <1>7, <1>8, <1>9, <1>10, Within

(* A release of nothing; of a pointer that leads nowhere only a null       *)
(* pointer or one that was never assigned, never one to a block that was   *)
(* freed.                                                                  *)
LEMMA ReleaseNothingGood ==
  ASSUME Good(heap, settled, calls, lost), ReleaseNothing, Settles
  PROVE  Good(heap', settled', calls', lost') /\ (fault' = fault \/ fault' \in {"null", "unassigned"})
<1> DEFINE c == calls
           m == Len(calls)
           b == c[m].at
<1>1. c # <<>> /\ c[m].do = "release" /\ ~Live(b)
      /\ IF b = NULL THEN Returns /\ UNCHANGED <<heap, lost, fault>> ELSE Faults(Broken(b))
  BY DEF ReleaseNothing, In, Top
<1>2. b \in {NULL, WILD}
  <2>1. b \in Pointers /\ (b \in Blocks => heap[b].kind # "free")
    BY <1>1, TopRelease
  <2>2. QED
    BY <1>1, <2>1 DEF Live, Pointers
<1>3. CASE b = NULL
  <2>1. calls' = SubSeq(c, 1, m - 1) /\ heap' = heap /\ lost' = lost /\ fault' = fault
    BY <1>1, <1>3 DEF Returns
  <2>2. (calls' = <<>> => settled' = heap) /\ (calls' # <<>> => settled' = settled)
    BY <1>1, <2>1 DEF Settles
  <2>3. b \notin Blocks
    BY <1>3, Names
  <2>4. Good(heap, settled', calls', lost)
    BY <1>1, <2>1, <2>2, <2>3, NothingReleased
  <2>5. QED
    BY <2>1, <2>4
<1>4. CASE b # NULL
  <2>1. heap' = heap /\ calls' = calls /\ lost' = lost /\ fault' = "unassigned"
    BY <1>1, <1>2, <1>4 DEF Faults, Broken
  <2>2. settled' = settled
    BY <1>1, <2>1 DEF Settles
  <2>3. QED
    BY <2>1, <2>2
<1>5. QED
  BY <1>3, <1>4
-----------------------------------------------------------------------------
(* Packing *)

(* Packing goes on or goes deeper.                                         *)
LEMMA PackStep ==
  ASSUME NEW h, NEW s, NEW c, NEW l, Good(h, s, c, l), c # <<>>, NEW m, m = Len(c),
         c[m].do = "pack",
         NEW d, d \in Seq(Tasks), DOMAIN c \subseteq DOMAIN d, DOMAIN d \subseteq DOMAIN c \cup {m + 1},
         \A j \in DOMAIN c : j # m => d[j] = c[j],
         d[m].do = "pack", d[m].at = c[m].at,
         m + 1 \in DOMAIN d => d[m + 1].do = "pack" /\ PackOK(h, d[m + 1])
  PROVE  Good(h, s, d, l)
<1>1. /\ m \in DOMAIN c /\ m \in Nat /\ m + 1 \notin DOMAIN c /\ c \in Seq(Tasks)
      /\ \A j \in DOMAIN c : j \in Nat /\ (j # m => j < m)
      /\ \A j \in DOMAIN d : j \in DOMAIN c \/ j = m + 1
  BY StackParts DEF Good
<1>2. /\ \A j \in DOMAIN c : d[j].do = c[j].do /\ d[j].at = c[j].at
      /\ \A j \in DOMAIN d : d[j].do # "pack" => j \in DOMAIN c /\ d[j] = c[j]
  BY <1>1
<1>3. Freeing(d) = Freeing(c)
  BY <1>2 DEF Freeing
<1>4. Beginning(c)
  BY <1>1 DEF Good, StackOK, Beginning
<1>5. Beginning(d)
  BY <1>2, <1>4 DEF Beginning
<1>6. MemoryOK(h, d, l)
  <2>1. Sound(h, Freeing(d) \cup l) /\ Freeing(d) \cap l = {}
    BY <1>3, <1>4, Begun DEF Good, MemoryOK
  <2>2. \A j, k \in DOMAIN c :
          c[j].do = "release" /\ c[k].do = "release" /\ c[j].at = c[k].at /\ c[j].at \in Blocks => j = k
    BY DEF Good, MemoryOK
  <2>3. \A j, k \in DOMAIN d :
          d[j].do = "release" /\ d[k].do = "release" /\ d[j].at = d[k].at /\ d[j].at \in Blocks => j = k
    BY <1>2, <2>2
  <2>4. QED
    BY <1>5, <2>1, <2>3, Beginnings
<1>7. TasksOK(h, s, d)
  <2>1. ASSUME NEW j \in DOMAIN d PROVE TaskOK(h, s, d, d[j])
    <3>1. CASE d[j].do = "pack"
      <4>1. PackOK(h, d[j])
        <5>1. CASE j = m + 1
          BY <5>1
        <5>2. CASE j \in DOMAIN c
          BY <1>2, <3>1, <5>2 DEF Good, TasksOK, TaskOK, PackOK
        <5>3. QED
          BY <1>1, <5>1, <5>2
      <4>2. QED
        BY <3>1, <4>1 DEF TaskOK, BuildDo, TreeDo, CopyDo
    <3>2. CASE d[j].do # "pack"
      <4>1. d[j] = c[j] /\ TaskOK(h, s, c, c[j])
        BY <1>2, <3>2 DEF Good, TasksOK
      <4>2. QED
        BY <1>3, <4>1 DEF TaskOK, CopyOK
    <3>3. QED
      BY <3>1, <3>2
  <2>2. QED
    BY <2>1 DEF TasksOK
<1>8. StackOK(d)
  <2>1. ASSUME NEW j \in DOMAIN d, NEW k \in DOMAIN d
        PROVE  /\ d[j].do = "release" /\ d[k].do = "pack" => d[j].i = 1
               /\ j < k =>
                    /\ d[j].do \in Waiting
                    /\ d[j].do = "release" => d[k].do \in {"release", "pack"}
                    /\ d[j].do = "pack" => d[k].do = "pack"
                    /\ d[k].do \notin FirstDo
                    /\ d[k].do \in TreeDo =>
                         d[j].do = IF d[k].do = "copyTreeUnchecked" THEN "answer" ELSE "loaded"
    <3>1. d[j].do = "release" => d[j].i = 1
      BY <1>5 DEF Beginning
    <3>2. CASE k = m + 1 /\ j < k
      <4>1. j \in DOMAIN c
        BY <1>1, <3>2
      <4>2. j # m => c[j].do \in Waiting
        BY <1>1, <4>1 DEF Good, StackOK
      <4>3. d[j].do \in Waiting
        BY <1>2, <4>1, <4>2 DEF Waiting
      <4>4. QED
        BY <3>1, <3>2, <4>3 DEF FirstDo, BuildDo, TreeDo
    <3>3. CASE k \in DOMAIN c /\ j < k
      <4>1. j \in DOMAIN c
        BY <1>1, <3>3
      <4>2. QED
        BY <1>2, <3>1, <3>3, <4>1 DEF Good, StackOK
    <3>4. CASE ~(j < k)
      BY <3>1, <3>4
    <3>5. QED
      BY <1>1, <3>2, <3>3, <3>4
  <2>2. QED
    BY <2>1 DEF StackOK
<1>9. ChainOK(h, d)
  <2>1. \A j \in DOMAIN d : d[j].do \in CopyDo => j \in DOMAIN c /\ d[j] = c[j] /\ j # m
    BY <1>2 DEF CopyDo
  <2>2. ASSUME NEW j \in DOMAIN d, d[j].do \in CopyDo PROVE Anchored(h, d, j)
    <3>1. Anchored(h, c, j) /\ d[j] = c[j]
      BY <2>1, <2>2 DEF Good, ChainOK
    <3>2. j - 1 \in DOMAIN c /\ c[j - 1].do = "copiedBelow" => j - 1 \in DOMAIN d /\ d[j - 1] = c[j - 1]
      BY <1>2
    <3>3. QED
      BY <3>1, <3>2 DEF Anchored
  <2>3. QED
    BY <2>1, <2>2 DEF Good, ChainOK
<1>10. BorrowOK(h, s, d)
  <2>1. \A j \in DOMAIN d : d[j].do \in Borrowing => j \in DOMAIN c /\ c[j].do \in Borrowing
    BY <1>2 DEF Borrowing, CopyDo, TreeDo
  <2>2. QED
    BY <1>3, <2>1 DEF Good, BorrowOK
<1>11. VariablesOK(h, d)
  <2>1. \A j \in DOMAIN c : j \in DOMAIN d /\ d[j].do = c[j].do
    BY <1>2
  <2>2. QED
    BY <2>1 DEF Good, VariablesOK
<1>12. QED
  BY <1>6, <1>7, <1>8, <1>9, <1>10, <1>11 DEF Good

(* What a pointer that is read leads to, in memory as it is.               *)
LEMMA PointedTo ==
  ASSUME NEW h, NEW R, Sound(h, R), NEW b, NEW i, Place(h, b, i)
  PROVE  \/ h[b].own[i] = NULL
         \/ h[b].own[i] = WILD /\ h[b].kind = "array"
         \/ /\ h[b].own[i] \in Blocks /\ h[b].own[i] \in Addresses
            /\ h[h[b].own[i]].kind # "free" /\ h[h[b].own[i]].kind = Target(h[b].kind, i)
            /\ h[h[b].own[i]].kind = "array" => h[h[b].own[i]].n = h[b].n
<1>1. Shaped(h) /\ Pointed(h) /\ b \in Addresses /\ i \in 1..Size(h[b])
  BY DEF Sound, Place
<1>2. PointsWell(h, b, i)
  BY <1>1 DEF Pointed
<1>3. h[b].own[i] \in Blocks => /\ h[h[b].own[i]].kind = Target(h[b].kind, i)
                                /\ h[h[b].own[i]].kind \in {"shell", "array", "element", "value", "data"}
                                /\ h[h[b].own[i]].kind = "array" => h[h[b].own[i]].n = h[b].n
  BY <1>1, Followed
<1>4. QED
  BY <1>2, <1>3, Names DEF PointsWell

(* The array behind a shell or an element, and an entry of it.             *)
LEMMA Entries ==
  ASSUME NEW h, NEW R, Sound(h, R), NEW b \in Blocks, h[b].kind \in {"shell", "element"},
         NEW a, a = h[b].own[Hook(h[b])]
  PROVE  /\ b \in Addresses /\ h[b].n \in Nat /\ Hook(h[b]) \in 1..Size(h[b])
         /\ a = NULL \/ (a \in Blocks /\ a \in Addresses /\ h[a].kind = "array"
                         /\ h[a].n = h[b].n /\ Size(h[a]) = h[b].n)
         /\ a # NULL => \A i \in 1..h[b].n :
              h[a].own[i] \in {NULL, WILD} \/ (h[a].own[i] \in Blocks /\ h[h[a].own[i]].kind = "element")
<1>1. b \in Addresses /\ ShapeOK(h[b], Pointers) /\ Hook(h[b]) \in 1..Size(h[b]) /\ h[b].n \in Nat
  BY Names DEF Sound, Shaped, ShapeOK, Hook, Size
<1>2. Target(h[b].kind, Hook(h[b])) = "array"
  BY DEF Target, Hook
<1>3. a = NULL \/ (a \in Blocks /\ a \in Addresses /\ h[a].kind = "array" /\ h[a].n = h[b].n)
  BY <1>1, <1>2, PointedTo DEF Place
<1>4. a # NULL => Size(h[a]) = h[b].n
  BY <1>3 DEF Size
<1>5. ASSUME a # NULL, NEW i \in 1..h[b].n
      PROVE  h[a].own[i] \in {NULL, WILD} \/ (h[a].own[i] \in Blocks /\ h[h[a].own[i]].kind = "element")
  <2>1. Place(h, a, i) /\ Target(h[a].kind, i) = "element"
    BY <1>3, <1>4, <1>5 DEF Place, Target
  <2>2. QED
    BY <2>1, PointedTo
<1>6. QED
  BY <1>1, <1>3, <1>4, <1>5

(* Packing reads what is there, and never a block that was freed.          *)
LEMMA PackingGood ==
  ASSUME Good(heap, settled, calls, lost), Packing, Settles
  PROVE  Good(heap', settled', calls', lost') /\ (fault' = fault \/ fault' \in {"null", "unassigned"})
<1> DEFINE c == calls
           d == calls'
           m == Len(calls)
           t == c[m]
           b == t.at
           a == heap[b].own[Hook(heap[b])]
           el == heap[a].own[t.i]
<1>1. c # <<>> /\ c[m].do = "pack" /\ c \in Seq(Tasks) /\ m \in DOMAIN c /\ t \in Tasks
  BY StackParts DEF Packing, In, Top, Good
<1>2. \/ t.i > heap[b].n /\ Returns /\ UNCHANGED <<heap, lost, fault>>
      \/ t.i <= heap[b].n /\ ~Live(a) /\ Faults(Broken(a))
      \/ t.i <= heap[b].n /\ Live(a) /\ el = NULL /\ Proceeds("pack") /\ UNCHANGED <<heap, lost, fault>>
      \/ /\ t.i <= heap[b].n /\ Live(a) /\ Live(el)
         /\ Calls([t EXCEPT !.i = @ + 1], Pack(el)) /\ UNCHANGED <<heap, lost, fault>>
      \/ t.i <= heap[b].n /\ Live(a) /\ el # NULL /\ ~Live(el) /\ Faults(Broken(el))
  BY DEF Packing, Top, ArrayOf
<1>3. Beginning(c)
  BY <1>1 DEF Good, StackOK, Beginning
<1>4. Sound(heap, Freeing(c) \cup lost)
  BY <1>3, Begun DEF Good
<1>5. b \in Blocks /\ heap[b].kind \in {"shell", "element"}
  BY <1>1 DEF Good, TasksOK, TaskOK, PackOK
<1>6. /\ a = NULL \/ (a \in Blocks /\ heap[a].kind = "array")
      /\ a # NULL /\ t.i <= heap[b].n =>
           el \in {NULL, WILD} \/ (el \in Blocks /\ heap[el].kind = "element")
  <2>1. heap[b].n \in Nat /\ t.i \in Nat /\ t.i > 0
    BY <1>1, <1>4, <1>5, Entries, TaskFields
  <2>2. t.i <= heap[b].n => t.i \in 1..heap[b].n
    BY <2>1
  <2>3. a = NULL \/ (a \in Blocks /\ heap[a].kind = "array")
    BY <1>4, <1>5, Entries
  <2>4. a # NULL => \A i \in 1..heap[b].n :
           heap[a].own[i] \in {NULL, WILD} \/ (heap[a].own[i] \in Blocks /\ heap[heap[a].own[i]].kind = "element")
    <3>1. a = heap[b].own[Hook(heap[b])]
      OBVIOUS
    <3> HIDE DEF a, b
    <3>2. QED
      BY <1>4, <1>5, <3>1, Entries
  <2>5. QED
    BY <2>2, <2>3, <2>4
<1>7. SettledOK(settled)
  BY DEF Good
<1>8. ASSUME heap' = heap, lost' = lost, fault' = fault, d # <<>>, Good(heap, settled, d, lost)
      PROVE  Good(heap', settled', calls', lost')
  BY <1>1, <1>8 DEF Settles
<1>9. ASSUME NEW w, Faults(w) PROVE Good(heap', settled', calls', lost')
  <2>1. heap' = heap /\ calls' = calls /\ lost' = lost
    BY <1>9 DEF Faults
  <2>2. settled' = settled
    BY <1>1, <2>1 DEF Settles
  <2>3. QED
    BY <2>1, <2>2
<1>10. CASE t.i > heap[b].n /\ Returns /\ UNCHANGED <<heap, lost, fault>>
  <2>1. d = SubSeq(c, 1, m - 1) /\ heap' = heap /\ lost' = lost /\ fault' = fault
    BY <1>10 DEF Returns
  <2>2. (d = <<>> => settled' = heap) /\ (d # <<>> => settled' = settled)
    BY <1>1, <2>1 DEF Settles
  <2>3. Good(heap, settled', d, lost)
    BY <1>1, <2>1, <2>2, NothingReleased
  <2>4. QED
    BY <2>1, <2>3
<1>11. CASE t.i <= heap[b].n /\ ~Live(a) /\ Faults(Broken(a))
  <2>1. a = NULL
    BY <1>6, <1>11 DEF Live
  <2>2. fault' = "null"
    BY <1>11, <2>1 DEF Faults, Broken
  <2>3. QED
    BY <1>9, <1>11, <2>2
<1>12. CASE t.i <= heap[b].n /\ Live(a) /\ el # NULL /\ ~Live(el) /\ Faults(Broken(el))
  <2>1. el = WILD
    BY <1>6, <1>12, Names DEF Live
  <2>2. fault' = "unassigned"
    BY <1>12, <2>1, Names DEF Faults, Broken
  <2>3. QED
    BY <1>9, <1>12, <2>2
<1>13. CASE /\ t.i <= heap[b].n /\ Live(a) /\ el = NULL
            /\ Proceeds("pack") /\ UNCHANGED <<heap, lost, fault>>
  <2> DEFINE u == [t EXCEPT !.do = "pack", !.i = @ + 1]
  <2>1. u \in Tasks /\ u.do = "pack" /\ u.at = b
    BY <1>1, Proceeding DEF Doings
  <2> HIDE DEF u
  <2>2. d = [c EXCEPT ![m] = u]
    BY <1>13 DEF Proceeds, Becomes, Top, u
  <2>3. d \in Seq(Tasks) /\ DOMAIN d = DOMAIN c /\ d[m] = u /\ \A j \in DOMAIN c : j # m => d[j] = c[j]
    BY <1>1, <2>1, <2>2, Becoming
  <2>4. m + 1 \notin DOMAIN d /\ d # <<>>
    BY <1>1, <2>3, StackParts
  <2> HIDE DEF d
  <2>5. Good(heap, settled, d, lost)
    BY <1>1, <2>1, <2>3, <2>4, PackStep
  <2>6. QED
    BY <1>8, <1>13, <2>4, <2>5
<1>14. CASE /\ t.i <= heap[b].n /\ Live(a) /\ Live(el)
            /\ Calls([t EXCEPT !.i = @ + 1], Pack(el)) /\ UNCHANGED <<heap, lost, fault>>
  <2> DEFINE u == [t EXCEPT !.i = @ + 1]
             v == Pack(el)
  <2>1. u \in Tasks /\ u.do = "pack" /\ u.at = b
    BY <1>1, NextOne
  <2>2. el \in Blocks /\ heap[el].kind = "element"
    BY <1>6, <1>14, Names DEF Live
  <2>3. v \in Tasks /\ v.do = "pack" /\ v.at = el
    <3>1. el \in Pointers \cup Variables
      BY <2>2 DEF Pointers
    <3> HIDE DEF el
    <3>2. QED
      BY <3>1, TaskParts DEF Pack
  <2> HIDE DEF u, v
  <2>4. d = Append([c EXCEPT ![m] = u], v)
    BY <1>14 DEF Calls, u, v
  <2>5. /\ d \in Seq(Tasks) /\ DOMAIN d = DOMAIN c \cup {m + 1} /\ d[m] = u /\ d[m + 1] = v
        /\ \A j \in DOMAIN c : j # m => d[j] = c[j]
    BY <1>1, <2>1, <2>3, <2>4, Calling
  <2>6. PackOK(heap, d[m + 1]) /\ d # <<>>
    <3>1. d[m + 1].at \in Blocks /\ heap[d[m + 1].at].kind = "element"
      BY <2>2, <2>3, <2>5
    <3>2. d # <<>>
      BY <1>1, <2>5
    <3>3. QED
      BY <3>1, <3>2 DEF PackOK
  <2> HIDE DEF d
  <2>7. Good(heap, settled, d, lost)
    BY <1>1, <2>1, <2>3, <2>5, <2>6, PackStep
  <2>8. QED
    BY <1>8, <1>14, <2>6, <2>7
<1>15. QED
  BY <1>2, <1>10, <1>11, <1>12, <1>13, <1>14
-----------------------------------------------------------------------------
(* Assignments *)

(* malloc() gives a block that is not in use.                              *)
LEMMA FreshParts ==
  ASSUME Room
  PROVE  Fresh \in Blocks /\ Fresh \in Addresses /\ heap[Fresh].kind = "free"
<1>1. Fresh \in Blocks /\ ~Live(Fresh)
  BY DEF Room, Fresh
<1>2. QED
  BY <1>1, Names DEF Live

(* What pointers that are cleared led to has no owner in memory any more.  *)
Hung(P) == {q \in Blocks : \E b \in P : heap[b].own[Hook(heap[b])] = q}

(* What the pointers of P led to is owned by something else once they are  *)
(* null.                                                                   *)
LEMMA Clearing ==
  ASSUME NEW R, Sound(heap, R), NEW P, P \subseteq Addresses,
         \A b \in P : Hook(heap[b]) \in 1..Size(heap[b])
  PROVE  Sound(Cleared(P), R \cup Hung(P))
<1> DEFINE D == {p \in Addresses \X Nat : p[1] \in P /\ p[2] = Hook(heap[p[1]])}
           e == Detached(heap, D)
           Q == Hung(P)
           g == Cleared(P)
<1>0. Shaped(heap) /\ DOMAIN g = Addresses
  BY DEF Sound, Cleared
<1>1. ASSUME NEW b \in Addresses, NEW i \in 1..Size(heap[b])
      PROVE  <<b, i>> \in D <=> b \in P /\ i = Hook(heap[b])
  <2>1. Size(heap[b]) \in Nat
    BY <1>0, SizeType DEF Shaped
  <2>2. i \in Nat
    BY <2>1
  <2>3. QED
    BY <2>2
<1> HIDE DEF D
<1>2. ASSUME NEW b \in Addresses PROVE g[b] = e[b]
  <2>1. ShapeOK(heap[b], Pointers)
    BY <1>0 DEF Shaped
  <2>2. e[b] = Cell(heap[b].kind, heap[b].says, heap[b].n,
                    [i \in 1..Size(heap[b]) |-> IF <<b, i>> \in D THEN NULL ELSE heap[b].own[i]])
    BY DEF Detached
  <2>3. CASE b \in P
    <3>1. g[b] = Cell(heap[b].kind, heap[b].says, heap[b].n, [heap[b].own EXCEPT ![Hook(heap[b])] = NULL])
      BY <2>3 DEF Cleared, Pointing
    <3>2. [heap[b].own EXCEPT ![Hook(heap[b])] = NULL]
          = [i \in 1..Size(heap[b]) |-> IF <<b, i>> \in D THEN NULL ELSE heap[b].own[i]]
      BY <1>1, <2>1, <2>3 DEF ShapeOK
    <3>3. QED
      BY <2>2, <3>1, <3>2
  <2>4. CASE b \notin P
    <3>1. g[b] = heap[b]
      BY <2>4 DEF Cleared
    <3>2. heap[b].own = [i \in 1..Size(heap[b]) |-> IF <<b, i>> \in D THEN NULL ELSE heap[b].own[i]]
      BY <1>1, <2>1, <2>4 DEF ShapeOK
    <3>3. heap[b] = Cell(heap[b].kind, heap[b].says, heap[b].n, heap[b].own)
      BY <2>1 DEF ShapeOK
    <3>4. QED
      BY <2>2, <3>1, <3>2, <3>3
  <2>5. QED
    BY <2>3, <2>4
<1>3. Sound(e, R \cup Handed(heap, D))
  BY Detaching
<1>4. Handed(heap, D) = Q
  BY <1>1 DEF Handed, Hung
<1> HIDE DEF e, Q
<1>5. Sound(e, R \cup Q)
  BY <1>3, <1>4
<1> HIDE DEF g
<1>6. Sound(g, R \cup Q)
  BY <1>0, <1>2, <1>5, SameMemory
<1>7. QED
  BY <1>6 DEF g, Q

(* One pointer is cleared.                                                 *)
LEMMA ClearingOne ==
  ASSUME NEW R, Sound(heap, R), NEW p \in Addresses, Hook(heap[p]) \in 1..Size(heap[p])
  PROVE  LET g == Cleared({p})
             a == heap[p].own[Hook(heap[p])]
         IN /\ Sound(g, R \cup ({a} \cap Blocks))
            /\ \A b \in Addresses : b # p => g[b] = heap[b]
            /\ g[p].own[Hook(heap[p])] = NULL
<1> DEFINE g == Cleared({p})
           a == heap[p].own[Hook(heap[p])]
           P == {p}
<1>1. Hung(P) = {a} \cap Blocks
  BY DEF Hung
<1>2. P \subseteq Addresses /\ \A b \in P : Hook(heap[b]) \in 1..Size(heap[b])
  OBVIOUS
<1> HIDE DEF P
<1>3. Sound(Cleared(P), R \cup Hung(P))
  BY <1>2, Clearing
<1>4. Sound(g, R \cup ({a} \cap Blocks))
  <2>1. Cleared(P) = g
    BY DEF P
  <2> HIDE DEF g
  <2>2. QED
    BY <1>1, <1>3, <2>1
<1>5. \A b \in Addresses : b # p => g[b] = heap[b]
  BY DEF Cleared
<1>6. g[p].own[Hook(heap[p])] = NULL
  <2>1. g[p] = Pointing(heap[p], Hook(heap[p]), NULL) /\ ShapeOK(heap[p], Pointers)
    BY DEF Cleared, Sound, Shaped
  <2> HIDE DEF g
  <2>2. QED
    BY <2>1, PointingParts
<1>7. QED
  BY <1>4, <1>5, <1>6

(* A block that was allocated for the k-th pointer of p.                   *)
Attachable(h, cell, f, p, k) ==
  /\ f \in Blocks /\ h[f].kind = "free"
  /\ Blank(cell) /\ cell.kind \in KindAt(f) /\ cell.kind # "free"
  /\ Place(h, p, k) /\ h[p].own[k] \notin Blocks
  /\ cell.kind = Target(h[p].kind, k)
  /\ cell.kind = "array" => cell.n = h[p].n
  /\ h[p].kind = "value" => \A i \in 1..2 : h[p].own[i] = NULL
  /\ h[p].kind \in {"shell", "element"} /\ k = Hook(h[p]) => h[p].n > 0

(* What malloc() and the assignment of its result change.                  *)
LEMMA AttachedParts ==
  ASSUME NEW h, NEW R, Sound(h, R), NEW cell, NEW f, NEW p, NEW k, Attachable(h, cell, f, p, k),
         NEW g, g = Attached(h, cell, f, p, k)
  PROVE  /\ Sound(g, R) /\ f # p /\ f \in Addresses
         /\ g[f] = cell /\ g[p].own[k] = f
         /\ g[p].kind = h[p].kind /\ g[p].n = h[p].n /\ Size(g[p]) = Size(h[p]) /\ g[p].says = h[p].says
         /\ \A i \in 1..Size(h[p]) : i # k => g[p].own[i] = h[p].own[i]
         /\ \A b \in Addresses : b # f /\ b # p => g[b] = h[b]
         /\ \A b \in Addresses : \A i \in 1..Size(h[b]) : h[b].own[i] # f
<1>1. Sound(g, R)
  BY Attaching DEF Attachable
<1>2. p \in Addresses /\ k \in 1..Size(h[p]) /\ ShapeOK(h[p], Pointers) /\ f \in Addresses
      /\ Shaped(h) /\ Pointed(h)
  BY Names DEF Attachable, Place, Sound, Shaped
<1>3. f # p
  BY <1>2 DEF Attachable, Size
<1>4. g[f] = cell /\ g[p] = Pointing(h[p], k, f) /\ \A b \in Addresses : b # f /\ b # p => g[b] = h[b]
  BY <1>2, <1>3 DEF Attached
<1>5. /\ g[p].own[k] = f
      /\ g[p].kind = h[p].kind /\ g[p].n = h[p].n /\ Size(g[p]) = Size(h[p]) /\ g[p].says = h[p].says
      /\ \A i \in 1..Size(h[p]) : i # k => g[p].own[i] = h[p].own[i]
  BY <1>2, <1>4, PointingParts
<1>6. ASSUME NEW b \in Addresses, NEW i \in 1..Size(h[b]) PROVE h[b].own[i] # f
  BY <1>2, Followed DEF Place, Attachable
<1>7. QED
  BY <1>1, <1>2, <1>3, <1>4, <1>5, <1>6

(* A block that is allocated during a copy is apart from what was there    *)
(* when the call began.                                                    *)
LEMMA ApartAttached ==
  ASSUME NEW h, NEW R, Sound(h, R), NEW cell, NEW f, NEW p, NEW k, Attachable(h, cell, f, p, k),
         NEW g, g = Attached(h, cell, f, p, k), NEW s, Apart(h, s), p \in Blocks => s[p].kind = "free"
  PROVE  Apart(g, s) /\ s[f].kind = "free"
<1>1. /\ f # p /\ f \in Addresses /\ g[f] = cell /\ g[p].own[k] = f /\ Size(g[p]) = Size(h[p])
      /\ \A i \in 1..Size(h[p]) : i # k => g[p].own[i] = h[p].own[i]
      /\ \A b \in Addresses : b # f /\ b # p => g[b] = h[b]
  BY AttachedParts
<1>2. f \in Blocks /\ h[f].kind = "free" /\ Blank(cell)
  BY DEF Attachable
<1>3. s[f].kind = "free"
  BY <1>2 DEF Apart
<1>4. ASSUME NEW b \in Blocks, s[b].kind # "free" PROVE g[b] = s[b]
  BY <1>1, <1>3, <1>4, Names DEF Apart
<1>5. ASSUME NEW b \in Blocks, s[b].kind = "free", NEW i \in 1..Size(g[b]), g[b].own[i] \in Blocks
      PROVE  s[g[b].own[i]].kind = "free"
  <2>1. CASE b = f
    BY <1>1, <1>2, <1>5, <2>1, Names DEF Blank
  <2>2. CASE b = p /\ i = k
    BY <1>1, <1>3, <2>2
  <2>3. CASE b # f /\ ~(b = p /\ i = k)
    <3>1. i \in 1..Size(h[b]) /\ g[b].own[i] = h[b].own[i]
      BY <1>1, <1>5, <2>3, Names
    <3>2. QED
      BY <1>5, <3>1 DEF Apart
  <2>4. QED
    BY <2>1, <2>2, <2>3
<1>6. QED
  BY <1>3, <1>4, <1>5 DEF Apart

(* The cells that are allocated.                                           *)
LEMMA Blanks ==
  /\ \A n \in Nat : LET c == Shell(n) IN Blank(c) /\ c.kind = "shell" /\ c.n = n /\ Size(c) = 1 /\ c.own[1] = NULL
  /\ \A n \in Nat, r \in {NULL, WILD} : n > 0 =>
       LET c == Array(n, r)
       IN Blank(c) /\ c.kind = "array" /\ c.n = n /\ Size(c) = n /\ \A i \in 1..n : c.own[i] = r
  /\ Blank(Element) /\ Element.kind = "element" /\ Element.n = 0 /\ Size(Element) = 3
  /\ \A i \in 1..3 : Element.own[i] = NULL
  /\ \A w : LET c == Value(w)
            IN Blank(c) /\ c.kind = "value" /\ Size(c) = 2 /\ \A i \in 1..2 : c.own[i] = NULL
  /\ \A w : LET c == Data(w) IN Blank(c) /\ c.kind = "data" /\ Size(c) = 0
<1>1. ASSUME NEW n \in Nat
      PROVE  LET c == Shell(n)
             IN Blank(c) /\ c.kind = "shell" /\ c.n = n /\ Size(c) = 1 /\ c.own[1] = NULL
  BY DEF Shell, Cell, All, Blank, ShapeOK, Size, Pointers, Hook
<1>2. ASSUME NEW n \in Nat, NEW r \in {NULL, WILD}, n > 0
      PROVE  LET c == Array(n, r)
             IN Blank(c) /\ c.kind = "array" /\ c.n = n /\ Size(c) = n /\ \A i \in 1..n : c.own[i] = r
  BY <1>2 DEF Array, Cell, All, Blank, ShapeOK, Size, Pointers, Hook
<1>3. /\ Blank(Element) /\ Element.kind = "element" /\ Element.n = 0 /\ Size(Element) = 3
      /\ \A i \in 1..3 : Element.own[i] = NULL
  BY DEF Element, Cell, All, Blank, ShapeOK, Size, Pointers, Hook
<1>4. ASSUME NEW w
      PROVE  LET c == Value(w)
             IN Blank(c) /\ c.kind = "value" /\ Size(c) = 2 /\ \A i \in 1..2 : c.own[i] = NULL
  BY DEF Value, Cell, All, Blank, ShapeOK, Size, Pointers, Hook
<1>5. ASSUME NEW w
      PROVE  LET c == Data(w) IN Blank(c) /\ c.kind = "data" /\ Size(c) = 0
  BY DEF Data, Cell, All, Blank, ShapeOK, Size, Pointers, Hook
<1>6. QED
  BY <1>1, <1>2, <1>3, <1>4, <1>5
-----------------------------------------------------------------------------
(* Elements that are being built                                           *)

(* What a leaf consists of is made of blocks of its own.                   *)
LEMMA LeafParts ==
  ASSUME NEW h, NEW R, Sound(h, R), NEW el, NEW want, Leaf(h, el, want)
  PROVE  /\ el \in Addresses /\ Size(h[el]) = 3 /\ Place(h, el, 1) /\ Place(h, el, 2) /\ Place(h, el, 3)
         /\ h[el].own[1] # NULL => h[el].own[1] \in Blocks /\ h[h[el].own[1]].kind = "data"
         /\ h[el].own[2] # NULL =>
              /\ h[el].own[2] \in Blocks /\ h[h[el].own[2]].kind = "value"
              /\ Place(h, h[el].own[2], 1) /\ Place(h, h[el].own[2], 2) /\ Size(h[h[el].own[2]]) = 2
              /\ \A k \in 1..2 : LET q == h[h[el].own[2]].own[k]
                                 IN q # NULL => q \in Blocks /\ h[q].kind = "data"
<1>1. el \in Addresses /\ h[el].kind = "element" /\ Size(h[el]) = 3
  BY Names DEF Leaf, Size
<1>2. Place(h, el, 1) /\ Place(h, el, 2) /\ Place(h, el, 3)
  BY <1>1 DEF Place
<1>3. h[el].own[1] # NULL => h[el].own[1] \in Blocks /\ h[h[el].own[1]].kind = "data"
  BY <1>1, <1>2, PointedTo DEF Target
<1>4. ASSUME h[el].own[2] # NULL
      PROVE  /\ h[el].own[2] \in Blocks /\ h[h[el].own[2]].kind = "value"
             /\ Place(h, h[el].own[2], 1) /\ Place(h, h[el].own[2], 2) /\ Size(h[h[el].own[2]]) = 2
             /\ \A k \in 1..2 : LET q == h[h[el].own[2]].own[k]
                                IN q # NULL => q \in Blocks /\ h[q].kind = "data"
  <2> DEFINE v == h[el].own[2]
  <2>1. v \in Blocks /\ h[v].kind = "value"
    BY <1>1, <1>2, <1>4, PointedTo DEF Target
  <2>2. Size(h[v]) = 2 /\ Place(h, v, 1) /\ Place(h, v, 2)
    BY <2>1, Names DEF Size, Place
  <2>3. ASSUME NEW k \in 1..2, h[v].own[k] # NULL
        PROVE  h[v].own[k] \in Blocks /\ h[h[v].own[k]].kind = "data"
    <3>1. Place(h, v, k) /\ Target(h[v].kind, k) = "data"
      BY <2>1, <2>2 DEF Target, Place
    <3> HIDE DEF v
    <3>2. QED
      BY <2>1, <2>3, <3>1, PointedTo
  <2>4. QED
    BY <2>1, <2>2, <2>3
<1>5. QED
  BY <1>1, <1>2, <1>3, <1>4

(* Each step of building one: an allocation, where a pointer was null.     *)
Extends(h, g, f, el, want, cell, p, k) ==
  /\ Attachable(h, cell, f, p, k)
  /\ g = Attached(h, cell, f, p, k)
  /\ \/ p = el /\ k \in 1..2
     \/ p = h[el].own[2] /\ p \in Blocks /\ h[p].kind = "value"
  /\ Leaf(g, el, want)
  /\ g[el].n = h[el].n /\ g[el].own[3] = h[el].own[3]

(* An allocation that adds to an element what it lacks attaches one block  *)
(* to it or to its value.                                                  *)
LEMMA Completing ==
  ASSUME NEW R, Sound(heap, R), NEW el, NEW want, Leaf(heap, el, want), Completes(el, want)
  PROVE  \E cell, p, k : Extends(heap, heap', Fresh, el, want, cell, p, k)
<1> DEFINE v == ValueOf(el)
           f == Fresh
<1>0. Fresh \in Blocks /\ Fresh \in Addresses /\ heap[Fresh].kind = "free"
  BY FreshParts DEF Completes
<1>1. /\ el \in Addresses /\ Size(heap[el]) = 3 /\ Place(heap, el, 1) /\ Place(heap, el, 2)
      /\ v # NULL => v \in Blocks /\ heap[v].kind = "value" /\ Size(heap[v]) = 2
                     /\ Place(heap, v, 1) /\ Place(heap, v, 2)
  BY LeafParts DEF ValueOf
<1>2. heap[el].kind = "element" /\ el \in Blocks /\ heap[el].n = 0 /\ heap[el].own[3] = NULL
      /\ want.data \in 0..2 /\ (want.data # 0 => want.value)
      /\ (v \in Blocks => \A k \in 1..2 : k # want.data => heap[v].own[k] = NULL)
  BY DEF Leaf, ValueOf
<1>3. el # Fresh /\ v # Fresh
  BY <1>0, <1>1, <1>2, Names
<1> HIDE DEF f
<1>4. CASE LacksName(el, want) /\ heap' = WithIn(Data(want.name), el, 1)
  <2> DEFINE cell == Data(want.name)
  <2>1. Blank(cell) /\ cell.kind = "data"
    BY Blanks
  <2> HIDE DEF cell
  <2>2. heap[el].own[1] = NULL
    BY <1>4 DEF LacksName, Name
  <2>3. Attachable(heap, cell, Fresh, el, 1)
    BY <1>0, <1>1, <1>2, <2>1, <2>2, Names DEF Attachable, KindAt, Target, Hook
  <2>4. heap' = Attached(heap, cell, Fresh, el, 1)
    BY <1>4 DEF WithIn, Attached, cell
  <2>5. /\ heap'[el].kind = heap[el].kind /\ heap'[el].n = heap[el].n
        /\ heap'[el].own[2] = v /\ heap'[el].own[3] = heap[el].own[3]
        /\ \A b \in Addresses : b # Fresh /\ b # el => heap'[b] = heap[b]
    <3>1. \A i \in 1..Size(heap[el]) : i # 1 => heap'[el].own[i] = heap[el].own[i]
      BY <2>3, <2>4, AttachedParts
    <3>2. QED
      BY <1>1, <2>3, <2>4, <3>1, AttachedParts DEF ValueOf
  <2>6. v \in Blocks => heap'[v] = heap[v]
    BY <1>1, <1>2, <1>3, <2>5, Names
  <2>7. Leaf(heap', el, want)
    BY <1>2, <2>5, <2>6 DEF Leaf
  <2>8. Extends(heap, heap', Fresh, el, want, cell, el, 1)
    BY <2>3, <2>4, <2>5, <2>7 DEF Extends
  <2>9. QED
    BY <2>8
<1>5. CASE LacksValue(el, want) /\ heap' = WithIn(Value(want.says), el, 2)
  <2> DEFINE cell == Value(want.says)
  <2>1. Blank(cell) /\ cell.kind = "value" /\ \A i \in 1..2 : cell.own[i] = NULL
    BY Blanks
  <2> HIDE DEF cell
  <2>2. heap[el].own[2] = NULL
    BY <1>5 DEF LacksValue, ValueOf
  <2>3. Attachable(heap, cell, Fresh, el, 2)
    BY <1>0, <1>1, <1>2, <2>1, <2>2, Names DEF Attachable, KindAt, Target, Hook
  <2>4. heap' = Attached(heap, cell, Fresh, el, 2)
    BY <1>5 DEF WithIn, Attached, cell
  <2>5. /\ heap'[el].kind = heap[el].kind /\ heap'[el].n = heap[el].n
        /\ heap'[el].own[2] = Fresh /\ heap'[el].own[3] = heap[el].own[3]
        /\ heap'[Fresh] = cell
    <3>1. \A i \in 1..Size(heap[el]) : i # 2 => heap'[el].own[i] = heap[el].own[i]
      BY <2>3, <2>4, AttachedParts
    <3>2. QED
      BY <1>1, <2>3, <2>4, <3>1, AttachedParts
  <2>6. Leaf(heap', el, want)
    BY <1>2, <2>1, <2>5 DEF Leaf
  <2>7. Extends(heap, heap', Fresh, el, want, cell, el, 2)
    BY <2>3, <2>4, <2>5, <2>6 DEF Extends
  <2>8. QED
    BY <2>7
<1>6. CASE LacksData(el, want) /\ heap' = WithIn(Data(NULL), ValueOf(el), want.data)
  <2> DEFINE cell == Data(NULL)
             k == want.data
  <2>1. Blank(cell) /\ cell.kind = "data"
    BY Blanks
  <2> HIDE DEF cell
  <2>2. k \in 1..2 /\ heap[v].own[k] = NULL /\ v # NULL
    BY <1>2, <1>6 DEF LacksData, LacksValue
  <2>3. v \in Blocks /\ heap[v].kind = "value" /\ Place(heap, v, k) /\ v \in Addresses /\ Size(heap[v]) = 2
    BY <1>1, <2>2, Names
  <2>4. \A i \in 1..2 : heap[v].own[i] = NULL
    BY <1>2, <2>2, <2>3
  <2>5. Attachable(heap, cell, Fresh, v, k)
    BY <1>0, <2>1, <2>2, <2>3, <2>4, Names DEF Attachable, KindAt, Target
  <2>6. heap' = Attached(heap, cell, Fresh, v, k)
    BY <1>6 DEF WithIn, Attached, cell
  <2>7. \A i \in 1..2 : i # k => heap'[v].own[i] = heap[v].own[i]
    <3>1. \A i \in 1..Size(heap[v]) : i # k => heap'[v].own[i] = heap[v].own[i]
      BY <2>5, <2>6, AttachedParts
    <3>2. QED
      BY <2>3, <3>1
  <2>8. heap'[el] = heap[el]
    <3>1. \A b \in Addresses : b # Fresh /\ b # v => heap'[b] = heap[b]
      BY <2>5, <2>6, AttachedParts
    <3>2. QED
      BY <1>1, <1>2, <1>3, <2>3, <3>1
  <2>9. Leaf(heap', el, want)
    BY <1>2, <2>2, <2>4, <2>7, <2>8 DEF Leaf, ValueOf
  <2>10. Extends(heap, heap', Fresh, el, want, cell, v, k)
    BY <2>3, <2>5, <2>6, <2>8, <2>9 DEF Extends, ValueOf
  <2>11. QED
    BY <2>10
<1>7. QED
  BY <1>4, <1>5, <1>6 DEF Completes

(* A leaf that could not be completed is released as a whole.              *)
LEMMA Dropping ==
  ASSUME NEW R, Sound(heap, R), NEW want, NEW el, el = Held(New), Leaf(heap, el, want),
         NEW g, g = Without(LeafBlocks(el), New, 1)
  PROVE  /\ Sound(g, R) /\ g[New].own[1] = NULL
         /\ \A v \in Variables : v # New => g[v] = heap[v]
<1> DEFINE F == LeafBlocks(el)
           v == heap[el].own[2]
<1>0. /\ Shaped(heap) /\ DOMAIN heap = Addresses /\ Unique(heap) /\ Roots(heap, R)
      /\ New \in Addresses /\ New \in Variables /\ New \notin Blocks
  BY Names DEF Sound, Variables
<1>1. heap[New].kind = "local" /\ Size(heap[New]) = 1 /\ ShapeOK(heap[New], Pointers) /\ heap[New].own[1] = el
  BY <1>0 DEF Shaped, KindAt, Size, Held
<1>2. /\ el \in Blocks /\ el \in Addresses /\ heap[el].kind = "element" /\ Size(heap[el]) = 3
      /\ heap[el].own[3] = NULL
      /\ heap[el].own[1] # NULL => heap[el].own[1] \in Blocks /\ heap[heap[el].own[1]].kind = "data"
      /\ v # NULL =>
           /\ v \in Blocks /\ v \in Addresses /\ heap[v].kind = "value" /\ Size(heap[v]) = 2
           /\ \A k \in 1..2 : heap[v].own[k] # NULL =>
                heap[v].own[k] \in Blocks /\ heap[heap[v].own[k]].kind = "data"
  <2>1. Leaf(heap, el, want) /\ el \in Addresses /\ Size(heap[el]) = 3
    BY LeafParts
  <2>2. heap[el].own[1] # NULL => heap[el].own[1] \in Blocks /\ heap[heap[el].own[1]].kind = "data"
    BY LeafParts
  <2>3. v # NULL =>
           /\ v \in Blocks /\ heap[v].kind = "value" /\ Size(heap[v]) = 2
           /\ \A k \in 1..2 : heap[v].own[k] # NULL =>
                heap[v].own[k] \in Blocks /\ heap[heap[v].own[k]].kind = "data"
    BY LeafParts
  <2>4. el \in Blocks /\ heap[el].kind = "element" /\ heap[el].own[3] = NULL
    BY <2>1 DEF Leaf
  <2> HIDE DEF v
  <2>5. QED
    BY <2>1, <2>2, <2>3, <2>4, Names
<1>3. ASSUME NEW q \in F, q # NULL
      PROVE  /\ q \in Blocks
             /\ \/ q = el
                \/ q = heap[el].own[1] /\ heap[q].kind = "data"
                \/ q = v /\ v # NULL
                \/ v # NULL /\ heap[q].kind = "data" /\ \E k \in 1..2 : q = heap[v].own[k]
  <2>1. \/ q = el \/ q = heap[el].own[1] \/ q = v
        \/ v # NULL /\ \E k \in 1..2 : q = heap[v].own[k]
    BY <1>3 DEF LeafBlocks, Name, ValueOf
  <2> HIDE DEF v, F
  <2>2. CASE v # NULL /\ \E k \in 1..2 : q = heap[v].own[k]
    <3>1. PICK k \in 1..2 : q = heap[v].own[k]
      BY <2>2
    <3>2. q \in Blocks /\ heap[q].kind = "data"
      BY <1>2, <1>3, <2>2, <3>1
    <3>3. QED
      BY <2>2, <3>2
  <2>3. CASE q = heap[el].own[1]
    BY <1>2, <1>3, <2>3
  <2>4. CASE q = el
    <3>1. q \in Blocks
      BY <1>2, <2>4
    <3>2. QED
      BY <2>4, <3>1
  <2>5. CASE q = v
    <3>1. v # NULL
      BY <1>3, <2>5
    <3>2. q \in Blocks
      BY <1>2, <2>5, <3>1
    <3>3. QED
      BY <2>5, <3>1, <3>2
  <2>6. QED
    BY <2>1, <2>2, <2>3, <2>4, <2>5
<1>4. /\ el \in F /\ heap[el].own[1] \in F /\ v \in F
      /\ v # NULL => \A k \in 1..2 : heap[v].own[k] \in F
  BY DEF LeafBlocks, Name, ValueOf
<1> HIDE DEF F, v
<1>5. \A b \in F : b \in Addresses => b \in Blocks
  BY <1>3, Names
<1>6. ASSUME NEW b \in F \cap Blocks, NEW i \in 1..Size(heap[b]), heap[b].own[i] \in Blocks
      PROVE  heap[b].own[i] \in F
  <2>0. b # NULL
    BY Names
  <2>1. CASE b = el
    <3>1. i \in 1..3
      BY <1>2, <2>1
    <3>2. i = 1 \/ i = 2 \/ i = 3
      BY <3>1
    <3>3. QED
      BY <1>2, <1>4, <1>6, <2>1, <3>2, Names DEF v
  <2>2. CASE heap[b].kind = "data"
    BY <1>6, <2>2 DEF Size
  <2>3. CASE b = v /\ v # NULL
    BY <1>2, <1>4, <2>3
  <2>4. QED
    BY <1>3, <2>0, <2>1, <2>2, <2>3
<1>7. ASSUME NEW b \in Addresses \ F, NEW i \in 1..Size(heap[b]), heap[b].own[i] \in F, heap[b].own[i] \in Blocks
      PROVE  b = New /\ i = 1
  <2> DEFINE q == heap[b].own[i]
  <2>0. q # NULL /\ q \in F /\ q \in Blocks
    BY <1>7, Names
  <2>1. CASE q = el
    <3>1. 1 \in 1..Size(heap[New]) /\ heap[New].own[1] = q
      BY <1>1, <2>1
    <3>2. QED
      BY <1>0, <2>0, <3>1 DEF Unique
  <2>2. CASE q = heap[el].own[1]
    <3>1. 1 \in 1..Size(heap[el])
      BY <1>2
    <3>2. b = el
      BY <1>0, <1>2, <2>0, <2>2, <3>1 DEF Unique
    <3>3. QED
      BY <1>4, <3>2
  <2>3. CASE q = v
    <3>1. 2 \in 1..Size(heap[el]) /\ heap[el].own[2] = q
      BY <1>2, <2>3 DEF v
    <3>2. b = el
      BY <1>0, <1>2, <2>0, <3>1 DEF Unique
    <3>3. QED
      BY <1>4, <3>2
  <2>4. CASE v # NULL /\ \E k \in 1..2 : q = heap[v].own[k]
    <3>1. b = v
      BY <1>0, <1>2, <2>0, <2>4 DEF Unique
    <3>2. QED
      BY <1>4, <3>1
  <2>5. QED
    BY <1>3, <2>0, <2>1, <2>2, <2>3, <2>4
<1>8. New \notin F
  BY <1>0, <1>3, Names
<1>9. g = Emptied(heap, F, New, 1)
  BY DEF Without, Emptied, F
<1>10. Sound(g, R \ F)
  <2>1. 1 \in 1..Size(heap[New]) /\ heap[New].own[1] \in F
    BY <1>1, <1>4
  <2>2. QED
    BY <1>5, <1>6, <1>7, <1>8, <1>9, <2>1, Emptying
<1>11. R \ F = R
  <2>1. ASSUME NEW q \in R, q \in F PROVE FALSE
    <3>1. q \in Blocks /\ q # NULL /\ \A b \in Addresses : \A i \in 1..Size(heap[b]) : heap[b].own[i] # q
      BY <1>0, <2>1, Names DEF Roots
    <3>2. el # q
      BY <1>0, <1>1, <3>1
    <3>3. heap[el].own[1] # q /\ v # q
      BY <1>2, <3>1 DEF v
    <3>4. v # NULL => \A k \in 1..2 : heap[v].own[k] # q
      BY <1>2, <3>1
    <3>5. QED
      BY <1>3, <2>1, <3>1, <3>2, <3>3, <3>4
  <2>2. QED
    BY <2>1
<1>12. g[New].own[1] = NULL
  <2>1. g[New] = Pointing(heap[New], 1, NULL) /\ 1 \in 1..Size(heap[New])
    BY <1>0, <1>1, <1>8, <1>9 DEF Emptied
  <2>2. QED
    BY <1>1, <2>1, PointingParts
<1>13. \A x \in Variables : x # New => g[x] = heap[x]
  <2>1. \A x \in Variables : x \in Addresses /\ x \notin F
    BY <1>3, Names
  <2>2. QED
    BY <1>9, <2>1 DEF Emptied
<1>14. QED
  BY <1>10, <1>11, <1>12, <1>13
-----------------------------------------------------------------------------
(* Building *)

(* Four values are different.                                              *)
LEMMA FourNames ==
  ASSUME NEW a, NEW b, NEW c, NEW d, Cardinality({a, b, c, d}) = 4
  PROVE  a # b /\ a # c /\ a # d /\ b # c /\ b # d /\ c # d
<1>1. \A x, y, z : IsFiniteSet({x, y, z}) /\ Cardinality({x, y, z}) <= 3
  <2>1. ASSUME NEW x, NEW y, NEW z PROVE IsFiniteSet({x, y, z}) /\ Cardinality({x, y, z}) <= 3
    <3>1. IsFiniteSet({}) /\ Cardinality({}) = 0
      BY FS_EmptySet
    <3>2. IsFiniteSet({x}) /\ Cardinality({x}) = 1
      BY FS_Singleton
    <3>3. {x, y} = {x} \cup {y} /\ {x, y, z} = {x, y} \cup {z}
      OBVIOUS
    <3>4. IsFiniteSet({x} \cup {y}) /\ Cardinality({x} \cup {y}) \in {1, 2}
      BY <3>2, FS_AddElement
    <3>5. QED
      BY <3>3, <3>4, FS_AddElement
  <2>2. QED
    BY <2>1
<1>2. /\ a = b => {a, b, c, d} = {b, c, d}
      /\ a = c => {a, b, c, d} = {b, c, d}
      /\ a = d => {a, b, c, d} = {b, c, d}
      /\ b = c => {a, b, c, d} = {a, c, d}
      /\ b = d => {a, b, c, d} = {a, c, d}
      /\ c = d => {a, b, c, d} = {a, b, d}
  OBVIOUS
<1>3. \A x, y, z : {a, b, c, d} # {x, y, z}
  <2>1. ASSUME NEW x, NEW y, NEW z, {a, b, c, d} = {x, y, z} PROVE FALSE
    <3>1. Cardinality({x, y, z}) <= 3 /\ Cardinality({x, y, z}) = 4
      BY <1>1, <2>1
    <3>2. QED
      BY <3>1
  <2>2. QED
    BY <2>1
<1>4. QED
  BY <1>2, <1>3

(* The variables are not among the blocks, and no two are the same.        *)
LEMMA VariableNames ==
  /\ New \in Variables /\ Stored \in Variables /\ Message \in Variables /\ Query \in Variables
  /\ Slots \subseteq Handles /\ Query \in Handles /\ Handles \subseteq Variables
  /\ Stored \notin Handles /\ Message \notin Handles /\ New \notin Handles
  /\ Query \notin Slots /\ Message # Stored /\ New # Stored /\ New # Message
  /\ \A v \in Variables : v \in Addresses /\ v \notin Blocks /\ v # NULL /\ v # WILD
<1>1. Cardinality({Query, Message, Stored, New}) = 4 /\ Slots \cap {Query, Message, Stored, New} = {}
  BY PropertiesAssumption
<1>2. /\ Query # Message /\ Query # Stored /\ Query # New
      /\ Message # Stored /\ Message # New /\ Stored # New
  BY <1>1, FourNames
<1>3. QED
  BY <1>1, <1>2, Names DEF Variables, Handles

(* A variable leads to nothing or to a block of its kind.                  *)
LEMMA VariableShape ==
  ASSUME NEW h, NEW R, Sound(h, R), NEW v \in Variables
  PROVE  /\ v \in Addresses /\ ShapeOK(h[v], Pointers) /\ Size(h[v]) = 1 /\ Hook(h[v]) = 1
         /\ Place(h, v, 1) /\ h[v].kind = IF v = New THEN "local" ELSE "handle"
         /\ h[v].own[1] = NULL
            \/ (h[v].own[1] \in Blocks /\ h[h[v].own[1]].kind = IF v = New THEN "element" ELSE "shell")
<1>1. v \in Addresses /\ v \notin Blocks
  BY VariableNames
<1>2. ShapeOK(h[v], Pointers) /\ h[v].kind = IF v = New THEN "local" ELSE "handle"
  BY <1>1 DEF Sound, Shaped, KindAt
<1>3. Size(h[v]) = 1 /\ Hook(h[v]) = 1
  BY <1>2 DEF Size, Hook
<1>4. Place(h, v, 1)
  BY <1>1, <1>3 DEF Place
<1>5. Target(h[v].kind, 1) = IF v = New THEN "element" ELSE "shell"
  BY <1>2 DEF Target
<1>6. h[v].own[1] = NULL
      \/ (h[v].own[1] \in Blocks /\ h[h[v].own[1]].kind = IF v = New THEN "element" ELSE "shell")
  BY <1>2, <1>4, <1>5, PointedTo
<1>7. QED
  BY <1>1, <1>2, <1>3, <1>4, <1>6

(* A task that is the first of its call is the only one when it works.     *)
LEMMA First ==
  ASSUME NEW h, NEW s, NEW c, NEW l, Good(h, s, c, l), c # <<>>, c[Len(c)].do \in FirstDo
  PROVE  Len(c) = 1 /\ DOMAIN c = {1} /\ c[1].do = c[Len(c)].do /\ c[1] \in Tasks /\ Sound(h, l)
<1>1. Len(c) \in Nat \ {0} /\ DOMAIN c = 1..Len(c) /\ Len(c) \in DOMAIN c /\ 1 \in DOMAIN c
  BY StackParts DEF Good
<1>2. ~(1 < Len(c))
  BY <1>1 DEF Good, StackOK
<1>3. Len(c) = 1 /\ DOMAIN c = {1}
  BY <1>1, <1>2
<1>4. c[1] \in Tasks
  BY <1>1, StackParts DEF Good
<1>5. Sound(h, l)
  BY Quiet DEF FirstDo, BuildDo
<1>6. QED
  BY <1>3, <1>4, <1>5

(* What holds while an element is built: nothing waits for it.             *)
LEMMA BuildParts ==
  ASSUME NEW h, NEW s, NEW c, NEW l, Good(h, s, c, l), c # <<>>, c[Len(c)].do \in BuildDo
  PROVE  /\ Len(c) = 1 /\ DOMAIN c = {1} /\ c[1].do = c[Len(c)].do /\ c[1] \in Tasks /\ Sound(h, l)
         /\ BuildOK(h, c[1]) /\ SettledOK(s) /\ h[Stored].own[1] = NULL
         /\ h[Query].own[1] # NULL => h[Message].own[1] # NULL
<1>1. Len(c) = 1 /\ DOMAIN c = {1} /\ c[1].do = c[Len(c)].do /\ c[1] \in Tasks /\ Sound(h, l)
  BY First DEF FirstDo
<1>2. BuildOK(h, c[1])
  BY <1>1 DEF Good, TasksOK, TaskOK
<1>3. h[Stored].own[1] = NULL
  BY <1>1 DEF Good, VariablesOK, BuildDo
<1>4. QED
  BY <1>1, <1>2, <1>3 DEF Good, VariablesOK

(* A step of building keeps the invariant if memory and the task stay      *)
(* right.                                                                  *)
LEMMA BuildStep ==
  ASSUME NEW g, NEW s, NEW t, NEW d, NEW l, d = <<>> => t = g, d # <<>> => t = s,
         d \in Seq(Tasks), DOMAIN d \subseteq {1}, Sound(g, l), SettledOK(s),
         \A j \in DOMAIN d : d[j].do \in BuildDo /\ BuildOK(g, d[j]),
         d = <<>> => g[New].own[1] = NULL,
         g[Stored].own[1] = NULL, g[Query].own[1] # NULL => g[Message].own[1] # NULL
  PROVE  Good(g, t, d, l)
<1>1. MemoryOK(g, d, l) /\ Freeing(d) = {}
  BY NoReleases DEF BuildDo
<1>2. TasksOK(g, s, d)
  BY DEF TasksOK, TaskOK, BuildDo, TreeDo, CopyDo
<1>3. StackOK(d)
  <2>1. ASSUME NEW j \in DOMAIN d, NEW k \in DOMAIN d, j < k PROVE FALSE
    BY <2>1
  <2>2. QED
    BY <2>1 DEF StackOK, BuildDo
<1>4. ChainOK(g, d) /\ BorrowOK(g, s, d)
  BY DEF ChainOK, BorrowOK, Borrowing, BuildDo, TreeDo, CopyDo
<1>5. d # <<>> => 1 \in DOMAIN d
  OBVIOUS
<1>6. VariablesOK(g, d)
  BY <1>5 DEF VariablesOK
<1>7. QED
  BY <1>1, <1>2, <1>3, <1>4, <1>6, Within

(* An element gets its name, its value and its data, or is released as     *)
(* far as it got.                                                          *)
LEMMA BuildGood ==
  ASSUME Good(heap, settled, calls, lost), Build, Settles
  PROVE  Good(heap', settled', calls', lost')
<1> DEFINE c == calls
           d == calls'
           t == c[1]
           el == Held(New)
<1>0. c # <<>> /\ c[Len(c)].do = "build" /\ lost' = lost /\ "build" \in BuildDo
  BY DEF Build, In, Top, BuildDo
<1>1. /\ Len(c) = 1 /\ DOMAIN c = {1} /\ t.do = "build" /\ t \in Tasks /\ Sound(heap, lost)
      /\ BuildOK(heap, t) /\ SettledOK(settled) /\ heap[Stored].own[1] = NULL
      /\ heap[Query].own[1] # NULL => heap[Message].own[1] # NULL
  BY <1>0, BuildParts
<1>2. c \in Seq(Tasks) /\ Top = t
  BY <1>1 DEF Good, Top
<1>3. t.at \in Slots /\ heap[t.at].own[1] \in Blocks /\ el \in Blocks /\ Leaf(heap, el, t.want)
      /\ (t.from # NULL => t.from \in Slots /\ t.from # t.at /\ heap[t.from].own[1] \in Blocks)
  BY <1>1 DEF BuildOK, Held
<1>4. (d = <<>> => settled' = heap') /\ (d # <<>> => settled' = settled)
  BY <1>0 DEF Settles
<1>5. CASE Goes(IF t.from = NULL THEN "add" ELSE "adopt") /\ UNCHANGED heap
  <2> DEFINE do == IF t.from = NULL THEN "add" ELSE "adopt"
             u == [t EXCEPT !.do = do]
  <2>1. do \in Doings /\ do \in {"add", "adopt"} /\ (do = "adopt" => t.from # NULL)
    BY DEF Doings, FirstDo, BuildDo
  <2> HIDE DEF do
  <2>2. u \in Tasks /\ u.do = do /\ u.at = t.at /\ u.from = t.from /\ u.want = t.want
    BY <1>1, <2>1, Going
  <2>3. d = [c EXCEPT ![Len(c)] = u]
    BY <1>2, <1>5 DEF Goes, Becomes, do
  <2> HIDE DEF u
  <2>4. d \in Seq(Tasks) /\ DOMAIN d = {1} /\ d[1] = u
    BY <1>0, <1>1, <1>2, <2>2, <2>3, Becoming
  <2>5. BuildOK(heap, u)
    <3>1. Leaf(heap, heap[New].own[1], u.want) /\ heap[New].own[1] \in Blocks
      BY <1>3, <2>2 DEF Held
    <3> HIDE DEF el, t, do
    <3>2. u.from # NULL => u.from \in Slots /\ u.from # u.at /\ heap[u.from].own[1] \in Blocks
      BY <1>3, <2>2
    <3>3. u.at \in Slots /\ heap[u.at].own[1] \in Blocks /\ (u.do = "adopt" => u.from # NULL)
      BY <1>3, <2>1, <2>2
    <3>4. QED
      BY <3>1, <3>2, <3>3 DEF BuildOK
  <2>6. d # <<>> /\ u.do \in BuildDo
    <3>1. u.do \in BuildDo
      BY <2>1, <2>2 DEF BuildDo
    <3> HIDE DEF d
    <3>2. d # <<>>
      BY <2>4
    <3>3. QED
      BY <3>1, <3>2
  <2> HIDE DEF d
  <2>7. Good(heap, settled', d, lost)
    BY <1>1, <1>4, <2>4, <2>5, <2>6, BuildStep
  <2>8. QED
    BY <1>0, <1>5, <2>7 DEF d
<1>6. CASE Completes(el, t.want) /\ UNCHANGED calls
  <2>1. PICK cell, p, k : Extends(heap, heap', Fresh, el, t.want, cell, p, k)
    BY <1>1, <1>3, <1>6, Completing
  <2>2. /\ Attachable(heap, cell, Fresh, p, k) /\ heap' = Attached(heap, cell, Fresh, p, k)
        /\ p \in Blocks /\ Leaf(heap', el, t.want)
    BY <1>3, <2>1 DEF Extends
  <2>3. Sound(heap', lost) /\ Fresh \in Blocks /\ \A b \in Addresses : b # Fresh /\ b # p => heap'[b] = heap[b]
    BY <1>1, <2>2, AttachedParts DEF Attachable
  <2>4. \A v \in Variables : heap'[v] = heap[v]
    BY <2>2, <2>3, VariableNames
  <2>5. BuildOK(heap', t)
    <3>1. \A v \in Slots \cup {New} : heap'[v] = heap[v]
      BY <2>4, VariableNames
    <3>2. QED
      BY <1>1, <1>3, <2>2, <3>1 DEF BuildOK, Held
  <2>6. calls' = c /\ settled' = settled
    BY <1>0, <1>4, <1>6
  <2>7. heap'[Stored].own[1] = NULL /\ (heap'[Query].own[1] # NULL => heap'[Message].own[1] # NULL)
    BY <1>1, <2>4, VariableNames
  <2>8. \A j \in DOMAIN c : c[j].do \in BuildDo /\ BuildOK(heap', c[j])
    BY <1>0, <1>1, <2>5
  <2> HIDE DEF c, d, t, el
  <2>9. Good(heap', settled, c, lost)
    BY <1>0, <1>1, <1>2, <2>3, <2>7, <2>8, BuildStep
  <2>10. QED
    BY <1>0, <2>6, <2>9
<1>7. CASE DropLeaf
  <2>1. heap' = Without(LeafBlocks(el), New, 1) /\ d = SubSeq(c, 1, Len(c) - 1)
    BY <1>7 DEF DropLeaf, Returns
  <2>2. /\ Sound(heap', lost) /\ heap'[New].own[1] = NULL
        /\ \A v \in Variables : v # New => heap'[v] = heap[v]
    BY <1>1, <1>3, <2>1, Dropping
  <2>3. d \in Seq(Tasks) /\ DOMAIN d = {} /\ d = <<>>
    BY <1>0, <1>1, <1>2, <2>1, Returning
  <2>4. heap'[Stored].own[1] = NULL /\ (heap'[Query].own[1] # NULL => heap'[Message].own[1] # NULL)
    BY <1>1, <2>2, VariableNames
  <2>5. settled' = heap'
    BY <1>4, <2>3
  <2> HIDE DEF d, c
  <2>6. Good(heap', settled', d, lost)
    BY <1>1, <2>2, <2>3, <2>4, <2>5, BuildStep
  <2>7. QED
    BY <1>0, <2>6 DEF d
<1>8. QED
  BY <1>2, <1>5, <1>6, <1>7 DEF Build

(* The element takes over the content of the handle that is added to       *)
(* another.                                                                *)
LEMMA AdoptGood ==
  ASSUME Good(heap, settled, calls, lost), Adopt, Settles
  PROVE  Good(heap', settled', calls', lost')
<1> DEFINE c == calls
           d == calls'
           t == c[1]
           el == heap[New].own[1]
           shell == heap[t.from].own[1]
           u == [t EXCEPT !.do = "add"]
<1>0. c # <<>> /\ c[Len(c)].do = "adopt" /\ lost' = lost /\ "adopt" \in BuildDo
  BY DEF Adopt, In, Top, BuildDo
<1>1. /\ Len(c) = 1 /\ DOMAIN c = {1} /\ t.do = "adopt" /\ t \in Tasks /\ Sound(heap, lost)
      /\ BuildOK(heap, t) /\ SettledOK(settled) /\ heap[Stored].own[1] = NULL
      /\ heap[Query].own[1] # NULL => heap[Message].own[1] # NULL
  BY <1>0, BuildParts
<1>2. c \in Seq(Tasks) /\ Top = t /\ Shaped(heap) /\ Roots(heap, lost)
  BY <1>1 DEF Good, Top, Sound
<1>3. /\ t.at \in Slots /\ heap[t.at].own[1] \in Blocks /\ el \in Blocks
      /\ t.from \in Slots /\ t.from # t.at /\ shell \in Blocks
      /\ heap[el].kind = "element" /\ heap[el].own[3] = NULL
  BY <1>1 DEF BuildOK, Leaf
<1>4. t.from \in Variables /\ t.from # New /\ t.at \in Variables /\ t.at # New
  BY <1>3, VariableNames
<1>5. heap[shell].kind = "shell" /\ ArrayOf(shell) = heap[shell].own[1]
  <2>1. heap[shell].kind = "shell"
    BY <1>1, <1>3, <1>4, VariableShape, Names
  <2>2. QED
    BY <2>1 DEF ArrayOf, Hook
<1> HIDE DEF el, shell
<1>6. /\ DOMAIN heap' = Addresses
      /\ heap' = [b \in Addresses |->
                   IF b = shell THEN Free
                   ELSE IF b = el
                        THEN Counting(Pointing(heap[el], 3, heap[shell].own[1]), heap[shell].n)
                   ELSE IF b = t.from THEN Variable("handle") ELSE heap[b]]
  BY <1>2, <1>5 DEF Adopt, Held, el, shell
<1>7. /\ shell # el /\ shell \in Addresses /\ el \in Addresses /\ t.from \in Addresses
      /\ \A v \in Variables : v # shell /\ v # el
  BY <1>3, <1>4, <1>5, VariableNames, Names
<1>8. /\ heap'[shell] = Free /\ heap'[t.from] = Variable("handle")
      /\ heap'[el] = Counting(Pointing(heap[el], 3, heap[shell].own[1]), heap[shell].n)
      /\ \A b \in Addresses \ {shell, t.from, el} : heap'[b] = heap[b]
  BY <1>4, <1>6, <1>7
<1>9. Sound(heap', lost)
  <2>1. heap[t.from].own[1] = shell
    BY DEF shell
  <2>2. Sound(heap', lost \ {shell})
    BY <1>1, <1>3, <1>4, <1>6, <1>8, <2>1, Adopting
  <2>3. Place(heap, t.from, 1)
    BY <1>1, <1>4, VariableShape
  <2>4. shell \notin lost
    BY <1>2, <2>1, <2>3 DEF Roots, Place
  <2>5. lost \ {shell} = lost
    BY <2>4
  <2>6. QED
    BY <2>2, <2>5
<1>10. \A v \in Variables : v # t.from => heap'[v] = heap[v]
  BY <1>7, <1>8, VariableNames
<1>11. u \in Tasks /\ u.do = "add" /\ u.at = t.at /\ u.from = t.from
  BY <1>1, Going DEF Doings, FirstDo, BuildDo
<1>12. d = [c EXCEPT ![Len(c)] = u]
  BY <1>1, <1>2 DEF Adopt, Goes, Becomes
<1> HIDE DEF u
<1>13. d \in Seq(Tasks) /\ DOMAIN d = {1} /\ d[1] = u
  BY <1>0, <1>1, <1>2, <1>11, <1>12, Becoming
<1>14. BuildOK(heap', u)
  <2>1. heap'[t.at] = heap[t.at] /\ heap'[New] = heap[New]
    BY <1>3, <1>4, <1>10, VariableNames
  <2>2. heap'[New].own[1] \in Blocks /\ heap'[t.at].own[1] \in Blocks
    BY <1>3, <2>1 DEF el
  <2>3. u.from # NULL
    BY <1>4, <1>11, VariableNames
  <2>4. QED
    BY <1>3, <1>11, <2>2, <2>3 DEF BuildOK
<1>15. heap'[Stored].own[1] = NULL /\ (heap'[Query].own[1] # NULL => heap'[Message].own[1] # NULL)
  BY <1>1, <1>3, <1>10, VariableNames
<1>16. d # <<>> /\ settled' = settled /\ u.do \in BuildDo
  <2>1. d # <<>> /\ u.do \in BuildDo
    <3>1. u.do \in BuildDo
      BY <1>11 DEF BuildDo
    <3> HIDE DEF d
    <3>2. d # <<>>
      BY <1>13
    <3>3. QED
      BY <3>1, <3>2
  <2>2. QED
    BY <1>0, <2>1 DEF Settles
<1> HIDE DEF d
<1>17. Good(heap', settled', d, lost)
  BY <1>1, <1>9, <1>13, <1>14, <1>15, <1>16, BuildStep
<1>18. QED
  BY <1>0, <1>17 DEF d

(* The array of the handle grows by the element; or there is no memory,    *)
(* and the element is released, or lost if it has taken something over.    *)
LEMMA AddGood ==
  ASSUME Good(heap, settled, calls, lost), Add, Settles
  PROVE  Good(heap', settled', calls', lost')
<1> DEFINE c == calls
           d == calls'
           t == c[1]
           el == Held(New)
           p == Held(t.at)
<1>0. c # <<>> /\ c[Len(c)].do = "add" /\ "add" \in BuildDo
  BY DEF Add, In, Top, BuildDo
<1>1. /\ Len(c) = 1 /\ DOMAIN c = {1} /\ t.do = "add" /\ t \in Tasks /\ Sound(heap, lost)
      /\ BuildOK(heap, t) /\ SettledOK(settled) /\ heap[Stored].own[1] = NULL
      /\ heap[Query].own[1] # NULL => heap[Message].own[1] # NULL
  BY <1>0, BuildParts
<1>2. c \in Seq(Tasks) /\ Top = t /\ Shaped(heap) /\ Roots(heap, lost)
  BY <1>1 DEF Good, Top, Sound
<1>3. /\ t.at \in Slots /\ p \in Blocks /\ el \in Blocks /\ el = heap[New].own[1]
      /\ t.from = NULL => Leaf(heap, el, t.want)
  BY <1>1 DEF BuildOK, Held
<1>4. d = SubSeq(c, 1, Len(c) - 1)
  BY <1>2 DEF Add, DropLeaf, Returns
<1>5. d \in Seq(Tasks) /\ DOMAIN d = {} /\ d = <<>>
  BY <1>0, <1>1, <1>2, <1>4, Returning
<1>6. settled' = heap'
  BY <1>5 DEF Settles
<1> HIDE DEF d
<1>7. ASSUME NEW l, Sound(heap', l), heap'[New].own[1] = NULL,
             \A v \in Variables : v # New => heap'[v] = heap[v]
      PROVE  Good(heap', settled', d, l)
  <2>1. heap'[Stored].own[1] = NULL /\ (heap'[Query].own[1] # NULL => heap'[Message].own[1] # NULL)
    BY <1>1, <1>7, VariableNames
  <2>2. QED
    BY <1>1, <1>5, <1>6, <1>7, <2>1, BuildStep
<1>8. CASE Room /\ lost' = lost /\ \E residue \in {NULL, WILD} : heap' = Grown(p, residue)
  <2> DEFINE a == heap[p].own[1]
             n == heap[p].n
             f == Fresh
  <2>1. PICK residue \in {NULL, WILD} : heap' = Grown(p, residue)
    BY <1>8
  <2>2. f \in Blocks /\ f \in Addresses /\ heap[f].kind = "free"
    BY <1>8, FreshParts
  <2>3. heap[p].kind = "shell" /\ ArrayOf(p) = a /\ p \in Addresses
    <3>1. heap[p].kind = "shell"
      BY <1>1, <1>3, VariableShape, VariableNames, Names DEF Held
    <3>2. QED
      BY <1>3, <3>1, Names DEF ArrayOf, Hook
  <2>4. a = NULL \/ (a \in Blocks /\ a \in Addresses /\ heap[a].kind = "array")
    <3>1. Hook(heap[p]) = 1
      BY <2>3 DEF Hook
    <3>2. QED
      BY <1>1, <1>3, <2>3, <3>1, Entries
  <2>5. New \in Addresses /\ New \notin Blocks /\ New # NULL
    BY VariableNames
  <2>6. f # p /\ f # New /\ p # New /\ a # f /\ a # p /\ a # New
    BY <1>3, <2>2, <2>3, <2>4, <2>5, Names
  <2> HIDE DEF f, a
  <2>7. heap' = [b \in Addresses |->
                   IF b = f THEN Cell("array", NULL, n + 1, Longer(p, el, residue))
                   ELSE IF b = p THEN Counting(Pointing(heap[p], 1, f), n + 1)
                   ELSE IF b = a THEN Free
                   ELSE IF b = New THEN Variable("local") ELSE heap[b]]
    BY <2>1, <2>3 DEF Grown, f
  <2>8. Longer(p, el, residue)
        = [i \in 1..(n + 1) |-> IF i > n THEN el ELSE IF a = NULL THEN residue ELSE heap[a].own[i]]
    BY <2>3 DEF Longer
  <2>9. /\ DOMAIN heap' = Addresses
        /\ heap'[f] = Cell("array", NULL, n + 1,
                           [i \in 1..(n + 1) |->
                              IF i > n THEN el ELSE IF a = NULL THEN residue ELSE heap[a].own[i]])
    BY <2>2, <2>7, <2>8
  <2>10. /\ heap'[p] = Counting(Pointing(heap[p], 1, f), n + 1)
         /\ a \in Blocks => heap'[a] = Free
         /\ heap'[New] = Variable("local")
         /\ \A b \in Addresses \ {f, p, a, New} : heap'[b] = heap[b]
    <3> HIDE DEF n, p, el
    <3>1. heap'[p] = Counting(Pointing(heap[p], 1, f), n + 1)
      BY <2>3, <2>6, <2>7
    <3>2. a \in Blocks => heap'[a] = Free
      BY <2>4, <2>6, <2>7, Names
    <3>3. heap'[New] = Variable("local")
      BY <2>5, <2>6, <2>7
    <3>4. \A b \in Addresses \ {f, p, a, New} : heap'[b] = heap[b]
      BY <2>7
    <3>5. QED
      BY <3>1, <3>2, <3>3, <3>4
  <2>11. Sound(heap', lost \ {a})
    <3>1. n = heap[p].n /\ a = heap[p].own[1]
      BY DEF a
    <3> HIDE DEF n, p, el
    <3>2. QED
      BY <1>1, <1>3, <2>2, <2>3, <2>9, <2>10, <3>1, Growing
  <2>12. lost \ {a} = lost
    <3>1. Size(heap[p]) = 1
      BY <2>3 DEF Size
    <3>2. a \notin lost
      BY <1>2, <2>3, <3>1 DEF Roots, a
    <3>3. QED
      BY <3>2
  <2>13. heap'[New].own[1] = NULL
    BY <2>10, VariableParts
  <2>14. \A v \in Variables : v # New => heap'[v] = heap[v]
    BY <1>3, <2>2, <2>4, <2>10, VariableNames
  <2>15. Good(heap', settled', d, lost)
    BY <1>7, <2>11, <2>12, <2>13, <2>14
  <2>16. QED
    BY <1>8, <2>15 DEF d
<1>9. CASE t.from = NULL /\ DropLeaf /\ lost' = lost
  <2>1. heap' = Without(LeafBlocks(el), New, 1)
    BY <1>9 DEF DropLeaf
  <2>2. /\ Sound(heap', lost) /\ heap'[New].own[1] = NULL
        /\ \A v \in Variables : v # New => heap'[v] = heap[v]
    BY <1>1, <1>3, <1>9, <2>1, Dropping
  <2>3. QED
    BY <1>7, <1>9, <2>2 DEF d
<1>10. CASE lost' = lost \cup {el} /\ heap' = Cleared({New})
  <2>1. /\ New \in Addresses /\ Hook(heap[New]) = 1 /\ Hook(heap[New]) \in 1..Size(heap[New])
    BY <1>1, VariableShape, VariableNames
  <2>2. /\ Sound(heap', lost \cup ({el} \cap Blocks))
        /\ \A b \in Addresses : b # New => heap'[b] = heap[b]
        /\ heap'[New].own[1] = NULL
    <3>1. Sound(heap, lost) /\ heap' = Cleared({New}) /\ el = heap[New].own[Hook(heap[New])]
      BY <1>1, <1>3, <1>10, <2>1
    <3> HIDE DEF c, d, t, el, p
    <3>2. QED
      BY <2>1, <3>1, ClearingOne
  <2>3. {el} \cap Blocks = {el}
    BY <1>3
  <2>4. heap'[New].own[1] = NULL /\ \A v \in Variables : v # New => heap'[v] = heap[v]
    BY <2>1, <2>2, VariableNames
  <2>5. Sound(heap', lost \cup {el})
    BY <2>2, <2>3
  <2>6. Good(heap', settled', d, lost \cup {el})
    BY <1>7, <2>4, <2>5
  <2>7. QED
    BY <1>10, <2>6 DEF d
<1>11. QED
  BY <1>2, <1>8, <1>9, <1>10 DEF Add
-----------------------------------------------------------------------------
(* Copying *)

(* What holds while the innermost task copies.                             *)
LEMMA CopyFacts ==
  ASSUME NEW h, NEW s, NEW c, NEW l, Good(h, s, c, l), c # <<>>, NEW m, m = Len(c),
         c[m].do \in CopyDo
  PROVE  /\ c \in Seq(Tasks) /\ m \in DOMAIN c /\ m \in Nat /\ m > 0 /\ DOMAIN c = 1..m
         /\ c[m] \in Tasks /\ CopyOK(h, s, c, c[m])
         /\ Freeing(c) = {} /\ Sound(h, l) /\ Apart(h, s) /\ SettledOK(s)
         /\ \A j \in DOMAIN c : c[j].do \notin {"release", "pack"}
         /\ \A j \in DOMAIN c : j # m => j < m /\ c[j].do \in {"checkTree", "copiedBelow", "answer", "loaded"}
<1>1. c \in Seq(Tasks) /\ m \in DOMAIN c /\ m \in Nat /\ m > 0 /\ DOMAIN c = 1..m
      /\ c[m] \in Tasks /\ \A j \in DOMAIN c : j # m => j < m
  BY StackParts DEF Good
<1>2. c[m].do \notin {"release", "pack"} /\ c[m].do \in Borrowing
  BY DEF CopyDo, Borrowing
<1>3. Freeing(c) = {} /\ Sound(h, l) /\ \A j \in DOMAIN c : c[j].do \notin {"release", "pack"}
  BY <1>2, Quiet
<1>4. CopyOK(h, s, c, c[m])
  BY <1>1 DEF Good, TasksOK, TaskOK
<1>5. Apart(h, s) /\ SettledOK(s)
  BY <1>1, <1>2 DEF Good, BorrowOK
<1>6. \A j \in DOMAIN c : j # m => c[j].do \in Waiting
  BY <1>1 DEF Good, StackOK
<1>7. QED
  BY <1>1, <1>3, <1>4, <1>5, <1>6 DEF Waiting

(* What it works on is not what a waiting task relies on.                  *)
LEMMA Strangers ==
  ASSUME NEW h, NEW s, NEW c, NEW l, Good(h, s, c, l), c # <<>>, NEW m, m = Len(c),
         c[m].do \in CopyDo, NEW j \in DOMAIN c, c[j].do = "copiedBelow", j # m
  PROVE  /\ c[j].at # c[m].at /\ Hooked(h, c[j]) # c[m].at
         /\ c[m].do # "deepCopy" =>
              c[j].at # Hooked(h, c[m]) /\ Hooked(h, c[j]) # Hooked(h, c[m])
<1> DEFINE t == c[m]
           u == c[j]
<1>1. m \in DOMAIN c /\ CopyOK(h, s, c, t) /\ Sound(h, l)
  BY CopyFacts
<1>2. t.at \in Blocks /\ h[t.at].kind \in {"shell", "element"}
  BY <1>1 DEF CopyOK
<1>3. /\ u.at \in Addresses /\ h[u.at].kind \in {"shell", "element"} /\ Hook(h[u.at]) \in 1..Size(h[u.at])
      /\ Hooked(h, u) \in Blocks /\ h[Hooked(h, u)].kind = "array"
  BY CopyParts DEF CopyDo
<1>4. u.at # t.at
  BY <1>1 DEF Good, ChainOK, CopyDo
<1>5. ASSUME t.do # "deepCopy"
      PROVE  u.at # Hooked(h, t) /\ Hooked(h, u) # Hooked(h, t)
  <2>1. /\ t.at \in Addresses /\ Hook(h[t.at]) \in 1..Size(h[t.at])
        /\ Hooked(h, t) \in Blocks /\ h[Hooked(h, t)].kind = "array"
    BY <1>1, <1>5, CopyParts
  <2>2. Hooked(h, u) # Hooked(h, t)
    BY <1>1, <1>3, <1>4, <2>1 DEF Sound, Unique, Hooked
  <2>3. QED
    BY <1>3, <2>1, <2>2
<1>6. QED
  BY <1>2, <1>3, <1>4, <1>5

(* Nor is the element that was just copied anything that is being filled.  *)
LEMMA ChildNew ==
  ASSUME NEW h, NEW s, NEW c, NEW l, Good(h, s, c, l), c # <<>>, NEW m, m = Len(c),
         c[m].do \in {"copyLeaf", "copyBelow", "copiedBelow"},
         NEW j \in DOMAIN c, c[j].do \in CopyDo
  PROVE  Child(h, c[m]) # c[j].at
<1> DEFINE t == c[m]
           el == Child(h, t)
           a == Hooked(h, t)
<1>0. c[m].do \in CopyDo
  BY DEF CopyDo
<1>1. m \in DOMAIN c /\ m \in Nat /\ Sound(h, l) /\ \A k \in DOMAIN c : k # m => k < m
  BY <1>0, CopyFacts
<1>2. /\ t.at \in Addresses /\ Hook(h[t.at]) \in 1..Size(h[t.at])
      /\ a \in Blocks /\ a \in Addresses /\ h[a].kind = "array"
      /\ t.i \in 1..Size(h[a]) /\ el \in Blocks /\ h[el].kind = "element" /\ el = h[a].own[t.i]
  BY <1>0, <1>1, CopyParts
<1>3. ASSUME el = c[j].at PROVE FALSE
  <2>1. Anchored(h, c, j)
    BY DEF Good, ChainOK
  <2>2. ASSUME NEW v \in Handles, h[v].own[1] = c[j].at PROVE FALSE
    <3>1. v \in Variables /\ v # New
      BY VariableNames
    <3>2. h[el].kind = "shell"
      BY <1>1, <1>2, <1>3, <2>2, <3>1, VariableShape, Names
    <3>3. QED
      BY <1>2, <3>2
  <2>3. CASE j - 1 \in DOMAIN c /\ c[j - 1].do = "copiedBelow" /\ c[j].at = Child(h, c[j - 1])
    <3> DEFINE u == c[j - 1]
               b == Hooked(h, u)
    <3>1. /\ u.at \in Addresses /\ Hook(h[u.at]) \in 1..Size(h[u.at])
          /\ b \in Blocks /\ b \in Addresses /\ u.i \in 1..Size(h[b]) /\ Child(h, u) = h[b].own[u.i]
      BY <2>3, CopyParts DEF CopyDo
    <3>2. a = b
      <4>1. h[a].own[t.i] = h[b].own[u.i] /\ h[a].own[t.i] \in Blocks
        BY <1>2, <1>3, <2>3, <3>1
      <4> HIDE DEF a, b, t, u, el
      <4>2. QED
        BY <1>1, <1>2, <3>1, <4>1 DEF Sound, Unique
    <3>3. t.at = u.at
      BY <1>1, <1>2, <3>1, <3>2 DEF Sound, Unique, Hooked
    <3>4. m = j - 1
      BY <1>0, <1>1, <2>3, <3>3 DEF Good, ChainOK, CopyDo
    <3>5. QED
      BY <1>1, <3>4, StackParts DEF Good
  <2>4. QED
    BY <2>1, <2>2, <2>3 DEF Anchored
<1>4. QED
  BY <1>3

(* A step of the innermost task in a memory h that becomes g, with a stack *)
(* c that becomes d: nothing changes for the tasks that wait, and what the *)
(* task becomes or calls finds what it relies on.                          *)
Unmoved(h, g, c) ==
  \A b \in Addresses : g[b] # h[b] =>
    b \in Blocks /\ \A j \in DOMAIN c : c[j].do = "copiedBelow" => b # c[j].at /\ b # Hooked(h, c[j])

Continued(c, d, m) ==
  /\ DOMAIN d \subseteq DOMAIN c \cup {m + 1}
  /\ DOMAIN c \ {m} \subseteq DOMAIN d
  /\ \A j \in DOMAIN c : j # m => d[j] = c[j]
  /\ m + 1 \in DOMAIN d =>
       /\ m \in DOMAIN d /\ d[m].do = "copiedBelow"
       /\ \A j \in DOMAIN c : c[j].do \in CopyDo => d[m + 1].at # c[j].at
  /\ m \in DOMAIN d /\ d[m].do \in CopyDo => d[m].at = c[m].at

Prepared(g, s, d, m) ==
  \A j \in DOMAIN d : j \in {m, m + 1} =>
    /\ d[j].do \in CopyDo \cup {"release"}
    /\ TaskOK(g, s, d, d[j])
    /\ d[j].do \in CopyDo => Anchored(g, d, j)

Harmless(s, c, d) ==
  \A q \in Freeing(d) :
    /\ s[q].kind = "free"
    /\ \A j \in DOMAIN c : c[j].do = "copiedBelow" => q # c[j].at

(* A step of a copy keeps the invariant if what it leaves on the stack is  *)
(* right.                                                                  *)
LEMMA CopyStep ==
  ASSUME NEW h, NEW s, NEW c, NEW l, Good(h, s, c, l), c # <<>>, NEW m, m = Len(c),
         c[m].do \in CopyDo,
         NEW g, NEW d, d \in Seq(Tasks), NEW t, d = <<>> => t = g, d # <<>> => t = s,
         Unmoved(h, g, c), Continued(c, d, m), Prepared(g, s, d, m), Harmless(s, c, d),
         MemoryOK(g, d, l), Apart(g, s)
  PROVE  Good(g, t, d, l)
<1>0. /\ \A b \in Addresses : g[b] # h[b] =>
           b \in Blocks /\ \A j \in DOMAIN c : c[j].do = "copiedBelow" => b # c[j].at /\ b # Hooked(h, c[j])
      /\ DOMAIN d \subseteq DOMAIN c \cup {m + 1} /\ DOMAIN c \ {m} \subseteq DOMAIN d
      /\ \A j \in DOMAIN c : j # m => d[j] = c[j]
      /\ m + 1 \in DOMAIN d =>
           /\ m \in DOMAIN d /\ d[m].do = "copiedBelow"
           /\ \A j \in DOMAIN c : c[j].do \in CopyDo => d[m + 1].at # c[j].at
      /\ \A j \in DOMAIN d : j \in {m, m + 1} =>
           /\ d[j].do \in CopyDo \cup {"release"} /\ TaskOK(g, s, d, d[j])
           /\ d[j].do \in CopyDo => Anchored(g, d, j)
      /\ m \in DOMAIN d /\ d[m].do \in CopyDo => d[m].at = c[m].at
      /\ \A q \in Freeing(d) : s[q].kind = "free"
           /\ \A j \in DOMAIN c : c[j].do = "copiedBelow" => q # c[j].at
  BY DEF Unmoved, Continued, Prepared, Harmless
<1> USE <1>0
<1>1. /\ c \in Seq(Tasks) /\ m \in DOMAIN c /\ m \in Nat /\ DOMAIN c = 1..m
      /\ SettledOK(s)
      /\ \A j \in DOMAIN c : j # m => j < m /\ c[j].do \in {"checkTree", "copiedBelow", "answer", "loaded"}
  BY CopyFacts
<1>2. Steady(h, g, c, d)
  <2>1. \A v \in Variables : g[v] = h[v]
    BY VariableNames
  <2>2. ASSUME NEW j \in DOMAIN c, c[j].do = "copiedBelow"
        PROVE  /\ g[c[j].at] = h[c[j].at] /\ g[Hooked(h, c[j])] = h[Hooked(h, c[j])]
               /\ c[j].at \notin Freeing(d)
    <3>1. c[j].at \in Addresses /\ Hooked(h, c[j]) \in Addresses
      BY <2>2, CopyParts DEF CopyDo
    <3>2. QED
      BY <2>2, <3>1
  <2>3. QED
    BY <2>1, <2>2 DEF Steady
<1>3. TasksOK(g, s, d)
  <2>1. ASSUME NEW j \in DOMAIN d PROVE TaskOK(g, s, d, d[j])
    <3>1. CASE j \in {m, m + 1}
      BY <3>1
    <3>2. CASE j \notin {m, m + 1}
      <4>1. j \in DOMAIN c /\ j # m /\ d[j] = c[j] /\ c[j].do \in Waiting \ {"pack"}
        BY <1>1, <3>2 DEF Waiting
      <4>2. QED
        BY <1>2, <4>1, Waits
    <3>3. QED
      BY <3>1, <3>2
  <2>2. QED
    BY <2>1 DEF TasksOK
<1>4. StackOK(d)
  <2>1. \A j \in DOMAIN d : d[j].do # "pack"
    BY <1>1 DEF CopyDo
  <2>2. ASSUME NEW j \in DOMAIN d, NEW k \in DOMAIN d, j < k
        PROVE  /\ d[j].do \in Waiting
               /\ d[j].do = "release" => d[k].do \in {"release", "pack"}
               /\ d[k].do \notin FirstDo
               /\ d[k].do \in TreeDo =>
                    d[j].do = IF d[k].do = "copyTreeUnchecked" THEN "answer" ELSE "loaded"
    <3>1. CASE k \in {m, m + 1}
      <4>1. d[k].do \notin FirstDo /\ d[k].do \notin TreeDo
        BY <3>1 DEF FirstDo, BuildDo, TreeDo, CopyDo
      <4>2. d[j].do \in Waiting /\ d[j].do # "release"
        <5>1. CASE j = m
          <6>1. k = m + 1
            BY <1>1, <2>2, <3>1, <5>1
          <6>2. QED
            BY <5>1, <6>1 DEF Waiting
        <5>2. CASE j # m
          <6>1. j \in DOMAIN c /\ j < m
            BY <1>1, <2>2, <3>1, <5>2
          <6>2. QED
            BY <1>1, <5>2, <6>1 DEF Waiting
        <5>3. QED
          BY <5>1, <5>2
      <4>3. QED
        BY <4>1, <4>2
    <3>2. CASE k \notin {m, m + 1}
      <4>1. k \in DOMAIN c /\ k # m /\ k < m
        BY <1>1, <3>2
      <4>2. j \in DOMAIN c /\ j # m
        BY <1>1, <2>2, <4>1
      <4>3. QED
        BY <2>2, <4>1, <4>2 DEF Good, StackOK
    <3>3. QED
      BY <3>1, <3>2
  <2>3. QED
    BY <2>1, <2>2 DEF StackOK
<1>5. ChainOK(g, d)
  <2>1. ASSUME NEW j \in DOMAIN d, d[j].do \in CopyDo PROVE Anchored(g, d, j)
    <3>1. CASE j \in {m, m + 1}
      BY <2>1, <3>1
    <3>2. CASE j \notin {m, m + 1}
      <4>1. j \in DOMAIN c /\ j # m /\ d[j] = c[j] /\ j < m
        BY <1>1, <3>2
      <4>2. j - 1 \in DOMAIN c => j - 1 \in DOMAIN d /\ d[j - 1] = c[j - 1]
        BY <1>1, <4>1
      <4>3. QED
        BY <1>2, <2>1, <4>1, <4>2, Anchors
    <3>3. QED
      BY <3>1, <3>2
  <2>2. ASSUME NEW j \in DOMAIN d, NEW k \in DOMAIN d, d[j].do \in CopyDo, d[k].do \in CopyDo, d[j].at = d[k].at
        PROVE  j = k
    <3>1. \A x \in DOMAIN d : d[x].do \in CopyDo =>
            x = m + 1 \/ (x \in DOMAIN c /\ c[x].do \in CopyDo /\ d[x].at = c[x].at)
      BY <1>1
    <3>2. \A x, y \in DOMAIN c : c[x].do \in CopyDo /\ c[y].do \in CopyDo /\ c[x].at = c[y].at => x = y
      BY DEF Good, ChainOK
    <3>3. QED
      BY <2>2, <3>1, <3>2
  <2>3. QED
    BY <2>1, <2>2 DEF ChainOK
<1>6. BorrowOK(g, s, d)
  BY DEF BorrowOK
<1>7. VariablesOK(g, d)
  <2>1. g[New] = h[New] /\ g[Stored] = h[Stored] /\ g[Query] = h[Query] /\ g[Message] = h[Message]
    BY <1>2, VariableNames DEF Steady
  <2>2. \A j \in DOMAIN c : c[j].do \in BuildDo \cup {"loaded"} => j \in DOMAIN d /\ d[j] = c[j]
    BY DEF CopyDo, BuildDo
  <2>3. QED
    BY <2>1, <2>2 DEF Good, VariablesOK
<1>8. QED
  BY <1>1, <1>3, <1>4, <1>5, <1>6, <1>7, Within

(* The same task goes on.                                                  *)
LEMMA CopyGoes ==
  ASSUME NEW h, NEW s, NEW c, NEW l, Good(h, s, c, l), c # <<>>, NEW m, m = Len(c),
         c[m].do \in CopyDo,
         NEW g, NEW u \in Tasks, u.do \in CopyDo, u.at = c[m].at, NEW d, d = [c EXCEPT ![m] = u],
         Unmoved(h, g, c), Sound(g, l), Apart(g, s), CopyOK(g, s, c, u)
  PROVE  Good(g, s, d, l) /\ d # <<>>
<1>1. /\ c \in Seq(Tasks) /\ m \in DOMAIN c /\ m \in Nat /\ DOMAIN c = 1..m /\ Freeing(c) = {}
      /\ \A j \in DOMAIN c : c[j].do \notin {"release", "pack"}
      /\ \A j \in DOMAIN c : j # m => j < m
  BY CopyFacts
<1>2. d \in Seq(Tasks) /\ Len(d) = m /\ DOMAIN d = DOMAIN c /\ d[m] = u /\ \A j \in DOMAIN c : j # m => d[j] = c[j]
  BY <1>1, Becoming
<1>3. d # <<>>
  BY <1>1, <1>2
<1>4. \A j \in DOMAIN d : d[j].do # "release"
  BY <1>1, <1>2 DEF CopyDo
<1>5. MemoryOK(g, d, l) /\ Freeing(d) = {}
  BY <1>4, NoReleases
<1>6. TaskOK(g, s, d, u)
  <2>1. CopyOK(g, s, d, u)
    BY <1>1, <1>5 DEF CopyOK
  <2>2. QED
    BY <2>1 DEF TaskOK, CopyDo, TreeDo, BuildDo
<1>7. Steady(h, g, c, d)
  <2>1. \A v \in Variables : g[v] = h[v]
    BY VariableNames DEF Unmoved
  <2>2. ASSUME NEW j \in DOMAIN c, c[j].do = "copiedBelow"
        PROVE  g[c[j].at] = h[c[j].at] /\ g[Hooked(h, c[j])] = h[Hooked(h, c[j])]
    <3>1. c[j].at \in Addresses /\ Hooked(h, c[j]) \in Addresses
      BY <2>2, CopyParts DEF CopyDo
    <3>2. QED
      BY <2>2, <3>1 DEF Unmoved
  <2>3. QED
    BY <1>5, <2>1, <2>2 DEF Steady
<1>8. Anchored(g, d, m)
  <2>1. m - 1 \in DOMAIN c => m - 1 \in DOMAIN d /\ d[m - 1] = c[m - 1]
    BY <1>1, <1>2
  <2>2. QED
    BY <1>1, <1>2, <1>7, <2>1, Anchors
<1>9. m + 1 \notin DOMAIN d
  BY <1>1, <1>2
<1>10. Prepared(g, s, d, m)
  BY <1>2, <1>6, <1>8, <1>9 DEF Prepared
<1>11. Continued(c, d, m)
  BY <1>2, <1>9 DEF Continued
<1>12. Good(g, s, d, l)
  <2>1. d \in Seq(Tasks) /\ MemoryOK(g, d, l)
    BY <1>2, <1>5
  <2>2. Harmless(s, c, d)
    BY <1>5 DEF Harmless
  <2>3. QED
    BY <1>3, <1>10, <1>11, <2>1, <2>2, CopyStep
<1>13. QED
  BY <1>3, <1>12

(* A copy returns to the task that waits for it.                           *)
LEMMA CopyReturns ==
  ASSUME NEW h, NEW s, NEW c, NEW l, Good(h, s, c, l), c # <<>>, c[Len(c)].do \in CopyDo,
         NEW d, d = SubSeq(c, 1, Len(c) - 1), NEW t, d = <<>> => t = h, d # <<>> => t = s
  PROVE  Good(h, t, d, l)
<1> DEFINE m == Len(c)
<1>1. /\ c \in Seq(Tasks) /\ m \in DOMAIN c /\ m \in Nat /\ DOMAIN c = 1..m /\ Freeing(c) = {}
      /\ \A j \in DOMAIN c : c[j].do \notin {"release", "pack"}
      /\ Sound(h, l) /\ Apart(h, s)
  BY CopyFacts
<1>2. d \in Seq(Tasks) /\ DOMAIN d = DOMAIN c \ {m} /\ \A j \in DOMAIN d : d[j] = c[j]
  BY <1>1, Returning
<1>3. \A j \in DOMAIN d : d[j].do # "release"
  BY <1>1, <1>2
<1>4. MemoryOK(h, d, l) /\ Freeing(d) = {}
  BY <1>1, <1>3, NoReleases
<1>5. m \notin DOMAIN d /\ m + 1 \notin DOMAIN d
  BY <1>1, <1>2
<1>6. Continued(c, d, m)
  BY <1>2, <1>5 DEF Continued
<1>7. Harmless(s, c, d)
  BY <1>4 DEF Harmless
<1>8. d \in Seq(Tasks)
  BY <1>2
<1>9. MemoryOK(h, d, l)
  BY <1>4
<1>10. Prepared(h, s, d, m)
  BY <1>5 DEF Prepared
<1>11. Unmoved(h, h, c)
  BY DEF Unmoved
<1>12. Apart(h, s)
  BY <1>1
<1>13. QED
  BY <1>6, <1>7, <1>8, <1>9, <1>10, <1>11, <1>12, CopyStep

(* What the innermost task works on: the block that gets an array, that    *)
(* array, and its entry; all of them are new.                              *)
LEMMA CopyTarget ==
  ASSUME NEW h, NEW s, NEW c, NEW l, Good(h, s, c, l), c # <<>>, NEW m, m = Len(c),
         c[m].do \in CopyDo, NEW t, t = c[m]
  PROVE  /\ t.at \in Blocks /\ t.at \in Addresses /\ h[t.at].kind \in {"shell", "element"}
         /\ ShapeOK(h[t.at], Pointers) /\ h[t.at].n \in Nat
         /\ Hook(h[t.at]) \in 1..Size(h[t.at]) /\ Target(h[t.at].kind, Hook(h[t.at])) = "array"
         /\ s[t.at].kind = "free"
         /\ \A j \in DOMAIN c : j # m /\ c[j].do = "copiedBelow" =>
              t.at # c[j].at /\ t.at # Hooked(h, c[j])
<1>1. m \in DOMAIN c /\ CopyOK(h, s, c, t) /\ Sound(h, l)
  BY CopyFacts
<1>2. t.at \in Blocks /\ t.at \in Addresses /\ h[t.at].kind \in {"shell", "element"} /\ s[t.at].kind = "free"
  BY <1>1, Names DEF CopyOK
<1>3. ShapeOK(h[t.at], Pointers) /\ h[t.at].n \in Nat
  BY <1>1, <1>2 DEF Sound, Shaped, ShapeOK
<1>4. Hook(h[t.at]) \in 1..Size(h[t.at]) /\ Target(h[t.at].kind, Hook(h[t.at])) = "array"
  BY <1>2 DEF Hook, Size, Target
<1>5. \A j \in DOMAIN c : j # m /\ c[j].do = "copiedBelow" =>
        t.at # c[j].at /\ t.at # Hooked(h, c[j])
  BY Strangers
<1>6. QED
  BY <1>2, <1>3, <1>4, <1>5

(* The array that is copied to is new, and no other task copies to it.     *)
LEMMA CopyArrayParts ==
  ASSUME NEW h, NEW s, NEW c, NEW l, Good(h, s, c, l), c # <<>>, NEW m, m = Len(c),
         c[m].do \in CopyDo \ {"deepCopy"}, NEW t, t = c[m], NEW a, a = Hooked(h, t)
  PROVE  /\ a \in Blocks /\ a \in Addresses /\ h[a].kind = "array" /\ a # t.at
         /\ h[a].n = h[t.at].n /\ Size(h[a]) = h[t.at].n
         /\ s[a].kind = "free" /\ t.from # NULL /\ a \notin l
         /\ \A j \in DOMAIN c : j # m /\ c[j].do = "copiedBelow" =>
              a # c[j].at /\ a # Hooked(h, c[j])
<1>1. m \in DOMAIN c /\ CopyOK(h, s, c, t) /\ Apart(h, s)
  BY CopyFacts
<1>2. /\ a \in Blocks /\ a \in Addresses /\ h[a].kind = "array" /\ h[t.at].kind \in {"shell", "element"}
      /\ h[a].n = h[t.at].n /\ Size(h[a]) = h[t.at].n /\ a \notin l
      /\ t.at \in Blocks /\ Hook(h[t.at]) \in 1..Size(h[t.at])
  BY <1>1, CopyParts
<1>3. s[t.at].kind = "free" /\ t.from # NULL
  BY <1>1 DEF CopyOK
<1>4. s[a].kind = "free"
  BY <1>1, <1>2, <1>3 DEF Apart, Hooked
<1>5. \A j \in DOMAIN c : j # m /\ c[j].do = "copiedBelow" =>
        a # c[j].at /\ a # Hooked(h, c[j])
  BY Strangers
<1>6. QED
  BY <1>2, <1>3, <1>4, <1>5

(* The element that is copied to is new, and leads from the array that is  *)
(* copied to.                                                              *)
LEMMA CopyChild ==
  ASSUME NEW h, NEW s, NEW c, NEW l, Good(h, s, c, l), c # <<>>, NEW m, m = Len(c),
         c[m].do \in {"copyLeaf", "copyBelow", "copiedBelow"}, NEW t, t = c[m],
         NEW el, el = Child(h, t)
  PROVE  /\ el \in Blocks /\ el \in Addresses /\ h[el].kind = "element"
         /\ el # t.at /\ el # Hooked(h, t)
         /\ t.i \in 1..h[t.at].n /\ t.i \in 1..Size(h[Hooked(h, t)])
         /\ h[Hooked(h, t)].own[t.i] = el
         /\ s[el].kind = "free"
         /\ \A j \in DOMAIN c : c[j].do = "copiedBelow" => el # c[j].at /\ el # Hooked(h, c[j])
<1> DEFINE a == Hooked(h, t)
<1>0. c[m].do \in CopyDo \ {"deepCopy"}
  BY DEF CopyDo
<1>1. m \in DOMAIN c /\ Apart(h, s)
  BY <1>0, CopyFacts
<1>2. a \in Blocks /\ h[a].kind = "array" /\ s[a].kind = "free" /\ Size(h[a]) = h[t.at].n
  BY <1>0, CopyArrayParts
<1>3. /\ t.i \in 1..Size(h[a]) /\ el \in Blocks /\ el \in Addresses /\ h[el].kind = "element" /\ el = h[a].own[t.i]
  BY <1>0, <1>1, CopyParts
<1>4. s[el].kind = "free"
  BY <1>1, <1>2, <1>3 DEF Apart
<1>5. \A j \in DOMAIN c : c[j].do \in CopyDo => el # c[j].at
  BY ChildNew
<1>6. \A j \in DOMAIN c : c[j].do = "copiedBelow" => h[Hooked(h, c[j])].kind = "array"
  BY CopyParts DEF CopyDo
<1>7. QED
  BY <1>0, <1>1, <1>2, <1>3, <1>4, <1>5, <1>6 DEF CopyDo

(* What it copies from was there before, and is as it was.                 *)
LEMMA CopySource ==
  ASSUME NEW h, NEW s, NEW c, NEW l, Good(h, s, c, l), c # <<>>, NEW m, m = Len(c),
         c[m].do \in CopyDo, NEW t, t = c[m], t.from # NULL, t.i <= h[t.at].n,
         NEW q, q = SourceIn(s, t)
  PROVE  /\ h[t.from].own[t.skip + t.i] = q
         /\ \/ q \in {NULL, WILD}
            \/ q \in Blocks /\ q \in Addresses /\ s[q].kind = "element" /\ h[q] = s[q]
<1>1. m \in DOMAIN c /\ CopyOK(h, s, c, t) /\ Apart(h, s) /\ SettledOK(s) /\ t \in Tasks
  BY CopyFacts
<1>2. h[t.at].n \in Nat
  BY CopyTarget
<1>3. t.i \in Nat /\ t.i > 0 /\ t.skip \in Nat
  BY <1>1, TaskFields
<1>4. t.from \in Blocks /\ t.from \in Addresses /\ s[t.from].kind = "array" /\ t.skip + h[t.at].n <= s[t.from].n
  BY <1>1, Names DEF CopyOK, OldArray
<1>5. s[t.from].n \in Nat /\ Size(s[t.from]) = s[t.from].n
  BY <1>1, <1>4 DEF SettledOK, Shaped, ShapeOK, Size
<1>6. t.skip + t.i \in 1..Size(s[t.from])
  BY <1>2, <1>3, <1>4, <1>5
<1>7. PointsWell(s, t.from, t.skip + t.i)
  BY <1>1, <1>4, <1>6 DEF SettledOK, Pointed
<1>8. h[t.from] = s[t.from]
  BY <1>1, <1>4 DEF Apart
<1>9. q \in {NULL, WILD} \/ (q \in Blocks /\ s[q].kind = "element")
  BY <1>4, <1>7 DEF PointsWell, PointerOK, Target, SourceIn
<1>10. q \in Blocks /\ s[q].kind = "element" => h[q] = s[q]
  BY <1>1 DEF Apart
<1>11. QED
  BY <1>8, <1>9, <1>10, Names DEF SourceIn

(* What is copied from an element is what it was when the call began.      *)
LEMMA SameSource ==
  ASSUME NEW s, SettledOK(s), Apart(heap, s), NEW q \in Blocks, s[q].kind = "element", heap[q] = s[q]
  PROVE  Same(q) = SameAs(s, q)
<1>1. q \in Addresses /\ Size(s[q]) = 3
  BY Names DEF Size
<1>2. PointsWell(s, q, 1) /\ PointsWell(s, q, 2)
  BY <1>1 DEF SettledOK, Pointed
<1>3. /\ s[q].own[1] # NULL => s[q].own[1] \in Blocks /\ s[s[q].own[1]].kind = "data"
      /\ s[q].own[2] # NULL => s[q].own[2] \in Blocks /\ s[s[q].own[2]].kind = "value"
  BY <1>2 DEF PointsWell, PointerOK, Target
<1>4. /\ s[q].own[1] # NULL => heap[s[q].own[1]] = s[s[q].own[1]]
      /\ s[q].own[2] # NULL => heap[s[q].own[2]] = s[s[q].own[2]]
  BY <1>3 DEF Apart
<1>5. QED
  BY <1>4 DEF Same, SameAs, Name, ValueOf

(* What an element is copied for never asks for data without a value.      *)
LEMMA SameAsType ==
  ASSUME NEW h, NEW el
  PROVE  LET w == SameAs(h, el) IN w.data \in 0..2 /\ (w.data # 0 => w.value)
<1> DEFINE v == h[el].own[2]
<1>1. SameAs(h, el).value = (v # NULL)
  BY DEF SameAs
<1>2. SameAs(h, el).data = IF v = NULL THEN 0
                           ELSE IF h[v].own[1] # NULL THEN 1
                           ELSE IF h[v].own[2] # NULL THEN 2 ELSE 0
  BY DEF SameAs
<1> HIDE DEF v
<1>3. SameAs(h, el).data \in 0..2 /\ (v = NULL => SameAs(h, el).data = 0)
  BY <1>2
<1>4. QED
  BY <1>1, <1>3

(* An allocation leaves the tasks that wait alone.                         *)
LEMMA UnmovedAttached ==
  ASSUME NEW h, NEW s, NEW c, NEW l, Good(h, s, c, l), NEW cell, NEW f, NEW p, NEW k,
         Sound(h, l), Attachable(h, cell, f, p, k), NEW g, g = Attached(h, cell, f, p, k), p \in Blocks,
         \A j \in DOMAIN c : c[j].do = "copiedBelow" => p # c[j].at /\ p # Hooked(h, c[j])
  PROVE  Unmoved(h, g, c)
<1>1. \A b \in Addresses : b # f /\ b # p => g[b] = h[b]
  BY AttachedParts
<1>2. f \in Blocks /\ h[f].kind = "free"
  BY DEF Attachable
<1>3. \A j \in DOMAIN c : c[j].do = "copiedBelow" => f # c[j].at /\ f # Hooked(h, c[j])
  <2>1. ASSUME NEW j \in DOMAIN c, c[j].do = "copiedBelow" PROVE f # c[j].at /\ f # Hooked(h, c[j])
    <3>1. h[c[j].at].kind \in {"shell", "element"} /\ h[Hooked(h, c[j])].kind = "array"
      BY <2>1, CopyParts DEF CopyDo
    <3>2. QED
      BY <1>2, <3>1
  <2>2. QED
    BY <2>1
<1>4. QED
  BY <1>1, <1>2, <1>3 DEF Unmoved

(* The array of a copy is allocated; entries without a value lead          *)
(* nowhere.                                                                *)
LEMMA CopyArrayGood ==
  ASSUME Good(heap, settled, calls, lost), CopyArray, Settles
  PROVE  Good(heap', settled', calls', lost') /\ (fault' = fault \/ fault' = "null")
<1> DEFINE c == calls
           d == calls'
           m == Len(calls)
           t == c[m]
           n == heap[t.at].n
           k == Hook(heap[t.at])
           s == settled
<1>0. c # <<>> /\ t.do = "deepCopy" /\ t.do \in CopyDo /\ Top = t
  BY DEF CopyArray, In, Top, CopyDo
<1>1. /\ c \in Seq(Tasks) /\ m \in DOMAIN c /\ t \in Tasks /\ CopyOK(heap, s, c, t)
      /\ Freeing(c) = {} /\ Sound(heap, lost) /\ Apart(heap, s)
      /\ \A j \in DOMAIN c : j # m => j < m
  BY <1>0, CopyFacts
<1>2. /\ t.at \in Blocks /\ t.at \in Addresses /\ heap[t.at].kind \in {"shell", "element"}
      /\ n \in Nat /\ k \in 1..Size(heap[t.at]) /\ Target(heap[t.at].kind, k) = "array"
      /\ s[t.at].kind = "free"
      /\ \A j \in DOMAIN c : j # m /\ c[j].do = "copiedBelow" =>
           t.at # c[j].at /\ t.at # Hooked(heap, c[j])
  BY <1>0, CopyTarget
<1>3. n > 0 /\ heap[t.at].own[k] = NULL /\ t.i = 1 /\ OldArray(s, t, n)
  BY <1>0, <1>1 DEF CopyOK, Hooked
<1>4. (d = <<>> => settled' = heap') /\ (d # <<>> => settled' = settled)
  BY <1>0 DEF Settles
<1>5. CASE Faults("null")
  <2>1. heap' = heap /\ calls' = calls /\ lost' = lost /\ fault' = "null"
    BY <1>5 DEF Faults
  <2>2. settled' = settled
    BY <1>0, <1>4, <2>1
  <2>3. QED
    BY <2>1, <2>2
<1>6. CASE Returns /\ UNCHANGED <<heap, lost, fault>>
  <2>1. d = SubSeq(c, 1, m - 1) /\ heap' = heap /\ lost' = lost /\ fault' = fault
    BY <1>6 DEF Returns
  <2> HIDE DEF d
  <2>2. (d = <<>> => settled' = heap) /\ (d # <<>> => settled' = settled)
    BY <1>4, <2>1
  <2>3. d = SubSeq(c, 1, Len(c) - 1) /\ c[Len(c)].do \in CopyDo /\ c # <<>> /\ Good(heap, settled, c, lost)
    BY <1>0, <2>1
  <2> HIDE DEF c, m, t, n, k, s
  <2>4. Good(heap, settled', d, lost)
    BY <2>2, <2>3, CopyReturns
  <2>5. QED
    BY <2>1, <2>4 DEF d
<1>7. ASSUME NEW residue \in {NULL, WILD}, Room, t.from # NULL, lost' = lost, fault' = fault,
             heap' = WithIn(Array(n, residue), t.at, k), Goes("copyElement")
      PROVE  Good(heap', settled', calls', lost')
  <2> DEFINE cell == Array(n, residue)
             u == [t EXCEPT !.do = "copyElement"]
             f == Fresh
             g == heap'
  <2>1. f \in Blocks /\ f \in Addresses /\ heap[f].kind = "free"
    BY <1>7, FreshParts
  <2>2. /\ Blank(cell) /\ cell.kind = "array" /\ cell.n = n
        /\ \A i \in 1..n : cell.own[i] = residue
    BY <1>2, <1>3, Blanks
  <2>3. g = Attached(heap, cell, f, t.at, k)
    BY <1>7 DEF WithIn, Attached
  <2> HIDE DEF cell, f, g
  <2>4. Attachable(heap, cell, f, t.at, k)
    BY <1>2, <1>3, <2>1, <2>2, Names DEF Attachable, Place, KindAt
  <2>5. /\ Sound(g, lost) /\ f # t.at /\ g[f] = cell /\ g[t.at].own[k] = f
        /\ g[t.at].kind = heap[t.at].kind /\ g[t.at].n = n
    BY <1>1, <2>3, <2>4, AttachedParts
  <2>6. Apart(g, s)
    BY <1>1, <1>2, <2>3, <2>4, ApartAttached
  <2>7. \A j \in DOMAIN c : c[j].do = "copiedBelow" => t.at # c[j].at /\ t.at # Hooked(heap, c[j])
    BY <1>0, <1>2
  <2>8. Unmoved(heap, g, c)
    BY <1>1, <1>2, <2>3, <2>4, <2>7, UnmovedAttached
  <2>9. /\ u \in Tasks /\ u.do = "copyElement" /\ u.at = t.at /\ u.from = t.from /\ u.skip = t.skip
        /\ u.i = t.i
    BY <1>1, Going DEF Doings, CopyDo
  <2>10. d = [c EXCEPT ![m] = u]
    BY <1>0, <1>7 DEF Goes, Becomes
  <2> HIDE DEF u
  <2>11. Hooked(g, u) = f
    BY <2>5, <2>9 DEF Hooked, Hook
  <2>12. CopyOK(g, s, c, u)
    <3>1. OldArray(s, u, n)
      BY <1>3, <2>9 DEF OldArray
    <3>2. \A i \in 1..n : g[Hooked(g, u)].own[i] \in {NULL, WILD}
      BY <2>2, <2>5, <2>11
    <3>3. g[u.at].n = n /\ u.from # NULL /\ Hooked(g, u) \in Blocks
      BY <1>7, <2>1, <2>5, <2>9, <2>11
    <3>4. /\ u.at \in Blocks /\ u.at \notin Freeing(c) /\ g[u.at].kind \in {"shell", "element"}
          /\ s[u.at].kind = "free"
      BY <1>1, <1>2, <2>5, <2>9
    <3>5. QED
      BY <2>9, <3>1, <3>2, <3>3, <3>4 DEF CopyOK
  <2>13. u.do \in CopyDo
    BY <2>9 DEF CopyDo
  <2> HIDE DEF d
  <2>14. Good(g, s, d, lost) /\ d # <<>>
    BY <1>0, <2>5, <2>6, <2>8, <2>9, <2>10, <2>12, <2>13, CopyGoes
  <2>15. QED
    BY <1>4, <1>7, <2>14 DEF d, g
<1>8. QED
  BY <1>0, <1>5, <1>6, <1>7 DEF CopyArray

(* The next element of a copy is allocated, or there are no more, or no    *)
(* memory.                                                                 *)
LEMMA CopyElementGood ==
  ASSUME Good(heap, settled, calls, lost), CopyElement, Settles
  PROVE  Good(heap', settled', calls', lost')
<1> DEFINE c == calls
           d == calls'
           m == Len(calls)
           t == c[m]
           n == heap[t.at].n
           a == Hooked(heap, t)
           s == settled
<1>0. /\ c # <<>> /\ t.do = "copyElement" /\ t.do \in CopyDo \ {"deepCopy"} /\ t.do \in CopyDo
      /\ Top = t /\ lost' = lost
  BY DEF CopyElement, In, Top, CopyDo
<1>1. /\ c \in Seq(Tasks) /\ m \in DOMAIN c /\ t \in Tasks /\ CopyOK(heap, s, c, t)
      /\ Freeing(c) = {} /\ Sound(heap, lost) /\ Apart(heap, s)
      /\ \A j \in DOMAIN c : j # m => j < m
  BY <1>0, CopyFacts
<1>2. /\ t.at \in Blocks /\ t.at \in Addresses /\ heap[t.at].kind \in {"shell", "element"}
      /\ n \in Nat /\ s[t.at].kind = "free"
  BY <1>0, CopyTarget
<1>3. /\ a \in Blocks /\ a \in Addresses /\ heap[a].kind = "array" /\ a # t.at
      /\ heap[a].n = n /\ Size(heap[a]) = n /\ s[a].kind = "free" /\ t.from # NULL
      /\ \A j \in DOMAIN c : j # m /\ c[j].do = "copiedBelow" => a # c[j].at /\ a # Hooked(heap, c[j])
  BY <1>0, CopyArrayParts
<1>4. /\ OldArray(s, t, n) /\ t.i \in Nat /\ t.i > 0
      /\ \A k \in 1..n : k > t.i \/ k = t.i => heap[a].own[k] \in {NULL, WILD}
  BY <1>0, <1>1, TaskFields DEF CopyOK
<1>5. (d = <<>> => settled' = heap') /\ (d # <<>> => settled' = settled)
  BY <1>0 DEF Settles
<1>6. CASE Returns /\ UNCHANGED heap
  <2>1. d = SubSeq(c, 1, m - 1) /\ heap' = heap
    BY <1>6 DEF Returns
  <2> HIDE DEF d
  <2>2. (d = <<>> => settled' = heap) /\ (d # <<>> => settled' = settled)
    BY <1>5, <2>1
  <2>3. d = SubSeq(c, 1, Len(c) - 1) /\ c[Len(c)].do \in CopyDo /\ c # <<>> /\ Good(heap, settled, c, lost)
    BY <1>0, <2>1
  <2> HIDE DEF c, m, t, n, s
  <2>4. Good(heap, settled', d, lost)
    BY <2>2, <2>3, CopyReturns
  <2>5. QED
    BY <1>0, <2>1, <2>4 DEF d
<1>7. CASE t.i <= n /\ Room /\ heap' = WithIn(Element, ArrayOf(t.at), t.i) /\ Goes("copyLeaf")
  <2> DEFINE u == [t EXCEPT !.do = "copyLeaf"]
             f == Fresh
             g == heap'
             k == t.i
  <2>0. k \in 1..n
    BY <1>2, <1>4, <1>7
  <2>1. f \in Blocks /\ f \in Addresses /\ heap[f].kind = "free"
    BY <1>7, FreshParts
  <2>2. /\ Blank(Element) /\ Element.kind = "element" /\ Element.n = 0
        /\ \A i \in 1..3 : Element.own[i] = NULL
    BY Blanks
  <2>3. g = Attached(heap, Element, f, a, k)
    BY <1>7 DEF WithIn, Attached, ArrayOf, Hooked
  <2> HIDE DEF f, g, a
  <2>4. Attachable(heap, Element, f, a, k)
    <3>1. Place(heap, a, k) /\ Target(heap[a].kind, k) = "element" /\ heap[a].own[k] \notin Blocks
      BY <1>3, <1>4, <2>0, Names DEF Place, Target
    <3>2. QED
      BY <1>3, <2>1, <2>2, <3>1 DEF Attachable, KindAt
  <2>5. /\ Sound(g, lost) /\ f # a /\ g[f] = Element /\ g[a].own[k] = f
        /\ \A i \in 1..Size(heap[a]) : i # k => g[a].own[i] = heap[a].own[i]
        /\ \A b \in Addresses : b # f /\ b # a => g[b] = heap[b]
    BY <1>1, <2>3, <2>4, AttachedParts
  <2>6. Apart(g, s)
    BY <1>1, <1>3, <2>3, <2>4, ApartAttached
  <2>7. \A j \in DOMAIN c : c[j].do = "copiedBelow" => a # c[j].at /\ a # Hooked(heap, c[j])
    BY <1>0, <1>3
  <2>8. Unmoved(heap, g, c)
    BY <1>1, <1>3, <2>3, <2>4, <2>7, UnmovedAttached
  <2>9. /\ u \in Tasks /\ u.do = "copyLeaf" /\ u.at = t.at /\ u.from = t.from /\ u.skip = t.skip
        /\ u.i = t.i
    BY <1>1, Going DEF Doings, CopyDo
  <2>10. d = [c EXCEPT ![m] = u]
    BY <1>0, <1>7 DEF Goes, Becomes
  <2> HIDE DEF u
  <2>11. g[t.at] = heap[t.at] /\ Hooked(g, u) = a /\ Child(g, u) = f
    <3>1. g[t.at] = heap[t.at]
      BY <1>2, <1>3, <2>1, <2>5
    <3>2. Hooked(g, u) = a
      BY <2>9, <3>1 DEF Hooked, a
    <3>3. QED
      BY <2>5, <2>9, <3>1, <3>2 DEF Child
  <2>12. CopyOK(g, s, c, u)
    <3>1. OldArray(s, u, n)
      BY <1>4, <2>9 DEF OldArray
    <3>2. \A i \in 1..n : i > u.i => g[a].own[i] \in {NULL, WILD}
      BY <1>3, <1>4, <2>5, <2>9
    <3>3. g[u.at].n = n /\ u.from # NULL /\ u.i <= n
      BY <1>3, <1>7, <2>9, <2>11
    <3>4. /\ u.at \in Blocks /\ u.at \notin Freeing(c) /\ g[u.at].kind \in {"shell", "element"}
          /\ s[u.at].kind = "free"
      BY <1>1, <1>2, <2>9, <2>11
    <3>5. SourceIn(s, u) \in Blocks => Leaf(g, f, SameAs(s, SourceIn(s, u)))
      <4>1. SameAs(s, SourceIn(s, u)).data \in 0..2
            /\ (SameAs(s, SourceIn(s, u)).data # 0 => SameAs(s, SourceIn(s, u)).value)
        BY SameAsType
      <4>2. g[f].kind = "element" /\ g[f].n = 0 /\ g[f].own[3] = NULL /\ g[f].own[2] = NULL
        BY <2>2, <2>5
      <4>3. QED
        BY <2>1, <4>1, <4>2, Names DEF Leaf
    <3>6. QED
      BY <1>3, <2>1, <2>9, <2>11, <3>1, <3>2, <3>3, <3>4, <3>5 DEF CopyOK
  <2>13. u.do \in CopyDo
    BY <2>9 DEF CopyDo
  <2> HIDE DEF d
  <2>14. Good(g, s, d, lost) /\ d # <<>>
    BY <1>0, <2>5, <2>6, <2>8, <2>9, <2>10, <2>12, <2>13, CopyGoes
  <2>15. QED
    BY <1>0, <1>5, <2>14 DEF d, g
<1>8. CASE Goes("giveUp") /\ UNCHANGED heap
  <2> DEFINE u == [t EXCEPT !.do = "giveUp"]
  <2>1. /\ u \in Tasks /\ u.do = "giveUp" /\ u.at = t.at /\ u.from = t.from /\ u.skip = t.skip
        /\ u.i = t.i
    BY <1>1, Going DEF Doings, CopyDo
  <2>2. d = [c EXCEPT ![m] = u] /\ heap' = heap
    BY <1>0, <1>8 DEF Goes, Becomes
  <2> HIDE DEF u, a
  <2>3. Hooked(heap, u) = a
    BY <2>1 DEF Hooked, a
  <2>4. CopyOK(heap, s, c, u)
    <3>1. OldArray(s, u, n)
      BY <1>4, <2>1 DEF OldArray
    <3>2. QED
      BY <1>1, <1>2, <1>3, <2>1, <2>3, <3>1 DEF CopyOK
  <2>5. Unmoved(heap, heap, c) /\ u.do \in CopyDo
    BY <2>1 DEF Unmoved, CopyDo
  <2> HIDE DEF d
  <2>6. Good(heap, s, d, lost) /\ d # <<>>
    BY <1>0, <1>1, <2>1, <2>2, <2>4, <2>5, CopyGoes
  <2>7. QED
    BY <1>0, <1>5, <2>2, <2>6 DEF d
<1>9. QED
  BY <1>0, <1>6, <1>7, <1>8 DEF CopyElement

(* The allocations for a copied element, or the release of its value, leave*)
(* what the copying task relies on.                                        *)
LEMMA CopyStays ==
  ASSUME NEW h, NEW s, NEW c, NEW l, Good(h, s, c, l), c # <<>>, NEW m, m = Len(c),
         c[m].do = "copyLeaf", NEW t, t = c[m], NEW g, NEW u,
         g[t.at] = h[t.at], g[Hooked(h, t)] = h[Hooked(h, t)],
         u.at = t.at, u.from = t.from, u.skip = t.skip, u.i = t.i,
         \/ u.do = "giveUp"
         \/ /\ u.do = "copyLeaf"
            /\ SourceIn(s, t) \in Blocks => Leaf(g, Child(h, t), SameAs(s, SourceIn(s, t)))
         \/ /\ u.do = "copyBelow"
            /\ SourceIn(s, t) \in Blocks /\ g[Child(h, t)].n = 0 /\ g[Child(h, t)].own[3] = NULL
  PROVE  CopyOK(g, s, c, u)
<1>1. m \in DOMAIN c /\ CopyOK(h, s, c, t)
  BY CopyFacts DEF CopyDo
<1>2. Hooked(g, u) = Hooked(h, t) /\ Child(g, u) = Child(h, t) /\ SourceIn(s, u) = SourceIn(s, t)
  BY DEF Hooked, Child, SourceIn
<1>3. OldArray(s, u, g[u.at].n)
  BY <1>1 DEF CopyOK, OldArray
<1>4. /\ u.at \in Blocks /\ u.at \notin Freeing(c) /\ g[u.at].kind \in {"shell", "element"}
      /\ s[u.at].kind = "free" /\ u.from # NULL /\ Hooked(g, u) \in Blocks
      /\ u.i <= g[u.at].n /\ Child(g, u) \in Blocks
  BY <1>1, <1>2 DEF CopyOK
<1>5. \A k \in 1..g[u.at].n : k > u.i => g[Hooked(g, u)].own[k] \in {NULL, WILD}
  BY <1>1, <1>2 DEF CopyOK
<1>6. u.do \in {"giveUp", "copyLeaf", "copyBelow"}
  OBVIOUS
<1>7. /\ u.do = "copyLeaf" /\ SourceIn(s, u) \in Blocks => Leaf(g, Child(g, u), SameAs(s, SourceIn(s, u)))
      /\ u.do = "copyBelow" => SourceIn(s, u) \in Blocks /\ g[Child(g, u)].n = 0 /\ g[Child(g, u)].own[3] = NULL
  BY <1>2
<1>8. QED
  BY <1>3, <1>4, <1>5, <1>6, <1>7 DEF CopyOK

(* The value of a copy that could not be completed is released.            *)
LEMMA DroppingValue ==
  ASSUME NEW R, Sound(heap, R), NEW el, NEW want, Leaf(heap, el, want), LacksData(el, want),
         NEW v, v = ValueOf(el), NEW g, g = Without({v}, el, 2)
  PROVE  /\ v \in Blocks /\ heap[v].kind = "value" /\ Sound(g, R)
         /\ \A b \in Addresses : b # v /\ b # el => g[b] = heap[b]
         /\ \A s : Apart(heap, s) /\ s[el].kind = "free" => Apart(g, s)
<1>0. /\ Shaped(heap) /\ DOMAIN heap = Addresses /\ Unique(heap) /\ Roots(heap, R)
  BY DEF Sound
<1>1. /\ el \in Blocks /\ el \in Addresses /\ Size(heap[el]) = 3 /\ heap[el].kind = "element"
      /\ heap[el].own[2] = v /\ 2 \in 1..Size(heap[el])
  <2>1. el \in Addresses /\ Size(heap[el]) = 3
    BY LeafParts
  <2>2. el \in Blocks /\ heap[el].kind = "element"
    BY DEF Leaf
  <2>3. heap[el].own[2] = v
    BY DEF ValueOf
  <2>4. QED
    BY <2>1, <2>2, <2>3
<1>2. v # NULL
  BY DEF LacksData, LacksValue, Leaf
<1>3. v \in Blocks /\ v \in Addresses /\ heap[v].kind = "value" /\ Size(heap[v]) = 2
  <2>1. heap[el].own[2] # NULL
    BY <1>1, <1>2
  <2>2. /\ heap[el].own[2] \in Blocks
        /\ heap[heap[el].own[2]].kind = "value" /\ Size(heap[heap[el].own[2]]) = 2
    BY <2>1, LeafParts
  <2>3. QED
    BY <1>1, <2>2, Names
<1>4. \A k \in 1..2 : heap[v].own[k] = NULL
  BY <1>1, <1>3 DEF LacksData, Leaf
<1>5. g = Emptied(heap, {v}, el, 2)
  BY DEF Without, Emptied
<1>6. el # v
  BY <1>1, <1>3
<1>7. Sound(g, R \ {v})
  <2>1. \A b \in Addresses \ {v} : \A i \in 1..Size(heap[b]) :
          heap[b].own[i] \in {v} /\ heap[b].own[i] \in Blocks => b = el /\ i = 2
    BY <1>0, <1>1 DEF Unique
  <2>2. \A b \in {v} \cap Blocks : \A i \in 1..Size(heap[b]) :
          heap[b].own[i] \in Blocks => heap[b].own[i] \in {v}
    BY <1>3, <1>4, Names
  <2>3. \A b \in {v} : b \in Addresses => b \in Blocks
    BY <1>3
  <2>4. el \in Addresses =>
          el \notin {v} /\ 2 \in 1..Size(heap[el]) /\ (heap[el].own[2] \in Blocks => heap[el].own[2] \in {v})
    BY <1>1, <1>6
  <2>5. QED
    BY <1>5, <2>1, <2>2, <2>3, <2>4, Emptying
<1>8. R \ {v} = R
  <2>1. v \notin R
    BY <1>0, <1>1 DEF Roots
  <2>2. QED
    BY <2>1
<1>9. \A b \in Addresses : b # v /\ b # el => g[b] = heap[b]
  BY <1>5 DEF Emptied
<1>10. ASSUME NEW s, Apart(heap, s), s[el].kind = "free" PROVE Apart(g, s)
  <2>1. s[v].kind = "free"
    BY <1>1, <1>3, <1>10 DEF Apart
  <2>2. g[v] = Free /\ g[el] = Pointing(heap[el], 2, NULL)
    BY <1>1, <1>3, <1>5, <1>6 DEF Emptied
  <2>3. \A b \in Blocks : s[b].kind # "free" => g[b] = s[b]
    BY <1>9, <1>10, <2>1, Names DEF Apart
  <2>4. ASSUME NEW b \in Blocks, s[b].kind = "free", NEW i \in 1..Size(g[b]), g[b].own[i] \in Blocks
        PROVE  s[g[b].own[i]].kind = "free"
    <3>1. CASE b = v
      BY <2>2, <2>4, <3>1, FreeParts
    <3>2. CASE b = el
      <4>1. ShapeOK(heap[el], Pointers)
        BY <1>0, <1>1 DEF Shaped
      <4>2. /\ Size(g[el]) = Size(heap[el]) /\ g[el].own[2] = NULL
            /\ \A x \in 1..Size(heap[el]) : x # 2 => g[el].own[x] = heap[el].own[x]
        BY <1>1, <2>2, <4>1, PointingParts
      <4>3. i # 2
        BY <2>4, <3>2, <4>2, Names
      <4>4. i \in 1..Size(heap[b]) /\ heap[b].own[i] = g[b].own[i]
        BY <2>4, <3>2, <4>2, <4>3
      <4>5. QED
        BY <1>10, <2>4, <4>4 DEF Apart
    <3>3. CASE b # v /\ b # el
      <4>1. g[b] = heap[b]
        BY <1>9, <3>3, Names
      <4>2. i \in 1..Size(heap[b]) /\ heap[b].own[i] \in Blocks /\ g[b].own[i] = heap[b].own[i]
        BY <2>4, <4>1
      <4>3. QED
        BY <1>10, <2>4, <4>2 DEF Apart
    <3>4. QED
      BY <3>1, <3>2, <3>3
  <2>5. QED
    BY <2>3, <2>4 DEF Apart
<1>11. QED
  BY <1>3, <1>7, <1>8, <1>9, <1>10

(* A copied element gets the name, value and data of its source, from      *)
(* memory that is still there.                                             *)
LEMMA CopyLeafGood ==
  ASSUME Good(heap, settled, calls, lost), CopyLeaf, Settles
  PROVE  Good(heap', settled', calls', lost') /\ (fault' = fault \/ fault' \in {"null", "unassigned"})
<1> DEFINE c == calls
           d == calls'
           m == Len(calls)
           t == c[m]
           a == Hooked(heap, t)
           el == Child(heap, t)
           s == settled
           q == SourceIn(s, t)
           want == SameAs(s, q)
<1>0. c # <<>> /\ t.do = "copyLeaf" /\ t.do \in CopyDo \ {"deepCopy"} /\ t.do \in CopyDo /\ Top = t
  BY DEF CopyLeaf, In, Top, CopyDo
<1>1. /\ c \in Seq(Tasks) /\ m \in DOMAIN c /\ t \in Tasks /\ CopyOK(heap, s, c, t)
      /\ Sound(heap, lost) /\ Apart(heap, s) /\ SettledOK(s)
  BY <1>0, CopyFacts
<1>2. t.at \in Blocks /\ t.at \in Addresses /\ heap[t.at].kind \in {"shell", "element"}
  BY <1>0, CopyTarget
<1>3. a \in Blocks /\ a \in Addresses /\ heap[a].kind = "array" /\ a # t.at /\ t.from # NULL
  BY <1>0, CopyArrayParts
<1>4. /\ el \in Blocks /\ el \in Addresses /\ heap[el].kind = "element"
      /\ el # t.at /\ el # a /\ t.i \in 1..heap[t.at].n /\ s[el].kind = "free"
      /\ \A j \in DOMAIN c : c[j].do = "copiedBelow" => el # c[j].at /\ el # Hooked(heap, c[j])
  BY <1>0, CopyChild
<1>5. t.i <= heap[t.at].n
  BY <1>0, <1>1 DEF CopyOK
<1>6. /\ heap[t.from].own[t.skip + t.i] = q
      /\ q \in {NULL, WILD} \/ (q \in Blocks /\ q \in Addresses /\ s[q].kind = "element" /\ heap[q] = s[q])
  BY <1>0, <1>3, <1>5, CopySource
<1>7. Source = q /\ Copied = el
  BY <1>0, <1>6 DEF Source, Copied, ArrayOf, Child, Hooked
<1>8. (d = <<>> => settled' = heap') /\ (d # <<>> => settled' = settled)
  BY <1>0 DEF Settles
<1>9. CASE ~Live(q) /\ Faults(Broken(q))
  <2>1. q \in {NULL, WILD}
    BY <1>6, <1>9 DEF Live
  <2>2. Broken(q) \in {"null", "unassigned"}
    BY <2>1, Names DEF Broken
  <2>3. heap' = heap /\ calls' = calls /\ lost' = lost /\ fault' = Broken(q)
    BY <1>9 DEF Faults
  <2>4. settled' = settled
    BY <1>0, <1>8, <2>3
  <2>5. QED
    BY <2>2, <2>3, <2>4
<1>10. ASSUME Live(q)
       PROVE  /\ q \in Blocks /\ Same(q) = want /\ Leaf(heap, el, want)
  <2>1. q \in Blocks /\ s[q].kind = "element" /\ heap[q] = s[q]
    BY <1>6, <1>10, Names DEF Live
  <2>2. Leaf(heap, el, want)
    BY <1>0, <1>1, <2>1 DEF CopyOK
  <2> HIDE DEF q
  <2>3. Same(q) = SameAs(s, q)
    BY <1>1, <2>1, SameSource
  <2>4. QED
    BY <2>1, <2>2, <2>3
<1> HIDE DEF a, el, q, want
<1>11. ASSUME NEW g, NEW u \in Tasks, u.at = t.at, d = [c EXCEPT ![m] = u],
              u.do \in CopyDo, Unmoved(heap, g, c), Sound(g, lost), Apart(g, s), CopyOK(g, s, c, u),
              heap' = g, lost' = lost
       PROVE  Good(heap', settled', calls', lost')
  <2> HIDE DEF d
  <2>1. Good(g, s, d, lost) /\ d # <<>>
    BY <1>0, <1>11, CopyGoes
  <2>2. QED
    BY <1>8, <1>11, <2>1 DEF d
<1>12. CASE Live(q) /\ Goes("copyBelow") /\ UNCHANGED <<heap, lost, fault>>
  <2> DEFINE u == [t EXCEPT !.do = "copyBelow"]
  <2>1. /\ u \in Tasks /\ u.do = "copyBelow" /\ u.at = t.at /\ u.from = t.from /\ u.skip = t.skip
        /\ u.i = t.i
    BY <1>1, Going DEF Doings, CopyDo
  <2>2. d = [c EXCEPT ![m] = u] /\ heap' = heap /\ lost' = lost /\ fault' = fault
    BY <1>0, <1>12 DEF Goes, Becomes
  <2> HIDE DEF u
  <2>3. q \in Blocks /\ heap[el].n = 0 /\ heap[el].own[3] = NULL
    BY <1>10, <1>12 DEF Leaf
  <2>4. CopyOK(heap, s, c, u)
    <3>1. SourceIn(s, t) \in Blocks /\ heap[Child(heap, t)].n = 0 /\ heap[Child(heap, t)].own[3] = NULL
      BY <2>3 DEF q, el
    <3> HIDE DEF t
    <3>2. QED
      BY <1>0, <2>1, <3>1, CopyStays DEF t
  <2>5. Unmoved(heap, heap, c) /\ u.do \in CopyDo
    BY <2>1 DEF Unmoved, CopyDo
  <2>6. QED
    BY <1>1, <1>11, <2>1, <2>2, <2>4, <2>5
<1>13. CASE Live(q) /\ Completes(el, want) /\ UNCHANGED <<calls, lost, fault>>
  <2> DEFINE g == heap'
  <2>1. PICK cell, p, k : Extends(heap, heap', Fresh, el, want, cell, p, k)
    BY <1>1, <1>10, <1>13, Completing
  <2>2. /\ Attachable(heap, cell, Fresh, p, k) /\ heap' = Attached(heap, cell, Fresh, p, k)
        /\ p \in Blocks /\ Leaf(heap', el, want)
        /\ p = el \/ (p = heap[el].own[2] /\ heap[p].kind = "value")
    BY <1>4, <2>1 DEF Extends
  <2> HIDE DEF g
  <2>3. /\ Sound(g, lost) /\ heap[Fresh].kind = "free"
        /\ \A b \in Addresses : b # Fresh /\ b # p => g[b] = heap[b]
    BY <1>1, <2>2, AttachedParts DEF Attachable, g
  <2>4. s[p].kind = "free"
    <3>1. CASE p = el
      BY <1>4, <3>1
    <3>2. CASE p = heap[el].own[2]
      BY <1>1, <1>4, <2>2, <3>2 DEF Apart, Size
    <3>3. QED
      BY <2>2, <3>1, <3>2
  <2>5. Apart(g, s)
    BY <1>1, <2>2, <2>4, ApartAttached DEF g
  <2>6. \A j \in DOMAIN c : c[j].do = "copiedBelow" => p # c[j].at /\ p # Hooked(heap, c[j])
    <3>1. CASE p = el
      BY <1>4, <3>1
    <3>2. CASE heap[p].kind = "value"
      <4>1. \A j \in DOMAIN c : c[j].do = "copiedBelow" =>
              heap[c[j].at].kind \in {"shell", "element"} /\ heap[Hooked(heap, c[j])].kind = "array"
        BY CopyParts DEF CopyDo
      <4>2. QED
        BY <3>2, <4>1
    <3>3. QED
      BY <2>2, <3>1, <3>2
  <2>7. Unmoved(heap, g, c)
    BY <1>1, <2>2, <2>6, UnmovedAttached DEF g
  <2>8. g[t.at] = heap[t.at] /\ g[a] = heap[a]
    <3>1. t.at # Fresh /\ a # Fresh
      BY <1>2, <1>3, <2>3
    <3>2. t.at # p /\ a # p
      BY <1>2, <1>3, <1>4, <2>2
    <3>3. QED
      BY <1>2, <1>3, <2>3, <3>1, <3>2
  <2>9. CopyOK(g, s, c, t)
    <3>1. SourceIn(s, t) \in Blocks => Leaf(g, Child(heap, t), SameAs(s, SourceIn(s, t)))
      BY <2>2 DEF q, el, want, g
    <3>2. g[Hooked(heap, t)] = heap[Hooked(heap, t)]
      BY <2>8 DEF a
    <3> HIDE DEF t
    <3>3. QED
      BY <1>0, <2>8, <3>1, <3>2, CopyStays DEF t
  <2>10. d = [c EXCEPT ![m] = t] /\ lost' = lost /\ fault' = fault
    BY <1>1, <1>13
  <2>11. QED
    BY <1>0, <1>1, <1>11, <2>3, <2>5, <2>7, <2>9, <2>10 DEF g
<1>14. CASE /\ Live(q) /\ Goes("giveUp") /\ UNCHANGED <<lost, fault>>
            /\ heap' = IF LacksData(el, want) THEN Without({ValueOf(el)}, el, 2) ELSE heap
  <2> DEFINE u == [t EXCEPT !.do = "giveUp"]
             g == heap'
             v == ValueOf(el)
  <2>1. /\ u \in Tasks /\ u.do = "giveUp" /\ u.at = t.at /\ u.from = t.from /\ u.skip = t.skip
        /\ u.i = t.i
    BY <1>1, Going DEF Doings, CopyDo
  <2>2. d = [c EXCEPT ![m] = u] /\ lost' = lost /\ fault' = fault
    BY <1>0, <1>14 DEF Goes, Becomes
  <2> HIDE DEF u, v, g
  <2>3. \/ g = heap
        \/ /\ heap[v].kind = "value" /\ Sound(g, lost) /\ Apart(g, s)
           /\ \A b \in Addresses : b # v /\ b # el => g[b] = heap[b]
           /\ v \in Blocks
    <3>1. CASE LacksData(el, want)
      <4>1. g = Without({v}, el, 2)
        BY <1>14, <3>1 DEF g, v
      <4>2. v = ValueOf(el)
        BY DEF v
      <4>3. QED
        BY <1>1, <1>4, <1>10, <1>14, <3>1, <4>1, <4>2, DroppingValue
    <3>2. CASE ~LacksData(el, want)
      BY <1>14, <3>2 DEF g
    <3>3. QED
      BY <3>1, <3>2
  <2>4. Sound(g, lost) /\ Apart(g, s)
    BY <1>1, <2>3
  <2>5. Unmoved(heap, g, c)
    <3>1. \A j \in DOMAIN c : c[j].do = "copiedBelow" =>
            heap[c[j].at].kind \in {"shell", "element"} /\ heap[Hooked(heap, c[j])].kind = "array"
      BY CopyParts DEF CopyDo
    <3>2. QED
      BY <1>4, <2>3, <3>1 DEF Unmoved
  <2>6. g[t.at] = heap[t.at] /\ g[a] = heap[a]
    BY <1>2, <1>3, <1>4, <2>3
  <2>7. CopyOK(g, s, c, u)
    <3>1. g[Hooked(heap, t)] = heap[Hooked(heap, t)]
      BY <2>6 DEF a
    <3> HIDE DEF t
    <3>2. QED
      BY <1>0, <2>1, <2>6, <3>1, CopyStays DEF t
  <2>8. u.do \in CopyDo
    BY <2>1 DEF CopyDo
  <2>9. heap' = g
    BY DEF g
  <2>10. QED
    BY <1>11, <2>1, <2>2, <2>4, <2>5, <2>7, <2>8, <2>9
<1>15. CASE Live(q)
  <2>1. \/ Goes("copyBelow") /\ UNCHANGED <<heap, lost, fault>>
        \/ Completes(el, want) /\ UNCHANGED <<calls, lost, fault>>
        \/ /\ Goes("giveUp") /\ UNCHANGED <<lost, fault>>
           /\ heap' = IF LacksData(el, want) THEN Without({ValueOf(el)}, el, 2) ELSE heap
    BY <1>7, <1>10, <1>15 DEF CopyLeaf
  <2>2. QED
    BY <1>12, <1>13, <1>14, <1>15, <2>1
<1>16. CASE ~Live(q)
  BY <1>7, <1>9, <1>16 DEF CopyLeaf
<1>17. QED
  BY <1>15, <1>16

(* The task that copies an array of elements.                              *)
LEMMA Copier ==
  ASSUME NEW at \in Pointers \cup Variables, NEW from \in Pointers \cup Variables, NEW skip \in Nat
  PROVE  LET w == DeepCopy(at, from, skip)
         IN /\ w \in Tasks /\ w.do = "deepCopy" /\ w.at = at /\ w.from = from /\ w.skip = skip
            /\ w.i = 1
<1> DEFINE t == Task("deepCopy", at)
<1>1. /\ t \in Tasks /\ t.do = "deepCopy" /\ t.at = at /\ t.i = 1
  BY TaskParts DEF CopyDo
<1>2. DeepCopy(at, from, skip) = [t EXCEPT !.from = from, !.skip = skip]
  BY DEF DeepCopy
<1> HIDE DEF t
<1>3. QED
  BY <1>1, <1>2 DEF Tasks

(* Once an element counts what is to be below it, either there is nothing  *)
(* to be copied or a task is called that does.                             *)
LEMMA CopyBelowGood ==
  ASSUME Good(heap, settled, calls, lost), CopyBelow, Settles
  PROVE  Good(heap', settled', calls', lost')
<1> DEFINE c == calls
           d == calls'
           m == Len(calls)
           t == c[m]
           a == Hooked(heap, t)
           el == Child(heap, t)
           s == settled
           q == SourceIn(s, t)
           n == heap[q].n
           g == heap'
           from == heap[q].own[3]
<1>0. /\ c # <<>> /\ t.do = "copyBelow" /\ t.do \in CopyDo \ {"deepCopy"} /\ t.do \in CopyDo
      /\ Top = t /\ lost' = lost
  BY DEF CopyBelow, In, Top, CopyDo
<1>1. /\ c \in Seq(Tasks) /\ m \in DOMAIN c /\ t \in Tasks /\ CopyOK(heap, s, c, t)
      /\ Freeing(c) = {} /\ Sound(heap, lost) /\ Apart(heap, s) /\ SettledOK(s)
      /\ m \in Nat /\ DOMAIN c = 1..m
      /\ \A j \in DOMAIN c : c[j].do \notin {"release", "pack"}
  BY <1>0, CopyFacts
<1>2. t.at \in Blocks /\ t.at \in Addresses /\ heap[t.at].kind \in {"shell", "element"} /\ heap[t.at].n \in Nat
      /\ s[t.at].kind = "free"
  BY <1>0, CopyTarget
<1>3. /\ a \in Blocks /\ a \in Addresses /\ heap[a].kind = "array" /\ a # t.at /\ t.from # NULL
      /\ heap[a].n = heap[t.at].n
  BY <1>0, CopyArrayParts
<1>4. /\ el \in Blocks /\ el \in Addresses /\ heap[el].kind = "element"
      /\ el # t.at /\ el # a /\ t.i \in 1..heap[t.at].n /\ s[el].kind = "free"
      /\ heap[a].own[t.i] = el
      /\ \A j \in DOMAIN c : c[j].do = "copiedBelow" => el # c[j].at /\ el # Hooked(heap, c[j])
  BY <1>0, CopyChild
<1>5. /\ t.i <= heap[t.at].n /\ OldArray(s, t, heap[t.at].n) /\ q \in Blocks
      /\ heap[el].n = 0 /\ heap[el].own[3] = NULL
      /\ \A k \in 1..heap[t.at].n : k > t.i => heap[a].own[k] \in {NULL, WILD}
  BY <1>0, <1>1 DEF CopyOK
<1>6. /\ heap[t.from].own[t.skip + t.i] = q
      /\ q \in Addresses /\ s[q].kind = "element" /\ heap[q] = s[q]
  BY <1>0, <1>3, <1>5, CopySource, Names
<1>7. Source = q /\ Copied = el
  BY <1>0, <1>6 DEF Source, Copied, ArrayOf, Child, Hooked
<1>8. (d = <<>> => settled' = heap') /\ (d # <<>> => settled' = settled)
  BY <1>0 DEF Settles
<1>9. /\ n \in Nat
      /\ from = NULL \/ (from \in Blocks /\ s[from].kind = "array" /\ s[from].n = n)
  <2>1. ShapeOK(s[q], Pointers) /\ Size(s[q]) = 3
    BY <1>1, <1>6 DEF SettledOK, Shaped, Size
  <2>2. PointsWell(s, q, 3)
    BY <1>1, <1>6, <2>1 DEF SettledOK, Pointed
  <2>3. QED
    BY <1>6, <2>1, <2>2 DEF PointsWell, PointerOK, ShapeOK, Target
<1>10. /\ DOMAIN g = Addresses /\ g[el] = Counting(heap[el], n)
       /\ \A b \in Addresses : b # el => g[b] = heap[b]
  <2>1. DOMAIN heap = Addresses
    BY <1>1 DEF Sound
  <2>2. g = [heap EXCEPT ![el] = Counting(@, n)]
    BY <1>7 DEF CopyBelow
  <2>3. QED
    BY <1>4, <2>1, <2>2
<1>11. \/ n = 0 /\ Proceeds("copyElement")
       \/ n # 0 /\ Calls([t EXCEPT !.do = "copiedBelow"], DeepCopy(el, from, 0))
  BY <1>0, <1>6, <1>7 DEF CopyBelow, ArrayOf, Hook
<1>12. g[el].kind = "element" /\ g[el].n = n /\ g[el].own = heap[el].own /\ Size(g[el]) = 3
       /\ Size(heap[el]) = 3
  BY <1>4, <1>10, CountingParts DEF Size
<1> HIDE DEF g, el, a, q, from, n
<1>13. Sound(g, lost)
  BY <1>1, <1>4, <1>5, <1>9, <1>10, Recount
<1>14. Unmoved(heap, g, c)
  BY <1>4, <1>10 DEF Unmoved
<1>15. Apart(g, s)
  <2>1. \A b \in Blocks : s[b].kind # "free" => g[b] = s[b]
    BY <1>1, <1>4, <1>10, Names DEF Apart
  <2>2. ASSUME NEW b \in Blocks, s[b].kind = "free", NEW i \in 1..Size(g[b]), g[b].own[i] \in Blocks
        PROVE  s[g[b].own[i]].kind = "free"
    <3>1. g[b].own = heap[b].own /\ Size(g[b]) = Size(heap[b])
      BY <1>10, <1>12, Names
    <3>2. QED
      BY <1>1, <2>2, <3>1 DEF Apart
  <2>3. QED
    BY <2>1, <2>2 DEF Apart
<1>16. g[t.at] = heap[t.at] /\ g[a] = heap[a]
  BY <1>2, <1>3, <1>4, <1>10
<1>17. ASSUME NEW u, u.at = t.at PROVE Hooked(g, u) = a
  BY <1>16, <1>17 DEF Hooked, a
<1>18. CASE n = 0 /\ Proceeds("copyElement")
  <2> DEFINE u == [t EXCEPT !.do = "copyElement", !.i = @ + 1]
  <2>1. /\ u \in Tasks /\ u.do = "copyElement" /\ u.at = t.at /\ u.from = t.from /\ u.skip = t.skip
        /\ u.i = t.i + 1
    BY <1>1, Proceeding DEF Doings, CopyDo
  <2>2. d = [c EXCEPT ![m] = u]
    BY <1>0, <1>18 DEF Proceeds, Becomes
  <2> HIDE DEF u
  <2>3. CopyOK(g, s, c, u)
    <3>1. OldArray(s, u, heap[t.at].n)
      BY <1>5, <2>1 DEF OldArray
    <3>2. \A k \in 1..heap[t.at].n : k > u.i \/ k = u.i => g[a].own[k] \in {NULL, WILD}
      BY <1>4, <1>5, <1>16, <2>1
    <3>3. Hooked(g, u) = a
      BY <1>17, <2>1
    <3>4. QED
      BY <1>1, <1>2, <1>3, <1>16, <2>1, <3>1, <3>2, <3>3 DEF CopyOK
  <2>4. u.do \in CopyDo
    BY <2>1 DEF CopyDo
  <2> HIDE DEF d
  <2>5. Good(g, s, d, lost) /\ d # <<>>
    BY <1>0, <1>13, <1>14, <1>15, <2>1, <2>2, <2>3, <2>4, CopyGoes
  <2>6. QED
    BY <1>0, <1>8, <2>5 DEF d, g
<1>19. CASE n # 0 /\ Calls([t EXCEPT !.do = "copiedBelow"], DeepCopy(el, from, 0))
  <2> DEFINE u == [t EXCEPT !.do = "copiedBelow"]
             w == DeepCopy(el, from, 0)
  <2>1. /\ u \in Tasks /\ u.do = "copiedBelow" /\ u.at = t.at /\ u.from = t.from /\ u.skip = t.skip
        /\ u.i = t.i
    BY <1>1, Going DEF Doings, CopyDo
  <2>2. /\ w \in Tasks /\ w.do = "deepCopy" /\ w.at = el /\ w.from = from /\ w.skip = 0 /\ w.i = 1
    <3>1. el \in Pointers /\ from \in Pointers /\ 0 \in Nat
      BY <1>4, <1>9 DEF Pointers
    <3>2. QED
      BY <3>1, Copier
  <2>3. d = Append([c EXCEPT ![m] = u], w)
    BY <1>0, <1>19 DEF Calls
  <2> HIDE DEF u, w, d
  <2>4. /\ d \in Seq(Tasks) /\ Len(d) = m + 1 /\ DOMAIN d = DOMAIN c \cup {m + 1}
        /\ d[m] = u /\ d[m + 1] = w /\ \A j \in DOMAIN c : j # m => d[j] = c[j]
    <3>1. c \in Seq(Tasks) /\ c # <<>> /\ u \in Tasks /\ w \in Tasks
      BY <1>0, <1>1, <2>1, <2>2
    <3>2. QED
      BY <2>3, <3>1, Calling
  <2>5. d # <<>>
    BY <1>1, <2>4
  <2>6. \A j \in DOMAIN d : d[j].do # "release"
    BY <1>1, <2>1, <2>2, <2>4
  <2>7. Freeing(d) = {} /\ MemoryOK(g, d, lost)
    BY <1>13, <2>6, NoReleases
  <2>8. TaskOK(g, s, d, u)
    <3>1. OldArray(s, u, heap[t.at].n)
      BY <1>5, <2>1 DEF OldArray
    <3>2. \A k \in 1..heap[t.at].n : k > u.i => g[a].own[k] \in {NULL, WILD}
      BY <1>5, <1>16, <2>1
    <3>3. Hooked(g, u) = a /\ Child(g, u) = el
      BY <1>4, <1>16, <1>17, <2>1 DEF Child
    <3>4. CopyOK(g, s, d, u)
      BY <1>2, <1>3, <1>4, <1>5, <1>16, <2>1, <2>7, <3>1, <3>2, <3>3 DEF CopyOK
    <3>5. QED
      BY <2>1, <3>4 DEF TaskOK, CopyDo, TreeDo, BuildDo
  <2>9. TaskOK(g, s, d, w)
    <3>1. OldArray(s, w, n)
      BY <1>9, <2>2 DEF OldArray
    <3>2. Hooked(g, w) = NULL
      BY <1>5, <1>12, <2>2 DEF Hooked, Hook
    <3>3. CopyOK(g, s, d, w)
      BY <1>4, <1>9, <1>12, <1>19, <2>2, <2>7, <3>1, <3>2 DEF CopyOK
    <3>4. QED
      BY <2>2, <3>3 DEF TaskOK, CopyDo, TreeDo, BuildDo
  <2>10. Steady(heap, g, c, d)
    <3>1. \A v \in Variables : g[v] = heap[v]
      BY <1>4, <1>10, VariableNames
    <3>2. ASSUME NEW j \in DOMAIN c, c[j].do = "copiedBelow"
          PROVE  g[c[j].at] = heap[c[j].at] /\ g[Hooked(heap, c[j])] = heap[Hooked(heap, c[j])]
      <4>1. c[j].at \in Addresses /\ Hooked(heap, c[j]) \in Addresses
        BY <3>2, CopyParts DEF CopyDo
      <4>2. QED
        BY <1>4, <1>10, <3>2, <4>1
    <3>3. QED
      BY <2>7, <3>1, <3>2 DEF Steady
  <2>11. Anchored(g, d, m)
    <3>0. m \in Nat /\ \A x \in Nat : x - 1 # x
      BY <1>1
    <3>1. d[m].at = c[m].at /\ (m - 1 \in DOMAIN c => m - 1 \in DOMAIN d /\ d[m - 1] = c[m - 1])
      BY <2>1, <2>4, <3>0
    <3>2. QED
      BY <1>0, <1>1, <2>10, <3>1, Anchors
  <2>12. Anchored(g, d, m + 1)
    <3>1. Child(g, u) = el
      BY <1>4, <1>16, <1>17, <2>1 DEF Child
    <3>2. (m + 1) - 1 = m
      BY <1>1
    <3>3. m \in DOMAIN d
      BY <1>1, <2>4
    <3>4. QED
      BY <2>1, <2>2, <2>4, <3>1, <3>2, <3>3 DEF Anchored
  <2>13. Prepared(g, s, d, m)
    BY <2>1, <2>2, <2>4, <2>8, <2>9, <2>11, <2>12 DEF Prepared, CopyDo
  <2>14. Continued(c, d, m)
    <3>1. \A j \in DOMAIN c : c[j].do \in CopyDo => el # c[j].at
      BY <1>0, ChildNew DEF el
    <3>2. m \in DOMAIN d /\ d[m].do = "copiedBelow" /\ d[m].at = c[m].at /\ d[m + 1].at = el
      BY <1>1, <2>1, <2>2, <2>4
    <3>3. QED
      BY <2>4, <3>1, <3>2 DEF Continued
  <2>15. Harmless(s, c, d)
    BY <2>7 DEF Harmless
  <2>16. Good(g, s, d, lost)
    BY <1>0, <1>14, <1>15, <2>4, <2>5, <2>7, <2>13, <2>14, <2>15, CopyStep
  <2>17. QED
    BY <1>0, <1>8, <2>5, <2>16 DEF d, g
<1>20. QED
  BY <1>11, <1>18, <1>19

(* Back from what is below an element, the task goes on or gives up.       *)
LEMMA CopiedBelowGood ==
  ASSUME Good(heap, settled, calls, lost), CopiedBelow, Settles
  PROVE  Good(heap', settled', calls', lost')
<1> DEFINE c == calls
           d == calls'
           m == Len(calls)
           t == c[m]
           a == Hooked(heap, t)
           s == settled
<1>0. /\ c # <<>> /\ t.do = "copiedBelow" /\ t.do \in CopyDo \ {"deepCopy"} /\ t.do \in CopyDo
      /\ Top = t /\ lost' = lost /\ heap' = heap
  BY DEF CopiedBelow, In, Top, CopyDo
<1>1. /\ c \in Seq(Tasks) /\ m \in DOMAIN c /\ t \in Tasks /\ CopyOK(heap, s, c, t)
      /\ Freeing(c) = {} /\ Sound(heap, lost) /\ Apart(heap, s)
  BY <1>0, CopyFacts
<1>2. t.at \in Blocks /\ heap[t.at].kind \in {"shell", "element"} /\ heap[t.at].n \in Nat
      /\ s[t.at].kind = "free"
  BY <1>0, CopyTarget
<1>3. a \in Blocks /\ t.from # NULL
  BY <1>0, CopyArrayParts
<1>4. t.i \in 1..heap[t.at].n
  BY <1>0, CopyChild
<1>5. /\ OldArray(s, t, heap[t.at].n)
      /\ \A k \in 1..heap[t.at].n : k > t.i => heap[a].own[k] \in {NULL, WILD}
  BY <1>0, <1>1 DEF CopyOK
<1>6. (d = <<>> => settled' = heap') /\ (d # <<>> => settled' = settled)
  BY <1>0 DEF Settles
<1>7. Unmoved(heap, heap, c)
  BY DEF Unmoved
<1>8. ASSUME NEW u, u.at = t.at PROVE Hooked(heap, u) = a
  BY <1>8 DEF Hooked
<1> HIDE DEF a
<1>9. CASE Goes("giveUp")
  <2> DEFINE u == [t EXCEPT !.do = "giveUp"]
  <2>1. /\ u \in Tasks /\ u.do = "giveUp" /\ u.at = t.at /\ u.from = t.from /\ u.skip = t.skip
        /\ u.i = t.i
    BY <1>1, Going DEF Doings, CopyDo
  <2>2. d = [c EXCEPT ![m] = u]
    BY <1>0, <1>9 DEF Goes, Becomes
  <2> HIDE DEF u
  <2>3. CopyOK(heap, s, c, u)
    <3>1. OldArray(s, u, heap[t.at].n)
      BY <1>5, <2>1 DEF OldArray
    <3>2. Hooked(heap, u) = a
      BY <1>8, <2>1
    <3>3. QED
      BY <1>1, <1>2, <1>3, <2>1, <3>1, <3>2 DEF CopyOK
  <2>4. u.do \in CopyDo
    BY <2>1 DEF CopyDo
  <2> HIDE DEF d
  <2>5. Good(heap, s, d, lost) /\ d # <<>>
    BY <1>0, <1>1, <1>7, <2>1, <2>2, <2>3, <2>4, CopyGoes
  <2>6. QED
    BY <1>0, <1>6, <2>5 DEF d
<1>10. CASE Proceeds("copyElement")
  <2> DEFINE u == [t EXCEPT !.do = "copyElement", !.i = @ + 1]
  <2>1. /\ u \in Tasks /\ u.do = "copyElement" /\ u.at = t.at /\ u.from = t.from /\ u.skip = t.skip
        /\ u.i = t.i + 1
    BY <1>1, Proceeding DEF Doings, CopyDo
  <2>2. d = [c EXCEPT ![m] = u]
    BY <1>0, <1>10 DEF Proceeds, Becomes
  <2> HIDE DEF u
  <2>3. CopyOK(heap, s, c, u)
    <3>1. OldArray(s, u, heap[t.at].n)
      BY <1>5, <2>1 DEF OldArray
    <3>2. \A k \in 1..heap[t.at].n : k > u.i \/ k = u.i => heap[a].own[k] \in {NULL, WILD}
      BY <1>4, <1>5, <2>1
    <3>3. Hooked(heap, u) = a
      BY <1>8, <2>1
    <3>4. QED
      BY <1>1, <1>2, <1>3, <2>1, <3>1, <3>2, <3>3 DEF CopyOK
  <2>4. u.do \in CopyDo
    BY <2>1 DEF CopyDo
  <2> HIDE DEF d
  <2>5. Good(heap, s, d, lost) /\ d # <<>>
    BY <1>0, <1>1, <1>7, <2>1, <2>2, <2>3, <2>4, CopyGoes
  <2>6. QED
    BY <1>0, <1>6, <2>5 DEF d
<1>11. QED
  BY <1>9, <1>10 DEF CopiedBelow

(* What was copied so far is handed to a release.                          *)
LEMMA GiveUpGood ==
  ASSUME Good(heap, settled, calls, lost), GiveUp, Settles
  PROVE  Good(heap', settled', calls', lost')
<1> DEFINE c == calls
           d == calls'
           m == Len(calls)
           t == c[m]
           a == Hooked(heap, t)
           s == settled
           g == heap'
           u == Release(a)
           k == Hook(heap[t.at])
<1>0. /\ c # <<>> /\ t.do = "giveUp" /\ t.do \in CopyDo \ {"deepCopy"} /\ t.do \in CopyDo
      /\ Top = t /\ lost' = lost
  BY DEF GiveUp, In, Top, CopyDo
<1>1. /\ c \in Seq(Tasks) /\ m \in DOMAIN c /\ t \in Tasks /\ m \in Nat /\ DOMAIN c = 1..m
      /\ Freeing(c) = {} /\ Sound(heap, lost) /\ Apart(heap, s)
      /\ \A j \in DOMAIN c : c[j].do \notin {"release", "pack"}
  BY <1>0, CopyFacts
<1>2. /\ t.at \in Blocks /\ t.at \in Addresses /\ heap[t.at].kind \in {"shell", "element"}
      /\ ShapeOK(heap[t.at], Pointers) /\ k \in 1..Size(heap[t.at])
      /\ s[t.at].kind = "free"
      /\ \A j \in DOMAIN c : j # m /\ c[j].do = "copiedBelow" =>
           t.at # c[j].at /\ t.at # Hooked(heap, c[j])
  BY <1>0, CopyTarget
<1>3. /\ a \in Blocks /\ a # t.at /\ s[a].kind = "free" /\ a \notin lost
      /\ \A j \in DOMAIN c : j # m /\ c[j].do = "copiedBelow" => a # c[j].at
  BY <1>0, CopyArrayParts
<1>4. (d = <<>> => settled' = heap') /\ (d # <<>> => settled' = settled)
  BY <1>0 DEF Settles
<1>5. g = Cleared({t.at}) /\ d = [c EXCEPT ![m] = u]
  BY <1>0 DEF GiveUp, Becomes, ArrayOf, Hooked
<1>6. u \in Tasks /\ u.do = "release" /\ u.at = a /\ u.i = 1
  BY <1>3, TaskParts DEF Release, Pointers
<1>7. heap[t.at].own[k] = a
  BY DEF Hooked
<1>8. g[t.at] = Pointing(heap[t.at], k, NULL)
  BY <1>2, <1>5 DEF Cleared
<1> HIDE DEF d, g, u, a, k
<1>9. /\ Sound(g, lost \cup ({a} \cap Blocks))
      /\ \A b \in Addresses : b # t.at => g[b] = heap[b]
  <2>1. Sound(heap, lost) /\ g = Cleared({t.at}) /\ a = heap[t.at].own[Hook(heap[t.at])]
    BY <1>1, <1>5, <1>7 DEF k
  <2>2. t.at \in Addresses /\ Hook(heap[t.at]) \in 1..Size(heap[t.at])
    BY <1>2 DEF k
  <2> HIDE DEF t
  <2>3. QED
    BY <2>1, <2>2, ClearingOne
<1>10. /\ d \in Seq(Tasks) /\ Len(d) = m /\ DOMAIN d = DOMAIN c /\ d[m] = u
       /\ \A j \in DOMAIN c : j # m => d[j] = c[j]
  BY <1>0, <1>1, <1>5, <1>6, Becoming
<1>11. d # <<>>
  BY <1>1, <1>10
<1>12. MemoryOK(g, d, lost) /\ Freeing(d) = {a} \cap Blocks
  <2>1. \A j \in DOMAIN d : d[j].do = "release" => j = m /\ d[j].at = a /\ d[j].i = 1
    BY <1>1, <1>6, <1>10
  <2>2. m \in DOMAIN d /\ d[m].do = "release"
    BY <1>1, <1>6, <1>10
  <2>3. Sound(g, lost \cup ({a} \cap Blocks)) /\ a \notin lost
    BY <1>3, <1>9
  <2> HIDE DEF m
  <2>4. QED
    BY <2>1, <2>2, <2>3, OneRelease
<1>13. Unmoved(heap, g, c)
  BY <1>0, <1>2, <1>9 DEF Unmoved
<1>14. m + 1 \notin DOMAIN d
  BY <1>1, <1>10
<1>15. Continued(c, d, m)
  BY <1>6, <1>10, <1>14 DEF Continued, CopyDo
<1>16. Prepared(g, s, d, m)
  <2>1. a \in Pointers
    BY <1>3 DEF Pointers
  <2>2. TaskOK(g, s, d, u)
    BY <1>6, <2>1 DEF TaskOK, ReleaseOK, CopyDo, TreeDo, BuildDo
  <2>3. QED
    BY <1>6, <1>10, <1>14, <2>2 DEF Prepared, CopyDo
<1>17. Harmless(s, c, d)
  BY <1>0, <1>3, <1>12 DEF Harmless
<1>18. Apart(g, s)
  <2>1. \A b \in Blocks : s[b].kind # "free" => g[b] = s[b]
    BY <1>1, <1>2, <1>9, Names DEF Apart
  <2>2. ASSUME NEW b \in Blocks, s[b].kind = "free", NEW i \in 1..Size(g[b]), g[b].own[i] \in Blocks
        PROVE  s[g[b].own[i]].kind = "free"
    <3>1. CASE b = t.at
      <4>1. /\ Size(g[b]) = Size(heap[b]) /\ g[b].own[k] = NULL
            /\ \A x \in 1..Size(heap[b]) : x # k => g[b].own[x] = heap[b].own[x]
        BY <1>2, <1>8, <3>1, PointingParts
      <4>2. i # k
        BY <2>2, <4>1, Names
      <4>3. i \in 1..Size(heap[b]) /\ heap[b].own[i] = g[b].own[i]
        BY <2>2, <4>1, <4>2
      <4>4. QED
        BY <1>1, <2>2, <4>3 DEF Apart
    <3>2. CASE b # t.at
      <4>1. g[b] = heap[b]
        BY <1>9, <3>2, Names
      <4>2. QED
        BY <1>1, <2>2, <4>1 DEF Apart
    <3>3. QED
      BY <3>1, <3>2
  <2>3. QED
    BY <2>1, <2>2 DEF Apart
<1>19. Good(g, s, d, lost)
  BY <1>0, <1>10, <1>11, <1>12, <1>13, <1>15, <1>16, <1>17, <1>18, CopyStep
<1>20. QED
  BY <1>0, <1>4, <1>11, <1>19 DEF d, g
-----------------------------------------------------------------------------
(* New handles *)

(* Below the task that makes a handle there is at most the request or the  *)
(* load it is made for.                                                    *)
LEMMA TreeFacts ==
  ASSUME NEW h, NEW s, NEW c, NEW l, Good(h, s, c, l), c # <<>>, NEW m, m = Len(c),
         c[m].do \in TreeDo, NEW t, t = c[m]
  PROVE  /\ c \in Seq(Tasks) /\ m \in DOMAIN c /\ m \in Nat /\ m > 0 /\ DOMAIN c = 1..m
         /\ t \in Tasks /\ TreeOK(h, s, t)
         /\ Freeing(c) = {} /\ Sound(h, l) /\ Apart(h, s) /\ SettledOK(s)
         /\ \A j \in DOMAIN c : j # m => j = 1 /\ j < m /\
              c[j].do = IF t.do = "copyTreeUnchecked" THEN "answer" ELSE "loaded"
         /\ h[t.at].own[1] \in Blocks \cup {NULL}
         /\ t.at \in Variables /\ t.at \in Addresses /\ h[t.at].kind = "handle"
<1>1. /\ c \in Seq(Tasks) /\ m \in DOMAIN c /\ m \in Nat /\ m > 0 /\ DOMAIN c = 1..m /\ t \in Tasks
      /\ \A j \in DOMAIN c : j \in Nat /\ (j # m => j < m)
  BY StackParts DEF Good
<1>2. TreeOK(h, s, t)
  BY <1>1 DEF Good, TasksOK, TaskOK
<1>3. Freeing(c) = {} /\ Sound(h, l)
  BY Quiet DEF TreeDo
<1>4. Apart(h, s) /\ SettledOK(s)
  BY <1>1 DEF Good, BorrowOK, Borrowing
<1>5. ASSUME NEW j \in DOMAIN c, j # m
      PROVE  c[j].do = IF t.do = "copyTreeUnchecked" THEN "answer" ELSE "loaded"
  BY <1>1, <1>5 DEF Good, StackOK
<1>6. ASSUME NEW j \in DOMAIN c, j # m PROVE j = 1
  <2>1. c[j].do \in FirstDo
    BY <1>5, <1>6 DEF FirstDo
  <2>2. 1 \in DOMAIN c /\ (j # 1 => 1 < j)
    BY <1>1, <1>6
  <2>3. QED
    BY <2>1, <2>2 DEF Good, StackOK
<1>7. t.at \in Variables /\ t.at # New
  BY <1>2, VariableNames DEF TreeOK
<1>8. /\ t.at \in Addresses /\ h[t.at].kind = "handle"
      /\ h[t.at].own[1] \in Blocks \cup {NULL}
  BY <1>3, <1>7, VariableShape
<1>9. QED
  BY <1>1, <1>2, <1>3, <1>4, <1>5, <1>6, <1>7, <1>8

(* A step that makes, checks or drops a handle keeps the invariant if what *)
(* it leaves at work is all right.                                         *)
TreeContinued(c, d, m) ==
  /\ DOMAIN d \subseteq DOMAIN c \cup {m + 1}
  /\ DOMAIN c \ {m} \subseteq DOMAIN d
  /\ \A j \in DOMAIN c : j # m => d[j] = c[j]
  /\ m \in DOMAIN d =>
       /\ d[m].do \in {"checkTree", "deepCopy", "release"}
       /\ d[m].do = "checkTree" => c[m].do = "copyTree"
  /\ m + 1 \in DOMAIN d => m \in DOMAIN d /\ d[m].do = "checkTree" /\ d[m + 1].do = "deepCopy"

TreePrepared(g, s, d, m) ==
  \A j \in DOMAIN d : j \in {m, m + 1} =>
    TaskOK(g, s, d, d[j]) /\ (d[j].do = "deepCopy" => Anchored(g, d, j))

(* A step that makes, checks or drops a handle keeps the invariant if      *)
(* what it leaves at work is right.                                        *)
LEMMA TreeStep ==
  ASSUME NEW h, NEW s, NEW c, NEW l, Good(h, s, c, l), c # <<>>, NEW m, m = Len(c),
         c[m].do \in TreeDo,
         NEW g, NEW d, d \in Seq(Tasks), NEW t, d = <<>> => t = g, d # <<>> => t = s,
         \A v \in Variables : v # c[m].at => g[v] = h[v],
         TreeContinued(c, d, m), TreePrepared(g, s, d, m),
         MemoryOK(g, d, l), Apart(g, s), \A q \in Freeing(d) : s[q].kind = "free"
  PROVE  Good(g, t, d, l)
<1> DEFINE r == c[m]
<1>1. /\ m \in DOMAIN c /\ m \in Nat /\ DOMAIN c = 1..m /\ TreeOK(h, s, r) /\ SettledOK(s)
      /\ \A j \in DOMAIN c : j # m => j = 1 /\ j < m /\
           c[j].do = IF r.do = "copyTreeUnchecked" THEN "answer" ELSE "loaded"
  BY TreeFacts
<1>2. r.at \in Handles /\ r.do \in TreeDo
  BY <1>1 DEF TreeOK
<1> HIDE DEF r
<1>3. \A j \in DOMAIN d : j \in Nat /\ (j \in {m, m + 1} \/ (j \in DOMAIN c /\ j # m /\ j = 1 /\ d[j] = c[j]))
  BY <1>1 DEF TreeContinued
<1>4. \A j \in DOMAIN d : j \in {m, m + 1} =>
        /\ m \in DOMAIN d /\ d[j].do \in {"checkTree", "deepCopy", "release"}
        /\ j # m => d[m].do = "checkTree" /\ d[j].do = "deepCopy"
        /\ d[j].do = "checkTree" => j = m /\ r.do = "copyTree"
  <2>1. m + 1 # m
    BY <1>1
  <2>2. QED
    BY <2>1 DEF TreeContinued, r
<1>5. \A v \in {New, Stored, Message} : g[v] = h[v]
  BY <1>2, VariableNames DEF r
<1>6. ASSUME NEW j \in DOMAIN d PROVE TaskOK(g, s, d, d[j])
  <2>1. CASE j \in {m, m + 1}
    BY <2>1 DEF TreePrepared
  <2>2. CASE j \in DOMAIN c /\ j # m /\ d[j] = c[j]
    <3>1. TaskOK(h, s, c, c[j])
      BY <2>2 DEF Good, TasksOK
    <3>2. CASE c[j].do = "loaded"
      BY <1>5, <2>2, <3>1, <3>2 DEF TaskOK, CopyDo, TreeDo, BuildDo
    <3>3. CASE c[j].do = "answer"
      <4>1. r.do # "checkTree" /\ h[r.at].own[1] = NULL
        BY <1>1, <2>2, <3>3 DEF TreeOK
      <4>2. c[j].at \in Slots /\ h[Message].own[1] \in Blocks /\ h[c[j].at].own[1] \in Blocks
        BY <3>1, <3>3 DEF TaskOK, RequestOK
      <4>3. c[j].at # r.at
        BY <4>1, <4>2, Names
      <4>4. g[c[j].at] = h[c[j].at]
        BY <4>2, <4>3, VariableNames DEF r
      <4>5. RequestOK(g, s, c[j])
        BY <1>5, <3>3, <4>2, <4>4 DEF RequestOK
      <4>6. QED
        BY <2>2, <3>3, <4>5 DEF TaskOK, CopyDo, TreeDo, BuildDo
    <3>4. QED
      BY <1>1, <2>2, <3>2, <3>3
  <2>3. QED
    BY <1>3, <2>1, <2>2
<1>7. StackOK(d)
  <2>1. ASSUME NEW j \in DOMAIN d, NEW k \in DOMAIN d PROVE d[k].do # "pack"
    BY <1>1, <1>3, <1>4
  <2>2. ASSUME NEW j \in DOMAIN d, NEW k \in DOMAIN d, j < k
        PROVE  /\ d[j].do \in {"answer", "loaded", "checkTree"}
               /\ d[k].do \in {"checkTree", "deepCopy", "release"}
               /\ d[k].do = "checkTree" => d[j].do = "loaded"
    <3>1. k \in {m, m + 1}
      <4>1. CASE k \in DOMAIN c /\ k # m /\ k = 1
        <5>1. j \in {m, m + 1} \/ j = 1
          BY <1>3
        <5>2. m > 1
          BY <1>1, <4>1
        <5>3. QED
          BY <1>1, <2>2, <4>1, <5>1, <5>2
      <4>2. QED
        BY <1>3, <4>1
    <3>2. CASE j \in {m, m + 1}
      <4>1. j = m /\ k = m + 1
        BY <1>1, <2>2, <3>1, <3>2
      <4>2. QED
        BY <1>1, <1>4, <4>1 DEF TreeContinued
    <3>3. CASE j \in DOMAIN c /\ j # m /\ d[j] = c[j]
      BY <1>1, <1>4, <3>1, <3>3
    <3>4. QED
      BY <1>3, <3>1, <3>2, <3>3
  <2>3. QED
    BY <2>1, <2>2 DEF StackOK, Waiting, FirstDo, BuildDo, TreeDo
<1>8. ChainOK(g, d)
  <2>1. ASSUME NEW j \in DOMAIN d, d[j].do \in CopyDo
        PROVE  j \in {m, m + 1} /\ d[j].do = "deepCopy" /\ Anchored(g, d, j)
    <3>1. j \in {m, m + 1}
      BY <1>1, <1>3, <2>1 DEF CopyDo
    <3>2. d[j].do = "deepCopy"
      BY <1>4, <2>1, <3>1 DEF CopyDo
    <3>3. QED
      BY <3>1, <3>2 DEF TreePrepared
  <2>2. ASSUME NEW j \in DOMAIN d, NEW k \in DOMAIN d, d[j].do \in CopyDo, d[k].do \in CopyDo
        PROVE  j = k
    BY <1>4, <2>1, <2>2
  <2>3. QED
    BY <2>1, <2>2 DEF ChainOK
<1>9. BorrowOK(g, s, d)
  BY DEF BorrowOK
<1>10. VariablesOK(g, d)
  <2>1. VariablesOK(h, c)
    BY DEF Good
  <2>2. \A j \in DOMAIN c : c[j].do \notin BuildDo
    BY <1>1, <1>2 DEF BuildDo, TreeDo, r
  <2>3. g[New].own[1] = NULL
    BY <1>5, <2>1, <2>2 DEF VariablesOK
  <2>4. ASSUME g[Stored].own[1] # NULL PROVE \E j \in DOMAIN d : d[j].do = "loaded"
    <3>1. PICK j \in DOMAIN c : c[j].do = "loaded"
      BY <1>5, <2>1, <2>4 DEF VariablesOK
    <3>2. j # m
      BY <1>2, <3>1 DEF TreeDo, r
    <3>3. QED
      BY <3>1, <3>2 DEF TreeContinued
  <2>5. ASSUME g[Query].own[1] # NULL PROVE g[Message].own[1] # NULL
    <3>1. CASE r.at = Query
      BY <1>1, <1>5, <3>1, Names DEF TreeOK
    <3>2. CASE r.at # Query
      <4>1. g[Query] = h[Query]
        BY <3>2, VariableNames DEF r
      <4>2. QED
        BY <1>5, <2>1, <2>5, <4>1 DEF VariablesOK
    <3>3. QED
      BY <3>1, <3>2
  <2>6. QED
    BY <2>3, <2>4, <2>5 DEF VariablesOK
<1>11. TasksOK(g, s, d)
  BY <1>6 DEF TasksOK
<1>12. QED
  BY <1>1, <1>7, <1>8, <1>9, <1>10, <1>11, Within

(* The handle is made, and what is to be in it is about to be copied.      *)
LEMMA NewTreeGood ==
  ASSUME Good(heap, settled, calls, lost), NewTree, Settles
  PROVE  Good(heap', settled', calls', lost')
<1> DEFINE c == calls
           d == calls'
           m == Len(calls)
           t == c[m]
           s == settled
           g == heap'
           n == t.n
           f == Fresh
           w == DeepCopy(Fresh, t.from, t.skip)
<1>0. /\ c # <<>> /\ t.do \in {"copyTree", "copyTreeUnchecked"} /\ t.do \in TreeDo
      /\ Top = t /\ lost' = lost
  BY DEF NewTree, In, Top, TreeDo
<1>1. /\ c \in Seq(Tasks) /\ m \in DOMAIN c /\ m \in Nat /\ m > 0 /\ DOMAIN c = 1..m
      /\ t \in Tasks /\ TreeOK(heap, s, t)
      /\ Freeing(c) = {} /\ Sound(heap, lost) /\ Apart(heap, s)
      /\ \A j \in DOMAIN c : j # m => j = 1 /\ j < m /\
           c[j].do = IF t.do = "copyTreeUnchecked" THEN "answer" ELSE "loaded"
      /\ t.at \in Variables /\ t.at \in Addresses /\ heap[t.at].kind = "handle"
  <2> HIDE DEF t, s
  <2>1. QED
    BY <1>0, TreeFacts DEF t, s
<1>2. /\ t.at \in Handles /\ heap[t.at].own[1] = NULL /\ OldArray(s, t, n) /\ n \in Nat
      /\ t.from \in Pointers \cup Variables /\ t.skip \in Nat
      /\ t.at = Query => heap[Message].own[1] \in Blocks
  BY <1>0, <1>1, TaskFields DEF TreeOK
<1>3. (d = <<>> => settled' = heap') /\ (d # <<>> => settled' = settled)
  BY <1>0 DEF Settles
<1>4. \A j \in DOMAIN c : c[j].do # "release"
  BY <1>0, <1>1
<1>8. \/ Returns /\ UNCHANGED heap
      \/ /\ Room /\ g = WithIn(Shell(n), t.at, 1)
         /\ n = 0 => Returns
         /\ n # 0 /\ t.do = "copyTree" => Calls([t EXCEPT !.do = "checkTree"], w)
         /\ n # 0 /\ t.do = "copyTreeUnchecked" => Becomes(w)
  BY <1>0 DEF NewTree
<1>9. m # m + 1 /\ m + 1 \notin DOMAIN c
  <2>1. m \in Nat /\ DOMAIN c = 1..m
    BY <1>1
  <2> HIDE DEF m
  <2>2. QED
    BY <2>1
<1> HIDE DEF t, s, n
<1>5. ASSUME Returns, DOMAIN g = Addresses, Sound(g, lost), Apart(g, s),
             \A v \in Variables : v # t.at => g[v] = heap[v]
      PROVE  Good(heap', settled', calls', lost')
  <2>1. d = SubSeq(c, 1, Len(c) - 1)
    BY <1>5 DEF Returns
  <2> HIDE DEF d, g
  <2>2. /\ d \in Seq(Tasks) /\ DOMAIN d = DOMAIN c \ {m}
        /\ \A j \in DOMAIN d : d[j] = c[j]
    BY <1>0, <1>1, <2>1, Returning
  <2>3. \A j \in DOMAIN d : d[j].do # "release"
    BY <1>4, <2>2
  <2>4. MemoryOK(g, d, lost) /\ Freeing(d) = {}
    BY <1>5, <2>3, NoReleases
  <2>5. m \notin DOMAIN d /\ m + 1 \notin DOMAIN d
    BY <1>9, <2>2
  <2>6. TreeContinued(c, d, m)
    BY <1>1, <2>2, <2>5 DEF TreeContinued
  <2>7. TreePrepared(g, s, d, m)
    BY <2>5 DEF TreePrepared
  <2>8. (d = <<>> => settled' = g) /\ (d # <<>> => settled' = s)
    BY <1>3 DEF d, g, s
  <2>9. t.do \in TreeDo /\ t = c[m] /\ Good(heap, s, c, lost)
    BY <1>0 DEF t, s
  <2>10. Good(g, settled', d, lost)
    BY <1>0, <1>5, <2>2, <2>4, <2>6, <2>7, <2>8, <2>9, TreeStep
  <2>11. QED
    BY <1>0, <2>10 DEF d, g
<1>6. CASE Returns /\ UNCHANGED heap
  <2>1. DOMAIN heap = Addresses
    BY <1>1 DEF Sound
  <2>2. QED
    BY <1>1, <1>5, <1>6, <2>1
<1>7. CASE /\ Room /\ g = WithIn(Shell(n), t.at, 1)
           /\ n = 0 => Returns
           /\ n # 0 /\ t.do = "copyTree" => Calls([t EXCEPT !.do = "checkTree"], w)
           /\ n # 0 /\ t.do = "copyTreeUnchecked" => Becomes(w)
  <2>1. f \in Blocks /\ f \in Addresses /\ heap[f].kind = "free"
    BY <1>7, FreshParts
  <2>2. /\ Blank(Shell(n)) /\ Shell(n).kind = "shell" /\ Shell(n).n = n /\ Shell(n).own[1] = NULL
    BY <1>2, Blanks
  <2>3. g = Attached(heap, Shell(n), f, t.at, 1)
    BY <1>7 DEF WithIn, Attached
  <2>4. t.at \notin Blocks /\ t.at # New
    BY <1>2, VariableNames
  <2> HIDE DEF g, f
  <2>5. Attachable(heap, Shell(n), f, t.at, 1)
    <3>1. Place(heap, t.at, 1) /\ Target(heap[t.at].kind, 1) = "shell" /\ heap[t.at].own[1] \notin Blocks
      BY <1>1, <1>2, Names, VariableShape DEF Target
    <3>2. QED
      BY <1>1, <2>1, <2>2, <3>1 DEF Attachable, KindAt
  <2>6. /\ Sound(g, lost) /\ g[f] = Shell(n) /\ g[t.at].own[1] = f
        /\ \A b \in Addresses : b # f /\ b # t.at => g[b] = heap[b]
    BY <1>1, <2>3, <2>5, AttachedParts
  <2>7. Apart(g, s) /\ s[f].kind = "free"
    BY <1>1, <2>3, <2>4, <2>5, ApartAttached
  <2>8. DOMAIN g = Addresses
    BY <2>6 DEF Sound
  <2>9. \A v \in Variables : v # t.at => g[v] = heap[v]
    BY <2>1, <2>6, VariableNames
  <2>10. CASE n = 0
    <3>1. Returns
      BY <1>7, <2>10
    <3>2. QED
      BY <1>5, <2>6, <2>7, <2>8, <2>9, <3>1
  <2>11. ASSUME n # 0
         PROVE  /\ w \in Tasks /\ w.do = "deepCopy" /\ w.at = f
                /\ \A e : Freeing(e) = {} => TaskOK(g, s, e, w)
                /\ \A e, j : e[j] = w => Anchored(g, e, j)
    <3>1. w = DeepCopy(f, t.from, t.skip)
      BY DEF f
    <3> HIDE DEF w
    <3>2. /\ w \in Tasks /\ w.do = "deepCopy" /\ w.at = f /\ w.from = t.from /\ w.skip = t.skip
          /\ w.i = 1
      <4>1. f \in Pointers \cup Variables
        BY <2>1 DEF Pointers
      <4>2. QED
        BY <1>2, <3>1, <4>1, Copier
    <3>3. Hooked(g, w) = NULL /\ g[w.at].n = n /\ g[w.at].kind = "shell"
      BY <2>2, <2>6, <3>2 DEF Hooked, Hook
    <3>4. OldArray(s, w, n)
      BY <1>2, <3>2 DEF OldArray
    <3>5. ASSUME NEW e, Freeing(e) = {} PROVE TaskOK(g, s, e, w)
      <4>1. CopyOK(g, s, e, w)
        BY <1>2, <2>1, <2>7, <2>11, <3>2, <3>3, <3>4, <3>5 DEF CopyOK
      <4>2. QED
        BY <3>2, <4>1 DEF TaskOK, CopyDo, TreeDo, BuildDo
    <3>6. ASSUME NEW e, NEW j, e[j] = w PROVE Anchored(g, e, j)
      BY <1>2, <2>6, <3>2, <3>6 DEF Anchored
    <3>7. QED
      BY <3>2, <3>5, <3>6
  <2> HIDE DEF w
  <2>12. ASSUME DOMAIN d \subseteq DOMAIN c \cup {m + 1}, d \in Seq(Tasks), d # <<>>,
                \A j \in DOMAIN d : d[j].do # "release",
                TreeContinued(c, d, m), TreePrepared(g, s, d, m)
         PROVE  Good(heap', settled', calls', lost')
    <3> HIDE DEF d
    <3>1. MemoryOK(g, d, lost) /\ Freeing(d) = {}
      BY <2>6, <2>12, NoReleases
    <3>2. t.do \in TreeDo /\ t = c[m] /\ Good(heap, s, c, lost)
      BY <1>0 DEF t, s
    <3>3. Good(g, s, d, lost)
      BY <1>0, <2>7, <2>9, <2>12, <3>1, <3>2, TreeStep
    <3>4. QED
      BY <1>0, <1>3, <2>12, <3>3 DEF d, g, s
  <2>13. CASE n # 0 /\ t.do = "copyTree"
    <3> DEFINE u == [t EXCEPT !.do = "checkTree"]
    <3>1. u \in Tasks /\ u.do = "checkTree" /\ u.at = t.at
      BY <1>1, Going DEF Doings, TreeDo
    <3>2. d = Append([c EXCEPT ![m] = u], w)
      BY <1>7, <2>13 DEF Calls
    <3> HIDE DEF u, d
    <3>3. /\ d \in Seq(Tasks) /\ DOMAIN d = DOMAIN c \cup {m + 1} /\ d[m] = u /\ d[m + 1] = w
          /\ \A j \in DOMAIN c : j # m => d[j] = c[j]
      <4>1. c \in Seq(Tasks) /\ c # <<>> /\ u \in Tasks /\ w \in Tasks
        BY <1>0, <1>1, <2>11, <2>13, <3>1
      <4>2. QED
        BY <3>2, <4>1, Calling
    <3>4. \A j \in DOMAIN d : d[j].do # "release"
      BY <1>4, <2>11, <2>13, <3>1, <3>3
    <3>5. d # <<>> /\ m # m + 1 /\ Freeing(d) = {}
      <4>1. m \in DOMAIN d
        BY <1>1, <3>3
      <4>2. Freeing(d) = {}
        BY <3>4, NoReleases
      <4>3. QED
        BY <1>9, <4>1, <4>2
    <3>6. TaskOK(g, s, d, u)
      <4>1. g[Message] = heap[Message]
        BY <1>2, <2>9, VariableNames
      <4>2. TreeOK(g, s, u)
        BY <1>2, <2>1, <2>6, <2>7, <3>1, <4>1 DEF TreeOK
      <4>3. QED
        BY <3>1, <4>2 DEF TaskOK, CopyDo, TreeDo, BuildDo
    <3>7. TreePrepared(g, s, d, m)
      BY <2>11, <2>13, <3>1, <3>3, <3>5, <3>6 DEF TreePrepared
    <3>8. TreeContinued(c, d, m)
      <4>1. c[m].do = "copyTree" /\ w.do = "deepCopy" /\ m \in DOMAIN c
        BY <1>1, <2>11, <2>13 DEF t
      <4> HIDE DEF m
      <4>2. QED
        BY <3>1, <3>3, <3>5, <4>1 DEF TreeContinued
    <3>9. QED
      BY <2>12, <3>3, <3>4, <3>5, <3>7, <3>8 DEF d
  <2>14. CASE n # 0 /\ t.do = "copyTreeUnchecked"
    <3>1. d = [c EXCEPT ![m] = w]
      BY <1>7, <2>14 DEF Becomes
    <3> HIDE DEF d
    <3>2. /\ d \in Seq(Tasks) /\ DOMAIN d = DOMAIN c /\ d[m] = w
          /\ \A j \in DOMAIN c : j # m => d[j] = c[j]
      <4>1. c \in Seq(Tasks) /\ c # <<>> /\ w \in Tasks
        BY <1>0, <1>1, <2>11, <2>14
      <4>2. QED
        BY <3>1, <4>1, Becoming
    <3>3. \A j \in DOMAIN d : d[j].do # "release"
      BY <1>4, <2>11, <2>14, <3>2
    <3>4. d # <<>> /\ m + 1 \notin DOMAIN d /\ Freeing(d) = {}
      <4>1. m \in DOMAIN d
        BY <1>1, <3>2
      <4>2. Freeing(d) = {}
        BY <3>3, NoReleases
      <4>3. QED
        BY <1>9, <3>2, <4>1, <4>2
    <3>5. TreePrepared(g, s, d, m)
      BY <2>11, <2>14, <3>2, <3>4 DEF TreePrepared
    <3>6. TreeContinued(c, d, m)
      BY <2>11, <2>14, <3>2, <3>4 DEF TreeContinued
    <3>7. QED
      BY <2>12, <3>2, <3>3, <3>4, <3>5, <3>6 DEF d
  <2>15. QED
    BY <1>0, <2>10, <2>13, <2>14
<1>10. QED
  BY <1>6, <1>7, <1>8

(* A handle without its copy is handed to a release.                       *)
LEMMA CheckTreeGood ==
  ASSUME Good(heap, settled, calls, lost), CheckTree, Settles
  PROVE  Good(heap', settled', calls', lost')
<1> DEFINE c == calls
           d == calls'
           m == Len(calls)
           t == c[m]
           s == settled
           g == heap'
           a == heap[t.at].own[1]
           u == Release(a)
<1>0. /\ c # <<>> /\ t.do = "checkTree" /\ t.do \in TreeDo
      /\ Top = t /\ lost' = lost
  BY DEF CheckTree, In, Top, TreeDo
<1>1. /\ c \in Seq(Tasks) /\ m \in DOMAIN c /\ m \in Nat /\ m > 0 /\ DOMAIN c = 1..m
      /\ t \in Tasks /\ TreeOK(heap, s, t)
      /\ Freeing(c) = {} /\ Sound(heap, lost) /\ Apart(heap, s)
      /\ \A j \in DOMAIN c : j # m => j = 1 /\ j < m /\
           c[j].do = IF t.do = "copyTreeUnchecked" THEN "answer" ELSE "loaded"
      /\ t.at \in Variables /\ t.at \in Addresses /\ heap[t.at].kind = "handle"
  <2> HIDE DEF t, s
  <2>1. QED
    BY <1>0, TreeFacts DEF t, s
<1>2. /\ t.at \in Handles /\ a \in Blocks /\ s[a].kind = "free"
  BY <1>0, <1>1 DEF TreeOK
<1>3. (d = <<>> => settled' = heap') /\ (d # <<>> => settled' = settled)
  BY <1>0 DEF Settles
<1>4. \A j \in DOMAIN c : c[j].do # "release"
  BY <1>0, <1>1
<1>5. \/ Returns /\ UNCHANGED heap
      \/ g = Cleared({t.at}) /\ Becomes(u)
  BY <1>0 DEF CheckTree, Held
<1>6. m + 1 \notin DOMAIN c
  <2>1. m \in Nat /\ DOMAIN c = 1..m
    BY <1>1
  <2> HIDE DEF m
  <2>2. QED
    BY <2>1
<1> HIDE DEF t, s, a, u
<1>7. CASE Returns /\ UNCHANGED heap
  <2>1. d = SubSeq(c, 1, Len(c) - 1) /\ g = heap
    BY <1>7 DEF Returns
  <2> HIDE DEF d, g
  <2>2. /\ d \in Seq(Tasks) /\ DOMAIN d = DOMAIN c \ {m}
        /\ \A j \in DOMAIN d : d[j] = c[j]
    BY <1>0, <1>1, <2>1, Returning
  <2>3. \A j \in DOMAIN d : d[j].do # "release"
    BY <1>4, <2>2
  <2>4. MemoryOK(heap, d, lost) /\ Freeing(d) = {}
    BY <1>1, <2>3, NoReleases
  <2>5. m \notin DOMAIN d /\ m + 1 \notin DOMAIN d
    BY <1>6, <2>2
  <2>6. TreeContinued(c, d, m)
    BY <1>1, <2>2, <2>5 DEF TreeContinued
  <2>7. TreePrepared(heap, s, d, m)
    BY <2>5 DEF TreePrepared
  <2>8. (d = <<>> => settled' = heap) /\ (d # <<>> => settled' = s)
    BY <1>3, <2>1 DEF d, g, s
  <2>9. t.do \in TreeDo /\ t = c[m] /\ Good(heap, s, c, lost)
    BY <1>0 DEF t, s
  <2>10. Good(heap, settled', d, lost)
    BY <1>0, <1>1, <2>2, <2>4, <2>6, <2>7, <2>8, <2>9, TreeStep
  <2>11. QED
    BY <1>0, <2>1, <2>10 DEF d, g
<1>8. CASE g = Cleared({t.at}) /\ Becomes(u)
  <2>1. u \in Tasks /\ u.do = "release" /\ u.at = a /\ u.i = 1
    BY <1>2, TaskParts DEF Release, Pointers, u
  <2>2. d = [c EXCEPT ![m] = u]
    BY <1>8 DEF Becomes
  <2> HIDE DEF d, g
  <2>3. /\ d \in Seq(Tasks) /\ DOMAIN d = DOMAIN c /\ d[m] = u
        /\ \A j \in DOMAIN c : j # m => d[j] = c[j]
    <3>1. c \in Seq(Tasks) /\ c # <<>>
      BY <1>0, <1>1
    <3>2. QED
      BY <2>1, <2>2, <3>1, Becoming
  <2>4. heap[t.at].own[1] = a /\ Hook(heap[t.at]) = 1 /\ Size(heap[t.at]) = 1
    BY <1>1, VariableShape DEF a
  <2>5. Sound(g, lost \cup ({a} \cap Blocks)) /\ \A b \in Addresses : b # t.at => g[b] = heap[b]
    <3>1. Sound(heap, lost) /\ g = Cleared({t.at}) /\ a = heap[t.at].own[Hook(heap[t.at])]
      BY <1>1, <1>8, <2>4
    <3>2. t.at \in Addresses /\ Hook(heap[t.at]) \in 1..Size(heap[t.at])
      BY <1>1, <2>4
    <3>3. QED
      BY <3>1, <3>2, ClearingOne
  <2>6. a \notin lost
    BY <1>1, <2>4 DEF Sound, Roots
  <2>7. MemoryOK(g, d, lost) /\ Freeing(d) = {a} \cap Blocks
    <3>1. \A j \in DOMAIN d : d[j].do = "release" => j = m /\ d[j].at = a /\ d[j].i = 1
      BY <1>4, <2>1, <2>3
    <3>2. m \in DOMAIN d /\ d[m].do = "release"
      BY <1>1, <2>1, <2>3
    <3>3. Sound(g, lost \cup ({a} \cap Blocks)) /\ a \notin lost
      BY <2>5, <2>6
    <3> HIDE DEF m
    <3>4. QED
      BY <3>1, <3>2, <3>3, OneRelease
  <2>8. \A q \in Freeing(d) : s[q].kind = "free"
    BY <1>2, <2>7
  <2>9. \A v \in Variables : v # t.at => g[v] = heap[v]
    BY <2>5, VariableNames
  <2>10. Apart(g, s)
    <3>1. \A b \in Blocks : g[b] = heap[b]
      BY <1>1, <2>5, VariableNames, Names
    <3>2. QED
      BY <1>1, <3>1 DEF Apart
  <2>11. TaskOK(g, s, d, u)
    <3>1. a \in Pointers
      BY <1>2 DEF Pointers
    <3>2. QED
      BY <2>1, <3>1 DEF TaskOK, ReleaseOK, CopyDo, TreeDo, BuildDo
  <2>12. TreePrepared(g, s, d, m)
    BY <1>6, <2>1, <2>3, <2>11 DEF TreePrepared
  <2>13. TreeContinued(c, d, m)
    BY <1>6, <2>1, <2>3 DEF TreeContinued
  <2>14. d # <<>>
    <3>1. m \in DOMAIN d
      BY <1>1, <2>3
    <3>2. QED
      BY <3>1
  <2>15. t.do \in TreeDo /\ t = c[m] /\ Good(heap, s, c, lost)
    BY <1>0 DEF t, s
  <2>16. Good(g, s, d, lost)
    BY <1>0, <2>3, <2>7, <2>8, <2>9, <2>10, <2>12, <2>13, <2>14, <2>15, TreeStep
  <2>17. QED
    BY <1>0, <1>3, <2>14, <2>16 DEF d, g, s
<1>9. QED
  BY <1>5, <1>7, <1>8
-----------------------------------------------------------------------------
(* Calls and their first step *)

(* Sound memory may be what a call finds.                                  *)
LEMMA SelfApart ==
  ASSUME NEW g, NEW R, Sound(g, R)
  PROVE  SettledOK(g) /\ Apart(g, g)
<1>1. SettledOK(g)
  BY DEF SettledOK, Sound
<1>2. \A b \in Blocks : g[b].kind = "free" => Size(g[b]) = 0
  BY DEF Size
<1>3. QED
  BY <1>1, <1>2 DEF Apart

(* Between calls there is sound memory, without an element in the making.  *)
LEMMA Nothing ==
  ASSUME NEW g, NEW l, Sound(g, l), g[New].own[1] = NULL, g[Stored].own[1] = NULL,
         g[Query].own[1] # NULL => g[Message].own[1] # NULL, NEW d, d = <<>>, NEW t, t = g
  PROVE  Good(g, t, d, l)
<1>1. /\ d \in Seq(Tasks) /\ DOMAIN d = {}
  OBVIOUS
<1>2. MemoryOK(g, d, l)
  BY <1>1, NoReleases
<1>3. SettledOK(g)
  BY SelfApart
<1>4. VariablesOK(g, d)
  BY DEF VariablesOK
<1>5. TasksOK(g, g, d) /\ StackOK(d) /\ ChainOK(g, d) /\ BorrowOK(g, g, d)
  BY <1>1 DEF TasksOK, StackOK, ChainOK, BorrowOK
<1>6. QED
  BY <1>1, <1>2, <1>3, <1>4, <1>5 DEF Good

(* What the variables say of the task that is alone.                       *)
VariablesFit(g, r) ==
  /\ g[New].own[1] # NULL => r.do \in BuildDo
  /\ g[Stored].own[1] # NULL => r.do = "loaded"
  /\ g[Query].own[1] # NULL => g[Message].own[1] # NULL

(* A task that is alone, and releases nothing.                             *)
LEMMA Alone ==
  ASSUME NEW g, NEW s, NEW r \in Tasks, NEW d, d = <<r>>, NEW l, SettledOK(s),
         r.do \notin CopyDo, r.do # "release", TaskOK(g, s, d, r),
         Apart(g, s), Sound(g, l), VariablesFit(g, r)
  PROVE  Good(g, s, d, l)
<1>1. d \in Seq(Tasks) /\ DOMAIN d = {1} /\ d[1] = r
  OBVIOUS
<1>2. MemoryOK(g, d, l) /\ Freeing(d) = {}
  BY <1>1, NoReleases
<1>3. StackOK(d)
  BY <1>1 DEF StackOK
<1>4. TasksOK(g, s, d) /\ ChainOK(g, d) /\ VariablesOK(g, d)
  BY <1>1 DEF TasksOK, ChainOK, VariablesOK, VariablesFit
<1>5. BorrowOK(g, s, d)
  BY <1>2 DEF BorrowOK
<1>6. QED
  BY <1>1, <1>2, <1>3, <1>4, <1>5 DEF Good

(* A release that is alone.                                                *)
LEMMA AloneReleasing ==
  ASSUME NEW g, NEW s, NEW q \in Pointers, NEW d, d = <<Release(q)>>, NEW l, SettledOK(s),
         q \notin l, Sound(g, l \cup ({q} \cap Blocks)), VariablesFit(g, Release(q))
  PROVE  Good(g, s, d, l)
<1> DEFINE r == Release(q)
<1>1. r \in Tasks /\ r.do = "release" /\ r.at = q /\ r.i = 1
  BY TaskParts DEF Release
<1> HIDE DEF r
<1>2. d \in Seq(Tasks) /\ DOMAIN d = {1} /\ d[1] = r
  <2>1. d = <<r>>
    BY DEF r
  <2>2. QED
    BY <1>1, <2>1
<1>3. MemoryOK(g, d, l)
  <2>1. \A j \in DOMAIN d : d[j].do = "release" => j = 1 /\ d[j].at = q /\ d[j].i = 1
    BY <1>1, <1>2
  <2>2. 1 \in DOMAIN d /\ d[1].do = "release"
    BY <1>1, <1>2
  <2>3. QED
    BY <2>1, <2>2, OneRelease
<1>4. StackOK(d)
  BY <1>1, <1>2 DEF StackOK
<1>5. TaskOK(g, s, d, r)
  BY <1>1 DEF TaskOK, ReleaseOK, CopyDo, TreeDo, BuildDo
<1>6. TasksOK(g, s, d) /\ ChainOK(g, d) /\ BorrowOK(g, s, d)
  BY <1>1, <1>2, <1>5 DEF TasksOK, ChainOK, BorrowOK, Borrowing, CopyDo, TreeDo
<1>7. VariablesOK(g, d)
  BY <1>2 DEF VariablesOK, VariablesFit, r
<1>8. QED
  BY <1>2, <1>3, <1>4, <1>6, <1>7 DEF Good

(* What an application's call finds.                                       *)
LEMMA IdleFacts ==
  ASSUME Good(heap, settled, calls, lost), Idle, Settles
  PROVE  /\ calls = <<>> /\ settled' = heap' /\ DOMAIN heap = Addresses
         /\ Sound(heap, lost) /\ heap[New].own[1] = NULL /\ heap[Stored].own[1] = NULL
         /\ heap[Query].own[1] # NULL => heap[Message].own[1] # NULL
<1>1. calls = <<>>
  BY DEF Idle
<1>2. Good(heap, settled, <<>>, lost)
  BY <1>1
<1>3. QED
  BY <1>1, <1>2, Idling DEF Settles, Sound

(* A new handle without elements in a variable.                            *)
LEMMA NewHandle ==
  ASSUME Sound(heap, lost), Room, NEW v \in Variables, v # New, heap[v].own[1] = NULL,
         NEW n \in Nat, NEW g, g = WithIn(Shell(n), v, 1)
  PROVE  /\ Sound(g, lost) /\ g[v].own[1] = Fresh /\ Fresh \in Blocks
         /\ \A w \in Variables : w # v => g[w] = heap[w]
         /\ \A s : Apart(heap, s) => Apart(g, s)
<1> DEFINE f == Fresh
<1>1. f \in Blocks /\ f \in Addresses /\ heap[f].kind = "free"
  BY FreshParts
<1>2. Blank(Shell(n)) /\ Shell(n).kind = "shell"
  BY Blanks
<1>3. g = Attached(heap, Shell(n), f, v, 1)
  BY DEF WithIn, Attached
<1> HIDE DEF f
<1>4. Attachable(heap, Shell(n), f, v, 1)
  <2>1. Place(heap, v, 1) /\ heap[v].kind = "handle" /\ Target(heap[v].kind, 1) = "shell"
        /\ heap[v].own[1] \notin Blocks
    BY Names, VariableShape DEF Target
  <2>2. QED
    BY <1>1, <1>2, <2>1 DEF Attachable, KindAt
<1>5. /\ Sound(g, lost) /\ g[v].own[1] = f
      /\ \A b \in Addresses : b # f /\ b # v => g[b] = heap[b]
  BY <1>3, <1>4, AttachedParts
<1>6. v \notin Blocks
  BY VariableNames
<1>7. \A s : Apart(heap, s) => Apart(g, s)
  BY <1>3, <1>4, <1>6, ApartAttached
<1>8. QED
  BY <1>1, <1>5, <1>7, VariableNames DEF f

(* dsvdc_property_new makes a handle without elements.                     *)
LEMMA PropertyNewGood ==
  ASSUME Good(heap, settled, calls, lost), NEW s \in Slots, PropertyNew(s), Settles
  PROVE  Good(heap', settled', calls', lost')
<1> DEFINE g == heap'
<1>1. /\ calls = <<>> /\ settled' = heap'
      /\ Sound(heap, lost) /\ heap[New].own[1] = NULL /\ heap[Stored].own[1] = NULL
      /\ heap[Query].own[1] # NULL => heap[Message].own[1] # NULL
  BY IdleFacts DEF PropertyNew, Empty
<1>2. /\ Room /\ heap[s].own[1] = NULL /\ g = WithIn(Shell(0), s, 1)
      /\ calls' = calls /\ lost' = lost
  BY DEF PropertyNew, Empty, Held
<1>3. /\ s \in Variables /\ s # New /\ s # Stored /\ s # Query /\ s # Message
  BY VariableNames
<1> HIDE DEF g
<1>4. Sound(g, lost) /\ \A w \in Variables : w # s => g[w] = heap[w]
  BY <1>1, <1>2, <1>3, NewHandle
<1>5. g[New] = heap[New] /\ g[Stored] = heap[Stored] /\ g[Query] = heap[Query] /\ g[Message] = heap[Message]
  BY <1>3, <1>4, VariableNames
<1>6. QED
  BY <1>1, <1>2, <1>4, <1>5, Nothing DEF g

(* An application's variable or another is emptied, and what was in it     *)
(* handed to a task.                                                       *)
LEMMA Handing ==
  ASSUME Sound(heap, lost), NEW v \in Variables, NEW a, a = heap[v].own[1], NEW g, g = Cleared({v})
  PROVE  /\ Sound(g, lost \cup ({a} \cap Blocks)) /\ a \notin lost /\ a \in Pointers
         /\ g[v].own[1] = NULL
         /\ \A b \in Addresses : b # v => g[b] = heap[b]
<1>1. /\ v \in Addresses /\ Size(heap[v]) = 1 /\ Hook(heap[v]) = 1 /\ a \in Blocks \cup {NULL}
  BY VariableShape
<1>2. Sound(heap, lost) /\ a = heap[v].own[Hook(heap[v])] /\ Hook(heap[v]) \in 1..Size(heap[v])
  BY <1>1
<1>3. /\ Sound(g, lost \cup ({a} \cap Blocks))
      /\ \A b \in Addresses : b # v => g[b] = heap[b]
      /\ g[v].own[Hook(heap[v])] = NULL
  BY <1>1, <1>2, ClearingOne
<1>4. a \notin lost
  BY <1>1 DEF Sound, Roots
<1>5. QED
  BY <1>1, <1>3, <1>4 DEF Pointers

(* dsvdc_property_free starts a release, and the application's pointer is  *)
(* gone.                                                                   *)
LEMMA PropertyFreeGood ==
  ASSUME Good(heap, settled, calls, lost), NEW s \in Slots, PropertyFree(s), Settles
  PROVE  Good(heap', settled', calls', lost')
<1> DEFINE g == heap'
           q == heap[s].own[1]
<1>1. /\ calls = <<>> /\ settled' = heap'
      /\ Sound(heap, lost) /\ heap[New].own[1] = NULL /\ heap[Stored].own[1] = NULL
      /\ heap[Query].own[1] # NULL => heap[Message].own[1] # NULL
  BY IdleFacts DEF PropertyFree, Holds
<1>2. /\ g = Cleared({s}) /\ calls' = <<Release(q)>> /\ lost' = lost
  BY DEF PropertyFree, Holds, Held, Begins
<1>3. /\ s \in Variables /\ s # New /\ s # Stored /\ s # Query /\ s # Message
  BY VariableNames
<1> HIDE DEF g, q
<1>4. /\ Sound(g, lost \cup ({q} \cap Blocks)) /\ q \notin lost /\ q \in Pointers
      /\ \A b \in Addresses : b # s => g[b] = heap[b]
  BY <1>1, <1>2, <1>3, Handing DEF q
<1>5. g[New] = heap[New] /\ g[Stored] = heap[Stored] /\ g[Query] = heap[Query] /\ g[Message] = heap[Message]
  BY <1>3, <1>4, VariableNames
<1>6. VariablesFit(g, Release(q))
  BY <1>1, <1>5 DEF VariablesFit
<1>7. SettledOK(g)
  BY <1>4, SelfApart
<1>8. QED
  BY <1>1, <1>2, <1>4, <1>6, <1>7, AloneReleasing DEF g

(* The tree is packed first; the release behind it then follows.           *)
LEMMA SendGetPropertyResponseGood ==
  ASSUME Good(heap, settled, calls, lost), NEW s \in Slots, SendGetPropertyResponse(s), Settles
  PROVE  Good(heap', settled', calls', lost')
<1> DEFINE g == heap'
           d == calls'
           q == heap[s].own[1]
           r == Release(q)
           k == Pack(q)
<1>1. /\ calls = <<>> /\ settled' = heap'
      /\ Sound(heap, lost) /\ heap[New].own[1] = NULL /\ heap[Stored].own[1] = NULL
      /\ heap[Query].own[1] # NULL => heap[Message].own[1] # NULL
  BY IdleFacts DEF SendGetPropertyResponse, Holds
<1>2. /\ g = Cleared({s}) /\ d = <<r, k>> /\ lost' = lost /\ q # NULL
  BY DEF SendGetPropertyResponse, Holds, Held, Begins
<1>3. /\ s \in Variables /\ s # New /\ s # Stored /\ s # Query /\ s # Message /\ s \notin Blocks
  BY VariableNames
<1>4. q \in Blocks /\ heap[q].kind = "shell"
  BY <1>1, <1>2, <1>3, VariableShape
<1>5. /\ r \in Tasks /\ r.do = "release" /\ r.at = q /\ r.i = 1
      /\ k \in Tasks /\ k.do = "pack" /\ k.at = q
  BY <1>4, TaskParts DEF Release, Pack, Pointers
<1> HIDE DEF g, q, r, k
<1>6. /\ Sound(g, lost \cup ({q} \cap Blocks)) /\ q \notin lost /\ q \in Pointers
      /\ \A b \in Addresses : b # s => g[b] = heap[b]
  BY <1>1, <1>2, <1>3, Handing DEF q
<1>7. g[New] = heap[New] /\ g[Stored] = heap[Stored] /\ g[Query] = heap[Query] /\ g[Message] = heap[Message]
  BY <1>3, <1>6, VariableNames
<1>8. d \in Seq(Tasks) /\ DOMAIN d = {1, 2} /\ d[1] = r /\ d[2] = k
  <2>1. <<r, k>> \in Seq(Tasks) /\ DOMAIN <<r, k>> = {1, 2}
    BY <1>5
  <2>2. QED
    BY <1>2, <2>1
<1> HIDE DEF d
<1>9. MemoryOK(g, d, lost) /\ Beginning(d)
  <2>1. \A j \in DOMAIN d : d[j].do = "release" => j = 1 /\ d[j].at = q /\ d[j].i = 1
    BY <1>5, <1>8
  <2>2. 1 \in DOMAIN d /\ d[1].do = "release"
    BY <1>5, <1>8
  <2>3. QED
    BY <1>6, <2>1, <2>2, OneRelease
<1>10. StackOK(d)
  BY <1>5, <1>8 DEF StackOK, Waiting, FirstDo, BuildDo, TreeDo
<1>11. PackOK(g, k)
  <2>1. g[q] = heap[q]
    BY <1>3, <1>4, <1>6, Names
  <2>2. QED
    BY <1>4, <1>5, <2>1 DEF PackOK
<1>12. TasksOK(g, g, d)
  BY <1>5, <1>6, <1>8, <1>11 DEF TasksOK, TaskOK, ReleaseOK, CopyDo, TreeDo, BuildDo
<1>13. /\ ChainOK(g, d) /\ VariablesOK(g, d)
       /\ (\E j \in DOMAIN d : d[j].do \in Borrowing) => \A x \in Freeing(d) : g[x].kind = "free"
  <2>1. \A j \in DOMAIN d : d[j].do \notin Borrowing /\ d[j].do \notin CopyDo
    BY <1>5, <1>8 DEF Borrowing, CopyDo, TreeDo
  <2>2. QED
    BY <1>1, <1>7, <2>1 DEF ChainOK, VariablesOK
<1>14. Good(g, settled', d, lost)
  BY <1>1, <1>8, <1>9, <1>10, <1>12, <1>13, Starting DEF g
<1>15. QED
  BY <1>2, <1>14 DEF g, d

(* The tree is only read.                                                  *)
LEMMA PushPropertyGood ==
  ASSUME Good(heap, settled, calls, lost), NEW s \in Slots, PushProperty(s), Settles
  PROVE  Good(heap', settled', calls', lost')
<1> DEFINE q == heap[s].own[1]
           k == Pack(q)
<1>1. /\ calls = <<>> /\ settled' = heap'
      /\ Sound(heap, lost) /\ heap[New].own[1] = NULL /\ heap[Stored].own[1] = NULL
      /\ heap[Query].own[1] # NULL => heap[Message].own[1] # NULL
  BY IdleFacts DEF PushProperty, Holds
<1>2. /\ heap' = heap /\ calls' = <<k>> /\ lost' = lost /\ q # NULL
  BY DEF PushProperty, Holds, Held, Begins
<1>3. s \in Variables /\ s # New
  BY VariableNames
<1>4. q \in Blocks /\ heap[q].kind = "shell"
  BY <1>1, <1>2, <1>3, VariableShape
<1>5. k \in Tasks /\ k.do = "pack" /\ k.at = q
  BY <1>4, TaskParts DEF Pack, Pointers
<1> HIDE DEF q, k
<1>6. TaskOK(heap, heap, <<k>>, k)
  BY <1>4, <1>5 DEF TaskOK, PackOK, CopyDo, TreeDo, BuildDo
<1>7. SettledOK(heap) /\ Apart(heap, heap)
  BY <1>1, SelfApart
<1>8. VariablesFit(heap, k)
  BY <1>1 DEF VariablesFit
<1>9. k.do \notin CopyDo
  BY <1>5 DEF CopyDo
<1>10. Good(heap, heap, <<k>>, lost)
  BY <1>1, <1>5, <1>6, <1>7, <1>8, <1>9, Alone
<1>11. QED
  BY <1>1, <1>2, <1>10

(* What an element is to have is one of what tasks can want.               *)
LEMMA WantedParts ==
  ASSUME NEW key \in Keys \cup {NULL}, NEW kind \in Kinds \cup {NULL}
  PROVE  LET w == Wanted(key, kind)
         IN /\ w \in [name : Keys \cup {NULL}, value : BOOLEAN, says : Kinds \cup {NULL}, data : 0..2]
            /\ w.data \in 0..2 /\ (w.data # 0 => w.value)
<1>1. NULL # "string" /\ NULL # "bytes"
  BY PropertiesAssumption
<1> DEFINE v == kind # NULL
           says == IF kind = "string" THEN NULL ELSE kind
           data == IF kind = "string" THEN 1 ELSE IF kind = "bytes" THEN 2 ELSE 0
<1>2. v \in BOOLEAN /\ says \in Kinds \cup {NULL}
  OBVIOUS
<1>3. data \in 0..2
  OBVIOUS
<1>4. data # 0 => v
  BY <1>1
<1>5. Wanted(key, kind) = [name |-> key, value |-> v, says |-> says, data |-> data]
  BY DEF Wanted
<1> HIDE DEF v, says, data
<1>6. QED
  BY <1>2, <1>3, <1>4, <1>5

(* The fields of the task that builds an element.                          *)
LEMMA Builder ==
  ASSUME NEW s \in Slots, NEW t \in Slots \cup {NULL},
         NEW want \in [name : Keys \cup {NULL}, value : BOOLEAN, says : Kinds \cup {NULL}, data : 0..2]
  PROVE  LET r == Building(s, t, want)
         IN r \in Tasks /\ r.do = "build" /\ r.at = s /\ r.from = t /\ r.want = want
<1> DEFINE u == Task("build", s)
<1>1. s \in Variables /\ t \in Pointers \cup Variables
  BY VariableNames DEF Pointers
<1>2. u \in Tasks /\ u.do = "build" /\ u.at = s
  BY <1>1, TaskParts DEF FirstDo, BuildDo
<1>3. Building(s, t, want) = [u EXCEPT !.from = t, !.want = want]
  BY DEF Building
<1> HIDE DEF u
<1>4. QED
  BY <1>1, <1>2, <1>3 DEF Tasks

(* The first allocation of a call that adds an element.                    *)
LEMMA Adding ==
  ASSUME Good(heap, settled, calls, lost), Idle, Settles, Room,
         NEW s \in Slots, heap[s].own[1] # NULL, NEW t \in Slots \cup {NULL}, t # s,
         t # NULL => heap[t].own[1] # NULL,
         NEW key \in Keys \cup {NULL}, NEW kind \in Kinds \cup {NULL},
         heap' = WithIn(Element, New, 1), calls' = <<Building(s, t, Wanted(key, kind))>>, lost' = lost
  PROVE  Good(heap', settled', calls', lost')
<1> DEFINE g == heap'
           f == Fresh
           w == Wanted(key, kind)
           r == Building(s, t, w)
<1>1. /\ calls = <<>> /\ settled' = heap'
      /\ Sound(heap, lost) /\ heap[New].own[1] = NULL /\ heap[Stored].own[1] = NULL
      /\ heap[Query].own[1] # NULL => heap[Message].own[1] # NULL
  BY IdleFacts
<1>2. /\ w \in [name : Keys \cup {NULL}, value : BOOLEAN, says : Kinds \cup {NULL}, data : 0..2]
      /\ w.data \in 0..2 /\ (w.data # 0 => w.value)
  BY WantedParts
<1> HIDE DEF w
<1>3. r \in Tasks /\ r.do = "build" /\ r.at = s /\ r.from = t /\ r.want = w
  BY <1>2, Builder
<1>4. f \in Blocks /\ f \in Addresses /\ heap[f].kind = "free"
  BY FreshParts
<1>5. /\ Blank(Element) /\ Element.kind = "element" /\ Element.n = 0
      /\ \A i \in 1..3 : Element.own[i] = NULL
  BY Blanks
<1>6. g = Attached(heap, Element, f, New, 1)
  BY DEF WithIn, Attached
<1>7. calls' = <<r>>
  BY DEF r, w
<1>8. New \in Variables /\ New # Stored /\ New # Message /\ New # Query
  BY VariableNames
<1> HIDE DEF f, g, r
<1>9. Attachable(heap, Element, f, New, 1)
  <2>1. Place(heap, New, 1) /\ heap[New].kind = "local" /\ Target(heap[New].kind, 1) = "element"
        /\ heap[New].own[1] \notin Blocks
    BY <1>1, <1>8, Names, VariableShape DEF Target
  <2>2. QED
    BY <1>4, <1>5, <2>1 DEF Attachable, KindAt
<1>10. /\ Sound(g, lost) /\ g[f] = Element /\ g[New].own[1] = f
       /\ \A b \in Addresses : b # f /\ b # New => g[b] = heap[b]
  BY <1>1, <1>6, <1>9, AttachedParts
<1>11. \A v \in Variables : v # New => g[v] = heap[v]
  BY <1>4, <1>10, VariableNames
<1>12. \A v \in Slots : v # New /\ v \in Variables
  BY VariableNames
<1>13. BuildOK(g, r)
  <2>1. \A v \in Slots : heap[v].own[1] # NULL => g[v].own[1] \in Blocks
    BY <1>1, <1>11, <1>12, VariableShape
  <2>2. Leaf(g, f, w)
    BY <1>2, <1>4, <1>5, <1>10, Names DEF Leaf
  <2>3. QED
    BY <1>3, <1>4, <1>10, <2>1, <2>2 DEF BuildOK
<1>14. TaskOK(g, g, <<r>>, r)
  BY <1>3, <1>13 DEF TaskOK, CopyDo, TreeDo, BuildDo
<1>15. SettledOK(g) /\ Apart(g, g)
  BY <1>10, SelfApart
<1>16. VariablesFit(g, r)
  <2>1. g[Stored] = heap[Stored] /\ g[Query] = heap[Query] /\ g[Message] = heap[Message]
    BY <1>8, <1>11, VariableNames
  <2>2. QED
    BY <1>1, <1>3, <2>1 DEF VariablesFit, BuildDo
<1>17. r.do \notin CopyDo /\ r.do # "release"
  BY <1>3 DEF CopyDo
<1>18. Good(g, g, <<r>>, lost)
  BY <1>3, <1>10, <1>14, <1>15, <1>16, <1>17, Alone
<1>19. QED
  BY <1>1, <1>7, <1>18 DEF g

(* An element with a value is going to be built for a handle.              *)
LEMMA AddLeafGood ==
  ASSUME Good(heap, settled, calls, lost), NEW s \in Slots, NEW key \in Keys, NEW kind \in Kinds,
         AddLeaf(s, key, kind), Settles
  PROVE  Good(heap', settled', calls', lost')
<1>1. NULL \notin Slots
  BY VariableNames
<1>2. /\ Idle /\ Room /\ heap[s].own[1] # NULL /\ heap' = WithIn(Element, New, 1)
      /\ calls' = <<Building(s, NULL, Wanted(key, kind))>> /\ lost' = lost
  BY DEF AddLeaf, MayAdd, Holds, Held, Begins
<1>3. QED
  BY <1>1, <1>2, Adding

(* An element with the content of another handle is going to be built.     *)
LEMMA AddPropertyGood ==
  ASSUME Good(heap, settled, calls, lost), NEW s \in Slots, NEW t \in Slots, NEW key \in Keys \cup {NULL},
         AddProperty(s, key, t), Settles
  PROVE  Good(heap', settled', calls', lost')
<1>1. /\ Idle /\ Room /\ heap[s].own[1] # NULL /\ heap[t].own[1] # NULL /\ s # t
      /\ heap' = WithIn(Element, New, 1)
      /\ calls' = <<Building(s, t, Wanted(key, NULL))>> /\ lost' = lost
  BY DEF AddProperty, MayAdd, Holds, Held, Begins
<1>2. QED
  BY <1>1, Adding

(* The task that makes a handle with a copy.                               *)
LEMMA TreeCopier ==
  ASSUME NEW do \in {"copyTree", "copyTreeUnchecked"}, NEW v \in Variables,
         NEW array \in Pointers, NEW skip \in Nat, NEW n \in Nat
  PROVE  LET w == CopyTree(do, v, array, skip, n)
         IN /\ w \in Tasks /\ w.do = do /\ w.at = v /\ w.from = array /\ w.skip = skip /\ w.n = n
            /\ w.i = 1
<1> DEFINE t == Task(do, v)
<1>1. /\ t \in Tasks /\ t.do = do /\ t.at = v /\ t.i = 1
  BY TaskParts DEF TreeDo
<1>2. CopyTree(do, v, array, skip, n) = [t EXCEPT !.from = array, !.skip = skip, !.n = n]
  BY DEF CopyTree
<1> HIDE DEF t
<1>3. QED
  BY <1>1, <1>2 DEF Tasks

(* A call that copies a part of a tree into an empty variable.             *)
LEMMA CopyStart ==
  ASSUME Good(heap, settled, calls, lost), Idle, Settles, NEW s \in Slots, heap[s].own[1] = NULL,
         NEW do \in {"copyTree", "copyTreeUnchecked"},
         NEW array \in Blocks \cup {NULL}, NEW skip \in Nat, NEW n \in Nat,
         array # NULL => heap[array].kind = "array" /\ skip + n <= heap[array].n,
         calls' = <<CopyTree(do, s, array, skip, n)>>, heap' = heap, lost' = lost
  PROVE  Good(heap', settled', calls', lost')
<1> DEFINE w == CopyTree(do, s, array, skip, n)
<1>1. /\ calls = <<>> /\ settled' = heap'
      /\ Sound(heap, lost) /\ heap[New].own[1] = NULL /\ heap[Stored].own[1] = NULL
      /\ heap[Query].own[1] # NULL => heap[Message].own[1] # NULL
  BY IdleFacts
<1>2. s \in Variables /\ s \in Handles /\ s # Query
  BY VariableNames
<1>3. /\ w \in Tasks /\ w.do = do /\ w.at = s /\ w.from = array /\ w.skip = skip /\ w.n = n
  <2>1. array \in Pointers
    BY DEF Pointers
  <2>2. QED
    BY <1>2, <2>1, TreeCopier
<1>4. calls' = <<w>>
  OBVIOUS
<1> HIDE DEF w
<1>5. TreeOK(heap, heap, w)
  BY <1>2, <1>3 DEF TreeOK, OldArray
<1>6. TaskOK(heap, heap, <<w>>, w)
  BY <1>3, <1>5 DEF TaskOK, CopyDo, BuildDo
<1>7. SettledOK(heap) /\ Apart(heap, heap)
  BY <1>1, SelfApart
<1>8. VariablesFit(heap, w)
  BY <1>1 DEF VariablesFit
<1>9. w.do \notin CopyDo /\ w.do # "release"
  BY <1>3 DEF CopyDo
<1>10. Good(heap, heap, <<w>>, lost)
  BY <1>1, <1>3, <1>6, <1>7, <1>8, <1>9, Alone
<1>11. QED
  BY <1>1, <1>4, <1>10

(* What counts elements has an array of that many, or none.                *)
Listing(b, a) ==
  /\ heap[b].n \in Nat
  /\ a \in Blocks \cup {NULL}
  /\ a # NULL =>
       /\ heap[a].kind = "array" /\ heap[a].n = heap[b].n /\ Live(a)
       /\ \A i \in 1..heap[b].n :
            \/ heap[a].own[i] \in {NULL, WILD}
            \/ heap[a].own[i] \in Blocks /\ heap[heap[a].own[i]].kind = "element" /\ Live(heap[a].own[i])

(* Behind a handle or an element that counts some there is their array,    *)
(* or none at all.                                                         *)
LEMMA Beneath ==
  ASSUME Sound(heap, lost), NEW b \in Blocks, heap[b].kind \in {"shell", "element"}
  PROVE  Listing(b, ArrayOf(b))
<1> DEFINE a == heap[b].own[Hook(heap[b])]
<1>0. ArrayOf(b) = a
  BY DEF ArrayOf
<1>1. \A x \in Blocks : heap[x].kind \in {"element", "array"} => Live(x)
  BY DEF Live
<1> HIDE DEF a
<1>2. a = heap[b].own[Hook(heap[b])]
  BY DEF a
<1>3. /\ heap[b].n \in Nat
      /\ a = NULL \/ (a \in Blocks /\ a \in Addresses /\ heap[a].kind = "array"
                      /\ heap[a].n = heap[b].n /\ Size(heap[a]) = heap[b].n)
      /\ a # NULL => \A i \in 1..heap[b].n :
           heap[a].own[i] \in {NULL, WILD} \/ (heap[a].own[i] \in Blocks /\ heap[heap[a].own[i]].kind = "element")
  BY <1>2, Entries
<1>4. Listing(b, a)
  BY <1>1, <1>3 DEF Listing
<1>5. QED
  BY <1>0, <1>4

(* A handle in a variable, and the elements behind it.                     *)
LEMMA Looking ==
  ASSUME Sound(heap, lost), NEW h \in Handles, Held(h) # NULL
  PROVE  Held(h) \in Blocks /\ heap[Held(h)].kind = "shell" /\ Listing(Held(h), ArrayOf(Held(h)))
<1>1. h \in Variables /\ h # New
  BY VariableNames
<1>2. Held(h) \in Blocks /\ heap[Held(h)].kind = "shell"
  BY <1>1, VariableShape DEF Held
<1>3. Listing(Held(h), ArrayOf(Held(h)))
  BY <1>2, Beneath
<1>4. QED
  BY <1>2, <1>3

(* A null pointer or one that was never assigned is followed: memory       *)
(* stays as it is.                                                         *)
LEMMA Faulting ==
  ASSUME Good(heap, settled, calls, lost), Idle, Settles, NEW what \in {"null", "unassigned", "unnamed"},
         Faults(what)
  PROVE  /\ Good(heap', settled', calls', lost')
         /\ fault' \in {"null", "unassigned", "unnamed"}
<1>1. heap' = heap /\ calls' = calls /\ lost' = lost /\ fault' = what
  BY DEF Faults
<1>2. /\ calls = <<>> /\ settled' = heap'
      /\ Sound(heap, lost) /\ heap[New].own[1] = NULL /\ heap[Stored].own[1] = NULL
      /\ heap[Query].own[1] # NULL => heap[Message].own[1] # NULL
  BY IdleFacts
<1>3. Good(heap, heap, <<>>, lost)
  BY <1>2, Nothing
<1>4. QED
  BY <1>1, <1>2, <1>3

(* An element is copied from a place that is there; a pointer that was     *)
(* never assigned is not followed further.                                 *)
LEMMA GetPropertyByIndexGood ==
  ASSUME Good(heap, settled, calls, lost), NEW h \in Handles, NEW i \in Nat \ {0}, NEW s \in Slots,
         GetPropertyByIndex(h, i, s), Settles
  PROVE  /\ Good(heap', settled', calls', lost')
         /\ fault' = fault \/ fault' \in {"null", "unassigned", "unnamed"}
<1> DEFINE q == Held(h)
           a == ArrayOf(Held(h))
           el == heap[a].own[i]
<1>1. Idle /\ q # NULL /\ heap[s].own[1] = NULL
  BY DEF GetPropertyByIndex, Holds, Held, Empty
<1>2. Sound(heap, lost)
  BY <1>1, IdleFacts
<1>3. Listing(q, a)
  BY <1>1, <1>2, Looking
<1>4. /\ i <= heap[q].n
      /\ \/ ~Live(a) /\ Faults(Broken(a))
         \/ Live(a) /\ el # NULL /\ ~Live(el) /\ Faults(Broken(el))
         \/ /\ Live(a) /\ Live(el)
            /\ calls' = <<CopyTree("copyTree", s, ArrayOf(el), 0, heap[el].n)>>
            /\ heap' = heap /\ lost' = lost /\ fault' = fault
  BY DEF GetPropertyByIndex, Begins
<1> HIDE DEF el, a, q
<1>5. a # NULL => el \in {NULL, WILD} \/ (el \in Blocks /\ heap[el].kind = "element" /\ Live(el))
  <2>1. i \in 1..heap[q].n
    BY <1>3, <1>4 DEF Listing
  <2>2. QED
    BY <1>3, <2>1 DEF Listing, el
<1>6. CASE ~Live(a) /\ Faults(Broken(a))
  <2>1. a = NULL
    BY <1>3, <1>6 DEF Listing
  <2>2. Faults("null")
    BY <1>6, <2>1 DEF Broken
  <2>3. QED
    BY <1>1, <2>2, Faulting
<1>7. CASE Live(a) /\ el # NULL /\ ~Live(el) /\ Faults(Broken(el))
  <2>1. Broken(el) = "unassigned"
    <3>1. a # NULL
      BY <1>7, Names DEF Live
    <3>2. QED
      BY <1>5, <1>7, <3>1, Names DEF Broken
  <2>2. Faults("unassigned")
    BY <1>7, <2>1
  <2>3. QED
    BY <1>1, <2>2, Faulting
<1>8. CASE /\ Live(a) /\ Live(el)
           /\ calls' = <<CopyTree("copyTree", s, ArrayOf(el), 0, heap[el].n)>>
           /\ heap' = heap /\ lost' = lost /\ fault' = fault
  <2>1. el \in Blocks /\ heap[el].kind \in {"shell", "element"}
    BY <1>5, <1>8, Names DEF Live
  <2>2. Listing(el, ArrayOf(el))
    BY <1>2, <2>1, Beneath
  <2>3. /\ heap[el].n \in Nat /\ ArrayOf(el) \in Blocks \cup {NULL}
        /\ ArrayOf(el) # NULL => heap[ArrayOf(el)].kind = "array" /\ 0 + heap[el].n <= heap[ArrayOf(el)].n
    BY <2>2 DEF Listing
  <2>4. QED
    BY <1>1, <1>8, <2>3, CopyStart
<1>9. QED
  BY <1>4, <1>6, <1>7, <1>8

(* The first element of a name is copied from a place that is there.       *)
LEMMA GetPropertyByNameGood ==
  ASSUME Good(heap, settled, calls, lost), NEW h \in Handles, NEW key \in Keys, NEW s \in Slots,
         GetPropertyByName(h, key, s), Settles
  PROVE  /\ Good(heap', settled', calls', lost')
         /\ fault' = fault \/ fault' \in {"null", "unassigned", "unnamed"}
<1> DEFINE q == Held(h)
           a == ArrayOf(Held(h))
<1>1. Idle /\ q # NULL /\ heap[s].own[1] = NULL
  BY DEF GetPropertyByName, Holds, Held, Empty
<1>2. Sound(heap, lost)
  BY <1>1, IdleFacts
<1>3. Listing(q, a)
  BY <1>1, <1>2, Looking
<1>4. \/ ~Live(a) /\ Faults(Broken(a))
      \/ /\ Live(a)
         /\ \E i \in 1..heap[a].n :
              LET el == heap[a].own[i]
              IN /\ Stops(el, key)
                 /\ \/ ~Live(el) /\ Faults(Broken(el))
                    \/ Faults("unnamed")
                    \/ /\ Live(el)
                       /\ calls' = <<IF heap[el].n > 0
                                     THEN CopyTree("copyTree", s, ArrayOf(el), 0, heap[el].n)
                                     ELSE CopyTree("copyTreeUnchecked", s, a, i - 1, 1)>>
                       /\ heap' = heap /\ lost' = lost /\ fault' = fault
  BY DEF GetPropertyByName, Begins
<1> HIDE DEF q, a
<1>5. CASE ~Live(a) /\ Faults(Broken(a))
  <2>1. a = NULL
    BY <1>3, <1>5 DEF Listing
  <2>2. Faults("null")
    BY <1>5, <2>1 DEF Broken
  <2>3. QED
    BY <1>1, <2>2, Faulting
<1>6. ASSUME Live(a), NEW i \in 1..heap[a].n, NEW el, el = heap[a].own[i], Stops(el, key),
             \/ ~Live(el) /\ Faults(Broken(el))
             \/ Faults("unnamed")
             \/ /\ Live(el)
                /\ calls' = <<IF heap[el].n > 0
                              THEN CopyTree("copyTree", s, ArrayOf(el), 0, heap[el].n)
                              ELSE CopyTree("copyTreeUnchecked", s, a, i - 1, 1)>>
                /\ heap' = heap /\ lost' = lost /\ fault' = fault
      PROVE  /\ Good(heap', settled', calls', lost')
             /\ fault' = fault \/ fault' \in {"null", "unassigned", "unnamed"}
  <2>1. /\ a \in Blocks /\ heap[a].kind = "array" /\ heap[a].n = heap[q].n /\ heap[q].n \in Nat
        /\ el \in {NULL, WILD} \/ (el \in Blocks /\ heap[el].kind = "element" /\ Live(el))
    <3>1. a # NULL
      BY <1>6, Names DEF Live
    <3>2. QED
      BY <1>3, <1>6, <3>1 DEF Listing
  <2>2. el # NULL
    BY <1>6 DEF Stops
  <2>3. CASE ~Live(el) /\ Faults(Broken(el))
    <3>1. Broken(el) = "unassigned"
      BY <2>1, <2>2, <2>3, Names DEF Broken
    <3>2. Faults("unassigned")
      BY <2>3, <3>1
    <3>3. QED
      BY <1>1, <3>2, Faulting
  <2>4. CASE Faults("unnamed")
    BY <1>1, <2>4, Faulting
  <2>5. ASSUME Live(el), heap[el].n > 0, heap' = heap, lost' = lost, fault' = fault,
               calls' = <<CopyTree("copyTree", s, ArrayOf(el), 0, heap[el].n)>>
        PROVE  Good(heap', settled', calls', lost')
    <3>1. el \in Blocks /\ heap[el].kind \in {"shell", "element"}
      BY <2>1, <2>5, Names DEF Live
    <3>2. Listing(el, ArrayOf(el))
      BY <1>2, <3>1, Beneath
    <3>3. /\ heap[el].n \in Nat /\ ArrayOf(el) \in Blocks \cup {NULL}
          /\ ArrayOf(el) # NULL => heap[ArrayOf(el)].kind = "array" /\ 0 + heap[el].n <= heap[ArrayOf(el)].n
      BY <3>2 DEF Listing
    <3>4. QED
      BY <1>1, <2>5, <3>3, CopyStart
  <2>6. ASSUME heap' = heap, lost' = lost, fault' = fault,
               calls' = <<CopyTree("copyTreeUnchecked", s, a, i - 1, 1)>>
        PROVE  Good(heap', settled', calls', lost')
    <3>1. a \in Blocks \cup {NULL} /\ i - 1 \in Nat /\ (i - 1) + 1 <= heap[a].n /\ heap[a].kind = "array"
      BY <1>6, <2>1
    <3>2. QED
      BY <1>1, <2>6, <3>1, CopyStart
  <2>7. QED
    <3>1. CASE /\ Live(el)
               /\ calls' = <<IF heap[el].n > 0
                             THEN CopyTree("copyTree", s, ArrayOf(el), 0, heap[el].n)
                             ELSE CopyTree("copyTreeUnchecked", s, a, i - 1, 1)>>
               /\ heap' = heap /\ lost' = lost /\ fault' = fault
      <4>1. CASE heap[el].n > 0
        BY <2>5, <3>1, <4>1
      <4>2. CASE ~(heap[el].n > 0)
        BY <2>6, <3>1, <4>2
      <4>3. QED
        BY <3>1, <4>1, <4>2
    <3>2. QED
      BY <1>6, <2>3, <2>4, <3>1
<1>7. QED
  BY <1>4, <1>5, <1>6

(* What is read is copied into a block that the application releases.      *)
LEMMA ReadGood ==
  ASSUME Good(heap, settled, calls, lost), NEW h \in Handles, NEW i \in Nat \ {0}, NEW what,
         Read(h, i, what), Settles
  PROVE  /\ Good(heap', settled', calls', lost')
         /\ fault' = fault \/ fault' \in {"null", "unassigned", "unnamed"}
<1> DEFINE q == Held(h)
           a == ArrayOf(Held(h))
           el == heap[a].own[i]
           f == Fresh
           g == heap'
<1>1. Idle /\ q # NULL
  BY DEF Read, Holds, Held
<1>2. /\ settled' = heap' /\ DOMAIN heap = Addresses
      /\ Sound(heap, lost) /\ heap[New].own[1] = NULL /\ heap[Stored].own[1] = NULL
      /\ heap[Query].own[1] # NULL => heap[Message].own[1] # NULL
  BY <1>1, IdleFacts
<1>3. Listing(q, a)
  BY <1>1, <1>2, Looking
<1>4. /\ i <= heap[q].n
      /\ \/ ~Live(a) /\ Faults(Broken(a))
         \/ Live(a) /\ el # NULL /\ ~Live(el) /\ Faults(Broken(el))
         \/ /\ Room /\ calls' = <<Release(f)>> /\ lost' = lost /\ fault' = fault
            /\ \E text : g = [heap EXCEPT ![f] = Data(text)]
  BY DEF Read, Begins
<1> HIDE DEF el, a, q, f, g
<1>5. a # NULL => el \in {NULL, WILD} \/ (el \in Blocks /\ heap[el].kind = "element" /\ Live(el))
  <2>1. i \in 1..heap[q].n
    BY <1>3, <1>4 DEF Listing
  <2>2. QED
    BY <1>3, <2>1 DEF Listing, el
<1>6. CASE ~Live(a) /\ Faults(Broken(a))
  <2>1. a = NULL
    BY <1>3, <1>6 DEF Listing
  <2>2. Faults("null")
    BY <1>6, <2>1 DEF Broken
  <2>3. QED
    BY <1>1, <2>2, Faulting
<1>7. CASE Live(a) /\ el # NULL /\ ~Live(el) /\ Faults(Broken(el))
  <2>1. Broken(el) = "unassigned"
    <3>1. a # NULL
      BY <1>7, Names DEF Live
    <3>2. QED
      BY <1>5, <1>7, <3>1, Names DEF Broken
  <2>2. Faults("unassigned")
    BY <1>7, <2>1
  <2>3. QED
    BY <1>1, <2>2, Faulting
<1>8. ASSUME Room, calls' = <<Release(f)>>, lost' = lost, fault' = fault,
             NEW text, g = [heap EXCEPT ![f] = Data(text)]
      PROVE  Good(heap', settled', calls', lost')
  <2>1. f \in Blocks /\ f \in Addresses /\ heap[f].kind = "free"
    BY <1>8, FreshParts DEF f
  <2>2. DOMAIN g = Addresses /\ g[f] = Data(text) /\ \A b \in Addresses : b # f => g[b] = heap[b]
    BY <1>2, <1>8, <2>1
  <2>3. Blank(Data(text)) /\ Data(text).kind = "data" /\ Data(text).kind \in KindAt(f)
    BY <2>1, Blanks DEF KindAt
  <2> DEFINE cell == Data(text)
  <2>4. /\ Blank(cell) /\ cell.kind \in KindAt(f) /\ cell.kind # "free" /\ g[f] = cell
    BY <2>2, <2>3
  <2> HIDE DEF cell
  <2>5. Sound(g, lost \cup {f})
    BY <1>2, <2>1, <2>2, <2>4, NewRoot
  <2>6. f \notin lost
    BY <1>2, <2>1 DEF Sound, Roots
  <2>7. f \in Pointers /\ {f} \cap Blocks = {f}
    BY <2>1 DEF Pointers
  <2>8. g[New] = heap[New] /\ g[Stored] = heap[Stored] /\ g[Query] = heap[Query] /\ g[Message] = heap[Message]
    BY <2>1, <2>2, VariableNames
  <2>9. VariablesFit(g, Release(f))
    BY <1>2, <2>8 DEF VariablesFit
  <2>10. SettledOK(g)
    BY <2>5, SelfApart
  <2>11. Sound(g, lost \cup ({f} \cap Blocks))
    BY <2>5, <2>7
  <2>12. Good(g, g, <<Release(f)>>, lost)
    BY <2>6, <2>7, <2>9, <2>10, <2>11, AloneReleasing
  <2>13. QED
    BY <1>2, <1>8, <2>12 DEF g
<1>9. CASE /\ Room /\ calls' = <<Release(f)>> /\ lost' = lost /\ fault' = fault
           /\ \E text : g = [heap EXCEPT ![f] = Data(text)]
  BY <1>8, <1>9
<1>10. QED
  BY <1>4, <1>6, <1>7, <1>9

(* The query and the message are released one after the other.             *)
LEMMA CallbackReturnsGood ==
  ASSUME Good(heap, settled, calls, lost), CallbackReturns, Settles
  PROVE  Good(heap', settled', calls', lost')
<1> DEFINE g == heap'
           d == calls'
           q == heap[Message].own[1]
           x == heap[Query].own[1]
           r == Release(q)
           u == Release(x)
           P == {Message, Query}
<1>1. /\ calls = <<>> /\ settled' = heap'
      /\ Sound(heap, lost) /\ heap[New].own[1] = NULL /\ heap[Stored].own[1] = NULL
  BY IdleFacts DEF CallbackReturns, Holds
<1>2. /\ g = Cleared(P) /\ d = <<r, u>> /\ lost' = lost
  BY DEF CallbackReturns, Holds, Held, Begins
<1>3. /\ Message \in Variables /\ Query \in Variables /\ Message # Query
      /\ New \notin P /\ Stored \notin P
  BY VariableNames
<1>4. /\ Message \in Addresses /\ ShapeOK(heap[Message], Pointers)
      /\ Size(heap[Message]) = 1 /\ Hook(heap[Message]) = 1 /\ q \in Blocks \cup {NULL}
  BY <1>1, <1>3, VariableShape
<1>5. /\ Query \in Addresses /\ ShapeOK(heap[Query], Pointers)
      /\ Size(heap[Query]) = 1 /\ Hook(heap[Query]) = 1 /\ x \in Blocks \cup {NULL}
  BY <1>1, <1>3, VariableShape
<1>6. /\ r \in Tasks /\ r.do = "release" /\ r.at = q /\ r.i = 1
      /\ u \in Tasks /\ u.do = "release" /\ u.at = x /\ u.i = 1
  BY <1>4, <1>5, TaskParts DEF Release, Pointers
<1>7. q = x => q \notin Blocks
  BY <1>1, <1>3, <1>4, <1>5 DEF Sound, Unique
<1>8. q \notin lost /\ x \notin lost
  BY <1>1, <1>4, <1>5 DEF Sound, Roots
<1>9. Hung(P) = {q, x} \cap Blocks
  BY <1>4, <1>5 DEF Hung
<1>10. P \subseteq Addresses /\ \A b \in P : Hook(heap[b]) \in 1..Size(heap[b])
  BY <1>4, <1>5
<1>11. g[Query] = Pointing(heap[Query], 1, NULL) /\ g[New] = heap[New] /\ g[Stored] = heap[Stored]
  BY <1>2, <1>3, <1>5, VariableNames DEF Cleared
<1> HIDE DEF g, q, x, r, u, P
<1>12. Sound(g, lost \cup Hung(P))
  BY <1>1, <1>2, <1>10, Clearing
<1>13. g[Query].own[1] = NULL
  <2>1. Pointing(heap[Query], 1, NULL).own[1] = NULL
    BY <1>5, PointingParts
  <2>2. QED
    BY <1>11, <2>1
<1>14. d \in Seq(Tasks) /\ DOMAIN d = {1, 2} /\ d[1] = r /\ d[2] = u
  <2>1. <<r, u>> \in Seq(Tasks) /\ DOMAIN <<r, u>> = {1, 2}
    BY <1>6
  <2>2. QED
    BY <1>2, <2>1
<1> HIDE DEF d
<1>15. \A j \in DOMAIN d : d[j].do = "release" /\ d[j].i = 1 /\ d[j].at \in Pointers
  BY <1>4, <1>5, <1>6, <1>14 DEF Pointers
<1>16. Freeing(d) = {q, x} \cap Blocks
  BY <1>6, <1>14 DEF Freeing
<1>17. MemoryOK(g, d, lost) /\ Beginning(d)
  <2>1. Beginning(d)
    BY <1>15 DEF Beginning
  <2>2. Sound(g, Freeing(d) \cup lost)
    <3>1. lost \cup Hung(P) = Freeing(d) \cup lost
      BY <1>9, <1>16
    <3>2. QED
      BY <1>12, <3>1
  <2>3. Freeing(d) \cap lost = {}
    BY <1>8, <1>16
  <2>4. \A j, k \in DOMAIN d :
          d[j].do = "release" /\ d[k].do = "release" /\ d[j].at = d[k].at /\ d[j].at \in Blocks => j = k
    BY <1>6, <1>7, <1>14
  <2>5. QED
    BY <2>1, <2>2, <2>3, <2>4, Beginnings
<1>18. StackOK(d) /\ TasksOK(g, g, d) /\ ChainOK(g, d)
  BY <1>15 DEF StackOK, Waiting, FirstDo, BuildDo, TreeDo, CopyDo, TasksOK, TaskOK, ReleaseOK, ChainOK
<1>19. VariablesOK(g, d)
  BY <1>1, <1>11, <1>13 DEF VariablesOK
<1>20. ~\E j \in DOMAIN d : d[j].do \in Borrowing
  BY <1>15 DEF Borrowing, CopyDo, TreeDo
<1>21. Good(g, settled', d, lost)
  BY <1>1, <1>14, <1>17, <1>18, <1>19, <1>20, Starting DEF g
<1>22. QED
  BY <1>2, <1>21 DEF g, d

(* What is put behind all that is in use.                                  *)
LEMMA Arriving ==
  ASSUME Sound(heap, lost), NEW v \in Variables, v # New, heap[v].own[1] = NULL,
         NEW t \in Messages, NEW base \in 0..MaxBlocks, Arrives(v, t, base),
         NEW g, g = heap'
  PROVE  /\ Sound(g, lost) /\ g[v].own[1] = base + 1
         /\ base + 1 \in Blocks /\ g[base + 1].kind = "shell"
         /\ g[base + 1].n = t[1].n /\ t[1].n \in Nat
         /\ \A w \in Variables : w # v => g[w] = heap[w]
<1> DEFINE Put == (base + 1)..(base + Len(t))
<1>1. IsTree(t)
  BY PropertiesAssumption
<1>2. Len(t) \in Nat /\ 1 \in 1..Len(t) /\ t[1].kind = "shell" /\ ShapeOK(t[1], {NULL} \cup (DOMAIN t \ {1}))
      /\ t[1].n \in Nat
  BY <1>1 DEF IsTree, ShapeOK
<1>3. base \in Nat /\ MaxBlocks \in Nat
  BY PropertiesAssumption
<1>4. base + Len(t) <= MaxBlocks /\ \A b \in Blocks : b > base => ~Live(b)
  BY DEF Arrives, Above
<1>5. g = [b \in Addresses |->
             IF b = v THEN Pointing(heap[v], 1, base + 1)
             ELSE IF b \in Put THEN Moved(t[b - base], base) ELSE heap[b]]
  BY DEF Arrives
<1>6. v \in Addresses /\ v \notin Blocks /\ ShapeOK(heap[v], Pointers) /\ Size(heap[v]) = 1
  BY VariableNames, VariableShape
<1>7. Put \subseteq Blocks /\ base + 1 \in Put
  BY <1>2, <1>3, <1>4 DEF Blocks
<1>8. \A b \in Blocks : b > base => heap[b].kind = "free"
  BY <1>4 DEF Live
<1>9. /\ DOMAIN g = Addresses /\ g[v] = Pointing(heap[v], 1, base + 1)
      /\ \A b \in Put : g[b] = Moved(t[b - base], base)
      /\ \A b \in Addresses : b # v /\ b \notin Put => g[b] = heap[b]
  BY <1>5, <1>6, <1>7, Names
<1>10. Sound(g, lost)
  BY <1>1, <1>3, <1>4, <1>8, <1>9, Placing
<1>11. g[v].own[1] = base + 1
  <2>1. Pointing(heap[v], 1, base + 1).own[1] = base + 1
    BY <1>6, PointingParts
  <2>2. QED
    BY <1>9, <2>1
<1>12. g[base + 1].kind = "shell" /\ g[base + 1].n = t[1].n
  <2>1. (base + 1) - base = 1
    BY <1>3
  <2>2. g[base + 1] = Moved(t[1], base)
    BY <1>7, <1>9, <2>1
  <2>3. Moved(t[1], base).kind = t[1].kind /\ Moved(t[1], base).n = t[1].n
    BY <1>2, MovedParts
  <2>4. QED
    BY <1>2, <2>2, <2>3
<1>13. \A w \in Variables : w # v => g[w] = heap[w]
  BY <1>7, <1>9, VariableNames
<1>14. QED
  BY <1>2, <1>7, <1>10, <1>11, <1>12, <1>13

(* A request arrives: the answer and the query are still to be made.       *)
LEMMA RequestGood ==
  ASSUME Good(heap, settled, calls, lost), NEW s \in Slots, NEW t \in Messages,
         NEW base \in 0..MaxBlocks, Request(s, t, base), Settles
  PROVE  Good(heap', settled', calls', lost')
<1> DEFINE g == heap'
           w == Task("request", s)
<1>1. /\ calls = <<>> /\ settled' = heap'
      /\ Sound(heap, lost) /\ heap[New].own[1] = NULL /\ heap[Stored].own[1] = NULL
      /\ heap[Query].own[1] # NULL => heap[Message].own[1] # NULL
  BY IdleFacts DEF Request, Empty
<1>2. /\ heap[s].own[1] = NULL /\ heap[Message].own[1] = NULL
      /\ Arrives(Message, t, base) /\ calls' = <<w>> /\ lost' = lost
  BY DEF Request, Empty, Held, Begins
<1>3. /\ Message \in Variables /\ Message # New /\ s \in Variables /\ s # Message
      /\ New \in Variables /\ Stored \in Variables /\ Query \in Variables
      /\ Stored # Message /\ Query # Message
  BY VariableNames
<1>4. w \in Tasks /\ w.do = "request" /\ w.at = s
  BY <1>3, TaskParts DEF FirstDo
<1> HIDE DEF g, w
<1>5. /\ Sound(g, lost) /\ g[Message].own[1] = base + 1 /\ base + 1 \in Blocks
      /\ \A v \in Variables : v # Message => g[v] = heap[v]
  BY <1>1, <1>2, <1>3, Arriving DEF g
<1>6. g[New] = heap[New] /\ g[Stored] = heap[Stored] /\ g[Query] = heap[Query] /\ g[s] = heap[s]
  BY <1>3, <1>5
<1>7. RequestOK(g, g, w)
  BY <1>1, <1>2, <1>4, <1>5, <1>6 DEF RequestOK
<1>8. TaskOK(g, g, <<w>>, w)
  BY <1>4, <1>7 DEF TaskOK, CopyDo, TreeDo, BuildDo
<1>9. SettledOK(g) /\ Apart(g, g)
  BY <1>5, SelfApart
<1>10. VariablesFit(g, w)
  BY <1>1, <1>2, <1>6 DEF VariablesFit
<1>11. w.do \notin CopyDo /\ w.do # "release"
  BY <1>4 DEF CopyDo
<1>12. Good(g, g, <<w>>, lost)
  BY <1>4, <1>5, <1>8, <1>9, <1>10, <1>11, Alone
<1>13. QED
  BY <1>1, <1>2, <1>12 DEF g

(* A copy for which another task waits.                                    *)
LEMMA Pair ==
  ASSUME NEW g, NEW s, NEW r \in Tasks, NEW w \in Tasks, NEW d, d = <<r, w>>, NEW l,
         \/ r.do = "answer" /\ w.do = "copyTreeUnchecked"
         \/ r.do = "loaded" /\ w.do = "copyTree",
         TaskOK(g, s, d, r), TaskOK(g, s, d, w),
         SettledOK(s), Apart(g, s), Sound(g, l), VariablesFit(g, r)
  PROVE  Good(g, s, d, l)
<1>1. d \in Seq(Tasks) /\ DOMAIN d = {1, 2} /\ d[1] = r /\ d[2] = w
  OBVIOUS
<1>2. \A j \in DOMAIN d : d[j].do \notin CopyDo /\ d[j].do # "release" /\ d[j].do # "pack"
  BY <1>1 DEF CopyDo
<1>3. MemoryOK(g, d, l) /\ Freeing(d) = {}
  BY <1>2, NoReleases
<1>4. StackOK(d)
  BY <1>1 DEF StackOK, Waiting, FirstDo, BuildDo, TreeDo
<1>5. TasksOK(g, s, d) /\ ChainOK(g, d) /\ BorrowOK(g, s, d)
  BY <1>1, <1>2, <1>3 DEF TasksOK, ChainOK, BorrowOK
<1>6. VariablesOK(g, d)
  BY <1>1 DEF VariablesOK, VariablesFit
<1>7. QED
  BY <1>1, <1>3, <1>4, <1>5, <1>6 DEF Good

(* A record is unpacked, and is going to be copied.                        *)
LEMMA LoadPropertyGood ==
  ASSUME Good(heap, settled, calls, lost), NEW s \in Slots, NEW t \in Messages,
         NEW base \in 0..MaxBlocks, LoadProperty(s, t, base), Settles
  PROVE  Good(heap', settled', calls', lost')
<1> DEFINE g == heap'
           b == base + 1
           a == heap'[base + 1].own[1]
           n == t[1].n
           r == Task("loaded", s)
           w == CopyTree("copyTree", s, a, 0, n)
<1>1. /\ calls = <<>> /\ settled' = heap'
      /\ Sound(heap, lost) /\ heap[New].own[1] = NULL /\ heap[Stored].own[1] = NULL
      /\ heap[Query].own[1] # NULL => heap[Message].own[1] # NULL
  BY IdleFacts DEF LoadProperty, Empty
<1>2. /\ heap[s].own[1] = NULL
      /\ Arrives(Stored, t, base) /\ calls' = <<r, w>> /\ lost' = lost
  BY DEF LoadProperty, Empty, Held, Begins
<1>3. /\ Stored \in Variables /\ Stored # New /\ s \in Variables /\ s \in Handles /\ s # Stored
      /\ New \in Variables /\ Message \in Variables /\ Query \in Variables
      /\ Stored # Message /\ Query # Stored /\ s # Query
  BY VariableNames
<1> HIDE DEF g, b, a, n
<1>4. /\ Sound(g, lost) /\ g[Stored].own[1] = b /\ b \in Blocks /\ g[b].kind = "shell"
      /\ g[b].n = n /\ n \in Nat
      /\ \A v \in Variables : v # Stored => g[v] = heap[v]
  BY <1>1, <1>2, <1>3, Arriving DEF g, b, n
<1>5. /\ g[New] = heap[New] /\ g[Message] = heap[Message] /\ g[Query] = heap[Query]
      /\ g[s] = heap[s]
  BY <1>3, <1>4
<1>6. /\ a = NULL \/ (a \in Blocks /\ g[a].kind = "array" /\ g[a].n = n)
  <2>1. Hook(g[b]) = 1
    BY <1>4 DEF Hook
  <2>2. a = g[b].own[Hook(g[b])]
    BY <2>1 DEF a, g, b
  <2>3. g[b].kind \in {"shell", "element"}
    BY <1>4
  <2>4. a = NULL \/ (a \in Blocks /\ a \in Addresses /\ g[a].kind = "array" /\ g[a].n = g[b].n)
    BY <1>4, <2>2, <2>3, Entries
  <2>5. QED
    BY <1>4, <2>4
<1>7. r \in Tasks /\ r.do = "loaded"
  BY <1>3, TaskParts DEF FirstDo
<1>8. w \in Tasks /\ w.do = "copyTree" /\ w.at = s /\ w.from = a /\ w.skip = 0 /\ w.n = n
  <2>1. a \in Pointers
    BY <1>6 DEF Pointers
  <2>2. QED
    BY <1>3, <1>4, <2>1, TreeCopier DEF TreeDo
<1> HIDE DEF r, w
<1>9. TreeOK(g, g, w)
  <2>1. 0 + n = n /\ n <= n
    BY <1>4
  <2>2. OldArray(g, w, w.n)
    BY <1>6, <1>8, <2>1 DEF OldArray
  <2>3. QED
    BY <1>2, <1>3, <1>5, <1>8, <2>2 DEF TreeOK
<1>10. TaskOK(g, g, <<r, w>>, w)
  BY <1>8, <1>9 DEF TaskOK, CopyDo, BuildDo
<1>11. TaskOK(g, g, <<r, w>>, r)
  BY <1>4, <1>7 DEF TaskOK, CopyDo, BuildDo, TreeDo
<1>12. SettledOK(g) /\ Apart(g, g)
  BY <1>4, SelfApart
<1>13. VariablesFit(g, r)
  BY <1>1, <1>5, <1>7 DEF VariablesFit
<1>14. Good(g, g, <<r, w>>, lost)
  BY <1>4, <1>7, <1>8, <1>10, <1>11, <1>12, <1>13, Pair
<1>15. QED
  BY <1>1, <1>2, <1>14 DEF g

(* A stack of one task, and what becomes of it.                            *)
LEMMA Single ==
  ASSUME NEW c \in Seq(Tasks), Len(c) = 1, NEW u \in Tasks
  PROVE  /\ [c EXCEPT ![Len(c)] = u] = <<u>>
         /\ \A w \in Tasks : Append([c EXCEPT ![Len(c)] = u], w) = <<u, w>>
         /\ SubSeq(c, 1, Len(c) - 1) = <<>>
<1>1. c # <<>> /\ Len(c) = 1 /\ Len(c) - 1 = 0
  OBVIOUS
<1>2. [c EXCEPT ![Len(c)] = u] = <<u>>
  <2> DEFINE d == [c EXCEPT ![Len(c)] = u]
  <2>1. d \in Seq(Tasks) /\ Len(d) = Len(c) /\ d[Len(c)] = u
    BY <1>1, Becoming
  <2> HIDE DEF d
  <2>2. d \in Seq(Tasks) /\ Len(d) = 1 /\ d[1] = u
    BY <2>1
  <2>3. d = <<u>>
    BY <2>2
  <2>4. QED
    BY <2>3 DEF d
<1>3. ASSUME NEW w \in Tasks PROVE Append(<<u>>, w) = <<u, w>>
  <2> DEFINE e == Append(<<u>>, w)
  <2>1. <<u>> \in Seq(Tasks) /\ Len(<<u>>) = 1 /\ <<u>>[1] = u
    OBVIOUS
  <2>2. e \in Seq(Tasks) /\ Len(e) = 2 /\ e[1] = u /\ e[2] = w
    BY <2>1
  <2> HIDE DEF e
  <2>3. e = <<u, w>>
    BY <2>2
  <2>4. QED
    BY <2>3 DEF e
<1>4. SubSeq(c, 1, Len(c) - 1) = <<>>
  <2> DEFINE d == SubSeq(c, 1, Len(c) - 1)
  <2>1. d \in Seq(Tasks) /\ Len(d) = Len(c) - 1
    BY <1>1, Returning
  <2> HIDE DEF d
  <2>2. d \in Seq(Tasks) /\ Len(d) = 0
    BY <1>1, <2>1
  <2>3. d = <<>>
    BY <2>2
  <2>4. QED
    BY <2>3 DEF d
<1>5. QED
  BY <1>2, <1>3, <1>4

(* What a request or a load finds when it goes on.                         *)
LEMMA FirstFacts ==
  ASSUME Good(heap, settled, calls, lost), NEW do \in {"request", "answer", "loaded"}, In(do), Settles,
         NEW t, t = Top
  PROVE  /\ calls \in Seq(Tasks) /\ Len(calls) = 1 /\ t \in Tasks /\ t.do = do
         /\ Sound(heap, lost) /\ SettledOK(settled) /\ Apart(heap, settled)
         /\ heap[New].own[1] = NULL
         /\ do # "loaded" => heap[Stored].own[1] = NULL /\ RequestOK(heap, settled, t)
         /\ do = "loaded" => heap[Stored].own[1] \in Blocks
         /\ heap[Query].own[1] # NULL => heap[Message].own[1] # NULL
         /\ (calls' = <<>> => settled' = heap') /\ (calls' # <<>> => settled' = settled)
<1>1. calls # <<>> /\ calls[Len(calls)].do = do /\ do \in FirstDo /\ t = calls[Len(calls)] /\ do \in Borrowing
  BY DEF In, Top, FirstDo, Borrowing
<1>2. /\ Len(calls) = 1 /\ DOMAIN calls = {1} /\ t.do = do /\ t \in Tasks /\ Sound(heap, lost) /\ t = calls[1]
  BY <1>1, First
<1>3. TaskOK(heap, settled, calls, t)
  BY <1>2 DEF Good, TasksOK
<1>4. Apart(heap, settled) /\ SettledOK(settled) /\ calls \in Seq(Tasks)
  BY <1>1, <1>2 DEF Good, BorrowOK
<1>5. /\ heap[New].own[1] = NULL
      /\ do # "loaded" => heap[Stored].own[1] = NULL
      /\ heap[Query].own[1] # NULL => heap[Message].own[1] # NULL
  BY <1>2 DEF Good, VariablesOK, BuildDo
<1>6. QED
  BY <1>1, <1>2, <1>3, <1>4, <1>5 DEF TaskOK, Settles

(* The answer's handle is made, and the query is going to be copied; or the*)
(* request is refused.                                                     *)
LEMMA NewAnswerGood ==
  ASSUME Good(heap, settled, calls, lost), NewAnswer, Settles
  PROVE  Good(heap', settled', calls', lost')
<1> DEFINE g == heap'
           t == Top
           q == heap[Message].own[1]
           a == ArrayOf(heap[Message].own[1])
           n == heap[heap[Message].own[1]].n
           u == [t EXCEPT !.do = "answer"]
           w == CopyTree("copyTreeUnchecked", Query, a, 0, n)
<1>1. In("request") /\ lost' = lost
  BY DEF NewAnswer
<1>2. /\ calls \in Seq(Tasks) /\ Len(calls) = 1 /\ t \in Tasks /\ t.do = "request"
      /\ Sound(heap, lost) /\ SettledOK(settled) /\ Apart(heap, settled)
      /\ heap[New].own[1] = NULL /\ heap[Stored].own[1] = NULL /\ RequestOK(heap, settled, t)
      /\ heap[Query].own[1] # NULL => heap[Message].own[1] # NULL
      /\ (calls' = <<>> => settled' = heap') /\ (calls' # <<>> => settled' = settled)
  BY <1>1, FirstFacts
<1>3. /\ t.at \in Slots /\ q \in Blocks /\ heap = settled
      /\ heap[t.at].own[1] = NULL /\ heap[Query].own[1] = NULL
  BY <1>2 DEF RequestOK
<1>4. /\ t.at \in Variables /\ Message \in Variables /\ Query \in Variables /\ New \in Variables
      /\ Stored \in Variables /\ t.at # New /\ t.at # Query /\ t.at # Message /\ t.at # Stored
      /\ Message # New /\ Message # Stored /\ Query # Message /\ Query \in Handles
  BY <1>3, VariableNames
<1>5. \/ Room /\ g = WithIn(Shell(0), t.at, 1) /\ Calls(u, w)
      \/ g = Cleared({Message}) /\ Becomes(Release(q))
  BY DEF NewAnswer, Unpacked, Held
<1>6. u \in Tasks /\ u.do = "answer" /\ u.at = t.at
  <2>1. "answer" \in Doings
    BY DEF Doings, FirstDo
  <2> HIDE DEF t
  <2>2. QED
    BY <1>2, <2>1, Going
<1>7. CASE Room /\ g = WithIn(Shell(0), t.at, 1) /\ Calls(u, w)
  <2>1. heap[q].kind = "shell"
    BY <1>2, <1>3, <1>4, VariableShape, Names
  <2>2. Listing(q, a)
    BY <1>2, <1>3, <2>1, Beneath
  <2> HIDE DEF q, a, n, u, t, g
  <2>3. n \in Nat /\ a \in Blocks \cup {NULL} /\ (a # NULL => heap[a].kind = "array" /\ heap[a].n = n)
    BY <2>2 DEF Listing, n, q
  <2>4. /\ w \in Tasks /\ w.do = "copyTreeUnchecked" /\ w.at = Query /\ w.from = a /\ w.skip = 0 /\ w.n = n
    <3>1. a \in Pointers
      BY <2>3 DEF Pointers
    <3>2. "copyTreeUnchecked" \in {"copyTree", "copyTreeUnchecked"} /\ Query \in Variables
          /\ 0 \in Nat /\ n \in Nat
      BY <1>4, <2>3
    <3> HIDE DEF w
    <3>3. LET x == CopyTree("copyTreeUnchecked", Query, a, 0, n)
          IN /\ x \in Tasks /\ x.do = "copyTreeUnchecked" /\ x.at = Query /\ x.from = a
             /\ x.skip = 0 /\ x.n = n
      BY <3>1, <3>2, TreeCopier
    <3>4. QED
      BY <3>3 DEF w
  <2> HIDE DEF w
  <2>5. calls' = <<u, w>>
    BY <1>2, <1>6, <1>7, <2>4, Single DEF Calls
  <2>6. /\ Sound(g, lost) /\ g[t.at].own[1] = Fresh /\ Fresh \in Blocks
        /\ \A v \in Variables : v # t.at => g[v] = heap[v]
        /\ Apart(g, settled)
    <3>1. 0 \in Nat
      OBVIOUS
    <3>2. QED
      BY <1>2, <1>3, <1>4, <1>7, <3>1, NewHandle
  <2>7. g[Message] = heap[Message] /\ g[Query] = heap[Query] /\ g[New] = heap[New] /\ g[Stored] = heap[Stored]
    BY <1>4, <2>6
  <2>8. RequestOK(g, settled, u)
    BY <1>3, <1>6, <2>6, <2>7 DEF RequestOK, q
  <2>9. TaskOK(g, settled, <<u, w>>, u)
    BY <1>6, <2>8 DEF TaskOK, CopyDo, TreeDo, BuildDo
  <2>10. OldArray(settled, w, w.n)
    <3>1. 0 + n = n /\ n <= n
      BY <2>3
    <3>2. QED
      BY <1>3, <2>3, <2>4, <3>1 DEF OldArray
  <2>11. TreeOK(g, settled, w)
    BY <1>3, <1>4, <2>4, <2>7, <2>10 DEF TreeOK, q
  <2>12. TaskOK(g, settled, <<u, w>>, w)
    BY <2>4, <2>11 DEF TaskOK, CopyDo, BuildDo
  <2>13. VariablesFit(g, u)
    BY <1>2, <2>7 DEF VariablesFit
  <2>14. Good(g, settled, <<u, w>>, lost)
    BY <1>2, <1>6, <2>4, <2>6, <2>9, <2>12, <2>13, Pair
  <2>15. settled' = settled
    BY <1>2, <2>5
  <2>16. QED
    BY <1>1, <2>5, <2>14, <2>15 DEF g
<1>8. CASE g = Cleared({Message}) /\ Becomes(Release(q))
  <2> HIDE DEF q, t, g
  <2>1. q \in Pointers
    BY <1>3 DEF Pointers
  <2>2. Release(q) \in Tasks
    BY <2>1, TaskParts DEF Release
  <2>3. calls' = <<Release(q)>>
    BY <1>2, <1>8, <2>2, Single DEF Becomes
  <2>4. /\ Sound(g, lost \cup ({q} \cap Blocks)) /\ q \notin lost
        /\ g[Message].own[1] = NULL
        /\ \A b \in Addresses : b # Message => g[b] = heap[b]
    <3>1. Message \in Variables /\ Sound(heap, lost) /\ g = Cleared({Message})
          /\ q = heap[Message].own[1]
      BY <1>2, <1>4, <1>8 DEF q
    <3>2. QED
      BY <3>1, Handing
  <2>5. g[Query] = heap[Query] /\ g[New] = heap[New] /\ g[Stored] = heap[Stored]
    BY <1>4, <2>4, VariableNames
  <2>6. VariablesFit(g, Release(q))
    BY <1>2, <1>3, <2>5 DEF VariablesFit
  <2>7. Good(g, settled, <<Release(q)>>, lost)
    BY <1>2, <2>1, <2>4, <2>6, AloneReleasing
  <2>8. settled' = settled
    BY <1>2, <2>3
  <2>9. QED
    BY <1>1, <2>3, <2>7, <2>8 DEF g
<1>9. QED
  BY <1>5, <1>7, <1>8

(* The callback is entered; or the query could not be copied, and the      *)
(* handle of the answer is left behind.                                    *)
LEMMA EnterCallbackGood ==
  ASSUME Good(heap, settled, calls, lost), EnterCallback, Settles
  PROVE  Good(heap', settled', calls', lost')
<1> DEFINE g == heap'
           t == Top
           q == heap[Message].own[1]
           x == heap[Top.at].own[1]
           P == {Top.at, Message}
           l == lost'
<1>1. In("answer")
  BY DEF EnterCallback
<1>2. /\ calls \in Seq(Tasks) /\ Len(calls) = 1 /\ t \in Tasks
      /\ Sound(heap, lost) /\ SettledOK(settled)
      /\ heap[New].own[1] = NULL /\ heap[Stored].own[1] = NULL /\ RequestOK(heap, settled, t)
      /\ heap[Query].own[1] # NULL => heap[Message].own[1] # NULL
      /\ (calls' = <<>> => settled' = heap') /\ (calls' # <<>> => settled' = settled)
      /\ t.do = "answer"
  BY <1>1, FirstFacts
<1>3. /\ t.at \in Slots /\ q \in Blocks /\ x \in Blocks
  BY <1>2 DEF RequestOK
<1>4. /\ t.at \in Variables /\ Message \in Variables /\ t.at # Message
      /\ New \notin P /\ Stored \notin P /\ Query \notin P
      /\ New \in Variables /\ Stored \in Variables /\ Query \in Variables
  BY <1>3, VariableNames
<1>5. \/ heap[Query].own[1] # NULL /\ Returns /\ g = heap /\ l = lost
      \/ /\ heap[Query].own[1] = NULL /\ l = lost \cup {x} /\ g = Cleared(P)
         /\ Becomes(Release(q))
  BY DEF EnterCallback, Held
<1>6. CASE heap[Query].own[1] # NULL /\ Returns /\ g = heap /\ l = lost
  <2>1. calls' = <<>>
    BY <1>2, <1>6, Single DEF Returns
  <2>2. Sound(g, l) /\ g[New].own[1] = NULL /\ g[Stored].own[1] = NULL
        /\ (g[Query].own[1] # NULL => g[Message].own[1] # NULL)
    BY <1>2, <1>6
  <2>3. settled' = g
    BY <1>2, <2>1
  <2> HIDE DEF g, l
  <2>4. Good(g, settled', calls', l)
    BY <2>1, <2>2, <2>3, Nothing
  <2>5. QED
    BY <2>4 DEF g, l
<1>7. CASE /\ heap[Query].own[1] = NULL /\ l = lost \cup {x} /\ g = Cleared(P)
           /\ Becomes(Release(q))
  <2>1. q \in Pointers /\ {q} \cap Blocks = {q}
    BY <1>3 DEF Pointers
  <2>2. Release(q) \in Tasks
    BY <2>1, TaskParts DEF Release
  <2>3. calls' = <<Release(q)>>
    BY <1>2, <1>7, <2>2, Single DEF Becomes
  <2>4. Message \in Addresses /\ Size(heap[Message]) = 1 /\ Hook(heap[Message]) = 1
    BY <1>2, <1>4, VariableShape
  <2>5. t.at \in Addresses /\ Size(heap[t.at]) = 1 /\ Hook(heap[t.at]) = 1
    BY <1>2, <1>4, VariableShape
  <2>6. Hung(P) = {q, x}
    BY <1>3, <2>4, <2>5 DEF Hung
  <2>7. P \subseteq Addresses /\ \A b \in P : Hook(heap[b]) \in 1..Size(heap[b])
    BY <2>4, <2>5
  <2>8. q # x
    <3>1. 1 \in 1..Size(heap[Message]) /\ 1 \in 1..Size(heap[t.at])
      BY <2>4, <2>5
    <3>2. QED
      BY <1>2, <1>3, <1>4, <2>4, <2>5, <3>1 DEF Sound, Unique
  <2>9. q \notin lost
    <3>1. 1 \in 1..Size(heap[Message])
      BY <2>4
    <3>2. QED
      BY <1>2, <2>4, <3>1 DEF Sound, Roots
  <2>10. g[New] = heap[New] /\ g[Stored] = heap[Stored] /\ g[Query] = heap[Query]
    BY <1>4, <1>7, VariableNames DEF Cleared
  <2> HIDE DEF g, l, P, q, x
  <2>11. Sound(g, lost \cup Hung(P))
    BY <1>2, <1>7, <2>7, Clearing
  <2>12. lost \cup Hung(P) = l \cup {q}
    BY <1>7, <2>6
  <2>13. Sound(g, l \cup ({q} \cap Blocks))
    BY <2>1, <2>11, <2>12
  <2>14. VariablesFit(g, Release(q))
    BY <1>2, <1>7, <2>10 DEF VariablesFit
  <2>15. q \notin l
    BY <1>7, <2>8, <2>9
  <2>16. Good(g, settled, <<Release(q)>>, l)
    BY <1>2, <2>1, <2>13, <2>14, <2>15, AloneReleasing
  <2>17. settled' = settled
    BY <1>2, <2>3
  <2>18. QED
    BY <2>3, <2>16, <2>17 DEF g, l
<1>8. QED
  BY <1>5, <1>6, <1>7

(* What was unpacked is released.                                          *)
LEMMA LoadedGood ==
  ASSUME Good(heap, settled, calls, lost), Loaded, Settles
  PROVE  Good(heap', settled', calls', lost')
<1> DEFINE g == heap'
           t == Top
           q == heap[Stored].own[1]
<1>1. In("loaded") /\ g = Cleared({Stored}) /\ Becomes(Release(q)) /\ lost' = lost
  BY DEF Loaded, Held
<1>2. /\ calls \in Seq(Tasks) /\ Len(calls) = 1 /\ t \in Tasks
      /\ Sound(heap, lost) /\ SettledOK(settled) /\ heap[New].own[1] = NULL
      /\ heap[Query].own[1] # NULL => heap[Message].own[1] # NULL
      /\ (calls' = <<>> => settled' = heap') /\ (calls' # <<>> => settled' = settled)
  BY <1>1, FirstFacts
<1>3. /\ Stored \in Variables /\ Stored # New /\ Stored # Query /\ Stored # Message
      /\ New \in Variables /\ Query \in Variables /\ Message \in Variables
  BY VariableNames
<1> HIDE DEF g, q, t
<1>4. /\ Sound(g, lost \cup ({q} \cap Blocks)) /\ q \notin lost /\ q \in Pointers
      /\ g[Stored].own[1] = NULL
      /\ \A b \in Addresses : b # Stored => g[b] = heap[b]
  <2>1. Stored \in Variables /\ Sound(heap, lost) /\ g = Cleared({Stored}) /\ q = heap[Stored].own[1]
    BY <1>1, <1>2, <1>3 DEF q
  <2>2. QED
    BY <2>1, Handing
<1>5. Release(q) \in Tasks
  BY <1>4, TaskParts DEF Release
<1>6. calls' = <<Release(q)>>
  BY <1>1, <1>2, <1>5, Single DEF Becomes
<1>7. g[New] = heap[New] /\ g[Query] = heap[Query] /\ g[Message] = heap[Message]
  BY <1>3, <1>4, VariableNames
<1>8. VariablesFit(g, Release(q))
  BY <1>2, <1>4, <1>7 DEF VariablesFit
<1>9. Good(g, settled, <<Release(q)>>, lost)
  BY <1>2, <1>4, <1>8, AloneReleasing
<1>10. settled' = settled
  BY <1>2, <1>6
<1>11. QED
  BY <1>1, <1>6, <1>9, <1>10 DEF g
-----------------------------------------------------------------------------
(* The inductive invariant *)

(* There is nothing at first.                                              *)
LEMMA InitGood ==
  ASSUME Init
  PROVE  IndInv
<1>1. /\ DOMAIN heap = Addresses /\ calls = <<>> /\ lost = {} /\ fault = "none" /\ settled = heap
      /\ \A b \in Blocks : heap[b] = Free
      /\ \A v \in Variables : heap[v] = Variable(IF v = New THEN "local" ELSE "handle")
  BY Names DEF Init
<1>2. /\ \A b \in Addresses : b \in Blocks \/ b \in Variables
      /\ \A v \in Variables : v \notin Blocks
  BY VariableNames DEF Addresses
<1>3. ASSUME NEW b \in Blocks
      PROVE  ShapeOK(heap[b], Pointers) /\ heap[b].kind = "free" /\ Size(heap[b]) = 0
  <2>1. Free.kind = "free" /\ Size(Free) = 0 /\ Free = Cell(Free.kind, Free.says, Free.n, Free.own)
        /\ Free.n = 0 /\ Free.own \in [1..0 -> Pointers]
    BY DEF Free, Cell, Size, All
  <2>2. QED
    BY <1>1, <2>1 DEF ShapeOK
<1>4. ASSUME NEW v \in Variables
      PROVE  /\ ShapeOK(heap[v], Pointers) /\ heap[v].kind = IF v = New THEN "local" ELSE "handle"
             /\ Size(heap[v]) = 1 /\ heap[v].own[1] = NULL
  <2>1. ASSUME NEW kind \in {"local", "handle"}
        PROVE  LET c == Variable(kind)
               IN c.kind = kind /\ Size(c) = 1 /\ c = Cell(c.kind, c.says, c.n, c.own)
                  /\ c.n = 0 /\ c.own \in [1..1 -> Pointers] /\ c.own[1] = NULL
    BY DEF Variable, Cell, Size, All, Pointers
  <2> DEFINE c == heap[v]
             kind == IF v = New THEN "local" ELSE "handle"
  <2>2. kind \in {"local", "handle"} /\ c = Variable(kind)
    BY <1>1
  <2> HIDE DEF c, kind
  <2>3. /\ c.kind = kind /\ Size(c) = 1 /\ c = Cell(c.kind, c.says, c.n, c.own)
        /\ c.n = 0 /\ c.own \in [1..1 -> Pointers] /\ c.own[1] = NULL
    BY <2>1, <2>2
  <2>4. ShapeOK(c, Pointers)
    BY <2>2, <2>3 DEF ShapeOK
  <2>5. QED
    BY <2>3, <2>4 DEF c, kind
<1>5. Shaped(heap)
  BY <1>2, <1>3, <1>4 DEF Shaped, KindAt
<1>6. \A b \in Addresses : \A i \in 1..Size(heap[b]) : heap[b].own[i] = NULL
  BY <1>2, <1>3, <1>4
<1>7. Sound(heap, lost)
  BY <1>1, <1>3, <1>5, <1>6, Names DEF Sound, Pointed, PointsWell, Unique, Roots, Owned
<1>8. heap[New].own[1] = NULL /\ heap[Stored].own[1] = NULL /\ heap[Query].own[1] = NULL
  BY <1>4, VariableNames
<1>9. Good(heap, settled, calls, lost)
  BY <1>1, <1>7, <1>8, Nothing
<1>10. QED
  BY <1>1, <1>9 DEF IndInv

(* What the step lemmas say of a step that starts in the invariant.        *)
Preserved ==
  /\ Good(heap', settled', calls', lost')
  /\ fault' = fault \/ fault' \in {"null", "unassigned", "unnamed"}

(* Releasing, building and packing.                                        *)
LEMMA WorkGood ==
  ASSUME Good(heap, settled, calls, lost), Settles, Releasing \/ Constructing \/ Packing
  PROVE  Preserved
<1>1. CASE ReleaseNext
  BY <1>1, ReleaseNextGood DEF ReleaseNext, Preserved
<1>2. CASE ReleaseBlock
  BY <1>2, ReleaseBlockGood DEF ReleaseBlock, Preserved
<1>3. CASE ReleaseNothing
  BY <1>3, ReleaseNothingGood DEF Preserved
<1>4. CASE Build
  BY <1>4, BuildGood DEF Build, Preserved
<1>5. CASE Adopt
  BY <1>5, AdoptGood DEF Adopt, Preserved
<1>6. CASE Add
  BY <1>6, AddGood DEF Add, Preserved
<1>7. CASE Packing
  BY <1>7, PackingGood DEF Preserved
<1>8. QED
  BY <1>1, <1>2, <1>3, <1>4, <1>5, <1>6, <1>7 DEF Releasing, Constructing

(* Copying.                                                                *)
LEMMA CopyingGood ==
  ASSUME Good(heap, settled, calls, lost), Settles, Copying
  PROVE  Preserved
<1>1. CASE CopyArray
  BY <1>1, CopyArrayGood DEF Preserved
<1>2. CASE CopyElement
  BY <1>2, CopyElementGood DEF CopyElement, Preserved
<1>3. CASE CopyLeaf
  BY <1>3, CopyLeafGood DEF Preserved
<1>4. CASE CopyBelow
  BY <1>4, CopyBelowGood DEF CopyBelow, Preserved
<1>5. CASE CopiedBelow
  BY <1>5, CopiedBelowGood DEF CopiedBelow, Preserved
<1>6. CASE GiveUp
  BY <1>6, GiveUpGood DEF GiveUp, Preserved
<1>7. CASE NewTree
  BY <1>7, NewTreeGood DEF NewTree, Preserved
<1>8. CASE CheckTree
  BY <1>8, CheckTreeGood DEF CheckTree, Preserved
<1>9. QED
  BY <1>1, <1>2, <1>3, <1>4, <1>5, <1>6, <1>7, <1>8 DEF Copying

(* What the application calls.                                             *)
LEMMA ApplicationGood ==
  ASSUME Good(heap, settled, calls, lost), Settles, ApplicationCalls \/ Reading
  PROVE  Preserved
<1>0. \A i \in 1..MaxElements : i \in Nat \ {0}
  BY PropertiesAssumption
<1>1. ASSUME NEW s \in Slots, PropertyNew(s) PROVE Preserved
  BY <1>1, PropertyNewGood DEF PropertyNew, Preserved
<1>2. ASSUME NEW s \in Slots, PropertyFree(s) PROVE Preserved
  BY <1>2, PropertyFreeGood DEF PropertyFree, Preserved
<1>3. ASSUME NEW s \in Slots, SendGetPropertyResponse(s) PROVE Preserved
  BY <1>3, SendGetPropertyResponseGood DEF SendGetPropertyResponse, Preserved
<1>4. ASSUME NEW s \in Slots, PushProperty(s) PROVE Preserved
  BY <1>4, PushPropertyGood DEF PushProperty, Preserved
<1>5. ASSUME NEW s \in Slots, NEW key \in Keys, NEW kind \in Kinds, AddLeaf(s, key, kind) PROVE Preserved
  BY <1>5, AddLeafGood DEF AddLeaf, Preserved
<1>6. ASSUME NEW s \in Slots, NEW key \in Keys \cup {NULL}, NEW t \in Slots, AddProperty(s, key, t)
      PROVE Preserved
  BY <1>6, AddPropertyGood DEF AddProperty, Preserved
<1>7. ASSUME NEW s \in Slots, NEW h \in Handles, NEW i \in 1..MaxElements, GetPropertyByIndex(h, i, s)
      PROVE Preserved
  BY <1>0, <1>7, GetPropertyByIndexGood DEF Preserved
<1>8. ASSUME NEW s \in Slots, NEW h \in Handles, NEW key \in Keys, GetPropertyByName(h, key, s)
      PROVE Preserved
  BY <1>8, GetPropertyByNameGood DEF Preserved
<1>9. ASSUME NEW h \in Handles, NEW i \in 1..MaxElements, NEW what, Read(h, i, what) PROVE Preserved
  BY <1>0, <1>9, ReadGood DEF Preserved
<1>10. CASE ApplicationCalls
  BY <1>1, <1>2, <1>3, <1>4, <1>5, <1>6, <1>7, <1>8, <1>10 DEF ApplicationCalls
<1>11. CASE Reading
  BY <1>9, <1>11 DEF Reading
<1>12. QED
  BY <1>10, <1>11

(* What comes from the vdSM and the database.                              *)
LEMMA ElsewhereGood ==
  ASSUME Good(heap, settled, calls, lost), Settles, FromElsewhere
  PROVE  Preserved
<1>1. ASSUME NEW s \in Slots, NEW t \in Messages, NEW base \in 0..MaxBlocks, Request(s, t, base)
      PROVE Preserved
  BY <1>1, RequestGood DEF Request, Preserved
<1>2. ASSUME NEW s \in Slots, NEW t \in Messages, NEW base \in 0..MaxBlocks, LoadProperty(s, t, base)
      PROVE Preserved
  BY <1>2, LoadPropertyGood DEF LoadProperty, Preserved
<1>3. CASE NewAnswer
  BY <1>3, NewAnswerGood DEF NewAnswer, Preserved
<1>4. CASE EnterCallback
  BY <1>4, EnterCallbackGood DEF EnterCallback, Preserved
<1>5. CASE CallbackReturns
  BY <1>5, CallbackReturnsGood DEF CallbackReturns, Preserved
<1>6. CASE Loaded
  BY <1>6, LoadedGood DEF Loaded, Preserved
<1>7. QED
  BY <1>1, <1>2, <1>3, <1>4, <1>5, <1>6 DEF FromElsewhere

(* Every step keeps the invariant.                                         *)
LEMMA NextGood ==
  ASSUME IndInv, [Next]_vars
  PROVE  IndInv'
<1>1. CASE Step /\ Settles
  <2>1. Good(heap, settled, calls, lost)
    BY DEF IndInv
  <2>2. Preserved
    BY <1>1, <2>1, WorkGood, CopyingGood, ApplicationGood, ElsewhereGood DEF Step
  <2>3. QED
    BY <2>2 DEF IndInv, Preserved
<1>2. CASE Stopped
  BY <1>2 DEF IndInv, Stopped, vars
<1>3. CASE UNCHANGED vars
  BY <1>3 DEF IndInv, vars
<1>4. QED
  BY <1>1, <1>2, <1>3 DEF Next
-----------------------------------------------------------------------------
(* What the invariant says of memory *)

(* A pointer counts unless a release has followed it.                      *)
LEMMA KeptPointers ==
  ASSUME Good(heap, settled, calls, lost), NEW g, g = Remaining(heap, calls),
         NEW b \in Addresses
  PROVE  /\ ShapeOK(heap[b], Pointers) /\ DOMAIN heap[b].own = 1..Size(heap[b])
         /\ Size(g[b]) = Size(heap[b]) /\ g[b].kind = heap[b].kind /\ g[b].n = heap[b].n
         /\ \A i \in 1..Size(heap[b]) :
              g[b].own[i] = IF Kept(b, i) THEN heap[b].own[i] ELSE NULL
<1>1. Shaped(heap) /\ calls \in Seq(Tasks)
  BY DEF Good, MemoryOK
<1>2. ShapeOK(heap[b], Pointers)
  BY <1>1 DEF Shaped
<1>3. DOMAIN heap[b].own = 1..Size(heap[b]) /\ Size(heap[b]) \in Nat
  BY <1>2, SizeType DEF ShapeOK
<1>4. /\ Size(g[b]) = Size(heap[b]) /\ g[b].kind = heap[b].kind /\ g[b].n = heap[b].n
      /\ \A i \in 1..Size(heap[b]) :
           g[b].own[i] = IF <<b, i>> \in Spent(calls) THEN NULL ELSE heap[b].own[i]
  BY <1>1, DetachedParts DEF Remaining
<1>5. ASSUME NEW i \in 1..Size(heap[b]) PROVE <<b, i>> \in Spent(calls) <=> ~Kept(b, i)
  <2>1. i \in Nat
    BY <1>3
  <2>2. ASSUME NEW j \in DOMAIN calls PROVE calls[j].i \in Nat
    <3>1. calls[j] \in Tasks
      BY <1>1
    <3>2. QED
      BY <3>1, TaskFields
  <2>3. <<b, i>> \in Spent(calls) <=>
          \E j \in DOMAIN calls : calls[j].do = "release" /\ calls[j].at = b /\ i < calls[j].i
    BY <2>1, SpentParts
  <2>4. QED
    BY <2>1, <2>2, <2>3 DEF Kept
<1>6. QED
  BY <1>2, <1>3, <1>4, <1>5

(* What is in memory has an address.                                       *)
LEMMA Reachable ==
  /\ \A b \in Memory : b \in Addresses
  /\ \A b \in Addresses : b \in Memory \/ heap[b].kind = "free"
  BY Names DEF Memory, Allocated, Addresses, Live

(* The invariant says that memory is typed: a pointer that counts leads,   *)
(* in memory as it is, to what it leads to in what remains.                *)
LEMMA GoodTypes ==
  ASSUME IndInv
  PROVE  TypeOK
<1> DEFINE g == Remaining(heap, calls)
<1>1. /\ Good(heap, settled, calls, lost) /\ DOMAIN heap = Addresses
      /\ Sound(g, Freeing(calls) \cup lost)
  BY DEF IndInv, Good, MemoryOK
<1> HIDE DEF g
<1>2. \A b \in Addresses :
        /\ ShapeOK(heap[b], Pointers) /\ DOMAIN heap[b].own = 1..Size(heap[b])
        /\ Size(g[b]) = Size(heap[b]) /\ g[b].kind = heap[b].kind /\ g[b].n = heap[b].n
        /\ \A i \in 1..Size(heap[b]) :
             g[b].own[i] = IF Kept(b, i) THEN heap[b].own[i] ELSE NULL
  BY <1>1, KeptPointers DEF g
<1>3. ASSUME NEW b \in Memory, NEW i \in DOMAIN heap[b].own
      PROVE  \/ heap[b].own[i] = NULL
             \/ heap[b].own[i] = WILD /\ heap[b].kind = "array"
             \/ ~Kept(b, i)
             \/ PointerOK(heap, heap[b], i)
  <2>1. b \in Addresses /\ i \in 1..Size(heap[b])
    BY <1>2, Reachable
  <2>2. CASE Kept(b, i)
    <3>1. PointsWell(g, b, i) /\ g[b].own[i] = heap[b].own[i] /\ g[b].kind = heap[b].kind
          /\ g[b].n = heap[b].n
      BY <1>1, <1>2, <2>1, <2>2 DEF Sound, Pointed
    <3>2. CASE heap[b].own[i] \in Blocks /\ PointerOK(g, g[b], i)
      <4>1. heap[b].own[i] \in Addresses
        BY <3>2, Names
      <4>2. QED
        BY <1>1, <1>2, <3>1, <3>2, <4>1 DEF PointerOK
    <3>3. QED
      BY <3>1, <3>2 DEF PointsWell
  <2>3. QED
    BY <2>2
<1>4. \A b \in Memory : ShapeOK(heap[b], Blocks \cup {NULL, WILD})
  BY <1>2, Reachable DEF Pointers
<1>5. lost \subseteq Allocated
  <2>1. ASSUME NEW q \in lost PROVE q \in Blocks /\ heap[q].kind # "free"
    BY <1>1, <1>2, Names DEF Sound, Roots
  <2>2. QED
    BY <2>1 DEF Allocated, Live
<1>6. fault \in {"none", "null", "unassigned", "unnamed", "dead"}
  BY DEF IndInv
<1>7. QED
  BY <1>1, <1>3, <1>4, <1>5, <1>6 DEF TypeOK

(* The invariant says that no block has two owners.                        *)
LEMMA GoodOwners ==
  ASSUME IndInv
  PROVE  NoSharedBlock
<1> DEFINE g == Remaining(heap, calls)
<1>1. /\ Good(heap, settled, calls, lost)
      /\ Sound(g, Freeing(calls) \cup lost)
      /\ \A j, k \in DOMAIN calls :
           calls[j].do = "release" /\ calls[k].do = "release" /\ calls[j].at = calls[k].at
           /\ calls[j].at \in Blocks => j = k
  BY DEF IndInv, Good, MemoryOK
<1> HIDE DEF g
<1>2. \A b \in Addresses :
        /\ DOMAIN heap[b].own = 1..Size(heap[b])
        /\ Size(g[b]) = Size(heap[b])
        /\ \A i \in 1..Size(heap[b]) :
             g[b].own[i] = IF Kept(b, i) THEN heap[b].own[i] ELSE NULL
  BY <1>1, KeptPointers DEF g
<1>3. ASSUME NEW b \in Memory, NEW i \in DOMAIN heap[b].own, Owns(b, i)
      PROVE  /\ \A c \in Memory : \A k \in DOMAIN heap[c].own :
                  heap[b].own[i] = heap[c].own[k] /\ Kept(c, k) => b = c /\ i = k
             /\ \A j \in Releases : calls[j].at # heap[b].own[i]
  <2>1. /\ b \in Addresses /\ i \in 1..Size(g[b]) /\ g[b].own[i] = heap[b].own[i]
        /\ heap[b].own[i] \in Blocks
    BY <1>2, <1>3, Reachable DEF Owns
  <2>2. ASSUME NEW c \in Memory, NEW k \in DOMAIN heap[c].own,
               heap[b].own[i] = heap[c].own[k], Kept(c, k)
        PROVE  b = c /\ i = k
    <3>1. c \in Addresses /\ k \in 1..Size(g[c]) /\ g[c].own[k] = heap[c].own[k]
      BY <1>2, <2>2, Reachable
    <3>2. QED
      BY <1>1, <2>1, <2>2, <3>1 DEF Sound, Unique
  <2>3. heap[b].own[i] \notin Freeing(calls)
    BY <1>1, <2>1 DEF Sound, Roots
  <2>4. \A j \in Releases : calls[j].at # heap[b].own[i]
    BY <2>1, <2>3 DEF Releases, Freeing
  <2>5. QED
    BY <2>2, <2>4
<1>4. \A j, k \in Releases : calls[j].at = calls[k].at /\ calls[j].at \in Blocks => j = k
  BY <1>1 DEF Releases
<1>5. QED
  BY <1>3, <1>4 DEF NoSharedBlock

(* The invariant says that every block has an owner.                       *)
LEMMA GoodOwned ==
  ASSUME IndInv
  PROVE  NoLeak
<1> DEFINE g == Remaining(heap, calls)
<1>1. /\ Good(heap, settled, calls, lost)
      /\ Sound(g, Freeing(calls) \cup lost)
  BY DEF IndInv, Good, MemoryOK
<1> HIDE DEF g
<1>2. \A b \in Addresses :
        /\ DOMAIN heap[b].own = 1..Size(heap[b])
        /\ Size(g[b]) = Size(heap[b]) /\ g[b].kind = heap[b].kind
        /\ \A i \in 1..Size(heap[b]) :
             g[b].own[i] = IF Kept(b, i) THEN heap[b].own[i] ELSE NULL
  BY <1>1, KeptPointers DEF g
<1>3. ASSUME NEW q \in Allocated
      PROVE  \/ \E b \in Memory : \E i \in DOMAIN heap[b].own : heap[b].own[i] = q /\ Kept(b, i)
             \/ \E j \in Releases : calls[j].at = q
             \/ q \in lost
  <2>1. q \in Blocks /\ q # NULL /\ g[q].kind # "free"
    BY <1>2, Names DEF Allocated, Live
  <2>2. \/ q \in Freeing(calls) \cup lost
        \/ \E b \in Addresses : \E i \in 1..Size(g[b]) : g[b].own[i] = q
    BY <1>1, <2>1 DEF Sound, Owned
  <2>3. CASE q \in Freeing(calls)
    BY <2>3 DEF Freeing, Releases
  <2>4. ASSUME NEW b \in Addresses, NEW i \in 1..Size(g[b]), g[b].own[i] = q
        PROVE  \E x \in Memory : \E k \in DOMAIN heap[x].own : heap[x].own[k] = q /\ Kept(x, k)
    <3>1. i \in DOMAIN heap[b].own /\ Kept(b, i) /\ heap[b].own[i] = q
      BY <1>2, <2>1, <2>4
    <3>2. heap[b].kind # "free"
      <4>1. heap[b].kind = "free" => Size(heap[b]) = 0
        BY DEF Size
      <4>2. QED
        BY <1>2, <2>4, <4>1
    <3>3. b \in Memory
      BY <3>2, Reachable
    <3>4. QED
      BY <3>1, <3>3
  <2>5. QED
    BY <2>2, <2>3, <2>4
<1>4. QED
  BY <1>3 DEF NoLeak

-----------------------------------------------------------------------------
(* The invariant holds in every reachable state: a call in progress finds  *)
(* what it works on, and releases each block once.                         *)
THEOREM Invariance == Spec => []IndInv
<1>1. Init => IndInv
  BY InitGood
<1>2. IndInv /\ [Next]_vars => IndInv'
  BY NextGood
<1>3. QED
  BY <1>1, <1>2, PTL DEF Spec

(* TypeOK: every pointer that may still be followed leads to a block of the*)
(* kind it is read as, however large the trees and however many the calls. *)
THEOREM TypeCorrect == Spec => []TypeOK
<1>1. IndInv => TypeOK
  BY GoodTypes
<1>2. QED
  BY <1>1, Invariance, PTL

(* NoSharedBlock: trees of dsvdc_property handles never share a block.     *)
THEOREM BlocksUnshared == Spec => []NoSharedBlock
<1>1. IndInv => NoSharedBlock
  BY GoodOwners
<1>2. QED
  BY <1>1, Invariance, PTL

(* NoLeak: after any failed allocation every block still has an owner, but *)
(* for the two places where the code leaves one behind.                    *)
THEOREM NothingLeaks == Spec => []NoLeak
<1>1. IndInv => NoLeak
  BY GoodOwned
<1>2. QED
  BY <1>1, Invariance, PTL

(* DeadNeverUsed: neither a use after free() nor a second free().          *)
THEOREM DeadUnused == Spec => []DeadNeverUsed
<1>1. IndInv => DeadNeverUsed
  BY DEF IndInv, DeadNeverUsed
<1>2. QED
  BY <1>1, Invariance, PTL
=============================================================================
