---------------------------- MODULE OwnedMemory ----------------------------
(***************************************************************************)
(* What malloc(), free() and an assignment do to memory in which every     *)
(* block has one owner: the lemmas that the proofs about VdcProperties     *)
(* rest on, about any memory h and any set R of blocks that are owned by   *)
(* something else than a pointer in memory.                                *)
(***************************************************************************)
EXTENDS VdcProperties, TLAPS

Pointers == Blocks \cup {NULL, WILD}

KindAt(b) ==
  IF b \in Blocks THEN {"free", "shell", "array", "element", "value", "data"}
  ELSE IF b = New THEN {"local"} ELSE {"handle"}

Shaped(h) == \A b \in Addresses : ShapeOK(h[b], Pointers) /\ h[b].kind \in KindAt(b)

PointsWell(h, b, i) ==
  \/ h[b].own[i] = NULL
  \/ h[b].own[i] = WILD /\ h[b].kind = "array"
  \/ h[b].own[i] \in Blocks /\ PointerOK(h, h[b], i)

Pointed(h) == \A b \in Addresses : \A i \in 1..Size(h[b]) : PointsWell(h, b, i)

Unique(h) ==
  \A b, c \in Addresses : \A i \in 1..Size(h[b]), k \in 1..Size(h[c]) :
    h[b].own[i] = h[c].own[k] /\ h[b].own[i] \in Blocks => b = c /\ i = k

Roots(h, R) ==
  /\ \A q \in R : q \in Blocks /\ h[q].kind # "free"
  /\ \A b \in Addresses : \A i \in 1..Size(h[b]) : h[b].own[i] \notin R

Owned(h, R) ==
  \A q \in Blocks : h[q].kind # "free" =>
    \/ q \in R
    \/ \E b \in Addresses : \E i \in 1..Size(h[b]) : h[b].own[i] = q

(* Every block is well formed and has exactly one owner.                   *)
Sound(h, R) ==
  DOMAIN h = Addresses /\ Shaped(h) /\ Pointed(h) /\ Unique(h) /\ Roots(h, R) /\ Owned(h, R)

-----------------------------------------------------------------------------
(* The null pointer, a pointer that was never assigned, the variables and  *)
(* the blocks are all different.                                           *)
LEMMA Names ==
  /\ NULL \notin Addresses /\ WILD \notin Addresses /\ NULL # WILD
  /\ NULL \notin Blocks /\ WILD \notin Blocks
  /\ Variables \cap Blocks = {} /\ Blocks \subseteq Addresses /\ Variables \subseteq Addresses
  BY PropertiesAssumption DEF Addresses

(* A cell is what it was made of.                                          *)
LEMMA CellParts ==
  ASSUME NEW kind, NEW says, NEW n, NEW own
  PROVE  LET c == Cell(kind, says, n, own)
         IN c.kind = kind /\ c.says = says /\ c.n = n /\ c.own = own
  BY DEF Cell

(* A block without pointers to others.                                     *)
Blank(c) ==
  /\ ShapeOK(c, Pointers)
  /\ \A i \in 1..Size(c) : c.own[i] = NULL \/ (c.own[i] = WILD /\ c.kind = "array")

(* malloc() of a block and an assignment of its address.                   *)
Attached(h, cell, f, p, k) ==
  [b \in Addresses |-> IF b = f THEN cell
                       ELSE IF b = p THEN Pointing(h[p], k, f) ELSE h[b]]

Place(h, p, k) == p \in Addresses /\ k \in 1..Size(h[p])

(* A cell has some number of pointers.                                     *)
LEMMA SizeType == ASSUME NEW c, NEW P, ShapeOK(c, P) PROVE Size(c) \in Nat
  BY DEF ShapeOK, Size

(* What assigning a pointer of a cell changes: only that pointer.          *)
LEMMA PointingParts ==
  ASSUME NEW c, NEW P, ShapeOK(c, P), NEW k \in 1..Size(c), NEW q
  PROVE  LET d == Pointing(c, k, q)
         IN /\ d.kind = c.kind /\ d.says = c.says /\ d.n = c.n /\ Size(d) = Size(c)
            /\ d = Cell(d.kind, d.says, d.n, d.own)
            /\ d.own[k] = q
            /\ \A i \in 1..Size(c) : i # k => d.own[i] = c.own[i]
            /\ \A S : q \in S /\ P \subseteq S => d.own \in [1..Size(c) -> S]
  BY DEF ShapeOK, Size, Pointing, Cell

(* A pointer leads to something that is allocated, never to a variable.    *)
LEMMA TargetKind ==
  ASSUME NEW c, NEW P, ShapeOK(c, P), NEW i \in 1..Size(c)
  PROVE  Target(c.kind, i) \in {"shell", "array", "element", "value", "data"}
  BY DEF ShapeOK, Size, Target

(* What a pointer in sound memory leads to.                                *)
LEMMA Followed ==
  ASSUME NEW h, Shaped(h), Pointed(h), NEW b, NEW i, Place(h, b, i), h[b].own[i] \in Blocks
  PROVE  LET q == h[b].own[i]
         IN /\ h[q].kind = Target(h[b].kind, i)
            /\ h[q].kind \in {"shell", "array", "element", "value", "data"}
            /\ h[q].kind = "array" => h[q].n = h[b].n
<1>1. b \in Addresses /\ i \in 1..Size(h[b]) /\ ShapeOK(h[b], Pointers)
  BY DEF Place, Shaped
<1>2. PointerOK(h, h[b], i)
  BY <1>1, Names DEF Pointed, PointsWell
<1>3. Target(h[b].kind, i) \in {"shell", "array", "element", "value", "data"}
  BY <1>1, TargetKind
<1>4. QED
  BY <1>2, <1>3 DEF PointerOK

(* malloc() of a block without pointers, assigned to a pointer that led    *)
(* nowhere: memory stays sound.                                            *)
LEMMA Attaching ==
  ASSUME NEW h, NEW R, Sound(h, R),
         NEW f \in Blocks, h[f].kind = "free",
         NEW cell, Blank(cell), cell.kind \in KindAt(f), cell.kind # "free",
         NEW p, NEW k, Place(h, p, k), h[p].own[k] \notin Blocks,
         cell.kind = Target(h[p].kind, k),
         cell.kind = "array" => cell.n = h[p].n,
         h[p].kind = "value" => \A i \in 1..2 : h[p].own[i] = NULL,
         h[p].kind \in {"shell", "element"} /\ k = Hook(h[p]) => h[p].n > 0
  PROVE  Sound(Attached(h, cell, f, p, k), R)
<1> DEFINE g == Attached(h, cell, f, p, k)
<1>0. /\ Shaped(h) /\ Pointed(h) /\ Unique(h) /\ Roots(h, R) /\ Owned(h, R)
      /\ p \in Addresses /\ k \in 1..Size(h[p]) /\ f \in Addresses
      /\ ShapeOK(h[p], Pointers) /\ ShapeOK(h[f], Pointers) /\ ShapeOK(cell, Pointers)
  BY Names DEF Sound, Place, Blank, Shaped
<1>1. DOMAIN g = Addresses
  BY DEF Attached
<1>2. p # f
  BY <1>0 DEF Size
<1>3. /\ g[f] = cell /\ g[p] = Pointing(h[p], k, f)
      /\ \A b \in Addresses : b # f /\ b # p => g[b] = h[b]
  BY <1>0, <1>2 DEF Attached
<1>4. /\ g[p].kind = h[p].kind /\ g[p].says = h[p].says /\ g[p].n = h[p].n
      /\ Size(g[p]) = Size(h[p]) /\ g[p].own[k] = f
      /\ g[p] = Cell(g[p].kind, g[p].says, g[p].n, g[p].own)
      /\ \A i \in 1..Size(h[p]) : i # k => g[p].own[i] = h[p].own[i]
      /\ g[p].own \in [1..Size(h[p]) -> Pointers]
  <2>1. f \in Pointers
    BY DEF Pointers
  <2>2. QED
    BY <1>0, <1>3, <2>1, PointingParts
<1>5. Shaped(g)
  <2>1. ASSUME NEW b \in Addresses PROVE ShapeOK(g[b], Pointers) /\ g[b].kind \in KindAt(b)
    <3>1. CASE b = f
      BY <1>3, <3>1, <1>0
    <3>2. CASE b = p
      <4>1. h[p].kind \in KindAt(p)
        BY <1>0 DEF Shaped
      <4>2. h[p].kind = "value" => NULL \in {g[p].own[1], g[p].own[2]}
        BY <1>0, <1>4 DEF Size
      <4>4. h[p].kind \in {"shell", "element"} /\ h[p].n = 0 => g[p].own[Hook(g[p])] = NULL
        <5>1. Hook(g[p]) = Hook(h[p]) /\ (h[p].kind \in {"shell", "element"} => Hook(h[p]) \in 1..Size(h[p]))
          BY <1>4 DEF Hook, Size
        <5>2. h[p].kind \in {"shell", "element"} /\ h[p].n = 0 => h[p].own[Hook(h[p])] = NULL
          BY <1>0 DEF ShapeOK
        <5>3. h[p].kind \in {"shell", "element"} /\ h[p].n = 0 => Hook(h[p]) # k
          BY <1>0
        <5>4. QED
          BY <1>4, <5>1, <5>2, <5>3
      <4>5. ShapeOK(g[p], Pointers)
        BY <1>0, <1>4, <4>2, <4>4 DEF ShapeOK
      <4>3. QED
        BY <1>4, <3>2, <4>1, <4>5
    <3>3. QED
      BY <1>0, <1>3, <3>1, <3>2 DEF Shaped
  <2>2. QED
    BY <2>1 DEF Shaped
<1>6. ASSUME NEW b \in Addresses, NEW i \in 1..Size(h[b]) PROVE h[b].own[i] # f
  BY <1>0, Followed DEF Place
(* The pointers are those there were, and the new one.                     *)
<1>7. ASSUME NEW b \in Addresses, NEW i \in 1..Size(g[b]), g[b].own[i] # NULL,
             ~(b = p /\ i = k), g[b].own[i] # WILD
      PROVE  b # f /\ i \in 1..Size(h[b]) /\ g[b].own[i] = h[b].own[i] /\ g[b].own[i] # f
  BY <1>3, <1>4, <1>6, <1>7 DEF Blank
<1>8. ASSUME NEW b \in Addresses
      PROVE  b # f => g[b].kind = h[b].kind /\ g[b].n = h[b].n /\ Size(g[b]) = Size(h[b])
  BY <1>3, <1>4
<1>9. Pointed(g)
  <2>1. ASSUME NEW b \in Addresses, NEW i \in 1..Size(g[b]) PROVE PointsWell(g, b, i)
    <3>1. CASE b = f
      BY <1>3, <3>1 DEF PointsWell, Blank
    <3>2. CASE b = p /\ i = k
      BY <1>1, <1>0, <1>3, <1>4, <3>2 DEF PointsWell, PointerOK
    <3>3. CASE b # f /\ ~(b = p /\ i = k)
      <4>1. i \in 1..Size(h[b]) /\ g[b].own[i] = h[b].own[i] /\ g[b].kind = h[b].kind /\ g[b].n = h[b].n
        BY <1>3, <1>4, <3>3
      <4>2. CASE h[b].own[i] \notin Blocks
        BY <1>0, <4>1, <4>2 DEF Pointed, PointsWell
      <4>3. CASE h[b].own[i] \in Blocks
        <5> DEFINE q == h[b].own[i]
        <5>1. q \in Addresses /\ q # f
          BY <1>6, <4>1, <4>3, Names
        <5>2. h[q].kind = Target(h[b].kind, i) /\ (h[q].kind = "array" => h[q].n = h[b].n)
          BY <1>0, <4>1, <4>3, Followed DEF Place
        <5>3. QED
          BY <1>1, <1>8, <4>1, <4>3, <5>1, <5>2 DEF PointsWell, PointerOK
      <4>4. QED
        BY <4>2, <4>3
    <3>4. QED
      BY <3>1, <3>2, <3>3
  <2>2. QED
    BY <2>1 DEF Pointed
<1>10. Unique(g)
  <2>1. ASSUME NEW b \in Addresses, NEW c \in Addresses,
               NEW i \in 1..Size(g[b]), NEW j \in 1..Size(g[c]),
               g[b].own[i] = g[c].own[j], g[b].own[i] \in Blocks
        PROVE  b = c /\ i = j
    <3>1. g[b].own[i] # NULL /\ g[b].own[i] # WILD
      BY <2>1, Names
    <3>2. CASE b = p /\ i = k
      BY <1>4, <1>7, <2>1, <3>1, <3>2
    <3>3. CASE c = p /\ j = k
      BY <1>4, <1>7, <2>1, <3>1, <3>3
    <3>4. CASE ~(b = p /\ i = k) /\ ~(c = p /\ j = k)
      BY <1>0, <1>7, <2>1, <3>1, <3>4 DEF Unique
    <3>5. QED
      BY <3>2, <3>3, <3>4
  <2>2. QED
    BY <2>1 DEF Unique
<1>11. Roots(g, R)
  <2>1. \A q \in R : q \in Blocks /\ h[q].kind # "free"
    BY <1>0 DEF Roots
  <2>2. \A q \in R : q # f /\ g[q].kind # "free"
    BY <1>8, <2>1, Names
  <2>3. ASSUME NEW b \in Addresses, NEW i \in 1..Size(g[b]), g[b].own[i] \in R PROVE FALSE
    <3>1. g[b].own[i] # NULL /\ g[b].own[i] # WILD /\ g[b].own[i] # f
      BY <2>1, <2>2, <2>3, Names
    <3>2. QED
      BY <1>0, <1>4, <1>7, <2>3, <3>1 DEF Roots
  <2>4. QED
    BY <2>1, <2>2, <2>3 DEF Roots
<1>12. Owned(g, R)
  <2>1. ASSUME NEW q \in Blocks, g[q].kind # "free", q \notin R
        PROVE  \E b \in Addresses : \E i \in 1..Size(g[b]) : g[b].own[i] = q
    <3>1. CASE q = f
      BY <1>0, <1>4, <3>1
    <3>2. CASE q # f
      <4>0. PICK b \in Addresses : \E i \in 1..Size(h[b]) : h[b].own[i] = q
        BY <1>0, <1>8, <2>1, <3>2, Names DEF Owned
      <4>1. PICK i \in 1..Size(h[b]) : h[b].own[i] = q
        BY <4>0
      <4>2. b # f /\ ~(b = p /\ i = k)
        BY <1>0, <2>1, <4>1 DEF Size
      <4>3. i \in 1..Size(g[b]) /\ g[b].own[i] = q
        BY <1>3, <1>4, <4>1, <4>2
      <4>4. QED
        BY <4>3
    <3>3. QED
      BY <3>1, <3>2
  <2>2. QED
    BY <2>1 DEF Owned
<1>13. QED
  BY <1>1, <1>5, <1>9, <1>10, <1>11, <1>12 DEF Sound
-----------------------------------------------------------------------------
(* An assignment of null: what was pointed to is somebody else's to release.*)
Detached(h, D) ==
  [b \in Addresses |->
     Cell(h[b].kind, h[b].says, h[b].n,
          [i \in 1..Size(h[b]) |-> IF <<b, i>> \in D THEN NULL ELSE h[b].own[i]])]

Handed(h, D) ==
  {q \in Blocks : \E b \in Addresses : \E i \in 1..Size(h[b]) : <<b, i>> \in D /\ h[b].own[i] = q}

(* Assigning null to some pointers changes neither what is where nor the   *)
(* other pointers.                                                         *)
LEMMA DetachedParts ==
  ASSUME NEW h, Shaped(h), NEW D, NEW b \in Addresses
  PROVE  LET g == Detached(h, D)
         IN /\ g[b].kind = h[b].kind /\ g[b].says = h[b].says /\ g[b].n = h[b].n
            /\ Size(g[b]) = Size(h[b])
            /\ g[b] = Cell(g[b].kind, g[b].says, g[b].n, g[b].own)
            /\ \A i \in 1..Size(h[b]) :
                 g[b].own[i] = IF <<b, i>> \in D THEN NULL ELSE h[b].own[i]
            /\ ShapeOK(g[b], Pointers) /\ g[b].kind \in KindAt(b)
<1> DEFINE g == Detached(h, D)
           own == [i \in 1..Size(h[b]) |-> IF <<b, i>> \in D THEN NULL ELSE h[b].own[i]]
<1>0. ShapeOK(h[b], Pointers) /\ h[b].kind \in KindAt(b)
  BY DEF Shaped
<1>1. g[b] = Cell(h[b].kind, h[b].says, h[b].n, own)
  BY DEF Detached
<1>2. g[b].kind = h[b].kind /\ g[b].says = h[b].says /\ g[b].n = h[b].n /\ g[b].own = own
  BY <1>1, CellParts
<1>3. Size(g[b]) = Size(h[b])
  BY <1>2 DEF Size
<1>4. own \in [1..Size(h[b]) -> Pointers]
  BY <1>0 DEF ShapeOK, Pointers
<1>5. h[b].kind = "value" => NULL \in {own[1], own[2]}
  BY <1>0 DEF ShapeOK, Size
<1>6. h[b].kind \in {"shell", "element"} /\ h[b].n = 0 => own[Hook(h[b])] = NULL
  <2>1. h[b].kind \in {"shell", "element"} => Hook(h[b]) \in 1..Size(h[b])
    BY DEF Hook, Size
  <2>2. h[b].kind \in {"shell", "element"} /\ h[b].n = 0 => h[b].own[Hook(h[b])] = NULL
    BY <1>0 DEF ShapeOK
  <2>3. QED
    BY <2>1, <2>2
<1>7. Hook(g[b]) = Hook(h[b])
  BY <1>2 DEF Hook
<1>8. ShapeOK(g[b], Pointers)
  BY <1>0, <1>1, <1>2, <1>3, <1>4, <1>5, <1>6, <1>7 DEF ShapeOK
<1>9. QED
  BY <1>0, <1>1, <1>2, <1>3, <1>8

(* When some pointers are set to null, memory stays sound if what they     *)
(* led to is owned by something else.                                      *)
LEMMA Detaching ==
  ASSUME NEW h, NEW R, Sound(h, R), NEW D
  PROVE  Sound(Detached(h, D), R \cup Handed(h, D))
<1> DEFINE g == Detached(h, D)
<1>0. Shaped(h) /\ Pointed(h) /\ Unique(h) /\ Roots(h, R) /\ Owned(h, R)
  BY DEF Sound
<1>1. DOMAIN g = Addresses
  BY DEF Detached
<1>2. \A b \in Addresses :
        /\ g[b].kind = h[b].kind /\ g[b].n = h[b].n /\ Size(g[b]) = Size(h[b])
        /\ ShapeOK(g[b], Pointers) /\ g[b].kind \in KindAt(b)
        /\ \A i \in 1..Size(h[b]) :
             g[b].own[i] = IF <<b, i>> \in D THEN NULL ELSE h[b].own[i]
  <2>1. ASSUME NEW b \in Addresses
        PROVE  /\ g[b].kind = h[b].kind /\ g[b].n = h[b].n /\ Size(g[b]) = Size(h[b])
               /\ ShapeOK(g[b], Pointers) /\ g[b].kind \in KindAt(b)
               /\ \A i \in 1..Size(h[b]) :
                    g[b].own[i] = IF <<b, i>> \in D THEN NULL ELSE h[b].own[i]
    BY <1>0, DetachedParts
  <2>2. QED
    BY <2>1
<1> HIDE DEF g
<1>3. Shaped(g)
  BY <1>2 DEF Shaped
<1>4. Pointed(g)
  <2>1. ASSUME NEW b \in Addresses, NEW i \in 1..Size(g[b]) PROVE PointsWell(g, b, i)
    <3>1. i \in 1..Size(h[b]) /\ (g[b].own[i] = NULL \/ g[b].own[i] = h[b].own[i])
      BY <1>2
    <3>2. PointsWell(h, b, i)
      BY <1>0, <3>1 DEF Pointed
    <3>3. QED
      BY <1>1, <1>2, <3>1, <3>2, Names DEF PointsWell, PointerOK
  <2>2. QED
    BY <2>1 DEF Pointed
<1>5. Unique(g)
  <2>1. ASSUME NEW b \in Addresses, NEW c \in Addresses,
               NEW i \in 1..Size(g[b]), NEW j \in 1..Size(g[c]),
               g[b].own[i] = g[c].own[j], g[b].own[i] \in Blocks
        PROVE  b = c /\ i = j
    <3>1. i \in 1..Size(h[b]) /\ j \in 1..Size(h[c])
      BY <1>2
    <3>2. g[b].own[i] = h[b].own[i] /\ g[c].own[j] = h[c].own[j]
      BY <1>2, <2>1, <3>1, Names
    <3>3. QED
      BY <1>0, <2>1, <3>1, <3>2 DEF Unique
  <2>2. QED
    BY <2>1 DEF Unique
<1>6. Roots(g, R \cup Handed(h, D))
  <2>1. ASSUME NEW q \in R \cup Handed(h, D) PROVE q \in Blocks /\ g[q].kind # "free"
    <3>1. CASE q \in R
      BY <1>0, <1>2, <3>1, Names DEF Roots
    <3>2. CASE q \in Handed(h, D)
      <4>1. PICK b \in Addresses : \E i \in 1..Size(h[b]) : <<b, i>> \in D /\ h[b].own[i] = q
        BY <3>2 DEF Handed
      <4>2. PICK i \in 1..Size(h[b]) : h[b].own[i] = q
        BY <4>1
      <4>3. q \in Blocks
        BY <3>2 DEF Handed
      <4>4. h[q].kind # "free"
        BY <1>0, <4>2, <4>3, Followed DEF Place
      <4>5. QED
        BY <1>2, <4>3, <4>4, Names
    <3>3. QED
      BY <3>1, <3>2
  <2>2. ASSUME NEW b \in Addresses, NEW i \in 1..Size(g[b]), g[b].own[i] \in R \cup Handed(h, D)
        PROVE  FALSE
    <3>1. i \in 1..Size(h[b]) /\ g[b].own[i] \in Blocks
      BY <1>2, <2>1, <2>2
    <3>2. <<b, i>> \notin D /\ g[b].own[i] = h[b].own[i]
      BY <1>2, <3>1, Names
    <3>3. g[b].own[i] \notin R
      BY <1>0, <3>1, <3>2 DEF Roots
    <3>4. PICK c \in Addresses : \E j \in 1..Size(h[c]) : <<c, j>> \in D /\ h[c].own[j] = g[b].own[i]
      BY <2>2, <3>3 DEF Handed
    <3>5. PICK j \in 1..Size(h[c]) : <<c, j>> \in D /\ h[c].own[j] = g[b].own[i]
      BY <3>4
    <3>6. b = c /\ i = j
      BY <1>0, <3>1, <3>2, <3>5 DEF Unique
    <3>7. QED
      BY <3>2, <3>5, <3>6
  <2>3. QED
    BY <2>1, <2>2 DEF Roots
<1>7. Owned(g, R \cup Handed(h, D))
  <2>1. ASSUME NEW q \in Blocks, g[q].kind # "free", q \notin R \cup Handed(h, D)
        PROVE  \E b \in Addresses : \E i \in 1..Size(g[b]) : g[b].own[i] = q
    <3>1. PICK b \in Addresses : \E i \in 1..Size(h[b]) : h[b].own[i] = q
      BY <1>0, <1>2, <2>1, Names DEF Owned
    <3>2. PICK i \in 1..Size(h[b]) : h[b].own[i] = q
      BY <3>1
    <3>3. <<b, i>> \notin D
      BY <2>1, <3>2 DEF Handed
    <3>4. QED
      BY <1>2, <3>2, <3>3
  <2>2. QED
    BY <2>1 DEF Owned
<1>8. QED
  BY <1>1, <1>3, <1>4, <1>5, <1>6, <1>7 DEF Sound, g

-----------------------------------------------------------------------------
(* free() of some blocks, and an assignment of null to what led to them.   *)
Emptied(h, F, p, k) ==
  [b \in Addresses |-> IF b \in F THEN Free
                       ELSE IF b = p THEN Pointing(h[p], k, NULL) ELSE h[b]]

(* What is at an address that is not allocated.                            *)
LEMMA FreeParts ==
  /\ Free.kind = "free" /\ Free.n = 0 /\ Size(Free) = 0
  /\ ShapeOK(Free, Pointers)
  BY DEF Free, Cell, All, Size, ShapeOK, Hook

(* free() of blocks that lead only to one another and that nothing else    *)
(* leads to but one pointer, which is set to null: memory stays sound.     *)
LEMMA Emptying ==
  ASSUME NEW h, NEW R, Sound(h, R), NEW F, NEW p, NEW k,
         \A b \in F : b \in Addresses => b \in Blocks,
         \A b \in F \cap Blocks : \A i \in 1..Size(h[b]) :
           h[b].own[i] \in Blocks => h[b].own[i] \in F,
         \A b \in Addresses \ F : \A i \in 1..Size(h[b]) :
           h[b].own[i] \in F /\ h[b].own[i] \in Blocks => b = p /\ i = k,
         p \in Addresses =>
           p \notin F /\ k \in 1..Size(h[p]) /\ (h[p].own[k] \in Blocks => h[p].own[k] \in F)
  PROVE  Sound(Emptied(h, F, p, k), R \ F)
<1> DEFINE g == Emptied(h, F, p, k)
<1>0. Shaped(h) /\ Pointed(h) /\ Unique(h) /\ Roots(h, R) /\ Owned(h, R)
  BY DEF Sound
<1>1. DOMAIN g = Addresses
  BY DEF Emptied
<1>2. ASSUME NEW b \in Addresses, b \in F
      PROVE  b \in Blocks /\ g[b].kind = "free" /\ Size(g[b]) = 0 /\ ShapeOK(g[b], Pointers)
  BY <1>2, FreeParts DEF Emptied
<1>3. ASSUME NEW b \in Addresses, b \notin F
      PROVE  /\ g[b].kind = h[b].kind /\ g[b].n = h[b].n /\ Size(g[b]) = Size(h[b])
             /\ ShapeOK(g[b], Pointers)
             /\ \A i \in 1..Size(h[b]) :
                  g[b].own[i] = IF b = p /\ i = k THEN NULL ELSE h[b].own[i]
  <2>1. ShapeOK(h[b], Pointers)
    BY <1>0 DEF Shaped
  <2>2. CASE b # p
    BY <1>3, <2>1, <2>2 DEF Emptied
  <2>3. CASE b = p
    <3>1. g[b] = Pointing(h[b], k, NULL) /\ k \in 1..Size(h[b])
      BY <1>3, <2>3 DEF Emptied
    <3>2. /\ g[b].kind = h[b].kind /\ g[b].says = h[b].says /\ g[b].n = h[b].n
          /\ Size(g[b]) = Size(h[b]) /\ g[b].own[k] = NULL
          /\ g[b] = Cell(g[b].kind, g[b].says, g[b].n, g[b].own)
          /\ \A i \in 1..Size(h[b]) : i # k => g[b].own[i] = h[b].own[i]
          /\ g[b].own \in [1..Size(h[b]) -> Pointers]
      <4>1. NULL \in Pointers
        BY DEF Pointers
      <4>2. QED
        BY <2>1, <3>1, <4>1, PointingParts
    <3>3. h[b].kind = "value" => NULL \in {g[b].own[1], g[b].own[2]}
      BY <2>1, <3>1, <3>2 DEF ShapeOK, Size
    <3>4. h[b].kind \in {"shell", "element"} /\ h[b].n = 0 => g[b].own[Hook(g[b])] = NULL
      <4>1. Hook(g[b]) = Hook(h[b]) /\ (h[b].kind \in {"shell", "element"} => Hook(h[b]) \in 1..Size(h[b]))
        BY <3>2 DEF Hook, Size
      <4>2. h[b].kind \in {"shell", "element"} /\ h[b].n = 0 => h[b].own[Hook(h[b])] = NULL
        BY <2>1 DEF ShapeOK
      <4>3. QED
        BY <3>2, <4>1, <4>2
    <3>5. ShapeOK(g[b], Pointers)
      BY <2>1, <3>2, <3>3, <3>4 DEF ShapeOK
    <3>6. QED
      BY <2>3, <3>2, <3>5
  <2>4. QED
    BY <2>2, <2>3
<1> HIDE DEF g
<1>4. Shaped(g)
  <2>1. ASSUME NEW b \in Addresses PROVE ShapeOK(g[b], Pointers) /\ g[b].kind \in KindAt(b)
    <3>1. CASE b \in F
      BY <1>2, <3>1 DEF KindAt
    <3>2. CASE b \notin F
      BY <1>0, <1>3, <3>2 DEF Shaped
    <3>3. QED
      BY <3>1, <3>2
  <2>2. QED
    BY <2>1 DEF Shaped
(* A pointer that is left is as it was, and does not lead to what is gone. *)
<1>5. ASSUME NEW b \in Addresses, NEW i \in 1..Size(g[b]), g[b].own[i] # NULL
      PROVE  /\ b \notin F /\ i \in 1..Size(h[b]) /\ g[b].own[i] = h[b].own[i]
             /\ (h[b].own[i] \in Blocks => h[b].own[i] \notin F)
  BY <1>2, <1>3, <1>5
<1>6. Pointed(g)
  <2>1. ASSUME NEW b \in Addresses, NEW i \in 1..Size(g[b]) PROVE PointsWell(g, b, i)
    <3>1. CASE g[b].own[i] = NULL
      BY <3>1 DEF PointsWell
    <3>2. CASE g[b].own[i] # NULL
      <4>1. /\ b \notin F /\ i \in 1..Size(h[b]) /\ g[b].own[i] = h[b].own[i]
            /\ (h[b].own[i] \in Blocks => h[b].own[i] \notin F)
        BY <1>5, <3>2
      <4>2. PointsWell(h, b, i) /\ g[b].kind = h[b].kind /\ g[b].n = h[b].n
        BY <1>0, <1>3, <4>1 DEF Pointed
      <4>3. h[b].own[i] \in Blocks => /\ g[h[b].own[i]].kind = h[h[b].own[i]].kind
                                       /\ g[h[b].own[i]].n = h[h[b].own[i]].n
        BY <1>3, <4>1, Names
      <4>4. QED
        BY <1>1, <4>1, <4>2, <4>3, Names DEF PointsWell, PointerOK
    <3>3. QED
      BY <3>1, <3>2
  <2>2. QED
    BY <2>1 DEF Pointed
<1>7. Unique(g)
  BY <1>0, <1>5, Names DEF Unique
<1>8. Roots(g, R \ F)
  <2>1. \A q \in R \ F : q \in Blocks /\ g[q].kind # "free"
    BY <1>0, <1>3, Names DEF Roots
  <2>2. ASSUME NEW b \in Addresses, NEW i \in 1..Size(g[b]), g[b].own[i] \in R \ F PROVE FALSE
    BY <1>0, <1>5, <2>1, <2>2, Names DEF Roots
  <2>3. QED
    BY <2>1, <2>2 DEF Roots
<1>9. Owned(g, R \ F)
  <2>1. ASSUME NEW q \in Blocks, g[q].kind # "free", q \notin R \ F
        PROVE  \E b \in Addresses : \E i \in 1..Size(g[b]) : g[b].own[i] = q
    <3>1. q \notin F /\ h[q].kind # "free" /\ q \notin R
      BY <1>2, <1>3, <2>1, Names
    <3>2. PICK b \in Addresses : \E i \in 1..Size(h[b]) : h[b].own[i] = q
      BY <1>0, <3>1 DEF Owned
    <3>3. PICK i \in 1..Size(h[b]) : h[b].own[i] = q
      BY <3>2
    <3>4. b \notin F /\ ~(b = p /\ i = k)
      BY <3>1, <3>3 DEF Addresses
    <3>5. QED
      BY <1>3, <3>3, <3>4
  <2>2. QED
    BY <2>1 DEF Owned
<1>10. QED
  BY <1>1, <1>4, <1>6, <1>7, <1>8, <1>9 DEF Sound, g
-----------------------------------------------------------------------------
(* A block whose address only the program has.                             *)
LEMMA NewRoot ==
  ASSUME NEW h, NEW R, Sound(h, R),
         NEW f \in Blocks, h[f].kind = "free",
         NEW cell, Blank(cell), cell.kind \in KindAt(f), cell.kind # "free",
         NEW g, DOMAIN g = Addresses, g[f] = cell,
         \A b \in Addresses : b # f => g[b] = h[b]
  PROVE  Sound(g, R \cup {f})
<1>0. Shaped(h) /\ Pointed(h) /\ Unique(h) /\ Roots(h, R) /\ Owned(h, R) /\ f \in Addresses
  BY Names DEF Sound
<1>1. Shaped(g)
  BY <1>0 DEF Shaped, Blank
<1>2. ASSUME NEW b \in Addresses, NEW i \in 1..Size(g[b]), g[b].own[i] \in Blocks
      PROVE  b # f /\ i \in 1..Size(h[b]) /\ g[b].own[i] = h[b].own[i] /\ h[b].own[i] # f
  <2>1. b # f /\ i \in 1..Size(h[b]) /\ g[b].own[i] = h[b].own[i]
    BY <1>2, Names DEF Blank
  <2>2. QED
    BY <1>0, <1>2, <2>1, Followed DEF Place
<1>3. Pointed(g)
  <2>1. ASSUME NEW b \in Addresses, NEW i \in 1..Size(g[b]) PROVE PointsWell(g, b, i)
    <3>1. CASE b = f
      BY <3>1 DEF PointsWell, Blank
    <3>2. CASE b # f /\ h[b].own[i] \notin Blocks
      BY <1>0, <3>2 DEF Pointed, PointsWell
    <3>3. CASE b # f /\ h[b].own[i] \in Blocks
      <4>1. i \in 1..Size(h[b]) /\ h[b].own[i] # f /\ h[b].own[i] \in Addresses
        BY <1>2, <3>3, Names
      <4>2. PointerOK(h, h[b], i)
        BY <1>0, <3>3, <4>1, Names DEF Pointed, PointsWell
      <4>3. QED
        BY <3>3, <4>1, <4>2 DEF PointsWell, PointerOK
    <3>4. QED
      BY <3>1, <3>2, <3>3
  <2>2. QED
    BY <2>1 DEF Pointed
<1>4. Unique(g)
  <2>1. ASSUME NEW b \in Addresses, NEW c \in Addresses,
               NEW i \in 1..Size(g[b]), NEW j \in 1..Size(g[c]),
               g[b].own[i] = g[c].own[j], g[b].own[i] \in Blocks
        PROVE  b = c /\ i = j
    <3>1. /\ i \in 1..Size(h[b]) /\ g[b].own[i] = h[b].own[i]
          /\ j \in 1..Size(h[c]) /\ g[c].own[j] = h[c].own[j]
      BY <1>2, <2>1
    <3>2. QED
      BY <1>0, <2>1, <3>1 DEF Unique
  <2>2. QED
    BY <2>1 DEF Unique
<1>5. Roots(g, R \cup {f})
  <2>1. \A q \in R \cup {f} : q \in Blocks /\ g[q].kind # "free"
    BY <1>0, Names DEF Roots
  <2>2. ASSUME NEW b \in Addresses, NEW i \in 1..Size(g[b]), g[b].own[i] \in R \cup {f} PROVE FALSE
    BY <1>0, <1>2, <2>1, <2>2 DEF Roots
  <2>3. QED
    BY <2>1, <2>2 DEF Roots
<1>6. Owned(g, R \cup {f})
  <2>1. ASSUME NEW q \in Blocks, g[q].kind # "free", q \notin R \cup {f}
        PROVE  \E b \in Addresses : \E i \in 1..Size(g[b]) : g[b].own[i] = q
    <3>1. PICK b \in Addresses : \E i \in 1..Size(h[b]) : h[b].own[i] = q
      BY <1>0, <2>1, Names DEF Owned
    <3>2. PICK i \in 1..Size(h[b]) : h[b].own[i] = q
      BY <3>1
    <3>3. b # f
      BY <3>2 DEF Size
    <3>4. QED
      BY <3>2, <3>3
  <2>2. QED
    BY <2>1 DEF Owned
<1>7. QED
  BY <1>1, <1>3, <1>4, <1>5, <1>6 DEF Sound

(* A count is assigned where there is no array.                            *)
LEMMA CountingParts ==
  ASSUME NEW c, NEW n
  PROVE  LET d == Counting(c, n)
         IN /\ d.kind = c.kind /\ d.says = c.says /\ d.n = n /\ d.own = c.own
            /\ d = Cell(d.kind, d.says, d.n, d.own)
  BY DEF Counting, Cell

(* Setting the count of an element that has no array: memory stays sound.  *)
LEMMA Recount ==
  ASSUME NEW h, NEW R, Sound(h, R),
         NEW p \in Addresses, h[p].kind = "element", h[p].own[3] = NULL, NEW n \in Nat,
         NEW g, DOMAIN g = Addresses, g[p] = Counting(h[p], n),
         \A b \in Addresses : b # p => g[b] = h[b]
  PROVE  Sound(g, R)
<1>0. /\ Shaped(h) /\ Pointed(h) /\ Unique(h) /\ Roots(h, R) /\ Owned(h, R)
      /\ ShapeOK(h[p], Pointers)
  BY DEF Sound, Shaped
<1>1. g[p].kind = "element" /\ g[p].own = h[p].own /\ g[p].n = n
      /\ g[p] = Cell(g[p].kind, g[p].says, g[p].n, g[p].own)
  BY CountingParts
<1>2. \A b \in Addresses : /\ g[b].kind = h[b].kind /\ g[b].own = h[b].own /\ Size(g[b]) = Size(h[b])
                            /\ (b # p => g[b].n = h[b].n)
  BY <1>1 DEF Size
<1>3. Shaped(g)
  <2>1. ShapeOK(g[p], Pointers)
    BY <1>0, <1>1, <1>2 DEF ShapeOK, Hook
  <2>2. QED
    BY <1>0, <1>2, <2>1 DEF Shaped
<1>4. Pointed(g)
  <2>1. ASSUME NEW b \in Addresses, NEW i \in 1..Size(g[b]) PROVE PointsWell(g, b, i)
    <3>1. i \in 1..Size(h[b]) /\ PointsWell(h, b, i)
      BY <1>0, <1>2 DEF Pointed
    <3>2. CASE g[b].own[i] \notin Blocks
      BY <1>2, <3>1, <3>2 DEF PointsWell
    <3>3. CASE g[b].own[i] \in Blocks
      <4>1. g[b].own[i] = h[b].own[i] /\ PointerOK(h, h[b], i)
        BY <1>2, <3>1, <3>3, Names DEF PointsWell
      <4>2. b = p => i # 3
        BY <3>3, <4>1, Names
      <4>3. h[b].own[i] \in Addresses /\ h[h[b].own[i]].kind = Target(h[b].kind, i)
        BY <4>1, <3>3, Names DEF PointerOK
      <4>4. b = p => h[h[b].own[i]].kind # "array"
        BY <1>0, <1>2, <3>1, <4>2, <4>3 DEF Target, Size
      <4>5. g[h[b].own[i]].kind = "array" => g[h[b].own[i]].n = g[b].n
        BY <1>2, <4>1, <4>3, <4>4 DEF PointerOK
      <4>6. QED
        BY <1>2, <3>3, <4>1, <4>3, <4>5 DEF PointsWell, PointerOK
    <3>4. QED
      BY <3>2, <3>3
  <2>2. QED
    BY <2>1 DEF Pointed
<1>5. Unique(g)
  BY <1>0, <1>2 DEF Unique
<1>6. Roots(g, R)
  BY <1>0, <1>2, Names DEF Roots
<1>7. Owned(g, R)
  BY <1>0, <1>2, Names DEF Owned
<1>8. QED
  BY <1>3, <1>4, <1>5, <1>6, <1>7 DEF Sound
-----------------------------------------------------------------------------
(* The element at el takes over the array of the handle in the variable t. *)
LEMMA VariableParts ==
  ASSUME NEW kind \in {"handle", "local"}
  PROVE  LET c == Variable(kind)
         IN /\ c.kind = kind /\ c.n = 0 /\ Size(c) = 1 /\ c.own[1] = NULL
            /\ ShapeOK(c, Pointers)
  BY DEF Variable, Cell, All, Size, ShapeOK, Pointers

(* dsvdc_property_add_property: an element takes over the array of a       *)
(* handle, which is freed: memory stays sound.                             *)
LEMMA Adopting ==
  ASSUME NEW h, NEW R, Sound(h, R),
         NEW t \in Variables, t # New, NEW shell \in Blocks, h[t].own[1] = shell,
         NEW el \in Blocks, h[el].kind = "element", h[el].own[3] = NULL,
         NEW g, DOMAIN g = Addresses, g[shell] = Free, g[t] = Variable("handle"),
         g[el] = Counting(Pointing(h[el], 3, h[shell].own[1]), h[shell].n),
         \A b \in Addresses \ {shell, t, el} : g[b] = h[b]
  PROVE  Sound(g, R \ {shell})
<1> DEFINE a == h[shell].own[1]
<1>0. /\ Shaped(h) /\ Pointed(h) /\ Unique(h) /\ Roots(h, R) /\ Owned(h, R)
      /\ t \in Addresses /\ shell \in Addresses /\ el \in Addresses
      /\ t \notin Blocks
      /\ ShapeOK(h[el], Pointers) /\ ShapeOK(h[shell], Pointers) /\ ShapeOK(h[t], Pointers)
  BY Names DEF Sound, Shaped
<1>1. h[t].kind = "handle" /\ Size(h[t]) = 1
  BY <1>0 DEF Shaped, KindAt, Size
<1>2. h[shell].kind = "shell" /\ Size(h[shell]) = 1 /\ Size(h[el]) = 3
  <2>1. h[shell].kind = Target("handle", 1)
    BY <1>0, <1>1, Followed DEF Place
  <2>2. QED
    BY <2>1 DEF Target, Size
<1>3. a \in Pointers /\ (a = NULL \/ a \in Blocks)
  BY <1>0, <1>2 DEF Pointed, PointsWell, Pointers
<1>4. /\ g[el].kind = "element" /\ g[el].n = h[shell].n /\ Size(g[el]) = 3
      /\ g[el].own[1] = h[el].own[1] /\ g[el].own[2] = h[el].own[2] /\ g[el].own[3] = a
      /\ ShapeOK(g[el], Pointers)
  <2> DEFINE c == Pointing(h[el], 3, a)
  <2>1. /\ c.kind = "element" /\ c.says = h[el].says /\ Size(c) = 3
        /\ c.own[1] = h[el].own[1] /\ c.own[2] = h[el].own[2] /\ c.own[3] = a
        /\ c.own \in [1..3 -> Pointers]
    <3>1. 3 \in 1..Size(h[el]) /\ a \in Pointers /\ Pointers \subseteq Pointers
      BY <1>2, <1>3
    <3>2. /\ c.kind = h[el].kind /\ c.says = h[el].says /\ Size(c) = Size(h[el]) /\ c.own[3] = a
          /\ \A i \in 1..Size(h[el]) : i # 3 => c.own[i] = h[el].own[i]
          /\ c.own \in [1..Size(h[el]) -> Pointers]
      BY <1>0, <3>1, PointingParts
    <3>3. QED
      BY <1>2, <3>2
  <2> HIDE DEF c
  <2>2. g[el].kind = "element" /\ g[el].n = h[shell].n /\ g[el].own = c.own
        /\ g[el] = Cell(g[el].kind, g[el].says, g[el].n, g[el].own)
    BY <2>1, CountingParts DEF c
  <2>3. h[shell].n \in Nat /\ (h[shell].n = 0 => a = NULL)
    BY <1>0, <1>2 DEF ShapeOK, Hook
  <2>4. Size(g[el]) = 3
    BY <2>2 DEF Size
  <2>5. ShapeOK(g[el], Pointers)
    BY <2>1, <2>2, <2>3, <2>4 DEF ShapeOK, Hook
  <2>6. QED
    BY <2>1, <2>2, <2>4, <2>5
<1>5. /\ g[shell].kind = "free" /\ Size(g[shell]) = 0 /\ ShapeOK(g[shell], Pointers)
      /\ g[t].kind = "handle" /\ Size(g[t]) = 1 /\ g[t].own[1] = NULL /\ ShapeOK(g[t], Pointers)
  BY FreeParts, VariableParts
<1>6. Shaped(g)
  <2>1. ASSUME NEW b \in Addresses PROVE ShapeOK(g[b], Pointers) /\ g[b].kind \in KindAt(b)
    BY <1>0, <1>1, <1>4, <1>5 DEF Shaped, KindAt
  <2>2. QED
    BY <2>1 DEF Shaped
(* Where a pointer that is left comes from.                                *)
<1>7. ASSUME NEW b \in Addresses, NEW i \in 1..Size(g[b]), g[b].own[i] # NULL
      PROVE  \/ b = el /\ i = 3 /\ g[b].own[i] = a
             \/ /\ b # shell /\ b # t /\ ~(b = el /\ i = 3)
                /\ i \in 1..Size(h[b]) /\ g[b].own[i] = h[b].own[i]
                /\ g[b].kind = h[b].kind /\ (b # el => g[b].n = h[b].n)
  <2>1. CASE b = el
    BY <1>2, <1>4, <2>1, <1>5
  <2>2. CASE b # el
    BY <1>5, <1>7, <2>2
  <2>3. QED
    BY <2>1, <2>2
<1>8. ASSUME NEW q \in Blocks, q # shell
      PROVE  g[q].kind = h[q].kind /\ Size(g[q]) = Size(h[q]) /\ (q # el => g[q].n = h[q].n)
  <2>1. q \in Addresses /\ q # t
    BY <1>0, Names
  <2>2. CASE q = el
    BY <1>2, <1>4, <2>2
  <2>3. CASE q # el
    BY <1>8, <2>1, <2>3
  <2>4. QED
    BY <2>2, <2>3
<1>9. ASSUME NEW b \in Addresses, NEW i \in 1..Size(h[b]), ~(b = t /\ i = 1)
      PROVE  h[b].own[i] # shell
  BY <1>0, <1>1, <1>9 DEF Unique
<1>10. Pointed(g)
  <2>1. ASSUME NEW b \in Addresses, NEW i \in 1..Size(g[b]) PROVE PointsWell(g, b, i)
    <3>1. CASE g[b].own[i] = NULL
      BY <3>1 DEF PointsWell
    <3>2. CASE b = el /\ i = 3 /\ g[b].own[i] = a /\ a # NULL
      <4>1. h[a].kind = "array" /\ h[a].n = h[shell].n
        <5>1. h[a].kind = Target("shell", 1) /\ (h[a].kind = "array" => h[a].n = h[shell].n)
          BY <1>0, <1>2, <1>3, <3>2, Followed DEF Place
        <5>2. QED
          BY <5>1 DEF Target
      <4>2. a # shell /\ a # el
        BY <1>2, <4>1
      <4>3. g[a].kind = "array" /\ g[a].n = g[el].n
        BY <1>3, <1>4, <1>8, <3>2, <4>1, <4>2
      <4>4. QED
        BY <1>0, <1>3, <1>4, <3>2, <4>3, Names DEF PointsWell, PointerOK, Target
    <3>3. CASE /\ b # shell /\ b # t /\ ~(b = el /\ i = 3)
               /\ i \in 1..Size(h[b]) /\ g[b].own[i] = h[b].own[i]
               /\ g[b].kind = h[b].kind /\ (b # el => g[b].n = h[b].n)
      <4>1. PointsWell(h, b, i) /\ h[b].own[i] # shell
        BY <1>0, <1>9, <3>3 DEF Pointed
      <4>2. CASE h[b].own[i] \notin Blocks
        BY <3>3, <4>1, <4>2 DEF PointsWell
      <4>3. CASE h[b].own[i] \in Blocks
        <5> DEFINE q == h[b].own[i]
        <5>1. PointerOK(h, h[b], i) /\ q \in Addresses /\ h[q].kind = Target(h[b].kind, i)
          BY <4>1, <4>3, Names DEF PointsWell, PointerOK
        <5>2. g[q].kind = h[q].kind /\ (q # el => g[q].n = h[q].n)
          BY <1>8, <4>1, <4>3
        <5>3. b = el => h[q].kind # "array"
          BY <1>2, <3>3, <5>1 DEF Target
        <5>4. g[q].kind = "array" => g[q].n = g[b].n
          BY <3>3, <5>1, <5>2, <5>3 DEF PointerOK
        <5>5. QED
          BY <3>3, <4>3, <5>1, <5>2, <5>4 DEF PointsWell, PointerOK
      <4>4. QED
        BY <4>2, <4>3
    <3>4. QED
      BY <1>7, <3>1, <3>2, <3>3
  <2>2. QED
    BY <2>1 DEF Pointed
<1>11. ASSUME NEW b \in Addresses, NEW i \in 1..Size(h[b]), a \in Blocks, h[b].own[i] = a
       PROVE  b = shell
  BY <1>0, <1>2, <1>11 DEF Unique
<1>12. Unique(g)
  <2>1. ASSUME NEW b \in Addresses, NEW c \in Addresses,
               NEW i \in 1..Size(g[b]), NEW j \in 1..Size(g[c]),
               g[b].own[i] = g[c].own[j], g[b].own[i] \in Blocks
        PROVE  b = c /\ i = j
    <3>1. g[b].own[i] # NULL /\ g[c].own[j] # NULL
      BY <2>1, Names
    <3>2. CASE (b = el /\ i = 3) \/ (c = el /\ j = 3)
      BY <1>4, <1>7, <1>11, <2>1, <3>1, <3>2
    <3>3. CASE ~(b = el /\ i = 3) /\ ~(c = el /\ j = 3)
      <4>1. /\ i \in 1..Size(h[b]) /\ g[b].own[i] = h[b].own[i]
            /\ j \in 1..Size(h[c]) /\ g[c].own[j] = h[c].own[j]
        BY <1>7, <3>1, <3>3
      <4>2. h[b].own[i] = h[c].own[j] /\ h[b].own[i] \in Blocks
        BY <2>1, <4>1
      <4>3. QED
        BY <1>0, <4>1, <4>2 DEF Unique
    <3>4. QED
      BY <3>2, <3>3
  <2>2. QED
    BY <2>1 DEF Unique
<1>13. Roots(g, R \ {shell})
  <2>1. ASSUME NEW q \in R \ {shell} PROVE q \in Blocks /\ g[q].kind # "free"
    <3>1. q \in Blocks /\ h[q].kind # "free"
      BY <1>0 DEF Roots
    <3>2. QED
      BY <1>8, <2>1, <3>1
  <2>2. ASSUME NEW b \in Addresses, NEW i \in 1..Size(g[b]), g[b].own[i] \in R \ {shell} PROVE FALSE
    <3>1. g[b].own[i] # NULL
      BY <2>1, <2>2, Names
    <3>2. a \notin R
      BY <1>0, <1>2 DEF Roots
    <3>3. QED
      BY <1>0, <1>7, <2>2, <3>1, <3>2 DEF Roots
  <2>3. QED
    BY <2>1, <2>2 DEF Roots
<1>14. Owned(g, R \ {shell})
  <2>1. ASSUME NEW q \in Blocks, g[q].kind # "free", q \notin R \ {shell}
        PROVE  \E b \in Addresses : \E i \in 1..Size(g[b]) : g[b].own[i] = q
    <3>1. q # shell /\ h[q].kind # "free" /\ q \notin R
      BY <1>5, <1>8, <2>1
    <3>2. PICK b \in Addresses : \E i \in 1..Size(h[b]) : h[b].own[i] = q
      BY <1>0, <3>1 DEF Owned
    <3>3. PICK i \in 1..Size(h[b]) : h[b].own[i] = q
      BY <3>2
    <3>4. CASE b = shell
      BY <1>0, <1>2, <1>4, <3>3, <3>4
    <3>5. CASE b # shell
      <4>1. b # t
        BY <1>1, <3>1, <3>3
      <4>2. CASE b = el
        BY <1>2, <1>4, <3>3, <4>2, Names
      <4>3. CASE b # el
        BY <3>3, <3>5, <4>1, <4>3
      <4>4. QED
        BY <4>2, <4>3
    <3>6. QED
      BY <3>4, <3>5
  <2>2. QED
    BY <2>1 DEF Owned
<1>15. QED
  BY <1>6, <1>10, <1>12, <1>13, <1>14 DEF Sound
-----------------------------------------------------------------------------
(* The array behind p moves to f and gets the element that was built.      *)
LEMMA Growing ==
  ASSUME NEW h, NEW R, Sound(h, R),
         NEW p \in Blocks, h[p].kind = "shell",
         NEW f \in Blocks, h[f].kind = "free",
         NEW n, n = h[p].n, NEW a, a = h[p].own[1], NEW el \in Blocks, el = h[New].own[1],
         NEW residue \in {NULL, WILD}, NEW g, DOMAIN g = Addresses,
         g[f] = Cell("array", NULL, n + 1,
                     [i \in 1..(n + 1) |->
                        IF i > n THEN el ELSE IF a = NULL THEN residue ELSE h[a].own[i]]),
         g[p] = Counting(Pointing(h[p], 1, f), n + 1),
         a \in Blocks => g[a] = Free,
         g[New] = Variable("local"),
         \A b \in Addresses \ {f, p, a, New} : g[b] = h[b]
  PROVE  Sound(g, R \ {a})
<1>0. /\ Shaped(h) /\ Pointed(h) /\ Unique(h) /\ Roots(h, R) /\ Owned(h, R)
      /\ New \in Addresses /\ p \in Addresses /\ f \in Addresses /\ New \notin Blocks
      /\ ShapeOK(h[p], Pointers) /\ ShapeOK(h[New], Pointers)
  BY Names DEF Sound, Shaped, Variables
<1>01. /\ n \in Nat /\ n + 1 \in Nat /\ n + 1 > 0 /\ n + 1 \in 1..(n + 1) /\ 1..n \subseteq 1..(n + 1)
       /\ \A i \in 1..(n + 1) : (i # n + 1 => i \in 1..n) /\ (i > n <=> i = n + 1)
  <2>1. n \in Nat
    BY <1>0 DEF ShapeOK
  <2>2. QED
    BY <2>1
<1>1. n \in Nat /\ Size(h[p]) = 1 /\ h[New].kind = "local" /\ Size(h[New]) = 1 /\ p # f
  BY <1>0 DEF ShapeOK, Size, Shaped, KindAt
<1>2. a = NULL \/ (a \in Blocks /\ h[a].kind = "array" /\ h[a].n = n /\ Size(h[a]) = n)
  <2>1. PointsWell(h, p, 1)
    BY <1>0, <1>1 DEF Pointed
  <2>2. CASE a \in Blocks
    <3>1. h[a].kind = Target("shell", 1) /\ (h[a].kind = "array" => h[a].n = n)
      BY <1>0, <1>1, <2>2, Followed DEF Place
    <3>2. QED
      BY <2>2, <3>1 DEF Target, Size
  <2>3. QED
    BY <2>1, <2>2 DEF PointsWell
<1>3. h[el].kind = "element" /\ el # f /\ el # p /\ el # a /\ a # f /\ a # p
  <2>1. h[el].kind = Target("local", 1)
    BY <1>0, <1>1, Followed DEF Place
  <2>2. h[el].kind = "element"
    BY <2>1 DEF Target
  <2>3. QED
    BY <1>2, <2>2, Names
<1>4. /\ g[f].kind = "array" /\ g[f].n = n + 1 /\ Size(g[f]) = n + 1
      /\ \A i \in 1..n : g[f].own[i] = IF a = NULL THEN residue ELSE h[a].own[i]
      /\ g[f].own[n + 1] = el
      /\ ShapeOK(g[f], Pointers)
  <2> DEFINE L == [i \in 1..(n + 1) |->
                     IF i > n THEN el ELSE IF a = NULL THEN residue ELSE h[a].own[i]]
  <2>1. /\ g[f].kind = "array" /\ g[f].n = n + 1 /\ g[f].own = L
        /\ g[f] = Cell(g[f].kind, g[f].says, g[f].n, g[f].own)
    BY DEF Cell
  <2>2. ASSUME NEW i \in 1..(n + 1)
        PROVE  (IF i > n THEN el ELSE IF a = NULL THEN residue ELSE h[a].own[i]) \in Pointers
    <3>1. CASE i > n \/ a = NULL
      BY <3>1 DEF Pointers
    <3>2. CASE ~(i > n) /\ a # NULL
      <4>1. ShapeOK(h[a], Pointers) /\ i \in 1..Size(h[a])
        BY <1>0, <1>1, <1>2, <3>2, Names DEF Shaped
      <4>2. QED
        BY <3>2, <4>1 DEF ShapeOK
    <3>3. QED
      BY <3>1, <3>2
  <2>3. L \in [1..(n + 1) -> Pointers]
    BY <2>2
  <2>4. Size(g[f]) = n + 1
    BY <2>1 DEF Size
  <2>5. ShapeOK(g[f], Pointers)
    <3>1. g[f].own \in [1..Size(g[f]) -> Pointers]
      BY <2>1, <2>3, <2>4
    <3>2. QED
      BY <1>01, <2>1, <3>1 DEF ShapeOK
  <2>6. \A i \in 1..n : L[i] = IF a = NULL THEN residue ELSE h[a].own[i]
    BY <1>01
  <2>7. L[n + 1] = el
    BY <1>01
  <2> HIDE DEF L
  <2>8. QED
    BY <2>1, <2>4, <2>5, <2>6, <2>7
<1>5. /\ g[p].kind = "shell" /\ g[p].n = n + 1 /\ Size(g[p]) = 1 /\ g[p].own[1] = f
      /\ ShapeOK(g[p], Pointers)
  <2> DEFINE c == Pointing(h[p], 1, f)
  <2>1. c.kind = "shell" /\ c.own[1] = f /\ c.own \in [1..1 -> Pointers]
    <3>1. 1 \in 1..Size(h[p]) /\ f \in Pointers
      BY <1>1 DEF Pointers
    <3>2. c.kind = h[p].kind /\ c.own[1] = f /\ c.own \in [1..Size(h[p]) -> Pointers]
      BY <1>0, <3>1, PointingParts
    <3>3. QED
      BY <1>1, <3>2
  <2> HIDE DEF c
  <2>2. g[p].kind = "shell" /\ g[p].n = n + 1 /\ g[p].own = c.own
        /\ g[p] = Cell(g[p].kind, g[p].says, g[p].n, g[p].own)
    BY <2>1, CountingParts DEF c
  <2>3. Size(g[p]) = 1
    BY <2>2 DEF Size
  <2>4. ShapeOK(g[p], Pointers)
    <3>1. g[p].own \in [1..Size(g[p]) -> Pointers]
      BY <2>1, <2>2, <2>3
    <3>2. g[p].n \in Nat /\ g[p].n # 0
      BY <1>01, <2>2
    <3>3. QED
      BY <2>2, <3>1, <3>2 DEF ShapeOK
  <2>5. QED
    BY <2>1, <2>2, <2>3, <2>4
<1>6. /\ a \in Blocks => g[a].kind = "free" /\ Size(g[a]) = 0 /\ ShapeOK(g[a], Pointers)
      /\ g[New].kind = "local" /\ Size(g[New]) = 1 /\ g[New].own[1] = NULL /\ ShapeOK(g[New], Pointers)
  BY FreeParts, VariableParts
<1> DEFINE Other(b) == b \in Addresses /\ b # f /\ b # p /\ b # a /\ b # New
<1>7. Shaped(g)
  <2>1. ASSUME NEW b \in Addresses PROVE ShapeOK(g[b], Pointers) /\ g[b].kind \in KindAt(b)
    <3>1. CASE Other(b)
      BY <1>0, <3>1 DEF Shaped
    <3>2. CASE b = f
      BY <1>4, <3>2 DEF KindAt
    <3>3. CASE b = p
      BY <1>5, <3>3 DEF KindAt
    <3>4. CASE b = a
      BY <1>2, <1>6, <3>4, Names DEF KindAt
    <3>5. CASE b = New
      BY <1>0, <1>6, <3>5 DEF KindAt
    <3>6. QED
      BY <3>1, <3>2, <3>3, <3>4, <3>5
  <2>2. QED
    BY <2>1 DEF Shaped
(* Where a pointer comes from.                                             *)
<1>8. ASSUME NEW b \in Addresses, NEW i \in 1..Size(g[b]), g[b].own[i] \in Blocks
      PROVE  \/ b = p /\ i = 1 /\ g[b].own[i] = f
             \/ b = f /\ i = n + 1 /\ g[b].own[i] = el
             \/ /\ b = f /\ i \in 1..n /\ a \in Blocks /\ i \in 1..Size(h[a])
                /\ g[b].own[i] = h[a].own[i]
             \/ Other(b) /\ i \in 1..Size(h[b]) /\ g[b].own[i] = h[b].own[i] /\ g[b] = h[b]
  <2>1. CASE b = f
    <3>1. CASE i = n + 1
      BY <1>4, <2>1, <3>1
    <3>2. CASE i # n + 1
      <4>1. i \in 1..n /\ g[b].own[i] = IF a = NULL THEN residue ELSE h[a].own[i]
        <5>1. Size(g[f]) = n + 1
          BY <1>4
        <5>2. i \in 1..n
          BY <1>01, <2>1, <3>2, <5>1
        <5>3. QED
          BY <1>4, <2>1, <5>2
      <4>2. a # NULL
        BY <1>8, <4>1, Names
      <4>3. QED
        BY <1>2, <2>1, <4>1, <4>2
    <3>3. QED
      BY <3>1, <3>2
  <2>2. CASE b = p
    BY <1>5, <2>2
  <2>3. CASE b = a
    BY <1>2, <1>6, <2>3, Names
  <2>4. CASE b = New
    BY <1>6, <1>8, <2>4, Names
  <2>5. CASE Other(b)
    BY <2>5
  <2>6. QED
    BY <2>1, <2>2, <2>3, <2>4, <2>5
<1>9. ASSUME NEW b \in Addresses, NEW i \in 1..Size(h[b])
      PROVE  /\ h[b].own[i] # f
             /\ (a \in Blocks /\ h[b].own[i] = a => b = p)
             /\ (h[b].own[i] = el => b = New)
  <2>1. h[b].own[i] # f
    BY <1>0, Followed DEF Place
  <2>2. QED
    BY <1>0, <1>1, <2>1 DEF Unique
<1>10. ASSUME NEW q \in Blocks, q # f, q # a
       PROVE  g[q].kind = h[q].kind /\ (q # p => g[q].n = h[q].n)
  <2>1. q \in Addresses /\ q # New
    BY <1>0, Names
  <2>2. CASE q = p
    BY <1>5, <2>2
  <2>3. CASE q # p
    BY <1>10, <2>1, <2>3
  <2>4. QED
    BY <2>2, <2>3
<1>11. Pointed(g)
  <2>1. ASSUME NEW b \in Addresses, NEW i \in 1..Size(g[b]) PROVE PointsWell(g, b, i)
    <3>1. CASE g[b].own[i] \notin Blocks
      <4>1. CASE b = f
        <5>1. i # n + 1
          BY <1>4, <3>1, <4>1
        <5>2. i \in 1..n /\ g[b].own[i] = IF a = NULL THEN residue ELSE h[a].own[i]
          <6>1. Size(g[f]) = n + 1
            BY <1>4
          <6>2. i \in 1..n
            BY <1>01, <4>1, <5>1, <6>1
          <6>3. QED
            BY <1>4, <4>1, <6>2
        <5>3. CASE a = NULL
          BY <1>4, <4>1, <5>2, <5>3 DEF PointsWell
        <5>4. CASE a # NULL
          <6>1. a \in Addresses /\ i \in 1..Size(h[a])
            BY <1>2, <5>2, <5>4, Names
          <6>2. PointsWell(h, a, i)
            BY <1>0, <6>1 DEF Pointed
          <6>3. QED
            BY <1>4, <3>1, <4>1, <5>2, <5>4, <6>2 DEF PointsWell
        <5>5. QED
          BY <5>3, <5>4
      <4>2. CASE b # f /\ b # a
        <5>1. b # p
          BY <1>5, <3>1
        <5>2. CASE b = New
          BY <1>6, <5>2 DEF PointsWell
        <5>3. CASE b # New
          BY <1>0, <3>1, <4>2, <5>1, <5>3 DEF Pointed, PointsWell
        <5>4. QED
          BY <5>2, <5>3
      <4>3. CASE b = a
        BY <1>2, <1>6, <4>3, Names
      <4>4. QED
        BY <4>1, <4>2, <4>3
    <3>2. CASE g[b].own[i] \in Blocks
      <4>1. CASE b = p /\ i = 1 /\ g[b].own[i] = f
        BY <1>0, <1>4, <1>5, <4>1 DEF PointsWell, PointerOK, Target
      <4>2. CASE b = f /\ i = n + 1 /\ g[b].own[i] = el
        <5>1. g[el].kind = "element" /\ el \in DOMAIN g
          BY <1>3, <1>10, Names
        <5>2. QED
          BY <1>4, <4>2, <5>1 DEF PointsWell, PointerOK, Target
      <4>3. CASE b = f /\ i \in 1..n /\ a \in Blocks /\ i \in 1..Size(h[a]) /\ g[b].own[i] = h[a].own[i]
        <5> DEFINE q == h[a].own[i]
        <5>1. a \in Addresses /\ q \in Blocks
          BY <3>2, <4>3, Names
        <5>2. h[q].kind = Target("array", i) /\ q # f /\ q # a
          <6>0. Place(h, a, i) /\ h[a].own[i] \in Blocks
            BY <4>3, <5>1 DEF Place
          <6> HIDE DEF q
          <6>1. h[h[a].own[i]].kind = Target(h[a].kind, i)
            <7>1. Shaped(h) /\ Pointed(h)
              BY <1>0
            <7>2. QED
              BY <6>0, <7>1, Followed
          <6>2. h[a].kind = "array"
            BY <1>2, <4>3, Names
          <6>3. q # f /\ q # a
            BY <1>3, <1>9, <4>3, <5>1 DEF q
          <6>4. QED
            BY <6>1, <6>2, <6>3 DEF q
        <5>3. g[q].kind = "element" /\ q \in DOMAIN g
          BY <1>10, <5>1, <5>2, Names DEF Target
        <5>4. QED
          BY <1>4, <3>2, <4>3, <5>1, <5>3 DEF PointsWell, PointerOK, Target
      <4>4. CASE Other(b) /\ i \in 1..Size(h[b]) /\ g[b].own[i] = h[b].own[i] /\ g[b] = h[b]
        <5> DEFINE q == h[b].own[i]
        <5>1. q \in Blocks /\ q \in Addresses /\ q # f /\ q # a
          BY <1>9, <3>2, <4>4, Names
        <5>2. PointerOK(h, h[b], i)
          BY <1>0, <4>4, <5>1, Names DEF Pointed, PointsWell
        <5>3. h[q].kind = "array" => q # p
          OBVIOUS
        <5>4. g[q].kind = h[q].kind /\ (g[q].kind = "array" => g[q].n = h[q].n)
          BY <1>10, <5>1, <5>3
        <5>5. QED
          BY <4>4, <5>1, <5>2, <5>4 DEF PointsWell, PointerOK
      <4>5. QED
        BY <1>8, <3>2, <4>1, <4>2, <4>3, <4>4
    <3>3. QED
      BY <3>1, <3>2
  <2>2. QED
    BY <2>1 DEF Pointed
<1>12. Unique(g)
  <2>1. ASSUME NEW b \in Addresses, NEW c \in Addresses,
               NEW i \in 1..Size(g[b]), NEW j \in 1..Size(g[c]),
               g[b].own[i] = g[c].own[j], g[b].own[i] \in Blocks
        PROVE  b = c /\ i = j
    <3> DEFINE Moved_(x, k) == x = f /\ k \in 1..n /\ a \in Blocks /\ k \in 1..Size(h[a])
                               /\ g[x].own[k] = h[a].own[k]
               Kept_(x, k) == Other(x) /\ k \in 1..Size(h[x]) /\ g[x].own[k] = h[x].own[k]
    <3>1. \/ b = p /\ i = 1 /\ g[b].own[i] = f
          \/ b = f /\ i = n + 1 /\ g[b].own[i] = el
          \/ Moved_(b, i) \/ Kept_(b, i)
      BY <1>8, <2>1
    <3>2. \/ c = p /\ j = 1 /\ g[c].own[j] = f
          \/ c = f /\ j = n + 1 /\ g[c].own[j] = el
          \/ Moved_(c, j) \/ Kept_(c, j)
      BY <1>8, <2>1
    <3>3. a \in Blocks => a \in Addresses /\ a # New
      BY <1>0, Names
    <3>4. ASSUME NEW x \in Addresses, NEW k, Moved_(x, k) \/ Kept_(x, k)
          PROVE  g[x].own[k] # f /\ g[x].own[k] # el
      BY <1>9, <3>3, <3>4
    <3> DEFINE Same_(x, k, y, m) ==
                 /\ x \in Addresses /\ y \in Addresses /\ k \in 1..Size(h[x]) /\ m \in 1..Size(h[y])
                 /\ h[x].own[k] = h[y].own[m] /\ h[x].own[k] \in Blocks
    <3>0. \A x, k, y, m : Same_(x, k, y, m) => x = y /\ k = m
      BY <1>0 DEF Unique
    <3>5. CASE Moved_(b, i) /\ Moved_(c, j)
      <4>1. Same_(a, i, a, j)
        BY <2>1, <3>3, <3>5
      <4> HIDE DEF Same_
      <4>2. QED
        BY <3>0, <3>5, <4>1
    <3>6. CASE Moved_(b, i) /\ Kept_(c, j)
      <4>1. Same_(a, i, c, j)
        BY <2>1, <3>3, <3>6
      <4> HIDE DEF Same_
      <4>2. QED
        BY <3>0, <3>6, <4>1
    <3>7. CASE Kept_(b, i) /\ Moved_(c, j)
      <4>1. Same_(b, i, a, j)
        BY <2>1, <3>3, <3>7
      <4> HIDE DEF Same_
      <4>2. QED
        BY <3>0, <3>7, <4>1
    <3>8. CASE Kept_(b, i) /\ Kept_(c, j)
      <4>1. Same_(b, i, c, j)
        BY <2>1, <3>8
      <4> HIDE DEF Same_
      <4>2. QED
        BY <3>0, <3>8, <4>1
    <3> HIDE DEF Moved_, Kept_
    <3>9. QED
      BY <1>3, <2>1, <3>1, <3>2, <3>4, <3>5, <3>6, <3>7, <3>8
  <2>2. QED
    BY <2>1 DEF Unique
<1>13. el \notin R /\ a \notin R
  BY <1>0, <1>1 DEF Roots
<1>14. Roots(g, R \ {a})
  <2>1. ASSUME NEW q \in R \ {a} PROVE q \in Blocks /\ q # f /\ g[q].kind # "free"
    <3>1. q \in Blocks /\ h[q].kind # "free"
      BY <1>0 DEF Roots
    <3>2. QED
      BY <1>10, <2>1, <3>1
  <2>2. ASSUME NEW b \in Addresses, NEW i \in 1..Size(g[b]), g[b].own[i] \in R \ {a} PROVE FALSE
    <3>1. g[b].own[i] \in Blocks /\ g[b].own[i] # f
      BY <2>1, <2>2
    <3>2. CASE b = f /\ a \in Blocks /\ i \in 1..Size(h[a]) /\ g[b].own[i] = h[a].own[i]
      BY <1>0, <2>2, <3>2, Names DEF Roots
    <3>3. CASE Other(b) /\ i \in 1..Size(h[b]) /\ g[b].own[i] = h[b].own[i]
      BY <1>0, <2>2, <3>3 DEF Roots
    <3>4. QED
      BY <1>8, <1>13, <2>2, <3>1, <3>2, <3>3
  <2>3. QED
    BY <2>1, <2>2 DEF Roots
<1>15. Owned(g, R \ {a})
  <2>1. ASSUME NEW q \in Blocks, g[q].kind # "free", q \notin R \ {a}
        PROVE  \E b \in Addresses : \E i \in 1..Size(g[b]) : g[b].own[i] = q
    <3>1. q # a
      BY <1>6, <2>1
    <3>2. CASE q = f
      BY <1>0, <1>5, <3>2
    <3>3. CASE q # f
      <4>1. h[q].kind # "free" /\ q \notin R
        BY <1>10, <2>1, <3>1, <3>3
      <4>2. PICK b \in Addresses : \E i \in 1..Size(h[b]) : h[b].own[i] = q
        BY <1>0, <4>1 DEF Owned
      <4>3. PICK i \in 1..Size(h[b]) : h[b].own[i] = q
        BY <4>2
      <4>4. CASE b = p
        BY <1>1, <3>1, <4>3, <4>4
      <4>5. CASE b = New
        <5>1. q = el
          BY <1>1, <4>3, <4>5
        <5>2. n + 1 \in 1..Size(g[f]) /\ g[f].own[n + 1] = q
          <6>1. Size(g[f]) = n + 1 /\ g[f].own[n + 1] = el
            BY <1>4
          <6>2. QED
            BY <1>01, <5>1, <6>1
        <5>3. QED
          BY <1>0, <5>2
      <4>6. CASE b = a
        <5>1. a # NULL /\ i \in 1..n /\ i \in 1..Size(g[f])
          <6>1. Size(g[f]) = n + 1
            BY <1>4
          <6>2. a # NULL /\ Size(h[a]) = n
            BY <1>2, <4>6, Names
          <6>3. QED
            BY <1>01, <4>3, <4>6, <6>1, <6>2
        <5>2. g[f].own[i] = q
          BY <1>4, <4>3, <4>6, <5>1
        <5>3. QED
          BY <1>0, <5>1, <5>2
      <4>7. CASE b = f
        BY <4>3, <4>7 DEF Size
      <4>8. CASE Other(b)
        BY <4>3, <4>8
      <4>9. QED
        BY <4>4, <4>5, <4>6, <4>7, <4>8
    <3>4. QED
      BY <3>2, <3>3
  <2>2. QED
    BY <2>1 DEF Owned
<1>16. QED
  BY <1>7, <1>11, <1>12, <1>14, <1>15 DEF Sound
-----------------------------------------------------------------------------
(* A tree arrives behind all that is in use, and v leads to it.            *)
LEMMA MovedParts ==
  ASSUME NEW c, NEW P, ShapeOK(c, P), NEW base
  PROVE  LET d == Moved(c, base)
         IN /\ d.kind = c.kind /\ d.says = c.says /\ d.n = c.n /\ Size(d) = Size(c)
            /\ d = Cell(d.kind, d.says, d.n, d.own)
            /\ d.own = [i \in 1..Size(c) |-> IF c.own[i] = NULL THEN NULL ELSE base + c.own[i]]
  BY DEF ShapeOK, Size, Moved, Cell

(* A tree that is unpacked above all that is in use, and assigned to a     *)
(* variable: memory stays sound.                                           *)
LEMMA Placing ==
  ASSUME NEW h, NEW R, Sound(h, R),
         NEW v \in Variables, v # New, h[v].own[1] = NULL,
         NEW t, IsTree(t), NEW base \in Nat, base + Len(t) <= MaxBlocks,
         \A b \in Blocks : b > base => h[b].kind = "free",
         NEW g, DOMAIN g = Addresses, g[v] = Pointing(h[v], 1, base + 1),
         \A b \in (base + 1)..(base + Len(t)) : g[b] = Moved(t[b - base], base),
         \A b \in Addresses : b # v /\ b \notin (base + 1)..(base + Len(t)) => g[b] = h[b]
  PROVE  Sound(g, R)
<1> DEFINE T == DOMAIN t
           Put == (base + 1)..(base + Len(t))
<1>0. /\ Shaped(h) /\ Pointed(h) /\ Unique(h) /\ Roots(h, R) /\ Owned(h, R)
      /\ v \in Addresses /\ v \notin Blocks /\ ShapeOK(h[v], Pointers)
  BY Names DEF Sound, Shaped
<1>1. MaxBlocks \in Nat /\ Blocks \subseteq Nat
  BY PropertiesAssumption DEF Blocks
<1>2. T = 1..Len(t) /\ Len(t) \in Nat /\ 1 \in T /\ t[1].kind = "shell"
  BY DEF IsTree
(* Addresses in the message and in memory.                                 *)
<1>3. /\ \A c \in T : c \in Nat /\ base + c \in Put /\ (base + c) - base = c
      /\ \A b \in Put : b \in Nat /\ b - base \in T /\ base + (b - base) = b /\ b > base
      /\ Put \subseteq Blocks /\ T \subseteq Blocks
      /\ \A c, d \in T : base + c = base + d => c = d
      /\ base + 1 \in Put
  BY <1>1, <1>2 DEF Blocks
<1>4. NULL \notin T /\ v \notin Put
  BY <1>0, <1>3, Names
<1>5. ASSUME NEW c \in T
      PROVE  /\ ShapeOK(t[c], {NULL} \cup (T \ {1}))
             /\ t[c].kind \notin {"free", "handle", "local"}
             /\ \A i \in 1..Size(t[c]) : t[c].own[i] # NULL => PointerOK(t, t[c], i)
  <2>1. ShapeOK(t[c], {NULL} \cup (T \ {1}))
    BY DEF IsTree
  <2>2. DOMAIN t[c].own = 1..Size(t[c])
    BY <2>1 DEF ShapeOK
  <2>3. QED
    BY <2>1, <2>2 DEF IsTree
<1>6. \A c \in T : DOMAIN t[c].own = 1..Size(t[c])
  BY <1>5 DEF ShapeOK
<1>7. ASSUME NEW b \in Put
      PROVE  LET c == t[b - base]
             IN /\ b - base \in T
                /\ g[b].kind = c.kind /\ g[b].n = c.n /\ Size(g[b]) = Size(c)
                /\ \A i \in 1..Size(c) :
                     g[b].own[i] = IF c.own[i] = NULL THEN NULL ELSE base + c.own[i]
                /\ \A i \in 1..Size(c) : c.own[i] # NULL => c.own[i] \in T \ {1}
                /\ ShapeOK(g[b], Pointers)
                /\ g[b].kind \in KindAt(b)
  <2> DEFINE c == t[b - base]
  <2>1. b - base \in T /\ b \in Blocks /\ g[b] = Moved(c, base)
    BY <1>3
  <2>2. ShapeOK(c, {NULL} \cup (T \ {1})) /\ c.kind \notin {"free", "handle", "local"}
    BY <1>5, <2>1
  <2> HIDE DEF c
  <2>3. /\ g[b].kind = c.kind /\ g[b].says = c.says /\ g[b].n = c.n /\ Size(g[b]) = Size(c)
        /\ g[b] = Cell(g[b].kind, g[b].says, g[b].n, g[b].own)
        /\ g[b].own = [i \in 1..Size(c) |-> IF c.own[i] = NULL THEN NULL ELSE base + c.own[i]]
    BY <2>1, <2>2, MovedParts
  <2>4. \A i \in 1..Size(c) : c.own[i] # NULL => c.own[i] \in T \ {1}
    BY <2>2 DEF ShapeOK
  <2>5. g[b].own \in [1..Size(c) -> Pointers]
    <3>1. ASSUME NEW i \in 1..Size(c)
          PROVE  (IF c.own[i] = NULL THEN NULL ELSE base + c.own[i]) \in Pointers
      BY <1>3, <2>4 DEF Pointers
    <3>2. QED
      BY <2>3, <3>1
  <2>6. c.kind = "value" => NULL \in {g[b].own[1], g[b].own[2]}
    <3>1. c.kind = "value" => 1 \in 1..Size(c) /\ 2 \in 1..Size(c)
      BY DEF Size
    <3>2. c.kind = "value" => NULL \in {c.own[1], c.own[2]}
      BY <2>2 DEF ShapeOK
    <3>3. QED
      BY <2>3, <3>1, <3>2
  <2>7. c.kind \in {"shell", "element"} /\ c.n = 0 => g[b].own[Hook(g[b])] = NULL
    <3>1. Hook(g[b]) = Hook(c) /\ (c.kind \in {"shell", "element"} => Hook(c) \in 1..Size(c))
      BY <2>3 DEF Hook, Size
    <3>2. c.kind \in {"shell", "element"} /\ c.n = 0 => c.own[Hook(c)] = NULL
      BY <2>2 DEF ShapeOK
    <3>3. QED
      BY <2>3, <3>1, <3>2
  <2>8. ShapeOK(g[b], Pointers)
    BY <2>2, <2>3, <2>5, <2>6, <2>7 DEF ShapeOK
  <2>9. g[b].kind \in KindAt(b)
    BY <2>1, <2>2, <2>3 DEF KindAt, ShapeOK
  <2>10. QED
    BY <2>1, <2>3, <2>4, <2>8, <2>9 DEF c
<1>8. /\ h[v].kind = "handle" /\ Size(h[v]) = 1
      /\ g[v].kind = "handle" /\ g[v].n = h[v].n /\ Size(g[v]) = 1 /\ g[v].own[1] = base + 1
      /\ ShapeOK(g[v], Pointers)
  <2>1. h[v].kind = "handle" /\ Size(h[v]) = 1
    BY <1>0 DEF Shaped, KindAt, Size
  <2>2. base + 1 \in Pointers /\ 1 \in 1..Size(h[v])
    BY <1>3, <2>1 DEF Pointers
  <2>3. /\ g[v].kind = h[v].kind /\ g[v].says = h[v].says /\ g[v].n = h[v].n
        /\ Size(g[v]) = Size(h[v])
        /\ g[v] = Cell(g[v].kind, g[v].says, g[v].n, g[v].own)
        /\ g[v].own[1] = base + 1 /\ g[v].own \in [1..Size(h[v]) -> Pointers]
    BY <1>0, <2>2, PointingParts
  <2>4. ShapeOK(g[v], Pointers)
    BY <1>0, <2>1, <2>3 DEF ShapeOK
  <2>5. QED
    BY <2>1, <2>3, <2>4
<1> DEFINE Other(b) == b \in Addresses /\ b # v /\ b \notin Put
<1>9. \A b : Other(b) => g[b] = h[b]
  OBVIOUS
<1>10. \A b \in Put : b \in Blocks /\ b \in Addresses /\ h[b].kind = "free"
  BY <1>3, Names
<1> HIDE DEF Put, T
<1>11. Shaped(g)
  <2>1. ASSUME NEW b \in Addresses PROVE ShapeOK(g[b], Pointers) /\ g[b].kind \in KindAt(b)
    <3>1. CASE b \in Put
      BY <1>7, <3>1
    <3>2. CASE b = v
      BY <1>0, <1>8, <3>2 DEF Shaped
    <3>3. CASE Other(b)
      BY <1>0, <1>9, <3>3 DEF Shaped
    <3>4. QED
      BY <3>1, <3>2, <3>3
  <2>2. QED
    BY <2>1 DEF Shaped
(* Where a pointer comes from.                                             *)
<1>12. ASSUME NEW b \in Addresses, NEW i \in 1..Size(g[b]), g[b].own[i] \in Blocks
       PROVE  \/ b = v /\ i = 1 /\ g[b].own[i] = base + 1
              \/ /\ b \in Put /\ b - base \in T /\ i \in 1..Size(t[b - base])
                 /\ t[b - base].own[i] \in T \ {1}
                 /\ g[b].own[i] = base + t[b - base].own[i]
              \/ /\ Other(b) /\ i \in 1..Size(h[b]) /\ g[b].own[i] = h[b].own[i]
                 /\ g[b].own[i] \notin Put
  <2>1. CASE b = v
    BY <1>8, <2>1
  <2>2. CASE b \in Put
    BY <1>7, <1>12, <2>2, Names
  <2>3. CASE Other(b)
    <3>1. i \in 1..Size(h[b]) /\ g[b].own[i] = h[b].own[i]
      BY <1>9, <2>3
    <3>2. h[h[b].own[i]].kind # "free"
      BY <1>0, <1>12, <2>3, <3>1, Followed DEF Place
    <3>3. QED
      BY <1>10, <2>3, <3>1, <3>2
  <2>4. QED
    BY <2>1, <2>2, <2>3
<1>13. Pointed(g)
  <2>1. ASSUME NEW b \in Addresses, NEW i \in 1..Size(g[b]) PROVE PointsWell(g, b, i)
    <3>1. CASE g[b].own[i] \notin Blocks
      <4>1. CASE b = v
        BY <1>3, <1>8, <3>1, <4>1
      <4>2. CASE b \in Put
        <5>1. g[b].own[i] = NULL
          <6>1. i \in 1..Size(t[b - base])
            BY <1>7, <4>2
          <6>2. t[b - base].own[i] # NULL => t[b - base].own[i] \in T
            BY <1>7, <4>2, <6>1
          <6>3. QED
            BY <1>3, <1>7, <3>1, <4>2, <6>1, <6>2
        <5>2. QED
          BY <5>1 DEF PointsWell
      <4>3. CASE Other(b)
        BY <1>0, <1>9, <3>1, <4>3 DEF Pointed, PointsWell
      <4>4. QED
        BY <4>1, <4>2, <4>3
    <3>2. CASE g[b].own[i] \in Blocks
      <4>1. CASE b = v /\ i = 1 /\ g[b].own[i] = base + 1
        <5>1. g[base + 1].kind = "shell"
          BY <1>2, <1>3, <1>7
        <5>2. base + 1 \in DOMAIN g
          BY <1>3, Names
        <5>3. QED
          BY <1>8, <3>2, <4>1, <5>1, <5>2 DEF PointsWell, PointerOK, Target
      <4>2. CASE /\ b \in Put /\ b - base \in T /\ i \in 1..Size(t[b - base])
                 /\ t[b - base].own[i] \in T \ {1}
                 /\ g[b].own[i] = base + t[b - base].own[i]
        <5> DEFINE c == b - base
                   q == t[b - base].own[i]
        <5>1. PointerOK(t, t[c], i) /\ c \in T /\ q \in T
          BY <1>4, <1>5, <4>2
        <5>2. base + q \in Put /\ (base + q) - base = q
          BY <1>3, <5>1
        <5>3. g[base + q].kind = t[q].kind /\ g[base + q].n = t[q].n
          BY <1>7, <5>2
        <5>4. g[b].kind = t[c].kind /\ g[b].n = t[c].n
          BY <1>7, <4>2
        <5>5. t[q].kind = Target(t[c].kind, i) /\ (t[q].kind = "array" => t[q].n = t[c].n)
          BY <5>1 DEF PointerOK
        <5>6. base + q \in DOMAIN g /\ g[b].own[i] = base + q
          BY <1>3, <4>2, <5>2, Names
        <5> HIDE DEF c, q
        <5>7. QED
          BY <3>2, <5>3, <5>4, <5>5, <5>6 DEF PointsWell, PointerOK
      <4>3. CASE /\ Other(b) /\ i \in 1..Size(h[b]) /\ g[b].own[i] = h[b].own[i]
                 /\ g[b].own[i] \notin Put
        <5> DEFINE q == h[b].own[i]
        <5>1. q \in Blocks /\ q \in Addresses
          BY <3>2, <4>3, Names
        <5>2. PointerOK(h, h[b], i)
          BY <1>0, <4>3, <5>1, Names DEF Pointed, PointsWell
        <5>3. g[q] = h[q] /\ g[b] = h[b]
          BY <1>0, <1>9, <4>3, <5>1
        <5>4. QED
          BY <4>3, <5>1, <5>2, <5>3 DEF PointsWell, PointerOK
      <4>4. QED
        BY <1>12, <3>2, <4>1, <4>2, <4>3
    <3>3. QED
      BY <3>1, <3>2
  <2>2. QED
    BY <2>1 DEF Pointed
<1>14. Unique(g)
  <2>1. ASSUME NEW b \in Addresses, NEW c \in Addresses,
               NEW i \in 1..Size(g[b]), NEW j \in 1..Size(g[c]),
               g[b].own[i] = g[c].own[j], g[b].own[i] \in Blocks
        PROVE  b = c /\ i = j
    <3> DEFINE q == g[b].own[i]
               Here(x, k) == /\ x \in Put /\ x - base \in T /\ k \in 1..Size(t[x - base])
                             /\ t[x - base].own[k] \in T \ {1} /\ q = base + t[x - base].own[k]
               There(x, k) == Other(x) /\ k \in 1..Size(h[x]) /\ q = h[x].own[k] /\ q \notin Put
    <3>1. (b = v /\ i = 1 /\ q = base + 1) \/ Here(b, i) \/ There(b, i)
      BY <1>12, <2>1
    <3>2. (c = v /\ j = 1 /\ q = base + 1) \/ Here(c, j) \/ There(c, j)
      BY <1>12, <2>1
    <3>3. ASSUME NEW x, NEW k, Here(x, k) PROVE q \in Put /\ q # base + 1
      BY <1>2, <1>3, <3>3
    <3>4. CASE Here(b, i) /\ Here(c, j)
      <4>1. t[b - base].own[i] = t[c - base].own[j] /\ t[b - base].own[i] # NULL
        BY <1>3, <1>4, <3>4
      <4>2. \A x, y \in DOMAIN t : \A k \in DOMAIN t[x].own, m \in DOMAIN t[y].own :
              t[x].own[k] = t[y].own[m] /\ t[x].own[k] # NULL => x = y /\ k = m
        BY DEF IsTree
      <4>3. b - base = c - base /\ i = j
        <5>1. b - base \in T /\ c - base \in T
          BY <3>4
        <5>2. i \in DOMAIN t[b - base].own /\ j \in DOMAIN t[c - base].own
          BY <1>6, <3>4, <5>1
        <5>3. \A x, y \in T : \A k \in DOMAIN t[x].own, m \in DOMAIN t[y].own :
                t[x].own[k] = t[y].own[m] /\ t[x].own[k] # NULL => x = y /\ k = m
          BY <4>2 DEF T
        <5> HIDE DEF Here, There, q
        <5>4. QED
          BY <4>1, <5>1, <5>2, <5>3
      <4>4. b = base + (b - base) /\ c = base + (c - base)
        BY <1>3, <3>4
      <4>5. QED
        BY <4>3, <4>4
    <3>5. CASE There(b, i) /\ There(c, j)
      <4>1. h[b].own[i] = h[c].own[j] /\ h[b].own[i] \in Blocks
        BY <2>1, <3>5
      <4>2. i \in 1..Size(h[b]) /\ j \in 1..Size(h[c])
        BY <3>5
      <4> HIDE DEF Here, There, q
      <4>3. QED
        BY <1>0, <4>1, <4>2 DEF Unique
    <3> HIDE DEF Here, q
    <3>6. There(b, i) \/ There(c, j) => q \notin Put
      OBVIOUS
    <3> HIDE DEF There
    <3>7. QED
      BY <1>3, <3>1, <3>2, <3>3, <3>4, <3>5, <3>6
  <2>2. QED
    BY <2>1 DEF Unique
<1>15. Roots(g, R)
  <2>1. ASSUME NEW q \in R PROVE q \in Blocks /\ q \notin Put /\ g[q].kind # "free"
    <3>1. q \in Blocks /\ h[q].kind # "free"
      BY <1>0 DEF Roots
    <3>2. Other(q)
      BY <1>0, <1>10, <3>1, Names
    <3>3. QED
      BY <1>9, <3>1, <3>2
  <2>2. ASSUME NEW b \in Addresses, NEW i \in 1..Size(g[b]), g[b].own[i] \in R PROVE FALSE
    <3>1. g[b].own[i] \in Blocks /\ g[b].own[i] \notin Put
      BY <2>1, <2>2
    <3>2. Other(b) /\ i \in 1..Size(h[b]) /\ g[b].own[i] = h[b].own[i]
      <4>1. b = v => g[b].own[i] = base + 1
        BY <1>8
      <4>2. b # v
        BY <1>3, <3>1, <4>1
      <4>3. \A c \in T \ {1} : base + c \in Put
        BY <1>3
      <4>4. QED
        BY <1>12, <3>1, <4>2, <4>3
    <3>3. QED
      BY <1>0, <2>2, <3>2 DEF Roots
  <2>3. QED
    BY <2>1, <2>2 DEF Roots
<1>16. Owned(g, R)
  <2>1. ASSUME NEW q \in Blocks, g[q].kind # "free", q \notin R
        PROVE  \E b \in Addresses : \E i \in 1..Size(g[b]) : g[b].own[i] = q
    <3>1. CASE q = base + 1
      BY <1>0, <1>8, <3>1
    <3>2. CASE q \in Put /\ q # base + 1
      <4>1. q - base \in T \ {1} /\ q = base + (q - base)
        BY <1>3, <3>2
      <4>2. \A x \in DOMAIN t \ {1} : \E b \in DOMAIN t : \E i \in DOMAIN t[b].own : t[b].own[i] = x
        BY DEF IsTree
      <4>3. PICK b \in T : \E i \in DOMAIN t[b].own : t[b].own[i] = q - base
        BY <4>1, <4>2 DEF T
      <4>4. PICK i \in 1..Size(t[b]) : t[b].own[i] = q - base
        BY <1>6, <4>3
      <4>5. t[b].own[i] # NULL
        BY <1>4, <4>1, <4>4
      <4>6. base + b \in Put /\ (base + b) - base = b
        BY <1>3
      <4>7. i \in 1..Size(g[base + b]) /\ g[base + b].own[i] = base + t[b].own[i]
        BY <1>7, <4>5, <4>6
      <4>8. base + b \in Addresses /\ g[base + b].own[i] = q
        BY <1>10, <4>1, <4>4, <4>6, <4>7
      <4>9. QED
        BY <4>7, <4>8
    <3>3. CASE q \notin Put
      <4>1. Other(q)
        BY <1>0, <3>3, Names
      <4>2. h[q].kind # "free"
        BY <1>9, <2>1, <4>1
      <4>3. PICK b \in Addresses : \E i \in 1..Size(h[b]) : h[b].own[i] = q
        BY <1>0, <2>1, <4>2 DEF Owned
      <4>4. PICK i \in 1..Size(h[b]) : h[b].own[i] = q
        BY <4>3
      <4>5. b # v
        BY <1>8, <4>4, Names
      <4>6. b \notin Put
        BY <1>10, <4>4 DEF Size
      <4>7. QED
        BY <1>9, <4>4, <4>5, <4>6
    <3>4. QED
      BY <3>1, <3>2, <3>3
  <2>2. QED
    BY <2>1 DEF Owned
<1>17. QED
  BY <1>11, <1>13, <1>14, <1>15, <1>16 DEF Sound
=============================================================================
