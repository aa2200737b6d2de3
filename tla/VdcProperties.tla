---------------------------- MODULE VdcProperties ----------------------------
(***************************************************************************)
(* Property trees (properties.c) as blocks of memory: what is allocated,   *)
(* who owns it, and what is released, with any allocation failing.         *)
(*                                                                         *)
(*   - a handle (shell) owns an array of elements; an element owns its     *)
(*     name, its value and the array of the elements below it; a value     *)
(*     owns its text or bytes;                                             *)
(*   - the application builds trees, attaches one to another, copies parts *)
(*     out, reads names and values, sends, saves and releases them;        *)
(*   - a request of the vdSM brings a tree that the library copies into a  *)
(*     query the application may read until its callback returns.          *)
(*                                                                         *)
(* A call runs in steps, one allocation, release or assignment at a time.  *)
(* The functions call themselves, so what is under way is a stack of tasks.*)
(* They are documented as not thread-safe: calls do not overlap.  What a   *)
(* call allocates is put at once where the caller is going to find it:     *)
(* nobody looks before the call is done.                                   *)
(***************************************************************************)
EXTENDS Naturals, Sequences, FiniteSets

CONSTANTS
  Slots,      \* variables of the application that hold a property handle
  Query,      \* the handle given to a callback for reading
  Message,    \* the message being processed
  Stored,     \* the record that was read from the database
  New,        \* the element that is being built
  Keys,       \* names of elements
  Kinds,      \* kinds of values
  Messages,   \* bound: the trees the vdSM sends and the database contains
  NULL,       \* the null pointer
  WILD,       \* a pointer that was never assigned
  MaxBlocks,  \* bound: blocks of memory at a time
  MaxElements,\* bound: elements in memory beyond which no more are added and
              \* no trees arrive
  MaxLost     \* bound: losses after which it adds no more

Handles == Slots \cup {Query}
Variables == Handles \cup {Message, Stored, New}
Blocks == 1..MaxBlocks
Addresses == Blocks \cup Variables

VARIABLES
  heap,      \* what is in each variable and block
  calls,     \* the tasks under way, the innermost at the end
  lost,      \* history: blocks a failing call left without an owner
  fault,     \* what the program did that C leaves undefined
  settled    \* history: the memory as the call under way found it

vars == <<heap, calls, lost, fault, settled>>

(* A piece of memory: what it is, what it says (a name, the value's has_v_ *)
(* flag), how many elements it counts (an array those it has room for, the *)
(* others those of the array they point to) and the pointers in it.        *)
Cell(kind, says, n, own) == [kind |-> kind, says |-> says, n |-> n, own |-> own]

All(n, q) == [i \in 1..n |-> q]

Free == Cell("free", NULL, 0, All(0, NULL))
Variable(kind) == Cell(kind, NULL, 0, All(1, NULL))
Shell(n) == Cell("shell", NULL, n, All(1, NULL))
Array(n, q) == Cell("array", NULL, n, All(n, q))
Element == Cell("element", NULL, 0, All(3, NULL))
Value(flag) == Cell("value", flag, 0, All(2, NULL))
Data(text) == Cell("data", text, 0, All(0, NULL))

(* How many pointers it has.                                               *)
Size(c) ==
  CASE c.kind = "array" -> c.n
    [] c.kind \in {"handle", "local", "shell"} -> 1
    [] c.kind = "element" -> 3
    [] c.kind = "value" -> 2
    [] c.kind \in {"data", "free"} -> 0

(* What its i-th pointer may lead to. *)
Target(kind, i) ==
  CASE kind = "handle" -> "shell"
    [] kind = "local" -> "element"
    [] kind = "shell" -> "array"
    [] kind = "array" -> "element"
    [] kind = "element" -> IF i = 1 THEN "data" ELSE IF i = 2 THEN "value" ELSE "array"
    [] kind = "value" -> "data"

(* Which of its pointers leads to an array. *)
Hook(c) == IF c.kind = "element" THEN 3 ELSE 1

-----------------------------------------------------------------------------
(* Memory as such, be it the heap or what is in a message. *)

(* A value has a text or bytes, not both; where nothing is counted, nothing*)
(* is pointed to.                                                          *)
ShapeOK(c, pointers) ==
  /\ c = Cell(c.kind, c.says, c.n, c.own)
  /\ c.kind \in {"free", "handle", "local", "shell", "array", "element", "value", "data"}
  /\ c.n \in Nat
  /\ c.own \in [1..Size(c) -> pointers]
  /\ c.kind = "array" => c.n > 0
  /\ c.kind = "value" => NULL \in {c.own[1], c.own[2]}
  /\ c.kind \in {"shell", "element"} /\ c.n = 0 => c.own[Hook(c)] = NULL

(* Its i-th pointer leads to a block of the right kind; if that is an array*)
(* it has the length that is counted.                                      *)
PointerOK(h, c, i) ==
  LET q == c.own[i]
  IN /\ q \in DOMAIN h
     /\ h[q].kind = Target(c.kind, i)
     /\ h[q].kind = "array" => h[q].n = c.n

(* The tree in a message: its blocks, the first of them like a handle.  The*)
(* pointers in them count from the first.                                  *)
IsTree(t) ==
  /\ DOMAIN t = 1..Len(t) /\ Len(t) \in Nat
  /\ 1 \in DOMAIN t /\ t[1].kind = "shell" /\ t[1].n > 0
  /\ \A b \in DOMAIN t :
       /\ ShapeOK(t[b], {NULL} \cup (DOMAIN t \ {1}))
       /\ t[b].kind \notin {"free", "handle", "local"}
       /\ \A i \in DOMAIN t[b].own : t[b].own[i] # NULL => PointerOK(t, t[b], i)
       /\ t[b].kind = "element" /\ t[b].own[1] # NULL => t[t[b].own[1]].says # NULL
  /\ \A q \in DOMAIN t \ {1} : \E b \in DOMAIN t : \E i \in DOMAIN t[b].own : t[b].own[i] = q
  /\ \A b, c \in DOMAIN t : \A i \in DOMAIN t[b].own, k \in DOMAIN t[c].own :
       t[b].own[i] = t[c].own[k] /\ t[b].own[i] # NULL => b = c /\ i = k

ASSUME PropertiesAssumption ==
  /\ Cardinality({Query, Message, Stored, New}) = 4
  /\ Slots \cap {Query, Message, Stored, New} = {}
  /\ Kinds \subseteq {"scalar", "string", "bytes"}
  /\ {MaxBlocks, MaxElements, MaxLost} \subseteq Nat
  /\ {NULL, WILD} \cap Addresses = {} /\ Variables \cap Blocks = {}
  /\ NULL # WILD /\ NULL \notin Keys \cup {"scalar", "string", "bytes"}
  /\ \A t \in Messages : IsTree(t)

-----------------------------------------------------------------------------
(* The heap *)

Live(b) == b \in Blocks /\ heap[b].kind # "free"

(* What is wrong with a pointer that is followed to no block. *)
Broken(b) == IF b = NULL THEN "null" ELSE IF b = WILD THEN "unassigned" ELSE "dead"

(* malloc() of one block, and its address in the k-th pointer at c. *)
Room == \E b \in Blocks : ~Live(b)
Fresh == CHOOSE b \in Blocks : ~Live(b)

Pointing(c, k, q) == Cell(c.kind, c.says, c.n, [c.own EXCEPT ![k] = q])
Counting(c, n) == Cell(c.kind, c.says, n, c.own)

WithIn(cell, c, k) ==
  [b \in Addresses |-> IF b = Fresh THEN cell
                       ELSE IF b = c THEN Pointing(heap[c], k, Fresh) ELSE heap[b]]

(* free(), and a null pointer where the address was. *)
Cleared(places) ==
  [b \in Addresses |-> IF b \in places THEN Pointing(heap[b], Hook(heap[b]), NULL)
                       ELSE heap[b]]
Without(blocks, c, k) ==
  [b \in Addresses |-> IF b \in blocks THEN Free
                       ELSE IF b = c THEN Pointing(heap[c], k, NULL) ELSE heap[b]]

Held(v) == heap[v].own[1]
Name(el) == heap[el].own[1]
ValueOf(el) == heap[el].own[2]
ArrayOf(b) == heap[b].own[Hook(heap[b])]
Says(b) == IF Live(b) THEN heap[b].says ELSE NULL

-----------------------------------------------------------------------------
(* Tasks: what is done, to which block or variable, with what, and how far *)
(* it is.                                                                  *)

(* What an element is to have: its name, if any, whether a value, what that*)
(* says and which data.                                                    *)
Wanted(key, kind) ==
  [name |-> key,
   value |-> kind # NULL,
   says |-> IF kind = "string" THEN NULL ELSE kind,
   data |-> IF kind = "string" THEN 1 ELSE IF kind = "bytes" THEN 2 ELSE 0]

Task(do, at) ==
  [do |-> do, at |-> at, from |-> NULL, skip |-> 0, n |-> 0, i |-> 1,
   want |-> Wanted(NULL, NULL)]

Top == calls[Len(calls)]

Running == fault = "none"
Idle == Running /\ calls = <<>>
In(do) == Running /\ calls # <<>> /\ Top.do = do

Becomes(task) == calls' = [calls EXCEPT ![Len(calls)] = task]
Goes(do) == Becomes([Top EXCEPT !.do = do])
Proceeds(do) == Becomes([Top EXCEPT !.do = do, !.i = @ + 1])
Calls(task, callee) == calls' = Append([calls EXCEPT ![Len(calls)] = task], callee)
Returns == calls' = SubSeq(calls, 1, Len(calls) - 1)

(* Behaviour that C leaves undefined is not followed further. *)
Faults(what) ==
  /\ fault' = what
  /\ UNCHANGED <<heap, calls, lost>>

-----------------------------------------------------------------------------
(* Releasing: the pointers of a block one after the other, then the block. *)

Release(b) == Task("release", b)

(* What there is to release behind the i-th pointer of b: no bytes if there*)
(* is a text, no array if nothing is counted.                              *)
Released(b, i) ==
  IF \/ heap[b].kind = "value" /\ i = 2 /\ heap[b].own[1] # NULL
     \/ heap[b].kind \in {"shell", "element"} /\ i = Hook(heap[b]) /\ heap[b].n = 0
  THEN NULL ELSE heap[b].own[i]

ReleaseNext ==
  /\ In("release")
  /\ Live(Top.at)
  /\ Top.i <= Size(heap[Top.at])
  /\ Calls([Top EXCEPT !.i = @ + 1], Release(Released(Top.at, Top.i)))
  /\ UNCHANGED <<heap, lost, fault>>

ReleaseBlock ==
  /\ In("release")
  /\ Live(Top.at)
  /\ Top.i > Size(heap[Top.at])
  /\ heap' = Without({Top.at}, NULL, 1)
  /\ Returns
  /\ UNCHANGED <<lost, fault>>

(* There is nothing, or a pointer that leads nowhere. *)
ReleaseNothing ==
  /\ In("release")
  /\ ~Live(Top.at)
  /\ IF Top.at = NULL THEN Returns /\ UNCHANGED <<heap, lost, fault>>
     ELSE Faults(Broken(Top.at))

Releasing == ReleaseNext \/ ReleaseBlock \/ ReleaseNothing

-----------------------------------------------------------------------------
(* Building: an element with its name and its value, if it is to have them, *)
(* which is then added to a handle.                                        *)

(* What it lacks first. *)
LacksName(el, want) == want.name # NULL /\ Name(el) = NULL
LacksValue(el, want) ==
  ~LacksName(el, want) /\ want.value /\ ValueOf(el) = NULL
LacksData(el, want) ==
  /\ ~LacksName(el, want) /\ ~LacksValue(el, want)
  /\ want.data # 0 /\ heap[ValueOf(el)].own[want.data] = NULL

Complete(el, want) ==
  ~LacksName(el, want) /\ ~LacksValue(el, want) /\ ~LacksData(el, want)

Completes(el, want) ==
  /\ Room
  /\ \/ LacksName(el, want) /\ heap' = WithIn(Data(want.name), el, 1)
     \/ LacksValue(el, want) /\ heap' = WithIn(Value(want.says), el, 2)
     \/ LacksData(el, want) /\ heap' = WithIn(Data(NULL), ValueOf(el), want.data)

(* Not what the code does: the text or bytes of the value stay. *)
LeafBlocksButData(el) == {el, Name(el), ValueOf(el)}

(* What a failing dsvdc_property_add_int, _string, ... releases. *)
LeafBlocks(el) ==
  {el, Name(el), ValueOf(el)}
  \cup (IF ValueOf(el) = NULL THEN {} ELSE {heap[ValueOf(el)].own[k] : k \in 1..2})

DropLeaf ==
  /\ heap' = Without(LeafBlocks(Held(New)), New, 1)
  /\ Returns

(* The task knows the handle the element is for, and the one whose content *)
(* it is to take over, if any.                                             *)
Building(s, t, want) == [Task("build", s) EXCEPT !.from = t, !.want = want]

Build ==
  /\ In("build")
  /\ \/ /\ Complete(Held(New), Top.want)
        /\ Goes(IF Top.from = NULL THEN "add" ELSE "adopt")
        /\ UNCHANGED heap
     \/ Completes(Held(New), Top.want) /\ UNCHANGED calls
     \/ ~Complete(Held(New), Top.want) /\ DropLeaf
  /\ UNCHANGED <<lost, fault>>

(* The element takes over what was in the handle, whose shell is released. *)
Adopt ==
  /\ In("adopt")
  /\ LET el == Held(New)
         shell == Held(Top.from)
     IN heap' = [b \in Addresses |->
                   IF b = shell THEN Free
                   ELSE IF b = el
                        THEN Counting(Pointing(heap[el], 3, ArrayOf(shell)), heap[shell].n)
                   ELSE IF b = Top.from THEN Variable("handle") ELSE heap[b]]
  /\ Goes("add")
  /\ UNCHANGED <<lost, fault>>

(* The array behind p with one more element; where something was counted   *)
(* and there was no array, fresh memory is what precedes it.               *)
Longer(p, el, residue) ==
  [i \in 1..(heap[p].n + 1) |->
     IF i > heap[p].n THEN el
     ELSE IF ArrayOf(p) = NULL THEN residue ELSE heap[ArrayOf(p)].own[i]]

(* Not what the code does: the array grows, but not the count beside it. *)
GrownUncounted(p, residue) ==
  [b \in Addresses |->
     IF b = Fresh THEN Cell("array", NULL, heap[p].n + 1, Longer(p, Held(New), residue))
     ELSE IF b = p THEN Pointing(heap[p], 1, Fresh)
     ELSE IF b = ArrayOf(p) THEN Free
     ELSE IF b = New THEN Variable("local") ELSE heap[b]]

(* The memory once the array has grown by the new element, and has moved. *)
Grown(p, residue) ==
  [b \in Addresses |->
     IF b = Fresh THEN Cell("array", NULL, heap[p].n + 1, Longer(p, Held(New), residue))
     ELSE IF b = p THEN Counting(Pointing(heap[p], 1, Fresh), heap[p].n + 1)
     ELSE IF b = ArrayOf(p) THEN Free
     ELSE IF b = New THEN Variable("local") ELSE heap[b]]

(* dsvdc_property_add.  If the array cannot grow, a leaf is released; an   *)
(* element that adopted the content of a handle is forgotten.              *)
Add ==
  /\ In("add")
  /\ \/ /\ Room
        /\ \E residue \in {NULL, WILD} : heap' = Grown(Held(Top.at), residue)
        /\ Returns
        /\ UNCHANGED lost
     \/ Top.from = NULL /\ DropLeaf /\ UNCHANGED lost
     \/ /\ Top.from # NULL
        /\ lost' = lost \cup {Held(New)}
        /\ heap' = Cleared({New})
        /\ Returns
  /\ UNCHANGED fault

Constructing == Build \/ Adopt \/ Add

-----------------------------------------------------------------------------
(* Copying *)

(* dsvdc_property_deep_copy into the array at block c; with skip, only the *)
(* element after those.                                                    *)
DeepCopy(c, array, skip) == [Task("deepCopy", c) EXCEPT !.from = array, !.skip = skip]

Source == heap[Top.from].own[Top.skip + Top.i]
Copied == heap[ArrayOf(Top.at)].own[Top.i]

(* The array is as malloc() left it until the loop assigns an entry, but a *)
(* failure releases all of them.                                           *)
CopyArray ==
  /\ In("deepCopy")
  /\ \/ Room /\ Top.from = NULL /\ Faults("null")
     \/ /\ Room /\ Top.from # NULL
        /\ \E residue \in {NULL, WILD} :
             heap' = WithIn(Array(heap[Top.at].n, residue), Top.at, Hook(heap[Top.at]))
        /\ Goes("copyElement")
        /\ UNCHANGED <<lost, fault>>
     \/ Returns /\ UNCHANGED <<heap, lost, fault>>

CopyElement ==
  /\ In("copyElement")
  /\ \/ /\ Top.i > heap[Top.at].n
        /\ Returns
        /\ UNCHANGED heap
     \/ /\ Top.i <= heap[Top.at].n
        /\ Room
        /\ heap' = WithIn(Element, ArrayOf(Top.at), Top.i)
        /\ Goes("copyLeaf")
     \/ /\ Top.i <= heap[Top.at].n
        /\ Goes("giveUp")
        /\ UNCHANGED heap
  /\ UNCHANGED <<lost, fault>>

(* Not what the code does: the name is left out. *)
SameUnnamed(el) ==
  [name |-> NULL,
   value |-> ValueOf(el) # NULL,
   says |-> IF ValueOf(el) = NULL THEN NULL ELSE heap[ValueOf(el)].says,
   data |-> IF ValueOf(el) = NULL THEN 0
            ELSE IF heap[ValueOf(el)].own[1] # NULL THEN 1
            ELSE IF heap[ValueOf(el)].own[2] # NULL THEN 2 ELSE 0]

(* The name and, in dsvdc_property_copy_value, the value of the source. *)
Same(el) ==
  [name |-> IF Name(el) = NULL THEN NULL ELSE heap[Name(el)].says,
   value |-> ValueOf(el) # NULL,
   says |-> IF ValueOf(el) = NULL THEN NULL ELSE heap[ValueOf(el)].says,
   data |-> IF ValueOf(el) = NULL THEN 0
            ELSE IF heap[ValueOf(el)].own[1] # NULL THEN 1
            ELSE IF heap[ValueOf(el)].own[2] # NULL THEN 2 ELSE 0]

CopyLeaf ==
  /\ In("copyLeaf")
  /\ \/ ~Live(Source) /\ Faults(Broken(Source))
     \/ /\ Live(Source)
        /\ \/ /\ Complete(Copied, Same(Source))
              /\ Goes("copyBelow")
              /\ UNCHANGED heap
           \/ Completes(Copied, Same(Source)) /\ UNCHANGED calls
           \/ /\ ~Complete(Copied, Same(Source))
              /\ heap' = IF LacksData(Copied, Same(Source))
                         THEN Without({ValueOf(Copied)}, Copied, 2) ELSE heap
              /\ Goes("giveUp")
        /\ UNCHANGED <<lost, fault>>

(* Not what the code does: the copy points to the elements below the source*)
CopyBelowShared ==
  /\ In("copyBelow")
  /\ heap' = [heap EXCEPT ![Copied] =
                 Counting(Pointing(@, 3, ArrayOf(Source)), heap[Source].n)]
  /\ Proceeds("copyElement")
  /\ UNCHANGED <<lost, fault>>

CopyBelow ==
  /\ In("copyBelow")
  /\ heap' = [heap EXCEPT ![Copied] = Counting(@, heap[Source].n)]
  /\ IF heap[Source].n = 0 THEN Proceeds("copyElement")
     ELSE Calls([Top EXCEPT !.do = "copiedBelow"], DeepCopy(Copied, ArrayOf(Source), 0))
  /\ UNCHANGED <<lost, fault>>

CopiedBelow ==
  /\ In("copiedBelow")
  /\ IF ArrayOf(Copied) = NULL THEN Goes("giveUp") ELSE Proceeds("copyElement")
  /\ UNCHANGED <<heap, lost, fault>>

(* Not what the code does: the caller finds the array that is released. *)
GiveUpSilently ==
  /\ In("giveUp")
  /\ Becomes(Release(ArrayOf(Top.at)))
  /\ UNCHANGED <<heap, lost, fault>>

(* All that was copied so far is released, the caller finds no array. *)
GiveUp ==
  /\ In("giveUp")
  /\ heap' = Cleared({Top.at})
  /\ Becomes(Release(ArrayOf(Top.at)))
  /\ UNCHANGED <<lost, fault>>

(* A new handle with a copy of n elements behind an array.  Two of the     *)
(* functions, dsvdc_property_convert_query and, where nothing is below,    *)
(* dsvdc_property_get_property_by_name, do not look at the outcome.        *)
CopyTree(do, v, array, skip, n) ==
  [Task(do, v) EXCEPT !.from = array, !.skip = skip, !.n = n]

NewTree ==
  /\ In("copyTree") \/ In("copyTreeUnchecked")
  /\ \/ /\ Room
        /\ heap' = WithIn(Shell(Top.n), Top.at, 1)
        /\ LET copy == DeepCopy(Fresh, Top.from, Top.skip)
           IN IF Top.n = 0 THEN Returns
              ELSE IF Top.do = "copyTree" THEN Calls([Top EXCEPT !.do = "checkTree"], copy)
              ELSE Becomes(copy)
     \/ Returns /\ UNCHANGED heap
  /\ UNCHANGED <<lost, fault>>

CheckTree ==
  /\ In("checkTree")
  /\ IF ArrayOf(Held(Top.at)) # NULL THEN Returns /\ UNCHANGED heap
     ELSE heap' = Cleared({Top.at}) /\ Becomes(Release(Held(Top.at)))
  /\ UNCHANGED <<lost, fault>>

Copying ==
  \/ CopyArray \/ CopyElement \/ CopyLeaf \/ CopyBelow \/ CopiedBelow
  \/ GiveUp \/ NewTree \/ CheckTree

-----------------------------------------------------------------------------
(* Packing, external (protobuf-c): what is behind a handle or an element is*)
(* read; for a null pointer among the elements an empty one is written.    *)

Pack(b) == Task("pack", b)

Packing ==
  /\ In("pack")
  /\ LET array == ArrayOf(Top.at)
         el == heap[array].own[Top.i]
     IN \/ /\ Top.i > heap[Top.at].n
           /\ Returns
           /\ UNCHANGED <<heap, lost, fault>>
        \/ /\ Top.i <= heap[Top.at].n
           /\ ~Live(array)
           /\ Faults(Broken(array))
        \/ /\ Top.i <= heap[Top.at].n
           /\ Live(array)
           /\ \/ /\ el = NULL
                 /\ Proceeds("pack")
                 /\ UNCHANGED <<heap, lost, fault>>
              \/ /\ Live(el)
                 /\ Calls([Top EXCEPT !.i = @ + 1], Pack(el))
                 /\ UNCHANGED <<heap, lost, fault>>
              \/ el # NULL /\ ~Live(el) /\ Faults(Broken(el))

-----------------------------------------------------------------------------
(* The calls of the application.  One whose first allocation fails changes *)
(* nothing.                                                                *)

Holds(v) == Idle /\ Held(v) # NULL
Empty(s) == Idle /\ Held(s) = NULL
Begins(tasks) == calls' = tasks

(* The elements in memory. *)
Elements == {b \in Blocks : Live(b) /\ heap[b].kind = "element"}

MayAdd(s) ==
  /\ Holds(s)
  /\ Cardinality(Elements) < MaxElements
  /\ Cardinality(lost) < MaxLost

PropertyNew(s) ==
  /\ Empty(s)
  /\ Room
  /\ heap' = WithIn(Shell(0), s, 1)
  /\ UNCHANGED <<calls, lost, fault>>

(* dsvdc_property_free, which dsvdc_send_set_property_response also calls  *)
(* unless the code it is given is out of range; and                        *)
(* dsvdc_send_get_property_response, which first packs the message if there*)
(* is a connection.                                                        *)
PropertyFree(s) ==
  /\ Holds(s)
  /\ Begins(<<Release(Held(s))>>)
  /\ heap' = Cleared({s})
  /\ UNCHANGED <<lost, fault>>

SendGetPropertyResponse(s) ==
  /\ Holds(s)
  /\ Begins(<<Release(Held(s)), Pack(Held(s))>>)
  /\ heap' = Cleared({s})
  /\ UNCHANGED <<lost, fault>>

(* dsvdc_push_property and dsvdc_database_save_property read the tree; it  *)
(* stays with the application.                                             *)
PushProperty(s) ==
  /\ Holds(s)
  /\ Begins(<<Pack(Held(s))>>)
  /\ UNCHANGED <<heap, lost, fault>>

AddLeaf(s, key, kind) ==
  /\ MayAdd(s)
  /\ Room
  /\ heap' = WithIn(Element, New, 1)
  /\ Begins(<<Building(s, NULL, Wanted(key, kind))>>)
  /\ UNCHANGED <<lost, fault>>

AddProperty(s, key, t) ==
  /\ s # t
  /\ MayAdd(s)
  /\ Holds(t)
  /\ Room
  /\ heap' = WithIn(Element, New, 1)
  /\ Begins(<<Building(s, t, Wanted(key, NULL))>>)
  /\ UNCHANGED <<lost, fault>>

GetPropertyByIndex(h, i, s) ==
  /\ Holds(h) /\ Empty(s)
  /\ i <= heap[Held(h)].n
  /\ LET array == ArrayOf(Held(h))
         el == heap[array].own[i]
     IN \/ ~Live(array) /\ Faults(Broken(array))
        \/ Live(array) /\ el # NULL /\ ~Live(el) /\ Faults(Broken(el))
        \/ /\ Live(array) /\ Live(el)
           /\ Begins(<<CopyTree("copyTree", s, ArrayOf(el), 0, heap[el].n)>>)
           /\ UNCHANGED <<heap, lost, fault>>

(* strcmp() with the name of each element up to the first that has it, or  *)
(* up to one that has none.                                                *)
Stops(el, key) == el # NULL /\ (Live(el) => Name(el) = NULL \/ Says(Name(el)) = key)

GetPropertyByName(h, key, s) ==
  /\ Holds(h) /\ Empty(s)
  /\ LET array == ArrayOf(Held(h))
     IN \/ ~Live(array) /\ heap[Held(h)].n > 0 /\ Faults(Broken(array))
        \/ /\ Live(array)
           /\ \E i \in 1..heap[array].n :
                LET el == heap[array].own[i]
                IN /\ Stops(el, key)
                   /\ \A j \in 1..(i - 1) : ~Stops(heap[array].own[j], key)
                   /\ \/ ~Live(el) /\ Faults(Broken(el))
                      \/ Live(el) /\ Name(el) = NULL /\ Faults("unnamed")
                      \/ /\ Live(el) /\ Name(el) # NULL
                         /\ Begins(<<IF heap[el].n > 0
                                     THEN CopyTree("copyTree", s, ArrayOf(el), 0, heap[el].n)
                                     ELSE CopyTree("copyTreeUnchecked", s, array, i - 1, 1)>>)
                         /\ UNCHANGED <<heap, lost, fault>>

(* dsvdc_property_get_name, _get_string and _get_bytes hand out a copy,    *)
(* which the application releases; if there is nothing to copy, nothing.   *)
Read(h, i, what) ==
  /\ Holds(h)
  /\ i <= heap[Held(h)].n
  /\ LET array == ArrayOf(Held(h))
         el == heap[array].own[i]
         source == IF what = "name" THEN Name(el)
                   ELSE IF ValueOf(el) = NULL THEN NULL
                   ELSE heap[ValueOf(el)].own[IF what = "string" THEN 1 ELSE 2]
     IN \/ ~Live(array) /\ Faults(Broken(array))
        \/ Live(array) /\ el # NULL /\ ~Live(el) /\ Faults(Broken(el))
        \/ /\ Live(array) /\ Live(el) /\ source # NULL
           /\ Room
           /\ heap' = [heap EXCEPT ![Fresh] = Data(Says(source))]
           /\ Begins(<<Release(Fresh)>>)
           /\ UNCHANGED <<lost, fault>>

-----------------------------------------------------------------------------
(* Trees from elsewhere *)

(* The blocks of a tree are put behind all that is in use (protobuf-c,     *)
(* external): block b of it is then block base + b.                        *)
Above(base) == \A b \in Blocks : b > base => ~Live(b)

Moved(c, base) ==
  Cell(c.kind, c.says, c.n,
       [i \in DOMAIN c.own |-> IF c.own[i] = NULL THEN NULL ELSE base + c.own[i]])

Arrives(v, t, base) ==
  /\ Above(base)
  /\ \A lower \in 0..(base - 1) : ~Above(lower)
  /\ Cardinality(Elements) < MaxElements
  /\ base + Len(t) <= MaxBlocks
  /\ heap' = [b \in Addresses |->
                IF b = v THEN Pointing(heap[v], 1, base + 1)
                ELSE IF b \in (base + 1)..(base + Len(t)) THEN Moved(t[b - base], base)
                ELSE heap[b]]

(* A get or set request of the vdSM: a handle for the answer, a copy of the*)
(* query, and the callback is entered.  Without memory for the first the   *)
(* request is refused; without memory for the handle of the second, so it  *)
(* is, and the first is forgotten.                                         *)
Request(s, t, base) ==
  /\ Empty(s) /\ Empty(Message)
  /\ Cardinality(lost) < MaxLost
  /\ Arrives(Message, t, base)
  /\ Begins(<<Task("request", s)>>)
  /\ UNCHANGED <<lost, fault>>

(* What the message or the record holds, copied. *)
Unpacked(do, v, source) ==
  CopyTree(do, v, ArrayOf(Held(source)), 0, heap[Held(source)].n)

NewAnswer ==
  /\ In("request")
  /\ \/ /\ Room
        /\ heap' = WithIn(Shell(0), Top.at, 1)
        /\ Calls([Top EXCEPT !.do = "answer"], Unpacked("copyTreeUnchecked", Query, Message))
     \/ /\ heap' = Cleared({Message})
        /\ Becomes(Release(Held(Message)))
  /\ UNCHANGED <<lost, fault>>

EnterCallback ==
  /\ In("answer")
  /\ \/ /\ Held(Query) # NULL
        /\ Returns
        /\ UNCHANGED <<heap, lost>>
     \/ /\ Held(Query) = NULL
        /\ lost' = lost \cup {Held(Top.at)}
        /\ heap' = Cleared({Top.at, Message})
        /\ Becomes(Release(Held(Message)))
  /\ UNCHANGED fault

(* The callback returns: the query goes, then the message. *)
CallbackReturns ==
  /\ Holds(Message)
  /\ Begins(<<Release(Held(Message)), Release(Held(Query))>>)
  /\ heap' = Cleared({Message, Query})
  /\ UNCHANGED <<lost, fault>>

(* dsvdc_database_load_property: a stored tree is unpacked, copied into a  *)
(* new handle and released.  If the copy fails the handle is released too; *)
(* the application goes by the error code, not by the pointer that is left.*)
LoadProperty(s, t, base) ==
  /\ Empty(s)
  /\ Arrives(Stored, t, base)
  /\ Begins(<<Task("loaded", s),
              CopyTree("copyTree", s, heap'[base + 1].own[1], 0, t[1].n)>>)
  /\ UNCHANGED <<lost, fault>>

Loaded ==
  /\ In("loaded")
  /\ heap' = Cleared({Stored})
  /\ Becomes(Release(Held(Stored)))
  /\ UNCHANGED <<lost, fault>>

-----------------------------------------------------------------------------
Init ==
  /\ heap = [b \in Addresses |->
               IF b \in Blocks THEN Free
               ELSE Variable(IF b = New THEN "local" ELSE "handle")]
  /\ calls = <<>>
  /\ lost = {}
  /\ fault = "none"
  /\ settled = heap

ApplicationCalls ==
  \E s \in Slots :
    \/ PropertyNew(s) \/ PropertyFree(s)
    \/ SendGetPropertyResponse(s) \/ PushProperty(s)
    \/ \E key \in Keys, kind \in Kinds : AddLeaf(s, key, kind)
    \/ \E key \in Keys \cup {NULL}, t \in Slots : AddProperty(s, key, t)
    \/ \E h \in Handles :
         \/ \E i \in 1..MaxElements : GetPropertyByIndex(h, i, s)
         \/ \E key \in Keys : GetPropertyByName(h, key, s)

Reading ==
  \E h \in Handles, i \in 1..MaxElements, what \in {"name", "string", "bytes"} :
    Read(h, i, what)

FromElsewhere ==
  \/ \E s \in Slots, t \in Messages, base \in 0..MaxBlocks :
       Request(s, t, base) \/ LoadProperty(s, t, base)
  \/ NewAnswer \/ EnterCallback \/ CallbackReturns \/ Loaded

Step ==
  \/ Releasing \/ Constructing \/ Copying \/ Packing
  \/ ApplicationCalls \/ Reading \/ FromElsewhere

(* A call in progress is seen against the memory it found. *)
Settles ==
  settled' = IF calls = <<>> \/ calls' = <<>> THEN heap' ELSE settled

Stopped == ~Running /\ UNCHANGED vars

Next == (Step /\ Settles) \/ Stopped

Spec == Init /\ [][Next]_vars

-----------------------------------------------------------------------------
(* Properties *)

Allocated == {b \in Blocks : Live(b)}

(* The pointers in memory that have not been followed to release what is   *)
(* behind them.                                                            *)
Kept(b, i) ==
  \A j \in DOMAIN calls : calls[j].do = "release" /\ calls[j].at = b => calls[j].i <= i

Owns(b, i) == heap[b].own[i] \in Blocks /\ Kept(b, i)

Memory == Variables \cup Allocated
Releases == {j \in DOMAIN calls : calls[j].do = "release"}

(* Every pointer that may still be followed leads to a block of the kind it*)
(* is read as, and the count beside a pointer to an array is the length of *)
(* that array.                                                             *)
TypeOK ==
  /\ DOMAIN heap = Addresses
  /\ \A b \in Memory :
       /\ ShapeOK(heap[b], Blocks \cup {NULL, WILD})
       /\ \A i \in DOMAIN heap[b].own :
            \/ heap[b].own[i] = NULL
            \/ heap[b].own[i] = WILD /\ heap[b].kind = "array"
            \/ ~Kept(b, i)
            \/ PointerOK(heap, heap[b], i)
  /\ lost \subseteq Allocated
  /\ fault \in {"none", "null", "unassigned", "unnamed", "dead"}

(* No block belongs to two trees, or twice to one, or to a tree and a task *)
(* that will release it, so that releasing a tree never takes anything from*)
(* another: copies share nothing with what they are copies of, and         *)
(* add_property takes over all it is given.                                *)
NoSharedBlock ==
  /\ \A b \in Memory : \A i \in DOMAIN heap[b].own :
       Owns(b, i) =>
         /\ \A c \in Memory : \A k \in DOMAIN heap[c].own :
              heap[b].own[i] = heap[c].own[k] /\ Kept(c, k) => b = c /\ i = k
         /\ \A j \in Releases : calls[j].at # heap[b].own[i]
  /\ \A j, k \in Releases : calls[j].at = calls[k].at /\ calls[j].at \in Blocks => j = k

(* Whatever fails and wherever, no block is left that nobody can release,  *)
(* but for the two that the code does leave: the element add_property could*)
(* not attach and the answer handle of a request whose query was not copied*)
NoLeak ==
  \A q \in Allocated :
    \/ \E b \in Memory : \E i \in DOMAIN heap[b].own : heap[b].own[i] = q /\ Kept(b, i)
    \/ \E j \in Releases : calls[j].at = q
    \/ q \in lost

(* No block is released twice or used after it was released. *)
DeadNeverUsed == fault # "dead"

(* dsvdc.h: a name is optional in add_property.  Reading a tree by name is *)
(* defined for every tree, as long as there is memory.                     *)
NamesAreOptional == fault # "unnamed"
=============================================================================
