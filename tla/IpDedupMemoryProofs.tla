------------------------ MODULE IpDedupMemoryProofs -------------------------
(***************************************************************************)
(* For every capacity and every number of arguments and nodes: no step of  *)
(* the program, and no failing allocation, frees a block twice, reads one  *)
(* that was freed or loses one.                                            *)
(***************************************************************************)
EXTENDS IpDedupMemory, TLAPS

-----------------------------------------------------------------------------
\* Pointers of different kinds differ, and a pointer tells whose it is.
LEMMA Kinds ==
  /\ \A l : Struct(l).kind = "struct" /\ Arr(l).kind = "arr"
  /\ \A n : PathPtr(n).kind = "path" /\ ArgvPtr(n).kind = "argv"
  /\ \A w, n : LineBuf(w, n).kind = "line_buf"
  /\ \A w, ty, i : Node(w, ty, i).kind = "node"
BY DEF Struct, Arr, PathPtr, ArgvPtr, LineBuf, Node, Ptr

LEMMA Injective ==
  /\ \A l, m : Struct(l) = Struct(m) => l = m
  /\ \A l, m : Arr(l) = Arr(m) => l = m
  /\ \A n, m : PathPtr(n) = PathPtr(m) => n = m
  /\ \A w, v, ty, tz, i, j : Node(w, ty, i) = Node(v, tz, j) => Coll[w][ty] = Coll[v][tz] /\ i = j
BY DEF Struct, Arr, PathPtr, Node, Ptr

LEMMA CollInjective ==
  /\ \A w \in Who, ty \in Type : Coll[w][ty] \in Collected
  /\ \A w, v \in Who, ty, tz \in Type : Coll[w][ty] = Coll[v][tz] => w = v /\ ty = tz
BY DEF Who, Type, Coll, Collected

\* The names of the lists.
LEMMA Names3 ==
  /\ {"pile_of_shame", "infiles", "purge_infiles"} \subseteq Lists
  /\ Collected \subseteq Lists
  /\ "pile_of_shame" \notin Collected /\ "infiles" \notin Collected
  /\ "purge_infiles" \notin Collected
  /\ Names \in {"infiles", "purge_infiles"}
  /\ Target \in {"infiles", "purge_infiles"}
BY DEF Lists, Collected, Names, Target

LEMMA DarrIsCollected == TypeOK => Darr \in Collected /\ Darr \in Lists
BY CollInjective, Names3 DEF TypeOK, Darr

\* Whoever owns a pointer, told by its kind.
OwnedBy(p) ==
  \/ \E l \in Lists : list[l].there /\ p = Struct(l)
  \/ \E l \in Lists : list[l].arr /\ p = Arr(l)
  \/ p \in Items("pile_of_shame")
  \/ \E w \in Who, ty \in Type, i \in Nat : i \in 1..nodes[w][ty] /\ p = Node(w, ty, i)
  \/ push \in {"access", "pile"} /\ p = fpath

OwnedExact == \A p : p \in Owned <=> OwnedBy(p)

LEMMA OwnedIs == TypeOK => OwnedExact
<1> SUFFICES ASSUME TypeOK, NEW p PROVE p \in Owned <=> OwnedBy(p)
  BY DEF OwnedExact
<1>1. (\E l \in Lists : p \in FreedWithStruct(l)) <=>
        \/ \E l \in Lists : list[l].there /\ p = Struct(l)
        \/ \E l \in Lists : list[l].arr /\ p = Arr(l)
        \/ p \in Items("pile_of_shame")
  <2>1. \A l \in Lists : p \in ItemsFreed(l) => p \in Items("pile_of_shame")
    <3> SUFFICES ASSUME NEW l \in Lists, p \in ItemsFreed(l) PROVE p \in Items("pile_of_shame")
      OBVIOUS
    <3>1. CASE l = "pile_of_shame"
      BY <3>1 DEF ItemsFreed
    <3>2. CASE l # "pile_of_shame"
      <4>1. ~list[l].readonly /\ p \in Items(l)
        BY DEF ItemsFreed
      <4>2. ~list[l].there
        BY <3>2, <4>1 DEF TypeOK
      <4>3. list[l].size = 0 /\ Len(list[l].items) = 0
        BY <4>2 DEF TypeOK
      <4> QED
        BY <4>1, <4>3 DEF Items
    <3> QED
      BY <3>1, <3>2
  <2>2. p \in Items("pile_of_shame") => p \in ItemsFreed("pile_of_shame")
    BY Names3 DEF ItemsFreed, TypeOK
  <2> QED
    BY <2>1, <2>2, Names3 DEF FreedWithStruct, Freed
<1>2. (\E w \in Who : p \in AllNodes(w)) <=>
        \E w \in Who, ty \in Type, i \in Nat : i \in 1..nodes[w][ty] /\ p = Node(w, ty, i)
  BY DEF AllNodes, NodesOf, TypeOK
<1> QED
  BY <1>1, <1>2 DEF Owned, OwnedBy

LEMMA OwnedIsNext == TypeOK' => OwnedExact'
BY OwnedIs, PTL

-----------------------------------------------------------------------------
(***************************************************************************)
(* Types.                                                                  *)
(***************************************************************************)
ListsOK ==
  /\ list \in [Lists -> [there : BOOLEAN, arr : BOOLEAN, items : Seq(Pointer), size : Nat,
                         readonly : BOOLEAN]]
  /\ \A l \in Lists :
       /\ Len(list[l].items) <= list[l].size
       /\ list[l].arr <=> list[l].size > 0
       /\ list[l].arr => list[l].there
       /\ list[l].readonly <=> list[l].there /\ l # "pile_of_shame"

LEMMA PointerTypes ==
  /\ \A l \in Lists : Struct(l) \in Pointer /\ Arr(l) \in Pointer
  /\ \A n \in Nat : PathPtr(n) \in Pointer /\ ArgvPtr(n) \in Pointer
  /\ \A w \in Who, n \in Nat : LineBuf(w, n) \in Pointer
  /\ \A w \in Who, ty \in Type, i \in Nat : Node(w, ty, i) \in Pointer
BY CollInjective, Names3
   DEF Pointer, Kind, Ptr, Struct, Arr, PathPtr, ArgvPtr, LineBuf, Node

LEMMA ItemsTypes == TypeOK => \A l \in Lists : Items(l) \subseteq Pointer
BY DEF TypeOK, Items

LEMMA FreedTypes == TypeOK => \A l \in Lists : FreedWithStruct(l) \subseteq Pointer
BY ItemsTypes, PointerTypes DEF FreedWithStruct, Freed, ItemsFreed

LEMMA NewLists ==
  ASSUME TypeOK, NEW l \in Lists, NEW n \in Nat \ {0}, NEW ro \in BOOLEAN,
         ro <=> l # "pile_of_shame", New(l, n, ro)
  PROVE  ListsOK' /\ live' \subseteq Pointer
<1> DEFINE d == new_dynarray(n, ro)
<1>1. /\ d \in [there : BOOLEAN, arr : BOOLEAN, items : Seq(Pointer), size : Nat,
                readonly : BOOLEAN]
      /\ d.there /\ d.arr /\ d.items = << >> /\ d.size = n /\ d.readonly = ro
  BY DEF new_dynarray
<1>2. list' = [list EXCEPT ![l] = d] /\ live' = live \union {Struct(l), Arr(l)}
  BY DEF New
<1>3. live' \subseteq Pointer
  BY <1>2, PointerTypes DEF TypeOK
<1> HIDE DEF d
<1>4. \A m \in Lists : list'[m] = IF m = l THEN d ELSE list[m]
  BY <1>2 DEF TypeOK
<1>5. Len(d.items) = 0
  BY <1>1
<1>6. list' \in [Lists -> [there : BOOLEAN, arr : BOOLEAN, items : Seq(Pointer), size : Nat,
                           readonly : BOOLEAN]]
  BY <1>1, <1>2 DEF TypeOK
<1>7. ASSUME NEW m \in Lists
      PROVE  /\ Len(list'[m].items) <= list'[m].size
             /\ list'[m].arr <=> list'[m].size > 0
             /\ list'[m].arr => list'[m].there
             /\ list'[m].readonly <=> list'[m].there /\ m # "pile_of_shame"
  <2>1. CASE m = l
    BY <2>1, <1>1, <1>4, <1>5
  <2>2. CASE m # l
    BY <2>2, <1>4 DEF TypeOK
  <2> QED
    BY <2>1, <2>2
<1> QED
  BY <1>3, <1>6, <1>7 DEF ListsOK

LEMMA NewReadonlyLists ==
  ASSUME TypeOK, NEW l \in Lists, l # "pile_of_shame", NEW n \in Nat, n # 0, New(l, n, TRUE)
  PROVE  ListsOK' /\ live' \subseteq Pointer
<1>1. n \in Nat \ {0} /\ TRUE \in BOOLEAN /\ (TRUE <=> l # "pile_of_shame")
  OBVIOUS
<1> QED
  BY <1>1, NewLists

LEMMA AppendLists ==
  ASSUME TypeOK, NEW l \in Lists, NEW p \in Pointer, AppendItem(l, p)
  PROVE  /\ ListsOK' /\ live' = live
         /\ \A m \in Lists \ {l} : list'[m] = list[m]
         /\ list'[l].there = list[l].there /\ list'[l].arr = list[l].arr
         /\ list'[l].items = Append(list[l].items, p)
<1> DEFINE d == Appended(list[l], p)
<1>1. list' = [list EXCEPT ![l] = d]
  BY DEF AppendItem, TypeOK
<1>2. /\ list[l] \in [there : BOOLEAN, arr : BOOLEAN, items : Seq(Pointer), size : Nat,
                      readonly : BOOLEAN]
      /\ list[l].arr /\ list[l].size > 0 /\ list[l].there
      /\ list[l].readonly <=> l # "pile_of_shame"
      /\ Len(list[l].items) <= list[l].size
  BY DEF TypeOK, AppendItem
<1>3. /\ d \in [there : BOOLEAN, arr : BOOLEAN, items : Seq(Pointer), size : Nat,
                readonly : BOOLEAN]
      /\ d.there = list[l].there /\ d.arr = list[l].arr /\ d.readonly = list[l].readonly
      /\ d.items = Append(list[l].items, p)
      /\ d.size = IF Len(list[l].items) + 1 > list[l].size THEN 2 * list[l].size
                  ELSE list[l].size
  BY <1>2 DEF Appended
<1>4. Len(d.items) = Len(list[l].items) + 1
  BY <1>2, <1>3
<1>5. Len(d.items) <= d.size /\ d.size > 0
  BY <1>2, <1>3, <1>4
<1> HIDE DEF d
<1>6. \A m \in Lists : list'[m] = IF m = l THEN d ELSE list[m]
  BY <1>1 DEF TypeOK
<1>7. list' \in [Lists -> [there : BOOLEAN, arr : BOOLEAN, items : Seq(Pointer), size : Nat,
                           readonly : BOOLEAN]]
  BY <1>1, <1>3 DEF TypeOK
<1>8. ASSUME NEW m \in Lists
      PROVE  /\ Len(list'[m].items) <= list'[m].size
             /\ list'[m].arr <=> list'[m].size > 0
             /\ list'[m].arr => list'[m].there
             /\ list'[m].readonly <=> list'[m].there /\ m # "pile_of_shame"
  <2>1. CASE m = l
    BY <2>1, <1>2, <1>3, <1>5, <1>6
  <2>2. CASE m # l
    BY <2>2, <1>6 DEF TypeOK
  <2> QED
    BY <2>1, <2>2
<1> QED
  BY <1>3, <1>6, <1>7, <1>8 DEF ListsOK, AppendItem

\* dynarray_free() inside a realloc() that fails, or of the array alone.
LEMMA EmptiedLists ==
  ASSUME TypeOK, NEW l \in Lists, list' = [list EXCEPT ![l] = Emptied(@)]
  PROVE  /\ ListsOK'
         /\ \A m \in Lists \ {l} : list'[m] = list[m]
         /\ list'[l] = Emptied(list[l]) /\ list'[l].there = list[l].there
         /\ ~list'[l].arr /\ list'[l].items = << >>
<1> DEFINE d == Emptied(list[l])
<1>1. list' = [list EXCEPT ![l] = d]
  BY DEF TypeOK
<1>2. list[l] \in [there : BOOLEAN, arr : BOOLEAN, items : Seq(Pointer), size : Nat,
                   readonly : BOOLEAN]
  BY DEF TypeOK
<1>3. /\ d \in [there : BOOLEAN, arr : BOOLEAN, items : Seq(Pointer), size : Nat,
                readonly : BOOLEAN]
      /\ d.there = list[l].there /\ ~d.arr /\ d.readonly = list[l].readonly
      /\ d.items = << >> /\ d.size = 0
  BY <1>2 DEF Emptied
<1>4. Len(d.items) = 0
  BY <1>3
<1>5. d = Emptied(list[l])
  OBVIOUS
<1> HIDE DEF d
<1>6. \A m \in Lists : list'[m] = IF m = l THEN d ELSE list[m]
  BY <1>1 DEF TypeOK
<1>7. list' \in [Lists -> [there : BOOLEAN, arr : BOOLEAN, items : Seq(Pointer), size : Nat,
                           readonly : BOOLEAN]]
  BY <1>1, <1>3 DEF TypeOK
<1>8. ASSUME NEW m \in Lists
      PROVE  /\ Len(list'[m].items) <= list'[m].size
             /\ list'[m].arr <=> list'[m].size > 0
             /\ list'[m].arr => list'[m].there
             /\ list'[m].readonly <=> list'[m].there /\ m # "pile_of_shame"
  <2>1. CASE m = l
    BY <2>1, <1>3, <1>4, <1>6 DEF TypeOK
  <2>2. CASE m # l
    BY <2>2, <1>6 DEF TypeOK
  <2> QED
    BY <2>1, <2>2
<1> QED
  BY <1>3, <1>5, <1>6, <1>7, <1>8 DEF ListsOK

\* The pointer to a list becomes NULL.
LEMMA NoLists ==
  ASSUME TypeOK, NEW l \in Lists, list' = [list EXCEPT ![l] = NoList]
  PROVE  /\ ListsOK'
         /\ \A m \in Lists \ {l} : list'[m] = list[m]
         /\ ~list'[l].there /\ ~list'[l].arr /\ list'[l].items = << >>
<1>1. /\ NoList \in [there : BOOLEAN, arr : BOOLEAN, items : Seq(Pointer), size : Nat,
                     readonly : BOOLEAN]
      /\ ~NoList.there /\ ~NoList.arr /\ ~NoList.readonly
      /\ NoList.items = << >> /\ NoList.size = 0
  BY DEF NoList
<1>2. Len(NoList.items) = 0
  BY <1>1
<1>3. \A m \in Lists : list'[m] = IF m = l THEN NoList ELSE list[m]
  BY DEF TypeOK
<1>4. list' \in [Lists -> [there : BOOLEAN, arr : BOOLEAN, items : Seq(Pointer), size : Nat,
                           readonly : BOOLEAN]]
  BY <1>1 DEF TypeOK
<1>5. ASSUME NEW m \in Lists
      PROVE  /\ Len(list'[m].items) <= list'[m].size
             /\ list'[m].arr <=> list'[m].size > 0
             /\ list'[m].arr => list'[m].there
             /\ list'[m].readonly <=> list'[m].there /\ m # "pile_of_shame"
  <2>1. CASE m = l
    BY <2>1, <1>1, <1>2, <1>3
  <2>2. CASE m # l
    BY <2>2, <1>3 DEF TypeOK
  <2> QED
    BY <2>1, <2>2
<1> QED
  BY <1>1, <1>3, <1>4, <1>5 DEF ListsOK

\* A list without a struct, or without an array, has no items.
LEMMA NoItems == TypeOK => \A l \in Lists : ~list[l].arr => Items(l) = {} /\ list[l].items = << >>
<1> SUFFICES ASSUME TypeOK, NEW l \in Lists, ~list[l].arr
             PROVE  Items(l) = {} /\ list[l].items = << >>
  OBVIOUS
<1>1. list[l].items \in Seq(Pointer) /\ Len(list[l].items) = 0
  BY DEF TypeOK
<1> QED
  BY <1>1 DEF Items

\* The items of a list with one more.
LEMMA AppendedItems ==
  ASSUME NEW s \in Seq(Pointer), NEW q \in Pointer
  PROVE  {Append(s, q)[i] : i \in 1..Len(Append(s, q))} = {s[i] : i \in 1..Len(s)} \union {q}
<1>1. Len(Append(s, q)) = Len(s) + 1 /\ Len(s) \in Nat
  OBVIOUS
<1>2. \A i \in 1..Len(s) : Append(s, q)[i] = s[i]
  OBVIOUS
<1>3. Append(s, q)[Len(s) + 1] = q
  OBVIOUS
<1>4. 1..Len(Append(s, q)) = (1..Len(s)) \union {Len(s) + 1}
  BY <1>1
<1> HIDE DEF Pointer
<1> DEFINE a == Append(s, q)
<1> HIDE DEF a
<1>5. {a[i] : i \in (1..Len(s)) \union {Len(s) + 1}} = {s[i] : i \in 1..Len(s)} \union {q}
  BY <1>2, <1>3 DEF a
<1> QED
  BY <1>4, <1>5 DEF a

-----------------------------------------------------------------------------
(***************************************************************************)
(* Who owns what, before and after a step.                                 *)
(***************************************************************************)
OwnsStruct(p) == \E l \in Lists : list[l].there /\ p = Struct(l)
OwnsArr(p) == \E l \in Lists : list[l].arr /\ p = Arr(l)
OwnsPath(p) == p \in Items("pile_of_shame")
OwnsNode(p) == \E w \in Who, ty \in Type, i \in Nat : i \in 1..nodes[w][ty] /\ p = Node(w, ty, i)
Pushes(p) == push \in {"access", "pile"} /\ p = fpath

LEMMA OwnedParts ==
  ASSUME TypeOK
  PROVE  \A p : p \in Owned <=> OwnsStruct(p) \/ OwnsArr(p) \/ OwnsPath(p) \/ OwnsNode(p) \/ Pushes(p)
BY OwnedIs DEF OwnedExact, OwnedBy, OwnsStruct, OwnsArr, OwnsPath, OwnsNode, Pushes

LEMMA OwnedPartsNext ==
  TypeOK' => \A p : p \in Owned' <=> \/ OwnsStruct(p)' \/ OwnsArr(p)' \/ OwnsPath(p)'
                                     \/ OwnsNode(p)' \/ Pushes(p)'
BY OwnedIsNext DEF OwnedExact, OwnedBy, OwnsStruct, OwnsArr, OwnsPath, OwnsNode, Pushes

LEMMA OwnedKinds ==
  ASSUME TypeOK, PathsOnce
  PROVE  \A p : /\ OwnsStruct(p) => p.kind = "struct"
                /\ OwnsArr(p) => p.kind = "arr"
                /\ OwnsPath(p) => p.kind = "path"
                /\ OwnsNode(p) => p.kind = "node"
                /\ Pushes(p) => p.kind = "path"
BY Kinds DEF OwnsStruct, OwnsArr, OwnsPath, OwnsNode, Pushes, Items, PathsOnce

\* A step frees what is owned, allocates what will be owned, or a line
\* buffer, and drops nothing else but the struct of a list that is lost.
LEMMA HeapStep ==
  ASSUME TypeOK, OwnedIsLive, NothingLost, NEW F, NEW N,
         live' = (live \ F) \union N, lost \subseteq lost',
         \A p : p \in Owned' => (p \in Owned /\ p \notin F) \/ p \in N,
         \A p : p \in Owned /\ p \notin F => p \in Owned' \/ \E l \in lost' : p = Struct(l),
         \A p \in N : p \in Owned' \/ p.kind = "line_buf"
  PROVE  OwnedIsLive' /\ NothingLost'
<1>1. OwnedIsLive'
  BY DEF OwnedIsLive
<1>2. NothingLost'
  <2> SUFFICES ASSUME NEW b \in live'
               PROVE  b \in Owned' \/ b.kind = "line_buf" \/ \E l \in lost' : b = Struct(l)
    BY DEF NothingLost
  <2>1. CASE b \in N
    BY <2>1
  <2>2. CASE b \in live \ F
    <3>1. b \in Owned \/ b.kind = "line_buf" \/ \E l \in lost : b = Struct(l)
      BY <2>2 DEF NothingLost
    <3> QED
      BY <2>2, <3>1
  <2> QED
    BY <2>1, <2>2
<1> QED
  BY <1>1, <1>2

\* A step only frees.
LEMMA HeapShrinks ==
  ASSUME TypeOK, OwnedIsLive, NothingLost, NEW F, live' = live \ F, UNCHANGED lost,
         \A p : p \in Owned' <=> p \in Owned /\ p \notin F
  PROVE  OwnedIsLive' /\ NothingLost'
<1>1. OwnedIsLive'
  BY DEF OwnedIsLive
<1>2. NothingLost'
  BY DEF NothingLost
<1> QED
  BY <1>1, <1>2

\* Nothing of the heap changes hands.
LEMMA HeapKept ==
  ASSUME TypeOK, TypeOK', OwnedIsLive, NothingLost, UNCHANGED <<list, nodes, live, lost>>,
         \A p : Pushes(p)' <=> Pushes(p)
  PROVE  OwnedIsLive' /\ NothingLost'
<1>1. \A p : p \in Owned' <=> p \in Owned
  BY OwnedParts, OwnedPartsNext DEF OwnsStruct, OwnsArr, OwnsPath, OwnsNode, Items
<1> QED
  BY <1>1, HeapStep, live' = (live \ {}) \union {}

\* new_dynarray()
LEMMA HeapNew ==
  ASSUME TypeOK, TypeOK', OwnedIsLive, NothingLost,
         NEW l \in Lists, NEW n \in Nat \ {0}, NEW ro \in BOOLEAN,
         New(l, n, ro), ~list[l].there, UNCHANGED <<nodes, lost>>,
         \A p : Pushes(p)' <=> Pushes(p)
  PROVE  OwnedIsLive' /\ NothingLost'
<1>1. /\ \A m \in Lists \ {l} : list'[m] = list[m]
      /\ list'[l].there /\ list'[l].arr /\ list'[l].items = << >>
  BY DEF New, new_dynarray, TypeOK
<1>2. list[l].items = << >>
  BY NoItems DEF TypeOK
<1>3. \A p : OwnsPath(p)' <=> OwnsPath(p)
  BY <1>1, <1>2, Names3 DEF OwnsPath, Items
<1>4. \A p : OwnsStruct(p)' <=> OwnsStruct(p) \/ p = Struct(l)
  BY <1>1 DEF OwnsStruct
<1>5. \A p : OwnsArr(p)' <=> OwnsArr(p) \/ p = Arr(l)
  BY <1>1 DEF OwnsArr
<1>6. \A p : OwnsNode(p)' <=> OwnsNode(p)
  BY DEF OwnsNode
<1>7. \A p : p \in Owned' <=> p \in Owned \/ p \in {Struct(l), Arr(l)}
  BY <1>3, <1>4, <1>5, <1>6, OwnedParts, OwnedPartsNext
<1>8. live' = (live \ {}) \union {Struct(l), Arr(l)}
  BY DEF New
<1> QED
  BY <1>7, <1>8, HeapStep

\* dynarray_append(): only the pile owns its items.
LEMMA HeapAppend ==
  ASSUME TypeOK, TypeOK', OwnedIsLive, NothingLost,
         NEW l \in Lists, NEW q \in Pointer, AppendItem(l, q), UNCHANGED <<nodes, lost>>,
         IF l = "pile_of_shame" THEN Pushes(q) /\ \A p : ~Pushes(p)'
         ELSE \A p : Pushes(p)' <=> Pushes(p)
  PROVE  OwnedIsLive' /\ NothingLost'
<1>1. /\ \A m \in Lists \ {l} : list'[m] = list[m]
      /\ list'[l].there = list[l].there /\ list'[l].arr = list[l].arr
      /\ list'[l].items = Append(list[l].items, q)
      /\ live' = live
  BY AppendLists
<1>2. Items(l)' = Items(l) \union {q}
  BY <1>1, AppendedItems DEF TypeOK, Items
<1>3. \A p : OwnsPath(p)' <=> OwnsPath(p) \/ (l = "pile_of_shame" /\ p = q)
  <2>1. CASE l = "pile_of_shame"
    BY <2>1, <1>2 DEF OwnsPath
  <2>2. CASE l # "pile_of_shame"
    <3>1. Items("pile_of_shame")' = Items("pile_of_shame")
      BY <2>2, <1>1, Names3 DEF Items
    <3> QED
      BY <2>2, <3>1 DEF OwnsPath
  <2> QED
    BY <2>1, <2>2
<1>4. \A p : (OwnsStruct(p)' <=> OwnsStruct(p)) /\ (OwnsArr(p)' <=> OwnsArr(p))
  BY <1>1 DEF OwnsStruct, OwnsArr
<1>5. \A p : OwnsNode(p)' <=> OwnsNode(p)
  BY DEF OwnsNode
<1>6. \A p : p \in Owned' <=> p \in Owned
  <2>1. CASE l = "pile_of_shame"
    BY <2>1, <1>3, <1>4, <1>5, OwnedParts, OwnedPartsNext DEF Pushes
  <2>2. CASE l # "pile_of_shame"
    BY <2>2, <1>3, <1>4, <1>5, OwnedParts, OwnedPartsNext
  <2> QED
    BY <2>1, <2>2
<1> QED
  BY <1>1, <1>6, HeapStep, live' = (live \ {}) \union {}

\* What dynarray_free() and dynarray_free_ptr() free.
LEMMA FreedParts ==
  ASSUME TypeOK, NEW l \in Lists
  PROVE  /\ \A p : p \in Freed(l) <=> \/ list[l].arr /\ p = Arr(l)
                                      \/ l = "pile_of_shame" /\ OwnsPath(p)
         /\ \A p : p \in FreedWithStruct(l) <=> p \in Freed(l) \/ (list[l].there /\ p = Struct(l))
         /\ Freed(l) \subseteq FreedWithStruct(l) /\ FreedWithStruct(l) \subseteq Owned
<1>1. l = "pile_of_shame" => ItemsFreed(l) = Items("pile_of_shame")
  BY DEF TypeOK, ItemsFreed
<1>2. l # "pile_of_shame" => ItemsFreed(l) = {}
  <2> SUFFICES ASSUME l # "pile_of_shame", ~list[l].readonly PROVE Items(l) = {}
    BY DEF ItemsFreed
  <2>1. ~list[l].arr
    BY DEF TypeOK
  <2> QED
    BY <2>1, NoItems
<1>3. \A p : p \in Freed(l) <=> \/ list[l].arr /\ p = Arr(l)
                                \/ l = "pile_of_shame" /\ OwnsPath(p)
  BY <1>1, <1>2 DEF Freed, OwnsPath
<1>4. FreedWithStruct(l) \subseteq Owned
  BY DEF Owned
<1> QED
  BY <1>3, <1>4 DEF FreedWithStruct

LEMMA FreedOnce == TypeOK /\ PathsOnce => \A l \in Lists : ~FreedTwice(l)
<1> SUFFICES ASSUME TypeOK, PathsOnce, NEW l \in Lists, FreedTwice(l) PROVE FALSE
  OBVIOUS
<1>1. CASE l = "pile_of_shame"
  BY <1>1 DEF FreedTwice, PathsOnce
<1>2. CASE l # "pile_of_shame"
  <2>1. ~list[l].arr
    BY <1>2 DEF FreedTwice, TypeOK
  <2>2. Len(list[l].items) = 0
    BY <2>1, NoItems DEF TypeOK
  <2> QED
    BY <2>2 DEF FreedTwice
<1> QED
  BY <1>1, <1>2

\* A list is freed with its struct.
LEMMA HeapFreed ==
  ASSUME TypeOK, TypeOK', OwnedIsLive, NothingLost, PathsOnce, NEW l \in Lists,
         list' = [list EXCEPT ![l] = NoList], live' = live \ FreedWithStruct(l),
         UNCHANGED <<nodes, lost>>, \A p : ~Pushes(p), \A p : ~Pushes(p)'
  PROVE  OwnedIsLive' /\ NothingLost'
<1>1. /\ \A m \in Lists \ {l} : list'[m] = list[m]
      /\ ~list'[l].there /\ ~list'[l].arr /\ list'[l].items = << >>
  BY NoLists
<1>2. \A p : OwnsStruct(p)' <=> OwnsStruct(p) /\ ~(list[l].there /\ p = Struct(l))
  BY <1>1, Injective DEF OwnsStruct
<1>3. \A p : OwnsArr(p)' <=> OwnsArr(p) /\ ~(list[l].arr /\ p = Arr(l))
  BY <1>1, Injective DEF OwnsArr
<1>4. \A p : OwnsPath(p)' <=> OwnsPath(p) /\ l # "pile_of_shame"
  BY <1>1, Names3 DEF OwnsPath, Items
<1>5. \A p : OwnsNode(p)' <=> OwnsNode(p)
  BY DEF OwnsNode
<1>6. \A p : p \in FreedWithStruct(l) <=> \/ list[l].arr /\ p = Arr(l)
                                          \/ l = "pile_of_shame" /\ OwnsPath(p)
                                          \/ list[l].there /\ p = Struct(l)
  BY FreedParts
<1>7. Struct(l).kind = "struct" /\ Arr(l).kind = "arr"
  BY Kinds
<1>8. \A p : p \in Owned' <=> p \in Owned /\ p \notin FreedWithStruct(l)
  BY <1>2, <1>3, <1>4, <1>5, <1>6, <1>7, OwnedParts, OwnedPartsNext, OwnedKinds
<1> QED
  BY <1>8, HeapShrinks

\* dynarray_free_ptr()
LEMMA HeapFreePtr ==
  ASSUME TypeOK, TypeOK', OwnedIsLive, NothingLost, MemorySafe, PathsOnce, NEW l \in Lists,
         FreePtr(l), UNCHANGED <<nodes, lost>>, \A p : ~Pushes(p), \A p : ~Pushes(p)'
  PROVE  OwnedIsLive' /\ NothingLost' /\ MemorySafe'
<1>1. OwnedIsLive' /\ NothingLost'
  BY HeapFreed DEF FreePtr, ReleaseList
<1>2. FreedWithStruct(l) \subseteq live
  BY FreedParts DEF OwnedIsLive
<1>3. MemorySafe'
  BY <1>2, FreedOnce DEF FreePtr, ReleaseList, MemorySafe
<1> QED
  BY <1>1, <1>3

\* The array is freed and its struct kept, or dropped if the list is lost.
LEMMA HeapFreedArray ==
  ASSUME TypeOK, TypeOK', OwnedIsLive, NothingLost, PathsOnce, NEW l \in Lists,
         \A m \in Lists \ {l} : list'[m] = list[m],
         ~list'[l].arr, list'[l].items = << >>,
         list'[l].there = list[l].there \/ (~list'[l].there /\ l \in lost'),
         NEW others, \A p : Pushes(p) <=> p \in others, \A p : ~Pushes(p)',
         live' = live \ (Freed(l) \union others),
         lost \subseteq lost', UNCHANGED nodes
  PROVE  OwnedIsLive' /\ NothingLost' /\ (Freed(l) \union others) \subseteq live
<1>1. \A p : OwnsStruct(p)' => OwnsStruct(p)
  BY DEF OwnsStruct
<1>2. \A p : OwnsStruct(p) => OwnsStruct(p)' \/ \E m \in lost' : p = Struct(m)
  BY DEF OwnsStruct
<1>3. \A p : OwnsArr(p)' <=> OwnsArr(p) /\ ~(list[l].arr /\ p = Arr(l))
  BY Injective DEF OwnsArr
<1>4. \A p : OwnsPath(p)' <=> OwnsPath(p) /\ l # "pile_of_shame"
  BY Names3 DEF OwnsPath, Items
<1>5. \A p : OwnsNode(p)' <=> OwnsNode(p)
  BY DEF OwnsNode
<1>6. /\ \A p : p \in Freed(l) <=> \/ list[l].arr /\ p = Arr(l)
                                   \/ l = "pile_of_shame" /\ OwnsPath(p)
      /\ Freed(l) \subseteq Owned
  BY FreedParts
<1>7. Arr(l).kind = "arr"
  BY Kinds
<1>8. OwnsPath(fpath) /\ Pushes(fpath) => l = "pile_of_shame"
  <2> SUFFICES ASSUME OwnsPath(fpath), Pushes(fpath) PROVE FALSE
    OBVIOUS
  <2>1. fpath = PathPtr(args - 1) /\ args > 0 /\ push \in {"access", "pile"}
    BY DEF PathsOnce, Pushes
  <2>2. PICK i \in 1..Len(list["pile_of_shame"].items) : list["pile_of_shame"].items[i] = fpath
    BY DEF OwnsPath, Items
  <2>3. PICK n \in 0..(args - 1) - 1 : fpath = PathPtr(n)
    BY <2>1, <2>2 DEF PathsOnce
  <2>4. n = args - 1
    BY <2>1, <2>3, Injective
  <2> QED
    BY <2>3, <2>4 DEF TypeOK
<1>9. \A p : p \in others => p = fpath
  BY DEF Pushes
<1>10. \A p : p \in Owned' => p \in Owned /\ p \notin Freed(l) \union others
  BY <1>1, <1>3, <1>4, <1>5, <1>6, <1>7, <1>8, <1>9, OwnedParts, OwnedPartsNext, OwnedKinds
<1>11. \A p : p \in Owned /\ p \notin Freed(l) \union others
           => p \in Owned' \/ \E m \in lost' : p = Struct(m)
  BY <1>2, <1>3, <1>4, <1>5, <1>6, OwnedParts, OwnedPartsNext
<1>12. live' = (live \ (Freed(l) \union others)) \union {}
  OBVIOUS
<1>13. others \subseteq Owned
  BY OwnedParts
<1> QED
  BY <1>6, <1>10, <1>11, <1>12, <1>13, HeapStep DEF OwnedIsLive

\* The path is freed before it is in the pile.
LEMMA HeapRelease ==
  ASSUME TypeOK, TypeOK', OwnedIsLive, NothingLost, MemorySafe, PathsOnce,
         Release({fpath}), push \in {"access", "pile"}, \A p : ~Pushes(p)',
         UNCHANGED <<list, nodes, lost>>
  PROVE  OwnedIsLive' /\ NothingLost' /\ MemorySafe'
<1>1. ~OwnsPath(fpath)
  <2> SUFFICES ASSUME OwnsPath(fpath) PROVE FALSE
    OBVIOUS
  <2>1. fpath = PathPtr(args - 1) /\ args > 0
    BY DEF PathsOnce
  <2>2. PICK i \in 1..Len(list["pile_of_shame"].items) : list["pile_of_shame"].items[i] = fpath
    BY DEF OwnsPath, Items
  <2>3. PICK n \in 0..(args - 1) - 1 : fpath = PathPtr(n)
    BY <2>2 DEF PathsOnce
  <2>4. n = args - 1
    BY <2>1, <2>3, Injective
  <2> QED
    BY <2>3, <2>4 DEF TypeOK
<1>2. Pushes(fpath) /\ \A p : Pushes(p) => p = fpath
  BY DEF Pushes
<1>3. \A p : /\ OwnsStruct(p)' <=> OwnsStruct(p)
             /\ OwnsArr(p)' <=> OwnsArr(p)
             /\ OwnsPath(p)' <=> OwnsPath(p)
             /\ OwnsNode(p)' <=> OwnsNode(p)
  BY DEF OwnsStruct, OwnsArr, OwnsPath, OwnsNode, Items
<1>4. \A p : p \in Owned' <=> p \in Owned /\ p \notin {fpath}
  BY <1>1, <1>2, <1>3, OwnedParts, OwnedPartsNext, OwnedKinds
<1>5. live' = live \ {fpath} /\ fpath \in live
  BY <1>2, OwnedParts DEF Release, OwnedIsLive
<1>6. MemorySafe'
  BY <1>5 DEF Release, MemorySafe
<1> QED
  BY <1>4, <1>5, <1>6, HeapShrinks

\* The trees of w have other nodes.
LEMMA NodesSet ==
  ASSUME TypeOK, NEW w \in Who, NEW new \in [Type -> Nat], SetNodes(w, new)
  PROVE  \A p : OwnsNode(p)' <=> (OwnsNode(p) /\ p \notin AllNodes(w)) \/ p \in NodesAre(w, new)
<1>2. /\ nodes'[w] = new
      /\ \A v \in Who \ {w} : nodes'[v] = nodes[v]
  BY DEF SetNodes, TypeOK
<1>3. \A p : p \in AllNodes(w) <=>
               \E ty \in Type, i \in Nat : i \in 1..nodes[w][ty] /\ p = Node(w, ty, i)
  <2>1. \A ty \in Type : nodes[w][ty] \in Nat
    BY DEF TypeOK
  <2>2. \A ty \in Type : \A p : p \in NodesOf(w, ty, nodes[w][ty]) <=>
                             \E i \in Nat : i \in 1..nodes[w][ty] /\ p = Node(w, ty, i)
    BY <2>1 DEF NodesOf
  <2> QED
    BY <2>2 DEF AllNodes
<1>4. \A p : p \in NodesAre(w, new) <=>
               \E ty \in Type, i \in Nat : i \in 1..new[ty] /\ p = Node(w, ty, i)
  BY DEF NodesAre, NodesOf
<1>5. ASSUME NEW p
      PROVE  OwnsNode(p)' <=> (OwnsNode(p) /\ p \notin AllNodes(w)) \/ p \in NodesAre(w, new)
  <2>1. ASSUME OwnsNode(p)'
        PROVE  (OwnsNode(p) /\ p \notin AllNodes(w)) \/ p \in NodesAre(w, new)
    <3>1. PICK v \in Who, ty \in Type, i \in Nat : i \in 1..nodes'[v][ty] /\ p = Node(v, ty, i)
      BY <2>1 DEF OwnsNode
    <3>2. CASE v = w
      BY <3>1, <3>2, <1>2, <1>4
    <3>3. CASE v # w
      <4>1. OwnsNode(p)
        BY <3>1, <3>3, <1>2 DEF OwnsNode
      <4>2. p \notin AllNodes(w)
        BY <3>1, <3>3, <1>3, Injective, CollInjective
      <4> QED
        BY <4>1, <4>2
    <3> QED
      BY <3>2, <3>3
  <2>2. ASSUME OwnsNode(p), p \notin AllNodes(w) PROVE OwnsNode(p)'
    <3>1. PICK v \in Who, ty \in Type, i \in Nat : i \in 1..nodes[v][ty] /\ p = Node(v, ty, i)
      BY <2>2 DEF OwnsNode
    <3>2. v # w
      BY <2>2, <3>1, <1>3
    <3> QED
      BY <3>1, <3>2, <1>2 DEF OwnsNode
  <2>3. ASSUME p \in NodesAre(w, new) PROVE OwnsNode(p)'
    BY <2>3, <1>2, <1>4 DEF OwnsNode
  <2> QED
    BY <2>1, <2>2, <2>3
<1> QED
  BY <1>5

\* Addresses are inserted: the nodes are new, and a buffer stays.
LEMMA HeapNodes ==
  ASSUME TypeOK, TypeOK', OwnedIsLive, NothingLost, PathsOnce, NEW w \in Who,
         NEW new \in [Type -> Nat], SetNodes(w, new), NEW bufs,
         \A b \in bufs : b.kind = "line_buf",
         live' = (live \ AllNodes(w)) \union (NodesAre(w, new) \union bufs),
         UNCHANGED <<list, lost>>, \A p : Pushes(p)' <=> Pushes(p)
  PROVE  OwnedIsLive' /\ NothingLost'
<1>1. \A p : /\ OwnsStruct(p)' <=> OwnsStruct(p)
             /\ OwnsArr(p)' <=> OwnsArr(p)
             /\ OwnsPath(p)' <=> OwnsPath(p)
  BY DEF OwnsStruct, OwnsArr, OwnsPath, Items
<1>2. \A p : OwnsNode(p)' <=> (OwnsNode(p) /\ p \notin AllNodes(w)) \/ p \in NodesAre(w, new)
  BY NodesSet
<1>6. \A p \in AllNodes(w) : p.kind = "node"
  BY Kinds DEF AllNodes, NodesOf
<1>7. \A p : p \in Owned' <=> (p \in Owned /\ p \notin AllNodes(w)) \/ p \in NodesAre(w, new)
  BY <1>1, <1>2, <1>6, OwnedParts, OwnedPartsNext, OwnedKinds
<1>8. /\ \A p : p \in Owned' => (p \in Owned /\ p \notin AllNodes(w))
                                  \/ p \in NodesAre(w, new) \union bufs
      /\ \A p : p \in Owned /\ p \notin AllNodes(w)
             => p \in Owned' \/ \E m \in lost' : p = Struct(m)
      /\ \A p \in NodesAre(w, new) \union bufs : p \in Owned' \/ p.kind = "line_buf"
      /\ lost \subseteq lost'
  BY <1>7
<1> QED
  BY <1>8, HeapStep

\* The trees of w are destroyed.
LEMMA HeapDestroyed ==
  ASSUME TypeOK, TypeOK', OwnedIsLive, NothingLost, MemorySafe, PathsOnce, NEW w \in Who,
         SetNodes(w, [ty \in Type |-> 0]), Release(AllNodes(w)),
         UNCHANGED <<list, lost>>, \A p : Pushes(p)' <=> Pushes(p)
  PROVE  OwnedIsLive' /\ NothingLost' /\ MemorySafe'
<1> DEFINE new == [ty \in Type |-> 0]
<1>1. new \in [Type -> Nat] /\ NodesAre(w, new) = {}
  BY DEF NodesAre, NodesOf
<1>2. live' = (live \ AllNodes(w)) \union (NodesAre(w, new) \union {})
  BY <1>1 DEF Release
<1>3. \A b \in {} : b.kind = "line_buf"
  OBVIOUS
<1>4. OwnedIsLive' /\ NothingLost'
  BY <1>1, <1>2, <1>3, HeapNodes
<1>5. AllNodes(w) \subseteq live
  BY DEF OwnedIsLive, Owned
<1> QED
  BY <1>4, <1>5 DEF Release, MemorySafe

\* A collected list is freed after the main trees got other nodes.
LEMMA HeapPurged ==
  ASSUME TypeOK, TypeOK', OwnedIsLive, NothingLost, PathsOnce, NEW w \in Who,
         NEW new \in [Type -> Nat], SetNodes(w, new), NEW l \in Lists, l # "pile_of_shame",
         list' = [list EXCEPT ![l] = NoList],
         live' = ((live \ AllNodes(w)) \union NodesAre(w, new)) \ FreedWithStruct(l),
         UNCHANGED lost, \A p : ~Pushes(p), \A p : ~Pushes(p)'
  PROVE  OwnedIsLive' /\ NothingLost'
<1>1. /\ \A m \in Lists \ {l} : list'[m] = list[m]
      /\ ~list'[l].there /\ ~list'[l].arr /\ list'[l].items = << >>
  BY NoLists
<1>2. \A p : OwnsStruct(p)' <=> OwnsStruct(p) /\ ~(list[l].there /\ p = Struct(l))
  BY <1>1, Injective DEF OwnsStruct
<1>3. \A p : OwnsArr(p)' <=> OwnsArr(p) /\ ~(list[l].arr /\ p = Arr(l))
  BY <1>1, Injective DEF OwnsArr
<1>4. \A p : OwnsPath(p)' <=> OwnsPath(p)
  BY <1>1, Names3 DEF OwnsPath, Items
<1>5. \A p : OwnsNode(p)' <=> (OwnsNode(p) /\ p \notin AllNodes(w)) \/ p \in NodesAre(w, new)
  BY NodesSet
<1>6. \A p : p \in FreedWithStruct(l) <=> \/ list[l].arr /\ p = Arr(l)
                                          \/ list[l].there /\ p = Struct(l)
  BY FreedParts
<1>7. Struct(l).kind = "struct" /\ Arr(l).kind = "arr"
  BY Kinds
<1>8. /\ \A p \in AllNodes(w) : p.kind = "node"
      /\ \A p \in NodesAre(w, new) : p.kind = "node"
  BY Kinds DEF AllNodes, NodesAre, NodesOf
<1>9. \A p : p \in Owned' <=>
               p \notin FreedWithStruct(l)
                 /\ ((p \in Owned /\ p \notin AllNodes(w)) \/ p \in NodesAre(w, new))
  BY <1>2, <1>3, <1>4, <1>5, <1>6, <1>7, <1>8, OwnedParts, OwnedPartsNext, OwnedKinds
<1>10. OwnedIsLive'
  BY <1>9 DEF OwnedIsLive
<1>11. NothingLost'
  BY <1>9 DEF NothingLost
<1> QED
  BY <1>10, <1>11

-----------------------------------------------------------------------------
(***************************************************************************)
(* Type correctness.                                                       *)
(***************************************************************************)
RestOK ==
  /\ pc \in {"start", "options", "arguments", "files", "failed", "names", "trees", "invert",
             "collect", "nodes", "destroy", "fail", "open", "exit",
             "free_pile", "free_infiles", "free_purge", "done"}
  /\ push \in {"none", "access", "pile", "append"}
  /\ args \in Nat /\ argc \in Nat /\ k \in Nat \ {0} /\ fpath \in Pointer
  /\ mode \subseteq Type /\ who \in Who /\ t \in Type
  /\ nodes \in [Who -> [Type -> Nat]]
  /\ lost \subseteq Collected

LEMMA TypeParts == TypeOK <=> RestOK /\ ListsOK /\ live \subseteq Pointer
BY DEF TypeOK, RestOK, ListsOK

LEMMA TypePartsNext == TypeOK' <=> RestOK' /\ ListsOK' /\ live' \subseteq Pointer
BY DEF TypeOK, RestOK, ListsOK

LEMMA NodesTypes ==
  ASSUME TypeOK, NEW w \in Who, NEW new \in [Type -> Nat]
  PROVE  /\ SetNodes(w, new) => nodes' \in [Who -> [Type -> Nat]]
         /\ NodesAre(w, new) \subseteq Pointer
<1>1. SetNodes(w, new) => nodes' \in [Who -> [Type -> Nat]]
  BY DEF SetNodes, TypeOK
<1>2. \A ty \in Type : NodesOf(w, ty, new[ty]) \subseteq Pointer
  BY PointerTypes DEF NodesOf
<1> QED
  BY <1>1, <1>2 DEF NodesAre

LEMMA TypeKept == TypeOK /\ UNCHANGED <<list, live>> /\ RestOK' => TypeOK'
BY DEF TypeOK, RestOK

LEMMA PushingType == ASSUME TypeOK, Pushing PROVE TypeOK'
<1> USE DEF RestOK, TypeOK, progVars, Return
<1>1. CASE PushName
  BY <1>1, PointerTypes DEF PushName
<1>2. CASE PushPath
  BY <1>2, PointerTypes DEF PushPath
<1>3. CASE DatafileThere
  BY <1>3 DEF DatafileThere
<1>4. CASE DatafileMissing
  BY <1>4 DEF DatafileMissing, Release
<1>5. CASE NewPile
  <2>1. ListsOK' /\ live' \subseteq Pointer
    BY <1>5, NewLists, Names3, MemoryAssumption DEF NewPile
  <2> QED
    BY <1>5, <2>1, TypePartsNext DEF NewPile
<1>6. CASE NewPileFails
  BY <1>6 DEF NewPileFails, Release
<1>7. CASE PushToPile
  <2>1. ListsOK' /\ live' = live
    BY <1>7, AppendLists, Names3 DEF PushToPile
  <2> QED
    BY <1>7, <2>1, TypePartsNext DEF PushToPile
<1>8. CASE PushToPileFails
  <2>1. ListsOK' /\ live' \subseteq live
    BY <1>8, EmptiedLists, Names3 DEF PushToPileFails, FreeArray, ReleaseList
  <2> QED
    BY <1>8, <2>1, TypePartsNext DEF PushToPileFails
<1>9. CASE PushToList
  <2>1. ListsOK' /\ live' = live
    BY <1>9, AppendLists, Names3 DEF PushToList
  <2> QED
    BY <1>9, <2>1, TypePartsNext DEF PushToList
<1>10. CASE PushToListFails
  <2>1. ListsOK' /\ live' \subseteq live
    BY <1>10, EmptiedLists, Names3 DEF PushToListFails, FreeArray, ReleaseList
  <2> QED
    BY <1>10, <2>1, TypePartsNext DEF PushToListFails
<1> QED
  BY <1>1, <1>2, <1>3, <1>4, <1>5, <1>6, <1>7, <1>8, <1>9, <1>10 DEF Pushing

LEMMA FreePtrType ==
  ASSUME TypeOK, NEW l \in Lists, FreePtr(l), RestOK' PROVE TypeOK'
BY NoLists, TypePartsNext DEF FreePtr, ReleaseList, TypeOK

LEMMA RunningType == ASSUME TypeOK, Running PROVE TypeOK'
<1> USE DEF RestOK, TypeOK, progVars, ReturnOnly, Return
<1>a. TreesOf(mode) \subseteq [Type -> Nat]
  BY MemoryAssumption DEF TreesOf
<1>b. [ty \in Type |-> 0] \in [Type -> Nat] /\ Who = {"main", "purge"}
  BY DEF Who
<1>c. Darr \in Collected /\ Darr \in Lists
  BY DarrIsCollected
<1>1. CASE ReadFile
  <2>1. PICK new \in TreesOf(mode) :
          /\ SetNodes(who, new)
          /\ live' = (live \ AllNodes(who)) \union NodesAre(who, new) \union {LineBuf(who, k)}
    BY <1>1 DEF ReadFile
  <2>2. nodes' \in [Who -> [Type -> Nat]] /\ NodesAre(who, new) \subseteq Pointer
    BY <2>1, <1>a, NodesTypes
  <2> QED
    BY <1>1, <2>1, <2>2, PointerTypes DEF ReadFile
<1>2. CASE ReadFails
  <2>1. CASE UNCHANGED <<nodes, live>>
    BY <1>2, <2>1 DEF ReadFails
  <2>2. CASE \E new \in TreesOf(mode) :
               /\ SetNodes(who, new)
               /\ live' = (live \ AllNodes(who)) \union NodesAre(who, new)
                            \union {LineBuf(who, k)}
    <3>1. PICK new \in TreesOf(mode) :
            /\ SetNodes(who, new)
            /\ live' = (live \ AllNodes(who)) \union NodesAre(who, new) \union {LineBuf(who, k)}
      BY <2>2
    <3>2. nodes' \in [Who -> [Type -> Nat]] /\ NodesAre(who, new) \subseteq Pointer
      BY <3>1, <1>a, NodesTypes
    <3> QED
      BY <1>2, <3>1, <3>2, PointerTypes DEF ReadFails
  <2> QED
    BY <1>2, <2>1, <2>2 DEF ReadFails
<1>3. CASE DestroyFailedBuilder
  BY <1>3, <1>b, NodesTypes DEF DestroyFailedBuilder, Release
<1>4. CASE FreeNames
  BY <1>4, FreePtrType, Names3 DEF FreeNames
<1>5. CASE EndOfFiles
  BY <1>5, FreePtrType, Names3 DEF EndOfFiles
<1>20. CASE CollapseAndInvert
  <2>1. PICK new \in TreesOf(mode) :
          /\ SetNodes("main", new)
          /\ live' = (live \ AllNodes("main")) \union NodesAre("main", new)
    BY <1>20 DEF CollapseAndInvert
  <2>2. nodes' \in [Who -> [Type -> Nat]] /\ NodesAre("main", new) \subseteq Pointer
    BY <2>1, <1>a, <1>b, NodesTypes
  <2> QED
    BY <1>20, <2>1, <2>2 DEF CollapseAndInvert
<1>6. CASE InvertFails
  BY <1>6 DEF InvertFails
<1>7. CASE NoPurge
  BY <1>7, FreePtrType, Names3 DEF NoPurge
<1>8. CASE StartPurge
  BY <1>8, <1>b DEF StartPurge
<1>9. CASE StartPurgeFails
  BY <1>9, <1>b DEF StartPurgeFails
<1>10. CASE NoTree
  BY <1>10 DEF NoTree, NextType, Type
<1>11. CASE StartCollect
  <2>1. ListsOK' /\ live' \subseteq Pointer
    <3>1. New(Darr, 1, TRUE) /\ Darr # "pile_of_shame"
      BY <1>11, <1>c, Names3 DEF StartCollect
    <3> HIDE DEF TypeOK
    <3> QED
      BY <3>1, <1>c, NewReadonlyLists, 1 \in Nat, 1 # 0
  <2> QED
    BY <1>11, <2>1, TypePartsNext DEF StartCollect
<1>12. CASE CollectNode
  <2>1. Node(who, t, Len(list[Darr].items) + 1) \in Pointer
    BY <1>c, PointerTypes
  <2>2. ListsOK' /\ live' = live
    BY <1>12, <1>c, <2>1, AppendLists DEF CollectNode
  <2> QED
    BY <1>12, <2>2, TypePartsNext DEF CollectNode
<1>13. CASE StartCollectFails
  BY <1>13 DEF StartCollectFails, GiveUp, NextType, Type
<1>14. CASE CollectNodeFails
  <2>1. ListsOK' /\ live' \subseteq live
    BY <1>14, <1>c, NoLists DEF CollectNodeFails, Release
  <2>2. RestOK'
    BY <1>14, <1>c DEF CollectNodeFails, GiveUp, NextType, Type
  <2> QED
    BY <2>1, <2>2, TypePartsNext
<1>15. CASE PrintCollected
  <2>1. ListsOK' /\ live' \subseteq live
    BY <1>15, <1>c, NoLists DEF PrintCollected
  <2>2. RestOK'
    BY <1>15 DEF PrintCollected, NextType, Type
  <2> QED
    BY <2>1, <2>2, TypePartsNext
<1>16. CASE PurgeCollected
  <2>1. PICK new \in TreesOf(mode) :
          /\ SetNodes("main", new)
          /\ live' = ((live \ AllNodes("main")) \union NodesAre("main", new))
                       \ FreedWithStruct(Darr)
    BY <1>16 DEF PurgeCollected
  <2>2. nodes' \in [Who -> [Type -> Nat]] /\ NodesAre("main", new) \subseteq Pointer
    BY <2>1, <1>a, <1>b, NodesTypes
  <2>3. ListsOK' /\ live' \subseteq Pointer
    BY <1>16, <1>c, <2>1, <2>2, NoLists DEF PurgeCollected
  <2>4. RestOK'
    BY <1>16, <2>2 DEF PurgeCollected, NextType, Type
  <2> QED
    BY <2>3, <2>4, TypePartsNext
<1>17. CASE DestroyPurgeTrees
  BY <1>17, <1>b, NodesTypes DEF DestroyPurgeTrees, Release
<1>18. CASE OpenOutstream
  BY <1>18, <1>b DEF OpenOutstream, Type
<1>19. CASE CannotCreate
  BY <1>19 DEF CannotCreate
<1> QED
  BY <1>1, <1>2, <1>3, <1>4, <1>5, <1>6, <1>7, <1>8, <1>9, <1>10, <1>11, <1>12, <1>13,
     <1>14, <1>15, <1>16, <1>17, <1>18, <1>19, <1>20 DEF Running

LEMMA TypeStep == TypeOK /\ [Next]_vars => TypeOK'
<1> SUFFICES ASSUME TypeOK, [Next]_vars PROVE TypeOK'
  OBVIOUS
<1> USE DEF RestOK, TypeOK, progVars
<1>b. [ty \in Type |-> 0] \in [Type -> Nat] /\ Who = {"main", "purge"}
  BY DEF Who
<1>1. CASE NewPurgeInfiles
  <2>1. ListsOK' /\ live' \subseteq Pointer
    <3>1. New("purge_infiles", 1, TRUE)
      BY <1>1 DEF NewPurgeInfiles
    <3> HIDE DEF TypeOK
    <3> QED
      BY <3>1, Names3, NewReadonlyLists, 1 \in Nat, 1 # 0
  <2> QED
    BY <1>1, <2>1, TypePartsNext DEF NewPurgeInfiles
<1>2. CASE StartupFails
  BY <1>2 DEF StartupFails, ReturnOnly, Return
<1>3. CASE Pushing
  BY <1>3, PushingType
<1>4. CASE NewInfiles
  <2>1. PICK n \in 1..MaxFiles : argc' = n /\ New("infiles", n, TRUE)
    BY <1>4 DEF NewInfiles
  <2>2. n \in Nat \ {0}
    BY MemoryAssumption
  <2>3. ListsOK' /\ live' \subseteq Pointer
    BY <2>1, <2>2, NewLists, Names3
  <2> QED
    BY <1>4, <2>1, <2>2, <2>3, TypePartsNext DEF NewInfiles
<1>5. CASE StartRun
  BY <1>5 DEF StartRun
<1>6. CASE Running
  BY <1>6, RunningType
<1>7. CASE DestroyBuilder
  BY <1>7, <1>b, NodesTypes DEF DestroyBuilder, Release
<1>8. CASE FreePile
  BY <1>8, FreePtrType, Names3 DEF FreePile
<1>9. CASE FreeInfiles
  BY <1>9, FreePtrType, Names3 DEF FreeInfiles
<1>10. CASE FreePurgeInfiles
  BY <1>10, FreePtrType, Names3 DEF FreePurgeInfiles
<1>11. CASE UNCHANGED vars
  BY <1>11 DEF vars
<1> QED
  BY <1>1, <1>2, <1>3, <1>4, <1>5, <1>6, <1>7, <1>8, <1>9, <1>10, <1>11 DEF Next, Done

-----------------------------------------------------------------------------
(***************************************************************************)
(* The invariant: steps of a kind first.                                   *)
(***************************************************************************)
Over == {"exit", "free_pile", "free_infiles", "free_purge", "done"}
Files == {"infiles", "purge_infiles"}

\* Steps that change no list: they may change the nodes.
LEMMA ListsKeptStep ==
  ASSUME IInv, TypeOK', OwnedIsLive', NothingLost', MemorySafe',
         UNCHANGED <<list, args, fpath>>, pc # "nodes", pc' # "start",
         pc' = "options" => pc = "options", pc \in Over => pc' \in Over,
         push' = push \/ (push = "access" /\ push' = "pile"),
         push # "none" => pc' = pc
  PROVE  IInv'
<1>1. Phases'
  BY DEF IInv, Phases
<1>2. CollectedNodes'
  BY Names3 DEF IInv, CollectedNodes
<1>3. PathsOnce'
  BY DEF IInv, PathsOnce
<1>4. NamesKept'
  <2>1. \A l : Items(l)' = Items(l)
    BY DEF Items
  <2> QED
    BY <2>1 DEF IInv, NamesKept, Over
<1> QED
  BY <1>1, <1>2, <1>3, <1>4 DEF IInv

LEMMA QuietStep ==
  ASSUME IInv, TypeOK', UNCHANGED <<list, live, fault, nodes, lost, args, fpath>>,
         pc # "nodes", pc' # "start",
         pc' = "options" => pc = "options", pc \in Over => pc' \in Over,
         push' = push \/ (push = "access" /\ push' = "pile"),
         push # "none" => pc' = pc
  PROVE  IInv'
<1>1. \A p : Pushes(p)' <=> Pushes(p)
  BY DEF Pushes
<1>2. OwnedIsLive' /\ NothingLost'
  BY <1>1, HeapKept DEF IInv
<1>3. MemorySafe'
  BY DEF IInv, MemorySafe
<1> QED
  BY <1>2, <1>3, ListsKeptStep

\* A list that is freed for good.
LEMMA FreePtrStep ==
  ASSUME IInv, TypeOK', NEW l \in Files \union {"pile_of_shame"}, FreePtr(l),
         UNCHANGED <<args, fpath, nodes, lost, push>>, push = "none", pc # "nodes",
         pc' \notin {"start", "options"}, pc \in Over => pc' \in Over,
         l = "pile_of_shame" => pc' \in Over
  PROVE  IInv'
<1>1. l \in Lists /\ l \notin Collected
  BY Names3 DEF Files
<1>2. \A p : ~Pushes(p) /\ ~Pushes(p)'
  BY DEF Pushes
<1>3. OwnedIsLive' /\ NothingLost' /\ MemorySafe'
  BY <1>1, <1>2, HeapFreePtr DEF IInv
<1>4. /\ \A m \in Lists \ {l} : list'[m] = list[m]
      /\ list'[l].items = << >> /\ ~list'[l].there
  BY <1>1, NoLists DEF IInv, FreePtr
<1>5. Phases'
  BY DEF Phases
<1>6. CollectedNodes'
  BY <1>1, <1>4, Names3 DEF IInv, CollectedNodes
<1>7. PathsOnce'
  <2>1. list'["pile_of_shame"].items \in {list["pile_of_shame"].items, << >>}
    BY <1>4, Names3
  <2> QED
    BY <2>1 DEF IInv, PathsOnce
<1>8. NamesKept'
  <2> SUFFICES ASSUME pc' \notin Over, NEW m \in Files, NEW p \in Items(m)'
               PROVE  p.kind = "argv" \/ p \in Items("pile_of_shame")'
    BY DEF NamesKept, Over, Files
  <2>1. Items("pile_of_shame")' = Items("pile_of_shame")
    BY <1>4, Names3 DEF Items
  <2>2. p \in Items(m)
    BY <1>4, Names3 DEF Items, Files
  <2> QED
    BY <2>1, <2>2 DEF IInv, NamesKept, Over, Files
<1> QED
  BY <1>3, <1>5, <1>6, <1>7, <1>8 DEF IInv

\* main_run() is left while arguments are read: the lists may be freed.
LEMMA ReturnStep ==
  ASSUME IInv, TypeOK', OwnedIsLive', NothingLost', MemorySafe',
         pc \in {"options", "arguments"}, pc' = "exit", push' = "none", args' = args,
         \A m \in Collected : list'[m] = list[m],
         list'["pile_of_shame"].items \in {list["pile_of_shame"].items, << >>}
  PROVE  IInv'
<1>1. Phases' /\ NamesKept'
  BY DEF Phases, NamesKept
<1>2. CollectedNodes'
  BY DEF IInv, CollectedNodes
<1>3. PathsOnce'
  <2> DEFINE pile == list["pile_of_shame"].items
             next == IF push \in {"access", "pile"} THEN args - 1 ELSE args
  <2>1. CASE pile' = pile
    <3>1. \A i \in 1..Len(pile) : \E n \in 0..next - 1 : pile[i] = PathPtr(n)
      BY DEF IInv, PathsOnce
    <3>2. 0..next - 1 \subseteq 0..args - 1
      BY DEF IInv, TypeOK
    <3>3. \A i \in 1..Len(pile) : \E n \in 0..args - 1 : pile[i] = PathPtr(n)
      BY <3>1, <3>2
    <3>4. \A i, j \in 1..Len(pile) : pile[i] = pile[j] => i = j
      BY DEF IInv, PathsOnce
    <3> QED
      BY <2>1, <3>3, <3>4 DEF PathsOnce
  <2>2. CASE pile' = << >>
    BY <2>2 DEF PathsOnce
  <2> QED
    BY <2>1, <2>2
<1> QED
  BY <1>1, <1>2, <1>3 DEF IInv

\* A list is made for names, or to own their paths.
LEMMA NewStep ==
  ASSUME IInv, TypeOK', NEW l \in Files \union {"pile_of_shame"}, ~list[l].there,
         NEW n \in Nat \ {0}, NEW ro \in BOOLEAN, New(l, n, ro),
         UNCHANGED <<args, fpath, nodes, lost, push>>,
         pc \notin Over, pc # "nodes", pc' # "start",
         pc' = "options" => pc \in {"start", "options"} /\ l # "infiles",
         push # "none" => pc' = pc
  PROVE  IInv'
<1>1. l \in Lists /\ l \notin Collected
  BY Names3 DEF Files
<1>2. \A p : Pushes(p)' <=> Pushes(p)
  BY DEF Pushes
<1>3. OwnedIsLive' /\ NothingLost'
  BY <1>1, <1>2, HeapNew DEF IInv
<1>4. MemorySafe'
  BY DEF IInv, MemorySafe, New
<1>5. /\ \A m \in Lists \ {l} : list'[m] = list[m]
      /\ list'[l].items = << >> /\ list[l].items = << >>
  BY <1>1, NoItems DEF IInv, New, new_dynarray, TypeOK
<1>6. \A m \in Lists : list'[m].items = list[m].items /\ Items(m)' = Items(m)
  BY <1>5 DEF Items
<1>7. Phases'
  BY <1>5, Names3 DEF IInv, Phases, Files
<1>8. CollectedNodes'
  BY <1>1, <1>5, Names3 DEF IInv, CollectedNodes
<1>9. PathsOnce'
  BY <1>6, Names3 DEF IInv, PathsOnce
<1>10. NamesKept'
  BY <1>6, Names3 DEF IInv, NamesKept, Over
<1> QED
  BY <1>3, <1>4, <1>7, <1>8, <1>9, <1>10 DEF IInv

-----------------------------------------------------------------------------
LEMMA PushingInv == ASSUME IInv, TypeOK', Pushing PROVE IInv'
<1> USE DEF Return, progVars
<1>p. push # "none" => pc \in {"options", "arguments"}
  BY DEF IInv, Phases
<1>t. TypeOK /\ OwnedIsLive /\ NothingLost /\ MemorySafe /\ PathsOnce /\ CollectedNodes /\ NamesKept
  BY DEF IInv
<1>a. args \in Nat
  BY <1>t DEF TypeOK
<1>m. Target \in Lists /\ Target \notin Collected /\ Target # "pile_of_shame" /\ Target \in Files
  BY Names3 DEF Files, Target
<1>1. CASE PushName
  <2>1. \A p : Pushes(p)' <=> Pushes(p)
    BY <1>1 DEF PushName, MorePushes, Pushes
  <2>2. OwnedIsLive' /\ NothingLost' /\ MemorySafe'
    BY <1>1, <2>1, <1>t, HeapKept DEF PushName, MemorySafe
  <2>3. PathsOnce'
    BY <1>1, <1>t, <1>a DEF PushName, MorePushes, PathsOnce
  <2>4. NamesKept'
    BY <1>1, <1>t, Kinds DEF PushName, NamesKept, Items
  <2>5. CollectedNodes' /\ Phases'
    BY <1>1 DEF IInv, PushName, MorePushes, CollectedNodes, Phases, Darr
  <2> QED
    BY <2>2, <2>3, <2>4, <2>5 DEF IInv
<1>2. CASE PushPath
  <2>1. PathPtr(args).kind = "path"
    BY Kinds
  <2>2. ~OwnsPath(PathPtr(args))
    <3> SUFFICES ASSUME OwnsPath(PathPtr(args)) PROVE FALSE
      OBVIOUS
    <3>1. PICK i \in 1..Len(list["pile_of_shame"].items) :
            list["pile_of_shame"].items[i] = PathPtr(args)
      BY DEF OwnsPath, Items
    <3>2. PICK n \in 0..args - 1 : PathPtr(args) = PathPtr(n)
      BY <1>2, <1>t, <3>1 DEF PathsOnce, PushPath, MorePushes
    <3> QED
      BY <3>2, <1>t, Injective DEF TypeOK
  <2>3. \A p : /\ Pushes(p)' <=> p = PathPtr(args)
               /\ ~Pushes(p)
               /\ OwnsStruct(p)' <=> OwnsStruct(p)
               /\ OwnsArr(p)' <=> OwnsArr(p)
               /\ OwnsPath(p)' <=> OwnsPath(p)
               /\ OwnsNode(p)' <=> OwnsNode(p)
    BY <1>2 DEF PushPath, MorePushes, Pushes, OwnsStruct, OwnsArr, OwnsPath, OwnsNode, Items
  <2>4. \A p : p \in Owned' <=> p \in Owned \/ p \in {PathPtr(args)}
    BY <2>3, <1>t, OwnedParts, OwnedPartsNext
  <2>5. live' = live \union {PathPtr(args)} /\ lost' = lost /\ fault' = fault
    BY <1>2 DEF PushPath
  <2>6. OwnedIsLive' /\ NothingLost' /\ MemorySafe'
    BY <2>4, <2>5, <1>t DEF OwnedIsLive, NothingLost, MemorySafe
  <2>7. PathsOnce'
    BY <1>2, <1>t, <1>a DEF PushPath, MorePushes, PathsOnce
  <2>8. NamesKept'
    BY <1>2, <1>t DEF PushPath, NamesKept, Items
  <2>9. CollectedNodes' /\ Phases'
    BY <1>2 DEF IInv, PushPath, MorePushes, CollectedNodes, Phases, Darr
  <2> QED
    BY <2>6, <2>7, <2>8, <2>9 DEF IInv
<1>3. CASE DatafileThere
  BY <1>3, <1>p, QuietStep DEF DatafileThere, Over
<1>4. CASE DatafileMissing
  <2>1. OwnedIsLive' /\ NothingLost' /\ MemorySafe'
    BY <1>4, <1>t, HeapRelease DEF DatafileMissing, Pushes
  <2> QED
    BY <1>4, <1>p, <2>1, ReturnStep DEF DatafileMissing
<1>5. CASE NewPile
  <2>1. PileSize \in Nat \ {0} /\ FALSE \in BOOLEAN /\ "pile_of_shame" \in Files \union {"pile_of_shame"}
    BY MemoryAssumption
  <2> QED
    BY <1>5, <1>p, <2>1, NewStep DEF NewPile, Over
<1>6. CASE NewPileFails
  <2>1. OwnedIsLive' /\ NothingLost' /\ MemorySafe'
    BY <1>6, <1>t, HeapRelease DEF NewPileFails, Pushes
  <2> QED
    BY <1>6, <1>p, <2>1, ReturnStep DEF NewPileFails
<1>7. CASE PushToPile
  <2>1. fpath \in Pointer /\ "pile_of_shame" \in Lists /\ AppendItem("pile_of_shame", fpath)
        /\ push = "pile" /\ push' = "append" /\ UNCHANGED <<pc, progVars>>
    BY <1>7, <1>t, Names3 DEF PushToPile, TypeOK
  <2>2. /\ \A m \in Lists \ {"pile_of_shame"} : list'[m] = list[m]
        /\ list'["pile_of_shame"].items = Append(list["pile_of_shame"].items, fpath)
    BY <2>1, <1>t, AppendLists
  <2>3. OwnedIsLive' /\ NothingLost'
    BY <2>1, <1>t, HeapAppend DEF Pushes
  <2>4. MemorySafe'
    BY <2>1, <1>t DEF MemorySafe, AppendItem
  <2>5. PathsOnce'
    <3> DEFINE pile == list["pile_of_shame"].items
    <3>1. pile \in Seq(Pointer) /\ fpath \in Pointer /\ args \in Nat
      BY <1>t, Names3 DEF TypeOK
    <3>2. fpath = PathPtr(args - 1) /\ args > 0
      BY <2>1, <1>t DEF PathsOnce
    <3>3. \A i \in 1..Len(pile) : \E n \in 0..(args - 1) - 1 : pile[i] = PathPtr(n)
      BY <2>1, <1>t DEF PathsOnce
    <3>4. \A i, j \in 1..Len(pile) : pile[i] = pile[j] => i = j
      BY <1>t DEF PathsOnce
    <3>5. \A i \in 1..Len(pile) : pile[i] # fpath
      BY <3>1, <3>2, <3>3, Injective
    <3> HIDE DEF pile
    <3>6. /\ Len(Append(pile, fpath)) = Len(pile) + 1 /\ Len(pile) \in Nat
          /\ \A i \in 1..Len(pile) : Append(pile, fpath)[i] = pile[i]
          /\ Append(pile, fpath)[Len(pile) + 1] = fpath
      BY <3>1
    <3>7. \A i \in 1..Len(pile) + 1 : \E n \in 0..args - 1 : Append(pile, fpath)[i] = PathPtr(n)
      BY <3>1, <3>2, <3>3, <3>6
    <3>8. \A i, j \in 1..Len(pile) + 1 : Append(pile, fpath)[i] = Append(pile, fpath)[j] => i = j
      BY <3>4, <3>5, <3>6
    <3>9. PICK longer : longer = Append(pile, fpath)
      OBVIOUS
    <3>10. /\ \A i \in 1..Len(longer) : \E n \in 0..args - 1 : longer[i] = PathPtr(n)
           /\ \A i, j \in 1..Len(longer) : longer[i] = longer[j] => i = j
      BY <3>6, <3>7, <3>8, <3>9
    <3>11. list'["pile_of_shame"].items = longer /\ push' = "append" /\ args' = args
      BY <2>1, <2>2, <3>9 DEF pile, progVars
    <3> QED
      BY <3>10, <3>11 DEF PathsOnce
  <2>6. NamesKept'
    <3>1. Items("pile_of_shame")' = Items("pile_of_shame") \union {fpath}
      BY <2>1, <2>2, <1>t, AppendedItems DEF Items, TypeOK
    <3>2. \A l \in {"infiles", "purge_infiles"} : Items(l)' = Items(l)
      BY <2>2, Names3 DEF Items
    <3> QED
      BY <2>1, <3>1, <3>2, <1>t DEF NamesKept
  <2>7. CollectedNodes' /\ Phases'
    BY <2>1, <2>2, <1>p, Names3 DEF IInv, CollectedNodes, Phases, Darr
  <2> QED
    BY <2>3, <2>4, <2>5, <2>6, <2>7 DEF IInv
<1>8. CASE PushToPileFails
  <2>1. /\ \A m \in Lists \ {"pile_of_shame"} : list'[m] = list[m]
        /\ list'["pile_of_shame"].there = list["pile_of_shame"].there
        /\ ~list'["pile_of_shame"].arr /\ list'["pile_of_shame"].items = << >>
    BY <1>8, <1>t, EmptiedLists, Names3 DEF PushToPileFails, FreeArray
  <2>2. /\ live' = live \ (Freed("pile_of_shame") \union {fpath})
        /\ push = "pile" /\ push' = "none" /\ UNCHANGED <<nodes, lost>>
    BY <1>8 DEF PushToPileFails, FreeArray, ReleaseList
  <2>3. (\A p : Pushes(p) <=> p \in {fpath}) /\ \A p : ~Pushes(p)'
    BY <2>2 DEF Pushes
  <2>4. OwnedIsLive' /\ NothingLost' /\ (Freed("pile_of_shame") \union {fpath}) \subseteq live
    BY <2>1, <2>2, <2>3, <1>t, Names3, HeapFreedArray
  <2>5. MemorySafe'
    BY <1>8, <2>4, <1>t, FreedOnce, Names3
    DEF PushToPileFails, FreeArray, ReleaseList, MemorySafe
  <2> QED
    BY <1>8, <1>p, <2>1, <2>4, <2>5, ReturnStep, Names3 DEF PushToPileFails
<1>9. CASE PushToList
  <2>0. PICK T \in Files : T = Target
    BY <1>m
  <2>1. fpath \in Pointer /\ AppendItem(T, fpath)
        /\ push = "append" /\ push' = "none" /\ UNCHANGED <<pc, progVars>>
    BY <1>9, <2>0, <1>t DEF PushToList, TypeOK
  <2>2. /\ \A m \in Lists \ {T} : list'[m] = list[m]
        /\ list'[T].items = Append(list[T].items, fpath)
        /\ list'[T].there = list[T].there
    BY <2>1, <1>t, <2>0, <1>m, AppendLists
  <2>3. OwnedIsLive' /\ NothingLost'
    BY <2>1, <1>t, <2>0, <1>m, HeapAppend DEF Pushes
  <2>4. MemorySafe'
    BY <2>1, <1>t DEF MemorySafe, AppendItem
  <2>5. PathsOnce'
    BY <2>1, <2>2, <1>t, <2>0, <1>m, Names3 DEF PathsOnce
  <2>6. NamesKept'
    <3>1. Items(T)' = Items(T) \union {fpath}
      <4>1. list[T].items \in Seq(Pointer)
        BY <1>t, <2>0, <1>m DEF TypeOK
      <4> QED
        BY <2>1, <2>2, <4>1, AppendedItems DEF Items
    <3>2. \A l \in Lists \ {T} : Items(l)' = Items(l)
      BY <2>2 DEF Items
    <3> QED
      BY <2>1, <3>1, <3>2, <1>t, <2>0, <1>m, <1>p, Names3 DEF NamesKept
  <2>7. CollectedNodes' /\ Phases'
    BY <2>1, <2>2, <1>p, <2>0, <1>m, Names3 DEF IInv, CollectedNodes, Phases, Darr
  <2> QED
    BY <2>3, <2>4, <2>5, <2>6, <2>7 DEF IInv
<1>10. CASE PushToListFails
  <2>0. PICK T \in Files : T = Target
    BY <1>m
  <2>1. /\ \A m \in Lists \ {T} : list'[m] = list[m]
        /\ list'[T].there = list[T].there
        /\ ~list'[T].arr /\ list'[T].items = << >>
    BY <1>10, <1>t, <2>0, <1>m, EmptiedLists DEF PushToListFails, FreeArray
  <2>2. /\ live' = live \ Freed(T)
        /\ push = "append" /\ push' = "none" /\ UNCHANGED <<nodes, lost>>
    BY <1>10, <2>0 DEF PushToListFails, FreeArray, ReleaseList
  <2>a. live' = live \ (Freed(T) \union {})
    BY <2>2
  <2>3. (\A p : Pushes(p) <=> p \in {}) /\ \A p : ~Pushes(p)'
    BY <2>2 DEF Pushes
  <2>4. OwnedIsLive' /\ NothingLost' /\ Freed(T) \subseteq live
    BY <2>1, <2>2, <2>a, <2>3, <1>t, <2>0, <1>m, HeapFreedArray
  <2>5. MemorySafe'
    BY <1>10, <2>4, <1>t, <2>0, <1>m, FreedOnce DEF PushToListFails, FreeArray, ReleaseList, MemorySafe
  <2> QED
    BY <1>10, <1>p, <2>0, <1>m, <2>1, <2>4, <2>5, ReturnStep, Names3 DEF PushToListFails
<1> QED
  BY <1>1, <1>2, <1>3, <1>4, <1>5, <1>6, <1>7, <1>8, <1>9, <1>10 DEF Pushing

\* A step that makes, fills or drops a collected list.
LEMMA CollectStep ==
  ASSUME IInv, TypeOK', OwnedIsLive', NothingLost', MemorySafe', CollectedNodes',
         NEW l \in Collected, \A m \in Lists \ {l} : list'[m] = list[m],
         UNCHANGED <<args, fpath, push>>, push = "none",
         pc \notin Over, pc' \notin {"start", "options"}
  PROVE  IInv'
<1>1. Phases'
  BY DEF Phases
<1>2. \A m \in Files \union {"pile_of_shame"} : list'[m] = list[m] /\ Items(m)' = Items(m)
  BY Names3 DEF Files, Items
<1>3. PathsOnce'
  BY <1>2 DEF IInv, PathsOnce
<1>4. NamesKept'
  BY <1>2 DEF IInv, NamesKept, Over, Files
<1> QED
  BY <1>1, <1>3, <1>4 DEF IInv

LEMMA RunningInv == ASSUME IInv, TypeOK', Running PROVE IInv'
<1> USE DEF progVars, ReturnOnly, Return
<1>t. TypeOK /\ OwnedIsLive /\ NothingLost /\ MemorySafe /\ PathsOnce /\ CollectedNodes /\ NamesKept
  BY DEF IInv
<1>p. pc \notin {"options", "arguments"} => push = "none"
  BY <1>t DEF IInv, Phases, TypeOK
<1>q. push = "none" => \A p : ~Pushes(p)
  BY DEF Pushes
<1>r. push' = "none" => \A p : ~Pushes(p)'
  BY DEF Pushes
<1>w. who \in Who /\ "main" \in Who /\ "purge" \in Who
  BY <1>t DEF TypeOK, Who
<1>n. TreesOf(mode) \subseteq [Type -> Nat]
  BY MemoryAssumption DEF TreesOf
<1>d. PICK D \in Collected : D = Darr
  BY <1>t, DarrIsCollected
<1>l. D \in Lists /\ D # "pile_of_shame"
  BY <1>d, Names3
<1>1. CASE ReadFile
  <2>1. PICK w \in Who : w = who
    BY <1>w
  <2>2. PICK new \in TreesOf(mode) :
          /\ SetNodes(w, new)
          /\ live' = (live \ AllNodes(w)) \union NodesAre(w, new) \union {LineBuf(w, k)}
    BY <1>1, <2>1 DEF ReadFile
  <2>3. live' = (live \ AllNodes(w)) \union (NodesAre(w, new) \union {LineBuf(w, k)})
        /\ new \in [Type -> Nat]
    BY <2>2, <1>n
  <2>4. pc = "files" /\ pc' = "files" /\ UNCHANGED <<push, args, fpath, list, lost>>
    BY <1>1 DEF ReadFile, MoreFiles
  <2>5. \A b \in {LineBuf(w, k)} : b.kind = "line_buf"
    BY Kinds
  <2>6. \A p : Pushes(p)' <=> Pushes(p)
    BY <2>4 DEF Pushes
  <2>7. PICK bufs : bufs = {LineBuf(w, k)}
    OBVIOUS
  <2>8. OwnedIsLive' /\ NothingLost'
    <3>1. /\ \A b \in bufs : b.kind = "line_buf"
          /\ live' = (live \ AllNodes(w)) \union (NodesAre(w, new) \union bufs)
          /\ UNCHANGED <<list, lost>>
      BY <2>3, <2>4, <2>5, <2>7
    <3> QED
      BY <2>2, <2>3, <2>6, <3>1, <1>t, HeapNodes
  <2>9. ~Dangling(NameRead)
    <3> SUFFICES ASSUME NEW p \in NameRead PROVE p.kind = "argv" \/ p \in live
      BY DEF Dangling
    <3>1. Names \in {"infiles", "purge_infiles"} /\ Names \in Lists
      BY Names3
    <3>2. list[Names].there /\ p = list[Names].items[k] /\ k \in 1..Len(list[Names].items)
      BY <1>1, <1>t, <3>1 DEF NameRead, ReadFile, MoreFiles, TypeOK
    <3>3. p \in Items(Names)
      BY <3>2 DEF Items
    <3>4. p.kind = "argv" \/ OwnsPath(p)
      BY <3>1, <3>3, <2>4, <1>t DEF NamesKept, OwnsPath
    <3> QED
      BY <3>4, <1>t, OwnedParts DEF OwnedIsLive
  <2>10. MemorySafe'
    BY <1>1, <2>9, <1>t DEF ReadFile, MemorySafe
  <2> QED
    BY <2>4, <2>8, <2>10, <1>p, ListsKeptStep DEF Over
<1>2. CASE ReadFails
  <2>1. pc = "files" /\ pc' = "failed" /\ UNCHANGED <<push, args, fpath, list, lost>>
    BY <1>2 DEF ReadFails, MoreFiles
  <2>2. ~Dangling(NameRead)
    <3> SUFFICES ASSUME NEW p \in NameRead PROVE p.kind = "argv" \/ p \in live
      BY DEF Dangling
    <3>1. Names \in {"infiles", "purge_infiles"} /\ Names \in Lists
      BY Names3
    <3>2. list[Names].there /\ p = list[Names].items[k] /\ k \in 1..Len(list[Names].items)
      BY <1>2, <1>t, <3>1 DEF NameRead, ReadFails, MoreFiles, TypeOK
    <3>3. p \in Items(Names)
      BY <3>2 DEF Items
    <3>4. p.kind = "argv" \/ OwnsPath(p)
      BY <3>1, <3>3, <2>1, <1>t DEF NamesKept, OwnsPath
    <3> QED
      BY <3>4, <1>t, OwnedParts DEF OwnedIsLive
  <2>3. MemorySafe'
    BY <1>2, <2>2, <1>t DEF ReadFails, MemorySafe
  <2>4. ASSUME UNCHANGED <<nodes, live>> PROVE OwnedIsLive' /\ NothingLost'
    <3>1. \A p : p \in Owned' <=> p \in Owned
      BY <2>1, <2>4, <1>t, OwnedParts, OwnedPartsNext
      DEF OwnsStruct, OwnsArr, OwnsPath, OwnsNode, Items, Pushes
    <3> QED
      BY <2>1, <2>4, <3>1, <1>t DEF OwnedIsLive, NothingLost
  <2>5. ASSUME \E new \in TreesOf(mode) :
                 /\ SetNodes(who, new)
                 /\ live' = (live \ AllNodes(who)) \union NodesAre(who, new)
                              \union {LineBuf(who, k)}
        PROVE  OwnedIsLive' /\ NothingLost'
    <3>0. PICK w \in Who : w = who
      BY <1>w
    <3>1. PICK bufs : w = who /\ bufs = {LineBuf(who, k)}
      BY <3>0
    <3>2. PICK new \in TreesOf(mode) :
            /\ SetNodes(w, new)
            /\ live' = (live \ AllNodes(w)) \union (NodesAre(w, new) \union bufs)
      BY <2>5, <3>1
    <3>3. \A b \in bufs : b.kind = "line_buf"
      BY <3>1, Kinds
    <3>4. \A p : Pushes(p)' <=> Pushes(p)
      BY <2>1 DEF Pushes
    <3>5. new \in [Type -> Nat] /\ UNCHANGED <<list, lost>>
      BY <1>n, <2>1
    <3> QED
      BY <3>2, <3>3, <3>4, <3>5, <1>t, HeapNodes
  <2>6. OwnedIsLive' /\ NothingLost'
    BY <1>2, <2>4, <2>5 DEF ReadFails
  <2> QED
    BY <2>1, <2>3, <2>6, <1>p, ListsKeptStep DEF Over
<1>3. CASE DestroyFailedBuilder
  <2>1. pc = "failed" /\ pc' = "names" /\ UNCHANGED <<push, args, fpath, list, lost>>
    BY <1>3 DEF DestroyFailedBuilder
  <2>2. \A p : Pushes(p)' <=> Pushes(p)
    BY <2>1 DEF Pushes
  <2>3. CASE who = "purge"
    <3>1. OwnedIsLive' /\ NothingLost' /\ MemorySafe'
      BY <1>3, <2>1, <2>2, <2>3, <1>t, <1>w, HeapDestroyed DEF DestroyFailedBuilder
    <3> QED
      BY <2>1, <3>1, <1>p, ListsKeptStep DEF Over
  <2>4. CASE who # "purge"
    BY <1>3, <2>1, <2>4, <1>p, QuietStep DEF DestroyFailedBuilder, Over
  <2> QED
    BY <2>3, <2>4
<1>4. CASE FreeNames
  <2>1. PICK l \in Files : l = Names
    BY Names3 DEF Files
  <2> QED
    BY <1>4, <2>1, <1>p, FreePtrStep DEF FreeNames, Over
<1>5. CASE EndOfFiles
  <2>1. PICK l \in Files : l = Names
    BY Names3 DEF Files
  <2>2. l # "pile_of_shame" /\ l \in Files \union {"pile_of_shame"}
    BY <2>1 DEF Files
  <2> QED
    BY <1>5, <2>1, <2>2, <1>p, FreePtrStep DEF EndOfFiles, Over
<1>20. CASE CollapseAndInvert
  <2>0. PICK w \in Who : w = "main"
    BY <1>w
  <2>1. PICK bufs : w = "main" /\ bufs = {}
    BY <2>0
  <2>2. PICK new \in TreesOf(mode) :
          /\ SetNodes(w, new)
          /\ live' = (live \ AllNodes(w)) \union (NodesAre(w, new) \union bufs)
    BY <1>20, <2>1 DEF CollapseAndInvert
  <2>3. pc = "trees" /\ pc' = "invert" /\ UNCHANGED <<push, args, fpath, list, fault, lost>>
    BY <1>20 DEF CollapseAndInvert
  <2>4. \A p : Pushes(p)' <=> Pushes(p)
    BY <2>3 DEF Pushes
  <2>5. \A b \in bufs : b.kind = "line_buf"
    BY <2>1
  <2>6. new \in [Type -> Nat] /\ UNCHANGED <<list, lost>>
    BY <1>n, <2>3
  <2>7. OwnedIsLive' /\ NothingLost'
    BY <2>2, <2>4, <2>5, <2>6, <1>t, HeapNodes
  <2>8. MemorySafe'
    BY <2>3, <1>t DEF MemorySafe
  <2> QED
    BY <2>3, <2>7, <2>8, <1>p, ListsKeptStep DEF Over
<1>6. CASE InvertFails
  BY <1>6, <1>p, QuietStep DEF InvertFails, Over
<1>7. CASE NoPurge
  BY <1>7, <1>p, FreePtrStep DEF NoPurge, Over, Files
<1>8. CASE StartPurge
  BY <1>8, <1>p, QuietStep DEF StartPurge, Over
<1>9. CASE StartPurgeFails
  BY <1>9, <1>p, QuietStep DEF StartPurgeFails, Over
<1>10. CASE NoTree
  BY <1>10, <1>p, QuietStep DEF NoTree, NextType, Over
<1>13. CASE StartCollectFails
  BY <1>13, <1>p, QuietStep DEF StartCollectFails, GiveUp, NextType, Over
<1>17. CASE DestroyPurgeTrees
  <2>1. pc \in {"destroy", "fail"} /\ pc' \in {"exit", "open"}
        /\ UNCHANGED <<push, args, fpath, list, lost>>
    BY <1>17 DEF DestroyPurgeTrees
  <2>2. \A p : Pushes(p)' <=> Pushes(p)
    BY <2>1 DEF Pushes
  <2>3. OwnedIsLive' /\ NothingLost' /\ MemorySafe'
    BY <1>17, <2>1, <2>2, <1>t, <1>w, HeapDestroyed DEF DestroyPurgeTrees
  <2> QED
    BY <2>1, <2>3, <1>p, ListsKeptStep DEF Over
<1>18. CASE OpenOutstream
  BY <1>18, <1>p, QuietStep DEF OpenOutstream, Over
<1>19. CASE CannotCreate
  BY <1>19, <1>p, QuietStep DEF CannotCreate, Over
<1>11. CASE StartCollect
  <2>1. pc = "collect" /\ pc' = "nodes" /\ New(D, 1, TRUE)
        /\ UNCHANGED <<push, args, fpath, nodes, lost, who, t>>
    BY <1>11, <1>d DEF StartCollect
  <2>2. ~list[D].there /\ \A m \in Collected : ~list[m].there
    BY <2>1, <1>t, <1>d DEF CollectedNodes
  <2>3. \A p : Pushes(p)' <=> Pushes(p)
    BY <2>1 DEF Pushes
  <2>4. 1 \in Nat \ {0} /\ TRUE \in BOOLEAN
    OBVIOUS
  <2>5. OwnedIsLive' /\ NothingLost'
    BY <2>1, <2>2, <2>3, <2>4, <1>t, <1>l, HeapNew
  <2>6. MemorySafe'
    BY <2>1, <1>t DEF New, MemorySafe
  <2>7. (\A m \in Lists \ {D} : list'[m] = list[m]) /\ list'[D].items = << >>
    BY <2>1, <1>t, <1>l DEF New, new_dynarray, TypeOK
  <2>8. Darr' = Darr
    BY <2>1 DEF Darr
  <2>9. nodes[who][t] \in Nat
    BY <1>t DEF TypeOK
  <2>10. CollectedNodes'
    BY <2>1, <2>2, <2>7, <2>8, <2>9, <1>d, Names3 DEF CollectedNodes
  <2> QED
    BY <2>1, <2>5, <2>6, <2>7, <2>10, <1>d, <1>p, CollectStep DEF Over
<1>12. CASE CollectNode
  <2>1. PICK p : p = Node(who, t, Len(list[D].items) + 1)
    OBVIOUS
  <2>2. /\ pc = "nodes" /\ pc' = pc /\ AppendItem(D, p)
        /\ Len(list[D].items) < nodes[who][t]
        /\ UNCHANGED <<push, args, fpath, nodes, lost, who, t>>
    BY <1>12, <1>d, <2>1 DEF CollectNode
  <2>3. list[D].items \in Seq(Pointer) /\ nodes[who][t] \in Nat /\ who \in Who /\ t \in Type
    BY <1>t, <1>l DEF TypeOK
  <2>4. p \in Pointer
    BY <2>1, <2>3, PointerTypes
  <2>5. /\ \A m \in Lists \ {D} : list'[m] = list[m]
        /\ list'[D].there = list[D].there
        /\ list'[D].items = Append(list[D].items, p)
    BY <2>2, <2>4, <1>t, <1>l, AppendLists
  <2>6. \A q : Pushes(q)' <=> Pushes(q)
    BY <2>2 DEF Pushes
  <2>7. OwnedIsLive' /\ NothingLost'
    BY <2>2, <2>4, <2>6, <1>t, <1>l, HeapAppend
  <2>8. MemorySafe'
    BY <2>2, <1>t DEF AppendItem, MemorySafe
  <2>9. Darr' = Darr
    BY <2>2 DEF Darr
  <2>10. /\ Len(Append(list[D].items, p)) = Len(list[D].items) + 1
         /\ Len(list[D].items) \in Nat
         /\ \A i \in 1..Len(list[D].items) : Append(list[D].items, p)[i] = list[D].items[i]
         /\ Append(list[D].items, p)[Len(list[D].items) + 1] = p
    BY <2>3, <2>4
  <2>11. AppendItem(D, p) => list[D].there
    BY <1>t, <1>l DEF AppendItem, TypeOK
  <2>12. \A i \in 1..Len(list[D].items) : list[D].items[i] = Node(who, t, i)
    BY <2>2, <2>11, <1>t, <1>d DEF CollectedNodes
  <2>13. \A i \in 1..Len(list[D].items) + 1 : Append(list[D].items, p)[i] = Node(who, t, i)
    BY <2>1, <2>10, <2>12
  <2>14. CollectedNodes'
    <3> SUFFICES ASSUME NEW m \in Collected, list'[m].there
                 PROVE  /\ pc' = "nodes" /\ m = Darr'
                        /\ Len(list'[m].items) <= nodes'[who'][t']
                        /\ \A i \in 1..Len(list'[m].items) : list'[m].items[i] = Node(who', t', i)
      BY DEF CollectedNodes
    <3>1. m = D
      BY <2>5, <1>t, <1>d, Names3 DEF CollectedNodes
    <3> QED
      BY <3>1, <2>2, <2>3, <2>5, <2>9, <2>10, <2>13, <1>d
  <2> QED
    BY <2>2, <2>5, <2>7, <2>8, <2>14, <1>d, <1>p, CollectStep DEF Over
<1>14. CASE CollectNodeFails
  <2>1. /\ pc = "nodes" /\ pc' \in {"fail", "collect", "destroy", "exit"}
        /\ list' = [list EXCEPT ![D] = NoList] /\ Release(Freed(D))
        /\ lost' = lost \union {D}
        /\ UNCHANGED <<push, args, fpath, nodes, who>>
    BY <1>14, <1>d DEF CollectNodeFails, GiveUp, NextType
  <2>2. /\ \A m \in Lists \ {D} : list'[m] = list[m]
        /\ ~list'[D].there /\ ~list'[D].arr /\ list'[D].items = << >>
    BY <2>1, <1>t, <1>l, NoLists
  <2>3. PICK others : others = {}
    OBVIOUS
  <2>4. OwnedIsLive' /\ NothingLost' /\ (Freed(D) \union others) \subseteq live
    <3>1. live' = live \ (Freed(D) \union others)
      BY <2>1, <2>3 DEF Release
    <3>2. (\A p : Pushes(p) <=> p \in others) /\ \A p : ~Pushes(p)'
      BY <2>1, <2>3, <1>p, <1>q, <1>r
    <3>3. D \in lost' /\ lost \subseteq lost'
      BY <2>1
    <3> QED
      BY <2>1, <2>2, <3>1, <3>2, <3>3, <1>t, <1>l, HeapFreedArray
  <2>5. MemorySafe'
    BY <2>1, <2>4, <1>t DEF Release, MemorySafe
  <2>6. CollectedNodes'
    BY <2>1, <2>2, <1>t, <1>d, Names3 DEF CollectedNodes
  <2> QED
    BY <2>1, <2>2, <2>4, <2>5, <2>6, <1>d, <1>p, CollectStep DEF Over
<1>c. ASSUME pc = "nodes", list[D].there
      PROVE  ~Dangling(Items(D)) /\ FreedWithStruct(D) \subseteq live
  <2>1. FreedWithStruct(D) \subseteq live
    BY <1>t, <1>l, FreedParts DEF OwnedIsLive
  <2>2. \A p \in Items(D) : p \in live
    <3> SUFFICES ASSUME NEW i \in 1..Len(list[D].items) PROVE list[D].items[i] \in live
      BY DEF Items
    <3>1. /\ list[D].items[i] = Node(who, t, i)
          /\ Len(list[D].items) <= nodes[who][t]
      BY <1>c, <1>t, <1>d DEF CollectedNodes
    <3>2. i \in 1..nodes[who][t] /\ i \in Nat /\ who \in Who /\ t \in Type
      BY <3>1, <1>t, <1>l DEF TypeOK
    <3>3. OwnsNode(list[D].items[i])
      BY <3>1, <3>2 DEF OwnsNode
    <3> QED
      BY <3>3, <1>t, OwnedParts DEF OwnedIsLive
  <2> QED
    BY <2>1, <2>2 DEF Dangling
<1>e. ASSUME pc = "nodes", ~list[D].there
      PROVE  ~Dangling(Items(D)) /\ FreedWithStruct(D) \subseteq live
  <2>1. FreedWithStruct(D) \subseteq live
    BY <1>t, <1>l, FreedParts DEF OwnedIsLive
  <2>2. Items(D) = {}
    BY <1>e, <1>t, <1>l, NoItems DEF TypeOK
  <2> QED
    BY <2>1, <2>2 DEF Dangling
<1>15. CASE PrintCollected
  <2>1. /\ pc = "nodes" /\ pc' \in {"collect", "destroy", "exit"}
        /\ list' = [list EXCEPT ![D] = NoList]
        /\ live' = live \ FreedWithStruct(D)
        /\ fault' = (fault \/ Dangling(Items(D)) \/ ~(FreedWithStruct(D) \subseteq live))
        /\ UNCHANGED <<push, args, fpath, nodes, who, lost>>
    BY <1>15, <1>d DEF PrintCollected, NextType, ReadCollected
  <2>2. /\ \A m \in Lists \ {D} : list'[m] = list[m]
        /\ ~list'[D].there
    BY <2>1, <1>t, <1>l, NoLists
  <2>3. OwnedIsLive' /\ NothingLost'
    BY <2>1, <1>t, <1>l, <1>p, <1>q, <1>r, HeapFreed
  <2>4. MemorySafe'
    BY <2>1, <1>c, <1>e, <1>t DEF MemorySafe
  <2>5. CollectedNodes'
    BY <2>1, <2>2, <1>t, <1>d, Names3 DEF CollectedNodes
  <2> QED
    BY <2>1, <2>2, <2>3, <2>4, <2>5, <1>d, <1>p, CollectStep DEF Over
<1>16. CASE PurgeCollected
  <2>1. PICK new \in TreesOf(mode) :
          /\ SetNodes("main", new)
          /\ live' = ((live \ AllNodes("main")) \union NodesAre("main", new))
                       \ FreedWithStruct(D)
    BY <1>16, <1>d DEF PurgeCollected
  <2>2. /\ pc = "nodes" /\ pc' \in {"collect", "destroy", "exit", "fail"}
        /\ list' = [list EXCEPT ![D] = NoList]
        /\ fault' = (fault \/ Dangling(Items(D)) \/ ~(FreedWithStruct(D) \subseteq live))
        /\ UNCHANGED <<push, args, fpath, who, lost>>
    BY <1>16, <1>d DEF PurgeCollected, NextType, ReadCollected
  <2>3. /\ \A m \in Lists \ {D} : list'[m] = list[m]
        /\ ~list'[D].there /\ ~list'[D].arr /\ list'[D].items = << >>
    BY <2>2, <1>t, <1>l, NoLists
  <2>4. new \in [Type -> Nat]
    BY <1>n
  <2>5. OwnedIsLive' /\ NothingLost'
    BY <2>1, <2>2, <2>4, <1>t, <1>l, <1>w, <1>p, <1>q, <1>r, HeapPurged
  <2>6. MemorySafe'
    BY <2>2, <1>c, <1>e, <1>t DEF MemorySafe
  <2>7. CollectedNodes'
    BY <2>2, <2>3, <1>t, <1>d, Names3 DEF CollectedNodes
  <2> QED
    BY <2>2, <2>3, <2>5, <2>6, <2>7, <1>d, <1>p, CollectStep DEF Over
<1> QED
  BY <1>1, <1>2, <1>3, <1>4, <1>5, <1>6, <1>7, <1>8, <1>9, <1>10, <1>11, <1>12, <1>13,
     <1>14, <1>15, <1>16, <1>17, <1>18, <1>19, <1>20 DEF Running

LEMMA InvStep == IInv /\ [Next]_vars => IInv'
<1> SUFFICES ASSUME IInv, [Next]_vars PROVE IInv'
  OBVIOUS
<1> USE DEF progVars
<1>1. TypeOK'
  BY TypeStep DEF IInv
<1>t. TypeOK /\ OwnedIsLive /\ NothingLost /\ MemorySafe /\ PathsOnce /\ CollectedNodes /\ NamesKept
  BY DEF IInv
<1>p. pc \notin {"options", "arguments"} => push = "none"
  BY <1>t DEF IInv, Phases, TypeOK
<1>2. CASE NewPurgeInfiles
  <2>1. /\ pc = "start" /\ pc' = "options" /\ New("purge_infiles", 1, TRUE)
        /\ UNCHANGED <<args, fpath, nodes, lost, push>>
    BY <1>2 DEF NewPurgeInfiles
  <2>2. /\ "purge_infiles" \in Files \union {"pile_of_shame"} /\ ~list["purge_infiles"].there
        /\ 1 \in Nat \ {0} /\ TRUE \in BOOLEAN /\ push = "none"
    BY <2>1, <1>p DEF IInv, Phases, Files
  <2>3. pc \notin Over /\ pc # "nodes" /\ pc' # "start"
    BY <2>1 DEF Over
  <2> QED
    BY <1>1, <2>1, <2>2, <2>3, NewStep
<1>3. CASE StartupFails
  BY <1>1, <1>3, QuietStep DEF StartupFails, ReturnOnly, Return, Over
<1>4. CASE Pushing
  BY <1>1, <1>4, PushingInv
<1>5. CASE NewInfiles
  <2>1. PICK n \in 1..MaxFiles : New("infiles", n, TRUE)
    BY <1>5 DEF NewInfiles
  <2>2. /\ pc = "options" /\ pc' = "arguments" /\ push = "none"
        /\ UNCHANGED <<args, fpath, nodes, lost, push>>
    BY <1>5 DEF NewInfiles
  <2>3. /\ "infiles" \in Files \union {"pile_of_shame"} /\ ~list["infiles"].there
        /\ n \in Nat \ {0} /\ TRUE \in BOOLEAN
    BY <2>2, MemoryAssumption DEF IInv, Phases, Files
  <2>4. pc \notin Over /\ pc # "nodes" /\ pc' # "start"
    BY <2>2 DEF Over
  <2> QED
    BY <1>1, <2>1, <2>2, <2>3, <2>4, NewStep
<1>6. CASE StartRun
  BY <1>1, <1>6, QuietStep DEF StartRun, Over
<1>7. CASE Running
  BY <1>1, <1>7, RunningInv
<1>8. CASE DestroyBuilder
  <2>1. /\ pc = "exit" /\ pc' = "free_pile" /\ "main" \in Who
        /\ UNCHANGED <<push, args, fpath, list, lost>>
    BY <1>8 DEF DestroyBuilder, Who
  <2>2. \A p : Pushes(p)' <=> Pushes(p)
    BY <2>1 DEF Pushes
  <2>3. OwnedIsLive' /\ NothingLost' /\ MemorySafe'
    BY <1>1, <1>8, <2>1, <2>2, <1>t, HeapDestroyed DEF DestroyBuilder
  <2> QED
    BY <1>1, <2>1, <2>3, <1>p, ListsKeptStep DEF Over
<1>9. CASE FreePile
  BY <1>1, <1>9, <1>p, FreePtrStep DEF FreePile, Over
<1>10. CASE FreeInfiles
  BY <1>1, <1>10, <1>p, FreePtrStep DEF FreeInfiles, Over, Files
<1>11. CASE FreePurgeInfiles
  BY <1>1, <1>11, <1>p, FreePtrStep DEF FreePurgeInfiles, Over, Files
<1>12. CASE UNCHANGED vars
  <2> USE <1>12 DEF vars
  <2>1. (OwnedIsLive /\ NothingLost)' /\ MemorySafe'
    <3>1. \A p : Pushes(p)' <=> Pushes(p)
      BY DEF Pushes
    <3> QED
      BY <3>1, <1>1, <1>t, HeapKept DEF MemorySafe
  <2>2. PathsOnce' /\ Phases'
    BY DEF IInv, PathsOnce, Phases
  <2>3. NamesKept'
    BY <1>t DEF NamesKept, Items
  <2>4. CollectedNodes'
    BY <1>t DEF CollectedNodes, Darr
  <2> QED
    BY <1>1, <2>1, <2>2, <2>3, <2>4 DEF IInv
<1> QED
  BY <1>2, <1>3, <1>4, <1>5, <1>6, <1>7, <1>8, <1>9, <1>10, <1>11, <1>12 DEF Next, Done

LEMMA InitInv == Init => IInv
<1> SUFFICES ASSUME Init PROVE IInv
  OBVIOUS
<1>1. TypeOK
  BY PointerTypes DEF Init, TypeOK, NoList, Who, Type, Collected
<1>2. \A l \in Lists : ~list[l].there /\ ~list[l].arr /\ list[l].items = << >>
  BY DEF Init, NoList
<1>3. \A p : p \notin Owned
  BY <1>1, <1>2, Names3, OwnedParts
  DEF Init, OwnsStruct, OwnsArr, OwnsPath, OwnsNode, Pushes, Items
<1>4. OwnedIsLive /\ NothingLost /\ MemorySafe
  BY <1>3 DEF Init, OwnedIsLive, NothingLost, MemorySafe
<1>5. PathsOnce /\ NamesKept
  BY <1>2, Names3 DEF Init, PathsOnce, NamesKept, Items
<1>6. CollectedNodes /\ Phases
  BY <1>2, Names3 DEF Init, CollectedNodes, Phases
<1> QED
  BY <1>1, <1>4, <1>5, <1>6 DEF IInv

\* Every reachable state has the invariant, whatever fails and in whatever
\* order names are pushed, files read and lists freed.
THEOREM Invariance == Spec => []IInv
BY InitInv, InvStep, PTL DEF Spec

\* No list is longer than its array, and each has the destructor it should.
THEOREM ArraysHold == Spec => []TypeOK
<1>1. IInv => TypeOK
  BY DEF IInv
<1> QED
  BY <1>1, Invariance, PTL

\* No block is freed twice and none is read after it was freed: the paths
\* that two lists share, and the nodes that a collected list points into.
THEOREM NoUseAfterFree == Spec => []MemorySafe
<1>1. IInv => MemorySafe
  BY DEF IInv
<1> QED
  BY <1>1, Invariance, PTL

\* Whatever fails, all that is allocated is still to be freed, but the line
\* buffers and the structs of collected lists that failed.
THEOREM NoOtherLeak == Spec => []NothingLost
<1>1. IInv => NothingLost
  BY DEF IInv
<1> QED
  BY <1>1, Invariance, PTL

=============================================================================
