--------------------------- MODULE IpDedupMemory ----------------------------
(***************************************************************************)
(* Who owns what: the dynamic arrays of src/util/dynarray.c under the      *)
(* program that fills, reads and frees them (src/app/ip-dedup/main.c and   *)
(* globals.c, src/ip_tree_io/builder.c and print.c,                        *)
(* src/ip_tree/op/collect_ip4.c and collect_ip6.c, src/util/readfile.c).   *)
(*                                                                         *)
(* A path made for "@name" is owned by pile_of_shame and only pointed to   *)
(* by infiles or purge_infiles; a collected list points into the nodes of  *)
(* a tree.  Every malloc() and realloc() may fail, and a realloc() that    *)
(* fails frees the whole array.  Exit codes and what the files hold are    *)
(* IpDedup's; a file here may add nodes to the trees.                      *)
(***************************************************************************)
EXTENDS Naturals, Sequences

CONSTANTS PileSize,             \* the pile's first capacity, 12 in the code
          MaxPurge, MaxFiles,   \* arguments of -p, positional arguments
          MaxNodes              \* hot nodes a tree may have

ASSUME MemoryAssumption ==
  PileSize \in Nat \ {0} /\ {MaxPurge, MaxFiles, MaxNodes} \subseteq Nat

Type == {"v4", "v6"}
Who == {"main", "purge"}        \* the trees of the output, and of -p

\* The list that collects a tree's nodes.
Coll == [main |-> [v4 |-> "main_v4", v6 |-> "main_v6"],
         purge |-> [v4 |-> "purge_v4", v6 |-> "purge_v6"]]
Collected == {"main_v4", "main_v6", "purge_v4", "purge_v6"}

Lists == {"pile_of_shame", "infiles", "purge_infiles"} \union Collected

\* A pointer: to a block of the heap, or into argv.
Ptr(kind, of, n) == [kind |-> kind, of |-> of, n |-> n]

Struct(l) == Ptr("struct", l, 0)
Arr(l) == Ptr("arr", l, 0)
PathPtr(n) == Ptr("path", "", n)
ArgvPtr(n) == Ptr("argv", "", n)
LineBuf(w, k) == Ptr("line_buf", w, k)
Node(w, t, i) == Ptr("node", Coll[w][t], i)

VARIABLES pc, push,             \* where main_run() and main_push_infile() are
          args, fpath,          \* arguments seen; the pointer to push
          argc, mode,           \* positional arguments, types asked for
          who, t, k,            \* the trees, type and file being worked on
          nodes,                \* hot nodes of each tree, 0 for no tree
          list,                 \* struct dynarray, by the pointer to it
          live, fault,          \* allocated blocks; a block was freed that was
                                \* not allocated, or read after it was freed
          lost                  \* history: collected lists that failed

vars == <<pc, push, args, fpath, argc, mode, who, t, k, nodes, list, live, fault, lost>>
progVars == <<args, fpath, argc, mode, who, t, k, nodes, lost>>

-----------------------------------------------------------------------------
(***************************************************************************)
(* dynarray.c.  "there" tells a pointer from NULL, "arr" whether the       *)
(* array is allocated, and readonly which item destructor is set.          *)
(***************************************************************************)
NoList == [there |-> FALSE, arr |-> FALSE, items |-> << >>, size |-> 0, readonly |-> FALSE]

\* new_dynarray(), with dynarray_set_data_readonly() or without.
new_dynarray(n, readonly) ==
  [there |-> TRUE, arr |-> TRUE, items |-> << >>, size |-> n, readonly |-> readonly]

New(l, n, readonly) ==
  /\ list' = [list EXCEPT ![l] = new_dynarray(n, readonly)]
  /\ live' = live \union {Struct(l), Arr(l)}
  /\ UNCHANGED fault

Items(l) == {list[l].items[i] : i \in 1..Len(list[l].items)}

Full(l) == Len(list[l].items) + 1 > list[l].size

\* Mutant: the array grows one item too late.
AppendedLate(d, p) ==
  [there |-> d.there, arr |-> d.arr, items |-> Append(d.items, p),
   size |-> IF Len(d.items) > d.size THEN 2 * d.size ELSE d.size, readonly |-> d.readonly]

\* A full array is doubled, which is enough for one more item.
Appended(d, p) ==
  [there |-> d.there, arr |-> d.arr, items |-> Append(d.items, p),
   size |-> IF Len(d.items) + 1 > d.size THEN 2 * d.size ELSE d.size, readonly |-> d.readonly]

\* dynarray_append()
AppendItem(l, p) ==
  /\ list[l].arr
  /\ list' = [list EXCEPT ![l] = Appended(@, p)]
  /\ UNCHANGED <<live, fault>>

\* dynarray_free() leaves the struct.
Emptied(d) ==
  [there |-> d.there, arr |-> FALSE, items |-> << >>, size |-> 0, readonly |-> d.readonly]

\* free() of the pointers in a set.
Release(freed) == live' = live \ freed /\ fault' = (fault \/ ~(freed \subseteq live))

\* What dynarray_free() frees: the items unless the data are readonly.
ItemsFreed(l) == IF list[l].readonly THEN {} ELSE Items(l)
Freed(l) == ItemsFreed(l) \union (IF list[l].arr THEN {Arr(l)} ELSE {})
FreedWithStruct(l) == Freed(l) \union (IF list[l].there THEN {Struct(l)} ELSE {})

\* An item that is freed is in the list twice.
FreedTwice(l) ==
  /\ ~list[l].readonly
  /\ \E i, j \in 1..Len(list[l].items) : i # j /\ list[l].items[i] = list[l].items[j]

ReleaseList(l, freed) ==
  live' = live \ freed /\ fault' = (fault \/ ~(freed \subseteq live) \/ FreedTwice(l))

\* A realloc() that fails frees the array; others are freed by the caller.
FreeArray(l, others) ==
  /\ list' = [list EXCEPT ![l] = Emptied(@)]
  /\ ReleaseList(l, Freed(l) \union others)

\* dynarray_free_ptr()
FreePtr(l) == list' = [list EXCEPT ![l] = NoList] /\ ReleaseList(l, FreedWithStruct(l))

-----------------------------------------------------------------------------
Init ==
  /\ pc = "start" /\ push = "none" /\ args = 0 /\ fpath = ArgvPtr(0)
  /\ argc = 0 /\ mode = {} /\ who = "main" /\ t = "v4" /\ k = 1
  /\ nodes = [w \in Who |-> [ty \in Type |-> 0]]
  /\ list = [l \in Lists |-> NoList] /\ live = {} /\ fault = FALSE /\ lost = {}

\* main_inner() or main_run() returns; the heap is as it was, or as the step
\* that fails leaves it.
Return == pc' = "exit" /\ push' = "none" /\ UNCHANGED progVars
ReturnOnly == Return /\ UNCHANGED <<list, live, fault>>

NewPurgeInfiles ==
  /\ pc = "start" /\ pc' = "options"
  /\ New("purge_infiles", 1, TRUE)
  /\ UNCHANGED <<push, progVars>>

\* new_dynarray() and ip_tree_builder_new() fail, -h, and every usage error.
StartupFails ==
  /\ pc \in {"start", "options", "arguments"} /\ push = "none"
  /\ ReturnOnly

\* Where the argument goes.
Target == IF pc = "options" THEN "purge_infiles" ELSE "infiles"

MorePushes ==
  /\ push = "none"
  /\ \/ pc = "options" /\ Len(list["purge_infiles"].items) < MaxPurge
     \/ pc = "arguments" /\ Len(list["infiles"].items) < argc

\* main_push_infile(): a name, or "@name" whose path is put together.
PushName ==
  /\ MorePushes
  /\ push' = "append" /\ fpath' = ArgvPtr(args) /\ args' = args + 1
  /\ UNCHANGED <<pc, argc, mode, who, t, k, nodes, list, live, fault, lost>>

PushPath ==
  /\ MorePushes
  /\ push' = "access" /\ fpath' = PathPtr(args) /\ args' = args + 1
  /\ live' = live \union {PathPtr(args)}
  /\ UNCHANGED <<pc, argc, mode, who, t, k, nodes, list, fault, lost>>

DatafileThere ==
  /\ push = "access" /\ push' = "pile"
  /\ UNCHANGED <<pc, progVars, list, live, fault>>

DatafileMissing ==
  /\ push = "access"
  /\ Release({fpath}) /\ Return /\ UNCHANGED list

\* ipdedup_globals_pile_of_shame_push()
NewPile ==
  /\ push = "pile" /\ ~list["pile_of_shame"].there
  /\ New("pile_of_shame", PileSize, FALSE)
  /\ UNCHANGED <<pc, push, progVars>>

NewPileFails ==
  /\ push = "pile" /\ ~list["pile_of_shame"].there
  /\ Release({fpath}) /\ Return /\ UNCHANGED list

PushToPile ==
  /\ push = "pile" /\ list["pile_of_shame"].there
  /\ AppendItem("pile_of_shame", fpath)
  /\ push' = "append"
  /\ UNCHANGED <<pc, progVars>>

\* Mutant: the path is left to the pile.
PushToPileFailsLeak ==
  /\ push = "pile" /\ list["pile_of_shame"].there /\ Full("pile_of_shame")
  /\ FreeArray("pile_of_shame", {})
  /\ Return

\* realloc() fails: every path made so far is freed, and the new one by the
\* caller; infiles and purge_infiles still point to them.
PushToPileFails ==
  /\ push = "pile" /\ list["pile_of_shame"].there /\ Full("pile_of_shame")
  /\ FreeArray("pile_of_shame", {fpath})
  /\ Return

PushToList ==
  /\ push = "append"
  /\ AppendItem(Target, fpath)
  /\ push' = "none"
  /\ UNCHANGED <<pc, progVars>>

PushToListFails ==
  /\ push = "append" /\ Full(Target)
  /\ FreeArray(Target, {})
  /\ Return

\* Mutant: infiles owns its items.
NewInfilesOwning ==
  /\ pc = "options" /\ push = "none" /\ pc' = "arguments"
  /\ \E n \in 1..MaxFiles : argc' = n /\ New("infiles", n, FALSE)
  /\ UNCHANGED <<push, args, fpath, mode, who, t, k, nodes, lost>>

\* There are positional arguments.
NewInfiles ==
  /\ pc = "options" /\ push = "none" /\ pc' = "arguments"
  /\ \E n \in 1..MaxFiles : argc' = n /\ New("infiles", n, TRUE)
  /\ UNCHANGED <<push, args, fpath, mode, who, t, k, nodes, lost>>

\* ip_tree_builder_new(): the names are all there, or stdin is read.
StartRun ==
  /\ push = "none"
  /\ pc = "options" \/ (pc = "arguments" /\ Len(list["infiles"].items) = argc)
  /\ pc' = "files"
  /\ \E m \in (SUBSET Type) \ {{}} : mode' = m
  /\ UNCHANGED <<push, args, fpath, argc, who, t, k, nodes, list, live, fault, lost>>

-----------------------------------------------------------------------------
(***************************************************************************)
(* main_run(): the files of the builder that reads.                        *)
(***************************************************************************)
Names == IF who = "main" THEN "infiles" ELSE "purge_infiles"

NodesOf(w, ty, n) == {Node(w, ty, i) : i \in 1..n}
AllNodes(w) == UNION {NodesOf(w, ty, nodes[w][ty]) : ty \in Type}

\* The next file is there to be read; without infiles it is stdin.
MoreFiles ==
  /\ pc = "files"
  /\ k <= IF list[Names].there THEN Len(list[Names].items) ELSE 1

NameRead == IF list[Names].there THEN {list[Names].items[k]} ELSE {}

\* A name that is read is in argv, or must not have been freed.
Dangling(ptrs) == \E p \in ptrs : p.kind # "argv" /\ p \notin live

\* The trees of w have other hot nodes.
SetNodes(w, new) == nodes' = [nodes EXCEPT ![w] = new]
NodesAre(w, new) == UNION {NodesOf(w, ty, new[ty]) : ty \in Type}

\* What the trees of the types asked for may hold.
TreesOf(m) == {new \in [Type -> 0..MaxNodes] : \A ty \in Type \ m : new[ty] = 0}

\* The stream is read to its end and its addresses inserted; getline()'s
\* buffer stays: readfile_state_free_data() clears the pointer first.
ReadFile ==
  /\ MoreFiles /\ k' = k + 1
  /\ fault' = (fault \/ Dangling(NameRead))
  /\ \E new \in TreesOf(mode) :
       /\ SetNodes(who, new)
       /\ live' = (live \ AllNodes(who)) \union NodesAre(who, new) \union {LineBuf(who, k)}
  /\ UNCHANGED <<pc, push, args, fpath, argc, mode, who, t, list, lost>>

\* A file cannot be opened, or there is an error in it, with some of its
\* addresses inserted: the builder of the purge trees goes, then the names.
ReadFails ==
  /\ MoreFiles /\ pc' = "failed"
  /\ fault' = (fault \/ Dangling(NameRead))
  /\ \/ UNCHANGED <<nodes, live>>
     \/ \E new \in TreesOf(mode) :
          /\ SetNodes(who, new)
          /\ live' = (live \ AllNodes(who)) \union NodesAre(who, new) \union {LineBuf(who, k)}
  /\ UNCHANGED <<push, args, fpath, argc, mode, who, t, k, list, lost>>

DestroyFailedBuilder ==
  /\ pc = "failed" /\ pc' = "names"
  /\ IF who = "purge"
     THEN Release(AllNodes("purge")) /\ SetNodes("purge", [ty \in Type |-> 0])
     ELSE UNCHANGED <<live, fault, nodes>>
  /\ UNCHANGED <<push, args, fpath, argc, mode, who, t, k, list, lost>>

FreeNames ==
  /\ pc = "names" /\ pc' = "exit"
  /\ FreePtr(Names)
  /\ UNCHANGED <<push, progVars>>

\* The names are freed; the main trees are collapsed next, the purge trees
\* collected.
EndOfFiles ==
  /\ pc = "files" /\ ~MoreFiles
  /\ FreePtr(Names)
  /\ pc' = IF who = "main" THEN "trees" ELSE "collect"
  /\ UNCHANGED <<push, progVars>>

\* ip_tree_collapse() and ip_tree_invert() make and destroy nodes.
CollapseAndInvert ==
  /\ pc = "trees" /\ pc' = "invert"
  /\ \E new \in TreesOf(mode) :
       /\ SetNodes("main", new)
       /\ live' = (live \ AllNodes("main")) \union NodesAre("main", new)
  /\ UNCHANGED <<push, args, fpath, argc, mode, who, t, k, list, fault, lost>>

\* The inversion has failed: the nodes made so far stay in the trees.
InvertFails == pc = "invert" /\ ReturnOnly

NoPurge ==
  /\ pc = "invert" /\ pc' = "open"
  /\ list["purge_infiles"].items = << >>
  /\ FreePtr("purge_infiles")
  /\ UNCHANGED <<push, progVars>>

\* main_parse_dedup_to_tree()
StartPurge ==
  /\ pc = "invert" /\ pc' = "files" /\ who' = "purge" /\ k' = 1
  /\ list["purge_infiles"].items # << >>
  /\ UNCHANGED <<push, args, fpath, argc, mode, t, nodes, list, live, fault, lost>>

\* The second ip_tree_builder_new() fails.
StartPurgeFails ==
  /\ pc = "invert" /\ pc' = "names" /\ who' = "purge"
  /\ list["purge_infiles"].items # << >>
  /\ UNCHANGED <<push, args, fpath, argc, mode, t, k, nodes, list, live, fault, lost>>

-----------------------------------------------------------------------------
(***************************************************************************)
(* The hot nodes are collected, purged or printed, and the list is freed.  *)
(***************************************************************************)
Darr == Coll[who][t]

\* The other type is next; the purge trees are destroyed, or the run is over.
NextType ==
  IF t = "v4" THEN t' = "v6" /\ pc' = "collect"
  ELSE pc' = (IF who = "purge" THEN "destroy" ELSE "exit") /\ UNCHANGED t

NoTree ==
  /\ pc = "collect" /\ t \notin mode
  /\ NextType
  /\ UNCHANGED <<push, args, fpath, argc, mode, who, k, nodes, list, live, fault, lost>>

\* ip4_tree_collect_addr()
StartCollect ==
  /\ pc = "collect" /\ t \in mode /\ pc' = "nodes"
  /\ New(Darr, 1, TRUE)
  /\ UNCHANGED <<push, progVars>>

CollectNode ==
  /\ pc = "nodes" /\ Len(list[Darr].items) < nodes[who][t]
  /\ AppendItem(Darr, Node(who, t, Len(list[Darr].items) + 1))
  /\ UNCHANGED <<pc, push, progVars>>

\* NULL is returned: purging gives up, only the last printing is told.
GiveUp ==
  IF who = "purge" THEN pc' = "fail" /\ UNCHANGED t ELSE NextType

StartCollectFails ==
  /\ pc = "collect" /\ t \in mode
  /\ GiveUp
  /\ UNCHANGED <<push, args, fpath, argc, mode, who, k, nodes, list, live, fault, lost>>

\* The array is freed by dynarray_append(), and the pointer to the struct is
\* dropped.
CollectNodeFails ==
  /\ pc = "nodes" /\ Len(list[Darr].items) < nodes[who][t] /\ Full(Darr)
  /\ GiveUp
  /\ list' = [list EXCEPT ![Darr] = NoList]
  /\ Release(Freed(Darr))
  /\ lost' = lost \union {Darr}
  /\ UNCHANGED <<push, args, fpath, argc, mode, who, k, nodes>>

\* The collected addresses are read from the nodes they point into.
ReadCollected ==
  fault' = (fault \/ Dangling(Items(Darr)) \/ ~(FreedWithStruct(Darr) \subseteq live))

PrintCollected ==
  /\ pc = "nodes" /\ who = "main" /\ Len(list[Darr].items) = nodes[who][t]
  /\ list' = [list EXCEPT ![Darr] = NoList]
  /\ live' = live \ FreedWithStruct(Darr) /\ ReadCollected
  /\ NextType
  /\ UNCHANGED <<push, args, fpath, argc, mode, who, k, nodes, lost>>

\* ip_tree_purge() for each of them, which may fail half way.
PurgeCollected ==
  /\ pc = "nodes" /\ who = "purge" /\ Len(list[Darr].items) = nodes[who][t]
  /\ list' = [list EXCEPT ![Darr] = NoList]
  /\ \E new \in TreesOf(mode) :
       /\ \A ty \in Type \ {t} : new[ty] = nodes["main"][ty]
       /\ SetNodes("main", new)
       /\ live' = ((live \ AllNodes("main")) \union NodesAre("main", new))
                    \ FreedWithStruct(Darr)
  /\ ReadCollected
  /\ NextType \/ (pc' = "fail" /\ UNCHANGED t)
  /\ UNCHANGED <<push, args, fpath, argc, mode, who, k, lost>>

DestroyPurgeTrees ==
  /\ pc \in {"destroy", "fail"} /\ pc' = IF pc = "fail" THEN "exit" ELSE "open"
  /\ Release(AllNodes("purge")) /\ SetNodes("purge", [ty \in Type |-> 0])
  /\ UNCHANGED <<push, args, fpath, argc, mode, who, t, k, list, lost>>

OpenOutstream ==
  /\ pc = "open" /\ pc' = "collect" /\ who' = "main" /\ t' = "v4"
  /\ UNCHANGED <<push, args, fpath, argc, mode, k, nodes, list, live, fault, lost>>

CannotCreate == pc = "open" /\ ReturnOnly

-----------------------------------------------------------------------------
(***************************************************************************)
(* ipdedup_globals_free()                                                  *)
(***************************************************************************)
DestroyBuilder ==
  /\ pc = "exit" /\ pc' = "free_pile"
  /\ Release(AllNodes("main")) /\ SetNodes("main", [ty \in Type |-> 0])
  /\ UNCHANGED <<push, args, fpath, argc, mode, who, t, k, list, lost>>

FreePile ==
  /\ pc = "free_pile" /\ pc' = "free_infiles" /\ FreePtr("pile_of_shame")
  /\ UNCHANGED <<push, progVars>>

FreeInfiles ==
  /\ pc = "free_infiles" /\ pc' = "free_purge" /\ FreePtr("infiles")
  /\ UNCHANGED <<push, progVars>>

FreePurgeInfiles ==
  /\ pc = "free_purge" /\ pc' = "done" /\ FreePtr("purge_infiles")
  /\ UNCHANGED <<push, progVars>>

Done == pc = "done" /\ UNCHANGED vars

Pushing ==
  \/ PushName \/ PushPath \/ DatafileThere \/ DatafileMissing
  \/ NewPile \/ NewPileFails \/ PushToPile \/ PushToPileFails
  \/ PushToList \/ PushToListFails

Running ==
  \/ ReadFile \/ ReadFails \/ DestroyFailedBuilder \/ FreeNames \/ EndOfFiles
  \/ CollapseAndInvert \/ InvertFails \/ NoPurge \/ StartPurge \/ StartPurgeFails
  \/ NoTree \/ StartCollect \/ CollectNode \/ StartCollectFails \/ CollectNodeFails
  \/ PrintCollected \/ PurgeCollected \/ DestroyPurgeTrees \/ OpenOutstream \/ CannotCreate

Next ==
  \/ NewPurgeInfiles \/ StartupFails \/ Pushing \/ NewInfiles \/ StartRun
  \/ Running
  \/ DestroyBuilder \/ FreePile \/ FreeInfiles \/ FreePurgeInfiles \/ Done

Spec == Init /\ [][Next]_vars

-----------------------------------------------------------------------------
Kind == {"struct", "arr", "path", "argv", "line_buf", "node"}
Pointer == [kind : Kind, of : {""} \union Lists \union Who, n : Nat]

\* Every variable has its type; no list is longer than its array, an array
\* has a struct and room, and only the pile owns what it points to.
TypeOK ==
  /\ pc \in {"start", "options", "arguments", "files", "failed", "names", "trees", "invert",
             "collect", "nodes", "destroy", "fail", "open", "exit",
             "free_pile", "free_infiles", "free_purge", "done"}
  /\ push \in {"none", "access", "pile", "append"}
  /\ args \in Nat /\ argc \in Nat /\ k \in Nat \ {0} /\ fpath \in Pointer
  /\ mode \subseteq Type /\ who \in Who /\ t \in Type
  /\ nodes \in [Who -> [Type -> Nat]]
  /\ list \in [Lists -> [there : BOOLEAN, arr : BOOLEAN, items : Seq(Pointer), size : Nat,
                         readonly : BOOLEAN]]
  /\ \A l \in Lists :
       /\ Len(list[l].items) <= list[l].size
       /\ list[l].arr <=> list[l].size > 0
       /\ list[l].arr => list[l].there
       /\ list[l].readonly <=> list[l].there /\ l # "pile_of_shame"
  /\ live \subseteq Pointer /\ lost \subseteq Collected

\* No block is freed twice, none that is not a block of the heap, and no
\* name and no node is read after it was freed, in any order of failures.
MemorySafe == ~fault

\* What the program still has a pointer to that it will free by.
Owned ==
  (UNION {FreedWithStruct(l) : l \in Lists})
    \union (UNION {AllNodes(w) : w \in Who})
    \union (IF push \in {"access", "pile"} THEN {fpath} ELSE {})

\* Nothing is lost, at every step, but the line buffers, and the struct of a
\* collected list that failed: all the rest is freed in the end.
NothingLost ==
  \A b \in live : b \in Owned \/ b.kind = "line_buf" \/ \E l \in lost : b = Struct(l)

-----------------------------------------------------------------------------
(***************************************************************************)
(* The invariant the proofs rest on.                                       *)
(***************************************************************************)
\* What will be freed is allocated.
OwnedIsLive == Owned \subseteq live

\* The pile holds each path once, and none of those still to be made; the
\* one that is being pushed is not in it yet.
PathsOnce ==
  LET pile == list["pile_of_shame"].items
      next == IF push \in {"access", "pile"} THEN args - 1 ELSE args IN
  /\ \A i \in 1..Len(pile) : \E n \in 0..next - 1 : pile[i] = PathPtr(n)
  /\ \A i, j \in 1..Len(pile) : pile[i] = pile[j] => i = j
  /\ push \in {"access", "pile"} => args > 0 /\ fpath = PathPtr(args - 1)

\* Until the run ends every name is in argv or in the pile.
NamesKept ==
  /\ pc \notin {"exit", "free_pile", "free_infiles", "free_purge", "done"} =>
       \A l \in {"infiles", "purge_infiles"} : \A p \in Items(l) :
         p.kind = "argv" \/ p \in Items("pile_of_shame")
  /\ push = "append" => fpath.kind = "argv" \/ fpath \in Items("pile_of_shame")

\* A collected list holds the first nodes of the tree at work, and only
\* while they are collected and read.
CollectedNodes ==
  \A l \in Collected : list[l].there =>
    /\ pc = "nodes" /\ l = Darr
    /\ Len(list[l].items) <= nodes[who][t]
    /\ \A i \in 1..Len(list[l].items) : list[l].items[i] = Node(who, t, i)

\* A list is made once, and pushing is done while arguments are read.
Phases ==
  /\ pc = "start" => ~list["purge_infiles"].there
  /\ pc \in {"start", "options"} => ~list["infiles"].there
  /\ push # "none" => pc \in {"options", "arguments"}

\* Every block has one owner, and every pointer that will be read an owner
\* that outlives it: what makes MemorySafe and NothingLost inductive.
IInv ==
  TypeOK /\ MemorySafe /\ NothingLost /\ OwnedIsLive /\ PathsOnce /\ NamesKept
    /\ CollectedNodes /\ Phases

=============================================================================
