------------------------------- MODULE IpTree -------------------------------
(***************************************************************************)
(* The binary tree of networks (src/ip_tree/) as main_run() uses it:       *)
(* insert the input, collapse, invert if asked to, purge, collect.         *)
(*                                                                         *)
(* The recursive functions are run one call or one resumption per step:    *)
(* stack is the C stack, its top at the head, and a frame remembers where  *)
(* in the function the call is.  Every allocation may fail.                *)
(*                                                                         *)
(* A node is named by its position, the path from the root; its own record *)
(* of the address it stands for (node->addr) is separate, as in the code,  *)
(* and it is that record which is printed.                                 *)
(***************************************************************************)
EXTENDS IpAddr, FiniteSets

CONSTANTS Inputs,               \* the addresses the parser may deliver
          PurgeNets,            \* the networks that may be purged
          CollapseLens,         \* the values of -B/-C; 0 turns it off
          NULL

Node == [hot : BOOLEAN, addr : Addr]

ASSUME TreeAssumption ==
  /\ Inputs \subseteq Addr
  /\ PurgeNets \subseteq {x \in Addr : addr_is_net(x)}
  /\ CollapseLens \subseteq Nat
  /\ NULL \notin Node

TreeId == {"main", "repl"}      \* repl: purge's temporary tree

VARIABLES node,                 \* [TreeId -> [Path -> Node or NULL]]
          root,                 \* [TreeId -> Path]
          ac,                   \* auto_collapse_prefixlen of the main tree
          phase,                \* how far main_run() is
          call,                 \* the tree operation that is running
          on,                   \* the tree it runs on
          arg, cur,             \* insert: the address and the cursor
          stack,                \* the frames of a recursive operation
          out,                  \* the array collect fills
          before,               \* history: the set when invert began
          why                   \* the reason of a failure

opVars == <<call, on, arg, cur, stack>>
vars == <<node, root, ac, phase, opVars, out, before, why>>

-----------------------------------------------------------------------------
(***************************************************************************)
(* Nodes and trees (src/ip_tree/data/).                                    *)
(***************************************************************************)
NoNodes == [p \in Path |-> NULL]

new_null == [hot |-> FALSE, addr |-> addr_init_null]

new_child(src, bit, hot) == [hot |-> hot, addr |-> addr_init_child(src.addr, bit)]

new_sibling(src, hot) == [hot |-> hot, addr |-> addr_init_sibling(src.addr)]

\* Mutant: the node is moved and keeps its address.
flip_addr_inplace_not(n) == n

flip_addr_inplace(n) == [n EXCEPT !.addr = addr_init_sibling(@)]

\* node->left is Kid(N, p, 0), node->right is Kid(N, p, 1).
Kid(N, p, b) == IF Len(p) < W THEN N[Child(p, b)] ELSE NULL

KidHot(N, p, b) == Kid(N, p, b) # NULL /\ Kid(N, p, b).hot

\* f_destroy() of both children of p.
DestroyKids(N, p) == [q \in Path |-> IF StrictlyCovers(p, q) THEN NULL ELSE N[q]]

\* f_destroy() of the node at p.
DestroyNode(N, p) == [q \in Path |-> IF Covers(p, q) THEN NULL ELSE N[q]]

SetHot(N, p, h) == [N EXCEPT ![p].hot = h]

\* The addresses in the hot nodes' networks: what the tree stands for.
Cover(N) == UNION {NetOf(p) : p \in {q \in Path : N[q] # NULL /\ N[q].hot}}

-----------------------------------------------------------------------------
(***************************************************************************)
(* ip_tree_find(): walk from the root along the bits of x and stop at a    *)
(* hot node, at a missing child, or at the length of x.                    *)
(***************************************************************************)
Position(t, x, k) ==
  [i \in 1..k |-> IF i <= Len(root[t]) THEN root[t][i] ELSE x.bits[i]]

\* The walk for x comes to depth k.
Reaches(t, x, k) ==
  LET min_prefixpos == node[t][root[t]].addr.len IN
  /\ k \in min_prefixpos..x.len
  /\ \A j \in min_prefixpos..k : node[t][Position(t, x, j)] # NULL
  /\ \A j \in min_prefixpos..(k - 1) : ~node[t][Position(t, x, j)].hot

FindHit(t, x) == Reaches(t, x, x.len)

FindHotParent(t, x, k) ==
  k < x.len /\ Reaches(t, x, k) /\ node[t][Position(t, x, k)].hot

FindMiss(t, x, k) ==
  /\ k < x.len /\ Reaches(t, x, k)
  /\ ~node[t][Position(t, x, k)].hot
  /\ node[t][Position(t, x, k + 1)] = NULL

-----------------------------------------------------------------------------
Frame(where, p) == [at |-> where, node |-> p]

Top == Head(stack)

\* The function at the top of the stack is at this point.
Running(op, where) == call = op /\ stack # << >> /\ Top.at = where

Resume(frames) == stack' = frames \o Tail(stack)

Idle(p) == phase = p /\ call = "none"

OpDone == /\ call' = "none" /\ on' = "main" /\ arg' = addr_init_null
          /\ cur' = << >> /\ stack' = << >>

\* An operation returns -1 (or NULL) and main_run() gives up.
Abort(reason) ==
  /\ OpDone
  /\ phase' = "failed" /\ why' = reason /\ out' = << >> /\ before' = {}
  /\ node' = [node EXCEPT !["repl"] = NoNodes]
  /\ root' = [root EXCEPT !["repl"] = << >>]
  /\ UNCHANGED ac

Init ==
  /\ node = [t \in TreeId |->
               IF t = "main" THEN [NoNodes EXCEPT ![<< >>] = new_null] ELSE NoNodes]
  /\ root = [t \in TreeId |-> << >>]
  /\ ac = 0
  /\ phase = "new" /\ call = "none" /\ on = "main"
  /\ arg = addr_init_null /\ cur = << >> /\ stack = << >>
  /\ out = << >> /\ before = {} /\ why = "none"

SetAutoCollapse(l) ==
  /\ Idle("new")
  /\ ac' = l /\ phase' = "input"
  /\ UNCHANGED <<node, root, opVars, out, before, why>>

-----------------------------------------------------------------------------
(***************************************************************************)
(* ip_tree_insert(), on the main tree or on purge's temporary tree.        *)
(***************************************************************************)
Insert(x) ==
  /\ Idle("input")
  /\ call' = "insert" /\ arg' = x
  /\ UNCHANGED <<node, root, ac, phase, on, cur, stack, out, before, why>>

\* Purge goes on with ip_tree_invert() of its temporary tree.
InsertReturns ==
  /\ IF on = "main" THEN OpDone
     ELSE call' = "invert" /\ cur' = << >> /\ UNCHANGED <<on, arg, stack>>
  /\ UNCHANGED <<root, ac, phase, out, before, why>>

InsertHotParent ==
  /\ call = "insert"
  /\ \E k \in 0..W : FindHotParent(on, arg, k)
  /\ InsertReturns
  /\ UNCHANGED node

InsertHit ==
  LET p == Position(on, arg, arg.len) IN
  /\ call = "insert" /\ FindHit(on, arg)
  /\ node' = IF node[on][p].hot THEN node
             ELSE [node EXCEPT ![on] = DestroyKids(SetHot(@, p, TRUE), p)]
  /\ InsertReturns

InsertMiss ==
  /\ call = "insert"
  /\ \E k \in 0..W : FindMiss(on, arg, k) /\ cur' = Position(on, arg, k)
  /\ call' = "walk"
  /\ UNCHANGED <<node, root, ac, phase, on, arg, stack, out, before, why>>

\* The prefix length insert walks down to, subject to auto-collapse.
AutoCollapse(t) == IF t = "main" THEN ac ELSE 0

\* Mutant: the walk goes to the full length whatever auto-collapse says.
WalkLenNoCut == arg.len

WalkLen ==
  IF AutoCollapse(on) > 0 /\ arg.len > AutoCollapse(on)
  THEN AutoCollapse(on) ELSE arg.len

WalkDown ==
  LET src == node[on][cur]
      b   == arg.bits[src.addr.len + 1]
  IN /\ call = "walk" /\ src.addr.len < WalkLen
     /\ node' = [node EXCEPT ![on][Child(cur, b)] = new_child(src, b, FALSE)]
     /\ cur' = Child(cur, b)
     /\ UNCHANGED <<root, ac, phase, call, on, arg, stack, out, before, why>>

WalkDownNoMemory ==
  /\ call = "walk" /\ node[on][cur].addr.len < WalkLen
  /\ Abort("malloc")

WalkEnd ==
  /\ call = "walk" /\ node[on][cur].addr.len >= WalkLen
  /\ node' = [node EXCEPT ![on] = SetHot(@, cur, TRUE)]
  /\ InsertReturns

-----------------------------------------------------------------------------
(***************************************************************************)
(* ip_tree_collapse(): children first, then join two hot children.         *)
(***************************************************************************)
Recurse(op) ==
  /\ call' = op /\ stack' = <<Frame("enter", root[on])>>

StartCollapse ==
  /\ Idle("input")
  /\ phase' = "collapse" /\ Recurse("collapse")
  /\ UNCHANGED <<node, root, ac, on, arg, cur, out, before, why>>

CollapseStep ==
  /\ Resume(<< >>)
  /\ UNCHANGED <<root, ac, phase, call, on, arg, cur, out, before, why>>

\* Mutant: the children are joined into a cold node.
JoinedCold(N, p) == DestroyKids(N, p)

Joined(N, p) == SetHot(DestroyKids(N, p), p, TRUE)

CollapsesNow(p) ==
  \/ node[on][p].hot
  \/ ac > 0 /\ node[on][p].addr.len >= ac

CollapseNow ==
  /\ Running("collapse", "enter") /\ CollapsesNow(Top.node)
  /\ node' = [node EXCEPT ![on] = Joined(@, Top.node)]
  /\ CollapseStep

\* Mutant: the function calls itself for the same node.
DescendNowhere(b, frames) ==
  Resume(IF Kid(node[on], Top.node, b) # NULL
         THEN <<Frame("enter", Top.node)>> \o frames ELSE frames)

\* Go on with the child b of the node at the top, if there is one.
Descend(b, frames) ==
  Resume(IF Kid(node[on], Top.node, b) # NULL
         THEN <<Frame("enter", Child(Top.node, b))>> \o frames ELSE frames)

CollapseLeft ==
  /\ Running("collapse", "enter") /\ ~CollapsesNow(Top.node)
  /\ Descend(0, <<Frame("right", Top.node)>>)
  /\ UNCHANGED <<node, root, ac, phase, call, on, arg, cur, out, before, why>>

\* Mutant: the right subtree is not collapsed.
CollapseRightNot ==
  /\ Running("collapse", "right")
  /\ Resume(<<Frame("merge", Top.node)>>)
  /\ UNCHANGED <<node, root, ac, phase, call, on, arg, cur, out, before, why>>

CollapseRight ==
  /\ Running("collapse", "right")
  /\ Descend(1, <<Frame("merge", Top.node)>>)
  /\ UNCHANGED <<node, root, ac, phase, call, on, arg, cur, out, before, why>>

CollapseMerge ==
  /\ Running("collapse", "merge")
  /\ node' = IF \A b \in Bit : KidHot(node[on], Top.node, b)
             THEN [node EXCEPT ![on] = Joined(@, Top.node)] ELSE node
  /\ CollapseStep

CollapseReturns ==
  /\ call = "collapse" /\ stack = << >>
  /\ phase' = "collapsed" /\ OpDone
  /\ UNCHANGED <<node, root, ac, out, before, why>>

-----------------------------------------------------------------------------
(***************************************************************************)
(* ip_tree_invert(), on the main tree or on purge's temporary tree.        *)
(***************************************************************************)
StartInvert ==
  /\ Idle("collapsed")
  /\ phase' = "invert" /\ call' = "invert" /\ before' = Cover(node["main"])
  /\ UNCHANGED <<node, root, ac, on, arg, cur, stack, out, why>>

SkipInvert ==
  /\ Idle("collapsed") /\ phase' = "purge"
  /\ UNCHANGED <<node, root, ac, opVars, out, before, why>>

InvertHotRoot ==
  /\ call = "invert" /\ node[on][root[on]].hot
  /\ node' = [node EXCEPT ![on] = SetHot(DestroyKids(@, root[on]), root[on], FALSE)]
  /\ call' = "inverting" /\ stack' = << >>
  /\ UNCHANGED <<root, ac, phase, on, arg, cur, out, before, why>>

InvertEmpty ==
  /\ call = "invert" /\ ~node[on][root[on]].hot
  /\ \A b \in Bit : Kid(node[on], root[on], b) = NULL
  /\ call' = "inverting" /\ stack' = << >>
  /\ UNCHANGED <<node, root, ac, phase, on, arg, cur, out, before, why>>

InvertRoot ==
  /\ call = "invert" /\ ~node[on][root[on]].hot
  /\ \E b \in Bit : Kid(node[on], root[on], b) # NULL
  /\ Recurse("inverting")
  /\ UNCHANGED <<node, root, ac, phase, on, arg, cur, out, before, why>>

UnchangedByInvert == UNCHANGED <<root, ac, phase, call, on, arg, cur, out, before, why>>

\* Cases (B-1) and (C-1): the only child is hot, it becomes its sibling.
InvertMove ==
  LET p == Top.node IN
  /\ Running("inverting", "enter")
  /\ \E b \in Bit :
       /\ KidHot(node[on], p, b) /\ Kid(node[on], p, 1 - b) = NULL
       /\ node' = [node EXCEPT
                     ![on][Child(p, 1 - b)] = flip_addr_inplace(node[on][Child(p, b)]),
                     ![on][Child(p, b)] = NULL]
  /\ Resume(<< >>)
  /\ UnchangedByInvert

\* Mutant: the call goes to the child that is freed.
InvertOtherFreed ==
  LET p == Top.node IN
  /\ Running("inverting", "enter")
  /\ \E b \in Bit :
       /\ KidHot(node[on], p, b)
       /\ Kid(node[on], p, 1 - b) # NULL /\ ~KidHot(node[on], p, 1 - b)
       /\ node' = [node EXCEPT ![on] = DestroyNode(@, Child(p, b))]
       /\ Resume(<<Frame("enter", Child(p, b))>>)
  /\ UnchangedByInvert

\* Cases (B-2) and (C-2): the hot child goes, the other one is inverted.
InvertOther ==
  LET p == Top.node IN
  /\ Running("inverting", "enter")
  /\ \E b \in Bit :
       /\ KidHot(node[on], p, b)
       /\ Kid(node[on], p, 1 - b) # NULL /\ ~KidHot(node[on], p, 1 - b)
       /\ node' = [node EXCEPT ![on] = DestroyNode(@, Child(p, b))]
       /\ Resume(<<Frame("enter", Child(p, 1 - b))>>)
  /\ UnchangedByInvert

NoKidHot(N, p) == \A b \in Bit : ~KidHot(N, p, b)

\* Case (D), left: create it from the right child, or invert it.
InvertCreateLeft ==
  LET p == Top.node IN
  /\ Running("inverting", "enter") /\ NoKidHot(node[on], p)
  /\ Kid(node[on], p, 0) = NULL /\ Kid(node[on], p, 1) # NULL
  /\ node' = [node EXCEPT ![on][Child(p, 0)] = new_sibling(node[on][Child(p, 1)], TRUE)]
  /\ Resume(<<Frame("right", p)>>)
  /\ UnchangedByInvert

InvertLeft ==
  LET p == Top.node IN
  /\ Running("inverting", "enter") /\ NoKidHot(node[on], p)
  /\ Kid(node[on], p, 0) # NULL
  /\ Resume(<<Frame("enter", Child(p, 0)), Frame("right", p)>>)
  /\ UNCHANGED node
  /\ UnchangedByInvert

\* Case (D), right.
InvertCreateRight ==
  LET p == Top.node IN
  /\ Running("inverting", "right") /\ Kid(node[on], p, 1) = NULL
  /\ node' = [node EXCEPT ![on][Child(p, 1)] = new_sibling(node[on][Child(p, 0)], TRUE)]
  /\ Resume(<< >>)
  /\ UnchangedByInvert

\* Mutant: the right child is inverted again and again.
InvertRightAgain ==
  LET p == Top.node IN
  /\ Running("inverting", "right") /\ Kid(node[on], p, 1) # NULL
  /\ Resume(<<Frame("enter", Child(p, 1)), Frame("right", p)>>)
  /\ UNCHANGED node
  /\ UnchangedByInvert

InvertRight ==
  LET p == Top.node IN
  /\ Running("inverting", "right") /\ Kid(node[on], p, 1) # NULL
  /\ Resume(<<Frame("enter", Child(p, 1))>>)
  /\ UNCHANGED node
  /\ UnchangedByInvert

\* Why _ip_tree_invert() may return -1 at this point: case (A) and a node
\* without children are "invalid", and a sibling needs memory.
InvertErrors(p, where) ==
  LET N == node[on] IN
    {r \in {"invalid", "malloc"} :
       \/ /\ r = "invalid" /\ where = "enter"
          /\ (\A b \in Bit : KidHot(N, p, b)) \/ (\A b \in Bit : Kid(N, p, b) = NULL)
       \/ /\ r = "malloc" /\ where = "enter" /\ NoKidHot(N, p)
          /\ Kid(N, p, 0) = NULL /\ Kid(N, p, 1) # NULL
       \/ r = "malloc" /\ where = "right" /\ Kid(N, p, 1) = NULL}

InvertFails ==
  /\ call = "inverting" /\ stack # << >>
  /\ \E r \in InvertErrors(Top.node, Top.at) : Abort(r)

InvertReturns ==
  /\ call = "inverting" /\ stack = << >> /\ on = "main"
  /\ phase' = "purge" /\ before' = {} /\ OpDone
  /\ UNCHANGED <<node, root, ac, out, why>>

-----------------------------------------------------------------------------
(***************************************************************************)
(* ip_tree_purge().                                                        *)
(***************************************************************************)
Purge(x) ==
  /\ Idle("purge")
  /\ call' = "purge" /\ arg' = x
  /\ UNCHANGED <<node, root, ac, phase, on, cur, stack, out, before, why>>

PurgeReturns == OpDone /\ UNCHANGED <<root, ac, phase, out, before, why>>

PurgeMiss ==
  /\ call = "purge" /\ \E k \in 0..W : FindMiss("main", arg, k)
  /\ PurgeReturns
  /\ UNCHANGED node

\* _ip_tree_purge_replace_node()
PurgeNode ==
  LET p == Position("main", arg, arg.len) IN
  /\ call = "purge" /\ FindHit("main", arg)
  /\ node' = [node EXCEPT !["main"] =
                IF p = root["main"] THEN DestroyKids(SetHot(@, p, FALSE), p)
                ELSE DestroyNode(@, p)]
  /\ PurgeReturns

\* _ip_tree_purge_replace_parent(): a tree rooted at the hot parent, into
\* which the address is inserted and which is then inverted.
PurgeParent ==
  /\ call = "purge"
  /\ \E k \in 0..W :
       LET p == Position("main", arg, k) IN
       /\ FindHotParent("main", arg, k)
       /\ node' = [node EXCEPT !["repl"] =
                     [@ EXCEPT ![p] = [new_null EXCEPT !.addr = node["main"][p].addr]]]
       /\ root' = [root EXCEPT !["repl"] = p]
  /\ on' = "repl" /\ call' = "insert"
  /\ UNCHANGED <<ac, phase, arg, cur, stack, out, before, why>>

PurgeParentNoMemory ==
  /\ call = "purge" /\ \E k \in 0..W : FindHotParent("main", arg, k)
  /\ Abort("malloc")

\* Mutant: the parent stays hot.
GraftHot(N, R, p) == [q \in Path |-> IF StrictlyCovers(p, q) THEN R[q] ELSE N[q]]

\* The inverted tree's children replace those of the parent.
Graft(N, R, p) ==
  [q \in Path |-> IF StrictlyCovers(p, q) THEN R[q]
                  ELSE IF q = p THEN [N[p] EXCEPT !.hot = FALSE] ELSE N[q]]

\* Mutant: the temporary tree is not destroyed.
PurgeGraftLeaks ==
  /\ call = "inverting" /\ stack = << >> /\ on = "repl"
  /\ node' = [node EXCEPT !["main"] = Graft(@, node["repl"], root["repl"])]
  /\ root' = [root EXCEPT !["repl"] = << >>]
  /\ OpDone
  /\ UNCHANGED <<ac, phase, out, before, why>>

PurgeGraft ==
  /\ call = "inverting" /\ stack = << >> /\ on = "repl"
  /\ node' = [t \in TreeId |->
                IF t = "main" THEN Graft(node["main"], node["repl"], root["repl"])
                ELSE NoNodes]
  /\ root' = [root EXCEPT !["repl"] = << >>]
  /\ OpDone
  /\ UNCHANGED <<ac, phase, out, before, why>>

-----------------------------------------------------------------------------
(***************************************************************************)
(* ip4_tree_collect_addr(), ip6_tree_collect_addr(): the addresses of the  *)
(* hot nodes, left before right.                                           *)
(***************************************************************************)
StartCollect ==
  /\ Idle("purge")
  /\ phase' = "print" /\ Recurse("collect")
  /\ UNCHANGED <<node, root, ac, on, arg, cur, out, before, why>>

StartCollectNoMemory == Idle("purge") /\ Abort("malloc")

CollectHot ==
  /\ Running("collect", "enter") /\ node[on][Top.node].hot
  /\ out' = Append(out, node[on][Top.node].addr)
  /\ Resume(<< >>)
  /\ UNCHANGED <<node, root, ac, phase, call, on, arg, cur, before, why>>

\* The array starts with room for one item and doubles when it is full.
ArrayFull == Len(out) \in {2^i : i \in 0..W}

CollectHotNoMemory ==
  /\ Running("collect", "enter") /\ node[on][Top.node].hot /\ ArrayFull
  /\ Abort("malloc")

\* Mutant: the right child is listed in place of the left one.
CollectLeftIsRight ==
  /\ Running("collect", "enter") /\ ~node[on][Top.node].hot
  /\ Descend(1, <<Frame("right", Top.node)>>)
  /\ UNCHANGED <<node, root, ac, phase, call, on, arg, cur, out, before, why>>

CollectLeft ==
  /\ Running("collect", "enter") /\ ~node[on][Top.node].hot
  /\ Descend(0, <<Frame("right", Top.node)>>)
  /\ UNCHANGED <<node, root, ac, phase, call, on, arg, cur, out, before, why>>

CollectRight ==
  /\ Running("collect", "right")
  /\ Descend(1, << >>)
  /\ UNCHANGED <<node, root, ac, phase, call, on, arg, cur, out, before, why>>

CollectReturns ==
  /\ call = "collect" /\ stack = << >>
  /\ phase' = "done" /\ OpDone
  /\ UNCHANGED <<node, root, ac, out, before, why>>

-----------------------------------------------------------------------------
\* The program is over; nothing happens any more.
Exited == phase \in {"done", "failed"} /\ UNCHANGED vars

\* What main_run() decides from its options and its input.
Start == \/ \E l \in CollapseLens : SetAutoCollapse(l)
         \/ \E x \in Inputs : Insert(x)
         \/ StartCollapse \/ StartInvert \/ SkipInvert
         \/ \E x \in PurgeNets : Purge(x)
         \/ StartCollect \/ StartCollectNoMemory

InsertSteps == \/ InsertHotParent \/ InsertHit \/ InsertMiss
               \/ WalkDown \/ WalkDownNoMemory \/ WalkEnd

CollapseSteps == \/ CollapseNow \/ CollapseLeft \/ CollapseRight
                 \/ CollapseMerge \/ CollapseReturns

InvertSteps == \/ InvertHotRoot \/ InvertEmpty \/ InvertRoot
               \/ InvertMove \/ InvertOther
               \/ InvertCreateLeft \/ InvertLeft
               \/ InvertCreateRight \/ InvertRight
               \/ InvertFails \/ InvertReturns

PurgeSteps == PurgeMiss \/ PurgeNode \/ PurgeParent \/ PurgeParentNoMemory \/ PurgeGraft

CollectSteps == \/ CollectHot \/ CollectHotNoMemory \/ CollectLeft
                \/ CollectRight \/ CollectReturns

\* The steps of an operation that has been called.
OpStep == InsertSteps \/ CollapseSteps \/ InvertSteps \/ PurgeSteps \/ CollectSteps

Next == Start \/ OpStep \/ Exited

Spec == Init /\ [][Next]_vars

\* One thread: an operation that has been called keeps running.
FairSpec == Spec /\ WF_vars(OpStep)

-----------------------------------------------------------------------------
(***************************************************************************)
(* Invariants.                                                             *)
(***************************************************************************)
\* Every variable has its type.
TypeOK ==
  /\ node \in [TreeId -> [Path -> Node \union {NULL}]]
  /\ root \in [TreeId -> Path]
  /\ ac \in Nat
  /\ phase \in {"new", "input", "collapse", "collapsed", "invert",
                "purge", "print", "done", "failed"}
  /\ call \in {"none", "insert", "walk", "collapse", "invert", "inverting",
              "purge", "collect"}
  /\ on \in TreeId
  /\ arg \in Addr /\ cur \in Path
  /\ stack \in Seq([at : {"enter", "right", "merge"}, node : Path])
  /\ out \in Seq(Addr)
  /\ before \subseteq Address
  /\ why \in {"none", "malloc", "invalid"}

\* A node hangs below another node of its tree, up to the tree's root.
Connected ==
  \A t \in TreeId : \A p \in Path, b \in Bit :
    Kid(node[t], p, b) # NULL /\ Child(p, b) # root[t] => node[t][p] # NULL

\* A node's own address is its position, with the host bits zero, whichever
\* of child creation, sibling creation and flipping in place it came from.
AddrIsPosition ==
  \A t \in TreeId : \A p \in Path :
    node[t][p] # NULL => node[t][p].addr = Padded(p)

\* No node hangs below a hot one.  Find, collect and invert stop at a hot
\* node, so it would be lost or, after an inversion, wrong.
HotIsLeaf ==
  \A t \in TreeId : \A p \in Path :
    node[t][p] # NULL /\ node[t][p].hot => \A b \in Bit : Kid(node[t], p, b) = NULL

\* The tree is a tree, in every state of every operation: connected, hot
\* nodes are leaves, and what is printed is where the node is.
Shape == Connected /\ AddrIsPosition /\ HotIsLeaf

\* While the input is read no node is below the auto-collapse length, and
\* those that are at it are hot (but for the one insert is about to mark):
\* insert.c relies on it, since it marks the last node of its walk without
\* looking at its children.
AutoCollapsed ==
  phase \in {"input", "collapse", "collapsed"} /\ ac > 0 =>
    \A p \in Path : node["main"][p] # NULL =>
      /\ Len(p) <= ac
      /\ Len(p) = ac /\ ~(call = "walk" /\ cur = p) => node["main"][p].hot

\* From the collapse on no two children of a node are both hot, after an
\* inversion and after purges too: the list of hot nodes is as short as it
\* can be.
NoHotSiblings ==
  phase \in {"collapsed", "purge", "print", "done"} =>
    \A p \in Path : ~ \A b \in Bit : KidHot(node["main"], p, b)

\* The inputs _ip_tree_invert() calls invalid, two hot children or a cold
\* node without children, never come to it: neither from the main tree nor
\* from the tree purge builds.
InvertNeverInvalid == why # "invalid"

\* A recursive function is never more than W + 1 calls deep.
StackBounded == Len(stack) <= W + 1

\* What collect has appended so far is in ascending order and disjoint.
OutputSorted ==
  \A i, j \in 1..Len(out) : i < j =>
    \E n \in 1..W : /\ n <= out[i].len /\ n <= out[j].len
                    /\ out[i].bits[n] < out[j].bits[n]
                    /\ \A m \in 1..(n - 1) : out[i].bits[m] = out[j].bits[m]

\* Every operation that is called returns, whatever the tree.
OperationEnds == (call # "none") ~> (call = "none")

=============================================================================
