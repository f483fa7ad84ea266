---------------------------- MODULE IpTreeSetInv ----------------------------
(***************************************************************************)
(* The second inductive invariant of IpTree: what the trees stand for.     *)
(*                                                                         *)
(* IInv says that the trees are trees and that no call loses its node.     *)
(* SInv, on top of it, says which addresses the hot nodes cover at each    *)
(* step of a recursive operation, and why the tree is as short as it can   *)
(* be: in terms of what the suspended calls have still to do.              *)
(***************************************************************************)
EXTENDS IpTreeInv

HotNodes(N) == {p \in Path : N[p] # NULL /\ N[p].hot}

\* q is in the subtree of the child b of p.
Below(p, q, b) == StrictlyCovers(p, q) /\ q[Len(p) + 1] = b

\* The position the argument of an operation names.
ArgPath == [i \in 1..arg.len |-> arg.bits[i]]

TwinsAt(N, p) == \A b \in Bit : KidHot(N, p, b)

\* A cold node without children, other than those of S.
ColdLeafAt(N, S, p) ==
  N[p] # NULL /\ ~N[p].hot /\ p \notin S /\ \A b \in Bit : Kid(N, p, b) = NULL

Cursor == IF call = "walk" THEN {cur} ELSE {}

FramesOf(s) == {s[i] : i \in 1..Len(s)}

\* The call f waits for one at or below the node p: in its left subtree when
\* it goes on with the right one, in its right subtree when it merges.
WaitsFor(f, p) == \/ f.at = "right" /\ Below(f.node, p, 0)
                  \/ f.at = "merge" /\ Below(f.node, p, 1)

\* A call is for a node in the subtree its callers are at.
Nested(s) == \A i, j \in 1..Len(s) : i < j => WaitsFor(s[j], s[i].node)

-----------------------------------------------------------------------------
\* Insert's cursor is on the way to its argument.
OnTheWay == call = "walk" => Covers(cur, ArgPath)

\* The tree purge builds: the way from the hot parent to the address, of
\* which the address alone is hot once it is inserted.
ReplBuilt ==
  on = "repl" =>
    /\ node["main"][root["repl"]].hot /\ ~node["repl"][root["repl"]].hot
    /\ StrictlyCovers(root["repl"], ArgPath)
    /\ call = "insert" => \A q \in Path : node["repl"][q] # NULL => q = root["repl"]
    /\ call = "walk" => HotNodes(node["repl"]) = {}
    /\ call = "invert" => HotNodes(node["repl"]) = {ArgPath}

\* From the collapse on no node has two hot children; until the first purge
\* no node but the root, and the one insert is at, is a cold leaf.
Canonical ==
  /\ phase \notin {"new", "input", "collapse", "failed"} =>
       \A p \in Path : ~TwinsAt(node["main"], p)
  /\ phase \in {"new", "input", "collapse", "collapsed", "invert"} =>
       \A p \in Path : ~ColdLeafAt(node["main"], {<< >>} \union Cursor, p)
  /\ on = "repl" =>
       \A p \in Path : /\ ~TwinsAt(node["repl"], p)
                       /\ ~ColdLeafAt(node["repl"], {root["repl"]} \union Cursor, p)
  /\ why # "invalid"

\* Collapse: two hot children only where the suspended calls will still be.
CollapseAhead(f, p) ==
  \/ f.at = "enter" /\ Covers(f.node, p)
  \/ f.at # "enter" /\ p = f.node
  \/ f.at = "right" /\ Below(f.node, p, 1)

\* Each call is for a child of its caller's node, the first for the root.
Chained(s) ==
  \A i \in 1..Len(s) :
    IF i < Len(s) THEN \E b \in Bit : s[i].node = Child(s[i + 1].node, b)
                  ELSE s[i].node = << >>

Collapsing ==
  call = "collapse" =>
    /\ Chained(stack)
    /\ \A p \in Path : TwinsAt(node["main"], p) =>
         \E f \in FramesOf(stack) : CollapseAhead(f, p)

\* Invert: the addresses the suspended calls have still to invert.
ToInvert(f, x) ==
  \/ f.at = "enter" /\ Matches(f.node, x)
  \/ f.at = "right" /\ Matches(f.node, x) /\ x[Len(f.node) + 1] = 1

\* What the tree covered when its inversion began.
Was == IF on = "main" THEN before ELSE NetOf(ArgPath)

\* Every address is covered as before or, once it is inverted, if and only
\* if it was not; the inversion of the empty set is empty.
Inverted ==
  \/ stack = << >> /\ Was = {} /\ Cover(node[on]) = {}
  \/ /\ Was # {}
     /\ \A x \in NetOf(root[on]) :
          x \in Cover(node[on]) <=>
            (x \in Was <=> \E f \in FramesOf(stack) : ToInvert(f, x))

\* A node to be inverted has a child, and a right child is created only
\* next to a left one that is not hot.
Invertible(N, f) ==
  /\ f.at = "enter" => \E b \in Bit : Kid(N, f.node, b) # NULL
  /\ f.at = "right" /\ Kid(N, f.node, 1) = NULL => ~KidHot(N, f.node, 0)

Inverting ==
  /\ call \in {"invert", "inverting"} /\ on = "main" => phase = "invert"
  /\ call = "invert" /\ on = "main" => before = Cover(node["main"])
  /\ call = "inverting" => Inverted /\ \A f \in FramesOf(stack) : Invertible(node[on], f)

\* Collect: the positions the suspended calls have still to list.
ToCollect(f, p) ==
  \/ f.at = "enter" /\ Covers(f.node, p)
  \/ f.at = "right" /\ Below(f.node, p, 1)

\* The network x is before the position p.
Precedes(x, p) ==
  \E n \in 1..W : /\ n <= x.len /\ n <= Len(p) /\ x.bits[n] < p[n]
                  /\ \A m \in 1..(n - 1) : x.bits[m] = p[m]

Collected ==
  /\ call = "collect" => phase = "print" /\ on = "main"
  /\ phase \notin {"print", "done"} => out = << >>
  /\ phase \in {"print", "done"} =>
       /\ \A i \in 1..Len(out) : \E p \in HotNodes(node["main"]) : out[i] = Padded(p)
       /\ \A p \in HotNodes(node["main"]) :
            \/ \E i \in 1..Len(out) : out[i] = Padded(p)
            \/ \E f \in FramesOf(stack) : ToCollect(f, p)
       /\ \A f \in FramesOf(stack), p \in Path : ToCollect(f, p) =>
            \A i \in 1..Len(out) : Precedes(out[i], p)

\* What every step keeps of the addresses a tree stands for, and of the
\* order in which they are listed.
SInv ==
  /\ Nested(stack) /\ OnTheWay /\ ReplBuilt /\ Canonical
  /\ Collapsing /\ Inverting /\ Collected /\ OutputSorted

=============================================================================
