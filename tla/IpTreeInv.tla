------------------------------ MODULE IpTreeInv ------------------------------
(***************************************************************************)
(* The inductive invariant of IpTree.                                      *)
(*                                                                         *)
(* Shape and TypeOK are not inductive: that insert may mark the last node  *)
(* of its walk without looking at its children rests on AutoCollapsed, and *)
(* that a resumed call finds its node rests on what the calls above it may *)
(* change.                                                                 *)
(***************************************************************************)
EXTENDS IpTree

\* N is a tree below r whose nodes know their position and whose inner
\* nodes are cold.
GoodTree(N, r) ==
  /\ N \in [Path -> Node \union {NULL}]
  /\ r \in Path
  /\ \A p \in Path : N[p] # NULL => Covers(r, p) /\ N[p].addr = Padded(p)
  /\ \A p \in Path, b \in Bit :
       Len(p) < W /\ N[Child(p, b)] # NULL /\ Child(p, b) # r => N[p] # NULL /\ ~N[p].hot

Trees ==
  /\ \A t \in TreeId : GoodTree(node[t], root[t])
  /\ root["main"] = << >>
  /\ node["main"][<< >>] # NULL
  /\ on = "main" => node["repl"] = NoNodes
  /\ on = "repl" => node["repl"][root["repl"]] # NULL /\ node["main"][root["repl"]] # NULL

\* Which operation runs when.
Control ==
  /\ on = "repl" => phase = "purge" /\ call \in {"insert", "walk", "invert", "inverting"}
  /\ on = "main" /\ call \in {"insert", "walk"} => phase = "input"
  /\ call = "collapse" => phase = "collapse"
  /\ call \in {"invert", "inverting"} => phase \in {"invert", "purge"}
  /\ call = "purge" => phase = "purge" /\ on = "main"
  /\ phase = "new" => call = "none" /\ \A p \in Path : node["main"][p] # NULL => p = << >>
  /\ stack # << >> => call \in {"collapse", "inverting", "collect"}

\* The cursor of insert's walk: a cold node with nothing ahead of it.
Walk ==
  call = "walk" =>
    /\ node[on][cur] # NULL /\ ~node[on][cur].hot
    /\ Len(cur) <= WalkLen
    /\ Len(cur) < arg.len => node[on][Child(cur, arg.bits[Len(cur) + 1])] = NULL
    /\ Len(cur) = WalkLen => \A b \in Bit : Kid(node[on], cur, b) = NULL

\* What a call that is not at the top relies on when it is resumed.
FrameOK(N, c, f) ==
  /\ N[f.node] # NULL
  /\ c = "inverting" =>
       /\ ~N[f.node].hot
       /\ f.at = "right" => /\ Kid(N, f.node, 0) # NULL
                            /\ ~KidHot(N, f.node, 1)

\* A call is for a node deeper than its caller's.
GoodStack(s) ==
  /\ \A i \in 1..Len(s) : Len(s[i].node) >= Len(s) - i
  /\ \A i, j \in 1..Len(s) : i < j => Len(s[j].node) < Len(s[i].node)

\* Every call on the C stack, suspended or not, finds its node in the tree
\* and as it needs it: nothing called from it frees that node, and of the
\* nodes an inversion comes back to the left child is there and the right
\* one is not hot.
Calls ==
  /\ GoodStack(stack)
  /\ \A i \in 1..Len(stack) : FrameOK(node[on], call, stack[i])

\* What every step of every operation keeps, and enough for the next one to
\* keep it: two trees of which the temporary one exists only during a purge,
\* the operations in their order, insert's walk and the suspended calls.
IInv == TypeOK /\ Trees /\ Control /\ Walk /\ AutoCollapsed /\ Calls

=============================================================================
