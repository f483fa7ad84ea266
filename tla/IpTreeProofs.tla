---------------------------- MODULE IpTreeProofs ----------------------------
(***************************************************************************)
(* The proof that IInv is an invariant of IpTree, and with it TypeOK,      *)
(* Shape, AutoCollapsed, StackBounded and Calls, for every address length, *)
(* every input, every network to purge and every auto-collapse length.     *)
(***************************************************************************)
EXTENDS IpTreeLemmas

(***************************************************************************)
(* What most steps have in common.                                         *)
(***************************************************************************)
\* The tree an operation runs on has its root.
LEMMA RootThere ==
  ASSUME TypeOK, Trees
  PROVE  /\ on \in TreeId /\ GoodTree(node[on], root[on]) /\ node[on][root[on]] # NULL
         /\ GoodTree(node["main"], root["main"]) /\ node["main"][root["main"]] # NULL
BY DEF TypeOK, Trees, TreeId

\* A step that changes one tree and keeps its root.
LEMMA TreeChanged ==
  ASSUME TypeOK, Trees, NEW M, GoodTree(M, root[on]), M[root[on]] # NULL,
         node' = [node EXCEPT ![on] = M], root' = root, on' = on
  PROVE  Trees' /\ node' \in [TreeId -> [Path -> Node \union {NULL}]]
<1>1. M \in [Path -> Node \union {NULL}]
  BY DEF GoodTree
<1>2. node \in [TreeId -> [Path -> Node \union {NULL}]] /\ on \in TreeId
  BY DEF TypeOK
<1>3. node'[on] = M /\ \A t \in TreeId : t # on => node'[t] = node[t]
  BY <1>2
<1>4. \A t \in TreeId : GoodTree(node'[t], root'[t])
  BY <1>3 DEF Trees
<1>5. node'["main"][<< >>] # NULL
  BY <1>3 DEF Trees, TreeId
<1>6. on' = "main" => node'["repl"] = NoNodes
  BY <1>3 DEF Trees, TreeId
<1>7. on' = "repl" => node'["repl"][root'["repl"]] # NULL /\ node'["main"][root'["repl"]] # NULL
  BY <1>3 DEF Trees, TreeId
<1>8. node' \in [TreeId -> [Path -> Node \union {NULL}]]
  BY <1>1, <1>2
<1>. QED BY <1>4, <1>5, <1>6, <1>7, <1>8 DEF Trees

LEMMA TreesSame ==
  ASSUME TypeOK, Trees, node' = node, root' = root, on' = on
  PROVE  Trees' /\ node' \in [TreeId -> [Path -> Node \union {NULL}]]
BY DEF Trees, TypeOK

LEMMA NoCalls == ASSUME stack' = << >> PROVE Calls'
<1>1. \A i \in 1..Len(<< >>) : FALSE
  OBVIOUS
<1>. QED BY <1>1, EmptyStack DEF Calls

LEMMA NullTypes == addr_init_null \in Addr /\ << >> \in Path
BY NullIsPadded, PaddedIsAddr, EmptyPath

\* A step of the main tree that adds no node and cools none.
LEMMA AutoKept ==
  ASSUME AutoCollapsed, ac' = ac,
         phase' \in {"input", "collapse", "collapsed"} /\ ac > 0
           => phase \in {"input", "collapse", "collapsed"},
         phase' \in {"input", "collapse", "collapsed"} /\ ac > 0 =>
           \A q \in Path : node'["main"][q] # NULL =>
              /\ node["main"][q] # NULL
              /\ node'["main"][q].hot \/ (node'["main"][q] = node["main"][q]
                                           /\ ~(call = "walk" /\ cur = q))
  PROVE  AutoCollapsed'
<1>. SUFFICES ASSUME phase' \in {"input", "collapse", "collapsed"}, ac' > 0,
                     NEW q \in Path, node'["main"][q] # NULL
              PROVE  /\ Len(q) <= ac'
                     /\ Len(q) = ac' /\ ~(call' = "walk" /\ cur' = q) => node'["main"][q].hot
  BY DEF AutoCollapsed
<1>1. /\ node["main"][q] # NULL
      /\ node'["main"][q].hot \/ (node'["main"][q] = node["main"][q]
                                   /\ ~(call = "walk" /\ cur = q))
  OBVIOUS
<1>2. Len(q) <= ac /\ (Len(q) = ac /\ ~(call = "walk" /\ cur = q) => node["main"][q].hot)
  BY <1>1 DEF AutoCollapsed
<1>. QED BY <1>1, <1>2

-----------------------------------------------------------------------------
(***************************************************************************)
(* The initial state, failing, and the steps of main_run().                *)
(***************************************************************************)
LEMMA InitInv == Init => IInv
<1>. SUFFICES ASSUME Init PROVE IInv
  OBVIOUS
<1>1. /\ new_null \in Node /\ new_null.addr = Padded(<< >>)
  BY NullTypes, NullIsPadded DEF new_null, Node
<1>2. /\ GoodTree(node["main"], << >>) /\ GoodTree(node["repl"], << >>)
      /\ node["main"] = [NoNodes EXCEPT ![<< >>] = new_null] /\ node["repl"] = NoNodes
  BY <1>1, NullTypes, SingleGood, EmptyGood DEF Init, TreeId
<1>3. node["main"][<< >>] = new_null /\ \A p \in Path : p # << >> => node["main"][p] = NULL
  BY <1>2, NullTypes DEF NoNodes
<1>4. Trees
  <2>1. new_null # NULL
    BY <1>1, TreeAssumption
  <2>. QED BY <1>2, <1>3, <2>1 DEF Trees, Init, TreeId
<1>5. TypeOK
  <2>1. node \in [TreeId -> [Path -> Node \union {NULL}]]
    <3>1. /\ [NoNodes EXCEPT ![<< >>] = new_null] \in [Path -> Node \union {NULL}]
          /\ NoNodes \in [Path -> Node \union {NULL}]
      BY <1>1, NullTypes DEF NoNodes
    <3>. QED BY <3>1 DEF Init
  <2>2. stack \in Seq([at : {"enter", "right", "merge"}, node : Path]) /\ out \in Seq(Addr)
    BY DEF Init
  <2>. QED BY <2>1, <2>2, NullTypes DEF TypeOK, Init, TreeId
<1>6. Control
  BY <1>3 DEF Control, Init
<1>7. Walk /\ AutoCollapsed
  BY DEF Walk, AutoCollapsed, Init
<1>8. Calls
  <2>1. \A i \in 1..Len(<< >>) : FALSE
    OBVIOUS
  <2>. QED BY <2>1, EmptyStack DEF Calls, Init
<1>. QED BY <1>4, <1>5, <1>6, <1>7, <1>8 DEF IInv

\* Giving up leaves the main tree as it is and frees the other one.
LEMMA AbortInv ==
  ASSUME IInv, NEW r \in {"malloc", "invalid"}, Abort(r)
  PROVE  IInv'
<1>1. /\ TypeOK /\ Trees
      /\ node' = [node EXCEPT !["repl"] = NoNodes] /\ root' = [root EXCEPT !["repl"] = << >>]
      /\ call' = "none" /\ on' = "main" /\ arg' = addr_init_null /\ cur' = << >> /\ stack' = << >>
      /\ phase' = "failed" /\ why' = r /\ out' = << >> /\ before' = {} /\ ac' = ac
  BY DEF IInv, Abort, OpDone
<1>2. /\ node'["main"] = node["main"] /\ node'["repl"] = NoNodes
      /\ root'["main"] = root["main"] /\ root'["repl"] = << >>
      /\ node' \in [TreeId -> [Path -> Node \union {NULL}]] /\ root' \in [TreeId -> Path]
  <2>1. NoNodes \in [Path -> Node \union {NULL}]
    BY DEF NoNodes
  <2>. QED BY <1>1, <2>1, NullTypes DEF TypeOK, TreeId
<1>3. Trees'
  <2>1. GoodTree(node'["main"], root'["main"]) /\ GoodTree(node'["repl"], root'["repl"])
    BY <1>1, <1>2, NullTypes, EmptyGood DEF Trees, TreeId
  <2>. QED BY <1>1, <1>2, <2>1 DEF Trees, TreeId
<1>4. TypeOK'
  <2>1. stack' \in Seq([at : {"enter", "right", "merge"}, node : Path]) /\ out' \in Seq(Addr)
    BY <1>1
  <2>. QED BY <1>1, <1>2, <2>1, NullTypes DEF TypeOK, TreeId
<1>5. Control' /\ Walk' /\ AutoCollapsed'
  BY <1>1 DEF Control, Walk, AutoCollapsed
<1>6. Calls'
  BY <1>1, NoCalls
<1>. QED BY <1>3, <1>4, <1>5, <1>6 DEF IInv

-----------------------------------------------------------------------------
\* Positions on the way to x, from the root of the tree that is searched.
LEMMA PositionPath ==
  ASSUME NEW t \in TreeId, root[t] \in Path, NEW x \in Addr,
         NEW k \in 0..W, Len(root[t]) <= k
  PROVE  /\ Position(t, x, k) \in Path /\ Len(Position(t, x, k)) = k
         /\ k < W => /\ x.bits[k + 1] \in Bit
                     /\ Position(t, x, k + 1) = Child(Position(t, x, k), x.bits[k + 1])
<1>1. Len(root[t]) \in 0..W /\ root[t] \in [1..Len(root[t]) -> Bit] /\ x.bits \in [1..W -> Bit]
  BY PathIsSeq DEF Addr, Address
<1>2. Position(t, x, k) \in [1..k -> Bit]
  <2>1. \A i \in 1..k : (IF i <= Len(root[t]) THEN root[t][i] ELSE x.bits[i]) \in Bit
    <3>. SUFFICES ASSUME NEW i \in 1..k
                  PROVE  (IF i <= Len(root[t]) THEN root[t][i] ELSE x.bits[i]) \in Bit
      OBVIOUS
    <3>1. i \in 1..W /\ (i <= Len(root[t]) => i \in 1..Len(root[t]))
      BY <1>1, WAssumption
    <3>. QED BY <1>1, <3>1
  <2>. QED BY <2>1 DEF Position
<1>3. Position(t, x, k) \in Path /\ Len(Position(t, x, k)) = k
  BY <1>2, SeqIsPath
<1>4. ASSUME k < W
      PROVE  /\ x.bits[k + 1] \in Bit
             /\ Position(t, x, k + 1) = Child(Position(t, x, k), x.bits[k + 1])
  <2>1. k + 1 \in 1..W /\ ~(k + 1 <= Len(root[t])) /\ k \in Nat
    BY <1>1, <1>4, WAssumption
  <2>2. \A i \in 1..(k + 1) : i <= k \/ i = k + 1
    BY <2>1
  <2>3. \A i \in 1..(k + 1) : (IF i <= Len(root[t]) THEN root[t][i] ELSE x.bits[i])
                              = IF i <= k THEN Position(t, x, k)[i] ELSE x.bits[k + 1]
    <3>. SUFFICES ASSUME NEW i \in 1..(k + 1)
                  PROVE  (IF i <= Len(root[t]) THEN root[t][i] ELSE x.bits[i])
                         = IF i <= k THEN Position(t, x, k)[i] ELSE x.bits[k + 1]
      OBVIOUS
    <3>1. CASE i <= k
      <4>1. i \in 1..k
        BY <2>1, <3>1
      <4>. QED BY <3>1, <4>1 DEF Position
    <3>2. CASE i = k + 1
      <4>1. ~(i <= k) /\ ~(i <= Len(root[t]))
        BY <2>1, <3>2
      <4>. QED BY <3>2, <4>1
    <3>. QED BY <2>2, <3>1, <3>2
  <2>. QED BY <1>1, <1>3, <2>1, <2>3 DEF Position, Child
<1>. QED BY <1>3, <1>4

\* What ip_tree_find() returns is a node of the tree it searched.
LEMMA FindFacts ==
  ASSUME NEW t \in TreeId, GoodTree(node[t], root[t]), node[t][root[t]] # NULL,
         NEW x \in Addr, NEW k \in 0..W, Reaches(t, x, k)
  PROVE  /\ Position(t, x, k) \in Path /\ Len(Position(t, x, k)) = k /\ k <= x.len
         /\ node[t][Position(t, x, k)] # NULL
         /\ k < x.len => /\ x.bits[k + 1] \in Bit /\ k < W
                         /\ Position(t, x, k + 1) = Child(Position(t, x, k), x.bits[k + 1])
<1>1. node[t][root[t]].addr.len = Len(root[t]) /\ root[t] \in Path /\ Len(root[t]) \in 0..W
  <2>1. root[t] \in Path
    BY DEF GoodTree
  <2>. QED BY <2>1, GoodNode, PathIsSeq
<1>2. x.len \in 0..W
  BY DEF Addr
<1>3. Len(root[t]) <= k /\ k <= x.len /\ k \in Len(root[t])..k
  BY <1>1, <1>2 DEF Reaches
<1>4. node[t][Position(t, x, k)] # NULL
  BY <1>1, <1>3 DEF Reaches
<1>5. k < x.len => k < W
  BY <1>2, WAssumption
<1>. QED BY <1>1, <1>3, <1>4, <1>5, PositionPath

\* When no operation runs, the main tree is at rest.
LEMMA IdleFacts ==
  ASSUME IInv, NEW p, Idle(p)
  PROVE  /\ TypeOK /\ Trees /\ Control /\ on = "main" /\ stack = << >> /\ phase = p /\ call = "none"
         /\ GoodTree(node["main"], root["main"]) /\ root["main"] = << >>
         /\ node["main"][root["main"]] # NULL
<1>1. on = "main" /\ stack = << >>
  BY DEF IInv, Control, Idle, TypeOK, TreeId
<1>. QED BY <1>1, RootThere DEF IInv, Idle, Trees

LEMMA SetAutoCollapseInv ==
  ASSUME IInv, NEW l \in CollapseLens, SetAutoCollapse(l)
  PROVE  IInv'
<1>1. TypeOK /\ Trees /\ Control /\ on = "main" /\ stack = << >> /\ phase = "new" /\ call = "none"
  BY IdleFacts DEF SetAutoCollapse
<1>2. /\ ac' = l /\ phase' = "input" /\ node' = node /\ root' = root /\ call' = call /\ on' = on
      /\ arg' = arg /\ cur' = cur /\ stack' = stack /\ out' = out /\ before' = before /\ why' = why
      /\ l \in Nat
  BY TreeAssumption DEF SetAutoCollapse, opVars
<1>3. TypeOK'
  BY <1>1, <1>2 DEF TypeOK
<1>4. Trees'
  BY <1>1, <1>2, TreesSame
<1>5. Control' /\ Walk'
  BY <1>1, <1>2 DEF Control, Walk
<1>6. AutoCollapsed'
  <2>1. \A p \in Path : node'["main"][p] # NULL => p = << >>
    BY <1>1, <1>2 DEF Control
  <2>. QED BY <1>2, <2>1, EmptyPath DEF AutoCollapsed
<1>7. Calls'
  BY <1>1, <1>2, NoCalls
<1>. QED BY <1>3, <1>4, <1>5, <1>6, <1>7 DEF IInv

\* Calling an operation does not change a tree.
LEMMA StartInsertInv ==
  ASSUME IInv, NEW x \in Inputs, Insert(x)
  PROVE  IInv'
<1>1. TypeOK /\ Trees /\ Control /\ on = "main" /\ stack = << >> /\ phase = "input" /\ call = "none"
  BY IdleFacts DEF Insert
<1>2. /\ call' = "insert" /\ arg' = x /\ x \in Addr
      /\ node' = node /\ root' = root /\ ac' = ac /\ phase' = phase /\ on' = on /\ cur' = cur
      /\ stack' = stack /\ out' = out /\ before' = before /\ why' = why
  BY TreeAssumption DEF Insert
<1>3. TypeOK'
  BY <1>1, <1>2 DEF TypeOK
<1>4. Trees'
  BY <1>1, <1>2, TreesSame
<1>5. Control' /\ Walk'
  BY <1>1, <1>2 DEF Control, Walk
<1>6. AutoCollapsed'
  BY <1>1, <1>2 DEF AutoCollapsed, IInv
<1>7. Calls'
  BY <1>1, <1>2, NoCalls
<1>. QED BY <1>3, <1>4, <1>5, <1>6, <1>7 DEF IInv

LEMMA StartPurgeInv ==
  ASSUME IInv, NEW x \in PurgeNets, Purge(x)
  PROVE  IInv'
<1>1. TypeOK /\ Trees /\ Control /\ on = "main" /\ stack = << >> /\ phase = "purge" /\ call = "none"
  BY IdleFacts DEF Purge
<1>2. /\ call' = "purge" /\ arg' = x /\ x \in Addr
      /\ node' = node /\ root' = root /\ ac' = ac /\ phase' = phase /\ on' = on /\ cur' = cur
      /\ stack' = stack /\ out' = out /\ before' = before /\ why' = why
  BY TreeAssumption DEF Purge
<1>3. TypeOK'
  BY <1>1, <1>2 DEF TypeOK
<1>4. Trees'
  BY <1>1, <1>2, TreesSame
<1>5. Control' /\ Walk' /\ AutoCollapsed'
  BY <1>1, <1>2 DEF Control, Walk, AutoCollapsed
<1>6. Calls'
  BY <1>1, <1>2, NoCalls
<1>. QED BY <1>3, <1>4, <1>5, <1>6 DEF IInv

LEMMA SkipInvertInv ==
  ASSUME IInv, SkipInvert
  PROVE  IInv'
<1>1. TypeOK /\ Trees /\ Control /\ on = "main" /\ stack = << >> /\ phase = "collapsed"
      /\ call = "none"
  BY IdleFacts DEF SkipInvert
<1>2. /\ phase' = "purge" /\ node' = node /\ root' = root /\ ac' = ac
      /\ call' = call /\ on' = on /\ arg' = arg /\ cur' = cur /\ stack' = stack
      /\ out' = out /\ before' = before /\ why' = why
  BY DEF SkipInvert, opVars
<1>3. TypeOK'
  BY <1>1, <1>2 DEF TypeOK
<1>4. Trees'
  BY <1>1, <1>2, TreesSame
<1>5. Control' /\ Walk' /\ AutoCollapsed'
  BY <1>1, <1>2 DEF Control, Walk, AutoCollapsed
<1>6. Calls'
  BY <1>1, <1>2, NoCalls
<1>. QED BY <1>3, <1>4, <1>5, <1>6 DEF IInv

LEMMA StartInvertInv ==
  ASSUME IInv, StartInvert
  PROVE  IInv'
<1>1. TypeOK /\ Trees /\ Control /\ on = "main" /\ stack = << >> /\ phase = "collapsed"
      /\ call = "none"
  BY IdleFacts DEF StartInvert
<1>2. /\ phase' = "invert" /\ call' = "invert" /\ before' = Cover(node["main"])
      /\ node' = node /\ root' = root /\ ac' = ac /\ on' = on /\ arg' = arg /\ cur' = cur
      /\ stack' = stack /\ out' = out /\ why' = why
  BY DEF StartInvert
<1>3. before' \subseteq Address
  BY <1>2 DEF Cover, NetOf
<1>4. TypeOK'
  BY <1>1, <1>2, <1>3 DEF TypeOK
<1>5. Trees'
  BY <1>1, <1>2, TreesSame
<1>6. Control' /\ Walk' /\ AutoCollapsed'
  BY <1>1, <1>2 DEF Control, Walk, AutoCollapsed
<1>7. Calls'
  BY <1>1, <1>2, NoCalls
<1>. QED BY <1>4, <1>5, <1>6, <1>7 DEF IInv

\* The first call of a recursive function is for the root.
LEMMA FirstCall ==
  ASSUME TypeOK, Trees, NEW c \in {"collapse", "inverting", "collect"},
         c = "inverting" => ~node[on][root[on]].hot,
         stack' = <<Frame("enter", root[on])>>, node' = node, on' = on, call' = c
  PROVE  Calls' /\ stack' \in Seq([at : {"enter", "right", "merge"}, node : Path])
<1>. DEFINE f == Frame("enter", root[on])
<1>1. f \in Frames /\ f.at = "enter" /\ f.node = root[on]
  BY RootThere DEF Frame, Frames, GoodTree
<1>2. stack' \in Seq(Frames) /\ GoodStack(stack') /\ \A i \in 1..Len(stack') : stack'[i] = f
  BY <1>1, OneCall
<1>3. FrameOK(node[on], c, f)
  BY <1>1, RootThere DEF FrameOK
<1>. QED BY <1>2, <1>3 DEF Calls, Frames

LEMMA StartCollapseInv ==
  ASSUME IInv, StartCollapse
  PROVE  IInv'
<1>1. TypeOK /\ Trees /\ Control /\ on = "main" /\ stack = << >> /\ phase = "input" /\ call = "none"
  BY IdleFacts DEF StartCollapse
<1>2. /\ phase' = "collapse" /\ call' = "collapse" /\ stack' = <<Frame("enter", root[on])>>
      /\ node' = node /\ root' = root /\ ac' = ac /\ on' = on /\ arg' = arg /\ cur' = cur
      /\ out' = out /\ before' = before /\ why' = why
  BY DEF StartCollapse, Recurse
<1>3. Calls' /\ stack' \in Seq([at : {"enter", "right", "merge"}, node : Path])
  BY <1>1, <1>2, FirstCall
<1>4. TypeOK'
  BY <1>1, <1>2, <1>3 DEF TypeOK
<1>5. Trees'
  BY <1>1, <1>2, TreesSame
<1>6. Control' /\ Walk'
  BY <1>1, <1>2 DEF Control, Walk
<1>7. AutoCollapsed'
  BY <1>1, <1>2 DEF AutoCollapsed, IInv
<1>. QED BY <1>3, <1>4, <1>5, <1>6, <1>7 DEF IInv

LEMMA StartCollectInv ==
  ASSUME IInv, StartCollect
  PROVE  IInv'
<1>1. TypeOK /\ Trees /\ Control /\ on = "main" /\ stack = << >> /\ phase = "purge" /\ call = "none"
  BY IdleFacts DEF StartCollect
<1>2. /\ phase' = "print" /\ call' = "collect" /\ stack' = <<Frame("enter", root[on])>>
      /\ node' = node /\ root' = root /\ ac' = ac /\ on' = on /\ arg' = arg /\ cur' = cur
      /\ out' = out /\ before' = before /\ why' = why
  BY DEF StartCollect, Recurse
<1>3. Calls' /\ stack' \in Seq([at : {"enter", "right", "merge"}, node : Path])
  BY <1>1, <1>2, FirstCall
<1>4. TypeOK'
  BY <1>1, <1>2, <1>3 DEF TypeOK
<1>5. Trees'
  BY <1>1, <1>2, TreesSame
<1>6. Control' /\ Walk' /\ AutoCollapsed'
  BY <1>1, <1>2 DEF Control, Walk, AutoCollapsed
<1>. QED BY <1>3, <1>4, <1>5, <1>6 DEF IInv

\* A step that changes nothing.
LEMMA StutterInv == ASSUME IInv, UNCHANGED vars PROVE IInv'
<1>1. /\ node' = node /\ root' = root /\ ac' = ac /\ phase' = phase /\ call' = call /\ on' = on
      /\ arg' = arg /\ cur' = cur /\ stack' = stack /\ out' = out /\ before' = before /\ why' = why
  BY DEF vars, opVars
<1>2. TypeOK'
  BY <1>1 DEF TypeOK, IInv
<1>3. Trees'
  BY <1>1, TreesSame DEF IInv
<1>4. Control' /\ Walk'
  BY <1>1 DEF Control, Walk, WalkLen, AutoCollapse, IInv
<1>5. AutoCollapsed' /\ Calls'
  BY <1>1 DEF AutoCollapsed, Calls, IInv
<1>. QED BY <1>2, <1>3, <1>4, <1>5 DEF IInv

-----------------------------------------------------------------------------
(***************************************************************************)
(* Insert.                                                                 *)
(***************************************************************************)
\* The address being inserted, and where it is searched for.
LEMMA InsertFacts ==
  ASSUME IInv, call \in {"insert", "walk"}
  PROVE  /\ TypeOK /\ Trees /\ Control /\ arg \in Addr /\ arg.len \in 0..W /\ stack = << >>
         /\ on \in TreeId /\ GoodTree(node[on], root[on]) /\ node[on][root[on]] # NULL
         /\ WalkLen <= arg.len
         /\ on = "main" => phase = "input"
         /\ on = "repl" => phase = "purge"
<1>1. TypeOK /\ Trees /\ Control
  BY DEF IInv
<1>2. arg \in Addr /\ arg.len \in 0..W /\ stack = << >> /\ ac \in Nat
  BY <1>1 DEF TypeOK, Addr, Control
<1>3. WalkLen <= arg.len
  BY <1>2, WAssumption DEF WalkLen, AutoCollapse
<1>. QED BY <1>1, <1>2, <1>3, RootThere DEF Control

\* The end of an insert: into the main tree, or into purge's.
LEMMA InsertReturnsInv ==
  ASSUME IInv, call \in {"insert", "walk"}, InsertReturns,
         on' = on => Trees' /\ node' \in [TreeId -> [Path -> Node \union {NULL}]],
         AutoCollapsed'
  PROVE  IInv'
<1>1. /\ TypeOK /\ Trees /\ Control /\ stack = << >> /\ on \in TreeId
      /\ on = "main" => phase = "input"
      /\ on = "repl" => phase = "purge"
  BY InsertFacts
<1>2. /\ root' = root /\ ac' = ac /\ phase' = phase /\ out' = out /\ before' = before /\ why' = why
      /\ on' = on /\ stack' = << >> /\ arg' \in {arg, addr_init_null} /\ cur' = << >>
      /\ on = "main" => call' = "none"
      /\ on # "main" => call' = "invert"
  BY <1>1 DEF InsertReturns, OpDone
<1>3. TypeOK'
  <2>1. stack' \in Seq([at : {"enter", "right", "merge"}, node : Path])
    BY <1>2
  <2>. QED BY <1>1, <1>2, <2>1, NullTypes DEF TypeOK, TreeId
<1>4. Control'
  BY <1>1, <1>2 DEF Control, TreeId
<1>5. Walk'
  BY <1>1, <1>2 DEF Walk, TreeId
<1>6. Calls'
  BY <1>2, NoCalls
<1>. QED BY <1>2, <1>3, <1>4, <1>5, <1>6 DEF IInv

LEMMA InsertHotParentInv ==
  ASSUME IInv, InsertHotParent
  PROVE  IInv'
<1>1. call = "insert" /\ InsertReturns /\ node' = node
  BY DEF InsertHotParent
<1>2. /\ TypeOK /\ Trees /\ root' = root /\ ac' = ac /\ phase' = phase
  BY <1>1, InsertFacts DEF InsertReturns
<1>3. on' = on => Trees' /\ node' \in [TreeId -> [Path -> Node \union {NULL}]]
  BY <1>1, <1>2, TreesSame
<1>4. AutoCollapsed'
  BY <1>1, <1>2 DEF AutoCollapsed, IInv
<1>. QED BY <1>1, <1>3, <1>4, InsertReturnsInv

LEMMA InsertHitInv ==
  ASSUME IInv, InsertHit
  PROVE  IInv'
<1>. DEFINE p == Position(on, arg, arg.len)
            N == node[on]
            M == DestroyKids(SetHot(N, p, TRUE), p)
<1>1. /\ call = "insert" /\ InsertReturns /\ FindHit(on, arg)
      /\ node' = IF N[p].hot THEN node ELSE [node EXCEPT ![on] = M]
  BY DEF InsertHit
<1>2. /\ TypeOK /\ Trees /\ arg \in Addr /\ arg.len \in 0..W /\ on \in TreeId
      /\ GoodTree(N, root[on]) /\ N[root[on]] # NULL
      /\ root' = root /\ ac' = ac /\ phase' = phase
      /\ on = "repl" => phase = "purge"
  BY <1>1, InsertFacts DEF InsertReturns
<1>3. p \in Path /\ N[p] # NULL
  BY <1>1, <1>2, FindFacts DEF FindHit
<1>4. CASE N[p].hot
  <2>1. node' = node
    BY <1>1, <1>4
  <2>2. on' = on => Trees' /\ node' \in [TreeId -> [Path -> Node \union {NULL}]]
    BY <1>2, <2>1, TreesSame
  <2>3. AutoCollapsed'
    BY <1>1, <1>2, <2>1 DEF AutoCollapsed, IInv
  <2>. QED BY <1>1, <2>2, <2>3, InsertReturnsInv
<1>5. CASE ~N[p].hot
  <2>1. node' = [node EXCEPT ![on] = M]
    BY <1>1, <1>5
  <2>3. /\ GoodTree(M, root[on]) /\ M[p] # NULL /\ M[p].hot
        /\ \A q \in Path : Len(q) <= Len(p) /\ q # p => M[q] = N[q]
        /\ \A q \in Path : M[q] # NULL => N[q] # NULL /\ (q # p => M[q] = N[q])
    <3>. HIDE DEF N, p
    <3>. QED BY <1>2, <1>3, MarkedGood
  <2>4. M[root[on]] # NULL
    <3>1. root[on] \in Path /\ Len(root[on]) <= Len(p)
      BY <1>2, <1>3, GoodNode DEF GoodTree
    <3>. QED BY <1>2, <2>3, <3>1
  <2>. HIDE DEF M, p
  <2>5. on' = on => Trees' /\ node' \in [TreeId -> [Path -> Node \union {NULL}]]
    BY <1>2, <2>1, <2>3, <2>4, TreeChanged
  <2>6. phase' \in {"input", "collapse", "collapsed"} => on = "main" /\ node'["main"] = M
    BY <1>2, <2>1 DEF TypeOK, TreeId
  <2>7. AutoCollapsed'
    <3>1. \A q \in Path : M[q] # NULL => /\ N[q] # NULL
                                         /\ M[q].hot \/ M[q] = N[q]
      BY <2>3
    <3>. QED BY <1>1, <1>2, <2>6, <3>1, AutoKept DEF IInv
  <2>. QED BY <1>1, <2>5, <2>7, InsertReturnsInv
<1>. QED BY <1>4, <1>5

LEMMA InsertMissInv ==
  ASSUME IInv, InsertMiss
  PROVE  IInv'
<1>1. /\ call = "insert" /\ call' = "walk"
      /\ node' = node /\ root' = root /\ ac' = ac /\ phase' = phase /\ on' = on /\ arg' = arg
      /\ stack' = stack /\ out' = out /\ before' = before /\ why' = why
  BY DEF InsertMiss
<1>2. PICK k \in 0..W : FindMiss(on, arg, k) /\ cur' = Position(on, arg, k)
  BY DEF InsertMiss
<1>3. /\ TypeOK /\ Trees /\ Control /\ arg \in Addr /\ arg.len \in 0..W /\ on \in TreeId
      /\ stack = << >> /\ GoodTree(node[on], root[on]) /\ node[on][root[on]] # NULL
      /\ on = "main" => phase = "input"
      /\ on = "repl" => phase = "purge"
  BY <1>1, InsertFacts
<1>4. /\ cur' \in Path /\ Len(cur') = k /\ k < arg.len /\ k < W
      /\ node[on][cur'] # NULL /\ ~node[on][cur'].hot
      /\ node[on][Child(cur', arg.bits[Len(cur') + 1])] = NULL
  BY <1>2, <1>3, FindFacts DEF FindMiss
<1>5. k < WalkLen
  <2>1. CASE AutoCollapse(on) > 0 /\ arg.len > AutoCollapse(on)
    <3>1. on = "main" /\ ac > 0 /\ phase = "input" /\ WalkLen = ac
      BY <1>3, <2>1 DEF AutoCollapse, TreeId, WalkLen
    <3>2. k <= ac /\ k # ac
      BY <1>1, <1>4, <3>1 DEF AutoCollapsed, IInv
    <3>3. ac \in Nat /\ k \in Nat
      BY <1>3, WAssumption DEF TypeOK
    <3>. QED BY <3>1, <3>2, <3>3
  <2>2. CASE ~(AutoCollapse(on) > 0 /\ arg.len > AutoCollapse(on))
    BY <1>4, <2>2 DEF WalkLen
  <2>. QED BY <2>1, <2>2
<1>6. WalkLen' = WalkLen /\ WalkLen \in Nat
  <2>1. arg.len \in Nat /\ ac \in Nat
    BY <1>3, WAssumption DEF TypeOK
  <2>. QED BY <1>1, <2>1 DEF WalkLen, AutoCollapse
<1>7. Walk'
  BY <1>1, <1>4, <1>5, <1>6, WAssumption DEF Walk
<1>8. TypeOK'
  BY <1>1, <1>3, <1>4 DEF TypeOK
<1>9. Trees'
  BY <1>1, <1>3, TreesSame
<1>10. Control'
  BY <1>1, <1>3 DEF Control
<1>11. AutoCollapsed'
  <2>1. AutoCollapsed
    BY DEF IInv
  <2>. QED BY <1>1, <2>1 DEF AutoCollapsed
<1>12. Calls'
  BY <1>1, <1>3, NoCalls
<1>. QED BY <1>7, <1>8, <1>9, <1>10, <1>11, <1>12 DEF IInv

\* The node the walk creates.
LEMMA NewChild ==
  ASSUME NEW N, NEW r, GoodTree(N, r), NEW p \in Path, N[p] # NULL, Len(p) < W,
         NEW b \in Bit, NEW h \in BOOLEAN
  PROVE  /\ new_child(N[p], b, h) \in Node /\ new_child(N[p], b, h).hot = h
         /\ new_child(N[p], b, h).addr = Padded(Child(p, b))
<1>1. addr_init_child(N[p].addr, b) = Padded(Child(p, b)) /\ Padded(Child(p, b)) \in Addr
  BY GoodNode, ChildAddr, ChildPath, PaddedIsAddr
<1>. QED BY <1>1 DEF new_child, Node

LEMMA WalkDownInv ==
  ASSUME IInv, WalkDown
  PROVE  IInv'
<1>. DEFINE N == node[on]
            b == arg.bits[N[cur].addr.len + 1]
            c == Child(cur, b)
            n == new_child(N[cur], b, FALSE)
            M == [N EXCEPT ![c] = n]
<1>1. /\ call = "walk" /\ call' = "walk" /\ N[cur].addr.len < WalkLen /\ cur' = c
      /\ node' = [node EXCEPT ![on] = M]
      /\ root' = root /\ ac' = ac /\ phase' = phase /\ on' = on /\ arg' = arg
      /\ stack' = stack /\ out' = out /\ before' = before /\ why' = why
  BY DEF WalkDown
<1>2. /\ TypeOK /\ Trees /\ Control /\ arg \in Addr /\ arg.len \in 0..W /\ on \in TreeId
      /\ stack = << >> /\ GoodTree(N, root[on]) /\ N[root[on]] # NULL
      /\ WalkLen <= arg.len
      /\ on = "main" => phase = "input"
      /\ on = "repl" => phase = "purge"
  BY <1>1, InsertFacts
<1>3. /\ cur \in Path /\ N[cur] # NULL /\ ~N[cur].hot
      /\ Len(cur) < arg.len => N[Child(cur, arg.bits[Len(cur) + 1])] = NULL
  BY <1>1, <1>2 DEF IInv, Walk, TypeOK
<1>4. N[cur].addr.len = Len(cur) /\ Len(cur) \in Nat /\ Len(root[on]) <= Len(cur)
      /\ Covers(root[on], cur) /\ root[on] \in Path
  <2>1. root[on] \in Path
    BY <1>2 DEF GoodTree
  <2>. QED BY <1>2, <1>3, <2>1, GoodNode, PathIsSeq, WAssumption
<1>5. WalkLen \in Nat /\ WalkLen' = WalkLen
  <2>1. arg.len \in Nat /\ ac \in Nat
    BY <1>2, WAssumption DEF TypeOK
  <2>. QED BY <1>1, <2>1 DEF WalkLen, AutoCollapse
<1>6. Len(cur) < WalkLen /\ Len(cur) < arg.len /\ Len(cur) < W /\ Len(cur) + 1 \in 1..W
  BY <1>1, <1>2, <1>4, <1>5, WAssumption
<1>7. b = arg.bits[Len(cur) + 1] /\ b \in Bit
  BY <1>2, <1>4, <1>6 DEF Addr, Address
<1>. HIDE DEF b
<1>8. /\ c \in Path /\ Len(c) = Len(cur) + 1 /\ N[c] = NULL /\ c # root[on] /\ c # cur
      /\ Covers(root[on], c)
  <2>1. c \in Path /\ Len(c) = Len(cur) + 1 /\ c # root[on]
    BY <1>2, <1>3, <1>4, <1>6, <1>7, ChildPath, ChildNotRoot
  <2>2. Covers(root[on], c)
    BY <1>3, <1>4, <1>6, <1>7, <2>1, CoversChild, CoversSplit
  <2>3. c # cur
    BY <1>4, <2>1
  <2>. QED BY <1>3, <1>6, <1>7, <2>1, <2>2, <2>3
<1>9. n \in Node /\ ~n.hot /\ n.addr = Padded(c)
  BY <1>2, <1>3, <1>6, <1>7, NewChild
<1>. HIDE DEF n
<1>10. N \in [Path -> Node \union {NULL}]
  BY <1>2 DEF GoodTree
<1>11. GoodTree(M, root[on])
  BY <1>2, <1>3, <1>6, <1>7, <1>8, <1>9, AddChildGood
<1>12. M[c] = n /\ n # NULL /\ \A q \in Path : q # c => M[q] = N[q]
  BY <1>8, <1>9, <1>10, TreeAssumption
<1>13. \A d \in Bit : Kid(M, c, d) = NULL
  <2>. SUFFICES ASSUME NEW d \in Bit, Len(c) < W PROVE M[Child(c, d)] = NULL
    BY DEF Kid
  <2>1. N[Child(c, d)] = NULL
    BY <1>2, <1>8, MissingHasNoKids DEF Kid
  <2>2. Child(c, d) \in Path /\ Child(c, d) # c
    BY <1>8, ChildPath, PathIsSeq, WAssumption
  <2>. QED BY <1>12, <2>1, <2>2
<1>. HIDE DEF M, c
<1>14. Trees' /\ node' \in [TreeId -> [Path -> Node \union {NULL}]]
  BY <1>1, <1>2, <1>4, <1>8, <1>11, <1>12, TreeChanged
<1>15. TypeOK'
  BY <1>1, <1>2, <1>8, <1>14 DEF TypeOK
<1>16. Control'
  BY <1>1, <1>2 DEF Control
<1>17. node'[on'] = M
  BY <1>1, <1>2 DEF TypeOK
<1>18. Walk'
  <2>1. Len(cur') <= WalkLen'
    BY <1>1, <1>4, <1>5, <1>6, <1>8
  <2>2. ASSUME Len(cur') < arg'.len
        PROVE  node'[on'][Child(cur', arg'.bits[Len(cur') + 1])] = NULL
    <3>1. Len(c) < W /\ Len(c) + 1 \in 1..W
      BY <1>1, <1>2, <1>4, <1>8, <2>2, WAssumption
    <3>2. arg.bits[Len(c) + 1] \in Bit
      BY <1>2, <3>1 DEF Addr, Address
    <3>. QED BY <1>1, <1>13, <1>17, <3>1, <3>2 DEF Kid
  <2>. QED BY <1>1, <1>9, <1>12, <1>13, <1>17, <2>1, <2>2 DEF Walk
<1>19. AutoCollapsed'
  <2>. SUFFICES ASSUME phase \in {"input", "collapse", "collapsed"}, ac > 0,
                       NEW q \in Path, node'["main"][q] # NULL
                PROVE  Len(q) <= ac /\ (Len(q) = ac /\ c # q => node'["main"][q].hot)
    BY <1>1 DEF AutoCollapsed
  <2>1. on = "main" /\ node'["main"] = M /\ node["main"] = N
    BY <1>2, <1>17, <1>1 DEF TreeId
  <2>2. ac \in Nat /\ (arg.len > ac => WalkLen = ac) /\ (~(arg.len > ac) => WalkLen = arg.len)
    BY <1>2, <2>1 DEF WalkLen, AutoCollapse, TypeOK
  <2>3. WalkLen <= ac
    BY <1>2, <2>2, WAssumption
  <2>4. CASE q = c
    BY <1>4, <1>5, <1>6, <1>8, <2>2, <2>3, <2>4
  <2>5. CASE q # c
    <3>1. M[q] = N[q] /\ N[q] # NULL
      BY <1>12, <2>1, <2>5
    <3>2. Len(q) <= ac /\ (Len(q) = ac /\ cur # q => N[q].hot)
      BY <2>1, <3>1 DEF AutoCollapsed, IInv
    <3>3. Len(cur) # ac
      BY <1>4, <1>5, <1>6, <2>2, <2>3
    <3>. QED BY <2>1, <3>1, <3>2, <3>3
  <2>. QED BY <2>4, <2>5
<1>20. Calls'
  BY <1>1, <1>2, NoCalls
<1>. QED BY <1>14, <1>15, <1>16, <1>18, <1>19, <1>20 DEF IInv

LEMMA WalkEndInv ==
  ASSUME IInv, WalkEnd
  PROVE  IInv'
<1>. DEFINE N == node[on]
            M == SetHot(N, cur, TRUE)
<1>1. /\ call = "walk" /\ N[cur].addr.len >= WalkLen /\ InsertReturns
      /\ node' = [node EXCEPT ![on] = M]
  BY DEF WalkEnd
<1>2. /\ TypeOK /\ Trees /\ arg \in Addr /\ arg.len \in 0..W /\ on \in TreeId
      /\ GoodTree(N, root[on]) /\ N[root[on]] # NULL
      /\ root' = root /\ ac' = ac /\ phase' = phase
      /\ on = "repl" => phase = "purge"
  BY <1>1, InsertFacts DEF InsertReturns
<1>3. /\ cur \in Path /\ N[cur] # NULL /\ Len(cur) <= WalkLen
      /\ Len(cur) = WalkLen => \A b \in Bit : Kid(N, cur, b) = NULL
  BY <1>1, <1>2 DEF IInv, Walk, TypeOK
<1>4. Len(cur) = WalkLen
  <2>1. N[cur].addr.len = Len(cur) /\ Len(cur) \in Nat
    BY <1>2, <1>3, GoodNode, PathIsSeq, WAssumption
  <2>2. WalkLen \in Nat
    <3>1. arg.len \in Nat /\ ac \in Nat
      BY <1>2, WAssumption DEF TypeOK
    <3>. QED BY <3>1 DEF WalkLen, AutoCollapse
  <2>. QED BY <1>1, <1>3, <2>1, <2>2
<1>5. /\ GoodTree(M, root[on]) /\ M[cur] # NULL /\ M[cur].hot
      /\ \A q \in Path : q # cur => M[q] = N[q]
      /\ \A q \in Path : M[q] # NULL <=> N[q] # NULL
  BY <1>2, <1>3, <1>4, SetHotGood
<1>6. M[root[on]] # NULL
  BY <1>2, <1>5 DEF GoodTree
<1>. HIDE DEF M
<1>7. on' = on => Trees' /\ node' \in [TreeId -> [Path -> Node \union {NULL}]]
  BY <1>1, <1>2, <1>5, <1>6, TreeChanged
<1>8. phase' \in {"input", "collapse", "collapsed"} => on = "main" /\ node'["main"] = M
  BY <1>1, <1>2 DEF TypeOK, TreeId
<1>9. AutoCollapsed'
  BY <1>1, <1>2, <1>5, <1>8, AutoKept DEF IInv
<1>. QED BY <1>1, <1>7, <1>9, InsertReturnsInv

-----------------------------------------------------------------------------
(***************************************************************************)
(* Recursive operations: what a step at the top means for the calls below. *)
(***************************************************************************)
\* The call at the top, its node and the tree.
LEMMA TopFacts ==
  ASSUME IInv, stack # << >>
  PROVE  /\ TypeOK /\ Trees /\ Control /\ Calls /\ on \in TreeId
         /\ GoodTree(node[on], root[on]) /\ node[on][root[on]] # NULL
         /\ root[on] \in Path /\ Len(root[on]) <= Len(Top.node)
         /\ stack \in Seq(Frames) /\ GoodStack(stack)
         /\ Top \in Frames /\ Top.node \in Path
         /\ node[on][Top.node] # NULL
         /\ FrameOK(node[on], call, Top)
         /\ \A f : BelowTop(stack, f) => /\ f \in Frames /\ f.node \in Path
                                         /\ FrameOK(node[on], call, f)
                                         /\ Len(f.node) < Len(Top.node)
<1>1. TypeOK /\ Trees /\ Control /\ Calls
  BY DEF IInv
<1>2. stack \in Seq(Frames) /\ GoodStack(stack)
      /\ \A i \in 1..Len(stack) : FrameOK(node[on], call, stack[i])
  BY <1>1 DEF TypeOK, Calls, Frames
<1>3. /\ Top = stack[1] /\ 1 \in 1..Len(stack) /\ Top \in Frames /\ Top.node \in Path
      /\ \A i \in 1..Len(stack) : stack[i] \in Frames /\ stack[i].node \in Path
  BY <1>2, StackTop DEF Top
<1>4. FrameOK(node[on], call, Top)
  BY <1>2, <1>3
<1>5. node[on][Top.node] # NULL
  BY <1>4 DEF FrameOK
<1>6. root[on] \in Path
  BY <1>1, RootThere DEF GoodTree
<1>7. Len(root[on]) <= Len(Top.node)
  BY <1>1, <1>3, <1>5, RootThere, GoodNode
<1>8. \A f : BelowTop(stack, f) => /\ f \in Frames /\ f.node \in Path
                                   /\ FrameOK(node[on], call, f)
                                   /\ Len(f.node) < Len(Top.node)
  BY <1>2, <1>3 DEF BelowTop, Top
<1>. QED BY <1>1, <1>2, <1>3, <1>4, <1>5, <1>6, <1>7, <1>8, RootThere

\* A call below the top does not see what changes at or below the top's node.
LEMMA FrameKept ==
  ASSUME NEW N, NEW M, NEW c, NEW f \in Frames, NEW p \in Path, FrameOK(N, c, f),
         Len(f.node) < Len(p),
         \A q \in Path : Len(q) < Len(p) => M[q] = N[q],
         c = "inverting" => \A q \in Path : Len(q) <= Len(p) => M[q] = N[q]
  PROVE  FrameOK(M, c, f)
<1>1. f.node \in Path /\ Len(f.node) \in Nat /\ Len(p) \in Nat
  <2>1. f.node \in Path
    BY DEF Frames
  <2>. QED BY <2>1, PathIsSeq, WAssumption
<1>2. M[f.node] = N[f.node]
  BY <1>1
<1>3. ASSUME c = "inverting", NEW b \in Bit PROVE Kid(M, f.node, b) = Kid(N, f.node, b)
  <2>1. CASE Len(f.node) < W
    <3>1. Child(f.node, b) \in Path /\ Len(Child(f.node, b)) <= Len(p)
      BY <1>1, <2>1, ChildPath
    <3>. QED BY <1>3, <2>1, <3>1 DEF Kid
  <2>. QED BY <2>1 DEF Kid
<1>4. c = "inverting" => Kid(M, f.node, 0) = Kid(N, f.node, 0) /\ Kid(M, f.node, 1) = Kid(N, f.node, 1)
  BY <1>3 DEF Bit
<1>. QED BY <1>2, <1>4 DEF FrameOK, KidHot

\* The three ways a step at the top leaves the stack.
LEMMA CallsAfterReturn ==
  ASSUME IInv, stack # << >>, Resume(<< >>), on' = on, call' = call,
         \A f : BelowTop(stack, f) => FrameOK(node'[on], call, f)
  PROVE  Calls' /\ stack' \in Seq(Frames)
<1>1. stack' = << >> \o Tail(stack)
  BY DEF Resume
<1>2. /\ stack' \in Seq(Frames) /\ GoodStack(stack')
      /\ \A i \in 1..Len(stack') : BelowTop(stack, stack'[i])
  BY <1>1, TopFacts, Returns
<1>. QED BY <1>2 DEF Calls

LEMMA CallsAfterContinue ==
  ASSUME IInv, stack # << >>, NEW f \in Frames, Resume(<<f>>), on' = on, call' = call,
         Len(f.node) >= Len(Top.node), FrameOK(node'[on], call, f),
         \A g : BelowTop(stack, g) => FrameOK(node'[on], call, g)
  PROVE  Calls' /\ stack' \in Seq(Frames)
<1>1. stack' = <<f>> \o Tail(stack)
  BY DEF Resume
<1>2. Len(f.node) >= Len(Head(stack).node)
  BY DEF Top
<1>3. /\ stack' \in Seq(Frames) /\ GoodStack(stack')
      /\ \A i \in 1..Len(stack') : stack'[i] = f \/ BelowTop(stack, stack'[i])
  BY <1>1, <1>2, TopFacts, Continues
<1>. QED BY <1>3 DEF Calls

LEMMA CallsAfterCall ==
  ASSUME IInv, stack # << >>, NEW f \in Frames, NEW h \in Frames,
         Resume(<<f, h>>), on' = on, call' = call,
         h.node = Top.node, Len(f.node) = Len(h.node) + 1,
         FrameOK(node'[on], call, f), FrameOK(node'[on], call, h),
         \A g : BelowTop(stack, g) => FrameOK(node'[on], call, g)
  PROVE  Calls' /\ stack' \in Seq(Frames)
<1>1. stack' = <<f, h>> \o Tail(stack)
  BY DEF Resume
<1>2. h.node = Head(stack).node
  BY DEF Top
<1>3. /\ stack' \in Seq(Frames) /\ GoodStack(stack')
      /\ \A i \in 1..Len(stack') : \/ stack'[i] = f \/ stack'[i] = h
                                   \/ BelowTop(stack, stack'[i])
  BY <1>1, <1>2, TopFacts, CallsChild
<1>. QED BY <1>3 DEF Calls

\* A step that keeps the operation, its tree and its arguments.
LEMMA RecursionInv ==
  ASSUME IInv, stack # << >>, call \in {"collapse", "inverting", "collect"},
         root' = root, ac' = ac, phase' = phase, call' = call, on' = on, arg' = arg,
         cur' = cur, before' = before, why' = why,
         out' \in Seq(Addr), stack' \in Seq(Frames),
         Trees', node' \in [TreeId -> [Path -> Node \union {NULL}]],
         AutoCollapsed', Calls'
  PROVE  IInv'
<1>1. TypeOK /\ Control
  BY DEF IInv
<1>2. TypeOK'
  BY <1>1 DEF TypeOK, Frames
<1>3. phase # "new"
  BY <1>1 DEF Control
<1>4. Control' /\ Walk'
  BY <1>1, <1>3 DEF Control, Walk
<1>. QED BY <1>2, <1>4 DEF IInv

\* A step that goes down to a child, or on to frames, and changes no tree.
LEMMA DescendInv ==
  ASSUME IInv, stack # << >>, call \in {"collapse", "collect"},
         NEW b \in Bit, NEW frames, Descend(b, frames),
         \/ frames = << >>
         \/ \E w \in {"enter", "right", "merge"} : frames = <<Frame(w, Top.node)>>,
         UNCHANGED <<node, root, ac, phase, call, on, arg, cur, out, before, why>>
  PROVE  IInv'
<1>. DEFINE N == node[on]
            p == Top.node
            f == Frame("enter", Child(p, b))
<1>1. /\ TypeOK /\ Trees /\ GoodTree(N, root[on]) /\ p \in Path /\ N[p] # NULL
      /\ \A g : BelowTop(stack, g) => FrameOK(N, call, g)
  BY TopFacts
<1>2. ASSUME Kid(N, p, b) # NULL
      PROVE  f \in Frames /\ FrameOK(N, call, f) /\ Len(f.node) = Len(p) + 1
  <2>1. Len(p) < W /\ N[Child(p, b)] # NULL
    BY <1>2 DEF Kid
  <2>2. Child(p, b) \in Path /\ Len(Child(p, b)) = Len(p) + 1
    BY <1>1, <2>1, ChildPath
  <2>. QED BY <2>1, <2>2 DEF Frame, Frames, FrameOK
<1>3. ASSUME NEW w \in {"enter", "right", "merge"}
      PROVE  /\ Frame(w, p) \in Frames /\ FrameOK(N, call, Frame(w, p))
             /\ Frame(w, p).node = p
  BY <1>1 DEF Frame, Frames, FrameOK
<1>4. node'[on] = N /\ on' = on /\ call' = call
  OBVIOUS
<1>5. Len(p) \in Nat
  BY <1>1, PathIsSeq, WAssumption
<1>6. Calls' /\ stack' \in Seq(Frames)
  <2>1. CASE frames = << >> /\ Kid(N, p, b) = NULL
    <3>1. Resume(<< >>)
      BY <2>1 DEF Descend
    <3>. QED BY <1>1, <1>4, <3>1, CallsAfterReturn
  <2>2. CASE frames = << >> /\ Kid(N, p, b) # NULL
    <3>1. <<f>> \o << >> = <<f>>
      OBVIOUS
    <3>2. Resume(<<f>>)
      BY <2>2, <3>1 DEF Descend
    <3>3. Len(f.node) >= Len(p)
      BY <1>2, <1>5, <2>2
    <3>. HIDE DEF f
    <3>. QED BY <1>1, <1>2, <1>4, <2>2, <3>2, <3>3, CallsAfterContinue
  <2>3. CASE frames # << >>
    <3>1. PICK w \in {"enter", "right", "merge"} : frames = <<Frame(w, p)>>
      BY <2>3
    <3>. DEFINE h == Frame(w, p)
    <3>2. h \in Frames /\ FrameOK(N, call, h) /\ h.node = p
      BY <1>3
    <3>3. CASE Kid(N, p, b) = NULL
      <4>1. Resume(<<h>>)
        BY <3>1, <3>3 DEF Descend
      <4>2. Len(h.node) >= Len(p)
        BY <1>5, <3>2
      <4>. HIDE DEF h
      <4>. QED BY <1>1, <1>4, <3>2, <4>1, <4>2, CallsAfterContinue
    <3>4. CASE Kid(N, p, b) # NULL
      <4>1. f \in Frames /\ h \in Frames
        BY <1>2, <3>2, <3>4
      <4>. HIDE DEF f, h
      <4>2. <<f>> \o <<h>> = <<f, h>>
        BY <4>1, TwoFrames
      <4>3. Resume(<<f, h>>)
        BY <3>1, <3>4, <4>2 DEF Descend, f, h
      <4>4. Len(f.node) = Len(h.node) + 1 /\ FrameOK(N, call, f)
        BY <1>2, <3>2, <3>4 DEF f
      <4>. QED BY <1>1, <1>4, <3>2, <4>1, <4>3, <4>4, CallsAfterCall
    <3>. QED BY <3>3, <3>4
  <2>. QED BY <2>1, <2>2, <2>3
<1>7. Trees' /\ node' \in [TreeId -> [Path -> Node \union {NULL}]]
  BY <1>1, TreesSame
<1>8. AutoCollapsed'
  <2>1. AutoCollapsed
    BY DEF IInv
  <2>. QED BY <2>1 DEF AutoCollapsed
<1>9. out' \in Seq(Addr)
  BY <1>1 DEF TypeOK
<1>. QED BY <1>6, <1>7, <1>8, <1>9, RecursionInv

-----------------------------------------------------------------------------
(***************************************************************************)
(* Collapse and collect.                                                   *)
(***************************************************************************)
\* The node at the top becomes a hot leaf and its call returns.
LEMMA JoinInv ==
  ASSUME IInv, stack # << >>, call = "collapse",
         node' = [node EXCEPT ![on] = Joined(@, Top.node)], CollapseStep
  PROVE  IInv'
<1>. DEFINE N == node[on]
            p == Top.node
            M == Joined(N, p)
<1>1. /\ TypeOK /\ Trees /\ Control /\ on \in TreeId /\ GoodTree(N, root[on])
      /\ N[root[on]] # NULL /\ root[on] \in Path /\ Len(root[on]) <= Len(p)
      /\ p \in Path /\ N[p] # NULL
      /\ \A g : BelowTop(stack, g) => /\ g \in Frames /\ g.node \in Path
                                      /\ FrameOK(N, call, g) /\ Len(g.node) < Len(p)
  BY TopFacts
<1>2. /\ root' = root /\ ac' = ac /\ phase' = phase /\ call' = call /\ on' = on /\ arg' = arg
      /\ cur' = cur /\ out' = out /\ before' = before /\ why' = why /\ Resume(<< >>)
      /\ node' = [node EXCEPT ![on] = M]
  BY DEF CollapseStep
<1>. HIDE DEF N, p
<1>3. /\ GoodTree(M, root[on]) /\ M[p] # NULL /\ M[p].hot = TRUE
      /\ \A q \in Path : Len(q) <= Len(p) /\ q # p => M[q] = N[q]
      /\ \A q \in Path : M[q] # NULL => N[q] # NULL /\ (q # p => M[q] = N[q])
  BY <1>1, JoinedGood DEF Joined
<1>. HIDE DEF M
<1>4. M[root[on]] # NULL
  BY <1>1, <1>3
<1>5. Trees' /\ node' \in [TreeId -> [Path -> Node \union {NULL}]]
  BY <1>1, <1>2, <1>3, <1>4, TreeChanged
<1>6. on = "main" /\ node'["main"] = M /\ node["main"] = N
  <2>1. on = "main"
    BY <1>1 DEF Control, TreeId
  <2>. QED BY <1>1, <1>2, <2>1 DEF TypeOK, N
<1>7. AutoCollapsed'
  <2>1. \A q \in Path : M[q] # NULL => N[q] # NULL /\ (M[q].hot \/ M[q] = N[q])
    BY <1>3
  <2>. QED BY <1>2, <1>6, <2>1, AutoKept DEF IInv
<1>8. \A g : BelowTop(stack, g) => FrameOK(M, call, g)
  <2>. SUFFICES ASSUME NEW g, BelowTop(stack, g) PROVE FrameOK(M, call, g)
    OBVIOUS
  <2>1. \A q \in Path : Len(q) < Len(p) => M[q] = N[q]
    <3>1. \A q \in Path : Len(q) < Len(p) => Len(q) <= Len(p) /\ q # p
      BY <1>1, PathIsSeq, WAssumption
    <3>. QED BY <1>3, <3>1
  <2>. QED BY <1>1, <2>1, FrameKept
<1>9. Calls' /\ stack' \in Seq(Frames)
  BY <1>2, <1>6, <1>8, CallsAfterReturn
<1>10. out' \in Seq(Addr)
  BY <1>1, <1>2 DEF TypeOK
<1>. QED BY <1>2, <1>5, <1>7, <1>9, <1>10, RecursionInv

LEMMA CollapseMergeInv ==
  ASSUME IInv, CollapseMerge
  PROVE  IInv'
<1>1. stack # << >> /\ call = "collapse" /\ CollapseStep
  BY DEF CollapseMerge, Running
<1>2. CASE \A b \in Bit : KidHot(node[on], Top.node, b)
  BY <1>1, <1>2, JoinInv DEF CollapseMerge
<1>3. CASE ~ \A b \in Bit : KidHot(node[on], Top.node, b)
  <2>1. /\ node' = node /\ root' = root /\ ac' = ac /\ phase' = phase /\ call' = call /\ on' = on
        /\ arg' = arg /\ cur' = cur /\ out' = out /\ before' = before /\ why' = why
        /\ Resume(<< >>)
    BY <1>1, <1>3 DEF CollapseMerge, CollapseStep
  <2>2. /\ TypeOK /\ Trees
        /\ \A g : BelowTop(stack, g) => FrameOK(node[on], call, g)
    BY <1>1, TopFacts
  <2>3. Calls' /\ stack' \in Seq(Frames)
    BY <1>1, <2>1, <2>2, CallsAfterReturn
  <2>4. Trees' /\ node' \in [TreeId -> [Path -> Node \union {NULL}]]
    BY <2>1, <2>2, TreesSame
  <2>5. AutoCollapsed'
    BY <1>1, <2>1 DEF AutoCollapsed, IInv
  <2>6. out' \in Seq(Addr)
    BY <2>1, <2>2 DEF TypeOK
  <2>. QED BY <1>1, <2>1, <2>3, <2>4, <2>5, <2>6, RecursionInv
<1>. QED BY <1>2, <1>3

\* A recursive operation on the main tree is over.
LEMMA RecursionEnds ==
  ASSUME IInv, on = "main", call \in {"collapse", "inverting", "collect"}, OpDone, node' = node, root' = root, ac' = ac,
         why' = why, out' = out, before' \in {before, {}},
         \/ phase = "collapse" /\ phase' = "collapsed"
         \/ phase \in {"invert", "purge"} /\ phase' = "purge"
         \/ phase' = "done"
  PROVE  IInv'
<1>1. TypeOK /\ Trees /\ Control
  BY DEF IInv
<1>2. call' = "none" /\ on' = "main" /\ arg' = addr_init_null /\ cur' = << >> /\ stack' = << >>
  BY DEF OpDone
<1>3. TypeOK'
  <2>1. stack' \in Seq([at : {"enter", "right", "merge"}, node : Path])
    BY <1>2
  <2>2. before' \subseteq Address
    BY <1>1 DEF TypeOK
  <2>. QED BY <1>1, <1>2, <2>1, <2>2, NullTypes DEF TypeOK, TreeId
<1>4. Trees'
  BY <1>1, <1>2, TreesSame
<1>5. Control' /\ Walk'
  BY <1>1, <1>2 DEF Control, Walk
<1>6. AutoCollapsed'
  <2>1. AutoCollapsed
    BY DEF IInv
  <2>. QED BY <1>2, <2>1 DEF AutoCollapsed
<1>7. Calls'
  BY <1>2, NoCalls
<1>. QED BY <1>3, <1>4, <1>5, <1>6, <1>7 DEF IInv


LEMMA CollapseInv ==
  ASSUME IInv, CollapseSteps
  PROVE  IInv'
<1>1. CASE CollapseNow
  BY <1>1, JoinInv DEF CollapseNow, Running
<1>2. CASE CollapseLeft
  <2>1. /\ stack # << >> /\ call = "collapse" /\ Descend(0, <<Frame("right", Top.node)>>)
        /\ UNCHANGED <<node, root, ac, phase, call, on, arg, cur, out, before, why>>
    BY <1>2 DEF CollapseLeft, Running
  <2>. QED BY <2>1, DescendInv DEF Bit
<1>3. CASE CollapseRight
  <2>1. /\ stack # << >> /\ call = "collapse" /\ Descend(1, <<Frame("merge", Top.node)>>)
        /\ UNCHANGED <<node, root, ac, phase, call, on, arg, cur, out, before, why>>
    BY <1>3 DEF CollapseRight, Running
  <2>. QED BY <2>1, DescendInv DEF Bit
<1>4. CASE CollapseMerge
  BY <1>4, CollapseMergeInv
<1>5. CASE CollapseReturns
  <2>1. call = "collapse" /\ on = "main" /\ phase = "collapse"
    BY <1>5 DEF CollapseReturns, IInv, Control, TypeOK, TreeId
  <2>. QED BY <1>5, <2>1, RecursionEnds DEF CollapseReturns
<1>. QED BY <1>1, <1>2, <1>3, <1>4, <1>5 DEF CollapseSteps

LEMMA CollectInv ==
  ASSUME IInv, CollectSteps
  PROVE  IInv'
<1>1. CASE CollectHot
  <2>1. /\ stack # << >> /\ call = "collect" /\ out' = Append(out, node[on][Top.node].addr)
        /\ Resume(<< >>)
        /\ node' = node /\ root' = root /\ ac' = ac /\ phase' = phase /\ call' = call /\ on' = on
        /\ arg' = arg /\ cur' = cur /\ before' = before /\ why' = why
    BY <1>1 DEF CollectHot, Running
  <2>2. /\ TypeOK /\ Trees /\ GoodTree(node[on], root[on]) /\ Top.node \in Path
        /\ node[on][Top.node] # NULL
        /\ \A g : BelowTop(stack, g) => FrameOK(node[on], call, g)
    BY <2>1, TopFacts
  <2>3. out' \in Seq(Addr)
    <3>1. node[on][Top.node].addr \in Addr /\ out \in Seq(Addr)
      BY <2>2, GoodNode DEF TypeOK
    <3>. QED BY <2>1, <3>1
  <2>4. Calls' /\ stack' \in Seq(Frames)
    BY <2>1, <2>2, CallsAfterReturn
  <2>5. Trees' /\ node' \in [TreeId -> [Path -> Node \union {NULL}]]
    BY <2>1, <2>2, TreesSame
  <2>6. AutoCollapsed'
    <3>1. AutoCollapsed
      BY DEF IInv
    <3>. QED BY <2>1, <3>1 DEF AutoCollapsed
  <2>. QED BY <2>1, <2>3, <2>4, <2>5, <2>6, RecursionInv
<1>2. CASE CollectHotNoMemory
  BY <1>2, AbortInv DEF CollectHotNoMemory
<1>3. CASE CollectLeft
  <2>1. /\ stack # << >> /\ call = "collect" /\ Descend(0, <<Frame("right", Top.node)>>)
        /\ UNCHANGED <<node, root, ac, phase, call, on, arg, cur, out, before, why>>
    BY <1>3 DEF CollectLeft, Running
  <2>. QED BY <2>1, DescendInv DEF Bit
<1>4. CASE CollectRight
  <2>1. /\ stack # << >> /\ call = "collect" /\ Descend(1, << >>)
        /\ UNCHANGED <<node, root, ac, phase, call, on, arg, cur, out, before, why>>
    BY <1>4 DEF CollectRight, Running
  <2>. QED BY <2>1, DescendInv DEF Bit
<1>5. CASE CollectReturns
  <2>1. call = "collect" /\ on = "main"
    BY <1>5 DEF CollectReturns, IInv, Control, TypeOK, TreeId
  <2>. QED BY <1>5, <2>1, RecursionEnds DEF CollectReturns
<1>. QED BY <1>1, <1>2, <1>3, <1>4, <1>5 DEF CollectSteps

-----------------------------------------------------------------------------
(***************************************************************************)
(* Invert.                                                                 *)
(***************************************************************************)
\* The node at the top of an inversion is cold; it is resumed between its
\* children only after the left one has been dealt with.
LEMMA InvertTop ==
  ASSUME IInv, NEW w, Running("inverting", w)
  PROVE  /\ stack # << >> /\ call = "inverting" /\ Top.at = w
         /\ TypeOK /\ Trees /\ on \in TreeId /\ GoodTree(node[on], root[on])
         /\ Top.node \in Path /\ node[on][Top.node] # NULL /\ ~node[on][Top.node].hot
         /\ w = "right" => Kid(node[on], Top.node, 0) # NULL /\ ~KidHot(node[on], Top.node, 1)
<1>1. stack # << >> /\ call = "inverting" /\ Top.at = w
  BY DEF Running
<1>2. FrameOK(node[on], "inverting", Top)
  BY <1>1, TopFacts
<1>. QED BY <1>1, <1>2, TopFacts DEF FrameOK

\* A step of an inversion changes the tree below the node at the top only.
LEMMA InvertChange ==
  ASSUME IInv, stack # << >>, call = "inverting", UnchangedByInvert,
         NEW M, GoodTree(M, root[on]), node' = [node EXCEPT ![on] = M],
         \A q \in Path : Len(q) <= Len(Top.node) => M[q] = node[on][q]
  PROVE  /\ node'[on] = M /\ on' = on /\ call' = call
         /\ \A g : BelowTop(stack, g) => FrameOK(node'[on], call, g)
         /\ Calls' /\ stack' \in Seq(Frames) => IInv'
<1>. DEFINE N == node[on]
            p == Top.node
<1>1. /\ TypeOK /\ Trees /\ Control /\ on \in TreeId /\ GoodTree(N, root[on])
      /\ N[root[on]] # NULL /\ root[on] \in Path /\ Len(root[on]) <= Len(p)
      /\ p \in Path
      /\ \A g : BelowTop(stack, g) => /\ g \in Frames /\ FrameOK(N, call, g)
                                      /\ Len(g.node) < Len(p)
  BY TopFacts
<1>2. /\ root' = root /\ ac' = ac /\ phase' = phase /\ call' = call /\ on' = on /\ arg' = arg
      /\ cur' = cur /\ out' = out /\ before' = before /\ why' = why
  BY DEF UnchangedByInvert
<1>3. node'[on] = M
  BY <1>1 DEF TypeOK
<1>4. M[root[on]] # NULL
  BY <1>1
<1>5. Trees' /\ node' \in [TreeId -> [Path -> Node \union {NULL}]]
  BY <1>1, <1>2, <1>4, TreeChanged
<1>6. AutoCollapsed'
  BY <1>1, <1>2 DEF AutoCollapsed, Control
<1>7. \A g : BelowTop(stack, g) => FrameOK(M, call, g)
  <2>. SUFFICES ASSUME NEW g, BelowTop(stack, g) PROVE FrameOK(M, call, g)
    OBVIOUS
  <2>. HIDE DEF N, p
  <2>1. \A q \in Path : Len(q) <= Len(p) => M[q] = N[q]
    BY DEF N, p
  <2>2. \A q \in Path : Len(q) < Len(p) => M[q] = N[q]
    <3>1. \A q \in Path : Len(q) < Len(p) => Len(q) <= Len(p)
      BY <1>1, PathIsSeq, WAssumption
    <3>. QED BY <2>1, <3>1
  <2>. QED BY <1>1, <2>1, <2>2, FrameKept
<1>8. out' \in Seq(Addr)
  BY <1>1, <1>2 DEF TypeOK
<1>9. ASSUME Calls', stack' \in Seq(Frames) PROVE IInv'
  BY <1>2, <1>5, <1>6, <1>8, <1>9, RecursionInv
<1>. QED BY <1>2, <1>3, <1>7, <1>9

\* The frames an inversion makes.
LEMMA InvertFrame ==
  ASSUME NEW N, NEW q \in Path, N[q] # NULL, ~N[q].hot
  PROVE  /\ Frame("enter", q) \in Frames /\ Frame("enter", q).node = q
         /\ FrameOK(N, "inverting", Frame("enter", q))
         /\ Frame("right", q) \in Frames /\ Frame("right", q).node = q
         /\ Kid(N, q, 0) # NULL /\ ~KidHot(N, q, 1)
              => FrameOK(N, "inverting", Frame("right", q))
BY DEF Frame, Frames, FrameOK

LEMMA ColdKid ==
  ASSUME NEW N, NEW p \in Path, NEW b \in Bit, Kid(N, p, b) # NULL
  PROVE  /\ Len(p) < W /\ Child(p, b) \in Path /\ N[Child(p, b)] # NULL
         /\ Kid(N, p, b) = N[Child(p, b)]
         /\ Len(Child(p, b)) = Len(p) + 1 /\ Len(Child(p, b)) >= Len(p)
         /\ KidHot(N, p, b) <=> N[Child(p, b)].hot
<1>1. Len(p) < W /\ Kid(N, p, b) = N[Child(p, b)]
  BY DEF Kid
<1>. QED BY <1>1, ChildPath, PathIsSeq, WAssumption DEF KidHot

LEMMA InvertMoveInv ==
  ASSUME IInv, InvertMove
  PROVE  IInv'
<1>. DEFINE N == node[on]
            p == Top.node
<1>1. PICK b \in Bit :
        /\ KidHot(N, p, b) /\ Kid(N, p, 1 - b) = NULL
        /\ node' = [node EXCEPT ![on][Child(p, 1 - b)] = flip_addr_inplace(N[Child(p, b)]),
                                ![on][Child(p, b)] = NULL]
  BY DEF InvertMove
<1>2. Running("inverting", "enter") /\ Resume(<< >>) /\ UnchangedByInvert
  BY DEF InvertMove
<1>3. /\ stack # << >> /\ call = "inverting" /\ TypeOK /\ on \in TreeId
      /\ GoodTree(N, root[on]) /\ p \in Path /\ N[p] # NULL /\ ~N[p].hot
  BY <1>2, InvertTop
<1>4. /\ Len(p) < W /\ N[Child(p, b)] # NULL /\ N[Child(p, b)].hot
      /\ N[Child(p, 1 - b)] = NULL
  <2>1. Kid(N, p, b) # NULL
    BY <1>1 DEF KidHot
  <2>2. Len(p) < W /\ N[Child(p, b)] # NULL /\ N[Child(p, b)].hot
    BY <1>1, <1>3, <2>1, ColdKid
  <2>. QED BY <1>1, <2>2 DEF Kid
<1>. DEFINE e == 1 - b
            M == Moved(N, Child(p, b), Child(p, e))
<1>5. node' = [node EXCEPT ![on] = M]
  BY <1>1, <1>3 DEF TypeOK, Moved
<1>6. GoodTree(M, root[on]) /\ \A q \in Path : Len(q) <= Len(p) => M[q] = N[q]
  <2>1. e \in Bit /\ e = 1 - b /\ N[Child(p, e)] = NULL
    BY <1>4 DEF Bit
  <2>. HIDE DEF e, N, p
  <2>. QED BY <1>3, <1>4, <2>1, MoveGood
<1>. HIDE DEF M
<1>7. /\ on' = on /\ call' = call
      /\ \A g : BelowTop(stack, g) => FrameOK(node'[on], call, g)
      /\ Calls' /\ stack' \in Seq(Frames) => IInv'
  BY <1>2, <1>3, <1>5, <1>6, InvertChange
<1>8. Calls' /\ stack' \in Seq(Frames)
  BY <1>2, <1>3, <1>7, CallsAfterReturn
<1>. QED BY <1>7, <1>8

LEMMA InvertOtherInv ==
  ASSUME IInv, InvertOther
  PROVE  IInv'
<1>. DEFINE N == node[on]
            p == Top.node
<1>1. PICK b \in Bit :
        /\ KidHot(N, p, b) /\ Kid(N, p, 1 - b) # NULL /\ ~KidHot(N, p, 1 - b)
        /\ node' = [node EXCEPT ![on] = DestroyNode(@, Child(p, b))]
        /\ Resume(<<Frame("enter", Child(p, 1 - b))>>)
  BY DEF InvertOther
<1>2. Running("inverting", "enter") /\ UnchangedByInvert
  BY DEF InvertOther
<1>3. /\ stack # << >> /\ call = "inverting" /\ TypeOK /\ on \in TreeId
      /\ GoodTree(N, root[on]) /\ p \in Path /\ N[p] # NULL /\ ~N[p].hot
  BY <1>2, InvertTop
<1>. DEFINE c == Child(p, b)
            d == Child(p, 1 - b)
            M == DestroyNode(N, c)
            f == Frame("enter", d)
<1>4. 1 - b \in Bit /\ 1 - b # b
  BY DEF Bit
<1>5. /\ c \in Path /\ d \in Path /\ c # d /\ N[d] # NULL /\ ~N[d].hot
      /\ Len(c) = Len(p) + 1 /\ Len(d) = Len(p) + 1 /\ Len(p) \in Nat
  <2>1. Kid(N, p, b) # NULL /\ Kid(N, p, 1 - b) # NULL
    BY <1>1 DEF KidHot
  <2>. HIDE DEF N, p
  <2>2. Len(p) < W /\ d \in Path /\ N[d] # NULL /\ ~N[d].hot
    BY <1>1, <1>3, <1>4, <2>1, ColdKid
  <2>3. c # d /\ c \in Path /\ Len(c) = Len(p) + 1 /\ Len(d) = Len(p) + 1
    BY <1>3, <1>4, <2>2, ChildInjective, ChildPath
  <2>. QED BY <1>3, <2>2, <2>3, PathIsSeq, WAssumption
<1>. HIDE DEF c, d
<1>6. /\ GoodTree(M, root[on])
      /\ \A q \in Path : Len(q) <= Len(c) /\ q # c => M[q] = N[q]
  BY <1>3, <1>5, DestroyNodeGood
<1>7. M[d] # NULL /\ ~M[d].hot /\ \A q \in Path : Len(q) <= Len(p) => M[q] = N[q]
  <2>1. M[d] = N[d]
    BY <1>5, <1>6
  <2>2. \A q \in Path : Len(q) <= Len(p) => Len(q) <= Len(c) /\ q # c
    BY <1>5, PathIsSeq, WAssumption
  <2>. QED BY <1>5, <1>6, <2>1, <2>2
<1>8. node' = [node EXCEPT ![on] = M]
  BY <1>1 DEF c
<1>. HIDE DEF M
<1>9. /\ node'[on] = M /\ on' = on /\ call' = call
      /\ \A g : BelowTop(stack, g) => FrameOK(node'[on], call, g)
      /\ Calls' /\ stack' \in Seq(Frames) => IInv'
  BY <1>2, <1>3, <1>6, <1>7, <1>8, InvertChange
<1>10. f \in Frames /\ f.node = d /\ FrameOK(M, "inverting", f)
  BY <1>5, <1>7, InvertFrame
<1>11. Len(f.node) >= Len(p) /\ Resume(<<f>>)
  BY <1>1, <1>5, <1>10 DEF d
<1>. HIDE DEF f
<1>12. Calls' /\ stack' \in Seq(Frames)
  BY <1>3, <1>9, <1>10, <1>11, CallsAfterContinue
<1>. QED BY <1>9, <1>12

LEMMA InvertCreateLeftInv ==
  ASSUME IInv, InvertCreateLeft
  PROVE  IInv'
<1>. DEFINE N == node[on]
            p == Top.node
            M == WithSibling(N, Child(p, 1), Child(p, 0))
            f == Frame("right", p)
<1>1. /\ Running("inverting", "enter") /\ NoKidHot(N, p)
      /\ Kid(N, p, 0) = NULL /\ Kid(N, p, 1) # NULL
      /\ node' = [node EXCEPT ![on][Child(p, 0)] = new_sibling(N[Child(p, 1)], TRUE)]
      /\ Resume(<<f>>) /\ UnchangedByInvert
  BY DEF InvertCreateLeft
<1>2. /\ stack # << >> /\ call = "inverting" /\ TypeOK /\ on \in TreeId
      /\ GoodTree(N, root[on]) /\ p \in Path /\ N[p] # NULL /\ ~N[p].hot
  BY <1>1, InvertTop
<1>3. node' = [node EXCEPT ![on] = M]
  BY <1>1, <1>2 DEF TypeOK, WithSibling
<1>. HIDE DEF N, p, M
<1>4. /\ Len(p) < W /\ N[Child(p, 1)] # NULL /\ Child(p, 0) \in Path /\ Child(p, 1) \in Path
      /\ N[Child(p, 0)] = NULL /\ ~N[Child(p, 1)].hot /\ Child(p, 0) # Child(p, 1)
  <2>1. 0 \in Bit /\ 1 \in Bit
    BY DEF Bit
  <2>2. Len(p) < W /\ N[Child(p, 1)] # NULL /\ ~N[Child(p, 1)].hot
    BY <1>1, <1>2, <2>1, ColdKid DEF NoKidHot
  <2>. QED BY <1>1, <1>2, <2>1, <2>2, ChildPath, ChildInjective DEF Kid
<1>5. /\ GoodTree(M, root[on]) /\ M[Child(p, 0)] # NULL
      /\ \A q \in Path : q # Child(p, 0) => M[q] = N[q]
      /\ \A q \in Path : Len(q) <= Len(p) => M[q] = N[q]
  <2>. DEFINE b == 1
              e == 0
              c == Child(p, b)
              d == Child(p, e)
  <2>1. b \in Bit /\ e \in Bit /\ e = 1 - b
    BY DEF Bit
  <2>2. N[c] # NULL /\ N[d] = NULL /\ M = WithSibling(N, c, d)
    BY <1>4 DEF M
  <2>. HIDE DEF b, e
  <2>3. /\ GoodTree(M, root[on]) /\ M[d] # NULL
        /\ \A q \in Path : q # d => M[q] = N[q]
        /\ \A q \in Path : Len(q) <= Len(p) => M[q] = N[q]
    BY <1>2, <1>4, <2>1, <2>2, AddSiblingGood
  <2>. QED BY <2>3 DEF b, e
<1>7. /\ node'[on] = M /\ on' = on /\ call' = call
      /\ \A g : BelowTop(stack, g) => FrameOK(node'[on], call, g)
      /\ Calls' /\ stack' \in Seq(Frames) => IInv'
  BY <1>1, <1>2, <1>3, <1>5, InvertChange DEF N, p
<1>8. f \in Frames /\ f.node = p /\ FrameOK(M, "inverting", f)
  <2>1. M[p] # NULL /\ ~M[p].hot
    BY <1>2, <1>5, PathIsSeq, WAssumption
  <2>2. Kid(M, p, 0) # NULL /\ ~KidHot(M, p, 1)
    BY <1>4, <1>5 DEF Kid, KidHot
  <2>. QED BY <1>2, <2>1, <2>2, InvertFrame
<1>9. Len(f.node) >= Len(p)
  BY <1>2, <1>8, PathIsSeq, WAssumption
<1>. HIDE DEF f
<1>10. Calls' /\ stack' \in Seq(Frames)
  BY <1>1, <1>2, <1>7, <1>8, <1>9, CallsAfterContinue DEF p
<1>. QED BY <1>7, <1>10

LEMMA InvertCreateRightInv ==
  ASSUME IInv, InvertCreateRight
  PROVE  IInv'
<1>. DEFINE N == node[on]
            p == Top.node
            M == WithSibling(N, Child(p, 0), Child(p, 1))
<1>1. /\ Running("inverting", "right") /\ Kid(N, p, 1) = NULL
      /\ node' = [node EXCEPT ![on][Child(p, 1)] = new_sibling(N[Child(p, 0)], TRUE)]
      /\ Resume(<< >>) /\ UnchangedByInvert
  BY DEF InvertCreateRight
<1>2. /\ stack # << >> /\ call = "inverting" /\ TypeOK /\ on \in TreeId
      /\ GoodTree(N, root[on]) /\ p \in Path /\ N[p] # NULL /\ ~N[p].hot
      /\ Kid(N, p, 0) # NULL
  BY <1>1, InvertTop
<1>3. node' = [node EXCEPT ![on] = M]
  BY <1>1, <1>2 DEF TypeOK, WithSibling
<1>. HIDE DEF N, p, M
<1>4. Len(p) < W /\ N[Child(p, 0)] # NULL /\ N[Child(p, 1)] = NULL
  <2>1. Len(p) < W /\ N[Child(p, 0)] # NULL
    BY <1>2 DEF Kid
  <2>. QED BY <1>1, <2>1 DEF Kid
<1>5. GoodTree(M, root[on]) /\ \A q \in Path : Len(q) <= Len(p) => M[q] = N[q]
  <2>1. 0 \in Bit /\ 1 \in Bit /\ 1 = 1 - 0
    BY DEF Bit
  <2>. QED BY <1>2, <1>4, <2>1, AddSiblingGood DEF M
<1>6. /\ on' = on /\ call' = call
      /\ \A g : BelowTop(stack, g) => FrameOK(node'[on], call, g)
      /\ Calls' /\ stack' \in Seq(Frames) => IInv'
  BY <1>1, <1>2, <1>3, <1>5, InvertChange DEF N, p
<1>7. Calls' /\ stack' \in Seq(Frames)
  BY <1>1, <1>2, <1>6, CallsAfterReturn
<1>. QED BY <1>6, <1>7

\* A step of an inversion that only calls for a child.
LEMMA InvertSame ==
  ASSUME IInv, stack # << >>, call = "inverting", UnchangedByInvert, node' = node
  PROVE  /\ on' = on /\ call' = call
         /\ \A g : BelowTop(stack, g) => FrameOK(node'[on], call, g)
         /\ Calls' /\ stack' \in Seq(Frames) => IInv'
<1>1. TypeOK /\ GoodTree(node[on], root[on])
  BY TopFacts
<1>2. node' = [node EXCEPT ![on] = node[on]]
  BY <1>1 DEF TypeOK
<1>. QED BY <1>1, <1>2, InvertChange

LEMMA InvertLeftInv ==
  ASSUME IInv, InvertLeft
  PROVE  IInv'
<1>. DEFINE N == node[on]
            p == Top.node
            f == Frame("enter", Child(p, 0))
            h == Frame("right", p)
<1>1. /\ Running("inverting", "enter") /\ NoKidHot(N, p) /\ Kid(N, p, 0) # NULL
      /\ Resume(<<f, h>>) /\ node' = node /\ UnchangedByInvert
  BY DEF InvertLeft
<1>2. /\ stack # << >> /\ call = "inverting"
      /\ GoodTree(N, root[on]) /\ p \in Path /\ N[p] # NULL /\ ~N[p].hot
  BY <1>1, InvertTop
<1>3. /\ on' = on /\ call' = call
      /\ \A g : BelowTop(stack, g) => FrameOK(node'[on], call, g)
      /\ Calls' /\ stack' \in Seq(Frames) => IInv'
  BY <1>1, <1>2, InvertSame
<1>4. 0 \in Bit /\ 1 \in Bit
  BY DEF Bit
<1>5. /\ Child(p, 0) \in Path /\ N[Child(p, 0)] # NULL /\ ~N[Child(p, 0)].hot
      /\ Len(Child(p, 0)) = Len(p) + 1 /\ ~KidHot(N, p, 1)
  <2>. HIDE DEF N, p
  <2>. QED BY <1>1, <1>2, <1>4, ColdKid DEF NoKidHot
<1>6. /\ f \in Frames /\ f.node = Child(p, 0) /\ FrameOK(N, "inverting", f)
      /\ h \in Frames /\ h.node = p /\ FrameOK(N, "inverting", h)
  BY <1>1, <1>2, <1>5, InvertFrame
<1>7. Len(f.node) = Len(h.node) + 1
  BY <1>5, <1>6
<1>. HIDE DEF f, h
<1>8. Calls' /\ stack' \in Seq(Frames)
  BY <1>1, <1>2, <1>3, <1>6, <1>7, CallsAfterCall
<1>. QED BY <1>3, <1>8

LEMMA InvertRightInv ==
  ASSUME IInv, InvertRight
  PROVE  IInv'
<1>. DEFINE N == node[on]
            p == Top.node
            f == Frame("enter", Child(p, 1))
<1>1. /\ Running("inverting", "right") /\ Kid(N, p, 1) # NULL
      /\ Resume(<<f>>) /\ node' = node /\ UnchangedByInvert
  BY DEF InvertRight
<1>2. /\ stack # << >> /\ call = "inverting"
      /\ GoodTree(N, root[on]) /\ p \in Path /\ ~KidHot(N, p, 1)
  BY <1>1, InvertTop
<1>3. /\ on' = on /\ call' = call
      /\ \A g : BelowTop(stack, g) => FrameOK(node'[on], call, g)
      /\ Calls' /\ stack' \in Seq(Frames) => IInv'
  BY <1>1, <1>2, InvertSame
<1>4. 1 \in Bit
  BY DEF Bit
<1>5. /\ Child(p, 1) \in Path /\ N[Child(p, 1)] # NULL /\ ~N[Child(p, 1)].hot
      /\ Len(Child(p, 1)) >= Len(p)
  <2>. HIDE DEF N, p
  <2>. QED BY <1>1, <1>2, <1>4, ColdKid
<1>6. f \in Frames /\ f.node = Child(p, 1) /\ FrameOK(N, "inverting", f)
  BY <1>5, InvertFrame
<1>7. Len(f.node) >= Len(p)
  BY <1>5, <1>6
<1>. HIDE DEF f
<1>8. Calls' /\ stack' \in Seq(Frames)
  BY <1>1, <1>2, <1>3, <1>6, <1>7, CallsAfterContinue
<1>. QED BY <1>3, <1>8

\* The start of an inversion: at the root, before any recursive call.
LEMMA InvertStarts ==
  ASSUME IInv, call = "invert"
  PROVE  /\ TypeOK /\ Trees /\ Control /\ AutoCollapsed /\ stack = << >>
         /\ phase \in {"invert", "purge"} /\ on \in TreeId
         /\ GoodTree(node[on], root[on]) /\ node[on][root[on]] # NULL /\ root[on] \in Path
<1>1. TypeOK /\ Trees /\ Control /\ AutoCollapsed
  BY DEF IInv
<1>2. stack = << >> /\ phase \in {"invert", "purge"}
  BY <1>1 DEF Control
<1>. QED BY <1>1, <1>2, RootThere DEF GoodTree

\* The start of the recursion of an inversion.
LEMMA InvertStartsInv ==
  ASSUME IInv, call = "invert", call' = "inverting",
         root' = root, ac' = ac, phase' = phase, on' = on, arg' = arg, cur' = cur,
         out' = out, before' = before, why' = why,
         Trees', node' \in [TreeId -> [Path -> Node \union {NULL}]],
         Calls', stack' \in Seq(Frames)
  PROVE  IInv'
<1>1. TypeOK /\ Control /\ AutoCollapsed /\ phase \in {"invert", "purge"}
  BY InvertStarts
<1>2. TypeOK'
  BY <1>1 DEF TypeOK, Frames
<1>3. Control' /\ Walk' /\ AutoCollapsed'
  BY <1>1 DEF Control, Walk, AutoCollapsed
<1>. QED BY <1>2, <1>3 DEF IInv

LEMMA InvertHotRootInv ==
  ASSUME IInv, InvertHotRoot
  PROVE  IInv'
<1>. DEFINE N == node[on]
            r == root[on]
            M == SetHot(DestroyKids(N, r), r, FALSE)
<1>1. /\ call = "invert" /\ call' = "inverting" /\ stack' = << >>
      /\ node' = [node EXCEPT ![on] = M]
      /\ root' = root /\ ac' = ac /\ phase' = phase /\ on' = on /\ arg' = arg /\ cur' = cur
      /\ out' = out /\ before' = before /\ why' = why
  BY DEF InvertHotRoot
<1>2. TypeOK /\ Trees /\ GoodTree(N, r) /\ N[r] # NULL /\ r \in Path
  BY <1>1, InvertStarts
<1>3. GoodTree(M, r) /\ M[r] # NULL
  BY <1>2, JoinedGood
<1>. HIDE DEF M
<1>4. Trees' /\ node' \in [TreeId -> [Path -> Node \union {NULL}]]
  BY <1>1, <1>2, <1>3, TreeChanged
<1>5. Calls' /\ stack' \in Seq(Frames)
  BY <1>1, NoCalls, EmptyStack
<1>. QED BY <1>1, <1>4, <1>5, InvertStartsInv

LEMMA InvertEmptyInv ==
  ASSUME IInv, InvertEmpty
  PROVE  IInv'
<1>1. /\ call = "invert" /\ call' = "inverting" /\ stack' = << >> /\ node' = node
      /\ root' = root /\ ac' = ac /\ phase' = phase /\ on' = on /\ arg' = arg /\ cur' = cur
      /\ out' = out /\ before' = before /\ why' = why
  BY DEF InvertEmpty
<1>2. Trees' /\ node' \in [TreeId -> [Path -> Node \union {NULL}]]
  BY <1>1, InvertStarts, TreesSame
<1>3. Calls' /\ stack' \in Seq(Frames)
  BY <1>1, NoCalls, EmptyStack
<1>. QED BY <1>1, <1>2, <1>3, InvertStartsInv

LEMMA InvertRootInv ==
  ASSUME IInv, InvertRoot
  PROVE  IInv'
<1>1. /\ call = "invert" /\ call' = "inverting" /\ stack' = <<Frame("enter", root[on])>>
      /\ ~node[on][root[on]].hot /\ node' = node
      /\ root' = root /\ ac' = ac /\ phase' = phase /\ on' = on /\ arg' = arg /\ cur' = cur
      /\ out' = out /\ before' = before /\ why' = why
  BY DEF InvertRoot, Recurse
<1>2. Trees' /\ node' \in [TreeId -> [Path -> Node \union {NULL}]]
  BY <1>1, InvertStarts, TreesSame
<1>3. Calls' /\ stack' \in Seq(Frames)
  BY <1>1, InvertStarts, FirstCall DEF Frames
<1>. QED BY <1>1, <1>2, <1>3, InvertStartsInv

-----------------------------------------------------------------------------
(***************************************************************************)
(* Purge.                                                                  *)
(***************************************************************************)
\* A purge that has been called, before it changes anything.
LEMMA PurgeFacts ==
  ASSUME IInv, call = "purge"
  PROVE  /\ TypeOK /\ Trees /\ Control /\ on = "main" /\ stack = << >> /\ phase = "purge"
         /\ GoodTree(node["main"], root["main"]) /\ root["main"] = << >>
         /\ node["main"][root["main"]] # NULL
         /\ arg \in Addr /\ arg.len \in 0..W /\ "main" \in TreeId
<1>1. TypeOK /\ Trees /\ Control /\ on = "main" /\ stack = << >> /\ phase = "purge"
  BY DEF IInv, Control
<1>2. arg \in Addr /\ arg.len \in 0..W
  BY <1>1 DEF TypeOK, Addr
<1>. QED BY <1>1, <1>2, RootThere DEF Trees, TreeId

\* The end of a purge that needed no second tree.
LEMMA PurgeReturnsInv ==
  ASSUME IInv, call = "purge", PurgeReturns,
         Trees', node' \in [TreeId -> [Path -> Node \union {NULL}]]
  PROVE  IInv'
<1>1. TypeOK /\ Trees /\ Control /\ on = "main" /\ stack = << >> /\ phase = "purge"
  BY PurgeFacts
<1>2. /\ call' = "none" /\ on' = "main" /\ arg' = addr_init_null /\ cur' = << >> /\ stack' = << >>
      /\ root' = root /\ ac' = ac /\ phase' = phase /\ out' = out /\ before' = before /\ why' = why
  BY DEF PurgeReturns, OpDone
<1>3. TypeOK'
  <2>1. stack' \in Seq([at : {"enter", "right", "merge"}, node : Path])
    BY <1>2
  <2>. QED BY <1>1, <1>2, <2>1, NullTypes DEF TypeOK, TreeId
<1>4. Control' /\ Walk' /\ AutoCollapsed'
  BY <1>1, <1>2 DEF Control, Walk, AutoCollapsed
<1>5. Calls'
  BY <1>2, NoCalls
<1>. QED BY <1>3, <1>4, <1>5 DEF IInv

LEMMA PurgeMissInv ==
  ASSUME IInv, PurgeMiss
  PROVE  IInv'
<1>1. call = "purge" /\ PurgeReturns /\ node' = node
  BY DEF PurgeMiss
<1>2. TypeOK /\ Trees /\ root' = root /\ on' = on
  BY <1>1, PurgeFacts DEF PurgeReturns, OpDone
<1>3. Trees' /\ node' \in [TreeId -> [Path -> Node \union {NULL}]]
  BY <1>1, <1>2, TreesSame
<1>. QED BY <1>1, <1>3, PurgeReturnsInv

LEMMA PurgeNodeInv ==
  ASSUME IInv, PurgeNode
  PROVE  IInv'
<1>. DEFINE N == node["main"]
            p == Position("main", arg, arg.len)
            M == IF p = root["main"] THEN DestroyKids(SetHot(N, p, FALSE), p) ELSE DestroyNode(N, p)
<1>1. /\ call = "purge" /\ PurgeReturns /\ FindHit("main", arg)
      /\ node' = [node EXCEPT !["main"] = M]
  BY DEF PurgeNode
<1>2. /\ TypeOK /\ Trees /\ on = "main" /\ GoodTree(N, root["main"]) /\ root["main"] = << >>
      /\ N[root["main"]] # NULL /\ arg \in Addr /\ arg.len \in 0..W /\ "main" \in TreeId
      /\ root' = root /\ on' = on
  BY <1>1, PurgeFacts DEF PurgeReturns, OpDone
<1>3. p \in Path /\ N[p] # NULL
  BY <1>1, <1>2, FindFacts DEF FindHit
<1>. HIDE DEF p, N
<1>4. GoodTree(M, << >>) /\ M[<< >>] # NULL
  <2>1. CASE p = << >>
    <3>1. GoodTree(N, << >>)
      BY <1>2
    <3>2. LET K == DestroyKids(SetHot(N, p, FALSE), p) IN
          GoodTree(K, << >>) /\ K[p] # NULL
      BY <1>3, <3>1, CooledGood
    <3>. QED BY <1>2, <2>1, <3>2
  <2>2. CASE p # << >>
    <3>1. << >> \in Path /\ Len(<< >>) <= Len(p)
      BY <1>3, EmptyPath, PathIsSeq, WAssumption
    <3>2. GoodTree(DestroyNode(N, p), << >>) /\ DestroyNode(N, p)[<< >>] = N[<< >>]
      BY <1>2, <1>3, <2>2, <3>1, DestroyNodeGood
    <3>. QED BY <1>2, <2>2, <3>2
  <2>. QED BY <2>1, <2>2
<1>. HIDE DEF M
<1>5. Trees' /\ node' \in [TreeId -> [Path -> Node \union {NULL}]]
  BY <1>1, <1>2, <1>4, TreeChanged
<1>. QED BY <1>1, <1>5, PurgeReturnsInv

LEMMA PurgeParentInv ==
  ASSUME IInv, PurgeParent
  PROVE  IInv'
<1>. DEFINE N == node["main"]
<1>1. /\ TypeOK /\ Trees /\ Control /\ on = "main" /\ stack = << >> /\ phase = "purge"
      /\ GoodTree(N, root["main"]) /\ root["main"] = << >>
      /\ N[root["main"]] # NULL
  BY PurgeFacts DEF PurgeParent
<1>2. arg \in Addr /\ arg.len \in 0..W /\ "main" \in TreeId
  BY PurgeFacts DEF PurgeParent
<1>3. PICK k \in 0..W :
        LET p == Position("main", arg, k) IN
        /\ FindHotParent("main", arg, k)
        /\ node' = [node EXCEPT !["repl"] =
                     [@ EXCEPT ![p] = [new_null EXCEPT !.addr = N[p].addr]]]
        /\ root' = [root EXCEPT !["repl"] = p]
  BY DEF PurgeParent
<1>. DEFINE p == Position("main", arg, k)
            n == [new_null EXCEPT !.addr = N[p].addr]
            R == [NoNodes EXCEPT ![p] = n]
<1>4. p \in Path /\ N[p] # NULL
  BY <1>1, <1>2, <1>3, FindFacts DEF FindHotParent
<1>5. n \in Node /\ n.addr = Padded(p) /\ n # NULL
  <2>1. N[p].addr \in Addr /\ N[p].addr = Padded(p)
    BY <1>1, <1>4, GoodNode
  <2>2. new_null \in Node
    BY NullTypes DEF new_null, Node
  <2>3. n \in Node /\ n.addr = N[p].addr
    BY <2>1, <2>2 DEF Node
  <2>. QED BY <2>1, <2>3, TreeAssumption
<1>6. /\ node' = [node EXCEPT !["repl"] = R] /\ root' = [root EXCEPT !["repl"] = p]
      /\ on' = "repl" /\ call' = "insert" /\ arg' = arg
      /\ ac' = ac /\ phase' = phase /\ cur' = cur /\ stack' = stack /\ out' = out
      /\ before' = before /\ why' = why
  BY <1>1, <1>3 DEF PurgeParent, Trees
<1>. HIDE DEF p, n
<1>7. GoodTree(R, p) /\ R[p] = n /\ R \in [Path -> Node \union {NULL}]
  <2>1. NoNodes \in [Path -> Node \union {NULL}]
    BY DEF NoNodes
  <2>. QED BY <1>4, <1>5, <2>1, SingleGood
<1>. HIDE DEF R
<1>8. /\ node'["main"] = N /\ node'["repl"] = R /\ root'["main"] = << >> /\ root'["repl"] = p
      /\ node' \in [TreeId -> [Path -> Node \union {NULL}]] /\ root' \in [TreeId -> Path]
  BY <1>1, <1>4, <1>6, <1>7 DEF TypeOK, TreeId
<1>9. Trees'
  <2>1. N[<< >>] # NULL /\ R[p] # NULL /\ GoodTree(N, << >>)
    BY <1>1, <1>5, <1>7
  <2>. QED BY <1>4, <1>6, <1>7, <1>8, <2>1 DEF Trees, TreeId
<1>10. TypeOK'
  BY <1>1, <1>2, <1>6, <1>8 DEF TypeOK, TreeId
<1>11. Control' /\ Walk' /\ AutoCollapsed'
  BY <1>1, <1>6 DEF Control, Walk, AutoCollapsed
<1>12. Calls'
  BY <1>1, <1>6, NoCalls
<1>. QED BY <1>9, <1>10, <1>11, <1>12 DEF IInv

LEMMA PurgeGraftInv ==
  ASSUME IInv, PurgeGraft
  PROVE  IInv'
<1>. DEFINE p == root["repl"]
            M == Graft(node["main"], node["repl"], p)
<1>1. /\ call = "inverting" /\ stack = << >> /\ on = "repl"
      /\ node' = [t \in TreeId |-> IF t = "main" THEN M ELSE NoNodes]
      /\ root' = [root EXCEPT !["repl"] = << >>]
      /\ call' = "none" /\ on' = "main" /\ arg' = addr_init_null /\ cur' = << >> /\ stack' = << >>
      /\ ac' = ac /\ phase' = phase /\ out' = out /\ before' = before /\ why' = why
  BY DEF PurgeGraft, OpDone
<1>2. /\ TypeOK /\ Trees /\ Control /\ AutoCollapsed /\ phase = "purge"
  BY <1>1 DEF IInv, Control
<1>3. /\ GoodTree(node["main"], << >>) /\ GoodTree(node["repl"], p) /\ p \in Path
      /\ node["main"][<< >>] # NULL /\ node["main"][p] # NULL
  BY <1>1, <1>2 DEF Trees, TreeId, GoodTree
<1>. HIDE DEF p
<1>4. GoodTree(M, << >>) /\ M[<< >>] # NULL
  <2>1. << >> \in Path /\ Len(<< >>) <= Len(p)
    BY <1>3, EmptyPath, PathIsSeq, WAssumption
  <2>. QED BY <1>3, <2>1, GraftGood
<1>. HIDE DEF M
<1>5. M \in [Path -> Node \union {NULL}] /\ NoNodes \in [Path -> Node \union {NULL}]
  BY <1>4 DEF GoodTree, NoNodes
<1>6. /\ node'["main"] = M /\ node'["repl"] = NoNodes
      /\ root'["main"] = << >> /\ root'["repl"] = << >>
      /\ node' \in [TreeId -> [Path -> Node \union {NULL}]] /\ root' \in [TreeId -> Path]
  BY <1>1, <1>2, <1>5, NullTypes DEF TreeId, TypeOK, Trees
<1>7. Trees'
  <2>1. GoodTree(NoNodes, << >>)
    BY NullTypes, EmptyGood
  <2>. QED BY <1>1, <1>4, <1>6, <2>1 DEF Trees, TreeId
<1>8. TypeOK'
  <2>1. stack' \in Seq([at : {"enter", "right", "merge"}, node : Path])
    BY <1>1
  <2>. QED BY <1>1, <1>2, <1>6, <2>1, NullTypes DEF TypeOK, TreeId
<1>9. Control' /\ Walk' /\ AutoCollapsed'
  BY <1>1, <1>2 DEF Control, Walk, AutoCollapsed
<1>10. Calls'
  BY <1>1, NoCalls
<1>. QED BY <1>7, <1>8, <1>9, <1>10 DEF IInv

LEMMA InvertInv ==
  ASSUME IInv, InvertSteps
  PROVE  IInv'
<1>1. CASE InvertFails
  <2>1. PICK r \in InvertErrors(Top.node, Top.at) : Abort(r)
    BY <1>1 DEF InvertFails
  <2>2. r \in {"malloc", "invalid"}
    BY DEF InvertErrors
  <2>. QED BY <2>1, <2>2, AbortInv
<1>2. CASE InvertReturns
  <2>1. phase \in {"invert", "purge"}
    BY <1>2 DEF InvertReturns, IInv, Control
  <2>. QED BY <1>2, <2>1, RecursionEnds DEF InvertReturns
<1>. QED BY <1>1, <1>2, InvertHotRootInv, InvertEmptyInv, InvertRootInv, InvertMoveInv,
            InvertOtherInv, InvertCreateLeftInv, InvertLeftInv, InvertCreateRightInv,
            InvertRightInv DEF InvertSteps

LEMMA PurgeInv ==
  ASSUME IInv, PurgeSteps
  PROVE  IInv'
<1>1. CASE PurgeParentNoMemory
  BY <1>1, AbortInv DEF PurgeParentNoMemory
<1>. QED BY <1>1, PurgeMissInv, PurgeNodeInv, PurgeParentInv, PurgeGraftInv DEF PurgeSteps

-----------------------------------------------------------------------------
(***************************************************************************)
(* The theorems.                                                           *)
(***************************************************************************)
LEMMA StartInv ==
  ASSUME IInv, Start
  PROVE  IInv'
<1>1. CASE StartCollectNoMemory
  BY <1>1, AbortInv DEF StartCollectNoMemory
<1>. QED BY <1>1, SetAutoCollapseInv, StartInsertInv, StartCollapseInv, StartInvertInv,
            SkipInvertInv, StartPurgeInv, StartCollectInv DEF Start

LEMMA InsertInv ==
  ASSUME IInv, InsertSteps
  PROVE  IInv'
<1>1. CASE WalkDownNoMemory
  BY <1>1, AbortInv DEF WalkDownNoMemory
<1>. QED BY <1>1, InsertHotParentInv, InsertHitInv, InsertMissInv, WalkDownInv, WalkEndInv
         DEF InsertSteps

\* Every step of main_run() and of the tree operations preserves IInv.
THEOREM Invariance == Spec => []IInv
<1>1. Init => IInv
  BY InitInv
<1>2. IInv /\ [Next]_vars => IInv'
  <2>. SUFFICES ASSUME IInv, [Next]_vars PROVE IInv'
    OBVIOUS
  <2>1. CASE Start
    BY <2>1, StartInv
  <2>2. CASE OpStep
    BY <2>2, InsertInv, CollapseInv, InvertInv, PurgeInv, CollectInv DEF OpStep
  <2>3. CASE Exited
    BY <2>3, StutterInv DEF Exited
  <2>4. CASE UNCHANGED vars
    BY <2>4, StutterInv
  <2>. QED BY <2>1, <2>2, <2>3, <2>4 DEF Next
<1>. QED BY <1>1, <1>2, PTL DEF Spec

\* Every variable has its type: no operation reads or writes a node that is
\* not there, or an address that is none.
THEOREM TypeCorrect == Spec => []TypeOK
<1>1. IInv => TypeOK
  BY DEF IInv
<1>. QED BY <1>1, Invariance, PTL

\* In every state of every operation the tree is connected, its hot nodes
\* are leaves and each node's address is its position.
THEOREM ShapeHolds == Spec => []Shape
<1>1. IInv => Shape
  <2>. SUFFICES ASSUME IInv PROVE Shape
    OBVIOUS
  <2>1. \A t \in TreeId : GoodTree(node[t], root[t])
    BY DEF IInv, Trees
  <2>2. Connected
    <3>. SUFFICES ASSUME NEW t \in TreeId, NEW p \in Path, NEW b \in Bit,
                         Kid(node[t], p, b) # NULL, Child(p, b) # root[t]
                  PROVE  node[t][p] # NULL
      BY DEF Connected
    <3>. QED BY <2>1 DEF Kid, GoodTree
  <2>3. AddrIsPosition
    BY <2>1 DEF AddrIsPosition, GoodTree
  <2>4. HotIsLeaf
    BY <2>1, HotHasNoKids DEF HotIsLeaf
  <2>. QED BY <2>2, <2>3, <2>4 DEF Shape
<1>. QED BY <1>1, Invariance, PTL

\* While the input is read no node is below the auto-collapse length and
\* those at it are hot: insert may mark the end of its walk unseen.
THEOREM AutoCollapseHolds == Spec => []AutoCollapsed
<1>1. IInv => AutoCollapsed
  BY DEF IInv
<1>. QED BY <1>1, Invariance, PTL

\* The recursion is never deeper than the longest path.
THEOREM StackIsBounded == Spec => []StackBounded
<1>1. IInv => StackBounded
  <2>. SUFFICES ASSUME IInv, stack # << >> PROVE Len(stack) <= W + 1
    BY WAssumption DEF StackBounded
  <2>1. /\ stack \in Seq(Frames) /\ stack[1] \in Frames /\ stack[1].node \in Path
        /\ Len(stack) \in Nat /\ 1 \in 1..Len(stack)
    BY TopFacts, StackTop
  <2>2. Len(stack[1].node) >= Len(stack) - 1
    BY <2>1 DEF IInv, Calls, GoodStack
  <2>3. Len(stack[1].node) \in 0..W
    BY <2>1, PathIsSeq
  <2>. QED BY <2>1, <2>2, <2>3, WAssumption
<1>. QED BY <1>1, Invariance, PTL

\* A suspended call finds its node in the tree, and as it needs it, when it
\* is resumed: nothing above it on the stack frees it.
THEOREM CallsHold == Spec => []Calls
<1>1. IInv => Calls
  BY DEF IInv
<1>. QED BY <1>1, Invariance, PTL

=============================================================================
