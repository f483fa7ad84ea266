--------------------------- MODULE IpTreeSetProofs ---------------------------
(***************************************************************************)
(* The proofs about what the trees of IpTree stand for: every operation    *)
(* keeps SInv.                                                             *)
(***************************************************************************)
EXTENDS IpTreeProofs

(***************************************************************************)
(* What most steps have in common.                                         *)
(***************************************************************************)
LEMMA TreeFacts ==
  ASSUME IInv
  PROVE  /\ TypeOK /\ Trees /\ Control /\ on \in TreeId /\ arg \in Addr /\ arg.len \in 0..W
         /\ GoodTree(node["main"], << >>) /\ node["main"][<< >>] # NULL
         /\ root["main"] = << >> /\ root["repl"] \in Path
         /\ GoodTree(node["repl"], root["repl"])
         /\ GoodTree(node[on], root[on]) /\ node[on][root[on]] # NULL /\ root[on] \in Path
         /\ stack \in Seq(Frames) /\ "main" \in TreeId /\ "repl" \in TreeId
         /\ DOMAIN node = TreeId /\ cur \in Path
<1>1. TypeOK /\ Trees /\ Control
  BY DEF IInv
<1>. QED BY <1>1, RootThere DEF TypeOK, Trees, TreeId, Frames, Addr, GoodTree

LEMMA SetParts ==
  ASSUME SInv
  PROVE  /\ Nested(stack) /\ OnTheWay /\ ReplBuilt /\ Canonical
         /\ Collapsing /\ Inverting /\ Collected /\ OutputSorted
BY DEF SInv

\* Before the list is collected there is none.
LEMMA NoOutput ==
  ASSUME SInv, phase' \notin {"print", "done"}, call' # "collect",
         out' = << >> \/ (out' = out /\ phase \notin {"print", "done"})
  PROVE  Collected' /\ OutputSorted'
<1>1. out' = << >>
  BY DEF SInv, Collected
<1>2. OutputSorted'
  BY <1>1 DEF OutputSorted
<1>. QED BY <1>1, <1>2 DEF Collected

\* While nothing is collapsed or inverted, nothing of it is to be shown.
LEMMA NoRecursion ==
  ASSUME call' \notin {"collapse", "invert", "inverting"}, stack' = << >>
  PROVE  Collapsing' /\ Inverting' /\ Nested(stack)'
BY FramesOfNone DEF Collapsing, Inverting

LEMMA AbortSet ==
  ASSUME IInv, SInv, Abort("malloc")
  PROVE  SInv'
<1>1. /\ call' = "none" /\ on' = "main" /\ stack' = << >> /\ phase' = "failed" /\ why' = "malloc"
      /\ out' = << >>
  BY DEF Abort, OpDone
<1>2. Collected' /\ OutputSorted' /\ Collapsing' /\ Inverting' /\ Nested(stack)'
  BY <1>1, NoOutput, NoRecursion
<1>3. OnTheWay' /\ ReplBuilt' /\ Canonical'
  BY <1>1 DEF OnTheWay, ReplBuilt, Canonical
<1>. QED BY <1>2, <1>3 DEF SInv

LEMMA InitSet == Init => SInv
<1>. SUFFICES ASSUME Init PROVE SInv
  OBVIOUS
<1>1. /\ phase = "new" /\ call = "none" /\ on = "main" /\ stack = << >> /\ out = << >> /\ why = "none"
  BY DEF Init
<1>2. \A p \in Path : p # << >> => node["main"][p] = NULL
  BY EmptyPath DEF Init, NoNodes, TreeId
<1>3. Canonical
  BY <1>1, <1>2 DEF Canonical, ColdLeafAt
<1>4. OnTheWay /\ ReplBuilt /\ Collapsing /\ Inverting /\ Collected /\ OutputSorted
  BY <1>1 DEF OnTheWay, ReplBuilt, Collapsing, Inverting, Collected, OutputSorted
<1>. QED BY <1>1, <1>3, <1>4, FramesOfNone DEF SInv

-----------------------------------------------------------------------------
(***************************************************************************)
(* main_run() calls an operation.                                          *)
(***************************************************************************)
\* A step that leaves the tree alone and does not start a recursion.
LEMMA StartSet ==
  ASSUME IInv, SInv, call = "none", phase \notin {"failed", "print", "done", "collapse"},
         node' = node, on' = on, stack' = stack, out' = out, why' = why,
         call' \in {"none", "insert", "purge"},
         \/ phase' = phase
         \/ phase = "new" /\ phase' = "input"
         \/ phase = "collapsed" /\ phase' = "purge"
  PROVE  SInv'
<1>1. on = "main" /\ stack = << >>
  BY TreeFacts DEF Control, TreeId
<1>2. Collected' /\ OutputSorted' /\ Collapsing' /\ Inverting' /\ Nested(stack)'
  BY <1>1, NoOutput, NoRecursion
<1>3. OnTheWay' /\ ReplBuilt'
  BY <1>1 DEF OnTheWay, ReplBuilt
<1>4. Cursor = {} /\ Cursor' = {}
  BY DEF Cursor
<1>5. Canonical'
  BY <1>1, <1>4, SetParts DEF Canonical
<1>. QED BY <1>2, <1>3, <1>5 DEF SInv

LEMMA StartInvertSet ==
  ASSUME IInv, SInv, StartInvert
  PROVE  SInv'
<1>1. /\ call = "none" /\ phase = "collapsed" /\ phase' = "invert" /\ call' = "invert"
      /\ before' = Cover(node["main"]) /\ node' = node /\ on' = on /\ stack' = stack
      /\ out' = out /\ why' = why
  BY DEF StartInvert, Idle
<1>2. on = "main" /\ stack = << >>
  BY <1>1, TreeFacts DEF Control, TreeId
<1>3. Collected' /\ OutputSorted'
  BY <1>1, NoOutput
<1>4. Collapsing' /\ Inverting' /\ Nested(stack)'
  BY <1>1, <1>2, FramesOfNone DEF Collapsing, Inverting
<1>5. OnTheWay' /\ ReplBuilt'
  BY <1>1, <1>2 DEF OnTheWay, ReplBuilt
<1>6. Cursor = {} /\ Cursor' = {}
  BY <1>1 DEF Cursor
<1>7. Canonical'
  BY <1>1, <1>2, <1>6, SetParts DEF Canonical
<1>. QED BY <1>3, <1>4, <1>5, <1>7 DEF SInv

LEMMA FirstFrame ==
  ASSUME NEW p \in Path, stack' = <<Frame("enter", p)>>
  PROVE  /\ Frame("enter", p) \in Frames /\ Frame("enter", p).at = "enter"
         /\ Frame("enter", p).node = p
         /\ Nested(stack)' /\ FramesOf(stack)' = {Frame("enter", p)}
         /\ Len(stack') = 1 /\ stack'[1] = Frame("enter", p)
<1>1. /\ Frame("enter", p) \in Frames /\ Frame("enter", p).at = "enter"
      /\ Frame("enter", p).node = p
  BY DEF Frame, Frames
<1>2. Len(stack') = 1 /\ stack'[1] = Frame("enter", p)
  OBVIOUS
<1>3. 1..1 = {1}
  OBVIOUS
<1>. QED BY <1>1, <1>2, <1>3 DEF Nested, FramesOf

LEMMA StartCollapseSet ==
  ASSUME IInv, SInv, StartCollapse
  PROVE  SInv'
<1>1. /\ call = "none" /\ phase = "input" /\ phase' = "collapse" /\ call' = "collapse"
      /\ node' = node /\ on' = on /\ out' = out /\ why' = why
      /\ stack' = <<Frame("enter", root[on])>>
  BY DEF StartCollapse, Idle, Recurse
<1>2. on = "main" /\ root[on] = << >> /\ << >> \in Path
  BY <1>1, TreeFacts DEF Control, TreeId
<1>3. Collected' /\ OutputSorted'
  BY <1>1, NoOutput
<1>4. Inverting' /\ OnTheWay' /\ ReplBuilt'
  BY <1>1, <1>2 DEF Inverting, OnTheWay, ReplBuilt
<1>5. Cursor = {} /\ Cursor' = {}
  BY <1>1 DEF Cursor
<1>6. Canonical'
  BY <1>1, <1>2, <1>5, SetParts DEF Canonical
<1>. DEFINE f == Frame("enter", << >>)
<1>7. /\ f.at = "enter" /\ f.node = << >> /\ Nested(stack)' /\ FramesOf(stack)' = {f}
      /\ Len(stack') = 1 /\ stack'[1] = f
  BY <1>1, <1>2, FirstFrame
<1>. HIDE DEF f
<1>8. Collapsing'
  <2>1. Chained(stack)'
    BY <1>7 DEF Chained
  <2>2. \A p \in Path : CollapseAhead(f, p)
    BY <1>7, EmptyPath, PathIsSeq DEF CollapseAhead, Covers
  <2>. QED BY <1>7, <2>1, <2>2 DEF Collapsing
<1>. QED BY <1>3, <1>4, <1>6, <1>7, <1>8 DEF SInv

LEMMA StartCollectSet ==
  ASSUME IInv, SInv, StartCollect
  PROVE  SInv'
<1>1. /\ call = "none" /\ phase = "purge" /\ phase' = "print" /\ call' = "collect"
      /\ node' = node /\ on' = on /\ out' = out /\ why' = why
      /\ stack' = <<Frame("enter", root[on])>>
  BY DEF StartCollect, Idle, Recurse
<1>2. on = "main" /\ root[on] = << >> /\ << >> \in Path /\ out = << >>
  BY <1>1, TreeFacts, SetParts DEF Control, TreeId, Collected
<1>3. Inverting' /\ OnTheWay' /\ ReplBuilt' /\ Collapsing'
  BY <1>1, <1>2 DEF Inverting, OnTheWay, ReplBuilt, Collapsing
<1>4. Canonical'
  BY <1>1, <1>2, SetParts DEF Canonical
<1>. DEFINE f == Frame("enter", << >>)
<1>5. f.at = "enter" /\ f.node = << >> /\ Nested(stack)' /\ FramesOf(stack)' = {f}
  BY <1>1, <1>2, FirstFrame
<1>. HIDE DEF f
<1>6. \A p \in Path : ToCollect(f, p)
  BY <1>5, EmptyPath, PathIsSeq DEF ToCollect, Covers
<1>7. Collected' /\ OutputSorted'
  <2>1. \A i \in 1..Len(out') : FALSE
    BY <1>1, <1>2
  <2>2. \A p \in HotNodes(node["main"])' : p \in Path
    BY DEF HotNodes
  <2>. QED BY <1>1, <1>2, <1>5, <1>6, <2>1, <2>2 DEF Collected, OutputSorted
<1>. QED BY <1>3, <1>4, <1>5, <1>7 DEF SInv

LEMMA StartsSet ==
  ASSUME IInv, SInv, Start
  PROVE  SInv'
<1>1. CASE \E l \in CollapseLens : SetAutoCollapse(l)
  BY <1>1, StartSet DEF SetAutoCollapse, Idle, opVars
<1>2. CASE \E x \in Inputs : Insert(x)
  BY <1>2, StartSet DEF Insert, Idle
<1>3. CASE SkipInvert
  BY <1>3, StartSet DEF SkipInvert, Idle, opVars
<1>4. CASE \E x \in PurgeNets : Purge(x)
  BY <1>4, StartSet DEF Purge, Idle
<1>5. CASE StartCollectNoMemory
  BY <1>5, AbortSet DEF StartCollectNoMemory
<1>. QED BY <1>1, <1>2, <1>3, <1>4, <1>5, StartCollapseSet, StartInvertSet, StartCollectSet
         DEF Start

-----------------------------------------------------------------------------
(***************************************************************************)
(* Insert.                                                                 *)
(***************************************************************************)
LEMMA ArgPathIs ==
  ASSUME arg \in Addr
  PROVE  /\ ArgPath \in Path /\ Len(ArgPath) = arg.len /\ arg.len \in 0..W
         /\ \A i \in 1..arg.len : ArgPath[i] = arg.bits[i]
<1>1. arg.len \in 0..W /\ arg.bits \in [1..W -> Bit]
  BY DEF Addr, Address
<1>2. ArgPath \in [1..arg.len -> Bit]
  BY <1>1, WAssumption DEF ArgPath
<1>3. ArgPath \in Path /\ Len(ArgPath) = arg.len
  BY <1>1, <1>2, SeqIsPath
<1>. QED BY <1>1, <1>3 DEF ArgPath

\* Find walks from the root towards the address.
LEMMA PositionOnTheWay ==
  ASSUME NEW t \in TreeId, root[t] \in Path, arg \in Addr, Covers(root[t], ArgPath),
         NEW k \in 0..W, Len(root[t]) <= k, k <= arg.len
  PROVE  /\ Position(t, arg, k) \in Path /\ Len(Position(t, arg, k)) = k
         /\ Covers(Position(t, arg, k), ArgPath)
         /\ k = arg.len => Position(t, arg, k) = ArgPath
<1>. DEFINE p == Position(t, arg, k)
<1>1. p \in Path /\ Len(p) = k
  BY PositionPath
<1>2. /\ ArgPath \in Path /\ Len(ArgPath) = arg.len /\ arg.len \in 0..W
      /\ \A i \in 1..arg.len : ArgPath[i] = arg.bits[i]
  BY ArgPathIs
<1>3. \A i \in 1..k : i \in 1..arg.len
  BY <1>2, WAssumption
<1>4. \A i \in 1..k : i <= Len(root[t]) => i \in 1..Len(root[t])
  BY PathIsSeq, WAssumption
<1>5. \A i \in 1..k : p[i] = ArgPath[i]
  BY <1>2, <1>3, <1>4 DEF Position, Covers
<1>. HIDE DEF p
<1>6. Covers(p, ArgPath)
  BY <1>1, <1>2, <1>5 DEF Covers
<1>7. k = arg.len => p = ArgPath
  <2>. SUFFICES ASSUME k = arg.len PROVE p = ArgPath
    OBVIOUS
  <2>1. ~StrictlyCovers(p, ArgPath)
    BY <1>1, <1>2, WAssumption DEF StrictlyCovers
  <2>. QED BY <1>1, <1>2, <1>6, <2>1, CoversBoth
<1>. QED BY <1>1, <1>6, <1>7 DEF p

LEMMA RootOnTheWay ==
  ASSUME IInv, SInv
  PROVE  /\ Covers(root["main"], ArgPath)
         /\ Covers(root[on], ArgPath) /\ root[on] \in Path
         /\ on = "repl" => Len(root[on]) < arg.len
<1>1. /\ on \in TreeId /\ root["main"] = << >> /\ root[on] \in Path /\ arg \in Addr
  BY TreeFacts
<1>2. ArgPath \in Path /\ Len(ArgPath) = arg.len /\ arg.len \in 0..W
  BY <1>1, ArgPathIs
<1>3. Covers(<< >>, ArgPath)
  BY <1>2, EmptyPath, WAssumption DEF Covers
<1>4. CASE on = "main"
  BY <1>1, <1>3, <1>4
<1>5. CASE on = "repl"
  <2>1. StrictlyCovers(root["repl"], ArgPath)
    BY <1>5, SetParts DEF ReplBuilt
  <2>. QED BY <1>1, <1>2, <1>3, <1>5, <2>1, CoversSplit, CoversLen
<1>. QED BY <1>1, <1>4, <1>5 DEF TreeId

\* In purge's tree find stops at the root.
LEMMA FindInRepl ==
  ASSUME IInv, SInv, on = "repl", call = "insert", NEW k \in 0..W, Reaches(on, arg, k)
  PROVE  Position(on, arg, k) = root[on] /\ k = Len(root[on]) /\ k < arg.len /\ ~node[on][root[on]].hot
<1>1. /\ on \in TreeId /\ GoodTree(node[on], root[on]) /\ node[on][root[on]] # NULL /\ arg \in Addr
  BY TreeFacts
<1>2. /\ Position(on, arg, k) \in Path /\ Len(Position(on, arg, k)) = k
      /\ node[on][Position(on, arg, k)] # NULL
  BY <1>1, FindFacts
<1>3. Position(on, arg, k) = root[on] /\ ~node[on][root[on]].hot
  BY <1>2, SetParts DEF ReplBuilt
<1>. QED BY <1>2, <1>3, RootOnTheWay

LEMMA InsertReturnsSet ==
  ASSUME IInv, SInv, call \in {"insert", "walk"}, InsertReturns, ReplBuilt', Canonical'
  PROVE  SInv'
<1>1. /\ stack = << >> /\ on \in TreeId
      /\ on = "main" => phase = "input"
      /\ on = "repl" => phase = "purge"
  BY InsertFacts
<1>2. /\ phase' = phase /\ out' = out /\ on' = on /\ stack' = << >>
      /\ on = "main" => call' = "none"
      /\ on # "main" => call' = "invert"
  BY <1>1 DEF InsertReturns, OpDone, TreeId
<1>3. Collected' /\ OutputSorted'
  BY <1>1, <1>2, NoOutput DEF TreeId
<1>4. OnTheWay' /\ Collapsing' /\ Inverting' /\ Nested(stack)'
  BY <1>2, FramesOfNone DEF OnTheWay, Collapsing, Inverting
<1>. QED BY <1>3, <1>4 DEF SInv

LEMMA InsertHotParentSet ==
  ASSUME IInv, SInv, InsertHotParent
  PROVE  SInv'
<1>1. call = "insert" /\ InsertReturns /\ node' = node
  BY DEF InsertHotParent
<1>2. PICK k \in 0..W : FindHotParent(on, arg, k)
  BY DEF InsertHotParent
<1>3. on = "main" /\ phase = "input"
  <2>1. on # "repl"
    BY <1>1, <1>2, FindInRepl DEF FindHotParent
  <2>. QED BY <1>1, <2>1, InsertFacts DEF TreeId
<1>4. phase' = phase /\ on' = on /\ why' = why /\ call' = "none"
  BY <1>1, <1>3, InsertFacts DEF InsertReturns, OpDone
<1>5. ReplBuilt'
  BY <1>3, <1>4 DEF ReplBuilt
<1>6. Cursor = {} /\ Cursor' = {}
  BY <1>1, <1>4 DEF Cursor
<1>7. Canonical'
  BY <1>1, <1>3, <1>4, <1>6, SetParts DEF Canonical
<1>. QED BY <1>1, <1>5, <1>7, InsertReturnsSet

\* Only the main tree may hold what is inserted.
LEMMA InsertHitSet ==
  ASSUME IInv, SInv, InsertHit
  PROVE  SInv'
<1>. DEFINE N == node["main"]
            p == Position(on, arg, arg.len)
            M == DestroyKids(SetHot(N, p, TRUE), p)
<1>1. /\ call = "insert" /\ InsertReturns /\ FindHit(on, arg)
      /\ node' = IF node[on][p].hot THEN node
                 ELSE [node EXCEPT ![on] = DestroyKids(SetHot(@, p, TRUE), p)]
  BY DEF InsertHit
<1>2. arg \in Addr /\ arg.len \in 0..W /\ on \in TreeId /\ GoodTree(node[on], root[on])
      /\ node[on][root[on]] # NULL /\ DOMAIN node = TreeId
  BY TreeFacts
<1>3. on = "main" /\ phase = "input"
  <2>1. on # "repl"
    BY <1>1, <1>2, FindInRepl, WAssumption DEF FindHit
  <2>. QED BY <1>1, <2>1, InsertFacts DEF TreeId
<1>4. phase' = phase /\ on' = on /\ why' = why /\ call' = "none"
  BY <1>1, <1>3, InsertFacts DEF InsertReturns, OpDone
<1>5. p \in Path /\ N[p] # NULL
  BY <1>1, <1>2, <1>3, FindFacts DEF FindHit
<1>6. Cursor = {} /\ Cursor' = {}
  BY <1>1, <1>4 DEF Cursor
<1>7. \A q \in Path : ~ColdLeafAt(N, {<< >>}, q)
  BY <1>3, <1>6, SetParts DEF Canonical
<1>8. \A q \in Path : ~ColdLeafAt(node'["main"], {<< >>}, q)
  <2>1. CASE N[p].hot
    BY <1>1, <1>3, <1>7, <2>1
  <2>2. CASE ~N[p].hot
    <3>1. node'["main"] = M
      BY <1>1, <1>2, <1>3, <2>2
    <3>2. /\ \A q \in Path : q # p => M[q] = IF StrictlyCovers(p, q) THEN NULL ELSE N[q]
          /\ M[p] # NULL /\ M[p].hot
      <4>1. GoodTree(N, root[on])
        BY <1>2, <1>3
      <4>. HIDE DEF N, p
      <4>2. M = SetHot(DestroyKids(N, p), p, TRUE)
        BY <1>5, <4>1, MarkedIsJoined
      <4>. DEFINE K == SetHot(DestroyKids(N, p), p, TRUE)
      <4>3. /\ \A q \in Path : q # p => K[q] = IF StrictlyCovers(p, q) THEN NULL ELSE N[q]
            /\ K[p] # NULL /\ K[p].hot = TRUE
        BY <1>5, <4>1, JoinedNodes
      <4>. HIDE DEF M, K
      <4>4. M = K
        BY <4>2 DEF K
      <4>. QED BY <4>3, <4>4
    <3>3. \A q \in Path : ~ColdLeafAt(N, {<< >>} \union {p}, q)
      BY <1>7, FewerExcused
    <3>. HIDE DEF M, N, p
    <3>4. \A q \in Path : ~ColdLeafAt(M, {<< >>}, q)
      BY <1>5, <3>2, <3>3, JoinedLeaves
    <3>. QED BY <3>1, <3>4
  <2>. QED BY <2>1, <2>2
<1>9. ReplBuilt'
  BY <1>3, <1>4 DEF ReplBuilt
<1>10. Canonical'
  BY <1>3, <1>4, <1>6, <1>8, SetParts DEF Canonical
<1>. QED BY <1>1, <1>9, <1>10, InsertReturnsSet

LEMMA InsertMissSet ==
  ASSUME IInv, SInv, InsertMiss
  PROVE  SInv'
<1>1. /\ call = "insert" /\ call' = "walk"
      /\ node' = node /\ root' = root /\ ac' = ac /\ phase' = phase /\ on' = on /\ arg' = arg
      /\ stack' = stack /\ out' = out /\ before' = before /\ why' = why
  BY DEF InsertMiss
<1>2. PICK k \in 0..W : FindMiss(on, arg, k) /\ cur' = Position(on, arg, k)
  BY DEF InsertMiss
<1>3. /\ on \in TreeId /\ root[on] \in Path /\ arg \in Addr /\ stack = << >>
      /\ GoodTree(node[on], root[on]) /\ node[on][root[on]] # NULL
      /\ on = "main" => phase = "input"
      /\ on = "repl" => phase = "purge"
  BY <1>1, TreeFacts, InsertFacts
<1>4. Len(root[on]) <= k /\ k <= arg.len
  <2>1. node[on][root[on]].addr.len = Len(root[on])
    BY <1>3, GoodNode
  <2>. QED BY <1>2, <1>3, <2>1, PathIsSeq, WAssumption DEF FindMiss, Reaches
<1>5. Covers(cur', ArgPath)
  BY <1>2, <1>3, <1>4, PositionOnTheWay, RootOnTheWay
<1>6. ArgPath' = ArgPath
  BY <1>1 DEF ArgPath
<1>7. OnTheWay'
  BY <1>5, <1>6 DEF OnTheWay
<1>8. Cursor = {}
  BY <1>1 DEF Cursor
<1>9. ReplBuilt'
  <2>. SUFFICES ASSUME on = "repl" PROVE ReplBuilt'
    BY <1>1 DEF ReplBuilt
  <2>1. /\ node["main"][root["repl"]].hot /\ ~node["repl"][root["repl"]].hot
        /\ StrictlyCovers(root["repl"], ArgPath)
        /\ \A q \in Path : node["repl"][q] # NULL => q = root["repl"]
    BY <1>1, SetParts DEF ReplBuilt
  <2>2. HotNodes(node["repl"]) = {}
    BY <2>1 DEF HotNodes
  <2>. QED BY <1>1, <1>6, <2>1, <2>2 DEF ReplBuilt
<1>10. Canonical'
  <2>1. phase \in {"new", "input", "collapse", "collapsed", "invert"}
          => \A p \in Path : ~ColdLeafAt(node["main"], {<< >>} \union Cursor', p)
    BY <1>8, SetParts, FewerExcused DEF Canonical
  <2>2. on = "repl"
          => \A p \in Path : ~ColdLeafAt(node["repl"], {root["repl"]} \union Cursor', p)
    BY <1>8, SetParts, FewerExcused DEF Canonical
  <2>. QED BY <1>1, <2>1, <2>2, SetParts DEF Canonical
<1>11. Collected' /\ OutputSorted'
  BY <1>1, <1>3, NoOutput DEF TreeId
<1>12. Collapsing' /\ Inverting' /\ Nested(stack)'
  BY <1>1, <1>3, NoRecursion
<1>. QED BY <1>7, <1>9, <1>10, <1>11, <1>12 DEF SInv

\* The walk's cursor, and the child it is about to create.
LEMMA WalkFacts ==
  ASSUME IInv, SInv, call = "walk"
  PROVE  /\ on \in TreeId /\ GoodTree(node[on], root[on]) /\ stack = << >>
         /\ cur \in Path /\ node[on][cur] # NULL /\ ~node[on][cur].hot
         /\ node[on][cur].addr.len = Len(cur) /\ Len(cur) \in Nat
         /\ Covers(root[on], cur) /\ Covers(cur, ArgPath) /\ Len(cur) <= arg.len
         /\ Cursor = {cur}
         /\ on = "main" => phase = "input"
         /\ on = "repl" => phase = "purge" /\ WalkLen = arg.len
         /\ WalkLen \in Nat /\ WalkLen <= arg.len
         /\ Len(cur) < WalkLen =>
              /\ Len(cur) < W /\ arg.bits[Len(cur) + 1] \in Bit
              /\ node[on][Child(cur, arg.bits[Len(cur) + 1])] = NULL
              /\ Covers(Child(cur, arg.bits[Len(cur) + 1]), ArgPath)
<1>1. /\ on \in TreeId /\ GoodTree(node[on], root[on]) /\ stack = << >> /\ arg \in Addr
      /\ arg.len \in 0..W /\ WalkLen <= arg.len /\ cur \in Path /\ ac \in Nat
      /\ on = "main" => phase = "input"
      /\ on = "repl" => phase = "purge"
  BY InsertFacts, TreeFacts DEF TypeOK
<1>2. /\ node[on][cur] # NULL /\ ~node[on][cur].hot
      /\ Len(cur) < arg.len => node[on][Child(cur, arg.bits[Len(cur) + 1])] = NULL
  BY DEF IInv, Walk
<1>3. /\ node[on][cur].addr.len = Len(cur) /\ Len(cur) \in Nat /\ Covers(root[on], cur)
  BY <1>1, <1>2, GoodNode, PathIsSeq, WAssumption
<1>4. Covers(cur, ArgPath) /\ Cursor = {cur}
  BY SetParts DEF OnTheWay, Cursor
<1>5. ArgPath \in Path /\ Len(ArgPath) = arg.len /\ Len(cur) <= arg.len
      /\ \A i \in 1..arg.len : ArgPath[i] = arg.bits[i]
  BY <1>1, <1>4, ArgPathIs, CoversLen
<1>6. WalkLen \in Nat /\ (on = "repl" => WalkLen = arg.len)
  BY <1>1, WAssumption DEF WalkLen, AutoCollapse
<1>7. ASSUME Len(cur) < WalkLen
      PROVE  /\ Len(cur) < W /\ arg.bits[Len(cur) + 1] \in Bit
             /\ node[on][Child(cur, arg.bits[Len(cur) + 1])] = NULL
             /\ Covers(Child(cur, arg.bits[Len(cur) + 1]), ArgPath)
  <2>1. Len(cur) < arg.len /\ Len(cur) < W /\ Len(cur) + 1 \in 1..W /\ Len(cur) + 1 \in 1..arg.len
    BY <1>1, <1>3, <1>6, <1>7, WAssumption
  <2>2. arg.bits[Len(cur) + 1] \in Bit
    BY <1>1, <2>1 DEF Addr, Address
  <2>3. Below(cur, ArgPath, arg.bits[Len(cur) + 1])
    <3>1. StrictlyCovers(cur, ArgPath)
      BY <1>1, <1>4, <1>5, <2>1, CoversSplit
    <3>. QED BY <1>5, <2>1, <3>1 DEF Below
  <2>. QED BY <1>1, <1>2, <1>5, <2>1, <2>2, <2>3, BelowChild
<1>. QED BY <1>1, <1>2, <1>3, <1>4, <1>5, <1>6, <1>7

LEMMA WalkDownSet ==
  ASSUME IInv, SInv, WalkDown
  PROVE  SInv'
<1>. DEFINE N == node[on]
            b == arg.bits[Len(cur) + 1]
            c == Child(cur, b)
            n == new_child(N[cur], b, FALSE)
            M == [N EXCEPT ![c] = n]
<1>1. /\ call = "walk" /\ N[cur].addr.len < WalkLen
      /\ root' = root /\ ac' = ac /\ phase' = phase /\ call' = call /\ on' = on /\ arg' = arg
      /\ stack' = stack /\ out' = out /\ before' = before /\ why' = why
  BY DEF WalkDown
<1>2. /\ on \in TreeId /\ GoodTree(N, root[on]) /\ stack = << >>
      /\ cur \in Path /\ N[cur] # NULL /\ ~N[cur].hot /\ N[cur].addr.len = Len(cur)
      /\ Len(cur) < W /\ b \in Bit /\ N[c] = NULL /\ Covers(c, ArgPath)
      /\ Cursor = {cur}
      /\ on = "main" => phase = "input"
      /\ on = "repl" => phase = "purge"
  BY <1>1, WalkFacts
<1>3. /\ cur' = c /\ node' = [node EXCEPT ![on] = M]
  BY <1>2 DEF WalkDown
<1>4. /\ node'[on] = M /\ \A t \in TreeId : t # on => node'[t] = node[t]
  BY <1>2, <1>3, TreeFacts
<1>5. c \in Path /\ n \in Node /\ ~n.hot
  BY <1>2, ChildPath, NewChild
<1>. HIDE DEF n, b
<1>6. /\ \A q \in Path : q # c => M[q] = N[q]
      /\ M[c] = n /\ M[c] # NULL
      /\ HotNodes(M) = HotNodes(N) \ {c}
  BY <1>2, <1>5, NewNodeNodes
<1>7. c \notin HotNodes(N)
  BY <1>2 DEF HotNodes
<1>. HIDE DEF M, N
<1>8. Cursor' = {c} /\ ArgPath' = ArgPath
  BY <1>1, <1>3 DEF Cursor, ArgPath
<1>9. OnTheWay'
  BY <1>2, <1>3, <1>8 DEF OnTheWay
<1>10. \A S : (\A q \in Path : ~ColdLeafAt(N, S \union {cur}, q))
                => \A q \in Path : ~ColdLeafAt(M, S \union {c}, q)
  BY <1>2, <1>6, LeafAdded
<1>11. CASE on = "main"
  <2>1. ReplBuilt'
    BY <1>1, <1>11 DEF ReplBuilt
  <2>2. \A q \in Path : ~ColdLeafAt(N, {<< >>} \union {cur}, q)
    BY <1>2, <1>11, SetParts DEF Canonical, N
  <2>3. \A q \in Path : ~ColdLeafAt(M, {<< >>} \union {c}, q)
    BY <1>10, <2>2
  <2>4. Canonical'
    BY <1>1, <1>2, <1>4, <1>8, <1>11, <2>3, SetParts DEF Canonical
  <2>. QED BY <2>1, <2>4, <1>9, <1>1, <1>2, <1>11, NoOutput, NoRecursion DEF SInv
<1>12. CASE on = "repl"
  <2>1. /\ node["main"][root["repl"]].hot /\ ~N[root["repl"]].hot
        /\ StrictlyCovers(root["repl"], ArgPath) /\ HotNodes(N) = {}
    BY <1>1, <1>12, SetParts DEF ReplBuilt, N
  <2>2. node'["main"] = node["main"]
    BY <1>4, <1>12 DEF TreeId
  <2>3. c # root["repl"]
    BY <1>2, <1>12, ChildNotRoot, GoodNode
  <2>4. root["repl"] \in Path
    BY TreeFacts
  <2>5. HotNodes(M) = {} /\ ~M[root["repl"]].hot
    BY <1>6, <2>1, <2>3, <2>4
  <2>6. ReplBuilt'
    BY <1>1, <1>4, <1>8, <1>12, <2>1, <2>2, <2>5 DEF ReplBuilt
  <2>7. \A q \in Path : ~ColdLeafAt(N, {root["repl"]} \union {cur}, q)
    BY <1>2, <1>12, SetParts DEF Canonical, N
  <2>8. \A q \in Path : ~ColdLeafAt(M, {root["repl"]} \union {c}, q)
    BY <1>10, <2>7
  <2>9. \A q \in Path : ~TwinsAt(M, q)
    BY <2>5, NoTwins
  <2>10. Canonical'
    BY <1>1, <1>2, <1>4, <1>8, <1>12, <2>2, <2>8, <2>9, SetParts DEF Canonical
  <2>. QED BY <2>6, <2>10, <1>9, <1>1, <1>2, <1>12, NoOutput, NoRecursion DEF SInv
<1>. QED BY <1>2, <1>11, <1>12 DEF TreeId

LEMMA WalkEndSet ==
  ASSUME IInv, SInv, WalkEnd
  PROVE  SInv'
<1>. DEFINE N == node[on]
            M == SetHot(N, cur, TRUE)
<1>1. /\ call = "walk" /\ N[cur].addr.len >= WalkLen /\ InsertReturns
      /\ node' = [node EXCEPT ![on] = M]
  BY DEF WalkEnd
<1>2. /\ on \in TreeId /\ GoodTree(N, root[on]) /\ stack = << >>
      /\ cur \in Path /\ N[cur] # NULL /\ N[cur].addr.len = Len(cur) /\ Len(cur) \in Nat
      /\ Covers(cur, ArgPath) /\ Len(cur) <= arg.len
      /\ Cursor = {cur}
      /\ on = "main" => phase = "input"
      /\ on = "repl" => phase = "purge" /\ WalkLen = arg.len
  BY <1>1, WalkFacts
<1>3. /\ node'[on] = M /\ \A t \in TreeId : t # on => node'[t] = node[t]
  BY <1>1, <1>2, TreeFacts
<1>4. /\ \A q \in Path : q # cur => M[q] = N[q]
      /\ M[cur] # NULL /\ M[cur].hot = TRUE
      /\ HotNodes(M) = HotNodes(N) \union {cur}
  <2>. HIDE DEF N
  <2>. QED BY <1>2, SetHotNodes
<1>. HIDE DEF M, N
<1>5. /\ phase' = phase /\ on' = on /\ root' = root /\ why' = why /\ Cursor' = {}
      /\ on = "repl" => arg' = arg /\ call' = "invert"
      /\ on = "main" => call' = "none"
  BY <1>1 DEF InsertReturns, OpDone, Cursor
<1>6. \A S : (\A q \in Path : ~ColdLeafAt(N, S \union {cur}, q))
               => \A q \in Path : ~ColdLeafAt(M, S \union {}, q)
  <2>. SUFFICES ASSUME NEW S, \A q \in Path : ~ColdLeafAt(N, S \union {cur}, q)
                PROVE  \A q \in Path : ~ColdLeafAt(M, S \union {}, q)
    OBVIOUS
  <2>1. S \union {} = S
    OBVIOUS
  <2>. QED BY <1>2, <1>4, <2>1, MarkedLeaves
<1>7. CASE on = "main"
  <2>1. ReplBuilt'
    BY <1>5, <1>7 DEF ReplBuilt
  <2>2. \A q \in Path : ~ColdLeafAt(N, {<< >>} \union {cur}, q)
    BY <1>2, <1>7, SetParts DEF Canonical, N
  <2>3. \A q \in Path : ~ColdLeafAt(M, {<< >>} \union {}, q)
    BY <1>6, <2>2
  <2>4. Canonical'
    BY <1>2, <1>3, <1>5, <1>7, <2>3, SetParts DEF Canonical
  <2>. QED BY <1>1, <2>1, <2>4, InsertReturnsSet
<1>8. CASE on = "repl"
  <2>1. /\ node["main"][root["repl"]].hot /\ ~N[root["repl"]].hot
        /\ StrictlyCovers(root["repl"], ArgPath) /\ HotNodes(N) = {}
    BY <1>1, <1>8, SetParts DEF ReplBuilt, N
  <2>2. node'["main"] = node["main"]
    BY <1>3, <1>8 DEF TreeId
  <2>3. ArgPath \in Path /\ Len(ArgPath) = arg.len /\ ArgPath' = ArgPath
    BY <1>5, <1>8, TreeFacts, ArgPathIs DEF ArgPath
  <2>4. cur = ArgPath
    <3>1. Len(cur) = arg.len
      <4>1. arg.len \in Nat /\ Len(cur) >= arg.len
        BY <1>1, <1>2, <1>8, TreeFacts, WAssumption DEF N
      <4>. QED BY <1>2, <4>1
    <3>. QED BY <1>2, <2>3, <3>1, CoversBoth, CoversLen
  <2>5. cur # root["repl"] /\ root["repl"] \in Path
    BY <2>1, <2>3, <2>4, CoversSelf, TreeFacts
  <2>6. HotNodes(M) = {ArgPath} /\ ~M[root["repl"]].hot
    BY <1>4, <2>1, <2>4, <2>5
  <2>7. ReplBuilt'
    BY <1>3, <1>5, <1>8, <2>1, <2>2, <2>3, <2>6 DEF ReplBuilt
  <2>8. \A q \in Path : ~ColdLeafAt(N, {root["repl"]} \union {cur}, q)
    BY <1>2, <1>8, SetParts DEF Canonical, N
  <2>9. \A q \in Path : ~ColdLeafAt(M, {root["repl"]} \union {}, q)
    BY <1>6, <2>8
  <2>10. \A q \in Path : ~TwinsAt(M, q)
    BY <2>6, NoTwins
  <2>11. Canonical'
    BY <1>2, <1>3, <1>5, <1>8, <2>2, <2>9, <2>10, SetParts DEF Canonical
  <2>. QED BY <1>1, <2>7, <2>11, InsertReturnsSet
<1>. QED BY <1>2, <1>7, <1>8 DEF TreeId

LEMMA InsertSet ==
  ASSUME IInv, SInv, InsertSteps
  PROVE  SInv'
<1>1. CASE WalkDownNoMemory
  BY <1>1, AbortSet DEF WalkDownNoMemory
<1>. QED BY <1>1, InsertHotParentSet, InsertHitSet, InsertMissSet, WalkDownSet, WalkEndSet
         DEF InsertSteps

-----------------------------------------------------------------------------
(***************************************************************************)
(* Recursive operations: the stack.                                        *)
(***************************************************************************)
\* The call at the top, and those that wait for it.
LEMMA TopSet ==
  ASSUME IInv, SInv, stack # << >>
  PROVE  /\ stack \in Seq(Frames) /\ Tail(stack) \in Seq(Frames) /\ Top = Head(stack)
         /\ Top \in Frames /\ Top.node \in Path
         /\ on \in TreeId /\ GoodTree(node[on], root[on]) /\ root[on] \in Path
         /\ node[on][Top.node] # NULL /\ Covers(root[on], Top.node)
         /\ Nested(stack) /\ Nested(Tail(stack)) /\ Nested(<< >> \o Tail(stack))
         /\ << >> \o Tail(stack) = Tail(stack)
         /\ FramesOf(stack) = {Top} \union FramesOf(Tail(stack))
         /\ \A g \in FramesOf(Tail(stack)) :
              /\ g \in Frames /\ g.node \in Path /\ WaitsFor(g, Top.node)
              /\ g.at \in {"right", "merge"} /\ StrictlyCovers(g.node, Top.node)
<1>1. /\ stack \in Seq(Frames) /\ Top \in Frames /\ Top.node \in Path /\ Top = Head(stack)
      /\ on \in TreeId /\ GoodTree(node[on], root[on]) /\ root[on] \in Path
      /\ node[on][Top.node] # NULL
  BY TopFacts DEF Top
<1>2. Covers(root[on], Top.node)
  BY <1>1 DEF GoodTree
<1>3. Nested(stack)
  BY SetParts
<1>4. /\ Tail(stack) \in Seq(Frames)
      /\ FramesOf(stack) = {Top} \union FramesOf(Tail(stack)) /\ FramesOf(stack) \subseteq Frames
  BY <1>1, FramesOfStack
<1>5. /\ Nested(Tail(stack)) /\ Nested(<< >> \o Tail(stack)) /\ << >> \o Tail(stack) = Tail(stack)
      /\ \A g \in FramesOf(Tail(stack)) : WaitsFor(g, Top.node)
  BY <1>1, <1>3, NestedTop, NestedReturns
<1>6. ASSUME NEW g \in FramesOf(Tail(stack))
      PROVE  /\ g \in Frames /\ g.node \in Path /\ WaitsFor(g, Top.node)
             /\ g.at \in {"right", "merge"} /\ StrictlyCovers(g.node, Top.node)
  BY <1>4, <1>5 DEF WaitsFor, Below, Frames
<1>. QED BY <1>1, <1>2, <1>3, <1>4, <1>5, <1>6

LEMMA ChainedTop ==
  ASSUME NEW s \in Seq(Frames), s # << >>, Chained(s)
  PROVE  /\ Chained(Tail(s))
         /\ IF Tail(s) = << >> THEN Head(s).node = << >>
            ELSE \E b \in Bit : Head(s).node = Child(Head(Tail(s)).node, b)
<1>1. /\ Tail(s) \in Seq(Frames) /\ Len(Tail(s)) = Len(s) - 1 /\ Head(s) = s[1]
      /\ \A i \in 1..Len(Tail(s)) : Tail(s)[i] = s[i + 1]
      /\ Len(s) \in Nat /\ Len(s) >= 1
  OBVIOUS
<1>2. \A i \in 1..Len(s) :
        IF i < Len(s) THEN \E b \in Bit : s[i].node = Child(s[i + 1].node, b)
                      ELSE s[i].node = << >>
  BY DEF Chained
<1>. DEFINE z == Tail(s)
<1>3. ASSUME NEW i \in 1..Len(z)
      PROVE  IF i < Len(z) THEN \E b \in Bit : z[i].node = Child(z[i + 1].node, b)
                           ELSE z[i].node = << >>
  <2>1. i + 1 \in 1..Len(s) /\ z[i] = s[i + 1] /\ (i < Len(z) <=> i + 1 < Len(s))
    BY <1>1
  <2>2. i < Len(z) => z[i + 1] = s[(i + 1) + 1]
    BY <1>1
  <2>. QED BY <1>2, <2>1, <2>2
<1>4. Chained(z)
  BY <1>3 DEF Chained
<1>5. CASE z = << >>
  <2>1. Len(s) = 1
    BY <1>1, <1>5
  <2>. QED BY <1>1, <1>2, <1>4, <1>5, <2>1
<1>6. CASE z # << >>
  <2>1. 1 \in 1..Len(s) /\ 1 < Len(s) /\ Head(z) = s[1 + 1]
    BY <1>1, <1>6
  <2>. QED BY <1>1, <1>2, <1>4, <1>6, <2>1
<1>. QED BY <1>5, <1>6

LEMMA ChainedPush ==
  ASSUME NEW s \in Seq(Frames), NEW f \in Frames, Chained(s),
         IF s = << >> THEN f.node = << >> ELSE \E b \in Bit : f.node = Child(Head(s).node, b)
  PROVE  Chained(<<f>> \o s)
<1>. DEFINE z == <<f>> \o s
<1>1. /\ Len(z) = Len(s) + 1 /\ z[1] = f /\ Len(s) \in Nat
      /\ \A i \in 1..Len(s) : z[i + 1] = s[i]
  BY FramesOfPush
<1>. HIDE DEF z
<1>2. \A i \in 1..Len(s) :
        IF i < Len(s) THEN \E b \in Bit : s[i].node = Child(s[i + 1].node, b)
                      ELSE s[i].node = << >>
  BY DEF Chained
<1>3. ASSUME NEW i \in 1..Len(z)
      PROVE  IF i < Len(z) THEN \E b \in Bit : z[i].node = Child(z[i + 1].node, b)
                           ELSE z[i].node = << >>
  <2>1. CASE i = 1
    <3>1. CASE s = << >>
      BY <1>1, <2>1, <3>1
    <3>2. CASE s # << >>
      <4>1. 1 \in 1..Len(s) /\ 1 < Len(z) /\ Head(s) = s[1]
        BY <1>1, <3>2
      <4>. QED BY <1>1, <2>1, <3>2, <4>1
    <3>. QED BY <3>1, <3>2
  <2>2. CASE i # 1
    <3>1. i - 1 \in 1..Len(s) /\ (i - 1) + 1 = i /\ (i < Len(z) <=> i - 1 < Len(s))
      BY <1>1, <2>2
    <3>2. z[i] = s[i - 1]
      BY <1>1, <3>1
    <3>3. i < Len(z) => z[i + 1] = s[(i - 1) + 1]
      BY <1>1, <3>1
    <3>. QED BY <1>2, <3>1, <3>2, <3>3
  <2>. QED BY <2>1, <2>2
<1>. QED BY <1>3 DEF Chained, z

\* A step down to the child b, which comes back to the node at the top.
LEMMA DescendStack ==
  ASSUME IInv, SInv, stack # << >>, NEW b \in Bit, NEW w,
         (b = 0 /\ w = "right") \/ (b = 1 /\ w = "merge"),
         Descend(b, <<Frame(w, Top.node)>>)
  PROVE  LET f == Frame("enter", Child(Top.node, b))
             h == Frame(w, Top.node) IN
         /\ h.at = w /\ h.node = Top.node /\ f.at = "enter" /\ f.node = Child(Top.node, b)
         /\ Nested(stack')
         /\ Chained(stack) => Chained(stack')
         /\ h \in FramesOf(stack') /\ FramesOf(Tail(stack)) \subseteq FramesOf(stack')
         /\ Kid(node[on], Top.node, b) # NULL => FramesOf(stack') = {f, h} \union FramesOf(Tail(stack))
         /\ Kid(node[on], Top.node, b) = NULL => FramesOf(stack') = {h} \union FramesOf(Tail(stack))
<1>. DEFINE p == Top.node
            f == Frame("enter", Child(p, b))
            h == Frame(w, p)
            y == <<h>> \o Tail(stack)
<1>1. /\ stack \in Seq(Frames) /\ Tail(stack) \in Seq(Frames) /\ Top = Head(stack) /\ p \in Path
      /\ Nested(stack) /\ FramesOf(stack) = {Top} \union FramesOf(Tail(stack))
  BY TopSet
<1>2. /\ h.at = w /\ h.node = p /\ f.at = "enter" /\ f.node = Child(p, b)
      /\ h \in Frames
  BY <1>1 DEF Frame, Frames
<1>3. Covers(p, p)
  BY <1>1, CoversSelf
<1>4. stack' = (IF Kid(node[on], p, b) # NULL THEN <<f>> \o <<h>> ELSE <<h>>) \o Tail(stack)
  BY DEF Descend, Resume
<1>. HIDE DEF f, h, p
<1>5. Nested(y) /\ FramesOf(y) = {h} \union FramesOf(Tail(stack)) /\ y \in Seq(Frames)
  <2>1. Covers(Head(stack).node, h.node)
    BY <1>1, <1>2, <1>3 DEF p
  <2>. QED BY <1>1, <1>2, <2>1, NestedContinues, FramesOfPush
<1>6. Chained(stack) => Chained(y)
  <2>. SUFFICES ASSUME Chained(stack) PROVE Chained(y)
    OBVIOUS
  <2>1. /\ Chained(Tail(stack))
        /\ IF Tail(stack) = << >> THEN h.node = << >>
           ELSE \E d \in Bit : h.node = Child(Head(Tail(stack)).node, d)
    BY <1>1, <1>2, ChainedTop DEF p
  <2>. QED BY <1>1, <1>2, <2>1, ChainedPush
<1>7. CASE Kid(node[on], p, b) = NULL
  <2>1. stack' = y
    BY <1>4, <1>7
  <2>2. Nested(stack') /\ FramesOf(stack') = {h} \union FramesOf(Tail(stack))
        /\ (Chained(stack) => Chained(stack'))
    BY <1>5, <1>6, <2>1
  <2>3. h \in FramesOf(stack') /\ FramesOf(Tail(stack)) \subseteq FramesOf(stack')
    BY <2>2
  <2>. QED BY <1>2, <1>7, <2>2, <2>3 DEF f, h, p
<1>8. CASE Kid(node[on], p, b) # NULL
  <2>1. Len(p) < W
    BY <1>8 DEF Kid
  <2>2. Child(p, b) \in Path /\ Below(p, Child(p, b), b)
    BY <1>1, <2>1, ChildPath, BelowOwnChild
  <2>3. f \in Frames /\ WaitsFor(h, f.node)
    BY <1>2, <2>2 DEF Frame, Frames, WaitsFor, f
  <2>4. Nested(<<f, h>> \o Tail(stack))
        /\ FramesOf(<<f, h>> \o Tail(stack)) = {f, h} \union FramesOf(Tail(stack))
    <3>1. h.node = Head(stack).node
      BY <1>1, <1>2 DEF p
    <3>. QED BY <1>1, <1>2, <2>3, <3>1, NestedCalls
  <2>5. <<f>> \o <<h>> = <<f, h>> /\ <<f>> \in Seq(Frames) /\ <<h>> \in Seq(Frames)
    BY <1>2, <2>3, TwoFrames
  <2>6. stack' = <<f, h>> \o Tail(stack)
    BY <1>4, <1>8, <2>5
  <2>7. stack' = <<f>> \o y
    BY <1>1, <1>4, <1>8, <2>5, ConcatAssociative
  <2>8. Chained(stack) => Chained(stack')
    <3>. SUFFICES ASSUME Chained(stack) PROVE Chained(stack')
      OBVIOUS
    <3>1. y # << >> /\ Head(y) = h
      BY <1>1, <1>2
    <3>. HIDE DEF y
    <3>2. Chained(<<f>> \o y)
      BY <1>2, <1>5, <1>6, <2>3, <3>1, ChainedPush
    <3>. QED BY <2>7, <3>2
  <2>9. Nested(stack') /\ FramesOf(stack') = {f, h} \union FramesOf(Tail(stack))
    BY <2>4, <2>6
  <2>10. h \in FramesOf(stack') /\ FramesOf(Tail(stack)) \subseteq FramesOf(stack')
    BY <2>9
  <2>. QED BY <1>2, <1>8, <2>8, <2>9, <2>10 DEF f, h, p
<1>. QED BY <1>7, <1>8 DEF p

-----------------------------------------------------------------------------
(***************************************************************************)
(* Collapse.                                                               *)
(***************************************************************************)
\* What a step of collapse has to keep.
LEMMA CollapseKeeps ==
  ASSUME IInv, SInv, call = "collapse", stack # << >>,
         phase' = phase, call' = call, on' = on, out' = out, why' = why,
         Nested(stack'), Chained(stack'),
         \A p \in Path : TwinsAt(node'["main"], p) =>
           \E f \in FramesOf(stack') : CollapseAhead(f, p),
         \A p \in Path : ~ColdLeafAt(node'["main"], {<< >>}, p)
  PROVE  SInv'
<1>1. on = "main" /\ phase = "collapse"
  BY DEF IInv, Control, TypeOK, TreeId
<1>2. Collapsing'
  BY DEF Collapsing
<1>3. Inverting' /\ OnTheWay' /\ ReplBuilt'
  BY <1>1 DEF Inverting, OnTheWay, ReplBuilt
<1>4. Collected' /\ OutputSorted'
  BY <1>1, NoOutput
<1>5. Cursor' = {}
  BY DEF Cursor
<1>6. Canonical'
  BY <1>1, <1>5, SetParts DEF Canonical
<1>. QED BY <1>2, <1>3, <1>4, <1>6 DEF SInv

LEMMA CollapseFacts ==
  ASSUME IInv, SInv, call = "collapse"
  PROVE  /\ on = "main" /\ phase = "collapse" /\ "main" \in TreeId /\ root["main"] = << >>
         /\ GoodTree(node["main"], << >>) /\ DOMAIN node = TreeId
         /\ Chained(stack)
         /\ \A p \in Path : TwinsAt(node["main"], p) =>
              \E f \in FramesOf(stack) : CollapseAhead(f, p)
         /\ \A p \in Path : ~ColdLeafAt(node["main"], {<< >>}, p)
<1>1. on = "main" /\ phase = "collapse" /\ Cursor = {}
  BY DEF IInv, Control, TypeOK, TreeId, Cursor
<1>. QED BY <1>1, SetParts, TreeFacts DEF Collapsing, Canonical

LEMMA CollapseNowSet ==
  ASSUME IInv, SInv, CollapseNow
  PROVE  SInv'
<1>. DEFINE N == node["main"]
            p == Top.node
            M == Joined(N, p)
<1>1. /\ call = "collapse" /\ stack # << >> /\ Top.at = "enter" /\ CollapsesNow(p)
      /\ node' = [node EXCEPT ![on] = Joined(@, p)] /\ Resume(<< >>)
      /\ phase' = phase /\ call' = call /\ on' = on /\ out' = out /\ why' = why
  BY DEF CollapseNow, Running, CollapseStep
<1>2. /\ on = "main" /\ phase = "collapse" /\ "main" \in TreeId /\ DOMAIN node = TreeId
      /\ GoodTree(N, << >>) /\ Chained(stack)
      /\ \A q \in Path : TwinsAt(N, q) => \E f \in FramesOf(stack) : CollapseAhead(f, q)
      /\ \A q \in Path : ~ColdLeafAt(N, {<< >>}, q)
  BY <1>1, CollapseFacts
<1>3. /\ stack \in Seq(Frames) /\ p \in Path /\ N[p] # NULL /\ Covers(<< >>, p)
      /\ FramesOf(stack) = {Top} \union FramesOf(Tail(stack))
      /\ Nested(<< >> \o Tail(stack)) /\ << >> \o Tail(stack) = Tail(stack)
  BY <1>1, <1>2, TopSet, CollapseFacts
<1>4. node'["main"] = M
  BY <1>1, <1>2
<1>5. N[p].hot
  <2>. SUFFICES ASSUME ~N[p].hot PROVE FALSE
    OBVIOUS
  <2>1. ac > 0 /\ N[p].addr.len >= ac /\ ac \in Nat
    BY <1>1, <1>2 DEF CollapsesNow, IInv, TypeOK
  <2>2. N[p].addr.len = Len(p)
    BY <1>2, <1>3, GoodNode
  <2>3. Len(p) <= ac /\ (Len(p) = ac => N[p].hot)
    BY <1>1, <1>2, <1>3, <2>1 DEF IInv, AutoCollapsed
  <2>. QED BY <1>3, <2>1, <2>2, <2>3, PathIsSeq, WAssumption
<1>6. stack' = Tail(stack)
  BY <1>1, <1>3 DEF Resume
<1>7. \A q \in Path : StrictlyCovers(p, q) => N[q] = NULL
  BY <1>2, <1>3, <1>5, NothingBelow
<1>. HIDE DEF N, p, M
<1>8. /\ \A q \in Path : q # p => M[q] = IF StrictlyCovers(p, q) THEN NULL ELSE N[q]
      /\ M[p] # NULL /\ M[p].hot = TRUE
      /\ HotNodes(M) = {q \in HotNodes(N) : ~Covers(p, q)} \union {p}
  BY <1>2, <1>3, JoinedNodes DEF M, Joined
<1>9. HotNodes(M) = HotNodes(N)
  <2>1. \A q \in HotNodes(N) : q \in Path /\ (Covers(p, q) <=> p = q)
    BY <1>3, <1>7, CoversSplit DEF HotNodes
  <2>2. p \in HotNodes(N)
    BY <1>3, <1>5 DEF HotNodes
  <2>. QED BY <1>8, <2>1, <2>2
<1>10. ASSUME NEW q \in Path, TwinsAt(M, q)
       PROVE  \E f \in FramesOf(stack') : CollapseAhead(f, q)
  <2>1. TwinsAt(N, q)
    BY <1>9, <1>10, TwinsAre
  <2>2. PICK f \in FramesOf(stack) : CollapseAhead(f, q)
    BY <1>2, <2>1
  <2>3. f # Top
    <3>. SUFFICES ASSUME f = Top PROVE FALSE
      OBVIOUS
    <3>1. Covers(p, q)
      BY <1>1, <2>2 DEF CollapseAhead, p
    <3>2. Kid(N, q, 0) # NULL /\ 0 \in Bit
      BY <2>1 DEF TwinsAt, KidHot, Bit
    <3>3. Covers(<< >>, q)
      BY <1>3, <3>1, EmptyPath, CoversTransitive
    <3>4. N[q] # NULL /\ ~N[q].hot
      BY <1>2, <3>2, <3>3, TwinsCold
    <3>. QED BY <1>3, <1>5, <1>7, <3>1, <3>4, CoversSplit
  <2>. QED BY <1>3, <1>6, <2>2, <2>3
<1>11. \A q \in Path : ~ColdLeafAt(M, {<< >>}, q)
  <2>1. \A q \in Path : ~ColdLeafAt(N, {<< >>} \union {p}, q)
    BY <1>2, FewerExcused
  <2>. QED BY <1>3, <1>8, <2>1, JoinedLeaves
<1>12. Chained(stack')
  BY <1>1, <1>2, <1>3, <1>6, ChainedTop
<1>. QED BY <1>1, <1>3, <1>4, <1>6, <1>10, <1>11, <1>12, CollapseKeeps

\* Down to a child, or on when it is missing.
LEMMA CollapseDownSet ==
  ASSUME IInv, SInv, call = "collapse", stack # << >>, NEW b \in Bit, NEW w,
         \/ b = 0 /\ w = "right" /\ Top.at = "enter"
         \/ b = 1 /\ w = "merge" /\ Top.at = "right",
         Descend(b, <<Frame(w, Top.node)>>),
         UNCHANGED <<node, root, ac, phase, call, on, arg, cur, out, before, why>>
  PROVE  SInv'
<1>. DEFINE N == node["main"]
            p == Top.node
            f == Frame("enter", Child(p, b))
            h == Frame(w, p)
<1>1. /\ on = "main" /\ GoodTree(N, << >>) /\ Chained(stack)
      /\ \A q \in Path : TwinsAt(N, q) => \E g \in FramesOf(stack) : CollapseAhead(g, q)
      /\ \A q \in Path : ~ColdLeafAt(N, {<< >>}, q)
  BY CollapseFacts
<1>2. /\ p \in Path /\ N[p] # NULL /\ Covers(<< >>, p)
      /\ FramesOf(stack) = {Top} \union FramesOf(Tail(stack))
  BY <1>1, TopSet, CollapseFacts
<1>3. /\ h.at = w /\ h.node = p /\ f.at = "enter" /\ f.node = Child(p, b)
      /\ Nested(stack') /\ (Chained(stack) => Chained(stack'))
      /\ h \in FramesOf(stack') /\ FramesOf(Tail(stack)) \subseteq FramesOf(stack')
      /\ Kid(N, p, b) # NULL => f \in FramesOf(stack')
  <2>1. (b = 0 /\ w = "right") \/ (b = 1 /\ w = "merge")
    OBVIOUS
  <2>. QED BY <1>1, <2>1, DescendStack
<1>. HIDE DEF N, p, f, h
<1>4. ASSUME NEW q \in Path, TwinsAt(N, q)
      PROVE  \E g \in FramesOf(stack') : CollapseAhead(g, q)
  <2>1. PICK g \in FramesOf(stack) : CollapseAhead(g, q)
    BY <1>1, <1>4
  <2>2. CASE g # Top
    BY <1>2, <1>3, <2>1, <2>2
  <2>3. CASE g = Top
    <3>1. CASE q = p
      BY <1>3, <3>1 DEF CollapseAhead
    <3>2. CASE Below(p, q, b)
      <4>1. CASE Kid(N, p, b) = NULL
        <5>1. N[q] = NULL
          BY <1>1, <1>2, <3>2, <4>1, MissingSubtree
        <5>2. Kid(N, q, 0) # NULL /\ 0 \in Bit
          BY <1>4 DEF TwinsAt, KidHot, Bit
        <5>3. Covers(<< >>, q)
          BY <1>2, <3>2, EmptyPath, CoversTransitive, CoversSplit DEF Below
        <5>. QED BY <1>1, <5>1, <5>2, <5>3, TwinsCold
      <4>2. CASE Kid(N, p, b) # NULL
        <5>1. Covers(Child(p, b), q)
          BY <1>2, <3>2, BelowChild
        <5>. QED BY <1>3, <4>2, <5>1 DEF CollapseAhead
      <4>. QED BY <4>1, <4>2
    <3>3. CASE b = 0 /\ Below(p, q, 1)
      BY <1>3, <3>3 DEF CollapseAhead
    <3>4. q = p \/ Below(p, q, b) \/ (b = 0 /\ Below(p, q, 1))
      <4>1. Top.at = "enter" => Covers(p, q) /\ b = 0
        BY <2>1, <2>3 DEF CollapseAhead, p
      <4>2. Top.at = "right" => (p = q \/ Below(p, q, 1)) /\ b = 1
        BY <2>1, <2>3 DEF CollapseAhead, p
      <4>. QED BY <1>2, <4>1, <4>2, CoversSplit, BelowSplit
    <3>. QED BY <3>1, <3>2, <3>3, <3>4
  <2>. QED BY <2>2, <2>3
<1>. QED BY <1>1, <1>3, <1>4, CollapseKeeps DEF N

\* Two hot children are joined; their parent may have got a hot sibling, and
\* then it is the parent's parent that is still to be merged.
LEMMA CollapseMergeSet ==
  ASSUME IInv, SInv, CollapseMerge
  PROVE  SInv'
<1>. DEFINE N == node["main"]
            p == Top.node
            M == Joined(N, p)
<1>1. /\ call = "collapse" /\ stack # << >> /\ Top.at = "merge"
      /\ node' = IF \A b \in Bit : KidHot(node[on], p, b)
                 THEN [node EXCEPT ![on] = Joined(@, p)] ELSE node
      /\ Resume(<< >>)
      /\ phase' = phase /\ call' = call /\ on' = on /\ out' = out /\ why' = why
  BY DEF CollapseMerge, Running, CollapseStep
<1>2. /\ on = "main" /\ "main" \in TreeId /\ DOMAIN node = TreeId
      /\ GoodTree(N, << >>) /\ Chained(stack)
      /\ \A q \in Path : TwinsAt(N, q) => \E f \in FramesOf(stack) : CollapseAhead(f, q)
      /\ \A q \in Path : ~ColdLeafAt(N, {<< >>}, q)
  BY <1>1, CollapseFacts
<1>3. /\ stack \in Seq(Frames) /\ Top = Head(stack) /\ p \in Path /\ N[p] # NULL
      /\ FramesOf(stack) = {Top} \union FramesOf(Tail(stack))
      /\ Tail(stack) \in Seq(Frames)
      /\ Nested(<< >> \o Tail(stack)) /\ << >> \o Tail(stack) = Tail(stack)
      /\ \A g \in FramesOf(Tail(stack)) : g.at \in {"right", "merge"}
  BY <1>1, <1>2, TopSet
<1>4. stack' = Tail(stack)
  BY <1>1, <1>3 DEF Resume
<1>5. Chained(stack')
  BY <1>1, <1>2, <1>3, <1>4, ChainedTop
<1>6. \A q \in Path : CollapseAhead(Top, q) => q = p
  BY <1>1 DEF CollapseAhead
<1>7. CASE ~TwinsAt(N, p)
  <2>1. node' = node
    BY <1>1, <1>2, <1>7 DEF TwinsAt
  <2>2. \A q \in Path : TwinsAt(N, q) => \E f \in FramesOf(stack') : CollapseAhead(f, q)
    BY <1>2, <1>3, <1>4, <1>6, <1>7
  <2>. QED BY <1>1, <1>2, <1>3, <1>4, <1>5, <2>1, <2>2, CollapseKeeps
<1>8. CASE TwinsAt(N, p)
  <2>1. node'["main"] = M
    BY <1>1, <1>2, <1>8 DEF TwinsAt
  <2>. HIDE DEF N, M
  <2>2. /\ \A q \in Path : q # p => M[q] = IF StrictlyCovers(p, q) THEN NULL ELSE N[q]
        /\ M[p] # NULL /\ M[p].hot = TRUE
        /\ HotNodes(M) = {q \in HotNodes(N) : ~Covers(p, q)} \union {p}
    <3>. HIDE DEF p
    <3>. QED BY <1>2, <1>3, JoinedNodes DEF M, Joined
  <2>3. ASSUME NEW q \in Path, TwinsAt(M, q)
        PROVE  \E f \in FramesOf(stack') : CollapseAhead(f, q)
    <3>1. Len(q) < W /\ \A b \in Bit : Child(q, b) \in HotNodes(M)
      BY <2>3, TwinsAre
    <3>2. CASE \E b \in Bit : Child(q, b) = p
      <4>1. PICK b \in Bit : Child(q, b) = p
        BY <3>2
      <4>2. Len(p) >= 1 /\ p # << >>
        BY <3>1, <4>1, ChildPath, EmptyPath, PathIsSeq, WAssumption
      <4>. DEFINE g == Head(Tail(stack))
      <4>3. Tail(stack) # << >> /\ \E d \in Bit : p = Child(g.node, d)
        BY <1>1, <1>2, <1>3, <4>2, ChainedTop
      <4>4. g \in FramesOf(stack') /\ g \in Frames /\ g.node \in Path
        <5>1. g \in FramesOf(Tail(stack)) /\ g \in Frames
          BY <1>3, <4>3, FramesOfStack
        <5>. QED BY <1>4, <5>1 DEF Frames
      <4>. HIDE DEF g, p
      <4>5. PICK d \in Bit : p = Child(g.node, d)
        BY <4>3
      <4>6. Len(g.node) < W
        <5>1. Len(p) = Len(g.node) + 1 /\ Len(p) \in Nat /\ Len(p) <= W /\ Len(g.node) \in Nat
          BY <1>3, <4>4, <4>5, PathIsSeq, WAssumption DEF Child
        <5>. QED BY <5>1, WAssumption
      <4>7. q = g.node
        BY <3>1, <4>1, <4>4, <4>5, <4>6, ChildInjective
      <4>8. g.at # "enter"
        BY <1>3, <1>4, <4>4
      <4>. QED BY <4>4, <4>7, <4>8 DEF CollapseAhead
    <3>3. CASE \A b \in Bit : Child(q, b) # p
      <4>1. \A b \in Bit : Child(q, b) \in HotNodes(N) /\ ~Covers(p, Child(q, b))
        BY <2>2, <3>1, <3>3
      <4>2. TwinsAt(N, q)
        BY <3>1, <4>1, TwinsAre
      <4>3. q # p
        <5>1. 0 \in Bit
          BY DEF Bit
        <5>. QED BY <1>3, <3>1, <4>1, <5>1, BelowOwnChild
      <4>. QED BY <1>2, <1>3, <1>4, <1>6, <4>2, <4>3 DEF N
    <3>. QED BY <3>2, <3>3
  <2>4. \A q \in Path : ~ColdLeafAt(M, {<< >>}, q)
    <3>1. \A q \in Path : ~ColdLeafAt(N, {<< >>} \union {p}, q)
      BY <1>2, FewerExcused DEF N
    <3>. HIDE DEF p
    <3>. QED BY <1>3, <2>2, <3>1, JoinedLeaves
  <2>. QED BY <1>1, <1>3, <1>4, <1>5, <2>1, <2>3, <2>4, CollapseKeeps
<1>. QED BY <1>7, <1>8

LEMMA CollapseReturnsSet ==
  ASSUME IInv, SInv, CollapseReturns
  PROVE  SInv'
<1>1. /\ call = "collapse" /\ stack = << >> /\ phase' = "collapsed" /\ call' = "none"
      /\ on' = "main" /\ stack' = << >> /\ node' = node /\ out' = out /\ why' = why
  BY DEF CollapseReturns, OpDone
<1>2. /\ phase = "collapse"
      /\ \A p \in Path : ~TwinsAt(node["main"], p)
      /\ \A p \in Path : ~ColdLeafAt(node["main"], {<< >>}, p)
  BY <1>1, CollapseFacts, FramesOfNone
<1>3. Collected' /\ OutputSorted' /\ Collapsing' /\ Inverting' /\ Nested(stack)'
  BY <1>1, <1>2, NoOutput, NoRecursion
<1>4. OnTheWay' /\ ReplBuilt' /\ Cursor' = {}
  BY <1>1 DEF OnTheWay, ReplBuilt, Cursor
<1>5. Canonical'
  BY <1>1, <1>2, <1>4, SetParts DEF Canonical
<1>. QED BY <1>3, <1>4, <1>5 DEF SInv

LEMMA CollapseSet ==
  ASSUME IInv, SInv, CollapseSteps
  PROVE  SInv'
<1>1. CASE CollapseLeft
  <2>1. /\ call = "collapse" /\ stack # << >> /\ Top.at = "enter" /\ 0 \in Bit
        /\ Descend(0, <<Frame("right", Top.node)>>)
        /\ UNCHANGED <<node, root, ac, phase, call, on, arg, cur, out, before, why>>
    BY <1>1 DEF CollapseLeft, Running, Bit
  <2>. QED BY <2>1, CollapseDownSet
<1>2. CASE CollapseRight
  <2>1. /\ call = "collapse" /\ stack # << >> /\ Top.at = "right" /\ 1 \in Bit
        /\ Descend(1, <<Frame("merge", Top.node)>>)
        /\ UNCHANGED <<node, root, ac, phase, call, on, arg, cur, out, before, why>>
    BY <1>2 DEF CollapseRight, Running, Bit
  <2>. QED BY <2>1, CollapseDownSet
<1>. QED BY <1>1, <1>2, CollapseNowSet, CollapseMergeSet, CollapseReturnsSet DEF CollapseSteps

-----------------------------------------------------------------------------
(***************************************************************************)
(* Collect.                                                                *)
(***************************************************************************)
LEMMA CollectFacts ==
  ASSUME IInv, SInv, call = "collect"
  PROVE  /\ on = "main" /\ phase = "print" /\ GoodTree(node["main"], << >>) /\ out \in Seq(Addr)
         /\ \A i \in 1..Len(out) : \E p \in HotNodes(node["main"]) : out[i] = Padded(p)
         /\ \A p \in HotNodes(node["main"]) :
              \/ \E i \in 1..Len(out) : out[i] = Padded(p)
              \/ \E f \in FramesOf(stack) : ToCollect(f, p)
         /\ \A f \in FramesOf(stack), p \in Path : ToCollect(f, p) =>
              \A i \in 1..Len(out) : Precedes(out[i], p)
BY SetParts, TreeFacts DEF Collected, TypeOK

\* What a step of collect has to keep.
LEMMA CollectKeeps ==
  ASSUME IInv, SInv, call = "collect",
         node' = node, phase' \in {"print", "done"}, call' \in {"collect", "none"},
         phase' = "print" \/ call' = "none",
         on' = on, why' = why, Nested(stack'), OutputSorted',
         \A i \in 1..Len(out') : \E p \in HotNodes(node["main"]) : out'[i] = Padded(p),
         \A p \in HotNodes(node["main"]) :
           \/ \E i \in 1..Len(out') : out'[i] = Padded(p)
           \/ \E f \in FramesOf(stack') : ToCollect(f, p),
         \A f \in FramesOf(stack'), p \in Path : ToCollect(f, p) =>
           \A i \in 1..Len(out') : Precedes(out'[i], p)
  PROVE  SInv'
<1>1. on = "main" /\ phase = "print"
  BY CollectFacts
<1>2. OnTheWay' /\ ReplBuilt' /\ Collapsing' /\ Inverting'
  BY <1>1 DEF OnTheWay, ReplBuilt, Collapsing, Inverting
<1>3. Canonical'
  BY <1>1, SetParts DEF Canonical
<1>4. Collected'
  <2>1. call' = "collect" => phase' = "print" /\ on' = "main"
    BY <1>1
  <2>. QED BY <2>1 DEF Collected
<1>. QED BY <1>2, <1>3, <1>4 DEF SInv

\* What is left of a position comes before what is right of it.
LEMMA LeftPrecedes ==
  ASSUME NEW r \in Path, NEW p \in Path, NEW q \in Path, Below(r, p, 0), Below(r, q, 1)
  PROVE  Precedes(Padded(p), q)
<1>. DEFINE n == Len(r) + 1
<1>1. /\ Len(r) \in Nat /\ Len(p) \in 0..W /\ Len(q) \in Nat
      /\ Len(r) < Len(p) /\ Len(r) < Len(q)
      /\ \A m \in 1..Len(r) : r[m] = p[m] /\ r[m] = q[m]
      /\ p[n] = 0 /\ q[n] = 1
  BY PathIsSeq, WAssumption DEF Below, StrictlyCovers
<1>2. /\ Padded(p).len = Len(p)
      /\ \A i \in 1..W : i <= Len(p) => Padded(p).bits[i] = p[i]
  BY DEF Padded
<1>3. /\ n \in 1..W /\ n <= Len(p) /\ n <= Len(q)
      /\ \A m \in 1..(n - 1) : m \in 1..Len(r) /\ m \in 1..W /\ m <= Len(p)
  BY <1>1, WAssumption
<1>4. Padded(p).bits[n] < q[n] /\ \A m \in 1..(n - 1) : Padded(p).bits[m] = q[m]
  BY <1>1, <1>2, <1>3
<1>. QED BY <1>2, <1>3, <1>4 DEF Precedes

\* Of two networks as of a network and a position.
LEMMA PrecedesPadded ==
  ASSUME NEW x, NEW p \in Path, Precedes(x, p)
  PROVE  \E n \in 1..W : /\ n <= x.len /\ n <= Padded(p).len
                         /\ x.bits[n] < Padded(p).bits[n]
                         /\ \A m \in 1..(n - 1) : x.bits[m] = Padded(p).bits[m]
<1>1. PICK n \in 1..W : /\ n <= x.len /\ n <= Len(p) /\ x.bits[n] < p[n]
                        /\ \A m \in 1..(n - 1) : x.bits[m] = p[m]
  BY DEF Precedes
<1>2. /\ Padded(p).len = Len(p)
      /\ \A i \in 1..W : i <= Len(p) => Padded(p).bits[i] = p[i]
  BY DEF Padded
<1>3. \A m \in 1..(n - 1) : m \in 1..W /\ m <= Len(p)
  BY <1>1, PathIsSeq, WAssumption
<1>. QED BY <1>1, <1>2, <1>3

LEMMA CollectHotSet ==
  ASSUME IInv, SInv, CollectHot
  PROVE  SInv'
<1>. DEFINE N == node["main"]
            p == Top.node
            x == Padded(p)
<1>1. /\ call = "collect" /\ stack # << >> /\ Top.at = "enter" /\ node[on][p].hot
      /\ out' = Append(out, node[on][p].addr) /\ Resume(<< >>)
      /\ node' = node /\ phase' = phase /\ call' = call /\ on' = on /\ why' = why
  BY DEF CollectHot, Running
<1>2. /\ on = "main" /\ phase = "print" /\ GoodTree(N, << >>) /\ out \in Seq(Addr)
      /\ \A i \in 1..Len(out) : \E q \in HotNodes(N) : out[i] = Padded(q)
      /\ \A q \in HotNodes(N) :
           \/ \E i \in 1..Len(out) : out[i] = Padded(q)
           \/ \E f \in FramesOf(stack) : ToCollect(f, q)
      /\ \A f \in FramesOf(stack), q \in Path : ToCollect(f, q) =>
           \A i \in 1..Len(out) : Precedes(out[i], q)
  BY <1>1, CollectFacts
<1>3. /\ p \in Path /\ N[p] # NULL
      /\ FramesOf(stack) = {Top} \union FramesOf(Tail(stack))
      /\ Nested(<< >> \o Tail(stack)) /\ << >> \o Tail(stack) = Tail(stack)
      /\ \A g \in FramesOf(Tail(stack)) :
           g.node \in Path /\ WaitsFor(g, p) /\ g.at \in {"right", "merge"}
  BY <1>1, <1>2, TopSet
<1>4. p \in HotNodes(N) /\ N[p].addr = x /\ x \in Addr
  BY <1>1, <1>2, <1>3, PaddedIsAddr DEF HotNodes, GoodTree
<1>5. stack' = Tail(stack) /\ out' = Append(out, x)
  BY <1>1, <1>2, <1>3, <1>4 DEF Resume
<1>. HIDE DEF N, x
<1>6. /\ Len(out') = Len(out) + 1 /\ out'[Len(out) + 1] = x /\ Len(out) \in Nat
      /\ \A i \in 1..Len(out) : out'[i] = out[i]
  BY <1>2, <1>4, <1>5
<1>7. \A i \in 1..Len(out') : i \in 1..Len(out) \/ i = Len(out) + 1
  BY <1>6
<1>8. Len(out) + 1 \in 1..Len(out') /\ \A i \in 1..Len(out) : i \in 1..Len(out')
  BY <1>6
<1>9. ToCollect(Top, p)
  BY <1>1, <1>3, CoversSelf DEF ToCollect
<1>10. \A i \in 1..Len(out') : \E q \in HotNodes(N) : out'[i] = Padded(q)
  BY <1>2, <1>4, <1>6, <1>7 DEF x
<1>11. ASSUME NEW q \in HotNodes(N)
       PROVE  \/ \E i \in 1..Len(out') : out'[i] = Padded(q)
              \/ \E f \in FramesOf(stack') : ToCollect(f, q)
  <2>1. CASE \E i \in 1..Len(out) : out[i] = Padded(q)
    BY <1>6, <1>8, <2>1
  <2>2. CASE \E f \in FramesOf(stack) : ToCollect(f, q)
    <3>1. PICK f \in FramesOf(stack) : ToCollect(f, q)
      BY <2>2
    <3>2. CASE f = Top
      <4>1. Covers(p, q)
        BY <1>1, <3>1, <3>2 DEF ToCollect
      <4>2. q = p
        BY <1>2, <1>4, <4>1, HotAlone
      <4>. QED BY <1>6, <1>8, <4>2 DEF x
    <3>. QED BY <1>3, <1>5, <3>1, <3>2
  <2>. QED BY <1>2, <2>1, <2>2
<1>12. ASSUME NEW f \in FramesOf(stack'), NEW q \in Path, ToCollect(f, q), NEW i \in 1..Len(out')
       PROVE  Precedes(out'[i], q)
  <2>1. CASE i \in 1..Len(out)
    BY <1>2, <1>3, <1>5, <1>6, <1>12, <2>1
  <2>2. CASE i = Len(out) + 1
    <3>1. f.node \in Path /\ WaitsFor(f, p) /\ f.at = "right" /\ Below(f.node, q, 1)
      BY <1>3, <1>5, <1>12 DEF ToCollect
    <3>2. Below(f.node, p, 0)
      BY <3>1 DEF WaitsFor
    <3>. QED BY <1>3, <1>6, <2>2, <3>1, <3>2, LeftPrecedes DEF x
  <2>. QED BY <1>7, <2>1, <2>2
<1>13. OutputSorted'
  <2>. SUFFICES ASSUME NEW i \in 1..Len(out'), NEW j \in 1..Len(out'), i < j
                PROVE  \E n \in 1..W : /\ n <= out'[i].len /\ n <= out'[j].len
                                       /\ out'[i].bits[n] < out'[j].bits[n]
                                       /\ \A m \in 1..(n - 1) : out'[i].bits[m] = out'[j].bits[m]
    BY DEF OutputSorted
  <2>1. i \in 1..Len(out)
    BY <1>6
  <2>2. CASE j \in 1..Len(out)
    BY <1>6, <2>1, <2>2, SetParts DEF OutputSorted
  <2>3. CASE j = Len(out) + 1
    <3>1. Precedes(out[i], p)
      BY <1>2, <1>3, <1>9, <2>1
    <3>2. out'[i] = out[i] /\ out'[j] = Padded(p)
      BY <1>6, <2>1, <2>3 DEF x
    <3>. HIDE DEF p
    <3>. QED BY <1>3, <3>1, <3>2, PrecedesPadded
  <2>. QED BY <1>7, <2>2, <2>3
<1>. QED BY <1>1, <1>2, <1>3, <1>5, <1>10, <1>11, <1>12, <1>13, CollectKeeps DEF N

\* The calls that go on instead of the one at the top have to list what it
\* had to, as far as it is there, and nothing else.
LEMMA CollectDownSet ==
  ASSUME IInv, SInv, call = "collect", stack # << >>,
         UNCHANGED <<node, root, ac, phase, call, on, arg, cur, out, before, why>>,
         Nested(stack'),
         FramesOf(Tail(stack)) \subseteq FramesOf(stack'),
         \A q \in HotNodes(node["main"]) : ToCollect(Top, q) =>
           \E f \in FramesOf(stack') : ToCollect(f, q),
         \A f \in FramesOf(stack'), q \in Path : ToCollect(f, q) =>
           f \in FramesOf(Tail(stack)) \/ ToCollect(Top, q)
  PROVE  SInv'
<1>. DEFINE N == node["main"]
<1>1. /\ on = "main" /\ phase = "print"
      /\ \A i \in 1..Len(out) : \E q \in HotNodes(N) : out[i] = Padded(q)
      /\ \A q \in HotNodes(N) :
           \/ \E i \in 1..Len(out) : out[i] = Padded(q)
           \/ \E f \in FramesOf(stack) : ToCollect(f, q)
      /\ \A f \in FramesOf(stack), q \in Path : ToCollect(f, q) =>
           \A i \in 1..Len(out) : Precedes(out[i], q)
  BY CollectFacts
<1>2. FramesOf(stack) = {Top} \union FramesOf(Tail(stack))
  BY TopSet
<1>. HIDE DEF N
<1>3. \A q \in HotNodes(N) :
           \/ \E i \in 1..Len(out) : out[i] = Padded(q)
           \/ \E f \in FramesOf(stack') : ToCollect(f, q)
  BY <1>1, <1>2 DEF N
<1>4. \A f \in FramesOf(stack'), q \in Path : ToCollect(f, q) =>
        \A i \in 1..Len(out) : Precedes(out[i], q)
  BY <1>1, <1>2
<1>5. OutputSorted'
  BY SetParts DEF OutputSorted
<1>. QED BY <1>1, <1>3, <1>4, <1>5, CollectKeeps DEF N

LEMMA CollectLeftSet ==
  ASSUME IInv, SInv, CollectLeft
  PROVE  SInv'
<1>. DEFINE N == node["main"]
            p == Top.node
            f == Frame("enter", Child(p, 0))
            h == Frame("right", p)
<1>1. /\ call = "collect" /\ stack # << >> /\ Top.at = "enter" /\ ~node[on][p].hot
      /\ Descend(0, <<h>>)
      /\ UNCHANGED <<node, root, ac, phase, call, on, arg, cur, out, before, why>>
  BY DEF CollectLeft, Running
<1>2. on = "main" /\ GoodTree(N, << >>) /\ 0 \in Bit /\ << >> \in Path
  BY <1>1, CollectFacts, EmptyPath DEF Bit
<1>3. p \in Path /\ N[p] # NULL /\ Covers(<< >>, p)
  BY <1>1, <1>2, TopSet DEF GoodTree
<1>4. /\ h.at = "right" /\ h.node = p /\ f.at = "enter" /\ f.node = Child(p, 0)
      /\ Nested(stack')
      /\ h \in FramesOf(stack') /\ FramesOf(Tail(stack)) \subseteq FramesOf(stack')
      /\ Kid(N, p, 0) # NULL => FramesOf(stack') = {f, h} \union FramesOf(Tail(stack))
      /\ Kid(N, p, 0) = NULL => FramesOf(stack') = {h} \union FramesOf(Tail(stack))
  <2>1. ASSUME NEW b, NEW w, b = 0, w = "right"
        PROVE  b \in Bit /\ ((b = 0 /\ w = "right") \/ (b = 1 /\ w = "merge"))
    BY <1>2, <2>1
  <2>. QED BY <1>1, <1>2, <2>1, DescendStack
<1>5. \A q \in Path : ToCollect(Top, q) <=> Covers(p, q)
  BY <1>1 DEF ToCollect
<1>. HIDE DEF f, h, p, N
<1>6. \A q \in Path : /\ ToCollect(h, q) <=> Below(p, q, 1)
                      /\ ToCollect(f, q) <=> Covers(Child(p, 0), q)
  BY <1>4 DEF ToCollect
<1>7. ASSUME NEW q \in HotNodes(N), ToCollect(Top, q)
      PROVE  \E g \in FramesOf(stack') : ToCollect(g, q)
  <2>1. q \in Path /\ N[q] # NULL /\ N[q].hot
    BY DEF HotNodes
  <2>2. Below(p, q, 0) \/ Below(p, q, 1)
    <3>1. Covers(p, q) /\ q # p
      BY <1>1, <1>2, <1>5, <1>7, <2>1 DEF N, p
    <3>. QED BY <1>3, <2>1, <3>1, CoversSplit, BelowSplit
  <2>3. CASE Below(p, q, 1)
    BY <1>4, <1>6, <2>1, <2>3
  <2>4. CASE Below(p, q, 0)
    <3>1. Kid(N, p, 0) # NULL
      BY <1>2, <1>3, <2>1, <2>4, MissingSubtree
    <3>2. Covers(Child(p, 0), q)
      BY <1>2, <1>3, <2>1, <2>4, BelowChild
    <3>. QED BY <1>4, <1>6, <2>1, <3>1, <3>2
  <2>. QED BY <2>2, <2>3, <2>4
<1>8. ASSUME NEW g \in FramesOf(stack'), NEW q \in Path, ToCollect(g, q)
      PROVE  g \in FramesOf(Tail(stack)) \/ ToCollect(Top, q)
  <2>1. CASE g = h
    BY <1>3, <1>5, <1>6, <1>8, <2>1, CoversSplit DEF Below
  <2>2. CASE g = f /\ Kid(N, p, 0) # NULL
    <3>1. Len(p) < W /\ Child(p, 0) \in Path /\ Covers(p, Child(p, 0))
      BY <1>2, <1>3, <2>2, KidThere, ChildPath, BelowOwnChild
    <3>. QED BY <1>3, <1>5, <1>6, <1>8, <2>2, <3>1, CoversTransitive
  <2>. QED BY <1>4, <2>1, <2>2
<1>. QED BY <1>1, <1>4, <1>7, <1>8, CollectDownSet DEF N

LEMMA CollectRightSet ==
  ASSUME IInv, SInv, CollectRight
  PROVE  SInv'
<1>. DEFINE N == node["main"]
            p == Top.node
            f == Frame("enter", Child(p, 1))
<1>1. /\ call = "collect" /\ stack # << >> /\ Top.at = "right"
      /\ Descend(1, << >>)
      /\ UNCHANGED <<node, root, ac, phase, call, on, arg, cur, out, before, why>>
  BY DEF CollectRight, Running
<1>2. on = "main" /\ GoodTree(N, << >>) /\ 1 \in Bit
  BY <1>1, CollectFacts DEF Bit
<1>3. /\ p \in Path /\ N[p] # NULL /\ Covers(<< >>, p)
      /\ stack \in Seq(Frames) /\ Nested(stack) /\ p = Head(stack).node
      /\ Nested(<< >> \o Tail(stack)) /\ << >> \o Tail(stack) = Tail(stack)
  BY <1>1, <1>2, TopSet DEF GoodTree
<1>4. f.at = "enter" /\ f.node = Child(p, 1)
  BY DEF Frame
<1>5. /\ \A q \in Path : ToCollect(Top, q) <=> Below(p, q, 1)
      /\ \A q \in Path : ToCollect(f, q) <=> Covers(Child(p, 1), q)
  BY <1>1, <1>4 DEF ToCollect
<1>6. stack' = (IF Kid(N, p, 1) # NULL THEN <<f>> \o << >> ELSE << >>) \o Tail(stack)
  BY <1>1, <1>2 DEF Descend, Resume
<1>7. CASE Kid(N, p, 1) = NULL
  <2>1. stack' = Tail(stack)
    BY <1>3, <1>6, <1>7
  <2>2. \A q \in HotNodes(N) : ~ToCollect(Top, q)
    <3>1. \A q \in HotNodes(N) : q \in Path /\ N[q] # NULL
      BY DEF HotNodes
    <3>. HIDE DEF N, p
    <3>. QED BY <1>2, <1>3, <1>5, <1>7, <3>1, MissingSubtree
  <2>. QED BY <1>1, <1>3, <2>1, <2>2, CollectDownSet
<1>8. CASE Kid(N, p, 1) # NULL
  <2>. HIDE DEF f, N, p
  <2>1. Len(p) < W /\ Child(p, 1) \in Path /\ Covers(p, Child(p, 1))
    BY <1>2, <1>3, <1>8, KidThere, ChildPath, BelowOwnChild
  <2>2. f \in Frames
    BY <2>1 DEF f, Frame, Frames
  <2>3. <<f>> \o << >> = <<f>>
    BY <2>2
  <2>4. stack' = <<f>> \o Tail(stack)
    BY <1>6, <1>8, <2>3
  <2>5. Nested(stack') /\ FramesOf(stack') = {f} \union FramesOf(Tail(stack))
    BY <1>1, <1>3, <1>4, <2>1, <2>2, <2>4, NestedContinues
  <2>6. \A q \in Path : ToCollect(f, q) <=> ToCollect(Top, q)
    BY <1>2, <1>3, <1>5, <2>1, BelowChild
  <2>7. \A q \in HotNodes(N) : q \in Path
    BY DEF HotNodes
  <2>8. \A q \in HotNodes(N) : ToCollect(Top, q) => \E g \in FramesOf(stack') : ToCollect(g, q)
    BY <2>5, <2>6, <2>7
  <2>9. \A g \in FramesOf(stack'), q \in Path : ToCollect(g, q) =>
          g \in FramesOf(Tail(stack)) \/ ToCollect(Top, q)
    BY <2>5, <2>6
  <2>. QED BY <1>1, <2>5, <2>8, <2>9, CollectDownSet DEF N
<1>. QED BY <1>7, <1>8

LEMMA CollectReturnsSet ==
  ASSUME IInv, SInv, CollectReturns
  PROVE  SInv'
<1>1. /\ call = "collect" /\ stack = << >> /\ phase' = "done" /\ call' = "none"
      /\ on' = "main" /\ stack' = << >> /\ node' = node /\ out' = out /\ why' = why
  BY DEF CollectReturns, OpDone
<1>2. OutputSorted'
  BY <1>1, SetParts DEF OutputSorted
<1>3. on = "main" /\ Nested(stack')
  BY <1>1, CollectFacts, FramesOfNone
<1>. QED BY <1>1, <1>2, <1>3, CollectFacts, CollectKeeps

LEMMA CollectSet ==
  ASSUME IInv, SInv, CollectSteps
  PROVE  SInv'
<1>1. CASE CollectHotNoMemory
  BY <1>1, AbortSet DEF CollectHotNoMemory
<1>. QED BY <1>1, CollectHotSet, CollectLeftSet, CollectRightSet, CollectReturnsSet
         DEF CollectSteps

-----------------------------------------------------------------------------
(***************************************************************************)
(* Invert: what its steps have in common.                                  *)
(***************************************************************************)
\* The tree that is inverted has neither hot siblings nor, but for its root,
\* cold leaves.
LEMMA InvertFacts ==
  ASSUME IInv, SInv, call \in {"invert", "inverting"}
  PROVE  /\ on \in TreeId /\ GoodTree(node[on], root[on]) /\ root[on] \in Path
         /\ node[on][root[on]] # NULL /\ DOMAIN node = TreeId
         /\ on = "main" => phase = "invert" /\ root[on] = << >>
         /\ on = "repl" => phase = "purge" /\ ~node[on][root[on]].hot
         /\ \A p \in Path : ~TwinsAt(node[on], p)
         /\ \A p \in Path : ~ColdLeafAt(node[on], {root[on]}, p)
         /\ call = "inverting" => Inverted /\ \A f \in FramesOf(stack) : Invertible(node[on], f)
<1>1. /\ on \in TreeId /\ GoodTree(node[on], root[on]) /\ root[on] \in Path
      /\ node[on][root[on]] # NULL /\ DOMAIN node = TreeId /\ root["main"] = << >>
  BY TreeFacts
<1>2. /\ on = "main" => phase = "invert"
      /\ on = "repl" => phase = "purge" /\ ~node[on][root[on]].hot
      /\ call = "inverting" => Inverted /\ \A f \in FramesOf(stack) : Invertible(node[on], f)
  BY SetParts DEF Inverting, ReplBuilt, IInv, Control
<1>3. Cursor = {}
  BY DEF Cursor
<1>4. /\ \A p \in Path : ~TwinsAt(node[on], p)
      /\ \A p \in Path : ~ColdLeafAt(node[on], {root[on]}, p)
  BY <1>1, <1>2, <1>3, SetParts DEF Canonical, TreeId
<1>. QED BY <1>1, <1>2, <1>4

\* What a step of an inversion has to keep.
LEMMA InvertKeeps ==
  ASSUME IInv, SInv, call \in {"invert", "inverting"}, call' = "inverting",
         root' = root, phase' = phase, on' = on, arg' = arg, out' = out, before' = before,
         why' = why, NEW M, node' = [node EXCEPT ![on] = M],
         \A p \in Path : ~TwinsAt(M, p),
         \A p \in Path : ~ColdLeafAt(M, {root[on]}, p),
         on = "repl" => ~M[root[on]].hot,
         Nested(stack'), Inverted', \A f \in FramesOf(stack') : Invertible(M, f)
  PROVE  SInv'
<1>1. /\ on \in TreeId /\ DOMAIN node = TreeId
      /\ on = "main" => phase = "invert" /\ root[on] = << >>
      /\ on = "repl" => phase = "purge"
  BY InvertFacts
<1>2. /\ node'[on] = M /\ \A t \in TreeId : t # on => node'[t] = node[t]
  BY <1>1
<1>3. Collected' /\ OutputSorted'
  BY <1>1, NoOutput DEF TreeId
<1>4. OnTheWay' /\ Collapsing' /\ Cursor' = {} /\ ArgPath' = ArgPath
  BY DEF OnTheWay, Collapsing, Cursor, ArgPath
<1>5. ReplBuilt'
  <2>. SUFFICES ASSUME on = "repl" PROVE ReplBuilt'
    BY DEF ReplBuilt
  <2>1. node["main"][root["repl"]].hot /\ StrictlyCovers(root["repl"], ArgPath)
    BY SetParts DEF ReplBuilt
  <2>2. node'["main"] = node["main"] /\ node'["repl"] = M
    BY <1>2 DEF TreeId
  <2>. QED BY <1>4, <2>1, <2>2 DEF ReplBuilt
<1>6. Canonical'
  <2>1. CASE on = "main"
    BY <1>1, <1>2, <1>4, <2>1, SetParts DEF Canonical
  <2>2. CASE on = "repl"
    <3>1. node'["main"] = node["main"] /\ node'["repl"] = M
      BY <1>2, <2>2 DEF TreeId
    <3>. QED BY <1>1, <1>4, <2>2, <3>1, SetParts DEF Canonical
  <2>. QED BY <1>1, <2>1, <2>2 DEF TreeId
<1>7. Inverting'
  BY <1>1, <1>2 DEF Inverting
<1>. QED BY <1>3, <1>4, <1>5, <1>6, <1>7 DEF SInv

\* A call that waits has nothing to invert where the one at the top is.
LEMMA WaitingElsewhere ==
  ASSUME NEW g \in Frames, NEW p \in Path, WaitsFor(g, p), NEW x, Matches(p, x)
  PROVE  ~ToInvert(g, x)
<1>1. g.node \in Path
  BY DEF Frames
<1>2. CASE g.at = "right" /\ Below(g.node, p, 0)
  <2>1. Len(g.node) + 1 \in 1..Len(p) /\ p[Len(g.node) + 1] = 0
    BY <1>1, <1>2, PathIsSeq, WAssumption DEF Below, StrictlyCovers
  <2>2. x[Len(g.node) + 1] = 0
    BY <2>1 DEF Matches
  <2>. QED BY <1>2, <2>2 DEF ToInvert
<1>3. CASE g.at = "merge"
  BY <1>3 DEF ToInvert
<1>. QED BY <1>2, <1>3 DEF WaitsFor

\* It is enough to look at the addresses of the node at the top: there the
\* cover changes exactly if what is to be inverted does.
LEMMA InvertedIn ==
  ASSUME IInv, SInv, call = "inverting", stack # << >>,
         root' = root, on' = on, arg' = arg, before' = before,
         NEW M, node'[on] = M, NEW F,
         FramesOf(stack') = F \union FramesOf(Tail(stack)),
         \A f \in F : f \in Frames /\ Covers(Top.node, f.node),
         \A q \in Path : ~Covers(Top.node, q) => (q \in HotNodes(M) <=> q \in HotNodes(node[on])),
         \A x \in Address : Matches(Top.node, x) =>
           ((x \in Cover(M) <=> x \in Cover(node[on]))
              <=> (ToInvert(Top, x) <=> \E f \in F : ToInvert(f, x)))
  PROVE  Inverted'
<1>. DEFINE N == node[on]
            p == Top.node
<1>1. /\ p \in Path /\ FramesOf(stack) = {Top} \union FramesOf(Tail(stack))
      /\ \A g \in FramesOf(Tail(stack)) : g \in Frames /\ WaitsFor(g, p)
  BY TopSet
<1>2. /\ Was # {}
      /\ \A x \in NetOf(root[on]) :
           x \in Cover(N) <=> (x \in Was <=> \E f \in FramesOf(stack) : ToInvert(f, x))
  BY InvertFacts DEF Inverted
<1>3. Was' = Was
  BY DEF Was, ArgPath
<1>4. ASSUME NEW x \in NetOf(root[on])
      PROVE  x \in Cover(M) <=> (x \in Was <=> \E f \in FramesOf(stack') : ToInvert(f, x))
  <2>1. x \in Address
    BY DEF NetOf
  <2>2. x \in Cover(N) <=> (x \in Was <=> \E f \in FramesOf(stack) : ToInvert(f, x))
    BY <1>2
  <2>3. CASE ~Matches(p, x)
    <3>1. x \in Cover(M) <=> x \in Cover(N)
      BY <1>1, <2>1, <2>3, CoverOutside
    <3>2. ~ToInvert(Top, x)
      BY <2>3 DEF ToInvert
    <3>3. \A f \in F : ~ToInvert(f, x)
      <4>1. \A f \in F : f.node \in Path
        BY DEF Frames
      <4>2. \A f \in F : ~Matches(f.node, x)
        BY <1>1, <2>3, <4>1, MatchesUp
      <4>. QED BY <4>2 DEF ToInvert
    <3>4. (\E f \in FramesOf(stack) : ToInvert(f, x)) <=> (\E f \in FramesOf(stack') : ToInvert(f, x))
      BY <1>1, <3>2, <3>3
    <3>. QED BY <2>2, <3>1, <3>4
  <2>4. CASE Matches(p, x)
    <3>1. \A g \in FramesOf(Tail(stack)) : ~ToInvert(g, x)
      BY <1>1, <2>4, WaitingElsewhere
    <3>2. /\ (\E f \in FramesOf(stack) : ToInvert(f, x)) <=> ToInvert(Top, x)
          /\ (\E f \in FramesOf(stack') : ToInvert(f, x)) <=> \E f \in F : ToInvert(f, x)
      BY <1>1, <3>1
    <3>3. (x \in Cover(M) <=> x \in Cover(N))
            <=> (ToInvert(Top, x) <=> \E f \in F : ToInvert(f, x))
      BY <2>1, <2>4
    <3>. QED BY <2>2, <3>2, <3>3
  <2>. QED BY <2>3, <2>4
<1>. QED BY <1>2, <1>3, <1>4 DEF Inverted

\* A suspended call sees the children of its node unchanged.
LEMMA InvertibleKept ==
  ASSUME NEW N, NEW M, NEW p \in Path, NEW g \in Frames, StrictlyCovers(g.node, p),
         g.at # "enter", Invertible(N, g),
         \A q \in Path : Len(q) <= Len(p) => M[q] = N[q]
  PROVE  Invertible(M, g)
<1>1. g.node \in Path /\ Len(g.node) < Len(p)
  BY DEF Frames, StrictlyCovers
<1>2. Len(g.node) < W
  BY <1>1, PathIsSeq, WAssumption
<1>3. \A b \in Bit : Child(g.node, b) \in Path /\ Len(Child(g.node, b)) <= Len(p)
  BY <1>1, <1>2, ChildPath, PathIsSeq, WAssumption
<1>4. \A b \in Bit : Kid(M, g.node, b) = Kid(N, g.node, b)
  BY <1>2, <1>3 DEF Kid
<1>5. 0 \in Bit /\ 1 \in Bit
  BY DEF Bit
<1>. QED BY <1>4, <1>5 DEF Invertible, KidHot

\* A new hot node next to one that is not hot makes no pair.
LEMMA TwinsAdded ==
  ASSUME NEW N, NEW M, NEW p \in Path, Len(p) < W, NEW b \in Bit, NEW e \in Bit, e = 1 - b,
         \A q \in Path : ~TwinsAt(N, q),
         HotNodes(M) \subseteq HotNodes(N) \union {Child(p, e)},
         Child(p, b) \notin HotNodes(M)
  PROVE  \A q \in Path : ~TwinsAt(M, q)
<1>. SUFFICES ASSUME NEW q \in Path, TwinsAt(M, q) PROVE FALSE
  OBVIOUS
<1>1. Len(q) < W /\ \A d \in Bit : Child(q, d) \in HotNodes(M)
  BY TwinsAre
<1>2. \A d \in Bit : Child(q, d) = Child(p, e) => q = p
  BY <1>1, ChildInjective
<1>3. q # p
  BY <1>1
<1>4. \A d \in Bit : Child(q, d) \in HotNodes(N)
  BY <1>1, <1>2, <1>3
<1>. QED BY <1>1, <1>4, TwinsAre

LEMMA FewerTwins ==
  ASSUME NEW N, NEW M, HotNodes(M) \subseteq HotNodes(N), \A q \in Path : ~TwinsAt(N, q)
  PROVE  \A q \in Path : ~TwinsAt(M, q)
BY TwinsAre

\* A step that leaves a child to p and, but for p, all their children to the
\* nodes that are cold after it.
LEMMA LeavesKept ==
  ASSUME NEW N, NEW M, NEW p \in Path, NEW S,
         NEW b \in Bit, Kid(M, p, b) # NULL,
         \A q \in Path : M[q] # NULL /\ ~M[q].hot => N[q] # NULL /\ ~N[q].hot,
         \A q \in Path, d \in Bit :
           q # p /\ Len(q) < W /\ M[q] # NULL /\ N[Child(q, d)] # NULL => M[Child(q, d)] # NULL,
         \A q \in Path : ~ColdLeafAt(N, S, q)
  PROVE  \A q \in Path : ~ColdLeafAt(M, S, q)
<1>. SUFFICES ASSUME NEW q \in Path, ColdLeafAt(M, S, q) PROVE FALSE
  OBVIOUS
<1>1. /\ M[q] # NULL /\ ~M[q].hot /\ q \notin S
      /\ \A d \in Bit : Kid(M, q, d) = NULL
  BY DEF ColdLeafAt
<1>2. q # p /\ N[q] # NULL /\ ~N[q].hot
  BY <1>1
<1>3. PICK d \in Bit : Len(q) < W /\ N[Child(q, d)] # NULL
  BY <1>1, <1>2, NotColdLeaf
<1>4. M[Child(q, d)] # NULL
  BY <1>1, <1>2, <1>3
<1>. QED BY <1>1, <1>3, <1>4, KidThere

\* The addresses of a hot child are covered, those of a missing one are not.
LEMMA KidCover ==
  ASSUME NEW N, NEW r, GoodTree(N, r), NEW p \in Path, N[p] # NULL, ~N[p].hot,
         Len(p) < W, NEW b \in Bit, NEW x \in Address, Matches(Child(p, b), x)
  PROVE  /\ N[Child(p, b)] # NULL /\ N[Child(p, b)].hot => x \in Cover(N)
         /\ N[Child(p, b)] = NULL => x \notin Cover(N)
<1>. DEFINE c == Child(p, b)
<1>1. Covers(r, p)
  BY DEF GoodTree
<1>2. /\ c \in Path /\ Covers(r, c)
      /\ \A q \in Path : Covers(r, q) /\ StrictlyCovers(q, c) => N[q] = NULL \/ ~N[q].hot
  BY <1>1, NoneAboveKid
<1>. HIDE DEF c
<1>3. ASSUME N[c] # NULL, N[c].hot PROVE x \in Cover(N)
  <2>1. c \in HotNodes(N)
    BY <1>2, <1>3 DEF HotNodes
  <2>. QED BY <2>1, CoverIs DEF c
<1>4. ASSUME N[c] = NULL PROVE x \notin Cover(N)
  <2>1. \A q \in HotNodes(N) : q \in Path /\ N[q] # NULL
    BY DEF HotNodes
  <2>2. \A q \in HotNodes(N) : ~Covers(c, q)
    BY <1>2, <1>4, <2>1, CoversSplit, NothingBelow
  <2>3. x \in Cover(N) <=> \E q \in HotNodes(N) : Covers(c, q) /\ Matches(q, x)
    <3>1. Matches(c, x)
      BY DEF c
    <3>. QED BY <1>2, <3>1, CoverInside
  <2>. QED BY <2>2, <2>3
<1>. QED BY <1>3, <1>4 DEF c

\* No node but the root is a cold leaf.
NoColdLeaf(N, r) == \A p \in Path : ~ColdLeafAt(N, {r}, p)

\* A tree without cold leaves has hot ones.
LEMMA DeepestHot ==
  ASSUME NEW N, NEW r, GoodTree(N, r), NEW b \in Bit, Kid(N, r, b) # NULL, NoColdLeaf(N, r)
  PROVE  HotNodes(N) # {}
<1>. DEFINE T == {W - Len(q) : q \in {u \in Path : N[u] # NULL}}
<1>1. r \in Path /\ Len(r) < W /\ N[Child(r, b)] # NULL
  BY KidThere DEF GoodTree
<1>2. Child(r, b) \in Path /\ Len(Child(r, b)) = Len(r) + 1 /\ Len(r) \in Nat
  BY <1>1, ChildPath, PathIsSeq, WAssumption
<1>3. T \subseteq Nat /\ T # {}
  BY <1>1, <1>2, PathIsSeq, WAssumption
<1>4. PICK n \in T : \A m \in T : n <= m
  <2>. HIDE DEF T
  <2>. QED BY <1>3, LeastNat
<1>5. PICK q \in Path : N[q] # NULL /\ n = W - Len(q)
  BY <1>4
<1>6. \A u \in Path : N[u] # NULL => Len(u) <= Len(q)
  <2>. SUFFICES ASSUME NEW u \in Path, N[u] # NULL PROVE Len(u) <= Len(q)
    OBVIOUS
  <2>1. n <= W - Len(u)
    BY <1>4
  <2>. QED BY <1>5, <2>1, PathIsSeq, WAssumption
<1>7. q # r
  BY <1>1, <1>2, <1>6
<1>8. N[q].hot
  <2>. SUFFICES ASSUME ~N[q].hot PROVE FALSE
    OBVIOUS
  <2>1. PICK d \in Bit : Len(q) < W /\ Child(q, d) \in Path /\ N[Child(q, d)] # NULL
    BY <1>5, <1>7, NotColdLeaf DEF NoColdLeaf
  <2>2. Len(Child(q, d)) = Len(q) + 1 /\ Len(q) \in Nat
    BY <2>1, ChildPath, PathIsSeq, WAssumption
  <2>. QED BY <1>6, <2>1, <2>2
<1>. QED BY <1>5, <1>8 DEF HotNodes

-----------------------------------------------------------------------------
(***************************************************************************)
(* The steps of an inversion.                                              *)
(***************************************************************************)
\* The call at the top of an inversion, its node and its tree.
LEMMA InvertTopSet ==
  ASSUME IInv, SInv, NEW w, Running("inverting", w)
  PROVE  /\ stack # << >> /\ call = "inverting" /\ Top.at = w
         /\ stack \in Seq(Frames) /\ Nested(stack) /\ Top = Head(stack) /\ Top \in Frames
         /\ on \in TreeId /\ DOMAIN node = TreeId
         /\ GoodTree(node[on], root[on]) /\ root[on] \in Path
         /\ Top.node \in Path /\ Len(Top.node) \in Nat /\ Len(Top.node) <= W
         /\ node[on][Top.node] # NULL /\ ~node[on][Top.node].hot
         /\ Covers(root[on], Top.node)
         /\ on = "repl" => ~node[on][root[on]].hot
         /\ Len(root[on]) <= Len(Top.node)
         /\ \A p \in Path : ~TwinsAt(node[on], p)
         /\ \A p \in Path : ~ColdLeafAt(node[on], {root[on]}, p)
         /\ Invertible(node[on], Top)
         /\ w = "right" => Kid(node[on], Top.node, 0) # NULL /\ ~KidHot(node[on], Top.node, 1)
         /\ \A g \in FramesOf(Tail(stack)) :
              /\ g \in Frames /\ StrictlyCovers(g.node, Top.node) /\ g.at # "enter"
              /\ Invertible(node[on], g)
         /\ 0 \in Bit /\ 1 \in Bit
<1>1. /\ stack # << >> /\ call = "inverting" /\ Top.at = w
      /\ node[on][Top.node] # NULL /\ ~node[on][Top.node].hot
      /\ w = "right" => Kid(node[on], Top.node, 0) # NULL /\ ~KidHot(node[on], Top.node, 1)
  BY InvertTop
<1>2. /\ stack \in Seq(Frames) /\ Nested(stack) /\ Top = Head(stack) /\ Top \in Frames
      /\ Top.node \in Path
      /\ FramesOf(stack) = {Top} \union FramesOf(Tail(stack))
      /\ Covers(root[on], Top.node)
      /\ \A g \in FramesOf(Tail(stack)) :
           /\ g \in Frames /\ g.at \in {"right", "merge"} /\ StrictlyCovers(g.node, Top.node)
  BY <1>1, TopSet
<1>3. /\ on \in TreeId /\ DOMAIN node = TreeId
      /\ GoodTree(node[on], root[on]) /\ root[on] \in Path
      /\ on = "repl" => ~node[on][root[on]].hot
      /\ \A p \in Path : ~TwinsAt(node[on], p)
      /\ \A p \in Path : ~ColdLeafAt(node[on], {root[on]}, p)
      /\ \A f \in FramesOf(stack) : Invertible(node[on], f)
  BY <1>1, InvertFacts
<1>4. Len(Top.node) \in Nat /\ Len(Top.node) <= W /\ Len(root[on]) <= Len(Top.node)
  BY <1>2, <1>3, PathIsSeq, WAssumption, CoversLen
<1>5. \A g \in FramesOf(Tail(stack)) : Invertible(node[on], g) /\ g.at # "enter"
  BY <1>2, <1>3
<1>6. Invertible(node[on], Top)
  BY <1>2, <1>3
<1>. QED BY <1>1, <1>2, <1>3, <1>4, <1>5, <1>6 DEF Bit

\* A step at the top: it changes the tree below the top's node only, and
\* goes on with the calls of F.
LEMMA InvertStepKeeps ==
  ASSUME IInv, SInv, NEW w, Running("inverting", w), UnchangedByInvert,
         NEW M, node' = [node EXCEPT ![on] = M],
         \A q \in Path : Len(q) <= Len(Top.node) => M[q] = node[on][q],
         \A p \in Path : ~TwinsAt(M, p),
         \A p \in Path : ~ColdLeafAt(M, {root[on]}, p),
         NEW F, Nested(stack'), FramesOf(stack') = F \union FramesOf(Tail(stack)),
         \A f \in F : f \in Frames /\ Covers(Top.node, f.node) /\ Invertible(M, f),
         \A q \in Path : ~Covers(Top.node, q) => (q \in HotNodes(M) <=> q \in HotNodes(node[on])),
         \A x \in Address : Matches(Top.node, x) =>
           ((x \in Cover(M) <=> x \in Cover(node[on]))
              <=> (ToInvert(Top, x) <=> \E f \in F : ToInvert(f, x)))
  PROVE  SInv'
<1>1. /\ root' = root /\ phase' = phase /\ call' = call /\ on' = on /\ arg' = arg
      /\ out' = out /\ before' = before /\ why' = why
  BY DEF UnchangedByInvert
<1>2. /\ stack # << >> /\ call = "inverting" /\ on \in TreeId /\ DOMAIN node = TreeId
      /\ Top.node \in Path /\ root[on] \in Path /\ Len(root[on]) <= Len(Top.node)
      /\ on = "repl" => ~node[on][root[on]].hot
      /\ \A g \in FramesOf(Tail(stack)) :
           /\ g \in Frames /\ StrictlyCovers(g.node, Top.node) /\ g.at # "enter"
           /\ Invertible(node[on], g)
  BY InvertTopSet
<1>3. node'[on] = M
  BY <1>2
<1>4. Inverted'
  BY <1>1, <1>2, <1>3, InvertedIn
<1>5. \A g \in FramesOf(Tail(stack)) : Invertible(M, g)
  BY <1>2, InvertibleKept
<1>6. \A f \in FramesOf(stack') : Invertible(M, f)
  BY <1>5
<1>7. on = "repl" => ~M[root[on]].hot
  BY <1>2
<1>. QED BY <1>1, <1>2, <1>4, <1>6, <1>7, InvertKeeps

\* Such a step returns, or goes on with one call or two.
LEMMA InvertFrames ==
  ASSUME IInv, SInv, NEW w, Running("inverting", w)
  PROVE  /\ Resume(<< >>) => /\ Nested(stack')
                             /\ FramesOf(stack') = {} \union FramesOf(Tail(stack))
         /\ \A f \in Frames : Covers(Top.node, f.node) /\ Resume(<<f>>) =>
              Nested(stack') /\ FramesOf(stack') = {f} \union FramesOf(Tail(stack))
         /\ \A f \in Frames, h \in Frames :
              h.node = Top.node /\ WaitsFor(h, f.node) /\ Resume(<<f, h>>) =>
                Nested(stack') /\ FramesOf(stack') = {f, h} \union FramesOf(Tail(stack))
<1>1. /\ stack # << >> /\ stack \in Seq(Frames) /\ Nested(stack) /\ Top = Head(stack)
  BY InvertTopSet
<1>2. ASSUME Resume(<< >>)
      PROVE  Nested(stack') /\ FramesOf(stack') = {} \union FramesOf(Tail(stack))
  <2>1. stack' = << >> \o Tail(stack)
    BY <1>2 DEF Resume
  <2>2. Nested(stack') /\ stack' = Tail(stack)
    BY <1>1, <2>1, NestedReturns
  <2>. QED BY <2>2
<1>3. ASSUME NEW f \in Frames, Covers(Top.node, f.node), Resume(<<f>>)
      PROVE  Nested(stack') /\ FramesOf(stack') = {f} \union FramesOf(Tail(stack))
  <2>1. stack' = <<f>> \o Tail(stack)
    BY <1>3 DEF Resume
  <2>. QED BY <1>1, <1>3, <2>1, NestedContinues
<1>4. ASSUME NEW f \in Frames, NEW h \in Frames, h.node = Top.node, WaitsFor(h, f.node),
             Resume(<<f, h>>)
      PROVE  Nested(stack') /\ FramesOf(stack') = {f, h} \union FramesOf(Tail(stack))
  <2>1. stack' = <<f, h>> \o Tail(stack)
    BY <1>4 DEF Resume
  <2>2. h.node = Head(stack).node
    BY <1>1, <1>4
  <2>. QED BY <1>1, <1>4, <2>1, <2>2, NestedCalls
<1>. QED BY <1>2, <1>3, <1>4

\* A child that is there and cold has a child itself.
LEMMA InvertibleKid ==
  ASSUME NEW N, NEW r, GoodTree(N, r), NEW p \in Path, N[p] # NULL, ~N[p].hot,
         NEW b \in Bit, Kid(N, p, b) # NULL, ~KidHot(N, p, b),
         NoColdLeaf(N, r), NEW c, c = Child(p, b), NEW f, f = Frame("enter", c)
  PROVE  /\ Len(p) < W /\ c \in Path /\ Covers(p, c) /\ Len(c) = Len(p) + 1
         /\ N[c] # NULL /\ ~N[c].hot
         /\ \E d \in Bit : Len(c) < W /\ N[Child(c, d)] # NULL
         /\ f \in Frames /\ f.at = "enter" /\ f.node = c
         /\ Invertible(N, f)
<1>1. /\ Len(p) < W /\ c \in Path /\ Covers(p, c) /\ N[c] # NULL /\ ~N[c].hot
      /\ Len(c) = Len(p) + 1
  BY KidThere, ChildPath, BelowOwnChild
<1>2. c # r
  <2>1. Covers(r, p)
    BY DEF GoodTree
  <2>. QED BY <1>1, <2>1, ChildNotRoot
<1>3. f \in Frames /\ f.at = "enter" /\ f.node = c
  BY <1>1 DEF Frame, Frames
<1>4. PICK d \in Bit : Len(c) < W /\ N[Child(c, d)] # NULL /\ Kid(N, c, d) # NULL
  BY <1>1, <1>2, NotColdLeaf DEF NoColdLeaf
<1>5. Invertible(N, f)
  BY <1>3, <1>4 DEF Invertible
<1>. QED BY <1>1, <1>3, <1>4, <1>5

LEMMA InvertMoveSet ==
  ASSUME IInv, SInv, InvertMove
  PROVE  SInv'
<1>. DEFINE N == node[on]
            p == Top.node
<1>1. PICK b \in Bit :
        /\ KidHot(N, p, b) /\ Kid(N, p, 1 - b) = NULL
        /\ node' = [node EXCEPT ![on][Child(p, 1 - b)] = flip_addr_inplace(N[Child(p, b)]),
                                ![on][Child(p, b)] = NULL]
  BY DEF InvertMove
<1>. DEFINE e == 1 - b
            c == Child(p, b)
            d == Child(p, e)
            M == Moved(N, c, d)
            F == {}
<1>2. Running("inverting", "enter") /\ Resume(<< >>) /\ UnchangedByInvert
  BY DEF InvertMove
<1>3. /\ Top.at = "enter" /\ on \in TreeId /\ DOMAIN node = TreeId
      /\ GoodTree(N, root[on]) /\ root[on] \in Path
      /\ p \in Path /\ Len(p) \in Nat /\ N[p] # NULL /\ ~N[p].hot
      /\ \A q \in Path : ~TwinsAt(N, q)
      /\ \A q \in Path : ~ColdLeafAt(N, {root[on]}, q)
  BY <1>2, InvertTopSet
<1>4. node' = [node EXCEPT ![on] = M]
  BY <1>1, <1>3 DEF Moved
<1>5. /\ Len(p) < W /\ c \in Path /\ d \in Path /\ e \in Bit /\ b = 1 - e
      /\ N[c] # NULL /\ N[c].hot /\ N[d] = NULL
      /\ Covers(p, c) /\ Covers(p, d)
  <2>1. e \in Bit /\ b = 1 - e
    BY DEF Bit
  <2>. HIDE DEF N, p, e
  <2>2. Len(p) < W /\ N[c] # NULL /\ N[c].hot
    BY <1>1, <1>3, KidThere
  <2>3. N[d] = NULL
    BY <1>1, <2>2 DEF Kid, e
  <2>. QED BY <1>3, <2>1, <2>2, <2>3, ChildPath, BelowOwnChild
<1>6. e = 1 - b
  OBVIOUS
<1>. HIDE DEF N, p, e
<1>7. /\ GoodTree(M, root[on])
      /\ \A q \in Path : Len(q) <= Len(p) => M[q] = N[q]
  BY <1>3, <1>5, <1>6, MoveGood
<1>8. /\ \A q \in Path : q # c /\ q # d => M[q] = N[q]
      /\ M[c] = NULL /\ M[d] # NULL /\ M[d].hot
      /\ HotNodes(M) = (HotNodes(N) \ {c}) \union {d}
  BY <1>3, <1>5, <1>6, MovedNodes
<1>9. M[p] = N[p] /\ c # d
  BY <1>3, <1>7, <1>8
<1>10. \A q \in Path : ~TwinsAt(M, q)
  <2>1. c \notin HotNodes(M)
    BY <1>8 DEF HotNodes
  <2>. HIDE DEF M
  <2>2. HotNodes(M) \subseteq HotNodes(N) \union {Child(p, e)}
    BY <1>8
  <2>. QED BY <1>3, <1>5, <1>6, <2>1, <2>2, TwinsAdded
<1>11. \A q \in Path : ~ColdLeafAt(M, {root[on]}, q)
  <2>. HIDE DEF M
  <2>1. Kid(M, p, e) # NULL
    BY <1>3, <1>5, <1>8, KidThere
  <2>2. \A q \in Path : M[q] # NULL /\ ~M[q].hot => N[q] # NULL /\ ~N[q].hot
    BY <1>8
  <2>3. ASSUME NEW q \in Path, NEW a \in Bit, q # p, Len(q) < W, M[q] # NULL,
               N[Child(q, a)] # NULL
        PROVE  M[Child(q, a)] # NULL
    <3>1. Child(q, a) \in Path /\ Child(q, a) # c /\ Child(q, a) # d
      BY <1>3, <1>5, <2>3, ChildInjective, ChildPath
    <3>. QED BY <1>8, <2>3, <3>1
  <2>. QED BY <1>3, <1>5, <2>1, <2>2, <2>3, LeavesKept
<1>12. \A q \in Path : ~Covers(p, q) => (q \in HotNodes(M) <=> q \in HotNodes(N))
  BY <1>5, <1>8
<1>13. ASSUME NEW x \in Address, Matches(p, x)
       PROVE  (x \in Cover(M) <=> x \in Cover(N))
                <=> (ToInvert(Top, x) <=> \E f \in F : ToInvert(f, x))
  <2>. HIDE DEF M
  <2>1. ToInvert(Top, x)
    BY <1>3, <1>13 DEF ToInvert, p
  <2>2. Matches(c, x) \/ Matches(d, x)
    BY <1>3, <1>5, <1>6, <1>13, NetSplit DEF Bit
  <2>3. CASE Matches(c, x)
    BY <1>3, <1>5, <1>7, <1>8, <1>9, <2>1, <2>3, KidCover
  <2>4. CASE Matches(d, x)
    BY <1>3, <1>5, <1>7, <1>8, <1>9, <2>1, <2>4, KidCover
  <2>. QED BY <2>2, <2>3, <2>4
<1>14. Nested(stack') /\ FramesOf(stack') = F \union FramesOf(Tail(stack))
  BY <1>2, InvertFrames
<1>15. \A f \in F : f \in Frames /\ Covers(p, f.node) /\ Invertible(M, f)
  OBVIOUS
<1>. HIDE DEF M, F
<1>. QED BY <1>2, <1>4, <1>7, <1>10, <1>11, <1>12, <1>13, <1>14, <1>15, InvertStepKeeps DEF N, p

LEMMA InvertOtherSet ==
  ASSUME IInv, SInv, InvertOther
  PROVE  SInv'
<1>. DEFINE N == node[on]
            p == Top.node
<1>1. PICK b \in Bit :
        /\ KidHot(N, p, b) /\ Kid(N, p, 1 - b) # NULL /\ ~KidHot(N, p, 1 - b)
        /\ node' = [node EXCEPT ![on] = DestroyNode(@, Child(p, b))]
        /\ Resume(<<Frame("enter", Child(p, 1 - b))>>)
  BY DEF InvertOther
<1>. DEFINE e == 1 - b
            c == Child(p, b)
            d == Child(p, e)
            f == Frame("enter", d)
            M == DestroyNode(N, c)
<1>2. Running("inverting", "enter") /\ UnchangedByInvert
  BY DEF InvertOther
<1>3. /\ Top.at = "enter" /\ on \in TreeId /\ DOMAIN node = TreeId
      /\ GoodTree(N, root[on]) /\ root[on] \in Path
      /\ p \in Path /\ Len(p) \in Nat /\ N[p] # NULL /\ ~N[p].hot
      /\ \A q \in Path : ~TwinsAt(N, q)
      /\ \A q \in Path : ~ColdLeafAt(N, {root[on]}, q)
  BY <1>2, InvertTopSet
<1>4. node' = [node EXCEPT ![on] = M] /\ Resume(<<f>>)
  BY <1>1, <1>3
<1>5. e \in Bit /\ b = 1 - e /\ e = 1 - b
  BY DEF Bit
<1>. HIDE DEF N, p, e
<1>6. /\ Len(p) < W /\ c \in Path /\ N[c] # NULL /\ N[c].hot /\ Covers(p, c)
      /\ Len(c) = Len(p) + 1
  BY <1>1, <1>3, KidThere, ChildPath, BelowOwnChild
<1>7. /\ d \in Path /\ Covers(p, d) /\ N[d] # NULL /\ ~N[d].hot /\ Len(d) = Len(p) + 1
      /\ f \in Frames /\ f.at = "enter" /\ f.node = d
      /\ \E a \in Bit : Len(d) < W /\ N[Child(d, a)] # NULL
  <2>1. Kid(N, p, e) # NULL /\ ~KidHot(N, p, e)
    BY <1>1 DEF e
  <2>. HIDE DEF d, f
  <2>2. d = Child(p, e) /\ f = Frame("enter", d)
    BY DEF d, f
  <2>3. NoColdLeaf(N, root[on])
    BY <1>3 DEF NoColdLeaf
  <2>. QED BY <1>3, <1>5, <2>1, <2>2, <2>3, InvertibleKid
<1>8. Covers(root[on], c)
  BY <1>3, <1>6 DEF GoodTree
<1>9. \A q \in Path : Covers(c, q) /\ N[q] # NULL => q = c
  BY <1>3, <1>6, <1>8, CoversSplit, NothingBelow
<1>10. /\ \A q \in Path : M[q] = IF Covers(c, q) THEN NULL ELSE N[q]
       /\ HotNodes(M) = {q \in HotNodes(N) : ~Covers(c, q)}
  BY <1>6, DestroyNodeNodes
<1>. HIDE DEF M, f
<1>11. /\ \A q \in Path : q # c => M[q] = N[q]
       /\ M[c] = NULL
  BY <1>6, <1>9, <1>10, CoversSelf
<1>12. c # d
  BY <1>6, <1>7
<1>13. \A q \in Path : Len(q) <= Len(p) => M[q] = N[q]
  <2>1. \A q \in Path : Len(q) <= Len(p) => q # c
    BY <1>3, <1>6, PathIsSeq, WAssumption
  <2>. QED BY <1>11, <2>1
<1>14. \A q \in Path : ~TwinsAt(M, q)
  BY <1>3, <1>10, FewerTwins
<1>15. \A q \in Path : ~ColdLeafAt(M, {root[on]}, q)
  <2>1. Kid(M, p, e) # NULL
    BY <1>5, <1>6, <1>7, <1>11, <1>12, <1>3, KidThere
  <2>2. \A q \in Path : M[q] # NULL /\ ~M[q].hot => N[q] # NULL /\ ~N[q].hot
    BY <1>11
  <2>3. ASSUME NEW q \in Path, NEW a \in Bit, q # p, Len(q) < W, M[q] # NULL,
               N[Child(q, a)] # NULL
        PROVE  M[Child(q, a)] # NULL
    <3>1. Child(q, a) \in Path /\ Child(q, a) # c
      BY <1>3, <1>6, <2>3, ChildInjective, ChildPath
    <3>. QED BY <1>11, <2>3, <3>1
  <2>. QED BY <1>3, <1>5, <2>1, <2>2, <2>3, LeavesKept
<1>16. Invertible(M, f)
  <2>1. PICK a \in Bit : Len(d) < W /\ N[Child(d, a)] # NULL
    BY <1>7
  <2>2. Child(d, a) \in Path /\ Child(d, a) # c
    <3>1. d # p
      BY <1>3, <1>7
    <3>. QED BY <1>3, <1>6, <1>7, <2>1, <3>1, ChildPath, ChildInjective
  <2>3. Kid(M, d, a) # NULL
    BY <1>7, <1>11, <2>1, <2>2, KidThere
  <2>. QED BY <1>7, <2>3 DEF Invertible
<1>17. \A q \in Path : ~Covers(p, q) => (q \in HotNodes(M) <=> q \in HotNodes(N))
  <2>1. \A q \in Path : ~Covers(p, q) => ~Covers(c, q)
    BY <1>3, <1>6, CoversTransitive
  <2>. QED BY <1>10, <2>1
<1>18. GoodTree(M, root[on])
  <2>1. c # root[on]
    BY <1>3, <1>6, ChildNotRoot, GoodNode DEF GoodTree
  <2>. QED BY <1>3, <1>6, <2>1, DestroyNodeGood DEF M
<1>19. ASSUME NEW x \in Address, Matches(p, x)
       PROVE  (x \in Cover(M) <=> x \in Cover(N))
                <=> (ToInvert(Top, x) <=> \E g \in {f} : ToInvert(g, x))
  <2>1. ToInvert(Top, x) /\ (ToInvert(f, x) <=> Matches(d, x))
    BY <1>3, <1>7, <1>19 DEF ToInvert, p
  <2>2. (Matches(c, x) \/ Matches(d, x)) /\ ~(Matches(c, x) /\ Matches(d, x))
    BY <1>3, <1>5, <1>6, <1>19, NetSplit DEF Bit
  <2>3. CASE Matches(c, x)
    <3>1. x \in Cover(N)
      BY <1>3, <1>6, <2>3, KidCover
    <3>2. M[p] = N[p]
      BY <1>3, <1>13
    <3>3. x \notin Cover(M)
      BY <1>3, <1>6, <1>11, <1>18, <2>3, <3>2, KidCover
    <3>. QED BY <2>1, <2>2, <2>3, <3>1, <3>3
  <2>4. CASE ~Matches(c, x)
    <3>1. \A q \in Path : ~Covers(c, q) => (q \in HotNodes(M) <=> q \in HotNodes(N))
      BY <1>10
    <3>2. x \in Cover(M) <=> x \in Cover(N)
      BY <1>6, <2>4, <3>1, CoverOutside
    <3>. QED BY <2>1, <2>2, <2>4, <3>2
  <2>. QED BY <2>3, <2>4
<1>20. Nested(stack') /\ FramesOf(stack') = {f} \union FramesOf(Tail(stack))
  BY <1>2, <1>4, <1>7, InvertFrames DEF p
<1>21. \A g \in {f} : g \in Frames /\ Covers(p, g.node) /\ Invertible(M, g)
  BY <1>7, <1>16
<1>. QED BY <1>2, <1>4, <1>13, <1>14, <1>15, <1>17, <1>19, <1>20, <1>21, InvertStepKeeps DEF N, p

-----------------------------------------------------------------------------
\* The missing sibling of a child that is not hot is created, and is hot.
LEMMA CreateKeeps ==
  ASSUME NEW N, NEW r, GoodTree(N, r), NEW p \in Path, N[p] # NULL, ~N[p].hot,
         NEW b \in Bit, NEW e \in Bit, e = 1 - b,
         Kid(N, p, b) # NULL, ~KidHot(N, p, b), Kid(N, p, e) = NULL,
         \A q \in Path : ~TwinsAt(N, q), NoColdLeaf(N, r),
         NEW M, M = WithSibling(N, Child(p, b), Child(p, e))
  PROVE  /\ \A q \in Path : Len(q) <= Len(p) => M[q] = N[q]
         /\ \A q \in Path : ~TwinsAt(M, q)
         /\ NoColdLeaf(M, r)
         /\ \A q \in Path : ~Covers(p, q) => (q \in HotNodes(M) <=> q \in HotNodes(N))
         /\ \A x \in Address : (x \in Cover(M) <=> x \in Cover(N)) <=> ~Matches(Child(p, e), x)
         /\ Kid(M, p, b) # NULL
<1>. DEFINE c == Child(p, b)
            d == Child(p, e)
<1>2. /\ Len(p) < W /\ N[c] # NULL /\ ~N[c].hot /\ N[d] = NULL
      /\ c \in Path /\ d \in Path /\ c # d /\ Covers(p, c) /\ Covers(p, d)
  BY KidThere, ChildPath, BelowOwnChild
<1>3. \A q \in Path : Len(q) <= Len(p) => M[q] = N[q]
  BY <1>2, AddSiblingGood
<1>4. /\ \A q \in Path : q # d => M[q] = N[q]
      /\ M[d] # NULL /\ M[d].hot
      /\ HotNodes(M) = HotNodes(N) \union {d}
      /\ Cover(M) = Cover(N) \union NetOf(d)
  BY <1>2, SiblingNodes
<1>5. \A q \in Path : ~TwinsAt(M, q)
  <2>1. c \notin HotNodes(M)
    BY <1>2, <1>4 DEF HotNodes
  <2>. QED BY <1>2, <1>4, <2>1, TwinsAdded
<1>6. NoColdLeaf(M, r)
  <2>1. Kid(M, p, e) # NULL
    BY <1>2, <1>4, KidThere
  <2>2. \A q \in Path : M[q] # NULL /\ ~M[q].hot => N[q] # NULL /\ ~N[q].hot
    BY <1>4
  <2>3. \A q \in Path : N[q] # NULL => M[q] # NULL
    BY <1>4
  <2>4. \A q \in Path, a \in Bit : q # p /\ Len(q) < W /\ M[q] # NULL /\ N[Child(q, a)] # NULL
                                     => M[Child(q, a)] # NULL
    BY <2>3, ChildPath
  <2>. DEFINE S == {r}
  <2>5. \A q \in Path : ~ColdLeafAt(N, S, q)
    BY DEF NoColdLeaf
  <2>. HIDE DEF S
  <2>6. \A q \in Path : ~ColdLeafAt(M, S, q)
    BY <2>1, <2>2, <2>4, <2>5, LeavesKept
  <2>. QED BY <2>6 DEF NoColdLeaf, S
<1>8. \A q \in Path : ~Covers(p, q) => (q \in HotNodes(M) <=> q \in HotNodes(N))
  BY <1>2, <1>4
<1>9. ASSUME NEW x \in Address
      PROVE  (x \in Cover(M) <=> x \in Cover(N)) <=> ~Matches(Child(p, e), x)
  <2>1. Matches(d, x) => x \notin Cover(N)
    BY <1>2, KidCover
  <2>2. x \in Cover(M) <=> x \in Cover(N) \/ Matches(d, x)
    BY <1>4 DEF NetOf
  <2>. QED BY <2>1, <2>2
<1>10. Kid(M, p, b) # NULL
  BY <1>2, <1>4, KidThere
<1>. QED BY <1>3, <1>5, <1>6, <1>8, <1>9, <1>10

LEMMA InvertCreateLeftSet ==
  ASSUME IInv, SInv, InvertCreateLeft
  PROVE  SInv'
<1>. DEFINE N == node[on]
            p == Top.node
            f == Frame("right", p)
            F == {f}
            M == WithSibling(N, Child(p, 1), Child(p, 0))
<1>1. /\ Running("inverting", "enter") /\ NoKidHot(N, p)
      /\ Kid(N, p, 0) = NULL /\ Kid(N, p, 1) # NULL
      /\ node' = [node EXCEPT ![on][Child(p, 0)] = new_sibling(N[Child(p, 1)], TRUE)]
      /\ Resume(<<f>>) /\ UnchangedByInvert
  BY DEF InvertCreateLeft
<1>2. /\ Top.at = "enter" /\ on \in TreeId /\ DOMAIN node = TreeId
      /\ p \in Path /\ 0 \in Bit /\ 1 \in Bit
      /\ GoodTree(N, root[on]) /\ N[p] # NULL /\ ~N[p].hot
      /\ \A q \in Path : ~TwinsAt(N, q)
      /\ \A q \in Path : ~ColdLeafAt(N, {root[on]}, q)
  BY <1>1, InvertTopSet
<1>3. node' = [node EXCEPT ![on] = M]
  BY <1>1, <1>2 DEF WithSibling
<1>. HIDE DEF N, p, M
<1>4. ~KidHot(N, p, 1) /\ Len(p) < W
  BY <1>1, <1>2, KidThere DEF NoKidHot
<1>5. f \in Frames /\ f.at = "right" /\ f.node = p
  BY <1>2 DEF Frame, Frames
<1>. HIDE DEF f
<1>6. Nested(stack') /\ FramesOf(stack') = F \union FramesOf(Tail(stack))
  BY <1>1, <1>2, <1>5, CoversSelf, InvertFrames DEF p
<1>7. ASSUME NEW x \in Address, Matches(p, x)
      PROVE  (ToInvert(Top, x) <=> \E g \in F : ToInvert(g, x)) <=> ~Matches(Child(p, 0), x)
  <2>1. ToInvert(Top, x)
    BY <1>2, <1>7 DEF ToInvert, p
  <2>2. ToInvert(f, x) <=> x[Len(p) + 1] = 1
    BY <1>5, <1>7 DEF ToInvert
  <2>3. Matches(Child(p, 1), x) <=> x[Len(p) + 1] = 1
    BY <1>2, <1>4, <1>7, MatchesChild
  <2>. QED BY <1>2, <1>4, <1>7, <2>1, <2>2, <2>3, NetSplit
<1>8. M = WithSibling(N, Child(p, 1), Child(p, 0)) /\ NoColdLeaf(N, root[on]) /\ 0 = 1 - 1
  BY <1>2 DEF M, NoColdLeaf
<1>. HIDE DEF F
<1>9. /\ \A q \in Path : Len(q) <= Len(p) => M[q] = N[q]
      /\ \A q \in Path : ~TwinsAt(M, q)
      /\ NoColdLeaf(M, root[on])
      /\ \A q \in Path : ~Covers(p, q) => (q \in HotNodes(M) <=> q \in HotNodes(N))
      /\ \A x \in Address : (x \in Cover(M) <=> x \in Cover(N)) <=> ~Matches(Child(p, 0), x)
      /\ Kid(M, p, 1) # NULL
  BY <1>1, <1>2, <1>4, <1>8, CreateKeeps
<1>10. \A q \in Path : ~ColdLeafAt(M, {root[on]}, q)
  BY <1>9 DEF NoColdLeaf
<1>11. \A g \in F : g \in Frames /\ Covers(p, g.node) /\ Invertible(M, g)
  BY <1>2, <1>5, <1>9, CoversSelf DEF Invertible, F
<1>12. \A x \in Address : Matches(p, x) =>
         ((x \in Cover(M) <=> x \in Cover(N))
            <=> (ToInvert(Top, x) <=> \E g \in F : ToInvert(g, x)))
  BY <1>7, <1>9
<1>. QED BY <1>1, <1>3, <1>6, <1>9, <1>10, <1>11, <1>12, InvertStepKeeps DEF N, p

LEMMA InvertCreateRightSet ==
  ASSUME IInv, SInv, InvertCreateRight
  PROVE  SInv'
<1>. DEFINE N == node[on]
            p == Top.node
            F == {}
            M == WithSibling(N, Child(p, 0), Child(p, 1))
<1>1. /\ Running("inverting", "right") /\ Kid(N, p, 1) = NULL
      /\ node' = [node EXCEPT ![on][Child(p, 1)] = new_sibling(N[Child(p, 0)], TRUE)]
      /\ Resume(<< >>) /\ UnchangedByInvert
  BY DEF InvertCreateRight
<1>2. /\ Top.at = "right" /\ on \in TreeId /\ DOMAIN node = TreeId
      /\ p \in Path /\ 0 \in Bit /\ 1 \in Bit /\ Kid(N, p, 0) # NULL /\ Invertible(N, Top)
      /\ GoodTree(N, root[on]) /\ N[p] # NULL /\ ~N[p].hot
      /\ \A q \in Path : ~TwinsAt(N, q)
      /\ \A q \in Path : ~ColdLeafAt(N, {root[on]}, q)
  BY <1>1, InvertTopSet
<1>3. node' = [node EXCEPT ![on] = M]
  BY <1>1, <1>2 DEF WithSibling
<1>4. ~KidHot(N, p, 0)
  BY <1>1, <1>2 DEF Invertible
<1>. HIDE DEF N, p, M
<1>5. Len(p) < W
  BY <1>2, KidThere
<1>6. Nested(stack') /\ FramesOf(stack') = F \union FramesOf(Tail(stack))
  BY <1>1, InvertFrames
<1>7. ASSUME NEW x \in Address, Matches(p, x)
      PROVE  (ToInvert(Top, x) <=> \E g \in F : ToInvert(g, x)) <=> ~Matches(Child(p, 1), x)
  <2>1. ToInvert(Top, x) <=> x[Len(p) + 1] = 1
    BY <1>2, <1>7 DEF ToInvert, p
  <2>2. Matches(Child(p, 1), x) <=> x[Len(p) + 1] = 1
    BY <1>2, <1>5, <1>7, MatchesChild
  <2>. QED BY <2>1, <2>2
<1>8. M = WithSibling(N, Child(p, 0), Child(p, 1)) /\ NoColdLeaf(N, root[on]) /\ 1 = 1 - 0
  BY <1>2 DEF M, NoColdLeaf
<1>. HIDE DEF F
<1>9. /\ \A q \in Path : Len(q) <= Len(p) => M[q] = N[q]
      /\ \A q \in Path : ~TwinsAt(M, q)
      /\ NoColdLeaf(M, root[on])
      /\ \A q \in Path : ~Covers(p, q) => (q \in HotNodes(M) <=> q \in HotNodes(N))
      /\ \A x \in Address : (x \in Cover(M) <=> x \in Cover(N)) <=> ~Matches(Child(p, 1), x)
      /\ Kid(M, p, 0) # NULL
  BY <1>1, <1>2, <1>4, <1>8, CreateKeeps
<1>10. \A q \in Path : ~ColdLeafAt(M, {root[on]}, q)
  BY <1>9 DEF NoColdLeaf
<1>11. \A g \in F : g \in Frames /\ Covers(p, g.node) /\ Invertible(M, g)
  BY <1>2, <1>9, CoversSelf DEF Invertible, F
<1>12. \A x \in Address : Matches(p, x) =>
         ((x \in Cover(M) <=> x \in Cover(N))
            <=> (ToInvert(Top, x) <=> \E g \in F : ToInvert(g, x)))
  BY <1>7, <1>9
<1>. QED BY <1>1, <1>3, <1>6, <1>9, <1>10, <1>11, <1>12, InvertStepKeeps DEF N, p

\* A step that only goes on with other calls.
LEMMA InvertGoesOn ==
  ASSUME IInv, SInv, NEW w, Running("inverting", w), UnchangedByInvert, node' = node,
         NEW F, Nested(stack'), FramesOf(stack') = F \union FramesOf(Tail(stack)),
         \A f \in F : f \in Frames /\ Covers(Top.node, f.node) /\ Invertible(node[on], f),
         \A x \in Address : Matches(Top.node, x) =>
           (ToInvert(Top, x) <=> \E f \in F : ToInvert(f, x))
  PROVE  SInv'
<1>1. /\ on \in TreeId /\ DOMAIN node = TreeId
      /\ \A q \in Path : ~TwinsAt(node[on], q)
      /\ \A q \in Path : ~ColdLeafAt(node[on], {root[on]}, q)
  BY InvertTopSet
<1>2. node' = [node EXCEPT ![on] = node[on]]
  <2>1. node \in [TreeId -> [Path -> Node \union {NULL}]]
    BY DEF IInv, TypeOK
  <2>. QED BY <1>1, <2>1
<1>. QED BY <1>1, <1>2, InvertStepKeeps

LEMMA InvertLeftSet ==
  ASSUME IInv, SInv, InvertLeft
  PROVE  SInv'
<1>. DEFINE N == node[on]
            p == Top.node
            c == Child(p, 0)
            f == Frame("enter", c)
            h == Frame("right", p)
            F == {f, h}
<1>1. /\ Running("inverting", "enter") /\ NoKidHot(N, p) /\ Kid(N, p, 0) # NULL
      /\ Resume(<<f, h>>) /\ node' = node /\ UnchangedByInvert
  BY DEF InvertLeft
<1>2. /\ Top.at = "enter" /\ on \in TreeId /\ GoodTree(N, root[on])
      /\ p \in Path /\ N[p] # NULL /\ ~N[p].hot /\ 0 \in Bit /\ 1 \in Bit
      /\ \A q \in Path : ~ColdLeafAt(N, {root[on]}, q)
  BY <1>1, InvertTopSet
<1>. HIDE DEF N, p
<1>3. NoColdLeaf(N, root[on]) /\ ~KidHot(N, p, 0)
  BY <1>1, <1>2 DEF NoColdLeaf, NoKidHot
<1>4. c = Child(p, 0) /\ f = Frame("enter", c)
  OBVIOUS
<1>. HIDE DEF c, f
<1>5. /\ Len(p) < W /\ c \in Path /\ Covers(p, c) /\ N[c] # NULL /\ ~N[c].hot
      /\ f \in Frames /\ f.at = "enter" /\ f.node = c /\ Invertible(N, f)
  BY <1>1, <1>2, <1>3, <1>4, InvertibleKid
<1>6. /\ h \in Frames /\ h.at = "right" /\ h.node = p /\ Covers(p, p)
      /\ Invertible(N, h)
  <2>1. h \in Frames /\ h.at = "right" /\ h.node = p
    BY <1>2 DEF Frame, Frames
  <2>. HIDE DEF h
  <2>. QED BY <1>2, <1>3, <2>1, CoversSelf DEF Invertible
<1>. HIDE DEF h
<1>7. WaitsFor(h, c)
  BY <1>2, <1>4, <1>5, <1>6, BelowOwnChild DEF WaitsFor
<1>8. Nested(stack') /\ FramesOf(stack') = F \union FramesOf(Tail(stack))
  BY <1>1, <1>5, <1>6, <1>7, InvertFrames DEF p
<1>9. ASSUME NEW x \in Address, Matches(p, x)
      PROVE  ToInvert(Top, x) <=> \E g \in F : ToInvert(g, x)
  <2>1. ToInvert(Top, x)
    BY <1>2, <1>9 DEF ToInvert, p
  <2>2. ToInvert(f, x) <=> Matches(Child(p, 0), x)
    BY <1>4, <1>5 DEF ToInvert
  <2>3. ToInvert(h, x) <=> x[Len(p) + 1] = 1
    BY <1>6, <1>9 DEF ToInvert
  <2>4. Matches(Child(p, 1), x) <=> x[Len(p) + 1] = 1
    BY <1>2, <1>5, <1>9, MatchesChild
  <2>. QED BY <1>2, <1>5, <1>9, <2>1, <2>2, <2>3, <2>4, NetSplit
<1>10. \A g \in F : g \in Frames /\ Covers(p, g.node) /\ Invertible(N, g)
  BY <1>5, <1>6
<1>. HIDE DEF F
<1>. QED BY <1>1, <1>8, <1>9, <1>10, InvertGoesOn DEF N, p

LEMMA InvertRightSet ==
  ASSUME IInv, SInv, InvertRight
  PROVE  SInv'
<1>. DEFINE N == node[on]
            p == Top.node
            c == Child(p, 1)
            f == Frame("enter", c)
            F == {f}
<1>1. /\ Running("inverting", "right") /\ Kid(N, p, 1) # NULL
      /\ Resume(<<f>>) /\ node' = node /\ UnchangedByInvert
  BY DEF InvertRight
<1>2. /\ Top.at = "right" /\ on \in TreeId /\ GoodTree(N, root[on])
      /\ p \in Path /\ N[p] # NULL /\ ~N[p].hot /\ 0 \in Bit /\ 1 \in Bit
      /\ \A q \in Path : ~ColdLeafAt(N, {root[on]}, q)
      /\ ~KidHot(N, p, 1)
  BY <1>1, InvertTopSet
<1>. HIDE DEF N, p
<1>3. NoColdLeaf(N, root[on])
  BY <1>2 DEF NoColdLeaf
<1>4. c = Child(p, 1) /\ f = Frame("enter", c)
  OBVIOUS
<1>. HIDE DEF c, f
<1>5. /\ Len(p) < W /\ c \in Path /\ Covers(p, c) /\ N[c] # NULL /\ ~N[c].hot
      /\ f \in Frames /\ f.at = "enter" /\ f.node = c /\ Invertible(N, f)
  BY <1>1, <1>2, <1>3, <1>4, InvertibleKid
<1>8. Nested(stack') /\ FramesOf(stack') = F \union FramesOf(Tail(stack))
  BY <1>1, <1>5, InvertFrames DEF p
<1>9. ASSUME NEW x \in Address, Matches(p, x)
      PROVE  ToInvert(Top, x) <=> \E g \in F : ToInvert(g, x)
  <2>1. ToInvert(Top, x) <=> x[Len(p) + 1] = 1
    BY <1>2, <1>9 DEF ToInvert, p
  <2>2. ToInvert(f, x) <=> Matches(Child(p, 1), x)
    BY <1>4, <1>5 DEF ToInvert
  <2>4. Matches(Child(p, 1), x) <=> x[Len(p) + 1] = 1
    BY <1>2, <1>5, <1>9, MatchesChild
  <2>. QED BY <2>1, <2>2, <2>4
<1>10. \A g \in F : g \in Frames /\ Covers(p, g.node) /\ Invertible(N, g)
  BY <1>5
<1>. HIDE DEF F
<1>. QED BY <1>1, <1>8, <1>9, <1>10, InvertGoesOn DEF N, p

-----------------------------------------------------------------------------
(***************************************************************************)
(* How an inversion begins and ends.                                       *)
(***************************************************************************)
\* Was is the main tree's set, or the one address of purge's tree.
LEMMA WasSet ==
  ASSUME IInv, SInv, call = "invert"
  PROVE  /\ on = "main" => Was = Cover(node[on])
         /\ on = "repl" => /\ Was = NetOf(ArgPath) /\ Was # {} /\ ArgPath \in Path
                           /\ HotNodes(node[on]) = {ArgPath} /\ Cover(node[on]) = Was
<1>1. on = "main" => Was = Cover(node[on])
  BY SetParts DEF Inverting, Was
<1>2. ASSUME on = "repl"
      PROVE  /\ Was = NetOf(ArgPath) /\ Was # {} /\ ArgPath \in Path
             /\ HotNodes(node[on]) = {ArgPath} /\ Cover(node[on]) = Was
  <2>1. ArgPath \in Path
    BY TreeFacts, ArgPathIs
  <2>2. HotNodes(node[on]) = {ArgPath}
    BY <1>2, SetParts DEF ReplBuilt
  <2>3. Was = NetOf(ArgPath)
    BY <1>2 DEF Was
  <2>. QED BY <2>1, <2>2, <2>3, NetNotEmpty, CoverOne
<1>. QED BY <1>1, <1>2

LEMMA InvertHotRootSet ==
  ASSUME IInv, SInv, InvertHotRoot
  PROVE  SInv'
<1>. DEFINE N == node[on]
            r == root[on]
            M == SetHot(DestroyKids(N, r), r, FALSE)
<1>1. /\ call = "invert" /\ N[r].hot /\ call' = "inverting" /\ stack' = << >>
      /\ root' = root /\ phase' = phase /\ on' = on /\ arg' = arg /\ out' = out
      /\ before' = before /\ why' = why
      /\ node' = [node EXCEPT ![on] = SetHot(DestroyKids(@, r), r, FALSE)]
  BY DEF InvertHotRoot
<1>2. /\ on = "main" /\ r = << >> /\ GoodTree(N, r) /\ N[r] # NULL /\ r \in Path
      /\ DOMAIN node = TreeId /\ on \in TreeId
  BY <1>1, InvertFacts DEF TreeId
<1>3. node' = [node EXCEPT ![on] = M]
  BY <1>1, <1>2
<1>4. Was = Cover(N)
  BY <1>1, <1>2, WasSet
<1>. HIDE DEF N, r
<1>5. /\ \A q \in Path : q # r => M[q] = IF StrictlyCovers(r, q) THEN NULL ELSE N[q]
      /\ M[r] # NULL /\ M[r].hot = FALSE
      /\ HotNodes(M) = {q \in HotNodes(N) : ~Covers(r, q)} \union {}
  <2>. DEFINE h == FALSE
  <2>1. h \in BOOLEAN /\ M = SetHot(DestroyKids(N, r), r, h)
    OBVIOUS
  <2>. HIDE DEF h, M
  <2>2. /\ \A q \in Path : q # r => M[q] = IF StrictlyCovers(r, q) THEN NULL ELSE N[q]
        /\ M[r] # NULL /\ M[r].hot = h
        /\ HotNodes(M) = {q \in HotNodes(N) : ~Covers(r, q)} \union (IF h THEN {r} ELSE {})
    BY <1>2, <2>1, JoinedNodes
  <2>. QED BY <2>2 DEF h
<1>. HIDE DEF M
<1>6. \A q \in Path : M[q] # NULL => q = r
  <2>1. \A q \in Path : N[q] # NULL => Covers(r, q)
    BY <1>2 DEF GoodTree
  <2>. QED BY <1>2, <1>5, <2>1, CoversSplit
<1>7. HotNodes(M) = {}
  BY <1>5, <1>6 DEF HotNodes
<1>8. \A x \in Address : x \in Cover(N) /\ x \notin Cover(M)
  <2>1. r \in HotNodes(N)
    BY <1>1, <1>2 DEF HotNodes, N, r
  <2>2. \A x \in Address : Matches(r, x)
    BY <1>2, RootMatches
  <2>. QED BY <1>7, <2>1, <2>2, CoverIs
<1>9. Was' = Was /\ Was # {}
  <2>1. Was' = Was
    BY <1>1 DEF Was, ArgPath
  <2>. QED BY <1>2, <1>4, <1>8, <2>1, NetNotEmpty
<1>10. \A x \in NetOf(r) : x \in Cover(M) <=> (x \in Was <=> \E f \in FramesOf(stack') : ToInvert(f, x))
  <2>1. FramesOf(stack') = {}
    BY <1>1, FramesOfNone
  <2>. QED BY <1>4, <1>8, <2>1 DEF NetOf
<1>11. Inverted'
  <2>1. node'[on'] = M /\ root'[on'] = r
    BY <1>1, <1>2, <1>3 DEF r
  <2>. QED BY <1>9, <1>10, <2>1 DEF Inverted
<1>12. \A p \in Path : ~TwinsAt(M, p)
  BY <1>7, NoTwins
<1>13. \A p \in Path : ~ColdLeafAt(M, {root[on]}, p)
  BY <1>6 DEF ColdLeafAt, r
<1>14. Nested(stack') /\ \A f \in FramesOf(stack') : Invertible(M, f)
  BY <1>1, FramesOfNone
<1>. QED BY <1>1, <1>2, <1>3, <1>11, <1>12, <1>13, <1>14, InvertKeeps

\* A step that leaves the tree alone.
LEMMA InvertBegins ==
  ASSUME IInv, SInv, call = "invert", call' = "inverting",
         node' = node, root' = root, phase' = phase, on' = on, arg' = arg, out' = out,
         before' = before, why' = why,
         Nested(stack'), Inverted', \A f \in FramesOf(stack') : Invertible(node[on], f)
  PROVE  SInv'
<1>1. /\ on \in TreeId /\ DOMAIN node = TreeId
      /\ \A q \in Path : ~TwinsAt(node[on], q)
      /\ \A q \in Path : ~ColdLeafAt(node[on], {root[on]}, q)
      /\ on = "repl" => ~node[on][root[on]].hot
  BY InvertFacts
<1>2. node' = [node EXCEPT ![on] = node[on]]
  <2>1. node \in [TreeId -> [Path -> Node \union {NULL}]]
    BY DEF IInv, TypeOK
  <2>. QED BY <1>1, <2>1
<1>. QED BY <1>1, <1>2, InvertKeeps

LEMMA InvertEmptySet ==
  ASSUME IInv, SInv, InvertEmpty
  PROVE  SInv'
<1>. DEFINE N == node[on]
            r == root[on]
<1>1. /\ call = "invert" /\ ~N[r].hot /\ call' = "inverting" /\ stack' = << >>
      /\ \A b \in Bit : Kid(N, r, b) = NULL
      /\ node' = node /\ root' = root /\ phase' = phase /\ on' = on /\ arg' = arg /\ out' = out
      /\ before' = before /\ why' = why
  BY DEF InvertEmpty
<1>2. /\ on \in TreeId /\ r \in Path /\ GoodTree(N, r) /\ N[r] # NULL
  BY <1>1, InvertFacts
<1>. HIDE DEF N, r
<1>3. HotNodes(N) = {}
  <2>1. \A q \in HotNodes(N) : q \in Path /\ N[q] # NULL /\ N[q].hot
    BY DEF HotNodes
  <2>2. \A q \in HotNodes(N) : StrictlyCovers(r, q)
    <3>1. \A q \in HotNodes(N) : Covers(r, q)
      BY <1>2, <2>1 DEF GoodTree
    <3>2. \A q \in HotNodes(N) : q # r
      BY <1>1, <2>1
    <3>. QED BY <1>2, <2>1, <3>1, <3>2, CoversSplit
  <2>3. \A q \in HotNodes(N) : \E b \in Bit : Below(r, q, b)
    BY <1>2, <2>1, <2>2, BelowSplit DEF Bit
  <2>4. Covers(r, r)
    BY <1>2, CoversSelf
  <2>. QED BY <1>1, <1>2, <2>1, <2>3, <2>4, MissingSubtree
<1>4. Cover(N) = {} /\ Was = {}
  <2>1. on # "repl"
    BY <1>1, <1>3, WasSet DEF N
  <2>. QED BY <1>1, <1>2, <1>3, <2>1, CoverNone, WasSet DEF N, TreeId
<1>5. Was' = Was
  BY <1>1 DEF Was, ArgPath
<1>6. Inverted'
  BY <1>1, <1>4, <1>5 DEF Inverted, N
<1>7. Nested(stack') /\ FramesOf(stack') = {}
  BY <1>1, FramesOfNone
<1>. QED BY <1>1, <1>6, <1>7, InvertBegins

LEMMA InvertRootSet ==
  ASSUME IInv, SInv, InvertRoot
  PROVE  SInv'
<1>. DEFINE N == node[on]
            r == root[on]
            f == Frame("enter", r)
<1>1. /\ call = "invert" /\ ~N[r].hot /\ call' = "inverting" /\ stack' = <<f>>
      /\ node' = node /\ root' = root /\ phase' = phase /\ on' = on /\ arg' = arg /\ out' = out
      /\ before' = before /\ why' = why
  BY DEF InvertRoot, Recurse
<1>2. PICK b \in Bit : Kid(N, r, b) # NULL
  BY DEF InvertRoot
<1>3. /\ on \in TreeId /\ r \in Path /\ GoodTree(N, r) /\ N[r] # NULL
      /\ \A p \in Path : ~ColdLeafAt(N, {r}, p)
  BY <1>1, InvertFacts
<1>. HIDE DEF N, r
<1>4. NoColdLeaf(N, r)
  BY <1>3 DEF NoColdLeaf
<1>5. Cover(N) # {}
  <2>1. PICK q \in HotNodes(N) : TRUE
    BY <1>2, <1>3, <1>4, DeepestHot
  <2>2. q \in Path
    BY DEF HotNodes
  <2>. QED BY <2>1, <2>2, CoverHot, NetNotEmpty
<1>6. Was = Cover(N)
  BY <1>1, <1>3, WasSet DEF N, TreeId
<1>7. /\ f.at = "enter" /\ f.node = r /\ Nested(stack') /\ FramesOf(stack') = {f}
  BY <1>1, <1>3, FirstFrame
<1>. HIDE DEF f
<1>8. Was' = Was
  BY <1>1 DEF Was, ArgPath
<1>9. \A x \in NetOf(r) : x \in Cover(N) <=> (x \in Was <=> \E g \in FramesOf(stack') : ToInvert(g, x))
  <2>1. \A x \in NetOf(r) : ToInvert(f, x)
    BY <1>7 DEF ToInvert, NetOf
  <2>. QED BY <1>6, <1>7, <2>1
<1>10. Inverted'
  <2>1. node'[on'] = N /\ root'[on'] = r
    BY <1>1 DEF N, r
  <2>. QED BY <1>5, <1>6, <1>8, <1>9, <2>1 DEF Inverted
<1>11. \A g \in FramesOf(stack') : Invertible(N, g)
  BY <1>2, <1>7 DEF Invertible
<1>. QED BY <1>1, <1>7, <1>10, <1>11, InvertBegins DEF N

\* _ip_tree_invert() fails for want of memory only.
LEMMA InvertFailsSet ==
  ASSUME IInv, SInv, InvertFails
  PROVE  SInv'
<1>. DEFINE N == node[on]
            p == Top.node
<1>1. call = "inverting" /\ stack # << >>
  BY DEF InvertFails
<1>2. PICK e \in InvertErrors(p, Top.at) : Abort(e)
  BY DEF InvertFails
<1>3. e # "invalid"
  <2>. SUFFICES ASSUME e = "invalid" PROVE FALSE
    OBVIOUS
  <2>1. /\ Top.at = "enter"
        /\ (\A b \in Bit : KidHot(N, p, b)) \/ (\A b \in Bit : Kid(N, p, b) = NULL)
    BY <1>2 DEF InvertErrors
  <2>2. Running("inverting", "enter")
    BY <1>1, <2>1 DEF Running
  <2>3. p \in Path /\ Invertible(N, Top) /\ ~TwinsAt(N, p)
    BY <2>2, InvertTopSet
  <2>. HIDE DEF N, p
  <2>4. PICK b \in Bit : Kid(N, Top.node, b) # NULL
    BY <2>1, <2>3 DEF Invertible
  <2>. QED BY <2>1, <2>3, <2>4 DEF TwinsAt, p
<1>4. e = "malloc"
  BY <1>2, <1>3 DEF InvertErrors
<1>. QED BY <1>2, <1>4, AbortSet

-----------------------------------------------------------------------------
(***************************************************************************)
(* The ends of an inversion and of a purge.                                *)
(***************************************************************************)
LEMMA ReturnsSet ==
  ASSUME IInv, SInv, phase \in {"invert", "purge"}, phase' = "purge", call' = "none",
         on' = "main", stack' = << >>, out' = out, why' = why,
         \A p \in Path : ~TwinsAt(node'["main"], p)
  PROVE  SInv'
<1>1. Collected' /\ OutputSorted' /\ Collapsing' /\ Inverting' /\ Nested(stack)'
  BY NoOutput, NoRecursion
<1>2. OnTheWay' /\ ReplBuilt'
  BY DEF OnTheWay, ReplBuilt
<1>3. Canonical'
  BY SetParts DEF Canonical
<1>. QED BY <1>1, <1>2, <1>3 DEF SInv

LEMMA InvertReturnsSet ==
  ASSUME IInv, SInv, InvertReturns
  PROVE  SInv'
<1>1. /\ call = "inverting" /\ on = "main" /\ node' = node /\ phase' = "purge"
      /\ call' = "none" /\ on' = "main" /\ stack' = << >> /\ out' = out /\ why' = why
  BY DEF InvertReturns, OpDone
<1>2. phase = "invert" /\ \A p \in Path : ~TwinsAt(node["main"], p)
  BY <1>1, InvertFacts
<1>. QED BY <1>1, <1>2, ReturnsSet

LEMMA InvertSet ==
  ASSUME IInv, SInv, InvertSteps
  PROVE  SInv'
BY InvertHotRootSet, InvertEmptySet, InvertRootSet, InvertMoveSet, InvertOtherSet,
   InvertCreateLeftSet, InvertLeftSet, InvertCreateRightSet, InvertRightSet,
   InvertFailsSet, InvertReturnsSet DEF InvertSteps

-----------------------------------------------------------------------------
(***************************************************************************)
(* The steps of a purge.                                                   *)
(***************************************************************************)
LEMMA PurgeReturnsSet ==
  ASSUME IInv, SInv, call = "purge", PurgeReturns, \A p \in Path : ~TwinsAt(node'["main"], p)
  PROVE  SInv'
<1>1. phase = "purge"
  BY PurgeFacts
<1>2. /\ phase' = phase /\ call' = "none" /\ on' = "main" /\ stack' = << >> /\ out' = out
      /\ why' = why
  BY DEF PurgeReturns, OpDone
<1>. QED BY <1>1, <1>2, ReturnsSet

LEMMA PurgeStart ==
  ASSUME IInv, SInv, call = "purge"
  PROVE  /\ on = "main" /\ phase = "purge" /\ \A p \in Path : ~TwinsAt(node["main"], p)
         /\ GoodTree(node["main"], << >>) /\ node["main"][<< >>] # NULL /\ << >> \in Path
         /\ root["main"] = << >> /\ "main" \in TreeId /\ arg \in Addr /\ arg.len \in 0..W
         /\ DOMAIN node = TreeId /\ node["repl"] = NoNodes /\ stack = << >>
<1>1. /\ on = "main" /\ phase = "purge" /\ stack = << >>
      /\ Trees /\ GoodTree(node["main"], << >>) /\ node["main"][<< >>] # NULL
      /\ root["main"] = << >> /\ "main" \in TreeId /\ arg \in Addr /\ arg.len \in 0..W
      /\ DOMAIN node = TreeId
  BY PurgeFacts, TreeFacts
<1>2. node["repl"] = NoNodes
  BY <1>1 DEF Trees
<1>. QED BY <1>1, <1>2, SetParts, EmptyPath DEF Canonical

LEMMA PurgeNodeSet ==
  ASSUME IInv, SInv, PurgeNode
  PROVE  SInv'
<1>. DEFINE N == node["main"]
            p == Position("main", arg, arg.len)
            M == IF p = root["main"] THEN DestroyKids(SetHot(N, p, FALSE), p)
                 ELSE DestroyNode(N, p)
<1>1. /\ call = "purge" /\ FindHit("main", arg) /\ PurgeReturns
      /\ node' = [node EXCEPT !["main"] =
                    IF p = root["main"] THEN DestroyKids(SetHot(@, p, FALSE), p)
                    ELSE DestroyNode(@, p)]
  BY DEF PurgeNode
<1>2. /\ GoodTree(N, << >>) /\ N[<< >>] # NULL /\ root["main"] = << >> /\ << >> \in Path
      /\ "main" \in TreeId /\ DOMAIN node = TreeId /\ arg \in Addr /\ arg.len \in 0..W
      /\ \A q \in Path : ~TwinsAt(N, q)
  BY <1>1, PurgeStart
<1>3. node'["main"] = M
  BY <1>1, <1>2
<1>4. p \in Path /\ N[p] # NULL
  BY <1>1, <1>2, FindFacts DEF FindHit
<1>. HIDE DEF N, p
<1>5. HotNodes(M) \subseteq HotNodes(N)
  <2>1. CASE p = root["main"]
    <3>. DEFINE h == FALSE
    <3>0. h \in BOOLEAN
      OBVIOUS
    <3>1. M = DestroyKids(SetHot(N, p, h), p)
      BY <2>1
    <3>. HIDE DEF M
    <3>2. M = SetHot(DestroyKids(N, p), p, h)
      BY <1>2, <1>4, <3>0, <3>1, MarkedIsJoined
    <3>3. HotNodes(M) = {q \in HotNodes(N) : ~Covers(p, q)} \union (IF h THEN {p} ELSE {})
      <4>. HIDE DEF h
      <4>. QED BY <1>2, <1>4, <3>0, <3>2, JoinedNodes
    <3>. QED BY <3>3
  <2>2. CASE p # root["main"]
    <3>1. M = DestroyNode(N, p)
      BY <2>2
    <3>. HIDE DEF M
    <3>. QED BY <1>4, <3>1, DestroyNodeNodes
  <2>. QED BY <2>1, <2>2
<1>. HIDE DEF M
<1>6. \A q \in Path : ~TwinsAt(M, q)
  BY <1>2, <1>5, FewerTwins
<1>. QED BY <1>1, <1>3, <1>6, PurgeReturnsSet

LEMMA PurgeParentSet ==
  ASSUME IInv, SInv, PurgeParent
  PROVE  SInv'
<1>1. /\ call = "purge" /\ on' = "repl" /\ call' = "insert"
      /\ phase' = phase /\ arg' = arg /\ stack' = stack /\ out' = out /\ why' = why
  BY DEF PurgeParent
<1>2. PICK k \in 0..W :
        /\ FindHotParent("main", arg, k)
        /\ LET p == Position("main", arg, k) IN
           /\ node' = [node EXCEPT !["repl"] =
                         [@ EXCEPT ![p] = [new_null EXCEPT !.addr = node["main"][p].addr]]]
           /\ root' = [root EXCEPT !["repl"] = p]
  BY DEF PurgeParent
<1>. DEFINE N == node["main"]
            p == Position("main", arg, k)
            n == [new_null EXCEPT !.addr = N[p].addr]
            R == [NoNodes EXCEPT ![p] = n]
<1>3. /\ phase = "purge" /\ \A q \in Path : ~TwinsAt(N, q)
      /\ GoodTree(N, << >>) /\ N[<< >>] # NULL /\ root["main"] = << >> /\ << >> \in Path
      /\ "main" \in TreeId /\ DOMAIN node = TreeId /\ arg \in Addr /\ arg.len \in 0..W
      /\ node["repl"] = NoNodes /\ stack = << >>
  BY <1>1, PurgeStart
<1>4. k < arg.len /\ Reaches("main", arg, k) /\ N[p].hot
  BY <1>2 DEF FindHotParent
<1>5. p \in Path /\ Len(p) = k /\ N[p] # NULL
  BY <1>3, <1>4, FindFacts
<1>6. StrictlyCovers(p, ArgPath) /\ ArgPath \in Path
  <2>1. Covers(root["main"], ArgPath) /\ ArgPath \in Path /\ Len(ArgPath) = arg.len
    BY <1>3, RootOnTheWay, ArgPathIs
  <2>2. Covers(p, ArgPath)
    <3>1. Len(root["main"]) <= k /\ k <= arg.len /\ root["main"] \in Path
      BY <1>3, <1>4, EmptyPath
    <3>. QED BY <1>3, <2>1, <3>1, PositionOnTheWay
  <2>3. p # ArgPath
    BY <1>3, <1>4, <1>5, <2>1
  <2>. QED BY <1>5, <2>1, <2>2, <2>3, CoversSplit
<1>7. node'["repl"] = R /\ node'["main"] = N /\ root'["repl"] = p /\ root'["main"] = << >>
  <2>1. DOMAIN root = TreeId
    BY DEF IInv, TypeOK
  <2>. QED BY <1>2, <1>3, <2>1 DEF TreeId
<1>8. n.hot = FALSE /\ n # NULL
  <2>1. n \in Node
    BY <1>3, <1>5, GoodNode, NullTypes DEF Node, new_null
  <2>. QED BY <2>1, TreeAssumption DEF new_null
<1>. HIDE DEF n
<1>9. /\ R[p] = n /\ \A q \in Path : R[q] # NULL => q = p
  BY <1>5 DEF NoNodes
<1>. HIDE DEF N, p, R
<1>10. ReplBuilt'
  <2>1. ArgPath' = ArgPath
    BY <1>1 DEF ArgPath
  <2>. QED BY <1>1, <1>4, <1>6, <1>7, <1>8, <1>9, <2>1 DEF ReplBuilt
<1>11. Cursor = {} /\ Cursor' = {}
  BY <1>1 DEF Cursor
<1>12. HotNodes(R) = {}
  BY <1>8, <1>9 DEF HotNodes
<1>13. Canonical'
  <2>1. \A q \in Path : ~TwinsAt(R, q)
    BY <1>12, NoTwins
  <2>2. \A q \in Path : ~ColdLeafAt(R, {p} \union {}, q)
    BY <1>9 DEF ColdLeafAt
  <2>. QED BY <1>1, <1>3, <1>7, <1>11, <2>1, <2>2, SetParts DEF Canonical
<1>14. Collected' /\ OutputSorted' /\ Collapsing' /\ Inverting' /\ Nested(stack)'
  BY <1>1, <1>3, NoOutput, NoRecursion
<1>15. OnTheWay'
  BY <1>1 DEF OnTheWay
<1>. QED BY <1>10, <1>13, <1>14, <1>15 DEF SInv

\* The tree that is put in place of the parent brings no pair of its own,
\* and none across its border: the parent is not hot any more.
LEMMA GraftTwins ==
  ASSUME NEW N, NEW r, GoodTree(N, r), NEW R, NEW p \in Path, GoodTree(R, p), N[p] # NULL, ~R[p].hot,
         \A q \in Path : ~TwinsAt(N, q), \A q \in Path : ~TwinsAt(R, q)
  PROVE  \A q \in Path : ~TwinsAt(Graft(N, R, p), q)
<1>. DEFINE M == Graft(N, R, p)
<1>1. HotNodes(M) = {q \in HotNodes(N) : ~Covers(p, q)} \union HotNodes(R)
  BY GraftNodes
<1>. HIDE DEF M
<1>2. \A q \in HotNodes(R) : StrictlyCovers(p, q)
  <2>1. \A q \in HotNodes(R) : q \in Path /\ Covers(p, q) /\ q # p
    BY DEF HotNodes, GoodTree
  <2>. QED BY <2>1, CoversSplit
<1>3. SUFFICES ASSUME NEW q \in Path, TwinsAt(M, q) PROVE FALSE
  BY DEF M
<1>4. Len(q) < W /\ \A b \in Bit : Child(q, b) \in HotNodes(M)
  BY <1>3, TwinsAre
<1>5. CASE \E b \in Bit : Child(q, b) \in HotNodes(R)
  <2>1. Covers(p, q)
    BY <1>2, <1>4, <1>5, CoversChild
  <2>2. \A b \in Bit : StrictlyCovers(p, Child(q, b)) /\ Child(q, b) \in Path
    BY <1>4, <2>1, CoversChild, ChildPath
  <2>3. \A b \in Bit : Covers(p, Child(q, b))
    BY <2>2, CoversSplit
  <2>4. \A b \in Bit : Child(q, b) \in HotNodes(R)
    BY <1>1, <1>4, <2>3
  <2>. QED BY <1>4, <2>4, TwinsAre
<1>6. CASE \A b \in Bit : Child(q, b) \in HotNodes(N)
  BY <1>4, <1>6, TwinsAre
<1>. QED BY <1>1, <1>4, <1>5, <1>6

LEMMA PurgeGraftSet ==
  ASSUME IInv, SInv, PurgeGraft
  PROVE  SInv'
<1>. DEFINE N == node["main"]
            R == node["repl"]
            p == root["repl"]
<1>1. /\ call = "inverting" /\ stack = << >> /\ on = "repl"
      /\ node'["main"] = Graft(N, R, p)
      /\ call' = "none" /\ on' = "main" /\ stack' = << >>
      /\ phase' = phase /\ out' = out /\ why' = why
  BY DEF PurgeGraft, OpDone, TreeId
<1>2. /\ phase = "purge" /\ GoodTree(R, p) /\ p \in Path /\ ~R[p].hot
      /\ \A q \in Path : ~TwinsAt(R, q)
  BY <1>1, InvertFacts
<1>3. GoodTree(N, << >>) /\ \A q \in Path : ~TwinsAt(N, q)
  BY <1>2, SetParts, TreeFacts DEF Canonical
<1>4. N[p] # NULL
  BY <1>1, TreeFacts DEF Trees
<1>. HIDE DEF N, R, p
<1>5. \A q \in Path : ~TwinsAt(node'["main"], q)
  BY <1>1, <1>2, <1>3, <1>4, GraftTwins
<1>. QED BY <1>1, <1>2, <1>5, ReturnsSet

LEMMA PurgeSet ==
  ASSUME IInv, SInv, PurgeSteps
  PROVE  SInv'
<1>1. CASE PurgeMiss
  <2>1. call = "purge" /\ PurgeReturns /\ node' = node
    BY <1>1 DEF PurgeMiss
  <2>. QED BY <2>1, PurgeStart, PurgeReturnsSet
<1>2. CASE PurgeParentNoMemory
  BY <1>2, AbortSet DEF PurgeParentNoMemory
<1>. QED BY <1>1, <1>2, PurgeNodeSet, PurgeParentSet, PurgeGraftSet DEF PurgeSteps

-----------------------------------------------------------------------------
LEMMA StutterSet == ASSUME IInv, SInv, UNCHANGED vars PROVE SInv'
<1>1. /\ node' = node /\ root' = root /\ phase' = phase /\ call' = call /\ on' = on
      /\ arg' = arg /\ cur' = cur /\ stack' = stack /\ out' = out /\ before' = before /\ why' = why
  BY DEF vars, opVars
<1>2. OnTheWay' /\ ReplBuilt' /\ Canonical'
  BY <1>1, SetParts DEF OnTheWay, ReplBuilt, Canonical, ArgPath, Cursor
<1>3. Collapsing' /\ Nested(stack)'
  BY <1>1, SetParts DEF Collapsing
<1>4. Inverting'
  <2>1. Inverted' <=> Inverted
    BY <1>1 DEF Inverted, Was, ArgPath
  <2>. QED BY <1>1, <2>1, SetParts DEF Inverting
<1>5. Collected' /\ OutputSorted'
  BY <1>1, SetParts DEF Collected, OutputSorted
<1>. QED BY <1>2, <1>3, <1>4, <1>5 DEF SInv

-----------------------------------------------------------------------------
(***************************************************************************)
(* The theorems.                                                           *)
(***************************************************************************)
\* What the trees stand for: in every state of every operation the hot
\* nodes cover what the set was before, except where the suspended calls of
\* an inversion say otherwise, and what collect has listed and what its
\* calls will list together are all of them.
THEOREM SetInvariance == Spec => []SInv
<1>1. Init => SInv
  BY InitSet
<1>2. IInv /\ SInv /\ [Next]_vars => SInv'
  <2>. SUFFICES ASSUME IInv, SInv, [Next]_vars PROVE SInv'
    OBVIOUS
  <2>1. CASE Start
    BY <2>1, StartsSet
  <2>2. CASE InsertSteps
    BY <2>2, InsertSet
  <2>3. CASE CollapseSteps
    BY <2>3, CollapseSet
  <2>4. CASE InvertSteps
    BY <2>4, InvertSet
  <2>5. CASE PurgeSteps
    BY <2>5, PurgeSet
  <2>6. CASE CollectSteps
    BY <2>6, CollectSet
  <2>7. CASE Exited \/ UNCHANGED vars
    BY <2>7, StutterSet DEF Exited
  <2>. QED BY <2>1, <2>2, <2>3, <2>4, <2>5, <2>6, <2>7 DEF Next, OpStep
<1>. QED BY <1>1, <1>2, Invariance, PTL DEF Spec

\* After ip_tree_collapse(), an inversion or purges no two hot nodes are
\* siblings: the list that is printed cannot be shortened by joining two.
THEOREM HotSiblingsAreJoined == Spec => []NoHotSiblings
<1>1. SInv => NoHotSiblings
  BY DEF SInv, Canonical, NoHotSiblings, TwinsAt
<1>. QED BY <1>1, SetInvariance, PTL

\* _ip_tree_invert() never meets a node of which both children are hot, or
\* a cold one without children: it fails for want of memory only.
THEOREM InvertIsAlwaysValid == Spec => []InvertNeverInvalid
<1>1. SInv => InvertNeverInvalid
  BY DEF SInv, Canonical, InvertNeverInvalid
<1>. QED BY <1>1, SetInvariance, PTL

\* ip4_tree_collect_addr() and ip6_tree_collect_addr() list the networks in
\* ascending order, and no two of them overlap.
THEOREM CollectIsSorted == Spec => []OutputSorted
<1>1. SInv => OutputSorted
  BY DEF SInv
<1>. QED BY <1>1, SetInvariance, PTL

=============================================================================
