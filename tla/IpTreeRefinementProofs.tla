------------------------ MODULE IpTreeRefinementProofs ------------------------
(***************************************************************************)
(* The proof that IpTree implements IpSet.                                 *)
(***************************************************************************)
EXTENDS IpTreeSetProofs, IpTreeRefinement

(***************************************************************************)
(* Networks and the list of them.                                          *)
(***************************************************************************)
\* IpSet's networks are IpTree's.
LEMMA SameNetworks ==
  /\ Abstract!Path = Path /\ Abstract!Address = Address /\ Abstract!Addr = Addr
  /\ Abstract!addr_init_null = addr_init_null
  /\ \A p : Abstract!Padded(p) = Padded(p)
  /\ \A p : Abstract!NetOf(p) = NetOf(p)
  /\ \A p, q : Abstract!StrictlyCovers(p, q) <=> StrictlyCovers(p, q)
<1>1. Abstract!Path = Path /\ Abstract!Address = Address
  BY DEF Abstract!Path, Path, Abstract!Address, Address, Abstract!Bit, Bit
<1>2. Abstract!Addr = Addr /\ Abstract!addr_init_null = addr_init_null
  BY <1>1 DEF Abstract!Addr, Addr, Abstract!addr_init_null, addr_init_null
<1>3. \A p : Abstract!Padded(p) = Padded(p)
  BY DEF Abstract!Padded, Padded
<1>4. \A p : Abstract!NetOf(p) = NetOf(p)
  BY <1>1 DEF Abstract!NetOf, NetOf, Abstract!Matches, Matches
<1>5. \A p, q : Abstract!StrictlyCovers(p, q) <=> StrictlyCovers(p, q)
  BY DEF Abstract!StrictlyCovers, StrictlyCovers
<1>. QED BY <1>1, <1>2, <1>3, <1>4, <1>5

\* A network all of which is covered is in that of one hot node, if no two
\* of them are siblings: the longest that is not would have two hot children.
LEMMA CoveredByOne ==
  ASSUME NEW N, \A p \in Path : ~TwinsAt(N, p), NEW u \in Path, NetOf(u) \subseteq Cover(N)
  PROVE  \E q \in HotNodes(N) : Covers(q, u)
<1>. DEFINE Bad == {p \in Path : /\ NetOf(p) \subseteq Cover(N)
                                 /\ \A q \in HotNodes(N) : ~Covers(q, p)}
            T == {W - Len(p) : p \in Bad}
<1>. SUFFICES ASSUME u \in Bad PROVE FALSE
  OBVIOUS
<1>1. T \subseteq Nat /\ T # {}
  BY PathIsSeq, WAssumption
<1>2. PICK n \in T : \A m \in T : n <= m
  <2>. HIDE DEF T
  <2>. QED BY <1>1, LeastNat
<1>3. PICK p \in Bad : n = W - Len(p)
  BY <1>2
<1>4. p \in Path /\ NetOf(p) \subseteq Cover(N) /\ \A q \in HotNodes(N) : q \in Path /\ ~Covers(q, p)
  BY <1>3 DEF HotNodes
<1>5. \A c \in Bad : c \in Path /\ Len(c) <= Len(p)
  <2>. SUFFICES ASSUME NEW c \in Bad PROVE c \in Path /\ Len(c) <= Len(p)
    OBVIOUS
  <2>1. c \in Path /\ n <= W - Len(c)
    BY <1>2
  <2>. QED BY <1>3, <1>4, <2>1, PathIsSeq, WAssumption
<1>. HIDE DEF T
<1>6. Len(p) < W
  <2>1. PICK x \in Address : x \in NetOf(p) /\ Matches(p, x)
    BY <1>4, NetNotEmpty DEF NetOf
  <2>2. PICK q \in HotNodes(N) : Matches(q, x)
    BY <1>4, <2>1, CoverIs
  <2>3. StrictlyCovers(p, q)
    BY <1>4, <2>1, <2>2, MatchesComparable, CoversSplit, CoversSelf
  <2>. QED BY <1>4, <2>3, CoversLen, PathIsSeq, WAssumption
<1>7. ASSUME NEW b \in Bit PROVE Child(p, b) \in HotNodes(N)
  <2>. DEFINE c == Child(p, b)
  <2>1. c \in Path /\ Len(c) = Len(p) + 1 /\ Len(p) \in Nat /\ Covers(p, c)
    BY <1>4, <1>6, ChildPath, BelowOwnChild, PathIsSeq, WAssumption
  <2>2. NetOf(c) \subseteq Cover(N)
    BY <1>4, <2>1, MatchesUp DEF NetOf
  <2>3. c \notin Bad
    <3>. HIDE DEF c, Bad
    <3>. QED BY <1>5, <2>1
  <2>4. PICK q \in HotNodes(N) : Covers(q, c)
    BY <2>1, <2>2, <2>3
  <2>5. ~StrictlyCovers(q, c)
    BY <1>4, <1>6, CoversChild
  <2>. HIDE DEF c
  <2>6. q = c
    BY <1>4, <2>1, <2>4, <2>5, CoversBoth
  <2>. QED BY <2>6 DEF c
<1>. QED BY <1>4, <1>6, <1>7, TwinsAre

\* The hot nodes are the largest networks of what they cover.
LEMMA MaximalAre ==
  ASSUME NEW N, GoodTree(N, << >>), \A p \in Path : ~TwinsAt(N, p)
  PROVE  Abstract!MaximalNets(Cover(N)) = HotNodes(N)
<1>. DEFINE S == {p \in Path : /\ NetOf(p) \subseteq Cover(N)
                               /\ \A q \in Path : StrictlyCovers(q, p) => ~(NetOf(q) \subseteq Cover(N))}
<1>1. Abstract!MaximalNets(Cover(N)) = S
  BY SameNetworks DEF Abstract!MaximalNets
<1>2. ASSUME NEW p \in HotNodes(N) PROVE p \in S
  <2>1. p \in Path /\ NetOf(p) \subseteq Cover(N)
    BY CoverHot DEF HotNodes
  <2>2. ASSUME NEW q \in Path, StrictlyCovers(q, p), NetOf(q) \subseteq Cover(N) PROVE FALSE
    <3>1. PICK s \in HotNodes(N) : Covers(s, q)
      BY <2>2, CoveredByOne
    <3>2. s \in Path /\ Covers(q, p)
      BY <2>1, <2>2, CoversSplit DEF HotNodes
    <3>3. Covers(s, p)
      BY <2>1, <2>2, <3>1, <3>2, CoversTransitive
    <3>4. s = p
      BY <3>3, HotAlone
    <3>. QED BY <2>1, <2>2, <3>1, <3>4, StrictNotBack
  <2>. QED BY <2>1, <2>2
<1>3. ASSUME NEW p \in S PROVE p \in HotNodes(N)
  <2>1. p \in Path /\ NetOf(p) \subseteq Cover(N)
    OBVIOUS
  <2>2. PICK q \in HotNodes(N) : Covers(q, p)
    BY <2>1, CoveredByOne
  <2>3. q \in Path /\ NetOf(q) \subseteq Cover(N)
    BY CoverHot DEF HotNodes
  <2>4. ~StrictlyCovers(q, p)
    BY <2>3
  <2>5. q = p
    BY <2>1, <2>2, <2>3, <2>4, CoversBoth
  <2>. QED BY <2>5
<1>. QED BY <1>1, <1>2, <1>3

-----------------------------------------------------------------------------
(***************************************************************************)
(* The refinement mapping.                                                 *)
(***************************************************************************)
AbstractStep == [Abstract!Next]_(Abstract!vars)

\* What the mapping is in each phase.
Mapped ==
  /\ phase = "failed" => AbstractSet = {}
  /\ phase = "invert" => AbstractSet = before
  /\ phase \notin {"failed", "invert"} => AbstractSet = Cover(node["main"])
  /\ phase \in {"input", "collapse", "collapsed", "invert"} => AbstractStage = "input"
  /\ phase \in {"purge", "print"} => AbstractStage = "purge"
  /\ phase \in {"new", "done", "failed"} => AbstractStage = phase
  /\ call # "none" /\ phase = "input" => AbstractAsked = Abstract!Call("insert", arg)
  /\ call # "none" /\ phase = "invert" => AbstractAsked = Abstract!Call("invert", addr_init_null)
  /\ call # "none" /\ phase = "purge" => AbstractAsked = Abstract!Call("purge", arg)
  /\ call = "none" \/ phase \notin {"input", "invert", "purge"}
       => AbstractAsked = Abstract!NoCall
  /\ phase # "done" => AbstractOut = << >>
  /\ phase = "done" => AbstractOut = out

LEMMA MappedAlways == Mapped /\ Mapped'
<1>0. Mapped
  <2>1. /\ phase = "failed" => AbstractSet = {}
        /\ phase = "invert" => AbstractSet = before
        /\ phase \notin {"failed", "invert"} => AbstractSet = Cover(node["main"])
    BY DEF AbstractSet
  <2>2. /\ phase \in {"input", "collapse", "collapsed", "invert"} => AbstractStage = "input"
        /\ phase \in {"purge", "print"} => AbstractStage = "purge"
        /\ phase \in {"new", "done", "failed"} => AbstractStage = phase
    BY DEF AbstractStage
  <2>3. /\ call # "none" /\ phase = "input" => AbstractAsked = Abstract!Call("insert", arg)
        /\ call # "none" /\ phase = "invert" => AbstractAsked = Abstract!Call("invert", addr_init_null)
        /\ call # "none" /\ phase = "purge" => AbstractAsked = Abstract!Call("purge", arg)
    BY DEF AbstractAsked, Abstract!Call
  <2>4. call = "none" \/ phase \notin {"input", "invert", "purge"}
          => AbstractAsked = Abstract!NoCall
    BY SameNetworks DEF AbstractAsked, Abstract!NoCall, Abstract!Call
  <2>5. (phase # "done" => AbstractOut = << >>) /\ (phase = "done" => AbstractOut = out)
    BY DEF AbstractOut
  <2>. QED BY <2>1, <2>2, <2>3, <2>4, <2>5 DEF Mapped
<1>. QED BY <1>0, PTL

\* A step within an operation changes nothing that IpSet speaks of.
LEMMA Internal ==
  ASSUME phase \notin {"failed", "done"}, phase' = phase, ac' = ac, arg' = arg,
         call = "none" <=> call' = "none", before' = before,
         phase = "invert" \/ Cover(node'["main"]) = Cover(node["main"])
  PROVE  AbstractStep
<1>1. /\ AbstractSet' = AbstractSet
      /\ AbstractAsked' = AbstractAsked /\ AbstractOut' = AbstractOut
  BY MappedAlways DEF Mapped
<1>2. AbstractStage' = AbstractStage
  BY DEF AbstractStage
<1>. QED BY <1>1, <1>2 DEF AbstractStep, Abstract!vars

LEMMA AbortIsFail ==
  ASSUME NEW r, Abort(r), phase \notin {"new", "done", "failed"}, IInv
  PROVE  AbstractStep
<1>1. /\ phase' = "failed" /\ call' = "none" /\ ac' = ac
  BY DEF Abort, OpDone
<1>2. /\ AbstractSet' = {} /\ AbstractAsked' = Abstract!NoCall /\ AbstractStage' = "failed"
      /\ AbstractOut' = << >>
  BY <1>1, MappedAlways DEF Mapped
<1>3. AbstractStage \in {"input", "purge"}
  BY MappedAlways DEF Mapped, IInv, TypeOK
<1>4. Abstract!Fail
  BY <1>1, <1>2, <1>3 DEF Abstract!Fail
<1>. QED BY <1>4 DEF AbstractStep, Abstract!Next

-----------------------------------------------------------------------------
(***************************************************************************)
(* main_run() calls an operation.                                          *)
(***************************************************************************)
LEMMA InitIsInit == Init => Abstract!Init
<1>. SUFFICES ASSUME Init PROVE Abstract!Init
  OBVIOUS
<1>1. /\ phase = "new" /\ call = "none" /\ ac = 0
      /\ node["main"] = [NoNodes EXCEPT ![<< >>] = new_null]
  BY DEF Init, TreeId
<1>2. HotNodes(node["main"]) = {}
  BY <1>1, EmptyPath DEF HotNodes, NoNodes, new_null
<1>3. AbstractSet = {}
  BY <1>1, <1>2, CoverNone, MappedAlways DEF Mapped
<1>. QED BY <1>1, <1>3, MappedAlways DEF Mapped, Abstract!Init

\* An operation is called: only what is asked for changes.
LEMMA CallIsAsk ==
  ASSUME call = "none", call' # "none", ac' = ac, node' = node,
         \/ phase = "input" /\ phase' = "input" /\ arg' \in Inputs
         \/ phase = "purge" /\ phase' = "purge" /\ arg' \in PurgeNets
         \/ phase = "collapsed" /\ phase' = "invert" /\ before' = Cover(node["main"])
  PROVE  AbstractStep
<1>1. /\ AbstractAsked = Abstract!NoCall /\ AbstractSet' = AbstractSet
      /\ AbstractOut = << >> /\ AbstractOut' = << >> /\ AbstractStage' = AbstractStage
  BY MappedAlways DEF Mapped
<1>2. CASE phase = "input" /\ phase' = "input" /\ arg' \in Inputs
  <2>1. AbstractStage = "input" /\ AbstractAsked' = Abstract!Call("insert", arg')
    BY <1>2, MappedAlways DEF Mapped
  <2>2. Abstract!Ask("insert", arg', "input")
    BY <1>1, <2>1 DEF Abstract!Ask
  <2>. QED BY <1>2, <2>2 DEF AbstractStep, Abstract!Next
<1>3. CASE phase = "purge" /\ phase' = "purge" /\ arg' \in PurgeNets
  <2>1. AbstractStage = "purge" /\ AbstractAsked' = Abstract!Call("purge", arg')
    BY <1>3, MappedAlways DEF Mapped
  <2>2. Abstract!Ask("purge", arg', "purge")
    BY <1>1, <2>1 DEF Abstract!Ask
  <2>. QED BY <1>3, <2>2 DEF AbstractStep, Abstract!Next
<1>4. CASE phase = "collapsed" /\ phase' = "invert" /\ before' = Cover(node["main"])
  <2>1. AbstractStage = "input" /\ AbstractAsked' = Abstract!Call("invert", addr_init_null)
    BY <1>4, MappedAlways DEF Mapped
  <2>2. Abstract!Ask("invert", Abstract!addr_init_null, "input")
    BY <1>1, <2>1, SameNetworks DEF Abstract!Ask
  <2>. QED BY <2>2 DEF AbstractStep, Abstract!Next
<1>. QED BY <1>2, <1>3, <1>4

\* Between the operations.
LEMMA Between ==
  ASSUME phase \notin {"failed", "invert", "done"}, phase' \notin {"failed", "invert", "done"},
         node' = node, ac' = ac, AbstractStage' = AbstractStage,
         AbstractAsked = Abstract!NoCall, AbstractAsked' = Abstract!NoCall
  PROVE  AbstractStep
<1>1. AbstractSet' = AbstractSet /\ AbstractOut' = AbstractOut
  BY MappedAlways DEF Mapped
<1>. QED BY <1>1 DEF AbstractStep, Abstract!vars

LEMMA StartRefines ==
  ASSUME IInv, SInv, Start
  PROVE  AbstractStep
<1>1. CASE \E l \in CollapseLens : SetAutoCollapse(l)
  <2>1. PICK l \in CollapseLens : SetAutoCollapse(l)
    BY <1>1
  <2>2. /\ phase = "new" /\ phase' = "input" /\ call = "none" /\ call' = "none"
        /\ node' = node /\ ac' = l
    BY <2>1 DEF SetAutoCollapse, Idle, opVars
  <2>3. Abstract!SetAutoCollapse(l)
    BY <2>2, MappedAlways DEF Mapped, Abstract!SetAutoCollapse
  <2>. QED BY <2>3 DEF AbstractStep, Abstract!Next
<1>2. CASE \E x \in Inputs : Insert(x)
  BY <1>2, CallIsAsk DEF Insert, Idle
<1>3. CASE StartCollapse
  BY <1>3, Between, MappedAlways DEF StartCollapse, Idle, Mapped
<1>4. CASE StartInvert
  BY <1>4, CallIsAsk DEF StartInvert, Idle
<1>5. CASE SkipInvert
  <2>1. /\ phase = "collapsed" /\ phase' = "purge" /\ call = "none" /\ call' = "none"
        /\ node' = node /\ ac' = ac
    BY <1>5 DEF SkipInvert, Idle, opVars
  <2>2. /\ AbstractAsked = Abstract!NoCall /\ AbstractAsked' = Abstract!NoCall
        /\ AbstractStage = "input" /\ AbstractStage' = "purge"
        /\ AbstractSet' = AbstractSet /\ AbstractOut' = AbstractOut
    BY <2>1, MappedAlways DEF Mapped
  <2>3. Abstract!DoNotInvert
    BY <2>1, <2>2 DEF Abstract!DoNotInvert, Abstract!Answer, Abstract!NoCall, Abstract!Call
  <2>. QED BY <2>3 DEF AbstractStep, Abstract!Next
<1>6. CASE \E x \in PurgeNets : Purge(x)
  BY <1>6, CallIsAsk DEF Purge, Idle
<1>7. CASE StartCollect
  BY <1>7, Between, MappedAlways DEF StartCollect, Idle, Mapped
<1>8. CASE StartCollectNoMemory
  BY <1>8, AbortIsFail DEF StartCollectNoMemory, Idle
<1>. QED BY <1>1, <1>2, <1>3, <1>4, <1>5, <1>6, <1>7, <1>8 DEF Start

-----------------------------------------------------------------------------
(***************************************************************************)
(* Insert.                                                                 *)
(***************************************************************************)
\* The network that is added: the argument, cut to the auto-collapse length.
Added == Abstract!PathTo(arg, Abstract!EffectiveLen(ac, arg.len))

LEMMA AddedIs ==
  ASSUME IInv
  PROVE  /\ Added \in Path /\ Covers(Added, ArgPath) /\ Len(Added) <= arg.len
         /\ ac > 0 => Len(Added) <= ac
         /\ Len(Added) = IF ac > 0 /\ arg.len > ac THEN ac ELSE arg.len
         /\ ~(ac > 0 /\ arg.len > ac) => Added = ArgPath
<1>1. arg \in Addr /\ arg.len \in 0..W /\ ac \in Nat
  BY TreeFacts DEF TypeOK
<1>. DEFINE n == Abstract!EffectiveLen(ac, arg.len)
<1>2. /\ n \in 0..W /\ n <= arg.len /\ (ac > 0 => n <= ac)
      /\ n = IF ac > 0 /\ arg.len > ac THEN ac ELSE arg.len
  BY <1>1, WAssumption DEF Abstract!EffectiveLen
<1>. HIDE DEF n
<1>3. Added = [i \in 1..n |-> arg.bits[i]]
  BY DEF Added, Abstract!PathTo, n
<1>4. Added \in [1..n -> Bit]
  BY <1>1, <1>2, <1>3, WAssumption DEF Addr, Address
<1>5. Added \in Path /\ Len(Added) = n
  BY <1>2, <1>4, SeqIsPath
<1>6. Covers(Added, ArgPath)
  BY <1>1, <1>2, <1>3, <1>5, ArgPathIs, WAssumption DEF Covers
<1>7. n = arg.len => Added = ArgPath
  BY <1>3 DEF ArgPath
<1>. QED BY <1>1, <1>2, <1>5, <1>6, <1>7

LEMMA InsertAnswers ==
  ASSUME call # "none", phase = "input", phase' = phase, call' = "none", ac' = ac,
         Cover(node'["main"]) = Cover(node["main"]) \union NetOf(Added)
  PROVE  AbstractStep
<1>1. /\ AbstractAsked = Abstract!Call("insert", arg) /\ AbstractAsked' = Abstract!NoCall
      /\ AbstractSet = Cover(node["main"]) /\ AbstractSet' = Cover(node'["main"])
      /\ AbstractStage' = AbstractStage /\ AbstractOut' = AbstractOut
  BY MappedAlways DEF Mapped
<1>2. AbstractAsked.op = "insert" /\ AbstractAsked.addr = arg
  BY <1>1 DEF Abstract!Call
<1>3. Abstract!Insert
  BY <1>1, <1>2, SameNetworks DEF Abstract!Insert, Abstract!Answer, Added
<1>. QED BY <1>3 DEF AbstractStep, Abstract!Next

\* What insert finds is above what is added, and no deeper.
LEMMA FoundOnTheWay ==
  ASSUME IInv, SInv, on = "main", call = "insert", NEW k \in 0..W, Reaches(on, arg, k)
  PROVE  /\ phase = "input" /\ GoodTree(node["main"], << >>)
         /\ Position(on, arg, k) \in Path /\ node["main"][Position(on, arg, k)] # NULL
         /\ Covers(Position(on, arg, k), Added)
         /\ k = arg.len => Position(on, arg, k) = Added
<1>. DEFINE p == Position(on, arg, k)
<1>1. /\ phase = "input" /\ AutoCollapsed /\ ac \in Nat /\ on \in TreeId
      /\ GoodTree(node["main"], << >>) /\ node["main"][<< >>] # NULL /\ root["main"] = << >>
      /\ arg \in Addr /\ arg.len \in 0..W
  BY InsertFacts, TreeFacts DEF IInv, TypeOK
<1>2. /\ p \in Path /\ Len(p) = k /\ k <= arg.len /\ node["main"][p] # NULL
  BY <1>1, FindFacts
<1>3. ac > 0 => k <= ac
  BY <1>1, <1>2 DEF AutoCollapsed
<1>4. /\ Covers(p, ArgPath) /\ (k = arg.len => p = ArgPath)
  BY <1>1, <1>2, EmptyPath, RootOnTheWay, PositionOnTheWay
<1>5. /\ Added \in Path /\ Covers(Added, ArgPath) /\ ArgPath \in Path
      /\ Len(Added) = IF ac > 0 /\ arg.len > ac THEN ac ELSE arg.len
      /\ ~(ac > 0 /\ arg.len > ac) => Added = ArgPath
  BY <1>1, AddedIs, ArgPathIs
<1>6. k <= Len(Added)
  BY <1>1, <1>2, <1>3, <1>5
<1>. HIDE DEF p
<1>7. Covers(p, Added)
  BY <1>2, <1>4, <1>5, <1>6, Comparable, CoversLen, CoversSplit, CoversSelf
<1>8. k = arg.len => p = Added
  BY <1>1, <1>3, <1>4, <1>5
<1>. QED BY <1>1, <1>2, <1>7, <1>8 DEF p

LEMMA InsertHotParentRefines ==
  ASSUME IInv, SInv, InsertHotParent
  PROVE  AbstractStep
<1>1. call = "insert" /\ InsertReturns /\ node' = node
  BY DEF InsertHotParent
<1>2. PICK k \in 0..W : FindHotParent(on, arg, k)
  BY DEF InsertHotParent
<1>3. on = "main"
  <2>1. on # "repl"
    BY <1>1, <1>2, FindInRepl DEF FindHotParent
  <2>. QED BY <2>1, TreeFacts DEF TreeId
<1>4. phase' = phase /\ ac' = ac /\ call' = "none"
  BY <1>3, <1>1 DEF InsertReturns, OpDone
<1>. DEFINE p == Position(on, arg, k)
<1>5. /\ phase = "input" /\ p \in Path /\ node["main"][p] # NULL /\ node["main"][p].hot
      /\ Covers(p, Added) /\ Added \in Path
  BY <1>1, <1>2, <1>3, FoundOnTheWay, AddedIs DEF FindHotParent
<1>. HIDE DEF p
<1>6. NetOf(Added) \subseteq Cover(node["main"])
  <2>1. NetOf(p) \subseteq Cover(node["main"])
    BY <1>5, CoverHot DEF HotNodes
  <2>2. NetOf(Added) \subseteq NetOf(p)
    BY <1>5, MatchesUp DEF NetOf
  <2>. QED BY <2>1, <2>2
<1>. QED BY <1>1, <1>4, <1>5, <1>6, InsertAnswers

LEMMA InsertHitRefines ==
  ASSUME IInv, SInv, InsertHit
  PROVE  AbstractStep
<1>. DEFINE p == Position(on, arg, arg.len)
            N == node["main"]
<1>1. /\ call = "insert" /\ Reaches(on, arg, arg.len) /\ InsertReturns
      /\ node' = IF node[on][p].hot THEN node
                 ELSE [node EXCEPT ![on] = DestroyKids(SetHot(@, p, TRUE), p)]
  BY DEF InsertHit, FindHit
<1>2. arg.len \in 0..W /\ "main" \in TreeId /\ DOMAIN node = TreeId
  BY TreeFacts
<1>3. on = "main"
  <2>1. on # "repl"
    BY <1>1, <1>2, FindInRepl
  <2>. QED BY <2>1, TreeFacts DEF TreeId
<1>4. phase' = phase /\ ac' = ac /\ call' = "none"
  BY <1>3, <1>1 DEF InsertReturns, OpDone
<1>5. /\ phase = "input" /\ p \in Path /\ N[p] # NULL /\ p = Added /\ GoodTree(N, << >>)
  BY <1>1, <1>2, <1>3, FoundOnTheWay
<1>6. Cover(node'["main"]) = Cover(N) \union NetOf(p)
  <2>1. CASE N[p].hot
    <3>1. NetOf(p) \subseteq Cover(N)
      BY <1>5, <2>1, CoverHot DEF HotNodes
    <3>. QED BY <1>1, <1>3, <2>1, <3>1
  <2>2. CASE ~N[p].hot
    <3>. DEFINE h == TRUE
                M == DestroyKids(SetHot(N, p, h), p)
    <3>1. node'["main"] = M /\ h \in BOOLEAN
      BY <1>1, <1>2, <1>3, <2>2
    <3>. HIDE DEF N, p
    <3>2. M = SetHot(DestroyKids(N, p), p, h)
      <4>. HIDE DEF h
      <4>. QED BY <1>5, <3>1, MarkedIsJoined
    <3>3. HotNodes(M) = {q \in HotNodes(N) : ~Covers(p, q)} \union (IF h THEN {p} ELSE {})
      <4>. HIDE DEF h, M
      <4>. QED BY <1>5, <3>1, <3>2, JoinedNodes
    <3>4. HotNodes(M) = {q \in HotNodes(N) : ~Covers(p, q)} \union {p}
      BY <3>3
    <3>. HIDE DEF M, h
    <3>5. Cover(M) = Cover(N) \union NetOf(p)
      BY <1>5, <3>4, CoverAdd
    <3>. QED BY <3>1, <3>5
  <2>. QED BY <2>1, <2>2
<1>. QED BY <1>1, <1>4, <1>5, <1>6, InsertAnswers

\* A step on purge's tree is none of IpSet's.
LEMMA OnRepl ==
  ASSUME IInv, on = "repl", phase' = phase, ac' = ac, arg' = arg, before' = before,
         call' # "none", node'["main"] = node["main"]
  PROVE  AbstractStep
<1>1. phase = "purge" /\ call # "none"
  BY TreeFacts DEF Control
<1>. QED BY <1>1, Internal

LEMMA WalkDownRefines ==
  ASSUME IInv, SInv, WalkDown
  PROVE  AbstractStep
<1>. DEFINE src == node[on][cur]
            b == arg.bits[src.addr.len + 1]
            n == new_child(src, b, FALSE)
            c == Child(cur, b)
<1>1. /\ call = "walk" /\ src.addr.len < WalkLen
      /\ node' = [node EXCEPT ![on][c] = n]
      /\ phase' = phase /\ ac' = ac /\ arg' = arg /\ before' = before /\ call' = call
  BY DEF WalkDown
<1>2. /\ on \in TreeId /\ GoodTree(node[on], root[on]) /\ cur \in Path /\ node[on][cur] # NULL
      /\ src.addr.len = Len(cur) /\ Len(cur) < WalkLen
      /\ Len(cur) < W /\ b \in Bit /\ node[on][c] = NULL
      /\ on = "main" => phase = "input"
      /\ DOMAIN node = TreeId
  BY <1>1, WalkFacts, TreeFacts
<1>3. c \in Path
  BY <1>2, ChildPath
<1>4. n \in Node /\ n.hot = FALSE
  BY <1>2, NewChild
<1>5. CASE on = "main"
  <2>. DEFINE M == [node["main"] EXCEPT ![c] = n]
  <2>1. node'["main"] = M
    BY <1>1, <1>2, <1>5
  <2>. HIDE DEF n, c, b, src
  <2>2. HotNodes(M) = HotNodes(node["main"]) \ {c}
    BY <1>2, <1>3, <1>4, <1>5, NewNodeNodes
  <2>3. HotNodes(M) = HotNodes(node["main"])
    BY <1>2, <1>5, <2>2 DEF HotNodes
  <2>. HIDE DEF M
  <2>4. Cover(M) = Cover(node["main"])
    BY <2>3 DEF HotNodes, Cover
  <2>. QED BY <1>1, <1>2, <1>5, <2>1, <2>4, Internal
<1>6. CASE on = "repl"
  BY <1>1, <1>2, <1>6, OnRepl
<1>. QED BY <1>2, <1>5, <1>6 DEF TreeId

LEMMA WalkEndRefines ==
  ASSUME IInv, SInv, WalkEnd
  PROVE  AbstractStep
<1>1. /\ call = "walk" /\ node[on][cur].addr.len >= WalkLen
      /\ node' = [node EXCEPT ![on] = SetHot(@, cur, TRUE)] /\ InsertReturns
  BY DEF WalkEnd
<1>2. /\ on \in TreeId /\ GoodTree(node[on], root[on]) /\ cur \in Path /\ node[on][cur] # NULL
      /\ node[on][cur].addr.len = Len(cur) /\ Len(cur) \in Nat
      /\ Covers(cur, ArgPath) /\ WalkLen \in Nat
      /\ on = "main" => phase = "input"
      /\ DOMAIN node = TreeId
  BY <1>1, WalkFacts, TreeFacts
<1>3. CASE on = "main"
  <2>. DEFINE N == node["main"]
              h == TRUE
              M == SetHot(N, cur, h)
  <2>1. node'["main"] = M /\ h \in BOOLEAN
    BY <1>1, <1>2, <1>3
  <2>2. HotNodes(M) = IF h THEN HotNodes(N) \union {cur} ELSE HotNodes(N) \ {cur}
    <3>. HIDE DEF h
    <3>. QED BY <1>2, <1>3, <2>1, SetHotNodes
  <2>3. HotNodes(M) = HotNodes(N) \union {cur}
    BY <2>2
  <2>. HIDE DEF M, h
  <2>4. Cover(M) = Cover(N) \union NetOf(cur)
    BY <1>2, <2>3, CoverAdd
  <2>5. Len(cur) = WalkLen
    BY <1>1, <1>2 DEF IInv, Walk
  <2>6. cur = Added
    <3>1. /\ Added \in Path /\ Covers(Added, ArgPath) /\ ArgPath \in Path
          /\ Len(Added) = IF ac > 0 /\ arg.len > ac THEN ac ELSE arg.len
      BY AddedIs, ArgPathIs, TreeFacts
    <3>2. Len(Added) = Len(cur)
      BY <1>3, <2>5, <3>1 DEF WalkLen, AutoCollapse
    <3>. QED BY <1>2, <3>1, <3>2, Comparable, CoversLen, CoversSplit
  <2>7. phase' = phase /\ ac' = ac /\ call' = "none"
    BY <1>1, <1>3 DEF InsertReturns, OpDone
  <2>. QED BY <1>1, <1>2, <1>3, <2>1, <2>4, <2>6, <2>7, InsertAnswers
<1>4. CASE on = "repl"
  <2>1. /\ phase' = phase /\ ac' = ac /\ call' = "invert" /\ arg' = arg /\ before' = before
    BY <1>1, <1>4 DEF InsertReturns
  <2>2. node'["main"] = node["main"]
    BY <1>1, <1>2, <1>4 DEF TreeId
  <2>. QED BY <1>4, <2>1, <2>2, OnRepl
<1>. QED BY <1>2, <1>3, <1>4 DEF TreeId

LEMMA InsertRefines ==
  ASSUME IInv, SInv, InsertSteps
  PROVE  AbstractStep
<1>1. CASE InsertMiss
  <2>1. /\ call = "insert" /\ call' = "walk" /\ node' = node /\ phase' = phase /\ ac' = ac
        /\ arg' = arg /\ before' = before
    BY <1>1 DEF InsertMiss
  <2>2. phase \in {"input", "purge"}
    BY <2>1, InsertFacts DEF TreeId
  <2>. QED BY <2>1, <2>2, Internal
<1>2. CASE WalkDownNoMemory
  <2>1. phase \in {"input", "purge"}
    BY <1>2, InsertFacts DEF WalkDownNoMemory, TreeId
  <2>. QED BY <1>2, <2>1, AbortIsFail DEF WalkDownNoMemory
<1>. QED BY <1>1, <1>2, InsertHotParentRefines, InsertHitRefines, WalkDownRefines,
            WalkEndRefines DEF InsertSteps

-----------------------------------------------------------------------------
(***************************************************************************)
(* Collapse covers what was covered.                                       *)
(***************************************************************************)
LEMMA JoinedCover ==
  ASSUME NEW N, NEW r, GoodTree(N, r), NEW p \in Path, N[p] # NULL
  PROVE  Cover(Joined(N, p)) = Cover(N) \union NetOf(p)
<1>. DEFINE h == TRUE
            M == SetHot(DestroyKids(N, p), p, h)
<1>1. h \in BOOLEAN /\ Joined(N, p) = M
  BY DEF Joined
<1>. HIDE DEF h
<1>2. HotNodes(M) = {q \in HotNodes(N) : ~Covers(p, q)} \union (IF h THEN {p} ELSE {})
  BY <1>1, JoinedNodes
<1>3. HotNodes(M) = {q \in HotNodes(N) : ~Covers(p, q)} \union {p}
  BY <1>2 DEF h
<1>. HIDE DEF M
<1>. QED BY <1>1, <1>3, CoverAdd

LEMMA CollapseRefines ==
  ASSUME IInv, SInv, CollapseSteps
  PROVE  AbstractStep
<1>. DEFINE N == node["main"]
            p == Top.node
<1>1. call = "collapse" /\ on = "main" /\ phase = "collapse" /\ DOMAIN node = TreeId
      /\ "main" \in TreeId /\ GoodTree(N, << >>)
  <2>1. call = "collapse"
    BY DEF CollapseSteps, CollapseNow, CollapseLeft, CollapseRight, CollapseMerge,
           CollapseReturns, Running
  <2>. QED BY <2>1, CollapseFacts
<1>2. CASE CollapseNow
  <2>1. /\ stack # << >> /\ CollapsesNow(p) /\ phase' = phase /\ ac' = ac /\ arg' = arg
        /\ call' = call /\ before' = before
        /\ node' = [node EXCEPT ![on] = Joined(@, p)]
    BY <1>2 DEF CollapseNow, CollapseStep, Running
  <2>2. p \in Path /\ N[p] # NULL /\ node'["main"] = Joined(N, p)
    BY <1>1, <2>1, TopSet
  <2>3. N[p].hot
    <3>. SUFFICES ASSUME ~N[p].hot PROVE FALSE
      OBVIOUS
    <3>1. ac > 0 /\ N[p].addr.len >= ac
      BY <1>1, <2>1 DEF CollapsesNow
    <3>2. N[p].addr.len = Len(p) /\ Len(p) \in Nat /\ ac \in Nat
      BY <1>1, <2>2, GoodNode, PathIsSeq, WAssumption DEF IInv, TypeOK
    <3>3. Len(p) <= ac /\ (Len(p) = ac => N[p].hot)
      BY <1>1, <2>2, <3>1 DEF IInv, AutoCollapsed
    <3>. QED BY <3>1, <3>2, <3>3
  <2>. HIDE DEF N, p
  <2>4. NetOf(p) \subseteq Cover(N)
    BY <2>2, <2>3, CoverHot DEF HotNodes
  <2>5. Cover(node'["main"]) = Cover(N)
    BY <1>1, <2>2, <2>4, JoinedCover
  <2>. QED BY <1>1, <2>1, <2>5, Internal DEF N
<1>3. CASE CollapseLeft \/ CollapseRight
  <2>1. /\ node' = node /\ phase' = phase /\ ac' = ac /\ arg' = arg
        /\ call' = call /\ before' = before
    BY <1>3 DEF CollapseLeft, CollapseRight
  <2>. QED BY <1>1, <2>1, Internal
<1>4. CASE CollapseMerge
  <2>1. /\ stack # << >> /\ phase' = phase /\ ac' = ac /\ arg' = arg
        /\ call' = call /\ before' = before
        /\ node' = IF TwinsAt(N, p) THEN [node EXCEPT ![on] = Joined(@, p)] ELSE node
    BY <1>1, <1>4 DEF CollapseMerge, CollapseStep, Running, TwinsAt
  <2>2. p \in Path /\ N[p] # NULL
    BY <1>1, <2>1, TopSet
  <2>3. CASE TwinsAt(N, p)
    <3>1. node'["main"] = Joined(N, p)
      BY <1>1, <2>1, <2>3
    <3>. HIDE DEF N, p
    <3>2. Len(p) < W /\ \A b \in Bit : NetOf(Child(p, b)) \subseteq Cover(N)
      BY <2>2, <2>3, TwinsAre, CoverHot
    <3>3. NetOf(p) \subseteq Cover(N)
      BY <2>2, <3>2, NetSplit DEF NetOf, Bit
    <3>4. Cover(node'["main"]) = Cover(N)
      BY <1>1, <2>2, <3>1, <3>3, JoinedCover
    <3>. QED BY <1>1, <2>1, <3>4, Internal DEF N
  <2>4. CASE ~TwinsAt(N, p)
    BY <1>1, <2>1, <2>4, Internal
  <2>. QED BY <2>3, <2>4
<1>5. CASE CollapseReturns
  BY <1>1, <1>5, Between, MappedAlways DEF CollapseReturns, OpDone, Mapped
<1>. QED BY <1>2, <1>3, <1>4, <1>5 DEF CollapseSteps

-----------------------------------------------------------------------------
(***************************************************************************)
(* Invert is the complement, but for the empty set.                        *)
(***************************************************************************)
\* A step of an inversion is the main tree's, whose set counts when it is
\* done, or one of purge's tree.
LEMMA InvertInternal ==
  ASSUME IInv, SInv, call \in {"invert", "inverting"}, call' = "inverting",
         phase' = phase, ac' = ac, arg' = arg, before' = before,
         on = "repl" => node'["main"] = node["main"]
  PROVE  AbstractStep
<1>1. on \in TreeId /\ (on = "main" => phase = "invert")
  BY InvertFacts
<1>. QED BY <1>1, Internal, OnRepl DEF TreeId

LEMMA InvertReturnsRefines ==
  ASSUME IInv, SInv, InvertReturns
  PROVE  AbstractStep
<1>. DEFINE N == node["main"]
<1>1. /\ call = "inverting" /\ stack = << >> /\ on = "main" /\ phase' = "purge"
      /\ call' = "none" /\ node' = node /\ ac' = ac
  BY DEF InvertReturns, OpDone
<1>2. phase = "invert" /\ root["main"] = << >> /\ GoodTree(N, << >>) /\ Inverted
  BY <1>1, InvertFacts
<1>3. before \subseteq Address /\ Cover(N) \subseteq Address
  BY <1>2, CoverInRoot DEF IInv, TypeOK, NetOf
<1>4. Cover(N) = IF before = {} THEN {} ELSE Address \ before
  <2>1. Was = before /\ FramesOf(stack) = {}
    BY <1>1, FramesOfNone DEF Was
  <2>2. \A x \in Address : x \in NetOf(<< >>)
    BY RootMatches DEF NetOf
  <2>3. CASE before = {}
    BY <1>1, <1>2, <2>1, <2>3 DEF Inverted
  <2>4. CASE before # {}
    <3>1. \A x \in NetOf(<< >>) : x \in Cover(N) <=> x \notin before
      BY <1>1, <1>2, <2>1, <2>4 DEF Inverted
    <3>. QED BY <1>3, <2>2, <2>4, <3>1
  <2>. QED BY <2>3, <2>4
<1>. HIDE DEF N
<1>5. /\ AbstractAsked = Abstract!Call("invert", addr_init_null)
      /\ AbstractAsked' = Abstract!NoCall
      /\ AbstractSet = before /\ AbstractSet' = Cover(N)
      /\ AbstractStage' = "purge" /\ AbstractOut' = AbstractOut
  BY <1>1, <1>2, MappedAlways DEF Mapped, N
<1>6. AbstractAsked.op = "invert"
  BY <1>5 DEF Abstract!Call
<1>7. Abstract!Invert
  BY <1>1, <1>4, <1>5, <1>6, SameNetworks DEF Abstract!Invert, Abstract!Answer
<1>. QED BY <1>7 DEF AbstractStep, Abstract!Next

LEMMA InvertRefines ==
  ASSUME IInv, SInv, InvertSteps
  PROVE  AbstractStep
<1>1. CASE InvertFails
  <2>1. phase \notin {"new", "done", "failed"}
    BY <1>1 DEF InvertFails, IInv, Control
  <2>. QED BY <1>1, <2>1, AbortIsFail DEF InvertFails
<1>2. CASE InvertReturns
  BY <1>2, InvertReturnsRefines
<1>3. CASE ~InvertFails /\ ~InvertReturns
  <2>1. /\ call \in {"invert", "inverting"} /\ call' = "inverting"
        /\ phase' = phase /\ ac' = ac /\ arg' = arg /\ before' = before
    BY <1>3 DEF InvertSteps, InvertHotRoot, InvertEmpty, InvertRoot, Recurse,
                InvertMove, InvertOther, InvertCreateLeft, InvertLeft,
                InvertCreateRight, InvertRight, UnchangedByInvert, Running
  <2>2. \A t \in TreeId : t # on => node'[t] = node[t]
    <3>1. DOMAIN node = TreeId
      BY TreeFacts
    <3>. QED BY <1>3, <3>1
           DEF InvertSteps, InvertHotRoot, InvertEmpty, InvertRoot,
               InvertMove, InvertOther, InvertCreateLeft, InvertLeft,
               InvertCreateRight, InvertRight
  <2>. QED BY <2>1, <2>2, InvertInternal DEF TreeId
<1>. QED BY <1>1, <1>2, <1>3

-----------------------------------------------------------------------------
(***************************************************************************)
(* Purge takes the argument's addresses out.                               *)
(***************************************************************************)
LEMMA PurgeAnswers ==
  ASSUME call # "none", phase = "purge", phase' = phase, call' = "none", ac' = ac,
         Cover(node'["main"]) = Cover(node["main"]) \ NetOf(ArgPath)
  PROVE  AbstractStep
<1>1. /\ AbstractAsked = Abstract!Call("purge", arg) /\ AbstractAsked' = Abstract!NoCall
      /\ AbstractSet = Cover(node["main"]) /\ AbstractSet' = Cover(node'["main"])
      /\ AbstractStage' = AbstractStage /\ AbstractOut' = AbstractOut
  BY MappedAlways DEF Mapped
<1>2. AbstractAsked.op = "purge" /\ AbstractAsked.addr = arg
  BY <1>1 DEF Abstract!Call
<1>3. Abstract!PathTo(arg, arg.len) = ArgPath
  BY DEF Abstract!PathTo, ArgPath
<1>4. Abstract!Purge
  BY <1>1, <1>2, <1>3, SameNetworks DEF Abstract!Purge, Abstract!Answer
<1>. QED BY <1>4 DEF AbstractStep, Abstract!Next

\* Nothing is covered where the walk to the argument ends at a missing node.
LEMMA PurgeMissRefines ==
  ASSUME IInv, SInv, PurgeMiss
  PROVE  AbstractStep
<1>. DEFINE N == node["main"]
<1>1. /\ call = "purge" /\ node' = node /\ call' = "none" /\ phase' = phase /\ ac' = ac
  BY DEF PurgeMiss, PurgeReturns, OpDone
<1>2. PICK k \in 0..W : FindMiss("main", arg, k)
  BY DEF PurgeMiss
<1>. DEFINE p == Position("main", arg, k)
            c == Position("main", arg, k + 1)
            u == ArgPath
<1>3. /\ phase = "purge" /\ GoodTree(N, << >>) /\ N[<< >>] # NULL /\ root["main"] = << >>
      /\ "main" \in TreeId /\ arg \in Addr /\ arg.len \in 0..W
      /\ << >> \in Path /\ Len(<< >>) = 0
  BY <1>1, PurgeStart, EmptyPath
<1>4. k < arg.len /\ Reaches("main", arg, k) /\ ~N[p].hot /\ N[c] = NULL
  BY <1>2 DEF FindMiss
<1>5. /\ p \in Path /\ N[p] # NULL /\ Len(p) = k /\ k < W /\ arg.bits[k + 1] \in Bit
      /\ c = Child(p, arg.bits[k + 1])
  BY <1>3, <1>4, FindFacts
<1>6. u \in Path /\ Covers(root["main"], u)
  BY <1>3, ArgPathIs, RootOnTheWay
<1>7. c \in Path /\ Covers(c, u) /\ Covers(<< >>, c)
  <2>1. k \in Nat /\ k + 1 \in 0..W /\ k + 1 <= arg.len /\ 0 <= k + 1
    BY <1>3, <1>4, <1>5, WAssumption
  <2>2. c \in Path /\ Covers(c, u)
    BY <1>3, <1>6, <2>1, PositionOnTheWay
  <2>. QED BY <1>3, <2>2 DEF Covers
<1>. HIDE DEF N, p, c, u
<1>8. ASSUME NEW q \in Path, StrictlyCovers(q, u) PROVE N[q] = NULL \/ ~N[q].hot
  <2>1. Covers(q, u)
    BY <1>6, <1>8, CoversSplit
  <2>2. Covers(c, q) \/ StrictlyCovers(q, c)
    BY <1>6, <1>7, <2>1, Comparable
  <2>3. CASE Covers(c, q)
    BY <1>3, <1>4, <1>7, <2>3, CoversSplit, NothingBelow
  <2>4. CASE StrictlyCovers(q, c)
    <3>1. Covers(q, p)
      BY <1>5, <2>4, CoversChild
    <3>2. CASE q = p
      BY <1>4, <3>2
    <3>3. CASE StrictlyCovers(q, p)
      <4>1. Covers(<< >>, q)
        BY <1>3 DEF Covers
      <4>. QED BY <1>3, <1>5, <3>3, <4>1, AncestorCold
    <3>. QED BY <1>5, <3>1, <3>2, <3>3, CoversSplit
  <2>. QED BY <2>2, <2>3, <2>4
<1>9. HotNodes(N) = {q \in HotNodes(N) : ~Covers(u, q)}
  <2>1. \A q \in Path : Covers(u, q) => N[q] = NULL
    <3>. SUFFICES ASSUME NEW q \in Path, Covers(u, q) PROVE N[q] = NULL
      OBVIOUS
    <3>1. Covers(c, q)
      BY <1>6, <1>7, CoversTransitive
    <3>. QED BY <1>3, <1>4, <1>7, <3>1, CoversSplit, NothingBelow
  <2>. QED BY <2>1 DEF HotNodes
<1>10. Cover(N) = Cover(N) \ NetOf(u)
  BY <1>3, <1>6, <1>8, <1>9, CoverRemove
<1>. QED BY <1>1, <1>3, <1>10, PurgeAnswers DEF N, u

LEMMA PurgeNodeRefines ==
  ASSUME IInv, SInv, PurgeNode
  PROVE  AbstractStep
<1>. DEFINE N == node["main"]
            p == Position("main", arg, arg.len)
            M == IF p = root["main"] THEN DestroyKids(SetHot(N, p, FALSE), p)
                 ELSE DestroyNode(N, p)
<1>1. /\ call = "purge" /\ Reaches("main", arg, arg.len)
      /\ call' = "none" /\ phase' = phase /\ ac' = ac
      /\ node' = [node EXCEPT !["main"] =
                    IF p = root["main"] THEN DestroyKids(SetHot(@, p, FALSE), p)
                    ELSE DestroyNode(@, p)]
  BY DEF PurgeNode, FindHit, PurgeReturns, OpDone
<1>2. /\ phase = "purge" /\ GoodTree(N, << >>) /\ N[<< >>] # NULL /\ root["main"] = << >>
      /\ << >> \in Path
      /\ "main" \in TreeId /\ DOMAIN node = TreeId /\ arg \in Addr /\ arg.len \in 0..W
  BY <1>1, PurgeStart
<1>3. node'["main"] = M
  BY <1>1, <1>2
<1>4. p \in Path /\ N[p] # NULL
  BY <1>1, <1>2, FindFacts
<1>5. p = ArgPath
  BY <1>1, <1>2, <1>4, EmptyPath, RootOnTheWay, PositionOnTheWay
<1>. HIDE DEF N, p
<1>6. HotNodes(M) = {q \in HotNodes(N) : ~Covers(p, q)}
  <2>1. CASE p = root["main"]
    <3>. DEFINE h == FALSE
    <3>1. h \in BOOLEAN /\ M = DestroyKids(SetHot(N, p, h), p)
      BY <2>1
    <3>. HIDE DEF M
    <3>2. M = SetHot(DestroyKids(N, p), p, h)
      <4>. HIDE DEF h
      <4>. QED BY <1>2, <1>4, <3>1, MarkedIsJoined
    <3>3. HotNodes(M) = {q \in HotNodes(N) : ~Covers(p, q)} \union (IF h THEN {p} ELSE {})
      <4>. HIDE DEF h
      <4>. QED BY <1>2, <1>4, <3>1, <3>2, JoinedNodes
    <3>. QED BY <3>3
  <2>2. CASE p # root["main"]
    <3>1. M = DestroyNode(N, p)
      BY <2>2
    <3>. HIDE DEF M
    <3>. QED BY <1>4, <3>1, DestroyNodeNodes
  <2>. QED BY <2>1, <2>2
<1>. HIDE DEF M
<1>7. Cover(M) = Cover(N) \ NetOf(p)
  <2>1. Covers(<< >>, p)
    BY <1>2, <1>4 DEF GoodTree
  <2>. QED BY <1>2, <1>4, <1>6, <2>1, NoneAbove, CoverRemove
<1>. QED BY <1>1, <1>2, <1>3, <1>5, <1>7, PurgeAnswers DEF N

\* The inverse of the argument within its hot parent replaces the parent.
LEMMA PurgeGraftRefines ==
  ASSUME IInv, SInv, PurgeGraft
  PROVE  AbstractStep
<1>. DEFINE N == node["main"]
            R == node["repl"]
            p == root["repl"]
            u == ArgPath
<1>1. /\ call = "inverting" /\ stack = << >> /\ on = "repl"
      /\ node'["main"] = Graft(N, R, p)
      /\ call' = "none" /\ phase' = phase /\ ac' = ac
  BY DEF PurgeGraft, OpDone, TreeId
<1>2. /\ phase = "purge" /\ GoodTree(R, p) /\ p \in Path /\ ~R[p].hot /\ Inverted
  BY <1>1, InvertFacts
<1>3. GoodTree(N, << >>) /\ N[p] # NULL
  BY <1>1, TreeFacts DEF Trees
<1>4. N[p].hot /\ StrictlyCovers(p, u) /\ u \in Path
  BY <1>1, SetParts, TreeFacts, ArgPathIs DEF ReplBuilt
<1>5. \A x \in NetOf(p) : x \in Cover(R) <=> x \notin NetOf(u)
  <2>1. Was = NetOf(u) /\ Was # {} /\ FramesOf(stack) = {}
    BY <1>1, <1>4, FramesOfNone, NetNotEmpty DEF Was
  <2>. QED BY <1>1, <1>2, <2>1 DEF Inverted
<1>. HIDE DEF N, R, p, u
<1>6. Cover(Graft(N, R, p)) = (Cover(N) \ NetOf(p)) \union Cover(R)
  BY <1>2, <1>3, GraftCover
<1>7. Cover(R) \subseteq NetOf(p)
  BY <1>2, CoverInRoot
<1>8. NetOf(p) \subseteq Cover(N)
  BY <1>2, <1>3, <1>4, CoverHot DEF HotNodes
<1>9. NetOf(u) \subseteq NetOf(p)
  BY <1>2, <1>4, CoversSplit, MatchesUp DEF NetOf
<1>10. Cover(Graft(N, R, p)) = Cover(N) \ NetOf(u)
  BY <1>5, <1>6, <1>7, <1>8, <1>9
<1>. QED BY <1>1, <1>2, <1>10, PurgeAnswers DEF N, u

LEMMA PurgeRefines ==
  ASSUME IInv, SInv, PurgeSteps
  PROVE  AbstractStep
<1>1. CASE PurgeParent
  <2>1. /\ call = "purge" /\ call' = "insert" /\ phase' = phase /\ ac' = ac /\ arg' = arg
        /\ before' = before
    BY <1>1 DEF PurgeParent
  <2>2. node'["main"] = node["main"]
    BY <1>1, TreeFacts DEF PurgeParent
  <2>3. phase = "purge"
    BY <2>1, PurgeStart
  <2>. QED BY <2>1, <2>2, <2>3, Internal
<1>2. CASE PurgeParentNoMemory
  <2>1. phase = "purge"
    BY <1>2, PurgeStart DEF PurgeParentNoMemory
  <2>. QED BY <1>2, <2>1, AbortIsFail DEF PurgeParentNoMemory
<1>. QED BY <1>1, <1>2, PurgeMissRefines, PurgeNodeRefines, PurgeGraftRefines DEF PurgeSteps

-----------------------------------------------------------------------------
(***************************************************************************)
(* Collect lists the set.                                                  *)
(***************************************************************************)
LEMMA CollectReturnsRefines ==
  ASSUME IInv, SInv, CollectReturns
  PROVE  AbstractStep
<1>. DEFINE N == node["main"]
<1>1. /\ call = "collect" /\ stack = << >> /\ phase' = "done" /\ call' = "none"
      /\ node' = node /\ ac' = ac /\ out' = out
  BY DEF CollectReturns, OpDone
<1>2. /\ phase = "print" /\ GoodTree(N, << >>) /\ out \in Seq(Addr)
      /\ \A i \in 1..Len(out) : \E p \in HotNodes(N) : out[i] = Padded(p)
      /\ \A p \in HotNodes(N) : \/ \E i \in 1..Len(out) : out[i] = Padded(p)
                                \/ \E f \in FramesOf(stack) : ToCollect(f, p)
  BY <1>1, CollectFacts
<1>3. \A p \in Path : ~TwinsAt(N, p)
  BY <1>2, SetParts DEF Canonical
<1>. HIDE DEF N
<1>4. {out[i] : i \in 1..Len(out)} = {Abstract!Padded(p) : p \in Abstract!MaximalNets(Cover(N))}
  <2>1. \A p \in HotNodes(N) : \E i \in 1..Len(out) : out[i] = Padded(p)
    BY <1>1, <1>2, FramesOfNone
  <2>2. {out[i] : i \in 1..Len(out)} = {Padded(p) : p \in HotNodes(N)}
    BY <1>2, <2>1
  <2>3. {Padded(p) : p \in HotNodes(N)} = {Abstract!Padded(p) : p \in HotNodes(N)}
    BY SameNetworks
  <2>. QED BY <1>2, <1>3, <2>2, <2>3, MaximalAre
<1>5. \A i, j \in 1..Len(out) : i < j => Abstract!Before(out[i], out[j])
  <2>1. OutputSorted
    BY SetParts
  <2>. QED BY <2>1 DEF OutputSorted, Abstract!Before
<1>6. Abstract!Lists(out, Cover(N))
  BY <1>2, <1>4, <1>5, SameNetworks DEF Abstract!Lists
<1>7. /\ AbstractStage = "purge" /\ AbstractStage' = "done" /\ AbstractOut' = out
      /\ AbstractAsked = Abstract!NoCall /\ AbstractAsked' = Abstract!NoCall
      /\ AbstractSet = Cover(N) /\ AbstractSet' = AbstractSet
  BY <1>1, <1>2, MappedAlways DEF Mapped, N
<1>8. Abstract!Collect
  BY <1>1, <1>6, <1>7 DEF Abstract!Collect
<1>. QED BY <1>8 DEF AbstractStep, Abstract!Next

LEMMA CollectRefines ==
  ASSUME IInv, SInv, CollectSteps
  PROVE  AbstractStep
<1>1. call = "collect" => phase = "print"
  BY CollectFacts
<1>2. CASE CollectHot \/ CollectLeft \/ CollectRight
  <2>1. /\ call = "collect" /\ call' = call /\ phase' = phase /\ ac' = ac /\ arg' = arg
        /\ before' = before /\ node' = node
    BY <1>2 DEF CollectHot, CollectLeft, CollectRight, Running
  <2>. QED BY <1>1, <2>1, Internal
<1>3. CASE CollectHotNoMemory
  BY <1>1, <1>3, AbortIsFail DEF CollectHotNoMemory, Running
<1>. QED BY <1>2, <1>3, CollectReturnsRefines DEF CollectSteps

-----------------------------------------------------------------------------
(***************************************************************************)
(* The theorem.                                                            *)
(***************************************************************************)
\* For every width, every input and every choice of options: what main_run()
\* does with its tree is what IpSet does with its set.  Insert adds the
\* argument's addresses, cut to the auto-collapse length, collapse changes
\* nothing, invert takes the complement, purge takes the argument out, and
\* what is collected is the set's largest networks, in order, each once.
THEOREM TreeImplementsSet == Spec => ImplementsIpSet
<1>1. Init => Abstract!Init
  BY InitIsInit
<1>2. IInv /\ SInv /\ [Next]_vars => [Abstract!Next]_(Abstract!vars)
  <2>. SUFFICES ASSUME IInv, SInv, [Next]_vars PROVE AbstractStep
    BY DEF AbstractStep
  <2>1. CASE Exited \/ UNCHANGED vars
    <3>1. /\ node' = node /\ phase' = phase /\ call' = call /\ arg' = arg /\ ac' = ac
          /\ before' = before /\ out' = out
      BY <2>1 DEF Exited, vars, opVars
    <3>2. /\ AbstractSet' = AbstractSet /\ AbstractStage' = AbstractStage
          /\ AbstractAsked' = AbstractAsked /\ AbstractOut' = AbstractOut
      BY <3>1 DEF AbstractSet, AbstractStage, AbstractAsked, AbstractOut
    <3>. QED BY <3>1, <3>2 DEF AbstractStep, Abstract!vars
  <2>. QED BY <2>1, StartRefines, InsertRefines, CollapseRefines, InvertRefines, PurgeRefines,
              CollectRefines DEF Next, OpStep
<1>. QED BY <1>1, <1>2, Invariance, SetInvariance, PTL
        DEF Spec, ImplementsIpSet, Abstract!Spec

=============================================================================
