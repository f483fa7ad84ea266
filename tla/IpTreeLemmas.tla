---------------------------- MODULE IpTreeLemmas ----------------------------
(***************************************************************************)
(* Facts about paths, about trees, the addresses they cover and the stack  *)
(* of calls that the proofs of IpTree's invariants rest on.                *)
(***************************************************************************)
EXTENDS IpTreeSetInv, SequenceTheorems, FiniteSetTheorems, TLAPS

(***************************************************************************)
(* Paths.                                                                  *)
(***************************************************************************)
\* A path is a sequence of at most W bits.
LEMMA PathIsSeq ==
  ASSUME NEW p \in Path
  PROVE  /\ Len(p) \in 0..W
         /\ p \in [1..Len(p) -> Bit]
<1>1. PICK n \in 0..W : p \in [1..n -> Bit]
  BY DEF Path
<1>2. n \in Nat
  BY <1>1, WAssumption
<1>3. p \in Seq(Bit) /\ Len(p) = n
  BY <1>1, <1>2
<1>. QED BY <1>1, <1>3

\* A sequence of at most W bits is a path.
LEMMA SeqIsPath ==
  ASSUME NEW n \in 0..W, NEW p \in [1..n -> Bit]
  PROVE  p \in Path /\ Len(p) = n
<1>1. n \in Nat
  BY WAssumption
<1>2. Len(p) = n
  BY <1>1
<1>. QED BY <1>2 DEF Path

LEMMA EmptyPath == << >> \in Path /\ Len(<< >>) = 0
<1>1. << >> \in [1..0 -> Bit]
  OBVIOUS
<1>2. 0 \in 0..W
  BY WAssumption
<1>. QED BY <1>1, <1>2, SeqIsPath

\* A child's path is one bit longer and starts with its parent's.
LEMMA ChildPath ==
  ASSUME NEW p \in Path, Len(p) < W, NEW b \in Bit
  PROVE  /\ Child(p, b) \in Path
         /\ Len(Child(p, b)) = Len(p) + 1
         /\ \A i \in 1..Len(p) : Child(p, b)[i] = p[i]
         /\ Child(p, b)[Len(p) + 1] = b
<1>1. Len(p) \in 0..W /\ p \in [1..Len(p) -> Bit]
  BY PathIsSeq
<1>2. Len(p) + 1 \in 0..W
  BY <1>1, WAssumption
<1>3. Child(p, b) \in [1..(Len(p) + 1) -> Bit]
  BY <1>1 DEF Child
<1>4. Child(p, b) \in Path /\ Len(Child(p, b)) = Len(p) + 1
  BY <1>2, <1>3, SeqIsPath
<1>. QED BY <1>1, <1>4 DEF Child

\* The two children of a node differ, and so do children of two nodes.
LEMMA ChildInjective ==
  ASSUME NEW p \in Path, NEW q \in Path, Len(p) < W, Len(q) < W,
         NEW b \in Bit, NEW c \in Bit, Child(p, b) = Child(q, c)
  PROVE  p = q /\ b = c
<1>1. /\ Len(p) = Len(q) /\ b = c
      /\ \A i \in 1..Len(p) : p[i] = q[i]
  <2>1. Len(p) + 1 = Len(q) + 1
    BY ChildPath
  <2>2. Len(p) \in 0..W /\ Len(q) \in 0..W
    BY PathIsSeq
  <2>3. Len(p) = Len(q)
    BY <2>1, <2>2, WAssumption
  <2>. QED BY <2>3, ChildPath
<1>2. p \in [1..Len(p) -> Bit] /\ q \in [1..Len(p) -> Bit]
  BY <1>1, PathIsSeq
<1>. QED BY <1>1, <1>2

\* p is strictly above a child exactly when it is at or above the parent.
LEMMA CoversChild ==
  ASSUME NEW p \in Path, NEW q \in Path, Len(q) < W, NEW b \in Bit
  PROVE  StrictlyCovers(p, Child(q, b)) <=> Covers(p, q)
<1>1. Len(p) \in 0..W /\ Len(q) \in 0..W
  BY PathIsSeq
<1>2. Len(Child(q, b)) = Len(q) + 1 /\ \A i \in 1..Len(q) : Child(q, b)[i] = q[i]
  BY ChildPath
<1>3. Len(p) < Len(q) + 1 <=> Len(p) <= Len(q)
  BY <1>1, WAssumption
<1>4. Len(p) <= Len(q) => \A i \in 1..Len(p) : i \in 1..Len(q)
  BY <1>1, WAssumption
<1>. QED BY <1>2, <1>3, <1>4 DEF StrictlyCovers, Covers

\* Covering is covering strictly, or being the same path.
LEMMA CoversSplit ==
  ASSUME NEW p \in Path, NEW q \in Path
  PROVE  Covers(p, q) <=> StrictlyCovers(p, q) \/ p = q
<1>1. Len(p) \in Nat /\ Len(q) \in Nat
  BY PathIsSeq, WAssumption
<1>2. Len(p) <= Len(q) <=> Len(p) < Len(q) \/ Len(p) = Len(q)
  BY <1>1
<1>3. p \in [1..Len(p) -> Bit] /\ q \in [1..Len(q) -> Bit]
  BY PathIsSeq
<1>4. Len(p) = Len(q) /\ (\A i \in 1..Len(p) : p[i] = q[i]) => p = q
  BY <1>3
<1>. QED BY <1>1, <1>2, <1>4 DEF Covers, StrictlyCovers

\* What is covered is no shorter.
LEMMA CoversLen ==
  ASSUME NEW p \in Path, NEW q \in Path
  PROVE  /\ Covers(p, q) => Len(p) <= Len(q)
         /\ StrictlyCovers(p, q) => Len(p) < Len(q)
BY DEF Covers, StrictlyCovers

LEMMA CoversTransitive ==
  ASSUME NEW p \in Path, NEW q \in Path, NEW r \in Path, Covers(p, q), Covers(q, r)
  PROVE  Covers(p, r)
<1>1. Len(p) \in 0..W /\ Len(q) \in 0..W /\ Len(r) \in 0..W
  BY PathIsSeq
<1>2. Len(p) <= Len(q) /\ Len(q) <= Len(r) /\ Len(p) <= Len(r)
  BY <1>1, WAssumption DEF Covers
<1>3. \A i \in 1..Len(p) : i \in 1..Len(q)
  BY <1>1, <1>2, WAssumption
<1>. QED BY <1>2, <1>3 DEF Covers

-----------------------------------------------------------------------------
(***************************************************************************)
(* Addresses of positions.                                                 *)
(***************************************************************************)
LEMMA PaddedIsAddr ==
  ASSUME NEW p \in Path
  PROVE  /\ Padded(p) \in Addr /\ Padded(p).len = Len(p)
         /\ \A i \in 1..W : Padded(p).bits[i] = IF i <= Len(p) THEN p[i] ELSE 0
<1>1. Len(p) \in 0..W /\ p \in [1..Len(p) -> Bit]
  BY PathIsSeq
<1>2. \A i \in 1..W : i <= Len(p) => i \in 1..Len(p)
  BY <1>1, WAssumption
<1>3. \A i \in 1..W : (IF i <= Len(p) THEN p[i] ELSE 0) \in Bit
  BY <1>1, <1>2 DEF Bit
<1>4. [i \in 1..W |-> IF i <= Len(p) THEN p[i] ELSE 0] \in Address
  BY <1>3 DEF Address
<1>. QED BY <1>1, <1>4 DEF Padded, Addr

LEMMA NullIsPadded == addr_init_null = Padded(<< >>)
<1>1. Len(<< >>) = 0
  OBVIOUS
<1>2. \A i \in 1..W : (IF i <= 0 THEN << >>[i] ELSE 0) = 0
  BY WAssumption
<1>3. [i \in 1..W |-> IF i <= 0 THEN << >>[i] ELSE 0] = [i \in 1..W |-> 0]
  BY <1>2
<1>. QED BY <1>1, <1>3 DEF addr_init_null, Padded

\* Creating a child of a node with its position's address gives the child
\* its position's address.
LEMMA ChildAddr ==
  ASSUME NEW p \in Path, Len(p) < W, NEW b \in Bit
  PROVE  addr_init_child(Padded(p), b) = Padded(Child(p, b))
<1>. DEFINE k == Len(p) + 1
<1>1. Len(p) \in 0..W /\ k \in 1..W
  BY PathIsSeq, WAssumption
<1>2. /\ Child(p, b) \in Path /\ Len(Child(p, b)) = k
      /\ \A i \in 1..Len(p) : Child(p, b)[i] = p[i]
      /\ Child(p, b)[k] = b
  BY ChildPath
<1>3. /\ Padded(p).len = Len(p)
      /\ Padded(p).bits = [i \in 1..W |-> IF i <= Len(p) THEN p[i] ELSE 0]
  BY DEF Padded
<1>4. \A i \in 1..W : [Padded(p).bits EXCEPT ![k] = b][i]
                      = IF i <= k THEN Child(p, b)[i] ELSE 0
  <2>. SUFFICES ASSUME NEW i \in 1..W
                PROVE  [Padded(p).bits EXCEPT ![k] = b][i]
                       = IF i <= k THEN Child(p, b)[i] ELSE 0
    OBVIOUS
  <2>1. CASE i = k
    BY <1>1, <1>2, <1>3, <2>1
  <2>2. CASE i <= Len(p)
    <3>1. i \in 1..Len(p) /\ i # k /\ i <= k
      BY <1>1, <2>2, WAssumption
    <3>. QED BY <1>2, <1>3, <2>2, <3>1
  <2>3. CASE i > k
    <3>1. ~(i <= k) /\ ~(i <= Len(p)) /\ i # k
      BY <1>1, <2>3, WAssumption
    <3>. QED BY <1>3, <3>1
  <2>4. i = k \/ i <= Len(p) \/ i > k
    BY <1>1, WAssumption
  <2>. QED BY <2>1, <2>2, <2>3, <2>4
<1>5. [Padded(p).bits EXCEPT ![k] = b] = [i \in 1..W |-> IF i <= k THEN Child(p, b)[i] ELSE 0]
  BY <1>3, <1>4
<1>6. addr_init_child(Padded(p), b)
      = [len |-> k, bits |-> [i \in 1..W |-> IF i <= k THEN Child(p, b)[i] ELSE 0]]
  BY <1>3, <1>5 DEF addr_init_child
<1>. QED BY <1>2, <1>6 DEF Padded

\* Flipping the last bit leads from one child's address to the other's.
LEMMA SiblingAddr ==
  ASSUME NEW p \in Path, Len(p) < W, NEW b \in Bit
  PROVE  /\ 1 - b \in Bit
         /\ addr_init_sibling(Padded(Child(p, b))) = Padded(Child(p, 1 - b))
<1>. DEFINE k == Len(p) + 1
<1>1. Len(p) \in 0..W /\ k \in 1..W
  BY PathIsSeq, WAssumption
<1>2. 1 - b \in Bit
  BY DEF Bit
<1>3. /\ Len(Child(p, b)) = k /\ Len(Child(p, 1 - b)) = k
      /\ \A i \in 1..Len(p) : Child(p, b)[i] = p[i] /\ Child(p, 1 - b)[i] = p[i]
      /\ Child(p, b)[k] = b /\ Child(p, 1 - b)[k] = 1 - b
  BY <1>2, ChildPath
<1>. DEFINE B(c) == [i \in 1..W |-> IF i <= k THEN Child(p, c)[i] ELSE 0]
<1>4. Padded(Child(p, b)) = [len |-> k, bits |-> B(b)]
      /\ Padded(Child(p, 1 - b)) = [len |-> k, bits |-> B(1 - b)]
  BY <1>3 DEF Padded
<1>5. \A i \in 1..W : [B(b) EXCEPT ![k] = 1 - @][i] = B(1 - b)[i]
  <2>. SUFFICES ASSUME NEW i \in 1..W
                PROVE  [B(b) EXCEPT ![k] = 1 - @][i] = B(1 - b)[i]
    OBVIOUS
  <2>1. CASE i = k
    BY <1>1, <1>3, <2>1
  <2>2. CASE i <= Len(p)
    <3>1. i \in 1..Len(p) /\ i # k /\ i <= k
      BY <1>1, <2>2, WAssumption
    <3>. QED BY <1>3, <2>2, <3>1
  <2>3. CASE i > k
    <3>1. ~(i <= k) /\ i # k
      BY <1>1, <2>3, WAssumption
    <3>. QED BY <3>1
  <2>4. i = k \/ i <= Len(p) \/ i > k
    BY <1>1, WAssumption
  <2>. QED BY <2>1, <2>2, <2>3, <2>4
<1>6. [B(b) EXCEPT ![k] = 1 - @] = B(1 - b)
  BY <1>5
<1>7. ASSUME NEW x, NEW f, x = [len |-> k, bits |-> f]
      PROVE  addr_init_sibling(x) = [len |-> k, bits |-> [f EXCEPT ![k] = 1 - @]]
  BY <1>7 DEF addr_init_sibling
<1>8. addr_init_sibling(Padded(Child(p, b))) = [len |-> k, bits |-> [B(b) EXCEPT ![k] = 1 - @]]
  BY <1>4, <1>7
<1>. QED BY <1>2, <1>4, <1>6, <1>8

-----------------------------------------------------------------------------
(***************************************************************************)
(* Trees: each change of a tree that the code makes leaves it a tree.      *)
(***************************************************************************)
\* What is known of a node of a tree.
LEMMA GoodNode ==
  ASSUME NEW N, NEW r, GoodTree(N, r), NEW p \in Path, N[p] # NULL
  PROVE  /\ N[p] \in Node /\ N[p].hot \in BOOLEAN
         /\ N[p].addr = Padded(p) /\ N[p].addr \in Addr /\ N[p].addr.len = Len(p)
         /\ Covers(r, p) /\ Len(r) <= Len(p)
<1>1. N[p] \in Node /\ N[p].addr = Padded(p) /\ Covers(r, p) /\ r \in Path
  BY DEF GoodTree
<1>. QED BY <1>1, PaddedIsAddr, CoversLen DEF Node

\* A child of a node is not the root.
LEMMA ChildNotRoot ==
  ASSUME NEW N, NEW r, GoodTree(N, r), NEW p \in Path, Covers(r, p), Len(p) < W, NEW b \in Bit
  PROVE  Child(p, b) # r
<1>1. r \in Path /\ Len(r) <= Len(p)
  BY CoversLen DEF GoodTree
<1>2. Len(Child(p, b)) = Len(p) + 1 /\ Len(p) \in Nat /\ Len(r) \in Nat
  BY <1>1, ChildPath, PathIsSeq, WAssumption
<1>. QED BY <1>1, <1>2

LEMMA HotHasNoKids ==
  ASSUME NEW N, NEW r, GoodTree(N, r), NEW p \in Path, N[p] # NULL, N[p].hot, NEW b \in Bit
  PROVE  Kid(N, p, b) = NULL
<1>1. CASE Len(p) < W
  <2>1. Child(p, b) # r
    BY <1>1, GoodNode, ChildNotRoot
  <2>. QED BY <1>1, <2>1 DEF GoodTree, Kid
<1>. QED BY <1>1 DEF Kid

LEMMA MissingHasNoKids ==
  ASSUME NEW N, NEW r, GoodTree(N, r), NEW p \in Path, Covers(r, p), N[p] = NULL, NEW b \in Bit
  PROVE  Kid(N, p, b) = NULL
<1>1. CASE Len(p) < W
  <2>1. Child(p, b) # r
    BY <1>1, ChildNotRoot
  <2>. QED BY <1>1, <2>1 DEF GoodTree, Kid
<1>. QED BY <1>1 DEF Kid

\* Marking a node: only a leaf may become hot.
LEMMA SetHotGood ==
  ASSUME NEW N, NEW r, GoodTree(N, r), NEW p \in Path, N[p] # NULL, NEW h \in BOOLEAN,
         h => \A b \in Bit : Kid(N, p, b) = NULL
  PROVE  /\ GoodTree(SetHot(N, p, h), r)
         /\ SetHot(N, p, h)[p] # NULL /\ SetHot(N, p, h)[p].hot = h
         /\ \A q \in Path : q # p => SetHot(N, p, h)[q] = N[q]
         /\ \A q \in Path : SetHot(N, p, h)[q] # NULL <=> N[q] # NULL
<1>. DEFINE M == SetHot(N, p, h)
<1>1. N \in [Path -> Node \union {NULL}] /\ N[p] \in Node /\ N[p].addr = Padded(p)
  BY GoodNode DEF GoodTree
<1>2. M = [N EXCEPT ![p] = [N[p] EXCEPT !.hot = h]]
  BY DEF SetHot
<1>3. [N[p] EXCEPT !.hot = h] \in Node /\ [N[p] EXCEPT !.hot = h].hot = h
      /\ [N[p] EXCEPT !.hot = h].addr = Padded(p)
  BY <1>1 DEF Node
<1>4. /\ M \in [Path -> Node \union {NULL}]
      /\ M[p] \in Node /\ M[p].hot = h /\ M[p].addr = Padded(p)
      /\ \A q \in Path : q # p => M[q] = N[q]
  BY <1>1, <1>2, <1>3
<1>5. M[p] # NULL /\ \A q \in Path : M[q] # NULL <=> N[q] # NULL
  BY <1>4, TreeAssumption
<1>6. \A q \in Path : M[q] # NULL => Covers(r, q) /\ M[q].addr = Padded(q)
  BY <1>4, <1>5 DEF GoodTree
<1>7. ASSUME NEW q \in Path, NEW b \in Bit, Len(q) < W, M[Child(q, b)] # NULL, Child(q, b) # r
      PROVE  M[q] # NULL /\ ~M[q].hot
  <2>1. Child(q, b) \in Path
    BY <1>7, ChildPath
  <2>2. N[Child(q, b)] # NULL
    BY <1>5, <1>7, <2>1
  <2>3. N[q] # NULL /\ ~N[q].hot
    BY <1>7, <2>2 DEF GoodTree
  <2>4. CASE q = p
    BY <1>4, <1>5, <1>7, <2>2, <2>4 DEF Kid
  <2>. QED BY <1>4, <1>5, <2>3, <2>4
<1>8. GoodTree(M, r)
  BY <1>4, <1>6, <1>7 DEF GoodTree
<1>. QED BY <1>4, <1>5, <1>8

LEMMA DestroyKidsGood ==
  ASSUME NEW N, NEW r, GoodTree(N, r), NEW p \in Path
  PROVE  /\ GoodTree(DestroyKids(N, p), r)
         /\ \A b \in Bit : Kid(DestroyKids(N, p), p, b) = NULL
         /\ \A q \in Path : Len(q) <= Len(p) => DestroyKids(N, p)[q] = N[q]
         /\ \A q \in Path : DestroyKids(N, p)[q] # NULL => DestroyKids(N, p)[q] = N[q]
<1>. DEFINE M == DestroyKids(N, p)
<1>1. \A q \in Path : M[q] = IF StrictlyCovers(p, q) THEN NULL ELSE N[q]
  BY DEF DestroyKids
<1>2. M \in [Path -> Node \union {NULL}]
  BY DEF DestroyKids, GoodTree
<1>3. \A q \in Path : M[q] # NULL => M[q] = N[q]
  BY <1>1
<1>4. ASSUME NEW q \in Path, NEW b \in Bit, Len(q) < W, M[Child(q, b)] # NULL, Child(q, b) # r
      PROVE  M[q] # NULL /\ ~M[q].hot
  <2>1. Child(q, b) \in Path /\ ~StrictlyCovers(p, Child(q, b)) /\ N[Child(q, b)] # NULL
    BY <1>1, <1>4, ChildPath
  <2>2. N[q] # NULL /\ ~N[q].hot
    BY <1>4, <2>1 DEF GoodTree
  <2>3. ~StrictlyCovers(p, q)
    BY <1>4, <2>1, CoversChild, CoversSplit
  <2>. QED BY <1>1, <2>2, <2>3
<1>5. GoodTree(M, r)
  BY <1>2, <1>3, <1>4 DEF GoodTree
<1>6. ASSUME NEW b \in Bit PROVE Kid(M, p, b) = NULL
  <2>1. Covers(p, p)
    BY CoversSplit
  <2>. QED BY <1>1, <2>1, ChildPath, CoversChild DEF Kid
<1>7. ASSUME NEW q \in Path, Len(q) <= Len(p) PROVE M[q] = N[q]
  <2>1. Len(p) \in Nat /\ Len(q) \in Nat
    BY PathIsSeq, WAssumption
  <2>. QED BY <1>1, <1>7, <2>1 DEF StrictlyCovers
<1>. QED BY <1>3, <1>5, <1>6, <1>7

LEMMA DestroyNodeGood ==
  ASSUME NEW N, NEW r, GoodTree(N, r), NEW p \in Path
  PROVE  /\ GoodTree(DestroyNode(N, p), r)
         /\ \A q \in Path : Len(q) <= Len(p) /\ q # p => DestroyNode(N, p)[q] = N[q]
         /\ \A q \in Path : DestroyNode(N, p)[q] # NULL => DestroyNode(N, p)[q] = N[q]
<1>. DEFINE M == DestroyNode(N, p)
<1>1. \A q \in Path : M[q] = IF Covers(p, q) THEN NULL ELSE N[q]
  BY DEF DestroyNode
<1>2. M \in [Path -> Node \union {NULL}]
  BY DEF DestroyNode, GoodTree
<1>3. \A q \in Path : M[q] # NULL => M[q] = N[q]
  BY <1>1
<1>4. ASSUME NEW q \in Path, NEW b \in Bit, Len(q) < W, M[Child(q, b)] # NULL, Child(q, b) # r
      PROVE  M[q] # NULL /\ ~M[q].hot
  <2>1. Child(q, b) \in Path /\ ~Covers(p, Child(q, b)) /\ N[Child(q, b)] # NULL
    BY <1>1, <1>4, ChildPath
  <2>2. N[q] # NULL /\ ~N[q].hot
    BY <1>4, <2>1 DEF GoodTree
  <2>3. ~Covers(p, q)
    BY <1>4, <2>1, CoversChild, CoversSplit
  <2>. QED BY <1>1, <2>2, <2>3
<1>5. GoodTree(M, r)
  BY <1>2, <1>3, <1>4 DEF GoodTree
<1>6. ASSUME NEW q \in Path, Len(q) <= Len(p), q # p PROVE M[q] = N[q]
  <2>1. Len(p) \in Nat /\ Len(q) \in Nat
    BY PathIsSeq, WAssumption
  <2>2. ~StrictlyCovers(p, q)
    BY <1>6, <2>1 DEF StrictlyCovers
  <2>. QED BY <1>1, <1>6, <2>2, CoversSplit
<1>. QED BY <1>3, <1>5, <1>6

\* Joining: the node becomes hot and its subtrees go.
LEMMA JoinedGood ==
  ASSUME NEW N, NEW r, GoodTree(N, r), NEW p \in Path, N[p] # NULL, NEW h \in BOOLEAN
  PROVE  /\ GoodTree(SetHot(DestroyKids(N, p), p, h), r)
         /\ SetHot(DestroyKids(N, p), p, h)[p] # NULL
         /\ SetHot(DestroyKids(N, p), p, h)[p].hot = h
         /\ \A q \in Path : Len(q) <= Len(p) /\ q # p
                            => SetHot(DestroyKids(N, p), p, h)[q] = N[q]
         /\ \A q \in Path : SetHot(DestroyKids(N, p), p, h)[q] # NULL
                            => N[q] # NULL /\ (q # p => SetHot(DestroyKids(N, p), p, h)[q] = N[q])
<1>. DEFINE D == DestroyKids(N, p)
<1>1. /\ GoodTree(D, r) /\ \A b \in Bit : Kid(D, p, b) = NULL
      /\ \A q \in Path : Len(q) <= Len(p) => D[q] = N[q]
      /\ \A q \in Path : D[q] # NULL => D[q] = N[q]
  BY DestroyKidsGood
<1>2. D[p] # NULL
  BY <1>1, PathIsSeq
<1>. HIDE DEF D
<1>3. /\ GoodTree(SetHot(D, p, h), r)
      /\ SetHot(D, p, h)[p] # NULL /\ SetHot(D, p, h)[p].hot = h
      /\ \A q \in Path : q # p => SetHot(D, p, h)[q] = D[q]
      /\ \A q \in Path : SetHot(D, p, h)[q] # NULL <=> D[q] # NULL
  BY <1>1, <1>2, SetHotGood
<1>4. \A q \in Path : Len(q) <= Len(p) /\ q # p => SetHot(D, p, h)[q] = N[q]
  BY <1>1, <1>3
<1>5. \A q \in Path : SetHot(D, p, h)[q] # NULL
                      => N[q] # NULL /\ (q # p => SetHot(D, p, h)[q] = N[q])
  BY <1>1, <1>3
<1>. QED BY <1>3, <1>4, <1>5 DEF D

\* Insert's way to do the same: it marks the node before it frees.
LEMMA MarkedGood ==
  ASSUME NEW N, NEW r, GoodTree(N, r), NEW p \in Path, N[p] # NULL
  PROVE  LET M == DestroyKids(SetHot(N, p, TRUE), p) IN
         /\ GoodTree(M, r) /\ M[p] # NULL /\ M[p].hot
         /\ \A q \in Path : Len(q) <= Len(p) /\ q # p => M[q] = N[q]
         /\ \A q \in Path : M[q] # NULL => N[q] # NULL /\ (q # p => M[q] = N[q])
<1>. DEFINE M == DestroyKids(SetHot(N, p, TRUE), p)
            K == SetHot(DestroyKids(N, p), p, TRUE)
<1>1. M = K
  <2>1. ~StrictlyCovers(p, p)
    BY PathIsSeq, WAssumption DEF StrictlyCovers
  <2>2. N \in [Path -> Node \union {NULL}]
    BY DEF GoodTree
  <2>. QED BY <2>1, <2>2 DEF SetHot, DestroyKids
<1>2. /\ GoodTree(K, r) /\ K[p] # NULL /\ K[p].hot = TRUE
      /\ \A q \in Path : Len(q) <= Len(p) /\ q # p => K[q] = N[q]
      /\ \A q \in Path : K[q] # NULL => N[q] # NULL /\ (q # p => K[q] = N[q])
  BY JoinedGood
<1>. HIDE DEF K, M
<1>3. /\ GoodTree(M, r) /\ M[p] # NULL /\ M[p].hot
      /\ \A q \in Path : Len(q) <= Len(p) /\ q # p => M[q] = N[q]
      /\ \A q \in Path : M[q] # NULL => N[q] # NULL /\ (q # p => M[q] = N[q])
  BY <1>1, <1>2
<1>. QED BY <1>3 DEF M

\* Cooling a node and dropping what is below it: the purged root.
LEMMA CooledGood ==
  ASSUME NEW N, NEW r, GoodTree(N, r), NEW p \in Path, N[p] # NULL
  PROVE  LET M == DestroyKids(SetHot(N, p, FALSE), p) IN
         GoodTree(M, r) /\ M[p] # NULL
<1>. DEFINE M == DestroyKids(SetHot(N, p, FALSE), p)
            K == SetHot(DestroyKids(N, p), p, FALSE)
<1>1. M = K
  <2>1. ~StrictlyCovers(p, p)
    BY PathIsSeq, WAssumption DEF StrictlyCovers
  <2>2. N \in [Path -> Node \union {NULL}]
    BY DEF GoodTree
  <2>. QED BY <2>1, <2>2 DEF SetHot, DestroyKids
<1>2. GoodTree(K, r) /\ K[p] # NULL
  BY JoinedGood
<1>. HIDE DEF K, M
<1>3. GoodTree(M, r) /\ M[p] # NULL
  BY <1>1, <1>2
<1>. QED BY <1>3 DEF M

\* A new child below a cold node.
LEMMA AddChildGood ==
  ASSUME NEW N, NEW r, GoodTree(N, r), NEW p \in Path, Len(p) < W, NEW b \in Bit,
         N[p] # NULL, ~N[p].hot, N[Child(p, b)] = NULL,
         NEW n \in Node, n.addr = Padded(Child(p, b))
  PROVE  GoodTree([N EXCEPT ![Child(p, b)] = n], r)
<1>. DEFINE c == Child(p, b)
            M == [N EXCEPT ![c] = n]
<1>1. c \in Path /\ N \in [Path -> Node \union {NULL}] /\ r \in Path
  BY ChildPath DEF GoodTree
<1>2. /\ M \in [Path -> Node \union {NULL}] /\ M[c] = n
      /\ \A q \in Path : q # c => M[q] = N[q]
  BY <1>1
<1>3. Covers(r, p) /\ Covers(r, c) /\ c # r /\ p # c
  <2>1. Covers(r, p)
    BY GoodNode
  <2>2. StrictlyCovers(r, c)
    BY <1>1, <2>1, CoversChild
  <2>. QED BY <1>1, <2>1, <2>2, CoversSplit, ChildNotRoot
<1>4. \A q \in Path : M[q] # NULL => Covers(r, q) /\ M[q].addr = Padded(q)
  BY <1>2, <1>3 DEF GoodTree
<1>5. ASSUME NEW q \in Path, NEW d \in Bit, Len(q) < W, M[Child(q, d)] # NULL, Child(q, d) # r
      PROVE  M[q] # NULL /\ ~M[q].hot
  <2>1. Child(q, d) \in Path
    BY <1>5, ChildPath
  <2>2. CASE Child(q, d) = c
    <3>1. q = p
      BY <1>5, <2>2, ChildInjective
    <3>. QED BY <1>2, <1>3, <3>1
  <2>3. CASE Child(q, d) # c
    <3>1. N[Child(q, d)] # NULL
      BY <1>2, <1>5, <2>1, <2>3
    <3>2. N[q] # NULL /\ ~N[q].hot
      BY <1>5, <3>1 DEF GoodTree
    <3>. QED BY <1>2, <3>2
  <2>. QED BY <2>2, <2>3
<1>. QED BY <1>1, <1>2, <1>4, <1>5 DEF GoodTree

\* A node without children goes.
LEMMA RemoveLeafGood ==
  ASSUME NEW N, NEW r, GoodTree(N, r), NEW p \in Path, N[p] # NULL, N[p].hot
  PROVE  GoodTree([N EXCEPT ![p] = NULL], r)
<1>. DEFINE M == [N EXCEPT ![p] = NULL]
<1>1. N \in [Path -> Node \union {NULL}] /\ r \in Path
  BY DEF GoodTree
<1>2. /\ M \in [Path -> Node \union {NULL}] /\ M[p] = NULL
      /\ \A q \in Path : q # p => M[q] = N[q]
  BY <1>1
<1>3. ASSUME NEW q \in Path, NEW d \in Bit, Len(q) < W, M[Child(q, d)] # NULL, Child(q, d) # r
      PROVE  M[q] # NULL /\ ~M[q].hot
  <2>1. Child(q, d) \in Path /\ N[Child(q, d)] # NULL
    BY <1>2, <1>3, ChildPath
  <2>2. N[q] # NULL /\ ~N[q].hot
    BY <1>3, <2>1 DEF GoodTree
  <2>3. q # p
    BY <2>2
  <2>. QED BY <1>2, <2>2, <2>3
<1>. QED BY <1>1, <1>2, <1>3 DEF GoodTree

\* The tree with the node at c moved to d, and with a hot sibling of it at d.
Moved(N, c, d) == [[N EXCEPT ![d] = flip_addr_inplace(N[c])] EXCEPT ![c] = NULL]

WithSibling(N, c, d) == [N EXCEPT ![d] = new_sibling(N[c], TRUE)]

\* A hot node moves to its missing sibling's place.
LEMMA MoveGood ==
  ASSUME NEW N, NEW r, GoodTree(N, r), NEW p \in Path, Len(p) < W,
         NEW b \in Bit, NEW e \in Bit, e = 1 - b,
         N[p] # NULL, ~N[p].hot,
         N[Child(p, b)] # NULL, N[Child(p, b)].hot, N[Child(p, e)] = NULL
  PROVE  LET M == Moved(N, Child(p, b), Child(p, e)) IN
         /\ GoodTree(M, r)
         /\ \A q \in Path : Len(q) <= Len(p) => M[q] = N[q]
<1>. DEFINE c == Child(p, b)
            d == Child(p, e)
            n == flip_addr_inplace(N[c])
            A == [N EXCEPT ![d] = n]
            M == [A EXCEPT ![c] = NULL]
<1>1. e # b
  BY DEF Bit
<1>2. /\ c \in Path /\ d \in Path /\ c # d
      /\ Len(c) = Len(p) + 1 /\ Len(d) = Len(p) + 1 /\ Len(p) \in Nat
  BY <1>1, ChildPath, ChildInjective, PathIsSeq, WAssumption
<1>3. N[c] \in Node /\ N[c].addr = Padded(c)
  BY <1>2, GoodNode
<1>4. addr_init_sibling(N[c].addr) = Padded(d) /\ Padded(d) \in Addr
  BY <1>2, <1>3, SiblingAddr, PaddedIsAddr
<1>5. n \in Node /\ n.addr = Padded(d)
  BY <1>3, <1>4 DEF flip_addr_inplace, Node
<1>6. N \in [Path -> Node \union {NULL}]
  BY DEF GoodTree
<1>. HIDE DEF n
<1>7. GoodTree(A, r)
  BY <1>5, AddChildGood
<1>8. A[c] = N[c] /\ \A q \in Path : q # d => A[q] = N[q]
  BY <1>2, <1>6
<1>. HIDE DEF A
<1>9. GoodTree(M, r)
  BY <1>2, <1>7, <1>8, RemoveLeafGood
<1>10. \A q \in Path : Len(q) <= Len(p) => M[q] = N[q]
  <2>. SUFFICES ASSUME NEW q \in Path, Len(q) <= Len(p) PROVE M[q] = N[q]
    OBVIOUS
  <2>1. Len(q) \in Nat
    BY PathIsSeq, WAssumption
  <2>2. q # c /\ q # d
    BY <1>2, <2>1
  <2>3. A \in [Path -> Node \union {NULL}]
    BY <1>7 DEF GoodTree
  <2>. QED BY <1>2, <1>8, <2>2, <2>3
<1>. QED BY <1>9, <1>10 DEF A, n, Moved

\* A new sibling of a node, hot.
LEMMA AddSiblingGood ==
  ASSUME NEW N, NEW r, GoodTree(N, r), NEW p \in Path, Len(p) < W,
         NEW b \in Bit, NEW e \in Bit, e = 1 - b,
         N[p] # NULL, ~N[p].hot, N[Child(p, b)] # NULL, N[Child(p, e)] = NULL
  PROVE  LET M == WithSibling(N, Child(p, b), Child(p, e)) IN
         /\ GoodTree(M, r) /\ M[Child(p, e)] # NULL
         /\ \A q \in Path : q # Child(p, e) => M[q] = N[q]
         /\ \A q \in Path : Len(q) <= Len(p) => M[q] = N[q]
<1>. DEFINE c == Child(p, b)
            d == Child(p, e)
            n == new_sibling(N[c], TRUE)
            M == [N EXCEPT ![d] = n]
<1>2. c \in Path /\ d \in Path /\ Len(d) = Len(p) + 1 /\ Len(p) \in Nat
  BY ChildPath, PathIsSeq, WAssumption
<1>3. N[c] \in Node /\ N[c].addr = Padded(c)
  BY <1>2, GoodNode
<1>4. addr_init_sibling(N[c].addr) = Padded(d) /\ Padded(d) \in Addr
  BY <1>2, <1>3, SiblingAddr, PaddedIsAddr
<1>5. n \in Node /\ n.addr = Padded(d)
  BY <1>3, <1>4 DEF new_sibling, Node
<1>6. N \in [Path -> Node \union {NULL}]
  BY DEF GoodTree
<1>. HIDE DEF n
<1>7. GoodTree(M, r)
  BY <1>5, AddChildGood
<1>8. M[d] # NULL /\ \A q \in Path : q # d => M[q] = N[q]
  BY <1>2, <1>5, <1>6, TreeAssumption
<1>9. \A q \in Path : Len(q) <= Len(p) => q # d
  BY <1>2, PathIsSeq, WAssumption
<1>. QED BY <1>7, <1>8, <1>9 DEF n, WithSibling

\* No nodes are a tree, and so is one node.
LEMMA EmptyGood == ASSUME NEW r \in Path PROVE GoodTree(NoNodes, r)
<1>1. NoNodes \in [Path -> Node \union {NULL}] /\ \A q \in Path : NoNodes[q] = NULL
  BY DEF NoNodes
<1>. QED BY <1>1, ChildPath DEF GoodTree

LEMMA SingleGood ==
  ASSUME NEW r \in Path, NEW n \in Node, n.addr = Padded(r)
  PROVE  GoodTree([NoNodes EXCEPT ![r] = n], r)
<1>. DEFINE M == [NoNodes EXCEPT ![r] = n]
<1>1. NoNodes \in [Path -> Node \union {NULL}] /\ \A q \in Path : NoNodes[q] = NULL
  BY DEF NoNodes
<1>2. M \in [Path -> Node \union {NULL}] /\ M[r] = n /\ \A q \in Path : q # r => M[q] = NULL
  BY <1>1
<1>3. Covers(r, r)
  BY CoversSplit
<1>. QED BY <1>2, <1>3, ChildPath DEF GoodTree

\* Grafting the children of one tree's root onto the same node of another.
LEMMA GraftGood ==
  ASSUME NEW N, NEW r, GoodTree(N, r), NEW R, NEW p, GoodTree(R, p), N[p] # NULL
  PROVE  /\ GoodTree(Graft(N, R, p), r)
         /\ \A q \in Path : Len(q) <= Len(p) /\ N[q] # NULL => Graft(N, R, p)[q] # NULL
<1>. DEFINE M == Graft(N, R, p)
            n == [N[p] EXCEPT !.hot = FALSE]
<1>1. p \in Path /\ r \in Path /\ N \in [Path -> Node \union {NULL}]
      /\ R \in [Path -> Node \union {NULL}]
  BY DEF GoodTree
<1>2. n \in Node /\ ~n.hot /\ n.addr = Padded(p) /\ n # NULL /\ Covers(r, p)
  BY <1>1, GoodNode, TreeAssumption DEF Node
<1>. HIDE DEF n
<1>3. ~StrictlyCovers(p, p)
  BY <1>1, PathIsSeq, WAssumption DEF StrictlyCovers
<1>4. \A q \in Path : M[q] = IF StrictlyCovers(p, q) THEN R[q] ELSE IF q = p THEN n ELSE N[q]
  BY DEF Graft, n
<1>5. M \in [Path -> Node \union {NULL}]
  BY <1>1, <1>2 DEF Graft, n
<1>6. ASSUME NEW q \in Path, M[q] # NULL PROVE Covers(r, q) /\ M[q].addr = Padded(q)
  <2>1. CASE StrictlyCovers(p, q)
    <3>1. M[q] = R[q] /\ M[q].addr = Padded(q)
      BY <1>4, <1>6, <2>1 DEF GoodTree
    <3>2. Covers(p, q)
      BY <1>1, <2>1, CoversSplit
    <3>. QED BY <1>1, <1>2, <3>1, <3>2, CoversTransitive
  <2>2. CASE q = p
    BY <1>2, <1>3, <1>4, <2>2
  <2>3. CASE ~StrictlyCovers(p, q) /\ q # p
    BY <1>4, <1>6, <2>3 DEF GoodTree
  <2>. QED BY <2>1, <2>2, <2>3
<1>7. ASSUME NEW q \in Path, NEW b \in Bit, Len(q) < W, M[Child(q, b)] # NULL, Child(q, b) # r
      PROVE  M[q] # NULL /\ ~M[q].hot
  <2>1. Child(q, b) \in Path /\ (StrictlyCovers(p, Child(q, b)) <=> StrictlyCovers(p, q) \/ p = q)
    BY <1>1, <1>7, ChildPath, CoversChild, CoversSplit
  <2>2. CASE q = p
    BY <1>2, <1>3, <1>4, <2>2
  <2>3. CASE StrictlyCovers(p, q)
    <3>1. R[Child(q, b)] # NULL
      BY <1>4, <1>7, <2>1, <2>3
    <3>2. Child(q, b) # p
      BY <1>3, <2>1, <2>3
    <3>3. R[q] # NULL /\ ~R[q].hot
      BY <1>7, <3>1, <3>2 DEF GoodTree
    <3>. QED BY <1>4, <2>3, <3>3
  <2>4. CASE ~StrictlyCovers(p, q) /\ q # p
    <3>1. ~StrictlyCovers(p, Child(q, b))
      BY <2>1, <2>4
    <3>2. N[Child(q, b)] # NULL
      BY <1>4, <1>7, <2>1, <3>1
    <3>3. N[q] # NULL /\ ~N[q].hot
      BY <1>7, <3>2 DEF GoodTree
    <3>. QED BY <1>4, <2>4, <3>3
  <2>. QED BY <2>2, <2>3, <2>4
<1>8. ASSUME NEW q \in Path, Len(q) <= Len(p), N[q] # NULL PROVE M[q] # NULL
  <2>1. Len(p) \in Nat /\ Len(q) \in Nat
    BY <1>1, PathIsSeq, WAssumption
  <2>2. ~StrictlyCovers(p, q)
    BY <1>8, <2>1 DEF StrictlyCovers
  <2>. QED BY <1>2, <1>4, <1>8, <2>2
<1>. QED BY <1>1, <1>5, <1>6, <1>7, <1>8 DEF GoodTree

-----------------------------------------------------------------------------
(***************************************************************************)
(* The stack of calls.                                                     *)
(***************************************************************************)
Frames == [at : {"enter", "right", "merge"}, node : Path]

\* The frame f of the stack s, below its top.
BelowTop(s, f) ==
  \E j \in 1..Len(s) : f = s[j] /\ Len(s[j].node) < Len(Head(s).node)

LEMMA StackTop ==
  ASSUME NEW s \in Seq(Frames), s # << >>
  PROVE  /\ Len(s) \in Nat /\ Len(s) >= 1 /\ 1 \in 1..Len(s)
         /\ Head(s) = s[1] /\ Head(s) \in Frames /\ Head(s).node \in Path
         /\ Head(s).at \in {"enter", "right", "merge"}
         /\ \A i \in 1..Len(s) : s[i] \in Frames /\ s[i].node \in Path
<1>1. Len(s) \in Nat /\ Len(s) >= 1 /\ Head(s) = s[1]
  OBVIOUS
<1>2. \A i \in 1..Len(s) : s[i] \in Frames
  OBVIOUS
<1>. QED BY <1>1, <1>2 DEF Frames

LEMMA StackTail ==
  ASSUME NEW s \in Seq(Frames), s # << >>, GoodStack(s)
  PROVE  /\ Tail(s) \in Seq(Frames) /\ Len(Tail(s)) = Len(s) - 1
         /\ \A i \in 1..Len(Tail(s)) : /\ i + 1 \in 1..Len(s) /\ Tail(s)[i] = s[i + 1]
                                       /\ Len(s[i + 1].node) < Len(s[1].node)
         /\ GoodStack(Tail(s))
<1>1. /\ Tail(s) \in Seq(Frames) /\ Len(Tail(s)) = Len(s) - 1
      /\ \A i \in 1..Len(Tail(s)) : Tail(s)[i] = s[i + 1]
  OBVIOUS
<1>2. Len(s) \in Nat /\ Len(s) >= 1
  OBVIOUS
<1>3. \A i \in 1..Len(Tail(s)) : i + 1 \in 1..Len(s) /\ 1 \in 1..Len(s) /\ 1 < i + 1
  BY <1>1, <1>2
<1>4. \A i \in 1..Len(Tail(s)) : Len(s[i + 1].node) < Len(s[1].node)
  BY <1>3 DEF GoodStack
<1>5. \A i \in 1..Len(Tail(s)) : Len(Tail(s)[i].node) >= Len(Tail(s)) - i
  <2>. SUFFICES ASSUME NEW i \in 1..Len(Tail(s))
                PROVE  Len(Tail(s)[i].node) >= Len(Tail(s)) - i
    OBVIOUS
  <2>1. Len(s[i + 1].node) >= Len(s) - (i + 1)
    BY <1>3 DEF GoodStack
  <2>2. Len(Tail(s)) - i = Len(s) - (i + 1)
    BY <1>1, <1>2
  <2>. QED BY <1>1, <2>1, <2>2
<1>6. \A i, j \in 1..Len(Tail(s)) : i < j => Len(Tail(s)[j].node) < Len(Tail(s)[i].node)
  <2>. SUFFICES ASSUME NEW i \in 1..Len(Tail(s)), NEW j \in 1..Len(Tail(s)), i < j
                PROVE  Len(Tail(s)[j].node) < Len(Tail(s)[i].node)
    OBVIOUS
  <2>1. i + 1 \in 1..Len(s) /\ j + 1 \in 1..Len(s) /\ i + 1 < j + 1
    BY <1>1, <1>2, <1>3
  <2>2. Len(s[j + 1].node) < Len(s[i + 1].node)
    BY <2>1 DEF GoodStack
  <2>. QED BY <1>1, <2>2
<1>. QED BY <1>1, <1>3, <1>4, <1>5, <1>6 DEF GoodStack

\* A frame on top of a good stack of shallower calls.
LEMMA StackPush ==
  ASSUME NEW s \in Seq(Frames), GoodStack(s), NEW f \in Frames,
         Len(f.node) >= Len(s),
         \A i \in 1..Len(s) : Len(s[i].node) < Len(f.node)
  PROVE  /\ <<f>> \o s \in Seq(Frames) /\ GoodStack(<<f>> \o s)
         /\ Len(<<f>> \o s) = Len(s) + 1 /\ (<<f>> \o s)[1] = f
         /\ \A i \in 1..Len(<<f>> \o s) :
              i = 1 \/ (i - 1 \in 1..Len(s) /\ (<<f>> \o s)[i] = s[i - 1])
<1>. DEFINE z == <<f>> \o s
<1>1. z \in Seq(Frames) /\ Len(z) = Len(s) + 1 /\ z[1] = f /\ Len(s) \in Nat
  OBVIOUS
<1>2. \A i \in 1..Len(z) : i = 1 \/ (i - 1 \in 1..Len(s) /\ z[i] = s[i - 1])
  OBVIOUS
<1>. HIDE DEF z
<1>3. \A i \in 1..Len(z) : Len(z[i].node) >= Len(z) - i
  <2>. SUFFICES ASSUME NEW i \in 1..Len(z) PROVE Len(z[i].node) >= Len(z) - i
    OBVIOUS
  <2>1. CASE i = 1
    BY <1>1, <2>1
  <2>2. CASE i - 1 \in 1..Len(s) /\ z[i] = s[i - 1]
    <3>1. Len(s[i - 1].node) >= Len(s) - (i - 1)
      BY <2>2 DEF GoodStack
    <3>. QED BY <1>1, <2>2, <3>1
  <2>. QED BY <1>2, <2>1, <2>2
<1>4. \A i, j \in 1..Len(z) : i < j => Len(z[j].node) < Len(z[i].node)
  <2>. SUFFICES ASSUME NEW i \in 1..Len(z), NEW j \in 1..Len(z), i < j
                PROVE  Len(z[j].node) < Len(z[i].node)
    OBVIOUS
  <2>1. j # 1 /\ j - 1 \in 1..Len(s) /\ z[j] = s[j - 1]
    BY <1>1, <1>2
  <2>2. CASE i = 1
    BY <1>1, <2>1, <2>2
  <2>3. CASE i - 1 \in 1..Len(s) /\ z[i] = s[i - 1]
    <3>1. i - 1 < j - 1
      BY <1>1
    <3>2. Len(s[j - 1].node) < Len(s[i - 1].node)
      BY <2>1, <2>3, <3>1 DEF GoodStack
    <3>. QED BY <2>1, <2>3, <3>2
  <2>. QED BY <1>2, <2>2, <2>3
<1>5. z \in Seq(Frames) /\ GoodStack(z)
  BY <1>1, <1>3, <1>4 DEF GoodStack
<1>. QED BY <1>1, <1>2, <1>5 DEF z

LEMMA TwoFrames ==
  ASSUME NEW f \in Frames, NEW h \in Frames
  PROVE  <<f>> \in Seq(Frames) /\ <<h>> \in Seq(Frames) /\ <<f>> \o <<h>> = <<f, h>>
<1>1. <<f>> \in Seq(Frames) /\ <<h>> \in Seq(Frames) /\ <<f, h>> \in Seq(Frames)
  OBVIOUS
<1>2. <<f>> \o <<h>> \in Seq(Frames) /\ Len(<<f>> \o <<h>>) = 2 /\ Len(<<f, h>>) = 2
  OBVIOUS
<1>3. \A i \in 1..2 : (<<f>> \o <<h>>)[i] = <<f, h>>[i]
  OBVIOUS
<1>. QED BY <1>1, <1>2, <1>3, SeqEqual

\* The call at the top returns.
LEMMA Returns ==
  ASSUME NEW s \in Seq(Frames), s # << >>, GoodStack(s)
  PROVE  LET z == << >> \o Tail(s) IN
         /\ z \in Seq(Frames) /\ GoodStack(z)
         /\ \A i \in 1..Len(z) : BelowTop(s, z[i])
<1>1. << >> \o Tail(s) = Tail(s)
  BY StackTail
<1>. QED BY <1>1, StackTail, StackTop DEF BelowTop

\* The call at the top goes on, or is replaced by one for a deeper node.
LEMMA Continues ==
  ASSUME NEW s \in Seq(Frames), s # << >>, GoodStack(s),
         NEW f \in Frames, Len(f.node) >= Len(Head(s).node)
  PROVE  LET z == <<f>> \o Tail(s) IN
         /\ z \in Seq(Frames) /\ GoodStack(z)
         /\ \A i \in 1..Len(z) : z[i] = f \/ BelowTop(s, z[i])
<1>. DEFINE T == Tail(s)
<1>1. /\ T \in Seq(Frames) /\ Len(T) = Len(s) - 1 /\ GoodStack(T)
      /\ \A i \in 1..Len(T) : /\ i + 1 \in 1..Len(s) /\ T[i] = s[i + 1]
                              /\ Len(s[i + 1].node) < Len(s[1].node)
  BY StackTail
<1>2. Head(s) = s[1] /\ s[1].node \in Path /\ 1 \in 1..Len(s) /\ Len(s) \in Nat
      /\ \A i \in 1..Len(s) : s[i].node \in Path
  BY StackTop
<1>3. f.node \in Path
  BY DEF Frames
<1>. HIDE DEF T
<1>4. Len(f.node) \in Nat /\ \A i \in 1..Len(s) : Len(s[i].node) \in Nat
  BY <1>2, <1>3, PathIsSeq, WAssumption
<1>5. Len(f.node) >= Len(T)
  <2>1. Len(s[1].node) >= Len(s) - 1
    BY <1>2 DEF GoodStack
  <2>. QED BY <1>1, <1>2, <1>4, <2>1
<1>6. \A i \in 1..Len(T) : Len(T[i].node) < Len(f.node)
  <2>. SUFFICES ASSUME NEW i \in 1..Len(T) PROVE Len(T[i].node) < Len(f.node)
    OBVIOUS
  <2>1. i + 1 \in 1..Len(s) /\ T[i] = s[i + 1] /\ Len(s[i + 1].node) < Len(s[1].node)
    BY <1>1
  <2>2. Len(f.node) >= Len(s[1].node)
    BY <1>2
  <2>3. Len(s[i + 1].node) \in Nat /\ Len(s[1].node) \in Nat
    BY <1>2, <1>4, <2>1
  <2>. QED BY <1>4, <2>1, <2>2, <2>3
<1>7. /\ <<f>> \o T \in Seq(Frames) /\ GoodStack(<<f>> \o T)
      /\ (<<f>> \o T)[1] = f
      /\ \A i \in 1..Len(<<f>> \o T) :
           i = 1 \/ (i - 1 \in 1..Len(T) /\ (<<f>> \o T)[i] = T[i - 1])
  BY <1>1, <1>5, <1>6, StackPush
<1>8. \A i \in 1..Len(T) : BelowTop(s, T[i])
  BY <1>1, <1>2 DEF BelowTop
<1>. QED BY <1>7, <1>8 DEF T

\* The call at the top calls for a child of its node.
LEMMA CallsChild ==
  ASSUME NEW s \in Seq(Frames), s # << >>, GoodStack(s),
         NEW f \in Frames, NEW h \in Frames,
         h.node = Head(s).node, Len(f.node) = Len(h.node) + 1
  PROVE  LET z == <<f, h>> \o Tail(s) IN
         /\ z \in Seq(Frames) /\ GoodStack(z)
         /\ \A i \in 1..Len(z) : z[i] = f \/ z[i] = h \/ BelowTop(s, z[i])
<1>. DEFINE y == <<h>> \o Tail(s)
<1>1. h.node \in Path /\ f.node \in Path
  BY DEF Frames
<1>2. Len(h.node) \in Nat /\ Len(f.node) \in Nat
  BY <1>1, PathIsSeq, WAssumption
<1>3. Tail(s) \in Seq(Frames) /\ Len(Tail(s)) = Len(s) - 1
  BY StackTail
<1>4. /\ y \in Seq(Frames) /\ GoodStack(y)
      /\ \A i \in 1..Len(y) : y[i] = h \/ BelowTop(s, y[i])
  BY <1>2, Continues
<1>5. Len(y) = Len(Tail(s)) + 1 /\ y[1] = h /\ <<f, h>> \o Tail(s) = <<f>> \o y
  <2>1. Len(y) = Len(Tail(s)) + 1 /\ y[1] = h
    BY <1>3
  <2>2. <<f>> \in Seq(Frames) /\ <<h>> \in Seq(Frames) /\ <<f>> \o <<h>> = <<f, h>>
    BY TwoFrames
  <2>3. (<<f>> \o <<h>>) \o Tail(s) = <<f>> \o (<<h>> \o Tail(s))
    BY <1>3, <2>2, ConcatAssociative
  <2>. QED BY <2>1, <2>2, <2>3
<1>. HIDE DEF y
<1>6. Len(y) \in Nat /\ Len(y) >= 1
  BY <1>3, <1>5
<1>7. Len(f.node) >= Len(y)
  <2>1. Len(y[1].node) >= Len(y) - 1
    BY <1>4, <1>6 DEF GoodStack
  <2>. QED BY <1>2, <1>5, <1>6, <2>1
<1>8. \A i \in 1..Len(y) : Len(y[i].node) < Len(f.node)
  <2>. SUFFICES ASSUME NEW i \in 1..Len(y) PROVE Len(y[i].node) < Len(f.node)
    OBVIOUS
  <2>0. y[i] \in Frames
    BY <1>4
  <2>1. y[i].node \in Path /\ Len(y[i].node) \in Nat
    BY <2>0, PathIsSeq, WAssumption DEF Frames
  <2>2. CASE i = 1
    BY <1>2, <1>5, <2>2
  <2>3. CASE 1 < i
    <3>1. Len(y[i].node) < Len(y[1].node)
      BY <1>4, <1>6, <2>3 DEF GoodStack
    <3>. QED BY <1>2, <1>5, <2>1, <3>1
  <2>. QED BY <1>6, <2>2, <2>3
<1>9. /\ <<f>> \o y \in Seq(Frames) /\ GoodStack(<<f>> \o y)
      /\ (<<f>> \o y)[1] = f
      /\ \A i \in 1..Len(<<f>> \o y) :
           i = 1 \/ (i - 1 \in 1..Len(y) /\ (<<f>> \o y)[i] = y[i - 1])
  BY <1>4, <1>7, <1>8, StackPush
<1>. QED BY <1>4, <1>5, <1>9

LEMMA EmptyStack == << >> \in Seq(Frames) /\ GoodStack(<< >>)
BY DEF GoodStack

LEMMA OneCall ==
  ASSUME NEW f \in Frames
  PROVE  <<f>> \in Seq(Frames) /\ GoodStack(<<f>>) /\ \A i \in 1..Len(<<f>>) : <<f>>[i] = f
<1>1. f.node \in Path
  BY DEF Frames
<1>2. Len(f.node) \in Nat
  BY <1>1, PathIsSeq, WAssumption
<1>. QED BY <1>2 DEF GoodStack

-----------------------------------------------------------------------------
(***************************************************************************)
(* The order of paths.                                                     *)
(***************************************************************************)
\* A set of naturals has a least element: by it, a longest or a shortest
\* counterexample can be picked in place of an induction.
LEMMA LeastNat ==
  ASSUME NEW T, T \subseteq Nat, T # {}
  PROVE  \E n \in T : \A m \in T : n <= m
<1>. DEFINE R == StrictSubsetOrdering(Nat)
            F == FiniteSubsetsOf(Nat)
            G == {0..n : n \in T}
<1>1. IsWellFoundedOn(R, F)
  BY FS_StrictSubsetOrderingWellFounded
<1>2. \A y, x \in SUBSET Nat : y \subseteq x /\ y # x => <<y, x>> \in R
  BY DEF StrictSubsetOrdering
<1>3. G \subseteq F /\ G # {}
  <2>1. \A n \in Nat : 0..n \subseteq Nat /\ IsFiniteSet(0..n)
    BY FS_Interval
  <2>. QED BY <2>1 DEF FiniteSubsetsOf
<1>. HIDE DEF R, F
<1>4. PICK x \in G : \A y \in G : ~(<<y, x>> \in R)
  <2>. HIDE DEF G
  <2>. QED BY <1>1, <1>3, WFMin
<1>5. PICK n \in T : x = 0..n
  BY <1>4
<1>6. ASSUME NEW m \in T, m < n PROVE FALSE
  <2>1. 0..m \in G
    OBVIOUS
  <2>2. /\ 0..m \subseteq 0..n /\ n \in 0..n /\ n \notin 0..m
        /\ 0..m \in SUBSET Nat /\ 0..n \in SUBSET Nat
    BY <1>6
  <2>3. ~(<<0..m, 0..n>> \in R)
    BY <1>4, <1>5, <2>1
  <2>. QED BY <1>2, <2>2, <2>3
<1>. QED BY <1>6

LEMMA CoversSelf == ASSUME NEW p \in Path PROVE Covers(p, p) /\ ~StrictlyCovers(p, p)
BY PathIsSeq, WAssumption DEF Covers, StrictlyCovers

\* Two paths that lead to a third one, or to the same address, are one on
\* the way to the other.
LEMMA Comparable ==
  ASSUME NEW p \in Path, NEW q \in Path, NEW r \in Path, Covers(p, r), Covers(q, r)
  PROVE  Covers(p, q) \/ StrictlyCovers(q, p)
<1>1. Len(p) \in Nat /\ Len(q) \in Nat /\ Len(r) \in Nat
  BY PathIsSeq, WAssumption
<1>2. /\ Len(p) <= Len(r) /\ \A i \in 1..Len(p) : p[i] = r[i]
      /\ Len(q) <= Len(r) /\ \A i \in 1..Len(q) : q[i] = r[i]
  BY DEF Covers
<1>3. CASE Len(p) <= Len(q)
  <2>1. \A i \in 1..Len(p) : i \in 1..Len(q)
    BY <1>1, <1>3
  <2>. QED BY <1>2, <1>3, <2>1 DEF Covers
<1>4. CASE Len(q) < Len(p)
  <2>1. \A i \in 1..Len(q) : i \in 1..Len(p)
    BY <1>1, <1>4
  <2>. QED BY <1>2, <1>4, <2>1 DEF StrictlyCovers
<1>. QED BY <1>1, <1>3, <1>4

LEMMA MatchesComparable ==
  ASSUME NEW p \in Path, NEW q \in Path, NEW x \in Address, Matches(p, x), Matches(q, x)
  PROVE  Covers(p, q) \/ StrictlyCovers(q, p)
<1>1. Len(p) \in Nat /\ Len(q) \in Nat
  BY PathIsSeq, WAssumption
<1>2. /\ \A i \in 1..Len(p) : p[i] = x[i]
      /\ \A i \in 1..Len(q) : q[i] = x[i]
  BY DEF Matches
<1>3. CASE Len(p) <= Len(q)
  <2>1. \A i \in 1..Len(p) : i \in 1..Len(q)
    BY <1>1, <1>3
  <2>. QED BY <1>2, <1>3, <2>1 DEF Covers
<1>4. CASE Len(q) < Len(p)
  <2>1. \A i \in 1..Len(q) : i \in 1..Len(p)
    BY <1>1, <1>4
  <2>. QED BY <1>2, <1>4, <2>1 DEF StrictlyCovers
<1>. QED BY <1>1, <1>3, <1>4

\* What is covered both ways is the same.
LEMMA CoversBoth ==
  ASSUME NEW p \in Path, NEW q \in Path, Covers(p, q), ~StrictlyCovers(p, q)
  PROVE  p = q
BY CoversSplit

LEMMA StrictNotBack ==
  ASSUME NEW p \in Path, NEW q \in Path, StrictlyCovers(p, q)
  PROVE  ~Covers(q, p) /\ ~StrictlyCovers(q, p) /\ p # q /\ Covers(p, q)
BY PathIsSeq, WAssumption, CoversSplit DEF Covers, StrictlyCovers

\* The subtree of a child.
LEMMA BelowChild ==
  ASSUME NEW p \in Path, NEW q \in Path, NEW b \in Bit
  PROVE  /\ Below(p, q, b) => Len(p) < W /\ Covers(Child(p, b), q)
         /\ Len(p) < W /\ Covers(Child(p, b), q) => Below(p, q, b)
<1>1. /\ Len(p) \in Nat /\ Len(q) \in Nat /\ Len(q) <= W
  BY PathIsSeq, WAssumption
<1>2. ASSUME Below(p, q, b) PROVE Len(p) < W /\ Covers(Child(p, b), q)
  <2>1. /\ Len(p) < Len(q) /\ \A i \in 1..Len(p) : p[i] = q[i]
        /\ q[Len(p) + 1] = b
    BY <1>2 DEF Below, StrictlyCovers
  <2>2. Len(p) < W
    BY <1>1, <2>1, WAssumption
  <2>3. /\ Len(Child(p, b)) = Len(p) + 1 /\ Child(p, b)[Len(p) + 1] = b
        /\ \A i \in 1..Len(p) : Child(p, b)[i] = p[i]
    BY <2>2, ChildPath
  <2>4. \A i \in 1..(Len(p) + 1) : i \in 1..Len(p) \/ i = Len(p) + 1
    BY <1>1
  <2>5. \A i \in 1..(Len(p) + 1) : Child(p, b)[i] = q[i]
    BY <2>1, <2>3, <2>4
  <2>6. Len(p) + 1 <= Len(q)
    BY <1>1, <2>1
  <2>. QED BY <2>2, <2>3, <2>5, <2>6 DEF Covers
<1>3. ASSUME Len(p) < W, Covers(Child(p, b), q) PROVE Below(p, q, b)
  <2>1. /\ Len(Child(p, b)) = Len(p) + 1 /\ Child(p, b)[Len(p) + 1] = b
        /\ \A i \in 1..Len(p) : Child(p, b)[i] = p[i]
    BY <1>3, ChildPath
  <2>2. Len(p) + 1 <= Len(q) /\ \A i \in 1..(Len(p) + 1) : Child(p, b)[i] = q[i]
    BY <1>3, <2>1 DEF Covers
  <2>3. /\ Len(p) + 1 \in 1..(Len(p) + 1) /\ Len(p) < Len(q)
        /\ \A i \in 1..Len(p) : i \in 1..(Len(p) + 1)
    BY <1>1, <2>2
  <2>. QED BY <2>1, <2>2, <2>3 DEF Below, StrictlyCovers
<1>. QED BY <1>2, <1>3

\* Everything below a node is below one of its children, and only one.
LEMMA BelowSplit ==
  ASSUME NEW p \in Path, NEW q \in Path
  PROVE  /\ StrictlyCovers(p, q) <=> Below(p, q, 0) \/ Below(p, q, 1)
         /\ ~(Below(p, q, 0) /\ Below(p, q, 1))
<1>1. /\ Len(p) \in Nat /\ Len(q) \in Nat /\ q \in [1..Len(q) -> Bit]
  BY PathIsSeq, WAssumption
<1>2. Len(p) < Len(q) => q[Len(p) + 1] \in {0, 1}
  BY <1>1 DEF Bit
<1>. QED BY <1>2 DEF Below, StrictlyCovers

LEMMA BelowDeeper ==
  ASSUME NEW p \in Path, NEW q \in Path, NEW r \in Path, NEW b \in Bit,
         Below(p, q, b), Covers(q, r)
  PROVE  Below(p, r, b)
<1>1. Len(p) < W /\ Covers(Child(p, b), q)
  BY BelowChild
<1>2. Child(p, b) \in Path
  BY <1>1, ChildPath
<1>3. Covers(Child(p, b), r)
  BY <1>1, <1>2, CoversTransitive
<1>. QED BY <1>1, <1>3, BelowChild

LEMMA BelowOwnChild ==
  ASSUME NEW p \in Path, Len(p) < W, NEW b \in Bit
  PROVE  Below(p, Child(p, b), b) /\ StrictlyCovers(p, Child(p, b)) /\ Covers(p, Child(p, b))
BY ChildPath, BelowChild, CoversSelf, CoversSplit DEF Below

-----------------------------------------------------------------------------
(***************************************************************************)
(* The addresses of a position.                                            *)
(***************************************************************************)
LEMMA MatchesUp ==
  ASSUME NEW p \in Path, NEW q \in Path, Covers(p, q), NEW x, Matches(q, x)
  PROVE  Matches(p, x)
<1>1. Len(p) \in Nat /\ Len(q) \in Nat
  BY PathIsSeq, WAssumption
<1>2. Len(p) <= Len(q) /\ \A i \in 1..Len(p) : p[i] = q[i]
  BY DEF Covers
<1>3. \A i \in 1..Len(p) : i \in 1..Len(q)
  BY <1>1, <1>2
<1>. QED BY <1>2, <1>3 DEF Matches

LEMMA MatchesChild ==
  ASSUME NEW p \in Path, Len(p) < W, NEW b \in Bit, NEW x
  PROVE  Matches(Child(p, b), x) <=> Matches(p, x) /\ x[Len(p) + 1] = b
<1>1. Len(p) \in Nat
  BY PathIsSeq, WAssumption
<1>2. /\ Len(Child(p, b)) = Len(p) + 1 /\ Child(p, b)[Len(p) + 1] = b
      /\ \A i \in 1..Len(p) : Child(p, b)[i] = p[i]
  BY ChildPath
<1>3. \A i \in 1..(Len(p) + 1) : i \in 1..Len(p) \/ i = Len(p) + 1
  BY <1>1
<1>4. Len(p) + 1 \in 1..(Len(p) + 1) /\ \A i \in 1..Len(p) : i \in 1..(Len(p) + 1)
  BY <1>1
<1>. QED BY <1>2, <1>3, <1>4 DEF Matches

\* The addresses of a node are those of its two children.
LEMMA NetSplit ==
  ASSUME NEW p \in Path, Len(p) < W, NEW x \in Address
  PROVE  /\ Matches(p, x) <=> Matches(Child(p, 0), x) \/ Matches(Child(p, 1), x)
         /\ ~(Matches(Child(p, 0), x) /\ Matches(Child(p, 1), x))
<1>1. Len(p) \in Nat /\ Len(p) + 1 \in 1..W
  BY PathIsSeq, WAssumption
<1>2. x[Len(p) + 1] \in {0, 1} /\ 0 \in Bit /\ 1 \in Bit
  BY <1>1 DEF Address, Bit
<1>. QED BY <1>2, MatchesChild

LEMMA NetNotEmpty ==
  ASSUME NEW p \in Path
  PROVE  Padded(p).bits \in Address /\ Matches(p, Padded(p).bits) /\ NetOf(p) # {}
<1>1. /\ Padded(p) \in Addr /\ Len(p) \in 0..W
      /\ \A i \in 1..W : Padded(p).bits[i] = IF i <= Len(p) THEN p[i] ELSE 0
  BY PaddedIsAddr, PathIsSeq
<1>2. Padded(p).bits \in Address
  BY <1>1 DEF Addr
<1>3. \A i \in 1..Len(p) : i \in 1..W /\ i <= Len(p)
  BY <1>1, WAssumption
<1>. QED BY <1>1, <1>2, <1>3 DEF Matches, NetOf

LEMMA RootMatches ==
  ASSUME NEW x
  PROVE  Matches(<< >>, x)
BY EmptyPath DEF Matches

-----------------------------------------------------------------------------
(***************************************************************************)
(* Ancestors and descendants in a tree.                                    *)
(***************************************************************************)
\* Everything between the root and a node is there and is cold.
LEMMA AncestorCold ==
  ASSUME NEW N, NEW r, GoodTree(N, r), NEW p \in Path, N[p] # NULL,
         NEW q \in Path, Covers(r, q), StrictlyCovers(q, p)
  PROVE  N[q] # NULL /\ ~N[q].hot
<1>. DEFINE Bad(u) == Covers(r, u) /\ StrictlyCovers(u, p) /\ ~(N[u] # NULL /\ ~N[u].hot)
            T == {Len(p) - Len(u) : u \in {v \in Path : Bad(v)}}
<1>1. SUFFICES ASSUME Bad(q) PROVE FALSE
  OBVIOUS
<1>2. T \subseteq Nat
  <2>. SUFFICES ASSUME NEW u \in Path, Bad(u) PROVE Len(p) - Len(u) \in Nat
    OBVIOUS
  <2>. QED BY PathIsSeq, WAssumption DEF StrictlyCovers
<1>3. T # {}
  BY <1>1
<1>4. PICK n \in T : \A m \in T : n <= m
  <2>. HIDE DEF T
  <2>. QED BY <1>2, <1>3, LeastNat
<1>5. PICK u \in Path : Bad(u) /\ n = Len(p) - Len(u)
  BY <1>4
<1>6. PICK b \in Bit : Below(u, p, b)
  BY <1>5, BelowSplit DEF Bit
<1>. DEFINE c == Child(u, b)
<1>7. Len(u) < W /\ Covers(c, p)
  BY <1>6, BelowChild
<1>8. c \in Path /\ Len(c) = Len(u) + 1 /\ Covers(u, c)
  BY <1>7, ChildPath, BelowOwnChild
<1>9. r \in Path /\ Covers(r, c)
  BY <1>5, <1>8, CoversTransitive DEF GoodTree
<1>10. N[c] # NULL
  <2>1. CASE c = p
    BY <2>1
  <2>2. CASE StrictlyCovers(c, p)
    <3>1. ~Bad(c)
      <4>1. SUFFICES ASSUME Bad(c) PROVE FALSE
        OBVIOUS
      <4>2. Len(p) - Len(c) \in T
        BY <1>8, <4>1
      <4>3. n <= Len(p) - Len(c)
        BY <1>4, <4>2
      <4>. QED BY <1>5, <1>8, <4>3, PathIsSeq, WAssumption
    <3>. QED BY <1>9, <2>2, <3>1
  <2>. QED BY <1>7, <1>8, <2>1, <2>2, CoversSplit
<1>11. c # r
  <2>1. Len(r) <= Len(u)
    BY <1>5, CoversLen, <1>9
  <2>. QED BY <1>8, <1>9, <2>1, PathIsSeq, WAssumption
<1>12. N[u] # NULL /\ ~N[u].hot
  BY <1>7, <1>8, <1>10, <1>11 DEF GoodTree
<1>. QED BY <1>5, <1>12

\* Nothing hangs below a missing node or a hot one.
LEMMA NothingBelow ==
  ASSUME NEW N, NEW r, GoodTree(N, r), NEW p \in Path, Covers(r, p),
         N[p] = NULL \/ N[p].hot, NEW q \in Path, StrictlyCovers(p, q)
  PROVE  N[q] = NULL
BY AncestorCold

LEMMA MissingSubtree ==
  ASSUME NEW N, NEW r, GoodTree(N, r), NEW p \in Path, Covers(r, p), N[p] # NULL,
         NEW b \in Bit, Kid(N, p, b) = NULL, NEW q \in Path, Below(p, q, b)
  PROVE  N[q] = NULL
<1>1. Len(p) < W /\ Covers(Child(p, b), q)
  BY BelowChild
<1>2. Child(p, b) \in Path /\ Covers(p, Child(p, b)) /\ r \in Path
  BY <1>1, ChildPath, BelowOwnChild DEF GoodTree
<1>3. Covers(r, Child(p, b)) /\ N[Child(p, b)] = NULL
  BY <1>1, <1>2, CoversTransitive DEF Kid
<1>. QED BY <1>1, <1>2, <1>3, CoversSplit, NothingBelow

\* A hot node is on the way to no other.
LEMMA HotAlone ==
  ASSUME NEW N, NEW r, GoodTree(N, r), NEW p \in HotNodes(N), NEW q \in HotNodes(N), Covers(p, q)
  PROVE  p = q
<1>1. p \in Path /\ q \in Path /\ N[p] # NULL /\ N[p].hot /\ N[q] # NULL
  BY DEF HotNodes
<1>2. Covers(r, p)
  BY <1>1 DEF GoodTree
<1>. QED BY <1>1, <1>2, NothingBelow, CoversSplit

\* Two hot children are children of a cold node.
LEMMA KidThere ==
  ASSUME NEW N, NEW p \in Path, NEW b \in Bit
  PROVE  /\ Kid(N, p, b) # NULL <=> Len(p) < W /\ N[Child(p, b)] # NULL
         /\ KidHot(N, p, b) <=> Len(p) < W /\ N[Child(p, b)] # NULL /\ N[Child(p, b)].hot
BY DEF Kid, KidHot

LEMMA TwinsCold ==
  ASSUME NEW N, NEW r, GoodTree(N, r), NEW p \in Path, Covers(r, p), NEW b \in Bit,
         Kid(N, p, b) # NULL
  PROVE  N[p] # NULL /\ ~N[p].hot
<1>1. Len(p) < W /\ N[Child(p, b)] # NULL
  BY KidThere
<1>2. Child(p, b) # r
  BY <1>1, ChildNotRoot
<1>. QED BY <1>1, <1>2 DEF GoodTree

-----------------------------------------------------------------------------
(***************************************************************************)
(* What a tree covers.                                                     *)
(***************************************************************************)
LEMMA CoverIs ==
  ASSUME NEW N, NEW x \in Address
  PROVE  x \in Cover(N) <=> \E p \in HotNodes(N) : Matches(p, x)
BY DEF Cover, HotNodes, NetOf

\* Outside the network of p the cover depends on the nodes outside only.
LEMMA CoverOutside ==
  ASSUME NEW N, NEW M, NEW p \in Path, NEW x \in Address, ~Matches(p, x),
         \A q \in Path : ~Covers(p, q) => (q \in HotNodes(M) <=> q \in HotNodes(N))
  PROVE  x \in Cover(M) <=> x \in Cover(N)
<1>1. \A q \in Path : Matches(q, x) => ~Covers(p, q)
  BY MatchesUp
<1>2. HotNodes(M) \subseteq Path /\ HotNodes(N) \subseteq Path
  BY DEF HotNodes
<1>. QED BY <1>1, <1>2, CoverIs

\* Inside the network of a node that is there, it depends on the hot nodes
\* at or below it only.
LEMMA CoverInside ==
  ASSUME NEW N, NEW r, GoodTree(N, r), NEW p \in Path, Covers(r, p),
         \A q \in Path : Covers(r, q) /\ StrictlyCovers(q, p) => N[q] = NULL \/ ~N[q].hot,
         NEW x \in Address, Matches(p, x)
  PROVE  x \in Cover(N) <=> \E q \in HotNodes(N) : Covers(p, q) /\ Matches(q, x)
<1>1. \A q \in HotNodes(N) : q \in Path /\ Covers(r, q) /\ N[q] # NULL /\ N[q].hot
  BY DEF HotNodes, GoodTree
<1>2. \A q \in HotNodes(N) : Matches(q, x) => Covers(p, q)
  BY <1>1, MatchesComparable
<1>. QED BY <1>2, CoverIs

\* At the root, at a node that is there and at one that is missing below a
\* cold node there is no hot node above.
LEMMA NoneAbove ==
  ASSUME NEW N, NEW r, GoodTree(N, r), NEW p \in Path, Covers(r, p), N[p] # NULL
  PROVE  \A q \in Path : Covers(r, q) /\ StrictlyCovers(q, p) => N[q] = NULL \/ ~N[q].hot
BY AncestorCold

LEMMA NoneAboveKid ==
  ASSUME NEW N, NEW r, GoodTree(N, r), NEW p \in Path, Covers(r, p), N[p] # NULL, ~N[p].hot,
         Len(p) < W, NEW b \in Bit
  PROVE  /\ Child(p, b) \in Path /\ Covers(r, Child(p, b))
         /\ \A q \in Path : Covers(r, q) /\ StrictlyCovers(q, Child(p, b))
                              => N[q] = NULL \/ ~N[q].hot
<1>1. Child(p, b) \in Path /\ Covers(p, Child(p, b)) /\ r \in Path
  BY ChildPath, BelowOwnChild DEF GoodTree
<1>2. Covers(r, Child(p, b))
  BY <1>1, CoversTransitive
<1>3. \A q \in Path : StrictlyCovers(q, Child(p, b)) => StrictlyCovers(q, p) \/ q = p
  BY CoversChild, CoversSplit
<1>. QED BY <1>1, <1>2, <1>3, NoneAbove

-----------------------------------------------------------------------------
(***************************************************************************)
(* What the changes of a tree do to its hot nodes, and to what it covers.  *)
(***************************************************************************)
LEMMA SetHotNodes ==
  ASSUME NEW N, NEW r, GoodTree(N, r), NEW p \in Path, N[p] # NULL, NEW h \in BOOLEAN
  PROVE  LET M == SetHot(N, p, h) IN
         /\ \A q \in Path : q # p => M[q] = N[q]
         /\ M[p] # NULL /\ M[p].hot = h
         /\ HotNodes(M) = IF h THEN HotNodes(N) \union {p} ELSE HotNodes(N) \ {p}
<1>. DEFINE M == SetHot(N, p, h)
<1>1. N \in [Path -> Node \union {NULL}] /\ N[p] \in Node
  BY DEF GoodTree
<1>2. M = [N EXCEPT ![p] = [N[p] EXCEPT !.hot = h]]
  BY DEF SetHot
<1>3. [N[p] EXCEPT !.hot = h] \in Node /\ [N[p] EXCEPT !.hot = h].hot = h
  BY <1>1 DEF Node
<1>4. M[p] \in Node /\ M[p].hot = h /\ \A q \in Path : q # p => M[q] = N[q]
  BY <1>1, <1>2, <1>3
<1>5. M[p] # NULL
  BY <1>4, TreeAssumption
<1>. HIDE DEF M
<1>6. HotNodes(M) = IF h THEN HotNodes(N) \union {p} ELSE HotNodes(N) \ {p}
  BY <1>4, <1>5 DEF HotNodes
<1>. QED BY <1>4, <1>5, <1>6 DEF M

LEMMA DestroyKidsNodes ==
  ASSUME NEW N, NEW p \in Path
  PROVE  /\ \A q \in Path : DestroyKids(N, p)[q] = IF StrictlyCovers(p, q) THEN NULL ELSE N[q]
         /\ HotNodes(DestroyKids(N, p)) = {q \in HotNodes(N) : ~StrictlyCovers(p, q)}
BY DEF DestroyKids, HotNodes

LEMMA DestroyNodeNodes ==
  ASSUME NEW N, NEW p \in Path
  PROVE  /\ \A q \in Path : DestroyNode(N, p)[q] = IF Covers(p, q) THEN NULL ELSE N[q]
         /\ HotNodes(DestroyNode(N, p)) = {q \in HotNodes(N) : ~Covers(p, q)}
BY DEF DestroyNode, HotNodes

LEMMA JoinedNodes ==
  ASSUME NEW N, NEW r, GoodTree(N, r), NEW p \in Path, N[p] # NULL, NEW h \in BOOLEAN
  PROVE  LET M == SetHot(DestroyKids(N, p), p, h) IN
         /\ \A q \in Path : q # p => M[q] = IF StrictlyCovers(p, q) THEN NULL ELSE N[q]
         /\ M[p] # NULL /\ M[p].hot = h
         /\ HotNodes(M) = {q \in HotNodes(N) : ~Covers(p, q)} \union (IF h THEN {p} ELSE {})
<1>. DEFINE K == DestroyKids(N, p)
            M == SetHot(K, p, h)
<1>1. /\ \A q \in Path : K[q] = IF StrictlyCovers(p, q) THEN NULL ELSE N[q]
      /\ HotNodes(K) = {q \in HotNodes(N) : ~StrictlyCovers(p, q)}
  BY DestroyKidsNodes
<1>2. GoodTree(K, r) /\ K[p] # NULL
  BY <1>1, DestroyKidsGood, CoversSelf
<1>. HIDE DEF K
<1>3. /\ \A q \in Path : q # p => M[q] = K[q]
      /\ M[p] # NULL /\ M[p].hot = h
      /\ HotNodes(M) = IF h THEN HotNodes(K) \union {p} ELSE HotNodes(K) \ {p}
  BY <1>2, SetHotNodes
<1>. HIDE DEF M
<1>4. \A q \in HotNodes(N) : q \in Path /\ (Covers(p, q) <=> StrictlyCovers(p, q) \/ p = q)
  BY CoversSplit DEF HotNodes
<1>5. HotNodes(M) = {q \in HotNodes(N) : ~Covers(p, q)} \union (IF h THEN {p} ELSE {})
  BY <1>1, <1>3, <1>4, CoversSelf
<1>. QED BY <1>1, <1>3, <1>5 DEF M, K

\* Marking first and freeing the children then is the same.
LEMMA MarkedIsJoined ==
  ASSUME NEW N, NEW r, GoodTree(N, r), NEW p \in Path, NEW h \in BOOLEAN
  PROVE  DestroyKids(SetHot(N, p, h), p) = SetHot(DestroyKids(N, p), p, h)
<1>1. ~StrictlyCovers(p, p)
  BY CoversSelf
<1>2. N \in [Path -> Node \union {NULL}]
  BY DEF GoodTree
<1>. QED BY <1>1, <1>2 DEF SetHot, DestroyKids

LEMMA NewNodeNodes ==
  ASSUME NEW N, NEW r, GoodTree(N, r), NEW p \in Path, NEW n \in Node
  PROVE  LET M == [N EXCEPT ![p] = n] IN
         /\ \A q \in Path : q # p => M[q] = N[q]
         /\ M[p] = n /\ M[p] # NULL
         /\ n.hot => HotNodes(M) = HotNodes(N) \union {p}
         /\ ~n.hot => HotNodes(M) = HotNodes(N) \ {p}
<1>. DEFINE M == [N EXCEPT ![p] = n]
<1>1. N \in [Path -> Node \union {NULL}]
  BY DEF GoodTree
<1>2. M[p] = n /\ \A q \in Path : q # p => M[q] = N[q]
  BY <1>1
<1>3. n # NULL
  BY TreeAssumption
<1>. HIDE DEF M
<1>4. /\ n.hot => HotNodes(M) = HotNodes(N) \union {p}
      /\ ~n.hot => HotNodes(M) = HotNodes(N) \ {p}
  BY <1>2, <1>3 DEF HotNodes
<1>. QED BY <1>2, <1>3, <1>4 DEF M

\* A hot node more, and perhaps without those below it.
LEMMA CoverAdd ==
  ASSUME NEW N, NEW M, NEW p \in Path, p \in HotNodes(M),
         HotNodes(M) \subseteq HotNodes(N) \union {p},
         \A q \in HotNodes(N) : ~Covers(p, q) => q \in HotNodes(M)
  PROVE  Cover(M) = Cover(N) \union NetOf(p)
<1>1. Cover(M) \subseteq Address /\ Cover(N) \subseteq Address /\ NetOf(p) \subseteq Address
  BY DEF Cover, NetOf
<1>2. ASSUME NEW x \in Address PROVE x \in Cover(M) <=> x \in Cover(N) \/ Matches(p, x)
  <2>1. \A q \in HotNodes(N) : q \in Path /\ (Matches(q, x) /\ Covers(p, q) => Matches(p, x))
    BY MatchesUp DEF HotNodes
  <2>. QED BY <2>1, CoverIs
<1>. QED BY <1>1, <1>2 DEF NetOf

\* A subtree less.
LEMMA CoverRemove ==
  ASSUME NEW N, NEW r, GoodTree(N, r), NEW p \in Path, Covers(r, p),
         \A q \in Path : Covers(r, q) /\ StrictlyCovers(q, p) => N[q] = NULL \/ ~N[q].hot,
         NEW M, HotNodes(M) = {q \in HotNodes(N) : ~Covers(p, q)}
  PROVE  Cover(M) = Cover(N) \ NetOf(p)
<1>1. Cover(M) \subseteq Address /\ Cover(N) \subseteq Address
  BY DEF Cover, NetOf
<1>2. ASSUME NEW x \in Address PROVE x \in Cover(M) <=> x \in Cover(N) /\ ~Matches(p, x)
  <2>1. \A q \in HotNodes(N) : q \in Path /\ Covers(r, q) /\ N[q] # NULL /\ N[q].hot
    BY DEF HotNodes, GoodTree
  <2>2. \A q \in HotNodes(N) : Matches(q, x) /\ Matches(p, x) => Covers(p, q)
    BY <2>1, MatchesComparable
  <2>3. \A q \in HotNodes(N) : Matches(q, x) /\ Covers(p, q) => Matches(p, x)
    BY <2>1, MatchesUp
  <2>. QED BY <2>2, <2>3, CoverIs
<1>. QED BY <1>1, <1>2 DEF NetOf

LEMMA CoverNone == ASSUME NEW N, HotNodes(N) = {} PROVE Cover(N) = {}
BY DEF Cover, HotNodes

LEMMA CoverOne == ASSUME NEW N, NEW p \in Path, HotNodes(N) = {p} PROVE Cover(N) = NetOf(p)
BY DEF Cover, HotNodes

LEMMA CoverHot ==
  ASSUME NEW N, NEW p \in HotNodes(N)
  PROVE  NetOf(p) \subseteq Cover(N)
BY DEF Cover, HotNodes

LEMMA SiblingNodes ==
  ASSUME NEW N, NEW r, GoodTree(N, r), NEW p \in Path, Len(p) < W,
         NEW b \in Bit, NEW e \in Bit, e = 1 - b,
         N[p] # NULL, ~N[p].hot, N[Child(p, b)] # NULL, N[Child(p, e)] = NULL
  PROVE  LET M == WithSibling(N, Child(p, b), Child(p, e)) IN
         /\ \A q \in Path : q # Child(p, e) => M[q] = N[q]
         /\ M[Child(p, e)] # NULL /\ M[Child(p, e)].hot
         /\ HotNodes(M) = HotNodes(N) \union {Child(p, e)}
         /\ Cover(M) = Cover(N) \union NetOf(Child(p, e))
<1>. DEFINE c == Child(p, b)
            d == Child(p, e)
            n == new_sibling(N[c], TRUE)
            M == WithSibling(N, c, d)
<1>1. c \in Path /\ d \in Path
  BY ChildPath
<1>2. N[c] \in Node /\ N[c].addr = Padded(c)
  BY <1>1, GoodNode
<1>3. addr_init_sibling(N[c].addr) = Padded(d) /\ Padded(d) \in Addr
  BY <1>1, <1>2, SiblingAddr, PaddedIsAddr
<1>4. n \in Node /\ n.hot
  BY <1>2, <1>3 DEF new_sibling, Node
<1>5. M = [N EXCEPT ![d] = n]
  BY DEF WithSibling
<1>. HIDE DEF n, c, d, M
<1>6. /\ \A q \in Path : q # d => M[q] = N[q]
      /\ M[d] # NULL /\ M[d].hot
      /\ HotNodes(M) = HotNodes(N) \union {d}
  <2>1. /\ \A q \in Path : q # d => [N EXCEPT ![d] = n][q] = N[q]
        /\ [N EXCEPT ![d] = n][d] = n /\ [N EXCEPT ![d] = n][d] # NULL
        /\ HotNodes([N EXCEPT ![d] = n]) = HotNodes(N) \union {d}
    BY <1>1, <1>4, NewNodeNodes
  <2>. QED BY <1>4, <1>5, <2>1
<1>7. Cover(M) = Cover(N) \union NetOf(d)
  <2>1. /\ d \in HotNodes(M) /\ HotNodes(M) \subseteq HotNodes(N) \union {d}
        /\ \A q \in HotNodes(N) : q \in HotNodes(M)
    BY <1>6
  <2>. QED BY <1>1, <2>1, CoverAdd
<1>. QED BY <1>6, <1>7 DEF c, d, M

LEMMA MovedNodes ==
  ASSUME NEW N, NEW r, GoodTree(N, r), NEW p \in Path, Len(p) < W,
         NEW b \in Bit, NEW e \in Bit, e = 1 - b,
         N[p] # NULL, ~N[p].hot,
         N[Child(p, b)] # NULL, N[Child(p, b)].hot, N[Child(p, e)] = NULL
  PROVE  LET M == Moved(N, Child(p, b), Child(p, e)) IN
         /\ \A q \in Path : q # Child(p, b) /\ q # Child(p, e) => M[q] = N[q]
         /\ M[Child(p, b)] = NULL /\ M[Child(p, e)] # NULL /\ M[Child(p, e)].hot
         /\ HotNodes(M) = (HotNodes(N) \ {Child(p, b)}) \union {Child(p, e)}
<1>. DEFINE c == Child(p, b)
            d == Child(p, e)
            n == flip_addr_inplace(N[c])
            M == Moved(N, c, d)
<1>1. c \in Path /\ d \in Path /\ c # d
  <2>1. b # e
    BY DEF Bit
  <2>. QED BY <2>1, ChildPath, ChildInjective
<1>2. N[c] \in Node /\ N[c].addr = Padded(c)
  BY <1>1, GoodNode
<1>3. addr_init_sibling(N[c].addr) = Padded(d) /\ Padded(d) \in Addr
  BY <1>1, <1>2, SiblingAddr, PaddedIsAddr
<1>4. n \in Node /\ n.hot /\ n # NULL
  BY <1>2, <1>3, TreeAssumption DEF flip_addr_inplace, Node
<1>5. M = [[N EXCEPT ![d] = n] EXCEPT ![c] = NULL]
  BY DEF Moved
<1>6. N \in [Path -> Node \union {NULL}]
  BY DEF GoodTree
<1>. HIDE DEF n, c, d, M
<1>7. /\ \A q \in Path : q # c /\ q # d => M[q] = N[q]
      /\ M[c] = NULL /\ M[d] = n
  BY <1>1, <1>5, <1>6
<1>8. HotNodes(M) = (HotNodes(N) \ {c}) \union {d}
  BY <1>1, <1>4, <1>7 DEF HotNodes
<1>. QED BY <1>4, <1>7, <1>8 DEF c, d, M

LEMMA GraftNodes ==
  ASSUME NEW N, NEW r, GoodTree(N, r), NEW R, NEW p, GoodTree(R, p), N[p] # NULL, ~R[p].hot
  PROVE  LET M == Graft(N, R, p) IN
         /\ \A q \in Path : StrictlyCovers(p, q) => M[q] = R[q]
         /\ \A q \in Path : ~Covers(p, q) => M[q] = N[q]
         /\ M[p] # NULL /\ ~M[p].hot
         /\ HotNodes(M) = {q \in HotNodes(N) : ~Covers(p, q)} \union HotNodes(R)
<1>. DEFINE M == Graft(N, R, p)
            n == [N[p] EXCEPT !.hot = FALSE]
<1>1. p \in Path /\ N[p] \in Node /\ R \in [Path -> Node \union {NULL}]
  BY GoodNode DEF GoodTree
<1>2. n \in Node /\ ~n.hot /\ n # NULL
  BY <1>1, TreeAssumption DEF Node
<1>3. \A q \in Path : Covers(p, q) <=> StrictlyCovers(p, q) \/ p = q
  BY <1>1, CoversSplit
<1>4. /\ \A q \in Path : StrictlyCovers(p, q) => M[q] = R[q]
      /\ \A q \in Path : ~Covers(p, q) => M[q] = N[q]
      /\ M[p] = n
  BY <1>1, <1>3, CoversSelf DEF Graft
<1>. HIDE DEF n, M
<1>5. \A q \in HotNodes(R) : StrictlyCovers(p, q)
  <2>. SUFFICES ASSUME NEW q \in HotNodes(R) PROVE StrictlyCovers(p, q)
    OBVIOUS
  <2>1. q \in Path /\ R[q] # NULL /\ R[q].hot
    BY DEF HotNodes
  <2>2. Covers(p, q) /\ q # p
    BY <2>1 DEF GoodTree
  <2>. QED BY <1>3, <2>1, <2>2
<1>6. ASSUME NEW q \in Path
      PROVE  q \in HotNodes(M) <=> (q \in HotNodes(N) /\ ~Covers(p, q)) \/ q \in HotNodes(R)
  <2>1. CASE StrictlyCovers(p, q)
    BY <1>3, <1>4, <2>1 DEF HotNodes
  <2>2. CASE q = p
    BY <1>2, <1>3, <1>4, <1>5, <2>2, CoversSelf DEF HotNodes
  <2>3. CASE ~Covers(p, q)
    BY <1>3, <1>4, <1>5, <2>3 DEF HotNodes
  <2>. QED BY <1>3, <2>1, <2>2, <2>3
<1>7. HotNodes(M) = {q \in HotNodes(N) : ~Covers(p, q)} \union HotNodes(R)
  <2>1. HotNodes(M) \subseteq Path /\ HotNodes(N) \subseteq Path /\ HotNodes(R) \subseteq Path
    BY DEF HotNodes
  <2>. QED BY <1>6, <2>1
<1>. QED BY <1>2, <1>4, <1>7 DEF M

\* Two trees joined cover what each one does.
LEMMA CoverUnion ==
  ASSUME NEW M, NEW K, NEW R, HotNodes(M) = HotNodes(K) \union HotNodes(R)
  PROVE  Cover(M) = Cover(K) \union Cover(R)
<1>1. Cover(M) \subseteq Address /\ Cover(K) \subseteq Address /\ Cover(R) \subseteq Address
  BY DEF Cover, NetOf
<1>2. ASSUME NEW x \in Address PROVE x \in Cover(M) <=> x \in Cover(K) \/ x \in Cover(R)
  BY CoverIs
<1>. QED BY <1>1, <1>2

\* A tree covers nothing outside the network of its root.
LEMMA CoverInRoot ==
  ASSUME NEW N, NEW r, GoodTree(N, r)
  PROVE  Cover(N) \subseteq NetOf(r)
<1>. SUFFICES ASSUME NEW x \in Address, x \in Cover(N) PROVE x \in NetOf(r)
  BY DEF Cover, NetOf
<1>1. PICK p \in HotNodes(N) : Matches(p, x)
  BY CoverIs
<1>2. p \in Path /\ r \in Path /\ Covers(r, p)
  BY DEF HotNodes, GoodTree
<1>. QED BY <1>1, <1>2, MatchesUp DEF NetOf

\* Grafting an inverted tree onto a hot node.
LEMMA GraftCover ==
  ASSUME NEW N, NEW r, GoodTree(N, r), NEW R, NEW p, GoodTree(R, p), N[p] # NULL, ~R[p].hot
  PROVE  Cover(Graft(N, R, p)) = (Cover(N) \ NetOf(p)) \union Cover(R)
<1>. DEFINE M == Graft(N, R, p)
            K == DestroyNode(N, p)
<1>1. p \in Path /\ Covers(r, p)
  BY GoodNode DEF GoodTree
<1>2. HotNodes(K) = {q \in HotNodes(N) : ~Covers(p, q)}
  BY <1>1, DestroyNodeNodes
<1>. HIDE DEF K
<1>3. Cover(K) = Cover(N) \ NetOf(p)
  BY <1>1, <1>2, NoneAbove, CoverRemove
<1>4. HotNodes(M) = HotNodes(K) \union HotNodes(R)
  BY <1>2, GraftNodes
<1>. HIDE DEF M
<1>5. Cover(M) = Cover(K) \union Cover(R)
  BY <1>4, CoverUnion
<1>. QED BY <1>3, <1>5 DEF M

-----------------------------------------------------------------------------
(***************************************************************************)
(* The calls on the stack and the subtrees they wait for.                  *)
(***************************************************************************)
LEMMA FramesOfPush ==
  ASSUME NEW s \in Seq(Frames), NEW f \in Frames
  PROVE  /\ <<f>> \o s \in Seq(Frames) /\ Len(<<f>> \o s) = Len(s) + 1
         /\ (<<f>> \o s)[1] = f
         /\ \A i \in 1..Len(s) : (<<f>> \o s)[i + 1] = s[i]
         /\ FramesOf(<<f>> \o s) = {f} \union FramesOf(s)
<1>. DEFINE z == <<f>> \o s
<1>1. /\ z \in Seq(Frames) /\ Len(z) = Len(s) + 1 /\ z[1] = f /\ Len(s) \in Nat
      /\ \A i \in 1..Len(s) : z[i + 1] = s[i]
  OBVIOUS
<1>. HIDE DEF z
<1>2. \A i \in 1..Len(z) : i = 1 \/ (i - 1 \in 1..Len(s) /\ z[i] = s[i - 1])
  <2>. SUFFICES ASSUME NEW i \in 1..Len(z), i # 1 PROVE i - 1 \in 1..Len(s) /\ z[i] = s[i - 1]
    OBVIOUS
  <2>1. i - 1 \in 1..Len(s) /\ (i - 1) + 1 = i
    BY <1>1
  <2>. QED BY <1>1, <2>1
<1>3. 1 \in 1..Len(z) /\ \A i \in 1..Len(s) : i + 1 \in 1..Len(z)
  BY <1>1
<1>4. FramesOf(z) = {f} \union FramesOf(s)
  <2>1. \A x \in FramesOf(z) : x = f \/ x \in FramesOf(s)
    BY <1>1, <1>2 DEF FramesOf
  <2>2. f \in FramesOf(z) /\ \A i \in 1..Len(s) : s[i] \in FramesOf(z)
    BY <1>1, <1>3 DEF FramesOf
  <2>3. FramesOf(s) \subseteq FramesOf(z)
    BY <2>2 DEF FramesOf
  <2>. QED BY <2>1, <2>2, <2>3
<1>. QED BY <1>1, <1>4 DEF z

LEMMA HeadTail ==
  ASSUME NEW s \in Seq(Frames), s # << >>
  PROVE  Tail(s) \in Seq(Frames) /\ Head(s) \in Frames /\ s = <<Head(s)>> \o Tail(s)
<1>1. Tail(s) \in Seq(Frames) /\ Head(s) \in Frames
  OBVIOUS
<1>2. <<Head(s)>> \o Tail(s) \in Seq(Frames) /\ Len(<<Head(s)>> \o Tail(s)) = Len(s)
  OBVIOUS
<1>3. \A i \in 1..Len(s) : (<<Head(s)>> \o Tail(s))[i] = s[i]
  OBVIOUS
<1>. QED BY <1>1, <1>2, <1>3, SeqEqual

LEMMA FramesOfStack ==
  ASSUME NEW s \in Seq(Frames), s # << >>
  PROVE  /\ Head(s) \in Frames /\ Tail(s) \in Seq(Frames)
         /\ FramesOf(s) = {Head(s)} \union FramesOf(Tail(s))
         /\ FramesOf(s) \subseteq Frames
<1>1. Tail(s) \in Seq(Frames) /\ Head(s) \in Frames /\ s = <<Head(s)>> \o Tail(s)
  BY HeadTail
<1>2. FramesOf(<<Head(s)>> \o Tail(s)) = {Head(s)} \union FramesOf(Tail(s))
  BY <1>1, FramesOfPush
<1>3. FramesOf(s) = {Head(s)} \union FramesOf(Tail(s))
  <2>1. ASSUME NEW z, s = z, FramesOf(z) = {Head(s)} \union FramesOf(Tail(s))
        PROVE  FramesOf(s) = {Head(s)} \union FramesOf(Tail(s))
    BY <2>1
  <2>. QED BY <1>1, <1>2, <2>1
<1>4. \A i \in 1..Len(s) : s[i] \in Frames
  OBVIOUS
<1>5. FramesOf(s) \subseteq Frames
  BY <1>4 DEF FramesOf
<1>. QED BY <1>1, <1>3, <1>5

LEMMA FramesOfNone == FramesOf(<< >>) = {} /\ Nested(<< >>)
BY DEF FramesOf, Nested

LEMMA WaitsDeeper ==
  ASSUME NEW f \in Frames, NEW p \in Path, NEW q \in Path, WaitsFor(f, p), Covers(p, q)
  PROVE  WaitsFor(f, q)
<1>1. f.node \in Path /\ 0 \in Bit /\ 1 \in Bit
  BY DEF Frames, Bit
<1>. QED BY <1>1, BelowDeeper DEF WaitsFor

LEMMA NestedPush ==
  ASSUME NEW s \in Seq(Frames), NEW f \in Frames, Nested(s),
         \A g \in FramesOf(s) : WaitsFor(g, f.node)
  PROVE  Nested(<<f>> \o s)
<1>. DEFINE z == <<f>> \o s
<1>1. /\ Len(z) = Len(s) + 1 /\ z[1] = f /\ Len(s) \in Nat
      /\ \A i \in 1..Len(s) : z[i + 1] = s[i]
  BY FramesOfPush
<1>. HIDE DEF z
<1>2. ASSUME NEW i \in 1..Len(z), NEW j \in 1..Len(z), i < j PROVE WaitsFor(z[j], z[i].node)
  <2>1. j - 1 \in 1..Len(s) /\ (j - 1) + 1 = j
    BY <1>1, <1>2
  <2>2. z[j] = s[j - 1] /\ s[j - 1] \in FramesOf(s)
    BY <1>1, <2>1 DEF FramesOf
  <2>3. CASE i = 1
    BY <1>1, <2>2, <2>3
  <2>4. CASE i # 1
    <3>1. i - 1 \in 1..Len(s) /\ (i - 1) + 1 = i /\ i - 1 < j - 1
      BY <1>1, <1>2, <2>4
    <3>2. z[i] = s[i - 1]
      BY <1>1, <3>1
    <3>. QED BY <2>1, <2>2, <3>1, <3>2 DEF Nested
  <2>. QED BY <2>3, <2>4
<1>. QED BY <1>2 DEF Nested, z

LEMMA NestedTop ==
  ASSUME NEW s \in Seq(Frames), s # << >>, Nested(s)
  PROVE  /\ Nested(Tail(s))
         /\ \A g \in FramesOf(Tail(s)) : WaitsFor(g, Head(s).node)
<1>1. /\ Tail(s) \in Seq(Frames) /\ Len(Tail(s)) = Len(s) - 1 /\ Head(s) = s[1]
      /\ \A i \in 1..Len(Tail(s)) : Tail(s)[i] = s[i + 1]
      /\ Len(s) \in Nat /\ Len(s) >= 1
  OBVIOUS
<1>2. \A i \in 1..Len(Tail(s)) : i + 1 \in 1..Len(s) /\ 1 \in 1..Len(s) /\ 1 < i + 1
  BY <1>1
<1>3. \A i, j \in 1..Len(Tail(s)) : i < j => i + 1 < j + 1
  BY <1>1
<1>4. Nested(Tail(s))
  BY <1>1, <1>2, <1>3 DEF Nested
<1>5. \A i \in 1..Len(Tail(s)) : WaitsFor(Tail(s)[i], s[1].node)
  BY <1>1, <1>2 DEF Nested
<1>. QED BY <1>1, <1>4, <1>5 DEF FramesOf

\* The three ways a call at the top goes on: it returns, it goes on with
\* something at or below its node, it waits for one of its subtrees.
LEMMA NestedReturns ==
  ASSUME NEW s \in Seq(Frames), s # << >>, Nested(s)
  PROVE  LET z == << >> \o Tail(s) IN Nested(z) /\ z = Tail(s)
<1>1. << >> \o Tail(s) = Tail(s)
  BY FramesOfStack
<1>. QED BY <1>1, NestedTop

LEMMA NestedContinues ==
  ASSUME NEW s \in Seq(Frames), s # << >>, Nested(s),
         NEW f \in Frames, Covers(Head(s).node, f.node)
  PROVE  LET z == <<f>> \o Tail(s) IN
         Nested(z) /\ FramesOf(z) = {f} \union FramesOf(Tail(s))
<1>1. Tail(s) \in Seq(Frames) /\ Head(s) \in Frames /\ FramesOf(s) \subseteq Frames
      /\ FramesOf(s) = {Head(s)} \union FramesOf(Tail(s))
  BY FramesOfStack
<1>2. Head(s).node \in Path /\ f.node \in Path
  BY <1>1 DEF Frames
<1>3. Nested(Tail(s)) /\ \A g \in FramesOf(Tail(s)) : WaitsFor(g, f.node)
  BY <1>1, <1>2, NestedTop, WaitsDeeper
<1>. QED BY <1>1, <1>3, NestedPush, FramesOfPush

LEMMA NestedCalls ==
  ASSUME NEW s \in Seq(Frames), s # << >>, Nested(s),
         NEW f \in Frames, NEW h \in Frames, h.node = Head(s).node, WaitsFor(h, f.node)
  PROVE  LET z == <<f, h>> \o Tail(s) IN
         Nested(z) /\ FramesOf(z) = {f, h} \union FramesOf(Tail(s))
<1>. DEFINE y == <<h>> \o Tail(s)
<1>1. Tail(s) \in Seq(Frames) /\ Head(s) \in Frames /\ FramesOf(s) \subseteq Frames
      /\ FramesOf(s) = {Head(s)} \union FramesOf(Tail(s))
  BY FramesOfStack
<1>2. h.node \in Path /\ f.node \in Path /\ 0 \in Bit /\ 1 \in Bit
  BY DEF Frames, Bit
<1>3. Covers(h.node, h.node) /\ Covers(h.node, f.node)
  BY <1>2, CoversSelf, CoversSplit DEF WaitsFor, Below
<1>4. Nested(y) /\ FramesOf(y) = {h} \union FramesOf(Tail(s)) /\ y \in Seq(Frames)
  BY <1>1, <1>3, NestedContinues, FramesOfPush
<1>5. \A g \in FramesOf(y) : WaitsFor(g, f.node)
  <2>1. \A g \in FramesOf(Tail(s)) : WaitsFor(g, h.node)
    BY NestedTop
  <2>. QED BY <1>1, <1>2, <1>3, <1>4, <2>1, WaitsDeeper
<1>. HIDE DEF y
<1>6. Nested(<<f>> \o y) /\ FramesOf(<<f>> \o y) = {f} \union FramesOf(y)
  BY <1>4, <1>5, NestedPush, FramesOfPush
<1>7. <<f, h>> \o Tail(s) = <<f>> \o y
  <2>1. <<f, h>> = <<f>> \o <<h>> /\ <<f>> \in Seq(Frames) /\ <<h>> \in Seq(Frames)
    BY TwoFrames
  <2>2. (<<f>> \o <<h>>) \o Tail(s) = <<f>> \o (<<h>> \o Tail(s))
    BY <1>1, <2>1, ConcatAssociative
  <2>. QED BY <2>1, <2>2 DEF y
<1>. QED BY <1>4, <1>6, <1>7

-----------------------------------------------------------------------------
(***************************************************************************)
(* Cold leaves and pairs of hot children.                                  *)
(***************************************************************************)
LEMMA NotColdLeaf ==
  ASSUME NEW N, NEW S, NEW p \in Path, ~ColdLeafAt(N, S, p), N[p] # NULL, ~N[p].hot, p \notin S
  PROVE  \E b \in Bit : Len(p) < W /\ Child(p, b) \in Path /\ N[Child(p, b)] # NULL
                        /\ Kid(N, p, b) # NULL
BY KidThere, ChildPath DEF ColdLeafAt

\* A cold child more, which the walk is at.
LEMMA LeafAdded ==
  ASSUME NEW N, NEW M, NEW p \in Path, Len(p) < W, NEW b \in Bit, NEW S,
         N[Child(p, b)] = NULL, M[Child(p, b)] # NULL,
         \A q \in Path : q # Child(p, b) => M[q] = N[q],
         \A q \in Path : ~ColdLeafAt(N, S \union {p}, q)
  PROVE  \A q \in Path : ~ColdLeafAt(M, S \union {Child(p, b)}, q)
<1>. SUFFICES ASSUME NEW q \in Path, ColdLeafAt(M, S \union {Child(p, b)}, q)
              PROVE  FALSE
  OBVIOUS
<1>1. /\ M[q] # NULL /\ ~M[q].hot /\ q \notin S /\ q # Child(p, b)
      /\ \A d \in Bit : Kid(M, q, d) = NULL
  BY DEF ColdLeafAt
<1>2. q # p
  BY <1>1, KidThere
<1>3. N[q] # NULL /\ ~N[q].hot /\ q \notin S \union {p}
  BY <1>1, <1>2
<1>4. PICK d \in Bit : Len(q) < W /\ Child(q, d) \in Path /\ N[Child(q, d)] # NULL
  BY <1>3, NotColdLeaf
<1>5. M[Child(q, d)] # NULL
  BY <1>4
<1>. QED BY <1>1, <1>4, <1>5, KidThere

\* A node becomes hot, its children are freed.
LEMMA JoinedLeaves ==
  ASSUME NEW N, NEW M, NEW p \in Path, NEW S, M[p] # NULL, M[p].hot,
         \A q \in Path : q # p => M[q] = IF StrictlyCovers(p, q) THEN NULL ELSE N[q],
         \A q \in Path : ~ColdLeafAt(N, S \union {p}, q)
  PROVE  \A q \in Path : ~ColdLeafAt(M, S, q)
<1>. SUFFICES ASSUME NEW q \in Path, ColdLeafAt(M, S, q)
              PROVE  FALSE
  OBVIOUS
<1>1. /\ M[q] # NULL /\ ~M[q].hot /\ q \notin S
      /\ \A d \in Bit : Kid(M, q, d) = NULL
  BY DEF ColdLeafAt
<1>2. q # p /\ ~StrictlyCovers(p, q) /\ M[q] = N[q]
  BY <1>1
<1>3. PICK d \in Bit : Len(q) < W /\ Child(q, d) \in Path /\ N[Child(q, d)] # NULL
  BY <1>1, <1>2, NotColdLeaf
<1>4. ~StrictlyCovers(p, Child(q, d))
  BY <1>2, <1>3, CoversChild, CoversSplit
<1>5. M[Child(q, d)] # NULL
  BY <1>3, <1>4
<1>. QED BY <1>1, <1>3, <1>5, KidThere

\* A node becomes hot.
LEMMA MarkedLeaves ==
  ASSUME NEW N, NEW M, NEW p \in Path, NEW S, M[p] # NULL, M[p].hot,
         \A q \in Path : q # p => M[q] = N[q],
         \A q \in Path : ~ColdLeafAt(N, S \union {p}, q)
  PROVE  \A q \in Path : ~ColdLeafAt(M, S, q)
<1>. SUFFICES ASSUME NEW q \in Path, ColdLeafAt(M, S, q)
              PROVE  FALSE
  OBVIOUS
<1>1. /\ M[q] # NULL /\ ~M[q].hot /\ q \notin S
      /\ \A d \in Bit : Kid(M, q, d) = NULL
  BY DEF ColdLeafAt
<1>2. q # p /\ M[q] = N[q]
  BY <1>1
<1>3. PICK d \in Bit : Len(q) < W /\ Child(q, d) \in Path /\ N[Child(q, d)] # NULL
  BY <1>1, <1>2, NotColdLeaf
<1>4. M[Child(q, d)] # NULL
  BY <1>3
<1>. QED BY <1>1, <1>3, <1>4, KidThere

LEMMA FewerExcused ==
  ASSUME NEW N, NEW S, NEW Z, S \subseteq Z, \A q \in Path : ~ColdLeafAt(N, S, q)
  PROVE  \A q \in Path : ~ColdLeafAt(N, Z, q)
BY DEF ColdLeafAt

\* Without hot nodes, or with one, there is no pair of them.
LEMMA NoTwins ==
  ASSUME NEW N, NEW p, HotNodes(N) \subseteq {p}
  PROVE  \A q \in Path : ~TwinsAt(N, q)
<1>. SUFFICES ASSUME NEW q \in Path, TwinsAt(N, q) PROVE FALSE
  OBVIOUS
<1>1. 0 \in Bit /\ 1 \in Bit
  BY DEF Bit
<1>2. KidHot(N, q, 0) /\ KidHot(N, q, 1)
  BY <1>1 DEF TwinsAt
<1>3. Len(q) < W /\ Child(q, 0) \in HotNodes(N) /\ Child(q, 1) \in HotNodes(N)
  BY <1>1, <1>2, KidThere, ChildPath DEF HotNodes
<1>4. Child(q, 0) = Child(q, 1)
  BY <1>3
<1>. QED BY <1>1, <1>3, <1>4, ChildInjective

\* Pairs are pairs of hot nodes.
LEMMA TwinsAre ==
  ASSUME NEW N, NEW p \in Path
  PROVE  TwinsAt(N, p) <=> Len(p) < W /\ \A b \in Bit : Child(p, b) \in HotNodes(N)
BY KidThere, ChildPath DEF TwinsAt, HotNodes, Bit

=============================================================================
