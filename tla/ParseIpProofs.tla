--------------------------- MODULE ParseIpProofs ----------------------------
(***************************************************************************)
(* For every number and size of blocks and every line: what the parsers of *)
(* ParseIp accept is what the text means, as a whole; the compact form     *)
(* IpText prints an IPv6 address in is as short as its zero blocks allow;  *)
(* and a network that was printed is read back as what it was.             *)
(***************************************************************************)
EXTENDS IpTextProofs, SequenceTheorems, FiniteSetTheorems, WellFoundedInduction

-----------------------------------------------------------------------------
(***************************************************************************)
(* Least and greatest elements; the text and the line in memory.           *)
(***************************************************************************)
LEMMA LeastNat ==
  ASSUME NEW T, T \subseteq Nat, T # {}
  PROVE  \E n \in T : \A m \in T : n <= m
<1> DEFINE R == StrictSubsetOrdering(Nat)
           F == FiniteSubsetsOf(Nat)
           G == {0..n : n \in T}
<1>1. IsWellFoundedOn(R, F)
  BY FS_StrictSubsetOrderingWellFounded
<1>2. \A y, x \in SUBSET Nat : y \subseteq x /\ y # x => <<y, x>> \in R
  BY DEF StrictSubsetOrdering
<1>3. G \subseteq F /\ G # {}
  <2>1. \A n \in Nat : 0..n \subseteq Nat /\ IsFiniteSet(0..n)
    BY FS_Interval
  <2> QED
    BY <2>1 DEF FiniteSubsetsOf
<1> HIDE DEF R, F
<1>4. PICK x \in G : \A y \in G : ~(<<y, x>> \in R)
  <2> HIDE DEF G
  <2> QED
    BY <1>1, <1>3, WFMin
<1>5. PICK n \in T : x = 0..n
  BY <1>4
<1>6. ASSUME NEW m \in T, m < n PROVE FALSE
  <2>1. 0..m \in G
    OBVIOUS
  <2>2. /\ 0..m \subseteq 0..n /\ n \in 0..n /\ n \notin 0..m
        /\ 0..m \in SUBSET Nat /\ 0..n \in SUBSET Nat
    BY <1>6
  <2>3. ~(<<0..m, 0..n>> \in R)
    BY <1>4, <1>5, <2>1
  <2> QED
    BY <1>2, <2>2, <2>3
<1> QED
  BY <1>6

LEMMA GreatestNat ==
  ASSUME NEW n \in Nat, NEW T, T \subseteq 0..n, T # {}
  PROVE  \E i \in T : \A j \in T : j <= i
<1> DEFINE U == {n - i : i \in T}
<1>1. U \subseteq Nat /\ U # {}
  <2>1. \A i \in T : n - i \in Nat /\ n - i \in U
    OBVIOUS
  <2> QED
    BY <2>1
<1>2. PICK m \in U : \A u \in U : m <= u
  <2> HIDE DEF U
  <2> QED
    BY <1>1, LeastNat
<1>3. PICK i \in T : m = n - i
  BY <1>2
<1>4. \A j \in T : n - i <= n - j
  BY <1>2, <1>3
<1> QED
  BY <1>4

Token == BlockText \union {DOT, COLON, SLASH}

\* What the program makes of a number at the end of a string.
LEMMA TokenIs ==
  ASSUME NEW w \in Token
  PROVE  /\ w # NUL /\ w.dec \in Nat \union {BAD} /\ w.hex \in Nat \union {BAD}
         /\ w.dec # BAD => w \notin {DOT, COLON, SLASH} /\ w.scan # "0x"
         /\ w.hex # BAD => w \notin {DOT, COLON, SLASH}
BY DEF Token, BlockText, DOT, COLON, SLASH, NUL, BAD

AddrLen(t) == IF HasSlash(t) THEN LastSlash(t) - 1 ELSE Len(t)

LEMMA AddrPartIs ==
  ASSUME NEW t \in Seq(Token)
  PROVE  /\ AddrLen(t) \in 0..Len(t) /\ Len(t) \in Nat
         /\ AddrPart(t) \in Seq(Token) /\ Len(AddrPart(t)) = AddrLen(t)
         /\ \A i \in 1..AddrLen(t) : AddrPart(t)[i] = t[i] /\ t[i] \in Token
         /\ HasSlash(t) => /\ LastSlash(t) = AddrLen(t) + 1 /\ t[AddrLen(t) + 1] = SLASH
                           /\ AddrLen(t) + 1 <= Len(t)
                           /\ \A j \in 1..Len(t) : t[j] = SLASH => j <= AddrLen(t) + 1
         /\ ~HasSlash(t) => LastSlash(t) = 0
<1>1. Len(t) \in Nat /\ DOMAIN t = 1..Len(t) /\ \A i \in 1..Len(t) : t[i] \in Token
  BY LenProperties, ElementOfSeq
<1>2. CASE HasSlash(t)
  <2> DEFINE S == {i \in DOMAIN t : t[i] = SLASH}
             P(i) == t[i] = SLASH /\ \A j \in DOMAIN t : t[j] = SLASH => j <= i
  <2>1. S # {} /\ S \subseteq 0..Len(t)
    BY <1>1, <1>2 DEF HasSlash
  <2>2. \E i \in S : \A j \in S : j <= i
    <3> HIDE DEF S
    <3> QED
      BY <1>1, <2>1, GreatestNat
  <2>3. \E i \in DOMAIN t : P(i)
    BY <2>2
  <2> DEFINE s == CHOOSE i \in DOMAIN t : P(i)
  <2>4. s \in DOMAIN t /\ P(s)
    <3> HIDE DEF P
    <3> QED
      BY <2>3
  <2>5. LastSlash(t) = s
    BY <1>2 DEF LastSlash
  <2> HIDE DEF s
  <2>6. s \in 1..Len(t) /\ AddrPart(t) = SubSeq(t, 1, s - 1)
    BY <1>1, <2>4, <2>5 DEF AddrPart
  <2>7. /\ SubSeq(t, 1, s - 1) \in Seq(Token) /\ Len(SubSeq(t, 1, s - 1)) = s - 1
        /\ \A i \in 1..s - 1 : SubSeq(t, 1, s - 1)[i] = t[i]
    BY <1>1, <2>6, SubSeqProperties
  <2> QED
    BY <1>1, <1>2, <2>4, <2>5, <2>6, <2>7 DEF AddrLen
<1>3. CASE ~HasSlash(t)
  BY <1>1, <1>3 DEF AddrLen, AddrPart, LastSlash
<1> QED
  BY <1>2, <1>3

Char == Token \union {NUL}

LEMMA MarkedLine ==
  ASSUME NEW l \in Seq(Char), NEW i \in 1..Len(l)
  PROVE  LET m == [l EXCEPT ![i] = NUL] IN
         /\ m \in Seq(Char) /\ Len(m) = Len(l)
         /\ \A j \in 1..Len(l) : m[j] = IF j = i THEN NUL ELSE l[j]
BY ExceptSeq, LenProperties DEF Char

\* strchr() in a string that ends at position n + 1, or earlier.
LEMMA StrchrIs ==
  ASSUME NEW l \in Seq(Char), NEW n \in Nat, NEW i \in 1..n + 1, NEW c,
         n <= Len(l), At(l, n + 1) = NUL
  PROVE  LET e == strchr(l, i, c) IN
         \/ e = 0 /\ \A j \in i..n : (\A m \in i..j : l[m] # NUL) => l[j] # c
         \/ /\ e \in i..n /\ l[e] = c /\ \A m \in i..e : l[m] # NUL
            /\ \A j \in i..e - 1 : l[j] # c
<1> DEFINE found == {j \in i..Len(l) : l[j] = c /\ \A m \in i..j : l[m] # NUL}
<1>1. Len(l) \in Nat
  BY LenProperties
<1>2. ASSUME NEW j \in found PROVE j \in i..n
  <2>1. j \in i..Len(l) /\ \A m \in i..j : l[m] # NUL
    OBVIOUS
  <2>2. CASE j > n
    <3>1. n + 1 \in i..j /\ n + 1 <= Len(l)
      BY <1>1, <2>1, <2>2
    <3> QED
      BY <2>1, <3>1 DEF At
  <2> QED
    BY <1>1, <2>1, <2>2
<1>3. ASSUME NEW j \in i..n, l[j] = c, \A m \in i..j : l[m] # NUL PROVE j \in found
  BY <1>1, <1>3
<1>4. strchr(l, i, c) = IF found = {} THEN 0 ELSE CHOOSE j \in found : \A m \in found : j <= m
  BY DEF strchr
<1> HIDE DEF found
<1>5. CASE found = {}
  BY <1>3, <1>4, <1>5
<1>6. CASE found # {}
  <2>1. found \subseteq Nat
    BY <1>2
  <2>2. \E j \in found : \A m \in found : j <= m
    BY <1>6, <2>1, LeastNat
  <2> DEFINE e == CHOOSE j \in found : \A m \in found : j <= m
  <2>3. e \in found /\ \A m \in found : e <= m
    BY <2>2
  <2>4. strchr(l, i, c) = e
    BY <1>4, <1>6
  <2> HIDE DEF e
  <2>5. e \in i..n
    BY <1>2, <2>3
  <2>6. l[e] = c /\ \A m \in i..e : l[m] # NUL
    BY <2>3 DEF found
  <2>7. ASSUME NEW j \in i..e - 1, l[j] = c PROVE FALSE
    <3>1. j \in i..n /\ \A m \in i..j : m \in i..e
      BY <2>5
    <3>2. j \in found
      BY <1>3, <2>6, <2>7, <3>1
    <3> QED
      BY <2>1, <2>3, <2>5, <3>2
  <2> QED
    BY <2>4, <2>5, <2>6, <2>7
<1> QED
  BY <1>5, <1>6

-----------------------------------------------------------------------------
(***************************************************************************)
(* The line in memory while it is parsed.                                  *)
(***************************************************************************)
Parsing == pc \in {"guess", "v4", "blocks4", "v6", "blocks6"}

\* The line is the text but for what the parsers have overwritten; the
\* address ends behind position AddrLen, and no one has been past it.
CutUp ==
  LET n == AddrLen(text) IN
  /\ text \in Seq(Token)
  /\ pc = "split" => line = text
  /\ pc \in {"split", "guess"} => guess = {}
  /\ Parsing =>
       /\ line \in Seq(Char) /\ Len(line) = Len(text) /\ text # << >>
       /\ At(line, n + 1) = NUL
       /\ prefixstr = IF HasSlash(text) THEN n + 2 ELSE 0
       /\ HasSlash(text) => n + 2 <= Len(text)
       /\ \A i \in n + 2..Len(text) : line[i] = text[i]
  /\ pc \in {"guess", "v4"} => \A i \in 1..n : line[i] = text[i]

\* The block loops mark a separator of the address, and nothing else.
LEMMA CutUpMarked ==
  ASSUME CutUp, Parsing, NEW e \in 1..AddrLen(text), line' = [line EXCEPT ![e] = NUL],
         text' = text, prefixstr' = prefixstr, pc' \notin {"split", "guess", "v4"}
  PROVE  CutUp'
<1> DEFINE n == AddrLen(text)
<1>1. /\ text \in Seq(Token) /\ line \in Seq(Char) /\ Len(line) = Len(text) /\ text # << >>
      /\ At(line, n + 1) = NUL
      /\ \A i \in n + 2..Len(text) : line[i] = text[i]
  BY DEF CutUp
<1>2. n \in 0..Len(text) /\ Len(text) \in Nat
  BY <1>1, AddrPartIs
<1>3. e \in 1..n
  OBVIOUS
<1> HIDE DEF n
<1>4. /\ line' \in Seq(Char) /\ Len(line') = Len(line)
      /\ \A j \in 1..Len(line) : line'[j] = IF j = e THEN NUL ELSE line[j]
  BY <1>1, <1>2, <1>3, MarkedLine
<1>5. At(line', n + 1) = NUL
  BY <1>1, <1>2, <1>3, <1>4 DEF At
<1>6. \A i \in n + 2..Len(text) : line'[i] = text[i]
  BY <1>1, <1>2, <1>3, <1>4
<1> QED
  BY <1>1, <1>4, <1>5, <1>6 DEF CutUp, Parsing, n

LEMMA CutUpKept ==
  ASSUME CutUp, Parsing, line' = line, text' = text, prefixstr' = prefixstr,
         pc' \notin {"split", "guess"}, pc' = "v4" => pc \in {"guess", "v4"}
  PROVE  CutUp'
BY DEF CutUp, Parsing

LEMMA SplitCutsUp == ASSUME CutUp, SplitPrefixlen PROVE CutUp'
<1> DEFINE n == AddrLen(text)
<1>1. /\ pc = "split" /\ pc' \in {"guess", "v4"} /\ text' = text /\ line = text /\ line # << >>
      /\ Len(line) \notin Slashes /\ (pc' = "guess" => guess' = {})
  BY DEF SplitPrefixlen, CutUp
<1>2. text \in Seq(Token) /\ line \in Seq(Char)
  BY <1>1 DEF CutUp, Char
<1>3. /\ n \in 0..Len(text) /\ Len(text) \in Nat
      /\ HasSlash(text) => /\ text[n + 1] = SLASH /\ n + 1 <= Len(text)
                           /\ LastSlash(text) = n + 1
                           /\ \A j \in 1..Len(text) : text[j] = SLASH => j <= n + 1
      /\ ~HasSlash(text) => n = Len(text)
  BY <1>2, AddrPartIs DEF AddrLen
<1>4. HasSlash(text) <=> Slashes # {}
  BY <1>1 DEF HasSlash, Slashes
<1> HIDE DEF n
<1>5. CASE ~HasSlash(text)
  <2>1. prefixstr' = 0 /\ line' = line
    BY <1>4, <1>5 DEF SplitPrefixlen
  <2> QED
    BY <1>1, <1>2, <1>3, <1>5, <2>1 DEF CutUp, Parsing, At, n
<1>6. CASE HasSlash(text)
  <2> DEFINE s == CHOOSE i \in Slashes : \A j \in Slashes : j <= i
  <2>1. n + 1 \in Slashes /\ \A j \in Slashes : j <= n + 1 /\ j \in Nat
    BY <1>1, <1>3, <1>6 DEF Slashes
  <2>2. s = n + 1
    <3>1. s \in Slashes /\ \A j \in Slashes : j <= s
      BY <2>1
    <3> HIDE DEF s
    <3> QED
      BY <2>1, <3>1
  <2>3. prefixstr' = s + 1 /\ line' = [line EXCEPT ![s] = NUL]
    BY <1>4, <1>6 DEF SplitPrefixlen
  <2> HIDE DEF s
  <2>4. n + 1 \in 1..Len(line) /\ n + 1 # Len(line)
    BY <1>1, <1>3, <1>6, <2>1
  <2>5. /\ line' \in Seq(Char) /\ Len(line') = Len(line)
        /\ \A j \in 1..Len(line) : line'[j] = IF j = n + 1 THEN NUL ELSE line[j]
    BY <1>2, <2>2, <2>3, <2>4, MarkedLine
  <2>6. At(line', n + 1) = NUL
    BY <2>4, <2>5 DEF At
  <2>7. (\A i \in 1..n : line'[i] = text[i]) /\ \A i \in n + 2..Len(text) : line'[i] = text[i]
    BY <1>1, <1>3, <2>4, <2>5
  <2>8. prefixstr' = n + 2 /\ n + 2 <= Len(text)
    BY <1>1, <1>3, <2>2, <2>3, <2>4
  <2> QED
    BY <1>1, <1>2, <1>6, <2>5, <2>6, <2>7, <2>8 DEF CutUp, Parsing, n
<1> QED
  BY <1>5, <1>6

\* What both parsers read behind the slash.
LEMMA PrefixlenRead ==
  ASSUME CutUp, Parsing, HasSlash(text), NEW max \in 0..OCTET_MAX
  PROVE  LET n == ReadNumber(line, prefixstr, 10, OCTET_MAX)
             len == IF n <= max THEN n ELSE BAD IN
         /\ len # BAD <=> HasLen(text, max)
         /\ len # BAD => LenIsRight(text, max, len)
<1> DEFINE m == AddrLen(text)
           L == Len(text)
           d == text[L].dec
<1>1. /\ text \in Seq(Token) /\ Len(line) = L /\ m + 2 <= L /\ prefixstr = m + 2
      /\ \A i \in m + 2..L : line[i] = text[i]
  BY DEF CutUp
<1>2. L \in Nat /\ m \in 0..L /\ LastSlash(text) = m + 1
  BY <1>1, AddrPartIs
<1>3. \A i \in 1..L : text[i] \in Token
  BY <1>1, ElementOfSeq
<1>4. \A i \in 1..L : text[i] # NUL /\ text[i].dec \in Nat \union {BAD}
  BY <1>3, TokenIs
<1>5. HasLen(text, max) <=> m + 2 = L /\ d \in 0..max
  BY <1>2 DEF HasLen, LenIsRight
<1>6. \A x : LenIsRight(text, max, x) <=> m + 2 = L /\ d = x /\ x \in 0..max
  BY <1>2 DEF LenIsRight
<1> HIDE DEF m, L
<1>7. At(line, m + 2) = text[m + 2] /\ At(line, m + 2) # NUL
  BY <1>1, <1>2, <1>4 DEF At
<1>8. CASE m + 2 = L
  <2>1. At(line, m + 3) = NUL
    BY <1>1, <1>2, <1>8 DEF At
  <2>2. ReadNumber(line, prefixstr, 10, OCTET_MAX) = IF d <= OCTET_MAX THEN d ELSE BAD
    BY <1>1, <1>2, <1>7, <1>8, <2>1 DEF ReadNumber
  <2>3. d \in Nat \union {BAD}
    BY <1>1, <1>2, <1>4, <1>8
  <2> QED
    BY <1>5, <1>6, <1>8, <2>2, <2>3 DEF BAD, OCTET_MAX
<1>9. CASE m + 2 # L
  <2>1. At(line, m + 3) # NUL
    BY <1>1, <1>2, <1>4, <1>9 DEF At
  <2>2. ReadNumber(line, prefixstr, 10, OCTET_MAX) = BAD
    BY <1>1, <1>2, <1>7, <2>1 DEF ReadNumber, BAD
  <2> QED
    BY <1>5, <1>9, <2>2 DEF BAD
<1> QED
  BY <1>8, <1>9

-----------------------------------------------------------------------------
(***************************************************************************)
(* The loop over an IPv4 address.                                          *)
(***************************************************************************)
Octet(w) == w.dec \in 0..OCTET_MAX

\* Up to NB4 octets with dots between them, and a dot behind the last one if
\* there are fewer.
LEMMA IsText4Is ==
  ASSUME NEW t \in Seq(Token)
  PROVE  LET n == AddrLen(t) IN
         IsText4(AddrPart(t)) <=>
           /\ n >= 1 /\ n < 2 * NB4
           /\ \A j \in Nat : /\ 2 * j + 1 <= n => Octet(t[2 * j + 1])
                             /\ 2 * j + 2 <= n => t[2 * j + 2] = DOT
<1> DEFINE n == AddrLen(t)
           a == AddrPart(t)
           Alternate == \A i \in 1..n : IF i % 2 = 0 THEN a[i] = DOT ELSE Octet(a[i])
<1>1. n \in Nat /\ a \in Seq(Token) /\ Len(a) = n /\ \A i \in 1..n : a[i] = t[i]
  BY AddrPartIs
<1>2. DOMAIN a = 1..n /\ (a # << >> <=> n >= 1)
  <2>1. DOMAIN a = 1..n
    BY <1>1, LenProperties
  <2>2. a # << >> <=> n # 0
    BY <1>1, EmptySeq
  <2> QED
    BY <1>1, <2>1, <2>2
<1>3. IsText4(a) <=> n >= 1 /\ Alternate /\ n < 2 * NB4
  BY <1>1, <1>2 DEF IsText4, Octet
<1> HIDE DEF a, n
<1>4. ASSUME Alternate, NEW j \in Nat
      PROVE  /\ 2 * j + 1 <= n => Octet(t[2 * j + 1])
             /\ 2 * j + 2 <= n => t[2 * j + 2] = DOT
  <2>1. (2 * j + 1) % 2 = 1 /\ (2 * j + 2) % 2 = 0
    OBVIOUS
  <2>2. 2 * j + 1 <= n => Octet(a[2 * j + 1])
    BY <1>1, <1>4, <2>1
  <2>3. 2 * j + 2 <= n => a[2 * j + 2] = DOT
    BY <1>1, <1>4, <2>1
  <2> QED
    BY <1>1, <2>2, <2>3
<1>5. ASSUME \A j \in Nat : /\ 2 * j + 1 <= n => Octet(t[2 * j + 1])
                            /\ 2 * j + 2 <= n => t[2 * j + 2] = DOT,
             NEW i \in 1..n
      PROVE  IF i % 2 = 0 THEN a[i] = DOT ELSE Octet(a[i])
  <2>1. CASE i % 2 = 0
    <3>1. i \in Nat /\ i >= 1 /\ i = 2 * (i \div 2)
      BY <1>1, <2>1
    <3>2. i \div 2 - 1 \in Nat /\ i = 2 * (i \div 2 - 1) + 2
      BY <3>1
    <3> DEFINE j == i \div 2 - 1
    <3> HIDE DEF j
    <3>3. j \in Nat /\ i = 2 * j + 2
      BY <3>2 DEF j
    <3> QED
      BY <1>1, <1>5, <2>1, <3>3
  <2>2. CASE i % 2 # 0
    <3>1. PICK j \in Nat : i = 2 * j + 1
      BY <1>1, <2>2, i \div 2 \in Nat
    <3> QED
      BY <1>1, <1>5, <2>2, <3>1
  <2> QED
    BY <2>1, <2>2
<1> QED
  BY <1>3, <1>4, <1>5 DEF a, n

\* The blocks in the buffer are the first octets of the text, each followed
\* by a dot that is marked; the rest has not been touched.
Loop4 ==
  LET k == buf4.num
      n == AddrLen(text) IN
  pc = "blocks4" =>
    /\ k \in 0..NB4 /\ n >= 1
    /\ \A j \in 0..k - 1 : /\ 2 * j + 1 <= n /\ Octet(text[2 * j + 1])
                           /\ buf4.blocks[j] = text[2 * j + 1].dec
                           /\ 2 * j + 2 <= n => text[2 * j + 2] = DOT
    /\ \/ rem = 0 /\ n = 2 * k - 1
       \/ /\ rem = 2 * k + 1 /\ n >= 2 * k
          /\ n = 2 * k => k < NB4
          /\ \A i \in rem..n : line[i] = text[i]

\* The loop goes on exactly while the address does.
LEMMA More4 ==
  ASSUME CutUp, Loop4, pc = "blocks4"
  PROVE  MoreBlocks <=> rem = 2 * buf4.num + 1 /\ rem <= AddrLen(text)
<1> DEFINE n == AddrLen(text)
           k == buf4.num
<1>1. /\ text \in Seq(Token) /\ line \in Seq(Char) /\ Len(line) = Len(text) /\ At(line, n + 1) = NUL
  BY DEF CutUp, Parsing
<1>2. n \in 0..Len(text) /\ Len(text) \in Nat /\ \A i \in 1..n : text[i] # NUL
  BY <1>1, AddrPartIs, TokenIs
<1>3. /\ k \in 0..NB4
      /\ \/ rem = 0 /\ n = 2 * k - 1
         \/ rem = 2 * k + 1 /\ n >= 2 * k /\ \A i \in rem..n : line[i] = text[i]
  BY DEF Loop4
<1> HIDE DEF n, k
<1>4. CASE rem = 0
  BY <1>3, <1>4, Blocks DEF MoreBlocks, k
<1>5. CASE rem # 0 /\ rem <= n
  <2>1. rem = 2 * k + 1 /\ rem \in 1..n /\ line[rem] = text[rem]
    BY <1>2, <1>3, <1>5, Blocks
  <2>2. At(line, rem) = line[rem] /\ text[rem] # NUL
    BY <1>1, <1>2, <2>1 DEF At
  <2> QED
    BY <1>5, <2>1, <2>2 DEF MoreBlocks, k, n
<1>6. CASE rem # 0 /\ ~(rem <= n)
  <2>1. rem = n + 1
    BY <1>2, <1>3, <1>6, Blocks
  <2> QED
    BY <1>1, <1>6, <2>1 DEF MoreBlocks, n
<1> QED
  BY <1>4, <1>5, <1>6

\* A block is accepted exactly if the text goes on with an octet, and the dot
\* behind it is followed by something else than a dot, or by nothing when
\* there are fewer than NB4 blocks.
LEMMA Good4 ==
  ASSUME CutUp, Loop4, pc = "blocks4", rem # 0, rem <= AddrLen(text), buf4.num < NB4
  PROVE  LET n == AddrLen(text)
             last == n = rem IN
         /\ ~BlockIsBad4 <=>
              /\ Octet(text[rem])
              /\ \/ last
                 \/ /\ text[rem + 1] = DOT
                    /\ IF n = rem + 1 THEN NB4 - buf4.num >= 2 ELSE text[rem + 2] # DOT
         /\ ~BlockIsBad4 =>
              /\ BlockEnd(DOT) = (IF last THEN 0 ELSE rem + 1)
              /\ ReadNumber(Marked(DOT), rem, 10, OCTET_MAX) = text[rem].dec
<1> DEFINE n == AddrLen(text)
           k == buf4.num
           e == BlockEnd(DOT)
           M == Marked(DOT)
           v == ReadNumber(M, rem, 10, OCTET_MAX)
<1>1. /\ text \in Seq(Token) /\ line \in Seq(Char) /\ Len(line) = Len(text) /\ At(line, n + 1) = NUL
  BY DEF CutUp, Parsing
<1>2. /\ n \in 0..Len(text) /\ Len(text) \in Nat
      /\ \A i \in 1..n : text[i] \in Token
  BY <1>1, AddrPartIs
<1>3. /\ k \in 0..NB4 - 1 /\ rem = 2 * k + 1 /\ rem \in 1..n /\ \A i \in rem..n : line[i] = text[i]
  BY <1>2, Blocks DEF Loop4
<1>4. \A i \in 1..n : /\ text[i] # NUL /\ text[i].dec \in Nat \union {BAD}
                      /\ text[i].dec # BAD => text[i] # DOT
  BY <1>2, TokenIs
<1>5. DOT \in Token /\ DOT # NUL
  BY DEF Token, DOT, NUL
<1> HIDE DEF n, k
<1>6. \/ e = 0 /\ \A i \in rem..n : text[i] # DOT
      \/ e \in rem..n /\ text[e] = DOT /\ \A i \in rem..e - 1 : text[i] # DOT
  <2>1. \A i \in rem..n : line[i] # NUL
    BY <1>3, <1>4
  <2>2. n <= Len(line) /\ n \in Nat /\ rem \in 1..n + 1
    BY <1>1, <1>2, <1>3
  <2> HIDE DEF e
  <2>3. \/ e = 0 /\ \A j \in rem..n : (\A m \in rem..j : line[m] # NUL) => line[j] # DOT
        \/ e \in rem..n /\ line[e] = DOT /\ \A i \in rem..e - 1 : line[i] # DOT
    BY <1>1, <2>2, StrchrIs DEF e, BlockEnd
  <2>4. \A j \in rem..n : \A m \in rem..j : line[m] # NUL
    BY <2>1, <2>2
  <2> QED
    BY <1>2, <1>3, <2>3, <2>4
<1>7. e # rem => /\ At(M, rem) = text[rem] /\ At(M, rem) # NUL
                 /\ At(M, rem + 1) = NUL <=> n = rem \/ e = rem + 1
  <2>0. M = IF e = 0 THEN line ELSE [line EXCEPT ![e] = NUL]
    BY DEF Marked
  <2> HIDE DEF e, M
  <2>1. CASE e = 0
    BY <1>1, <1>2, <1>3, <1>4, <1>6, <2>0, <2>1 DEF At
  <2>2. CASE e # 0
    <3>1. e \in 1..Len(line) /\ e \in rem..n
      BY <1>1, <1>2, <1>3, <1>6, <2>2
    <3>2. /\ M \in Seq(Char) /\ Len(M) = Len(line)
          /\ \A j \in 1..Len(line) : M[j] = IF j = e THEN NUL ELSE line[j]
      BY <1>1, <2>0, <2>2, <3>1, MarkedLine
    <3> QED
      BY <1>1, <1>2, <1>3, <1>4, <1>6, <2>2, <3>1, <3>2 DEF At
  <2> QED
    BY <2>1, <2>2
<1>8. e # rem => v = IF (n = rem \/ e = rem + 1) /\ Octet(text[rem]) THEN text[rem].dec ELSE BAD
  <2>1. text[rem].dec \in Nat \union {BAD}
    BY <1>3, <1>4
  <2> HIDE DEF M, e
  <2> QED
    BY <1>7, <2>1 DEF ReadNumber, Octet, OCTET_MAX, BAD
<1>9. e # 0 => /\ Following(DOT) = (IF e < n THEN text[e + 1] ELSE NUL)
               /\ e < n => Following(DOT) # NUL
               /\ Following(DOT) = DOT => e < n
  <2> HIDE DEF e
  <2> QED
    BY <1>1, <1>2, <1>3, <1>4, <1>5, <1>6 DEF Following, At, e
<1>10. BlockIsBad4 <=> \/ /\ e # 0
                          /\ (Following(DOT) = NUL /\ NB4 - k < 2) \/ Following(DOT) = DOT
                       \/ e = rem \/ v = BAD
  BY DEF BlockIsBad4, k
<1> HIDE DEF e, v, M
<1>11. Octet(text[rem]) => text[rem] # DOT /\ e # rem /\ text[rem].dec # BAD
  BY <1>3, <1>4, <1>6 DEF Octet, BAD
<1>12. ~BlockIsBad4 => Octet(text[rem]) /\ e # rem /\ (n = rem \/ e = rem + 1) /\ v = text[rem].dec
  BY <1>8, <1>10
<1>13. Octet(text[rem]) /\ n # rem => (e = rem + 1 <=> text[rem + 1] = DOT)
  BY <1>2, <1>3, <1>6, <1>11
<1>14. Octet(text[rem]) /\ n = rem => e = 0
  BY <1>2, <1>3, <1>6, <1>11
<1>15. ASSUME Octet(text[rem]), n = rem
       PROVE  ~BlockIsBad4 /\ e = 0
  BY <1>8, <1>10, <1>11, <1>14, <1>15
<1>16. ASSUME Octet(text[rem]), n # rem, text[rem + 1] = DOT
       PROVE  /\ e = rem + 1 /\ v # BAD
              /\ ~BlockIsBad4 <=> IF n = rem + 1 THEN NB4 - k >= 2 ELSE text[rem + 2] # DOT
  <2>1. e = rem + 1 /\ v # BAD /\ e # rem /\ e # 0
    BY <1>3, <1>8, <1>11, <1>13, <1>16
  <2>2. CASE n = rem + 1
    BY <1>3, <1>9, <1>10, <2>1, <2>2, Blocks
  <2>3. CASE n # rem + 1
    BY <1>2, <1>3, <1>9, <1>10, <1>16, <2>1, <2>3, Blocks
  <2> QED
    BY <2>1, <2>2, <2>3
<1>17. ASSUME Octet(text[rem]), n # rem, text[rem + 1] # DOT
       PROVE  BlockIsBad4
  BY <1>12, <1>13, <1>17
<1> QED
  BY <1>12, <1>15, <1>16, <1>17 DEF n, k, e, v, M

LEMMA Start4Loop ==
  ASSUME CutUp, Start4, pc' = "blocks4"
  PROVE  Loop4'
<1> DEFINE n == AddrLen(text)
<1>1. /\ pc = "v4" /\ At(line, 1) # NUL /\ rem' = 1 /\ line' = line /\ text' = text
      /\ buf4' = parse_ip4_data_init
  BY DEF Start4, Done4
<1>2. /\ text \in Seq(Token) /\ At(line, n + 1) = NUL /\ \A i \in 1..n : line[i] = text[i]
  BY <1>1 DEF CutUp, Parsing
<1>3. n \in Nat
  BY <1>2, AddrPartIs
<1> HIDE DEF n
<1>4. n >= 1
  BY <1>1, <1>2, <1>3
<1>5. buf4'.num = 0 /\ 0 \in 0..NB4
  BY <1>1, Blocks DEF parse_ip4_data_init
<1> QED
  BY <1>1, <1>2, <1>3, <1>4, <1>5, Blocks DEF Loop4, n

LEMMA Block4Loop ==
  ASSUME CutUp, Loop4, Block4, NEW V, buf4.blocks \in [0..NB4 - 1 -> V]
  PROVE  Loop4' /\ CutUp'
<1> DEFINE n == AddrLen(text)
           k == buf4.num
           v == ReadNumber(Marked(DOT), rem, 10, OCTET_MAX)
           last == n = rem
<1>1. /\ pc = "blocks4" /\ pc' = pc /\ MoreBlocks /\ k < NB4 /\ ~BlockIsBad4
      /\ buf4' = Append4(buf4, v)
      /\ line' = Marked(DOT) /\ text' = text /\ prefixstr' = prefixstr /\ guess' = guess
      /\ rem' = IF BlockEnd(DOT) = 0 THEN 0 ELSE BlockEnd(DOT) + 1
  BY DEF Block4
<1>2. rem = 2 * k + 1 /\ rem <= n
  BY <1>1, More4
<1>3. /\ k \in 0..NB4 - 1 /\ n >= 1
      /\ \A j \in 0..k - 1 : /\ 2 * j + 1 <= n /\ Octet(text[2 * j + 1])
                             /\ buf4.blocks[j] = text[2 * j + 1].dec
                             /\ 2 * j + 2 <= n => text[2 * j + 2] = DOT
      /\ \A i \in rem..n : line[i] = text[i]
  BY <1>1, <1>2, Blocks DEF Loop4
<1>4. /\ Octet(text[rem])
      /\ \/ last
         \/ /\ text[rem + 1] = DOT
            /\ IF n = rem + 1 THEN NB4 - k >= 2 ELSE text[rem + 2] # DOT
      /\ BlockEnd(DOT) = (IF last THEN 0 ELSE rem + 1)
      /\ v = text[rem].dec
  BY <1>1, <1>2, <1>3, Good4
<1>5. text \in Seq(Token) /\ line \in Seq(Char) /\ Len(line) = Len(text)
  BY <1>1 DEF CutUp, Parsing
<1>6. n \in 0..Len(text) /\ Len(text) \in Nat
  BY <1>5, AddrPartIs
<1>7. line' = IF last THEN line ELSE [line EXCEPT ![rem + 1] = NUL]
  <2>1. line' = IF BlockEnd(DOT) = 0 THEN line ELSE [line EXCEPT ![BlockEnd(DOT)] = NUL]
    BY <1>1 DEF Marked
  <2>2. rem + 1 # 0
    BY <1>2, <1>3, Blocks
  <2> QED
    BY <1>4, <2>1, <2>2
<1>8. rem' = IF last THEN 0 ELSE rem + 2
  BY <1>1, <1>2, <1>3, <1>4
<1>9. /\ buf4'.num = k + 1 /\ buf4'.blocks[k] = v
      /\ \A j \in 0..k - 1 : buf4'.blocks[j] = buf4.blocks[j]
  BY <1>1, <1>3, Blocks DEF Append4
<1>20. /\ k \in Nat /\ k < NB4 /\ NB4 \in Nat /\ rem \in Nat /\ n \in Nat
       /\ rem = 2 * k + 1 /\ rem <= n
  BY <1>1, <1>2, <1>3, <1>6, Blocks
<1> HIDE DEF n, k, v
<1>10. \A j \in 0..k : /\ 2 * j + 1 <= n /\ Octet(text[2 * j + 1])
                       /\ buf4'.blocks[j] = text[2 * j + 1].dec
                       /\ 2 * j + 2 <= n => text[2 * j + 2] = DOT
  <2>1. \A j \in 0..k : j \in 0..k - 1 \/ j = k
    BY <1>3, Blocks
  <2>2. 2 * k + 1 <= n /\ Octet(text[2 * k + 1]) /\ buf4'.blocks[k] = text[2 * k + 1].dec
        /\ (2 * k + 2 <= n => text[2 * k + 2] = DOT)
    BY <1>2, <1>3, <1>4, <1>6, <1>9, Blocks
  <2> QED
    BY <1>3, <1>9, <2>1, <2>2
<1>11. CASE last
  <2>1. CutUp'
    BY <1>1, <1>7, <1>11, CutUpKept DEF Parsing
  <2>2. rem' = 0 /\ n = 2 * (k + 1) - 1
    BY <1>2, <1>3, <1>8, <1>11, Blocks
  <2> QED
    BY <1>1, <1>3, <1>9, <1>10, <2>1, <2>2, Blocks DEF Loop4, n
<1>12. CASE ~last
  <2>1. rem + 1 \in 1..n /\ n # rem
    BY <1>12, <1>20
  <2>2. CutUp'
    BY <1>1, <1>7, <1>12, <2>1, CutUpMarked DEF Parsing, n
  <2>3. rem' = 2 * (k + 1) + 1 /\ n >= 2 * (k + 1) /\ (n = 2 * (k + 1) => k + 1 < NB4)
    <3>1. rem' = rem + 2 /\ (n = rem + 1 => NB4 - k >= 2)
      BY <1>4, <1>8, <1>12 DEF k
    <3> QED
      BY <1>20, <2>1, <3>1
  <2>4. \A i \in rem'..n : line'[i] = text[i]
    <3>1. \A j \in 1..Len(line) : line'[j] = IF j = rem + 1 THEN NUL ELSE line[j]
      BY <1>5, <1>6, <1>7, <1>12, <2>1, MarkedLine
    <3> QED
      BY <1>2, <1>3, <1>5, <1>6, <1>8, <1>12, <3>1, Blocks
  <2> QED
    BY <1>1, <1>3, <1>9, <1>10, <2>2, <2>3, <2>4, Blocks DEF Loop4, n
<1> QED
  BY <1>11, <1>12

\* The text as the octets that are read from it.
Octets(t) ==
  LET n == AddrLen(t) IN
  /\ n >= 1 /\ n < 2 * NB4
  /\ \A j \in Nat : /\ 2 * j + 1 <= n => Octet(t[2 * j + 1])
                    /\ 2 * j + 2 <= n => t[2 * j + 2] = DOT

\* A line that is given up before its first block.
LEMMA Start4Rejects ==
  ASSUME CutUp, Start4, pc' # "blocks4"
  PROVE  ~Octets(text)
<1> DEFINE n == AddrLen(text)
<1>1. pc = "v4" /\ (At(line, 1) = NUL \/ line[1].scan = "0x")
  BY DEF Start4, Done4
<1>2. /\ text \in Seq(Token) /\ \A i \in 1..n : line[i] = text[i]
      /\ Len(line) = Len(text)
  BY <1>1 DEF CutUp, Parsing
<1>3. n \in Nat /\ n <= Len(text) /\ Len(text) \in Nat /\ \A i \in 1..n : text[i] \in Token
  BY <1>2, AddrPartIs
<1> HIDE DEF n
<1> SUFFICES ASSUME n >= 1, Octet(text[1]) PROVE FALSE
  <2>1. 2 * 0 + 1 = 1 /\ 0 \in Nat
    OBVIOUS
  <2> QED
    BY <2>1, <1>3 DEF Octets, n
<1>4. line[1] = text[1] /\ At(line, 1) = line[1] /\ text[1] \in Token
  BY <1>2, <1>3 DEF At
<1>5. text[1] # NUL /\ text[1].scan # "0x"
  BY <1>4, TokenIs DEF Octet, BAD
<1> QED
  BY <1>1, <1>4, <1>5

LEMMA TooMany4Rejects ==
  ASSUME CutUp, Loop4, TooManyBlocks4
  PROVE  ~Octets(text)
<1>1. pc = "blocks4" /\ MoreBlocks /\ buf4.num >= NB4
  BY DEF TooManyBlocks4
<1>2. rem = 2 * buf4.num + 1 /\ rem <= AddrLen(text) /\ buf4.num \in 0..NB4
  BY <1>1, More4 DEF Loop4
<1>3. text \in Seq(Token)
  BY DEF CutUp
<1>4. AddrLen(text) \in Nat
  BY <1>3, AddrPartIs
<1> QED
  BY <1>1, <1>2, <1>4, Blocks DEF Octets

LEMMA Bad4Rejects ==
  ASSUME CutUp, Loop4, BadBlock4
  PROVE  ~Octets(text)
<1> DEFINE n == AddrLen(text)
           k == buf4.num
<1>1. pc = "blocks4" /\ MoreBlocks /\ k < NB4 /\ BlockIsBad4
  BY DEF BadBlock4
<1>2. rem = 2 * k + 1 /\ rem <= n /\ k \in Nat
  BY <1>1, More4 DEF Loop4
<1>3. text \in Seq(Token)
  BY DEF CutUp
<1>4. n \in Nat /\ \A i \in 1..n : text[i] \in Token
  BY <1>3, AddrPartIs
<1> SUFFICES ASSUME Octets(text) PROVE FALSE
  OBVIOUS
<1>5. /\ n < 2 * NB4
      /\ \A j \in Nat : /\ 2 * j + 1 <= n => Octet(text[2 * j + 1])
                        /\ 2 * j + 2 <= n => text[2 * j + 2] = DOT
  BY DEF Octets
<1>6. ~(/\ Octet(text[rem])
        /\ \/ n = rem
           \/ /\ text[rem + 1] = DOT
              /\ IF n = rem + 1 THEN NB4 - k >= 2 ELSE text[rem + 2] # DOT)
  BY <1>1, <1>2, Good4
<1> HIDE DEF n, k
<1>7. Octet(text[rem])
  BY <1>2, <1>5
<1>8. n # rem
  BY <1>6, <1>7
<1>9. text[rem + 1] = DOT
  <2>1. rem + 1 = 2 * k + 2 /\ 2 * k + 2 <= n
    BY <1>2, <1>4, <1>8
  <2> QED
    BY <1>2, <1>5, <2>1
<1>10. CASE n = rem + 1
  <2>1. NB4 - k >= 2
    BY <1>2, <1>4, <1>5, <1>10, Blocks
  <2> QED
    BY <1>6, <1>7, <1>9, <1>10, <2>1
<1>11. CASE n # rem + 1
  <2>1. rem + 2 = 2 * (k + 1) + 1 /\ 2 * (k + 1) + 1 <= n /\ k + 1 \in Nat
    BY <1>2, <1>4, <1>8, <1>11
  <2>2. Octet(text[rem + 2]) /\ text[rem + 2] \in Token
    BY <1>4, <1>5, <2>1
  <2>3. text[rem + 2] # DOT
    BY <2>2, TokenIs DEF Octet, BAD
  <2> QED
    BY <1>6, <1>7, <1>9, <1>11, <2>3
<1> QED
  BY <1>10, <1>11

\* At its end the loop has read the whole address.
LEMMA End4Accepts ==
  ASSUME CutUp, Loop4, pc = "blocks4", ~MoreBlocks
  PROVE  LET n == AddrLen(text)
             k == buf4.num IN
         /\ Octets(text) /\ k >= 1 /\ k \in 0..NB4 /\ n \in {2 * k - 1, 2 * k} /\ n \in Nat
         /\ \A j \in 0..k - 1 : buf4.blocks[j] = text[2 * j + 1].dec
<1> DEFINE n == AddrLen(text)
           k == buf4.num
<1>1. ~(rem = 2 * k + 1 /\ rem <= n)
  BY More4
<1>2. /\ k \in 0..NB4 /\ n >= 1
      /\ \A j \in 0..k - 1 : /\ 2 * j + 1 <= n /\ Octet(text[2 * j + 1])
                             /\ buf4.blocks[j] = text[2 * j + 1].dec
                             /\ 2 * j + 2 <= n => text[2 * j + 2] = DOT
      /\ \/ rem = 0 /\ n = 2 * k - 1
         \/ rem = 2 * k + 1 /\ n >= 2 * k /\ (n = 2 * k => k < NB4)
  BY DEF Loop4
<1>3. text \in Seq(Token)
  BY DEF CutUp
<1>4. n \in Nat
  BY <1>3, AddrPartIs
<1> HIDE DEF n, k
<1>5. k >= 1 /\ n \in {2 * k - 1, 2 * k} /\ n < 2 * NB4
  <2>1. CASE rem = 0 /\ n = 2 * k - 1
    BY <1>2, <1>4, <2>1, Blocks
  <2>2. CASE rem = 2 * k + 1 /\ n >= 2 * k /\ (n = 2 * k => k < NB4)
    <3>1. n = 2 * k
      BY <1>1, <1>2, <1>4, <2>2, Blocks
    <3> QED
      BY <1>2, <1>4, <2>2, <3>1, Blocks
  <2> QED
    BY <1>2, <2>1, <2>2
<1>6. ASSUME NEW j \in Nat, 2 * j + 1 <= n PROVE j \in 0..k - 1
  BY <1>2, <1>4, <1>5, <1>6, Blocks
<1>7. ASSUME NEW j \in Nat
      PROVE  /\ 2 * j + 1 <= n => Octet(text[2 * j + 1])
             /\ 2 * j + 2 <= n => text[2 * j + 2] = DOT
  <2>1. 2 * j + 2 <= n => 2 * j + 1 <= n
    BY <1>4
  <2> QED
    BY <1>2, <1>6, <2>1
<1> QED
  BY <1>2, <1>4, <1>5, <1>7 DEF Octets, n, k

\* How many dots stand before an octet.
LEMMA DotsBefore ==
  ASSUME NEW a, NEW n \in Nat, NEW q \in Nat, 2 * q + 1 <= n,
         \A j \in Nat : /\ 2 * j + 1 <= n => a[2 * j + 1] # DOT
                        /\ 2 * j + 2 <= n => a[2 * j + 2] = DOT
  PROVE  Count(a, DOT, 1, 2 * q + 1) = q
<1> DEFINE S == {i \in 1..2 * q + 1 : a[i] = DOT}
           f == [j \in 1..q |-> 2 * j]
<1>1. ASSUME NEW j \in 1..q PROVE 2 * j \in S
  <2>1. j - 1 \in Nat /\ 2 * (j - 1) + 2 = 2 * j /\ 2 * j <= n /\ 2 * j \in 1..2 * q + 1
    OBVIOUS
  <2>2. a[2 * (j - 1) + 2] = DOT
    BY <2>1
  <2> QED
    BY <2>1, <2>2
<1>2. ASSUME NEW i \in S PROVE i \div 2 \in 1..q /\ i = 2 * (i \div 2)
  <2>1. i \in 1..2 * q + 1 /\ a[i] = DOT
    OBVIOUS
  <2>2. i \in Nat /\ i >= 1 /\ i <= 2 * q + 1 /\ i <= n
    BY <2>1
  <2> DEFINE h == i \div 2
  <2>3. h \in Nat /\ (i = 2 * h \/ i = 2 * h + 1)
    BY <2>2
  <2> HIDE DEF h
  <2>4. i # 2 * h + 1
    BY <2>1, <2>2, <2>3
  <2>5. i = 2 * h /\ h \in 1..q
    BY <2>2, <2>3, <2>4
  <2> QED
    BY <2>5 DEF h
<1> HIDE DEF S
<1>3. f \in Bijection(1..q, S)
  <2>1. f \in [1..q -> S]
    BY <1>1
  <2>2. \A i, j \in 1..q : f[i] = f[j] => i = j
    OBVIOUS
  <2>3. \A i \in S : \E j \in 1..q : f[j] = i
    BY <1>2
  <2> QED
    BY <2>1, <2>2, <2>3 DEF Bijection, Injection, Surjection, IsInjective
<1>4. ExistsBijection(1..q, S)
  BY <1>3 DEF ExistsBijection
<1>5. IsFiniteSet(1..q) /\ Cardinality(1..q) = q
  BY FS_Interval
<1>6. Cardinality(S) = q
  BY <1>4, <1>5, FS_Bijection
<1> QED
  BY <1>6 DEF Count, S

\* The address that is made has every octet in its place.
LEMMA Slots4 ==
  ASSUME CutUp, Loop4, pc = "blocks4", ~MoreBlocks, NEW len, NEW s \in 0..NB4 - 1
  PROVE  MakeAddr4(buf4, len).slot[s] = Slot4(AddrPart(text), s)
<1> DEFINE n == AddrLen(text)
           k == buf4.num
           a == AddrPart(text)
           q == NB4 - 1 - s
           here == {i \in DOMAIN a : a[i] # DOT /\ Count(a, DOT, 1, i) = q}
<1>1. text \in Seq(Token)
  BY DEF CutUp
<1>2. n \in Nat /\ DOMAIN a = 1..n /\ \A i \in 1..n : a[i] = text[i] /\ text[i] \in Token
  <2>1. /\ n \in Nat /\ a \in Seq(Token) /\ Len(a) = n
        /\ \A i \in 1..n : a[i] = text[i] /\ text[i] \in Token
    BY <1>1, AddrPartIs
  <2> QED
    BY <2>1, LenProperties
<1>3. /\ Octets(text) /\ k >= 1 /\ k \in 0..NB4 /\ n \in {2 * k - 1, 2 * k}
      /\ \A j \in 0..k - 1 : buf4.blocks[j] = text[2 * j + 1].dec
  BY End4Accepts
<1>4. q \in 0..NB4 - 1 /\ NB4 - s - 1 = q
  BY Blocks
<1>5. MakeAddr4(buf4, len).slot[s] = IF q < k THEN buf4.blocks[q] ELSE 0
  BY <1>4 DEF MakeAddr4
<1>6. Slot4(a, s) = IF here = {} THEN 0 ELSE a[CHOOSE i \in here : TRUE].dec
  BY DEF Slot4
<1>7. \A j \in Nat : /\ 2 * j + 1 <= n => Octet(text[2 * j + 1])
                     /\ 2 * j + 2 <= n => text[2 * j + 2] = DOT
  BY <1>3 DEF Octets
<1> HIDE DEF n, k, a, q
<1>8. \A j \in Nat : /\ 2 * j + 1 <= n => a[2 * j + 1] # DOT
                     /\ 2 * j + 2 <= n => a[2 * j + 2] = DOT
  <2> TAKE j \in Nat
  <2>1. ASSUME 2 * j + 1 <= n PROVE a[2 * j + 1] # DOT
    <3>1. 2 * j + 1 \in 1..n
      BY <1>2, <2>1
    <3>2. text[2 * j + 1] \in Token /\ Octet(text[2 * j + 1])
      BY <1>2, <1>7, <2>1, <3>1
    <3>3. text[2 * j + 1] # DOT
      BY <3>2, TokenIs DEF Octet, BAD
    <3> QED
      BY <1>2, <3>1, <3>3
  <2>2. ASSUME 2 * j + 2 <= n PROVE a[2 * j + 2] = DOT
    <3>1. 2 * j + 2 \in 1..n
      BY <1>2, <2>2
    <3> QED
      BY <1>2, <1>7, <2>2, <3>1
  <2> QED
    BY <2>1, <2>2
<1>9. \A j \in Nat : 2 * j + 1 <= n => Count(a, DOT, 1, 2 * j + 1) = j
  BY <1>2, <1>8, DotsBefore
<1>10. ASSUME NEW i \in 1..n, a[i] # DOT
       PROVE  \E j \in Nat : i = 2 * j + 1 /\ j \in 0..k - 1 /\ Count(a, DOT, 1, i) = j
  <2> DEFINE j == i \div 2
  <2>1. j \in Nat /\ (i = 2 * j + 1 \/ (i = 2 * (j - 1) + 2 /\ j - 1 \in Nat))
    <3>1. i \in Nat /\ i >= 1
      BY <1>2
    <3> QED
      BY <3>1
  <2> HIDE DEF j
  <2>0. ASSUME NEW m \in Nat, i = 2 * m + 2 PROVE FALSE
    <3>1. 2 * m + 2 <= n
      BY <1>2, <2>0
    <3>2. a[2 * m + 2] = DOT
      BY <1>8, <3>1
    <3> QED
      BY <1>10, <2>0, <3>2
  <2>2. i = 2 * j + 1 /\ i <= n
    <3>1. ~(i = 2 * (j - 1) + 2 /\ j - 1 \in Nat)
      BY <2>0
    <3> QED
      BY <1>2, <2>1, <3>1
  <2>3. j \in 0..k - 1
    BY <1>2, <1>3, <2>1, <2>2, Blocks
  <2> QED
    BY <1>9, <2>1, <2>2, <2>3
<1>11. CASE q < k
  <2>1. 2 * q + 1 \in 1..n /\ q \in Nat
    BY <1>2, <1>3, <1>4, <1>11, Blocks
  <2>2. 2 * q + 1 \in here
    BY <1>2, <1>8, <1>9, <2>1
  <2>3. \A i \in here : i = 2 * q + 1
    BY <1>2, <1>10
  <2> HIDE DEF here
  <2>4. (CHOOSE i \in here : TRUE) = 2 * q + 1
    BY <2>2, <2>3
  <2>5. buf4.blocks[q] = text[2 * q + 1].dec
    BY <1>3, <1>4, <1>11, Blocks
  <2> QED
    BY <1>2, <1>5, <1>6, <1>11, <2>1, <2>2, <2>4, <2>5 DEF a
<1>12. CASE ~(q < k)
  <2>1. here = {}
    BY <1>2, <1>3, <1>4, <1>10, <1>12, Blocks
  <2> QED
    BY <1>5, <1>6, <1>12, <2>1 DEF a
<1> QED
  BY <1>11, <1>12

-----------------------------------------------------------------------------
(***************************************************************************)
(* The steps of a parse.                                                   *)
(***************************************************************************)
\* The IPv6 parser has not gone past the address either.
Within6 == pc = "blocks6" => rem \in 0..AddrLen(text) + 1

\* The IPv4 parser has accepted the text's octets, or anything else not.
Means4 ==
  pc \in {"v6", "blocks6", "done"} /\ "v4" \in guess =>
    /\ ret["v4"] = OK <=> (Octets(text) /\ HasLen(text, IP4_MAX))
    /\ ret["v4"] = OK =>
         /\ LenIsRight(text, IP4_MAX, addr["v4"].len)
         /\ \A s \in 0..NB4 - 1 : addr["v4"].slot[s] = Slot4(AddrPart(text), s)

MeansInv == CutUp /\ Loop4 /\ Within6 /\ Means4

LEMMA CutUpDone == ASSUME CutUp, text' = text, pc' = "done" PROVE CutUp'
BY DEF CutUp, Parsing

\* Where the loops mark the line.
LEMMA BlockEndIs ==
  ASSUME CutUp, Parsing, rem \in 1..AddrLen(text) + 1, NEW c
  PROVE  LET e == BlockEnd(c) IN
         \/ e = 0
         \/ e \in rem..AddrLen(text) /\ e \in 1..AddrLen(text) /\ line[e] = c
<1>1. /\ text \in Seq(Token) /\ line \in Seq(Char) /\ Len(line) = Len(text)
      /\ At(line, AddrLen(text) + 1) = NUL
  BY DEF CutUp
<1>2. AddrLen(text) \in Nat /\ AddrLen(text) <= Len(line)
  BY <1>1, AddrPartIs
<1> DEFINE n == AddrLen(text)
<1> HIDE DEF n
<1>3. \/ BlockEnd(c) = 0
      \/ BlockEnd(c) \in rem..n /\ line[BlockEnd(c)] = c
  BY <1>1, <1>2, StrchrIs DEF n, BlockEnd
<1> QED
  BY <1>2, <1>3 DEF n

LEMMA MarkedCutsUp ==
  ASSUME CutUp, Parsing, rem \in 1..AddrLen(text) + 1, NEW c, line' = Marked(c),
         text' = text, prefixstr' = prefixstr, pc' \notin {"split", "guess", "v4"}
  PROVE  CutUp'
<1>1. CASE BlockEnd(c) = 0
  BY <1>1, CutUpKept DEF Marked
<1>2. CASE BlockEnd(c) # 0
  <2>1. BlockEnd(c) \in 1..AddrLen(text)
    BY <1>2, BlockEndIs
  <2>2. line' = [line EXCEPT ![BlockEnd(c)] = NUL]
    BY <1>2 DEF Marked
  <2> QED
    BY <2>1, <2>2, CutUpMarked
<1> QED
  BY <1>1, <1>2

LEMMA RemIs ==
  ASSUME CutUp, Loop4, Within6, MoreBlocks, pc \in {"blocks4", "blocks6"}
  PROVE  rem \in 1..AddrLen(text) + 1
<1>1. rem # 0
  BY DEF MoreBlocks
<1>2. text \in Seq(Token)
  BY DEF CutUp
<1>3. AddrLen(text) \in Nat
  BY <1>2, AddrPartIs
<1>4. CASE pc = "blocks4"
  <2>1. buf4.num \in 0..NB4
    BY <1>4 DEF Loop4
  <2> QED
    BY <1>3, <1>4, <2>1, More4, Blocks
<1>5. CASE pc = "blocks6"
  BY <1>1, <1>3, <1>5 DEF Within6
<1> QED
  BY <1>4, <1>5

LEMMA MeansSplit ==
  ASSUME MeansInv, SplitFails \/ SplitPrefixlen \/ GuessType \/ Skip4
  PROVE  MeansInv'
<1> USE DEF MeansInv
<1>0. Loop4' /\ Within6'
  BY DEF SplitFails, SplitPrefixlen, GuessType, Skip4, Loop4, Within6
<1>1. CASE SplitFails
  <2>1. CutUp'
    BY <1>1, CutUpDone DEF SplitFails
  <2>2. guess' = {}
    BY <1>1 DEF SplitFails, CutUp
  <2> QED
    BY <1>0, <2>1, <2>2 DEF Means4
<1>2. CASE SplitPrefixlen
  BY <1>0, <1>2, SplitCutsUp DEF SplitPrefixlen, Means4
<1>3. CASE GuessType
  <2>1. /\ pc = "guess" /\ text' = text /\ line' = line /\ prefixstr' = prefixstr
        /\ pc' = "v4" \/ (pc' = "done" /\ guess' = guess)
    BY <1>3 DEF GuessType
  <2>2. CutUp'
    BY <2>1, CutUpDone, CutUpKept DEF Parsing
  <2> QED
    BY <1>0, <2>1, <2>2 DEF Means4, CutUp
<1>4. CASE Skip4
  <2>1. CutUp'
    BY <1>4, CutUpKept DEF Skip4, Parsing
  <2> QED
    BY <1>0, <1>4, <2>1 DEF Skip4, Means4
<1> QED
  BY <1>1, <1>2, <1>3, <1>4

\* The IPv4 parser gives the line up.
LEMMA Means4Rejected ==
  ASSUME ~Octets(text), text' = text, DOMAIN ret = Types, NEW r, r # OK,
         ret' = [ret EXCEPT !["v4"] = r], pc' = "v6"
  PROVE  Means4' /\ Loop4' /\ Within6'
<1>1. ret'["v4"] # OK
  BY DEF Types
<1> QED
  BY <1>1 DEF Means4, Loop4, Within6

LEMMA MeansStart4 ==
  ASSUME MeansInv, GuessInv, Start4
  PROVE  MeansInv'
<1> USE DEF MeansInv
<1>1. CutUp'
  BY CutUpKept DEF Start4, Done4, Parsing
<1>2. CASE pc' = "blocks4"
  BY <1>1, <1>2, Start4Loop DEF Means4, Within6
<1>3. CASE pc' # "blocks4"
  <2>1. ~Octets(text)
    BY <1>3, Start4Rejects
  <2>2. PICK r : r # OK /\ ret' = [ret EXCEPT !["v4"] = r] /\ pc' = "v6" /\ text' = text
    BY <1>3 DEF Start4, Done4, INVALID_LINE, NO_HEX, OK
  <2> QED
    BY <1>1, <2>1, <2>2, Means4Rejected DEF GuessInv
<1> QED
  BY <1>2, <1>3

LEMMA MeansBad4 ==
  ASSUME MeansInv, GuessInv, TooManyBlocks4 \/ BadBlock4
  PROVE  MeansInv'
<1> USE DEF MeansInv
<1>1. /\ pc = "blocks4" /\ MoreBlocks /\ pc' = "v6" /\ text' = text /\ prefixstr' = prefixstr
      /\ ret' = [ret EXCEPT !["v4"] = INVALID_LINE]
      /\ line' = line \/ line' = Marked(DOT)
  BY DEF TooManyBlocks4, BadBlock4, Done4
<1>2. CutUp'
  BY <1>1, RemIs, CutUpKept, MarkedCutsUp DEF Parsing
<1>3. ~Octets(text)
  BY TooMany4Rejects, Bad4Rejects
<1>4. INVALID_LINE # OK
  BY DEF INVALID_LINE, OK
<1> QED
  BY <1>1, <1>2, <1>3, <1>4, Means4Rejected DEF GuessInv

LEMMA MeansBlock4 ==
  ASSUME MeansInv, BufInv, Block4
  PROVE  MeansInv'
<1> USE DEF MeansInv
<1>1. PICK V : buf4 \in Buf4(V)
  BY DEF BufInv, IsBuf4
<1>2. buf4.blocks \in [0..NB4 - 1 -> V]
  BY <1>1 DEF Buf4
<1>3. Loop4' /\ CutUp'
  BY <1>2, Block4Loop
<1> QED
  BY <1>3 DEF Block4, Means4, Within6

LEMMA MeansEnd4 ==
  ASSUME MeansInv, GuessInv, EndBlocks4
  PROVE  MeansInv'
<1> USE DEF MeansInv
<1> DEFINE p == Prefixlen4
           k == buf4.num
<1>1. /\ pc = "blocks4" /\ ~MoreBlocks /\ pc' = "v6" /\ text' = text /\ prefixstr' = prefixstr
      /\ line' = line
      /\ IF k = 0 \/ p = BAD
         THEN ret' = [ret EXCEPT !["v4"] = INVALID_LINE]
         ELSE /\ ret' = [ret EXCEPT !["v4"] = OK]
              /\ addr' = [addr EXCEPT !["v4"] = MakeAddr4(buf4, p)]
  BY DEF EndBlocks4, Done4
<1>2. CutUp'
  BY <1>1, CutUpKept DEF Parsing
<1>3. Octets(text) /\ k \in Nat /\ k >= 1
  BY <1>1, End4Accepts
<1>4. DOMAIN ret = Types /\ DOMAIN addr = Types /\ "v4" \in Types
  BY DEF GuessInv, Types
<1>5. (p # BAD <=> HasLen(text, IP4_MAX)) /\ (p # BAD => LenIsRight(text, IP4_MAX, p))
  <2>1. CASE HasSlash(text)
    <3>1. text \in Seq(Token) /\ prefixstr = AddrLen(text) + 2 /\ Parsing
      BY <1>1, <2>1 DEF CutUp, Parsing
    <3>2. prefixstr # 0
      BY <3>1, AddrPartIs
    <3>3. IP4_MAX \in 0..OCTET_MAX
      BY PrefixlenAssumption
    <3>4. p = LET m == ReadNumber(line, prefixstr, 10, OCTET_MAX) IN IF m <= IP4_MAX THEN m ELSE BAD
      BY <3>2 DEF Prefixlen4
    <3> QED
      BY <2>1, <3>1, <3>3, <3>4, PrefixlenRead
  <2>2. CASE ~HasSlash(text)
    <3>1. p = k * BB4
      BY <1>1, <2>2 DEF CutUp, Parsing, Prefixlen4
    <3>2. p # BAD
      BY <1>3, <3>1, Blocks DEF BAD
    <3> QED
      BY <2>2, <3>2 DEF HasLen, LenIsRight, LastSlash
  <2> QED
    BY <2>1, <2>2
<1>6. \A s \in 0..NB4 - 1 : MakeAddr4(buf4, p).slot[s] = Slot4(AddrPart(text), s)
  BY <1>1, Slots4
<1>7. MakeAddr4(buf4, p).len = p
  BY DEF MakeAddr4
<1> HIDE DEF p, k
<1>8. CASE p = BAD
  <2>1. ret'["v4"] # OK
    BY <1>1, <1>4, <1>8 DEF INVALID_LINE, OK
  <2> QED
    BY <1>1, <1>2, <1>5, <1>8, <2>1 DEF Means4, Loop4, Within6
<1>9. CASE p # BAD
  <2>1. ret'["v4"] = OK /\ addr'["v4"] = MakeAddr4(buf4, p)
    BY <1>1, <1>3, <1>4, <1>9
  <2> QED
    BY <1>1, <1>2, <1>3, <1>5, <1>6, <1>7, <1>9, <2>1 DEF Means4, Loop4, Within6
<1> QED
  BY <1>8, <1>9

\* The IPv6 parser leaves the IPv4 parser's result alone.
LEMMA Means4Kept ==
  ASSUME Means4, pc \in {"v6", "blocks6"}, text' = text, guess' = guess,
         ret'["v4"] = ret["v4"], addr'["v4"] = addr["v4"]
  PROVE  Means4'
BY DEF Means4

LEMMA MeansSix ==
  ASSUME MeansInv, GuessInv,
         \/ Skip6 \/ Start6 \/ TooManyBlocks6 \/ BadBlock6 \/ SecondDoubleColon
         \/ Block6 \/ EndBlocks6
  PROVE  MeansInv'
<1> USE DEF MeansInv
<1>0. text \in Seq(Token) /\ DOMAIN ret = Types /\ DOMAIN addr = Types
  BY DEF CutUp, GuessInv
<1>1. AddrLen(text) \in Nat
  BY <1>0, AddrPartIs
<1>2. /\ pc \in {"v6", "blocks6"} /\ text' = text /\ prefixstr' = prefixstr /\ guess' = guess
      /\ pc' \in {"blocks6", "done"}
  BY DEF Skip6, Start6, TooManyBlocks6, BadBlock6, SecondDoubleColon, Block6, EndBlocks6, Done6
<1>3. ret'["v4"] = ret["v4"] /\ addr'["v4"] = addr["v4"]
  BY <1>0 DEF Skip6, Start6, TooManyBlocks6, BadBlock6, SecondDoubleColon, Block6, EndBlocks6,
              Done6, Types
<1>4. Means4' /\ Loop4'
  BY <1>2, <1>3, Means4Kept DEF Loop4
<1>5. CASE pc' = "done"
  BY <1>2, <1>4, <1>5, CutUpDone DEF Within6
<1>6. CASE pc' = "blocks6" /\ Start6
  <2>1. rem' = 1 /\ line' = line
    BY <1>6 DEF Start6, Done6
  <2>2. CutUp'
    BY <1>2, <1>6, <2>1, CutUpKept DEF Parsing
  <2> QED
    BY <1>1, <1>2, <1>4, <2>1, <2>2 DEF Within6
<1>7. CASE pc' = "blocks6" /\ Block6
  <2>1. /\ pc = "blocks6" /\ MoreBlocks /\ line' = Marked(COLON)
        /\ rem' = IF BlockEnd(COLON) = 0 THEN 0
                  ELSE BlockEnd(COLON) + (IF DoubleColon THEN 2 ELSE 1)
    BY <1>7 DEF Block6
  <2>2. rem \in 1..AddrLen(text) + 1 /\ Parsing
    BY <2>1, RemIs DEF Parsing
  <2>3. CutUp'
    BY <1>2, <2>1, <2>2, MarkedCutsUp
  <2>4. BlockEnd(COLON) = 0 \/ BlockEnd(COLON) \in 1..AddrLen(text)
    BY <2>2, BlockEndIs
  <2>5. DoubleColon => BlockEnd(COLON) # AddrLen(text)
    <3>1. At(line, AddrLen(text) + 1) = NUL
      BY <2>2 DEF CutUp
    <3>2. NUL # COLON
      BY DEF NUL, COLON
    <3> QED
      BY <3>1, <3>2 DEF DoubleColon, Following
  <2>6. rem' \in 0..AddrLen(text) + 1
    BY <1>1, <2>1, <2>4, <2>5
  <2> QED
    BY <1>2, <1>4, <2>3, <2>6 DEF Within6
<1>8. pc' = "done" \/ Start6 \/ Block6
  BY DEF Skip6, TooManyBlocks6, BadBlock6, SecondDoubleColon, EndBlocks6, Done6
<1> QED
  BY <1>2, <1>5, <1>6, <1>7, <1>8

LEMMA MeansParse ==
  ASSUME MeansInv, GuessInv, BufInv, ParseNext
  PROVE  MeansInv'
BY MeansSplit, MeansStart4, MeansBad4, MeansBlock4, MeansEnd4, MeansSix DEF ParseNext

LEMMA MeansTold == MeansInv => Ip4MeansText
<1> SUFFICES ASSUME MeansInv PROVE Ip4MeansText
  OBVIOUS
<1>1. text \in Seq(Token)
  BY DEF MeansInv, CutUp
<1>2. IsText4(AddrPart(text)) <=> Octets(text)
  BY <1>1, IsText4Is DEF Octets
<1> QED
  BY <1>2 DEF MeansInv, Means4, Ip4MeansText, Tried

-----------------------------------------------------------------------------
(***************************************************************************)
(* The line of a network consists of blocks, separators and a length: what *)
(* the recursive definitions of IpText return, by induction over the       *)
(* positions.                                                              *)
(***************************************************************************)
LEMMA Upwards ==
  ASSUME NEW n \in Nat, NEW S, 0 \in S, \A i \in 1..n : i - 1 \in S => i \in S
  PROVE  0..n \subseteq S
<1> DEFINE T == {i \in 0..n : i \notin S}
<1> SUFFICES ASSUME T # {} PROVE FALSE
  OBVIOUS
<1>1. PICK i \in T : \A m \in T : i <= m
  <2> T \subseteq Nat
    OBVIOUS
  <2> HIDE DEF T
  <2> QED
    BY LeastNat
<1>2. i \in 1..n /\ i - 1 \in 0..n /\ i - 1 \notin T
  BY <1>1
<1> QED
  BY <1>1, <1>2

LEMMA Downwards ==
  ASSUME NEW n \in Nat, NEW S, n \in S, \A i \in 0..n - 1 : i + 1 \in S => i \in S
  PROVE  0..n \subseteq S
<1> DEFINE R == {i \in 0..n : n - i \in S}
<1>1. 0 \in R
  OBVIOUS
<1>2. ASSUME NEW i \in 1..n, i - 1 \in R PROVE i \in R
  <2>1. n - i \in 0..n - 1 /\ n - i + 1 = n - (i - 1)
    OBVIOUS
  <2> QED
    BY <1>2, <2>1
<1>3. 0..n \subseteq R
  <2> HIDE DEF R
  <2> QED
    BY <1>1, <1>2, Upwards
<1>4. ASSUME NEW i \in 0..n PROVE i \in S
  <2>1. n - i \in 0..n /\ n - (n - i) = i
    OBVIOUS
  <2> QED
    BY <1>3, <2>1
<1> QED
  BY <1>4

\* The numbers made from the first bits of n, up to the one made from all.
BitsRead(w, width, n, f) ==
  /\ f \in [0..n -> Nat] /\ f[0] = 0
  /\ \A i \in 1..n : f[i] = 2 * f[i - 1] + w[width - n + i] /\ w[width - n + i] \in {0, 1}

LEMMA LowBitsIs ==
  ASSUME NEW width \in Nat, NEW w \in Word(width), NEW n \in 0..width
  PROVE  \E f : BitsRead(w, width, n, f) /\ LowBits(w, width, n) = f[n]
<1> DEFINE bit(i) == w[width - n + i]
           Step(g) == [i \in 0..n |-> IF i = 0 THEN 0 ELSE 2 * g[i - 1] + bit(i)]
           f == CHOOSE g : g = Step(g)
           S == {k \in 0..n : \E g \in [0..k -> Nat] :
                   g[0] = 0 /\ \A i \in 1..k : g[i] = 2 * g[i - 1] + bit(i)}
<1>1. \A i \in 1..n : bit(i) \in {0, 1}
  BY DEF Word
<1> HIDE DEF bit
<1>2. 0 \in S
  <2> DEFINE h == [i \in 0..0 |-> 0]
  <2>1. h \in [0..0 -> Nat] /\ h[0] = 0 /\ 1..0 = {} /\ 0 \in 0..n
    OBVIOUS
  <2> HIDE DEF h
  <2> QED
    BY <2>1
<1>3. ASSUME NEW k \in 1..n, k - 1 \in S PROVE k \in S
  <2>1. PICK g \in [0..k - 1 -> Nat] : g[0] = 0 /\ \A i \in 1..k - 1 : g[i] = 2 * g[i - 1] + bit(i)
    BY <1>3
  <2> DEFINE h == [i \in 0..k |-> IF i = k THEN 2 * g[k - 1] + bit(k) ELSE g[i]]
  <2>2. g[k - 1] \in Nat
    OBVIOUS
  <2>3. h \in [0..k -> Nat]
    BY <1>1, <2>2
  <2>4. h[0] = 0 /\ \A i \in 1..k : h[i] = 2 * h[i - 1] + bit(i)
    BY <2>1
  <2>5. k \in 0..n
    OBVIOUS
  <2> HIDE DEF h
  <2> QED
    BY <2>3, <2>4, <2>5
<1>4. n \in S
  <2> HIDE DEF S
  <2> QED
    BY <1>2, <1>3, Upwards
<1>5. PICK g \in [0..n -> Nat] : g[0] = 0 /\ \A i \in 1..n : g[i] = 2 * g[i - 1] + bit(i)
  BY <1>4
<1>6. g = Step(g)
  BY <1>5
<1>7. f = Step(f)
  <2> HIDE DEF Step
  <2> QED
    BY <1>6
<1>8. LowBits(w, width, n) = f[n]
  BY DEF LowBits, bit
<1> HIDE DEF f, S
<1>9. f[0] = 0 /\ \A i \in 1..n : f[i] = 2 * f[i - 1] + bit(i)
  <2>1. \A i \in 0..n : f[i] = IF i = 0 THEN 0 ELSE 2 * f[i - 1] + bit(i)
    BY <1>7
  <2> QED
    BY <2>1
<1>10. 0..n \subseteq {i \in 0..n : f[i] \in Nat}
  <2>1. ASSUME NEW i \in 1..n, f[i - 1] \in Nat PROVE f[i] \in Nat
    <3>1. f[i] = 2 * f[i - 1] + bit(i)
      BY <1>9
    <3>2. bit(i) \in {0, 1}
      BY <1>1
    <3> QED
      BY <2>1, <3>1, <3>2
  <2> DEFINE F == {i \in 0..n : f[i] \in Nat}
  <2>2. n \in Nat /\ 0 \in F /\ \A i \in 1..n : i - 1 \in F => i \in F
    BY <1>9, <2>1
  <2> HIDE DEF F
  <2>3. 0..n \subseteq F
    BY <2>2, Upwards
  <2> QED
    BY <2>3 DEF F
<1>11. f \in [0..n -> Nat]
  <2>1. f = [i \in 0..n |-> f[i]]
    BY <1>7
  <2>2. \A i \in 0..n : f[i] \in Nat
    BY <1>10
  <2> HIDE DEF Step
  <2> QED
    BY <2>1, <2>2
<1>12. BitsRead(w, width, n, f)
  BY <1>1, <1>9, <1>11 DEF BitsRead, bit
<1> QED
  BY <1>8, <1>12

\* The number in a word's bits is a number.
LEMMA LowBitsNat ==
  ASSUME NEW width \in Nat, NEW w \in Word(width), NEW n \in 0..width
  PROVE  LowBits(w, width, n) \in Nat
<1>1. PICK f : BitsRead(w, width, n, f) /\ LowBits(w, width, n) = f[n]
  BY LowBitsIs
<1>2. f \in [0..n -> Nat] /\ n \in 0..n
  BY <1>1 DEF BitsRead
<1> QED
  BY <1>1, <1>2

LEMMA ShrWord == ASSUME NEW n \in Nat, NEW w \in Word(n), NEW k PROVE Shr(w, k) \in Word(n)
BY DEF Word, Shr

LEMMA Sizes == /\ HALF \in Nat /\ HALF > 0 /\ W4 \in Nat /\ BB4 \in 0..W4 /\ BB6 \in 0..C
               /\ NB6 = 2 * HALF
<1>1. HALF \in Nat /\ HALF > 0 /\ NB6 = 2 * HALF /\ C = HALF * BB6
  BY NetAssumption, Blocks DEF HALF
<1> HIDE DEF HALF
<1>2. 1 * BB4 <= NB4 * BB4 /\ 1 * BB6 <= HALF * BB6
  BY <1>1, Blocks, Scaled
<1>3. W4 \in Nat /\ BB4 <= W4
  BY <1>2, Blocks DEF W4
<1> QED
  BY <1>1, <1>2, <1>3, CFact, Blocks

LEMMA DigitsNat == ASSUME NEW v \in Nat PROVE Digits(v, 16, 10) \in Nat /\ Digits(v, 10, 16) \in Nat
<1>1. \A unit \in {1, 10, 16, 100, 256, 1000, 4096} : \A base \in {10, 16} :
        (v \div unit) % base \in Nat
  OBVIOUS
<1>2. 16 * 16 = 256 /\ 16 * 16 * 16 = 4096 /\ 10 * 10 = 100 /\ 10 * 10 * 10 = 1000
  OBVIOUS
<1> DEFINE d(unit, base) == (v \div unit) % base
<1>3. /\ Digits(v, 16, 10) = d(1, 16) + 10 * (d(16, 16) + 10 * (d(256, 16) + 10 * d(4096, 16)))
      /\ Digits(v, 10, 16) = d(1, 10) + 16 * (d(10, 10) + 16 * (d(100, 10) + 16 * d(1000, 10)))
  BY <1>2 DEF Digits
<1>4. \A unit \in {1, 10, 16, 100, 256, 1000, 4096} : \A base \in {10, 16} : d(unit, base) \in Nat
  BY <1>1
<1> HIDE DEF d
<1> QED
  BY <1>3, <1>4

LEMMA NumberText == ASSUME NEW v \in Nat PROVE HexText(v) \in Token /\ DecText(v) \in Token
<1>1. Digits(v, 16, 10) \in Nat /\ Digits(v, 10, 16) \in Nat
  BY DigitsNat
<1>2. DecText(v) \in Token
  BY <1>1 DEF DecText, Token, BlockText
<1> DEFINE letters == \E unit \in {1, 16, 256, 4096} : (v \div unit) % 16 > 9
<1>3. HexText(v) = [scan |-> IF letters THEN "letters" ELSE "digits",
                    dec |-> IF letters THEN BAD ELSE Digits(v, 16, 10), hex |-> v]
  BY DEF HexText
<1> HIDE DEF letters
<1>4. HexText(v) \in Token
  BY <1>1, <1>3 DEF Token, BlockText
<1> QED
  BY <1>2, <1>4

LEMMA Separators == DOT \in Token /\ COLON \in Token /\ SLASH \in Token
BY DEF Token

LEMMA JoinedText ==
  ASSUME NEW n \in Nat, n >= 1, NEW b \in [0..n - 1 -> Token], NEW c \in Token
  PROVE  Joined(b, n, c) \in Seq(Token)
<1>1. \A i \in 1..2 * n - 1 : i % 2 = 1 => (i - 1) \div 2 \in 0..n - 1
  OBVIOUS
<1>2. \A i \in 1..2 * n - 1 : (IF i % 2 = 1 THEN b[(i - 1) \div 2] ELSE c) \in Token
  BY <1>1
<1>3. Joined(b, n, c) \in [1..2 * n - 1 -> Token]
  BY <1>2 DEF Joined
<1>4. 2 * n - 1 \in Nat
  OBVIOUS
<1> QED
  BY <1>3, <1>4, SeqDef

\* The blocks of an address.
LEMMA BlocksNat ==
  ASSUME NEW bits \in ip6_addr_data
  PROVE  /\ ip6_addr_data_copy_to_blocks(bits) \in [0..NB6 - 1 -> Nat]
         /\ ip6_addr_fmt_args(bits) \in [0..NB6 - 1 -> Nat]
<1>1. bits.high \in Word(C) /\ bits.low \in Word(C) /\ C \in Nat /\ BB6 \in 0..C
  BY Sizes, CFact DEF ip6_addr_data
<1>2. ASSUME NEW w \in Word(C), NEW k PROVE LowBits(Shr(w, k), C, BB6) \in Nat
  BY <1>1, ShrWord, LowBitsNat
<1>3. \A k : Block(bits.high, k) \in Nat /\ Block(bits.low, k) \in Nat
  BY <1>1, <1>2 DEF Block
<1> QED
  BY <1>1, <1>2, <1>3 DEF ip6_addr_data_copy_to_blocks, ip6_addr_fmt_args

\* The pass over the blocks that looks for the longest run of zero blocks.
Run == [start : Nat, len : Nat, cur : Nat, curlen : Nat]

ZeroBlocks(b, i, j) == \A m \in i..j : b[m] = 0

\* z is a run of zero blocks below n; no other is longer, and of the longest
\* it is the first.
Longest(b, z, n) ==
  /\ z.start \in Nat /\ z.len \in Nat /\ z.start + z.len <= n
  /\ ZeroBlocks(b, z.start, z.start + z.len - 1)
  /\ \A i, j \in 0..n - 1 : i <= j /\ ZeroBlocks(b, i, j) =>
       j - i + 1 < z.len \/ (j - i + 1 = z.len /\ z.start <= i)

\* What the pass knows after k blocks: the longest run but for the one that
\* the last blocks are.
Passed(b, s, k) ==
  /\ s \in Run /\ Longest(b, s, s.cur) /\ s.cur + s.curlen = k
  /\ ZeroBlocks(b, s.cur, k - 1) /\ (s.cur > 0 => b[s.cur - 1] # 0)

LEMMA PassedZero ==
  ASSUME NEW b, NEW s, NEW k \in Nat, k >= 1, Passed(b, s, k - 1), b[k - 1] = 0,
         NEW r, r = [start |-> s.start, len |-> s.len,
                     cur |-> IF s.curlen = 0 THEN k - 1 ELSE s.cur, curlen |-> s.curlen + 1]
  PROVE  Passed(b, r, k)
<1>1. s \in Run /\ Longest(b, s, s.cur) /\ s.cur + s.curlen = k - 1
  BY DEF Passed
<1>2. s.start \in Nat /\ s.len \in Nat /\ s.cur \in Nat /\ s.curlen \in Nat
  BY <1>1 DEF Run
<1>3. r.start = s.start /\ r.len = s.len /\ r.cur = s.cur /\ r.curlen = s.curlen + 1
  BY <1>1, <1>2
<1>4. r \in Run
  BY <1>2, <1>3 DEF Run
<1>5. r.cur + r.curlen = k
  BY <1>1, <1>2, <1>3
<1>6. Longest(b, r, r.cur)
  BY <1>1, <1>3 DEF Longest
<1>7. ZeroBlocks(b, r.cur, k - 1)
  <2>1. \A m \in s.cur..k - 1 : m \in s.cur..k - 1 - 1 \/ m = k - 1
    BY <1>2
  <2> QED
    BY <1>3, <2>1 DEF Passed, ZeroBlocks
<1> QED
  BY <1>3, <1>4, <1>5, <1>6, <1>7 DEF Passed

\* Of all runs up to k the last one or the longest one before is the longest.
LEMMA LongestOf ==
  ASSUME NEW b, NEW s, NEW k \in Nat, Passed(b, s, k), NEW z,
         z.start = IF s.curlen > s.len THEN s.cur ELSE s.start,
         z.len = IF s.curlen > s.len THEN s.curlen ELSE s.len
  PROVE  Longest(b, z, k)
<1>1. s \in Run /\ Longest(b, s, s.cur) /\ s.cur + s.curlen = k
  BY DEF Passed
<1>2. s.start \in Nat /\ s.len \in Nat /\ s.cur \in Nat /\ s.curlen \in Nat
  BY <1>1 DEF Run
<1>3. /\ z.start \in Nat /\ z.len \in Nat /\ z.start + z.len <= k
      /\ s.len <= z.len /\ s.curlen <= z.len
  BY <1>1, <1>2 DEF Longest
<1>4. ZeroBlocks(b, z.start, z.start + z.len - 1)
  <2>1. CASE s.curlen > s.len
    BY <1>1, <1>2, <2>1 DEF Passed
  <2>2. CASE ~(s.curlen > s.len)
    BY <1>1, <2>2 DEF Longest
  <2> QED
    BY <2>1, <2>2
<1>5. ASSUME NEW i \in 0..k - 1, NEW j \in 0..k - 1, i <= j, ZeroBlocks(b, i, j)
      PROVE  j - i + 1 < z.len \/ (j - i + 1 = z.len /\ z.start <= i)
  <2>1. CASE i >= s.cur
    <3>1. j - i + 1 <= s.curlen /\ (j - i + 1 = s.curlen => i = s.cur)
      BY <1>1, <1>2, <1>5, <2>1
    <3>2. s.start <= s.cur
      BY <1>1, <1>2 DEF Longest
    <3> QED
      BY <1>2, <1>5, <2>1, <3>1, <3>2
  <2>2. CASE j < s.cur
    <3>1. i \in 0..s.cur - 1 /\ j \in 0..s.cur - 1
      BY <1>2, <1>5, <2>2
    <3>2. j - i + 1 < s.len \/ (j - i + 1 = s.len /\ s.start <= i)
      BY <1>1, <1>5, <3>1 DEF Longest
    <3> QED
      BY <1>2, <1>3, <1>5, <3>2
  <2>3. CASE i < s.cur /\ j >= s.cur
    <3>1. s.cur > 0 /\ s.cur - 1 \in i..j
      BY <1>2, <2>3
    <3> QED
      BY <1>5, <3>1 DEF Passed, ZeroBlocks
  <2> QED
    BY <1>2, <2>1, <2>2, <2>3
<1> QED
  BY <1>3, <1>4, <1>5 DEF Longest

LEMMA PassedOther ==
  ASSUME NEW b, NEW s, NEW k \in Nat, k >= 1, Passed(b, s, k - 1), b[k - 1] # 0,
         NEW r, r = [start |-> IF s.curlen > s.len THEN s.cur ELSE s.start,
                     len |-> IF s.curlen > s.len THEN s.curlen ELSE s.len,
                     cur |-> k, curlen |-> 0]
  PROVE  Passed(b, r, k)
<1>1. s \in Run /\ s.cur + s.curlen = k - 1
  BY DEF Passed
<1>2. s.start \in Nat /\ s.len \in Nat /\ s.cur \in Nat /\ s.curlen \in Nat
  BY <1>1 DEF Run
<1>3. r \in Run /\ r.cur = k /\ r.curlen = 0
  BY <1>2 DEF Run
<1>4. Longest(b, r, k - 1)
  <2>1. k - 1 \in Nat
    OBVIOUS
  <2>2. /\ r.start = IF s.curlen > s.len THEN s.cur ELSE s.start
        /\ r.len = IF s.curlen > s.len THEN s.curlen ELSE s.len
    OBVIOUS
  <2> QED
    BY <2>1, <2>2, LongestOf
<1>5. Longest(b, r, k)
  <2>1. r.start \in Nat /\ r.len \in Nat /\ r.start + r.len <= k
    BY <1>4 DEF Longest
  <2>2. ASSUME NEW i \in 0..k - 1, NEW j \in 0..k - 1, i <= j, ZeroBlocks(b, i, j)
        PROVE  j - i + 1 < r.len \/ (j - i + 1 = r.len /\ r.start <= i)
    <3>1. j # k - 1
      <4>1. j \in i..j
        BY <2>2
      <4> QED
        BY <2>2, <4>1 DEF ZeroBlocks
    <3>2. i \in 0..k - 1 - 1 /\ j \in 0..k - 1 - 1
      BY <2>2, <3>1
    <3> QED
      BY <1>4, <2>2, <3>2 DEF Longest
  <2> QED
    BY <1>4, <2>1, <2>2 DEF Longest
<1>6. ZeroBlocks(b, r.cur, k - 1)
  <2>1. r.cur..k - 1 = {}
    BY <1>3
  <2> QED
    BY <2>1 DEF ZeroBlocks
<1> QED
  BY <1>3, <1>5, <1>6 DEF Passed

\* The pass finds the first of the longest runs of zero blocks.
LEMMA ZeroSeqIs ==
  ASSUME NEW b
  PROVE  Longest(b, ip6_addr_data_find_longest_zero_seq(b), NB6)
<1> DEFINE Next1(s, k) ==
             IF b[k - 1] = 0
             THEN [s EXCEPT !.cur = IF s.curlen = 0 THEN k - 1 ELSE s.cur, !.curlen = s.curlen + 1]
             ELSE IF s.curlen > s.len
                  THEN [start |-> s.cur, len |-> s.curlen, cur |-> k, curlen |-> 0]
                  ELSE [s EXCEPT !.cur = k, !.curlen = 0]
           zero == [start |-> 0, len |-> 0, cur |-> 0, curlen |-> 0]
           Step(g) == [k \in 0..NB6 |-> IF k = 0 THEN zero ELSE Next1(g[k - 1], k)]
           f == CHOOSE g : g = Step(g)
           S == {k \in 0..NB6 : \E g : /\ DOMAIN g = 0..k /\ g[0] = zero
                                       /\ \A i \in 1..k : g[i] = Next1(g[i - 1], i)}
<1>1. Passed(b, zero, 0)
  <2>1. zero \in Run /\ zero.start = 0 /\ zero.len = 0 /\ zero.cur = 0 /\ zero.curlen = 0
    BY DEF Run
  <2>2. 0..0 - 1 = {} /\ 0 + 0 - 1 = 0 - 1 /\ 0 + 0 = 0 /\ ~(0 > 0)
    OBVIOUS
  <2> HIDE DEF zero
  <2> QED
    BY <2>1, <2>2 DEF Passed, Longest, ZeroBlocks
<1>2. ASSUME NEW s, NEW k \in 1..NB6, Passed(b, s, k - 1) PROVE Passed(b, Next1(s, k), k)
  <2>1. s \in Run /\ k \in Nat /\ k >= 1
    BY <1>2, Blocks DEF Passed
  <2>2. CASE b[k - 1] = 0
    <3>1. Next1(s, k) = [s EXCEPT !.cur = IF s.curlen = 0 THEN k - 1 ELSE s.cur,
                                  !.curlen = s.curlen + 1]
      BY <2>2
    <3> HIDE DEF Next1
    <3>2. Next1(s, k) = [start |-> s.start, len |-> s.len,
                         cur |-> IF s.curlen = 0 THEN k - 1 ELSE s.cur, curlen |-> s.curlen + 1]
      BY <2>1, <3>1 DEF Run
    <3> QED
      BY <1>2, <2>1, <2>2, <3>2, PassedZero
  <2>3. CASE b[k - 1] # 0
    <3>1. Next1(s, k) = IF s.curlen > s.len
                        THEN [start |-> s.cur, len |-> s.curlen, cur |-> k, curlen |-> 0]
                        ELSE [s EXCEPT !.cur = k, !.curlen = 0]
      BY <2>3
    <3> HIDE DEF Next1
    <3>2. Next1(s, k) = [start |-> IF s.curlen > s.len THEN s.cur ELSE s.start,
                         len |-> IF s.curlen > s.len THEN s.curlen ELSE s.len,
                         cur |-> k, curlen |-> 0]
      BY <2>1, <3>1 DEF Run
    <3> QED
      BY <1>2, <2>1, <2>3, <3>2, PassedOther
  <2> QED
    BY <2>2, <2>3
<1>0. ip6_addr_data_find_longest_zero_seq(b) =
        LET all == f[NB6] IN
        IF all.curlen > all.len THEN [start |-> all.cur, len |-> all.curlen]
                                ELSE [start |-> all.start, len |-> all.len]
  BY DEF ip6_addr_data_find_longest_zero_seq
<1> HIDE DEF Next1, zero
<1>3. 0 \in S
  <2> DEFINE h == [i \in 0..0 |-> zero]
  <2>1. DOMAIN h = 0..0 /\ h[0] = zero /\ 1..0 = {} /\ 0 \in 0..NB6
    BY Blocks
  <2> HIDE DEF h
  <2> QED
    BY <2>1
<1>4. ASSUME NEW k \in 1..NB6, k - 1 \in S PROVE k \in S
  <2>1. PICK g : /\ DOMAIN g = 0..k - 1 /\ g[0] = zero
                 /\ \A i \in 1..k - 1 : g[i] = Next1(g[i - 1], i)
    BY <1>4
  <2> DEFINE h == [i \in 0..k |-> IF i = k THEN Next1(g[k - 1], k) ELSE g[i]]
  <2>2. DOMAIN h = 0..k /\ h[0] = zero
    BY <2>1
  <2>3. ASSUME NEW i \in 1..k PROVE h[i] = Next1(h[i - 1], i)
    <3>1. h[i - 1] = g[i - 1]
      OBVIOUS
    <3>2. CASE i = k
      BY <3>1, <3>2
    <3>3. CASE i # k
      <4>1. i \in 1..k - 1 /\ h[i] = g[i]
        BY <3>3
      <4> HIDE DEF h
      <4> QED
        BY <2>1, <3>1, <4>1
    <3> QED
      BY <3>2, <3>3
  <2> HIDE DEF h
  <2> QED
    BY <2>2, <2>3
<1>5. NB6 \in S
  <2>1. NB6 \in Nat /\ NB6 \in 0..NB6
    BY Blocks
  <2> HIDE DEF S
  <2> QED
    BY <1>3, <1>4, <2>1, Upwards
<1>6. f = Step(f)
  <2>1. PICK g : DOMAIN g = 0..NB6 /\ g[0] = zero /\ \A i \in 1..NB6 : g[i] = Next1(g[i - 1], i)
    BY <1>5
  <2> DEFINE h == [i \in 0..NB6 |-> g[i]]
  <2>2. h = Step(h)
    <3>1. \A i \in 0..NB6 : i # 0 => i \in 1..NB6 /\ i - 1 \in 0..NB6
      BY Blocks
    <3>2. \A i \in 0..NB6 : h[i] = IF i = 0 THEN zero ELSE Next1(h[i - 1], i)
      BY <2>1, <3>1
    <3> QED
      BY <3>2
  <2> HIDE DEF Step, h
  <2> QED
    BY <2>2
<1> HIDE DEF f
<1>7. \A i \in 0..NB6 : f[i] = IF i = 0 THEN zero ELSE Next1(f[i - 1], i)
  BY <1>6
<1> DEFINE F == {i \in 0..NB6 : Passed(b, f[i], i)}
<1>8. 0 \in F
  BY <1>1, <1>7, Blocks
<1>9. ASSUME NEW i \in 1..NB6, i - 1 \in F PROVE i \in F
  <2>1. Passed(b, f[i - 1], i - 1) /\ f[i] = Next1(f[i - 1], i)
    BY <1>7, <1>9
  <2> QED
    BY <1>2, <2>1
<1>10. NB6 \in F
  <2>1. NB6 \in Nat /\ NB6 \in 0..NB6
    BY Blocks
  <2> HIDE DEF F
  <2> QED
    BY <1>8, <1>9, <2>1, Upwards
<1>11. Passed(b, f[NB6], NB6)
  BY <1>10
<1>12. PICK all : all = f[NB6]
  OBVIOUS
<1>13. PICK z : z = ip6_addr_data_find_longest_zero_seq(b)
  OBVIOUS
<1>14. /\ z.start = IF all.curlen > all.len THEN all.cur ELSE all.start
       /\ z.len = IF all.curlen > all.len THEN all.curlen ELSE all.len
  BY <1>0, <1>12, <1>13
<1>15. Longest(b, z, NB6)
  BY <1>11, <1>12, <1>14, LongestOf, Blocks
<1> QED
  BY <1>13, <1>15

\* What the compact form is made of.
Piece == {COLON} \union {HexText(v) : v \in Nat}

LEMMA PieceIs ==
  /\ Piece \subseteq Token /\ COLON \in Piece /\ SLASH \notin Piece
  /\ \A v \in Nat : HexText(v) \in Piece /\ HexText(v) # COLON
<1>1. \A v \in Nat : HexText(v) \in Token
  BY NumberText
<1>2. \A v : HexText(v).scan \in {"letters", "digits"}
  BY DEF HexText
<1>3. /\ COLON.scan \notin {"letters", "digits"} /\ SLASH.scan \notin {"letters", "digits"}
      /\ COLON # SLASH
  BY DEF COLON, SLASH
<1> QED
  BY <1>1, <1>2, <1>3, Separators DEF Piece

\* One block, and the colon behind it; or the double colon, of which the block
\* before it has written the first.
BlockText6(b, k) == <<HexText(b[k])>> \o (IF k < NB6 - 1 THEN <<COLON>> ELSE << >>)
FillText(k) == IF k = 0 THEN <<COLON, COLON>> ELSE <<COLON>>
Filled(z, k) == z.len > 0 /\ k = z.start

\* f[k] is the text from block k on.
CompactFrom(b, z, f) ==
  /\ f[NB6] = << >>
  /\ \A k \in 0..NB6 : f[k] \in Seq(Piece)
  /\ \A k \in 0..NB6 - 1 : f[k] = IF Filled(z, k) THEN FillText(k) \o f[k + z.len]
                                                 ELSE BlockText6(b, k) \o f[k + 1]

\* The compact form of an address, by induction from its last block.
LEMMA CompactIs ==
  ASSUME NEW b \in [0..NB6 - 1 -> Nat], NEW fill, fill.start \in Nat, fill.len \in Nat,
         fill.start + fill.len <= NB6
  PROVE  \E f : f[0] = ip6_addr_data_build_addr_str(b, fill) /\ CompactFrom(b, fill, f)
<1> DEFINE colons(k) == IF k = 0 THEN <<COLON, COLON>> ELSE <<COLON>>
           block(k) == <<HexText(b[k])>> \o (IF k < NB6 - 1 THEN <<COLON>> ELSE << >>)
           filled(k) == fill.len > 0 /\ k = fill.start
           One(g, k) == IF filled(k) THEN colons(k) \o g[k + fill.len] ELSE block(k) \o g[k + 1]
           Step(g) == [k \in 0..NB6 |-> IF k = NB6 THEN << >> ELSE One(g, k)]
           f == CHOOSE g : g = Step(g)
           S == {k \in 0..NB6 : \E g \in [k..NB6 -> Seq(Piece)] :
                   g[NB6] = << >> /\ \A i \in k..NB6 - 1 : g[i] = One(g, i)}
<1>0. ip6_addr_data_build_addr_str(b, fill) = f[0]
  BY DEF ip6_addr_data_build_addr_str
<1>1. \A k : colons(k) \in Seq(Piece)
  BY PieceIs
<1>2. \A k \in 0..NB6 - 1 : block(k) \in Seq(Piece)
  <2> TAKE k \in 0..NB6 - 1
  <2>1. HexText(b[k]) \in Piece
    BY PieceIs
  <2>2. <<HexText(b[k])>> \in Seq(Piece) /\ << >> \in Seq(Piece) /\ <<COLON>> \in Seq(Piece)
    BY <2>1, PieceIs
  <2> QED
    BY <2>2, ConcatProperties
<1>3. /\ NB6 \in Nat /\ NB6 > 0
      /\ \A k \in 0..NB6 - 1 : filled(k) => k + fill.len \in k + 1..NB6
  BY Blocks
<1> HIDE DEF colons, block, filled
<1>4. ASSUME NEW k \in 0..NB6 - 1, NEW g, \A i \in k + 1..NB6 : g[i] \in Seq(Piece)
      PROVE  One(g, k) \in Seq(Piece)
  <2>1. CASE filled(k)
    <3>1. g[k + fill.len] \in Seq(Piece) /\ colons(k) \in Seq(Piece)
      BY <1>1, <1>3, <1>4, <2>1
    <3>2. colons(k) \o g[k + fill.len] \in Seq(Piece)
      BY <3>1, ConcatProperties
    <3> QED
      BY <2>1, <3>2
  <2>2. CASE ~filled(k)
    <3>1. k + 1 \in k + 1..NB6
      BY <1>3
    <3>2. g[k + 1] \in Seq(Piece) /\ block(k) \in Seq(Piece)
      BY <1>2, <1>4, <3>1
    <3>3. block(k) \o g[k + 1] \in Seq(Piece)
      BY <3>2, ConcatProperties
    <3> QED
      BY <2>2, <3>3
  <2> QED
    BY <2>1, <2>2
\* One(g, k) looks only at what lies behind k.
<1>5. ASSUME NEW k \in 0..NB6 - 1, NEW g, NEW h, \A i \in k + 1..NB6 : g[i] = h[i]
      PROVE  One(g, k) = One(h, k)
  <2>1. k + 1 \in k + 1..NB6
    BY <1>3
  <2>2. g[k + 1] = h[k + 1]
    BY <1>5, <2>1
  <2>3. filled(k) => g[k + fill.len] = h[k + fill.len]
    BY <1>3, <1>5
  <2> QED
    BY <2>2, <2>3
<1> HIDE DEF One
<1>6. NB6 \in S
  <2> DEFINE h == [i \in NB6..NB6 |-> << >>]
  <2>1. << >> \in Seq(Piece)
    BY EmptySeq
  <2>2. h \in [NB6..NB6 -> Seq(Piece)] /\ h[NB6] = << >> /\ NB6..NB6 - 1 = {} /\ NB6 \in 0..NB6
    BY <1>3, <2>1
  <2> HIDE DEF h
  <2> QED
    BY <2>2
<1>7. ASSUME NEW k \in 0..NB6 - 1, k + 1 \in S PROVE k \in S
  <2>1. PICK g \in [k + 1..NB6 -> Seq(Piece)] :
          g[NB6] = << >> /\ \A i \in k + 1..NB6 - 1 : g[i] = One(g, i)
    BY <1>7
  <2> DEFINE h == [i \in k..NB6 |-> IF i = k THEN One(g, k) ELSE g[i]]
  <2>2. \A i \in k + 1..NB6 : g[i] = h[i] /\ g[i] \in Seq(Piece)
    BY <1>3
  <2>3. One(g, k) \in Seq(Piece)
    BY <1>4, <2>2
  <2>4. h \in [k..NB6 -> Seq(Piece)]
    <3>1. \A i \in k..NB6 : i = k \/ i \in k + 1..NB6
      BY <1>3
    <3> QED
      BY <2>2, <2>3, <3>1
  <2>5. h[NB6] = << >> /\ h[k] = One(g, k)
    BY <1>3, <2>1
  <2> HIDE DEF h
  <2>6. ASSUME NEW i \in k..NB6 - 1 PROVE h[i] = One(h, i)
    <3>1. i \in 0..NB6 - 1 /\ \A j \in i + 1..NB6 : j \in k + 1..NB6
      BY <1>3
    <3>2. One(g, i) = One(h, i)
      BY <1>5, <2>2, <3>1
    <3>3. CASE i = k
      BY <2>5, <3>2, <3>3
    <3>4. CASE i # k
      <4>1. i \in k + 1..NB6 - 1 /\ i \in k + 1..NB6
        BY <1>3, <3>4
      <4> QED
        BY <2>1, <2>2, <3>2, <4>1
    <3> QED
      BY <3>3, <3>4
  <2>7. k \in 0..NB6
    BY <1>3
  <2> QED
    BY <2>4, <2>5, <2>6, <2>7
<1>8. 0 \in S
  <2>1. 0 \in 0..NB6
    BY <1>3
  <2> HIDE DEF S
  <2> QED
    BY <1>3, <1>6, <1>7, <2>1, Downwards
<1>9. f = Step(f)
  <2>1. PICK g \in [0..NB6 -> Seq(Piece)] :
          g[NB6] = << >> /\ \A i \in 0..NB6 - 1 : g[i] = One(g, i)
    BY <1>8
  <2>2. g = Step(g)
    <3>1. \A i \in 0..NB6 : i # NB6 => i \in 0..NB6 - 1
      BY <1>3
    <3>2. \A i \in 0..NB6 : g[i] = IF i = NB6 THEN << >> ELSE One(g, i)
      BY <2>1, <3>1
    <3> QED
      BY <3>2
  <2> HIDE DEF Step
  <2> QED
    BY <2>2
<1> HIDE DEF f
<1>10. f[NB6] = << >> /\ \A i \in 0..NB6 - 1 : f[i] = One(f, i)
  <2>1. \A i \in 0..NB6 : f[i] = IF i = NB6 THEN << >> ELSE One(f, i)
    BY <1>9
  <2>2. NB6 \in 0..NB6 /\ \A i \in 0..NB6 - 1 : i \in 0..NB6 /\ i # NB6
    BY <1>3
  <2> QED
    BY <2>1, <2>2
<1> DEFINE F == {i \in 0..NB6 : \A j \in i..NB6 : f[j] \in Seq(Piece)}
<1>11. NB6 \in F
  <2>1. << >> \in Seq(Piece) /\ NB6 \in 0..NB6 /\ NB6..NB6 = {NB6}
    BY <1>3, EmptySeq
  <2> QED
    BY <1>10, <2>1
<1>12. ASSUME NEW k \in 0..NB6 - 1, k + 1 \in F PROVE k \in F
  <2>1. \A i \in k + 1..NB6 : f[i] \in Seq(Piece)
    BY <1>12
  <2>2. f[k] \in Seq(Piece)
    BY <1>4, <1>10, <2>1
  <2>3. k \in 0..NB6 /\ \A j \in k..NB6 : j = k \/ j \in k + 1..NB6
    BY <1>3
  <2> QED
    BY <2>1, <2>2, <2>3
<1>13. 0 \in F
  <2>1. 0 \in 0..NB6
    BY <1>3
  <2> HIDE DEF F
  <2> QED
    BY <1>3, <1>11, <1>12, <2>1, Downwards
<1>14. 0 \in 0..NB6
  BY <1>3
<1>15. CompactFrom(b, fill, f)
  <2>1. \A k \in 0..NB6 : f[k] \in Seq(Piece)
    BY <1>13, <1>14
  <2>2. ASSUME NEW k \in 0..NB6 - 1
        PROVE  f[k] = IF Filled(fill, k) THEN FillText(k) \o f[k + fill.len]
                                         ELSE BlockText6(b, k) \o f[k + 1]
    BY <1>10 DEF One, colons, block, filled, Filled, FillText, BlockText6
  <2> QED
    BY <1>10, <2>1, <2>2 DEF CompactFrom
<1> QED
  BY <1>0, <1>15

LEMMA AddrIsText ==
  ASSUME NEW n \in Nets4 \union Nets6, NEW f
  PROVE  AddrText(n, f) \in Seq(Token)
<1>0. "v4" # "v6"
  OBVIOUS
<1>1. CASE n \in Nets4
  <2> DEFINE b == [k \in 0..NB4 - 1 |-> DecText(LowBits(Shr(n.bits, BB4 * (NB4 - k - 1)), W4, BB4))]
  <2>1. n.type = "v4" /\ n.bits \in Word(W4)
    BY <1>1, NetAssumption DEF Word
  <2>2. W4 \in Nat /\ BB4 \in 0..W4
    BY Sizes
  <2>3. \A k : Shr(n.bits, k) \in Word(W4)
    BY <2>1, <2>2, ShrWord
  <2>4. \A k : LowBits(Shr(n.bits, k), W4, BB4) \in Nat
    BY <2>2, <2>3, LowBitsNat
  <2>5. \A k : DecText(LowBits(Shr(n.bits, k), W4, BB4)) \in Token
    BY <2>4, NumberText
  <2>6. b \in [0..NB4 - 1 -> Token]
    BY <2>5
  <2>7. IP4_ADDR_FMT(n.bits) = Joined(b, NB4, DOT)
    BY DEF IP4_ADDR_FMT
  <2> HIDE DEF b
  <2>8. Joined(b, NB4, DOT) \in Seq(Token)
    BY <2>6, JoinedText, Separators, Blocks
  <2> QED
    BY <2>1, <2>7, <2>8 DEF AddrText
<1>2. CASE n \in Nets6
  <2>1. n.type = "v6" /\ n.bits \in ip6_addr_data
    BY <1>2, NetAssumption
  <2>2. /\ ip6_addr_data_copy_to_blocks(n.bits) \in [0..NB6 - 1 -> Nat]
        /\ ip6_addr_fmt_args(n.bits) \in [0..NB6 - 1 -> Nat]
    BY <2>1, BlocksNat
  <2>3. IP6_ADDR_FMT(n.bits) \in Seq(Token)
    <3> DEFINE b == [k \in 0..NB6 - 1 |-> HexText(ip6_addr_fmt_args(n.bits)[k])]
    <3>1. \A k \in 0..NB6 - 1 : HexText(ip6_addr_fmt_args(n.bits)[k]) \in Token
      BY <2>2, NumberText
    <3>2. b \in [0..NB6 - 1 -> Token]
      BY <3>1
    <3>3. IP6_ADDR_FMT(n.bits) = Joined(b, NB6, COLON)
      BY DEF IP6_ADDR_FMT
    <3> HIDE DEF b
    <3> QED
      BY <3>2, <3>3, JoinedText, Separators, Blocks
  <2>4. ip6_addr_data_into_str(n.bits) \in Seq(Token)
    <3>1. PICK b \in [0..NB6 - 1 -> Nat] : b = ip6_addr_data_copy_to_blocks(n.bits)
      BY <2>2
    <3>2. PICK z : z = ip6_addr_data_find_longest_zero_seq(b)
      OBVIOUS
    <3>3. z.start \in Nat /\ z.len \in Nat /\ z.start + z.len <= NB6
      BY <3>2, ZeroSeqIs DEF Longest
    <3>4. ip6_addr_data_build_addr_str(b, z) \in Seq(Piece)
      <4>1. 0 \in 0..NB6
        BY Blocks
      <4> QED
        BY <3>3, <4>1, CompactIs DEF CompactFrom
    <3>5. Seq(Piece) \subseteq Seq(Token)
      <4>1. \A s \in Seq(Piece) : s \in Seq(Token)
        BY PieceIs, SeqDef
      <4> QED
        BY <4>1
    <3> QED
      BY <3>1, <3>2, <3>4, <3>5 DEF ip6_addr_data_into_str
  <2> QED
    BY <1>0, <2>1, <2>3, <2>4 DEF AddrText
<1> QED
  BY <1>1, <1>2

LEMMA NetIsText ==
  ASSUME NEW n \in Nets4 \union Nets6, NEW f, NEW redux
  PROVE  NetText(n, f, redux) \in Seq(Token)
<1>1. AddrText(n, f) \in Seq(Token)
  BY AddrIsText
<1>2. n.len \in Nat
  BY NetAssumption, Sizes, CFact
<1>3. DecText(n.len) \in Token
  BY <1>2, NumberText
<1>4. <<SLASH, DecText(n.len)>> \in Seq(Token)
  BY <1>3, Separators
<1>5. AddrText(n, f) \o <<SLASH, DecText(n.len)>> \in Seq(Token)
  BY <1>1, <1>4, ConcatProperties
<1> QED
  BY <1>1, <1>5 DEF NetText

-----------------------------------------------------------------------------
LEMMA MeansInvInit == Init => MeansInv
<1> SUFFICES ASSUME Init PROVE MeansInv
  OBVIOUS
<1>1. pc = "idle" /\ text = << >> /\ guess = {}
  BY DEF Init, ParseInit
<1>2. text \in Seq(Token)
  BY <1>1, EmptySeq
<1> QED
  BY <1>1, <1>2 DEF MeansInv, CutUp, Parsing, Loop4, Within6, Means4

LEMMA MeansRead == ASSUME NEW l \in Seq(Token), NEW m, Parse(l, m) PROVE MeansInv'
<1>1. pc' = "split" /\ line' = l /\ text' = l /\ guess' = {}
  BY DEF Parse
<1> QED
  BY <1>1 DEF MeansInv, CutUp, Parsing, Loop4, Within6, Means4

LEMMA MeansInvStep == MeansInv /\ GuessInv /\ BufInv /\ [Next]_vars => MeansInv'
<1> SUFFICES ASSUME MeansInv, GuessInv, BufInv, [Next]_vars PROVE MeansInv'
  OBVIOUS
<1>0. Texts \subseteq Seq(Token) /\ Again \subseteq Texts
  BY TextAssumption, NetAssumption DEF Token
<1>1. ASSUME NEW l \in Texts, NEW m, ReadLine(l, m) PROVE MeansInv'
  BY <1>0, <1>1, MeansRead DEF ReadLine
<1>2. ASSUME NEW l \in Again, NEW m, ReadNextLine(l, m) PROVE MeansInv'
  BY <1>0, <1>2, MeansRead DEF ReadNextLine
<1>3. ASSUME NEW n \in Nets4 \union Nets6, NEW f, NEW redux, NEW m, PrintLine(n, f, redux, m)
      PROVE  MeansInv'
  <2>1. NetText(n, f, redux) \in Seq(Token)
    BY NetIsText
  <2>2. Parse(NetText(n, f, redux), m)
    BY <1>3 DEF PrintLine
  <2> QED
    BY <2>1, <2>2, MeansRead
<1>4. ASSUME NEW n, PrintJson(n) PROVE MeansInv'
  BY <1>4 DEF PrintJson, MeansInv, CutUp, Parsing, Loop4, Within6, Means4
<1>5. CASE ParseNext
  BY <1>5, MeansParse
<1>6. CASE UNCHANGED vars
  BY <1>6 DEF vars, parseVars, MeansInv, CutUp, Parsing, Loop4, Within6, Means4, MoreBlocks
<1> QED
  BY <1>1, <1>2, <1>3, <1>4, <1>5, <1>6 DEF Next

\* A line is accepted by parse_ip4_addr() and, in mixed mode, by the IPv4 half of
\* parse_ip_mixed_addr() exactly if its text is an IPv4 address, with a length or
\* without, and gives every octet the place the text puts it at, and the length if the
\* text names one (ip4.c:62-275, mixed.c:21-133): for every number and size of blocks,
\* every set of lines, and whichever line was read before it.
THEOREM Ip4IsMeant == Spec => []Ip4MeansText
BY MeansTold, MeansInvInit, MeansInvStep, BufInvInit, BufInvStep, GuessInvInit, GuessInvStep,
   PTL DEF Spec

-----------------------------------------------------------------------------
(***************************************************************************)
(* Counting.                                                               *)
(***************************************************************************)
LEMMA CountNat ==
  ASSUME NEW a, NEW c, NEW i \in Int, NEW j \in Int
  PROVE  /\ IsFiniteSet({m \in i..j : a[m] = c})
         /\ Count(a, c, i, j) \in Nat
         /\ j < i => Count(a, c, i, j) = 0
<1>1. IsFiniteSet(i..j)
  BY FS_Interval
<1>2. {m \in i..j : a[m] = c} \subseteq i..j
  OBVIOUS
<1>3. IsFiniteSet({m \in i..j : a[m] = c})
  BY <1>1, <1>2, FS_Subset
<1>4. j < i => {m \in i..j : a[m] = c} = {}
  OBVIOUS
<1> QED
  BY <1>3, <1>4, FS_CardinalityType, FS_EmptySet DEF Count

LEMMA CountSplit ==
  ASSUME NEW a, NEW c, NEW i \in Int, NEW j \in Int, NEW k \in Int, i <= j + 1, j <= k
  PROVE  Count(a, c, i, k) = Count(a, c, i, j) + Count(a, c, j + 1, k)
<1> DEFINE S == {m \in i..j : a[m] = c}
           T == {m \in j + 1..k : a[m] = c}
<1>0. j + 1 \in Int
  OBVIOUS
<1>1. IsFiniteSet(S) /\ IsFiniteSet(T)
  <2>1. IsFiniteSet(S)
    BY CountNat
  <2>2. IsFiniteSet(j + 1..k) /\ T \subseteq j + 1..k
    BY <1>0, FS_Interval
  <2>3. IsFiniteSet(T)
    <3> HIDE DEF T
    <3> QED
      BY <2>2, FS_Subset
  <2> QED
    BY <2>1, <2>3
<1>2. S \cap T = {} /\ S \union T = {m \in i..k : a[m] = c}
  OBVIOUS
<1>3. Cardinality(S) \in Nat /\ Cardinality(T) \in Nat
  BY <1>1, FS_CardinalityType
<1> HIDE DEF S, T
<1>4. Cardinality(S \union T) = Cardinality(S) + Cardinality(T)
  <2>1. Cardinality(S \union T) = Cardinality(S) + Cardinality(T) - Cardinality(S \cap T)
    BY <1>1, FS_Union
  <2>2. Cardinality(S \cap T) = 0
    BY <1>2, FS_EmptySet
  <2> QED
    BY <1>3, <2>1, <2>2
<1> QED
  BY <1>2, <1>4 DEF Count, S, T

LEMMA CountOne ==
  ASSUME NEW a, NEW c, NEW i \in Int
  PROVE  Count(a, c, i, i) = IF a[i] = c THEN 1 ELSE 0
<1>1. {m \in i..i : a[m] = c} = IF a[i] = c THEN {i} ELSE {}
  OBVIOUS
<1> QED
  BY <1>1, FS_Singleton, FS_EmptySet DEF Count

LEMMA CountNext ==
  ASSUME NEW a, NEW c, NEW i \in Int, NEW j \in Int, i <= j
  PROVE  Count(a, c, i, j) = Count(a, c, i, j - 1) + IF a[j] = c THEN 1 ELSE 0
<1>1. i <= j - 1 + 1 /\ j - 1 <= j /\ j - 1 \in Int /\ j - 1 + 1 = j
  OBVIOUS
<1>2. Count(a, c, i, j) = Count(a, c, i, j - 1) + Count(a, c, j - 1 + 1, j)
  BY <1>1, CountSplit
<1> QED
  BY <1>1, <1>2, CountOne

LEMMA CountMonotone ==
  ASSUME NEW a, NEW c, NEW i \in Int, NEW j \in Int, NEW k \in Int, i <= j + 1, j <= k
  PROVE  Count(a, c, i, j) <= Count(a, c, i, k)
<1>1. Count(a, c, i, k) = Count(a, c, i, j) + Count(a, c, j + 1, k)
  BY CountSplit
<1>2. Count(a, c, i, j) \in Nat
  BY CountNat
<1>3. j + 1 \in Int
  OBVIOUS
<1>4. Count(a, c, j + 1, k) \in Nat
  BY <1>3, CountNat
<1> QED
  BY <1>1, <1>2, <1>4

-----------------------------------------------------------------------------
(***************************************************************************)
(* What the IPv4 parser leaves of a line that the IPv6 parser reads, too.  *)
(***************************************************************************)
\* Nothing up to position i has been overwritten.
Intact(i) == \A j \in 1..i : line[j] = text[j]

\* Digits, and then a slash that is not the last one.
Slashed ==
  \E i \in 2..AddrLen(text) :
    /\ text[i] = SLASH /\ Intact(i)
    /\ \A j \in 1..i - 1 : text[j].scan = "digits"

\* The first character that is no digit ends the address.
AllDigits ==
  /\ AddrLen(text) >= 1 /\ Intact(AddrLen(text))
  /\ \A j \in 1..AddrLen(text) : text[j].scan = "digits"

Prefixed == AddrLen(text) >= 1 /\ Intact(1) /\ text[1].scan = "0x"

BothTypes == Slashed \/ AllDigits \/ Prefixed

Mixed ==
  /\ pc \in {"split", "guess"} => mode \subseteq Types
  /\ pc \in {"v4", "blocks4", "v6"} /\ "v6" \in guess =>
       IF "v4" \in guess THEN BothTypes ELSE pc # "blocks4" /\ Intact(AddrLen(text))

\* The IPv4 parser overwrites dots, of which these lines have none up there.
LEMMA BothTypesKept ==
  ASSUME BothTypes, text \in Seq(Token), text' = text,
         \A j \in 1..AddrLen(text) : line[j] # DOT => line'[j] = line[j]
  PROVE  BothTypes'
<1> DEFINE n == AddrLen(text)
<1>1. n \in Nat
  BY AddrPartIs
<1>2. ASSUME NEW i \in 0..n, Intact(i), \A j \in 1..i : text[j] # DOT PROVE Intact(i)'
  BY <1>1, <1>2 DEF Intact
<1>3. \A w : w.scan \in {"digits", "0x"} \/ w = SLASH => w # DOT
  BY DEF DOT, SLASH
<1>4. CASE Slashed
  <2>1. PICK i \in 2..n : /\ text[i] = SLASH /\ Intact(i)
                          /\ \A j \in 1..i - 1 : text[j].scan = "digits"
    BY <1>4 DEF Slashed
  <2>2. i \in 0..n /\ \A j \in 1..i : j = i \/ j \in 1..i - 1
    BY <1>1
  <2>3. Intact(i)'
    BY <1>2, <1>3, <2>1, <2>2
  <2> QED
    BY <2>1, <2>3 DEF Slashed, BothTypes
<1>5. CASE AllDigits
  <2>1. Intact(n)'
    BY <1>1, <1>2, <1>3, <1>5 DEF AllDigits
  <2> QED
    BY <1>5, <2>1 DEF AllDigits, BothTypes
<1>6. CASE Prefixed
  <2>1. 1 \in 0..n /\ \A j \in 1..1 : j = 1
    BY <1>1, <1>6 DEF Prefixed
  <2>2. Intact(1)'
    BY <1>2, <1>3, <1>6, <2>1 DEF Prefixed
  <2> QED
    BY <1>6, <2>2 DEF Prefixed, BothTypes
<1> QED
  BY <1>4, <1>5, <1>6 DEF BothTypes

\* parse_ip_mixed_guess_type() leaves both types open only to these lines.
LEMMA GuessIs ==
  ASSUME CutUp, GuessType, pc' = "v4"
  PROVE  \/ guess' \in {{"v4"}, {"v6"}}
         \/ guess' = Types /\ BothTypes
<1> DEFINE n == AddrLen(text)
           P(i) == At(line, i).scan # "digits" /\ \A j \in 1..i - 1 : line[j].scan = "digits"
           c == CHOOSE i \in 1..Len(line) + 1 : P(i)
<1>1. /\ pc = "guess"
      /\ guess' \in IF line[1].scan = "0x" THEN {Types} ELSE GuessedTypes(c)
  BY DEF GuessType
<1>2. /\ text \in Seq(Token) /\ line \in Seq(Char) /\ Len(line) = Len(text) /\ text # << >>
      /\ At(line, n + 1) = NUL /\ \A i \in 1..n : line[i] = text[i]
  BY <1>1 DEF CutUp, Parsing
<1>3. /\ n \in 0..Len(text) /\ Len(text) \in Nat /\ \A i \in 1..n : text[i] \in Token
  BY <1>2, AddrPartIs
<1>4. Intact(n)
  BY <1>2 DEF Intact
<1>5. Len(line) >= 1
  BY <1>2, <1>3, EmptySeq
<1>6. /\ NUL.scan \notin {"digits", "0x", "/"}
      /\ \A w \in Token : w.scan # "NUL" /\ (w.scan = "/" => w = SLASH)
  BY DEF NUL, Token, BlockText, DOT, COLON, SLASH
<1> HIDE DEF n
<1>7. CASE line[1].scan = "0x"
  <2>1. n >= 1
    BY <1>2, <1>3, <1>5, <1>6, <1>7 DEF At
  <2>2. Intact(1) /\ text[1].scan = "0x"
    BY <1>2, <1>3, <1>7, <2>1 DEF Intact
  <2> QED
    BY <1>1, <1>7, <2>1, <2>2 DEF BothTypes, Prefixed, n
<1>8. CASE line[1].scan # "0x"
  <2>1. \E i \in 1..Len(line) + 1 : P(i)
    <3> DEFINE S == {i \in 1..Len(line) + 1 : At(line, i).scan # "digits"}
    <3>1. n + 1 \in S
      BY <1>2, <1>3, <1>6
    <3>2. S \subseteq Nat
      BY <1>2, <1>3
    <3>3. PICK i \in S : \A j \in S : i <= j
      <4> HIDE DEF S
      <4> QED
        BY <3>1, <3>2, LeastNat
    <3>4. ASSUME NEW j \in 1..i - 1 PROVE line[j].scan = "digits"
      <4>1. j \in 1..Len(line) /\ j \notin S
        BY <1>2, <1>3, <3>3
      <4> QED
        BY <1>2, <1>3, <4>1 DEF At
    <3> QED
      BY <3>4
  <2>2. c \in 1..Len(line) + 1 /\ P(c)
    <3> HIDE DEF P
    <3> QED
      BY <2>1
  <2> HIDE DEF c
  <2>3. c \in 1..n + 1
    <3>1. CASE c > n + 1
      <4>1. n + 1 \in 1..c - 1 /\ n + 1 <= Len(line)
        BY <1>2, <1>3, <2>2, <3>1
      <4> QED
        BY <1>2, <1>6, <2>2, <4>1 DEF At
    <3> QED
      BY <1>2, <1>3, <2>2, <3>1
  <2>4. guess' \in GuessedTypes(c)
    BY <1>1, <1>8
  <2>5. /\ guess' \in {{"v4"}, {"v6"}, Types}
        /\ guess' = Types => At(line, c).scan \in {"NUL", "/"} /\ c > 1
    <3>1. {"v4"} # Types /\ {"v6"} # Types
      BY DEF Types
    <3> QED
      BY <2>4, <3>1 DEF GuessedTypes
  <2>6. ASSUME c > 1, At(line, c).scan \in {"NUL", "/"} PROVE BothTypes
    <3>1. CASE c <= n
      <4>1. At(line, c) = text[c] /\ text[c] \in Token
        BY <1>2, <1>3, <2>3, <3>1 DEF At
      <4>2. text[c] = SLASH
        BY <1>6, <2>6, <4>1
      <4>3. Intact(c) /\ \A j \in 1..c - 1 : text[j].scan = "digits"
        BY <1>2, <1>3, <2>2, <2>3, <3>1 DEF Intact
      <4>4. c \in 2..n
        BY <1>3, <2>3, <2>6, <3>1
      <4> QED
        BY <4>2, <4>3, <4>4 DEF BothTypes, Slashed, n
    <3>2. CASE c > n
      <4>1. c = n + 1
        BY <1>3, <2>3, <3>2
      <4>2. n >= 1 /\ \A j \in 1..n : text[j].scan = "digits"
        BY <1>2, <1>3, <2>2, <2>6, <4>1
      <4> QED
        BY <1>4, <4>2 DEF BothTypes, AllDigits, n
    <3> QED
      BY <1>3, <2>3, <3>1, <3>2
  <2> QED
    BY <2>5, <2>6
<1> QED
  BY <1>7, <1>8

\* The line the IPv6 parser is passed is intact, or one of these.
LEMMA MixedKept ==
  ASSUME MeansInv, Mixed, ParseNext
  PROVE  Mixed'
<1>1. text \in Seq(Token)
  BY DEF MeansInv, CutUp
<1>2. CASE SplitPrefixlen
  <2>1. /\ pc = "split" /\ text' = text /\ mode' = mode /\ pc' \in {"guess", "v4"}
        /\ pc' = "v4" => mode # Types /\ guess' = mode
    BY <1>2 DEF SplitPrefixlen
  <2>2. CutUp'
    BY <1>2, SplitCutsUp DEF MeansInv
  <2>3. pc' = "v4" => Intact(AddrLen(text))'
    BY <2>2 DEF CutUp, Intact
  <2>4. mode \subseteq Types
    BY <2>1 DEF Mixed
  <2> QED
    BY <2>1, <2>3, <2>4 DEF Mixed, Types
<1>3. CASE GuessType
  <2>1. /\ pc = "guess" /\ text' = text /\ line' = line /\ mode' = mode /\ pc' \in {"v4", "done"}
    BY <1>3 DEF GuessType
  <2>2. CASE pc' = "v4"
    <3>1. guess' \in {{"v4"}, {"v6"}} \/ (guess' = Types /\ BothTypes)
      BY <1>3, <2>2, GuessIs DEF MeansInv
    <3>2. BothTypes <=> BothTypes'
      BY <2>1 DEF BothTypes, Slashed, AllDigits, Prefixed, Intact
    <3>3. Intact(AddrLen(text))'
      BY <2>1 DEF MeansInv, CutUp, Intact
    <3> QED
      BY <2>2, <3>1, <3>2, <3>3 DEF Mixed, Types
  <2> QED
    BY <2>1, <2>2 DEF Mixed
<1>4. CASE Skip4
  <2>1. /\ pc = "v4" /\ pc' = "v6" /\ UNCHANGED <<text, mode, line, guess>> /\ "v4" \notin guess
    BY <1>4 DEF Skip4
  <2>2. Intact(AddrLen(text)) <=> Intact(AddrLen(text))'
    BY <2>1 DEF Intact
  <2> QED
    BY <2>1, <2>2 DEF Mixed
<1>5. CASE Start4 \/ TooManyBlocks4 \/ BadBlock4 \/ Block4 \/ EndBlocks4
  <2>1. /\ pc \in {"v4", "blocks4"} /\ pc' \in {"blocks4", "v6"} /\ text' = text /\ guess' = guess
        /\ pc = "v4" => "v4" \in guess
        /\ line' = line \/ (pc = "blocks4" /\ MoreBlocks /\ line' = Marked(DOT))
    BY <1>5 DEF Start4, TooManyBlocks4, BadBlock4, Block4, EndBlocks4, Done4
  <2>2. \A j \in 1..AddrLen(text) : line[j] # DOT => line'[j] = line[j]
    <3>1. CASE pc = "blocks4" /\ MoreBlocks /\ line' = Marked(DOT)
      <4>1. rem \in 1..AddrLen(text) + 1
        BY <3>1, RemIs DEF MeansInv
      <4>2. \/ BlockEnd(DOT) = 0
            \/ BlockEnd(DOT) \in 1..AddrLen(text) /\ line[BlockEnd(DOT)] = DOT
        BY <3>1, <4>1, BlockEndIs DEF MeansInv, Parsing
      <4>3. line \in Seq(Char) /\ Len(line) = Len(text) /\ AddrLen(text) \in 0..Len(text)
        BY <1>1, <3>1, AddrPartIs DEF MeansInv, CutUp, Parsing
      <4>4. CASE BlockEnd(DOT) = 0
        BY <3>1, <4>4 DEF Marked
      <4>5. CASE BlockEnd(DOT) # 0
        <5> DEFINE e == BlockEnd(DOT)
        <5>1. e \in 1..Len(line) /\ line[e] = DOT /\ line' = [line EXCEPT ![e] = NUL]
          BY <1>1, <3>1, <4>2, <4>3, <4>5 DEF Marked
        <5> HIDE DEF e
        <5> QED
          BY <1>1, <4>3, <5>1, MarkedLine, AddrPartIs
      <4> QED
        BY <4>4, <4>5
    <3> QED
      BY <2>1, <3>1
  <2>3. ASSUME "v6" \in guess PROVE "v4" \in guess /\ BothTypes
    BY <2>1, <2>3 DEF Mixed
  <2>4. ASSUME "v6" \in guess PROVE BothTypes'
    BY <1>1, <2>1, <2>2, <2>3, <2>4, BothTypesKept
  <2> QED
    BY <2>1, <2>3, <2>4 DEF Mixed
<1>6. CASE SplitFails \/ Skip6 \/ Start6 \/ TooManyBlocks6 \/ BadBlock6 \/ SecondDoubleColon
           \/ Block6 \/ EndBlocks6
  <2>1. pc' \in {"done", "blocks6"}
    BY <1>6 DEF SplitFails, Skip6, Start6, TooManyBlocks6, BadBlock6, SecondDoubleColon,
                Block6, EndBlocks6, Done6
  <2> QED
    BY <2>1 DEF Mixed
<1> QED
  BY <1>2, <1>3, <1>4, <1>5, <1>6 DEF ParseNext

-----------------------------------------------------------------------------
(***************************************************************************)
(* The loop over an IPv6 address: what it has read up to position q, when  *)
(* the double colon is at d, or d is 0 and there was none.                 *)
(***************************************************************************)
\* A block of an address.
HexBlock(w) == w.hex \in 0..DOUBLE_OCTET_MAX

\* Blocks and colons take turns, but for the double colon.
Blocks6(a, q, d) ==
  /\ \A i \in 1..q : a[i] = COLON \/ HexBlock(a[i])
  /\ \A i \in 2..q : COLON \in {a[i - 1], a[i]}
  /\ \A i \in 1..q - 1 : a[i] = COLON /\ a[i + 1] = COLON <=> i = d
  /\ d = 0 \/ d + 1 <= q

\* Where the block at position i is kept.
Idx(b, a, d, i) ==
  IF d = 0 \/ i < d THEN Count(a, COLON, 1, i) ELSE b.left + Count(a, COLON, d + 2, i)

\* The buffer holds the blocks up to position q, and zero elsewhere; the last
\* one is open if no colon has ended it.
Buffered6(b, a, q, d, open) ==
  /\ b.on_right <=> d > 0
  /\ b.left = IF d = 0 THEN Count(a, COLON, 1, q) + open ELSE Count(a, COLON, 1, d)
  /\ b.right = IF d = 0 THEN 0 ELSE Count(a, COLON, d + 2, q) + open
  /\ \A i \in 1..q : a[i] # COLON =>
       Idx(b, a, d, i) < b.num /\ b.blocks[Idx(b, a, d, i)] = a[i].hex
  /\ \A k \in 0..b.num - 1 :
       (\A i \in 1..q : a[i] # COLON => Idx(b, a, d, i) # k) => b.blocks[k] = 0

\* The next token is a block, a colon, or the second one of a double colon.
LEMMA NextBlock ==
  ASSUME NEW a, NEW q \in Nat, NEW d \in Nat, Blocks6(a, q, d),
         HexBlock(a[q + 1]), a[q + 1] # COLON, q > 0 => a[q] = COLON
  PROVE  Blocks6(a, q + 1, d)
<1>1. \A i \in 1..q + 1 : i \in 1..q \/ i = q + 1
  OBVIOUS
<1>2. \A i \in 2..q + 1 : i \in 2..q \/ (i = q + 1 /\ i - 1 = q /\ q > 0)
  OBVIOUS
<1>3. \A i \in 1..q + 1 - 1 : i \in 1..q - 1 \/ i = q
  OBVIOUS
<1>4. d # q \/ d = 0
  BY DEF Blocks6
<1> QED
  BY <1>1, <1>2, <1>3, <1>4 DEF Blocks6

LEMMA NextColon ==
  ASSUME NEW a, NEW q \in Nat, NEW d \in Nat, Blocks6(a, q, d),
         a[q + 1] = COLON, q > 0 => a[q] # COLON
  PROVE  Blocks6(a, q + 1, d)
<1>1. \A i \in 1..q + 1 : i \in 1..q \/ i = q + 1
  OBVIOUS
<1>2. \A i \in 2..q + 1 : i \in 2..q \/ i = q + 1
  OBVIOUS
<1>3. \A i \in 1..q + 1 - 1 : i \in 1..q - 1 \/ (i = q /\ q > 0)
  OBVIOUS
<1>4. d # q \/ d = 0
  BY DEF Blocks6
<1> QED
  BY <1>1, <1>2, <1>3, <1>4 DEF Blocks6

LEMMA NextDouble ==
  ASSUME NEW a, NEW q \in Nat, q > 0, Blocks6(a, q, 0), a[q] = COLON, a[q + 1] = COLON
  PROVE  Blocks6(a, q + 1, q)
<1>1. \A i \in 1..q + 1 : i \in 1..q \/ i = q + 1
  OBVIOUS
<1>2. \A i \in 2..q + 1 : i \in 2..q \/ i = q + 1
  OBVIOUS
<1>3. \A i \in 1..q + 1 - 1 : (i \in 1..q - 1 /\ i # 0 /\ i # q) \/ i = q
  OBVIOUS
<1> QED
  BY <1>1, <1>2, <1>3 DEF Blocks6

\* The whole address has at most one double colon then.
LEMMA DoubleColonsAre ==
  ASSUME NEW a \in Seq(Token), NEW d \in Nat, Blocks6(a, Len(a), d)
  PROVE  DoubleColons(a) = IF d = 0 THEN {} ELSE {d}
<1>1. Len(a) \in Nat
  BY LenProperties
<1>2. \A i \in 1..Len(a) - 1 : a[i] = COLON /\ a[i + 1] = COLON <=> i = d
  BY DEF Blocks6
<1>3. d = 0 \/ d \in 1..Len(a) - 1
  BY <1>1 DEF Blocks6
<1> QED
  BY <1>2, <1>3 DEF DoubleColons

\* parse_ip6_data_append()
LEMMA Append6Is ==
  ASSUME NEW b, IsBuf6(b), b.num < NB6, NEW v
  PROVE  LET c == Append6(b, v) IN
         /\ b.num \in Nat /\ b.left \in Nat /\ b.right \in Nat /\ b.num = b.left + b.right
         /\ c.num = b.num + 1 /\ c.on_right = b.on_right
         /\ c.left = IF b.on_right THEN b.left ELSE b.left + 1
         /\ c.right = IF b.on_right THEN b.right + 1 ELSE b.right
         /\ c.blocks[b.num] = v
         /\ \A k \in 0..b.num - 1 : c.blocks[k] = b.blocks[k]
<1>1. PICK V : b \in Buf6(V)
  BY DEF IsBuf6
<1>2. b.num \in 0..NB6 - 1 /\ b.blocks \in [0..NB6 - 1 -> V] /\ b.num = b.left + b.right
  BY <1>1, Blocks DEF Buf6, IsBuf6, Fits6
<1>3. \A k \in 0..b.num - 1 : k \in 0..NB6 - 1 /\ k # b.num
  BY <1>2, Blocks
<1> QED
  BY <1>1, <1>2, <1>3, Blocks DEF Buf6, Append6

\* A block that is read is the last one in the buffer.
LEMMA BufferBlock ==
  ASSUME NEW a, NEW q \in Nat, NEW d \in Nat, d = 0 \/ d + 1 <= q,
         NEW b, IsBuf6(b), b.num < NB6, Buffered6(b, a, q, d, 0), a[q + 1] # COLON
  PROVE  Buffered6(Append6(b, a[q + 1].hex), a, q + 1, d, 1)
<1> DEFINE c == Append6(b, a[q + 1].hex)
<1>1. /\ b.num \in Nat /\ b.left \in Nat /\ b.right \in Nat /\ b.num = b.left + b.right
      /\ c.num = b.num + 1 /\ c.on_right = b.on_right
      /\ c.left = IF b.on_right THEN b.left ELSE b.left + 1
      /\ c.right = IF b.on_right THEN b.right + 1 ELSE b.right
      /\ c.blocks[b.num] = a[q + 1].hex
      /\ \A k \in 0..b.num - 1 : c.blocks[k] = b.blocks[k]
  BY Append6Is
<1> HIDE DEF c
<1>2. /\ Count(a, COLON, 1, q) \in Nat /\ Count(a, COLON, 1, q + 1) = Count(a, COLON, 1, q)
  <2>1. 1 \in Int /\ q \in Int /\ q + 1 \in Int /\ 1 <= q + 1 /\ q + 1 - 1 = q
    OBVIOUS
  <2>2. Count(a, COLON, 1, q) \in Nat
    BY <2>1, CountNat
  <2>3. Count(a, COLON, 1, q + 1)
          = Count(a, COLON, 1, q + 1 - 1) + IF a[q + 1] = COLON THEN 1 ELSE 0
    BY <2>1, CountNext
  <2> QED
    BY <2>1, <2>2, <2>3
<1>3. d > 0 => /\ Count(a, COLON, d + 2, q) \in Nat
               /\ Count(a, COLON, d + 2, q + 1) = Count(a, COLON, d + 2, q)
  <2> SUFFICES ASSUME d > 0
               PROVE  /\ Count(a, COLON, d + 2, q) \in Nat
                      /\ Count(a, COLON, d + 2, q + 1) = Count(a, COLON, d + 2, q)
    OBVIOUS
  <2>1. d + 2 \in Int /\ q \in Int /\ q + 1 \in Int /\ d + 2 <= q + 1 /\ q + 1 - 1 = q
    OBVIOUS
  <2>2. Count(a, COLON, d + 2, q) \in Nat
    BY <2>1, CountNat
  <2>3. Count(a, COLON, d + 2, q + 1)
          = Count(a, COLON, d + 2, q + 1 - 1) + IF a[q + 1] = COLON THEN 1 ELSE 0
    BY <2>1, CountNext
  <2> QED
    BY <2>1, <2>2, <2>3
<1>4. \A i : Idx(c, a, d, i) = Idx(b, a, d, i)
  BY <1>1 DEF Buffered6, Idx
<1>5. Idx(b, a, d, q + 1) = b.num
  BY <1>1, <1>2, <1>3 DEF Buffered6, Idx
<1>6. ASSUME NEW i \in 1..q, a[i] # COLON PROVE Idx(b, a, d, i) \in 0..b.num - 1
  <2>1. Idx(b, a, d, i) < b.num
    BY <1>6 DEF Buffered6
  <2>2. Idx(b, a, d, i) \in Nat
    <3>1. Count(a, COLON, 1, i) \in Nat /\ Count(a, COLON, d + 2, i) \in Nat
      <4>1. i \in Int /\ 1 \in Int /\ d + 2 \in Int
        OBVIOUS
      <4>2. Count(a, COLON, 1, i) \in Nat
        BY <4>1, CountNat
      <4>3. Count(a, COLON, d + 2, i) \in Nat
        BY <4>1, CountNat
      <4> QED
        BY <4>2, <4>3
    <3> QED
      BY <1>1, <3>1 DEF Idx
  <2> QED
    BY <1>1, <2>1, <2>2
<1>7. \A i \in 1..q + 1 : i \in 1..q \/ i = q + 1
  OBVIOUS
<1>8. \A i \in 1..q + 1 : a[i] # COLON =>
        Idx(c, a, d, i) < c.num /\ c.blocks[Idx(c, a, d, i)] = a[i].hex
  <2> TAKE i \in 1..q + 1
  <2> HAVE a[i] # COLON
  <2>1. CASE i = q + 1
    BY <1>1, <1>4, <1>5, <2>1
  <2>2. CASE i \in 1..q
    <3>1. Idx(b, a, d, i) \in 0..b.num - 1
      BY <1>6, <2>2
    <3>2. b.blocks[Idx(b, a, d, i)] = a[i].hex
      BY <2>2 DEF Buffered6
    <3> QED
      BY <1>1, <1>4, <3>1, <3>2
  <2> QED
    BY <1>7, <2>1, <2>2
<1>9. ASSUME NEW k \in 0..c.num - 1,
             \A i \in 1..q + 1 : a[i] # COLON => Idx(c, a, d, i) # k
      PROVE  c.blocks[k] = 0
  <2>1. k # b.num
    BY <1>4, <1>5, <1>9
  <2>2. k \in 0..b.num - 1
    BY <1>1, <2>1
  <2>3. \A i \in 1..q : a[i] # COLON => Idx(b, a, d, i) # k
    BY <1>4, <1>9
  <2> QED
    BY <1>1, <2>2, <2>3 DEF Buffered6
<1>10. /\ c.on_right <=> d > 0
       /\ c.left = IF d = 0 THEN Count(a, COLON, 1, q + 1) + 1 ELSE Count(a, COLON, 1, d)
       /\ c.right = IF d = 0 THEN 0 ELSE Count(a, COLON, d + 2, q + 1) + 1
  <2>1. CASE d = 0
    BY <1>1, <1>2, <2>1 DEF Buffered6
  <2>2. CASE d > 0
    BY <1>1, <1>3, <2>2 DEF Buffered6
  <2> QED
    BY <2>1, <2>2
<1> QED
  BY <1>8, <1>9, <1>10 DEF Buffered6, c

\* An empty block before the first colon.
LEMMA BufferEmpty ==
  ASSUME NEW a, a[1] = COLON, NEW b, IsBuf6(b), b.num < NB6, Buffered6(b, a, 0, 0, 0)
  PROVE  Buffered6(Append6(b, 0), a, 1, 0, 0)
<1> DEFINE c == Append6(b, 0)
<1>1. /\ b.num \in Nat /\ b.left \in Nat /\ b.right \in Nat /\ b.num = b.left + b.right
      /\ c.num = b.num + 1 /\ c.on_right = b.on_right
      /\ c.left = IF b.on_right THEN b.left ELSE b.left + 1
      /\ c.right = IF b.on_right THEN b.right + 1 ELSE b.right
      /\ c.blocks[b.num] = 0
  BY Append6Is
<1>2. Count(a, COLON, 1, 0) = 0 /\ Count(a, COLON, 1, 1) = 1
  <2>1. 1 \in Int /\ 0 \in Int /\ 0 < 1
    OBVIOUS
  <2>2. Count(a, COLON, 1, 0) = 0
    BY <2>1, CountNat
  <2>3. Count(a, COLON, 1, 1) = 1
    BY <2>1, CountOne
  <2> QED
    BY <2>2, <2>3
<1>3. b.left = 0 /\ b.right = 0 /\ b.num = 0 /\ ~b.on_right
  BY <1>1, <1>2 DEF Buffered6
<1> HIDE DEF c
<1>4. \A i \in 1..1 : i = 1
  OBVIOUS
<1>5. \A k \in 0..c.num - 1 : k = b.num
  BY <1>1, <1>3
<1>6. c.left = 1 /\ c.right = 0 /\ ~c.on_right
  BY <1>1, <1>3
<1> QED
  BY <1>1, <1>2, <1>4, <1>5, <1>6 DEF Buffered6, c

\* A colon ends the last block.
LEMMA BufferColon ==
  ASSUME NEW a, NEW q \in Nat, NEW d \in Nat, d = 0 \/ d + 1 <= q,
         NEW b, Buffered6(b, a, q, d, 1), a[q + 1] = COLON
  PROVE  Buffered6(b, a, q + 1, d, 0)
<1>1. Count(a, COLON, 1, q) \in Nat /\ Count(a, COLON, 1, q + 1) = Count(a, COLON, 1, q) + 1
  <2>1. 1 \in Int /\ q \in Int /\ q + 1 \in Int /\ 1 <= q + 1 /\ q + 1 - 1 = q
    OBVIOUS
  <2>2. Count(a, COLON, 1, q) \in Nat
    BY <2>1, CountNat
  <2>3. Count(a, COLON, 1, q + 1)
          = Count(a, COLON, 1, q + 1 - 1) + IF a[q + 1] = COLON THEN 1 ELSE 0
    BY <2>1, CountNext
  <2> QED
    BY <2>1, <2>2, <2>3
<1>2. d > 0 => /\ Count(a, COLON, d + 2, q) \in Nat
               /\ Count(a, COLON, d + 2, q + 1) = Count(a, COLON, d + 2, q) + 1
  <2> SUFFICES ASSUME d > 0
               PROVE  /\ Count(a, COLON, d + 2, q) \in Nat
                      /\ Count(a, COLON, d + 2, q + 1) = Count(a, COLON, d + 2, q) + 1
    OBVIOUS
  <2>1. d + 2 \in Int /\ q \in Int /\ q + 1 \in Int /\ d + 2 <= q + 1 /\ q + 1 - 1 = q
    OBVIOUS
  <2>2. Count(a, COLON, d + 2, q) \in Nat
    BY <2>1, CountNat
  <2>3. Count(a, COLON, d + 2, q + 1)
          = Count(a, COLON, d + 2, q + 1 - 1) + IF a[q + 1] = COLON THEN 1 ELSE 0
    BY <2>1, CountNext
  <2> QED
    BY <2>1, <2>2, <2>3
<1>3. \A i \in 1..q + 1 : a[i] # COLON => i \in 1..q
  OBVIOUS
<1>4. \A i \in 1..q : i \in 1..q + 1
  OBVIOUS
<1>5. /\ b.left = IF d = 0 THEN Count(a, COLON, 1, q + 1) + 0 ELSE Count(a, COLON, 1, d)
      /\ b.right = IF d = 0 THEN 0 ELSE Count(a, COLON, d + 2, q + 1) + 0
  <2>1. CASE d = 0
    BY <1>1, <2>1 DEF Buffered6
  <2>2. CASE d > 0
    BY <1>2, <2>2 DEF Buffered6
  <2> QED
    BY <2>1, <2>2
<1>6. \A i \in 1..q + 1 : a[i] # COLON =>
        Idx(b, a, d, i) < b.num /\ b.blocks[Idx(b, a, d, i)] = a[i].hex
  BY <1>3 DEF Buffered6
<1>7. \A k \in 0..b.num - 1 :
        (\A i \in 1..q + 1 : a[i] # COLON => Idx(b, a, d, i) # k) => b.blocks[k] = 0
  BY <1>4 DEF Buffered6
<1> QED
  BY <1>5, <1>6, <1>7 DEF Buffered6

\* After a double colon the blocks are the right ones.
LEMMA BufferDouble ==
  ASSUME NEW a, NEW q \in Nat, q > 0, a[q] = COLON, a[q + 1] = COLON,
         NEW b, NEW c, Buffered6(b, a, q, 0, 0), Count(a, COLON, 1, q) \in Nat,
         c.left = b.left, c.right = b.right, c.num = b.num, c.blocks = b.blocks, c.on_right
  PROVE  Buffered6(c, a, q + 1, q, 0)
<1>1. Count(a, COLON, q + 2, q + 1) = 0
  <2>1. q + 2 \in Int /\ q + 1 \in Int /\ q + 1 < q + 2
    OBVIOUS
  <2> QED
    BY <2>1, CountNat
<1>2. \A i \in 1..q + 1 : a[i] # COLON => i \in 1..q /\ i < q
  OBVIOUS
<1>3. \A i \in 1..q : i \in 1..q + 1
  OBVIOUS
<1>4. \A i : i < q => Idx(c, a, q, i) = Idx(b, a, 0, i)
  BY DEF Idx
<1>5. \A i \in 1..q + 1 : a[i] # COLON =>
        Idx(c, a, q, i) < c.num /\ c.blocks[Idx(c, a, q, i)] = a[i].hex
  BY <1>2, <1>4 DEF Buffered6
<1>6. ASSUME NEW k \in 0..c.num - 1,
             \A i \in 1..q + 1 : a[i] # COLON => Idx(c, a, q, i) # k
      PROVE  c.blocks[k] = 0
  <2>1. \A i \in 1..q : a[i] # COLON => Idx(b, a, 0, i) # k
    BY <1>2, <1>3, <1>4, <1>6
  <2> QED
    BY <2>1 DEF Buffered6
<1>7. c.left = Count(a, COLON, 1, q) /\ c.right = 0
  BY DEF Buffered6
<1> QED
  BY <1>1, <1>5, <1>6, <1>7 DEF Buffered6

\* The parser has come to the end of the address, or to position rem of it.
Read6 == IF rem = 0 THEN AddrLen(text) ELSE rem - 1

\* What is read is in the buffer; what follows is still the text.
Parsed6(d) ==
  LET a == AddrPart(text)
      n == AddrLen(text) IN
  /\ n >= 1 /\ a[1].scan # "0x"
  /\ rem = 0 => a[n] # COLON
  /\ rem # 0 =>
       /\ rem \in 1..n + 1
       /\ rem > 1 => a[rem - 1] = COLON
       /\ rem > 1 /\ rem <= n => a[rem] # COLON
       /\ rem = n + 1 => d > 0 /\ d + 1 = n
       /\ \A i \in rem..n : line[i] = a[i]
  /\ Blocks6(a, Read6, d)
  /\ Buffered6(buf6, a, Read6, d, IF rem = 0 THEN 1 ELSE 0)

\* Of a line with a slash in it the first block is not read.
Loop6 ==
  pc = "blocks6" =>
    \/ \E d \in Nat : Parsed6(d)
    \/ Slashed /\ rem = 1

LEMMA AddrIs ==
  ASSUME CutUp
  PROVE  LET a == AddrPart(text)
             n == AddrLen(text) IN
         /\ text \in Seq(Token) /\ a \in Seq(Token) /\ Len(a) = n /\ DOMAIN a = 1..n
         /\ n \in 0..Len(text) /\ n \in Nat /\ Len(text) \in Nat
         /\ \A i \in 1..n : /\ a[i] = text[i] /\ a[i] \in Token /\ a[i] # NUL
                            /\ a[i].hex \in Nat \union {BAD}
                            /\ HexBlock(a[i]) => a[i] # COLON
         /\ a # << >> <=> n >= 1
<1>1. text \in Seq(Token)
  BY DEF CutUp
<1> DEFINE a == AddrPart(text)
           n == AddrLen(text)
<1>2. /\ a \in Seq(Token) /\ Len(a) = n /\ n \in 0..Len(text) /\ Len(text) \in Nat
      /\ \A i \in 1..n : a[i] = text[i] /\ text[i] \in Token
  BY <1>1, AddrPartIs
<1> HIDE DEF a, n
<1>3. \A i \in 1..n : a[i] = text[i] /\ a[i] \in Token
  BY <1>2
<1>4. \A w \in Token : w # NUL /\ w.hex \in Nat \union {BAD} /\ (HexBlock(w) => w # COLON)
  BY TokenIs DEF HexBlock, BAD
<1>5. DOMAIN a = 1..n /\ (a # << >> <=> n # 0)
  BY <1>2, LenProperties, EmptySeq
<1> QED
  BY <1>1, <1>2, <1>3, <1>4, <1>5 DEF a, n

\* What one round of the loop sees.
LEMMA Reading6 ==
  ASSUME CutUp, Parsing, NEW a, a = AddrPart(text), NEW n, n = AddrLen(text),
         rem \in 1..n, \A i \in rem..n : line[i] = a[i]
  PROVE  LET e == BlockEnd(COLON)
             v == ReadNumber(Marked(COLON), rem, 16, DOUBLE_OCTET_MAX) IN
         /\ \/ e = 0 /\ \A i \in rem..n : a[i] # COLON
            \/ e \in rem..n /\ a[e] = COLON /\ \A i \in rem..e - 1 : a[i] # COLON
         /\ e # rem => v = IF (n = rem \/ e = rem + 1) /\ HexBlock(a[rem]) THEN a[rem].hex ELSE BAD
         /\ DoubleColon <=> e # 0 /\ e < n /\ a[e + 1] = COLON
         /\ BlockIsBad6 <=> \/ e # 0 /\ e = n
                            \/ DoubleColon /\ e + 2 <= n /\ a[e + 2] = COLON
                            \/ e # rem /\ v = BAD
<1> DEFINE e == BlockEnd(COLON)
           M == Marked(COLON)
           v == ReadNumber(M, rem, 16, DOUBLE_OCTET_MAX)
<1>1. /\ text \in Seq(Token) /\ line \in Seq(Char) /\ Len(line) = Len(text) /\ At(line, n + 1) = NUL
  BY DEF CutUp, Parsing
<1>2. /\ n \in 0..Len(text) /\ n \in Nat /\ Len(text) \in Nat
      /\ \A i \in 1..n : a[i] # NUL /\ a[i].hex \in Nat \union {BAD}
  BY AddrIs
<1>3. COLON # NUL
  BY DEF COLON, NUL
<1>4. \/ e = 0 /\ \A i \in rem..n : a[i] # COLON
      \/ e \in rem..n /\ a[e] = COLON /\ \A i \in rem..e - 1 : a[i] # COLON
  <2>1. \A i \in rem..n : line[i] # NUL
    BY <1>2
  <2>2. n <= Len(line) /\ n \in Nat /\ rem \in 1..n + 1
    BY <1>1, <1>2
  <2> HIDE DEF e
  <2>3. \/ e = 0 /\ \A j \in rem..n : (\A m \in rem..j : line[m] # NUL) => line[j] # COLON
        \/ e \in rem..n /\ line[e] = COLON /\ \A i \in rem..e - 1 : line[i] # COLON
    BY <1>1, <2>2, StrchrIs DEF e, BlockEnd
  <2>4. \A j \in rem..n : \A m \in rem..j : line[m] # NUL
    BY <2>1, <2>2
  <2> QED
    BY <1>2, <2>3, <2>4
<1>5. e # rem => /\ At(M, rem) = a[rem] /\ At(M, rem) # NUL
                 /\ At(M, rem + 1) = NUL <=> n = rem \/ e = rem + 1
  <2>0. M = IF e = 0 THEN line ELSE [line EXCEPT ![e] = NUL]
    BY DEF Marked
  <2> HIDE DEF e, M
  <2>1. CASE e = 0
    BY <1>1, <1>2, <1>4, <2>0, <2>1 DEF At
  <2>2. CASE e # 0
    <3>1. e \in 1..Len(line) /\ e \in rem..n
      BY <1>1, <1>2, <1>4, <2>2
    <3>2. /\ M \in Seq(Char) /\ Len(M) = Len(line)
          /\ \A j \in 1..Len(line) : M[j] = IF j = e THEN NUL ELSE line[j]
      BY <1>1, <2>0, <2>2, <3>1, MarkedLine
    <3>3. e # rem => M[rem] = a[rem] /\ a[rem] # NUL /\ rem <= Len(M)
      BY <1>1, <1>2, <3>1, <3>2
    <3>4. e # rem => rem + 1 \in 1..Len(M) /\ rem # n
      BY <1>1, <1>2, <3>1, <3>2
    <3>5. ASSUME e # rem, e # rem + 1 PROVE M[rem + 1] # NUL
      <4>1. rem + 1 \in rem..n
        BY <1>2, <3>4, <3>5
      <4>2. M[rem + 1] = a[rem + 1]
        BY <3>2, <3>4, <3>5, <4>1
      <4> QED
        BY <1>2, <4>1, <4>2
    <3>6. e = rem + 1 => M[rem + 1] = NUL
      BY <3>1, <3>2
    <3> QED
      BY <3>3, <3>4, <3>5, <3>6 DEF At
  <2> QED
    BY <2>1, <2>2
<1>6. e # rem => v = IF (n = rem \/ e = rem + 1) /\ HexBlock(a[rem]) THEN a[rem].hex ELSE BAD
  <2>1. a[rem].hex \in Nat \union {BAD}
    BY <1>2
  <2> DEFINE w == a[rem]
             x == IF At(M, rem + 1) # NUL THEN BAD ELSE w.hex
  <2>2. e # rem => v = IF x <= DOUBLE_OCTET_MAX THEN x ELSE BAD
    <3> HIDE DEF M, e
    <3> QED
      BY <1>5 DEF ReadNumber
  <2>3. DOUBLE_OCTET_MAX \in Nat
    BY DEF DOUBLE_OCTET_MAX
  <2> HIDE DEF M, e, v
  <2> QED
    BY <1>5, <2>1, <2>2, <2>3 DEF HexBlock, BAD
<1>7. e # 0 => /\ Following(COLON) = (IF e < n THEN a[e + 1] ELSE NUL)
               /\ e < n => Following(COLON) # NUL
  <2> HIDE DEF e
  <2> QED
    BY <1>1, <1>2, <1>4 DEF Following, At, e
<1>8. DoubleColon <=> e # 0 /\ e < n /\ a[e + 1] = COLON
  <2> HIDE DEF e
  <2> QED
    BY <1>2, <1>3, <1>4, <1>7 DEF DoubleColon, e
<1>9. DoubleColon => At(line, e + 2) = IF e + 2 <= n THEN a[e + 2] ELSE NUL
  <2> HIDE DEF e
  <2> QED
    BY <1>1, <1>2, <1>4, <1>8 DEF At
<1>10. e # 0 => (Following(COLON) = NUL <=> e = n)
  <2> HIDE DEF e
  <2> QED
    BY <1>2, <1>4, <1>7
<1>11. BlockIsBad6 <=> \/ e # 0 /\ Following(COLON) = NUL
                       \/ DoubleColon /\ At(line, e + 2) = COLON
                       \/ e # rem /\ v = BAD
  BY DEF BlockIsBad6
<1> HIDE DEF e, v, M
<1>12. BlockIsBad6 <=> \/ e # 0 /\ e = n
                       \/ DoubleColon /\ e + 2 <= n /\ a[e + 2] = COLON
                       \/ e # rem /\ v = BAD
  BY <1>3, <1>9, <1>10, <1>11
<1> QED
  BY <1>4, <1>6, <1>8, <1>12 DEF e, v, M

\* The first block of a line that has more than digits before its slash.
LEMMA SlashedIsBad ==
  ASSUME CutUp, Parsing, Slashed, rem = 1
  PROVE  BlockIsBad6 /\ MoreBlocks /\ ~IsText6(AddrPart(text))
<1> DEFINE a == AddrPart(text)
           n == AddrLen(text)
           e == BlockEnd(COLON)
           M == Marked(COLON)
<1>1. PICK i \in 2..n : /\ text[i] = SLASH /\ Intact(i)
                        /\ \A j \in 1..i - 1 : text[j].scan = "digits"
  BY DEF Slashed
<1>2. line \in Seq(Char) /\ Len(line) = Len(text) /\ At(line, n + 1) = NUL
  BY DEF CutUp
<1>3. /\ n \in 0..Len(text) /\ n \in Nat /\ Len(text) \in Nat /\ DOMAIN a = 1..n
      /\ \A j \in 1..n : a[j] = text[j] /\ a[j] # NUL
  BY AddrIs
<1>4. /\ ~HexBlock(SLASH) /\ SLASH # COLON
      /\ \A w : w.scan = "digits" => w # COLON
  BY DEF HexBlock, SLASH, COLON, BAD
<1> HIDE DEF a, n
<1>5. ~IsText6(a)
  <2>1. i \in DOMAIN a /\ a[i] = SLASH
    BY <1>1, <1>3
  <2> QED
    BY <1>4, <2>1 DEF IsText6, HexBlock
<1>6. /\ line[1] = text[1] /\ line[2] = text[2] /\ 1 <= n /\ 2 <= n
      /\ line[1] # COLON /\ line[2] # COLON /\ line[1] # NUL /\ line[2] # NUL
  <2>1. 1 \in 1..i /\ 2 \in 1..i /\ 1 \in 1..n /\ 2 \in 1..n /\ 1 \in 1..i - 1
        /\ (2 = i \/ 2 \in 1..i - 1)
    BY <1>1, <1>3
  <2> QED
    BY <1>1, <1>3, <1>4, <2>1 DEF Intact
<1>7. e = 0 \/ (e \in 1..n /\ line[e] = COLON)
  <2>1. n <= Len(line) /\ rem \in 1..n + 1
    BY <1>2, <1>3
  <2> HIDE DEF e
  <2>2. e = 0 \/ (e \in rem..n /\ line[e] = COLON)
    BY <1>2, <1>3, <2>1, StrchrIs DEF e, BlockEnd
  <2> QED
    BY <2>2
<1>8. At(M, 1) # NUL /\ At(M, 2) # NUL
  <2>0. M = IF e = 0 THEN line ELSE [line EXCEPT ![e] = NUL]
    BY DEF Marked
  <2> HIDE DEF e, M
  <2>1. CASE e = 0
    BY <1>2, <1>3, <1>6, <2>0, <2>1 DEF At
  <2>2. CASE e # 0
    <3>1. e \in 1..Len(line) /\ e # 1 /\ e # 2
      BY <1>2, <1>3, <1>6, <1>7, <2>2
    <3>2. /\ Len(M) = Len(line)
          /\ \A j \in 1..Len(line) : M[j] = IF j = e THEN NUL ELSE line[j]
      BY <1>2, <2>0, <2>2, <3>1, MarkedLine
    <3> QED
      BY <1>2, <1>3, <1>6, <3>1, <3>2 DEF At
  <2> QED
    BY <2>1, <2>2
<1>9. ReadNumber(M, rem, 16, DOUBLE_OCTET_MAX) = BAD
  <2> HIDE DEF M
  <2> QED
    BY <1>8 DEF ReadNumber, BAD
<1>10. e # rem
  BY <1>6, <1>7
<1>11. BlockIsBad6
  BY <1>9, <1>10 DEF BlockIsBad6
<1>12. MoreBlocks
  BY <1>2, <1>3, <1>6 DEF MoreBlocks, At
<1> QED
  BY <1>5, <1>11, <1>12 DEF a

\* The loop goes on until the end of the address.
LEMMA More6 ==
  ASSUME CutUp, Parsing, NEW d \in Nat, Parsed6(d)
  PROVE  MoreBlocks <=> rem # 0 /\ rem <= AddrLen(text)
<1> DEFINE a == AddrPart(text)
           n == AddrLen(text)
<1>1. /\ line \in Seq(Char) /\ Len(line) = Len(text) /\ At(line, n + 1) = NUL
  BY DEF CutUp
<1>2. n \in 0..Len(text) /\ Len(text) \in Nat /\ \A i \in 1..n : a[i] # NUL
  BY AddrIs
<1>3. rem # 0 => rem \in 1..n + 1 /\ \A i \in rem..n : line[i] = a[i]
  BY DEF Parsed6
<1> HIDE DEF n, a
<1>4. CASE rem = 0
  BY <1>4 DEF MoreBlocks
<1>5. CASE rem # 0 /\ rem <= n
  BY <1>1, <1>2, <1>3, <1>5 DEF MoreBlocks, At, n
<1>6. CASE rem # 0 /\ ~(rem <= n)
  <2>1. rem = n + 1
    BY <1>2, <1>3, <1>6
  <2> QED
    BY <1>1, <1>6, <2>1 DEF MoreBlocks, n
<1> QED
  BY <1>4, <1>5, <1>6

\* Before the IPv6 parser's first block, nothing of the address is marked but
\* in a line with a slash in it.
LEMMA Start6Sees ==
  ASSUME CutUp, Mixed, pc = "v6", "v6" \in guess
  PROVE  LET a == AddrPart(text)
             n == AddrLen(text) IN
         /\ n = 0 => At(line, 1) = NUL
         /\ n >= 1 => At(line, 1) = a[1] /\ line[1] = a[1]
         /\ Slashed \/ (n >= 1 /\ a[1].scan = "0x") \/ Intact(n)
<1> DEFINE a == AddrPart(text)
           n == AddrLen(text)
<1>1. line \in Seq(Char) /\ Len(line) = Len(text) /\ At(line, n + 1) = NUL
  BY DEF CutUp, Parsing
<1>2. n \in 0..Len(text) /\ n \in Nat /\ Len(text) \in Nat /\ \A i \in 1..n : a[i] = text[i]
  BY AddrIs
<1>3. Slashed \/ Prefixed \/ Intact(n)
  BY DEF Mixed, BothTypes, AllDigits
<1> HIDE DEF a, n
<1>4. n >= 1 => line[1] = a[1]
  <2>1. ASSUME n >= 1, NEW i \in 1..n, Intact(i) PROVE line[1] = a[1]
    BY <1>2, <2>1 DEF Intact
  <2>2. CASE Slashed
    <3>1. PICK i \in 2..n : Intact(i)
      BY <2>2 DEF Slashed, n
    <3>2. i \in 1..n
      BY <1>2
    <3> QED
      BY <1>2, <2>1, <3>1, <3>2
  <2>3. CASE Prefixed
    BY <1>2, <2>1, <2>3 DEF Prefixed
  <2>4. CASE Intact(n)
    BY <1>2, <2>1, <2>4
  <2> QED
    BY <1>3, <2>2, <2>3, <2>4
<1>5. n >= 1 => At(line, 1) = line[1]
  BY <1>1, <1>2 DEF At
<1>6. Prefixed => n >= 1 /\ a[1].scan = "0x"
  BY <1>2 DEF Prefixed, n
<1> QED
  BY <1>1, <1>3, <1>4, <1>5, <1>6 DEF a, n

\* The buffer is empty, and nothing has been read.
LEMMA Start6Loop ==
  ASSUME CutUp, Mixed, Start6, pc' = "blocks6"
  PROVE  Loop6'
<1> DEFINE a == AddrPart(text)
           n == AddrLen(text)
           z == parse_ip6_data_init
<1>1. /\ pc = "v6" /\ "v6" \in guess /\ At(line, 1) # NUL /\ line[1].scan # "0x"
      /\ rem' = 1 /\ line' = line /\ text' = text /\ buf6' = z
  BY DEF Start6, Done6
<1>2. /\ n = 0 => At(line, 1) = NUL
      /\ n >= 1 => line[1] = a[1]
      /\ Slashed \/ (n >= 1 /\ a[1].scan = "0x") \/ Intact(n)
  BY <1>1, Start6Sees
<1>3. n \in Nat /\ \A i \in 1..n : a[i] = text[i]
  BY AddrIs
<1>4. n >= 1 /\ a[1].scan # "0x"
  BY <1>1, <1>2, <1>3
<1>5. CASE Slashed
  <2>1. Slashed'
    BY <1>1, <1>5 DEF Slashed, Intact
  <2> QED
    BY <1>1, <2>1 DEF Loop6
<1>6. CASE Intact(n)
  <2>1. Blocks6(a, 0, 0)
    BY DEF Blocks6
  <2>2. z.left = 0 /\ z.right = 0 /\ z.num = 0 /\ ~z.on_right
    BY DEF parse_ip6_data_init
  <2>3. Count(a, COLON, 1, 0) = 0
    <3>1. 1 \in Int /\ 0 \in Int /\ 0 < 1
      OBVIOUS
    <3> QED
      BY <3>1, CountNat
  <2>4. Buffered6(z, a, 0, 0, 0)
    <3> HIDE DEF z
    <3> QED
      BY <2>2, <2>3 DEF Buffered6
  <2>5. \A i \in 1..n : line[i] = a[i]
    BY <1>3, <1>6 DEF Intact
  <2>6. Read6' = 0 /\ (IF rem' = 0 THEN 1 ELSE 0) = 0
    BY <1>1 DEF Read6
  <2> HIDE DEF z
  <2>7. /\ rem' # 0 /\ rem' \in 1..n + 1 /\ ~(rem' > 1) /\ rem' # n + 1
        /\ \A i \in rem'..n : line'[i] = a[i]
    BY <1>1, <1>3, <1>4, <2>5
  <2>8. Parsed6(0)'
    BY <1>1, <1>4, <2>1, <2>4, <2>6, <2>7 DEF Parsed6, a, n
  <2> QED
    BY <2>8 DEF Loop6
<1> QED
  BY <1>2, <1>4, <1>5, <1>6

\* An empty line, or one that starts with "0x", is no address.
LEMMA Start6Rejects ==
  ASSUME CutUp, Mixed, Start6, pc' # "blocks6"
  PROVE  ~IsText6(AddrPart(text))
<1> DEFINE a == AddrPart(text)
           n == AddrLen(text)
<1>1. pc = "v6" /\ "v6" \in guess /\ (At(line, 1) = NUL \/ line[1].scan = "0x")
  BY DEF Start6, Done6
<1>2. n >= 1 => At(line, 1) = a[1] /\ line[1] = a[1]
  BY <1>1, Start6Sees
<1>3. n \in Nat /\ (a # << >> <=> n >= 1) /\ \A i \in 1..n : a[i] # NUL
  BY AddrIs
<1> QED
  BY <1>1, <1>2, <1>3 DEF IsText6

\* parse_ip6_data_switch_to_right()
LEMMA SwitchIs ==
  ASSUME NEW b, IsBuf6(b), NEW v \in BOOLEAN
  PROVE  LET c == [b EXCEPT !.on_right = b.on_right \/ v] IN
         /\ c.left = b.left /\ c.right = b.right /\ c.num = b.num /\ c.blocks = b.blocks
         /\ c.on_right = (b.on_right \/ v)
<1>1. PICK V : b \in Buf6(V)
  BY DEF IsBuf6
<1> QED
  BY <1>1 DEF Buf6

LEMMA SameBuffer ==
  ASSUME NEW b, NEW c, NEW a, NEW q, NEW d, NEW open, Buffered6(b, a, q, d, open),
         c.left = b.left, c.right = b.right, c.num = b.num, c.blocks = b.blocks,
         c.on_right = b.on_right
  PROVE  Buffered6(c, a, q, d, open)
<1>1. \A i : Idx(c, a, d, i) = Idx(b, a, d, i)
  BY DEF Idx
<1> QED
  BY <1>1 DEF Buffered6

\* A round that goes on has read one block, and the colon that ends it.
LEMMA Round6 ==
  ASSUME CutUp, pc = "blocks6", NEW d \in Nat, Parsed6(d), MoreBlocks, ~BlockIsBad6,
         IsBuf6(buf6), buf6.num < NB6
  PROVE  LET a == AddrPart(text)
             n == AddrLen(text)
             e == BlockEnd(COLON) IN
         /\ rem \in 1..n
         /\ DoubleColon => e # 0 /\ e < n /\ a[e + 1] = COLON /\ (e + 2 <= n => a[e + 2] # COLON)
         /\ e = 0 => /\ Blocks6(a, n, d) /\ Buffered6(Block6Read, a, n, d, 1)
                     /\ a[n] # COLON /\ ~DoubleColon
         /\ e # 0 => /\ e \in rem..n - 1 /\ a[e] = COLON /\ (~DoubleColon => a[e + 1] # COLON)
                     /\ Blocks6(a, e, d) /\ Buffered6(Block6Read, a, e, d, 0)
<1> DEFINE a == AddrPart(text)
           n == AddrLen(text)
           e == BlockEnd(COLON)
           v == ReadNumber(Marked(COLON), rem, 16, DOUBLE_OCTET_MAX)
           q == rem - 1
<1>1. Parsing
  BY DEF Parsing
<1>2. n \in Nat /\ \A i \in 1..n : HexBlock(a[i]) => a[i] # COLON
  BY AddrIs
<1>3. rem # 0 /\ rem <= n
  BY <1>1, More6
<1>4. /\ rem \in 1..n /\ (rem > 1 => a[rem - 1] = COLON /\ a[rem] # COLON)
      /\ \A i \in rem..n : line[i] = a[i]
      /\ Blocks6(a, q, d) /\ Buffered6(buf6, a, q, d, 0)
  BY <1>2, <1>3 DEF Parsed6, Read6
<1>5. /\ \/ e = 0 /\ \A i \in rem..n : a[i] # COLON
         \/ e \in rem..n /\ a[e] = COLON /\ \A i \in rem..e - 1 : a[i] # COLON
      /\ e # rem => v = IF (n = rem \/ e = rem + 1) /\ HexBlock(a[rem]) THEN a[rem].hex ELSE BAD
      /\ DoubleColon <=> e # 0 /\ e < n /\ a[e + 1] = COLON
      /\ BlockIsBad6 <=> \/ e # 0 /\ e = n
                         \/ DoubleColon /\ e + 2 <= n /\ a[e + 2] = COLON
                         \/ e # rem /\ v = BAD
  BY <1>1, <1>4, Reading6
<1>6. Block6Read = Append6(buf6, IF e = rem THEN 0 ELSE v)
  BY DEF Block6Read
<1> HIDE DEF a, n, e, v
<1>7. q \in Nat /\ q + 1 = rem /\ (d = 0 \/ d + 1 <= q)
  BY <1>2, <1>4 DEF Blocks6
<1> HIDE DEF q
<1>8. DoubleColon => e # 0 /\ e < n /\ a[e + 1] = COLON /\ (e + 2 <= n => a[e + 2] # COLON)
  BY <1>5
<1>9. e # rem => /\ n = rem \/ e = rem + 1
                 /\ HexBlock(a[rem]) /\ a[rem] # COLON /\ v = a[rem].hex
  BY <1>2, <1>4, <1>5
<1>10. e # 0 => e \in rem..n - 1 /\ a[e] = COLON /\ (~DoubleColon => a[e + 1] # COLON)
  BY <1>2, <1>4, <1>5
<1>11. e # rem => Blocks6(a, rem, d) /\ Buffered6(Block6Read, a, rem, d, 1)
  <2> SUFFICES ASSUME e # rem PROVE Blocks6(a, rem, d) /\ Buffered6(Block6Read, a, rem, d, 1)
    OBVIOUS
  <2>1. HexBlock(a[q + 1]) /\ a[q + 1] # COLON /\ Block6Read = Append6(buf6, a[q + 1].hex)
    BY <1>6, <1>7, <1>9
  <2>2. q > 0 => a[q] = COLON
    BY <1>4, <1>7
  <2>3. Blocks6(a, q + 1, d)
    BY <1>4, <1>7, <2>1, <2>2, NextBlock
  <2>4. Buffered6(Block6Read, a, q + 1, d, 1)
    BY <1>4, <1>7, <2>1, BufferBlock
  <2> QED
    BY <1>7, <2>3, <2>4
<1>12. CASE e = 0
  <2>1. e # rem /\ n = rem
    BY <1>2, <1>4, <1>9, <1>12
  <2>2. ~DoubleColon /\ a[n] # COLON
    BY <1>8, <1>9, <1>12, <2>1
  <2> QED
    BY <1>4, <1>8, <1>11, <1>12, <2>1, <2>2 DEF a, n, e
<1>13. CASE e = rem
  <2>1. rem = 1 /\ q = 0
    BY <1>2, <1>4, <1>7, <1>10, <1>13
  <2>2. d = 0
    BY <1>7, <2>1
  <2>3. Blocks6(a, 0 + 1, 0)
    <3>1. Blocks6(a, 0, 0) /\ a[0 + 1] = COLON /\ ~(0 > 0) /\ 0 \in Nat
      BY <1>4, <1>10, <1>13, <2>1, <2>2
    <3> QED
      BY <3>1, NextColon
  <2>4. Buffered6(Block6Read, a, 1, 0, 0)
    <3>1. Buffered6(buf6, a, 0, 0, 0) /\ a[1] = COLON /\ Block6Read = Append6(buf6, 0)
      BY <1>4, <1>6, <1>10, <1>13, <2>1, <2>2
    <3> QED
      BY <3>1, BufferEmpty
  <2> QED
    BY <1>4, <1>8, <1>10, <1>13, <2>1, <2>2, <2>3, <2>4 DEF a, n, e
<1>14. CASE e # 0 /\ e # rem
  <2>1. e = rem + 1 /\ rem \in Nat /\ rem > 0
    BY <1>2, <1>4, <1>9, <1>10, <1>14
  <2>2. Blocks6(a, rem, d) /\ Buffered6(Block6Read, a, rem, d, 1)
    BY <1>11, <1>14
  <2>3. a[rem + 1] = COLON /\ a[rem] # COLON
    BY <1>9, <1>10, <1>14, <2>1
  <2>4. Blocks6(a, rem + 1, d)
    BY <2>1, <2>2, <2>3, NextColon
  <2>5. d = 0 \/ d + 1 <= rem
    BY <1>7, <2>1
  <2>6. Buffered6(Block6Read, a, rem + 1, d, 0)
    BY <2>1, <2>2, <2>3, <2>5, BufferColon
  <2> QED
    BY <1>4, <1>8, <1>10, <1>14, <2>1, <2>4, <2>6 DEF a, n, e
<1> QED
  BY <1>12, <1>13, <1>14

\* The line behind the colon that is marked.
LEMMA MarkedBehind ==
  ASSUME CutUp, Parsing, rem \in 1..AddrLen(text), NEW c, NEW i \in 1..AddrLen(text),
         i > BlockEnd(c)
  PROVE  Marked(c)[i] = line[i]
<1>1. line \in Seq(Char) /\ Len(line) = Len(text)
  BY DEF CutUp
<1>2. AddrLen(text) \in 0..Len(text) /\ Len(text) \in Nat
  BY AddrIs
<1>3. rem \in 1..AddrLen(text) + 1
  BY <1>2
<1>4. BlockEnd(c) = 0 \/ BlockEnd(c) \in 1..AddrLen(text)
  BY <1>3, BlockEndIs
<1> DEFINE e == BlockEnd(c)
<1>5. Marked(c) = IF e = 0 THEN line ELSE [line EXCEPT ![e] = NUL]
  BY DEF Marked
<1>6. i > e /\ (e = 0 \/ e \in 1..Len(line)) /\ i \in 1..Len(line)
  BY <1>1, <1>2, <1>4
<1> HIDE DEF e
<1>7. CASE e = 0
  BY <1>5, <1>7
<1>8. CASE e \in 1..Len(line)
  <2>1. e # 0 /\ e # i
    BY <1>1, <1>2, <1>6, <1>8
  <2> QED
    BY <1>1, <1>5, <1>6, <1>8, <2>1, MarkedLine
<1> QED
  BY <1>6, <1>7, <1>8

\* A round leads from one such position to the next.
LEMMA Block6Loop ==
  ASSUME CutUp, Loop6, IsBuf6(buf6), Block6
  PROVE  Loop6'
<1> DEFINE a == AddrPart(text)
           n == AddrLen(text)
           e == BlockEnd(COLON)
           c == Block6Read
<1>1. /\ pc = "blocks6" /\ MoreBlocks /\ buf6.num < NB6 /\ ~BlockIsBad6
      /\ ~(DoubleColon /\ buf6.on_right) /\ pc' = pc /\ text' = text
      /\ buf6' = [c EXCEPT !.on_right = c.on_right \/ DoubleColon]
      /\ line' = Marked(COLON)
      /\ rem' = IF e = 0 THEN 0 ELSE e + (IF DoubleColon THEN 2 ELSE 1)
  BY DEF Block6
<1>2. Parsing
  BY <1>1 DEF Parsing
<1>3. PICK d \in Nat : Parsed6(d)
  BY <1>1, <1>2, SlashedIsBad DEF Loop6
<1>4. /\ rem \in 1..n
      /\ DoubleColon => e # 0 /\ e < n /\ a[e + 1] = COLON /\ (e + 2 <= n => a[e + 2] # COLON)
      /\ e = 0 => /\ Blocks6(a, n, d) /\ Buffered6(c, a, n, d, 1) /\ a[n] # COLON /\ ~DoubleColon
      /\ e # 0 => /\ e \in rem..n - 1 /\ a[e] = COLON /\ (~DoubleColon => a[e + 1] # COLON)
                  /\ Blocks6(a, e, d) /\ Buffered6(c, a, e, d, 0)
  BY <1>1, <1>3, Round6
<1>5. n \in Nat
  BY AddrIs
<1>6. n >= 1 /\ a[1].scan # "0x"
  BY <1>3 DEF Parsed6
<1>7. \A i \in 1..n : i > e => line'[i] = line[i]
  BY <1>1, <1>2, <1>4, MarkedBehind
<1>8. \A i \in rem..n : line[i] = a[i]
  BY <1>3, <1>4, <1>5 DEF Parsed6
<1>9. /\ buf6'.left = c.left /\ buf6'.right = c.right /\ buf6'.num = c.num
      /\ buf6'.blocks = c.blocks /\ buf6'.on_right = (c.on_right \/ DoubleColon)
      /\ c.on_right = buf6.on_right /\ c.on_right \in BOOLEAN
  <2>1. PICK w : c = Append6(buf6, w)
    BY DEF Block6Read
  <2>2. IsBuf6(c) /\ c.on_right = buf6.on_right
    BY <1>1, <2>1, Append6Fits, Append6Is
  <2>5. c.on_right \in BOOLEAN
    <3>1. PICK V : c \in Buf6(V)
      BY <2>2 DEF IsBuf6
    <3> QED
      BY <3>1 DEF Buf6
  <2>3. PICK b : b = c
    OBVIOUS
  <2>4. PICK x \in BOOLEAN : x = DoubleColon
    BY DEF DoubleColon
  <2> HIDE DEF c
  <2> QED
    BY <1>1, <2>2, <2>3, <2>4, <2>5, SwitchIs
<1> HIDE DEF a, n, e, c
<1>10. CASE e = 0
  <2>1. ~DoubleColon /\ buf6'.on_right = c.on_right
    BY <1>4, <1>9, <1>10
  <2>2. Buffered6(buf6', a, n, d, 1)
    BY <1>4, <1>9, <1>10, <2>1, SameBuffer
  <2>3. rem' = 0
    BY <1>1, <1>10
  <2>4. Read6' = n
    BY <1>1, <2>3 DEF Read6, n
  <2>5. Parsed6(d)'
    BY <1>1, <1>4, <1>6, <1>10, <2>2, <2>3, <2>4 DEF Parsed6, a, n
  <2> QED
    BY <2>5 DEF Loop6
<1>11. CASE e # 0 /\ ~DoubleColon
  <2>1. buf6'.on_right = c.on_right
    BY <1>9, <1>11
  <2>2. Buffered6(buf6', a, e, d, 0)
    BY <1>4, <1>9, <1>11, <2>1, SameBuffer
  <2>3. /\ rem' = e + 1 /\ rem' # 0 /\ rem' \in 1..n + 1 /\ a[rem' - 1] = COLON
        /\ a[rem'] # COLON /\ rem' # n + 1 /\ rem' - 1 = e
    BY <1>1, <1>4, <1>5, <1>11
  <2>4. \A i \in rem'..n : line'[i] = a[i]
    BY <1>4, <1>5, <1>7, <1>8, <1>11, <2>3
  <2>5. Read6' = e
    BY <2>3 DEF Read6
  <2>6. Parsed6(d)'
    BY <1>1, <1>4, <1>6, <1>11, <2>2, <2>3, <2>4, <2>5 DEF Parsed6, a, n
  <2> QED
    BY <2>6 DEF Loop6
<1>12. CASE e # 0 /\ DoubleColon
  <2>1. ~c.on_right /\ buf6'.on_right
    BY <1>1, <1>9, <1>12
  <2>2. d = 0
    BY <1>4, <1>12, <2>1 DEF Buffered6
  <2>3. e \in Nat /\ e > 0 /\ e < n /\ a[e] = COLON /\ a[e + 1] = COLON
    BY <1>4, <1>5, <1>12
  <2>4. Blocks6(a, e + 1, e)
    BY <1>4, <1>12, <2>2, <2>3, NextDouble
  <2>5. Count(a, COLON, 1, e) \in Nat
    <3>1. 1 \in Int /\ e \in Int
      BY <2>3
    <3> QED
      BY <3>1, CountNat
  <2>6. Buffered6(c, a, e, 0, 0)
    BY <1>4, <1>12, <2>2
  <2>7. Buffered6(buf6', a, e + 1, e, 0)
    BY <1>9, <2>1, <2>3, <2>5, <2>6, BufferDouble
  <2>8. /\ rem' = e + 2 /\ rem' # 0 /\ rem' \in 1..n + 1 /\ a[rem' - 1] = COLON
        /\ rem' <= n => a[rem'] # COLON
        /\ rem' = n + 1 => e > 0 /\ e + 1 = n
        /\ rem' - 1 = e + 1
    BY <1>1, <1>4, <1>5, <1>12, <2>3
  <2>9. \A i \in rem'..n : line'[i] = a[i]
    BY <1>4, <1>5, <1>7, <1>8, <1>12, <2>3, <2>8
  <2>10. Read6' = e + 1
    BY <2>8 DEF Read6
  <2>11. PICK k \in Nat : k = e
    BY <2>3
  <2>12. Parsed6(k)'
    BY <1>1, <1>6, <2>4, <2>7, <2>8, <2>9, <2>10, <2>11 DEF Parsed6, a, n
  <2> QED
    BY <2>12 DEF Loop6
<1> QED
  BY <1>10, <1>11, <1>12

-----------------------------------------------------------------------------
(***************************************************************************)
(* What is rejected is no address.                                         *)
(***************************************************************************)
\* Blocks that are left over, or a block that is none.
LEMMA Bad6Rejects ==
  ASSUME CutUp, pc = "blocks6", MoreBlocks, BlockIsBad6, Loop6
  PROVE  ~IsText6(AddrPart(text))
<1> DEFINE a == AddrPart(text)
           n == AddrLen(text)
           e == BlockEnd(COLON)
           v == ReadNumber(Marked(COLON), rem, 16, DOUBLE_OCTET_MAX)
<1>1. Parsing
  BY DEF Parsing
<1>2. CASE Slashed /\ rem = 1
  BY <1>1, <1>2, SlashedIsBad
<1>3. ASSUME NEW d \in Nat, Parsed6(d) PROVE ~IsText6(a)
  <2>1. /\ n \in Nat /\ DOMAIN a = 1..n /\ Len(a) = n
        /\ \A i \in 1..n : HexBlock(a[i]) => a[i] # COLON /\ a[i].hex # BAD
    BY AddrIs DEF HexBlock, BAD
  <2>2. rem # 0 /\ rem <= n
    BY <1>1, <1>3, More6
  <2>4. /\ rem \in 1..n /\ \A i \in rem..n : line[i] = a[i]
    BY <1>3, <2>1, <2>2 DEF Parsed6
  <2>5. /\ \/ e = 0 /\ \A i \in rem..n : a[i] # COLON
           \/ e \in rem..n /\ a[e] = COLON /\ \A i \in rem..e - 1 : a[i] # COLON
        /\ e # rem => v = IF (n = rem \/ e = rem + 1) /\ HexBlock(a[rem]) THEN a[rem].hex ELSE BAD
        /\ DoubleColon <=> e # 0 /\ e < n /\ a[e + 1] = COLON
        /\ BlockIsBad6 <=> \/ e # 0 /\ e = n
                           \/ DoubleColon /\ e + 2 <= n /\ a[e + 2] = COLON
                           \/ e # rem /\ v = BAD
    BY <1>1, <2>4, Reading6
  <2> HIDE DEF a, n, e, v
  <2> SUFFICES ASSUME IsText6(a) PROVE FALSE
    OBVIOUS
  <2>6. /\ \A i \in 1..n : a[i] = COLON \/ HexBlock(a[i])
        /\ \A i \in 1..n : i > 1 => COLON \in {a[i - 1], a[i]}
        /\ \/ DoubleColons(a) = {} /\ a[n] # COLON
           \/ \E dd \in DoubleColons(a) : DoubleColons(a) = {dd} /\ (a[n] = COLON => dd + 1 = n)
    BY <2>1 DEF IsText6, HexBlock
  <2>7. \A i \in 1..n - 1 : a[i] = COLON /\ a[i + 1] = COLON <=> i \in DoubleColons(a)
    BY <2>1 DEF DoubleColons
  \* An end of the address is no end of a block.
  <2>8. CASE e # 0 /\ e = n
    <3>0. PICK k \in DoubleColons(a) : k + 1 = n
      BY <2>1, <2>5, <2>6, <2>8
    <3>1. n - 1 \in DoubleColons(a) /\ a[n] = COLON
      BY <2>1, <2>5, <2>8, <3>0 DEF DoubleColons
    <3>2. n - 1 \in 1..n - 1 /\ a[n - 1] = COLON
      BY <3>1 DEF DoubleColons, a
    <3>3. n - 1 = rem - 1
      BY <2>1, <2>4, <2>5, <2>8, <3>2
    <3> QED
      BY <1>3, <2>1, <2>2, <2>5, <2>8, <3>1, <3>2, <3>3 DEF Parsed6, a, n
  <2>9. CASE DoubleColon /\ e + 2 <= n /\ a[e + 2] = COLON
    <3>1. /\ e \in 1..n - 1 /\ e + 1 \in 1..n - 1
          /\ a[e] = COLON /\ a[e + 1] = COLON /\ a[e + 1 + 1] = COLON
      BY <2>1, <2>4, <2>5, <2>9
    <3>2. e \in DoubleColons(a) /\ e + 1 \in DoubleColons(a) /\ e # e + 1
      BY <2>7, <3>1
    <3> QED
      BY <2>6, <3>2
  <2>10. CASE e # rem /\ v = BAD
    <3>1. a[rem] # COLON
      BY <2>4, <2>5, <2>10
    <3>2. HexBlock(a[rem]) /\ a[rem].hex # BAD
      BY <2>1, <2>4, <2>6, <3>1
    <3>3. n # rem /\ e # rem + 1
      BY <2>5, <2>10, <3>2
    <3>4. rem + 1 \in 1..n /\ rem + 1 \in rem..n /\ rem + 1 - 1 = rem /\ rem + 1 > 1
      BY <2>1, <2>4, <3>3
    <3>5. a[rem + 1] # COLON
      BY <2>1, <2>4, <2>5, <2>10, <3>3, <3>4
    <3> QED
      <4>0. PICK m \in 1..n : m = rem + 1
        BY <3>4
      <4>1. m > 1 /\ m - 1 = rem /\ a[m] # COLON
        BY <2>1, <2>4, <3>5, <4>0
      <4>2. COLON \in {a[m - 1], a[m]}
        BY <2>6, <4>0, <4>1
      <4> QED
        BY <3>1, <4>1, <4>2
  <2> QED
    BY <2>5, <2>8, <2>9, <2>10
<1> QED
  BY <1>2, <1>3 DEF Loop6

LEMMA DoubleColonAt ==
  ASSUME NEW a, NEW q \in Nat, NEW d \in Nat, d > 0, Blocks6(a, q, d)
  PROVE  d + 1 <= q /\ a[d] = COLON /\ a[d + 1] = COLON
<1>1. d + 1 <= q /\ d \in 1..q - 1
  BY DEF Blocks6
<1> QED
  BY <1>1 DEF Blocks6

LEMMA BufIs ==
  ASSUME IsBuf6(buf6)
  PROVE  /\ buf6.left \in Nat /\ buf6.right \in Nat /\ buf6.num = buf6.left + buf6.right
         /\ buf6.num <= NB6 /\ buf6.on_right \in BOOLEAN
<1>1. PICK V : buf6 \in Buf6(V)
  BY DEF IsBuf6
<1> QED
  BY <1>1 DEF IsBuf6, Fits6, Buf6

\* A second double colon.
LEMMA Second6Rejects ==
  ASSUME CutUp, Loop6, IsBuf6(buf6), SecondDoubleColon
  PROVE  ~IsText6(AddrPart(text))
<1> DEFINE a == AddrPart(text)
           n == AddrLen(text)
           e == BlockEnd(COLON)
<1>1. pc = "blocks6" /\ MoreBlocks /\ buf6.num < NB6 /\ ~BlockIsBad6 /\ DoubleColon /\ buf6.on_right
  BY DEF SecondDoubleColon
<1>2. Parsing
  BY <1>1 DEF Parsing
<1>3. PICK d \in Nat : Parsed6(d)
  BY <1>1, <1>2, SlashedIsBad DEF Loop6
<1>4. rem \in 1..n /\ e \in rem..n - 1 /\ a[e] = COLON /\ a[e + 1] = COLON
  BY <1>1, <1>3, Round6
<1>5. n \in Nat /\ Len(a) = n
  BY AddrIs
<1>6. Blocks6(a, rem - 1, d) /\ d > 0
  BY <1>1, <1>3, <1>4, <1>5 DEF Parsed6, Read6, Buffered6
<1>7. rem - 1 \in Nat
  BY <1>4, <1>5
<1>8. d + 1 <= rem - 1 /\ a[d] = COLON /\ a[d + 1] = COLON
  BY <1>6, <1>7, DoubleColonAt
<1> HIDE DEF a, n, e
<1>9. d \in 1..n - 1 /\ e \in 1..n - 1 /\ d # e
  BY <1>4, <1>5, <1>6, <1>8
<1>10. d \in DoubleColons(a) /\ e \in DoubleColons(a)
  BY <1>4, <1>5, <1>8, <1>9 DEF DoubleColons
<1> QED
  BY <1>9, <1>10 DEF IsText6, a

\* More blocks than the buffer has.
LEMMA TooMany6Rejects ==
  ASSUME CutUp, Loop6, IsBuf6(buf6), TooManyBlocks6
  PROVE  ~IsText6(AddrPart(text))
<1> DEFINE a == AddrPart(text)
           n == AddrLen(text)
           q == rem - 1
<1>1. pc = "blocks6" /\ MoreBlocks /\ buf6.num >= NB6
  BY DEF TooManyBlocks6
<1>2. Parsing
  BY <1>1 DEF Parsing
<1>3. CASE Slashed /\ rem = 1
  BY <1>2, <1>3, SlashedIsBad
<1>4. ASSUME NEW d \in Nat, Parsed6(d), IsText6(a) PROVE FALSE
  <2>1. rem # 0 /\ rem <= n
    BY <1>1, <1>2, <1>4, More6
  <2>2. n \in Nat /\ Len(a) = n
    BY AddrIs
  <2>3. /\ rem \in 1..n /\ (rem > 1 => a[rem] # COLON)
        /\ Blocks6(a, q, d) /\ Buffered6(buf6, a, q, d, 0)
    BY <1>4, <2>1, <2>2 DEF Parsed6, Read6
  <2>4. q \in Nat /\ q < n /\ q + 1 = rem
    BY <2>2, <2>3
  <2>5. /\ buf6.left \in Nat /\ buf6.right \in Nat /\ buf6.num = buf6.left + buf6.right
        /\ NB6 \in Nat
    BY BufIs, Blocks
  <2>6. \/ DoubleColons(a) = {} /\ Count(a, COLON, 1, n) < NB6
        \/ \E x \in DoubleColons(a) : DoubleColons(a) = {x} /\ LeftOf(a, x) + RightOf(a, x) < NB6
    BY <1>4, <2>2 DEF IsText6
  <2> HIDE DEF a, n, q
  <2>8. CASE d = 0
    <3>1. buf6.left = Count(a, COLON, 1, q) /\ buf6.right = 0
      <4>1. 1 \in Int /\ q \in Int
        BY <2>4
      <4>2. Count(a, COLON, 1, q) \in Nat
        BY <4>1, CountNat
      <4> QED
        BY <2>3, <2>8, <4>2 DEF Buffered6
    <3>2. Count(a, COLON, 1, q) >= NB6
      BY <1>1, <2>5, <3>1
    <3>3. Count(a, COLON, 1, n) >= NB6
      <4>1. 1 \in Int /\ q \in Int /\ n \in Int /\ 1 <= q + 1 /\ q <= n
        BY <2>2, <2>4
      <4>2. Count(a, COLON, 1, q) <= Count(a, COLON, 1, n)
        BY <4>1, CountMonotone
      <4>3. Count(a, COLON, 1, q) \in Nat
        BY <4>1, CountNat
      <4>4. Count(a, COLON, 1, n) \in Nat
        BY <4>1, CountNat
      <4> QED
        BY <2>5, <3>2, <4>2, <4>3, <4>4
    <3>4. Count(a, COLON, 1, n) \in Nat
      <4>1. 1 \in Int /\ n \in Int
        BY <2>2
      <4> QED
        BY <4>1, CountNat
    <3>5. PICK x \in DoubleColons(a) : LeftOf(a, x) + RightOf(a, x) < NB6
      BY <2>5, <2>6, <3>3, <3>4
    <3>6. x \in 1..n - 1 /\ a[x] = COLON /\ a[x + 1] = COLON
      BY <2>2 DEF DoubleColons
    <3>7. x > q
      <4>1. CASE x <= q - 1
        <5>1. x \in 1..q - 1 /\ x # 0
          BY <2>2, <2>4, <3>6, <4>1
        <5> QED
          BY <2>3, <2>8, <3>6, <5>1 DEF Blocks6
      <4>2. CASE x = q
        BY <2>2, <2>3, <2>4, <3>6, <4>2
      <4> QED
        BY <2>2, <2>4, <3>6, <4>1, <4>2
    <3>8. LeftOf(a, x) > NB6
      <4>1. 1 \in Int /\ q \in Int /\ x - 1 \in Int /\ 1 <= q + 1 /\ q <= x - 1
        BY <2>2, <2>4, <3>6, <3>7
      <4>2. Count(a, COLON, 1, q) <= Count(a, COLON, 1, x - 1)
        BY <4>1, CountMonotone
      <4>3. Count(a, COLON, 1, q) \in Nat
        BY <4>1, CountNat
      <4>4. Count(a, COLON, 1, x - 1) \in Nat
        BY <4>1, CountNat
      <4> QED
        BY <2>5, <3>2, <4>2, <4>3, <4>4 DEF LeftOf
    <3>9. LeftOf(a, x) \in Nat /\ RightOf(a, x) \in Nat
      <4>1. 1 \in Int /\ x - 1 \in Int /\ x + 2 \in Int /\ n \in Int
        BY <2>2, <3>6
      <4>2. Count(a, COLON, 1, x - 1) \in Nat
        BY <4>1, CountNat
      <4>3. Count(a, COLON, x + 2, n) \in Nat
        BY <4>1, CountNat
      <4> QED
        BY <2>2, <4>2, <4>3 DEF LeftOf, RightOf
    <3> QED
      BY <2>5, <3>5, <3>8, <3>9
  <2>9. CASE d > 0
    <3>1. d + 1 <= q /\ a[d] = COLON /\ a[d + 1] = COLON
      BY <2>3, <2>4, <2>9, DoubleColonAt
    <3>2. d \in DoubleColons(a)
      <4>1. d \in 1..n - 1
        BY <2>2, <2>4, <2>9, <3>1
      <4> QED
        BY <2>2, <3>1, <4>1 DEF DoubleColons
    <3>3. LeftOf(a, d) + RightOf(a, d) < NB6
      BY <2>6, <3>2
    <3>4. Count(a, COLON, 1, d) = Count(a, COLON, 1, d - 1) + 1 /\ Count(a, COLON, 1, d - 1) \in Nat
      <4>1. 1 \in Int /\ d \in Int /\ 1 <= d /\ d - 1 \in Int
        BY <2>9
      <4>2. Count(a, COLON, 1, d) = Count(a, COLON, 1, d - 1) + IF a[d] = COLON THEN 1 ELSE 0
        BY <4>1, CountNext
      <4>3. Count(a, COLON, 1, d - 1) \in Nat
        BY <4>1, CountNat
      <4> QED
        BY <3>1, <4>2, <4>3
    <3>5. /\ Count(a, COLON, d + 2, q) <= Count(a, COLON, d + 2, n)
          /\ Count(a, COLON, d + 2, q) \in Nat /\ Count(a, COLON, d + 2, n) \in Nat
      <4>1. d + 2 \in Int /\ q \in Int /\ n \in Int /\ d + 2 <= q + 1 /\ q <= n
        BY <2>2, <2>4, <3>1
      <4>2. Count(a, COLON, d + 2, q) <= Count(a, COLON, d + 2, n)
        BY <4>1, CountMonotone
      <4>3. Count(a, COLON, d + 2, q) \in Nat
        BY <4>1, CountNat
      <4>4. Count(a, COLON, d + 2, n) \in Nat
        BY <4>1, CountNat
      <4> QED
        BY <4>2, <4>3, <4>4
    <3>6. LeftOf(a, d) = Count(a, COLON, 1, d)
      BY <3>4 DEF LeftOf
    <3>7. RightOf(a, d) = Count(a, COLON, d + 2, n) + 1
      BY <2>2, <2>4, <3>1 DEF RightOf
    <3>8. buf6.left = Count(a, COLON, 1, d) /\ buf6.right = Count(a, COLON, d + 2, q)
      BY <2>3, <2>9, <3>5 DEF Buffered6
    <3> QED
      BY <1>1, <2>5, <3>3, <3>4, <3>5, <3>6, <3>7, <3>8
  <2> QED
    BY <2>8, <2>9
<1> QED
  BY <1>1, <1>3, <1>4 DEF Loop6

\* At its end the loop has read the whole address.
LEMMA End6Is ==
  ASSUME CutUp, Loop6, IsBuf6(buf6), pc = "blocks6", ~MoreBlocks
  PROVE  LET a == AddrPart(text)
             n == AddrLen(text) IN
         /\ buf6.num >= 1
         /\ IsText6(a) <=> ~(buf6.on_right /\ buf6.num >= NB6)
         /\ \E d \in Nat : /\ Blocks6(a, n, d)
                           /\ Buffered6(buf6, a, n, d, IF rem = 0 THEN 1 ELSE 0)
                           /\ rem # 0 => d > 0 /\ d + 1 = n
                           /\ DoubleColons(a) = IF d = 0 THEN {} ELSE {d}
                           /\ d = 0 => /\ buf6.left = Count(a, COLON, 1, n) + 1
                                       /\ buf6.right = 0
                           /\ d # 0 => buf6.left = LeftOf(a, d) /\ buf6.right = RightOf(a, d)
<1> DEFINE a == AddrPart(text)
           n == AddrLen(text)
           open == IF rem = 0 THEN 1 ELSE 0
<1>1. Parsing
  BY DEF Parsing
<1>2. PICK d \in Nat : Parsed6(d)
  BY <1>1, SlashedIsBad DEF Loop6
<1>3. rem = 0 \/ ~(rem <= n)
  BY <1>1, <1>2, More6
<1>4. n \in Nat /\ Len(a) = n /\ DOMAIN a = 1..n /\ a \in Seq(Token) /\ (a # << >> <=> n >= 1)
  BY AddrIs
<1>5. /\ n >= 1 /\ a[1].scan # "0x" /\ (rem = 0 => a[n] # COLON)
      /\ rem # 0 => d > 0 /\ d + 1 = n
      /\ Read6 = n
      /\ Blocks6(a, n, d) /\ Buffered6(buf6, a, n, d, open)
  <2>1. CASE rem = 0
    BY <1>2, <2>1 DEF Parsed6, Read6
  <2>2. CASE rem # 0
    <3>1. rem = n + 1
      BY <1>2, <1>3, <1>4, <2>2 DEF Parsed6
    <3>2. Read6 = n
      BY <1>4, <2>2, <3>1 DEF Read6
    <3> QED
      BY <1>2, <2>2, <3>1, <3>2 DEF Parsed6
  <2> QED
    BY <2>1, <2>2
<1>6. DoubleColons(a) = IF d = 0 THEN {} ELSE {d}
  BY <1>4, <1>5, DoubleColonsAre
<1>7. /\ buf6.left \in Nat /\ buf6.right \in Nat /\ buf6.num = buf6.left + buf6.right
      /\ buf6.num <= NB6 /\ NB6 \in Nat
  BY BufIs, Blocks
<1> HIDE DEF a, n
<1>8. /\ a # << >> /\ a[1].scan # "0x"
      /\ \A i \in DOMAIN a : a[i] = COLON \/ a[i].hex \in 0..DOUBLE_OCTET_MAX
      /\ \A i \in DOMAIN a : i > 1 => COLON \in {a[i - 1], a[i]}
  <2>1. \A i \in 1..n : i > 1 => i \in 2..n
    BY <1>4
  <2> QED
    BY <1>4, <1>5, <2>1 DEF Blocks6, HexBlock
<1>9. CASE d = 0
  <2>1. rem = 0 /\ a[n] # COLON /\ DoubleColons(a) = {}
    BY <1>5, <1>6, <1>9
  <2>2. Count(a, COLON, 1, n) \in Nat
    <3>1. 1 \in Int /\ n \in Int
      BY <1>4
    <3> QED
      BY <3>1, CountNat
  <2>3. buf6.left = Count(a, COLON, 1, n) + 1 /\ buf6.right = 0 /\ ~buf6.on_right
    BY <1>5, <1>9, <2>1 DEF Buffered6
  <2>4. Count(a, COLON, 1, n) < NB6 /\ buf6.num >= 1
    BY <1>7, <2>2, <2>3
  <2>5. IsText6(a)
    BY <1>4, <1>8, <2>1, <2>4 DEF IsText6
  <2> QED
    <3>1. ~(d # 0) /\ buf6.num >= 1 /\ (IsText6(a) <=> ~(buf6.on_right /\ buf6.num >= NB6))
      BY <1>9, <2>3, <2>4, <2>5
    <3> QED
      BY <1>5, <1>6, <2>3, <3>1 DEF a, n
<1>10. CASE d > 0
  <2>1. d + 1 <= n /\ a[d] = COLON /\ a[d + 1] = COLON
    BY <1>4, <1>5, <1>10, DoubleColonAt
  <2>2. Count(a, COLON, 1, d) = Count(a, COLON, 1, d - 1) + 1 /\ Count(a, COLON, 1, d - 1) \in Nat
    <3>1. 1 \in Int /\ d \in Int /\ 1 <= d /\ d - 1 \in Int
      BY <1>10
    <3>2. Count(a, COLON, 1, d) = Count(a, COLON, 1, d - 1) + IF a[d] = COLON THEN 1 ELSE 0
      BY <3>1, CountNext
    <3>3. Count(a, COLON, 1, d - 1) \in Nat
      BY <3>1, CountNat
    <3> QED
      BY <2>1, <3>2, <3>3
  <2>3. LeftOf(a, d) = buf6.left /\ buf6.on_right /\ buf6.left >= 1
    BY <1>5, <1>10, <2>2 DEF LeftOf, Buffered6
  <2>4. Count(a, COLON, d + 2, n) \in Nat /\ (n < d + 2 => Count(a, COLON, d + 2, n) = 0)
    <3>1. d + 2 \in Int /\ n \in Int
      BY <1>4
    <3> QED
      BY <3>1, CountNat
  <2>5. buf6.right = Count(a, COLON, d + 2, n) + open
    BY <1>5, <1>10 DEF Buffered6
  <2>6. RightOf(a, d) = buf6.right /\ (a[n] = COLON => d + 1 = n)
    <3>1. CASE rem = 0
      <4>1. d + 1 # n /\ a[n] # COLON
        BY <1>5, <2>1, <3>1
      <4> QED
        BY <1>4, <2>5, <3>1, <4>1 DEF RightOf
    <3>2. CASE rem # 0
      <4>1. d + 1 = n /\ n < d + 2 /\ open = 0
        BY <1>4, <1>5, <3>2
      <4> QED
        BY <1>4, <2>4, <2>5, <4>1 DEF RightOf
    <3> QED
      BY <3>1, <3>2
  <2>7. DoubleColons(a) = {d}
    BY <1>6, <1>10
  <2>8. IsText6(a) <=> LeftOf(a, d) + RightOf(a, d) < NB6
    BY <1>4, <1>8, <2>6, <2>7 DEF IsText6
  <2>9. buf6.num >= 1 /\ (IsText6(a) <=> ~(buf6.num >= NB6))
    BY <1>7, <2>3, <2>6, <2>8
  <2> QED
    <3>1. d # 0 /\ buf6.num >= 1 /\ (IsText6(a) <=> ~(buf6.on_right /\ buf6.num >= NB6))
      BY <1>10, <2>3, <2>9
    <3>2. buf6.left = LeftOf(a, d) /\ buf6.right = RightOf(a, d)
      BY <2>3, <2>6
    <3> QED
      BY <1>5, <1>6, <3>1, <3>2 DEF a, n
<1> QED
  BY <1>9, <1>10

\* The address that is made has every double octet in its place.
LEMMA Slots6 ==
  ASSUME CutUp, IsBuf6(buf6), NEW d \in Nat, NEW a, a = AddrPart(text), NEW n, n = AddrLen(text),
         Blocks6(a, n, d), Buffered6(buf6, a, n, d, IF rem = 0 THEN 1 ELSE 0),
         rem # 0 => d > 0 /\ d + 1 = n, DoubleColons(a) = IF d = 0 THEN {} ELSE {d},
         NEW len, NEW s \in 0..NB6 - 1
  PROVE  MakeAddr6(buf6, len).slot[s] = Slot6(a, s)
<1> DEFINE b == buf6
           isLeft(i) == \A x \in DoubleColons(a) : i < x
           At6(i) == IF isLeft(i) THEN Count(a, COLON, 1, i) = NB6 - 1 - s
                                  ELSE Count(a, COLON, i, Len(a)) = s
           here == {i \in DOMAIN a : a[i] # COLON /\ At6(i)}
           k == IF s < b.right THEN b.left + (b.right - 1 - s) ELSE NB6 - 1 - s
           used == s < b.right \/ NB6 - 1 - s < b.left
<1>1. n \in Nat /\ DOMAIN a = 1..n /\ Len(a) = n
  BY AddrIs
<1>2. /\ b.left \in Nat /\ b.right \in Nat /\ b.num = b.left + b.right /\ b.num <= NB6
      /\ NB6 \in Nat /\ s \in Nat /\ s < NB6
  BY BufIs, Blocks
<1>3. MakeAddr6(b, len).slot[s] = IF used THEN b.blocks[k] ELSE 0
  BY DEF MakeAddr6
<1>4. Slot6(a, s) = IF here = {} THEN 0 ELSE a[CHOOSE i \in here : TRUE].hex
  BY DEF Slot6
<1>5. \A i \in 1..n : isLeft(i) <=> (d = 0 \/ i < d)
  OBVIOUS
<1> HIDE DEF isLeft
<1>6. d > 0 => d + 1 <= n /\ a[d] = COLON /\ a[d + 1] = COLON
  BY <1>1, DoubleColonAt
\* A block's place is told by where it is kept.
<1>7. ASSUME NEW i \in 1..n, a[i] # COLON
      PROVE  /\ Idx(b, a, d, i) \in 0..b.num - 1 /\ b.blocks[Idx(b, a, d, i)] = a[i].hex
             /\ At6(i) <=> used /\ Idx(b, a, d, i) = k
  <2>1. Idx(b, a, d, i) < b.num /\ b.blocks[Idx(b, a, d, i)] = a[i].hex
    BY <1>7 DEF Buffered6
  <2> DEFINE c == Count(a, COLON, 1, i)
  <2>2. c \in Nat
    <3>1. 1 \in Int /\ i \in Int
      BY <1>1
    <3> QED
      BY <3>1, CountNat
  <2>3. CASE d = 0 \/ i < d
    <3>1. Idx(b, a, d, i) = c /\ isLeft(i)
      BY <1>5, <2>3 DEF Idx
    <3>2. c < b.left
      <4>1. CASE d = 0
        <5>1. 1 \in Int /\ i \in Int /\ n \in Int /\ 1 <= i + 1 /\ i <= n
          BY <1>1
        <5>2. c <= Count(a, COLON, 1, n)
          BY <5>1, CountMonotone
        <5>3. Count(a, COLON, 1, n) \in Nat
          BY <5>1, CountNat
        <5>4. b.left = Count(a, COLON, 1, n) + 1
          BY <4>1 DEF Buffered6
        <5> HIDE DEF c
        <5> QED
          BY <2>2, <5>2, <5>3, <5>4
      <4>2. CASE d > 0
        <5>1. /\ 1 \in Int /\ i \in Int /\ d \in Int /\ d - 1 \in Int
              /\ 1 <= i + 1 /\ i <= d - 1 /\ 1 <= d
          BY <1>1, <2>3, <4>2
        <5>2. c <= Count(a, COLON, 1, d - 1)
          BY <5>1, CountMonotone
        <5>3. Count(a, COLON, 1, d) = Count(a, COLON, 1, d - 1) + IF a[d] = COLON THEN 1 ELSE 0
          BY <5>1, CountNext
        <5>4. Count(a, COLON, 1, d - 1) \in Nat
          BY <5>1, CountNat
        <5>5. b.left = Count(a, COLON, 1, d)
          BY <4>2 DEF Buffered6
        <5> HIDE DEF c
        <5> QED
          BY <1>6, <2>2, <4>2, <5>2, <5>3, <5>4, <5>5
      <4> QED
        BY <4>1, <4>2
    <3> HIDE DEF c
    <3>3. At6(i) <=> c = NB6 - 1 - s
      BY <3>1 DEF c
    <3>4. c = NB6 - 1 - s <=> used /\ c = k
      BY <1>2, <2>2, <3>2
    <3>5. c \in 0..b.num - 1
      BY <1>2, <2>2, <3>2
    <3> QED
      BY <2>1, <3>1, <3>3, <3>4, <3>5
  <2>4. CASE ~(d = 0 \/ i < d)
    <3> DEFINE r == Count(a, COLON, d + 2, i)
               t == Count(a, COLON, i, n)
    <3>1. Idx(b, a, d, i) = b.left + r /\ ~isLeft(i)
      BY <1>5, <2>4 DEF Idx
    <3>2. d > 0 /\ i >= d + 2 /\ i <= n
      BY <1>1, <1>6, <1>7, <2>4
    <3>3. rem = 0 /\ b.right = Count(a, COLON, d + 2, n) + 1
      <4>1. rem = 0
        BY <1>1, <3>2
      <4> QED
        BY <3>2, <4>1 DEF Buffered6
    <3>4. Count(a, COLON, d + 2, n) = r + t /\ r \in Nat /\ t \in Nat
      <4>1. d + 2 \in Int /\ i \in Int /\ i - 1 \in Int /\ n \in Int /\ d + 2 <= i
            /\ d + 2 <= i - 1 + 1 /\ i - 1 <= n /\ i - 1 + 1 = i
        BY <1>1, <3>2
      <4>2. Count(a, COLON, d + 2, n)
              = Count(a, COLON, d + 2, i - 1) + Count(a, COLON, i - 1 + 1, n)
        BY <4>1, CountSplit
      <4>3. r = Count(a, COLON, d + 2, i - 1) + IF a[i] = COLON THEN 1 ELSE 0
        BY <4>1, CountNext
      <4>4. Count(a, COLON, d + 2, i - 1) \in Nat
        BY <4>1, CountNat
      <4>5. t \in Nat
        BY <4>1, CountNat
      <4>6. r = Count(a, COLON, d + 2, i - 1)
        BY <1>7, <4>3, <4>4
      <4>7. Count(a, COLON, i - 1 + 1, n) = t
        BY <4>1
      <4> QED
        BY <4>2, <4>4, <4>5, <4>6, <4>7
    <3> HIDE DEF r, t
    <3>5. At6(i) <=> t = s
      BY <1>1, <3>1 DEF t
    <3>6. b.right = r + t + 1 /\ r \in Nat /\ t \in Nat
      BY <3>3, <3>4
    <3>7. t = s <=> used /\ b.left + r = k
      <4>1. ASSUME t = s PROVE used /\ b.left + r = k
        BY <1>2, <3>6, <4>1
      <4>2. ASSUME used, b.left + r = k PROVE t = s
        BY <1>2, <3>6, <4>2
      <4> QED
        BY <4>1, <4>2
    <3>8. b.left + r \in 0..b.num - 1
      BY <1>2, <3>6
    <3> QED
      BY <2>1, <3>1, <3>5, <3>7, <3>8
  <2> QED
    BY <2>3, <2>4
<1>8. used => k \in 0..b.num - 1
  BY <1>2
<1> HIDE DEF used, k, At6
<1>9. CASE here = {}
  <2>1. ASSUME used PROVE b.blocks[k] = 0
    <3>1. \A i \in 1..n : a[i] # COLON => Idx(b, a, d, i) # k
      BY <1>1, <1>7, <1>9, <2>1
    <3> QED
      BY <1>8, <2>1, <3>1 DEF Buffered6
  <2> QED
    BY <1>3, <1>4, <1>9, <2>1
<1>10. CASE here # {}
  <2>1. PICK i : i = CHOOSE x \in here : TRUE
    OBVIOUS
  <2>2. i \in here
    BY <1>10, <2>1
  <2>3. i \in 1..n /\ a[i] # COLON /\ At6(i)
    BY <1>1, <2>2
  <2>4. used /\ Idx(b, a, d, i) = k /\ b.blocks[k] = a[i].hex
    BY <1>7, <2>3
  <2> HIDE DEF here
  <2> QED
    BY <1>3, <1>4, <1>10, <2>1, <2>4
<1> QED
  BY <1>9, <1>10

-----------------------------------------------------------------------------
(***************************************************************************)
(* The steps, with the IPv6 parser's result.                               *)
(***************************************************************************)
\* Mixed and Loop6 say where the line and the buffer stand until there is a result.
Means6Inv == Mixed /\ Loop6 /\ Ip6MeansText

\* The IPv6 parser gives the line up.
LEMMA Means6Rejected ==
  ASSUME ~IsText6(AddrPart(text)), text' = text, DOMAIN ret = Types, NEW r, r # OK,
         ret' = [ret EXCEPT !["v6"] = r]
  PROVE  Ip6MeansText'
<1>1. ret'["v6"] # OK
  BY DEF Types
<1> QED
  BY <1>1 DEF Ip6MeansText

\* The blocks are the address; the length is what follows the slash.
LEMMA Means6End ==
  ASSUME CutUp, GuessInv, IsBuf6(buf6), Loop6, EndBlocks6
  PROVE  Ip6MeansText'
<1> DEFINE a == AddrPart(text)
           p == Prefixlen6
           k == buf6.num
           full == buf6.on_right /\ k >= NB6
<1>1. /\ pc = "blocks6" /\ ~MoreBlocks /\ text' = text
      /\ IF k = 0 \/ full \/ p = BAD
         THEN ret' = [ret EXCEPT !["v6"] = INVALID_LINE]
         ELSE /\ ret' = [ret EXCEPT !["v6"] = OK]
              /\ addr' = [addr EXCEPT !["v6"] = MakeAddr6(buf6, p)]
  BY DEF EndBlocks6, Done6
<1>2. k >= 1 /\ (IsText6(a) <=> ~full)
  BY <1>1, End6Is
<1>3. k \in Nat /\ k # 0
  BY <1>2, BufIs
<1>4. DOMAIN ret = Types /\ DOMAIN addr = Types /\ "v6" \in Types
  BY DEF GuessInv, Types
<1>5. (p # BAD <=> HasLen(text, IP6_MAX)) /\ (p # BAD => LenIsRight(text, IP6_MAX, p))
  <2>1. CASE HasSlash(text)
    <3>1. text \in Seq(Token) /\ prefixstr = AddrLen(text) + 2 /\ Parsing
      BY <1>1, <2>1 DEF CutUp, Parsing
    <3>2. prefixstr # 0
      BY <3>1, AddrPartIs
    <3>3. IP6_MAX \in 0..OCTET_MAX
      BY PrefixlenAssumption
    <3>4. p = LET m == ReadNumber(line, prefixstr, 10, OCTET_MAX) IN IF m <= IP6_MAX THEN m ELSE BAD
      BY <3>2 DEF Prefixlen6
    <3> QED
      BY <2>1, <3>1, <3>3, <3>4, PrefixlenRead
  <2>2. CASE ~HasSlash(text)
    <3>1. p = IF buf6.right > 0 THEN IP6_MAX ELSE k * BB6
      BY <1>1, <2>2 DEF CutUp, Parsing, Prefixlen6
    <3>2. IP6_MAX \in Nat /\ k * BB6 \in Nat
      BY <1>3, Blocks DEF IP6_MAX
    <3>3. p # BAD
      BY <3>1, <3>2 DEF BAD
    <3> QED
      BY <2>2, <3>3 DEF HasLen, LenIsRight, LastSlash
  <2> QED
    BY <2>1, <2>2
<1>6. \A s \in 0..NB6 - 1 : MakeAddr6(buf6, p).slot[s] = Slot6(a, s)
  <2>1. PICK d \in Nat : /\ Blocks6(a, AddrLen(text), d)
                         /\ Buffered6(buf6, a, AddrLen(text), d, IF rem = 0 THEN 1 ELSE 0)
                         /\ rem # 0 => d > 0 /\ d + 1 = AddrLen(text)
                         /\ DoubleColons(a) = IF d = 0 THEN {} ELSE {d}
    BY <1>1, End6Is
  <2> HIDE DEF p
  <2> QED
    BY <2>1, Slots6
<1>7. MakeAddr6(buf6, p).len = p
  BY DEF MakeAddr6
<1> HIDE DEF p, k
<1>8. CASE p = BAD \/ full
  <2>1. ret'["v6"] # OK
    BY <1>1, <1>4, <1>8 DEF INVALID_LINE, OK
  <2> QED
    BY <1>1, <1>2, <1>5, <1>8, <2>1 DEF Ip6MeansText
<1>9. CASE p # BAD /\ ~full
  <2>1. ret'["v6"] = OK /\ addr'["v6"] = MakeAddr6(buf6, p)
    BY <1>1, <1>3, <1>4, <1>9
  <2> QED
    BY <1>1, <1>2, <1>5, <1>6, <1>7, <1>9, <2>1 DEF Ip6MeansText
<1> QED
  BY <1>8, <1>9

\* Each step of a parse.
LEMMA Means6Parse ==
  ASSUME MeansInv, GuessInv, BufInv, Means6Inv, ParseNext
  PROVE  Means6Inv'
<1> USE DEF Means6Inv
<1>1. CutUp /\ IsBuf6(buf6) /\ DOMAIN ret = Types /\ Mixed'
  BY MixedKept DEF MeansInv, BufInv, GuessInv
<1>2. INVALID_LINE # OK /\ NO_HEX # OK
  BY DEF INVALID_LINE, NO_HEX, OK
<1>3. CASE \/ SplitPrefixlen \/ Skip4 \/ Start4 \/ TooManyBlocks4 \/ BadBlock4 \/ Block4
           \/ EndBlocks4
  <2>1. pc' \notin {"blocks6", "done"}
    BY <1>3 DEF SplitPrefixlen, Skip4, Start4, TooManyBlocks4, BadBlock4, Block4, EndBlocks4,
                Done4
  <2> QED
    BY <1>1, <2>1 DEF Loop6, Ip6MeansText, Tried
<1>4. CASE SplitFails \/ GuessType
  <2>1. pc' = "done" => guess' = {}
    BY <1>1, <1>4 DEF SplitFails, GuessType, CutUp
  <2>2. pc' # "blocks6"
    BY <1>4 DEF SplitFails, GuessType
  <2> QED
    BY <1>1, <2>1, <2>2 DEF Loop6, Ip6MeansText, Tried
<1>5. CASE Skip6
  BY <1>1, <1>5 DEF Skip6, Loop6, Ip6MeansText, Tried
<1>6. CASE Start6
  <2>1. CASE pc' = "blocks6"
    <3>1. Loop6'
      BY <1>1, <1>6, <2>1, Start6Loop
    <3> QED
      BY <1>1, <2>1, <3>1 DEF Ip6MeansText, Tried
  <2>2. CASE pc' # "blocks6"
    <3>1. ~IsText6(AddrPart(text))
      BY <1>1, <1>6, <2>2, Start6Rejects
    <3>2. PICK r : r # OK /\ ret' = [ret EXCEPT !["v6"] = r] /\ text' = text
      BY <1>2, <1>6, <2>2 DEF Start6, Done6
    <3>3. Ip6MeansText'
      BY <1>1, <3>1, <3>2, Means6Rejected
    <3> QED
      BY <1>1, <2>2, <3>3 DEF Loop6
  <2> QED
    BY <2>1, <2>2
<1>7. CASE TooManyBlocks6 \/ BadBlock6 \/ SecondDoubleColon
  <2>1. pc' = "done" /\ text' = text /\ ret' = [ret EXCEPT !["v6"] = INVALID_LINE]
    BY <1>7 DEF TooManyBlocks6, BadBlock6, SecondDoubleColon, Done6
  <2>2. ~IsText6(AddrPart(text))
    BY <1>1, <1>7, TooMany6Rejects, Bad6Rejects, Second6Rejects DEF BadBlock6
  <2>3. Ip6MeansText'
    BY <1>1, <1>2, <2>1, <2>2, Means6Rejected
  <2> QED
    BY <1>1, <2>1, <2>3 DEF Loop6
<1>8. CASE Block6
  <2>1. Loop6'
    BY <1>1, <1>8, Block6Loop
  <2>2. pc' = "blocks6"
    BY <1>8 DEF Block6
  <2> QED
    BY <1>1, <2>1, <2>2 DEF Ip6MeansText, Tried
<1>9. CASE EndBlocks6
  <2>1. Ip6MeansText'
    BY <1>1, <1>9, Means6End
  <2>2. pc' = "done"
    BY <1>9 DEF EndBlocks6, Done6
  <2> QED
    BY <1>1, <2>1, <2>2 DEF Loop6
<1> QED
  BY <1>3, <1>4, <1>5, <1>6, <1>7, <1>8, <1>9 DEF ParseNext

LEMMA Means6InvInit == Init => Means6Inv
BY DEF Init, ParseInit, Means6Inv, Mixed, Loop6, Ip6MeansText, Tried

LEMMA Means6Read == ASSUME NEW l, NEW m \in Modes, Parse(l, m) PROVE Means6Inv'
<1>1. pc' = "split" /\ mode' \subseteq Types
  BY DEF Parse, Modes
<1> QED
  BY <1>1 DEF Means6Inv, Mixed, Loop6, Ip6MeansText, Tried

LEMMA Means6InvStep ==
  Means6Inv /\ MeansInv /\ GuessInv /\ BufInv /\ [Next]_vars => Means6Inv'
<1> SUFFICES ASSUME Means6Inv, MeansInv, GuessInv, BufInv, [Next]_vars PROVE Means6Inv'
  OBVIOUS
<1>1. ASSUME NEW l \in Texts, NEW m \in Modes, ReadLine(l, m) PROVE Means6Inv'
  BY <1>1, Means6Read DEF ReadLine
<1>2. ASSUME NEW l \in Again, NEW m \in Modes, ReadNextLine(l, m) PROVE Means6Inv'
  BY <1>2, Means6Read DEF ReadNextLine
<1>3. ASSUME NEW n, NEW f, NEW redux, NEW m \in Modes, PrintLine(n, f, redux, m)
      PROVE  Means6Inv'
  BY <1>3, Means6Read DEF PrintLine
<1>4. ASSUME NEW n, PrintJson(n) PROVE Means6Inv'
  BY <1>4 DEF PrintJson, Means6Inv, Mixed, Loop6, Ip6MeansText, Tried
<1>5. CASE ParseNext
  BY <1>5, Means6Parse
<1>6. CASE UNCHANGED vars
  BY <1>6 DEF vars, parseVars, Means6Inv, Mixed, BothTypes, Slashed, AllDigits, Prefixed, Intact,
              Loop6, Parsed6, Read6, Ip6MeansText, Tried
<1> QED
  BY <1>1, <1>2, <1>3, <1>4, <1>5, <1>6 DEF Next

\* A line is accepted by parse_ip6_addr() and, in mixed mode, by the IPv6 half of
\* parse_ip_mixed_addr() exactly if its text is an IPv6 address, with a length or
\* without, and gives every block the place the text puts it at, left or right of the
\* double colon, and the length if the text names one (ip6.c:77-357, mixed.c:21-207);
\* also when the IPv4 parser has written to the line before.  For every number and size
\* of blocks, every set of lines, and whichever line was read before it.
THEOREM Ip6IsMeant == Spec => []Ip6MeansText
BY Means6InvInit, Means6InvStep, MeansInvInit, MeansInvStep, BufInvInit, BufInvStep,
   GuessInvInit, GuessInvStep, PTL DEF Spec, Means6Inv

-----------------------------------------------------------------------------
(***************************************************************************)
(* The compact form: as many blocks as no run takes the place of, and a    *)
(* colon between two.                                                      *)
(***************************************************************************)
LEMMA CountSame ==
  ASSUME NEW a, NEW b, NEW c, NEW i \in Int, NEW j \in Int, \A m \in i..j : a[m] = b[m]
  PROVE  Count(a, c, i, j) = Count(b, c, i, j)
<1>1. {m \in i..j : a[m] = c} = {m \in i..j : b[m] = c}
  OBVIOUS
<1> QED
  BY <1>1 DEF Count

\* Behind position n, b is a.
Behind(a, b, n, k) == \A m \in 1..k : b[n + m] = a[m]

LEMMA CountShift ==
  ASSUME NEW a, NEW b, NEW c, NEW n \in Nat, NEW k \in Nat, Behind(a, b, n, k),
         NEW i, i = n + 1, NEW j, j = n + k
  PROVE  Count(b, c, i, j) = Count(a, c, 1, k)
<1> USE DEF Behind
<1> DEFINE S == {m \in 0..k : Count(b, c, i, n + m) = Count(a, c, 1, m)}
<1>1. 0 \in S
  <2>1. /\ n + 1 \in Int /\ n \in Int /\ n < n + 1 /\ n + 0 = n
        /\ 0 < 1 /\ 1 \in Int /\ 0 \in Int /\ 0 \in 0..k
    OBVIOUS
  <2>2. Count(b, c, i, n) = 0
    BY <2>1, CountNat
  <2>3. Count(a, c, 1, 0) = 0
    BY <2>1, CountNat
  <2> QED
    BY <2>1, <2>2, <2>3
<1>2. ASSUME NEW m \in 1..k, m - 1 \in S PROVE m \in S
  <2>1. PICK p : p = n + m
    OBVIOUS
  <2>2. Count(b, c, i, p) = Count(b, c, i, p - 1) + IF b[p] = c THEN 1 ELSE 0
    <3>1. i \in Int /\ p \in Int /\ i <= p
      BY <2>1
    <3> QED
      BY <3>1, CountNext
  <2>3. Count(a, c, 1, m) = Count(a, c, 1, m - 1) + IF a[m] = c THEN 1 ELSE 0
    <3>1. 1 \in Int /\ m \in Int /\ 1 <= m
      OBVIOUS
    <3> QED
      BY <3>1, CountNext
  <2>4. p - 1 = n + (m - 1) /\ b[p] = a[m] /\ m \in 0..k
    BY <2>1
  <2> QED
    BY <1>2, <2>1, <2>2, <2>3, <2>4
<1>3. k \in 0..k
  OBVIOUS
<1> HIDE DEF S
<1>4. k \in S
  BY <1>1, <1>2, <1>3, Upwards
<1> QED
  BY <1>4 DEF S

LEMMA CountTwo ==
  ASSUME NEW a, NEW b, NEW t, NEW c, NEW n \in Nat, NEW k \in Nat, Behind(b, t, n, k),
         \A m \in 1..n : t[m] = a[m]
  PROVE  Count(t, c, 1, n + k) = Count(a, c, 1, n) + Count(b, c, 1, k)
<1>1. PICK j : j = n + k
  OBVIOUS
<1>2. Count(t, c, n + 1, n + k) = Count(b, c, 1, k)
  BY CountShift, SMTT(30)
<1>3. 1 \in Int /\ n \in Int /\ j \in Int /\ 1 <= n + 1 /\ n <= j
  BY <1>1
<1>4. Count(t, c, 1, j) = Count(t, c, 1, n) + Count(t, c, n + 1, j)
  BY <1>3, CountSplit
<1>5. Count(t, c, 1, n) = Count(a, c, 1, n)
  BY <1>3, CountSame
<1> QED
  BY <1>1, <1>2, <1>4, <1>5

\* The colons in a line.
Colons(a) == Count(a, COLON, 1, Len(a))

LEMMA ColonsConcat ==
  ASSUME NEW T, NEW a \in Seq(T), NEW b \in Seq(T)
  PROVE  Len(a \o b) = Len(a) + Len(b) /\ Colons(a \o b) = Colons(a) + Colons(b)
<1>1. Len(a) \in Nat /\ Len(b) \in Nat /\ Len(a \o b) = Len(a) + Len(b)
  BY LenProperties, ConcatProperties
<1>2. \A m \in 1..Len(a) + Len(b) : (a \o b)[m] = IF m <= Len(a) THEN a[m] ELSE b[m - Len(a)]
  BY ConcatProperties
<1>3. PICK n, k, t : n = Len(a) /\ k = Len(b) /\ t = a \o b
  OBVIOUS
<1>4. n \in Nat /\ k \in Nat /\ \A m \in 1..n + k : t[m] = IF m <= n THEN a[m] ELSE b[m - n]
  BY <1>1, <1>2, <1>3
<1>5. \A m \in 1..n : t[m] = a[m]
  BY <1>4
<1>6. Behind(b, t, n, k)
  <2>1. \A m \in 1..k : n + m \in 1..n + k /\ ~(n + m <= n) /\ n + m - n = m
    BY <1>4
  <2> QED
    BY <1>4, <2>1 DEF Behind
<1>7. Count(t, COLON, 1, n + k) = Count(a, COLON, 1, n) + Count(b, COLON, 1, k)
  BY <1>4, <1>5, <1>6, CountTwo
<1> QED
  BY <1>1, <1>3, <1>7 DEF Colons

\* What is no colon is a block.
LEMMA WrittenIs ==
  ASSUME NEW T, NEW a \in Seq(T)
  PROVE  Cardinality({i \in DOMAIN a : a[i] # COLON}) = Len(a) - Colons(a)
<1> DEFINE n == Len(a)
           S == {i \in 1..n : a[i] = COLON}
           R == {i \in 1..n : a[i] # COLON}
<1>1. n \in Nat /\ DOMAIN a = 1..n
  BY LenProperties
<1>2. IsFiniteSet(1..n) /\ Cardinality(1..n) = n
  <2>1. IsFiniteSet(1..n) /\ Cardinality(1..n) = IF 1 > n THEN 0 ELSE n - 1 + 1
    BY <1>1, FS_Interval
  <2> QED
    BY <1>1, <2>1
<1>3. S \subseteq 1..n /\ R \subseteq 1..n
  OBVIOUS
<1>4. IsFiniteSet(S) /\ IsFiniteSet(R)
  BY <1>2, <1>3, FS_Subset
<1>5. S \cap R = {} /\ S \union R = 1..n
  OBVIOUS
<1>6. {i \in DOMAIN a : a[i] # COLON} = R /\ Colons(a) = Cardinality(S)
  BY <1>1 DEF Colons, Count
<1> HIDE DEF n, S, R
<1>7. Cardinality(S) \in Nat /\ Cardinality(R) \in Nat
  BY <1>4, FS_CardinalityType
<1>8. Cardinality(S \union R) = Cardinality(S) + Cardinality(R) - Cardinality(S \cap R)
  BY <1>4, FS_Union
<1>9. Cardinality(S \cap R) = 0
  BY <1>5, FS_EmptySet
<1> QED
  <2>1. n = Cardinality(S) + Cardinality(R)
    <3>1. Cardinality(S \union R) = n
      BY <1>2, <1>5
    <3> QED
      BY <1>7, <1>8, <1>9, <3>1
  <2>2. Cardinality(R) = n - Cardinality(S)
    BY <1>7, <2>1
  <2> QED
    BY <1>6, <2>2 DEF n

LEMMA PieceColons ==
  ASSUME NEW k \in 0..NB6 - 1, NEW b \in [0..NB6 - 1 -> Nat]
  PROVE  /\ FillText(k) \in Seq(Piece) /\ BlockText6(b, k) \in Seq(Piece)
         /\ Len(FillText(k)) = (IF k = 0 THEN 2 ELSE 1) /\ Colons(FillText(k)) = Len(FillText(k))
         /\ Len(BlockText6(b, k)) = Colons(BlockText6(b, k)) + 1
         /\ Colons(BlockText6(b, k)) = IF k < NB6 - 1 THEN 1 ELSE 0
<1> DEFINE h == <<HexText(b[k])>>
           c == <<COLON>>
<1>1. HexText(b[k]) \in Piece /\ HexText(b[k]) # COLON /\ COLON \in Piece
  BY PieceIs
<1>2. /\ h \in Seq(Piece) /\ c \in Seq(Piece)
      /\ << >> \in Seq(Piece) /\ <<COLON, COLON>> \in Seq(Piece)
      /\ Len(h) = 1 /\ Len(c) = 1 /\ Len(<< >>) = 0 /\ Len(<<COLON, COLON>>) = 2
      /\ h[1] = HexText(b[k]) /\ c[1] = COLON
      /\ <<COLON, COLON>>[1] = COLON /\ <<COLON, COLON>>[2] = COLON
  BY <1>1
<1>3. \A a : Count(a, COLON, 1, 1) = IF a[1] = COLON THEN 1 ELSE 0
  BY CountOne
<1>4. Colons(h) = 0 /\ Colons(c) = 1
  BY <1>1, <1>2, <1>3 DEF Colons
<1>5. Colons(<< >>) = 0
  <2>1. 1 \in Int /\ 0 \in Int /\ 0 < 1
    OBVIOUS
  <2>2. \A a : Count(a, COLON, 1, 0) = 0
    BY <2>1, CountNat
  <2> QED
    BY <1>2, <2>2 DEF Colons
<1>6. Colons(<<COLON, COLON>>) = 2
  <2>1. 1 \in Int /\ 2 \in Int /\ 1 <= 2 /\ 2 - 1 = 1
    OBVIOUS
  <2>2. \A a : Count(a, COLON, 1, 2) = Count(a, COLON, 1, 2 - 1) + IF a[2] = COLON THEN 1 ELSE 0
    BY <2>1, CountNext
  <2> QED
    BY <1>2, <1>3, <2>1, <2>2 DEF Colons
<1> HIDE DEF h, c
<1>7. /\ h \o c \in Seq(Piece) /\ h \o << >> \in Seq(Piece)
      /\ Len(h \o c) = 2 /\ Len(h \o << >>) = 1
      /\ Colons(h \o c) = 1 /\ Colons(h \o << >>) = 0
  BY <1>2, <1>4, <1>5, ColonsConcat, ConcatProperties
<1>8. /\ FillText(k) \in Seq(Piece)
      /\ Len(FillText(k)) = (IF k = 0 THEN 2 ELSE 1) /\ Colons(FillText(k)) = Len(FillText(k))
  <2>1. FillText(k) = IF k = 0 THEN <<COLON, COLON>> ELSE c
    BY DEF FillText, c
  <2> QED
    BY <1>2, <1>4, <1>6, <2>1
<1>9. BlockText6(b, k) = IF k < NB6 - 1 THEN h \o c ELSE h \o << >>
  BY DEF BlockText6, h, c
<1>10. /\ BlockText6(b, k) \in Seq(Piece)
       /\ Len(BlockText6(b, k)) = Colons(BlockText6(b, k)) + 1
       /\ Colons(BlockText6(b, k)) = IF k < NB6 - 1 THEN 1 ELSE 0
  <2>1. CASE k < NB6 - 1
    BY <1>7, <1>9, <2>1
  <2>2. CASE ~(k < NB6 - 1)
    BY <1>7, <1>9, <2>2
  <2> QED
    BY <2>1, <2>2
<1> QED
  BY <1>8, <1>10

\* Each block that is not filled is written, and a colon for each but the last;
\* a double colon makes up for the ones it fills.
LEMMA CompactCounts ==
  ASSUME NEW b \in [0..NB6 - 1 -> Nat], NEW z, z.start \in Nat, z.len \in Nat,
         z.start + z.len <= NB6, NEW f, CompactFrom(b, z, f)
  PROVE  /\ Len(f[0]) - Colons(f[0]) = NB6 - z.len /\ Colons(f[0]) \in Nat
         /\ Colons(f[0]) <= IF z.len = 0 THEN NB6 - 1 ELSE NB6 - z.len + 2
<1> DEFINE open(k) == z.len > 0 /\ k <= z.start
           left(k) == IF open(k) THEN NB6 - k - z.len ELSE NB6 - k
           most(k) == IF open(k) THEN left(k) + (IF k = 0 THEN 2 ELSE 1)
                      ELSE IF k = NB6 THEN 0 ELSE NB6 - k - 1
           P(k) == /\ Len(f[k]) = Colons(f[k]) + left(k)
                   /\ Colons(f[k]) \in Nat /\ Colons(f[k]) <= most(k)
           F == {k \in 0..NB6 : \A j \in k..NB6 : P(j)}
<1>1. NB6 \in Nat /\ NB6 > 0
  BY Blocks
<1>2. ASSUME NEW k \in 0..NB6 - 1, NEW n \in k + 1..NB6, P(n), NEW t \in Seq(Piece),
             f[k] = t \o f[n]
      PROVE  /\ Len(f[k]) = Len(t) + Colons(f[n]) + left(n)
             /\ Colons(f[k]) = Colons(t) + Colons(f[n])
  <2>1. f[n] \in Seq(Piece)
    BY <1>1 DEF CompactFrom
  <2>2. Len(f[k]) = Len(t) + Len(f[n]) /\ Colons(f[k]) = Colons(t) + Colons(f[n])
    BY <1>2, <2>1, ColonsConcat
  <2>3. Len(t) \in Nat /\ left(n) \in Int
    BY <1>1, LenProperties
  <2> QED
    BY <1>2, <2>2, <2>3
<1>3. NB6 \in F
  <2>1. f[NB6] = << >>
    BY DEF CompactFrom
  <2>2. Len(<< >>) = 0 /\ Colons(<< >>) = 0
    <3>1. 1 \in Int /\ 0 \in Int /\ 0 < 1 /\ Len(<< >>) = 0
      OBVIOUS
    <3>2. \A a : Count(a, COLON, 1, 0) = 0
      BY <3>1, CountNat
    <3> QED
      BY <3>1, <3>2 DEF Colons
  <2>3. ~open(NB6)
    BY <1>1
  <2>4. P(NB6)
    BY <1>1, <2>1, <2>2, <2>3
  <2> HIDE DEF P
  <2>5. NB6 \in 0..NB6 /\ \A j \in NB6..NB6 : j = NB6
    BY <1>1
  <2> QED
    BY <2>4, <2>5
<1>4. ASSUME NEW k \in 0..NB6 - 1, k + 1 \in F PROVE k \in F
  <2>1. \A j \in k + 1..NB6 : P(j)
    BY <1>4
  <2>2. P(k)
    <3>1. CASE Filled(z, k)
      <4> DEFINE t == FillText(k)
                 n == k + z.len
      <4>1. n \in k + 1..NB6 /\ ~open(n) /\ open(k)
        BY <1>1, <3>1 DEF Filled
      <4>2. t \in Seq(Piece) /\ Len(t) = (IF k = 0 THEN 2 ELSE 1) /\ Colons(t) = Len(t)
        BY PieceColons
      <4>3. f[k] = t \o f[n] /\ P(n)
        BY <2>1, <3>1, <4>1 DEF CompactFrom
      <4>4. Len(f[k]) = Len(t) + Colons(f[n]) + left(n) /\ Colons(f[k]) = Colons(t) + Colons(f[n])
        BY <1>2, <4>1, <4>2, <4>3
      <4>5. left(n) = NB6 - n /\ most(n) = IF n = NB6 THEN 0 ELSE NB6 - n - 1
        BY <4>1
      <4>6. left(k) = NB6 - k - z.len /\ most(k) = left(k) + Len(t)
        BY <4>1, <4>2
      <4>7. NB6 - n = NB6 - k - z.len /\ n \in Nat /\ n <= NB6
        BY <1>1, <4>1
      <4>8. /\ Len(f[n]) = Colons(f[n]) + left(n)
            /\ Colons(f[n]) \in Nat /\ Colons(f[n]) <= most(n)
        BY <4>3
      <4> HIDE DEF left, most, open, t, n
      <4>9. Len(t) \in Nat /\ Colons(t) = Len(t)
        BY <4>2
      <4>10. left(n) = left(k) /\ left(k) \in Nat /\ most(n) <= left(k) /\ most(n) \in Nat
        <5>1. NB6 - n \in Nat /\ (n # NB6 => NB6 - n > 0)
          BY <1>1, <4>7
        <5>2. left(n) = NB6 - n /\ left(k) = NB6 - n
          BY <4>5, <4>6, <4>7
        <5>3. most(n) = IF n = NB6 THEN 0 ELSE NB6 - n - 1
          BY <4>5
        <5> QED
          BY <5>1, <5>2, <5>3
      <4>11. Len(f[k]) = Colons(f[k]) + left(k) /\ Colons(f[k]) \in Nat
        BY <4>4, <4>8, <4>9, <4>10
      <4>12. Colons(f[k]) <= most(k)
        BY <4>4, <4>6, <4>8, <4>9, <4>10
      <4> QED
        BY <4>11, <4>12
    <3>2. CASE ~Filled(z, k)
      <4> DEFINE t == BlockText6(b, k)
                 n == k + 1
      <4>1. n \in k + 1..NB6 /\ (open(n) <=> open(k)) /\ (open(k) => n <= z.start /\ n < NB6)
        BY <1>1, <3>2 DEF Filled
      <4>2. /\ t \in Seq(Piece) /\ Len(t) = Colons(t) + 1
            /\ Colons(t) = IF n < NB6 THEN 1 ELSE 0
        <5>1. b \in [0..NB6 - 1 -> Nat] /\ k \in 0..NB6 - 1 /\ (k < NB6 - 1 <=> n < NB6)
          BY <1>1
        <5> QED
          BY <5>1, PieceColons
      <4>3. f[k] = t \o f[n] /\ P(n)
        BY <2>1, <3>2, <4>1 DEF CompactFrom
      <4>4. Len(f[k]) = Len(t) + Colons(f[n]) + left(n) /\ Colons(f[k]) = Colons(t) + Colons(f[n])
        BY <1>2, <4>1, <4>2, <4>3
      <4>5. /\ Len(f[n]) = Colons(f[n]) + left(n)
            /\ Colons(f[n]) \in Nat /\ Colons(f[n]) <= most(n)
        BY <4>3
      <4>6. left(k) = left(n) + 1 /\ left(n) \in Int
        <5>1. CASE open(k)
          <6>1. left(k) = NB6 - k - z.len /\ left(n) = NB6 - n - z.len
            BY <4>1, <5>1
          <6>2. NB6 - k - z.len = NB6 - n - z.len + 1 /\ NB6 - n - z.len \in Int
            BY <1>1
          <6> HIDE DEF left, n
          <6> QED
            BY <6>1, <6>2
        <5>2. CASE ~open(k)
          <6>1. left(k) = NB6 - k /\ left(n) = NB6 - n
            BY <4>1, <5>2
          <6>2. NB6 - k = NB6 - n + 1 /\ NB6 - n \in Int
            BY <1>1
          <6> HIDE DEF left, n
          <6> QED
            BY <6>1, <6>2
        <5> QED
          BY <5>1, <5>2
      <4>7. Colons(t) + most(n) <= most(k) /\ most(n) \in Int /\ most(k) \in Int
        <5>1. CASE open(k)
          <6>1. n # 0 /\ n < NB6
            BY <1>1, <4>1, <5>1
          <6>2. most(k) = left(k) + (IF k = 0 THEN 2 ELSE 1) /\ most(n) = left(n) + 1
            BY <4>1, <5>1, <6>1
          <6> HIDE DEF left, most, open, t, n
          <6> QED
            BY <4>2, <4>6, <6>1, <6>2
        <5>2. CASE ~open(k)
          <6>1. most(k) = NB6 - k - 1 /\ most(n) = IF n = NB6 THEN 0 ELSE NB6 - n - 1
            BY <1>1, <4>1, <5>2
          <6> HIDE DEF most, open, t
          <6> QED
            BY <1>1, <4>1, <4>2, <6>1
        <5> QED
          BY <5>1, <5>2
      <4> HIDE DEF left, most, open, t, n
      <4>8. Len(f[k]) = Colons(f[k]) + left(k) /\ Colons(f[k]) \in Nat
        BY <4>2, <4>4, <4>5, <4>6
      <4>9. Colons(f[k]) <= most(k)
        BY <4>2, <4>4, <4>5, <4>7
      <4> QED
        BY <4>8, <4>9
    <3> QED
      BY <3>1, <3>2
  <2> HIDE DEF P
  <2>3. k \in 0..NB6 /\ \A j \in k..NB6 : j = k \/ j \in k + 1..NB6
    BY <1>1
  <2> QED
    BY <2>1, <2>2, <2>3
<1>5. P(0)
  <2>1. 0 \in 0..NB6
    BY <1>1
  <2>2. 0 \in F
    <3> HIDE DEF F
    <3> QED
      BY <1>1, <1>3, <1>4, <2>1, Downwards
  <2> HIDE DEF P
  <2> QED
    BY <2>1, <2>2
<1>6. open(0) <=> z.len # 0
  OBVIOUS
<1> QED
  BY <1>1, <1>5, <1>6

-----------------------------------------------------------------------------
(***************************************************************************)
(* The compact form of a network: block k is slot NB6 - 1 - k.             *)
(***************************************************************************)
SameBits(w, v, width, other, n) == \A i \in 1..n : w[width - n + i] = v[other - n + i]

LEMMA LowBitsSame ==
  ASSUME NEW w, NEW v, NEW width \in Int, NEW other \in Int, NEW n \in Nat,
         SameBits(w, v, width, other, n)
  PROVE  LowBits(w, width, n) = LowBits(v, other, n)
<1> DEFINE A(g) == [i \in 0..n |-> IF i = 0 THEN 0 ELSE 2 * g[i - 1] + w[width - n + i]]
           B(g) == [i \in 0..n |-> IF i = 0 THEN 0 ELSE 2 * g[i - 1] + v[other - n + i]]
<1>1. \A g : A(g) = B(g)
  <2> TAKE g
  <2>1. \A i \in 0..n : i # 0 => w[width - n + i] = v[other - n + i]
    BY DEF SameBits
  <2> QED
    BY <2>1
<1>2. /\ LowBits(w, width, n) = (CHOOSE g : g = A(g))[n]
      /\ LowBits(v, other, n) = (CHOOSE g : g = B(g))[n]
  BY DEF LowBits
<1> HIDE DEF A, B
<1>3. (CHOOSE g : g = A(g)) = (CHOOSE g : g = B(g))
  BY <1>1
<1> QED
  BY <1>2, <1>3

\* Where a block of a word, and a slot of the whole address, begins.
LEMMA Places ==
  ASSUME NEW k \in 0..NB6 - 1
  PROVE  /\ BB6 * (HALF - k - 1) = C - k * BB6 - BB6
         /\ BB6 * (HALF - (k - HALF) - 1) = 2 * C - k * BB6 - BB6
         /\ 2 * C - (NB6 - 1 - k) * BB6 - BB6 = k * BB6
         /\ k * BB6 \in Nat /\ k * BB6 + BB6 <= 2 * C
         /\ k < HALF => k * BB6 + BB6 <= C
         /\ k >= HALF => k * BB6 >= C
<1>1. HALF \in Nat /\ NB6 = 2 * HALF /\ BB6 \in Nat /\ k \in Nat
  BY Sizes, CFact
<1>2. C = HALF * BB6
  BY NetAssumption
<1>3. PICK h, b : h = HALF /\ b = BB6
  OBVIOUS
<1>4. /\ b * (h - k - 1) = h * b - k * b - b
      /\ b * (h - (k - h) - 1) = 2 * (h * b) - k * b - b
      /\ (2 * h - 1 - k) * b = 2 * (h * b) - k * b - b
      /\ k * b \in Nat
      /\ (k + 1) * b = k * b + b /\ (2 * h) * b = 2 * (h * b)
  BY <1>1, <1>3
<1>5. (k + 1) * b <= (2 * h) * b
  BY <1>1, <1>3, Scaled
<1>6. k < h => (k + 1) * b <= h * b
  BY <1>1, <1>3, Scaled
<1>7. k >= h => h * b <= k * b
  BY <1>1, <1>3, Scaled
<1>8. h * b \in Nat /\ h * b = C /\ b \in Nat
  BY <1>1, <1>2, <1>3
<1>9. PICK p : p = k * b
  OBVIOUS
<1>10. p \in Nat /\ p + b <= 2 * C /\ (k < h => p + b <= C) /\ (k >= h => p >= C)
  BY <1>4, <1>5, <1>6, <1>7, <1>8, <1>9
<1>11. 2 * C - (NB6 - 1 - k) * BB6 - BB6 = p
  BY <1>1, <1>3, <1>4, <1>8, <1>9, <1>10, CFact
<1> QED
  BY <1>1, <1>3, <1>4, <1>8, <1>9, <1>10, <1>11

\* BB6 bits of a word from p on, shifted to its end.
SameBlock(v, q, w, p) == \A i \in 1..BB6 : v[q + i] = w[p + i]

LEMMA ShrBits ==
  ASSUME NEW w \in Word(C), NEW p \in Nat, NEW e \in Nat, e = C - p - BB6,
         BB6 \in Nat, C \in Nat, NEW v, NEW q \in Nat,
         SameBlock(v, q, w, p)
  PROVE  LowBits(Shr(w, e), C, BB6) = LowBits(v, q + BB6, BB6)
<1>1. DOMAIN w = 1..C
  BY DEF Word
<1>2. ASSUME NEW i \in 1..BB6
      PROVE  Shr(w, e)[C - BB6 + i] = v[q + BB6 - BB6 + i]
  <2>1. PICK j : j = C - BB6 + i
    OBVIOUS
  <2>2. j \in 1..C /\ j - e = p + i /\ p + i \in 1..C /\ q + BB6 - BB6 + i = q + i
    BY <2>1
  <2>3. Shr(w, e) = [m \in 1..C |-> IF m - e \in 1..C THEN w[m - e] ELSE 0]
    BY <1>1 DEF Shr
  <2>4. Shr(w, e)[j] = w[p + i]
    BY <2>2, <2>3
  <2> QED
    BY <2>1, <2>2, <2>4 DEF SameBlock
<1>3. PICK u, o : u = Shr(w, e) /\ o = q + BB6
  OBVIOUS
<1>4. SameBits(u, v, C, o, BB6)
  BY <1>2, <1>3 DEF SameBits
<1>5. LowBits(u, C, BB6) = LowBits(v, o, BB6)
  BY <1>3, <1>4, LowBitsSame
<1> QED
  BY <1>3, <1>5

LEMMA BlockIsSlot ==
  ASSUME NEW n, n.type = "v6", n.bits \in ip6_addr_data, NEW k \in 0..NB6 - 1
  PROVE  ip6_addr_data_copy_to_blocks(n.bits)[k] = SlotOf(n, NB6 - 1 - k)
<1> DEFINE high == n.bits.high
           low == n.bits.low
           all == Bits6(n.bits)
<1>1. PICK p : p = k * BB6
  OBVIOUS
<1>2. /\ BB6 * (HALF - k - 1) = C - p - BB6
      /\ BB6 * (HALF - (k - HALF) - 1) = 2 * C - p - BB6
      /\ 2 * C - (NB6 - 1 - k) * BB6 - BB6 = p
      /\ p \in Nat /\ p + BB6 <= 2 * C
      /\ k < HALF => p + BB6 <= C
      /\ k >= HALF => p >= C
  BY <1>1, Places
<1>3. HALF \in Nat /\ C \in Nat /\ BB6 \in Nat /\ k \in Nat /\ NB6 \in Nat
  BY Sizes, CFact, Blocks
<1>4. high \in Word(C) /\ low \in Word(C)
  BY DEF ip6_addr_data
<1>5. \A i \in 1..2 * C : all[i] = IF i <= C THEN high[i] ELSE low[i - C]
  BY DEF Bits6, IP6_MAX_PREFIXLEN
<1>6. ip6_addr_data_copy_to_blocks(n.bits)[k] =
        IF k < HALF THEN Block(high, k) ELSE Block(low, k - HALF)
  BY DEF ip6_addr_data_copy_to_blocks
<1>7. SlotOf(n, NB6 - 1 - k) = LowBits(all, 2 * C - (NB6 - 1 - k) * BB6, BB6)
  BY DEF SlotOf, BitsOf, MaxLen
<1> HIDE DEF high, low, all
<1>8. 2 * C - (NB6 - 1 - k) * BB6 = p + BB6
  <2>1. PICK m : m = (NB6 - 1 - k) * BB6
    OBVIOUS
  <2>2. m \in Int
    BY <1>3, <2>1
  <2> QED
    BY <1>2, <1>3, <2>1, <2>2
<1>9. CASE k < HALF
  <2>1. PICK e : e = BB6 * (HALF - k - 1)
    OBVIOUS
  <2>2. e \in Nat /\ e = C - p - BB6
    BY <1>2, <1>3, <1>9, <2>1
  <2>3. ASSUME NEW i \in 1..BB6 PROVE all[p + i] = high[p + i]
    <3>1. PICK j : j = p + i
      OBVIOUS
    <3>2. j \in 1..2 * C /\ j <= C
      BY <1>2, <1>3, <1>9, <3>1
    <3> QED
      BY <1>5, <3>1, <3>2
  <2>5. SameBlock(all, p, high, p)
    BY <2>3 DEF SameBlock
  <2>4. LowBits(Shr(high, e), C, BB6) = LowBits(all, p + BB6, BB6)
    BY <1>2, <1>3, <1>4, <2>2, <2>5, ShrBits
  <2> QED
    BY <1>6, <1>7, <1>8, <1>9, <2>1, <2>4 DEF Block
<1>10. CASE ~(k < HALF)
  <2>1. PICK e, r : e = BB6 * (HALF - (k - HALF) - 1) /\ r = p - C
    OBVIOUS
  <2>2. e \in Nat /\ r \in Nat /\ e = C - r - BB6
    BY <1>2, <1>3, <1>10, <2>1
  <2>3. ASSUME NEW i \in 1..BB6 PROVE all[p + i] = low[r + i]
    <3>1. PICK j : j = p + i
      OBVIOUS
    <3>2. j \in 1..2 * C /\ ~(j <= C) /\ j - C = r + i
      BY <1>2, <1>3, <2>1, <2>2, <3>1
    <3> QED
      BY <1>5, <3>1, <3>2
  <2>5. SameBlock(all, p, low, r)
    BY <2>3 DEF SameBlock
  <2>4. LowBits(Shr(low, e), C, BB6) = LowBits(all, p + BB6, BB6)
    BY <1>2, <1>3, <1>4, <2>2, <2>5, ShrBits
  <2> QED
    BY <1>6, <1>7, <1>8, <1>10, <2>1, <2>4 DEF Block
<1> QED
  BY <1>9, <1>10

-----------------------------------------------------------------------------
(***************************************************************************)
(* The line that was printed.                                              *)
(***************************************************************************)
\* The address of a line is what precedes the last slash: it has no slash of its own.
NoSlash(a) == \A i \in 1..Len(a) : a[i] # SLASH

LEMMA BareLine ==
  ASSUME NEW a \in Seq(Token), NoSlash(a)
  PROVE  AddrPart(a) = a /\ ~HasSlash(a)
BY DEF AddrPart, LastSlash, HasSlash, NoSlash

LEMMA SlashedLine ==
  ASSUME NEW a \in Seq(Token), NoSlash(a), NEW v \in Nat,
         NEW t, t = a \o <<SLASH, DecText(v)>>
  PROVE  /\ t \in Seq(Token) /\ AddrPart(t) = a /\ HasSlash(t) /\ LastSlash(t) = Len(t) - 1
         /\ Len(t) = Len(a) + 2 /\ t[Len(t)] = DecText(v)
<1>1. Len(a) \in Nat /\ \A i \in 1..Len(a) : a[i] # SLASH
  BY LenProperties DEF NoSlash
<1>2. DecText(v) # SLASH /\ DecText(v) \in Token
  BY NumberText DEF DecText, SLASH
<1>3. <<SLASH, DecText(v)>> \in Seq(Token) /\ Len(<<SLASH, DecText(v)>>) = 2
  BY <1>2, Separators
<1>4. /\ t \in Seq(Token) /\ Len(t) = Len(a) + 2
      /\ \A i \in 1..Len(a) + 2 :
           t[i] = IF i <= Len(a) THEN a[i] ELSE <<SLASH, DecText(v)>>[i - Len(a)]
  BY <1>1, <1>3, ConcatProperties
<1>5. t[Len(a) + 1] = SLASH /\ t[Len(a) + 2] = DecText(v) /\ \A i \in 1..Len(a) : t[i] = a[i]
  <2>1. Len(a) + 1 - Len(a) = 1 /\ Len(a) + 2 - Len(a) = 2
    BY <1>1
  <2> QED
    BY <1>1, <1>4, <2>1
<1>6. HasSlash(t)
  <2>1. Len(a) + 1 \in 1..Len(t)
    BY <1>1, <1>4
  <2> QED
    BY <1>5, <2>1 DEF HasSlash
<1>7. PICK m : m = AddrLen(t)
  OBVIOUS
<1>8. /\ m \in 0..Len(t) /\ Len(AddrPart(t)) = m /\ AddrPart(t) \in Seq(Token)
      /\ \A i \in 1..m : AddrPart(t)[i] = t[i]
      /\ LastSlash(t) = m + 1 /\ t[m + 1] = SLASH /\ m + 1 <= Len(t)
      /\ \A j \in 1..Len(t) : t[j] = SLASH => j <= m + 1
  BY <1>4, <1>6, <1>7, AddrPartIs
<1>9. m = Len(a)
  <2>1. PICK l : l = Len(a) /\ Len(t) = l + 2
    BY <1>4
  <2>2. l \in Nat /\ t[l + 1] = SLASH /\ t[l + 2] # SLASH
    BY <1>1, <1>2, <1>5, <2>1
  <2>3. m \in 0..l + 2 /\ t[m + 1] = SLASH /\ m + 1 <= l + 2
        /\ \A j \in 1..l + 2 : t[j] = SLASH => j <= m + 1
    BY <1>8, <2>1
  <2>4. l + 1 \in 1..l + 2
    BY <2>2
  <2>5. l + 1 <= m + 1
    BY <2>2, <2>3, <2>4
  <2>6. m + 1 # l + 2
    BY <2>2, <2>3
  <2>7. m = l
    BY <2>2, <2>3, <2>5, <2>6
  <2> QED
    BY <2>1, <2>7
<1>10. AddrPart(t) = a
  <2>1. Len(AddrPart(t)) = Len(a) /\ \A i \in 1..Len(a) : AddrPart(t)[i] = a[i]
    BY <1>5, <1>8, <1>9
  <2> QED
    BY <1>1, <1>8, <2>1, SeqEqual
<1>11. LastSlash(t) = Len(t) - 1
  <2>1. PICK l, x, z : l = Len(a) /\ x = Len(t) /\ z = LastSlash(t)
    OBVIOUS
  <2>2. l \in Nat /\ x = l + 2 /\ z = l + 1
    BY <1>1, <1>4, <1>8, <1>9, <2>1
  <2>3. z = x - 1
    BY <2>2
  <2> QED
    BY <2>1, <2>3
<1> QED
  BY <1>4, <1>5, <1>6, <1>10, <1>11

LEMMA PrintedAddr ==
  ASSUME NEW a \in Seq(Piece), NEW v \in Nat
  PROVE  AddrPart(a) = a /\ AddrPart(a \o <<SLASH, DecText(v)>>) = a
<1>1. Piece \subseteq Token /\ SLASH \notin Piece
  BY PieceIs
<1>2. a \in Seq(Token) /\ \A i \in 1..Len(a) : a[i] \in Piece
  BY <1>1, LenProperties, ElementOfSeq
<1>3. NoSlash(a)
  BY <1>1, <1>2 DEF NoSlash
<1> QED
  BY <1>2, <1>3, BareLine, SlashedLine

\* Which line is read.
PrintedInv ==
  /\ pc = "idle" => net = None
  /\ pc = "split" /\ net # None =>
       \E f \in Forms, redux \in BOOLEAN :
         /\ net \in Nets4 \union Nets6 /\ text = NetText(net, f, redux)
         /\ form.long <=> f = "long"

LEMMA ParseNextSplits == ParseNext => pc' \notin {"idle", "split"}
BY DEF ParseNext, SplitFails, SplitPrefixlen, GuessType, Skip4, Start4, TooManyBlocks4, BadBlock4,
       Block4, EndBlocks4, Skip6, Start6, TooManyBlocks6, BadBlock6, SecondDoubleColon, Block6,
       EndBlocks6, Done4, Done6

LEMMA PrintedInvInit == Init => PrintedInv
BY DEF Init, ParseInit, PrintedInv

LEMMA PrintedInvStep == PrintedInv /\ [Next]_vars => PrintedInv'
<1> SUFFICES ASSUME PrintedInv, [Next]_vars PROVE PrintedInv'
  OBVIOUS
<1>1. ASSUME NEW l, NEW m, ReadLine(l, m) PROVE PrintedInv'
  BY <1>1 DEF ReadLine, Parse, PrintedInv
<1>2. ASSUME NEW l, NEW m, ReadNextLine(l, m) PROVE PrintedInv'
  BY <1>2 DEF ReadNextLine, Parse, PrintedInv
<1>3. ASSUME NEW n \in Nets4 \union Nets6, NEW f \in Forms, NEW redux \in BOOLEAN, NEW m,
             PrintLine(n, f, redux, m)
      PROVE  PrintedInv'
  <2>1. /\ pc' = "split" /\ text' = NetText(n, f, redux) /\ net' = n
        /\ form' = [long |-> f = "long", redux |-> redux]
    BY <1>3 DEF PrintLine, Parse
  <2>2. form'.long <=> f = "long"
    BY <2>1
  <2>3. text' = NetText(net', f, redux) /\ net' \in Nets4 \union Nets6
    BY <2>1
  <2> QED
    BY <2>1, <2>2, <2>3 DEF PrintedInv
<1>4. ASSUME NEW n, PrintJson(n) PROVE PrintedInv'
  BY <1>4 DEF PrintJson, PrintedInv
<1>5. CASE ParseNext
  BY <1>5, ParseNextSplits DEF PrintedInv
<1>6. CASE UNCHANGED vars
  BY <1>6 DEF vars, parseVars, PrintedInv
<1> QED
  BY <1>1, <1>2, <1>3, <1>4, <1>5, <1>6 DEF Next

\* The address that was printed is the compact form of its blocks.
LEMMA CompactLine ==
  ASSUME PrintedInv, pc = "split", net # None, net.type = "v6", ~form.long
  PROVE  /\ net.bits \in ip6_addr_data
         /\ \E b, z, f :
              /\ b \in [0..NB6 - 1 -> Nat]
              /\ b = ip6_addr_data_copy_to_blocks(net.bits) /\ Longest(b, z, NB6)
              /\ CompactFrom(b, z, f) /\ AddrPart(text) = f[0] /\ f[0] \in Seq(Piece)
<1>1. PICK g \in Forms, redux \in BOOLEAN :
        /\ net \in Nets4 \union Nets6 /\ text = NetText(net, g, redux) /\ g # "long"
  BY DEF PrintedInv
<1>2. net \in Nets6 /\ net.bits \in ip6_addr_data /\ net.len \in Nat
  BY <1>1, NetAssumption, CFact
<1>3. PICK b \in [0..NB6 - 1 -> Nat] : b = ip6_addr_data_copy_to_blocks(net.bits)
  BY <1>2, BlocksNat
<1>4. PICK z : z = ip6_addr_data_find_longest_zero_seq(b)
  OBVIOUS
<1>5. Longest(b, z, NB6)
  BY <1>4, ZeroSeqIs
<1>6. z.start \in Nat /\ z.len \in Nat /\ z.start + z.len <= NB6
  BY <1>5 DEF Longest
<1>7. PICK f : f[0] = ip6_addr_data_build_addr_str(b, z) /\ CompactFrom(b, z, f)
  BY <1>6, CompactIs
<1>8. f[0] \in Seq(Piece)
  <2>1. 0 \in 0..NB6
    BY Blocks
  <2> QED
    BY <1>7, <2>1 DEF CompactFrom
<1>9. AddrText(net, g) = f[0]
  BY <1>1, <1>3, <1>4, <1>7 DEF AddrText, ip6_addr_data_into_str
<1>10. AddrPart(text) = f[0]
  <2>1. text = f[0] \/ text = f[0] \o <<SLASH, DecText(net.len)>>
    BY <1>1, <1>9 DEF NetText
  <2> QED
    BY <1>2, <1>8, <2>1, PrintedAddr
<1> QED
  BY <1>2, <1>3, <1>5, <1>7, <1>8, <1>10

\* A run of zero slots is a run of zero blocks, from its other end.
LEMMA RunIs ==
  ASSUME NEW n, n.type = "v6", n.bits \in ip6_addr_data, NEW b,
         b = ip6_addr_data_copy_to_blocks(n.bits),
         NEW i \in 0..NB6 - 1, NEW j \in 0..NB6 - 1
  PROVE  ZeroRun(n, i, j) <=> ZeroBlocks(b, NB6 - 1 - j, NB6 - 1 - i)
<1>1. NB6 \in Nat
  BY Blocks
<1>2. ASSUME ZeroRun(n, i, j), NEW k \in NB6 - 1 - j..NB6 - 1 - i PROVE b[k] = 0
  <2>1. k \in 0..NB6 - 1 /\ NB6 - 1 - k \in i..j
    BY <1>1
  <2> QED
    BY <1>2, <2>1, BlockIsSlot DEF ZeroRun
<1>3. ASSUME ZeroBlocks(b, NB6 - 1 - j, NB6 - 1 - i), NEW s \in i..j PROVE SlotOf(n, s) = 0
  <2>1. PICK k : k = NB6 - 1 - s
    OBVIOUS
  <2>2. k \in 0..NB6 - 1 /\ k \in NB6 - 1 - j..NB6 - 1 - i /\ NB6 - 1 - k = s
    BY <1>1, <2>1
  <2> QED
    BY <1>3, <2>2, BlockIsSlot DEF ZeroBlocks
<1> QED
  BY <1>2, <1>3 DEF ZeroRun, ZeroBlocks

LEMMA CompactTold == PrintedInv => CompactText
<1> SUFFICES ASSUME PrintedInv, pc = "split", net # None, net.type = "v6", ~form.long
             PROVE  LET a == AddrPart(text)
                        written == Cardinality({i \in DOMAIN a : a[i] # COLON}) IN
                    /\ 4 * written + (Len(a) - written) <= 4 * NB6 + (NB6 - 1)
                    /\ \A i \in Slots("v6") : \A j \in i..NB6 - 1 :
                         ZeroRun(net, i, j) => written <= NB6 - (j - i + 1)
                    /\ written < NB6 =>
                         \E i \in 0..written : ZeroRun(net, i, i + (NB6 - written - 1))
  BY DEF CompactText
<1>1. net.bits \in ip6_addr_data
  BY CompactLine
<1>2. PICK b, z, f :
        /\ b \in [0..NB6 - 1 -> Nat]
        /\ b = ip6_addr_data_copy_to_blocks(net.bits) /\ Longest(b, z, NB6)
        /\ CompactFrom(b, z, f) /\ AddrPart(text) = f[0] /\ f[0] \in Seq(Piece)
  BY CompactLine
<1>3. PICK a, w : a = AddrPart(text) /\ w = Cardinality({i \in DOMAIN a : a[i] # COLON})
  OBVIOUS
<1>4. z.start \in Nat /\ z.len \in Nat /\ z.start + z.len <= NB6 /\ NB6 \in Nat /\ NB6 > 0
  BY <1>2, Blocks DEF Longest
<1>5. w = NB6 - z.len
  BY <1>2, <1>3, <1>4, WrittenIs, CompactCounts
<1>6. Len(a) - w = Colons(a) /\ Colons(a) \in Nat
  <2>1. Len(a) \in Nat
    BY <1>2, <1>3, LenProperties
  <2>2. w = Len(a) - Colons(a) /\ Colons(a) \in Nat
    BY <1>2, <1>3, <1>4, WrittenIs, CompactCounts
  <2> QED
    BY <2>1, <2>2
<1>7. Colons(a) <= IF z.len = 0 THEN NB6 - 1 ELSE NB6 - z.len + 2
  BY <1>2, <1>3, <1>4, CompactCounts
<1>8. 4 * w + (Len(a) - w) <= 4 * NB6 + (NB6 - 1)
  <2>1. PICK l, c : l = z.len /\ c = Colons(a)
    OBVIOUS
  <2>2. /\ l \in Nat /\ l <= NB6 /\ c \in Nat /\ w = NB6 - l
        /\ c <= IF l = 0 THEN NB6 - 1 ELSE NB6 - l + 2
    BY <1>4, <1>5, <1>6, <1>7, <2>1
  <2>3. 4 * w + c <= 4 * NB6 + (NB6 - 1)
    BY <1>4, <2>2
  <2> QED
    BY <1>6, <2>1, <2>3
<1>9. ASSUME NEW i \in 0..NB6 - 1, NEW j \in i..NB6 - 1, ZeroRun(net, i, j)
      PROVE  w <= NB6 - (j - i + 1)
  <2>1. PICK p, q : p = NB6 - 1 - j /\ q = NB6 - 1 - i
    OBVIOUS
  <2>2. p \in 0..NB6 - 1 /\ q \in 0..NB6 - 1 /\ p <= q /\ j \in 0..NB6 - 1 /\ q - p = j - i
    BY <1>4, <2>1
  <2>3. ZeroBlocks(b, p, q)
    BY <1>1, <1>2, <1>9, <2>1, <2>2, RunIs
  <2>4. q - p + 1 <= z.len
    <3>1. q - p + 1 < z.len \/ q - p + 1 = z.len
      BY <1>2, <2>2, <2>3 DEF Longest
    <3> QED
      BY <1>4, <2>2, <3>1
  <2> QED
    BY <1>4, <1>5, <2>2, <2>4
<1>10. ASSUME w < NB6 PROVE \E i \in 0..w : ZeroRun(net, i, i + (NB6 - w - 1))
  <2>1. PICK p, l : p = z.start /\ l = z.len
    OBVIOUS
  <2>2. PICK i, j : i = NB6 - p - l /\ j = NB6 - 1 - p
    OBVIOUS
  <2>3. p \in Nat /\ l \in Nat /\ p + l <= NB6 /\ w = NB6 - l /\ l > 0
    BY <1>4, <1>5, <1>10, <2>1
  <2>4. i \in 0..w /\ i \in 0..NB6 - 1 /\ j \in 0..NB6 - 1 /\ j = i + (NB6 - w - 1)
    BY <1>4, <2>2, <2>3
  <2>5. NB6 - 1 - j = p /\ NB6 - 1 - i = p + l - 1
    BY <1>4, <2>2, <2>3
  <2>6. /\ i \in 0..w /\ i \in 0..NB6 - 1 /\ j \in 0..NB6 - 1 /\ j = i + (NB6 - w - 1)
        /\ NB6 - 1 - j = z.start /\ NB6 - 1 - i = z.start + z.len - 1
    BY <2>1, <2>4, <2>5
  <2>7. ZeroBlocks(b, z.start, z.start + z.len - 1)
    BY <1>2 DEF Longest
  <2>8. ZeroRun(net, i, j)
    BY <1>1, <1>2, <2>6, <2>7, RunIs
  <2> QED
    BY <2>6, <2>8
<1> QED
  BY <1>3, <1>8, <1>9, <1>10 DEF Slots

\* The compact form of an IPv6 address fits the buffer of IP6_ADDR_STR_BUF_SIZE (base.h:15-24),
\* and its "::" stands for as many blocks as the longest run of zero blocks of the address
\* has (base.c:182-257, print_ip.c): for every number and size of blocks and every set of
\* networks.
THEOREM CompactIsRight == Spec => []CompactText
BY CompactTold, PrintedInvInit, PrintedInvStep, PTL DEF Spec

-----------------------------------------------------------------------------
(***************************************************************************)
(* The number in the bits of a word: below a power of two, and zero when   *)
(* all of them are.                                                        *)
(***************************************************************************)
\* The number in up to sixteen bits is below the power of two.
Power == <<1, 2, 4, 8, 16, 32, 64, 128, 256, 512, 1024, 2048, 4096, 8192, 16384, 32768, 65536>>

LEMMA Powers ==
  /\ \A i \in 0..16 : Power[i + 1] \in Nat /\ Power[i + 1] <= 65536
  /\ \A i \in 0..8 : Power[i + 1] <= 256
  /\ \A i \in 1..16 : Power[i + 1] = 2 * Power[i]
  /\ Power[1] = 1
<1>1. \A i \in 0..16 : i \in {0, 1, 2, 3, 4, 5, 6, 7, 8, 9, 10, 11, 12, 13, 14, 15, 16}
  OBVIOUS
<1> QED
  BY <1>1 DEF Power

LEMMA BelowPower ==
  ASSUME NEW v \in Nat, NEW p \in Nat, v < p, p <= 65536, NEW n \in Nat, n <= 8 => p <= 256
  PROVE  v \in 0..DOUBLE_OCTET_MAX /\ (n <= 8 => v \in 0..OCTET_MAX)
<1>1. DOUBLE_OCTET_MAX \in Nat /\ DOUBLE_OCTET_MAX + 1 = 65536
  BY DEF DOUBLE_OCTET_MAX
<1>2. OCTET_MAX \in Nat /\ OCTET_MAX + 1 = 256
  BY DEF OCTET_MAX
<1> QED
  BY <1>1, <1>2

LEMMA LowBitsSmall ==
  ASSUME NEW width \in Nat, NEW w \in Word(width), NEW n \in 0..width
  PROVE  /\ n <= 8 => LowBits(w, width, n) \in 0..OCTET_MAX
         /\ n <= 16 => LowBits(w, width, n) \in 0..DOUBLE_OCTET_MAX
<1>1. PICK f : BitsRead(w, width, n, f) /\ LowBits(w, width, n) = f[n]
  BY LowBitsIs
<1>2. CASE n <= 16
  <2> DEFINE S == {i \in 0..n : f[i] < Power[i + 1]}
  <2>1. n \in Nat /\ 0 \in S
    BY <1>1, Powers DEF BitsRead
  <2>2. ASSUME NEW i \in 1..n, i - 1 \in S PROVE i \in S
    <3>1. f[i - 1] < Power[i] /\ f[i - 1] \in Nat /\ i \in 1..16
      BY <1>1, <1>2, <2>2 DEF BitsRead
    <3>2. PICK bit \in {0, 1} : f[i] = 2 * f[i - 1] + bit
      BY <1>1 DEF BitsRead
    <3>3. Power[i + 1] = 2 * Power[i] /\ Power[i] \in Nat
      <4>1. i - 1 \in 0..16 /\ i - 1 + 1 = i
        BY <3>1
      <4> QED
        BY <3>1, <4>1, Powers
    <3> HIDE DEF BitsRead
    <3>4. f[i] < Power[i + 1]
      BY <3>1, <3>2, <3>3
    <3> QED
      BY <3>4
  <2>3. n \in S
    <3> HIDE DEF S
    <3> QED
      BY <2>1, <2>2, Upwards
  <2>4. f[n] < Power[n + 1] /\ f[n] \in Nat /\ n \in 0..16
    BY <1>1, <1>2, <2>3 DEF BitsRead
  <2>5. Power[n + 1] \in Nat /\ Power[n + 1] <= 65536 /\ (n <= 8 => Power[n + 1] <= 256)
    BY <2>4, Powers
  <2> HIDE DEF S
  <2>6. f[n] \in 0..DOUBLE_OCTET_MAX /\ (n <= 8 => f[n] \in 0..OCTET_MAX)
    BY <2>4, <2>5, BelowPower
  <2> QED
    BY <1>1, <2>6
<1> QED
  BY <1>2

\* No bit, no number.
LEMMA LowBitsZero ==
  ASSUME NEW width \in Nat, NEW w \in Word(width), NEW n \in 0..width,
         \A i \in 1..width : w[i] = 0
  PROVE  LowBits(w, width, n) = 0
<1>1. PICK f : BitsRead(w, width, n, f) /\ LowBits(w, width, n) = f[n]
  BY LowBitsIs
<1> DEFINE S == {i \in 0..n : f[i] = 0}
<1>2. n \in Nat /\ 0 \in S
  BY <1>1 DEF BitsRead
<1>3. ASSUME NEW i \in 1..n, i - 1 \in S PROVE i \in S
  <2>1. PICK p : p = width - n + i
    OBVIOUS
  <2>2. p \in 1..width
    BY <2>1
  <2>3. f[i] = 2 * f[i - 1] + w[p] /\ w[p] = 0 /\ f[i - 1] = 0
    BY <1>1, <1>3, <2>1, <2>2 DEF BitsRead
  <2> QED
    BY <2>3
<1> HIDE DEF S
<1>4. n \in S
  BY <1>2, <1>3, Upwards
<1> QED
  BY <1>1, <1>4 DEF S

-----------------------------------------------------------------------------
(***************************************************************************)
(* Rows: blocks of a text with a separator between each two of them, from  *)
(* a position on, as print_ip.c prints them; and how many separators there *)
(* are before and behind each block.                                       *)
(***************************************************************************)
\* Behind position o, t has n blocks, from w[k] on, and c between two of them.
Row(t, o, w, k, n, c) ==
  /\ o \in Nat /\ n \in Nat
  /\ \A m \in 0..n - 1 : t[o + 2 * m + 1] = w[k + m] /\ w[k + m] # c
  /\ \A m \in 1..n - 1 : t[o + 2 * m] = c

\* What is found in a row, and how many separators there are before and behind
\* a block.
RowBlock(t, o, w, k, n, c, i) ==
  \E m \in 0..n - 1 : /\ i = o + 2 * m + 1 /\ t[i] = w[k + m] /\ t[i] # c
                      /\ Count(t, c, o + 1, i) = m /\ Count(t, c, i, o + 2 * n - 1) = n - 1 - m

RowSeparator(t, o, n, c, i) == \E m \in 1..n - 1 : i = o + 2 * m /\ t[i] = c

RowRead(t, o, w, k, n, c) ==
  /\ \A m \in 0..n - 1 : RowBlock(t, o, w, k, n, c, o + 2 * m + 1)
  /\ \A i \in o + 1..o + 2 * n - 1 :
       RowBlock(t, o, w, k, n, c, i) \/ RowSeparator(t, o, n, c, i)

LEMMA RowIs ==
  ASSUME NEW t, NEW o, NEW w, NEW k, NEW n, NEW c, Row(t, o, w, k, n, c)
  PROVE  RowRead(t, o, w, k, n, c)
<1> DEFINE i == o + 1
           e == o + 2 * n - 1
           S == {j \in 0..n - 1 : Count(t, c, i, o + 2 * j + 1) = j}
<1>1. /\ o \in Nat /\ n \in Nat
      /\ \A m \in 0..n - 1 : t[o + 2 * m + 1] = w[k + m] /\ w[k + m] # c
      /\ \A m \in 1..n - 1 : t[o + 2 * m] = c
  BY DEF Row
<1>2. i \in Int /\ i = o + 1 /\ e \in Int /\ e = o + 2 * n - 1
  BY <1>1
<1> HIDE DEF i, e
<1>3. 0 \in 0..n - 1 => 0 \in S
  <2> SUFFICES ASSUME 0 \in 0..n - 1 PROVE 0 \in S
    OBVIOUS
  <2>1. o + 2 * 0 + 1 = i
    BY <1>1, <1>2
  <2>2. t[i] # c
    BY <1>1, <2>1
  <2>3. Count(t, c, i, i) = 0
    BY <1>2, <2>2, CountOne
  <2> QED
    BY <2>1, <2>3
<1>4. ASSUME NEW j \in 1..n - 1, j - 1 \in S PROVE j \in S
  <2>1. PICK p : p = o + 2 * j + 1
    OBVIOUS
  <2>2. p \in Int /\ p - 1 \in Int /\ i <= p /\ i <= p - 1 /\ j \in 0..n - 1
    BY <1>1, <1>2, <2>1
  <2>3. t[p] # c
    BY <1>1, <2>1, <2>2
  <2>4. t[p - 1] = c
    <3>1. t[o + 2 * j] = c /\ p - 1 = o + 2 * j
      BY <1>1, <2>1
    <3> QED
      BY <3>1
  <2>5. Count(t, c, i, p) = Count(t, c, i, p - 1) + IF t[p] = c THEN 1 ELSE 0
    BY <1>2, <2>2, CountNext
  <2>6. Count(t, c, i, p - 1) = Count(t, c, i, p - 1 - 1) + IF t[p - 1] = c THEN 1 ELSE 0
    BY <1>2, <2>2, CountNext
  <2>7. Count(t, c, i, p - 1 - 1) = j - 1
    <3>1. Count(t, c, i, o + 2 * (j - 1) + 1) = j - 1 /\ o + 2 * (j - 1) + 1 = p - 1 - 1
      BY <1>1, <1>4, <2>1
    <3> QED
      BY <3>1
  <2>8. Count(t, c, i, p) = j
    BY <2>3, <2>4, <2>5, <2>6, <2>7
  <2> QED
    BY <2>1, <2>2, <2>8
<1>5. ASSUME NEW m \in 0..n - 1 PROVE Count(t, c, i, o + 2 * m + 1) = m
  <2>1. n - 1 \in Nat /\ 0 \in 0..n - 1
    BY <1>1
  <2> HIDE DEF S
  <2>2. 0 \in S
    BY <1>3, <2>1
  <2>3. m \in S
    BY <1>4, <2>1, <2>2, Upwards
  <2> QED
    BY <2>3 DEF S
<1>6. ASSUME NEW m \in 0..n - 1 PROVE Count(t, c, o + 2 * m + 1, e) = n - 1 - m
  <2>1. PICK p : p = o + 2 * m + 1
    OBVIOUS
  <2>2. /\ p \in Int /\ p - 1 \in Int /\ i <= p /\ i <= p - 1 + 1
        /\ p - 1 <= e /\ p - 1 + 1 = p
    BY <1>1, <1>2, <2>1
  <2>3. Count(t, c, i, p) = m
    BY <1>5, <2>1
  <2>4. Count(t, c, i, e) = n - 1
    <3>1. n - 1 \in 0..n - 1 /\ o + 2 * (n - 1) + 1 = e
      BY <1>1, <1>2
    <3>2. Count(t, c, i, o + 2 * (n - 1) + 1) = n - 1
      BY <1>5, <3>1
    <3> QED
      BY <3>1, <3>2
  <2>5. t[p] # c
    BY <1>1, <2>1
  <2>6. Count(t, c, i, p) = Count(t, c, i, p - 1) + IF t[p] = c THEN 1 ELSE 0
    BY <1>2, <2>2, CountNext
  <2>7. Count(t, c, i, p - 1) \in Nat /\ Count(t, c, p, e) \in Nat
    BY <1>2, <2>2, CountNat
  <2>8. Count(t, c, i, e) = Count(t, c, i, p - 1) + Count(t, c, p - 1 + 1, e)
    BY <1>2, <2>2, CountSplit
  <2>9. Count(t, c, p, e) = n - 1 - m
    BY <1>1, <2>2, <2>3, <2>4, <2>5, <2>6, <2>7, <2>8
  <2> QED
    BY <2>1, <2>9
<1>7. ASSUME NEW m \in 0..n - 1 PROVE RowBlock(t, o, w, k, n, c, o + 2 * m + 1)
  <2>1. t[o + 2 * m + 1] = w[k + m] /\ w[k + m] # c
    BY <1>1
  <2>2. Count(t, c, o + 1, o + 2 * m + 1) = m
    BY <1>5 DEF i
  <2>3. Count(t, c, o + 2 * m + 1, o + 2 * n - 1) = n - 1 - m
    BY <1>6 DEF e
  <2> QED
    BY <2>1, <2>2, <2>3 DEF RowBlock
<1>8. ASSUME NEW j \in o + 1..o + 2 * n - 1
      PROVE  RowBlock(t, o, w, k, n, c, j) \/ RowSeparator(t, o, n, c, j)
  <2>1. PICK m \in Nat : j - o = 2 * m \/ j - o = 2 * m + 1
    <3>1. j - o \in Nat
      BY <1>1
    <3>2. /\ (j - o) \div 2 \in Nat
          /\ j - o = 2 * ((j - o) \div 2) \/ j - o = 2 * ((j - o) \div 2) + 1
      BY <3>1
    <3> QED
      BY <3>2
  <2>2. CASE j - o = 2 * m
    <3>1. m \in 1..n - 1 /\ j = o + 2 * m
      BY <1>1, <2>2
    <3> QED
      BY <1>1, <3>1 DEF RowSeparator
  <2>3. CASE j - o = 2 * m + 1
    <3>1. m \in 0..n - 1 /\ j = o + 2 * m + 1
      BY <1>1, <2>3
    <3> QED
      BY <1>7, <3>1
  <2> QED
    BY <2>1, <2>2, <2>3
<1> QED
  BY <1>7, <1>8 DEF RowRead

-----------------------------------------------------------------------------
\* A row of octets is an IPv4 address of NB4 octets.
LEMMA Row4Means ==
  ASSUME NEW v \in [0..NB4 - 1 -> 0..OCTET_MAX], NEW w, \A k \in 0..NB4 - 1 : w[k] = DecText(v[k]),
         NEW a \in Seq(Token), Len(a) = 2 * NB4 - 1, Row(a, 0, w, 0, NB4, DOT)
  PROVE  IsText4(a) /\ \A s \in 0..NB4 - 1 : Slot4(a, s) = v[NB4 - 1 - s]
<1>0. NB4 \in Nat /\ NB4 > 0 /\ DOMAIN a = 1..Len(a)
  BY Blocks, LenProperties
<1>1. \A k \in 0..NB4 - 1 : w[k].dec = v[k]
  <2>1. \A x : DecText(x).dec = x
    BY DEF DecText
  <2> QED
    BY <2>1
<1>2. ASSUME NEW i \in 1..2 * NB4 - 1
      PROVE  \/ \E m \in 0..NB4 - 1 : i = 2 * m + 1 /\ a[i].dec = v[m] /\ a[i] # DOT
                                      /\ Count(a, DOT, 1, i) = m
             \/ \E m \in 1..NB4 - 1 : i = 2 * m /\ a[i] = DOT
  <2>1. RowRead(a, 0, w, 0, NB4, DOT)
    BY RowIs
  <2>2. RowBlock(a, 0, w, 0, NB4, DOT, i) \/ RowSeparator(a, 0, NB4, DOT, i)
    <3>1. i \in 0 + 1..0 + 2 * NB4 - 1
      BY <1>0
    <3> QED
      BY <2>1, <3>1 DEF RowRead
  <2>3. CASE RowBlock(a, 0, w, 0, NB4, DOT, i)
    <3>1. PICK m \in 0..NB4 - 1 : /\ i = 0 + 2 * m + 1 /\ a[i] = w[0 + m] /\ a[i] # DOT
                                  /\ Count(a, DOT, 0 + 1, i) = m
      BY <2>3 DEF RowBlock
    <3>2. 0 + 1 = 1 /\ i = 2 * m + 1 /\ 0 + m = m
      BY <3>1
    <3> QED
      BY <1>1, <3>1, <3>2
  <2>4. CASE RowSeparator(a, 0, NB4, DOT, i)
    BY <2>4 DEF RowSeparator
  <2> QED
    BY <2>2, <2>3, <2>4
<1>3. IsText4(a)
  <2>1. ASSUME NEW i \in 1..2 * NB4 - 1
        PROVE  IF i % 2 = 0 THEN a[i] = DOT ELSE a[i].dec \in 0..OCTET_MAX
    <3>1. CASE \E m \in 0..NB4 - 1 : i = 2 * m + 1 /\ a[i].dec = v[m]
      <4>1. PICK m \in 0..NB4 - 1 : i = 2 * m + 1 /\ a[i].dec = v[m]
        BY <3>1
      <4>2. i % 2 = 1
        BY <1>0, <4>1
      <4> QED
        BY <4>1, <4>2
    <3>2. CASE \E m \in 1..NB4 - 1 : i = 2 * m /\ a[i] = DOT
      <4>1. i % 2 = 0
        BY <1>0, <3>2
      <4> QED
        BY <3>2, <4>1
    <3> QED
      BY <1>2, <3>1, <3>2
  <2>2. a # << >> /\ Len(a) < 2 * NB4
    BY <1>0, EmptySeq
  <2> QED
    BY <1>0, <2>1, <2>2 DEF IsText4
<1>4. ASSUME NEW s \in 0..NB4 - 1 PROVE Slot4(a, s) = v[NB4 - 1 - s]
  <2> DEFINE here == {i \in DOMAIN a : a[i] # DOT /\ Count(a, DOT, 1, i) = NB4 - 1 - s}
  <2>1. PICK q : q = NB4 - 1 - s
    OBVIOUS
  <2>2. q \in 0..NB4 - 1 /\ 2 * q + 1 \in 1..2 * NB4 - 1
    BY <1>0, <2>1
  <2>3. 2 * q + 1 \in here /\ a[2 * q + 1].dec = v[q]
    <3>1. PICK i : i = 2 * q + 1
      OBVIOUS
    <3>2. ~ \E m \in 1..NB4 - 1 : i = 2 * m
      BY <2>2, <3>1
    <3>3. PICK m \in 0..NB4 - 1 : i = 2 * m + 1 /\ a[i].dec = v[m] /\ a[i] # DOT
                                  /\ Count(a, DOT, 1, i) = m
      BY <1>2, <2>2, <3>1, <3>2
    <3>4. m = q
      BY <2>2, <3>1, <3>3
    <3> QED
      BY <1>0, <2>1, <2>2, <3>1, <3>3, <3>4
  <2>4. ASSUME NEW i \in here PROVE i = 2 * q + 1
    BY <1>0, <1>2, <2>1
  <2>5. Slot4(a, s) = IF here = {} THEN 0 ELSE a[CHOOSE i \in here : TRUE].dec
    BY DEF Slot4
  <2> HIDE DEF here
  <2>6. (CHOOSE i \in here : TRUE) = 2 * q + 1
    BY <2>3, <2>4
  <2> QED
    BY <2>1, <2>3, <2>5, <2>6
<1> QED
  BY <1>3, <1>4

-----------------------------------------------------------------------------
(***************************************************************************)
(* The text of all the double octets of an address is an address of them.  *)
(***************************************************************************)
LEMMA HexIs ==
  ASSUME NEW v
  PROVE  /\ HexText(v).hex = v /\ HexText(v).scan # "0x" /\ HexText(v) # COLON
         /\ HexText(v).scan \in {"letters", "digits"}
<1>1. HexText(v).scan \in {"letters", "digits"} /\ HexText(v).hex = v
  BY DEF HexText
<1>2. COLON.scan \notin {"letters", "digits"}
  BY DEF COLON
<1> QED
  BY <1>1, <1>2

\* The blocks' numbers, and their text.
Words6(v, w) ==
  /\ v \in [0..NB6 - 1 -> 0..DOUBLE_OCTET_MAX] /\ \A k \in 0..NB6 - 1 : w[k] = HexText(v[k])

\* A row of double octets is an IPv6 address of NB6 of them.
Row6(a, w) == a \in Seq(Token) /\ Len(a) = 2 * NB6 - 1 /\ Row(a, 0, w, 0, NB6, COLON)

LEMMA Row6Means ==
  ASSUME NEW v, NEW w, Words6(v, w), NEW a, Row6(a, w)
  PROVE  /\ IsText6(a) /\ DoubleColons(a) = {} /\ a[Len(a)] # COLON
         /\ Count(a, COLON, 1, Len(a)) = NB6 - 1
         /\ \A s \in 0..NB6 - 1 : Slot6(a, s) = v[NB6 - 1 - s]
<1>0. /\ NB6 \in Nat /\ NB6 > 0 /\ DOMAIN a = 1..Len(a) /\ Len(a) = 2 * NB6 - 1 /\ a # << >>
      /\ v \in [0..NB6 - 1 -> 0..DOUBLE_OCTET_MAX]
  <2>1. NB6 \in Nat /\ NB6 > 0 /\ DOMAIN a = 1..Len(a) /\ Len(a) = 2 * NB6 - 1
    BY Blocks, LenProperties DEF Row6
  <2>2. a # << >>
    BY <2>1, EmptySeq
  <2> QED
    BY <2>1, <2>2 DEF Words6
<1>1. \A k \in 0..NB6 - 1 : w[k].hex = v[k] /\ w[k].scan # "0x"
  BY HexIs DEF Words6
<1>2. RowRead(a, 0, w, 0, NB6, COLON)
  BY RowIs DEF Row6
<1>3. ASSUME NEW i \in 1..2 * NB6 - 1
      PROVE  \/ \E m \in 0..NB6 - 1 : /\ i = 2 * m + 1 /\ a[i].hex = v[m] /\ a[i] # COLON
                                      /\ a[i].scan # "0x" /\ Count(a, COLON, 1, i) = m
             \/ \E m \in 1..NB6 - 1 : i = 2 * m /\ a[i] = COLON
  <2>2. RowBlock(a, 0, w, 0, NB6, COLON, i) \/ RowSeparator(a, 0, NB6, COLON, i)
    <3>1. i \in 0 + 1..0 + 2 * NB6 - 1
      BY <1>0
    <3> QED
      BY <1>2, <3>1 DEF RowRead
  <2>3. CASE RowBlock(a, 0, w, 0, NB6, COLON, i)
    <3>1. PICK m \in 0..NB6 - 1 : /\ i = 0 + 2 * m + 1 /\ a[i] = w[0 + m] /\ a[i] # COLON
                                  /\ Count(a, COLON, 0 + 1, i) = m
      BY <2>3 DEF RowBlock
    <3>2. 0 + 1 = 1 /\ i = 2 * m + 1 /\ 0 + m = m
      BY <3>1
    <3> QED
      BY <1>1, <3>1, <3>2
  <2>4. CASE RowSeparator(a, 0, NB6, COLON, i)
    BY <2>4 DEF RowSeparator
  <2> QED
    BY <2>2, <2>3, <2>4
\* What a position holds is told by whether it is even.
<1>4. ASSUME NEW m \in 0..NB6 - 1
      PROVE  /\ a[2 * m + 1].hex = v[m] /\ a[2 * m + 1] # COLON /\ a[2 * m + 1].scan # "0x"
             /\ Count(a, COLON, 1, 2 * m + 1) = m /\ 2 * m + 1 \in 1..2 * NB6 - 1
  <2>1. PICK i : i = 2 * m + 1
    OBVIOUS
  <2>2. i \in 1..2 * NB6 - 1 /\ ~ \E j \in 1..NB6 - 1 : i = 2 * j
    BY <1>0, <2>1
  <2>3. PICK j \in 0..NB6 - 1 : /\ i = 2 * j + 1 /\ a[i].hex = v[j] /\ a[i] # COLON
                                /\ a[i].scan # "0x" /\ Count(a, COLON, 1, i) = j
    BY <1>3, <2>2
  <2>4. j = m
    BY <2>1, <2>3
  <2> QED
    BY <2>1, <2>2, <2>3, <2>4
<1>5. \A m \in 1..NB6 - 1 : a[2 * m] = COLON
  <2> TAKE m \in 1..NB6 - 1
  <2>1. 2 * m \in 1..2 * NB6 - 1 /\ ~ \E j \in 0..NB6 - 1 : 2 * m = 2 * j + 1
    BY <1>0
  <2> QED
    BY <1>3, <2>1
<1>6. a[Len(a)] # COLON /\ Count(a, COLON, 1, Len(a)) = NB6 - 1
  <2>1. NB6 - 1 \in 0..NB6 - 1 /\ 2 * (NB6 - 1) + 1 = Len(a)
    BY <1>0
  <2> QED
    BY <1>4, <2>1
<1>7. a[1].scan # "0x"
  <2>1. 0 \in 0..NB6 - 1 /\ 2 * 0 + 1 = 1
    BY <1>0
  <2> QED
    BY <1>4, <2>1
<1>8. DoubleColons(a) = {}
  <2>1. ASSUME NEW i \in 1..Len(a) - 1, a[i] = COLON, a[i + 1] = COLON PROVE FALSE
    <3>1. i \in 1..2 * NB6 - 1
      BY <1>0
    <3>2. PICK m \in 1..NB6 - 1 : i = 2 * m
      BY <1>3, <2>1, <3>1
    <3>3. m \in 0..NB6 - 1 /\ i + 1 = 2 * m + 1
      BY <1>0, <3>2
    <3> QED
      BY <1>4, <2>1, <3>3
  <2> QED
    BY <2>1 DEF DoubleColons
<1>9. IsText6(a)
  <2>1. \A i \in DOMAIN a : a[i] = COLON \/ a[i].hex \in 0..DOUBLE_OCTET_MAX
    BY <1>0, <1>3
  <2>2. ASSUME NEW i \in DOMAIN a, i > 1 PROVE COLON \in {a[i - 1], a[i]}
    <3>1. CASE \E m \in 0..NB6 - 1 : i = 2 * m + 1
      <4>1. PICK m \in 0..NB6 - 1 : i = 2 * m + 1
        BY <3>1
      <4>2. m \in 1..NB6 - 1 /\ i - 1 = 2 * m
        BY <1>0, <2>2, <4>1
      <4> QED
        BY <1>5, <4>2
    <3> QED
      BY <1>0, <1>3, <3>1
  <2>3. Count(a, COLON, 1, Len(a)) < NB6
    BY <1>0, <1>6
  <2> QED
    BY <1>0, <1>6, <1>7, <1>8, <2>1, <2>2, <2>3 DEF IsText6
<1>10. ASSUME NEW s \in 0..NB6 - 1 PROVE Slot6(a, s) = v[NB6 - 1 - s]
  <2> DEFINE isLeft(i) == \A d \in DoubleColons(a) : i < d
             here == {i \in DOMAIN a : /\ a[i] # COLON
                                       /\ IF isLeft(i) THEN Count(a, COLON, 1, i) = NB6 - 1 - s
                                          ELSE Count(a, COLON, i, Len(a)) = s}
  <2>1. Slot6(a, s) = IF here = {} THEN 0 ELSE a[CHOOSE i \in here : TRUE].hex
    BY DEF Slot6
  <2>2. PICK q : q = NB6 - 1 - s
    OBVIOUS
  <2>3. q \in 0..NB6 - 1
    BY <1>0, <2>2
  <2>4. \A i : isLeft(i)
    BY <1>8
  <2> HIDE DEF isLeft
  <2>5. 2 * q + 1 \in here
    BY <1>0, <1>4, <2>2, <2>3, <2>4
  <2>6. ASSUME NEW i \in here PROVE a[i].hex = v[q]
    <3>1. i \in 1..2 * NB6 - 1 /\ a[i] # COLON /\ Count(a, COLON, 1, i) = q
      BY <1>0, <2>2, <2>4
    <3> QED
      BY <1>3, <3>1
  <2> HIDE DEF here
  <2>7. (CHOOSE i \in here : TRUE) \in here
    BY <2>5
  <2> QED
    BY <2>1, <2>2, <2>5, <2>6, <2>7
<1> QED
  BY <1>6, <1>8, <1>9, <1>10

-----------------------------------------------------------------------------
(***************************************************************************)
(* The text with a "::" in it: a row before it and a row behind it.        *)
(***************************************************************************)
\* The blocks before s, a double colon that ends at position o, and the blocks
\* from e on.
Fill6(a, w, s, e, o) ==
  /\ a \in Seq(Token) /\ s \in 0..NB6 - 1 /\ e \in s + 1..NB6
  /\ o = IF s = 0 THEN 2 ELSE 2 * s + 1
  /\ Len(a) = IF e = NB6 THEN o ELSE o + 2 * (NB6 - e) - 1
  /\ Row(a, 0, w, 0, s, COLON) /\ Row(a, o, w, e, NB6 - e, COLON)
  /\ a[o - 1] = COLON /\ a[o] = COLON

\* What stands where: a block on the left or on the right, or a colon.
LeftBlock(a, v, s, i) ==
  \E m \in 0..s - 1 : /\ i = 2 * m + 1 /\ a[i].hex = v[m] /\ a[i] # COLON
                      /\ a[i].scan # "0x" /\ Count(a, COLON, 1, i) = m

RightBlock(a, v, e, o, i) ==
  \E m \in 0..NB6 - e - 1 :
    /\ i = o + 2 * m + 1 /\ a[i].hex = v[e + m] /\ a[i] # COLON
    /\ a[i].scan # "0x" /\ Count(a, COLON, i, Len(a)) = NB6 - e - 1 - m

ColonBetween(a, s, e, o, i) ==
  /\ a[i] = COLON
  /\ \/ \E m \in 1..s - 1 : i = 2 * m
     \/ i \in {o - 1, o}
     \/ \E m \in 1..NB6 - e - 1 : i = o + 2 * m

LEMMA FillAt ==
  ASSUME NEW v, NEW w, Words6(v, w), NEW a, NEW s, NEW e, NEW o, Fill6(a, w, s, e, o)
  PROVE  /\ \A i \in 1..Len(a) :
              LeftBlock(a, v, s, i) \/ RightBlock(a, v, e, o, i) \/ ColonBetween(a, s, e, o, i)
         /\ \A m \in 0..s - 1 : LeftBlock(a, v, s, 2 * m + 1)
         /\ \A m \in 0..NB6 - e - 1 : RightBlock(a, v, e, o, o + 2 * m + 1)
         /\ \A m \in 1..s - 1 : a[2 * m] = COLON
         /\ \A m \in 1..NB6 - e - 1 : a[o + 2 * m] = COLON
<1>1. /\ NB6 \in Nat /\ s \in 0..NB6 - 1 /\ e \in s + 1..NB6 /\ o \in Nat
      /\ (s = 0 => o = 2) /\ (s # 0 => o = 2 * s + 1)
      /\ (e = NB6 => Len(a) = o) /\ (e # NB6 => Len(a) = o + 2 * (NB6 - e) - 1)
      /\ a[o - 1] = COLON /\ a[o] = COLON
  BY Blocks DEF Fill6
<1>2. \A k \in 0..NB6 - 1 : w[k].hex = v[k] /\ w[k].scan # "0x"
  BY HexIs DEF Words6
<1>3. RowRead(a, 0, w, 0, s, COLON) /\ RowRead(a, o, w, e, NB6 - e, COLON)
  BY RowIs DEF Fill6
<1>4. ASSUME NEW i, RowBlock(a, 0, w, 0, s, COLON, i) PROVE LeftBlock(a, v, s, i)
  <2>1. PICK m \in 0..s - 1 : /\ i = 0 + 2 * m + 1 /\ a[i] = w[0 + m] /\ a[i] # COLON
                              /\ Count(a, COLON, 0 + 1, i) = m
    BY <1>4 DEF RowBlock
  <2>2. 0 + 1 = 1 /\ i = 2 * m + 1 /\ 0 + m = m /\ m \in 0..NB6 - 1
    BY <1>1, <2>1
  <2> QED
    BY <1>2, <2>1, <2>2 DEF LeftBlock
<1>5. ASSUME NEW i, RowBlock(a, o, w, e, NB6 - e, COLON, i) PROVE RightBlock(a, v, e, o, i)
  <2>1. PICK m \in 0..NB6 - e - 1 :
          /\ i = o + 2 * m + 1 /\ a[i] = w[e + m] /\ a[i] # COLON
          /\ Count(a, COLON, i, o + 2 * (NB6 - e) - 1) = NB6 - e - 1 - m
    BY <1>5 DEF RowBlock
  <2>2. e + m \in 0..NB6 - 1 /\ e # NB6
    BY <1>1, <2>1
  <2> QED
    BY <1>1, <1>2, <2>1, <2>2 DEF RightBlock
<1>6. \A m \in 0..s - 1 : LeftBlock(a, v, s, 2 * m + 1)
  <2> TAKE m \in 0..s - 1
  <2>1. 0 + 2 * m + 1 = 2 * m + 1
    BY <1>1
  <2>2. RowBlock(a, 0, w, 0, s, COLON, 2 * m + 1)
    BY <1>3, <2>1 DEF RowRead
  <2> QED
    BY <1>4, <2>2
<1>7. \A m \in 0..NB6 - e - 1 : RightBlock(a, v, e, o, o + 2 * m + 1)
  <2> TAKE m \in 0..NB6 - e - 1
  <2>2. RowBlock(a, o, w, e, NB6 - e, COLON, o + 2 * m + 1)
    BY <1>3 DEF RowRead
  <2> QED
    BY <1>5, <2>2
<1>8. \A m \in 1..s - 1 : a[2 * m] = COLON
  <2> TAKE m \in 1..s - 1
  <2>1. a[0 + 2 * m] = COLON
    BY DEF Fill6, Row
  <2> QED
    BY <1>1, <2>1
<1>9. \A m \in 1..NB6 - e - 1 : a[o + 2 * m] = COLON
  BY DEF Fill6, Row
<1>10. ASSUME NEW i \in 1..Len(a)
       PROVE  LeftBlock(a, v, s, i) \/ RightBlock(a, v, e, o, i) \/ ColonBetween(a, s, e, o, i)
  <2>1. CASE i < o - 1
    <3>1. i \in 0 + 1..0 + 2 * s - 1
      BY <1>1, <2>1
    <3>2. RowBlock(a, 0, w, 0, s, COLON, i) \/ RowSeparator(a, 0, s, COLON, i)
      BY <1>3, <3>1 DEF RowRead
    <3>3. CASE RowSeparator(a, 0, s, COLON, i)
      <4>1. PICK m \in 1..s - 1 : i = 0 + 2 * m /\ a[i] = COLON
        BY <3>3 DEF RowSeparator
      <4>2. i = 2 * m
        BY <1>1, <4>1
      <4> QED
        BY <4>1, <4>2 DEF ColonBetween
    <3> QED
      BY <1>4, <3>2, <3>3
  <2>2. CASE i \in {o - 1, o}
    BY <1>1, <2>2 DEF ColonBetween
  <2>3. CASE i > o
    <3>1. i \in o + 1..o + 2 * (NB6 - e) - 1
      BY <1>1, <2>3
    <3>2. RowBlock(a, o, w, e, NB6 - e, COLON, i) \/ RowSeparator(a, o, NB6 - e, COLON, i)
      BY <1>3, <3>1 DEF RowRead
    <3>3. CASE RowSeparator(a, o, NB6 - e, COLON, i)
      BY <3>3 DEF RowSeparator, ColonBetween
    <3> QED
      BY <1>5, <3>2, <3>3
  <2> QED
    BY <1>1, <2>1, <2>2, <2>3
<1> QED
  BY <1>6, <1>7, <1>8, <1>9, <1>10

LEMMA Fill6Means ==
  ASSUME NEW v, NEW w, Words6(v, w), NEW a, NEW s, NEW e, NEW o, Fill6(a, w, s, e, o),
         \A k \in s..e - 1 : v[k] = 0
  PROVE  /\ IsText6(a) <=> ~(s = 0 /\ e = 1)
         /\ DoubleColons(a) = {o - 1} /\ (a[Len(a)] = COLON <=> e = NB6)
         /\ LeftOf(a, o - 1) = (IF s = 0 THEN 1 ELSE s) /\ RightOf(a, o - 1) = NB6 - e
         /\ \A x \in 0..NB6 - 1 : Slot6(a, x) = v[NB6 - 1 - x]
<1>0. DOMAIN a = 1..Len(a) /\ a \in Seq(Token)
  BY LenProperties DEF Fill6
<1>1. /\ NB6 \in Nat /\ s \in 0..NB6 - 1 /\ e \in s + 1..NB6 /\ o \in Nat /\ o >= 2
      /\ (s = 0 => o = 2) /\ (s # 0 => o = 2 * s + 1)
      /\ (e = NB6 => Len(a) = o) /\ (e # NB6 => Len(a) = o + 2 * (NB6 - e) - 1)
      /\ a[o - 1] = COLON /\ a[o] = COLON
  BY Blocks DEF Fill6
<1>2. /\ \A i \in 1..Len(a) :
           LeftBlock(a, v, s, i) \/ RightBlock(a, v, e, o, i) \/ ColonBetween(a, s, e, o, i)
      /\ \A m \in 0..s - 1 : LeftBlock(a, v, s, 2 * m + 1)
      /\ \A m \in 0..NB6 - e - 1 : RightBlock(a, v, e, o, o + 2 * m + 1)
      /\ \A m \in 1..s - 1 : a[2 * m] = COLON
      /\ \A m \in 1..NB6 - e - 1 : a[o + 2 * m] = COLON
  BY FillAt
<1>3. v \in [0..NB6 - 1 -> 0..DOUBLE_OCTET_MAX]
  BY DEF Words6
<1>4. /\ \A m \in 0..s - 1 : a[2 * m + 1] # COLON /\ Count(a, COLON, 1, 2 * m + 1) = m
      /\ \A m \in 0..NB6 - e - 1 : /\ a[o + 2 * m + 1] # COLON
                                   /\ Count(a, COLON, o + 2 * m + 1, Len(a)) = NB6 - e - 1 - m
  <2>1. ASSUME NEW m \in 0..s - 1
        PROVE  a[2 * m + 1] # COLON /\ Count(a, COLON, 1, 2 * m + 1) = m
    <3>1. PICK j \in 0..s - 1 : /\ 2 * m + 1 = 2 * j + 1 /\ a[2 * m + 1] # COLON
                                /\ Count(a, COLON, 1, 2 * m + 1) = j
      BY <1>2 DEF LeftBlock
    <3>2. j = m
      BY <1>1, <3>1
    <3> QED
      BY <3>1, <3>2
  <2>2. ASSUME NEW m \in 0..NB6 - e - 1
        PROVE  /\ a[o + 2 * m + 1] # COLON
               /\ Count(a, COLON, o + 2 * m + 1, Len(a)) = NB6 - e - 1 - m
    <3>1. PICK j \in 0..NB6 - e - 1 :
            /\ o + 2 * m + 1 = o + 2 * j + 1 /\ a[o + 2 * m + 1] # COLON
            /\ Count(a, COLON, o + 2 * m + 1, Len(a)) = NB6 - e - 1 - j
      BY <1>2 DEF RightBlock
    <3>2. j = m
      BY <1>1, <3>1
    <3> QED
      BY <3>1, <3>2
  <2> QED
    BY <2>1, <2>2
\* A colon is followed by a block, but for the first one at o - 1.
<1>5. DoubleColons(a) = {o - 1}
  <2>1. ASSUME NEW i \in 1..Len(a) - 1, a[i] = COLON, a[i + 1] = COLON PROVE i = o - 1
    <3>1. i \in 1..Len(a)
      BY <1>1
    <3>2. ColonBetween(a, s, e, o, i)
      BY <1>2, <2>1, <3>1 DEF LeftBlock, RightBlock
    <3>3. ASSUME NEW m \in 1..s - 1, i = 2 * m PROVE FALSE
      <4>1. m \in 0..s - 1 /\ i + 1 = 2 * m + 1
        BY <1>1, <3>3
      <4> QED
        BY <1>4, <2>1, <4>1
    <3>4. ASSUME NEW m \in 0..NB6 - e - 1, i = o + 2 * m PROVE FALSE
      <4>1. i + 1 = o + 2 * m + 1
        BY <1>1, <3>4
      <4> QED
        BY <1>4, <2>1, <4>1
    <3>5. i # o
      <4> SUFFICES ASSUME i = o PROVE FALSE
        OBVIOUS
      <4>1. 0 \in 0..NB6 - e - 1 /\ i = o + 2 * 0
        BY <1>1
      <4> QED
        BY <3>4, <4>1
    <3>6. ASSUME NEW m \in 1..NB6 - e - 1, i = o + 2 * m PROVE FALSE
      <4>1. m \in 0..NB6 - e - 1
        BY <1>1
      <4> QED
        BY <3>4, <3>6, <4>1
    <3> QED
      BY <3>2, <3>3, <3>5, <3>6 DEF ColonBetween
  <2>2. o - 1 \in 1..Len(a) - 1 /\ o - 1 + 1 = o
    BY <1>1
  <2> QED
    BY <1>1, <2>1, <2>2 DEF DoubleColons
<1>6. a[Len(a)] = COLON <=> e = NB6
  <2>1. CASE e = NB6
    BY <1>1, <2>1
  <2>2. CASE e # NB6
    <3>1. NB6 - e - 1 \in 0..NB6 - e - 1 /\ Len(a) = o + 2 * (NB6 - e - 1) + 1
      BY <1>1, <2>2
    <3> QED
      BY <1>4, <2>2, <3>1
  <2> QED
    BY <2>1, <2>2
<1>7. LeftOf(a, o - 1) = IF s = 0 THEN 1 ELSE s
  <2>1. CASE s = 0
    <3>1. o - 1 - 1 = 0 /\ 1 \in Int /\ 0 \in Int /\ 0 < 1
      BY <1>1, <2>1
    <3>2. Count(a, COLON, 1, 0) = 0
      BY <3>1, CountNat
    <3> QED
      BY <2>1, <3>1, <3>2 DEF LeftOf
  <2>2. CASE s # 0
    <3>1. s - 1 \in 0..s - 1 /\ o - 1 - 1 = 2 * (s - 1) + 1
      BY <1>1, <2>2
    <3>2. Count(a, COLON, 1, o - 1 - 1) = s - 1
      BY <1>4, <3>1
    <3> QED
      BY <1>1, <2>2, <3>2 DEF LeftOf
  <2> QED
    BY <2>1, <2>2
<1>8. RightOf(a, o - 1) = NB6 - e
  <2>1. CASE e = NB6
    BY <1>1, <2>1 DEF RightOf
  <2>2. CASE e # NB6
    <3>1. 0 \in 0..NB6 - e - 1 /\ o + 2 * 0 + 1 = o - 1 + 2 /\ o - 1 + 1 # Len(a)
      BY <1>1, <2>2
    <3>2. Count(a, COLON, o + 2 * 0 + 1, Len(a)) = NB6 - e - 1 - 0
      BY <1>4, <3>1
    <3>3. Count(a, COLON, o - 1 + 2, Len(a)) = NB6 - e - 1
      BY <1>1, <3>1, <3>2
    <3> QED
      BY <1>1, <3>1, <3>3 DEF RightOf
  <2> QED
    BY <2>1, <2>2
<1>9. /\ a # << >> /\ a[1].scan # "0x"
      /\ \A i \in DOMAIN a : a[i] = COLON \/ a[i].hex \in 0..DOUBLE_OCTET_MAX
  <2>1. ASSUME NEW i \in 1..Len(a)
        PROVE  a[i].scan # "0x" /\ (a[i] = COLON \/ a[i].hex \in 0..DOUBLE_OCTET_MAX)
    <3>1. CASE LeftBlock(a, v, s, i)
      <4>1. PICK m \in 0..s - 1 : a[i].hex = v[m] /\ a[i].scan # "0x"
        BY <3>1 DEF LeftBlock
      <4>2. m \in 0..NB6 - 1
        BY <1>1
      <4> QED
        BY <1>3, <4>1, <4>2
    <3>2. CASE RightBlock(a, v, e, o, i)
      <4>1. PICK m \in 0..NB6 - e - 1 : a[i].hex = v[e + m] /\ a[i].scan # "0x"
        BY <3>2 DEF RightBlock
      <4>2. e + m \in 0..NB6 - 1
        BY <1>1
      <4> QED
        BY <1>3, <4>1, <4>2
    <3>3. CASE ColonBetween(a, s, e, o, i)
      <4>1. COLON.scan # "0x"
        BY DEF COLON
      <4> QED
        BY <3>3, <4>1 DEF ColonBetween
    <3> QED
      BY <1>2, <3>1, <3>2, <3>3
  <2>2. 1 \in 1..Len(a)
    BY <1>1
  <2>3. a # << >>
    BY <1>1, EmptySeq
  <2> QED
    BY <1>1, <2>1, <2>2, <2>3
<1>10. \A i \in DOMAIN a : i > 1 => COLON \in {a[i - 1], a[i]}
  <2> SUFFICES ASSUME NEW i \in 1..Len(a), i > 1 PROVE a[i - 1] = COLON \/ a[i] = COLON
    BY <1>1
  <2>1. CASE LeftBlock(a, v, s, i)
    <3>1. PICK m \in 0..s - 1 : i = 2 * m + 1
      BY <2>1 DEF LeftBlock
    <3>2. m \in 1..s - 1 /\ i - 1 = 2 * m
      BY <1>1, <3>1
    <3> QED
      BY <1>2, <3>2
  <2>2. CASE RightBlock(a, v, e, o, i)
    <3>1. PICK m \in 0..NB6 - e - 1 : i = o + 2 * m + 1
      BY <2>2 DEF RightBlock
    <3>2. CASE m = 0
      <4>1. i - 1 = o
        BY <1>1, <3>1, <3>2
      <4> QED
        BY <1>1, <4>1
    <3>3. CASE m # 0
      <4>1. m \in 1..NB6 - e - 1 /\ i - 1 = o + 2 * m
        BY <1>1, <3>1, <3>3
      <4> QED
        BY <1>2, <4>1
    <3> QED
      BY <3>2, <3>3
  <2>3. CASE ColonBetween(a, s, e, o, i)
    BY <2>3 DEF ColonBetween
  <2> QED
    BY <1>2, <2>1, <2>2, <2>3
<1>11. IsText6(a) <=> ~(s = 0 /\ e = 1)
  <2>1. IsText6(a) <=> LeftOf(a, o - 1) + RightOf(a, o - 1) < NB6
    <3>1. a[Len(a)] = COLON => o - 1 + 1 = Len(a)
      BY <1>1, <1>6
    <3> QED
      BY <1>5, <1>9, <1>10, <3>1 DEF IsText6
  <2>2. (IF s = 0 THEN 1 ELSE s) + (NB6 - e) < NB6 <=> ~(s = 0 /\ e = 1)
    BY <1>1
  <2> QED
    BY <1>7, <1>8, <2>1, <2>2
<1>12. ASSUME NEW x \in 0..NB6 - 1 PROVE Slot6(a, x) = v[NB6 - 1 - x]
  <2> DEFINE isLeft(i) == \A d \in DoubleColons(a) : i < d
             here == {i \in DOMAIN a : /\ a[i] # COLON
                                       /\ IF isLeft(i) THEN Count(a, COLON, 1, i) = NB6 - 1 - x
                                          ELSE Count(a, COLON, i, Len(a)) = x}
  <2>1. Slot6(a, x) = IF here = {} THEN 0 ELSE a[CHOOSE i \in here : TRUE].hex
    BY DEF Slot6
  <2>2. PICK k : k = NB6 - 1 - x
    OBVIOUS
  <2>3. k \in 0..NB6 - 1 /\ x = NB6 - 1 - k
    BY <1>1, <2>2
  <2>4. \A i : isLeft(i) <=> i < o - 1
    BY <1>5
  <2> HIDE DEF isLeft
  <2>5. ASSUME here = {} PROVE v[k] = 0
    <3>1. CASE k < s
      <4>1. k \in 0..s - 1 /\ 2 * k + 1 \in 1..Len(a) /\ 2 * k + 1 < o - 1
        BY <1>1, <2>3, <3>1
      <4>2. 2 * k + 1 \in here
        BY <1>1, <1>4, <2>2, <2>4, <4>1
      <4> QED
        BY <2>5, <4>2
    <3>2. CASE k >= e
      <4>1. PICK m, i : m = k - e /\ i = o + 2 * m + 1
        OBVIOUS
      <4>2. /\ m \in 0..NB6 - e - 1 /\ i \in 1..Len(a) /\ ~(i < o - 1)
            /\ NB6 - e - 1 - m = x
        BY <1>1, <2>3, <3>2, <4>1
      <4>3. a[i] # COLON /\ Count(a, COLON, i, Len(a)) = x
        BY <1>4, <4>1, <4>2
      <4>4. i \in here
        BY <1>1, <2>4, <4>2, <4>3
      <4> QED
        BY <2>5, <4>4
    <3> QED
      BY <1>1, <2>3, <3>1, <3>2
  <2>6. ASSUME NEW i \in here PROVE a[i].hex = v[k]
    <3>1. /\ i \in 1..Len(a) /\ a[i] # COLON
          /\ i < o - 1 => Count(a, COLON, 1, i) = k
          /\ ~(i < o - 1) => Count(a, COLON, i, Len(a)) = x
      BY <1>1, <2>2, <2>4
    <3>2. CASE LeftBlock(a, v, s, i)
      <4>1. PICK m \in 0..s - 1 : i = 2 * m + 1 /\ a[i].hex = v[m] /\ Count(a, COLON, 1, i) = m
        BY <3>2 DEF LeftBlock
      <4>2. i < o - 1
        BY <1>1, <4>1
      <4> QED
        BY <3>1, <4>1, <4>2
    <3>3. CASE RightBlock(a, v, e, o, i)
      <4>1. PICK m \in 0..NB6 - e - 1 :
              /\ i = o + 2 * m + 1 /\ a[i].hex = v[e + m]
              /\ Count(a, COLON, i, Len(a)) = NB6 - e - 1 - m
        BY <3>3 DEF RightBlock
      <4>2. ~(i < o - 1)
        BY <1>1, <4>1
      <4>3. e + m = k
        BY <1>1, <2>3, <3>1, <4>1, <4>2
      <4> QED
        BY <4>1, <4>3
    <3>4. ~ColonBetween(a, s, e, o, i)
      BY <3>1 DEF ColonBetween
    <3> QED
      BY <1>2, <3>1, <3>2, <3>3, <3>4
  <2> HIDE DEF here
  <2>7. here # {} => (CHOOSE i \in here : TRUE) \in here
    OBVIOUS
  <2> QED
    BY <2>1, <2>2, <2>5, <2>6, <2>7
<1> QED
  BY <1>5, <1>6, <1>7, <1>8, <1>11, <1>12

-----------------------------------------------------------------------------
(***************************************************************************)
(* Rows as they are printed: printf()'s row of blocks, a row that grows by *)
(* a block, and a row at another place.                                    *)
(***************************************************************************)
\* printf()'s row of blocks.
LEMMA JoinedRow ==
  ASSUME NEW n \in Nat, n >= 1, NEW w \in [0..n - 1 -> Token], NEW c \in Token,
         \A k \in 0..n - 1 : w[k] # c
  PROVE  /\ Joined(w, n, c) \in Seq(Token) /\ Len(Joined(w, n, c)) = 2 * n - 1
         /\ Row(Joined(w, n, c), 0, w, 0, n, c)
<1> DEFINE t == Joined(w, n, c)
<1>1. t = [i \in 1..(2 * n - 1) |-> IF i % 2 = 1 THEN w[(i - 1) \div 2] ELSE c]
  BY DEF Joined
<1>2. t \in Seq(Token)
  BY JoinedText
<1> HIDE DEF t
<1>3. Len(t) = 2 * n - 1
  <2>1. DOMAIN t = 1..2 * n - 1 /\ 2 * n - 1 \in Nat
    BY <1>1
  <2>2. DOMAIN t = 1..Len(t) /\ Len(t) \in Nat
    BY <1>2, LenProperties
  <2> QED
    BY <2>1, <2>2
<1>4. ASSUME NEW m \in 0..n - 1 PROVE t[0 + 2 * m + 1] = w[0 + m] /\ w[0 + m] # c
  <2>1. PICK i : i = 0 + 2 * m + 1
    OBVIOUS
  <2>2. i \in 1..2 * n - 1 /\ i % 2 = 1 /\ (i - 1) \div 2 = m /\ 0 + m = m
    BY <2>1
  <2>3. t[i] = w[m]
    BY <1>1, <2>2
  <2> QED
    BY <2>1, <2>2, <2>3
<1>5. ASSUME NEW m \in 1..n - 1 PROVE t[0 + 2 * m] = c
  <2>1. PICK i : i = 0 + 2 * m
    OBVIOUS
  <2>2. i \in 1..2 * n - 1 /\ i % 2 = 0
    BY <2>1
  <2>3. t[i] = c
    BY <1>1, <2>2
  <2> QED
    BY <2>1, <2>3
<1> QED
  BY <1>2, <1>3, <1>4, <1>5 DEF Row, t

\* A row with a block before it, and a row at another place.
LEMMA RowGrows ==
  ASSUME NEW g, NEW t, NEW w, NEW k \in Nat, NEW j, j = k + 1, NEW n \in Nat, NEW c,
         Row(g, 0, w, j, n, c), t[1] = w[k], w[k] # c, n > 0 => t[2] = c,
         \A i \in 1..2 * n - 1 : t[i + 2] = g[i]
  PROVE  Row(t, 0, w, k, n + 1, c)
<1>1. ASSUME NEW m \in 0..n PROVE t[0 + 2 * m + 1] = w[k + m] /\ w[k + m] # c
  <2>1. CASE m = 0
    <3>1. 0 + 2 * m + 1 = 1 /\ k + m = k
      BY <2>1
    <3> QED
      BY <3>1
  <2>2. CASE m # 0
    <3>1. PICK p, i : p = m - 1 /\ i = 0 + 2 * p + 1
      OBVIOUS
    <3>2. p \in 0..n - 1 /\ i \in 1..2 * n - 1 /\ i + 2 = 0 + 2 * m + 1 /\ j + p = k + m
      BY <2>2, <3>1
    <3>3. g[i] = w[j + p] /\ w[j + p] # c
      BY <3>1, <3>2 DEF Row
    <3>4. t[i + 2] = g[i]
      BY <3>2
    <3> QED
      BY <3>2, <3>3, <3>4
  <2> QED
    BY <2>1, <2>2
<1>2. ASSUME NEW m \in 1..n PROVE t[0 + 2 * m] = c
  <2>1. CASE m = 1
    <3>1. 0 + 2 * m = 2 /\ n > 0
      BY <2>1
    <3> QED
      BY <3>1
  <2>2. CASE m # 1
    <3>1. PICK p, i : p = m - 1 /\ i = 0 + 2 * p
      OBVIOUS
    <3>2. p \in 1..n - 1 /\ i \in 1..2 * n - 1 /\ i + 2 = 0 + 2 * m
      BY <2>2, <3>1
    <3>3. g[i] = c
      BY <3>1, <3>2 DEF Row
    <3>4. t[i + 2] = g[i]
      BY <3>2
    <3> QED
      BY <3>2, <3>3, <3>4
  <2> QED
    BY <2>1, <2>2
<1>3. n + 1 - 1 = n /\ n + 1 \in Nat /\ 0 \in Nat
  OBVIOUS
<1> QED
  BY <1>1, <1>2, <1>3 DEF Row

LEMMA RowMoves ==
  ASSUME NEW g, NEW t, NEW o \in Nat, NEW w, NEW k, NEW n \in Nat, NEW c,
         Row(g, 0, w, k, n, c), \A i \in 1..2 * n - 1 : t[o + i] = g[i]
  PROVE  Row(t, o, w, k, n, c)
<1>1. ASSUME NEW m \in 0..n - 1 PROVE t[o + 2 * m + 1] = w[k + m] /\ w[k + m] # c
  <2>1. PICK i : i = 0 + 2 * m + 1
    OBVIOUS
  <2>2. i \in 1..2 * n - 1 /\ o + i = o + 2 * m + 1
    BY <2>1
  <2>3. g[i] = w[k + m] /\ w[k + m] # c
    BY <2>1 DEF Row
  <2>4. t[o + i] = g[i]
    BY <2>2
  <2> QED
    BY <2>2, <2>3, <2>4
<1>2. ASSUME NEW m \in 1..n - 1 PROVE t[o + 2 * m] = c
  <2>1. PICK i : i = 0 + 2 * m
    OBVIOUS
  <2>2. i \in 1..2 * n - 1 /\ o + i = o + 2 * m
    BY <2>1
  <2>3. g[i] = c
    BY <2>1 DEF Row
  <2>4. t[o + i] = g[i]
    BY <2>2
  <2> QED
    BY <2>2, <2>3, <2>4
<1> QED
  BY <1>1, <1>2 DEF Row

-----------------------------------------------------------------------------
(***************************************************************************)
(* The compact form: the row from block k on, behind the run of zeros.     *)
(***************************************************************************)
CompactTail(w, t, k) ==
  /\ t \in Seq(Piece) /\ Len(t) = IF k = NB6 THEN 0 ELSE 2 * (NB6 - k) - 1
  /\ Row(t, 0, w, k, NB6 - k, COLON)

LEMMA CompactTailIs ==
  ASSUME NEW b \in [0..NB6 - 1 -> Nat], NEW z, NEW f, CompactFrom(b, z, f),
         NEW w, \A k \in 0..NB6 - 1 : w[k] = HexText(b[k]),
         NEW from \in 0..NB6, \A k \in from..NB6 - 1 : ~Filled(z, k)
  PROVE  CompactTail(w, f[from], from)
<1> DEFINE S == {k \in 0..NB6 : k >= from => CompactTail(w, f[k], k)}
<1>1. /\ NB6 \in Nat /\ NB6 > 0 /\ f[NB6] = << >> /\ \A k \in 0..NB6 : f[k] \in Seq(Piece)
  BY Blocks DEF CompactFrom
<1>2. NB6 \in S
  <2>1. Row(f[NB6], 0, w, NB6, NB6 - NB6, COLON)
    BY <1>1 DEF Row
  <2>2. Len(f[NB6]) = 0 /\ f[NB6] \in Seq(Piece) /\ NB6 \in 0..NB6
    BY <1>1, EmptySeq
  <2> QED
    BY <2>1, <2>2 DEF CompactTail
<1>3. ASSUME NEW k \in 0..NB6 - 1, k + 1 \in S PROVE k \in S
  <2> SUFFICES ASSUME k >= from PROVE CompactTail(w, f[k], k)
    BY <1>1
  <2>1. PICK g, t, j, n : g = f[k + 1] /\ t = f[k] /\ j = k + 1 /\ n = NB6 - k - 1
    OBVIOUS
  <2>2. k \in Nat /\ j = k + 1 /\ n \in Nat /\ NB6 - j = n /\ NB6 - k = n + 1 /\ (j = NB6 <=> n = 0)
        /\ (k < NB6 - 1 <=> n # 0)
    BY <1>1, <2>1
  <2>3. CompactTail(w, g, j)
    BY <1>1, <1>3, <2>1
  <2>4. g \in Seq(Piece) /\ Len(g) = (IF n = 0 THEN 0 ELSE 2 * n - 1) /\ Row(g, 0, w, j, n, COLON)
    BY <2>2, <2>3 DEF CompactTail
  <2>5. t = BlockText6(b, k) \o g
    <3>1. ~Filled(z, k) /\ k \in 0..NB6 - 1
      BY <1>1
    <3> QED
      BY <2>1, <3>1 DEF CompactFrom
  <2>6. w[k] = HexText(b[k]) /\ w[k] \in Piece /\ w[k] # COLON
    BY PieceIs
  <2>7. t \in Seq(Piece)
    BY <1>1, <2>1
  <2>8. CASE n = 0
    <3>1. BlockText6(b, k) = <<w[k]>> \o << >>
      BY <2>2, <2>6, <2>8 DEF BlockText6
    <3>2. <<w[k]>> \in Seq(Piece) /\ << >> \in Seq(Piece)
      BY <2>6
    <3>3. g = << >>
      BY <2>4, <2>8, EmptySeq
    <3>4. t = <<w[k]>>
      BY <2>5, <3>1, <3>2, <3>3, ConcatEmptySeq
    <3>5. Len(t) = 1 /\ t[1] = w[k]
      BY <3>4
    <3>8. (n > 0 => t[2] = COLON) /\ \A i \in 1..2 * n - 1 : t[i + 2] = g[i]
      BY <2>8
    <3>6. Row(t, 0, w, k, n + 1, COLON)
      BY <2>2, <2>4, <2>6, <3>5, <3>8, RowGrows
    <3>7. Len(t) = 2 * (NB6 - k) - 1 /\ k # NB6
      BY <1>1, <2>2, <2>8, <3>5
    <3> QED
      BY <2>1, <2>2, <2>7, <3>6, <3>7 DEF CompactTail
  <2>9. CASE n # 0
    <3>1. BlockText6(b, k) = <<w[k]>> \o <<COLON>>
      BY <2>2, <2>6, <2>9 DEF BlockText6
    <3>2. <<w[k]>> \in Seq(Piece) /\ <<COLON>> \in Seq(Piece)
      BY <2>6, PieceIs
    <3>3. PICK h : h = <<w[k]>> \o <<COLON>>
      OBVIOUS
    <3>4. h \in Seq(Piece) /\ Len(h) = 2 /\ h[1] = w[k] /\ h[2] = COLON /\ t = h \o g
      <4>1. Len(<<w[k]>>) = 1 /\ Len(<<COLON>>) = 1 /\ <<w[k]>>[1] = w[k] /\ <<COLON>>[1] = COLON
        OBVIOUS
      <4>2. h \in Seq(Piece) /\ Len(h) = 2 /\ h[1] = w[k] /\ h[2] = COLON
        BY <3>2, <3>3, <4>1, ConcatProperties
      <4> QED
        BY <2>5, <3>1, <3>3, <4>2
    <3>5. /\ Len(t) = Len(h) + Len(g)
          /\ \A i \in 1..Len(h) + Len(g) : t[i] = IF i <= Len(h) THEN h[i] ELSE g[i - Len(h)]
      BY <2>4, <3>4, ConcatProperties
    <3>6. /\ Len(t) = 2 * n + 1
          /\ \A i \in 1..2 * n + 1 : t[i] = IF i <= 2 THEN h[i] ELSE g[i - 2]
      BY <2>2, <2>4, <2>9, <3>4, <3>5
    <3>7. t[1] = w[k] /\ t[2] = COLON
      <4>1. 1 \in 1..2 * n + 1 /\ 2 \in 1..2 * n + 1
        BY <2>2, <2>9
      <4> QED
        BY <3>4, <3>6, <4>1
    <3>8. \A i \in 1..2 * n - 1 : t[i + 2] = g[i]
      BY <2>2, <3>6
    <3>9. Row(t, 0, w, k, n + 1, COLON)
      BY <2>2, <2>4, <2>6, <3>7, <3>8, RowGrows
    <3>10. Len(t) = 2 * (NB6 - k) - 1 /\ k # NB6
      BY <1>1, <2>2, <3>6
    <3> QED
      BY <2>1, <2>2, <2>7, <3>9, <3>10 DEF CompactTail
  <2> QED
    BY <2>8, <2>9
<1>4. from \in S
  <2> HIDE DEF S
  <2> QED
    BY <1>1, <1>2, <1>3, Downwards
<1> QED
  BY <1>1, <1>4

-----------------------------------------------------------------------------
(***************************************************************************)
(* The compact form: the blocks before the run of zeros, and the text.     *)
(***************************************************************************)
\* The blocks from k up to the run at s, each with its colon, and what follows.
CompactHead(w, t, tail, k, s) ==
  /\ Len(t) = 2 * (s - k) + Len(tail)
  /\ \A m \in 0..s - k - 1 : t[2 * m + 1] = w[k + m] /\ t[2 * m + 2] = COLON
  /\ \A i \in 1..Len(tail) : t[2 * (s - k) + i] = tail[i]

LEMMA CompactHeadIs ==
  ASSUME NEW b \in [0..NB6 - 1 -> Nat], NEW z, NEW f, CompactFrom(b, z, f),
         NEW w, \A k \in 0..NB6 - 1 : w[k] = HexText(b[k]),
         NEW s \in 0..NB6 - 1, \A k \in 0..s - 1 : ~Filled(z, k)
  PROVE  CompactHead(w, f[0], f[s], 0, s)
<1> DEFINE S == {k \in 0..s : CompactHead(w, f[k], f[s], k, s)}
<1>1. /\ NB6 \in Nat /\ \A k \in 0..NB6 : f[k] \in Seq(Piece)
      /\ s \in 0..NB6
  BY Blocks DEF CompactFrom
<1>2a. PICK l : l = Len(f[s]) /\ l \in Nat
  BY <1>1, LenProperties
<1>2b. l = Len(f[s])
  BY <1>2a
<1>2. l \in Nat
  BY <1>2a
<1>3. s \in S
  <2>1. /\ 2 * (s - s) + l = l /\ s - s - 1 = -1 /\ 0..-1 = {} /\ s \in 0..s
        /\ \A i \in 1..l : 2 * (s - s) + i = i
    BY <1>1, <1>2
  <2> QED
    BY <1>2b, <2>1 DEF CompactHead
<1>4. ASSUME NEW k \in 0..s - 1, k + 1 \in S PROVE k \in S
  <2>1. PICK g, t, j, n : g = f[k + 1] /\ t = f[k] /\ j = k + 1 /\ n = s - k - 1
    OBVIOUS
  <2>2. /\ k \in Nat /\ j = k + 1 /\ n \in Nat /\ s - j = n /\ s - k = n + 1 /\ k < NB6 - 1
        /\ k \in 0..NB6 - 1 /\ j \in 0..NB6 /\ k \in 0..NB6 /\ k \in 0..s
    BY <1>1, <2>1
  <2>3. CompactHead(w, g, f[s], j, s)
    BY <1>4, <2>1
  <2>4. /\ g \in Seq(Piece) /\ Len(g) = 2 * n + l
        /\ \A m \in 0..n - 1 : g[2 * m + 1] = w[j + m] /\ g[2 * m + 2] = COLON
        /\ \A i \in 1..l : g[2 * n + i] = f[s][i]
    BY <1>1, <1>2b, <2>1, <2>2, <2>3 DEF CompactHead
  <2>5. t = BlockText6(b, k) \o g
    <3>1. ~Filled(z, k) /\ k \in 0..NB6 - 1
      BY <2>2
    <3> QED
      BY <2>1, <3>1 DEF CompactFrom
  <2>6. w[k] = HexText(b[k]) /\ w[k] \in Piece
    BY <2>2, PieceIs
  <2>7. BlockText6(b, k) = <<w[k]>> \o <<COLON>>
    BY <2>2, <2>6 DEF BlockText6
  <2>8. PICK h : h = <<w[k]>> \o <<COLON>>
    OBVIOUS
  <2>9. h \in Seq(Piece) /\ Len(h) = 2 /\ h[1] = w[k] /\ h[2] = COLON /\ t = h \o g
    <3>1. <<w[k]>> \in Seq(Piece) /\ <<COLON>> \in Seq(Piece)
      BY <2>6, PieceIs
    <3>2. Len(<<w[k]>>) = 1 /\ Len(<<COLON>>) = 1 /\ <<w[k]>>[1] = w[k] /\ <<COLON>>[1] = COLON
      OBVIOUS
    <3>3. h \in Seq(Piece) /\ Len(h) = 2 /\ h[1] = w[k] /\ h[2] = COLON
      BY <2>8, <3>1, <3>2, ConcatProperties
    <3> QED
      BY <2>5, <2>7, <2>8, <3>3
  <2>10. /\ Len(t) = Len(h) + Len(g)
         /\ \A i \in 1..Len(h) + Len(g) : t[i] = IF i <= Len(h) THEN h[i] ELSE g[i - Len(h)]
    BY <2>4, <2>9, ConcatProperties
  <2>11. /\ Len(t) = 2 * n + l + 2
         /\ \A i \in 1..2 * n + l + 2 : t[i] = IF i <= 2 THEN h[i] ELSE g[i - 2]
    <3>1. Len(h) = 2 /\ Len(g) = 2 * n + l
      BY <2>4, <2>9
    <3>2. PICK x : x = 2 * n + l
      OBVIOUS
    <3>3. Len(t) = 2 + x /\ \A i \in 1..2 + x : t[i] = IF i <= 2 THEN h[i] ELSE g[i - 2]
      BY <2>10, <3>1, <3>2
    <3>4. 2 + x = 2 * n + l + 2
      BY <1>2, <2>2, <3>2
    <3> QED
      BY <3>3, <3>4
  <2>12. ASSUME NEW m \in 0..n PROVE t[2 * m + 1] = w[k + m] /\ t[2 * m + 2] = COLON
    <3>1. CASE m = 0
      <4>1. 2 * m + 1 = 1 /\ 2 * m + 2 = 2 /\ k + m = k
        BY <2>2, <3>1
      <4>2. t[1] = h[1] /\ t[2] = h[2]
        BY <1>2, <2>2, <2>11
      <4> QED
        BY <2>9, <4>1, <4>2
    <3>2. CASE m # 0
      <4>1. PICK p, i : p = m - 1 /\ i = 2 * m + 1
        OBVIOUS
      <4>2. /\ p \in 0..n - 1 /\ i - 2 = 2 * p + 1 /\ i + 1 - 2 = 2 * p + 2 /\ j + p = k + m
            /\ i \in 1..2 * n + l + 2 /\ i + 1 \in 1..2 * n + l + 2 /\ i > 2 /\ i + 1 = 2 * m + 2
        BY <1>2, <2>2, <3>2, <4>1
      <4>3. t[i] = g[i - 2] /\ t[i + 1] = g[i + 1 - 2]
        <5>1. i \in 1..2 * n + l + 2 /\ i + 1 \in 1..2 * n + l + 2 /\ ~(i <= 2) /\ ~(i + 1 <= 2)
          BY <2>2, <4>1, <4>2
        <5>2. \A q \in 1..2 * n + l + 2 : ~(q <= 2) => t[q] = g[q - 2]
          BY <2>11
        <5> QED
          BY <5>1, <5>2
      <4> QED
        BY <2>4, <4>1, <4>2, <4>3
    <3> QED
      BY <3>1, <3>2
  <2>13. ASSUME NEW i \in 1..l PROVE t[2 * (n + 1) + i] = f[s][i]
    <3>1. PICK q : q = 2 * (n + 1) + i
      OBVIOUS
    <3>2. q \in 1..2 * n + l + 2 /\ q > 2 /\ q - 2 = 2 * n + i
      BY <1>2, <2>2, <3>1
    <3>3. t[q] = g[q - 2]
      BY <2>11, <3>2
    <3> QED
      BY <2>4, <3>1, <3>2, <3>3
  <2>14. CompactHead(w, t, f[s], k, s)
    <3>1. 2 * (s - k) + l = 2 * n + l + 2 /\ s - k - 1 = n
      BY <1>2, <2>2
    <3> QED
      BY <1>2b, <2>2, <2>11, <2>12, <2>13, <3>1 DEF CompactHead
  <2> QED
    BY <2>1, <2>2, <2>14
<1>5. 0 \in S
  <2>1. 0 \in 0..s /\ s \in Nat
    BY <1>1
  <2> HIDE DEF S
  <2> QED
    BY <1>3, <1>4, <2>1, Downwards
<1> QED
  BY <1>5

\* The compact form with a run of zero blocks.
LEMMA CompactFills ==
  ASSUME NEW b \in [0..NB6 - 1 -> Nat], NEW z, NEW f, CompactFrom(b, z, f),
         NEW w, \A k \in 0..NB6 - 1 : w[k] = HexText(b[k]),
         z.start \in Nat, z.len \in Nat, z.len > 0, z.start + z.len <= NB6
  PROVE  \E o : Fill6(f[0], w, z.start, z.start + z.len, o)
<1>1. PICK s, e : s = z.start /\ e = z.start + z.len
  OBVIOUS
<1>2. /\ NB6 \in Nat /\ s \in 0..NB6 - 1 /\ e \in s + 1..NB6 /\ s \in Nat
      /\ \A k : Filled(z, k) <=> k = s
  BY <1>1, Blocks DEF Filled
<1>3. CompactTail(w, f[e], e)
  <2>1. e \in 0..NB6 /\ \A k \in e..NB6 - 1 : ~Filled(z, k)
    BY <1>2
  <2> QED
    BY <2>1, CompactTailIs
<1>4. CompactHead(w, f[0], f[s], 0, s)
  <2>1. \A k \in 0..s - 1 : ~Filled(z, k)
    BY <1>2
  <2> QED
    BY <1>2, <2>1, CompactHeadIs
<1>5. PICK a, g, t, h : a = f[0] /\ g = f[s] /\ t = f[e] /\ h = FillText(s)
  OBVIOUS
<1>6. PICK l, r : l = Len(t) /\ r = NB6 - e
  OBVIOUS
<1>7. /\ t \in Seq(Piece) /\ l = (IF e = NB6 THEN 0 ELSE 2 * r - 1) /\ r \in Nat /\ l \in Nat
      /\ Row(t, 0, w, e, r, COLON)
  <2>1. t \in Seq(Piece) /\ l = (IF e = NB6 THEN 0 ELSE 2 * r - 1) /\ Row(t, 0, w, e, r, COLON)
    BY <1>3, <1>5, <1>6 DEF CompactTail
  <2>2. r \in Nat /\ (e # NB6 => r >= 1)
    BY <1>2, <1>6
  <2> QED
    BY <2>1, <2>2
<1>8. g = h \o t /\ a \in Seq(Piece)
  <2>1. s \in 0..NB6 - 1 /\ Filled(z, s) /\ s + z.len = e /\ 0 \in 0..NB6
    BY <1>1, <1>2
  <2> QED
    BY <1>5, <2>1 DEF CompactFrom
<1>9. PICK n : n = IF s = 0 THEN 2 ELSE 1
  OBVIOUS
<1>10. h \in Seq(Piece) /\ Len(h) = n /\ \A i \in 1..n : h[i] = COLON
  <2>1. CASE s = 0
    <3>1. h = <<COLON, COLON>> /\ n = 2
      BY <1>5, <1>9, <2>1 DEF FillText
    <3>2. \A i \in 1..2 : i = 1 \/ i = 2
      OBVIOUS
    <3> QED
      BY <3>1, <3>2, PieceIs
  <2>2. CASE s # 0
    <3>1. h = <<COLON>> /\ n = 1
      BY <1>5, <1>9, <2>2 DEF FillText
    <3>2. \A i \in 1..1 : i = 1
      OBVIOUS
    <3> QED
      BY <3>1, <3>2, PieceIs
  <2> QED
    BY <2>1, <2>2
<1>11. Len(g) = n + l /\ \A i \in 1..n + l : g[i] = IF i <= n THEN COLON ELSE t[i - n]
  <2>1. /\ Len(g) = Len(h) + Len(t)
        /\ \A i \in 1..Len(h) + Len(t) : g[i] = IF i <= Len(h) THEN h[i] ELSE t[i - Len(h)]
    BY <1>7, <1>8, <1>10, ConcatProperties
  <2>2. Len(h) = n /\ Len(t) = l
    BY <1>6, <1>10
  <2>3. /\ Len(g) = n + l
        /\ \A i \in 1..n + l : g[i] = IF i <= n THEN h[i] ELSE t[i - n]
    BY <2>1, <2>2
  <2>4. ASSUME NEW i \in 1..n + l PROVE g[i] = IF i <= n THEN COLON ELSE t[i - n]
    <3>1. i <= n => i \in 1..n
      OBVIOUS
    <3> QED
      BY <1>10, <2>3, <3>1
  <2> QED
    BY <2>3, <2>4
<1>12. PICK o : o = 2 * s + n
  OBVIOUS
<1>13. /\ o \in Nat /\ o = (IF s = 0 THEN 2 ELSE 2 * s + 1) /\ n \in Nat /\ n >= 1
       /\ (s = 0 => n = 2) /\ (s # 0 => n = 1)
  BY <1>2, <1>9, <1>12
<1>14. /\ Len(a) = o + l
       /\ \A m \in 0..s - 1 : a[2 * m + 1] = w[m] /\ a[2 * m + 2] = COLON
       /\ \A i \in 1..n + l : a[2 * s + i] = g[i]
  <2>1. /\ Len(a) = 2 * (s - 0) + Len(g)
        /\ \A m \in 0..s - 0 - 1 : a[2 * m + 1] = w[0 + m] /\ a[2 * m + 2] = COLON
        /\ \A i \in 1..Len(g) : a[2 * (s - 0) + i] = g[i]
    BY <1>4, <1>5 DEF CompactHead
  <2>2. /\ s - 0 = s /\ Len(g) = n + l /\ 2 * s + (n + l) = o + l
        /\ \A m \in 0..s - 1 : 0 + m = m
    BY <1>2, <1>7, <1>11, <1>12, <1>13
  <2> QED
    BY <2>1, <2>2
<1>15. \A i \in 1..l : a[o + i] = t[i]
  <2> TAKE i \in 1..l
  <2>1. PICK j : j = n + i
    OBVIOUS
  <2>2. j \in 1..n + l /\ ~(j <= n) /\ j - n = i /\ 2 * s + j = o + i
    BY <1>2, <1>7, <1>12, <1>13, <2>1
  <2>3. a[2 * s + j] = g[j] /\ g[j] = t[j - n]
    BY <1>11, <1>14, <2>2
  <2> QED
    BY <2>2, <2>3
<1>16. a[o] = COLON /\ a[o - 1] = COLON
  <2>1. a[o] = COLON
    <3>1. n \in 1..n + l /\ 2 * s + n = o
      BY <1>7, <1>12, <1>13
    <3> QED
      BY <1>11, <1>13, <1>14, <3>1
  <2>2. CASE s = 0
    <3>1. 1 \in 1..n + l /\ 2 * s + 1 = o - 1 /\ 1 <= n
      BY <1>7, <1>12, <1>13, <2>2
    <3> QED
      BY <1>11, <1>14, <2>1, <3>1
  <2>3. CASE s # 0
    <3>1. s - 1 \in 0..s - 1 /\ 2 * (s - 1) + 2 = o - 1
      BY <1>2, <1>12, <1>13, <2>3
    <3> QED
      BY <1>14, <2>1, <3>1
  <2> QED
    BY <2>2, <2>3
<1>17. Row(a, 0, w, 0, s, COLON)
  <2>1. ASSUME NEW m \in 0..s - 1 PROVE a[0 + 2 * m + 1] = w[0 + m] /\ w[0 + m] # COLON
    <3>1. 0 + 2 * m + 1 = 2 * m + 1 /\ 0 + m = m /\ m \in 0..NB6 - 1
      BY <1>2
    <3>2. w[m] # COLON
      BY <3>1, HexIs
    <3> QED
      BY <1>14, <3>1, <3>2
  <2>2. ASSUME NEW m \in 1..s - 1 PROVE a[0 + 2 * m] = COLON
    <3>1. m - 1 \in 0..s - 1 /\ 0 + 2 * m = 2 * (m - 1) + 2
      BY <1>2
    <3> QED
      BY <1>14, <3>1
  <2> QED
    BY <1>2, <2>1, <2>2 DEF Row
<1>18. Row(a, o, w, e, r, COLON)
  <2>1. \A i \in 1..2 * r - 1 : a[o + i] = t[i]
    <3>1. 2 * r - 1 <= l
      BY <1>2, <1>6, <1>7
    <3> QED
      BY <1>7, <1>15, <3>1
  <2>2. o \in Nat /\ r \in Nat /\ Row(t, 0, w, e, r, COLON)
    BY <1>7, <1>13
  <2> QED
    BY <2>1, <2>2, RowMoves
<1>19. a \in Seq(Token)
  BY <1>8, PieceIs, SeqDef
<1>20. Len(a) = IF e = NB6 THEN o ELSE o + 2 * (NB6 - e) - 1
  BY <1>2, <1>6, <1>7, <1>13, <1>14
<1>21. Fill6(a, w, s, e, o)
  BY <1>2, <1>6, <1>13, <1>16, <1>17, <1>18, <1>19, <1>20 DEF Fill6
<1> QED
  BY <1>1, <1>5, <1>21

-----------------------------------------------------------------------------
(***************************************************************************)
(* The blocks of a network: each is the number its parser reads, and fits. *)
(***************************************************************************)
\* The blocks that are written are the address's slots, and fit their text.
LEMMA Block4IsSlot ==
  ASSUME NEW n \in Nets4, NEW k \in 0..NB4 - 1
  PROVE  LET v == LowBits(Shr(n.bits, BB4 * (NB4 - k - 1)), W4, BB4) IN
         v = SlotOf(n, NB4 - 1 - k) /\ v \in 0..OCTET_MAX
<1>1. n.type = "v4" /\ n.bits \in Word(W4)
  BY NetAssumption DEF Word
<1>2. W4 \in Nat /\ BB4 \in 0..W4 /\ BB4 \in Nat /\ NB4 \in Nat /\ BB4 <= 8
  BY Sizes, Blocks, PrintAssumption
<1>3. PICK s, e, o, u : /\ s = NB4 - 1 - k /\ e = BB4 * (NB4 - k - 1) /\ o = W4 - s * BB4
                        /\ u = Shr(n.bits, e)
  OBVIOUS
<1>4. e \in Nat /\ e + BB4 <= W4 /\ o = W4 - e
  <2>1. s \in 0..NB4 - 1 /\ e = BB4 * s /\ e = s * BB4 /\ e \in Nat
    <3>1. s \in Nat /\ s \in 0..NB4 - 1 /\ NB4 - k - 1 = s
      BY <1>2, <1>3
    <3>2. PICK b : b = BB4
      OBVIOUS
    <3>3. b * s = s * b /\ s * b \in Nat
      BY <1>2, <3>1, <3>2
    <3> QED
      BY <1>3, <3>1, <3>2, <3>3
  <2>2. (s + 1) * BB4 <= NB4 * BB4
    BY <1>2, <2>1, Scaled
  <2>3. PICK b : b = BB4
    OBVIOUS
  <2>4. (s + 1) * b = s * b + b
    BY <1>2, <2>1, <2>3
  <2> QED
    BY <1>2, <1>3, <2>1, <2>2, <2>3, <2>4 DEF W4
<1>5. u \in Word(W4) /\ u = [i \in 1..W4 |-> IF i - e \in 1..W4 THEN n.bits[i - e] ELSE 0]
  <2>1. DOMAIN n.bits = 1..W4
    BY <1>1 DEF Word
  <2> QED
    BY <1>1, <1>2, <1>3, <2>1, ShrWord DEF Shr
<1>6. SameBits(u, n.bits, W4, o, BB4)
  <2>1. ASSUME NEW i \in 1..BB4 PROVE u[W4 - BB4 + i] = n.bits[o - BB4 + i]
    <3>1. PICK j : j = W4 - BB4 + i
      OBVIOUS
    <3>2. j \in 1..W4 /\ j - e \in 1..W4 /\ j - e = o - BB4 + i
      BY <1>2, <1>4, <3>1
    <3> QED
      BY <1>5, <3>1, <3>2
  <2> QED
    BY <2>1 DEF SameBits
<1>7. LowBits(u, W4, BB4) = LowBits(n.bits, o, BB4)
  BY <1>2, <1>4, <1>6, LowBitsSame
<1>8. SlotOf(n, s) = LowBits(n.bits, o, BB4)
  BY <1>1, <1>3 DEF SlotOf, BitsOf, MaxLen
<1>9. LowBits(u, W4, BB4) \in 0..OCTET_MAX
  BY <1>2, <1>5, LowBitsSmall
<1> QED
  BY <1>3, <1>7, <1>8, <1>9

LEMMA Blocks6Small ==
  ASSUME NEW bits \in ip6_addr_data
  PROVE  /\ ip6_addr_data_copy_to_blocks(bits) \in [0..NB6 - 1 -> 0..DOUBLE_OCTET_MAX]
         /\ ip6_addr_fmt_args(bits) \in [0..NB6 - 1 -> 0..DOUBLE_OCTET_MAX]
<1>1. /\ bits.high \in Word(C) /\ bits.low \in Word(C) /\ C \in Nat /\ BB6 \in 0..C
      /\ BB6 <= 16
  BY Sizes, CFact, PrintAssumption DEF ip6_addr_data
<1>2. ASSUME NEW w \in Word(C), NEW k PROVE LowBits(Shr(w, k), C, BB6) \in 0..DOUBLE_OCTET_MAX
  <2>1. Shr(w, k) \in Word(C)
    BY <1>1, ShrWord
  <2> QED
    BY <1>1, <2>1, LowBitsSmall
<1> HIDE DEF ip6_addr_data
<1>3. PICK M : M = 0..DOUBLE_OCTET_MAX
  OBVIOUS
<1>4. ASSUME NEW k PROVE Block(bits.high, k) \in M /\ Block(bits.low, k) \in M
  BY <1>1, <1>2, <1>3 DEF Block
<1>5. LowBits(Shr(bits.low, BB6 * (HALF - 1) - 2), C, BB6) \in M
  BY <1>1, <1>2, <1>3
<1>6. ip6_addr_data_copy_to_blocks(bits) \in [0..NB6 - 1 -> M]
  BY <1>4 DEF ip6_addr_data_copy_to_blocks
<1>7. ip6_addr_fmt_args(bits) \in [0..NB6 - 1 -> M]
  BY <1>4, <1>5 DEF ip6_addr_fmt_args
<1> QED
  BY <1>3, <1>6, <1>7

\* Up to length C the low half is zero, so the fifth block is zero from
\* wherever it is taken.
LEMMA LongIsSlot ==
  ASSUME NEW n \in Nets6, n.len <= C, NEW k \in 0..NB6 - 1
  PROVE  ip6_addr_fmt_args(n.bits)[k] = SlotOf(n, NB6 - 1 - k)
<1>1. /\ n.type = "v6" /\ n.bits \in ip6_addr_data /\ n.bits.low \in Word(C) /\ n.len \in Nat
      /\ \A i \in 1..2 * C : i > n.len => Bits6(n.bits)[i] = 0
  BY NetAssumption, CFact, PrintAssumption DEF ip6_addr_data
<1>2. C \in Nat /\ BB6 \in 0..C
  BY Sizes, CFact
<1>3. \A i \in 1..C : n.bits.low[i] = 0
  <2> TAKE i \in 1..C
  <2>1. PICK j : j = C + i
    OBVIOUS
  <2>2. j \in 1..2 * C /\ j > n.len /\ ~(j <= C) /\ j - C = i
    BY <1>1, <1>2, <2>1
  <2>3. Bits6(n.bits)[j] = n.bits.low[j - C]
    BY <2>2 DEF Bits6, IP6_MAX_PREFIXLEN
  <2> QED
    BY <1>1, <2>2, <2>3
<1>4. ASSUME NEW e PROVE LowBits(Shr(n.bits.low, e), C, BB6) = 0
  <2>1. Shr(n.bits.low, e) \in Word(C)
    BY <1>1, <1>2, ShrWord
  <2>2. \A i \in 1..C : Shr(n.bits.low, e)[i] = 0
    <3>1. DOMAIN n.bits.low = 1..C
      BY <1>1 DEF Word
    <3> QED
      BY <1>3, <3>1 DEF Shr
  <2>3. PICK u : u = Shr(n.bits.low, e)
    OBVIOUS
  <2>4. u \in Word(C) /\ \A i \in 1..C : u[i] = 0
    BY <2>1, <2>2, <2>3
  <2> QED
    BY <1>2, <2>3, <2>4, LowBitsZero
<1>5. ip6_addr_fmt_args(n.bits)[k] = ip6_addr_data_copy_to_blocks(n.bits)[k]
  <2>1. CASE k < HALF
    BY <2>1 DEF ip6_addr_fmt_args, ip6_addr_data_copy_to_blocks
  <2>2. CASE ~(k < HALF)
    <3>1. Block(n.bits.low, k - HALF) = 0
      BY <1>4 DEF Block
    <3>2. LowBits(Shr(n.bits.low, BB6 * (HALF - 1) - 2), C, BB6) = 0
      BY <1>4
    <3> QED
      BY <2>2, <3>1, <3>2 DEF ip6_addr_fmt_args, ip6_addr_data_copy_to_blocks
  <2> QED
    BY <2>1, <2>2
<1> QED
  BY <1>1, <1>5, BlockIsSlot

\* The "::" of the compact form is the first block alone.
LEMMA LoneIs ==
  ASSUME NEW n, n.type = "v6", n.bits \in ip6_addr_data, NEW b,
         b = ip6_addr_data_copy_to_blocks(n.bits), NEW z, Longest(b, z, NB6)
  PROVE  z.start = 0 /\ z.len = 1 <=> LoneLeadingZero(n)
<1>1. NB6 \in Nat /\ NB6 > 1
  BY Sizes
<1>2. \A k \in 0..NB6 - 1 : b[k] = SlotOf(n, NB6 - 1 - k)
  BY BlockIsSlot
<1>3. PICK p, l : p = z.start /\ l = z.len
  OBVIOUS
<1>4. p \in Nat /\ l \in Nat /\ p + l <= NB6 /\ \A m \in p..p + l - 1 : b[m] = 0
  BY <1>3 DEF Longest, ZeroBlocks
<1>5. ASSUME NEW i \in 0..NB6 - 1, NEW j \in 0..NB6 - 1, i <= j, \A m \in i..j : b[m] = 0
      PROVE  j - i + 1 < l \/ (j - i + 1 = l /\ p <= i)
  BY <1>3, <1>5 DEF Longest, ZeroBlocks
<1>6. LoneLeadingZero(n) <=> /\ b[0] = 0
                             /\ \A k \in 0..NB6 - 2 : b[k] = 0 => b[k + 1] # 0
  <2>1. b[0] = SlotOf(n, NB6 - 1)
    BY <1>1, <1>2
  <2>2. ASSUME NEW s \in 1..NB6 - 1, \A k \in 0..NB6 - 2 : b[k] = 0 => b[k + 1] # 0
        PROVE  SlotOf(n, s) = 0 => SlotOf(n, s - 1) # 0
    <3>1. PICK k : k = NB6 - 1 - s
      OBVIOUS
    <3>2. k \in 0..NB6 - 2 /\ k \in 0..NB6 - 1 /\ k + 1 \in 0..NB6 - 1 /\ NB6 - 1 - k = s
          /\ NB6 - 1 - (k + 1) = s - 1
      BY <1>1, <3>1
    <3>3. b[k] = SlotOf(n, s) /\ b[k + 1] = SlotOf(n, s - 1)
      BY <1>2, <3>2
    <3> QED
      BY <2>2, <3>2, <3>3
  <2>3. ASSUME NEW k \in 0..NB6 - 2, \A s \in 1..NB6 - 1 : SlotOf(n, s) = 0 => SlotOf(n, s - 1) # 0
        PROVE  b[k] = 0 => b[k + 1] # 0
    <3>1. PICK s : s = NB6 - 1 - k
      OBVIOUS
    <3>2. s \in 1..NB6 - 1 /\ k \in 0..NB6 - 1 /\ k + 1 \in 0..NB6 - 1 /\ NB6 - 1 - k = s
          /\ NB6 - 1 - (k + 1) = s - 1
      BY <1>1, <3>1
    <3>3. b[k] = SlotOf(n, s) /\ b[k + 1] = SlotOf(n, s - 1)
      BY <1>2, <3>2
    <3> QED
      BY <2>3, <3>2, <3>3
  <2> QED
    BY <2>1, <2>2, <2>3 DEF LoneLeadingZero
<1>7. ASSUME p = 0, l = 1 PROVE b[0] = 0 /\ \A k \in 0..NB6 - 2 : b[k] = 0 => b[k + 1] # 0
  <2>1. b[0] = 0
    BY <1>4, <1>7
  <2>2. ASSUME NEW k \in 0..NB6 - 2, b[k] = 0, b[k + 1] = 0 PROVE FALSE
    <3>1. PICK j : j = k + 1
      OBVIOUS
    <3>2. k \in 0..NB6 - 1 /\ j \in 0..NB6 - 1 /\ k <= j /\ j - k + 1 = 2
          /\ \A m \in k..j : m = k \/ m = j
      BY <1>1, <3>1
    <3>3. \A m \in k..j : b[m] = 0
      BY <2>2, <3>1, <3>2
    <3>4. 2 < l \/ 2 = l
      BY <1>5, <3>2, <3>3
    <3> QED
      BY <1>7, <3>4
  <2> QED
    BY <2>1, <2>2
<1>8. ASSUME b[0] = 0, \A k \in 0..NB6 - 2 : b[k] = 0 => b[k + 1] # 0 PROVE p = 0 /\ l = 1
  <2>1. 1 < l \/ (1 = l /\ p <= 0)
    <3>1. 0 \in 0..NB6 - 1 /\ 0 <= 0 /\ 0 - 0 + 1 = 1 /\ \A m \in 0..0 : m = 0
      BY <1>1
    <3>2. \A m \in 0..0 : b[m] = 0
      BY <1>8, <3>1
    <3> QED
      BY <1>5, <3>1, <3>2
  <2>2. ~(1 < l)
    <3> SUFFICES ASSUME 1 < l PROVE FALSE
      OBVIOUS
    <3>1. p \in 0..NB6 - 2 /\ p \in p..p + l - 1 /\ p + 1 \in p..p + l - 1
      BY <1>1, <1>4
    <3>2. b[p] = 0 /\ b[p + 1] = 0
      BY <1>4, <3>1
    <3> QED
      BY <1>8, <3>1, <3>2
  <2> QED
    BY <1>4, <2>1, <2>2
<1> QED
  BY <1>3, <1>6, <1>7, <1>8

-----------------------------------------------------------------------------
(***************************************************************************)
(* What the text of an address means, for each form.                       *)
(***************************************************************************)
\* The address of a line, as it is printed: how it starts, and what it means.
Starts4(a) == Len(a) > 1 /\ a[1].scan = "digits" /\ a[2] = DOT

Starts6(a) ==
  /\ Len(a) >= 1
  /\ \/ a[1] = COLON \/ a[1].scan = "letters"
     \/ a[1].scan = "digits" /\ Len(a) > 1 /\ a[2] = COLON

Printed4(n, a) ==
  /\ a \in Seq(Token) /\ NoSlash(a) /\ Starts4(a) /\ IsText4(a) /\ Len(a) = 2 * NB4 - 1
  /\ \A s \in 0..NB4 - 1 : Slot4(a, s) = SlotOf(n, s)

AllBlocks6(a) ==
  DoubleColons(a) = {} /\ a[Len(a)] # COLON /\ Count(a, COLON, 1, Len(a)) = NB6 - 1

SomeBlocks6(a) ==
  \E d : /\ DoubleColons(a) = {d} /\ (a[Len(a)] = COLON <=> RightOf(a, d) = 0)
         /\ RightOf(a, d) \in Nat /\ LeftOf(a, d) \in Nat
         /\ RightOf(a, d) = 0 => LeftOf(a, d) < NB6

SameSlots6(n, a) == \A s \in 0..NB6 - 1 : Slot6(a, s) = SlotOf(n, s)

Printed6(n, f, a) ==
  /\ a \in Seq(Token) /\ NoSlash(a) /\ Starts6(a)
  /\ f = "long" => IsText6(a) /\ AllBlocks6(a) /\ (n.len <= C => SameSlots6(n, a))
  /\ f # "long" => /\ IsText6(a) <=> ~LoneLeadingZero(n)
                   /\ AllBlocks6(a) \/ SomeBlocks6(a)
                   /\ SameSlots6(n, a)

LEMMA Row6Starts ==
  ASSUME NEW a, NEW w, Row(a, 0, w, 0, NB6, COLON), NEW v, w[0] = HexText(v),
         Len(a) = 2 * NB6 - 1
  PROVE  Starts6(a)
<1>1. NB6 \in Nat /\ NB6 > 1
  BY Sizes
<1>2. a[0 + 2 * 0 + 1] = w[0 + 0] /\ a[0 + 2 * 1] = COLON
  BY <1>1 DEF Row
<1>3. a[1] = w[0] /\ a[2] = COLON /\ Len(a) > 1
  BY <1>1, <1>2
<1>4. w[0].scan \in {"letters", "digits"}
  BY HexIs
<1> QED
  BY <1>1, <1>3, <1>4 DEF Starts6

LEMMA Fill6Starts ==
  ASSUME NEW a, NEW w, NEW s, NEW e, NEW o, Fill6(a, w, s, e, o), NEW v, w[0] = HexText(v)
  PROVE  Starts6(a)
<1>1. /\ NB6 \in Nat /\ NB6 > 1 /\ s \in 0..NB6 - 1 /\ e \in s + 1..NB6
      /\ o = IF s = 0 THEN 2 ELSE 2 * s + 1
      /\ Len(a) = IF e = NB6 THEN o ELSE o + 2 * (NB6 - e) - 1
  BY Sizes DEF Fill6
<1>2. Len(a) > 1
  BY <1>1
<1>3. CASE s = 0
  <2>1. a[o - 1] = COLON /\ o - 1 = 1
    BY <1>1, <1>3 DEF Fill6
  <2> QED
    BY <1>2, <2>1 DEF Starts6
<1>4. CASE s # 0
  <2>1. a[0 + 2 * 0 + 1] = w[0 + 0] /\ (s > 1 => a[0 + 2 * 1] = COLON)
    BY <1>1, <1>4 DEF Fill6, Row
  <2>2. s = 1 => a[o - 1] = COLON /\ o - 1 = 2
    BY <1>1 DEF Fill6
  <2>3. a[1] = w[0] /\ a[2] = COLON
    BY <1>1, <1>4, <2>1, <2>2
  <2>4. w[0].scan \in {"letters", "digits"}
    BY HexIs
  <2> QED
    BY <1>2, <2>3, <2>4 DEF Starts6
<1> QED
  BY <1>3, <1>4

LEMMA Addr4Printed == ASSUME NEW n \in Nets4, NEW f PROVE Printed4(n, AddrText(n, f))
<1> DEFINE V(k) == LowBits(Shr(n.bits, BB4 * (NB4 - k - 1)), W4, BB4)
           w == [k \in 0..NB4 - 1 |-> DecText(V(k))]
           v == [k \in 0..NB4 - 1 |-> V(k)]
           a == Joined(w, NB4, DOT)
<1>1. AddrText(n, f) = a
  BY NetAssumption DEF AddrText, IP4_ADDR_FMT
<1>2. ASSUME NEW k \in 0..NB4 - 1 PROVE V(k) = SlotOf(n, NB4 - 1 - k) /\ V(k) \in 0..OCTET_MAX
  BY Block4IsSlot
<1>3. PICK M : M = 0..OCTET_MAX /\ M \subseteq Nat
  <2>1. OCTET_MAX \in Nat
    BY DEF OCTET_MAX
  <2>2. PICK x : x = OCTET_MAX
    OBVIOUS
  <2>3. 0..x \subseteq Nat
    BY <2>1, <2>2
  <2> QED
    BY <2>2, <2>3
<1>4. v \in [0..NB4 - 1 -> 0..OCTET_MAX] /\ \A k \in 0..NB4 - 1 : v[k] = SlotOf(n, NB4 - 1 - k)
  <2> HIDE DEF V
  <2> QED
    BY <1>2, <1>3
<1>5. \A k \in 0..NB4 - 1 : w[k] = DecText(v[k]) /\ v[k] \in Nat
  <2> HIDE DEF V
  <2> QED
    BY <1>2, <1>3
<1> HIDE DEF V, v
<1>6. \A k \in 0..NB4 - 1 : w[k] \in Token /\ w[k] # DOT /\ w[k].scan = "digits"
  <2> TAKE k \in 0..NB4 - 1
  <2>1. DecText(v[k]) \in Token
    BY <1>5, NumberText
  <2>2. DecText(v[k]).scan = "digits" /\ DOT.scan # "digits"
    BY DEF DecText, DOT
  <2> QED
    BY <1>5, <2>1, <2>2
<1>7. DOMAIN w = 0..NB4 - 1
  OBVIOUS
<1>8. w \in [0..NB4 - 1 -> Token]
  BY <1>6, <1>7
<1> HIDE DEF w
<1>9. NB4 \in Nat /\ NB4 > 1
  BY Blocks, PrintAssumption
<1>10. a \in Seq(Token) /\ Len(a) = 2 * NB4 - 1 /\ Row(a, 0, w, 0, NB4, DOT)
  BY <1>6, <1>8, <1>9, JoinedRow, Separators
<1> HIDE DEF a
<1>11. IsText4(a) /\ \A s \in 0..NB4 - 1 : Slot4(a, s) = v[NB4 - 1 - s]
  BY <1>4, <1>5, <1>10, Row4Means
<1>12. Starts4(a)
  <2>1. a[0 + 2 * 0 + 1] = w[0 + 0] /\ a[0 + 2 * 1] = DOT
    BY <1>9, <1>10 DEF Row
  <2>2. a[1] = w[0] /\ a[2] = DOT /\ 0 \in 0..NB4 - 1
    BY <1>9, <2>1
  <2> QED
    BY <1>6, <1>9, <1>10, <2>2 DEF Starts4
<1>13. NoSlash(a)
  <2>1. SLASH # DOT /\ SLASH.dec \notin 0..OCTET_MAX
    BY DEF SLASH, DOT, BAD
  <2>2. DOMAIN a = 1..Len(a)
    BY <1>10, LenProperties
  <2> QED
    BY <1>11, <2>1, <2>2 DEF NoSlash, IsText4
<1>14. ASSUME NEW s \in 0..NB4 - 1 PROVE Slot4(a, s) = SlotOf(n, s)
  <2>1. PICK k : k = NB4 - 1 - s
    OBVIOUS
  <2>2. k \in 0..NB4 - 1 /\ NB4 - 1 - k = s
    BY <1>9, <2>1
  <2>3. Slot4(a, s) = v[k] /\ v[k] = SlotOf(n, NB4 - 1 - k)
    BY <1>4, <1>11, <2>1, <2>2
  <2> QED
    BY <2>2, <2>3
<1> QED
  BY <1>1, <1>10, <1>11, <1>12, <1>13, <1>14 DEF Printed4

LEMMA Long6Printed == ASSUME NEW n \in Nets6 PROVE Printed6(n, "long", AddrText(n, "long"))
<1> DEFINE v == ip6_addr_fmt_args(n.bits)
           w == [k \in 0..NB6 - 1 |-> HexText(v[k])]
           a == Joined(w, NB6, COLON)
<1>0. n.type = "v6" /\ n.bits \in ip6_addr_data /\ NB6 \in Nat /\ NB6 > 1
  BY NetAssumption, Sizes
<1>1. AddrText(n, "long") = a
  BY <1>0 DEF AddrText, IP6_ADDR_FMT
<1>2. v \in [0..NB6 - 1 -> 0..DOUBLE_OCTET_MAX]
  BY <1>0, Blocks6Small
<1>3. n.len <= C => \A k \in 0..NB6 - 1 : v[k] = SlotOf(n, NB6 - 1 - k)
  BY LongIsSlot
<1>4. v \in [0..NB6 - 1 -> Nat]
  BY <1>0, BlocksNat
<1> HIDE DEF v
<1>5. \A k \in 0..NB6 - 1 : w[k] = HexText(v[k]) /\ w[k] \in Token /\ w[k] # COLON
  BY <1>4, NumberText, HexIs
<1>6. DOMAIN w = 0..NB6 - 1
  OBVIOUS
<1>7. w \in [0..NB6 - 1 -> Token]
  BY <1>5, <1>6
<1> HIDE DEF w
<1>8. a \in Seq(Token) /\ Len(a) = 2 * NB6 - 1 /\ Row(a, 0, w, 0, NB6, COLON)
  BY <1>0, <1>5, <1>7, JoinedRow, Separators
<1> HIDE DEF a
<1>9. Words6(v, w) /\ Row6(a, w)
  BY <1>2, <1>5, <1>8 DEF Words6, Row6
<1>10. /\ IsText6(a) /\ AllBlocks6(a)
       /\ \A s \in 0..NB6 - 1 : Slot6(a, s) = v[NB6 - 1 - s]
  BY <1>9, Row6Means DEF AllBlocks6
<1>11. Starts6(a)
  <2>1. w[0] = HexText(v[0])
    BY <1>0, <1>5
  <2> QED
    BY <1>8, <2>1, Row6Starts
<1>12. NoSlash(a)
  <2>1. SLASH # COLON /\ SLASH.hex \notin 0..DOUBLE_OCTET_MAX
    BY DEF SLASH, COLON, BAD
  <2>2. DOMAIN a = 1..Len(a)
    BY <1>8, LenProperties
  <2> QED
    BY <1>10, <2>1, <2>2 DEF NoSlash, IsText6
<1>13. ASSUME n.len <= C, NEW s \in 0..NB6 - 1 PROVE Slot6(a, s) = SlotOf(n, s)
  <2>1. PICK k : k = NB6 - 1 - s
    OBVIOUS
  <2>2. k \in 0..NB6 - 1 /\ NB6 - 1 - k = s
    BY <1>0, <2>1
  <2>3. Slot6(a, s) = v[k] /\ v[k] = SlotOf(n, NB6 - 1 - k)
    BY <1>3, <1>10, <1>13, <2>1, <2>2
  <2> QED
    BY <2>2, <2>3
<1> QED
  BY <1>1, <1>8, <1>10, <1>11, <1>12, <1>13 DEF Printed6, SameSlots6

LEMMA Compact6Printed ==
  ASSUME NEW n \in Nets6, NEW g, g # "long" PROVE Printed6(n, g, AddrText(n, g))
<1>0. n.type = "v6" /\ n.bits \in ip6_addr_data /\ NB6 \in Nat /\ NB6 > 1
  BY NetAssumption, Sizes
<1>1. PICK b : b = ip6_addr_data_copy_to_blocks(n.bits)
  OBVIOUS
<1>2. b \in [0..NB6 - 1 -> 0..DOUBLE_OCTET_MAX] /\ b \in [0..NB6 - 1 -> Nat]
  BY <1>0, <1>1, BlocksNat, Blocks6Small
<1>3. \A k \in 0..NB6 - 1 : b[k] = SlotOf(n, NB6 - 1 - k)
  BY <1>0, <1>1, BlockIsSlot
<1>4. PICK z : z = ip6_addr_data_find_longest_zero_seq(b)
  OBVIOUS
<1>5. Longest(b, z, NB6)
  BY <1>4, ZeroSeqIs
<1>6. /\ z.start \in Nat /\ z.len \in Nat /\ z.start + z.len <= NB6
      /\ \A m \in z.start..z.start + z.len - 1 : b[m] = 0
  BY <1>5 DEF Longest, ZeroBlocks
<1>7. PICK f : f[0] = ip6_addr_data_build_addr_str(b, z) /\ CompactFrom(b, z, f)
  BY <1>2, <1>6, CompactIs
<1>8. AddrText(n, g) = f[0]
  BY <1>0, <1>1, <1>4, <1>7 DEF AddrText, ip6_addr_data_into_str
<1>9. PICK a : a = f[0]
  OBVIOUS
<1>10. a \in Seq(Piece)
  <2>1. 0 \in 0..NB6
    BY Blocks
  <2> QED
    BY <1>7, <1>9, <2>1 DEF CompactFrom
<1>11. a \in Seq(Token) /\ NoSlash(a)
  <2>1. a \in Seq(Token)
    BY <1>10, PieceIs, SeqDef
  <2>2. \A i \in 1..Len(a) : a[i] \in Piece
    BY <1>10, LenProperties, ElementOfSeq
  <2> QED
    BY <2>1, <2>2, PieceIs DEF NoSlash
<1> DEFINE w == [k \in 0..NB6 - 1 |-> HexText(b[k])]
<1>12. \A k \in 0..NB6 - 1 : w[k] = HexText(b[k])
  OBVIOUS
<1> HIDE DEF w
<1>13. Words6(b, w) /\ w[0] = HexText(b[0])
  BY <1>0, <1>2, <1>12 DEF Words6
<1>14. z.start = 0 /\ z.len = 1 <=> LoneLeadingZero(n)
  BY <1>0, <1>1, <1>5, LoneIs
<1>15. ASSUME \A s \in 0..NB6 - 1 : Slot6(a, s) = b[NB6 - 1 - s] PROVE SameSlots6(n, a)
  <2>1. ASSUME NEW s \in 0..NB6 - 1 PROVE Slot6(a, s) = SlotOf(n, s)
    <3>1. PICK k : k = NB6 - 1 - s
      OBVIOUS
    <3>2. k \in 0..NB6 - 1 /\ NB6 - 1 - k = s
      BY <1>0, <3>1
    <3>3. Slot6(a, s) = b[k] /\ b[k] = SlotOf(n, NB6 - 1 - k)
      BY <1>3, <1>15, <3>1, <3>2
    <3> QED
      BY <3>2, <3>3
  <2> QED
    BY <2>1 DEF SameSlots6
<1>16. CASE z.len = 0
  <2>1. 0 \in 0..NB6 /\ 0 # NB6 /\ \A k \in 0..NB6 - 1 : ~Filled(z, k)
    BY <1>0, <1>16 DEF Filled
  <2>2. CompactTail(w, a, 0)
    BY <1>2, <1>7, <1>9, <1>12, <2>1, CompactTailIs
  <2>3. NB6 - 0 = NB6
    BY <1>0
  <2>4. Len(a) = 2 * NB6 - 1 /\ Row(a, 0, w, 0, NB6, COLON)
    BY <2>1, <2>2, <2>3 DEF CompactTail
  <2>5. Row6(a, w)
    BY <1>11, <2>4 DEF Row6
  <2>6. IsText6(a) /\ AllBlocks6(a) /\ SameSlots6(n, a)
    BY <1>13, <1>15, <2>5, Row6Means DEF AllBlocks6
  <2>7. ~LoneLeadingZero(n)
    BY <1>14, <1>16
  <2>8. Starts6(a)
    BY <1>13, <2>4, Row6Starts
  <2> QED
    BY <1>8, <1>9, <1>11, <2>6, <2>7, <2>8 DEF Printed6
<1>17. CASE z.len # 0
  <2>1. PICK s, e : s = z.start /\ e = z.start + z.len
    OBVIOUS
  <2>2. s \in Nat /\ e \in Nat /\ z.len > 0 /\ e <= NB6 /\ s < e /\ z.len = e - s
    BY <1>0, <1>6, <1>17, <2>1
  <2>3. PICK o : Fill6(a, w, s, e, o)
    BY <1>2, <1>6, <1>7, <1>9, <1>12, <2>1, <2>2, CompactFills
  <2>4. \A k \in s..e - 1 : b[k] = 0
    BY <1>6, <2>1
  <2>5. /\ IsText6(a) <=> ~(s = 0 /\ e = 1)
        /\ DoubleColons(a) = {o - 1} /\ (a[Len(a)] = COLON <=> e = NB6)
        /\ LeftOf(a, o - 1) = (IF s = 0 THEN 1 ELSE s) /\ RightOf(a, o - 1) = NB6 - e
        /\ \A x \in 0..NB6 - 1 : Slot6(a, x) = b[NB6 - 1 - x]
    BY <1>13, <2>3, <2>4, Fill6Means
  <2>6. SomeBlocks6(a)
    <3>1. PICK d, l, r : d = o - 1 /\ l = LeftOf(a, d) /\ r = RightOf(a, d)
      OBVIOUS
    <3>2. l = (IF s = 0 THEN 1 ELSE s) /\ r = NB6 - e
      BY <2>5, <3>1
    <3>3. r \in Nat /\ l \in Nat /\ (r = 0 <=> e = NB6) /\ (r = 0 => l < NB6)
      BY <1>0, <2>2, <3>2
    <3>4. DoubleColons(a) = {d} /\ (a[Len(a)] = COLON <=> r = 0)
      BY <2>5, <3>1, <3>3
    <3> QED
      BY <3>1, <3>3, <3>4 DEF SomeBlocks6
  <2>7. s = 0 /\ e = 1 <=> z.start = 0 /\ z.len = 1
    BY <2>1, <2>2
  <2>8. IsText6(a) <=> ~LoneLeadingZero(n)
    BY <1>14, <2>5, <2>7
  <2>9. Starts6(a)
    BY <1>13, <2>3, Fill6Starts
  <2>10. SameSlots6(n, a)
    BY <1>15, <2>5
  <2> QED
    BY <1>8, <1>9, <1>11, <2>6, <2>8, <2>9, <2>10 DEF Printed6
<1> QED
  BY <1>16, <1>17

-----------------------------------------------------------------------------
(***************************************************************************)
(* The line of a network, and the types it may be of.                      *)
(***************************************************************************)
\* The line of a network: its address, and its length unless -r leaves it out.
Lengthless(n, redux) == redux /\ n.len = MaxLen(n.type)

LineOf(t, n, a, redux) ==
  /\ t \in Seq(Token) /\ AddrPart(t) = a /\ Len(t) >= 1 /\ t[Len(t)] # SLASH
  /\ HasSlash(t) <=> ~Lengthless(n, redux)
  /\ HasSlash(t) => LastSlash(t) = Len(t) - 1 /\ t[Len(t)].dec = n.len
  /\ ~HasSlash(t) => t = a /\ LastSlash(t) = 0

LEMMA LineIs ==
  ASSUME NEW n \in Nets4 \union Nets6, NEW f, NEW redux, NEW a, a = AddrText(n, f),
         a \in Seq(Token), NoSlash(a), Len(a) >= 1
  PROVE  LineOf(NetText(n, f, redux), n, a, redux)
<1>1. n.len \in Nat
  BY NetAssumption, Sizes, CFact
<1>2. Len(a) \in Nat
  BY LenProperties
<1>3. CASE Lengthless(n, redux)
  <2>1. NetText(n, f, redux) = a
    BY <1>3 DEF NetText, Lengthless
  <2>2. AddrPart(a) = a /\ ~HasSlash(a) /\ LastSlash(a) = 0
    BY BareLine DEF LastSlash
  <2>3. a[Len(a)] # SLASH
    <3>1. Len(a) \in 1..Len(a)
      BY <1>2
    <3> QED
      BY <3>1 DEF NoSlash
  <2> QED
    BY <1>3, <2>1, <2>2, <2>3 DEF LineOf
<1>4. CASE ~Lengthless(n, redux)
  <2>1. PICK t : t = NetText(n, f, redux) /\ t = a \o <<SLASH, DecText(n.len)>>
    BY <1>4 DEF NetText, Lengthless
  <2>2. /\ t \in Seq(Token) /\ AddrPart(t) = a /\ HasSlash(t) /\ LastSlash(t) = Len(t) - 1
        /\ Len(t) = Len(a) + 2 /\ t[Len(t)] = DecText(n.len)
    BY <1>1, <2>1, SlashedLine
  <2>3. DecText(n.len) # SLASH /\ DecText(n.len).dec = n.len
    BY DEF DecText, SLASH
  <2>4. Len(t) >= 1
    BY <1>2, <2>2
  <2> QED
    BY <1>4, <2>1, <2>2, <2>3, <2>4 DEF LineOf
<1> QED
  BY <1>3, <1>4

\* parse_ip_mixed_guess_type() decides by the first or second word.
LEMMA GuessAt ==
  ASSUME CutUp, GuessType, NEW k \in 1..2, k <= AddrLen(text),
         text[k].scan # "digits", k = 2 => text[1].scan = "digits", text[1].scan # "0x"
  PROVE  /\ text[k].scan = "." => pc' = "v4" /\ guess' = {"v4"}
         /\ text[k].scan \in {":", "letters"} => pc' = "v4" /\ guess' = {"v6"}
<1> DEFINE n == AddrLen(text)
           P(i) == At(line, i).scan # "digits" /\ \A j \in 1..i - 1 : line[j].scan = "digits"
           c == CHOOSE i \in 1..Len(line) + 1 : P(i)
           types == IF line[1].scan = "0x" THEN {Types} ELSE GuessedTypes(c)
<1>1. /\ pc = "guess"
      /\ IF types = {} THEN pc' = "done" ELSE pc' = "v4" /\ guess' \in types
  BY DEF GuessType
<1>2. /\ text \in Seq(Token) /\ Len(line) = Len(text) /\ \A i \in 1..n : line[i] = text[i]
  BY <1>1 DEF CutUp, Parsing
<1>3. n \in 0..Len(text) /\ Len(text) \in Nat
  BY <1>2, AddrPartIs
<1> HIDE DEF n
<1>4. k <= n /\ 1 \in 1..n /\ k \in 1..n /\ k \in 1..Len(line) + 1 /\ k <= Len(line)
  BY <1>2, <1>3 DEF n
<1>5. line[1] = text[1] /\ line[k] = text[k] /\ At(line, k) = text[k]
  BY <1>2, <1>4 DEF At
<1>6. P(k)
  <2>1. \A j \in 1..k - 1 : k = 2 /\ j = 1
    OBVIOUS
  <2> QED
    BY <1>5, <2>1
<1>7. c \in 1..Len(line) + 1 /\ P(c)
  <2> HIDE DEF P
  <2> QED
    BY <1>4, <1>6
<1>8. c = k
  <2> HIDE DEF c
  <2>1. ~(c < k)
    <3> SUFFICES ASSUME c < k PROVE FALSE
      OBVIOUS
    <3>1. k = 2 /\ c = 1
      BY <1>2, <1>3, <1>7
    <3>2. At(line, 1) = text[1]
      BY <1>2, <1>3, <1>4, <1>5 DEF At
    <3> QED
      BY <1>7, <3>1, <3>2
  <2>2. ~(c > k)
    <3> SUFFICES ASSUME c > k PROVE FALSE
      OBVIOUS
    <3>1. k \in 1..c - 1
      BY <1>2, <1>3, <1>7
    <3> QED
      BY <1>5, <1>7, <3>1
  <2> QED
    BY <1>2, <1>3, <1>7, <2>1, <2>2
<1>9. types = GuessedTypes(k)
  BY <1>5, <1>8
<1> HIDE DEF types, c
<1>10. ASSUME text[k].scan = "." PROVE types = {{"v4"}}
  BY <1>5, <1>9, <1>10 DEF GuessedTypes
<1>11. ASSUME text[k].scan \in {":", "letters"} PROVE types = {{"v6"}}
  BY <1>5, <1>9, <1>11 DEF GuessedTypes
<1> QED
  BY <1>1, <1>10, <1>11

LEMMA GuessPrinted ==
  ASSUME CutUp, GuessType, NEW a, a = AddrPart(text)
  PROVE  /\ Starts4(a) => pc' = "v4" /\ guess' = {"v4"}
         /\ Starts6(a) => pc' = "v4" /\ guess' = {"v6"}
<1>1. /\ text \in Seq(Token) /\ Len(a) = AddrLen(text) /\ Len(a) \in Nat
      /\ \A i \in 1..Len(a) : a[i] = text[i]
  BY AddrIs
<1>2. DOT.scan = "." /\ COLON.scan = ":"
  BY DEF DOT, COLON
<1>3. ASSUME Starts4(a) PROVE pc' = "v4" /\ guess' = {"v4"}
  <2>1. 1 \in 1..Len(a) /\ 2 \in 1..Len(a) /\ 2 \in 1..2 /\ 2 <= AddrLen(text)
    BY <1>1, <1>3 DEF Starts4
  <2>2. text[1].scan = "digits" /\ text[2] = DOT
    BY <1>1, <1>3, <2>1 DEF Starts4
  <2>3. text[2].scan = "."
    BY <1>2, <2>2
  <2> QED
    BY <2>1, <2>2, <2>3, GuessAt
<1>4. ASSUME Starts6(a) PROVE pc' = "v4" /\ guess' = {"v6"}
  <2>1. 1 \in 1..Len(a) /\ 1 \in 1..2 /\ 1 <= AddrLen(text) /\ 1 # 2
    BY <1>1, <1>4 DEF Starts6
  <2>2. text[1] = a[1]
    BY <1>1, <2>1
  <2>3. CASE a[1] = COLON \/ a[1].scan = "letters"
    <3>1. text[1].scan \in {":", "letters"}
      BY <1>2, <2>2, <2>3
    <3> QED
      BY <2>1, <3>1, GuessAt
  <2>4. CASE a[1].scan = "digits" /\ Len(a) > 1 /\ a[2] = COLON
    <3>1. 2 \in 1..Len(a) /\ 2 \in 1..2 /\ 2 <= AddrLen(text)
      BY <1>1, <2>4
    <3>2. text[1].scan = "digits" /\ text[2].scan = ":"
      BY <1>1, <1>2, <2>2, <2>4, <3>1
    <3> QED
      BY <3>1, <3>2, GuessAt
  <2> QED
    BY <1>4, <2>3, <2>4 DEF Starts6
<1> QED
  BY <1>3, <1>4

-----------------------------------------------------------------------------
(***************************************************************************)
(* What the block loops leave behind at the end of the address.            *)
(***************************************************************************)
\* The length that is guessed when the text names none: of as many blocks as
\* were written, or all of them when there are some behind a double colon.
Guessed4 ==
  /\ pc \in {"v6", "blocks6", "done"} /\ "v4" \in guess
  /\ ret["v4"] = OK /\ ~HasSlash(text)
  => \E k \in Nat : addr["v4"].len = k * BB4 /\ Len(AddrPart(text)) \in {2 * k - 1, 2 * k}

Guessed6 ==
  Tried("v6") /\ ret["v6"] = OK /\ ~HasSlash(text) =>
    LET a == AddrPart(text) IN
    /\ DoubleColons(a) = {} => addr["v6"].len = (Count(a, COLON, 1, Len(a)) + 1) * BB6
    /\ \A d \in DoubleColons(a) :
         addr["v6"].len = IF RightOf(a, d) > 0 THEN IP6_MAX ELSE LeftOf(a, d) * BB6

LEMMA Guessed4End == ASSUME MeansInv, GuessInv, EndBlocks4 PROVE Guessed4'
<1> DEFINE p == Prefixlen4
           k == buf4.num
<1>1. /\ pc = "blocks4" /\ ~MoreBlocks /\ text' = text
      /\ IF k = 0 \/ p = BAD
         THEN ret' = [ret EXCEPT !["v4"] = INVALID_LINE]
         ELSE addr' = [addr EXCEPT !["v4"] = MakeAddr4(buf4, p)]
  BY DEF EndBlocks4, Done4
<1>2. DOMAIN ret = Types /\ DOMAIN addr = Types /\ "v4" \in Types
  BY DEF GuessInv, Types
<1>3. CutUp /\ Loop4 /\ Parsing
  BY <1>1 DEF MeansInv, Parsing
<1>4. k \in Nat /\ AddrLen(text) \in {2 * k - 1, 2 * k}
  BY <1>1, <1>3, End4Accepts
<1>5. ~HasSlash(text) => p = k * BB4
  BY <1>1, <1>3 DEF CutUp, Prefixlen4
<1>6. Len(AddrPart(text)) = AddrLen(text)
  BY <1>3, AddrIs
<1> HIDE DEF p, k
<1>7. CASE k = 0 \/ p = BAD
  <2>1. ret'["v4"] # OK
    BY <1>1, <1>2, <1>7 DEF INVALID_LINE, OK
  <2> QED
    BY <2>1 DEF Guessed4
<1>8. CASE ~(k = 0 \/ p = BAD)
  <2>1. addr'["v4"].len = p
    BY <1>1, <1>2, <1>8 DEF MakeAddr4
  <2>2. ~HasSlash(text) => addr'["v4"].len = k * BB4
    BY <1>5, <2>1
  <2> QED
    BY <1>1, <1>4, <1>6, <2>2 DEF Guessed4
<1> QED
  BY <1>7, <1>8

LEMMA Guessed6End == ASSUME MeansInv, GuessInv, BufInv, Means6Inv, EndBlocks6 PROVE Guessed6'
<1> DEFINE a == AddrPart(text)
           p == Prefixlen6
           k == buf6.num
           full == buf6.on_right /\ k >= NB6
<1>1. /\ pc = "blocks6" /\ ~MoreBlocks /\ text' = text
      /\ IF k = 0 \/ full \/ p = BAD
         THEN ret' = [ret EXCEPT !["v6"] = INVALID_LINE]
         ELSE addr' = [addr EXCEPT !["v6"] = MakeAddr6(buf6, p)]
  BY DEF EndBlocks6, Done6
<1>2. DOMAIN ret = Types /\ DOMAIN addr = Types /\ "v6" \in Types
  BY DEF GuessInv, Types
<1>3. CutUp /\ Loop6 /\ Parsing /\ IsBuf6(buf6)
  BY <1>1 DEF MeansInv, Means6Inv, BufInv, Parsing
<1>4. PICK d \in Nat :
        /\ DoubleColons(a) = IF d = 0 THEN {} ELSE {d}
        /\ d = 0 => buf6.left = Count(a, COLON, 1, AddrLen(text)) + 1 /\ buf6.right = 0
        /\ d # 0 => buf6.left = LeftOf(a, d) /\ buf6.right = RightOf(a, d)
  BY <1>1, <1>3, End6Is
<1>5. Len(a) = AddrLen(text)
  BY <1>3, AddrIs
<1>6. /\ buf6.left \in Nat /\ buf6.right \in Nat /\ k = buf6.left + buf6.right
  BY <1>3, BufIs
<1>7. ASSUME ~HasSlash(text)
      PROVE  p = IF buf6.right > 0 THEN IP6_MAX ELSE buf6.left * BB6
  <2>1. p = IF buf6.right > 0 THEN IP6_MAX ELSE k * BB6
    BY <1>1, <1>3, <1>7 DEF CutUp, Prefixlen6
  <2>2. ~(buf6.right > 0) => k = buf6.left
    BY <1>6
  <2> QED
    BY <2>1, <2>2
<1> HIDE DEF a, p, k, full
<1>8. CASE k = 0 \/ full \/ p = BAD
  <2>1. ret'["v6"] # OK
    BY <1>1, <1>2, <1>8 DEF INVALID_LINE, OK
  <2> QED
    BY <2>1 DEF Guessed6
<1>9. CASE ~(k = 0 \/ full \/ p = BAD)
  <2>1. addr'["v6"].len = p /\ AddrPart(text') = a
    BY <1>1, <1>2, <1>9 DEF MakeAddr6, a
  <2>2. ASSUME ~HasSlash(text), DoubleColons(a) = {}
        PROVE  addr'["v6"].len = (Count(a, COLON, 1, Len(a)) + 1) * BB6
    <3>1. d = 0
      BY <1>4, <2>2
    <3>2. ~(buf6.right > 0) /\ buf6.left = Count(a, COLON, 1, Len(a)) + 1
      BY <1>4, <1>5, <3>1
    <3> QED
      BY <1>7, <2>1, <2>2, <3>2
  <2>3. ASSUME ~HasSlash(text), NEW x \in DoubleColons(a)
        PROVE  addr'["v6"].len = IF RightOf(a, x) > 0 THEN IP6_MAX ELSE LeftOf(a, x) * BB6
    <3>1. d # 0 /\ x = d
      BY <1>4
    <3>2. buf6.left = LeftOf(a, x) /\ buf6.right = RightOf(a, x)
      BY <1>4, <3>1
    <3> QED
      BY <1>7, <2>1, <2>3, <3>2
  <2> QED
    BY <1>1, <2>1, <2>2, <2>3 DEF Guessed6
<1> QED
  BY <1>8, <1>9

LEMMA GuessedParse ==
  ASSUME MeansInv, GuessInv, BufInv, Means6Inv, Guessed4, Guessed6, ParseNext
  PROVE  Guessed4' /\ Guessed6'
<1>1. /\ DOMAIN ret = Types /\ DOMAIN addr = Types /\ "v4" \in Types /\ "v6" \in Types
      /\ pc \in {"split", "guess"} => guess = {}
  BY DEF MeansInv, CutUp, GuessInv, Types
<1>2. INVALID_LINE # OK /\ NO_HEX # OK
  BY DEF INVALID_LINE, NO_HEX, OK
<1>3. CASE SplitFails \/ SplitPrefixlen \/ GuessType
  <2>1. pc' \in {"guess", "v4"} \/ (pc' = "done" /\ guess' = {})
    BY <1>1, <1>3 DEF SplitFails, SplitPrefixlen, GuessType
  <2> QED
    BY <2>1 DEF Guessed4, Guessed6, Tried
<1>4. CASE Skip4
  <2>1. pc' = "v6" /\ "v4" \notin guess'
    BY <1>4 DEF Skip4
  <2> QED
    BY <2>1 DEF Guessed4, Guessed6, Tried
<1>5. CASE Start4 \/ TooManyBlocks4 \/ BadBlock4 \/ Block4
  <2>1. pc' = "blocks4" \/ (pc' = "v6" /\ ret'["v4"] # OK)
    BY <1>1, <1>2, <1>5 DEF Start4, TooManyBlocks4, BadBlock4, Block4, Done4
  <2> QED
    BY <2>1 DEF Guessed4, Guessed6, Tried
<1>6. CASE EndBlocks4
  <2>1. pc' = "v6"
    BY <1>6 DEF EndBlocks4, Done4
  <2> QED
    BY <1>6, <2>1, Guessed4End DEF Guessed6, Tried
<1>7. CASE \/ Skip6 \/ Start6 \/ TooManyBlocks6 \/ BadBlock6 \/ SecondDoubleColon
           \/ Block6 \/ EndBlocks6
  <2>1. /\ pc \in {"v6", "blocks6"} /\ text' = text /\ guess' = guess
        /\ ret'["v4"] = ret["v4"] /\ addr'["v4"] = addr["v4"]
    BY <1>1, <1>7 DEF Skip6, Start6, TooManyBlocks6, BadBlock6, SecondDoubleColon, Block6,
                      EndBlocks6, Done6
  <2>2. Guessed4'
    BY <2>1 DEF Guessed4
  <2>3. CASE EndBlocks6
    BY <2>2, <2>3, Guessed6End
  <2>4. CASE ~EndBlocks6
    <3>1. pc' = "blocks6" \/ "v6" \notin guess' \/ ret'["v6"] # OK
      BY <1>1, <1>2, <1>7, <2>4 DEF Skip6, Start6, TooManyBlocks6, BadBlock6, SecondDoubleColon,
                                    Block6, Done6
    <3> QED
      BY <2>2, <3>1 DEF Guessed6, Tried
  <2> QED
    BY <2>3, <2>4
<1> QED
  BY <1>3, <1>4, <1>5, <1>6, <1>7 DEF ParseNext

LEMMA GuessedInit == Init => Guessed4 /\ Guessed6
BY DEF Init, ParseInit, Guessed4, Guessed6, Tried

LEMMA GuessedStep ==
  MeansInv /\ GuessInv /\ BufInv /\ Means6Inv /\ Guessed4 /\ Guessed6 /\ [Next]_vars =>
    Guessed4' /\ Guessed6'
<1> SUFFICES ASSUME MeansInv, GuessInv, BufInv, Means6Inv, Guessed4, Guessed6, [Next]_vars
             PROVE  Guessed4' /\ Guessed6'
  OBVIOUS
<1>1. ASSUME NEW l, NEW m, Parse(l, m) PROVE Guessed4' /\ Guessed6'
  BY <1>1 DEF Parse, Guessed4, Guessed6, Tried
<1>2. ASSUME NEW n, PrintJson(n) PROVE Guessed4' /\ Guessed6'
  BY <1>2 DEF PrintJson, Guessed4, Guessed6, Tried
<1>3. CASE ParseNext
  BY <1>3, GuessedParse
<1>4. CASE UNCHANGED vars
  BY <1>4 DEF vars, parseVars, Guessed4, Guessed6, Tried
<1> QED
  BY <1>1, <1>2, <1>3, <1>4 DEF Next, ReadLine, ReadNextLine, PrintLine

-----------------------------------------------------------------------------
(***************************************************************************)
(* The line that was printed, from its first token to its network.         *)
(***************************************************************************)
\* The line that is read is a network's, and is not taken for one of the other
\* type.
LineRead ==
  LET a == AddrPart(text) IN
  \E f \in Forms :
    /\ form.long <=> f = "long"
    /\ LineOf(text, net, a, form.redux)
    /\ net.type = "v4" => Printed4(net, a)
    /\ net.type = "v6" => Printed6(net, f, a)

OneType ==
  /\ net.type \in mode /\ mode \subseteq Types
  /\ \A t \in Types \ {net.type} : ret[t] = NOT_TRIED
  /\ pc \in {"v4", "blocks4", "v6", "blocks6", "done"} => guess = {net.type}
  /\ pc = "blocks4" => net.type = "v4"
  /\ pc = "blocks6" => net.type = "v6"

LineInv ==
  net # None /\ pc # "json" => net \in Nets4 \union Nets6 /\ LineRead /\ OneType

LEMMA NetIs ==
  ASSUME NEW n \in Nets4 \union Nets6
  PROVE  n.type \in Types /\ (n.type = "v4" <=> n \in Nets4) /\ (n.type = "v6" <=> n \in Nets6)
<1>1. n.type = "v4" \/ n.type = "v6"
  BY NetAssumption
<1>2. (n \in Nets4 => n.type = "v4") /\ (n \in Nets6 => n.type = "v6")
  BY NetAssumption
<1>3. "v4" # "v6" /\ Types = {"v4", "v6"}
  BY DEF Types
<1> QED
  BY <1>1, <1>2, <1>3

LEMMA NetPrinted ==
  ASSUME NEW n \in Nets4 \union Nets6, NEW f \in Forms, NEW redux
  PROVE  LET t == NetText(n, f, redux)
             a == AddrPart(t) IN
         /\ LineOf(t, n, a, redux)
         /\ n.type = "v4" => Printed4(n, a)
         /\ n.type = "v6" => Printed6(n, f, a)
<1>1. PICK a, t : a = AddrText(n, f) /\ t = NetText(n, f, redux)
  OBVIOUS
<1>2. n.type = "v4" => Printed4(n, a)
  BY <1>1, NetIs, Addr4Printed
<1>3. n.type = "v6" => Printed6(n, f, a)
  <2>1. ASSUME n \in Nets6 PROVE Printed6(n, f, a)
    <3>1. CASE f = "long"
      BY <1>1, <2>1, <3>1, Long6Printed
    <3>2. CASE f # "long"
      BY <1>1, <2>1, <3>2, Compact6Printed
    <3> QED
      BY <3>1, <3>2
  <2> QED
    BY <2>1, NetIs
<1>4. a \in Seq(Token) /\ NoSlash(a) /\ Len(a) >= 1
  <2>1. n.type = "v4" \/ n.type = "v6"
    BY NetIs DEF Types
  <2>2. ASSUME Printed4(n, a) PROVE a \in Seq(Token) /\ NoSlash(a) /\ Len(a) >= 1
    <3>1. a \in Seq(Token) /\ NoSlash(a) /\ Len(a) > 1
      BY <2>2 DEF Printed4, Starts4
    <3>2. Len(a) \in Nat
      BY <3>1, LenProperties
    <3> QED
      BY <3>1, <3>2
  <2>3. ASSUME Printed6(n, f, a) PROVE a \in Seq(Token) /\ NoSlash(a) /\ Len(a) >= 1
    BY <2>3 DEF Printed6, Starts6
  <2> QED
    BY <1>2, <1>3, <2>1, <2>2, <2>3
<1>5. LineOf(t, n, a, redux)
  BY <1>1, <1>4, LineIs
<1>6. AddrPart(t) = a
  BY <1>5 DEF LineOf
<1> QED
  BY <1>1, <1>2, <1>3, <1>5, <1>6

LEMMA LineParse ==
  ASSUME net # None, pc # "json", LineInv, MeansInv, GuessInv, ParseNext, UNCHANGED <<net, form>>
  PROVE  LineInv'
<1>1. /\ net \in Nets4 \union Nets6 /\ LineRead /\ OneType /\ net.type \in Types
      /\ CutUp /\ DOMAIN ret = Types
  BY NetIs DEF LineInv, MeansInv, GuessInv
<1>2. /\ net.type \in mode /\ mode \subseteq Types
      /\ \A t \in Types \ {net.type} : ret[t] = NOT_TRIED
      /\ pc \in {"v4", "blocks4", "v6", "blocks6", "done"} => guess = {net.type}
      /\ pc = "blocks4" => net.type = "v4"
      /\ pc = "blocks6" => net.type = "v6"
  BY <1>1 DEF OneType
<1>3. text' = text /\ mode' = mode /\ net' = net /\ form' = form
  BY DEF ParseNext, SplitFails, SplitPrefixlen, GuessType, Skip4, Start4, TooManyBlocks4,
         BadBlock4, Block4, EndBlocks4, Skip6, Start6, TooManyBlocks6, BadBlock6,
         SecondDoubleColon, Block6, EndBlocks6
<1>4. LineRead'
  BY <1>1, <1>3 DEF LineRead
<1>5. SUFFICES OneType'
  BY <1>1, <1>3, <1>4 DEF LineInv
<1>6. Types = {"v4", "v6"} /\ "v4" # "v6"
  BY DEF Types
<1>7. CASE SplitFails
  <2>1. pc = "split" /\ (text = << >> \/ text[Len(text)] = SLASH)
    BY <1>1, <1>7 DEF SplitFails, CutUp, Slashes
  <2>2. Len(text) >= 1 /\ text[Len(text)] # SLASH
    BY <1>1 DEF LineRead, LineOf
  <2> QED
    BY <2>1, <2>2, EmptySeq
<1>8. CASE SplitPrefixlen
  <2>1. /\ ret' = ret /\ (pc' = "guess" \/ (pc' = "v4" /\ mode # Types /\ guess' = mode))
    BY <1>8 DEF SplitPrefixlen
  <2>2. mode # Types => mode = {net.type}
    BY <1>1, <1>2, <1>6
  <2> QED
    BY <1>2, <1>3, <2>1, <2>2 DEF OneType
<1>9. CASE GuessType
  <2>1. PICK a : a = AddrPart(text)
    OBVIOUS
  <2>2. /\ net.type = "v4" => Starts4(a)
        /\ net.type = "v6" => Starts6(a)
    BY <1>1, <2>1 DEF LineRead, Printed4, Printed6
  <2>3. pc' = "v4" /\ guess' = {net.type}
    BY <1>1, <1>6, <1>9, <2>1, <2>2, GuessPrinted
  <2>4. ret' = ret
    BY <1>9, <2>3 DEF GuessType
  <2> QED
    BY <1>2, <1>3, <2>3, <2>4 DEF OneType
<1>10. CASE Skip4 \/ Skip6
  <2>1. /\ pc \in {"v4", "v6"} /\ pc' \in {"v6", "done"} /\ guess' = guess /\ ret' = ret
    BY <1>10 DEF Skip4, Skip6
  <2> QED
    BY <1>2, <1>3, <2>1 DEF OneType
<1>11. CASE Start4 \/ TooManyBlocks4 \/ BadBlock4 \/ Block4 \/ EndBlocks4
  <2>1. /\ pc \in {"v4", "blocks4"} /\ pc' \in {"blocks4", "v6"} /\ guess' = guess
        /\ pc = "v4" => "v4" \in guess
        /\ ret' = ret \/ \E r : ret' = [ret EXCEPT !["v4"] = r]
    BY <1>11 DEF Start4, TooManyBlocks4, BadBlock4, Block4, EndBlocks4, Done4
  <2>2. net.type = "v4"
    BY <1>2, <2>1
  <2>3. \A t \in Types \ {net.type} : ret'[t] = NOT_TRIED
    BY <1>1, <1>2, <1>6, <2>1, <2>2
  <2> QED
    BY <1>2, <1>3, <2>1, <2>2, <2>3 DEF OneType
<1>12. CASE Start6 \/ TooManyBlocks6 \/ BadBlock6 \/ SecondDoubleColon \/ Block6 \/ EndBlocks6
  <2>1. /\ pc \in {"v6", "blocks6"} /\ pc' \in {"blocks6", "done"} /\ guess' = guess
        /\ pc = "v6" => "v6" \in guess
        /\ ret' = ret \/ \E r : ret' = [ret EXCEPT !["v6"] = r]
    BY <1>12 DEF Start6, TooManyBlocks6, BadBlock6, SecondDoubleColon, Block6, EndBlocks6, Done6
  <2>2. net.type = "v6"
    BY <1>2, <2>1
  <2>3. \A t \in Types \ {net.type} : ret'[t] = NOT_TRIED
    BY <1>1, <1>2, <1>6, <2>1, <2>2
  <2> QED
    BY <1>2, <1>3, <2>1, <2>2, <2>3 DEF OneType
<1> QED
  BY <1>7, <1>8, <1>9, <1>10, <1>11, <1>12 DEF ParseNext

LEMMA LineInvInit == Init => LineInv
BY DEF Init, LineInv

LEMMA LineInvStep ==
  LineInv /\ PrintedInv /\ MeansInv /\ GuessInv /\ [Next]_vars => LineInv'
<1> SUFFICES ASSUME LineInv, PrintedInv, MeansInv, GuessInv, [Next]_vars PROVE LineInv'
  OBVIOUS
<1>1. ASSUME NEW l, NEW m, ReadLine(l, m) PROVE LineInv'
  BY <1>1 DEF ReadLine, PrintedInv, LineInv
<1>2. ASSUME NEW l, NEW m, ReadNextLine(l, m) PROVE LineInv'
  BY <1>2 DEF ReadNextLine, LineInv
<1>3. ASSUME NEW n \in Nets4 \union Nets6, NEW f \in Forms, NEW redux \in BOOLEAN,
             NEW m \in Modes, PrintLine(n, f, redux, m)
      PROVE  LineInv'
  <2>1. /\ pc' = "split" /\ text' = NetText(n, f, redux) /\ net' = n /\ mode' = m
        /\ form' = [long |-> f = "long", redux |-> redux] /\ n.type \in m
        /\ ret' = [t \in Types |-> NOT_TRIED]
    BY <1>3 DEF PrintLine, Parse
  <2>2. (form'.long <=> f = "long") /\ form'.redux = redux
    BY <2>1
  <2>3. PICK t : t = NetText(n, f, redux)
    OBVIOUS
  <2>4. /\ LineOf(t, n, AddrPart(t), redux)
        /\ n.type = "v4" => Printed4(n, AddrPart(t))
        /\ n.type = "v6" => Printed6(n, f, AddrPart(t))
    BY <2>3, NetPrinted
  <2>5. LineRead'
    BY <2>1, <2>2, <2>3, <2>4 DEF LineRead
  <2>6. m \subseteq Types
    BY DEF Modes
  <2>7. OneType'
    BY <2>1, <2>6 DEF OneType
  <2> QED
    BY <2>1, <2>5, <2>7 DEF LineInv
<1>4. ASSUME NEW n, PrintJson(n) PROVE LineInv'
  BY <1>4 DEF PrintJson, LineInv
<1>5. CASE ParseNext /\ UNCHANGED <<net, form, json>>
  <2>1. CASE net = None
    BY <1>5, <2>1 DEF LineInv
  <2>2. CASE net # None
    <3>1. pc # "json"
      BY <1>5, ParseNextPc
    <3> QED
      BY <1>5, <2>2, <3>1, LineParse
  <2> QED
    BY <2>1, <2>2
<1>6. CASE UNCHANGED vars
  BY <1>6 DEF vars, parseVars, LineInv, LineRead, OneType
<1> QED
  BY <1>1, <1>2, <1>3, <1>4, <1>5, <1>6 DEF Next

-----------------------------------------------------------------------------
(***************************************************************************)
(* A network that was printed is read back.                                *)
(***************************************************************************)
MaxPrefix == IP4_MAX = W4 /\ IP6_MAX = 2 * C /\ IP4_MAX \in Nat /\ IP6_MAX \in Nat

LEMMA MaxLens == MaxPrefix
<1>1. /\ HALF \in Nat /\ NB6 = 2 * HALF /\ C = HALF * BB6 /\ BB6 \in Nat
      /\ NB4 \in Nat /\ BB4 \in Nat
  BY Sizes, Blocks, NetAssumption
<1>2. PICK h, b : h = HALF /\ b = BB6
  OBVIOUS
<1>3. (2 * h) * b = 2 * (h * b) /\ h * b \in Nat
  BY <1>1, <1>2
<1>4. IP6_MAX = 2 * C /\ IP6_MAX \in Nat
  BY <1>1, <1>2, <1>3 DEF IP6_MAX
<1>5. IP4_MAX = W4 /\ IP4_MAX \in Nat
  BY <1>1 DEF IP4_MAX, W4
<1> QED
  BY <1>4, <1>5 DEF MaxPrefix

LEMMA NetLenFits ==
  ASSUME NEW n \in Nets4 \union Nets6
  PROVE  n.len \in 0..(IF n.type = "v4" THEN IP4_MAX ELSE IP6_MAX)
BY NetIs, NetAssumption, MaxLens DEF MaxPrefix

\* A length that was printed is read.
LEMMA LenRead ==
  ASSUME NEW t, NEW n, NEW a, NEW redux, LineOf(t, n, a, redux), NEW max, n.len \in 0..max
  PROVE  HasLen(t, max)
<1>1. CASE HasSlash(t)
  BY <1>1 DEF LineOf, HasLen, LenIsRight
<1>2. CASE ~HasSlash(t)
  BY <1>2 DEF LineOf, HasLen
<1> QED
  BY <1>1, <1>2

LEMMA LenOfText ==
  ASSUME NEW t, NEW n, NEW a, NEW redux, LineOf(t, n, a, redux), HasSlash(t), NEW max, NEW len,
         LenIsRight(t, max, len)
  PROVE  len = n.len
<1>1. Len(t) >= 1 /\ LastSlash(t) = Len(t) - 1 /\ t[Len(t)].dec = n.len /\ Len(t) \in Nat
  BY LenProperties DEF LineOf
<1>2. LastSlash(t) # 0
  <2>1. PICK i : i \in 1..Len(t) /\ t[i] = SLASH
    BY DEF HasSlash
  <2>2. t[Len(t)] # SLASH
    BY DEF LineOf
  <2>3. i # Len(t)
    BY <2>1, <2>2
  <2>4. PICK l : l = Len(t)
    OBVIOUS
  <2>5. l \in Nat /\ i \in 1..l /\ i # l
    BY <1>1, <2>1, <2>3, <2>4
  <2>6. l - 1 # 0
    BY <2>5
  <2> QED
    BY <1>1, <2>4, <2>6
<1> QED
  BY <1>1, <1>2 DEF LenIsRight

\* An IPv4 network is read back.
LEMMA ReadBack4 ==
  ASSUME pc = "done", net # None, net.type = "v4", LineInv, Ip4MeansText, Guessed4
  PROVE  ReadsBack /\ addr["v4"].len = net.len
<1>1. /\ net \in Nets4 \union Nets6 /\ LineRead /\ guess = {"v4"}
  BY DEF LineInv, OneType
<1>2. PICK a : a = AddrPart(text)
  OBVIOUS
<1>3. LineOf(text, net, a, form.redux) /\ Printed4(net, a)
  BY <1>1, <1>2 DEF LineRead
<1>4. net.len \in 0..IP4_MAX /\ HasLen(text, IP4_MAX)
  BY <1>1, <1>3, NetLenFits, LenRead
<1>5. IsText4(a) /\ Len(a) = 2 * NB4 - 1 /\ \A s \in 0..NB4 - 1 : Slot4(a, s) = SlotOf(net, s)
  BY <1>3 DEF Printed4
<1>6. /\ ret["v4"] = OK /\ LenIsRight(text, IP4_MAX, addr["v4"].len)
      /\ \A s \in 0..NB4 - 1 : addr["v4"].slot[s] = Slot4(a, s)
  BY <1>1, <1>2, <1>4, <1>5 DEF Ip4MeansText, Tried
<1>7. ReadsBack
  BY <1>5, <1>6 DEF ReadsBack, Slots
<1>8. CASE HasSlash(text)
  BY <1>3, <1>6, <1>7, <1>8, LenOfText
<1>9. CASE ~HasSlash(text)
  <2>1. PICK k \in Nat : addr["v4"].len = k * BB4 /\ Len(a) \in {2 * k - 1, 2 * k}
    BY <1>1, <1>2, <1>6, <1>9 DEF Guessed4
  <2>2. k = NB4
    <3>1. NB4 \in Nat
      BY Blocks
    <3>2. 2 * NB4 - 1 \in {2 * k - 1, 2 * k}
      BY <1>5, <2>1
    <3> QED
      BY <3>1, <3>2
  <2>3. net.len = W4
    BY <1>3, <1>9 DEF LineOf, Lengthless, MaxLen
  <2> QED
    BY <1>7, <2>1, <2>2, <2>3 DEF W4
<1> QED
  BY <1>7, <1>8, <1>9

\* An IPv6 network is read back if its text is an IPv6 address; without a
\* length it gets all blocks but for a double colon at the end.
LEMMA ReadBack6 ==
  ASSUME pc = "done", net # None, net.type = "v6", LineInv, Ip6MeansText, Guessed6,
         NEW a, a = AddrPart(text), NEW f, Printed6(net, f, a),
         LineOf(text, net, a, form.redux)
  PROVE  /\ ret["v6"] = OK <=> IsText6(a)
         /\ ret["v6"] = OK /\ SameSlots6(net, a) => ReadsBack
         /\ ret["v6"] = OK /\ HasSlash(text) => addr["v6"].len = net.len
         /\ ret["v6"] = OK /\ ~HasSlash(text) =>
              /\ text = a /\ form.redux /\ net.len = 2 * C
              /\ addr["v6"].len = 2 * C <=> a[Len(a)] # COLON
<1>1. net \in Nets4 \union Nets6 /\ guess = {"v6"}
  BY DEF LineInv, OneType
<1>2. net.len \in 0..IP6_MAX /\ HasLen(text, IP6_MAX)
  <2>1. net.len \in 0..IP6_MAX
    BY <1>1, NetLenFits
  <2> QED
    BY <2>1, LenRead
<1>3. Tried("v6")
  BY <1>1 DEF Tried
<1>4. /\ ret["v6"] = OK <=> IsText6(a)
      /\ ret["v6"] = OK => LenIsRight(text, IP6_MAX, addr["v6"].len)
      /\ ret["v6"] = OK => \A s \in 0..NB6 - 1 : addr["v6"].slot[s] = Slot6(a, s)
  BY <1>2, <1>3 DEF Ip6MeansText
<1>5. ret["v6"] = OK /\ SameSlots6(net, a) => ReadsBack
  BY <1>4 DEF ReadsBack, Slots, SameSlots6
<1>6. ret["v6"] = OK /\ HasSlash(text) => addr["v6"].len = net.len
  BY <1>4, LenOfText
<1>7. ASSUME ret["v6"] = OK, ~HasSlash(text)
      PROVE  /\ text = a /\ form.redux /\ net.len = 2 * C
             /\ addr["v6"].len = 2 * C <=> a[Len(a)] # COLON
  <2>1. text = a /\ form.redux /\ net.len = 2 * C
    BY <1>7 DEF LineOf, Lengthless, MaxLen
  <2>2. IP6_MAX = 2 * C /\ NB6 * BB6 = 2 * C
    BY MaxLens DEF MaxPrefix, IP6_MAX
  <2>3. /\ DoubleColons(a) = {} => addr["v6"].len = (Count(a, COLON, 1, Len(a)) + 1) * BB6
        /\ \A d \in DoubleColons(a) :
             addr["v6"].len = IF RightOf(a, d) > 0 THEN IP6_MAX ELSE LeftOf(a, d) * BB6
    BY <1>3, <1>7 DEF Guessed6
  <2>4. CASE AllBlocks6(a)
    <3>1. DoubleColons(a) = {} /\ a[Len(a)] # COLON /\ Count(a, COLON, 1, Len(a)) = NB6 - 1
      BY <2>4 DEF AllBlocks6
    <3>2. NB6 - 1 + 1 = NB6
      BY Blocks
    <3>3. addr["v6"].len = NB6 * BB6
      BY <2>3, <3>1, <3>2
    <3> QED
      BY <2>1, <2>2, <3>1, <3>3
  <2>5. CASE SomeBlocks6(a)
    <3>1. PICK d : /\ DoubleColons(a) = {d} /\ (a[Len(a)] = COLON <=> RightOf(a, d) = 0)
                   /\ RightOf(a, d) \in Nat /\ LeftOf(a, d) \in Nat
                   /\ RightOf(a, d) = 0 => LeftOf(a, d) < NB6
      BY <2>5 DEF SomeBlocks6
    <3>2. addr["v6"].len = IF RightOf(a, d) > 0 THEN IP6_MAX ELSE LeftOf(a, d) * BB6
      BY <2>3, <3>1
    <3>3. CASE RightOf(a, d) > 0
      BY <2>1, <2>2, <3>1, <3>2, <3>3
    <3>4. CASE ~(RightOf(a, d) > 0)
      <4>1. PICK l : l = LeftOf(a, d)
        OBVIOUS
      <4>2. l \in Nat /\ l < NB6 /\ a[Len(a)] = COLON /\ addr["v6"].len = l * BB6
        BY <3>1, <3>2, <3>4, <4>1
      <4>3. BB6 \in Nat /\ BB6 > 0 /\ NB6 \in Nat
        <5>1. HALF \in Nat /\ C = HALF * BB6 /\ C > 0 /\ BB6 \in Nat /\ NB6 \in Nat
          BY Sizes, CFact, Blocks, NetAssumption
        <5>2. HALF * 0 = 0
          BY <5>1
        <5> QED
          BY <5>1, <5>2
      <4>4. (l + 1) * BB6 <= NB6 * BB6
        <5>1. l + 1 \in Nat /\ l + 1 <= NB6
          BY <4>2, <4>3
        <5> QED
          BY <4>3, <5>1, Scaled
      <4>5. l * BB6 # 2 * C
        <5>1. PICK b, x, y, z : b = BB6 /\ x = l * b /\ y = (l + 1) * b /\ z = NB6 * b
          OBVIOUS
        <5>2. x \in Nat /\ y = x + b /\ z \in Nat
          BY <4>2, <4>3, <5>1
        <5>3. y <= z /\ b > 0 /\ b \in Nat
          BY <4>3, <4>4, <5>1
        <5>4. x # z
          BY <5>2, <5>3
        <5> QED
          BY <2>2, <5>1, <5>4
      <4> QED
        BY <2>1, <4>2, <4>5
    <3> QED
      BY <3>3, <3>4
  <2>6. AllBlocks6(a) \/ SomeBlocks6(a)
    BY DEF Printed6
  <2> QED
    BY <2>4, <2>5, <2>6
<1> QED
  BY <1>4, <1>5, <1>6, <1>7

LEMMA ReadBackTold ==
  LineInv /\ Ip4MeansText /\ Ip6MeansText /\ Guessed4 /\ Guessed6 => ReadBack
<1> SUFFICES ASSUME LineInv, Ip4MeansText, Ip6MeansText, Guessed4, Guessed6,
                    pc = "done", net # None
             PROVE  LET compact == net.type = "v6" /\ ~form.long IN
                    /\ \A t \in Types \ {net.type} : ret[t] = NOT_TRIED
                    /\ net.type = "v6" /\ form.long => (net.len <= C => ReadsBack)
                    /\ compact => (ReadsBack <=> ~LoneLeadingZero(net))
                    /\ net.type = "v4" => ReadsBack
                    /\ ReadsBack =>
                         (addr[net.type].len = net.len <=>
                            ~(compact /\ form.redux /\ net.len = 2 * C /\ text[Len(text)] = COLON))
  BY DEF ReadBack
<1>1. /\ net \in Nets4 \union Nets6 /\ LineRead /\ \A t \in Types \ {net.type} : ret[t] = NOT_TRIED
  BY DEF LineInv, OneType
<1>2. net.type = "v4" \/ net.type = "v6"
  BY <1>1, NetIs DEF Types
<1>3. "v4" # "v6"
  OBVIOUS
<1>4. CASE net.type = "v4"
  <2>1. ReadsBack /\ addr["v4"].len = net.len
    BY <1>4, ReadBack4
  <2> QED
    BY <1>1, <1>3, <1>4, <2>1
<1>5. CASE net.type = "v6"
  <2>1. PICK a, f : /\ a = AddrPart(text) /\ (form.long <=> f = "long")
                    /\ LineOf(text, net, a, form.redux) /\ Printed6(net, f, a)
    BY <1>1, <1>5 DEF LineRead
  <2>2. /\ ret["v6"] = OK <=> IsText6(a)
        /\ ret["v6"] = OK /\ SameSlots6(net, a) => ReadsBack
        /\ ret["v6"] = OK /\ HasSlash(text) => addr["v6"].len = net.len
        /\ ret["v6"] = OK /\ ~HasSlash(text) =>
             /\ text = a /\ form.redux /\ net.len = 2 * C
             /\ addr["v6"].len = 2 * C <=> a[Len(a)] # COLON
    BY <1>5, <2>1, ReadBack6
  <2>3. ReadsBack => ret["v6"] = OK
    BY <1>5 DEF ReadsBack
  <2>4. ASSUME form.long, net.len <= C PROVE ReadsBack
    <3>1. IsText6(a) /\ SameSlots6(net, a)
      BY <2>1, <2>4 DEF Printed6
    <3> QED
      BY <2>2, <3>1
  <2>5. ASSUME ~form.long PROVE ReadsBack <=> ~LoneLeadingZero(net)
    <3>1. (IsText6(a) <=> ~LoneLeadingZero(net)) /\ SameSlots6(net, a)
      BY <2>1, <2>5 DEF Printed6
    <3> QED
      BY <2>2, <2>3, <3>1
  <2>6. ASSUME ReadsBack, HasSlash(text)
        PROVE  addr["v6"].len = net.len /\ ~(form.redux /\ net.len = 2 * C)
    <3>1. ~(form.redux /\ net.len = MaxLen(net.type))
      BY <2>1, <2>6 DEF LineOf, Lengthless
    <3>2. MaxLen(net.type) = 2 * C
      BY <1>5 DEF MaxLen
    <3> QED
      BY <2>2, <2>3, <2>6, <3>1, <3>2
  <2>7. ASSUME ReadsBack, ~HasSlash(text)
        PROVE  /\ form.redux /\ net.len = 2 * C
               /\ addr["v6"].len = net.len <=> text[Len(text)] # COLON
    BY <2>2, <2>3, <2>7
  <2>8. ASSUME form.long, ReadsBack, ~HasSlash(text) PROVE text[Len(text)] # COLON
    <3>1. AllBlocks6(a) /\ text = a
      BY <2>1, <2>2, <2>3, <2>8 DEF Printed6
    <3> QED
      BY <3>1 DEF AllBlocks6
  <2>9. ReadsBack =>
          (addr["v6"].len = net.len <=>
             ~(~form.long /\ form.redux /\ net.len = 2 * C /\ text[Len(text)] = COLON))
    BY <2>6, <2>7, <2>8
  <2> QED
    BY <1>1, <1>3, <1>5, <2>4, <2>5, <2>9
<1> QED
  BY <1>2, <1>4, <1>5

\* A network that is printed (print.c, print_ip.c, base.c) and read again (mixed.c, ip4.c,
\* ip6.c) is the network it was, and the other parser is not tried on it, for every number
\* and size of blocks and every set of networks and lines. Three lines are not: the
\* long form of a length beyond the first half; the compact form whose "::" stands for
\* the first block alone, which is rejected; and with -r, of a whole address whose text
\* ends with the "::", another length is read.
THEOREM ReadBackIsRight == Spec => []ReadBack
<1>1. Init => /\ LineInv /\ PrintedInv /\ MeansInv /\ Means6Inv /\ Guessed4 /\ Guessed6
              /\ GuessInv /\ BufInv
  BY LineInvInit, PrintedInvInit, MeansInvInit, Means6InvInit, GuessedInit, GuessInvInit,
     BufInvInit
<1>2. /\ LineInv /\ PrintedInv /\ MeansInv /\ Means6Inv /\ Guessed4 /\ Guessed6
      /\ GuessInv /\ BufInv /\ [Next]_vars
      => /\ LineInv' /\ PrintedInv' /\ MeansInv' /\ Means6Inv' /\ Guessed4' /\ Guessed6'
         /\ GuessInv' /\ BufInv'
  BY LineInvStep, PrintedInvStep, MeansInvStep, Means6InvStep, GuessedStep, GuessInvStep,
     BufInvStep
<1>3. LineInv /\ MeansInv /\ Means6Inv /\ Guessed4 /\ Guessed6 => ReadBack
  BY ReadBackTold, MeansTold DEF Means6Inv
<1> QED
  BY <1>1, <1>2, <1>3, PTL DEF Spec

LEMMA GuessTold == Guessed4 /\ Guessed6 => GuessCountsWrittenBlocks
<1> SUFFICES ASSUME Guessed4, Guessed6, ~HasSlash(text) PROVE GuessCountsWrittenBlocks
  BY DEF GuessCountsWrittenBlocks
<1>1. AddrPart(text) = text
  BY DEF AddrPart, LastSlash
<1>2. ASSUME Tried("v4"), ret["v4"] = OK
      PROVE  addr["v4"].len = ((Len(text) + 1) \div 2) * BB4
  <2>1. PICK k \in Nat : addr["v4"].len = k * BB4 /\ Len(text) \in {2 * k - 1, 2 * k}
    BY <1>1, <1>2 DEF Guessed4, Tried
  <2>2. k = (Len(text) + 1) \div 2
    BY <2>1
  <2> QED
    BY <2>1, <2>2
<1>3. ASSUME Tried("v6"), ret["v6"] = OK, NEW d, d = CHOOSE i \in DoubleColons(text) : TRUE
      PROVE  addr["v6"].len =
               IF DoubleColons(text) = {} THEN (Count(text, COLON, 1, Len(text)) + 1) * BB6
               ELSE IF RightOf(text, d) > 0 THEN IP6_MAX ELSE LeftOf(text, d) * BB6
  <2>1. DoubleColons(text) # {} => d \in DoubleColons(text)
    BY <1>3
  <2> QED
    BY <1>1, <1>3, <2>1 DEF Guessed6
<1> QED
  BY <1>2, <1>3 DEF GuessCountsWrittenBlocks

\* The length that is guessed for a line without one (read_prefixlen in ip4.c and ip6.c) is
\* told by the blocks that are written in it, zero or not, after any lines before it and after
\* the IPv4 parser has marked blocks in it: for every number and size of blocks and every set
\* of lines and networks.
THEOREM GuessIsOfWrittenBlocks == Spec => []GuessCountsWrittenBlocks
<1>1. Init => MeansInv /\ Means6Inv /\ Guessed4 /\ Guessed6 /\ GuessInv /\ BufInv
  BY MeansInvInit, Means6InvInit, GuessedInit, GuessInvInit, BufInvInit
<1>2. MeansInv /\ Means6Inv /\ Guessed4 /\ Guessed6 /\ GuessInv /\ BufInv /\ [Next]_vars
      => MeansInv' /\ Means6Inv' /\ Guessed4' /\ Guessed6' /\ GuessInv' /\ BufInv'
  BY MeansInvStep, Means6InvStep, GuessedStep, GuessInvStep, BufInvStep
<1> QED
  BY <1>1, <1>2, GuessTold, PTL DEF Spec

=============================================================================
