----------------------------- MODULE MCIpText ------------------------------
\* Values for the constants of IpText: lines of every shape, and networks
\* with every pattern of zero blocks, of every length.
EXTENDS IpText

T(scan, dec, hex) == [scan |-> scan, dec |-> dec, hex |-> hex]

\* "1", "10", "300", "ff", "0x1", "+1" and "g"
Words == {T("digits", 1, 1), T("digits", 10, 16), T("digits", 300, 768), T("letters", BAD, 255),
          T("0x", BAD, 1), T("other", 1, 1), T("other", BAD, BAD)}

NoTwoWords(l) == \A i \in 1..Len(l) - 1 : l[i] \notin Words \/ l[i + 1] \notin Words

\* Every line of up to four tokens.
Short == {l \in UNION {[1..n -> Words \union {DOT, COLON, SLASH}] : n \in 0..4} : NoTwoWords(l)}

N(i) == T("digits", i, i)

Row(from, n, c) == [i \in 1..(IF n = 0 THEN 0 ELSE 2 * n - 1) |->
                      IF i % 2 = 1 THEN N(from + i \div 2) ELSE c]

\* Lines of up to one block too many, on either side of a double colon.
Long4 == {Row(1, n, DOT) \o e : n \in 1..NB4 + 1, e \in {<< >>, <<DOT>>}}
Long6 == {s \o Row(1, l, COLON) \o e : s \in {<< >>, <<COLON>>}, l \in 1..NB6 + 1,
                                       e \in {<< >>, <<COLON>>}}
Sides == {Row(1, l, COLON) \o <<COLON, COLON>> \o Row(l + 1, r, COLON) :
            l \in 0..NB6, r \in 0..NB6}
Suffix == {<< >>, <<SLASH, N(0)>>, <<SLASH, N(32)>>, <<SLASH, T("digits", 129, 297)>>}

MCTexts == Short \union {l \o e : l \in Long4 \union Long6 \union Sides, e \in Suffix}

\* "1.0.0.0" and the like.
MCZeroBlocks == {[i \in 1..2 * NB4 - 1 |-> IF i % 2 = 1 THEN N(b[i \div 2]) ELSE DOT] :
                   b \in {f \in [0..NB4 - 1 -> {0, 1}] : f[0] = 1}}

MCAgain == {Row(1, 2, DOT), Row(1, 4, DOT), <<COLON, COLON>>, Row(1, 8, COLON), Row(1, 9, COLON)}

-----------------------------------------------------------------------------
\* The bits of the blocks b, lowest at 0, cut at len.
Bits(b, n, size, len) ==
  [i \in 1..n * size |->
     IF i <= len THEN (b[n - 1 - (i - 1) \div size] \div (2 ^ ((n * size - i) % size))) % 2 ELSE 0]

Net4(b, len) == [type |-> "v4", len |-> len, bits |-> Bits(b, NB4, BB4, len)]

Net6(b, len) ==
  LET bits == Bits(b, NB6, BB6, len) IN
  [type |-> "v6", len |-> len,
   bits |-> [high |-> [i \in 1..C |-> bits[i]], low |-> [i \in 1..C |-> bits[C + i]]]]

MCNets4 == {Net4([k \in 0..NB4 - 1 |-> 170 + k], len) : len \in 0..NB4 * BB4}

\* 0xa1b2, 0x11 and the like; blocks of ones.
Hex(k) == IF k % 2 = 0 THEN 41394 + k ELSE 16 + k

MCNets6 ==
  {Net6([k \in 0..NB6 - 1 |-> IF k \in zero THEN 0 ELSE Hex(k)], NB6 * BB6) :
     zero \in SUBSET (0..NB6 - 1)}
  \union {Net6([k \in 0..NB6 - 1 |-> Hex(k)], len) : len \in 0..NB6 * BB6}
  \union {Net6([k \in 0..NB6 - 1 |-> 65535], len) : len \in {0, 1, 63, 64, 65, 127}}
=============================================================================
