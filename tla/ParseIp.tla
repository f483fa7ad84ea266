------------------------------ MODULE ParseIp ------------------------------
(***************************************************************************)
(* The parsers that turn one line into addresses (src/util/parse_ip/ip4.c, *)
(* ip6.c, mixed.c and common.c).                                           *)
(*                                                                         *)
(* A line is a sequence of tokens: separators, and words of the characters *)
(* between them.  Of a word the parsers see the number strtol() reads in   *)
(* base 10 and in base 16 (BAD when it stops before the word's end, or the *)
(* number is negative) and what its first characters are for the guess of  *)
(* the type.  The parsers write '\0' into the line as they go, and in      *)
(* mixed mode the IPv6 parser reads the line the IPv4 parser has written   *)
(* to.                                                                     *)
(***************************************************************************)
EXTENDS Integers, Sequences, FiniteSets

CONSTANTS NB4, BB4,             \* PARSE_IP4_BLOCK_COUNT, PARSE_IP4_BLOCK_BASE
          NB6, BB6,             \* PARSE_IP6_BLOCK_COUNT, PARSE_IP6_BLOCK_BASE
          Texts                 \* the lines there may be

ASSUME BlockAssumption == {NB4, NB6} \subseteq Nat \ {0} /\ {BB4, BB6} \subseteq Nat

BAD == -1
NUL == [scan |-> "NUL", dec |-> BAD, hex |-> BAD]
DOT == [scan |-> ".", dec |-> BAD, hex |-> BAD]
COLON == [scan |-> ":", dec |-> BAD, hex |-> BAD]
SLASH == [scan |-> "/", dec |-> BAD, hex |-> BAD]

\* What a word's characters are: digits only, hexadecimal digits with a
\* letter, "0x" and more, or anything else.  In base 10 the number in "0x1"
\* ends at the x.
BlockText ==
  {w \in [scan : {"digits", "letters", "0x", "other"}, dec : Nat \union {BAD},
          hex : Nat \union {BAD}] : w.scan = "0x" => w.dec = BAD}

ASSUME TextAssumption == Texts \subseteq Seq(BlockText \union {DOT, COLON, SLASH})

OCTET_MAX == 255
DOUBLE_OCTET_MAX == 65535
IP4_MAX == NB4 * BB4            \* IP4_MAX_PREFIXLEN
IP6_MAX == NB6 * BB6            \* IP6_MAX_PREFIXLEN

\* A prefix length is read as an octet.
ASSUME PrefixlenAssumption == {IP4_MAX, IP6_MAX} \subseteq 0..OCTET_MAX

Types == {"v4", "v6"}
OK == 0                         \* PARSE_IP_RET_SUCCESS
INVALID_LINE == 1               \* PARSE_IP_RET_INVALID
NOT_TRIED == 3                  \* PARSE_IP_RET_DID_NOT_TRY
NO_HEX == 4                     \* PARSE_IP_RET_NOT_IMPLEMENTED

VARIABLES pc,
          text, mode,           \* the line as it was read, the types asked for
          line, prefixstr,      \* the line in memory; where its prefix length
                                \* starts, 0 for NULL
          guess, rem,           \* the types to try; addr_str_rem, 0 for NULL
          buf4, buf6,           \* _parse_ip4_buf, _parse_ip6_buf
          ret, addr             \* what each parser returned and made

parseVars == <<pc, text, mode, line, prefixstr, guess, rem, buf4, buf6, ret, addr>>

parse_ip4_data_init == [num |-> 0, blocks |-> [k \in 0..NB4 - 1 |-> 0], prefixlen |-> 0]

parse_ip6_data_init ==
  [left |-> 0, right |-> 0, num |-> 0, on_right |-> FALSE,
   blocks |-> [k \in 0..NB6 - 1 |-> 0], prefixlen |-> 0]

\* An address as its blocks, the lowest block at 0.
addr4_null == [len |-> 0, slot |-> [k \in 0..NB4 - 1 |-> 0]]
addr6_null == [len |-> 0, slot |-> [k \in 0..NB6 - 1 |-> 0]]

ParseInit ==
  /\ pc = "idle" /\ text = << >> /\ mode = {}
  /\ line = << >> /\ prefixstr = 0 /\ guess = {} /\ rem = 0
  /\ buf4 = parse_ip4_data_init /\ buf6 = parse_ip6_data_init
  /\ ret = [t \in Types |-> NOT_TRIED]
  /\ addr = [t \in Types |-> IF t = "v4" THEN addr4_null ELSE addr6_null]

-----------------------------------------------------------------------------
\* The character at a position of the line in memory.
At(l, i) == IF i <= Len(l) THEN l[i] ELSE NUL

\* strchr(): where c is, from position i to the end of the string, or 0.
strchr(l, i, c) ==
  LET found == {j \in i..Len(l) : l[j] = c /\ \A n \in i..j : l[n] # NUL} IN
  IF found = {} THEN 0 ELSE CHOOSE j \in found : \A n \in found : j <= n

\* parse_ip_read_octet() and parse_ip_read_double_octet() of the string at i.
\* At its end strtol() reads no digit, and returns zero for it.
ReadNumber(l, i, base, max) ==
  LET w == At(l, i)
      n == IF w = NUL THEN 0 ELSE IF At(l, i + 1) # NUL THEN BAD
           ELSE IF base = 10 THEN w.dec ELSE w.hex IN
  IF n <= max THEN n ELSE BAD

-----------------------------------------------------------------------------
\* A line is passed to the parser of the mode, its buffers as they were left.
Parse(l, m) ==
  /\ pc' = "split" /\ text' = l /\ line' = l /\ mode' = m
  /\ guess' = {} /\ ret' = [t \in Types |-> NOT_TRIED]
  /\ UNCHANGED <<prefixstr, rem, buf4, buf6, addr>>

Slashes == {i \in 1..Len(line) : line[i] = SLASH}

\* parse_ip_split_prefixlen(): an empty line, or a slash at its end.
SplitFails ==
  /\ pc = "split"
  /\ line = << >> \/ Len(line) \in Slashes
  /\ pc' = "done" /\ prefixstr' = 0
  /\ ret' = [t \in Types |-> IF t \in mode THEN INVALID_LINE ELSE NOT_TRIED]
  /\ UNCHANGED <<text, mode, line, guess, rem, buf4, buf6, addr>>

\* parse_ip_split_prefixlen(): the last slash ends the address.
SplitPrefixlen ==
  /\ pc = "split" /\ line # << >> /\ Len(line) \notin Slashes
  /\ IF Slashes = {} THEN prefixstr' = 0 /\ UNCHANGED line
     ELSE LET s == CHOOSE i \in Slashes : \A j \in Slashes : j <= i IN
          prefixstr' = s + 1 /\ line' = [line EXCEPT ![s] = NUL]
  /\ pc' = IF mode = Types THEN "guess" ELSE "v4"
  /\ guess' = IF mode = Types THEN {} ELSE mode
  /\ UNCHANGED <<text, mode, rem, buf4, buf6, ret, addr>>

\* The types a line may be of when its characters up to i are digits.
GuessedTypes(i) ==
  LET c == At(line, i).scan IN
  CASE c = "."                            -> {{"v4"}}
    [] c \in {":", "letters"}             -> {{"v6"}}
    [] c \in {"NUL", "/"} /\ i > 1        -> {Types}
    [] OTHER                              -> {}

\* parse_ip_mixed_guess_type(): the first character that is no digit decides.
GuessType ==
  /\ pc = "guess"
  /\ LET i == CHOOSE n \in 1..Len(line) + 1 :
                /\ At(line, n).scan # "digits"
                /\ \A j \in 1..n - 1 : line[j].scan = "digits"
         types == IF line[1].scan = "0x" THEN {Types} ELSE GuessedTypes(i) IN
       IF types = {}
       THEN /\ pc' = "done" /\ ret' = [t \in Types |-> INVALID_LINE] /\ UNCHANGED guess
       ELSE /\ pc' = "v4" /\ guess' \in types /\ UNCHANGED ret
  /\ UNCHANGED <<text, mode, line, prefixstr, rem, buf4, buf6, addr>>

-----------------------------------------------------------------------------
(***************************************************************************)
(* parse_ip4_addr_split()                                                  *)
(***************************************************************************)
\* The IPv4 parser is done with r: the line goes to the IPv6 parser.
Done4(r, l) == pc' = "v6" /\ ret' = [ret EXCEPT !["v4"] = r] /\ line' = l

Skip4 ==
  /\ pc = "v4" /\ "v4" \notin guess /\ pc' = "v6"
  /\ UNCHANGED <<text, mode, line, prefixstr, guess, rem, buf4, buf6, ret, addr>>

\* Mutant: the blocks of the line before stay in the buffer.
Start4KeepsBlocks ==
  /\ pc = "v4" /\ "v4" \in guess
  /\ buf4' = [buf4 EXCEPT !.num = 0]
  /\ addr' = [addr EXCEPT !["v4"] = addr4_null]
  /\ CASE At(line, 1) = NUL       -> Done4(INVALID_LINE, line) /\ UNCHANGED rem
       [] line[1].scan = "0x"     -> Done4(NO_HEX, line) /\ UNCHANGED rem
       [] OTHER                   -> pc' = "blocks4" /\ rem' = 1 /\ UNCHANGED <<ret, line>>
  /\ UNCHANGED <<text, mode, prefixstr, guess, buf6>>

Start4 ==
  /\ pc = "v4" /\ "v4" \in guess
  /\ buf4' = parse_ip4_data_init
  /\ addr' = [addr EXCEPT !["v4"] = addr4_null]
  /\ CASE At(line, 1) = NUL       -> Done4(INVALID_LINE, line) /\ UNCHANGED rem
       [] line[1].scan = "0x"     -> Done4(NO_HEX, line) /\ UNCHANGED rem
       [] OTHER                   -> pc' = "blocks4" /\ rem' = 1 /\ UNCHANGED <<ret, line>>
  /\ UNCHANGED <<text, mode, prefixstr, guess, buf6>>

MoreBlocks == rem # 0 /\ At(line, rem) # NUL

\* The separator behind the block at rem, 0 if it is the last one; the line
\* with the block's end marked; what follows.
BlockEnd(c) == strchr(line, rem, c)
Marked(c) == IF BlockEnd(c) = 0 THEN line ELSE [line EXCEPT ![BlockEnd(c)] = NUL]
Following(c) == At(line, BlockEnd(c) + 1)

TooManyBlocks4 ==
  /\ pc = "blocks4" /\ MoreBlocks /\ buf4.num >= NB4
  /\ Done4(INVALID_LINE, line)
  /\ UNCHANGED <<text, mode, prefixstr, guess, rem, buf4, buf6, addr>>

\* Mutant: a dot at the end may stand for no block.
BlockIsBad4Dot ==
  \/ /\ BlockEnd(DOT) # 0
     /\ (Following(DOT) = NUL /\ NB4 - buf4.num < 1) \/ Following(DOT) = DOT
  \/ BlockEnd(DOT) = rem
  \/ ReadNumber(Marked(DOT), rem, 10, OCTET_MAX) = BAD

\* ".." or a dot at the end that stands for no missing block, an empty block,
\* or no octet.
BlockIsBad4 ==
  \/ /\ BlockEnd(DOT) # 0
     /\ (Following(DOT) = NUL /\ NB4 - buf4.num < 2) \/ Following(DOT) = DOT
  \/ BlockEnd(DOT) = rem
  \/ ReadNumber(Marked(DOT), rem, 10, OCTET_MAX) = BAD

BadBlock4 ==
  /\ pc = "blocks4" /\ MoreBlocks /\ buf4.num < NB4 /\ BlockIsBad4
  /\ Done4(INVALID_LINE, Marked(DOT))
  /\ UNCHANGED <<text, mode, prefixstr, guess, rem, buf4, buf6, addr>>

\* parse_ip4_data_append()
Append4(b, v) ==
  [num |-> b.num + 1, blocks |-> [b.blocks EXCEPT ![b.num] = v], prefixlen |-> b.prefixlen]

Block4 ==
  /\ pc = "blocks4" /\ MoreBlocks /\ buf4.num < NB4 /\ ~BlockIsBad4
  /\ buf4' = Append4(buf4, ReadNumber(Marked(DOT), rem, 10, OCTET_MAX))
  /\ line' = Marked(DOT)
  /\ rem' = IF BlockEnd(DOT) = 0 THEN 0 ELSE BlockEnd(DOT) + 1
  /\ UNCHANGED <<pc, text, mode, prefixstr, guess, buf6, ret, addr>>

\* parse_ip4_addr_split_read_prefixlen(): BAD for an invalid one.
Prefixlen4 ==
  IF prefixstr = 0 THEN buf4.num * BB4
  ELSE LET n == ReadNumber(line, prefixstr, 10, OCTET_MAX) IN IF n <= IP4_MAX THEN n ELSE BAD

\* parse_ip4_addr_split_make_addr(): block k is shifted past the blocks
\* that may follow it.
MakeAddr4(b, len) ==
  [len |-> len,
   slot |-> [s \in 0..NB4 - 1 |-> IF NB4 - s - 1 < b.num THEN b.blocks[NB4 - s - 1] ELSE 0]]

EndBlocks4 ==
  /\ pc = "blocks4" /\ ~MoreBlocks
  /\ IF buf4.num = 0 \/ Prefixlen4 = BAD
     THEN Done4(INVALID_LINE, line) /\ UNCHANGED <<buf4, addr>>
     ELSE /\ buf4' = [buf4 EXCEPT !.prefixlen = Prefixlen4]
          /\ addr' = [addr EXCEPT !["v4"] = MakeAddr4(buf4, Prefixlen4)]
          /\ Done4(OK, line)
  /\ UNCHANGED <<text, mode, prefixstr, guess, rem, buf6>>

-----------------------------------------------------------------------------
(***************************************************************************)
(* parse_ip6_addr_split()                                                  *)
(***************************************************************************)
Done6(r, l) == pc' = "done" /\ ret' = [ret EXCEPT !["v6"] = r] /\ line' = l

Skip6 ==
  /\ pc = "v6" /\ "v6" \notin guess /\ pc' = "done"
  /\ UNCHANGED <<text, mode, line, prefixstr, guess, rem, buf4, buf6, ret, addr>>

Start6 ==
  /\ pc = "v6" /\ "v6" \in guess
  /\ buf6' = parse_ip6_data_init
  /\ addr' = [addr EXCEPT !["v6"] = addr6_null]
  /\ CASE At(line, 1) = NUL       -> Done6(INVALID_LINE, line) /\ UNCHANGED rem
       [] line[1].scan = "0x"     -> Done6(NO_HEX, line) /\ UNCHANGED rem
       [] OTHER                   -> pc' = "blocks6" /\ rem' = 1 /\ UNCHANGED <<ret, line>>
  /\ UNCHANGED <<text, mode, prefixstr, guess, buf4>>

TooManyBlocks6 ==
  /\ pc = "blocks6" /\ MoreBlocks /\ buf6.num >= NB6
  /\ Done6(INVALID_LINE, line)
  /\ UNCHANGED <<text, mode, prefixstr, guess, rem, buf4, buf6, addr>>

\* The block at rem is followed by "::".
DoubleColon == BlockEnd(COLON) # 0 /\ Following(COLON) = COLON

\* A colon at the end, ":::", no double octet, or a second "::".
BlockIsBad6 ==
  \/ BlockEnd(COLON) # 0 /\ Following(COLON) = NUL
  \/ DoubleColon /\ At(line, BlockEnd(COLON) + 2) = COLON
  \/ BlockEnd(COLON) # rem /\ ReadNumber(Marked(COLON), rem, 16, DOUBLE_OCTET_MAX) = BAD

\* parse_ip6_data_append(): an empty block is a zero.
Append6(b, v) ==
  [left |-> IF b.on_right THEN b.left ELSE b.left + 1,
   right |-> IF b.on_right THEN b.right + 1 ELSE b.right,
   num |-> b.num + 1, on_right |-> b.on_right,
   blocks |-> [b.blocks EXCEPT ![b.num] = v], prefixlen |-> b.prefixlen]

Block6Read ==
  Append6(buf6, IF BlockEnd(COLON) = rem THEN 0
                ELSE ReadNumber(Marked(COLON), rem, 16, DOUBLE_OCTET_MAX))

BadBlock6 ==
  /\ pc = "blocks6" /\ MoreBlocks /\ buf6.num < NB6 /\ BlockIsBad6
  /\ Done6(INVALID_LINE, Marked(COLON))
  /\ UNCHANGED <<text, mode, prefixstr, guess, rem, buf4, buf6, addr>>

\* parse_ip6_data_switch_to_right() fails: the block is in the buffer.
SecondDoubleColon ==
  /\ pc = "blocks6" /\ MoreBlocks /\ buf6.num < NB6 /\ ~BlockIsBad6
  /\ DoubleColon /\ buf6.on_right
  /\ buf6' = Block6Read
  /\ Done6(INVALID_LINE, Marked(COLON))
  /\ UNCHANGED <<text, mode, prefixstr, guess, rem, buf4, addr>>

Block6 ==
  /\ pc = "blocks6" /\ MoreBlocks /\ buf6.num < NB6 /\ ~BlockIsBad6
  /\ ~(DoubleColon /\ buf6.on_right)
  /\ buf6' = [Block6Read EXCEPT !.on_right = @ \/ DoubleColon]
  /\ line' = Marked(COLON)
  /\ rem' = IF BlockEnd(COLON) = 0 THEN 0 ELSE BlockEnd(COLON) + (IF DoubleColon THEN 2 ELSE 1)
  /\ UNCHANGED <<pc, text, mode, prefixstr, guess, buf4, ret, addr>>

\* Mutant: blocks on the right are not noticed.
Prefixlen6CountsAll ==
  IF prefixstr = 0 THEN buf6.num * BB6
  ELSE LET n == ReadNumber(line, prefixstr, 10, OCTET_MAX) IN IF n <= IP6_MAX THEN n ELSE BAD

\* Mutant: a double colon always makes a whole address.
Prefixlen6DoubleColonIsWhole ==
  IF prefixstr = 0 THEN IF buf6.on_right THEN IP6_MAX ELSE buf6.num * BB6
  ELSE LET n == ReadNumber(line, prefixstr, 10, OCTET_MAX) IN IF n <= IP6_MAX THEN n ELSE BAD

\* parse_ip6_addr_split_read_prefixlen(): BAD for an invalid one.
Prefixlen6 ==
  IF prefixstr = 0 THEN IF buf6.right > 0 THEN IP6_MAX ELSE buf6.num * BB6
  ELSE LET n == ReadNumber(line, prefixstr, 10, OCTET_MAX) IN IF n <= IP6_MAX THEN n ELSE BAD

\* parse_ip6_addr_split_make_addr(): the left blocks from the top, the right
\* ones down to the bottom.
MakeAddr6(b, len) ==
  [len |-> len,
   slot |-> [s \in 0..NB6 - 1 |->
               IF s < b.right THEN b.blocks[b.left + (b.right - 1 - s)]
               ELSE IF NB6 - 1 - s < b.left THEN b.blocks[NB6 - 1 - s]
               ELSE 0]]

\* Mutant: a double colon may stand for no block.
EndBlocks6NoneMissing ==
  /\ pc = "blocks6" /\ ~MoreBlocks
  /\ IF buf6.num = 0 \/ Prefixlen6 = BAD
     THEN Done6(INVALID_LINE, line) /\ UNCHANGED <<buf6, addr>>
     ELSE /\ buf6' = [buf6 EXCEPT !.prefixlen = Prefixlen6]
          /\ addr' = [addr EXCEPT !["v6"] = MakeAddr6(buf6, Prefixlen6)]
          /\ Done6(OK, line)
  /\ UNCHANGED <<text, mode, prefixstr, guess, rem, buf4>>

EndBlocks6 ==
  /\ pc = "blocks6" /\ ~MoreBlocks
  /\ IF \/ buf6.num = 0 \/ (buf6.on_right /\ buf6.num >= NB6)
        \/ Prefixlen6 = BAD
     THEN Done6(INVALID_LINE, line) /\ UNCHANGED <<buf6, addr>>
     ELSE /\ buf6' = [buf6 EXCEPT !.prefixlen = Prefixlen6]
          /\ addr' = [addr EXCEPT !["v6"] = MakeAddr6(buf6, Prefixlen6)]
          /\ Done6(OK, line)
  /\ UNCHANGED <<text, mode, prefixstr, guess, rem, buf4>>

ParseNext ==
  \/ SplitFails \/ SplitPrefixlen \/ GuessType
  \/ Skip4 \/ Start4 \/ TooManyBlocks4 \/ BadBlock4 \/ Block4 \/ EndBlocks4
  \/ Skip6 \/ Start6 \/ TooManyBlocks6 \/ BadBlock6 \/ SecondDoubleColon \/ Block6 \/ EndBlocks6

-----------------------------------------------------------------------------
(***************************************************************************)
(* What a line's text stands for, told from the text alone: a block's      *)
(* place in the address is the number of separators between it and the     *)
(* address's end.                                                          *)
(***************************************************************************)
HasSlash(t) == \E i \in 1..Len(t) : t[i] = SLASH

LastSlash(t) ==
  IF HasSlash(t)
  THEN CHOOSE i \in DOMAIN t : t[i] = SLASH /\ \A j \in DOMAIN t : t[j] = SLASH => j <= i
  ELSE 0

AddrPart(t) == IF LastSlash(t) = 0 THEN t ELSE SubSeq(t, 1, LastSlash(t) - 1)

\* Without a slash any length is right: what is guessed has its own property.
LenIsRight(t, max, len) ==
  \/ LastSlash(t) = 0
  \/ LastSlash(t) = Len(t) - 1 /\ t[Len(t)].dec = len /\ len \in 0..max

HasLen(t, max) == LastSlash(t) = 0 \/ LenIsRight(t, max, t[Len(t)].dec)

Count(t, c, i, j) == Cardinality({n \in i..j : t[n] = c})

\* doc: up to NB4 octets; a dot at the end stands for missing ones.
IsText4(a) ==
  /\ a # << >>
  /\ \A i \in DOMAIN a : IF i % 2 = 0 THEN a[i] = DOT ELSE a[i].dec \in 0..OCTET_MAX
  /\ Len(a) < 2 * NB4

Slot4(a, s) ==
  LET here == {i \in DOMAIN a : a[i] # DOT /\ Count(a, DOT, 1, i) = NB4 - 1 - s} IN
  IF here = {} THEN 0 ELSE a[CHOOSE i \in here : TRUE].dec

DoubleColons(a) == {i \in 1..Len(a) - 1 : a[i] = COLON /\ a[i + 1] = COLON}

\* The blocks left and right of the double colon at d; nothing before a
\* leading colon is a block of zero.
LeftOf(a, d) == Count(a, COLON, 1, d - 1) + 1
RightOf(a, d) == IF d + 1 = Len(a) THEN 0 ELSE Count(a, COLON, d + 2, Len(a)) + 1

IsText6(a) ==
  /\ a # << >> /\ a[1].scan # "0x"
  /\ \A i \in DOMAIN a : a[i] = COLON \/ a[i].hex \in 0..DOUBLE_OCTET_MAX
  /\ \A i \in DOMAIN a : i > 1 => COLON \in {a[i - 1], a[i]}
  /\ \/ DoubleColons(a) = {} /\ a[Len(a)] # COLON /\ Count(a, COLON, 1, Len(a)) < NB6
     \/ \E d \in DoubleColons(a) :
          /\ DoubleColons(a) = {d} /\ (a[Len(a)] = COLON => d + 1 = Len(a))
          /\ LeftOf(a, d) + RightOf(a, d) < NB6

Slot6(a, s) ==
  LET isLeft(i) == \A d \in DoubleColons(a) : i < d
      here == {i \in DOMAIN a : /\ a[i] # COLON
                                /\ IF isLeft(i) THEN Count(a, COLON, 1, i) = NB6 - 1 - s
                                                ELSE Count(a, COLON, i, Len(a)) = s} IN
  IF here = {} THEN 0 ELSE a[CHOOSE i \in here : TRUE].hex

Tried(t) == pc = "done" /\ t \in guess

\* The IPv4 parser accepts exactly the lines of up to four octets, and makes
\* of them the address they stand for, however far the line was cut up, and
\* whatever the buffer held from the line before.
Ip4MeansText ==
  Tried("v4") =>
    LET a == AddrPart(text) IN
    /\ ret["v4"] = OK <=> (IsText4(a) /\ HasLen(text, IP4_MAX))
    /\ ret["v4"] = OK =>
         /\ LenIsRight(text, IP4_MAX, addr["v4"].len)
         /\ \A s \in 0..NB4 - 1 : addr["v4"].slot[s] = Slot4(a, s)

\* The IPv6 parser accepts exactly the lines of up to eight double octets
\* with at most one double colon, which stands for one block at least, and
\* puts every block at its distance from the end it is counted from, also
\* when the IPv4 parser has had the line first.
Ip6MeansText ==
  Tried("v6") =>
    LET a == AddrPart(text) IN
    /\ ret["v6"] = OK <=> (IsText6(a) /\ HasLen(text, IP6_MAX))
    /\ ret["v6"] = OK =>
         /\ LenIsRight(text, IP6_MAX, addr["v6"].len)
         /\ \A s \in 0..NB6 - 1 : addr["v6"].slot[s] = Slot6(a, s)

\* A prefix length that is guessed never cuts off a block that was written.
GuessKeepsBlocks ==
  pc = "done" /\ ~HasSlash(text) =>
    /\ ret["v4"] = OK =>
         \A s \in 0..NB4 - 1 : addr["v4"].slot[s] # 0 => (NB4 - s) * BB4 <= addr["v4"].len
    /\ ret["v6"] = OK =>
         \A s \in 0..NB6 - 1 : addr["v6"].slot[s] # 0 => (NB6 - s) * BB6 <= addr["v6"].len

\* The length that is guessed is told by the line alone, whatever line was
\* parsed before and by whichever parser: of as many blocks as are written,
\* zero or not, and of all of them when some follow "::".  So "10.0.0.0" is
\* a single address, and not what the manual says (GuessIsOfNonZeroBlocks in
\* IpText).
GuessCountsWrittenBlocks ==
  ~HasSlash(text) =>
    /\ Tried("v4") /\ ret["v4"] = OK => addr["v4"].len = ((Len(text) + 1) \div 2) * BB4
    /\ Tried("v6") /\ ret["v6"] = OK =>
         LET d == CHOOSE i \in DoubleColons(text) : TRUE IN
         addr["v6"].len =
           IF DoubleColons(text) = {} THEN (Count(text, COLON, 1, Len(text)) + 1) * BB6
           ELSE IF RightOf(text, d) > 0 THEN IP6_MAX ELSE LeftOf(text, d) * BB6

\* The block buffers never overflow, the three counters of the IPv6 buffer
\* agree, only a double colon puts blocks on the right side, and nothing
\* lies behind the last block, at every step and after every error.
BuffersInBounds ==
  /\ buf4.num \in 0..NB4
  /\ \A k \in 0..NB4 - 1 : k >= buf4.num => buf4.blocks[k] = 0
  /\ {buf6.left, buf6.right} \subseteq Nat
  /\ buf6.num = buf6.left + buf6.right /\ buf6.num <= NB6
  /\ buf6.right > 0 => buf6.on_right
  /\ \A k \in 0..NB6 - 1 : k >= buf6.num => buf6.blocks[k] = 0

=============================================================================
