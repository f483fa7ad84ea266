------------------------------ MODULE IpText -------------------------------
(***************************************************************************)
(* The text of an address, out and in: a network is printed as a line      *)
(* (src/util/print_ip.c, src/ip_tree_io/print.c, src/ip/ip6/base.c) and    *)
(* the line is read again by the parsers of ParseIp, as when the output of *)
(* one run is an input file of the next; or it is printed as a JSON object *)
(* (src/ip_tree_io/print_json.c).  Any other line may be read, too.        *)
(***************************************************************************)
EXTENDS ParseIp, IpWords

CONSTANTS Nets4, Nets6,         \* the networks that may be printed
          Again                 \* the lines that may follow one another

W4 == NB4 * BB4                 \* IP4_MAX_PREFIXLEN
HALF == NB6 \div 2              \* blocks of an IPv6 address's word

ASSUME NetAssumption ==
  /\ C = HALF * BB6 /\ NB6 = 2 * HALF
  /\ \A n \in Nets4 : n.type = "v4" /\ n.len \in 0..W4 /\ n.bits \in [1..W4 -> {0, 1}]
  /\ \A n \in Nets6 : n.type = "v6" /\ n.len \in 0..2 * C /\ n.bits \in ip6_addr_data
  \* A printed network is a node of a tree: no bit below its length.
  /\ \A n \in Nets4 : \A i \in 1..W4 : i > n.len => n.bits[i] = 0
  /\ Again \subseteq Texts

\* A block fits the octet or double octet it is read as, an IPv4 address is
\* more than one of them, and IPv6 networks are nodes of a tree, too.
ASSUME PrintAssumption ==
  /\ BB4 <= 8 /\ BB6 <= 16 /\ NB4 > 1
  /\ \A n \in Nets6 : \A i \in 1..2 * C : i > n.len => Bits6(n.bits)[i] = 0

VARIABLES net, form, json       \* what was printed, and how; the JSON object

None == [type |-> "none"]

vars == <<parseVars, net, form, json>>

-----------------------------------------------------------------------------
(***************************************************************************)
(* Numbers and their text.                                                 *)
(***************************************************************************)
\* The number in the lowest n bits of a word of width bits.
LowBits(w, width, n) ==
  LET f[i \in 0..n] == IF i = 0 THEN 0 ELSE 2 * f[i - 1] + w[width - n + i] IN f[n]

\* The digits of v in one base, read in the other one.
Digits(v, base, out) ==
  LET d(unit) == (v \div unit) % base IN
  d(1) + out * (d(base) + out * (d(base * base) + out * d(base * base * base)))

\* "%x" and "%04x": also a decimal number when no digit is a letter.
HexText(v) ==
  LET letters == \E unit \in {1, 16, 256, 4096} : (v \div unit) % 16 > 9 IN
  [scan |-> IF letters THEN "letters" ELSE "digits",
   dec |-> IF letters THEN BAD ELSE Digits(v, 16, 10), hex |-> v]

\* "%u"
DecText(v) == [scan |-> "digits", dec |-> v, hex |-> Digits(v, 10, 16)]

-----------------------------------------------------------------------------
(***************************************************************************)
(* ip6/base.c and ip6/base.h: the two forms of an IPv6 address.            *)
(***************************************************************************)
Block(w, k) == LowBits(Shr(w, BB6 * (HALF - k - 1)), C, BB6)

ip6_addr_data_copy_to_blocks(bits) ==
  [k \in 0..NB6 - 1 |-> IF k < HALF THEN Block(bits.high, k) ELSE Block(bits.low, k - HALF)]

\* Mutant: a run at the end of the address is forgotten.
LongestZeroSeqInner(b) ==
  LET seen[k \in 0..NB6] ==
        IF k = 0 THEN [start |-> 0, len |-> 0, cur |-> 0, curlen |-> 0]
        ELSE LET s == seen[k - 1] IN
             IF b[k - 1] = 0
             THEN [s EXCEPT !.cur = IF s.curlen = 0 THEN k - 1 ELSE @, !.curlen = @ + 1]
             ELSE IF s.curlen > s.len
                  THEN [start |-> s.cur, len |-> s.curlen, cur |-> k, curlen |-> 0]
                  ELSE [s EXCEPT !.cur = k, !.curlen = 0] IN
  [start |-> seen[NB6].start, len |-> seen[NB6].len]

\* The first of the longest runs of zero blocks, by one pass over them.
ip6_addr_data_find_longest_zero_seq(b) ==
  LET seen[k \in 0..NB6] ==
        IF k = 0 THEN [start |-> 0, len |-> 0, cur |-> 0, curlen |-> 0]
        ELSE LET s == seen[k - 1] IN
             IF b[k - 1] = 0
             THEN [s EXCEPT !.cur = IF s.curlen = 0 THEN k - 1 ELSE @, !.curlen = @ + 1]
             ELSE IF s.curlen > s.len
                  THEN [start |-> s.cur, len |-> s.curlen, cur |-> k, curlen |-> 0]
                  ELSE [s EXCEPT !.cur = k, !.curlen = 0]
      all == seen[NB6] IN
  IF all.curlen > all.len THEN [start |-> all.cur, len |-> all.curlen]
                          ELSE [start |-> all.start, len |-> all.len]

\* The blocks, with "::" for the run: the block before it writes its colon.
ip6_addr_data_build_addr_str(b, fill) ==
  LET from[k \in 0..NB6] ==
        IF k = NB6 THEN << >>
        ELSE IF fill.len > 0 /\ k = fill.start
             THEN (IF k = 0 THEN <<COLON, COLON>> ELSE <<COLON>>) \o from[k + fill.len]
             ELSE <<HexText(b[k])>> \o (IF k < NB6 - 1 THEN <<COLON>> ELSE << >>) \o from[k + 1]
  IN from[0]

ip6_addr_data_into_str(bits) ==
  LET b == ip6_addr_data_copy_to_blocks(bits) IN
  ip6_addr_data_build_addr_str(b, ip6_addr_data_find_longest_zero_seq(b))

\* ip6_block_a .. ip6_block_h: the fifth is taken two bits too low.
ip6_addr_fmt_args(bits) ==
  [k \in 0..NB6 - 1 |-> IF k < HALF THEN Block(bits.high, k)
                        ELSE IF k = HALF
                        THEN LowBits(Shr(bits.low, BB6 * (HALF - 1) - 2), C, BB6)
                        ELSE Block(bits.low, k - HALF)]

\* b joined by c.
Joined(b, n, c) == [i \in 1..(2 * n - 1) |-> IF i % 2 = 1 THEN b[(i - 1) \div 2] ELSE c]

IP6_ADDR_FMT(bits) ==
  Joined([k \in 0..NB6 - 1 |-> HexText(ip6_addr_fmt_args(bits)[k])], NB6, COLON)

-----------------------------------------------------------------------------
(***************************************************************************)
(* ip4/base.h and the lines of print_ip.c and print.c.                     *)
(***************************************************************************)
\* ip4_block_a .. ip4_block_d
IP4_ADDR_FMT(bits) ==
  Joined([k \in 0..NB4 - 1 |-> DecText(LowBits(Shr(bits, BB4 * (NB4 - k - 1)), W4, BB4))],
         NB4, DOT)

Forms == {"compact", "long"}    \* -l asks for the long one

AddrText(n, f) ==
  IF n.type = "v4" THEN IP4_ADDR_FMT(n.bits)
  ELSE IF f = "long" THEN IP6_ADDR_FMT(n.bits) ELSE ip6_addr_data_into_str(n.bits)

MaxLen(type) == IF type = "v4" THEN W4 ELSE 2 * C

\* Mutant: a length of half the address is left out.
NetTextHalf(n, f, redux) ==
  IF redux /\ n.len >= MaxLen(n.type) \div 2 THEN AddrText(n, f)
  ELSE AddrText(n, f) \o <<SLASH, DecText(n.len)>>

\* fprint_ip4_net, fprint_ip4_addr_or_net, fprint_ip6_tree_compact and the
\* like: -r omits the length of a single address.
NetText(n, f, redux) ==
  IF redux /\ n.len = MaxLen(n.type) THEN AddrText(n, f)
  ELSE AddrText(n, f) \o <<SLASH, DecText(n.len)>>

-----------------------------------------------------------------------------
(***************************************************************************)
(* print_json.c: the addresses of a network's object.                      *)
(***************************************************************************)
\* Mutant: a network of two addresses is treated like a larger one.
Ip4JsonNo31(n) ==
  {[netmask |-> m,
    first |-> IF n.len >= W4 THEN n.bits ELSE Inc(n.bits),
    last |-> IF n.len >= W4 THEN n.bits ELSE Dec(Or(n.bits, Not(m)))] :
     m \in ip4_calc_netmask(W4, n.len)}

fprint_ip4_addr_json(n) ==
  {[netmask |-> m,
    first |-> IF n.len + 1 >= W4 THEN n.bits ELSE Inc(n.bits),
    last |-> IF n.len >= W4 THEN n.bits
             ELSE IF n.len + 1 = W4 THEN Inc(n.bits)
             ELSE Dec(Or(n.bits, Not(m)))] :
     m \in ip4_calc_netmask(W4, n.len)}

fprint_ip6_addr_json(n) ==
  {[netmask |-> m,
    first |-> n.bits,
    last |-> IF n.len >= IP6_MAX_PREFIXLEN THEN n.bits
             ELSE IF n.len >= C
             THEN [high |-> n.bits.high, low |-> Or(n.bits.low, Not(m.low))]
             ELSE [high |-> Or(n.bits.high, Not(m.high)), low |-> Ones(C)]] :
     m \in ip6_calc_netmask(n.len)}

-----------------------------------------------------------------------------
Init == ParseInit /\ net = None /\ form = [long |-> FALSE, redux |-> FALSE] /\ json = None

\* A line of an input file.
ReadLine(l, m) ==
  /\ pc = "idle"
  /\ Parse(l, m)
  /\ UNCHANGED <<net, form, json>>

\* The line after it, for a few of them: the buffers keep what the first left.
ReadNextLine(l, m) ==
  /\ pc = "done" /\ net = None /\ text \in Again
  /\ Parse(l, m)
  /\ UNCHANGED <<net, form, json>>

\* A network is printed, and its line read in the mode of its type or in
\* mixed mode.
PrintLine(n, f, redux, m) ==
  /\ pc = "idle" /\ n.type \in m
  /\ Parse(NetText(n, f, redux), m)
  /\ net' = n /\ form' = [long |-> f = "long", redux |-> redux] /\ UNCHANGED json

PrintJson(n) ==
  /\ pc = "idle" /\ pc' = "json" /\ net' = n
  /\ json' \in IF n.type = "v4" THEN fprint_ip4_addr_json(n) ELSE fprint_ip6_addr_json(n)
  /\ UNCHANGED <<text, mode, line, prefixstr, guess, rem, buf4, buf6, ret, addr, form>>

Modes == (SUBSET Types) \ {{}}

Next ==
  \/ /\ pc = "idle"
     /\ \/ \E l \in Texts, m \in Modes : ReadLine(l, m)
        \/ \E n \in Nets4 \union Nets6, f \in Forms, redux \in BOOLEAN, m \in Modes :
             PrintLine(n, f, redux, m)
        \/ \E n \in Nets4 \union Nets6 : PrintJson(n)
  \/ \E l \in Again, m \in Modes : ReadNextLine(l, m)
  \/ ParseNext /\ UNCHANGED <<net, form, json>>

Spec == Init /\ [][Next]_vars

-----------------------------------------------------------------------------
\* The bits of a network's address, and its blocks, the lowest at 0.
BitsOf(n) == IF n.type = "v4" THEN n.bits ELSE Bits6(n.bits)

SlotOf(n, s) ==
  LET size == IF n.type = "v4" THEN BB4 ELSE BB6 IN
  LowBits(BitsOf(n), MaxLen(n.type) - s * size, size)

Slots(type) == 0..(IF type = "v4" THEN NB4 ELSE NB6) - 1

\* "::" stands for the first block alone.
LoneLeadingZero(n) ==
  /\ SlotOf(n, NB6 - 1) = 0
  /\ \A s \in 1..NB6 - 1 : SlotOf(n, s) = 0 => SlotOf(n, s - 1) # 0

ReadsBack ==
  /\ ret[net.type] = OK
  /\ \A s \in Slots(net.type) : addr[net.type].slot[s] = SlotOf(net, s)

\* A printed line is read back as the network it was printed for, in the
\* mode of its type and in mixed mode, and not as one of the other type; but
\* the long form only up to length C, the compact form not when its "::" is
\* a single block at the start, and -r not its length when its "::" is at
\* the end.
ReadBack ==
  pc = "done" /\ net # None =>
    LET compact == net.type = "v6" /\ ~form.long IN
    /\ \A t \in Types \ {net.type} : ret[t] = NOT_TRIED
    /\ net.type = "v6" /\ form.long => (net.len <= C => ReadsBack)
    /\ compact => (ReadsBack <=> ~LoneLeadingZero(net))
    /\ net.type = "v4" => ReadsBack
    /\ ReadsBack =>
         (addr[net.type].len = net.len <=>
            ~(compact /\ form.redux /\ net.len = 2 * C /\ text[Len(text)] = COLON))

ZeroRun(n, i, j) == \A s \in i..j : SlotOf(n, s) = 0

\* base.h: the compact form fits its buffer.  Its "::" stands for as many
\* blocks as the longest run of zero blocks has, so that no line is shorter.
CompactText ==
  pc = "split" /\ net # None /\ net.type = "v6" /\ ~form.long =>
    LET a == AddrPart(text)
        written == Cardinality({i \in DOMAIN a : a[i] # COLON}) IN
    /\ 4 * written + (Len(a) - written) <= 4 * NB6 + (NB6 - 1)
    /\ \A i \in Slots("v6") : \A j \in i..NB6 - 1 :
         ZeroRun(net, i, j) => written <= NB6 - (j - i + 1)
    /\ written < NB6 => \E i \in 0..written : ZeroRun(net, i, i + (NB6 - written - 1))

\* The bits of the object's addresses.
JsonBits(a) == IF net.type = "v4" THEN a ELSE Bits6(a)

\* JSON: the netmask has the bits of the prefix; first and last are the
\* lowest and highest address, in IPv4 without the network's own and the
\* broadcast address when there are others; for every length that does not
\* shift by a word.
JsonExact ==
  pc = "json" /\ net.len > 0 /\ ~(net.type = "v6" /\ net.len = C) =>
    LET w == MaxLen(net.type)
        hosts == net.type = "v4" /\ net.len + 1 < w
        n == BitsOf(net) IN
    \A i \in 1..w :
      /\ JsonBits(json.netmask)[i] = IF i <= net.len THEN 1 ELSE 0
      /\ JsonBits(json.first)[i] = IF hosts /\ i = w THEN 1 ELSE n[i]
      /\ JsonBits(json.last)[i] = IF i <= net.len THEN n[i]
                                  ELSE IF hosts /\ i = w THEN 0 ELSE 1

\* The words' bit operations are IpAddr's, for the address that is printed.
BitOpsHold == pc = "json" /\ net.type = "v6" => BitOpsAgree(net.bits)

\* The words' masks are IpAddr's, for the address that is printed.
MasksHold == pc = "json" /\ net.type = "v6" => MasksAgree(net.bits)

-----------------------------------------------------------------------------
(***************************************************************************)
(* What the manual or a comment says and the code does not do.             *)
(***************************************************************************)
\* Manual and -h: "If omitted, the prefixlen is guessed based on the number
\* of non-zero blocks in the network address".  In whatever way it depends
\* on them, no zero block counts that stands behind the last other one.
GuessIsOfNonZeroBlocks ==
  pc = "done" /\ ~HasSlash(text) =>
    \A t \in Types : ret[t] = OK /\ addr[t].len > 0 =>
      LET size == IF t = "v4" THEN BB4 ELSE BB6 IN
      \E s \in Slots(t) : addr[t].slot[s] # 0 /\ addr[t].len <= MaxLen(t) - s * size

\* print_json.c: "last: last address in network".
JsonLastIsLast ==
  pc = "json" /\ net.type = "v6" =>
    \A i \in 1..2 * C : i > net.len => Bits6(json.last)[i] = 1

=============================================================================
