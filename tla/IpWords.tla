------------------------------ MODULE IpWords ------------------------------
(***************************************************************************)
(* The machine words behind an address (src/ip/ip4/base.c, addr.c and      *)
(* src/ip/ip6/base.c, addr.c): an IPv4 address is one word, an IPv6        *)
(* address is two of C bits.                                               *)
(*                                                                         *)
(* A word is its sequence of bits, the most significant one first, so that *)
(* IpAddr's view of an address is the words put one behind the other.      *)
(* A shift by the width of a word is undefined in C: the processor counts  *)
(* modulo the width and returns the word, a compiler that knows the count  *)
(* returns zero.  Both outcomes are kept, as a set.                        *)
(***************************************************************************)
EXTENDS Integers, Sequences

CONSTANT C                      \* IP6_DATA_CHUNK_SIZE

ASSUME CAssumption == C \in Nat \ {0}

IP6_MAX_PREFIXLEN == 2 * C

Word(n) == [1..n -> {0, 1}]

Zeros(n) == [i \in 1..n |-> 0]
Ones(n) == [i \in 1..n |-> 1]

Not(w) == [i \in DOMAIN w |-> 1 - w[i]]
And(v, w) == [i \in DOMAIN v |-> IF v[i] = 1 /\ w[i] = 1 THEN 1 ELSE 0]
Or(v, w) == [i \in DOMAIN v |-> IF v[i] = 1 \/ w[i] = 1 THEN 1 ELSE 0]
Xor(v, w) == [i \in DOMAIN v |-> IF v[i] = w[i] THEN 0 ELSE 1]

Shl(w, k) == [i \in DOMAIN w |-> IF i + k \in DOMAIN w THEN w[i + k] ELSE 0]
Shr(w, k) == [i \in DOMAIN w |-> IF i - k \in DOMAIN w THEN w[i - k] ELSE 0]

\* What w << k may be for a word of n bits and k in 0..n.
ShlOutcomes(n, w, k) == IF k < n THEN {Shl(w, k)} ELSE {w, Zeros(n)}

-----------------------------------------------------------------------------
(***************************************************************************)
(* ip6/base.c.  A prefix position counts from 1 at the most significant    *)
(* bit of high.                                                            *)
(***************************************************************************)
ip6_addr_data == [high : Word(C), low : Word(C)]

\* The address as IpAddr sees it.
Bits6(a) == [i \in 1..IP6_MAX_PREFIXLEN |-> IF i <= C THEN a.high[i] ELSE a.low[i - C]]

ip6_calc_bitpos(prefixpos) == IP6_MAX_PREFIXLEN - prefixpos

\* Mutant: the highest bit of the low half is looked for in the high half.
ip6_calc_ro_bitpos_in_off(prefixpos) ==
  LET bpos == ip6_calc_bitpos(prefixpos) IN
  IF bpos < C - 1 THEN [chunk |-> "low", bpos |-> bpos]
                  ELSE [chunk |-> "high", bpos |-> IF bpos < C THEN 0 ELSE bpos - C]

\* The half that holds the position, and the bit's place in it.
ip6_calc_ro_bitpos_in(prefixpos) ==
  LET bpos == ip6_calc_bitpos(prefixpos) IN
  IF bpos < C THEN [chunk |-> "low", bpos |-> bpos]
              ELSE [chunk |-> "high", bpos |-> bpos - C]

\* 0x1 << bpos
ip6_calc_bit(bpos) == Shl([i \in 1..C |-> IF i = C THEN 1 ELSE 0], bpos)

Half(bits, chunk) == IF chunk = "low" THEN bits.low ELSE bits.high
WithHalf(bits, chunk, w) ==
  IF chunk = "low" THEN [high |-> bits.high, low |-> w] ELSE [high |-> w, low |-> bits.low]

ip6_calc_bit_is_set_at_prefixpos(bits, prefixpos) ==
  LET p == ip6_calc_ro_bitpos_in(prefixpos) IN
  And(Half(bits, p.chunk), ip6_calc_bit(p.bpos)) # Zeros(C)

ip6_calc_flip_bit_at_prefixpos(bits, prefixpos) ==
  LET p == ip6_calc_ro_bitpos_in(prefixpos) IN
  WithHalf(bits, p.chunk, Xor(Half(bits, p.chunk), ip6_calc_bit(p.bpos)))

ip6_calc_set_bit_at_prefixpos(bits, prefixpos, bit_set) ==
  LET p == ip6_calc_ro_bitpos_in(prefixpos)
      mask == ip6_calc_bit(p.bpos)
      w == Half(bits, p.chunk) IN
  WithHalf(bits, p.chunk, IF bit_set THEN Or(w, mask) ELSE And(w, Not(mask)))

\* Mutant: the high half is masked by the length of the low one.
ip6_calc_netmask_swapped(prefixlen) ==
  IF prefixlen >= C
  THEN {[high |-> Ones(C), low |-> m] :
          m \in IF prefixlen >= IP6_MAX_PREFIXLEN THEN {Ones(C)}
                ELSE ShlOutcomes(C, Ones(C), prefixlen - C)}
  ELSE {[high |-> m, low |-> Zeros(C)] : m \in ShlOutcomes(C, Ones(C), C - prefixlen)}

\* The netmasks a build may compute: for 0 and for C it shifts by C.
ip6_calc_netmask(prefixlen) ==
  IF prefixlen >= C
  THEN {[high |-> Ones(C), low |-> m] :
          m \in IF prefixlen >= IP6_MAX_PREFIXLEN THEN {Ones(C)}
                ELSE ShlOutcomes(C, Ones(C), C - (prefixlen - C))}
  ELSE {[high |-> m, low |-> Zeros(C)] : m \in ShlOutcomes(C, Ones(C), C - prefixlen)}

\* (0x1 << exp) - 1
HostMasks(exp) ==
  IF exp < C THEN {[i \in 1..C |-> IF i > C - exp THEN 1 ELSE 0]} ELSE {Zeros(C), Ones(C)}

\* ip6_addr_is_net(): its answers for an address and a prefix length.
ip6_addr_is_net(a, prefixlen) ==
  IF prefixlen > IP6_MAX_PREFIXLEN THEN {FALSE}
  ELSE IF prefixlen > C
  THEN {r \in BOOLEAN : \E mask \in HostMasks(IP6_MAX_PREFIXLEN - prefixlen) :
                          r <=> And(a.low, mask) = Zeros(C)}
  ELSE {r \in BOOLEAN : \E mask \in HostMasks(C - prefixlen) :
                          r <=> a.low = Zeros(C) /\ And(a.high, mask) = Zeros(C)}

-----------------------------------------------------------------------------
(***************************************************************************)
(* ip4/base.c, for a word of n bits (uint_fast32_t may be wider: only the  *)
(* low n bits of an address are ever printed).                             *)
(***************************************************************************)
\* IP4_MAX_ADDR is an unsigned int of n bits: prefix length 0 shifts by n.
ip4_calc_netmask(n, prefixlen) == ShlOutcomes(n, Ones(n), n - prefixlen)

\* w + 1 and w - 1, modulo 2^n.
Inc(w) ==
  [i \in DOMAIN w |-> IF \A j \in DOMAIN w : j > i => w[j] = 1 THEN 1 - w[i] ELSE w[i]]
Dec(w) == Not(Inc(Not(w)))

-----------------------------------------------------------------------------
(***************************************************************************)
(* What the words promise: the operations of IpAddr, across the halves.    *)
(***************************************************************************)
\* Reading, flipping and setting the bit at any prefix position of a, in
\* either half, is what IpAddr's addr_init_child and addr_init_sibling do to
\* the whole address: the trees' walk over 128 bits rests on it.
BitOpsAgree(a) ==
  \A p \in 1..IP6_MAX_PREFIXLEN :
    /\ ip6_calc_bit_is_set_at_prefixpos(a, p) <=> Bits6(a)[p] = 1
    /\ Bits6(ip6_calc_flip_bit_at_prefixpos(a, p)) = [Bits6(a) EXCEPT ![p] = 1 - Bits6(a)[p]]
    /\ \A b \in BOOLEAN :
         Bits6(ip6_calc_set_bit_at_prefixpos(a, p, b)) =
           [Bits6(a) EXCEPT ![p] = IF b THEN 1 ELSE 0]

\* For every prefix length that shifts by less than a word, the netmask has
\* exactly the bits up to the length, and the strict check refuses exactly
\* the addresses with a host bit, in whichever half it is.
MasksAgree(a) ==
  \A len \in 1..IP6_MAX_PREFIXLEN :
    /\ len # C => \A m \in ip6_calc_netmask(len) :
                    \A i \in 1..IP6_MAX_PREFIXLEN : Bits6(m)[i] = 1 <=> i <= len
    /\ ip6_addr_is_net(a, len) =
         {r \in BOOLEAN : r <=> \A i \in 1..IP6_MAX_PREFIXLEN : i > len => Bits6(a)[i] = 0}

=============================================================================
