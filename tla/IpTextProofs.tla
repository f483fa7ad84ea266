---------------------------- MODULE IpTextProofs ----------------------------
(***************************************************************************)
(* For every number and size of blocks and every line: the parsers keep    *)
(* within their buffers and guess no length that cuts off a block; and the *)
(* words of every address that is printed are its bits.                    *)
(***************************************************************************)
EXTENDS IpText, TLAPS

-----------------------------------------------------------------------------
(***************************************************************************)
(* What IpWords promises holds for every width of a word and every         *)
(* address: the bits across the two halves, and the masks.                 *)
(***************************************************************************)
LEMMA CFact == C \in Nat /\ C > 0
BY CAssumption

-----------------------------------------------------------------------------
\* A word with one bit set, the mask of position k; a function with another
\* value at k.
At1(k) == [i \in 1..C |-> IF i = k THEN 1 ELSE 0]
SetAt(f, k, b) == [f EXCEPT ![k] = b]

\* 1 << bpos has the bit at C - bpos, counted from the most significant one.
LEMMA CalcBit ==
  ASSUME NEW n \in 0..C - 1
  PROVE  ip6_calc_bit(n) = At1(C - n)
<1> DEFINE one == [i \in 1..C |-> IF i = C THEN 1 ELSE 0]
<1>1. DOMAIN one = 1..C
  OBVIOUS
<1>2. ip6_calc_bit(n) = [i \in 1..C |-> IF i + n \in 1..C THEN one[i + n] ELSE 0]
  BY <1>1 DEF ip6_calc_bit, Shl
<1>3. \A i \in 1..C : (IF i + n \in 1..C THEN one[i + n] ELSE 0) = IF i = C - n THEN 1 ELSE 0
  BY CFact
<1> QED
  BY <1>2, <1>3 DEF At1

LEMMA MaskOps ==
  ASSUME NEW w \in Word(C), NEW k \in 1..C
  PROVE  /\ And(w, At1(k)) # Zeros(C) <=> w[k] = 1
         /\ Xor(w, At1(k)) = SetAt(w, k, 1 - w[k])
         /\ Or(w, At1(k)) = SetAt(w, k, 1)
         /\ And(w, Not(At1(k))) = SetAt(w, k, 0)
<1>1. DOMAIN w = 1..C /\ \A i \in 1..C : w[i] \in {0, 1}
  BY DEF Word
<1>2. And(w, At1(k)) # Zeros(C) <=> w[k] = 1
  <2>1. And(w, At1(k)) = [i \in 1..C |-> IF w[i] = 1 /\ i = k THEN 1 ELSE 0]
    BY <1>1 DEF And, At1
  <2>2. w[k] = 1 => And(w, At1(k))[k] = 1 /\ Zeros(C)[k] = 0
    BY <2>1 DEF Zeros
  <2>3. w[k] # 1 => And(w, At1(k)) = Zeros(C)
    BY <2>1 DEF Zeros
  <2> QED
    BY <2>2, <2>3
<1>3. Xor(w, At1(k)) = [w EXCEPT ![k] = 1 - w[k]]
  <2>1. Xor(w, At1(k)) = [i \in 1..C |-> IF w[i] = At1(k)[i] THEN 0 ELSE 1]
    BY <1>1 DEF Xor
  <2>2. \A i \in 1..C : (IF w[i] = At1(k)[i] THEN 0 ELSE 1) = IF i = k THEN 1 - w[k] ELSE w[i]
    BY <1>1 DEF At1
  <2> QED
    BY <1>1, <2>1, <2>2 DEF Word
<1>4. Or(w, At1(k)) = [w EXCEPT ![k] = 1]
  <2>1. Or(w, At1(k)) = [i \in 1..C |-> IF w[i] = 1 \/ At1(k)[i] = 1 THEN 1 ELSE 0]
    BY <1>1 DEF Or
  <2>2. \A i \in 1..C : (IF w[i] = 1 \/ At1(k)[i] = 1 THEN 1 ELSE 0) = IF i = k THEN 1 ELSE w[i]
    BY <1>1 DEF At1
  <2> QED
    BY <1>1, <2>1, <2>2 DEF Word
<1>5. And(w, Not(At1(k))) = [w EXCEPT ![k] = 0]
  <2>1. And(w, Not(At1(k))) = [i \in 1..C |-> IF w[i] = 1 /\ Not(At1(k))[i] = 1 THEN 1 ELSE 0]
    BY <1>1 DEF And
  <2>2. \A i \in 1..C : Not(At1(k))[i] = IF i = k THEN 0 ELSE 1
    BY DEF Not, At1
  <2>3. \A i \in 1..C : (IF w[i] = 1 /\ Not(At1(k))[i] = 1 THEN 1 ELSE 0)
                          = IF i = k THEN 0 ELSE w[i]
    BY <1>1, <2>2
  <2> QED
    BY <1>1, <2>1, <2>3 DEF Word
<1> QED
  BY <1>2, <1>3, <1>4, <1>5 DEF SetAt

-----------------------------------------------------------------------------
\* The half that holds a prefix position, and the place in it.
LEMMA Position ==
  ASSUME NEW p \in 1..IP6_MAX_PREFIXLEN
  PROVE  LET q == ip6_calc_ro_bitpos_in(p) IN
         /\ p > C => q.chunk = "low" /\ q.bpos \in 0..C - 1 /\ C - q.bpos = p - C
         /\ p <= C => q.chunk = "high" /\ q.bpos \in 0..C - 1 /\ C - q.bpos = p
BY CFact DEF ip6_calc_ro_bitpos_in, ip6_calc_bitpos, IP6_MAX_PREFIXLEN

\* A half with another bit at k is the address with another bit at p.
LEMMA SetInHalf ==
  ASSUME NEW a \in ip6_addr_data, NEW k \in 1..C, NEW b
  PROVE  /\ Bits6(WithHalf(a, "high", SetAt(a.high, k, b))) = SetAt(Bits6(a), k, b)
         /\ Bits6(WithHalf(a, "low", SetAt(a.low, k, b))) = SetAt(Bits6(a), k + C, b)
<1>1. DOMAIN a.high = 1..C /\ DOMAIN a.low = 1..C
  BY DEF ip6_addr_data, Word
<1>2. C \in Nat /\ IP6_MAX_PREFIXLEN = C + C
  BY CFact DEF IP6_MAX_PREFIXLEN
<1> DEFINE h == [a.high EXCEPT ![k] = b]
           l == [a.low EXCEPT ![k] = b]
<1>3. \A i \in 1..C : h[i] = (IF i = k THEN b ELSE a.high[i]) /\ l[i] = IF i = k THEN b ELSE a.low[i]
  BY <1>1
<1> HIDE DEF h, l
<1>4. Bits6(WithHalf(a, "high", h)) = [Bits6(a) EXCEPT ![k] = b]
  <2>1. Bits6(WithHalf(a, "high", h)) =
          [i \in 1..IP6_MAX_PREFIXLEN |-> IF i <= C THEN h[i] ELSE a.low[i - C]]
    BY DEF Bits6, WithHalf
  <2>2. \A i \in 1..IP6_MAX_PREFIXLEN :
          (IF i <= C THEN h[i] ELSE a.low[i - C])
            = IF i = k THEN b ELSE IF i <= C THEN a.high[i] ELSE a.low[i - C]
    BY <1>2, <1>3
  <2> QED
    BY <2>1, <2>2, <1>2 DEF Bits6
<1>5. Bits6(WithHalf(a, "low", l)) = [Bits6(a) EXCEPT ![k + C] = b]
  <2>1. Bits6(WithHalf(a, "low", l)) =
          [i \in 1..IP6_MAX_PREFIXLEN |-> IF i <= C THEN a.high[i] ELSE l[i - C]]
    BY DEF Bits6, WithHalf
  <2>2. \A i \in 1..IP6_MAX_PREFIXLEN :
          (IF i <= C THEN a.high[i] ELSE l[i - C])
            = IF i = k + C THEN b ELSE IF i <= C THEN a.high[i] ELSE a.low[i - C]
    BY <1>2, <1>3
  <2> QED
    BY <2>1, <2>2, <1>2 DEF Bits6
<1> QED
  BY <1>4, <1>5 DEF h, l, SetAt

\* The bit operations of ip6/base.c are those of the whole address.
THEOREM BitOps == \A a \in ip6_addr_data : BitOpsAgree(a)
<1> SUFFICES ASSUME NEW a \in ip6_addr_data, NEW p \in 1..IP6_MAX_PREFIXLEN
             PROVE  /\ ip6_calc_bit_is_set_at_prefixpos(a, p) <=> Bits6(a)[p] = 1
                    /\ Bits6(ip6_calc_flip_bit_at_prefixpos(a, p)) =
                         [Bits6(a) EXCEPT ![p] = 1 - Bits6(a)[p]]
                    /\ \A b \in BOOLEAN :
                         Bits6(ip6_calc_set_bit_at_prefixpos(a, p, b)) =
                           [Bits6(a) EXCEPT ![p] = IF b THEN 1 ELSE 0]
  BY DEF BitOpsAgree
<1>1. a.high \in Word(C) /\ a.low \in Word(C)
  BY DEF ip6_addr_data
<1> DEFINE q == ip6_calc_ro_bitpos_in(p)
           k == IF p > C THEN p - C ELSE p
<1>2. k \in 1..C /\ q.bpos \in 0..C - 1 /\ C - q.bpos = k
  BY Position, CFact DEF IP6_MAX_PREFIXLEN
<1>3. q.chunk = IF p > C THEN "low" ELSE "high"
  BY Position, CFact DEF IP6_MAX_PREFIXLEN
<1>4. ip6_calc_bit(q.bpos) = At1(k)
  BY <1>2, CalcBit
<1>5. Bits6(a)[p] = IF p > C THEN a.low[k] ELSE a.high[k]
  BY CFact DEF Bits6, IP6_MAX_PREFIXLEN
<1> DEFINE w == Half(a, q.chunk)
<1>6. w \in Word(C) /\ Bits6(a)[p] = w[k]
  BY <1>1, <1>3, <1>5 DEF Half
<1>7. /\ ip6_calc_bit_is_set_at_prefixpos(a, p) <=> And(w, At1(k)) # Zeros(C)
      /\ ip6_calc_flip_bit_at_prefixpos(a, p) = WithHalf(a, q.chunk, Xor(w, At1(k)))
      /\ \A b \in BOOLEAN :
           ip6_calc_set_bit_at_prefixpos(a, p, b) =
             WithHalf(a, q.chunk, IF b THEN Or(w, At1(k)) ELSE And(w, Not(At1(k))))
  BY <1>4 DEF ip6_calc_bit_is_set_at_prefixpos, ip6_calc_flip_bit_at_prefixpos,
              ip6_calc_set_bit_at_prefixpos
<1>8. ASSUME NEW b
      PROVE  Bits6(WithHalf(a, q.chunk, SetAt(w, k, b))) = SetAt(Bits6(a), p, b)
  <2>1. CASE p > C
    <3>1. q.chunk = "low" /\ w = a.low /\ p = k + C
      BY <2>1, <1>3, CFact DEF Half
    <3> HIDE DEF q, k, w
    <3> QED
      BY <3>1, <1>2, SetInHalf
  <2>2. CASE ~(p > C)
    <3>1. q.chunk = "high" /\ w = a.high /\ p = k
      BY <2>2, <1>3 DEF Half
    <3> HIDE DEF q, k, w
    <3> QED
      BY <3>1, <1>2, SetInHalf
  <2> QED
    BY <2>1, <2>2
<1> HIDE DEF q, k, w
<1>9. ip6_calc_bit_is_set_at_prefixpos(a, p) <=> Bits6(a)[p] = 1
  BY <1>2, <1>6, <1>7, MaskOps
<1>10. Bits6(ip6_calc_flip_bit_at_prefixpos(a, p)) = SetAt(Bits6(a), p, 1 - Bits6(a)[p])
  BY <1>2, <1>6, <1>7, <1>8, MaskOps
<1>11. ASSUME NEW b \in BOOLEAN
       PROVE  Bits6(ip6_calc_set_bit_at_prefixpos(a, p, b)) = SetAt(Bits6(a), p, IF b THEN 1 ELSE 0)
  <2>1. CASE b
    BY <2>1, <1>2, <1>6, <1>7, <1>8, MaskOps
  <2>2. CASE ~b
    BY <2>2, <1>2, <1>6, <1>7, <1>8, MaskOps
  <2> QED
    BY <2>1, <2>2
<1> QED
  BY <1>9, <1>10, <1>11 DEF SetAt

-----------------------------------------------------------------------------
\* All ones, shifted by less than the word: zeros at the end.
LEMMA ShiftedOnes ==
  ASSUME NEW k \in 0..C - 1, NEW m \in ShlOutcomes(C, Ones(C), k)
  PROVE  \A i \in 1..C : m[i] = IF i <= C - k THEN 1 ELSE 0
<1>1. DOMAIN Ones(C) = 1..C /\ \A i \in 1..C : Ones(C)[i] = 1
  BY DEF Ones
<1>2. m = Shl(Ones(C), k)
  BY CFact DEF ShlOutcomes
<1>3. m = [i \in 1..C |-> IF i + k \in 1..C THEN Ones(C)[i + k] ELSE 0]
  BY <1>1, <1>2 DEF Shl
<1> QED
  BY <1>1, <1>3, CFact

\* The netmask of a length has the bits up to it, unless it shifts by C.
LEMMA Netmask ==
  ASSUME NEW len \in 1..IP6_MAX_PREFIXLEN, len # C, NEW m \in ip6_calc_netmask(len),
         NEW i \in 1..IP6_MAX_PREFIXLEN
  PROVE  Bits6(m)[i] = 1 <=> i <= len
<1>1. C \in Nat /\ IP6_MAX_PREFIXLEN = C + C /\ len \in Nat /\ i \in Nat /\ i > 0 /\ i <= C + C
  BY CFact DEF IP6_MAX_PREFIXLEN
<1>2. Bits6(m)[i] = IF i <= C THEN m.high[i] ELSE m.low[i - C]
  BY DEF Bits6
<1>3. /\ \A j \in 1..C : Ones(C)[j] = 1
      /\ \A j \in 1..C : Zeros(C)[j] = 0
  BY DEF Ones, Zeros
<1>4. CASE len >= IP6_MAX_PREFIXLEN
  <2>1. m.high = Ones(C) /\ m.low = Ones(C)
    BY <1>1, <1>4 DEF ip6_calc_netmask
  <2> QED
    BY <1>1, <1>2, <1>3, <1>4, <2>1
<1>5. CASE len > C /\ len < IP6_MAX_PREFIXLEN
  <2>1. m.high = Ones(C) /\ m.low \in ShlOutcomes(C, Ones(C), C - (len - C))
    BY <1>1, <1>5 DEF ip6_calc_netmask
  <2>2. C - (len - C) \in 0..C - 1
    BY <1>1, <1>5
  <2>3. \A j \in 1..C : m.low[j] = IF j <= C - (C - (len - C)) THEN 1 ELSE 0
    BY <2>1, <2>2, ShiftedOnes
  <2> QED
    BY <1>1, <1>2, <1>3, <1>5, <2>1, <2>3
<1>6. CASE len < C
  <2>1. m.low = Zeros(C) /\ m.high \in ShlOutcomes(C, Ones(C), C - len)
    BY <1>1, <1>6 DEF ip6_calc_netmask
  <2>2. C - len \in 0..C - 1
    BY <1>1, <1>6
  <2>3. \A j \in 1..C : m.high[j] = IF j <= C - (C - len) THEN 1 ELSE 0
    BY <2>1, <2>2, ShiftedOnes
  <2> QED
    BY <1>1, <1>2, <1>3, <1>6, <2>1, <2>3
<1> QED
  BY <1>1, <1>4, <1>5, <1>6

\* A word has no bit of a host mask: its last n bits are zero.
LEMMA HostBits ==
  ASSUME NEW w \in Word(C), NEW n \in 0..C - 1, NEW mask \in HostMasks(n)
  PROVE  And(w, mask) = Zeros(C) <=> \A i \in 1..C : i > C - n => w[i] = 0
<1>1. DOMAIN w = 1..C /\ \A i \in 1..C : w[i] \in {0, 1}
  BY DEF Word
<1>2. mask = [i \in 1..C |-> IF i > C - n THEN 1 ELSE 0]
  BY CFact DEF HostMasks
<1>3. And(w, mask) = [i \in 1..C |-> IF w[i] = 1 /\ i > C - n THEN 1 ELSE 0]
  BY <1>1, <1>2 DEF And
<1>4. ASSUME \A i \in 1..C : i > C - n => w[i] = 0 PROVE And(w, mask) = Zeros(C)
  BY <1>3, <1>4 DEF Zeros
<1>5. ASSUME And(w, mask) = Zeros(C), NEW i \in 1..C, i > C - n PROVE w[i] = 0
  <2>1. And(w, mask)[i] = 0
    BY <1>5 DEF Zeros
  <2> QED
    BY <1>1, <1>3, <1>5, <2>1
<1> QED
  BY <1>4, <1>5

\* ip6_addr_is_net() refuses exactly the addresses with a host bit.
LEMMA IsNet ==
  ASSUME NEW a \in ip6_addr_data, NEW len \in 1..IP6_MAX_PREFIXLEN
  PROVE  ip6_addr_is_net(a, len) =
           {r \in BOOLEAN : r <=> \A i \in 1..IP6_MAX_PREFIXLEN : i > len => Bits6(a)[i] = 0}
<1> DEFINE clear == \A i \in 1..IP6_MAX_PREFIXLEN : i > len => Bits6(a)[i] = 0
<1>1. C \in Nat /\ C > 0 /\ IP6_MAX_PREFIXLEN = C + C /\ len \in Nat /\ len > 0 /\ len <= C + C
  BY CFact DEF IP6_MAX_PREFIXLEN
<1>2. a.high \in Word(C) /\ a.low \in Word(C)
  BY DEF ip6_addr_data
<1>3. \A i \in 1..IP6_MAX_PREFIXLEN : Bits6(a)[i] = IF i <= C THEN a.high[i] ELSE a.low[i - C]
  BY DEF Bits6
<1>4. CASE len > C
  <2> DEFINE n == IP6_MAX_PREFIXLEN - len
  <2>1. n \in 0..C - 1
    BY <1>1, <1>4
  <2>2. ip6_addr_is_net(a, len) =
          {r \in BOOLEAN : \E mask \in HostMasks(n) : r <=> And(a.low, mask) = Zeros(C)}
    <3>1. ~(len > IP6_MAX_PREFIXLEN)
      BY <1>1
    <3> QED
      BY <3>1, <1>4, Zenon DEF ip6_addr_is_net
  <2>3. HostMasks(n) # {}
    BY <2>1, CFact DEF HostMasks
  <2>4. clear <=> \A i \in 1..C : i > C - n => a.low[i] = 0
    <3>1. ASSUME clear, NEW i \in 1..C, i > C - n PROVE a.low[i] = 0
      <4>1. i + C \in 1..IP6_MAX_PREFIXLEN /\ i + C > len /\ ~(i + C <= C) /\ (i + C) - C = i
        BY <1>1, <3>1
      <4> QED
        BY <1>3, <3>1, <4>1
    <3>2. ASSUME \A i \in 1..C : i > C - n => a.low[i] = 0,
                 NEW i \in 1..IP6_MAX_PREFIXLEN, i > len
          PROVE  Bits6(a)[i] = 0
      <4>1. i - C \in 1..C /\ i - C > C - n /\ ~(i <= C)
        BY <1>1, <1>4, <3>2
      <4> QED
        BY <1>3, <3>2, <4>1
    <3> QED
      BY <3>1, <3>2
  <2> HIDE DEF n, clear
  <2>5. \A mask \in HostMasks(n) : (And(a.low, mask) = Zeros(C)) <=> clear
    BY <1>2, <2>1, <2>4, HostBits
  <2> QED
    BY <2>2, <2>3, <2>5 DEF clear
<1>5. CASE len <= C
  <2> DEFINE n == C - len
  <2>1. n \in 0..C - 1
    BY <1>1, <1>5
  <2>2. ip6_addr_is_net(a, len) =
          {r \in BOOLEAN : \E mask \in HostMasks(n) :
                             r <=> a.low = Zeros(C) /\ And(a.high, mask) = Zeros(C)}
    <3>1. ~(len > IP6_MAX_PREFIXLEN) /\ ~(len > C)
      BY <1>1, <1>5
    <3> QED
      BY <3>1, Zenon DEF ip6_addr_is_net
  <2>3. HostMasks(n) # {}
    BY <2>1, CFact DEF HostMasks
  <2>4. a.low = Zeros(C) <=> \A i \in 1..C : a.low[i] = 0
    <3>1. ASSUME a.low = Zeros(C), NEW i \in 1..C PROVE a.low[i] = 0
      BY <3>1 DEF Zeros
    <3>2. ASSUME \A i \in 1..C : a.low[i] = 0 PROVE a.low = Zeros(C)
      BY <1>2, <3>2 DEF Word, Zeros
    <3> QED
      BY <3>1, <3>2
  <2>5. clear <=> /\ \A i \in 1..C : a.low[i] = 0
                  /\ \A i \in 1..C : i > C - n => a.high[i] = 0
    <3>1. ASSUME clear, NEW i \in 1..C PROVE a.low[i] = 0
      <4>1. i + C \in 1..IP6_MAX_PREFIXLEN /\ i + C > len /\ ~(i + C <= C) /\ (i + C) - C = i
        BY <1>1, <1>5, <3>1
      <4> QED
        BY <1>3, <3>1, <4>1
    <3>2. ASSUME clear, NEW i \in 1..C, i > C - n PROVE a.high[i] = 0
      <4>1. i \in 1..IP6_MAX_PREFIXLEN /\ i > len /\ i <= C
        BY <1>1, <1>5, <3>2
      <4> QED
        BY <1>3, <3>2, <4>1
    <3>3. ASSUME \A i \in 1..C : a.low[i] = 0,
                 \A i \in 1..C : i > C - n => a.high[i] = 0,
                 NEW i \in 1..IP6_MAX_PREFIXLEN, i > len
          PROVE  Bits6(a)[i] = 0
      <4>1. CASE i <= C
        <5>1. i \in 1..C /\ i > C - n
          BY <1>1, <1>5, <3>3, <4>1
        <5> QED
          BY <1>3, <3>3, <4>1, <5>1
      <4>2. CASE ~(i <= C)
        <5>1. i - C \in 1..C
          BY <1>1, <4>2
        <5> QED
          BY <1>3, <3>3, <4>2, <5>1
      <4> QED
        BY <4>1, <4>2
    <3> QED
      BY <3>1, <3>2, <3>3
  <2> HIDE DEF n, clear
  <2>6. \A mask \in HostMasks(n) : (a.low = Zeros(C) /\ And(a.high, mask) = Zeros(C)) <=> clear
    BY <1>2, <2>1, <2>4, <2>5, HostBits
  <2> QED
    BY <2>2, <2>3, <2>6 DEF clear
<1> QED
  BY <1>1, <1>4, <1>5

\* The netmasks and the strict check are those of the whole address, for
\* every prefix length but 0, and the netmask's C.
THEOREM Masks == \A a \in ip6_addr_data : MasksAgree(a)
<1> SUFFICES ASSUME NEW a \in ip6_addr_data, NEW len \in 1..IP6_MAX_PREFIXLEN
             PROVE  /\ len # C => \A m \in ip6_calc_netmask(len) :
                                    \A i \in 1..IP6_MAX_PREFIXLEN : Bits6(m)[i] = 1 <=> i <= len
                    /\ ip6_addr_is_net(a, len) =
                         {r \in BOOLEAN :
                            r <=> \A i \in 1..IP6_MAX_PREFIXLEN : i > len => Bits6(a)[i] = 0}
  BY DEF MasksAgree
<1> QED
  BY Netmask, IsNet

-----------------------------------------------------------------------------
(***************************************************************************)
(* The blocks of a line.                                                   *)
(***************************************************************************)
LEMMA Blocks == NB4 \in Nat /\ NB4 > 0 /\ NB6 \in Nat /\ NB6 > 0 /\ BB4 \in Nat /\ BB6 \in Nat
BY BlockAssumption

-----------------------------------------------------------------------------
(***************************************************************************)
(* The words of a printed address.                                         *)
(***************************************************************************)
JsonObject ==
  pc = "json" =>
    \/ net \in Nets4 /\ json \in fprint_ip4_addr_json(net)
    \/ net \in Nets6 /\ json \in fprint_ip6_addr_json(net)

LEMMA JsonObjectInit == Init => JsonObject
BY DEF Init, ParseInit, JsonObject

LEMMA ParseNextPc == ParseNext => pc # "json" /\ pc' # "json"
BY DEF ParseNext, SplitFails, SplitPrefixlen, GuessType, Skip4, Start4, TooManyBlocks4, BadBlock4,
       Block4, EndBlocks4, Skip6, Start6, TooManyBlocks6, BadBlock6, SecondDoubleColon, Block6,
       EndBlocks6, Done4, Done6, Types

LEMMA JsonObjectStep == JsonObject /\ [Next]_vars => JsonObject'
<1> SUFFICES ASSUME JsonObject, [Next]_vars PROVE JsonObject'
  OBVIOUS
<1>1. ASSUME NEW l, NEW m, ReadLine(l, m) PROVE JsonObject'
  BY <1>1 DEF ReadLine, Parse, JsonObject
<1>2. ASSUME NEW l, NEW m, ReadNextLine(l, m) PROVE JsonObject'
  BY <1>2 DEF ReadNextLine, Parse, JsonObject
<1>3. ASSUME NEW n, NEW f, NEW redux, NEW m, PrintLine(n, f, redux, m) PROVE JsonObject'
  BY <1>3 DEF PrintLine, Parse, JsonObject
<1>4. ASSUME NEW n \in Nets4 \union Nets6, PrintJson(n) PROVE JsonObject'
  <2>1. net' = n /\ json' \in IF n.type = "v4" THEN fprint_ip4_addr_json(n) ELSE fprint_ip6_addr_json(n)
    BY <1>4 DEF PrintJson
  <2>2. (n \in Nets4 => n.type = "v4") /\ (n \in Nets6 => n.type = "v6") /\ "v4" # "v6"
    BY NetAssumption
  <2> QED
    BY <1>4, <2>1, <2>2 DEF JsonObject
<1>5. CASE ParseNext
  BY <1>5, ParseNextPc DEF JsonObject
<1>6. CASE UNCHANGED vars
  BY <1>6 DEF vars, parseVars, JsonObject
<1> QED
  BY <1>1, <1>2, <1>3, <1>4, <1>5, <1>6 DEF Next

LEMMA JsonNetBits ==
  ASSUME JsonObject, pc = "json", net.type = "v6" PROVE net.bits \in ip6_addr_data
<1>1. "v4" # "v6"
  OBVIOUS
<1> QED
  BY <1>1, NetAssumption DEF JsonObject

\* Reading, flipping and setting a bit of any address that is printed are
\* the operations of the trees, for words of any width.
THEOREM BitOpsOfPrinted == Spec => []BitOpsHold
<1>1. JsonObject => BitOpsHold
  BY JsonNetBits, BitOps DEF BitOpsHold
<1> QED
  BY <1>1, JsonObjectInit, JsonObjectStep, PTL DEF Spec

\* So are its netmasks and its strict check.
THEOREM MasksOfPrinted == Spec => []MasksHold
<1>1. JsonObject => MasksHold
  BY JsonNetBits, Masks DEF MasksHold
<1> QED
  BY <1>1, JsonObjectInit, JsonObjectStep, PTL DEF Spec

-----------------------------------------------------------------------------
(***************************************************************************)
(* The block buffers.                                                      *)
(***************************************************************************)
\* A buffer's values may be of any set: a line's numbers are not typed here.
Buf4(V) == [num : Nat, blocks : [0..NB4 - 1 -> V], prefixlen : V]
Buf6(V) == [left : Nat, right : Nat, num : Nat, on_right : BOOLEAN,
            blocks : [0..NB6 - 1 -> V], prefixlen : V]

Fits4(b) == b.num <= NB4 /\ \A i \in 0..NB4 - 1 : i >= b.num => b.blocks[i] = 0
Fits6(b) ==
  /\ b.num = b.left + b.right /\ b.num <= NB6
  /\ b.right > 0 => b.on_right
  /\ \A i \in 0..NB6 - 1 : i >= b.num => b.blocks[i] = 0

IsBuf4(b) == Fits4(b) /\ \E V : b \in Buf4(V)
IsBuf6(b) == Fits6(b) /\ \E V : b \in Buf6(V)

LEMMA EmptyBufs == IsBuf4(parse_ip4_data_init) /\ IsBuf6(parse_ip6_data_init)
<1>1. parse_ip4_data_init \in Buf4({0}) /\ Fits4(parse_ip4_data_init)
  BY Blocks DEF Buf4, Fits4, parse_ip4_data_init
<1>2. parse_ip6_data_init \in Buf6({0}) /\ Fits6(parse_ip6_data_init)
  BY Blocks DEF Buf6, Fits6, parse_ip6_data_init
<1> QED
  BY <1>1, <1>2 DEF IsBuf4, IsBuf6

\* parse_ip4_data_append() and parse_ip6_data_append() fill the next block.
LEMMA Append4Fits ==
  ASSUME NEW b, IsBuf4(b), b.num < NB4, NEW v PROVE IsBuf4(Append4(b, v))
<1>1. PICK V : b \in Buf4(V)
  BY DEF IsBuf4
<1> DEFINE f == [b.blocks EXCEPT ![b.num] = v]
           U == V \union {v}
<1>2. /\ b.num \in 0..NB4 - 1 /\ f \in [0..NB4 - 1 -> U] /\ b.prefixlen \in U
      /\ \A i \in 0..NB4 - 1 : i # b.num => f[i] = b.blocks[i]
  BY <1>1, Blocks DEF Buf4
<1> HIDE DEF f, U
<1>3. Append4(b, v) = [num |-> b.num + 1, blocks |-> f, prefixlen |-> b.prefixlen]
  BY DEF Append4, f
<1>4. Append4(b, v) \in Buf4(U)
  BY <1>2, <1>3 DEF Buf4
<1>5. Fits4(Append4(b, v))
  BY <1>2, <1>3, Blocks DEF IsBuf4, Fits4
<1> QED
  BY <1>4, <1>5 DEF IsBuf4

LEMMA Append6Fits ==
  ASSUME NEW b, IsBuf6(b), b.num < NB6, NEW v PROVE IsBuf6(Append6(b, v))
<1>1. PICK V : b \in Buf6(V)
  BY DEF IsBuf6
<1> DEFINE f == [b.blocks EXCEPT ![b.num] = v]
           U == V \union {v}
<1>2. /\ b.num \in 0..NB6 - 1 /\ f \in [0..NB6 - 1 -> U] /\ b.prefixlen \in U
      /\ b.left \in Nat /\ b.right \in Nat /\ b.on_right \in BOOLEAN
      /\ \A i \in 0..NB6 - 1 : i # b.num => f[i] = b.blocks[i]
  BY <1>1, Blocks DEF Buf6
<1> HIDE DEF f, U
<1> DEFINE l == IF b.on_right THEN b.left ELSE b.left + 1
           r == IF b.on_right THEN b.right + 1 ELSE b.right
<1>3. l \in Nat /\ r \in Nat /\ l + r = b.left + b.right + 1 /\ (r > 0 => b.on_right \/ b.right > 0)
  <2>1. CASE b.on_right
    BY <1>2, <2>1
  <2>2. CASE ~b.on_right
    BY <1>2, <2>2
  <2> QED
    BY <2>1, <2>2
<1> HIDE DEF l, r
<1>4. Append6(b, v) = [left |-> l, right |-> r, num |-> b.num + 1, on_right |-> b.on_right,
                       blocks |-> f, prefixlen |-> b.prefixlen]
  BY DEF Append6, f, l, r
<1>5. Append6(b, v) \in Buf6(U)
  BY <1>2, <1>3, <1>4 DEF Buf6
<1>6. Fits6(Append6(b, v))
  BY <1>2, <1>3, <1>4, Blocks DEF IsBuf6, Fits6
<1> QED
  BY <1>5, <1>6 DEF IsBuf6

LEMMA PrefixlenFits4 ==
  ASSUME NEW b, IsBuf4(b), NEW v PROVE IsBuf4([b EXCEPT !.prefixlen = v])
<1>1. PICK V : b \in Buf4(V)
  BY DEF IsBuf4
<1> DEFINE c == [b EXCEPT !.prefixlen = v]
<1>2. c \in Buf4(V \union {v}) /\ c.num = b.num /\ c.blocks = b.blocks
  BY <1>1 DEF Buf4
<1> QED
  BY <1>2 DEF IsBuf4, Fits4

LEMMA PrefixlenFits6 ==
  ASSUME NEW b, IsBuf6(b), NEW v PROVE IsBuf6([b EXCEPT !.prefixlen = v])
<1>1. PICK V : b \in Buf6(V)
  BY DEF IsBuf6
<1> DEFINE c == [b EXCEPT !.prefixlen = v]
<1>2. /\ c \in Buf6(V \union {v}) /\ c.num = b.num /\ c.blocks = b.blocks
      /\ c.left = b.left /\ c.right = b.right /\ c.on_right = b.on_right
  BY <1>1 DEF Buf6
<1> QED
  BY <1>2 DEF IsBuf6, Fits6

LEMMA SwitchFits ==
  ASSUME NEW b, IsBuf6(b), NEW v \in BOOLEAN
  PROVE  IsBuf6([b EXCEPT !.on_right = b.on_right \/ v])
<1>1. PICK V : b \in Buf6(V)
  BY DEF IsBuf6
<1> DEFINE c == [b EXCEPT !.on_right = b.on_right \/ v]
<1>2. /\ c \in Buf6(V) /\ c.num = b.num /\ c.blocks = b.blocks
      /\ c.left = b.left /\ c.right = b.right /\ (b.on_right => c.on_right)
  BY <1>1 DEF Buf6
<1> QED
  BY <1>2 DEF IsBuf6, Fits6

BufInv == IsBuf4(buf4) /\ IsBuf6(buf6)

LEMMA BufInvInit == Init => BufInv
BY EmptyBufs DEF Init, ParseInit, BufInv

LEMMA BufInvParse == BufInv /\ ParseNext => BufInv'
<1> SUFFICES ASSUME BufInv, ParseNext PROVE BufInv'
  OBVIOUS
<1>0. CASE SplitFails \/ SplitPrefixlen \/ GuessType \/ Skip4 \/ Skip6
  BY <1>0 DEF BufInv, SplitFails, SplitPrefixlen, GuessType, Skip4, Skip6
<1>1. CASE Start4
  BY <1>1, EmptyBufs DEF BufInv, Start4
<1>2. CASE TooManyBlocks4 \/ BadBlock4
  BY <1>2 DEF BufInv, TooManyBlocks4, BadBlock4
<1>3. CASE Block4
  <2>1. PICK v : buf4' = Append4(buf4, v)
    BY <1>3 DEF Block4
  <2>2. buf4.num < NB4 /\ buf6' = buf6
    BY <1>3 DEF Block4
  <2> QED
    BY <2>1, <2>2, Append4Fits DEF BufInv
<1>4. CASE EndBlocks4
  <2>1. buf6' = buf6
    BY <1>4 DEF EndBlocks4
  <2>2. CASE buf4' = buf4
    BY <2>1, <2>2 DEF BufInv
  <2>3. CASE buf4' # buf4
    <3>1. PICK v : buf4' = [buf4 EXCEPT !.prefixlen = v]
      BY <1>4, <2>3 DEF EndBlocks4
    <3> QED
      BY <2>1, <3>1, PrefixlenFits4 DEF BufInv
  <2> QED
    BY <2>2, <2>3
<1>5. CASE Start6
  BY <1>5, EmptyBufs DEF BufInv, Start6
<1>6. CASE TooManyBlocks6 \/ BadBlock6
  BY <1>6 DEF BufInv, TooManyBlocks6, BadBlock6
<1>7. CASE SecondDoubleColon
  <2>1. PICK v : buf6' = Append6(buf6, v)
    BY <1>7 DEF SecondDoubleColon, Block6Read
  <2>2. buf6.num < NB6 /\ buf4' = buf4
    BY <1>7 DEF SecondDoubleColon
  <2> QED
    BY <2>1, <2>2, Append6Fits DEF BufInv
<1>8. CASE Block6
  <2>1. PICK v : Block6Read = Append6(buf6, v)
    BY DEF Block6Read
  <2>2. buf6.num < NB6 /\ buf4' = buf4 /\ DoubleColon \in BOOLEAN
    BY <1>8 DEF Block6, DoubleColon
  <2>3. IsBuf6(Block6Read)
    BY <2>1, <2>2, Append6Fits DEF BufInv
  <2>4. buf6' = [Block6Read EXCEPT !.on_right = Block6Read.on_right \/ DoubleColon]
    BY <1>8 DEF Block6
  <2>5. PICK c, d : c = Block6Read /\ d = DoubleColon
    OBVIOUS
  <2>6. IsBuf6([c EXCEPT !.on_right = c.on_right \/ d])
    BY <2>2, <2>3, <2>5, SwitchFits
  <2> QED
    BY <2>2, <2>4, <2>5, <2>6 DEF BufInv
<1>9. CASE EndBlocks6
  <2>1. buf4' = buf4
    BY <1>9 DEF EndBlocks6
  <2>2. CASE buf6' = buf6
    BY <2>1, <2>2 DEF BufInv
  <2>3. CASE buf6' # buf6
    <3>1. PICK v : buf6' = [buf6 EXCEPT !.prefixlen = v]
      BY <1>9, <2>3 DEF EndBlocks6
    <3> QED
      BY <2>1, <3>1, PrefixlenFits6 DEF BufInv
  <2> QED
    BY <2>2, <2>3
<1> QED
  BY <1>0, <1>1, <1>2, <1>3, <1>4, <1>5, <1>6, <1>7, <1>8, <1>9 DEF ParseNext

LEMMA BufInvStep == BufInv /\ [Next]_vars => BufInv'
<1> SUFFICES ASSUME BufInv, [Next]_vars PROVE BufInv'
  OBVIOUS
<1>1. CASE ParseNext
  BY <1>1, BufInvParse
<1>2. CASE ~ParseNext
  <2>1. UNCHANGED <<buf4, buf6>>
    BY <1>2 DEF Next, ReadLine, ReadNextLine, PrintLine, PrintJson, Parse, vars, parseVars
  <2> QED
    BY <2>1 DEF BufInv
<1> QED
  BY <1>1, <1>2

\* No line writes past the end of the parsers' block buffers, and none is
\* read with a block of the line before.
THEOREM BuffersHold == Spec => []BuffersInBounds
<1>1. BufInv => BuffersInBounds
  <2> SUFFICES ASSUME BufInv PROVE BuffersInBounds
    OBVIOUS
  <2>1. PICK V : buf4 \in Buf4(V)
    BY DEF BufInv, IsBuf4
  <2>2. PICK U : buf6 \in Buf6(U)
    BY DEF BufInv, IsBuf6
  <2>3. buf4.num \in 0..NB4 /\ {buf6.left, buf6.right} \subseteq Nat
    BY <2>1, <2>2, Blocks DEF BufInv, IsBuf4, Fits4, Buf4, Buf6
  <2> QED
    BY <2>3 DEF BufInv, IsBuf4, IsBuf6, Fits4, Fits6, BuffersInBounds
<1> QED
  BY <1>1, BufInvInit, BufInvStep, PTL DEF Spec

-----------------------------------------------------------------------------
(***************************************************************************)
(* The guessed prefix length.                                              *)
(***************************************************************************)
Kept4 == \A s \in 0..NB4 - 1 : addr["v4"].slot[s] # 0 => (NB4 - s) * BB4 <= addr["v4"].len
Kept6 == \A s \in 0..NB6 - 1 : addr["v6"].slot[s] # 0 => (NB6 - s) * BB6 <= addr["v6"].len

\* A line without a slash has no prefix length while it is parsed, and a
\* parser that accepted it kept its blocks.
GuessInv ==
  /\ DOMAIN ret = Types /\ DOMAIN addr = Types
  /\ pc = "split" => line = text
  /\ pc \in {"guess", "v4", "blocks4", "v6", "blocks6"} /\ ~HasSlash(text) => prefixstr = 0
  /\ pc \in {"idle", "split", "guess", "v4", "blocks4"} => ret["v4"] # OK
  /\ pc \in {"idle", "split", "guess", "v4", "blocks4", "v6", "blocks6"} => ret["v6"] # OK
  /\ ~HasSlash(text) /\ ret["v4"] = OK => Kept4
  /\ ~HasSlash(text) /\ ret["v6"] = OK => Kept6

LEMMA Scaled == ASSUME NEW a \in Nat, NEW b \in Nat, a <= b, NEW c \in Nat PROVE a * c <= b * c
<1>1. PICK d \in Nat : b = a + d
  BY b - a \in Nat
<1>2. b * c = a * c + d * c /\ d * c >= 0
  BY <1>1
<1> QED
  BY <1>2

\* The blocks that were written, counted from the top, are within the length.
LEMMA Made4 ==
  ASSUME NEW b, IsBuf4(b), NEW s \in 0..NB4 - 1, MakeAddr4(b, b.num * BB4).slot[s] # 0
  PROVE  (NB4 - s) * BB4 <= b.num * BB4
<1>1. PICK V : b \in Buf4(V)
  BY DEF IsBuf4
<1>2. b.num \in Nat /\ NB4 - s \in Nat
  BY <1>1, Blocks DEF Buf4
<1>3. NB4 - s - 1 < b.num
  BY DEF MakeAddr4
<1>4. NB4 - s <= b.num
  BY <1>2, <1>3, Blocks
<1> QED
  BY <1>2, <1>4, Blocks, Scaled

LEMMA Made6 ==
  ASSUME NEW b, IsBuf6(b), NEW s \in 0..NB6 - 1,
         NEW len, len = IF b.right > 0 THEN IP6_MAX ELSE b.num * BB6,
         MakeAddr6(b, len).slot[s] # 0
  PROVE  (NB6 - s) * BB6 <= len
<1>1. PICK V : b \in Buf6(V)
  BY DEF IsBuf6
<1>2. /\ b.num \in Nat /\ b.right \in Nat /\ b.left \in Nat /\ b.num = b.left + b.right
      /\ NB6 - s \in Nat
  BY <1>1, Blocks DEF Buf6, IsBuf6, Fits6
<1>3. CASE b.right > 0
  <2>1. NB6 - s <= NB6
    BY Blocks
  <2> QED
    BY <1>2, <1>3, <2>1, Blocks, Scaled DEF IP6_MAX
<1>4. CASE ~(b.right > 0)
  <2>1. NB6 - 1 - s < b.left
    BY <1>2, <1>4 DEF MakeAddr6
  <2>2. NB6 - s <= b.num
    BY <1>2, <2>1, Blocks
  <2> QED
    BY <1>2, <1>4, <2>2, Blocks, Scaled
<1> QED
  BY <1>3, <1>4

LEMMA GuessInvInit == Init => GuessInv
BY DEF Init, ParseInit, GuessInv, NOT_TRIED, OK, Types

LEMMA GuessParse == ASSUME NEW l, NEW m, Parse(l, m) PROVE GuessInv' \/ DOMAIN addr # Types
<1>1. /\ pc' = "split" /\ line' = l /\ text' = l /\ addr' = addr
      /\ ret' = [t \in Types |-> NOT_TRIED]
  BY DEF Parse
<1>2. DOMAIN ret' = Types /\ ret'["v4"] # OK /\ ret'["v6"] # OK
  BY <1>1 DEF Types, NOT_TRIED, OK
<1> QED
  BY <1>1, <1>2 DEF GuessInv

LEMMA GuessInvParse == GuessInv /\ BufInv /\ ParseNext => GuessInv'
<1> SUFFICES ASSUME GuessInv, BufInv, ParseNext PROVE GuessInv'
  OBVIOUS
<1> USE DEF OK, INVALID_LINE, NOT_TRIED, NO_HEX
<1>t. "v4" \in Types /\ "v6" \in Types
  BY DEF Types
<1>1. CASE SplitFails
  <2>1. ret'["v4"] # OK /\ ret'["v6"] # OK /\ DOMAIN ret' = Types
    BY <1>1, <1>t DEF SplitFails
  <2>2. pc' = "done" /\ addr' = addr /\ text' = text
    BY <1>1 DEF SplitFails
  <2> QED
    BY <2>1, <2>2 DEF GuessInv
<1>2. CASE SplitPrefixlen
  <2>1. ~HasSlash(text) => prefixstr' = 0
    BY <1>2 DEF SplitPrefixlen, Slashes, HasSlash, GuessInv
  <2>2. /\ pc = "split" /\ pc' \in {"guess", "v4"} /\ UNCHANGED <<text, ret, addr>>
    BY <1>2 DEF SplitPrefixlen
  <2> QED
    BY <2>1, <2>2 DEF GuessInv, HasSlash, Kept4, Kept6
<1>3. CASE GuessType
  <2>1. /\ pc = "guess" /\ UNCHANGED <<text, prefixstr, addr>>
        /\ \/ pc' = "v4" /\ ret' = ret
           \/ pc' = "done" /\ ret' = [t \in Types |-> INVALID_LINE]
    BY <1>3 DEF GuessType
  <2>2. CASE pc' = "v4" /\ ret' = ret
    BY <2>1, <2>2 DEF GuessInv, HasSlash
  <2>3. CASE pc' = "done" /\ ret' = [t \in Types |-> INVALID_LINE]
    <3>1. ret'["v4"] # OK /\ ret'["v6"] # OK /\ DOMAIN ret' = Types
      BY <2>3, <1>t
    <3> QED
      BY <2>1, <2>3, <3>1 DEF GuessInv
  <2> QED
    BY <2>1, <2>2, <2>3
<1>4. CASE Skip4 \/ Skip6
  BY <1>4 DEF Skip4, Skip6, GuessInv, HasSlash, Kept4, Kept6
<1>5. CASE Start4 \/ TooManyBlocks4 \/ BadBlock4 \/ Block4
  <2>1. /\ pc \in {"v4", "blocks4"} /\ UNCHANGED <<text, prefixstr>>
        /\ \/ pc' \in {"v4", "blocks4"} /\ ret' = ret
           \/ pc' = "v6" /\ \E r \in {INVALID_LINE, NO_HEX} : ret' = [ret EXCEPT !["v4"] = r]
        /\ \/ addr' = addr
           \/ addr' = [addr EXCEPT !["v4"] = addr4_null]
    BY <1>5 DEF Start4, TooManyBlocks4, BadBlock4, Block4, Done4
  <2>2. /\ DOMAIN ret' = Types /\ ret'["v4"] # OK /\ ret'["v6"] = ret["v6"]
        /\ DOMAIN addr' = Types /\ addr'["v6"] = addr["v6"]
    BY <2>1, <1>t DEF GuessInv
  <2> QED
    BY <2>1, <2>2 DEF GuessInv, HasSlash
<1>6. CASE EndBlocks4
  <2>1. pc = "blocks4" /\ pc' = "v6" /\ UNCHANGED <<text, prefixstr>>
    BY <1>6 DEF EndBlocks4, Done4
  <2>2. CASE buf4.num = 0 \/ Prefixlen4 = BAD
    <3>1. ret' = [ret EXCEPT !["v4"] = INVALID_LINE] /\ addr' = addr
      BY <1>6, <2>2 DEF EndBlocks4, Done4
    <3>2. DOMAIN ret' = Types /\ ret'["v4"] # OK /\ ret'["v6"] = ret["v6"]
      BY <3>1, <1>t DEF GuessInv
    <3> QED
      BY <2>1, <3>1, <3>2 DEF GuessInv, HasSlash
  <2>3. CASE ~(buf4.num = 0 \/ Prefixlen4 = BAD)
    <3>1. /\ ret' = [ret EXCEPT !["v4"] = OK]
          /\ addr' = [addr EXCEPT !["v4"] = MakeAddr4(buf4, Prefixlen4)]
      BY <1>6, <2>3 DEF EndBlocks4, Done4
    <3>2. /\ DOMAIN ret' = Types /\ ret'["v6"] = ret["v6"]
          /\ DOMAIN addr' = Types /\ addr'["v6"] = addr["v6"]
          /\ addr'["v4"] = MakeAddr4(buf4, Prefixlen4)
      BY <3>1, <1>t DEF GuessInv
    <3>3. ~HasSlash(text) => Kept4'
      <4> SUFFICES ASSUME ~HasSlash(text), NEW s \in 0..NB4 - 1, addr'["v4"].slot[s] # 0
                   PROVE  (NB4 - s) * BB4 <= addr'["v4"].len
        BY DEF Kept4
      <4>1. prefixstr = 0
        BY <2>1 DEF GuessInv
      <4>2. Prefixlen4 = buf4.num * BB4
        BY <4>1 DEF Prefixlen4
      <4>3. addr'["v4"].len = buf4.num * BB4
        BY <3>2, <4>2 DEF MakeAddr4
      <4>4. MakeAddr4(buf4, buf4.num * BB4).slot[s] # 0
        BY <3>2, <4>2
      <4> QED
        BY <4>3, <4>4, Made4 DEF BufInv
    <3> QED
      BY <2>1, <3>2, <3>3 DEF GuessInv, HasSlash
  <2> QED
    BY <2>2, <2>3
<1>7. CASE Start6 \/ TooManyBlocks6 \/ BadBlock6 \/ SecondDoubleColon \/ Block6
  <2>1. /\ pc \in {"v6", "blocks6"} /\ UNCHANGED <<text, prefixstr>>
        /\ \/ pc' \in {"v6", "blocks6"} /\ ret' = ret
           \/ pc' = "done" /\ \E r \in {INVALID_LINE, NO_HEX} : ret' = [ret EXCEPT !["v6"] = r]
        /\ \/ addr' = addr
           \/ addr' = [addr EXCEPT !["v6"] = addr6_null]
    BY <1>7 DEF Start6, TooManyBlocks6, BadBlock6, SecondDoubleColon, Block6, Done6
  <2>2. /\ DOMAIN ret' = Types /\ ret'["v6"] # OK /\ ret'["v4"] = ret["v4"]
        /\ DOMAIN addr' = Types /\ addr'["v4"] = addr["v4"]
    BY <2>1, <1>t DEF GuessInv
  <2> QED
    BY <2>1, <2>2 DEF GuessInv, HasSlash, Kept4
<1>8. CASE EndBlocks6
  <2>1. pc = "blocks6" /\ pc' = "done" /\ UNCHANGED <<text, prefixstr>>
    BY <1>8 DEF EndBlocks6, Done6
  <2> DEFINE bad == buf6.num = 0 \/ (buf6.on_right /\ buf6.num >= NB6) \/ Prefixlen6 = BAD
  <2>2. CASE bad
    <3>1. ret' = [ret EXCEPT !["v6"] = INVALID_LINE] /\ addr' = addr
      BY <1>8, <2>2 DEF EndBlocks6, Done6
    <3>2. DOMAIN ret' = Types /\ ret'["v6"] # OK /\ ret'["v4"] = ret["v4"]
      BY <3>1, <1>t DEF GuessInv
    <3> QED
      BY <2>1, <3>1, <3>2 DEF GuessInv, HasSlash, Kept4
  <2>3. CASE ~bad
    <3>1. /\ ret' = [ret EXCEPT !["v6"] = OK]
          /\ addr' = [addr EXCEPT !["v6"] = MakeAddr6(buf6, Prefixlen6)]
      BY <1>8, <2>3 DEF EndBlocks6, Done6
    <3>2. /\ DOMAIN ret' = Types /\ ret'["v4"] = ret["v4"]
          /\ DOMAIN addr' = Types /\ addr'["v4"] = addr["v4"]
          /\ addr'["v6"] = MakeAddr6(buf6, Prefixlen6)
      BY <3>1, <1>t DEF GuessInv
    <3>3. ~HasSlash(text) => Kept6'
      <4> SUFFICES ASSUME ~HasSlash(text), NEW s \in 0..NB6 - 1, addr'["v6"].slot[s] # 0
                   PROVE  (NB6 - s) * BB6 <= addr'["v6"].len
        BY DEF Kept6
      <4>1. prefixstr = 0
        BY <2>1 DEF GuessInv
      <4>2. Prefixlen6 = IF buf6.right > 0 THEN IP6_MAX ELSE buf6.num * BB6
        BY <4>1 DEF Prefixlen6
      <4>3. addr'["v6"].len = Prefixlen6
        BY <3>2 DEF MakeAddr6
      <4>4. MakeAddr6(buf6, Prefixlen6).slot[s] # 0
        BY <3>2
      <4>5. PICK len : len = Prefixlen6
        OBVIOUS
      <4>6. (NB6 - s) * BB6 <= len
        BY <4>2, <4>4, <4>5, Made6 DEF BufInv
      <4> QED
        BY <4>3, <4>5, <4>6
    <3> QED
      BY <2>1, <3>2, <3>3 DEF GuessInv, HasSlash, Kept4
  <2> QED
    BY <2>2, <2>3
<1> QED
  BY <1>1, <1>2, <1>3, <1>4, <1>5, <1>6, <1>7, <1>8 DEF ParseNext

LEMMA GuessInvStep == GuessInv /\ BufInv /\ [Next]_vars => GuessInv'
<1> SUFFICES ASSUME GuessInv, BufInv, [Next]_vars PROVE GuessInv'
  OBVIOUS
<1>d. DOMAIN addr = Types
  BY DEF GuessInv
<1>1. ASSUME NEW l, NEW m, ReadLine(l, m) PROVE GuessInv'
  BY <1>1, <1>d, GuessParse DEF ReadLine
<1>2. ASSUME NEW l, NEW m, ReadNextLine(l, m) PROVE GuessInv'
  BY <1>2, <1>d, GuessParse DEF ReadNextLine
<1>3. ASSUME NEW n, NEW f, NEW redux, NEW m, PrintLine(n, f, redux, m) PROVE GuessInv'
  <2>1. PICK l : Parse(l, m)
    BY <1>3 DEF PrintLine
  <2> QED
    BY <2>1, <1>d, GuessParse
<1>4. ASSUME NEW n, PrintJson(n) PROVE GuessInv'
  BY <1>4 DEF PrintJson, GuessInv, Kept4, Kept6
<1>5. CASE ParseNext
  BY <1>5, GuessInvParse
<1>6. CASE UNCHANGED vars
  BY <1>6 DEF vars, parseVars, GuessInv, Kept4, Kept6
<1> QED
  BY <1>1, <1>2, <1>3, <1>4, <1>5, <1>6 DEF Next

\* A line without a prefix length is never given one that cuts off a block
\* it has, for any number and size of blocks.
THEOREM GuessesKeepBlocks == Spec => []GuessKeepsBlocks
<1>1. GuessInv => GuessKeepsBlocks
  BY DEF GuessInv, GuessKeepsBlocks, Kept4, Kept6
<1> QED
  BY <1>1, BufInvInit, BufInvStep, GuessInvInit, GuessInvStep, PTL DEF Spec

-----------------------------------------------------------------------------
(***************************************************************************)
(* The JSON object.                                                        *)
(***************************************************************************)
\* Inc() of a word whose last bit is 0 sets it; Dec() of one whose last bit
\* is 1 clears it; no other bit changes.
LEMMA IncEven ==
  ASSUME NEW n \in Nat, n > 0, NEW w \in Word(n), w[n] = 0
  PROVE  Inc(w) \in Word(n) /\ \A i \in 1..n : Inc(w)[i] = IF i = n THEN 1 ELSE w[i]
<1>1. DOMAIN w = 1..n /\ n \in 1..n
  BY DEF Word
<1>2. ASSUME NEW i \in 1..n
      PROVE  Inc(w)[i] = IF i = n THEN 1 ELSE w[i]
  <2>1. Inc(w)[i] = IF \A j \in 1..n : j > i => w[j] = 1 THEN 1 - w[i] ELSE w[i]
    BY <1>1 DEF Inc
  <2>2. CASE i = n
    BY <2>1, <2>2
  <2>3. CASE i # n
    <3>1. ~\A j \in 1..n : j > i => w[j] = 1
      BY <1>1, <2>3
    <3> QED
      BY <2>1, <2>3, <3>1
  <2> QED
    BY <2>2, <2>3
<1>3. Inc(w) \in Word(n)
  <2>1. Inc(w) = [i \in 1..n |-> IF \A j \in 1..n : j > i => w[j] = 1 THEN 1 - w[i] ELSE w[i]]
    BY <1>1 DEF Inc
  <2>2. \A i \in 1..n : w[i] \in {0, 1} /\ 1 - w[i] \in {0, 1}
    BY DEF Word
  <2> QED
    BY <2>1, <2>2 DEF Word
<1> QED
  BY <1>2, <1>3

LEMMA DecOdd ==
  ASSUME NEW n \in Nat, n > 0, NEW w \in Word(n), w[n] = 1
  PROVE  \A i \in 1..n : Dec(w)[i] = IF i = n THEN 0 ELSE w[i]
<1> DEFINE v == Not(w)
<1>1. v \in Word(n) /\ \A i \in 1..n : v[i] = 1 - w[i]
  BY DEF Not, Word
<1>2. n \in 1..n
  OBVIOUS
<1>3. v[n] = 0
  BY <1>1, <1>2
<1> HIDE DEF v
<1>4. Inc(v) \in Word(n) /\ \A i \in 1..n : Inc(v)[i] = IF i = n THEN 1 ELSE v[i]
  BY <1>1, <1>3, IncEven
<1>5. Dec(w) = Not(Inc(v))
  BY DEF Dec, v
<1>6. \A i \in 1..n : Dec(w)[i] = 1 - Inc(v)[i]
  BY <1>4, <1>5 DEF Not, Word
<1>7. \A i \in 1..n : w[i] \in {0, 1}
  BY DEF Word
<1> QED
  BY <1>1, <1>4, <1>6, <1>7

\* The object of an IPv4 network.
LEMMA Ip4Json ==
  ASSUME NEW n \in Nets4, n.len > 0, NEW a \in fprint_ip4_addr_json(n), NEW i \in 1..W4
  PROVE  /\ a.netmask[i] = IF i <= n.len THEN 1 ELSE 0
         /\ a.first[i] = IF n.len + 1 < W4 /\ i = W4 THEN 1 ELSE n.bits[i]
         /\ a.last[i] = IF i <= n.len THEN n.bits[i]
                        ELSE IF n.len + 1 < W4 /\ i = W4 THEN 0 ELSE 1
<1> DEFINE b == n.bits
           len == n.len
<1>1. /\ len \in 0..W4 /\ b \in Word(W4) /\ \A k \in 1..W4 : k > len => b[k] = 0
      /\ \A k \in 1..W4 : b[k] \in {0, 1}
  BY NetAssumption DEF Word
<1>2. W4 \in Nat /\ W4 > 0 /\ len \in Nat /\ len > 0 /\ W4 - len < W4 /\ W4 \in 1..W4
  <2>1. W4 \in Int
    BY Blocks DEF W4
  <2> HIDE DEF len
  <2>2. len > 0
    BY DEF len
  <2> QED
    BY <1>1, <2>1, <2>2
<1>3. PICK m \in ip4_calc_netmask(W4, len) :
        a = [netmask |-> m,
             first |-> IF len + 1 >= W4 THEN b ELSE Inc(b),
             last |-> IF len >= W4 THEN b
                      ELSE IF len + 1 = W4 THEN Inc(b)
                      ELSE Dec(Or(b, Not(m)))]
  BY DEF fprint_ip4_addr_json
<1> HIDE DEF b, len
<1>4. m = Shl(Ones(W4), W4 - len)
  BY <1>2, <1>3 DEF ip4_calc_netmask, ShlOutcomes
<1>5. DOMAIN m = 1..W4 /\ \A k \in 1..W4 : m[k] = IF k <= len THEN 1 ELSE 0
  <2>1. DOMAIN Ones(W4) = 1..W4 /\ \A k \in 1..W4 : Ones(W4)[k] = 1
    BY DEF Ones
  <2>2. m = [k \in 1..W4 |-> IF k + (W4 - len) \in 1..W4 THEN Ones(W4)[k + (W4 - len)] ELSE 0]
    BY <1>4, <2>1 DEF Shl
  <2>3. ASSUME NEW k \in 1..W4
        PROVE  k + (W4 - len) \in 1..W4 <=> k <= len
    BY <1>1, <1>2
  <2> QED
    BY <2>1, <2>2, <2>3
<1>6. a.netmask = m /\ a.first = (IF len + 1 >= W4 THEN b ELSE Inc(b))
      /\ a.last = IF len >= W4 THEN b ELSE IF len + 1 = W4 THEN Inc(b) ELSE Dec(Or(b, Not(m)))
  BY <1>3
<1>7. ASSUME len < W4
      PROVE  \A k \in 1..W4 : Inc(b)[k] = IF k = W4 THEN 1 ELSE b[k]
  BY <1>1, <1>2, <1>7, IncEven
<1>8. ASSUME len < W4
      PROVE  \A k \in 1..W4 : Dec(Or(b, Not(m)))[k] =
                                IF k = W4 THEN 0 ELSE IF k <= len THEN b[k] ELSE 1
  <2> DEFINE o == Or(b, Not(m))
  <2>1. DOMAIN b = 1..W4
    BY <1>1 DEF Word
  <2>2. o = [k \in 1..W4 |-> IF b[k] = 1 \/ Not(m)[k] = 1 THEN 1 ELSE 0]
    BY <2>1 DEF Or
  <2>3. \A k \in 1..W4 : Not(m)[k] = IF k <= len THEN 0 ELSE 1
    BY <1>5 DEF Not
  <2>4. \A k \in 1..W4 : o[k] = IF k <= len THEN b[k] ELSE 1
    BY <1>1, <2>2, <2>3
  <2>5. o \in Word(W4)
    BY <2>2 DEF Word
  <2>6. o[W4] = 1
    BY <1>2, <1>8, <2>4
  <2> HIDE DEF o
  <2> QED
    BY <1>2, <2>4, <2>5, <2>6, DecOdd DEF o
<1>9. a.netmask[i] = IF i <= len THEN 1 ELSE 0
  BY <1>5, <1>6
<1>10. a.first[i] = IF len + 1 < W4 /\ i = W4 THEN 1 ELSE b[i]
  BY <1>1, <1>2, <1>6, <1>7
<1>11. a.last[i] = IF i <= len THEN b[i] ELSE IF len + 1 < W4 /\ i = W4 THEN 0 ELSE 1
  <2>1. CASE len >= W4
    BY <1>1, <1>2, <1>6, <2>1
  <2>2. CASE len + 1 = W4
    BY <1>1, <1>2, <1>6, <1>7, <2>2
  <2>3. CASE len + 1 < W4
    BY <1>1, <1>2, <1>6, <1>8, <2>3
  <2> QED
    BY <1>1, <1>2, <2>1, <2>2, <2>3
<1> QED
  BY <1>9, <1>10, <1>11 DEF b, len

LEMMA NetmaskWords ==
  ASSUME NEW len \in 1..IP6_MAX_PREFIXLEN, NEW m \in ip6_calc_netmask(len)
  PROVE  m.high \in Word(C) /\ m.low \in Word(C)
<1>1. Ones(C) \in Word(C) /\ Zeros(C) \in Word(C)
  BY DEF Ones, Zeros, Word
<1>2. ASSUME NEW k, NEW w \in ShlOutcomes(C, Ones(C), k)
      PROVE  w \in Word(C)
  <2>1. Shl(Ones(C), k) \in Word(C)
    BY DEF Shl, Ones, Word
  <2> QED
    BY <1>1, <1>2, <2>1 DEF ShlOutcomes
<1>3. CASE len >= C
  BY <1>1, <1>2, <1>3 DEF ip6_calc_netmask
<1>4. CASE ~(len >= C)
  BY <1>1, <1>2, <1>4 DEF ip6_calc_netmask
<1> QED
  BY <1>3, <1>4

\* The object of an IPv6 network, of any length that does not shift by a word.
LEMMA Ip6Json ==
  ASSUME NEW n \in Nets6, n.len > 0, n.len # C, NEW a \in fprint_ip6_addr_json(n),
         NEW i \in 1..2 * C
  PROVE  /\ Bits6(a.netmask)[i] = IF i <= n.len THEN 1 ELSE 0
         /\ Bits6(a.first)[i] = Bits6(n.bits)[i]
         /\ Bits6(a.last)[i] = IF i <= n.len THEN Bits6(n.bits)[i] ELSE 1
<1> DEFINE b == n.bits
           len == n.len
<1>1. len \in 1..2 * C /\ len # C /\ b.high \in Word(C) /\ b.low \in Word(C)
  BY NetAssumption DEF ip6_addr_data
<1>2. C \in Nat /\ C > 0 /\ IP6_MAX_PREFIXLEN = 2 * C /\ len \in Nat
  BY <1>1, CFact DEF IP6_MAX_PREFIXLEN
<1>3. PICK m \in ip6_calc_netmask(len) :
        a = [netmask |-> m,
             first |-> b,
             last |-> IF len >= IP6_MAX_PREFIXLEN THEN b
                      ELSE IF len >= C
                      THEN [high |-> b.high, low |-> Or(b.low, Not(m.low))]
                      ELSE [high |-> Or(b.high, Not(m.high)), low |-> Ones(C)]]
  BY DEF fprint_ip6_addr_json
<1> HIDE DEF b, len
<1>4. \A k \in 1..2 * C : Bits6(m)[k] = 1 <=> k <= len
  BY <1>1, <1>2, Netmask
<1>5. m.high \in Word(C) /\ m.low \in Word(C)
  BY <1>1, <1>2, NetmaskWords
<1>6. \A x : \A k \in 1..2 * C : Bits6(x)[k] = IF k <= C THEN x.high[k] ELSE x.low[k - C]
  BY <1>2 DEF Bits6
<1>7. ASSUME NEW v \in Word(C), NEW w \in Word(C), NEW k \in 1..C
      PROVE  Or(v, Not(w))[k] = IF w[k] = 1 THEN v[k] ELSE 1
  BY DEF Or, Not, Word
<1>8. \A k \in 1..C : m.high[k] \in {0, 1} /\ m.low[k] \in {0, 1}
  BY <1>5 DEF Word
<1> DEFINE exact == /\ Bits6(a.netmask)[i] = IF i <= len THEN 1 ELSE 0
                    /\ Bits6(a.first)[i] = Bits6(b)[i]
                    /\ Bits6(a.last)[i] = IF i <= len THEN Bits6(b)[i] ELSE 1
<1>0. a.first = b
  BY <1>3
<1>9. ASSUME i <= C PROVE exact
  <2>1. i \in 1..C
    BY <1>9
  <2>2. m.high[i] = 1 <=> i <= len
    BY <1>4, <1>6, <1>9
  <2>3. Bits6(a.netmask)[i] = IF i <= len THEN 1 ELSE 0
    BY <1>3, <1>6, <1>8, <1>9, <2>1, <2>2
  <2>4. Bits6(a.last)[i] = IF i <= len THEN Bits6(b)[i] ELSE 1
    <3>1. CASE len >= C
      <4>1. a.last.high = b.high
        BY <1>3, <3>1
      <4> QED
        BY <1>2, <1>6, <1>9, <3>1, <4>1
    <3>2. CASE len < C
      <4>1. a.last.high = Or(b.high, Not(m.high))
        BY <1>2, <1>3, <3>2
      <4> QED
        BY <1>1, <1>5, <1>6, <1>7, <1>9, <2>1, <2>2, <4>1
    <3> QED
      BY <1>2, <3>1, <3>2
  <2> QED
    BY <1>0, <2>3, <2>4
<1>10. ASSUME i > C PROVE exact
  <2>1. i - C \in 1..C /\ ~(i <= C)
    BY <1>2, <1>10
  <2>2. m.low[i - C] = 1 <=> i <= len
    BY <1>4, <1>6, <2>1
  <2>3. Bits6(a.netmask)[i] = IF i <= len THEN 1 ELSE 0
    BY <1>3, <1>6, <1>8, <2>1, <2>2
  <2>4. Bits6(a.last)[i] = IF i <= len THEN Bits6(b)[i] ELSE 1
    <3>1. CASE len >= IP6_MAX_PREFIXLEN
      <4>1. a.last = b /\ i <= len
        BY <1>2, <1>3, <3>1
      <4> QED
        BY <4>1
    <3>2. CASE len < IP6_MAX_PREFIXLEN /\ len >= C
      <4>1. a.last.low = Or(b.low, Not(m.low))
        BY <1>2, <1>3, <3>2
      <4> QED
        BY <1>1, <1>5, <1>6, <1>7, <2>1, <2>2, <4>1
    <3>3. CASE len < C
      <4>1. a.last.low = Ones(C) /\ ~(i <= len)
        BY <1>2, <1>3, <1>10, <3>3
      <4> QED
        BY <1>6, <2>1, <4>1 DEF Ones
    <3> QED
      BY <1>2, <3>1, <3>2, <3>3
  <2> QED
    BY <1>0, <2>3, <2>4
<1>11. i <= C \/ i > C
  BY <1>2
<1>12. exact
  BY <1>9, <1>10, <1>11
<1> QED
  BY <1>12 DEF b, len

\* The addresses of every JSON object are the netmask, the first and the last
\* address of its network, at every size and for every network whose length
\* does not shift by a word.
THEOREM JsonIsExact == Spec => []JsonExact
<1>1. ASSUME JsonObject, pc = "json", net.len > 0, ~(net.type = "v6" /\ net.len = C)
      PROVE  JsonExact
  <2>0. "v4" # "v6"
    OBVIOUS
  <2>1. CASE net \in Nets4 /\ json \in fprint_ip4_addr_json(net)
    <3>1. net.type = "v4" /\ MaxLen(net.type) = W4 /\ BitsOf(net) = net.bits
      BY <2>0, <2>1, NetAssumption DEF MaxLen, BitsOf
    <3>2. \A x : JsonBits(x) = x
      BY <3>1 DEF JsonBits
    <3> QED
      BY <1>1, <2>1, <3>1, <3>2, Ip4Json DEF JsonExact
  <2>2. CASE net \in Nets6 /\ json \in fprint_ip6_addr_json(net)
    <3>1. net.type = "v6" /\ MaxLen(net.type) = 2 * C /\ BitsOf(net) = Bits6(net.bits)
      BY <2>0, <2>2, NetAssumption DEF MaxLen, BitsOf
    <3>2. \A x : JsonBits(x) = Bits6(x)
      BY <2>0, <3>1 DEF JsonBits
    <3> QED
      BY <1>1, <2>0, <2>2, <3>1, <3>2, Ip6Json DEF JsonExact
  <2> QED
    BY <1>1, <2>1, <2>2 DEF JsonObject
<1>2. JsonObject => JsonExact
  BY <1>1 DEF JsonExact
<1> QED
  BY <1>2, JsonObjectInit, JsonObjectStep, PTL DEF Spec

=============================================================================
