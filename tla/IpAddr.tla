------------------------------- MODULE IpAddr -------------------------------
(***************************************************************************)
(* Networks of W-bit addresses (src/ip/): W is 32 for IPv4, 128 for IPv6.  *)
(*                                                                         *)
(* An address is its sequence of bits, the most significant one first, so  *)
(* that position i is what the code calls "prefixpos" i.  A network keeps  *)
(* the whole address and a prefix length, as struct ip4_addr_t and struct  *)
(* ip6_addr_t do: the host bits behind the prefix may be set.              *)
(***************************************************************************)
EXTENDS Naturals, Sequences

CONSTANT W                      \* IP4_MAX_PREFIXLEN, IP6_MAX_PREFIXLEN

ASSUME WAssumption == W \in Nat \ {0}

Bit == {0, 1}

Address == [1..W -> Bit]

Addr == [len : 0..W, bits : Address]

(***************************************************************************)
(* A path is a position in a tree: the bits that lead there from prefix    *)
(* length 0.                                                               *)
(***************************************************************************)
Path == UNION {[1..n -> Bit] : n \in 0..W}

\* The path p leads to q or to an ancestor of q.
Covers(p, q) == Len(p) <= Len(q) /\ \A i \in 1..Len(p) : p[i] = q[i]

StrictlyCovers(p, q) == Len(p) < Len(q) /\ \A i \in 1..Len(p) : p[i] = q[i]

\* The address x belongs to the network at p.
Matches(p, x) == \A i \in 1..Len(p) : p[i] = x[i]

NetOf(p) == {x \in Address : Matches(p, x)}

Child(p, b) == [i \in 1..(Len(p) + 1) |-> IF i <= Len(p) THEN p[i] ELSE b]

\* The network at p written as an address: host bits are zero.
Padded(p) == [len  |-> Len(p),
              bits |-> [i \in 1..W |-> IF i <= Len(p) THEN p[i] ELSE 0]]

-----------------------------------------------------------------------------
(***************************************************************************)
(* The operations of ip4/addr.c and ip6/addr.c.                            *)
(***************************************************************************)
addr_init_null == [len |-> 0, bits |-> [i \in 1..W |-> 0]]

\* One bit longer than src, with that bit set or cleared.
addr_init_child(src, bit) ==
  [len |-> src.len + 1, bits |-> [src.bits EXCEPT ![src.len + 1] = bit]]

\* Mutant: the bit is added instead of flipped.
addr_init_sibling_adds(src) == [src EXCEPT !.bits[src.len] = @ + 1]

\* The same length as src, with the bit at that length flipped.
addr_init_sibling(src) == [src EXCEPT !.bits[src.len] = 1 - @]

\* No host bit is set.
addr_is_net(x) == \A i \in 1..W : i > x.len => x.bits[i] = 0

=============================================================================
