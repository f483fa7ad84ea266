----------------------------- MODULE MCIpDedup ------------------------------
(***************************************************************************)
(* IpDedup with addresses of two bits and one line of each kind.           *)
(***************************************************************************)
EXTENDS IpDedupInv

Net(n, a, b) == [len |-> n, bits |-> <<a, b>>]

\* A line's parsers' results: the same return code r for both types.
Read(guess, r, x4, x6) ==
  [skip |-> FALSE, guess |-> guess, ret |-> [t \in Type |-> r],
   addr |-> [t \in Type |-> IF t = "v4" THEN x4 ELSE x6]]

Zero == Net(0, 0, 0)

blank    == [Read({}, INVALID, Zero, Zero) EXCEPT !.skip = TRUE]
garbage  == Read({}, INVALID, Zero, Zero)
hex      == Read(Type, NOT_IMPLEMENTED, Zero, Zero)
only4    == [Read({"v4"}, SUCCESS, Net(2, 0, 1), Zero) EXCEPT !.ret["v6"] = INVALID]
only6    == [Read({"v6"}, SUCCESS, Zero, Net(1, 1, 0)) EXCEPT !.ret["v4"] = INVALID]
\* as "10/8": a network in IPv4, host bits in IPv6
both     == Read(Type, SUCCESS, Net(1, 1, 0), Net(1, 0, 1))
hostbits == [Read({"v4"}, SUCCESS, Net(1, 0, 1), Zero) EXCEPT !.ret["v6"] = INVALID]
\* as "1.2.3.4/0"
zerolen  == [Read({"v4"}, SUCCESS, Net(0, 0, 1), Zero) EXCEPT !.ret["v6"] = INVALID]

ParseLines == {blank, garbage, hex, only4, only6, both, hostbits, zerolen}
FewLines == {both, only4, garbage}
OneLine == {both}
ZeroLine == {zerolen}

AllModes == {Type}
Names == {{"v4"}, Type}

=============================================================================
