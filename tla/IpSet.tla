------------------------------- MODULE IpSet --------------------------------
(***************************************************************************)
(* What an ip-dedup tree promises: it is a set of addresses.  Networks are *)
(* added, the set may be inverted once, networks are taken out, and in the *)
(* end the set is listed as few networks as possible, in ascending order.  *)
(*                                                                         *)
(* IpTree implements this module; the refinement mapping is there.         *)
(***************************************************************************)
EXTENDS IpAddr

CONSTANTS Inputs,               \* the addresses the parser may deliver
          PurgeNets,            \* the networks that may be purged
          CollapseLens          \* the auto-collapse prefix lengths, 0 is off

VARIABLES set,                  \* the addresses held; {} once failed
          ac,                   \* the auto-collapse prefix length
          asked,                \* the operation that is asked for
          stage,                \* "new", "input", "purge", "done", "failed"
          out                   \* the listing, <<>> before it is complete

vars == <<set, asked, ac, stage, out>>

\* The prefix length an input is cut to.
EffectiveLen(l, len) == IF l > 0 /\ len > l THEN l ELSE len

PathTo(x, n) == [i \in 1..n |-> x.bits[i]]

\* The largest networks inside S: every network of S is in one of them.
MaximalNets(S) ==
  {p \in Path : /\ NetOf(p) \subseteq S
                /\ \A q \in Path : StrictlyCovers(q, p) => ~(NetOf(q) \subseteq S)}

\* x is before y: at the first bit where they differ, x has 0.
Before(x, y) ==
  \E i \in 1..W : /\ x.bits[i] < y.bits[i]
                  /\ \A j \in 1..(i - 1) : x.bits[j] = y.bits[j]

\* The sequence l lists them, in ascending order and each once.
Lists(l, S) ==
  /\ l \in Seq(Addr)
  /\ {l[i] : i \in 1..Len(l)} = {Padded(p) : p \in MaximalNets(S)}
  /\ \A i, j \in 1..Len(l) : i < j => Before(l[i], l[j])

-----------------------------------------------------------------------------
Call(op, x) == [op |-> op, addr |-> x]

NoCall == Call("none", addr_init_null)

Init == set = {} /\ asked = NoCall /\ ac = 0 /\ stage = "new" /\ out = <<>>

SetAutoCollapse(l) ==
  /\ stage = "new"
  /\ ac' = l /\ stage' = "input"
  /\ UNCHANGED <<set, asked, out>>

\* An operation is called, with its argument; the next step answers it.
Ask(op, x, when) ==
  /\ stage = when /\ asked = NoCall
  /\ asked' = Call(op, x)
  /\ UNCHANGED <<set, ac, stage, out>>

Answer(op) == asked.op = op /\ asked' = NoCall /\ UNCHANGED <<ac, out>>

Insert ==
  /\ Answer("insert")
  /\ set' = set \union NetOf(PathTo(asked.addr, EffectiveLen(ac, asked.addr.len)))
  /\ UNCHANGED stage

\* The complement of nothing is nothing: an empty tree is kept as it is.
Invert ==
  /\ Answer("invert")
  /\ set' = IF set = {} THEN {} ELSE Address \ set
  /\ stage' = "purge"

DoNotInvert ==
  /\ Answer("none")
  /\ stage = "input" /\ stage' = "purge"
  /\ UNCHANGED set

Purge ==
  /\ Answer("purge")
  /\ set' = set \ NetOf(PathTo(asked.addr, asked.addr.len))
  /\ UNCHANGED stage

Collect ==
  /\ stage = "purge" /\ asked = NoCall
  /\ stage' = "done" /\ Lists(out', set)
  /\ UNCHANGED <<set, asked, ac>>

\* Memory ran out.
Fail ==
  /\ stage \in {"input", "purge"} /\ stage' = "failed"
  /\ set' = {} /\ asked' = NoCall /\ out' = <<>> /\ UNCHANGED ac

Next == \/ \E l \in CollapseLens : SetAutoCollapse(l)
        \/ \E x \in Inputs : Ask("insert", x, "input")
        \/ Ask("invert", addr_init_null, "input")
        \/ \E x \in PurgeNets : Ask("purge", x, "purge")
        \/ Insert \/ Invert \/ DoNotInvert \/ Purge
        \/ Collect \/ Fail

Spec == Init /\ [][Next]_vars

=============================================================================
