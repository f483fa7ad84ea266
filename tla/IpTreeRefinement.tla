-------------------------- MODULE IpTreeRefinement --------------------------
(***************************************************************************)
(* IpTree implements IpSet: the set is what the hot nodes cover.           *)
(*                                                                         *)
(* An inversion changes the tree node by node and counts as one step at    *)
(* its end, so until then the set is the one that was there before; the    *)
(* listing counts when it is complete; after a failure there is none.      *)
(* A call that is running is an operation that is asked for, so each one   *)
(* must have its effect, and for its own argument, by the time it returns. *)
(***************************************************************************)
EXTENDS IpTree

AbstractSet == CASE phase = "failed" -> {}
                 [] phase = "invert" -> before
                 [] OTHER            -> Cover(node["main"])

AbstractStage ==
  CASE phase \in {"input", "collapse", "collapsed", "invert"} -> "input"
    [] phase \in {"purge", "print"}                           -> "purge"
    [] OTHER                                                  -> phase

\* The call of main_run() that has not returned.
AbstractAsked ==
  CASE call # "none" /\ phase = "input" -> [op |-> "insert", addr |-> arg]
    [] call # "none" /\ phase = "invert" -> [op |-> "invert", addr |-> addr_init_null]
    [] call # "none" /\ phase = "purge" -> [op |-> "purge", addr |-> arg]
    [] OTHER -> [op |-> "none", addr |-> addr_init_null]

AbstractOut == IF phase = "done" THEN out ELSE << >>

Abstract == INSTANCE IpSet WITH
              set   <- AbstractSet,
              asked <- AbstractAsked,
              stage <- AbstractStage,
              out   <- AbstractOut

\* Whatever is inserted, collapsed, inverted and purged, in whatever shape
\* the tree is and wherever memory runs out: the hot nodes cover exactly the
\* addresses the operations call for, and collect lists them as the largest
\* networks possible, in ascending order, each once.
ImplementsIpSet == Abstract!Spec

=============================================================================
