----------------------------- MODULE IpDedupInv -----------------------------
(***************************************************************************)
(* The inductive invariant of IpDedup.                                     *)
(*                                                                         *)
(* What is printed, when the output file is opened and what the exit code  *)
(* says are statements about the end of a run: what makes them inductive   *)
(* is what main_run() knows at each of its steps, in the order it takes    *)
(* them.                                                                   *)
(***************************************************************************)
EXTENDS IpDedup

Starting == pc \in {"options", "arguments"}
AtInput == pc \in {"files", "lines"}
Stopped == pc \in {"exit", "left"}

File(w, i) == [who |-> w, file |-> i]

AllRead(w) == \A i \in 1..Len(Sources(w)) : File(w, i) \in ended

\* Which builder is at work when.
Control ==
  /\ exit = -1 <=> ~Stopped
  /\ Starting => who = "main" /\ k = 1 /\ hist = << >> /\ ended = {}
  /\ ~Starting /\ ~Stopped => g.tree_mode # {}
  /\ pc = "lines" => k <= Len(Sources(who))
  /\ pc = "invert" => who = "main"
  /\ pc = "purge" => who = "purge"
  /\ pc \in {"open", "print4", "print6"} /\ who = "main" => g.purge_infiles = << >>
  /\ opened => pc \in {"print4", "print6", "exit"}

\* The files are read one after the other, those of the input first, and
\* all of them before anything else is done.
FilesInOrder ==
  /\ AtInput => \A i \in 1..(k - 1) : File(who, i) \in ended
  /\ ~Starting /\ ~Stopped /\ ~(AtInput /\ who = "main") => AllRead("main")
  /\ pc \in {"purge", "open", "print4", "print6"} => AllRead("purge")
  /\ AtInput \/ pc = "invert" =>
       /\ \A j \in 1..Len(hist) : hist[j].who = "purge" => who = "purge"
       /\ \A f \in ended : f.who = "purge" => who = "purge"
  /\ AtInput =>
       /\ \A j \in 1..Len(hist) : hist[j].who = who =>
            hist[j].file <= k /\ (pc = "files" => hist[j].file < k)
       /\ \A f \in ended : f.who = who => f.file < k

AllInvalid(r) == r # {} /\ r \subseteq {INVALID, INVALID_NET}

\* keep_going_status is about the lines of the current file only, and no
\* run goes on behind a line or a file it ought to have stopped at.
KeptGoing ==
  /\ pc = "lines" =>
       /\ "ADDR" \in seen <=> SUCCESS \in LinesOf(who, k)
       /\ "INVALID" \in seen <=> LinesOf(who, k) \intersect {INVALID, INVALID_NET} # {}
  /\ pc # "exit" =>
       /\ \A j \in 1..Len(hist) : hist[j].ret \in
            (IF g.want_keep_going THEN {SUCCESS, INVALID, INVALID_NET} ELSE {SUCCESS})
       /\ \A f \in ended : ~AllInvalid(LinesOf(f.who, f.file))

\* What the trees stand for at each step of main_run().
Built ==
  /\ Starting => tree = [w \in Who |-> [t \in Type |-> {}]]
  /\ ~Starting /\ ~Stopped /\ ShiftsDefined =>
       \A t \in Type :
         /\ tree["purge"][t] = Named("purge", t)
         /\ (AtInput \/ pc = "invert") /\ who = "main" => tree["main"][t] = Named("main", t)
         /\ (AtInput \/ pc = "purge") /\ who = "purge" => tree["main"][t] = Wanted(t)
         /\ pc \in {"open", "print4", "print6"} =>
              tree["main"][t] = Wanted(t) \ Named("purge", t)

\* What has been printed so far.
Listing ==
  /\ pc \notin {"print6", "exit"} => printed = [t \in Type |-> {}]
  /\ pc = "print6" => printed["v6"] = {}
  /\ pc = "print6" /\ ~failed /\ ShiftsDefined => printed["v4"] = Listed("v4")

\* What every step of the program keeps, and enough for the next one to
\* keep it: the order of the steps, the files read so far, the lines of each
\* and what the trees stand for.
IInv ==
  /\ TypeOK /\ Control /\ FilesInOrder /\ KeptGoing /\ Built /\ Listing
  /\ OutputIsDedup /\ OutfileAfterInput /\ KeepGoingPerFile

=============================================================================
