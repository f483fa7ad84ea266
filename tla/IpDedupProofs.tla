---------------------------- MODULE IpDedupProofs ----------------------------
(***************************************************************************)
(* The proof that IInv is an invariant of IpDedup, and with it TypeOK,     *)
(* OutputIsDedup, OutfileAfterInput and KeepGoingPerFile, for every set of *)
(* lines, options and file names, every number of them, every address      *)
(* length and every kind of failure.                                       *)
(***************************************************************************)
EXTENDS IpDedupInv, TLAPS

(***************************************************************************)
(* What one line does.                                                     *)
(***************************************************************************)
LEMMA Modes == ASSUME TypeOK, g.tree_mode # {}
               PROVE  g.tree_mode = {"v4"} \/ g.tree_mode = {"v6"} \/ g.tree_mode = Type
<1>1. g.tree_mode \subseteq {"v4", "v6"}
  BY DEF TypeOK, Globals, Type
<1>. QED BY <1>1 DEF Type

\* The shift by the width of the word may call host bits a network, and
\* nothing else does.
LEMMA NetCheck ==
  ASSUME NEW l \in Lines, NEW net \in NetChecks(l), NEW t \in Type
  PROVE  /\ net[t] \in BOOLEAN
         /\ addr_is_net(l.addr[t]) => net[t]
         /\ net[t] => addr_is_net(l.addr[t]) \/ l.addr[t].len = 0
<1>1. net \in [Type -> BOOLEAN] /\ net[t] \in IsNet(l.addr[t])
  BY DEF NetChecks
<1>2. addr_is_net(l.addr[t]) \in BOOLEAN
  BY DEF addr_is_net
<1>. QED BY <1>1, <1>2 DEF IsNet

LEMMA SingleLine ==
  ASSUME TypeOK, NEW l \in Lines, NEW net \in NetChecks(l), NEW m \in Type, g.tree_mode = {m}
  PROVE  /\ ParseSingle(l, net).types = {m}
         /\ ParseSingle(l, net).ret = IF l.ret[m] = SUCCESS /\ g.want_strict /\ ~net[m]
                                      THEN INVALID_NET ELSE l.ret[m]
<1>1. (CHOOSE t \in Type : g.tree_mode = {t}) = m
  OBVIOUS
<1>. QED BY <1>1 DEF ParseSingle

LEMMA MixedFailure ==
  ASSUME NEW l \in Lines, Good(l) = {}
  PROVE  MixedFails(l) \in {INVALID, DID_NOT_TRY, NOT_IMPLEMENTED}
<1>1. l.ret \in [Type -> {SUCCESS, INVALID, NOT_IMPLEMENTED}]
  BY DedupAssumption DEF Line
<1>2. /\ Tried(l)["v4"] \in {INVALID, DID_NOT_TRY, NOT_IMPLEMENTED}
      /\ Tried(l)["v6"] \in {INVALID, DID_NOT_TRY, NOT_IMPLEMENTED}
  <2>1. \A t \in Type : Tried(l)[t] = IF t \in l.guess THEN l.ret[t] ELSE DID_NOT_TRY
    BY DEF Tried
  <2>2. \A t \in Type : Tried(l)[t] # SUCCESS
    BY DEF Good
  <2>. QED BY <1>1, <2>1, <2>2 DEF Type
<1>. QED BY <1>2 DEF MixedFails

\* What the parser of a line returns, and that it is what Counts says of
\* the line: the address of a type is inserted exactly when it counts.
LEMMA LineParsed ==
  ASSUME TypeOK, g.tree_mode # {}, NEW l \in Lines, NEW net \in NetChecks(l),
         NEW r, r = ParseResult(l, net)
  PROVE  /\ r.ret \in {SUCCESS, INVALID, INVALID_NET, DID_NOT_TRY, NOT_IMPLEMENTED}
         /\ r.ret # SUCCESS => \A t \in Type : ~Counts(l, t)
         /\ r.ret = SUCCESS =>
              \A t \in Type :
                 /\ Counts(l, t) => t \in r.types
                 /\ t \in r.types => t \in g.tree_mode /\ l.ret[t] = SUCCESS
                 /\ /\ t \in r.types
                    /\ g.want_strict /\ l.addr[t].len = 0 => addr_is_net(l.addr[t])
                    => Counts(l, t)
<1>1. l.ret \in [Type -> {SUCCESS, INVALID, NOT_IMPLEMENTED}]
  BY DedupAssumption DEF Line
<1>2. \A t \in Type : /\ net[t] \in BOOLEAN
                      /\ addr_is_net(l.addr[t]) => net[t]
                      /\ net[t] => addr_is_net(l.addr[t]) \/ l.addr[t].len = 0
  BY NetCheck
<1>s. Type # {"v4"} /\ Type # {"v6"} /\ "v4" \in Type /\ "v6" \in Type
  BY DEF Type
<1>3. ASSUME NEW m \in Type, g.tree_mode = {m}, Type # {m}
      PROVE  /\ r.ret \in {SUCCESS, INVALID, INVALID_NET, DID_NOT_TRY, NOT_IMPLEMENTED}
             /\ r.ret # SUCCESS => \A t \in Type : ~Counts(l, t)
             /\ r.ret = SUCCESS =>
                  \A t \in Type :
                     /\ Counts(l, t) => t \in r.types
                     /\ t \in r.types => t \in g.tree_mode /\ l.ret[t] = SUCCESS
                     /\ /\ t \in r.types
                        /\ g.want_strict /\ l.addr[t].len = 0 => addr_is_net(l.addr[t])
                        => Counts(l, t)
  <2>1. /\ r.types = {m}
        /\ r.ret = IF l.ret[m] = SUCCESS /\ g.want_strict /\ ~net[m]
                   THEN INVALID_NET ELSE l.ret[m]
    BY <1>3, SingleLine DEF ParseResult
  <2>. QED BY <1>1, <1>2, <1>3, <2>1
           DEF Counts, SUCCESS, INVALID, INVALID_NET, DID_NOT_TRY, NOT_IMPLEMENTED
<1>4. ASSUME g.tree_mode = Type
      PROVE  /\ r.ret \in {SUCCESS, INVALID, INVALID_NET, DID_NOT_TRY, NOT_IMPLEMENTED}
             /\ r.ret # SUCCESS => \A t \in Type : ~Counts(l, t)
             /\ r.ret = SUCCESS =>
                  \A t \in Type :
                     /\ Counts(l, t) => t \in r.types
                     /\ t \in r.types => t \in g.tree_mode /\ l.ret[t] = SUCCESS
                     /\ /\ t \in r.types
                        /\ g.want_strict /\ l.addr[t].len = 0 => addr_is_net(l.addr[t])
                        => Counts(l, t)
  <2>. DEFINE kept == {t \in Good(l) : g.want_strict => net[t]}
  <2>1. /\ r.types = kept
        /\ r.ret = CASE Good(l) = {} -> MixedFails(l)
                     [] Good(l) # {} /\ kept = {} -> INVALID_NET
                     [] OTHER -> SUCCESS
    BY <1>4 DEF ParseResult, ParseBoth
  <2>2. \A t \in Type : t \in Good(l) <=> t \in l.guess /\ l.ret[t] = SUCCESS
    BY DEF Good, Tried, DID_NOT_TRY, SUCCESS
  <2>3. Good(l) \subseteq Type
    BY DEF Good
  <2>4. \A t \in Type : Counts(l, t) => t \in kept
    BY <1>2, <1>4, <2>2 DEF Counts
  <2>5. \A t \in Type : t \in kept => t \in l.guess /\ l.ret[t] = SUCCESS /\ (g.want_strict => net[t])
    BY <2>2
  <2>6. kept \subseteq Good(l)
    OBVIOUS
  <2>7. CASE Good(l) = {}
    BY <2>1, <2>4, <2>6, <2>7, MixedFailure DEF SUCCESS, INVALID, DID_NOT_TRY, NOT_IMPLEMENTED
  <2>8. CASE Good(l) # {} /\ kept = {}
    <3>1. r.ret = INVALID_NET
      BY <2>1, <2>8
    <3>. QED BY <3>1, <2>4, <2>8 DEF SUCCESS, INVALID_NET
  <2>9. CASE Good(l) # {} /\ kept # {}
    <3>1. r.ret = SUCCESS
      BY <2>1, <2>9
    <3>2. ASSUME NEW t \in Type, t \in kept,
                 g.want_strict /\ l.addr[t].len = 0 => addr_is_net(l.addr[t])
          PROVE  Counts(l, t)
      BY <1>2, <1>4, <2>5, <3>2 DEF Counts
    <3>. QED BY <2>1, <2>4, <2>5, <3>1, <3>2, <1>4
  <2>. QED BY <2>7, <2>8, <2>9
<1>. QED BY <1>3, <1>4, <1>s, Modes

(***************************************************************************)
(* The history a line adds to.                                             *)
(***************************************************************************)
LEMMA Appended ==
  ASSUME NEW S, NEW s \in Seq(S), NEW e \in S, NEW s2, s2 = Append(s, e)
  PROVE  /\ s2 \in Seq(S) /\ Len(s2) = Len(s) + 1 /\ Len(s) \in Nat
         /\ s2[Len(s) + 1] = e
         /\ \A j \in 1..Len(s) : s2[j] = s[j]
         /\ \A j \in 1..Len(s2) : j \in 1..Len(s) \/ j = Len(s) + 1
OBVIOUS

LEMMA ElementOf == ASSUME NEW S, NEW s \in Seq(S), NEW j \in 1..Len(s) PROVE s[j] \in S
OBVIOUS

Entry == [who : Who, file : Nat, line : Lines, ret : RetCode]

\* The return codes of the lines of a file, when one more line is read.
LEMMA LinesOfMore ==
  ASSUME hist \in Seq(Entry), NEW e \in Entry, hist' = Append(hist, e), NEW w, NEW i
  PROVE  LinesOf(w, i)' = LinesOf(w, i) \union (IF e.who = w /\ e.file = i THEN {e.ret} ELSE {})
<1>1. /\ Len(hist') = Len(hist) + 1 /\ Len(hist) \in Nat
      /\ hist'[Len(hist) + 1] = e
      /\ \A j \in 1..Len(hist) : hist'[j] = hist[j]
  BY Appended
<1>2. LinesOf(w, i)' = {hist'[j].ret : j \in {n \in 1..Len(hist') : hist'[n].who = w /\ hist'[n].file = i}}
  BY DEF LinesOf
<1>3. ASSUME NEW r \in LinesOf(w, i)' PROVE r \in LinesOf(w, i) \/ (e.who = w /\ e.file = i /\ r = e.ret)
  <2>1. PICK j \in 1..Len(hist') : hist'[j].who = w /\ hist'[j].file = i /\ r = hist'[j].ret
    BY <1>2, <1>3
  <2>2. CASE j = Len(hist) + 1
    BY <1>1, <2>1, <2>2
  <2>3. CASE j # Len(hist) + 1
    <3>1. j \in 1..Len(hist) /\ hist'[j] = hist[j]
      BY <1>1, <2>1, <2>3
    <3>. QED BY <2>1, <3>1 DEF LinesOf
  <2>. QED BY <2>2, <2>3
<1>4. ASSUME NEW r \in LinesOf(w, i) PROVE r \in LinesOf(w, i)'
  <2>1. PICK j \in 1..Len(hist) : hist[j].who = w /\ hist[j].file = i /\ r = hist[j].ret
    BY <1>4 DEF LinesOf
  <2>2. j \in 1..Len(hist') /\ hist'[j] = hist[j]
    BY <1>1, <2>1
  <2>. QED BY <1>2, <2>1, <2>2
<1>5. ASSUME e.who = w, e.file = i PROVE e.ret \in LinesOf(w, i)'
  <2>1. Len(hist) + 1 \in 1..Len(hist')
    BY <1>1
  <2>. QED BY <1>1, <1>2, <1>5, <2>1
<1>. QED BY <1>3, <1>4, <1>5

\* The networks the lines name, when one more line is read.
LEMMA NamedMore ==
  ASSUME hist \in Seq(Entry), NEW e \in Entry, hist' = Append(hist, e), g' = g,
         NEW w \in Who, NEW t \in Type
  PROVE  Named(w, t)' = Named(w, t) \union (IF e.who = w /\ Counts(e.line, t)
                                           THEN InsertedNet(w, t, e.line.addr[t]) ELSE {})
<1>1. /\ Len(hist') = Len(hist) + 1 /\ Len(hist) \in Nat
      /\ hist'[Len(hist) + 1] = e
      /\ \A j \in 1..Len(hist) : hist'[j] = hist[j]
  BY Appended
<1>. DEFINE At(h, j) == h[j].who = w /\ Counts(h[j].line, t)
            Net(h, j) == InsertedNet(w, t, h[j].line.addr[t])
<1>2. Named(w, t)' = UNION {Net(hist', j) : j \in {n \in 1..Len(hist') : At(hist', n)}}
  BY DEF Named, Counts, InsertedNet, InsertLen
<1>3. Named(w, t) = UNION {Net(hist, j) : j \in {n \in 1..Len(hist) : At(hist, n)}}
  BY DEF Named
<1>4. \A j \in 1..Len(hist) : At(hist', j) = At(hist, j) /\ Net(hist', j) = Net(hist, j)
  BY <1>1
<1>5. Len(hist) + 1 \in 1..Len(hist') /\ At(hist', Len(hist) + 1) = (e.who = w /\ Counts(e.line, t))
      /\ Net(hist', Len(hist) + 1) = InsertedNet(w, t, e.line.addr[t])
  BY <1>1
<1>6. \A j \in 1..Len(hist') : j \in 1..Len(hist) \/ j = Len(hist) + 1
  BY <1>1
<1>7. 1..Len(hist) \subseteq 1..Len(hist')
  BY <1>1
<1>. HIDE DEF At, Net
<1>8. ASSUME NEW x \in Named(w, t)'
      PROVE  x \in Named(w, t) \/ (e.who = w /\ Counts(e.line, t) /\ x \in InsertedNet(w, t, e.line.addr[t]))
  BY <1>2, <1>3, <1>4, <1>5, <1>6, <1>8
<1>9. ASSUME NEW x \in Named(w, t) PROVE x \in Named(w, t)'
  BY <1>2, <1>3, <1>4, <1>7, <1>9
<1>10. ASSUME e.who = w, Counts(e.line, t), NEW x \in InsertedNet(w, t, e.line.addr[t])
       PROVE  x \in Named(w, t)'
  BY <1>2, <1>5, <1>10
<1>. QED BY <1>8, <1>9, <1>10

LEMMA NoLines ==
  ASSUME hist = << >>
  PROVE  /\ \A w, i : LinesOf(w, i) = {}
         /\ \A w \in Who, t \in Type : Named(w, t) = {}
<1>1. 1..Len(hist) = {}
  OBVIOUS
<1>. QED BY <1>1 DEF LinesOf, Named

\* What is read off the history changes with it and the options only.
LEMMA SameHistory ==
  ASSUME hist' = hist, g' = g
  PROVE  /\ \A w, i : LinesOf(w, i)' = LinesOf(w, i)
         /\ \A w \in Who, t \in Type : Named(w, t)' = Named(w, t)
         /\ \A t \in Type : Wanted(t)' = Wanted(t) /\ Listed(t)' = Listed(t)
         /\ ShiftsDefined' <=> ShiftsDefined
         /\ \A w : Sources(w)' = Sources(w)
         /\ ended' = ended => \A w : AllRead(w)' <=> AllRead(w)
BY DEF LinesOf, Named, Counts, InsertedNet, InsertLen, Wanted, Listed, ShiftsDefined, Sources,
       AllRead

(***************************************************************************)
(* The initial state, the steps before the input and those that give up.   *)
(***************************************************************************)
LEMMA SourcesType ==
  ASSUME g \in Globals, NEW w \in Who
  PROVE  /\ Sources(w) \in Seq(FileArgs \union {"-"})
         /\ Len(Sources(w)) \in Nat
         /\ g.purge_infiles = << >> => Len(Sources("purge")) = 0
<1>1. g.infiles \in Seq(FileArgs) /\ g.purge_infiles \in Seq(FileArgs)
  BY DEF Globals
<1>2. Seq(FileArgs) \subseteq Seq(FileArgs \union {"-"}) /\ <<"-">> \in Seq(FileArgs \union {"-"})
  OBVIOUS
<1>3. Sources(w) \in Seq(FileArgs \union {"-"})
  BY <1>1, <1>2 DEF Sources
<1>. QED BY <1>3 DEF Sources

LEMMA InitInv == Init => IInv
<1>. SUFFICES ASSUME Init PROVE IInv
  OBVIOUS
<1>1. hist = << >> /\ Len(hist) = 0 /\ 1..Len(hist) = {} /\ ended = {}
  BY DEF Init
<1>2. g \in Globals /\ Len(g.infiles) = 0 /\ Len(g.purge_infiles) = 0
  BY DEF Init, ipdedup_globals_init, Globals
<1>3. TypeOK
  <2>1. Len(Sources("main")) \in Nat
    BY <1>2, SourcesType DEF Who
  <2>2. hist \in Seq([who : Who, file : Nat, line : Lines, ret : RetCode])
    BY <1>1
  <2>3. tree \in [Who -> [Type -> SUBSET Address]] /\ printed \in [Type -> SUBSET SUBSET Address]
    BY DEF Init
  <2>4. MaxOptions \in Nat /\ MaxFiles \in Nat /\ MaxLines \in Nat
    BY DedupAssumption
  <2>5. did_read_stdin \in [Who -> BOOLEAN] /\ who \in Who /\ k \in 1..(Len(Sources(who)) + 1)
    BY <2>1 DEF Init, Who
  <2>6. /\ pc = "options" /\ opts = 0 /\ stream = "none" /\ seen = {} /\ exit = -1
        /\ stdin_eof = FALSE /\ opened = FALSE /\ failed = FALSE
    BY DEF Init
  <2>7. Len(hist) <= MaxLines /\ opts \in 0..MaxOptions
    BY <1>1, <2>4, <2>6
  <2>8. Len(g.infiles) <= MaxFiles /\ Len(g.purge_infiles) <= MaxFiles
    BY <1>2, <2>4
  <2>. QED BY <1>1, <1>2, <2>2, <2>3, <2>5, <2>6, <2>7, <2>8 DEF TypeOK
<1>4. Control /\ FilesInOrder /\ KeptGoing /\ Built /\ Listing
  BY <1>1 DEF Init, Control, FilesInOrder, KeptGoing, Built, Listing, Starting, Stopped, AtInput
<1>5. OutputIsDedup /\ OutfileAfterInput /\ KeepGoingPerFile
  BY <1>1 DEF Init, OutputIsDedup, OutfileAfterInput, KeepGoingPerFile, Ran
<1>. QED BY <1>3, <1>4, <1>5 DEF IInv

LEMMA UnchangedInv == ASSUME IInv, UNCHANGED vars PROVE IInv'
<1>1. /\ pc' = pc /\ opts' = opts /\ g' = g /\ tree' = tree /\ did_read_stdin' = did_read_stdin
      /\ who' = who /\ k' = k /\ stream' = stream /\ seen' = seen /\ stdin_eof' = stdin_eof
      /\ opened' = opened /\ printed' = printed /\ exit' = exit /\ hist' = hist
      /\ ended' = ended /\ failed' = failed
  BY DEF vars, readVars, outVars, histVars
<1>2. /\ \A w, i : LinesOf(w, i)' = LinesOf(w, i)
      /\ \A w \in Who, t \in Type : Named(w, t)' = Named(w, t)
      /\ \A t \in Type : Wanted(t)' = Wanted(t) /\ Listed(t)' = Listed(t)
      /\ ShiftsDefined' <=> ShiftsDefined
      /\ \A w : Sources(w)' = Sources(w)
      /\ \A w : AllRead(w)' <=> AllRead(w)
  BY <1>1, SameHistory
<1>3. TypeOK' /\ Control' /\ FilesInOrder'
  BY <1>1, <1>2 DEF IInv, TypeOK, Control, FilesInOrder, Starting, Stopped, AtInput
<1>4. KeptGoing' /\ KeepGoingPerFile'
  <2>1. \A f \in ended : LinesOf(f.who, f.file)' = LinesOf(f.who, f.file)
    BY <1>2
  <2>. QED BY <1>1, <1>2, <2>1 DEF IInv, KeptGoing, KeepGoingPerFile, AllInvalid
<1>5. Built' /\ Listing' /\ OutputIsDedup'
  BY <1>1, <1>2 DEF IInv, Built, Listing, OutputIsDedup, Ran, Starting, Stopped, AtInput, Who, Type
<1>6. OutfileAfterInput'
  BY <1>1, <1>2 DEF IInv, OutfileAfterInput
<1>. QED BY <1>3, <1>4, <1>5, <1>6 DEF IInv

\* Reading the command line changes the options and nothing else.
LEMMA SettingInv ==
  ASSUME IInv, Starting, Starting', g' \in Globals, Len(g'.infiles) <= MaxFiles,
         Len(g'.purge_infiles) <= MaxFiles, opts' \in 0..MaxOptions,
         UNCHANGED <<tree, did_read_stdin, readVars, stdin_eof, outVars, exit, histVars>>
  PROVE  IInv'
<1>1. TypeOK /\ Control /\ Built /\ Listing
  BY DEF IInv
<1>2. /\ tree' = tree /\ did_read_stdin' = did_read_stdin /\ who' = who /\ k' = k
      /\ stream' = stream /\ seen' = seen /\ stdin_eof' = stdin_eof /\ opened' = opened
      /\ printed' = printed /\ exit' = exit /\ hist' = hist /\ ended' = ended /\ failed' = failed
  BY DEF readVars, outVars, histVars
<1>3. /\ who = "main" /\ k = 1 /\ hist = << >> /\ ended = {} /\ exit = -1 /\ ~opened
      /\ 1..Len(hist) = {}
  BY <1>1 DEF Control, Starting, Stopped
<1>4. TypeOK'
  <2>1. Len(Sources(who))' \in Nat
    BY <1>2, <1>3, SourcesType DEF Who, Sources
  <2>2. pc' \in {"options", "arguments"} /\ k' \in 1..(Len(Sources(who))' + 1)
    BY <1>2, <1>3, <2>1 DEF Starting
  <2>. QED BY <1>1, <1>2, <2>2 DEF TypeOK
<1>5. Control' /\ FilesInOrder' /\ KeptGoing'
  BY <1>2, <1>3 DEF Control, FilesInOrder, KeptGoing, Starting, Stopped, AtInput
<1>6. Built' /\ Listing'
  BY <1>1, <1>2 DEF Built, Listing, Starting, Stopped
<1>7. OutputIsDedup' /\ OutfileAfterInput' /\ KeepGoingPerFile'
  BY <1>2, <1>3 DEF OutputIsDedup, OutfileAfterInput, KeepGoingPerFile, Ran, Starting
<1>. QED BY <1>4, <1>5, <1>6, <1>7 DEF IInv

LEMMA OptionInv ==
  ASSUME IInv, NEW o, Option(o), g' \in Globals, Len(g'.infiles) <= MaxFiles,
         Len(g'.purge_infiles) <= MaxFiles
  PROVE  IInv'
<1>1. Starting /\ Starting'
  BY DEF Option, Starting
<1>2. opts' \in 0..MaxOptions
  BY DedupAssumption DEF Option, IInv, TypeOK
<1>. QED BY <1>1, <1>2, SettingInv DEF Option

\* Giving up ends the run with a code that is neither 0 nor 65, and once the
\* output file is open only memory gives up.
LEMMA ExitInv ==
  ASSUME IInv, ~Stopped, failed' \in BOOLEAN,
         NEW code \in {EX_USAGE, EX_SOFTWARE, EX_OSERR, EX_CANTCREAT, EX_IOERR}, Exit(code),
         opened => code = EX_SOFTWARE
  PROVE  IInv'
<1>1. /\ pc' = "exit" /\ exit' = code /\ opts' = opts /\ g' = g /\ tree' = tree
      /\ did_read_stdin' = did_read_stdin /\ who' = who /\ k' = k
      /\ stream' = stream /\ seen' = seen /\ stdin_eof' = stdin_eof /\ opened' = opened
      /\ printed' = printed /\ hist' = hist /\ ended' = ended
  BY DEF Exit, readVars, outVars
<1>2. code \notin {-1, 0, EX_DATAERR}
  BY DEF EX_USAGE, EX_SOFTWARE, EX_OSERR, EX_CANTCREAT, EX_IOERR, EX_DATAERR
<1>3. TypeOK' 
  <2>1. Sources(who)' = Sources(who)
    BY <1>1, SameHistory
  <2>. QED BY <1>1, <2>1 DEF IInv, TypeOK
<1>4. Control' /\ FilesInOrder' /\ KeptGoing' /\ Built' /\ Listing'
  BY <1>1, <1>2 DEF Control, FilesInOrder, KeptGoing, Built, Listing, Starting, Stopped, AtInput
<1>5. OutputIsDedup' /\ KeepGoingPerFile'
  BY <1>1, <1>2 DEF OutputIsDedup, KeepGoingPerFile, Ran
<1>6. OutfileAfterInput'
  <2>1. \A w : Sources(w)' = Sources(w)
    BY <1>1, SameHistory
  <2>. QED BY <1>1, <2>1 DEF IInv, OutfileAfterInput
<1>. QED BY <1>3, <1>4, <1>5, <1>6 DEF IInv

\* main_inner() ends and main_run() begins.
LEMMA EndArgumentsInv == ASSUME IInv, EndArguments PROVE IInv'
<1>1. TypeOK /\ Control /\ Built /\ Listing
  BY DEF IInv
<1>2. /\ pc = "arguments" /\ pc' = "files" /\ opts' = opts /\ tree' = tree
      /\ did_read_stdin' = did_read_stdin /\ who' = who /\ k' = k
      /\ stream' = stream /\ seen' = seen /\ stdin_eof' = stdin_eof /\ opened' = opened
      /\ printed' = printed /\ exit' = exit /\ hist' = hist /\ ended' = ended /\ failed' = failed
  BY DEF EndArguments, readVars, outVars, histVars
<1>3. PICK m \in IF g.tree_mode = {} THEN GuessedModes ELSE {g.tree_mode} :
        g' = [g EXCEPT !.tree_mode = m]
  BY DEF EndArguments
<1>4. m \subseteq Type /\ m # {}
  BY <1>1, DedupAssumption DEF TypeOK, Globals
<1>5. /\ g' \in Globals /\ g'.infiles = g.infiles /\ g'.purge_infiles = g.purge_infiles
      /\ g'.tree_mode = m
  BY <1>1, <1>3, <1>4 DEF TypeOK, Globals
<1>6. /\ who = "main" /\ k = 1 /\ hist = << >> /\ ended = {} /\ exit = -1 /\ ~opened
      /\ 1..Len(hist) = {} /\ tree = [w \in Who |-> [t \in Type |-> {}]]
      /\ printed = [t \in Type |-> {}]
  BY <1>1, <1>2 DEF Control, Starting, Stopped, Built, Listing
<1>7. TypeOK'
  <2>1. Sources(who)' = Sources(who)
    BY <1>2, <1>5 DEF Sources
  <2>. QED BY <1>1, <1>2, <1>5, <2>1 DEF TypeOK
<1>8. Control' /\ FilesInOrder' /\ KeptGoing' /\ Listing'
  BY <1>2, <1>4, <1>5, <1>6
     DEF Control, FilesInOrder, KeptGoing, Listing, Starting, Stopped, AtInput
<1>9. Built'
  <2>1. \A t \in Type : Named("main", t)' = {} /\ Named("purge", t)' = {}
    BY <1>2, <1>6 DEF Named
  <2>2. \A t \in Type : tree'["main"][t] = {} /\ tree'["purge"][t] = {}
    BY <1>2, <1>6 DEF Who
  <2>. QED BY <1>2, <1>6, <2>1, <2>2 DEF Built, Starting, AtInput
<1>10. OutputIsDedup' /\ OutfileAfterInput' /\ KeepGoingPerFile'
  BY <1>2, <1>6 DEF OutputIsDedup, OutfileAfterInput, KeepGoingPerFile, Ran
<1>. QED BY <1>7, <1>8, <1>9, <1>10 DEF IInv

(***************************************************************************)
(* The input.                                                              *)
(***************************************************************************)
LEMMA OpenStreamInv == ASSUME IInv, OpenStream PROVE IInv'
<1>1. TypeOK /\ Control /\ FilesInOrder /\ KeptGoing /\ Built /\ Listing
  BY DEF IInv
<1>2. /\ pc = "files" /\ pc' = "lines" /\ k <= Len(Sources(who)) /\ opts' = opts /\ g' = g
      /\ tree' = tree /\ who' = who /\ k' = k /\ stream' = Source /\ seen' = {}
      /\ did_read_stdin' = [did_read_stdin EXCEPT ![who] = @ \/ Source = "-"]
      /\ stdin_eof' = stdin_eof /\ opened' = opened
      /\ printed' = printed /\ exit' = exit /\ hist' = hist /\ ended' = ended /\ failed' = failed
  BY DEF OpenStream, outVars, histVars
<1>3. /\ \A w, i : LinesOf(w, i)' = LinesOf(w, i)
      /\ \A w \in Who, t \in Type : Named(w, t)' = Named(w, t)
      /\ \A t \in Type : Wanted(t)' = Wanted(t)
      /\ ShiftsDefined' <=> ShiftsDefined
      /\ \A w : Sources(w)' = Sources(w)
      /\ \A w : AllRead(w)' <=> AllRead(w)
  BY <1>2, SameHistory
<1>4. TypeOK'
  <2>1. Source \in FileArgs \union {"-"}
    BY <1>1, <1>2, SourcesType DEF Source, TypeOK
  <2>2. did_read_stdin' \in [Who -> BOOLEAN]
    BY <1>1, <1>2 DEF TypeOK
  <2>. QED BY <1>1, <1>2, <1>3, <2>1, <2>2 DEF TypeOK
<1>5. Control' /\ FilesInOrder' /\ Listing'
  BY <1>1, <1>2, <1>3 DEF Control, FilesInOrder, Listing, Starting, Stopped, AtInput
<1>6. Built'
  BY <1>1, <1>2, <1>3 DEF Built, Starting, Stopped, AtInput, Who
<1>7. KeptGoing'
  <2>1. LinesOf(who, k) = {}
    <3>1. k \in Nat
      BY <1>1 DEF TypeOK
    <3>2. ASSUME NEW j \in 1..Len(hist), hist[j].who = who, hist[j].file = k PROVE FALSE
      BY <1>1, <1>2, <3>1, <3>2 DEF FilesInOrder, AtInput
    <3>. QED BY <3>2 DEF LinesOf
  <2>. QED BY <1>1, <1>2, <1>3, <2>1 DEF KeptGoing
<1>8. OutputIsDedup' /\ OutfileAfterInput' /\ KeepGoingPerFile'
  BY <1>1, <1>2 DEF OutputIsDedup, OutfileAfterInput, KeepGoingPerFile, Ran, Control, Stopped
<1>. QED BY <1>4, <1>5, <1>6, <1>7, <1>8 DEF IInv

\* A line that is recorded is one more line of the current file, and of no
\* file that was read to its end.
LEMMA RecordLine ==
  ASSUME IInv, MoreLines, NEW l \in Lines, NEW ret \in RetCode, Record(l, ret),
         g' = g, who' = who, k' = k, ended' = ended
  PROVE  /\ hist \in Seq(Entry) /\ [who |-> who, file |-> k, line |-> l, ret |-> ret] \in Entry
         /\ hist' \in Seq([who : Who, file : Nat, line : Lines, ret : RetCode])
         /\ Len(hist') <= MaxLines
         /\ LinesOf(who, k)' = LinesOf(who, k) \union {ret}
         /\ \A f \in ended : LinesOf(f.who, f.file)' = LinesOf(f.who, f.file)
         /\ \A j \in 1..Len(hist') : hist'[j] = [who |-> who, file |-> k, line |-> l, ret |-> ret]
                                     \/ \E i \in 1..Len(hist) : hist'[j] = hist[i]
         /\ \A i \in 1..Len(hist) : i \in 1..Len(hist') /\ hist'[i] = hist[i]
         /\ \E j \in 1..Len(hist') : hist'[j] = [who |-> who, file |-> k, line |-> l, ret |-> ret]
<1>. DEFINE e == [who |-> who, file |-> k, line |-> l, ret |-> ret]
<1>1. hist \in Seq(Entry) /\ e \in Entry /\ hist' = Append(hist, e)
  BY DEF IInv, TypeOK, Record, Entry
<1>2. hist' \in Seq([who : Who, file : Nat, line : Lines, ret : RetCode])
  BY <1>1, Appended DEF Entry
<1>3. /\ Len(hist') = Len(hist) + 1 /\ Len(hist) \in Nat /\ hist'[Len(hist) + 1] = e
      /\ \A i \in 1..Len(hist) : hist'[i] = hist[i]
      /\ \A j \in 1..Len(hist') : j \in 1..Len(hist) \/ j = Len(hist) + 1
  BY <1>1, Appended
<1>4. Len(hist') <= MaxLines
  BY <1>3, DedupAssumption DEF MoreLines
<1>5. \A w, i : LinesOf(w, i)' = LinesOf(w, i) \union (IF w = who /\ i = k THEN {ret} ELSE {})
  BY <1>1, LinesOfMore
<1>6. LinesOf(who, k)' = LinesOf(who, k) \union {ret}
  BY <1>5
<1>7. ASSUME NEW f \in ended PROVE LinesOf(f.who, f.file)' = LinesOf(f.who, f.file)
  <2>1. f.who = who => f.file # k
    BY DEF IInv, TypeOK, FilesInOrder, AtInput, MoreLines
  <2>2. LinesOf(f.who, f.file)' = LinesOf(f.who, f.file)
                                   \union (IF f.who = who /\ f.file = k THEN {ret} ELSE {})
    BY <1>1, LinesOfMore
  <2>. QED BY <2>1, <2>2
<1>. HIDE DEF e
<1>8. \A j \in 1..Len(hist') : hist'[j] = e \/ \E i \in 1..Len(hist) : hist'[j] = hist[i]
  BY <1>3
<1>9. \A i \in 1..Len(hist) : i \in 1..Len(hist') /\ hist'[i] = hist[i]
  BY <1>3
<1>10. \E j \in 1..Len(hist') : hist'[j] = e
  <2>1. Len(hist) + 1 \in 1..Len(hist')
    BY <1>3
  <2>. QED BY <1>3, <2>1
<1>. QED BY <1>1, <1>2, <1>4, <1>6, <1>7, <1>8, <1>9, <1>10 DEF e

\* A line the run goes on after: what the trees are left to be shown.
LEMMA NextLineInv ==
  ASSUME IInv, MoreLines, NEW l \in Lines,
         NEW ret \in IF g.want_keep_going THEN {SUCCESS, INVALID, INVALID_NET} ELSE {SUCCESS},
         Record(l, ret), seen' = seen \union {IF ret = SUCCESS THEN "ADDR" ELSE "INVALID"},
         tree' \in [Who -> [Type -> SUBSET Address]], Built',
         UNCHANGED <<pc, opts, g, did_read_stdin, who, k, stream, stdin_eof, outVars, exit,
                     ended, failed>>
  PROVE  IInv'
<1>1. TypeOK /\ Control /\ FilesInOrder /\ KeptGoing /\ Listing /\ pc = "lines"
  BY DEF IInv, MoreLines
<1>2. /\ pc' = "lines" /\ opts' = opts /\ g' = g
      /\ did_read_stdin' = did_read_stdin /\ who' = who /\ k' = k
      /\ stream' = stream /\ stdin_eof' = stdin_eof /\ opened' = opened
      /\ printed' = printed /\ exit' = exit /\ ended' = ended /\ failed' = failed
  BY <1>1 DEF outVars
<1>. DEFINE e == [who |-> who, file |-> k, line |-> l, ret |-> ret]
<1>3. ret \in RetCode /\ ret \in {SUCCESS, INVALID, INVALID_NET}
  BY DEF RetCode, SUCCESS, INVALID, INVALID_NET
<1>4. /\ hist' \in Seq([who : Who, file : Nat, line : Lines, ret : RetCode])
      /\ Len(hist') <= MaxLines
      /\ LinesOf(who, k)' = LinesOf(who, k) \union {ret}
      /\ \A f \in ended : LinesOf(f.who, f.file)' = LinesOf(f.who, f.file)
      /\ \A j \in 1..Len(hist') : hist'[j] = e \/ \E i \in 1..Len(hist) : hist'[j] = hist[i]
  BY <1>2, <1>3, RecordLine
<1>5. \A w : Sources(w)' = Sources(w) /\ (AllRead(w)' <=> AllRead(w))
  BY <1>2 DEF Sources, AllRead
<1>6. TypeOK'
  <2>1. seen' \subseteq {"ADDR", "INVALID"}
    BY <1>1 DEF TypeOK
  <2>. QED BY <1>1, <1>2, <1>4, <1>5, <2>1 DEF TypeOK
<1>7. Control' /\ Listing'
  BY <1>1, <1>2, <1>5 DEF Control, Listing, Starting, Stopped
<1>8. FilesInOrder'
  <2>1. k \in Nat
    BY <1>1 DEF TypeOK
  <2>2. ASSUME NEW j \in 1..Len(hist')
        PROVE  /\ hist'[j].who = "purge" => who = "purge"
               /\ hist'[j].who = who => hist'[j].file <= k
    BY <1>1, <1>4, <2>1 DEF FilesInOrder, AtInput
  <2>. QED BY <1>1, <1>2, <1>5, <2>2 DEF FilesInOrder, AtInput, Starting, Stopped
<1>9. KeptGoing'
  <2>2. "ADDR" \in seen' <=> SUCCESS \in LinesOf(who, k) \union {ret}
    BY <1>1, <1>3 DEF KeptGoing, SUCCESS, INVALID, INVALID_NET
  <2>3. "INVALID" \in seen' <=> (LinesOf(who, k) \union {ret}) \intersect {INVALID, INVALID_NET} # {}
    BY <1>1, <1>3 DEF KeptGoing, SUCCESS, INVALID, INVALID_NET
  <2>4. LinesOf(who, k)' = LinesOf(who, k) \union {ret}
    BY <1>4
  <2>5. \A j \in 1..Len(hist') : hist'[j].ret \in
            (IF g.want_keep_going THEN {SUCCESS, INVALID, INVALID_NET} ELSE {SUCCESS})
    BY <1>1, <1>4 DEF KeptGoing
  <2>6. \A f \in ended : ~AllInvalid(LinesOf(f.who, f.file)')
    BY <1>1, <1>4 DEF KeptGoing
  <2>7. \A f \in ended' : ~AllInvalid(LinesOf(f.who, f.file)')
    BY <1>2, <2>6
  <2>. QED BY <1>2, <2>2, <2>3, <2>4, <2>5, <2>7 DEF KeptGoing, LinesOf, AllInvalid
<1>10. OutputIsDedup' /\ OutfileAfterInput' /\ KeepGoingPerFile'
  BY <1>1, <1>2 DEF OutputIsDedup, OutfileAfterInput, KeepGoingPerFile, Ran, Control, Stopped
<1>. QED BY <1>6, <1>7, <1>8, <1>9, <1>10 DEF IInv

\* While files are read, what a line that counts adds to the builder's tree
\* is what it adds to the networks named.
LEMMA BuiltMore ==
  ASSUME IInv, MoreLines, NEW l \in Lines, NEW ret \in RetCode, Record(l, ret),
         pc' = pc, g' = g, who' = who, k' = k, ended' = ended,
         ShiftsDefined' =>
           \A t \in Type :
              /\ tree'[who][t] = tree[who][t] \union (IF Counts(l, t)
                                                      THEN InsertedNet(who, t, l.addr[t]) ELSE {})
              /\ \A w \in Who : w # who => tree'[w][t] = tree[w][t]
  PROVE  Built'
<1>1. TypeOK /\ Control /\ Built /\ pc = "lines" /\ who \in Who
  BY DEF IInv, MoreLines, TypeOK
<1>. DEFINE e == [who |-> who, file |-> k, line |-> l, ret |-> ret]
<1>2. /\ hist \in Seq(Entry) /\ e \in Entry /\ hist' = Append(hist, e)
      /\ e.who = who /\ e.line = l
      /\ \A i \in 1..Len(hist) : i \in 1..Len(hist') /\ hist'[i] = hist[i]
  BY RecordLine DEF Record
<1>. SUFFICES ASSUME ShiftsDefined', NEW t \in Type
              PROVE  /\ tree'["purge"][t] = Named("purge", t)'
                     /\ who = "main" => tree'["main"][t] = Named("main", t)'
                     /\ who = "purge" => tree'["main"][t] = Wanted(t)'
  BY <1>1 DEF Built, Starting, Stopped
<1>3. ShiftsDefined
  BY <1>2 DEF ShiftsDefined
<1>4. /\ tree["purge"][t] = Named("purge", t)
      /\ who = "main" => tree["main"][t] = Named("main", t)
      /\ who = "purge" => tree["main"][t] = Wanted(t)
  BY <1>1, <1>3 DEF Built, Starting, Stopped, AtInput
<1>5. \A w \in Who : Named(w, t)' = Named(w, t) \union (IF who = w /\ Counts(l, t)
                                           THEN InsertedNet(w, t, l.addr[t]) ELSE {})
  <2>. SUFFICES ASSUME NEW w \in Who
                PROVE  Named(w, t)' = Named(w, t) \union (IF who = w /\ Counts(l, t)
                                           THEN InsertedNet(w, t, l.addr[t]) ELSE {})
    OBVIOUS
  <2>. HIDE DEF e
  <2>1. Named(w, t)' = Named(w, t) \union (IF e.who = w /\ Counts(e.line, t)
                                         THEN InsertedNet(w, t, e.line.addr[t]) ELSE {})
    BY <1>2, NamedMore
  <2>. QED BY <1>2, <2>1
<1>6. who = "purge" => Wanted(t)' = Wanted(t)
  BY <1>5 DEF Wanted, Who
<1>. QED BY <1>1, <1>4, <1>5, <1>6 DEF Who

LEMMA ReadAddressInv == ASSUME IInv, NEW l \in Lines, ReadAddress(l) PROVE IInv'
<1>1. TypeOK /\ Control /\ MoreLines /\ pc = "lines"
  BY DEF IInv, ReadAddress, MoreLines
<1>2. /\ seen' = seen \union {"ADDR"} /\ Record(l, SUCCESS)
      /\ UNCHANGED <<pc, opts, g, did_read_stdin, who, k, stream, stdin_eof, outVars, exit,
                      ended, failed>>
  BY DEF ReadAddress
<1>3. PICK net \in NetChecks(l) :
        /\ ParseResult(l, net).ret = SUCCESS
        /\ tree' = [tree EXCEPT ![who] =
                      [t \in Type |-> IF t \in ParseResult(l, net).types
                                      THEN @[t] \union InsertedNet(who, t, l.addr[t])
                                      ELSE @[t]]]
  BY DEF ReadAddress
<1>. DEFINE types == ParseResult(l, net).types
<1>4. g.tree_mode # {} /\ who \in Who
  BY <1>1 DEF Control, Starting, Stopped, TypeOK
<1>5. \A t \in Type : /\ Counts(l, t) => t \in types
                      /\ t \in types => t \in g.tree_mode /\ l.ret[t] = SUCCESS
                      /\ /\ t \in types
                         /\ g.want_strict /\ l.addr[t].len = 0 => addr_is_net(l.addr[t])
                         => Counts(l, t)
  BY <1>1, <1>3, <1>4, LineParsed
<1>6. \A t \in Type : /\ tree'[who][t] = IF t \in types
                                        THEN tree[who][t] \union InsertedNet(who, t, l.addr[t])
                                        ELSE tree[who][t]
                      /\ \A w \in Who : w # who => tree'[w][t] = tree[w][t]
  <2>1. tree \in [Who -> [Type -> SUBSET Address]]
    BY <1>1 DEF TypeOK
  <2>2. tree'[who] = [t \in Type |-> IF t \in types
                                    THEN tree[who][t] \union InsertedNet(who, t, l.addr[t])
                                    ELSE tree[who][t]]
    BY <1>3, <1>4, <2>1
  <2>3. \A w \in Who : w # who => tree'[w] = tree[w]
    BY <1>3, <1>4, <2>1
  <2>. HIDE DEF types
  <2>. QED BY <2>2, <2>3
<1>7. tree' \in [Who -> [Type -> SUBSET Address]]
  <2>1. tree \in [Who -> [Type -> SUBSET Address]]
    BY <1>1 DEF TypeOK
  <2>2. \A t \in Type : InsertedNet(who, t, l.addr[t]) \subseteq Address
    BY DEF InsertedNet, NetOf
  <2>. QED BY <1>3, <1>4, <2>1, <2>2
<1>8. SUCCESS \in RetCode
  BY DEF SUCCESS, RetCode
<1>9. ShiftsDefined' => \A t \in Type : t \in types <=> Counts(l, t)
  <2>. SUFFICES ASSUME ShiftsDefined', NEW t \in Type, t \in types PROVE Counts(l, t)
    BY <1>5
  <2>1. PICK j \in 1..Len(hist') : hist'[j].line = l /\ hist'[j].ret = SUCCESS
    <3>1. g' = g /\ who' = who /\ k' = k /\ ended' = ended /\ Record(l, SUCCESS)
      BY <1>2
    <3>2. PICK j \in 1..Len(hist') :
            hist'[j] = [who |-> who, file |-> k, line |-> l, ret |-> SUCCESS]
      BY <1>1, <1>8, <3>1, RecordLine
    <3>. QED BY <3>2
  <2>2. t \in g.tree_mode /\ l.ret[t] = SUCCESS
    BY <1>5
  <2>3. g.want_strict /\ l.addr[t].len = 0 => addr_is_net(l.addr[t])
    BY <1>2, <2>1, <2>2 DEF ShiftsDefined
  <2>. QED BY <1>5, <2>3
<1>10. Built'
  <2>1. ShiftsDefined' =>
          \A t \in Type :
             /\ tree'[who][t] = tree[who][t] \union (IF Counts(l, t)
                                                     THEN InsertedNet(who, t, l.addr[t]) ELSE {})
             /\ \A w \in Who : w # who => tree'[w][t] = tree[w][t]
    BY <1>6, <1>9
  <2>. QED BY <1>1, <1>2, <1>8, <2>1, BuiltMore
<1>11. /\ SUCCESS \in IF g.want_keep_going THEN {SUCCESS, INVALID, INVALID_NET} ELSE {SUCCESS}
       /\ seen' = seen \union {IF SUCCESS = SUCCESS THEN "ADDR" ELSE "INVALID"}
  BY <1>2
<1>. QED BY <1>1, <1>2, <1>7, <1>10, <1>11, NextLineInv

LEMMA SkipInvalidInv == ASSUME IInv, NEW l \in Lines, SkipInvalid(l) PROVE IInv'
<1>1. TypeOK /\ Control /\ MoreLines /\ pc = "lines" /\ g.want_keep_going
  BY DEF IInv, SkipInvalid, MoreLines
<1>2. PICK net \in NetChecks(l) :
        /\ ParseResult(l, net).ret \in {INVALID, INVALID_NET}
        /\ Record(l, ParseResult(l, net).ret)
  BY DEF SkipInvalid
<1>. DEFINE ret == ParseResult(l, net).ret
<1>3. /\ seen' = seen \union {"INVALID"} /\ tree' = tree
      /\ UNCHANGED <<pc, opts, g, did_read_stdin, who, k, stream, stdin_eof, outVars, exit,
                      ended, failed>>
  BY DEF SkipInvalid
<1>4. g.tree_mode # {} /\ who \in Who
  BY <1>1 DEF Control, Starting, Stopped, TypeOK
<1>5. ret \in {INVALID, INVALID_NET} /\ ret # SUCCESS /\ ret \in RetCode
  BY <1>2 DEF INVALID, INVALID_NET, SUCCESS, RetCode
<1>6. \A t \in Type : ~Counts(l, t)
  BY <1>1, <1>4, <1>5, LineParsed
<1>7. Built'
  BY <1>1, <1>2, <1>3, <1>5, <1>6, BuiltMore
<1>8. /\ ret \in IF g.want_keep_going THEN {SUCCESS, INVALID, INVALID_NET} ELSE {SUCCESS}
      /\ seen' = seen \union {IF ret = SUCCESS THEN "ADDR" ELSE "INVALID"}
  BY <1>1, <1>3, <1>5
<1>9. tree' \in [Who -> [Type -> SUBSET Address]]
  BY <1>1, <1>3 DEF TypeOK
<1>. HIDE DEF ret
<1>. QED BY <1>1, <1>2, <1>3, <1>7, <1>8, <1>9, NextLineInv DEF ret

LEMMA StopAtLineInv == ASSUME IInv, NEW l \in Lines, StopAtLine(l) PROVE IInv'
<1>1. TypeOK /\ Control /\ MoreLines /\ pc = "lines" /\ KeptGoing
  BY DEF IInv, StopAtLine, MoreLines
<1>2. PICK net \in NetChecks(l) :
        /\ ParseResult(l, net).ret # SUCCESS
        /\ ~(g.want_keep_going /\ ParseResult(l, net).ret \in {INVALID, INVALID_NET})
        /\ pc' = "exit" /\ exit' = main_interpret_parse_ret(ParseResult(l, net).ret)
        /\ Record(l, ParseResult(l, net).ret)
  BY DEF StopAtLine
<1>. DEFINE ret == ParseResult(l, net).ret
<1>3. /\ opts' = opts /\ g' = g /\ tree' = tree /\ pc' = "exit"
      /\ did_read_stdin' = did_read_stdin /\ who' = who /\ k' = k
      /\ stream' = stream /\ seen' = seen /\ stdin_eof' = stdin_eof /\ opened' = opened
      /\ printed' = printed /\ ended' = ended /\ failed' = failed
  BY <1>2 DEF StopAtLine, readVars, outVars
<1>4. g.tree_mode # {}
  BY <1>1 DEF Control, Starting, Stopped
<1>5. ret \in {INVALID, INVALID_NET, DID_NOT_TRY, NOT_IMPLEMENTED} /\ ret \in RetCode
  <2>1. ret \in {SUCCESS, INVALID, INVALID_NET, DID_NOT_TRY, NOT_IMPLEMENTED}
    BY <1>1, <1>4, LineParsed
  <2>. QED BY <1>2, <2>1 DEF INVALID, INVALID_NET, SUCCESS, RetCode, DID_NOT_TRY, NOT_IMPLEMENTED
<1>6. /\ exit' \in {EX_DATAERR, EX_SOFTWARE} /\ exit' \notin {-1, 0}
      /\ exit' = EX_DATAERR <=> ret \in {INVALID, INVALID_NET}
  BY <1>2, <1>5
     DEF main_interpret_parse_ret, EX_DATAERR, EX_SOFTWARE, INVALID, INVALID_NET, DID_NOT_TRY,
         NOT_IMPLEMENTED, SUCCESS, BAD_INFILE_DUP, READ_ERR
<1>. DEFINE e == [who |-> who, file |-> k, line |-> l, ret |-> ret]
<1>7. /\ hist' \in Seq([who : Who, file : Nat, line : Lines, ret : RetCode])
      /\ Len(hist') <= MaxLines
      /\ \A f \in ended : LinesOf(f.who, f.file)' = LinesOf(f.who, f.file)
      /\ \E j \in 1..Len(hist') : hist'[j] = e
  BY <1>1, <1>2, <1>3, <1>5, RecordLine
<1>8. ~opened
  BY <1>1 DEF Control
<1>9. TypeOK'
  <2>1. Sources(who)' = Sources(who)
    BY <1>3 DEF Sources
  <2>. QED BY <1>1, <1>3, <1>6, <1>7, <2>1 DEF TypeOK
<1>10. Control' /\ FilesInOrder' /\ KeptGoing' /\ Built' /\ Listing'
  BY <1>3, <1>6, <1>8
     DEF Control, FilesInOrder, KeptGoing, Built, Listing, Starting, Stopped, AtInput
<1>11. OutputIsDedup' /\ OutfileAfterInput'
  BY <1>3, <1>6, <1>8 DEF OutputIsDedup, OutfileAfterInput, Ran
<1>12. KeepGoingPerFile'
  <2>1. CASE exit' = EX_DATAERR
    <3>1. ~g.want_keep_going /\ ret \in {INVALID, INVALID_NET}
      BY <1>2, <1>6, <2>1
    <3>2. \E j \in 1..Len(hist') : hist'[j].ret \in {INVALID, INVALID_NET}
      BY <1>7, <3>1
    <3>. QED BY <1>3, <2>1, <3>1, <3>2 DEF KeepGoingPerFile
  <2>2. CASE exit' # EX_DATAERR
    BY <1>6, <2>2 DEF KeepGoingPerFile
  <2>. QED BY <2>1, <2>2
<1>. QED BY <1>9, <1>10, <1>11, <1>12 DEF IInv

\* A file that had lines and no valid one ends the run, and any other one
\* leads to the next file.
LEMMA EndOfFileInv == ASSUME IInv, EndOfFile PROVE IInv'
<1>1. TypeOK /\ Control /\ FilesInOrder /\ KeptGoing /\ Built /\ Listing /\ pc = "lines"
  BY DEF IInv, EndOfFile
<1>2. /\ opts' = opts /\ g' = g /\ tree' = tree /\ stream' = "none"
      /\ did_read_stdin' = did_read_stdin /\ who' = who /\ seen' = seen
      /\ stdin_eof' = (stdin_eof \/ stream = "-") /\ opened' = opened
      /\ printed' = printed /\ hist' = hist /\ failed' = failed
      /\ ended' = ended \union {[who |-> who, file |-> k]}
  BY DEF EndOfFile, outVars
<1>3. /\ \A w, i : LinesOf(w, i)' = LinesOf(w, i)
      /\ \A w \in Who, t \in Type : Named(w, t)' = Named(w, t)
      /\ \A t \in Type : Wanted(t)' = Wanted(t)
      /\ ShiftsDefined' <=> ShiftsDefined
      /\ \A w : Sources(w)' = Sources(w)
  BY <1>2, SameHistory
<1>4. /\ k \in Nat /\ k >= 1 /\ k <= Len(Sources(who)) /\ Len(Sources(who)) \in Nat
      /\ who \in Who /\ exit = -1 /\ ~opened
  BY <1>1, SourcesType DEF TypeOK, Control, Stopped
<1>5. \A w : AllRead(w) => AllRead(w)'
  BY <1>2, <1>3 DEF AllRead
<1>6. /\ AllInvalid(LinesOf(who, k)) <=> EofStatus(seen) # SUCCESS
      /\ EofStatus(seen) \in {SUCCESS, INVALID}
  <2>1. LinesOf(who, k) \subseteq {SUCCESS, INVALID, INVALID_NET}
    BY <1>1 DEF KeptGoing, LinesOf
  <2>2. /\ "ADDR" \in seen <=> SUCCESS \in LinesOf(who, k)
        /\ "INVALID" \in seen <=> LinesOf(who, k) \intersect {INVALID, INVALID_NET} # {}
        /\ seen \subseteq {"ADDR", "INVALID"}
    BY <1>1 DEF KeptGoing, TypeOK
  <2>. QED BY <2>1, <2>2 DEF AllInvalid, EofStatus, SUCCESS, INVALID, INVALID_NET
<1>7. /\ hist \in Seq([who : Who, file : Nat, line : Lines, ret : RetCode]) /\ Len(hist) <= MaxLines
      /\ ended' \subseteq [who : Who, file : Nat]
      /\ stdin_eof' \in BOOLEAN
  BY <1>1, <1>2, <1>4 DEF TypeOK
<1>n. \A j \in 1..Len(hist) : hist[j].file \in Nat
  <2>1. \A j \in 1..Len(hist) : hist[j] \in [who : Who, file : Nat, line : Lines, ret : RetCode]
    BY <1>7, ElementOf
  <2>. QED BY <2>1
<1>8. CASE EofStatus(seen) = SUCCESS
  <2>1. pc' = "files" /\ k' = k + 1 /\ exit' = -1
    BY <1>4, <1>8 DEF EndOfFile, main_interpret_parse_ret, INVALID, INVALID_NET, SUCCESS,
                      BAD_INFILE_DUP, READ_ERR
  <2>2. TypeOK'
    <3>1. k' \in 1..(Len(Sources(who))' + 1)
      BY <1>2, <1>3, <1>4, <2>1
    <3>. QED BY <1>1, <1>2, <1>7, <2>1, <3>1 DEF TypeOK
  <2>3. Control' /\ Listing'
    BY <1>1, <1>2, <1>4, <2>1 DEF Control, Listing, Starting, Stopped
  <2>4. FilesInOrder'
    <3>1. \A i \in 1..(k' - 1) : File(who, i) \in ended'
      <4>1. \A i \in 1..(k' - 1) : i \in 1..(k - 1) \/ i = k
        BY <1>4, <2>1
      <4>. QED BY <1>1, <1>2, <4>1 DEF FilesInOrder, AtInput, File
    <3>2. \A j \in 1..Len(hist) : hist[j].who = who => hist[j].file < k'
      BY <1>1, <1>4, <1>n, <2>1 DEF FilesInOrder, AtInput
    <3>3. \A f \in ended' : f.who = who => f.file < k'
      <4>1. \A f \in ended' : f.file \in Nat
        BY <1>7
      <4>. QED BY <1>1, <1>2, <1>4, <2>1, <4>1 DEF FilesInOrder, AtInput
    <3>4. /\ \A j \in 1..Len(hist) : hist[j].who = "purge" => who = "purge"
          /\ \A f \in ended' : f.who = "purge" => who = "purge"
      BY <1>1, <1>2 DEF FilesInOrder, AtInput
    <3>5. \A j \in 1..Len(hist) : hist[j].who = who => hist[j].file <= k'
      BY <1>4, <1>n, <2>1, <3>2
    <3>6. who # "main" => AllRead("main")'
      BY <1>1, <1>5 DEF FilesInOrder, Starting, Stopped
    <3>. QED BY <1>2, <2>1, <3>1, <3>2, <3>3, <3>4, <3>5, <3>6
             DEF FilesInOrder, AtInput, Starting, Stopped, File
  <2>5. KeptGoing'
    <3>1. \A f \in ended' : ~AllInvalid(LinesOf(f.who, f.file))
      BY <1>1, <1>2, <1>6, <1>8 DEF KeptGoing
    <3>2. \A f \in ended' : LinesOf(f.who, f.file)' = LinesOf(f.who, f.file)
      BY <1>3
    <3>. QED BY <1>1, <1>2, <2>1, <3>1, <3>2 DEF KeptGoing, AllInvalid
  <2>6. Built'
    BY <1>1, <1>2, <1>3, <2>1 DEF Built, Starting, Stopped, AtInput, Who
  <2>7. OutputIsDedup' /\ OutfileAfterInput' /\ KeepGoingPerFile'
    BY <1>2, <1>4, <2>1 DEF OutputIsDedup, OutfileAfterInput, KeepGoingPerFile, Ran
  <2>. QED BY <2>2, <2>3, <2>4, <2>5, <2>6, <2>7 DEF IInv
<1>9. CASE EofStatus(seen) = INVALID
  <2>1. pc' = "exit" /\ k' = k /\ exit' = EX_DATAERR
    BY <1>9 DEF EndOfFile, main_interpret_parse_ret, INVALID, INVALID_NET, SUCCESS,
                BAD_INFILE_DUP, READ_ERR, EX_DATAERR
  <2>2. TypeOK'
    <3>1. k' \in 1..(Len(Sources(who))' + 1)
      BY <1>2, <1>3, <1>4, <2>1
    <3>. QED BY <1>1, <1>2, <1>7, <2>1, <3>1 DEF TypeOK
  <2>3. Control' /\ FilesInOrder' /\ KeptGoing' /\ Built' /\ Listing'
    BY <1>2, <1>4, <2>1
       DEF Control, FilesInOrder, KeptGoing, Built, Listing, Starting, Stopped, AtInput, EX_DATAERR
  <2>4. OutputIsDedup' /\ OutfileAfterInput'
    BY <1>2, <1>4, <2>1 DEF OutputIsDedup, OutfileAfterInput, Ran, EX_DATAERR
  <2>5. KeepGoingPerFile'
    <3>1. AllInvalid(LinesOf(who, k))
      BY <1>6, <1>9 DEF SUCCESS, INVALID
    <3>2. g.want_keep_going
      <4>1. ASSUME ~g.want_keep_going PROVE LinesOf(who, k) \subseteq {SUCCESS}
        BY <1>1, <4>1 DEF KeptGoing, LinesOf
      <4>. QED BY <3>1, <4>1 DEF AllInvalid, SUCCESS, INVALID, INVALID_NET
    <3>3. [who |-> who, file |-> k] \in ended'
      BY <1>2
    <3>4. PICK f \in ended' : f.who = who /\ f.file = k
      BY <3>3
    <3>5. AllInvalid(LinesOf(f.who, f.file)')
      BY <1>3, <3>1, <3>4
    <3>. QED BY <1>2, <2>1, <3>2, <3>5 DEF KeepGoingPerFile, AllInvalid
  <2>. QED BY <2>2, <2>3, <2>4, <2>5 DEF IInv
<1>. QED BY <1>6, <1>8, <1>9

(***************************************************************************)
(* main_run() after the input.  These steps read no line and no file, and  *)
(* come after every line that might have stopped the run.                  *)
(***************************************************************************)
LEMMA FinishingInv ==
  ASSUME IInv, ~Stopped, ~Starting, pc' # "lines", exit' = -1 \/ (pc' = "exit" /\ exit' = 0),
         UNCHANGED <<opts, g, hist, ended>>
  PROVE  KeptGoing' /\ KeepGoingPerFile'
<1>1. KeptGoing /\ hist' = hist /\ g' = g /\ ended' = ended /\ pc # "exit"
  BY DEF IInv, Stopped
<1>2. \A w, i : LinesOf(w, i)' = LinesOf(w, i)
  BY <1>1, SameHistory
<1>3. /\ \A j \in 1..Len(hist) : hist[j].ret \in
            (IF g.want_keep_going THEN {SUCCESS, INVALID, INVALID_NET} ELSE {SUCCESS})
      /\ \A f \in ended : ~AllInvalid(LinesOf(f.who, f.file))
  BY <1>1 DEF KeptGoing
<1>4. \A f \in ended : LinesOf(f.who, f.file)' = LinesOf(f.who, f.file)
  BY <1>2
<1>5. KeptGoing'
  BY <1>1, <1>3, <1>4 DEF KeptGoing, AllInvalid
<1>6. KeepGoingPerFile'
  <2>. SUFFICES ASSUME pc' = "exit", exit' = 0
                PROVE  ~(IF g.want_keep_going
                         THEN \E f \in ended : LET r == LinesOf(f.who, f.file) IN
                                r # {} /\ r \subseteq {INVALID, INVALID_NET}
                         ELSE \E j \in 1..Len(hist) : hist[j].ret \in {INVALID, INVALID_NET})
    BY <1>1, <1>2, <1>4 DEF KeepGoingPerFile, EX_DATAERR
  <2>. QED BY <1>3 DEF AllInvalid, SUCCESS, INVALID, INVALID_NET
<1>. QED BY <1>5, <1>6

LEMMA EndOfInputInv == ASSUME IInv, EndOfInput PROVE IInv'
<1>1. TypeOK /\ Control /\ FilesInOrder /\ KeptGoing /\ Built /\ Listing
  BY DEF IInv
<1>2. /\ pc = "files" /\ pc' = IF who = "main" THEN "invert" ELSE "purge"
      /\ k > Len(Sources(who)) /\ opts' = opts /\ g' = g
      /\ tree' = tree /\ who' = who /\ k' = k /\ stream' = stream /\ seen' = seen
      /\ did_read_stdin' = did_read_stdin
      /\ stdin_eof' = stdin_eof /\ opened' = opened
      /\ printed' = printed /\ exit' = exit /\ hist' = hist /\ ended' = ended /\ failed' = failed
  BY DEF EndOfInput, readVars, outVars, histVars
<1>3. /\ \A w, i : LinesOf(w, i)' = LinesOf(w, i)
      /\ \A w \in Who, t \in Type : Named(w, t)' = Named(w, t)
      /\ \A t \in Type : Wanted(t)' = Wanted(t)
      /\ ShiftsDefined' <=> ShiftsDefined
      /\ \A w : Sources(w)' = Sources(w)
      /\ \A w : AllRead(w)' <=> AllRead(w)
  BY <1>2, SameHistory
<1>4. /\ k \in Nat /\ Len(Sources(who)) \in Nat /\ who \in Who /\ exit = -1 /\ ~opened
  BY <1>1, <1>2, SourcesType DEF TypeOK, Control, Stopped
<1>5. AllRead(who)
  <2>1. 1..Len(Sources(who)) \subseteq 1..(k - 1)
    BY <1>2, <1>4
  <2>. QED BY <1>1, <1>2, <2>1 DEF AllRead, FilesInOrder, AtInput
<1>6. TypeOK'
  BY <1>1, <1>2, <1>3 DEF TypeOK
<1>7. Control' /\ Listing'
  BY <1>1, <1>2, <1>3, <1>4 DEF Control, Listing, Starting, Stopped, Who
<1>8. FilesInOrder'
  BY <1>1, <1>2, <1>3, <1>4, <1>5 DEF FilesInOrder, Starting, Stopped, AtInput, Who
<1>9. Built'
  BY <1>1, <1>2, <1>3, <1>4 DEF Built, Starting, Stopped, AtInput, Who
<1>10. KeptGoing' /\ KeepGoingPerFile'
  BY <1>2, <1>4, FinishingInv DEF Starting, Stopped
<1>11. OutputIsDedup' /\ OutfileAfterInput'
  BY <1>2, <1>4 DEF OutputIsDedup, OutfileAfterInput, Ran
<1>. QED BY <1>6, <1>7, <1>8, <1>9, <1>10, <1>11 DEF IInv

\* The inversion, and what it leaves to be purged.
LEMMA InvertInv == ASSUME IInv, Invert PROVE IInv'
<1>1. TypeOK /\ Control /\ FilesInOrder /\ KeptGoing /\ Built /\ Listing
  BY DEF IInv
<1>2. /\ pc = "invert" /\ opts' = opts /\ g' = g /\ stream' = stream /\ seen' = seen
      /\ did_read_stdin' = did_read_stdin
      /\ stdin_eof' = stdin_eof /\ opened' = opened
      /\ printed' = printed /\ exit' = exit /\ hist' = hist /\ ended' = ended /\ failed' = failed
  BY DEF Invert, outVars, histVars
<1>3. /\ \A w, i : LinesOf(w, i)' = LinesOf(w, i)
      /\ \A w \in Who, t \in Type : Named(w, t)' = Named(w, t)
      /\ \A t \in Type : Wanted(t)' = Wanted(t)
      /\ ShiftsDefined' <=> ShiftsDefined
      /\ \A w : Sources(w)' = Sources(w)
      /\ \A w : AllRead(w)' <=> AllRead(w)
  BY <1>2, SameHistory
<1>4. /\ who = "main" /\ k \in Nat /\ exit = -1 /\ ~opened
      /\ tree \in [Who -> [Type -> SUBSET Address]]
  BY <1>1, <1>2 DEF TypeOK, Control, Stopped
<1>5. \/ g.purge_infiles = << >> /\ pc' = "open" /\ who' = "main" /\ k' = k
      \/ g.purge_infiles # << >> /\ pc' = "files" /\ who' = "purge" /\ k' = 1
  BY <1>4 DEF Invert
<1>6. /\ tree' \in [Who -> [Type -> SUBSET Address]]
      /\ \A t \in Type :
           /\ tree'["purge"][t] = tree["purge"][t]
           /\ tree'["main"][t] = IF g.want_invert /\ t \in g.tree_mode
                                 THEN Complement(tree["main"][t]) ELSE tree["main"][t]
  <2>1. \A t \in Type : Complement(tree["main"][t]) \in SUBSET Address
    BY DEF Complement
  <2>2. /\ g.want_invert =>
             tree' = [tree EXCEPT !["main"] = [t \in Type |-> IF t \in g.tree_mode THEN Complement(@[t]) ELSE @[t]]]
        /\ ~g.want_invert => tree' = tree
    BY DEF Invert
  <2>. QED BY <1>4, <2>1, <2>2 DEF Who
<1>7. \A t \in Type : t \notin g.tree_mode => Named("main", t) = {}
  BY DEF Named, Counts
<1>8. \A t \in Type : Named("purge", t) = {}
  <2>1. \A j \in 1..Len(hist) : hist[j].who # "purge"
    BY <1>1, <1>2, <1>4 DEF FilesInOrder
  <2>. QED BY <2>1 DEF Named
<1>9. ShiftsDefined => \A t \in Type : tree'["main"][t] = Wanted(t) /\ tree'["purge"][t] = {}
  <2>. SUFFICES ASSUME ShiftsDefined, NEW t \in Type
                PROVE  tree'["main"][t] = Wanted(t) /\ tree'["purge"][t] = {}
    OBVIOUS
  <2>1. tree["main"][t] = Named("main", t) /\ tree["purge"][t] = {}
    BY <1>1, <1>2, <1>4, <1>8 DEF Built, Starting, Stopped, AtInput
  <2>2. Wanted(t) = IF g.want_invert /\ t \in g.tree_mode
                    THEN Complement(Named("main", t)) ELSE Named("main", t)
    BY <1>7 DEF Wanted, Complement
  <2>. QED BY <1>6, <2>1, <2>2
<1>10. Built'
  <2>1. \A t \in Type : /\ Named("purge", t)' = {} /\ Wanted(t)' = Wanted(t)
                        /\ Wanted(t) \ {} = Wanted(t)
    BY <1>3, <1>8 DEF Who
  <2>. QED BY <1>2, <1>3, <1>5, <1>9, <2>1 DEF Built, Starting, Stopped, AtInput
<1>11. TypeOK'
  <2>1. Len(Sources("purge")) \in Nat
    BY <1>1, SourcesType DEF TypeOK, Who
  <2>2. pc' \in {"open", "files"} /\ who' \in Who /\ k' \in 1..(Len(Sources(who))' + 1)
    BY <1>1, <1>2, <1>3, <1>4, <1>5, <2>1 DEF TypeOK, Who
  <2>. QED BY <1>1, <1>2, <1>6, <2>2 DEF TypeOK
<1>12. Control' /\ Listing'
  BY <1>1, <1>2, <1>4, <1>5 DEF Control, Listing, Starting, Stopped
<1>13. FilesInOrder'
  <2>1. AllRead("main")'
    BY <1>1, <1>2, <1>3 DEF FilesInOrder, Starting, Stopped, AtInput
  <2>2. g.purge_infiles = << >> => AllRead("purge")'
    <3>1. g.purge_infiles = << >> => Len(Sources("purge")) = 0
      BY <1>1, SourcesType DEF TypeOK, Who
    <3>2. g.purge_infiles = << >> => AllRead("purge")
      BY <3>1 DEF AllRead
    <3>. QED BY <1>3, <3>2
  <2>3. /\ \A j \in 1..Len(hist) : hist[j].who # "purge"
        /\ \A f \in ended : f.who # "purge"
    BY <1>1, <1>2, <1>4 DEF FilesInOrder
  <2>. QED BY <1>2, <1>5, <2>1, <2>2, <2>3 DEF FilesInOrder, Starting, Stopped, AtInput
<1>14. KeptGoing' /\ KeepGoingPerFile'
  BY <1>2, <1>4, <1>5, FinishingInv DEF Starting, Stopped
<1>15. OutputIsDedup' /\ OutfileAfterInput'
  BY <1>2, <1>4, <1>5 DEF OutputIsDedup, OutfileAfterInput, Ran
<1>. QED BY <1>10, <1>11, <1>12, <1>13, <1>14, <1>15 DEF IInv

\* The steps from the purge on, which leave the input and its order alone.
LEMMA LastStepsInv ==
  ASSUME IInv, pc \in {"purge", "open", "print4", "print6"},
         \/ pc' \in {"open", "print4", "print6"} /\ exit' = -1
         \/ pc' = "exit" /\ exit' = 0,
         UNCHANGED <<opts, g, did_read_stdin, readVars, stdin_eof, hist, ended>>,
         tree' \in [Who -> [Type -> SUBSET Address]],
         printed' \in [Type -> SUBSET SUBSET Address], failed' \in BOOLEAN, opened' \in BOOLEAN,
         opened' => pc' # "open"
  PROVE  /\ TypeOK' /\ Control' /\ FilesInOrder' /\ KeptGoing'
         /\ OutfileAfterInput' /\ KeepGoingPerFile'
         /\ \A t \in Type : /\ Named("purge", t)' = Named("purge", t)
                            /\ Wanted(t)' = Wanted(t) /\ Listed(t)' = Listed(t)
         /\ ShiftsDefined' <=> ShiftsDefined
<1>1. TypeOK /\ Control /\ FilesInOrder /\ OutfileAfterInput
  BY DEF IInv
<1>2. /\ opts' = opts /\ g' = g /\ who' = who /\ k' = k /\ stream' = stream /\ seen' = seen
      /\ did_read_stdin' = did_read_stdin /\ stdin_eof' = stdin_eof
      /\ hist' = hist /\ ended' = ended
  BY DEF readVars
<1>3. /\ \A w \in Who, t \in Type : Named(w, t)' = Named(w, t)
      /\ \A t \in Type : Wanted(t)' = Wanted(t) /\ Listed(t)' = Listed(t)
      /\ ShiftsDefined' <=> ShiftsDefined
      /\ \A w : Sources(w)' = Sources(w)
      /\ \A w : AllRead(w)' <=> AllRead(w)
  BY <1>2, SameHistory
<1>4. TypeOK'
  BY <1>1, <1>2, <1>3 DEF TypeOK
<1>5. Control'
  BY <1>1, <1>2, <1>3 DEF Control, Starting, Stopped
<1>6. FilesInOrder'
  BY <1>1, <1>2, <1>3 DEF FilesInOrder, Starting, Stopped, AtInput
<1>7. KeptGoing' /\ KeepGoingPerFile'
  BY <1>2, FinishingInv DEF Starting, Stopped
<1>8. OutfileAfterInput'
  <2>1. AllRead("main") /\ AllRead("purge")
    BY <1>1 DEF FilesInOrder, Starting, Stopped, AtInput
  <2>2. \A w \in Who : \A i \in 1..Len(Sources(w)) : [who |-> w, file |-> i] \in ended
    BY <2>1 DEF AllRead, File, Who
  <2>. QED BY <1>2, <1>3, <2>2 DEF OutfileAfterInput
<1>9. \A t \in Type : Named("purge", t)' = Named("purge", t)
  BY <1>3 DEF Who
<1>. QED BY <1>3, <1>4, <1>5, <1>6, <1>7, <1>8, <1>9

LEMMA PurgeInv == ASSUME IInv, Purge PROVE IInv'
<1>1. TypeOK /\ Control /\ Built /\ Listing
  BY DEF IInv
<1>2. /\ pc = "purge" /\ pc' = "open" /\ opened' = opened /\ printed' = printed
      /\ failed' = failed /\ exit' = exit /\ exit = -1 /\ ~opened /\ who = "purge"
      /\ tree' = [tree EXCEPT !["main"] = [t \in Type |-> @[t] \ tree["purge"][t]]]
      /\ UNCHANGED <<opts, g, did_read_stdin, readVars, stdin_eof, hist, ended>>
  BY <1>1 DEF Purge, outVars, histVars, Control, Stopped
<1>3. /\ tree' \in [Who -> [Type -> SUBSET Address]]
      /\ \A t \in Type : /\ tree'["main"][t] = tree["main"][t] \ tree["purge"][t]
                         /\ tree'["purge"][t] = tree["purge"][t]
  <2>1. tree \in [Who -> [Type -> SUBSET Address]]
    BY <1>1 DEF TypeOK
  <2>. QED BY <1>2, <2>1 DEF Who
<1>4. /\ TypeOK' /\ Control' /\ FilesInOrder' /\ KeptGoing'
      /\ OutfileAfterInput' /\ KeepGoingPerFile'
      /\ \A t \in Type : Named("purge", t)' = Named("purge", t) /\ Wanted(t)' = Wanted(t)
      /\ ShiftsDefined' <=> ShiftsDefined
  BY <1>1, <1>2, <1>3, LastStepsInv DEF TypeOK
<1>5. Built'
  BY <1>1, <1>2, <1>3, <1>4 DEF Built, Starting, Stopped, AtInput
<1>6. Listing' /\ OutputIsDedup'
  BY <1>1, <1>2 DEF Listing, OutputIsDedup, Ran
<1>. QED BY <1>4, <1>5, <1>6 DEF IInv

LEMMA OpenOutstreamInv == ASSUME IInv, OpenOutstream PROVE IInv'
<1>1. TypeOK /\ Control /\ Built /\ Listing
  BY DEF IInv
<1>2. /\ pc = "open" /\ pc' = "print4" /\ opened' = g.outfile /\ printed' = printed
      /\ failed' = failed /\ exit' = exit /\ exit = -1 /\ tree' = tree
      /\ UNCHANGED <<opts, g, did_read_stdin, readVars, stdin_eof, hist, ended>>
  BY <1>1 DEF OpenOutstream, histVars, Control, Stopped
<1>3. opened' \in BOOLEAN
  BY <1>1, <1>2 DEF TypeOK, Globals
<1>4. /\ TypeOK' /\ Control' /\ FilesInOrder' /\ KeptGoing'
      /\ OutfileAfterInput' /\ KeepGoingPerFile'
      /\ \A t \in Type : Named("purge", t)' = Named("purge", t) /\ Wanted(t)' = Wanted(t)
      /\ ShiftsDefined' <=> ShiftsDefined
  BY <1>1, <1>2, <1>3, LastStepsInv DEF TypeOK
<1>5. Built'
  BY <1>1, <1>2, <1>4 DEF Built, Starting, Stopped, AtInput
<1>6. Listing' /\ OutputIsDedup'
  BY <1>1, <1>2 DEF Listing, OutputIsDedup, Ran
<1>. QED BY <1>4, <1>5, <1>6 DEF IInv

\* Printing lists what the tree stands for, of the types of the mode.
LEMMA PrintTreeLists ==
  ASSUME TypeOK, Built, pc \in {"print4", "print6"}, NEW t \in Type, PrintTree(t)
  PROVE  /\ printed' \in [Type -> SUBSET SUBSET Address]
         /\ \A u \in Type : u # t => printed'[u] = printed[u]
         /\ ShiftsDefined /\ printed[t] = {} => printed'[t] = Listed(t)
<1>1. printed \in [Type -> SUBSET SUBSET Address] /\ tree["main"][t] \in SUBSET Address
  BY DEF TypeOK, Who
<1>2. ShiftsDefined => tree["main"][t] = Wanted(t) \ Named("purge", t)
  BY DEF Built, Starting, Stopped
<1>. QED BY <1>1, <1>2 DEF PrintTree, Listed

LEMMA PrintV4Inv == ASSUME IInv, PrintV4 \/ PrintV4NoMemory PROVE IInv'
<1>1. TypeOK /\ Control /\ Built /\ Listing
  BY DEF IInv
<1>2. /\ pc = "print4" /\ pc' = "print6" /\ opened' = opened /\ exit' = exit /\ exit = -1
      /\ tree' = tree /\ UNCHANGED <<opts, g, did_read_stdin, readVars, stdin_eof, hist, ended>>
      /\ \/ PrintTree("v4") /\ failed' = failed
         \/ printed' = printed /\ failed' = TRUE
  BY <1>1 DEF PrintV4, PrintV4NoMemory, outVars, histVars, Control, Stopped
<1>3. /\ printed' \in [Type -> SUBSET SUBSET Address]
      /\ printed'["v6"] = {}
      /\ ShiftsDefined /\ ~failed' => printed'["v4"] = Listed("v4")
  <2>1. printed = [t \in Type |-> {}]
    BY <1>1, <1>2 DEF Listing
  <2>. QED BY <1>1, <1>2, <2>1, PrintTreeLists DEF Type
<1>4. failed' \in BOOLEAN
  BY <1>1, <1>2 DEF TypeOK
<1>5. /\ TypeOK' /\ Control' /\ FilesInOrder' /\ KeptGoing'
      /\ OutfileAfterInput' /\ KeepGoingPerFile'
      /\ \A t \in Type : /\ Named("purge", t)' = Named("purge", t)
                         /\ Wanted(t)' = Wanted(t) /\ Listed(t)' = Listed(t)
      /\ ShiftsDefined' <=> ShiftsDefined
  BY <1>1, <1>2, <1>3, <1>4, LastStepsInv DEF TypeOK
<1>6. Built'
  BY <1>1, <1>2, <1>5 DEF Built, Starting, Stopped, AtInput
<1>7. Listing' /\ OutputIsDedup'
  <2>1. Listed("v4")' = Listed("v4")
    BY <1>5 DEF Type
  <2>. QED BY <1>2, <1>3, <1>5, <2>1 DEF Listing, OutputIsDedup, Ran
<1>. QED BY <1>5, <1>6, <1>7 DEF IInv

LEMMA PrintV6Inv == ASSUME IInv, PrintV6 PROVE IInv'
<1>1. TypeOK /\ Control /\ Built /\ Listing
  BY DEF IInv
<1>2. /\ pc = "print6" /\ pc' = "exit" /\ opened' = opened /\ exit' = 0
      /\ tree' = tree /\ UNCHANGED <<opts, g, did_read_stdin, readVars, stdin_eof, hist, ended>>
      /\ PrintTree("v6") /\ failed' = failed
  BY <1>1 DEF PrintV6, histVars
<1>3. /\ printed' \in [Type -> SUBSET SUBSET Address]
      /\ ShiftsDefined /\ ~failed => printed'["v4"] = Listed("v4") /\ printed'["v6"] = Listed("v6")
  BY <1>1, <1>2, PrintTreeLists DEF Type, Listing
<1>4. /\ TypeOK' /\ Control' /\ FilesInOrder' /\ KeptGoing'
      /\ OutfileAfterInput' /\ KeepGoingPerFile'
      /\ \A t \in Type : Listed(t)' = Listed(t)
      /\ ShiftsDefined' <=> ShiftsDefined
  BY <1>1, <1>2, <1>3, LastStepsInv DEF TypeOK
<1>5. Built' /\ Listing'
  BY <1>2 DEF Built, Listing, Starting, Stopped, AtInput
<1>6. OutputIsDedup'
  BY <1>2, <1>3, <1>4 DEF OutputIsDedup, Ran, Type
<1>. QED BY <1>4, <1>5, <1>6 DEF IInv

\* The compact IPv6 output, the JSON one and the plain one do not agree
\* whether it is an error that the list is missing.
LEMMA PrintV6NoMemoryInv == ASSUME IInv, PrintV6NoMemory PROVE IInv'
<1>1. TypeOK /\ Control /\ Built /\ Listing /\ pc = "print6"
  BY DEF IInv, PrintV6NoMemory
<1>2. failed' = TRUE /\ Exit(IF g.want_json_output \/ g.want_long_output THEN 0 ELSE EX_SOFTWARE)
  BY DEF PrintV6NoMemory, NoMemory
<1>3. CASE ~(g.want_json_output \/ g.want_long_output)
  <2>1. Exit(EX_SOFTWARE)
    BY <1>2, <1>3
  <2>. QED BY <1>1, <1>2, <2>1, ExitInv DEF Stopped
<1>4. CASE g.want_json_output \/ g.want_long_output
  <2>1. /\ pc' = "exit" /\ opened' = opened /\ exit' = 0 /\ printed' = printed
        /\ tree' = tree /\ UNCHANGED <<opts, g, did_read_stdin, readVars, stdin_eof, hist, ended>>
    BY <1>2, <1>4 DEF Exit, outVars
  <2>2. /\ TypeOK' /\ Control' /\ FilesInOrder' /\ KeptGoing'
        /\ OutfileAfterInput' /\ KeepGoingPerFile'
    BY <1>1, <1>2, <2>1, LastStepsInv DEF TypeOK
  <2>3. Built' /\ Listing' /\ OutputIsDedup'
    BY <1>2, <2>1 DEF Built, Listing, OutputIsDedup, Starting, Stopped, AtInput
  <2>. QED BY <2>2, <2>3 DEF IInv
<1>. QED BY <1>3, <1>4

LEMMA LeaveEarlyInv == ASSUME IInv, LeaveEarly PROVE IInv'
<1>1. TypeOK /\ Control /\ Listing
  BY DEF IInv
<1>2. /\ pc = "options" /\ pc' = "left" /\ exit' \in {0, EXIT_FAILURE, EX_USAGE, EX_OSERR}
      /\ opts' = opts /\ g' = g /\ who' = who /\ k' = k /\ stream' = stream /\ seen' = seen
      /\ did_read_stdin' = did_read_stdin /\ stdin_eof' = stdin_eof /\ tree' = tree
      /\ hist' = hist /\ ended' = ended /\ opened' = opened /\ printed' = printed
      /\ failed' = failed
  BY DEF LeaveEarly, readVars, outVars, histVars
<1>3. exit' # -1 /\ ~opened /\ hist = << >> /\ ended = {} /\ 1..Len(hist) = {}
  BY <1>1, <1>2 DEF Control, Starting, EXIT_FAILURE, EX_USAGE, EX_OSERR
<1>4. TypeOK'
  <2>1. Sources(who)' = Sources(who)
    BY <1>2, SameHistory
  <2>. QED BY <1>1, <1>2, <2>1 DEF TypeOK
<1>5. Control' /\ FilesInOrder' /\ KeptGoing' /\ Built' /\ Listing'
  BY <1>1, <1>2, <1>3
     DEF Control, FilesInOrder, KeptGoing, Built, Listing, Starting, Stopped, AtInput
<1>6. OutputIsDedup' /\ OutfileAfterInput' /\ KeepGoingPerFile'
  BY <1>2, <1>3 DEF OutputIsDedup, OutfileAfterInput, KeepGoingPerFile, Ran
<1>. QED BY <1>4, <1>5, <1>6 DEF IInv

(***************************************************************************)
(* The options, and everything together.                                   *)
(***************************************************************************)
\* The options, with the sets that no flag is about left open.
GlobalsOf(M, L, F) ==
  [tree_mode : M, collapse_prefixlen : L,
   want_invert : BOOLEAN, want_keep_going : BOOLEAN, want_strict : BOOLEAN,
   want_long_output : BOOLEAN, want_redux_output : BOOLEAN, want_json_output : BOOLEAN,
   outfile : BOOLEAN, datadir : BOOLEAN, infiles : F, purge_infiles : F]

LEMMA GlobalsAre == Globals = GlobalsOf(SUBSET Type, [Type -> 0..255], Seq(FileArgs))
BY DEF Globals, GlobalsOf

LEMMA SetFlag ==
  ASSUME g \in Globals, NEW b \in BOOLEAN,
         \/ g' = [g EXCEPT !.want_invert = b] \/ g' = [g EXCEPT !.want_keep_going = b]
         \/ g' = [g EXCEPT !.want_strict = b] \/ g' = [g EXCEPT !.want_long_output = b]
         \/ g' = [g EXCEPT !.want_redux_output = b] \/ g' = [g EXCEPT !.want_json_output = b]
         \/ g' = [g EXCEPT !.outfile = b] \/ g' = [g EXCEPT !.datadir = b]
  PROVE  g' \in Globals /\ g'.infiles = g.infiles /\ g'.purge_infiles = g.purge_infiles
<1>. DEFINE M == SUBSET Type
            L == [Type -> 0..255]
            F == Seq(FileArgs)
<1>0. g \in GlobalsOf(M, L, F) /\ (g' \in GlobalsOf(M, L, F) => g' \in Globals)
  BY GlobalsAre
<1>. HIDE DEF M, L, F
<1>1. CASE g' = [g EXCEPT !.want_invert = b]
  BY <1>0, <1>1 DEF GlobalsOf
<1>2. CASE g' = [g EXCEPT !.want_keep_going = b]
  BY <1>0, <1>2 DEF GlobalsOf
<1>3. CASE g' = [g EXCEPT !.want_strict = b]
  BY <1>0, <1>3 DEF GlobalsOf
<1>4. CASE g' = [g EXCEPT !.want_long_output = b]
  BY <1>0, <1>4 DEF GlobalsOf
<1>5. CASE g' = [g EXCEPT !.want_redux_output = b]
  BY <1>0, <1>5 DEF GlobalsOf
<1>6. CASE g' = [g EXCEPT !.want_json_output = b]
  BY <1>0, <1>6 DEF GlobalsOf
<1>7. CASE g' = [g EXCEPT !.outfile = b]
  BY <1>0, <1>7 DEF GlobalsOf
<1>8. CASE g' = [g EXCEPT !.datadir = b]
  BY <1>0, <1>8 DEF GlobalsOf
<1>. QED BY <1>1, <1>2, <1>3, <1>4, <1>5, <1>6, <1>7, <1>8

LEMMA SetOption ==
  ASSUME IInv, NEW o,
         \/ OptMode(o) /\ o \in DOMAIN ModeOf
         \/ OptFlag(o) /\ o \in DOMAIN Flag
         \/ \E b \in BOOLEAN : OptDatadir(b) \/ OptOutfile(b)
  PROVE  IInv'
<1>1. g \in Globals /\ Len(g.infiles) <= MaxFiles /\ Len(g.purge_infiles) <= MaxFiles
  BY DEF IInv, TypeOK
<1>2. CASE OptMode(o) /\ o \in DOMAIN ModeOf
  <2>1. ModeOf[o] \in SUBSET Type
    BY <1>2 DEF ModeOf, Type
  <2>2. g' = [g EXCEPT !.tree_mode = ModeOf[o]] /\ Option(o)
    BY <1>2 DEF OptMode
  <2>3. g' \in Globals /\ g'.infiles = g.infiles /\ g'.purge_infiles = g.purge_infiles
    <3>. DEFINE m == ModeOf[o]
                M == SUBSET Type
                L == [Type -> 0..255]
                F == Seq(FileArgs)
    <3>1. m \in M /\ g \in GlobalsOf(M, L, F) /\ (g' \in GlobalsOf(M, L, F) => g' \in Globals)
      BY <1>1, <2>1, GlobalsAre
    <3>2. g' = [g EXCEPT !.tree_mode = m]
      BY <2>2
    <3>. HIDE DEF m, M, L, F
    <3>. QED BY <3>1, <3>2 DEF GlobalsOf
  <2>. QED BY <1>1, <2>2, <2>3, OptionInv
<1>3. CASE OptFlag(o) /\ o \in DOMAIN Flag
  <2>1. Flag[o] \in {"want_invert", "want_keep_going", "want_strict", "want_long_output",
                     "want_redux_output", "want_json_output"}
    BY <1>3 DEF Flag
  <2>2. g' = [g EXCEPT ![Flag[o]] = TRUE] /\ Option(o)
    BY <1>3 DEF OptFlag
  <2>3. \/ g' = [g EXCEPT !.want_invert = TRUE] \/ g' = [g EXCEPT !.want_keep_going = TRUE]
        \/ g' = [g EXCEPT !.want_strict = TRUE] \/ g' = [g EXCEPT !.want_long_output = TRUE]
        \/ g' = [g EXCEPT !.want_redux_output = TRUE] \/ g' = [g EXCEPT !.want_json_output = TRUE]
    BY <2>1, <2>2
  <2>4. g' \in Globals /\ g'.infiles = g.infiles /\ g'.purge_infiles = g.purge_infiles
    BY <1>1, <2>3, SetFlag
  <2>. QED BY <1>1, <2>2, <2>4, OptionInv
<1>4. ASSUME NEW b \in BOOLEAN, OptDatadir(b) \/ OptOutfile(b) PROVE IInv'
  <2>1. g' = [g EXCEPT !.datadir = b] \/ g' = [g EXCEPT !.outfile = b]
    BY <1>4 DEF OptDatadir, OptOutfile
  <2>2. g' \in Globals /\ g'.infiles = g.infiles /\ g'.purge_infiles = g.purge_infiles
    BY <1>1, <2>1, SetFlag
  <2>3. Option("D") \/ Option("o")
    BY <1>4 DEF OptDatadir, OptOutfile
  <2>. QED BY <1>1, <2>2, <2>3, OptionInv
<1>. QED BY <1>2, <1>3, <1>4

LEMMA SetLength ==
  ASSUME IInv, NEW o, NEW t \in Type, NEW v \in LenArgs \union {64}, OptCollapse(o, t, v)
  PROVE  IInv'
<1>1. g \in Globals /\ Len(g.infiles) <= MaxFiles /\ Len(g.purge_infiles) <= MaxFiles
  BY DEF IInv, TypeOK
<1>2. v \in Nat
  BY DedupAssumption
<1>3. Option(o) /\ g' = IF v <= 255 THEN [g EXCEPT !.collapse_prefixlen[t] = v] ELSE g
  BY DEF OptCollapse
<1>4. g' \in Globals /\ g'.infiles = g.infiles /\ g'.purge_infiles = g.purge_infiles
  <2>1. CASE v <= 255
    <3>1. g' = [g EXCEPT !.collapse_prefixlen = [g.collapse_prefixlen EXCEPT ![t] = v]]
      BY <1>3, <2>1
    <3>2. [g.collapse_prefixlen EXCEPT ![t] = v] \in [Type -> 0..255]
      BY <1>1, <1>2, <2>1 DEF Globals
    <3>. QED BY <1>1, <3>1, <3>2 DEF Globals
  <2>. QED BY <1>1, <1>2, <1>3, <2>1
<1>. QED BY <1>1, <1>3, <1>4, OptionInv

LEMMA FileArgument ==
  ASSUME IInv, NEW arg \in FileArgs, OptPurge(arg) \/ PushInfile(arg)
  PROVE  IInv'
<1>1. g \in Globals /\ Len(g.infiles) <= MaxFiles /\ Len(g.purge_infiles) <= MaxFiles
      /\ g.infiles \in Seq(FileArgs) /\ g.purge_infiles \in Seq(FileArgs) /\ MaxFiles \in Nat
  BY DedupAssumption DEF IInv, TypeOK, Globals
<1>2. CASE OptPurge(arg)
  <2>1. /\ Option("p") /\ Len(g.purge_infiles) < MaxFiles
        /\ g' = [g EXCEPT !.purge_infiles = Append(g.purge_infiles, arg)]
    BY <1>2 DEF OptPurge
  <2>2. /\ Append(g.purge_infiles, arg) \in Seq(FileArgs)
        /\ Len(Append(g.purge_infiles, arg)) = Len(g.purge_infiles) + 1
        /\ Len(g.purge_infiles) \in Nat
    BY <1>1
  <2>3. g' \in Globals /\ g'.infiles = g.infiles
        /\ g'.purge_infiles = Append(g.purge_infiles, arg)
    BY <1>1, <2>1, <2>2 DEF Globals
  <2>4. Len(g'.infiles) <= MaxFiles /\ Len(g'.purge_infiles) <= MaxFiles
    BY <1>1, <2>1, <2>2, <2>3
  <2>. QED BY <2>1, <2>3, <2>4, OptionInv
<1>3. CASE PushInfile(arg)
  <2>1. /\ Starting /\ Starting' /\ Len(g.infiles) < MaxFiles
        /\ g' = [g EXCEPT !.infiles = Append(g.infiles, arg)]
        /\ UNCHANGED <<opts, tree, did_read_stdin, readVars, stdin_eof, outVars, exit, histVars>>
    BY <1>3 DEF PushInfile, Starting
  <2>2. /\ Append(g.infiles, arg) \in Seq(FileArgs)
        /\ Len(Append(g.infiles, arg)) = Len(g.infiles) + 1
        /\ Len(g.infiles) \in Nat
    BY <1>1
  <2>3. g' \in Globals /\ g'.purge_infiles = g.purge_infiles
        /\ g'.infiles = Append(g.infiles, arg)
    BY <1>1, <2>1, <2>2 DEF Globals
  <2>5. Len(g'.infiles) <= MaxFiles /\ Len(g'.purge_infiles) <= MaxFiles
    BY <1>1, <2>1, <2>2, <2>3
  <2>4. opts' \in 0..MaxOptions
    BY <2>1 DEF IInv, TypeOK
  <2>. QED BY <2>1, <2>3, <2>4, <2>5, SettingInv
<1>. QED BY <1>2, <1>3

LEMMA CommandLineInv == ASSUME IInv, CommandLine PROVE IInv'
<1>1. g \in Globals /\ Len(g.infiles) <= MaxFiles /\ Len(g.purge_infiles) <= MaxFiles
      /\ opts \in 0..MaxOptions /\ Control /\ failed \in BOOLEAN
  BY DEF IInv, TypeOK
<1>2. Starting => ~opened /\ ~Stopped
  BY <1>1 DEF Control, Starting, Stopped
<1>3. CASE \E o \in DOMAIN ModeOf : OptMode(o)
  BY <1>3, SetOption
<1>4. CASE \E v \in LenArgs : OptCollapse("B", "v4", v) \/ OptCollapse("C", "v6", v)
  BY <1>4, SetLength DEF Type
<1>5. CASE \E o \in DOMAIN Flag : OptFlag(o)
  BY <1>5, SetOption
<1>6. CASE \E b \in BOOLEAN : OptDatadir(b) \/ OptOutfile(b)
  BY <1>6, SetOption
<1>7. CASE OptCollapse("c", "v6", 64)
  BY <1>7, SetLength DEF Type
<1>8. CASE OptMissingArgument
  BY <1>1, <1>2, <1>8, ExitInv DEF OptMissingArgument, Starting
<1>9. CASE LeaveEarly
  BY <1>9, LeaveEarlyInv
<1>10. ASSUME NEW arg \in FileArgs, BadFileArg(arg) PROVE IInv'
  <2>1. PICK code \in PushCodes(arg) \ {0} : Exit(code)
    BY <1>10 DEF BadFileArg
  <2>2. code \in {EX_USAGE, EX_IOERR}
    BY DEF PushCodes
  <2>3. Starting /\ failed' = failed
    BY <1>10 DEF BadFileArg, Starting
  <2>. QED BY <1>1, <1>2, <2>1, <2>2, <2>3, ExitInv
<1>11. CASE \E arg \in FileArgs : OptPurge(arg) \/ PushInfile(arg) \/ BadFileArg(arg)
  BY <1>10, <1>11, FileArgument
<1>12. CASE SetupNoMemory
  BY <1>1, <1>2, <1>12, ExitInv DEF SetupNoMemory, NoMemory, Starting
<1>13. CASE EndOptions
  <2>1. /\ Starting /\ Starting' /\ g' = g /\ opts' = opts
        /\ UNCHANGED <<tree, did_read_stdin, readVars, stdin_eof, outVars, exit, histVars>>
    BY <1>13 DEF EndOptions, Starting
  <2>. QED BY <1>1, <2>1, SettingInv
<1>14. CASE EndArguments
  BY <1>14, EndArgumentsInv
<1>. QED BY <1>3, <1>4, <1>5, <1>6, <1>7, <1>8, <1>9, <1>11, <1>12, <1>13, <1>14 DEF CommandLine

LEMMA ReadingInv == ASSUME IInv, Reading PROVE IInv'
<1>1. Control /\ failed \in BOOLEAN
  BY DEF IInv, TypeOK
<1>2. AtInput => ~opened /\ ~Stopped
  BY <1>1 DEF Control, AtInput, Stopped
<1>3. ASSUME NEW ret \in {BAD_INFILE_DUP, READ_ERR, FAIL}
      PROVE  main_interpret_parse_ret(ret) \in {EX_USAGE, EX_IOERR, EX_SOFTWARE}
  BY DEF main_interpret_parse_ret, BAD_INFILE_DUP, READ_ERR, FAIL, SUCCESS, INVALID, INVALID_NET
<1>4. CASE OpenStream
  BY <1>4, OpenStreamInv
<1>5. CASE StdinTwice
  <2>1. AtInput /\ failed' = failed /\ Exit(main_interpret_parse_ret(BAD_INFILE_DUP))
    BY <1>5 DEF StdinTwice, ParseFails, AtInput
  <2>. QED BY <1>1, <1>2, <1>3, <2>1, ExitInv
<1>6. CASE OpenFails
  <2>1. AtInput /\ failed' = failed /\ Exit(main_interpret_parse_ret(READ_ERR))
    BY <1>6 DEF OpenFails, ParseFails, AtInput
  <2>. QED BY <1>1, <1>2, <1>3, <2>1, ExitInv
<1>7. ASSUME NEW l \in Lines, SkipLine(l) PROVE IInv'
  <2>1. UNCHANGED vars
    BY <1>7 DEF SkipLine
  <2>. QED BY <2>1, UnchangedInv
<1>8. ASSUME NEW l \in Lines, InsertNoMemory(l) PROVE IInv'
  <2>1. AtInput /\ failed' = TRUE /\ Exit(main_interpret_parse_ret(FAIL))
    BY <1>8 DEF InsertNoMemory, NoMemory, MoreLines, AtInput
  <2>. QED BY <1>1, <1>2, <1>3, <2>1, ExitInv
<1>9. CASE \E l \in Lines : \/ SkipLine(l) \/ ReadAddress(l) \/ InsertNoMemory(l)
                            \/ SkipInvalid(l) \/ StopAtLine(l)
  BY <1>7, <1>8, <1>9, ReadAddressInv, SkipInvalidInv, StopAtLineInv
<1>10. CASE ReadFails
  <2>1. AtInput /\ failed' = failed /\ Exit(main_interpret_parse_ret(READ_ERR))
    BY <1>10 DEF ReadFails, ParseFails, AtInput
  <2>. QED BY <1>1, <1>2, <1>3, <2>1, ExitInv
<1>11. CASE EndOfFile
  BY <1>11, EndOfFileInv
<1>12. CASE EndOfInput
  BY <1>12, EndOfInputInv
<1>. QED BY <1>4, <1>5, <1>6, <1>9, <1>10, <1>11, <1>12 DEF Reading

LEMMA LastInv == ASSUME IInv, Finishing PROVE IInv'
<1>1. Control /\ failed \in BOOLEAN
  BY DEF IInv, TypeOK
<1>2. pc \in {"invert", "purge", "open"} => ~opened /\ ~Stopped
  BY <1>1 DEF Control, Stopped
<1>3. CASE Invert \/ Purge \/ OpenOutstream \/ PrintV4 \/ PrintV4NoMemory \/ PrintV6
            \/ PrintV6NoMemory
  BY <1>3, InvertInv, PurgeInv, OpenOutstreamInv, PrintV4Inv, PrintV6Inv, PrintV6NoMemoryInv
<1>4. CASE InvertNoMemory \/ PurgeNoMemory
  <2>1. failed' = TRUE /\ Exit(EX_SOFTWARE) /\ pc \in {"invert", "purge", "open"}
    BY <1>4 DEF InvertNoMemory, PurgeNoMemory, NoMemory
  <2>. QED BY <1>2, <2>1, ExitInv
<1>5. CASE CannotCreate
  <2>1. failed' = failed /\ Exit(EX_CANTCREAT) /\ pc \in {"invert", "purge", "open"}
    BY <1>5 DEF CannotCreate
  <2>. QED BY <1>1, <1>2, <2>1, ExitInv
<1>. QED BY <1>3, <1>4, <1>5 DEF Finishing

\* Every reachable state satisfies the inductive invariant.
THEOREM Invariance == Spec => []IInv
<1>1. Init => IInv
  BY InitInv
<1>2. IInv /\ [Next]_vars => IInv'
  <2>. SUFFICES ASSUME IInv, [Next]_vars PROVE IInv'
    OBVIOUS
  <2>1. CASE UNCHANGED vars
    BY <2>1, UnchangedInv
  <2>2. CASE Exited
    BY <2>2, UnchangedInv DEF Exited
  <2>. QED BY <2>1, <2>2, CommandLineInv, ReadingInv, LastInv DEF Next
<1>. QED BY <1>1, <1>2, PTL DEF Spec

\* The options, the trees, the files and the exit code are what the program
\* declares them to be.
THEOREM TypeCorrect == Spec => []TypeOK
<1>1. IInv => TypeOK
  BY DEF IInv
<1>. QED BY <1>1, Invariance, PTL

\* A run that ends with 0 has printed the networks the input names, inverted
\* if asked to, without those of the purge files.
THEOREM OutputCorrect == Spec => []OutputIsDedup
<1>1. IInv => OutputIsDedup
  BY DEF IInv
<1>. QED BY <1>1, Invariance, PTL

\* The output file is opened when all input has been read, and not before.
THEOREM OutfileLast == Spec => []OutfileAfterInput
<1>1. IInv => OutfileAfterInput
  BY DEF IInv
<1>. QED BY <1>1, Invariance, PTL

\* A keep-going run ends with 65 exactly when one of its files had lines and
\* none of them valid, a run that stops at errors when a line was invalid: no
\* file's keep_going_status is taken for another one's.
THEOREM ExitCodeCorrect == Spec => []KeepGoingPerFile
<1>1. IInv => KeepGoingPerFile
  BY DEF IInv
<1>. QED BY <1>1, Invariance, PTL

=============================================================================
