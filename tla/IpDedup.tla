------------------------------- MODULE IpDedup -------------------------------
(***************************************************************************)
(* The program around the trees: options, input files, tree operations,    *)
(* output and exit code (src/app/ip-dedup/main.c, globals.c,               *)
(* src/ip_tree_io/builder.c and print.c, src/util/parse_ip/parsefile.c,    *)
(* mixed.c and src/util/readfile.c).                                       *)
(*                                                                         *)
(* A tree is the set of addresses it stands for, which is what IpTree is   *)
(* shown to implement; a line of a file is what the address parsers make   *)
(* of it.  What a file holds is decided as it is read.                     *)
(***************************************************************************)
EXTENDS IpAddr, Integers, FiniteSets

CONSTANTS Lines,                \* the lines a file may have
          Options,              \* the options that may be given
          FileArgs,             \* the file names that may be given
          LenArgs,              \* what -B and -C are given; 256 is no octet
          GuessedModes,         \* what the program's name may stand for
          MayFail,              \* what may fail: "memory", "read", "open", "create"
          MaxOptions, MaxFiles, MaxLines

Type == {"v4", "v6"}

RetCode == -4..5                \* PARSE_IP_RET_*
BAD_INFILE_DUP == -4
READ_ERR == -2
FAIL == -1
SUCCESS == 0
INVALID == 1
INVALID_NET == 2
DID_NOT_TRY == 3
NOT_IMPLEMENTED == 4

\* A line: blank or a comment, or the types its characters may be of and
\* what each type's parser returns for it.
Line == [skip : BOOLEAN, guess : SUBSET Type,
         ret : [Type -> {SUCCESS, INVALID, NOT_IMPLEMENTED}], addr : [Type -> Addr]]

ASSUME DedupAssumption ==
  /\ Lines \subseteq Line
  /\ GuessedModes \subseteq (SUBSET Type) \ {{}}
  /\ LenArgs \subseteq 0..256
  /\ {MaxOptions, MaxFiles, MaxLines} \subseteq Nat

EXIT_FAILURE == 1
EX_USAGE == 64
EX_DATAERR == 65
EX_SOFTWARE == 70
EX_OSERR == 71
EX_CANTCREAT == 73
EX_IOERR == 74

Who == {"main", "purge"}        \* the two tree builders

VARIABLES pc,                   \* where main_inner() and main_run() are
          opts,                 \* options read so far
          g,                    \* struct ipdedup_globals
          tree,                 \* what each builder's trees stand for
          did_read_stdin,       \* of each builder
          who, k, stream, seen, \* the builder that reads, its file, the
                                \* open stream, keep_going_status
          stdin_eof,            \* nothing is left on stdin
          opened, printed,      \* the output file; the lists printed, per type
          exit,                 \* the exit code, -1 while running
          hist, ended, failed   \* history: lines read, files read to the
                                \* end, whether memory ran out

readVars == <<who, k, stream, seen>>
outVars == <<opened, printed>>
histVars == <<hist, ended, failed>>
vars == <<pc, opts, g, tree, did_read_stdin, readVars, stdin_eof, outVars, exit, histVars>>

-----------------------------------------------------------------------------
\* struct ipdedup_globals
Globals ==
  [tree_mode : SUBSET Type, collapse_prefixlen : [Type -> 0..255],
   want_invert : BOOLEAN, want_keep_going : BOOLEAN, want_strict : BOOLEAN,
   want_long_output : BOOLEAN, want_redux_output : BOOLEAN, want_json_output : BOOLEAN,
   outfile : BOOLEAN, datadir : BOOLEAN,
   infiles : Seq(FileArgs), purge_infiles : Seq(FileArgs)]

ipdedup_globals_init ==
  [tree_mode |-> {}, collapse_prefixlen |-> [t \in Type |-> 0],
   want_invert |-> FALSE, want_keep_going |-> FALSE, want_strict |-> FALSE,
   want_long_output |-> FALSE, want_redux_output |-> FALSE, want_json_output |-> FALSE,
   outfile |-> FALSE, datadir |-> TRUE, infiles |-> << >>, purge_infiles |-> << >>]

Init ==
  /\ pc = "options" /\ opts = 0 /\ g = ipdedup_globals_init
  /\ tree = [w \in Who |-> [t \in Type |-> {}]]
  /\ did_read_stdin = [w \in Who |-> FALSE]
  /\ who = "main" /\ k = 1 /\ stream = "none" /\ seen = {}
  /\ stdin_eof = FALSE
  /\ opened = FALSE /\ printed = [t \in Type |-> {}]
  /\ exit = -1
  /\ hist = << >> /\ ended = {} /\ failed = FALSE

Exit(code) ==
  /\ pc' = "exit" /\ exit' = code
  /\ UNCHANGED <<opts, g, tree, did_read_stdin, readVars, stdin_eof, outVars, hist, ended>>

\* malloc() or realloc() returns NULL and main_run() returns code.
NoMemory(code) == "memory" \in MayFail /\ failed' = TRUE /\ Exit(code)

-----------------------------------------------------------------------------
(***************************************************************************)
(* main_inner(): the options, then the positional arguments.               *)
(***************************************************************************)
Option(o) ==
  /\ pc = "options" /\ o \in Options /\ opts < MaxOptions
  /\ opts' = opts + 1
  /\ UNCHANGED <<pc, tree, did_read_stdin, readVars, stdin_eof, outVars, exit, histVars>>

ModeOf == [o \in {"4", "6", "a"} |->
             CASE o = "4" -> {"v4"} [] o = "6" -> {"v6"} [] OTHER -> Type]

OptMode(o) == Option(o) /\ g' = [g EXCEPT !.tree_mode = ModeOf[o]]

\* Mutant: any number is stored.
OptCollapseAny(o, t, v) == Option(o) /\ g' = [g EXCEPT !.collapse_prefixlen[t] = v]

\* -B, -C, and -c for -C 64: a number that is too large is complained about,
\* and kept.
OptCollapse(o, t, v) ==
  /\ Option(o)
  /\ g' = IF v <= 255 THEN [g EXCEPT !.collapse_prefixlen[t] = v] ELSE g

Flag == [i |-> "want_invert", k |-> "want_keep_going", s |-> "want_strict",
         l |-> "want_long_output", r |-> "want_redux_output",
         J |-> "want_json_output"]

OptFlag(o) == Option(o) /\ g' = [g EXCEPT ![Flag[o]] = TRUE]

\* -D: an empty argument unsets the data directory.
OptDatadir(isset) == Option("D") /\ g' = [g EXCEPT !.datadir = isset]

\* -o: "-" is stdout.
OptOutfile(isfile) == Option("o") /\ g' = [g EXCEPT !.outfile = isfile]

\* An option without its argument, or an unknown one.
OptMissingArgument ==
  /\ pc = "options" /\ Options \intersect {"o", "p"} # {}
  /\ Exit(EX_USAGE) /\ UNCHANGED failed

\* main_push_infile() as -p and the positional arguments use it: the exit
\* codes it may cause, 0 when the name is pushed.
PushCodes(arg) ==
  CASE arg = ""   -> {EX_USAGE}
    [] arg = "@"  -> {IF g.datadir THEN EX_USAGE ELSE EX_IOERR}
    [] arg = "@f" -> IF ~g.datadir THEN {EX_IOERR}
                     ELSE {0} \union (IF "open" \in MayFail THEN {EX_IOERR} ELSE {})
    [] OTHER      -> {0}

OptPurge(arg) ==
  /\ Len(g.purge_infiles) < MaxFiles /\ 0 \in PushCodes(arg)
  /\ Option("p")
  /\ g' = [g EXCEPT !.purge_infiles = Append(@, arg)]

\* -h prints the help and leaves; -L lists the data files with a shell.
LeaveEarly ==
  /\ pc = "options" /\ pc' = "left"
  /\ \/ "h" \in Options /\ exit' = 0
     \/ "L" \in Options /\ exit' \in {0, EXIT_FAILURE, EX_USAGE, EX_OSERR}
  /\ UNCHANGED <<opts, g, tree, did_read_stdin, readVars, stdin_eof, outVars, histVars>>

EndOptions ==
  /\ pc = "options" /\ pc' = "arguments"
  /\ UNCHANGED <<opts, g, tree, did_read_stdin, readVars, stdin_eof, outVars, exit, histVars>>

PushInfile(arg) ==
  /\ pc = "arguments" /\ Len(g.infiles) < MaxFiles /\ 0 \in PushCodes(arg)
  /\ g' = [g EXCEPT !.infiles = Append(@, arg)]
  /\ UNCHANGED <<pc, opts, tree, did_read_stdin, readVars, stdin_eof, outVars, exit, histVars>>

BadFileArg(arg) ==
  /\ pc = "arguments" \/ (pc = "options" /\ "p" \in Options)
  /\ \E code \in PushCodes(arg) \ {0} : Exit(code)
  /\ UNCHANGED failed

\* new_dynarray(), dynarray_append(), the data file's path, ip_tree_builder_new().
SetupNoMemory == pc \in {"options", "arguments"} /\ NoMemory(EX_OSERR)

\* Mutant: the output file is opened before the input is read.
EndArgumentsOpens ==
  /\ pc = "arguments" /\ pc' = "files"
  /\ \E m \in IF g.tree_mode = {} THEN GuessedModes ELSE {g.tree_mode} :
       g' = [g EXCEPT !.tree_mode = m]
  /\ opened' = g.outfile
  /\ UNCHANGED <<opts, tree, did_read_stdin, readVars, stdin_eof, printed, exit, histVars>>

\* Guess the mode from the program's name, make the builder, go to main_run().
EndArguments ==
  /\ pc = "arguments" /\ pc' = "files"
  /\ \E m \in IF g.tree_mode = {} THEN GuessedModes ELSE {g.tree_mode} :
       g' = [g EXCEPT !.tree_mode = m]
  /\ UNCHANGED <<opts, tree, did_read_stdin, readVars, stdin_eof, outVars, exit, histVars>>

-----------------------------------------------------------------------------
(***************************************************************************)
(* ip_tree_builder_parse_files_do() for the builder that reads.            *)
(***************************************************************************)
Sources(w) == IF w = "purge" THEN g.purge_infiles
              ELSE IF g.infiles = << >> THEN <<"-">> ELSE g.infiles

main_interpret_parse_ret(ret) ==
  CASE ret = SUCCESS                    -> 0
    [] ret = BAD_INFILE_DUP             -> EX_USAGE
    [] ret = READ_ERR                   -> EX_IOERR
    [] ret \in {INVALID, INVALID_NET}   -> EX_DATAERR
    [] OTHER                            -> EX_SOFTWARE

\* The stream's parser returns an error: no other file is read.
ParseFails(ret) == Exit(main_interpret_parse_ret(ret))

Source == Sources(who)[k]

\* Mutant: keep_going_status is not reset for the next file.
OpenStreamKeepsStatus ==
  /\ pc = "files" /\ k <= Len(Sources(who))
  /\ Source = "-" => ~did_read_stdin[who]
  /\ pc' = "lines" /\ stream' = Source
  /\ did_read_stdin' = [did_read_stdin EXCEPT ![who] = @ \/ Source = "-"]
  /\ UNCHANGED <<opts, g, tree, who, k, seen, stdin_eof, outVars, exit, histVars>>

OpenStream ==
  /\ pc = "files" /\ k <= Len(Sources(who))
  /\ Source = "-" => ~did_read_stdin[who]
  /\ pc' = "lines" /\ stream' = Source /\ seen' = {}
  /\ did_read_stdin' = [did_read_stdin EXCEPT ![who] = @ \/ Source = "-"]
  /\ UNCHANGED <<opts, g, tree, who, k, stdin_eof, outVars, exit, histVars>>

StdinTwice ==
  /\ pc = "files" /\ k <= Len(Sources(who))
  /\ Source = "-" /\ did_read_stdin[who]
  /\ ParseFails(BAD_INFILE_DUP) /\ UNCHANGED failed

OpenFails ==
  /\ pc = "files" /\ k <= Len(Sources(who)) /\ Source # "-"
  /\ "open" \in MayFail
  /\ ParseFails(READ_ERR) /\ UNCHANGED failed

\* ip4_addr_is_net() and ip6_addr_is_net(): for a prefix length of 0 they
\* shift by the width of the word, and may take any address for a network.
IsNet(x) == IF x.len = 0 THEN {TRUE, addr_is_net(x)} ELSE {addr_is_net(x)}

NetChecks(l) == {net \in [Type -> BOOLEAN] : \A t \in Type : net[t] \in IsNet(l.addr[t])}

\* One type: parse_ip4_addr_combined() and its like, strict or not.
ParseSingle(l, net) ==
  LET t == CHOOSE t \in Type : g.tree_mode = {t} IN
  [ret |-> IF l.ret[t] = SUCCESS /\ g.want_strict /\ ~net[t] THEN INVALID_NET ELSE l.ret[t],
   types |-> {t}]

\* What parse_ip_mixed_addr_split() gets from the parser of each type.
Tried(l) == [t \in Type |-> IF t \in l.guess THEN l.ret[t] ELSE DID_NOT_TRY]

Good(l) == {t \in Type : Tried(l)[t] = SUCCESS}

MixedFails(l) ==
  IF l.guess = {} THEN INVALID
  ELSE IF Tried(l)["v4"] < Tried(l)["v6"] THEN Tried(l)["v4"] ELSE Tried(l)["v6"]

\* Mutant: host bits in one of two addresses go unnoticed.
ParseBothUnmasked(l, net) ==
  [ret |-> CASE Good(l) = {} -> MixedFails(l)
             [] g.want_strict /\ (\A t \in Good(l) : ~net[t]) -> INVALID_NET
             [] OTHER -> SUCCESS,
   types |-> Good(l)]

\* Both types: parse_ip_mixed_net_addr() and parse_ip_mixed_addr().
ParseBoth(l, net) ==
  LET kept == {t \in Good(l) : g.want_strict => net[t]} IN
  [ret |-> CASE Good(l) = {} -> MixedFails(l)
             [] Good(l) # {} /\ kept = {} -> INVALID_NET
             [] OTHER -> SUCCESS,
   types |-> kept]

\* What f_parse returns for a line, and the types it has an address of.
ParseResult(l, net) ==
  IF g.tree_mode = Type THEN ParseBoth(l, net) ELSE ParseSingle(l, net)

\* The purge trees have no auto-collapse length.
InsertLen(w, t, len) ==
  LET l == g.collapse_prefixlen[t] IN
  IF w = "main" /\ l > 0 /\ len > l THEN l ELSE len

InsertedNet(w, t, x) == NetOf([i \in 1..InsertLen(w, t, x.len) |-> x.bits[i]])

\* Another line is there to be read.
MoreLines == pc = "lines" /\ Len(hist) < MaxLines /\ ~(stream = "-" /\ stdin_eof)

Record(l, r) == hist' = Append(hist, [who |-> who, file |-> k, line |-> l, ret |-> r])

SkipLine(l) ==
  /\ MoreLines /\ l.skip
  /\ UNCHANGED vars

ReadAddress(l) ==
  /\ MoreLines /\ ~l.skip
  /\ \E net \in NetChecks(l) :
       LET r == ParseResult(l, net) IN
       /\ r.ret = SUCCESS
       /\ tree' = [tree EXCEPT ![who] =
                     [t \in Type |-> IF t \in r.types
                                     THEN @[t] \union InsertedNet(who, t, l.addr[t])
                                     ELSE @[t]]]
  /\ seen' = seen \union {"ADDR"} /\ Record(l, SUCCESS)
  /\ UNCHANGED <<pc, opts, g, did_read_stdin, who, k, stream, stdin_eof, outVars, exit,
                 ended, failed>>

InsertNoMemory(l) ==
  /\ MoreLines /\ ~l.skip
  /\ \E net \in NetChecks(l) : ParseResult(l, net).ret = SUCCESS
  /\ NoMemory(main_interpret_parse_ret(FAIL))

SkipInvalid(l) ==
  /\ MoreLines /\ ~l.skip /\ g.want_keep_going
  /\ \E net \in NetChecks(l) :
       /\ ParseResult(l, net).ret \in {INVALID, INVALID_NET}
       /\ Record(l, ParseResult(l, net).ret)
  /\ seen' = seen \union {"INVALID"}
  /\ UNCHANGED <<pc, opts, g, tree, did_read_stdin, who, k, stream, stdin_eof, outVars,
                 exit, ended, failed>>

StopAtLine(l) ==
  /\ MoreLines /\ ~l.skip
  /\ \E net \in NetChecks(l) :
       LET ret == ParseResult(l, net).ret IN
       /\ ret # SUCCESS
       /\ ~(g.want_keep_going /\ ret \in {INVALID, INVALID_NET})
       /\ pc' = "exit" /\ exit' = main_interpret_parse_ret(ret)
       /\ Record(l, ret)
  /\ UNCHANGED <<opts, g, tree, did_read_stdin, readVars, stdin_eof, outVars, ended, failed>>

ReadFails ==
  /\ pc = "lines" /\ "read" \in MayFail
  /\ ParseFails(READ_ERR) /\ UNCHANGED failed

\* parse_ip_file_eof_eval_keep_going_status()
EofStatus(s) == IF s = {} \/ "ADDR" \in s THEN SUCCESS ELSE INVALID

EndOfFile ==
  /\ pc = "lines"
  /\ stdin_eof' = (stdin_eof \/ stream = "-")
  /\ ended' = ended \union {[who |-> who, file |-> k]}
  /\ stream' = "none"
  /\ LET code == main_interpret_parse_ret(EofStatus(seen)) IN
       IF code = 0 THEN pc' = "files" /\ k' = k + 1 /\ UNCHANGED exit
                   ELSE pc' = "exit" /\ exit' = code /\ UNCHANGED k
  /\ UNCHANGED <<opts, g, tree, did_read_stdin, who, seen, outVars, hist, failed>>

EndOfInput ==
  /\ pc = "files" /\ k > Len(Sources(who))
  /\ pc' = IF who = "main" THEN "invert" ELSE "purge"
  /\ UNCHANGED <<opts, g, tree, did_read_stdin, readVars, stdin_eof, outVars, exit, histVars>>

-----------------------------------------------------------------------------
(***************************************************************************)
(* main_run() after the input.                                             *)
(***************************************************************************)
\* An empty tree is not inverted.
Complement(S) == IF S = {} THEN {} ELSE Address \ S

Invert ==
  /\ pc = "invert"
  /\ tree' = IF ~g.want_invert THEN tree
             ELSE [tree EXCEPT !["main"] =
                     [t \in Type |-> IF t \in g.tree_mode THEN Complement(@[t]) ELSE @[t]]]
  /\ IF g.purge_infiles = << >> THEN pc' = "open" /\ UNCHANGED <<who, k>>
     ELSE pc' = "files" /\ who' = "purge" /\ k' = 1
  /\ UNCHANGED <<opts, g, did_read_stdin, stream, seen, stdin_eof, outVars, exit, histVars>>

\* ip_tree_invert(), or the second ip_tree_builder_new().
InvertNoMemory ==
  /\ pc = "invert" /\ (g.want_invert \/ g.purge_infiles # << >>)
  /\ NoMemory(EX_SOFTWARE)

\* Mutant: the IPv6 tree is purged of the IPv4 networks.
PurgeV4Twice ==
  /\ pc = "purge" /\ pc' = "open"
  /\ tree' = [tree EXCEPT !["main"] = [t \in Type |-> @[t] \ tree["purge"]["v4"]]]
  /\ UNCHANGED <<opts, g, did_read_stdin, readVars, stdin_eof, outVars, exit, histVars>>

\* ip_tree_builder_purge()
Purge ==
  /\ pc = "purge" /\ pc' = "open"
  /\ tree' = [tree EXCEPT !["main"] = [t \in Type |-> @[t] \ tree["purge"][t]]]
  /\ UNCHANGED <<opts, g, did_read_stdin, readVars, stdin_eof, outVars, exit, histVars>>

PurgeNoMemory == pc = "purge" /\ NoMemory(EX_SOFTWARE)

\* The output file is created or truncated only now.
OpenOutstream ==
  /\ pc = "open" /\ pc' = "print4"
  /\ opened' = g.outfile
  /\ UNCHANGED <<opts, g, tree, did_read_stdin, readVars, stdin_eof, printed, exit, histVars>>

CannotCreate ==
  /\ pc = "open" /\ g.outfile /\ "create" \in MayFail
  /\ Exit(EX_CANTCREAT) /\ UNCHANGED failed

PrintTree(t) ==
  printed' = IF t \in g.tree_mode THEN [printed EXCEPT ![t] = {tree["main"][t]}] ELSE printed

PrintV4 ==
  /\ pc = "print4" /\ pc' = "print6" /\ PrintTree("v4")
  /\ UNCHANGED <<opts, g, tree, did_read_stdin, readVars, stdin_eof, opened, exit, histVars>>

PrintV6 ==
  /\ pc = "print6" /\ pc' = "exit" /\ exit' = 0 /\ PrintTree("v6")
  /\ UNCHANGED <<opts, g, tree, did_read_stdin, readVars, stdin_eof, opened, histVars>>

\* collect returns NULL: only the compact IPv6 output tells main_run().
PrintV4NoMemory ==
  /\ pc = "print4" /\ "v4" \in g.tree_mode /\ "memory" \in MayFail
  /\ pc' = "print6" /\ failed' = TRUE
  /\ UNCHANGED <<opts, g, tree, did_read_stdin, readVars, stdin_eof, outVars, exit, hist, ended>>

PrintV6NoMemory ==
  /\ pc = "print6" /\ "v6" \in g.tree_mode
  /\ NoMemory(IF g.want_json_output \/ g.want_long_output THEN 0 ELSE EX_SOFTWARE)

Exited == pc \in {"exit", "left"} /\ UNCHANGED vars

-----------------------------------------------------------------------------
CommandLine ==
  \/ \E o \in DOMAIN ModeOf : OptMode(o)
  \/ \E v \in LenArgs : OptCollapse("B", "v4", v) \/ OptCollapse("C", "v6", v)
  \/ \E o \in DOMAIN Flag : OptFlag(o)
  \/ \E b \in BOOLEAN : OptDatadir(b) \/ OptOutfile(b)
  \/ OptCollapse("c", "v6", 64)
  \/ OptMissingArgument \/ LeaveEarly
  \/ \E arg \in FileArgs : OptPurge(arg) \/ PushInfile(arg) \/ BadFileArg(arg)
  \/ SetupNoMemory \/ EndOptions \/ EndArguments

Reading ==
  \/ OpenStream \/ StdinTwice \/ OpenFails
  \/ \E l \in Lines : \/ SkipLine(l) \/ ReadAddress(l) \/ InsertNoMemory(l)
                      \/ SkipInvalid(l) \/ StopAtLine(l)
  \/ ReadFails \/ EndOfFile \/ EndOfInput

Finishing ==
  \/ Invert \/ InvertNoMemory \/ Purge \/ PurgeNoMemory
  \/ OpenOutstream \/ CannotCreate
  \/ PrintV4 \/ PrintV6 \/ PrintV4NoMemory \/ PrintV6NoMemory

Next == CommandLine \/ Reading \/ Finishing \/ Exited

Spec == Init /\ [][Next]_vars

-----------------------------------------------------------------------------
\* Every variable has its type.
TypeOK ==
  /\ pc \in {"options", "arguments", "files", "lines", "invert", "purge", "open",
             "print4", "print6", "exit", "left"}
  /\ opts \in 0..MaxOptions
  /\ g \in Globals /\ Len(g.infiles) <= MaxFiles /\ Len(g.purge_infiles) <= MaxFiles
  /\ tree \in [Who -> [Type -> SUBSET Address]]
  /\ did_read_stdin \in [Who -> BOOLEAN]
  /\ who \in Who /\ k \in 1..(Len(Sources(who)) + 1)
  /\ stream \in FileArgs \union {"-", "none"} /\ seen \subseteq {"ADDR", "INVALID"}
  /\ {stdin_eof, opened, failed} \subseteq BOOLEAN
  /\ printed \in [Type -> SUBSET SUBSET Address]
  /\ exit \in {-1, 0, EXIT_FAILURE, EX_USAGE, EX_DATAERR, EX_SOFTWARE, EX_OSERR,
              EX_CANTCREAT, EX_IOERR}
  /\ hist \in Seq([who : Who, file : Nat, line : Lines, ret : RetCode]) /\ Len(hist) <= MaxLines
  /\ ended \subseteq [who : Who, file : Nat]

Ran == pc = "exit" /\ exit = 0

\* The line, as an address of type t, counts as input: the mode asks for the
\* type, the line parses, and with -s it has no host bits.
Counts(l, t) ==
  /\ t \in g.tree_mode /\ l.ret[t] = SUCCESS
  /\ g.tree_mode = Type => t \in l.guess
  /\ g.want_strict => addr_is_net(l.addr[t])

Named(w, t) ==
  UNION {InsertedNet(w, t, hist[i].line.addr[t]) :
           i \in {j \in 1..Len(hist) : hist[j].who = w /\ Counts(hist[j].line, t)}}

\* No strict run has accepted an address of prefix length 0 with host bits:
\* whether it does is the outcome of an undefined shift.
ShiftsDefined ==
  g.want_strict =>
    \A j \in 1..Len(hist) : \A t \in g.tree_mode :
      LET l == hist[j].line IN
      hist[j].ret = SUCCESS /\ l.ret[t] = SUCCESS /\ l.addr[t].len = 0 => addr_is_net(l.addr[t])

\* The networks of type t that the lines name, inverted if asked to.
Wanted(t) == IF g.want_invert THEN Complement(Named("main", t)) ELSE Named("main", t)

\* What is to be printed for type t.
Listed(t) == IF t \notin g.tree_mode THEN {} ELSE {Wanted(t) \ Named("purge", t)}

\* A run that succeeds has printed, for each type of its mode, the networks
\* the lines of its input files name, inverted if asked to, without those
\* its purge files name: through every order of files, lines that are
\* skipped, modes and data files, and nothing for the other type.
OutputIsDedup ==
  Ran /\ ~failed /\ ShiftsDefined => \A t \in Type : printed[t] = Listed(t)

\* The output file, which may be one of the input files, is created or
\* truncated only when every input and purge file has been read to its end,
\* and so never when the run ends with an input error.
OutfileAfterInput ==
  opened =>
    /\ \A w \in Who : \A i \in 1..Len(Sources(w)) : [who |-> w, file |-> i] \in ended
    /\ exit \in {-1, 0, EX_SOFTWARE}

LinesOf(w, i) == {hist[j].ret : j \in {n \in 1..Len(hist) : hist[n].who = w /\ hist[n].file = i}}

\* doc: with -k invalid lines are skipped, and a run ends with 65 exactly
\* when some file, read to its end, had lines and no valid one; without -k
\* exactly when a line was invalid.
KeepGoingPerFile ==
  pc = "exit" /\ exit \in {0, EX_DATAERR} =>
    (exit = EX_DATAERR <=>
       IF g.want_keep_going
       THEN \E f \in ended : LET r == LinesOf(f.who, f.file) IN
              r # {} /\ r \subseteq {INVALID, INVALID_NET}
       ELSE \E j \in 1..Len(hist) : hist[j].ret \in {INVALID, INVALID_NET})

-----------------------------------------------------------------------------
(***************************************************************************)
(* What the manual, a comment or a message says and the code does not do.  *)
(***************************************************************************)
\* main.c, message of -B and -C: "needs a number between 0 and 32" (128).
CollapseLenRejected == Ran => \A t \in Type : g.collapse_prefixlen[t] <= W

\* builder.c: "will not read stdin twice".
StdinReadOnce == ~ \A w \in Who : did_read_stdin[w]

\* Manual, -i: "all networks except the input ones appear in the output".
InvertListsTheRest ==
  Ran /\ ~failed /\ g.want_invert =>
    \A t \in g.tree_mode :
      printed[t] = {(Address \ Named("main", t)) \ Named("purge", t)}

\* Manual, exit codes: "71: failed to get system resources".
NoMemoryIs71 == pc = "exit" /\ failed => exit = EX_OSERR

\* Manual, -s: "exit non-zero if host bits are set in parsed addresses".
StrictRejectsHostBits ==
  Ran /\ g.want_strict =>
    \A j \in 1..Len(hist) :
      hist[j].ret = SUCCESS => \E t \in Type : Counts(hist[j].line, t)

=============================================================================
