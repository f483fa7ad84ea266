# ip-dedup in TLA+

ip-dedup reads IPv4 and IPv6 networks, one per line, from files or stdin, joins
and deduplicates them in a binary tree per address type, optionally inverts the
result and takes other networks out of it, and prints what is left, sorted and
as short as possible.  This directory holds TLA+ modules that model the program,
TLC configurations that check them on small instances, and TLAPS proofs.

Paths below are relative to the repository's `src/`; `PROJECT.json` gives, for
every definition, the lines it models.

## 1. The system

| component | source | state it keeps | operations | what can go wrong there | what makes it correct |
|---|---|---|---|---|---|
| tree nodes, tree data | `ip_tree/data/` | nodes with two children, a hot mark and their own copy of the address; a root; the auto-collapse length | new, child, sibling, flip in place, destroy | the address copy and the node's position drift apart; a node under a hot one | connected, hot nodes are leaves, address = position (`Shape`) |
| tree operations | `ip_tree/op/` | the C stack of the recursion; insert's cursor; purge's temporary tree; collect's array | find, insert, collapse, invert, purge, collect | a frame whose node has been freed; an operation called on a tree its predecessor never leaves; memory that runs out half way | the tree is a set of addresses (`ImplementsIpSet`), listed shortest and sorted |
| networks | `ip/ip4/addr.c`, `ip/ip6/addr.c` | address and prefix length | child, sibling, flip, host-bit test | a bit set twice or at the wrong place | as part of `Shape` |
| address words and text | `ip/ip*/base.c`, `util/print_ip.c` | 32-bit word, two 64-bit words | bits by prefix position, netmask, blocks, last address, to text | shifts by the word's width; the bit on the wrong side of the two words; a block at the wrong bit | `BitOpsHold`, `MasksHold`, `CompactText`, `ReadBack` |
| options, program flow | `app/ip-dedup/` | `struct ipdedup_globals` | option parsing, file arguments, `main_run()` | order of input, inversion, purge and output; exit codes | `OutputIsDedup`, `OutfileAfterInput` |
| tree builder | `ip_tree_io/builder.c` | two trees, whether stdin was read | parse files, insert a parsed line, purge | stdin shared by two builders | `OutputIsDedup` |
| file parser | `util/parse_ip/parsefile.c`, `util/readfile.c`, `util/strutil.c` | the stream, its keep-going status | next line, end of file | a status that survives a file; which codes are skipped | `KeepGoingPerFile` |
| parser dispatch | `util/parse_ip/mixed.c`, `combined.c` | the type of a line | guess the type, try one or both parsers, check host bits | a line that is both types, valid as one | `OutputIsDedup` |
| IPv4 and IPv6 address text | `util/parse_ip/ip4.c`, `ip6.c`, `common.c` | the line in memory, which the parsers cut up; a static buffer of blocks per type | line to tokens to blocks to address, prefix length given or guessed | a line the first parser has written to; blocks left from the line before; one block too many; a guessed length that cuts a block off | `Ip4MeansText`, `Ip6MeansText`, `BuffersInBounds`, `GuessKeepsBlocks` |
| printing, JSON | `ip_tree_io/print*.c` | the list being printed | collect, print each address or its JSON object | a list that is silently missing; a line that is not read again as what was printed; first and last address | `OutputIsDedup`, `ReadBack`, `JsonExact`, `MemorySafe` |
| dynamic array | `util/dynarray.c` | items, length, capacity, whether the items are owned | create, append, grow, free with or without the items | freed inside a failing append and again by the owner; a pointer that outlives what it points to | `MemorySafe`, `NothingLost` |
| build files, data, scripts | `mk/`, `files/` | none of the program's | - | - | not modelled |

How they interact: `main_inner()` reads the options and file arguments and calls
`main_run()`.  That gives a builder the list of input files; the builder opens
each, and for every line asks the file parser, which asks the dispatch, which
asks one or both address parsers; the addresses come back and are inserted into
the tree of their type.  Then, for each tree: collapse, invert (`-i`).  With `-p`
a second builder reads the purge files, and its networks, collected from its
trees, are purged from the first.  Only then is the output file opened, and the
IPv4 and the IPv6 list are collected and printed.

The program has one thread, no locks and no network.  What is hard in it is not
concurrency but sequences: recursion on a tree that the same recursion changes,
operations whose preconditions (no two hot siblings, no cold leaf) are promised
by other operations, state that is kept in two places (position and address
copy; one stdin and two builders; one line and two types), failure of any
allocation, read or open in the middle, and options whose order and values
nobody tests together.  `PROJECT.json` lists the hazards, each at its line.

## 2. The modules

    IpAddr                 networks as bit sequences of W bits
      IpSet                what a tree promises: a set of addresses
      IpTree               the trees and every operation on them, call by call
        IpTreeRefinement         IpTree implements IpSet
        IpTreeInv                the inductive invariant: shape, stack, cursor
          IpTreeSetInv           the second one: what the trees stand for
        IpTreeLemmas             on paths, trees, stacks and what trees cover
          IpTreeProofs           IpTreeInv is invariant
            IpTreeSetProofs      IpTreeSetInv is invariant
              IpTreeRefinementProofs   the refinement
        MCIpTree                 instance for TLC
      IpDedup              options, files, lines, trees, output, exit code
        IpDedupInv               the inductive invariant
          IpDedupProofs          the theorems
        MCIpDedup                instance for TLC
    IpDedupMemory          the same program, as the owner of its lists and nodes
      IpDedupMemoryProofs        the theorems
      MCIpDedupMemory            instance for TLC
    ParseIp                a line of tokens, cut up and read by both parsers
    IpWords                addresses as machine words
      IpText               prints and reads back: ParseIp and IpWords together
        IpTextProofs             words, masks, buffers, guesses, JSON
          ParseIpProofs          what the parsers make of a line
        MCIpText                 instance for TLC

A module below another one extends it; the modules whose names end in Lemmas
and Proofs hold what TLAPS checks.

**IpAddr** has the address width `W` as a parameter (32 and 128 in the program).
An address is a function from bit positions to 0 and 1, a network has a prefix
length too, and host bits may be set, as the parser may deliver them.  `Child`,
`Padded`, `Covers` and `NetOf` speak of paths; `addr_init_child`,
`addr_init_sibling` and `addr_is_net` are the C functions of those names.  The
IPv4 and the IPv6 variants of every tree function differ only in the width and
are one definition.

**IpTree** keeps, for the main tree and for purge's temporary tree, a function
`node` from paths to nodes.  A node's place in the tree (its path) and its own
record of the address (`addr`, in C `node->addr`) are separate, as in the code:
it is the record that `bits` of new children are made from and that is printed,
so a wrong flip or sibling shows.  The recursive functions `_ip_tree_collapse`,
`_ip_tree_invert` and `_ip4_tree_collect_addr_into` are run one call or one
resumption per action: `stack` is the C stack and a frame says which node and
which point of the function (`"enter"`, `"right"`: before the right child,
`"merge"`: after both).  `insert` is split where the code allocates: `InsertMiss`
comes to the end of `ip_tree_find()`, each `WalkDown` allocates one node, `WalkEnd`
marks it hot.  `ip_tree_find()` itself changes nothing and is the predicates
`FindHit`, `FindHotParent` and `FindMiss`.  `phase` follows `main_run()`.  Every
`malloc()` and `realloc()` may fail, and ends in `Abort`, since `main_run()` gives
up.  `before` is a history variable for the refinement, `why` tells an allocation
failure from the trees `_ip_tree_invert` refuses.  Freed nodes are those that
become NULL.

**IpSet** is the abstract specification: a set of addresses to which networks are
added (cut to the auto-collapse length), that may be inverted once, from which
networks are taken, and that is listed as the largest networks it contains, in
ascending order and each once (`Lists`).  An operation is first asked for, with its argument, and then
answered, so that an implementation can neither lose one nor carry it out for
another argument: a call of the tree that is running is an operation that is asked
for.  **IpTreeRefinement** maps the tree to the set its hot nodes
cover.  An inversion takes many steps; during them the abstract set is the one
from before (`before`), and the change happens at its end.  Purge of a part of a
hot node builds a second tree; the abstract set changes when it is grafted.  The
listing counts when it is complete.

**IpDedup** is the program around the trees.  A tree is here the set of addresses
it stands for, which is what IpTree is shown to implement; the phases between
collapse and collect are the single steps `Invert`, `Purge`, `PrintV4` and
`PrintV6`.  A line is what the address parsers make of it: skipped (blank,
comment), or the types its characters may be of (`guess`), and for each type the
parser's return code and address.  The content of a file is chosen while it is
read.  `opened` says that the output file has been created or truncated.  `hist`,
`ended` and `failed` are history variables: the lines that were read with their
result, the files that were read to the end, and whether memory ran out.
`ip4_addr_is_net` and `ip6_addr_is_net` shift by the word's width when the prefix
length is 0, which is undefined in C, so `IsNet` has both outcomes there.  (The
shift `1 << 31` for prefix length 1 overflows an int too, but gives the expected
mask on every compiler the build uses; it is modelled as that mask.)

**IpDedupMemory** is the same flow of control seen from the heap.  A pointer says
what it points to: a list's struct, its array, a path made for `@name`, a string
in argv, a line buffer, a node.  `list` holds each `struct dynarray`: whether the
pointer is there, its array, its items, its capacity and its item destructor
(`readonly`: release nothing).  `live` is the set of allocated blocks; `fault`
becomes true when a block is freed that is not live, or a freed one is read.
`push` follows `main_push_infile()`, which allocates the path, tries the data file,
puts the path into `pile_of_shame` and then into the list of files.  Every
`malloc()` and `realloc()` may fail, and a failing `realloc()` frees the whole array
inside `dynarray_append()`, as `dynarray.c` does.  What files hold and which exit
code results is IpDedup's business: a file here adds any number of nodes to the
trees, and whatever fails ends in `Return`, then in the clean-up `main()` does in
its order.

**IpWords** is the bit arithmetic of `ip/ip4` and `ip/ip6`.  A word is its bits, the
most significant first; an IPv6 address is two words of `C` bits.  A shift by the
width of a word has a *set* of outcomes, the unchanged word and zero, and what is
computed from it is a set too.  `BitOpsAgree` and `MasksAgree` compare the words
with one sequence of 2 `C` bits, as IpAddr has it: this is what justifies the one
width `W` the trees are modelled with.

**ParseIp** is `parse_ip.c`'s way from a line to an address.  A line is a sequence
of tokens: separators, and the words between them, of which the parsers see what
`strtol()` reads in base 10 and base 16 and what the type guess sees.  `line` is the
line in memory: the split at the slash, and both block loops, write `'\0'` into it,
and in mixed mode the IPv6 parser reads what the IPv4 parser has left.  `buf4` and
`buf6` are the static buffers of blocks; they keep what the last line put there.
Each round of a loop is one action (`Block4`, `Block6` and their error exits).
The reference (`IsText4`, `Slot4`, `IsText6`, `Slot6`) speaks of the text as a whole:
a block's place is the number of separators between it and the end it is counted
from.

**IpText** puts a printer in front: a network is printed in the compact or the long
form, with `-r` or without, and the line is read again by ParseIp, as when the
output of one run is an input of the next; or the network's JSON object is made.
Lines that nobody printed are read too, and a second line after a first.

Left out inside these modules: layout and the wording of messages; `-h` and `-L` are
one step each that leaves the program (`LeaveEarly`), `-L` with every exit code it
may have.  `-r` is a flag of IpDedup and its effect on a line is in IpText.

## 3. The runs

| run | instance | what it shows |
|---|---|---|
| `mcIpTree` | W = 3, all inputs with and without host bits, all purge networks, auto-collapse 0, 1, 2, 4 | `Shape`, `AutoCollapsed`, `NoHotSiblings`, `InvertNeverInvalid`, `StackBounded`, `OutputSorted`, `Calls`, `IInv`, `SInv`, `TypeOK`, the refinement `ImplementsIpSet`, and `OperationEnds`: every operation that is called returns |
| `mcIpDedupParse` | W = 2, eight kinds of lines, up to three lines in up to two files, options `-4 -6 -k -s -p` | `OutputIsDedup`, `KeepGoingPerFile`, `IInv` |
| `mcIpDedupRun` | W = 2, three kinds of lines, the collapse length of IPv6, all options that concern what comes after the input, data files, every kind of failure | `OutputIsDedup`, `OutfileAfterInput`, `TypeOK`, `IInv` |
| `mcIpDedupMemory` | 2 positional arguments, 3 of `-p`, 3 nodes per tree, first capacity of the pile 1 | `MemorySafe`, `NothingLost`, `IInv`, `TypeOK` |
| `mcIpText` | the real sizes: 4 octets, 8 double octets, words of 64 bits | `Ip4MeansText`, `Ip6MeansText`, `GuessKeepsBlocks`, `GuessCountsWrittenBlocks`, `BuffersInBounds`, `ReadBack`, `CompactText`, `JsonExact`, `BitOpsHold`, `MasksHold` |
| seven runs that end in a violation | the least they need | section 5 |

Bounds, and why they are enough:

- `W = 3` gives every tree of depth 3: a root, inner nodes that have both an
  ancestor and a descendant that is not a leaf, and leaves, so every pair of a
  suspended call and the calls above it that the functions can produce; each
  function looks at a node and its two children only.  There is no bound on the
  number of inserts and purges: every reachable tree is explored.  Auto-collapse 0
  is off, 1 and 2 cut inside the tree, 4 is beyond its depth.
- `W = 2` is enough for IpDedup, where trees are sets: it tells an IPv4 network,
  an IPv6 network, a line that is both, and one with host bits apart.
- `MaxLines` bounds all lines of a run together, `MaxFiles` each list of files,
  `MaxOptions` the options.  Three lines let a file have an invalid and a valid
  line in either order and another file have one.  Three options let a mode, a
  flag and a file argument combine.
- `mcIpDedupMemory`: the pile's first capacity is 1 instead of 12, so that it grows,
  and grows twice, with few arguments; the other lists start with a capacity from
  the arguments, as in the code.  Three nodes make a collected list grow.
- `mcIpText`: every line of up to four tokens made of seven kinds of words (decimal,
  decimal that is too large for an octet, hexadecimal, `0x`, signed, no number at
  all) and the three separators; and long lines, up to one block too many, on
  either side of a double colon too, with and without a trailing separator, with
  the suffixes none, `/0`, `/32`, `/129`.  A second line is one of five.  Networks:
  every pattern of zero blocks, and every prefix length.
- Deadlock is checked in every run but those of IpText: the other models end in a
  step that stutters (`Exited`, `Done`), a reading or printing ends.

Fairness is only used for `OperationEnds`: `WF_vars(OpStep)` says that an operation
that has been called keeps running.  The program has one thread and no blocking
call inside a tree operation, so the scheduler gives it that.  Nothing is assumed
about what `main_run()` calls next, or whether more input arrives.

The properties, and what each would catch: `Shape` and `AutoCollapsed` a tree
operation that leaves children under a hot node or an address copy that was not
flipped; `InvertNeverInvalid` an operation before the inversion that leaves a tree
which invert refuses, so that `-i` fails on valid input; `NoHotSiblings` an output
that is longer than it must be after `-i` or `-p`, where nothing collapses again;
`Calls` a frame that is resumed after its node was freed; `ImplementsIpSet`
any wrong address in the result; `OutputIsDedup` the same of the whole program with
its modes, files and options, stated from the lines and not from the trees;
`OutfileAfterInput` an output file that is truncated before it, as an input file,
was read; `KeepGoingPerFile` a keep-going status that excuses the wrong file;
`MemorySafe` a block freed twice, or a path or node read after its owner has freed
it, in any order of failing allocations; `NothingLost` a block no one will free (the
line buffers, `readfile.c:45`, and the struct of a collected list that failed to
grow are named as the exceptions); `Ip4MeansText` and `Ip6MeansText` any line that
is accepted, rejected or placed wrongly; `BuffersInBounds` a write behind the block
buffers and blocks of the line before; `GuessKeepsBlocks` a guessed length that
cuts off a block that was written; `GuessCountsWrittenBlocks` one that is not told by
the blocks the line has, zero or not (which is not what the manual says: section 5),
because it depends on another line or on what the IPv4 parser did to this one;
`ReadBack` an output that means something else as an input; `CompactText` a text longer than its buffer of 40 characters, and a
double colon for a run of zero blocks that is not the longest; `JsonExact` a wrong
netmask, first or last address; `BitOpsHold` and `MasksHold` a bit on the wrong side
of the two words.

Every property of a passing run has a mutant in `PROJECT.json`: a definition that
is changed as a plausible bug would change it, under which the run finds the
property violated.  The mutants stand in the modules before the definition.

## 4. The proofs

`IpTreeProofs` proves for every `W`, every set of inputs, purge networks and
auto-collapse lengths, from the two assumptions `WAssumption` (W is a positive
natural number) and `TreeAssumption` (the inputs are addresses, purged networks
have no host bits as `collect` lists them, the lengths are natural numbers and
NULL is not a node):

| theorem | statement |
|---|---|
| `Invariance` | `Spec => []IInv`, the inductive invariant |
| `TypeCorrect` | `Spec => []TypeOK` |
| `ShapeHolds` | `Spec => []Shape` |
| `AutoCollapseHolds` | `Spec => []AutoCollapsed` |
| `StackIsBounded` | `Spec => []StackBounded` |
| `CallsHold` | `Spec => []Calls` |

The argument.  `Shape` is not inductive.  Three things are missing and make up
`IInv` (module `IpTreeInv`):

- `GoodTree` says in one formula what is kept of a tree (the nodes know their
  position, a node's parent is there and cold), for both trees; the temporary tree
  exists exactly while a purge runs (`Trees`).  A lemma per way to change a tree
  shows that it stays good: `SetHotGood`, `JoinedGood`, `AddChildGood`, `MoveGood`,
  `AddSiblingGood`, `GraftGood` and others in `IpTreeLemmas`.
- `WalkEnd` marks a node hot without looking at its children.  That this node has
  none is `Walk`: insert went on from where find stopped, so the next child is
  missing; and when auto-collapse cuts the walk to where it already is, the node
  would be at the auto-collapse length and cold, which `AutoCollapsed` excludes.
  So `AutoCollapsed` is needed for `Shape`, and the reverse.
- A call that is resumed must find its node, and an inversion must find at its
  second half that the left child is there and the right one is not hot: `Calls`.
  It holds because a call changes only what is below its node, and the calls on the
  stack are for nodes of strictly decreasing depth (`GoodStack`), from which also
  the bound of the stack follows.

The step lemmas come one per action (`InsertHitInv`, `WalkDownInv`, `InvertMoveInv`,
`PurgeGraftInv`, ...), each with one step per conjunct the action can disturb.

What the trees stand for is a second invariant on top of the first, from the same
two assumptions (`IpTreeSetProofs`):

| theorem | statement |
|---|---|
| `SetInvariance` | `Spec => []SInv`, the inductive invariant |
| `HotSiblingsAreJoined` | `Spec => []NoHotSiblings` |
| `InvertIsAlwaysValid` | `Spec => []InvertNeverInvalid` |
| `CollectIsSorted` | `Spec => []OutputSorted` |

The argument.  These properties say what a recursion has done when it is over; the
invariant says it while it runs, by what the suspended calls have still to do.
`SInv` (module `IpTreeSetInv`) has a part for each operation:

- `Nested`: a suspended call waits for the one above it, in its left subtree before
  it goes on with the right one and in its right subtree before it merges.  All the
  other parts lean on it: the calls on the stack have disjoint work.
- `Collapsing`: two hot children exist only at nodes some call will still come by
  (`CollapseAhead`), so that none exist when the stack is empty; `Canonical` keeps
  that through inversions and purges, which never collapse again.  It also says
  that no node but the root and insert's cursor is a cold leaf before the first
  purge, which is why `_ip_tree_invert` refuses no tree.
- `Inverted`: an address is covered as it was before (`Was`) if a suspended call has
  still to invert it (`ToInvert`), and the other way round if none has.  With the
  empty set as the exception the code makes.
- `ReplBuilt`: the temporary tree of a purge is the way from the hot node to the
  address, which alone is hot when it is inverted; so its inversion meets the same
  conditions as the main tree's, although its root is in the middle of a tree.
- `Collected`: each hot node is in the list or in the part some call has still to
  visit, and whatever is in the list comes before all of that part; so the list is
  sorted at every step, and complete at the end.

`IpTreeRefinementProofs` proves `TreeImplementsSet`, `Spec => ImplementsIpSet`: the
initial state is IpSet's, and each step of the tree is a step of IpSet or changes
nothing of it.  A call is IpSet's `Ask`; the steps of a recursion are stutters.

- Insert answers when a node becomes hot: `InsertAnswers` says that the cover then
  grows by the argument's network cut to the auto-collapse length, the three ends
  of `ip_tree_find()` each with its reason.  Where find stops early at a hot parent,
  the network was covered before; where it stops at a node that is not deeper than
  the auto-collapse length, the cut changes nothing.
- Collapse joins two siblings, which cover together what their parent covers
  (`JoinedCover`).
- Invert answers at its end, when the stack is empty and `Inverted` has no call left.
- Purge answers when nothing is covered (`PurgeMiss`), when it destroys a subtree, or
  when it grafts the inverted temporary tree in place of the hot node: what that
  node covered without the argument.
- `MaximalAre`: without two hot siblings the hot nodes are exactly the largest
  networks in the set, which is what IpSet lists.  For that, a network all of whose
  addresses are covered must be covered by one hot node (`CoveredByOne`).

`CoveredByOne` and some facts like it are inductions over the depth of a tree.
The library's induction theorems cannot be used here; instead the proof takes a
counterexample of least size, which exists (`LeastNat` in `IpTreeLemmas`, from the theorem that the strict subset
ordering of finite sets is well-founded), and finds a smaller one.

`IpDedupProofs` proves for every address width, every set of options, lines and
file names, every number of them and every kind of failure, from
`WAssumption` and `DedupAssumption` (what a line, a file argument and a limit are):

| theorem | statement |
|---|---|
| `Invariance` | `Spec => []IInv`, the inductive invariant |
| `TypeCorrect` | `Spec => []TypeOK` |
| `OutputCorrect` | `Spec => []OutputIsDedup` |
| `OutfileLast` | `Spec => []OutfileAfterInput` |
| `ExitCodeCorrect` | `Spec => []KeepGoingPerFile` |

The argument.  The properties compare the end of a run with the lines it has read
(`hist`).  `IInv` (module `IpDedupInv`) says the same of every moment:

- `Control` says which builder is at work at each step of `main_run()`, and
  `FilesInOrder` that the files are read one after the other, input before purge, and
  all of them before anything else; from it comes `OutfileAfterInput`.
- `KeptGoing` ties `keep_going_status` to the lines of the current file alone, and
  says that no run goes on behind a line or a file it ought to have stopped at.
- `Built` says what each tree stands for between any two steps, as a function of
  the lines: the networks named so far, inverted after the inversion, without the
  purge files' networks at the end.  The heart are the lemmas that reading one
  more line adds the same networks to the lines' (`NamedMore`) and to the tree's
  (`LineParsed`, from what each way through the dispatch returns), in single and in mixed mode, strict or not, where one line can name two networks or one be taken back.
- `Listing` says the same of what is printed.

`Built` and `OutputIsDedup` hold under `ShiftsDefined`: no strict run has accepted an
address with host bits and prefix length 0.  There the code shifts by the width of a
word and either outcome is possible (`mcIpDedupStrict` shows it); what such a line
adds to the tree is then the build's choice and no function of the lines.

`IpDedupMemoryProofs` proves, for every number of arguments and nodes and every
first capacity, from `MemoryAssumption` (these are natural numbers, the capacity is
not 0):

| theorem | statement |
|---|---|
| `Invariance` | `Spec => []IInv`, the inductive invariant |
| `ArraysHold` | `Spec => []TypeOK`: no list is longer than its array |
| `NoUseAfterFree` | `Spec => []MemorySafe` |
| `NoOtherLeak` | `Spec => []NothingLost` |

The argument.  That no step frees what is not allocated needs that what the program
still has a pointer to is allocated (`OwnedIsLive`), that no block has two owners
(blocks of different kinds are different; the pile holds a path once: `PathsOnce`),
that a name in a list of files is kept by argv or by the pile as long as files are
read (`NamesKept`), and that a collected list exists only while its tree does
(`CollectedNodes`).  The lemma `HeapStep` says when a change of the owned and of the
live blocks keeps `OwnedIsLive` and `NothingLost`; each action is an instance.

`IpTextProofs` proves for every number and size of blocks, every set of lines and
networks (`CAssumption`, `BlockAssumption`, `TextAssumption`, `NetAssumption`: sizes are
positive, lines are sequences of tokens, an IPv6 address is two words of half its
blocks, and a network that is printed has no host bits, as `ShapeHolds` says of
the tree's nodes):

| theorem | statement |
|---|---|
| `BitOps` | reading, setting and flipping the bit of a prefix position in two words is IpAddr's operation on one sequence of bits |
| `Masks` | netmask, host mask and host-bit test are right for the lengths that do not shift by a word |
| `BitOpsOfPrinted`, `MasksOfPrinted` | `Spec => []BitOpsHold`, `Spec => []MasksHold`, from these two |
| `JsonIsExact` | `Spec => []JsonExact` |
| `BuffersHold` | `Spec => []BuffersInBounds` |
| `GuessesKeepBlocks` | `Spec => []GuessKeepsBlocks` |

`BuffersHold` rests on `BufInv`, which adds the buffers' types; a lemma per way to
append to a buffer says that it still fits.  `GuessInv` adds what is true while a
line without a slash is on its way: no prefix length, and the results of the line
before are gone; a block that is not zero was appended, so its place is within the
number of blocks the guess is made from.

`ParseIpProofs` proves, from the same assumptions and `PrefixlenAssumption` (a full
prefix length fits the octet it is read as):

| theorem | statement |
|---|---|
| `Ip4IsMeant` | `Spec => []Ip4MeansText` |
| `Ip6IsMeant` | `Spec => []Ip6MeansText` |
| `CompactIsRight` | `Spec => []CompactText` |
| `GuessIsOfWrittenBlocks` | `Spec => []GuessCountsWrittenBlocks` |
| `ReadBackIsRight` | `Spec => []ReadBack` |

The argument, for IPv4.  The property compares a loop that cuts up a line with operators on
the text as it was read; `MeansInv` says where the two stand while the loop runs:

- `CutUp`: the line in memory is the text, but for the slash and the separators up to
  `rem`, which are marked; so what follows `rem` is still what was read.
- `Loop4`: the blocks in the buffer are the words before the last separator, each at
  the index of the dots before it (`Good4` of that prefix of the text), so words and
  dots take turns so far.  Each way to leave the loop is shown to mean that the text
  is no address, and the way to go on that `Good4` holds of the longer prefix.
- At the end `Octets` turns the buffer into `Slot4`, which counts dots in the whole
  text, and `PrefixlenRead` the string behind the slash into its number.

For IPv6 `Means6Inv` adds to that:

- `Mixed`: what is left of the line in mixed mode, where the IPv4 parser reads it
  first.  The guess lets both types try only a line of digits, one that starts with
  `0x`, and one with a slash behind its first digits; each of these has no dot up to
  the place that decides, and dots are all the IPv4 parser marks, so the IPv6 parser
  sees what was read as far as it matters.  Of any other line it is the only parser.
- `Loop6`: for some position `d` of the double colon, 0 if there was none yet, what is
  read so far is blocks and colons that take turns but for `d` (`Blocks6`), and the
  buffer holds each block at the index of the colons before it, counted from the line's
  start on the left side and from the double colon on the right (`Buffered6`); the
  three counters are those numbers of colons, the last block still being open or not.
  Only a line with a slash among its characters is different, and its first block is
  rejected.
- One lemma per way a round changes the buffer (`BufferBlock`, `BufferEmpty`,
  `BufferColon`, `BufferDouble`) shows that `Loop6` holds of the longer prefix; each
  way to leave the loop early means that the text is no address (`TooMany6Rejects`,
  `Bad6Rejects`, `Second6Rejects`).
- At the end of the line (`End6Is`) the prefix is the whole address: it is one exactly
  if a double colon stands for a block at least, and `Slots6` turns the index counted
  from the left, or from the double colon, into the distance from the address's end
  that `Slot6` counts.

For the compact form (`CompactIsRight`) the state says little, the printer's loops all:
`PrintedInv` only keeps that the line being read is the one that was printed.

- `Passed` is the invariant of the pass that looks for zero blocks: the run it
  remembers is a longest one of the blocks before the current run, and the current run
  starts behind a block that is not zero.  `ZeroSeqIs` concludes that the run it
  returns is a longest one of all (`Longest`).
- `CompactCounts` goes back from the last block: what is printed from a block on has as
  many words as there are blocks left that the run does not cover, and a colon behind
  each but the last, with one or two more for the run.  That bounds the length by the
  buffer's, since a run covers a block at least.
- `BlockIsSlot` equates the printer's blocks, shifted out of the two words, with the
  slots of the whole address that the property counts, and `PrintedAddr` finds the
  printed address again before the length.

`GuessIsOfWrittenBlocks` needs `Guessed4` and `Guessed6`: while the IPv6 parser is busy with a
line, and when both are done, the length in an accepted address is that of the blocks
the text has, those that are zero included.  With `Ip4IsMeant` and `Ip6IsMeant` it says that whether a line is
accepted as a type it is tried as, and the address and length that are made of it,
depend on its text alone.  IpDedup, where a line is one record of results whatever was
read before it, rests on that.

`ReadBackIsRight` joins the printer's loops to the parsers'.  It needs one more assumption,
`PrintAssumption`: a block fits the octet or double octet it is read as (8 and 16 bits),
an IPv4 address has two blocks at least (a single one may be guessed to be either type),
and IPv6 networks, like the IPv4 ones, have no bit below their length; all are facts
of the code, the last one is `ShapeHolds` of the tree's nodes.

- The invariant is `LineInv`: the line being read is that of the network (`LineRead`: the
  address with what is known of its text, a slash unless `-r` leaves it out, and the length
  as a number), and no parser but that of its type is tried (`OneType`).
- A *row* is a stretch of the text of blocks with a separator between each two.  `RowIs`
  counts the separators before and behind each of them.  An IPv4 address and the long
  form are one row (`Row4Means`, `Row6Means`); the compact form is a row before the
  double colon and one behind it (`Fill6`), either of which may be empty, and
  `Fill6Means` says which block of the text is in which slot, and that this is an
  IPv6 address unless the double colon stands for the first block alone.
- `JoinedRow` shows that `printf()`'s format makes a row.  `CompactTailIs` and
  `CompactHeadIs` go from the last block to the first through what base.c appends, and
  `CompactFills` puts both together.  That the exception is exactly `LoneLeadingZero`
  needs that the run is the *first* longest one, which `Longest` says.
- `Block4IsSlot`, `BlockIsSlot`, `LongIsSlot`: the number printed for a block is that of the
  slot; `LowBitsSmall` bounds it by a power of two, so that the parser accepts it.
  `LongIsSlot` holds up to the first half, and there the other half is zero.
- `GuessPrinted`: the characters up to the first separator decide the type.  `Ip4MeansText`
  and `Ip6MeansText`, with what is now known of the text, give the blocks and the length;
  `Guessed4` and `Guessed6` the length where none is printed.

Facts about positions are inductions; they are done by a least counterexample
(`Upwards`, `Downwards`).

Every invariant and action property that a passing run checks is stated by a theorem, and
so is the refinement.  Only model-checked, and out of the prover's reach, is
`OperationEnds` (liveness under fairness).

## 5. Where code and documentation disagree

Seven runs each check one statement of the manual, a message or a comment, and find
it violated by what the code does.

| run | statement | what the code does |
|---|---|---|
| `mcIpDedupCollapseLen` | message of `-B`: "needs a number between 0 and 32" (`-C`: 128) | complains, keeps the number and goes on; exit code 0.  Any octet is kept |
| `mcIpDedupStdin` | "will not read stdin twice" | holds per builder; the purge files have their own, so stdin is read again and is at its end: `-p -` purges nothing |
| `mcIpDedupInvertEmpty` | manual, `-i`: all networks except the input ones | the complement of an empty input is empty |
| `mcIpDedupNoMemory` | manual, exit code 71: failed to get system resources | 70, or 0 and a list is missing |
| `mcIpTextGuess` | manual and `-h`: the prefix length is "guessed based on the number of non-zero blocks" | counts the blocks that are written, zero or not: `10.0.0.0` is a `/32`, where `10.` is a `/8` |
| `mcIpTextJson` | comment in `print_json.c:374`: "last: last address in network" | for an IPv6 /64 the low netmask is a shift by 64 bits; where that leaves it all ones, last is the network's own address.  The same for `::/0` |
| `mcIpDedupStrict` | manual, `-s`: non-zero if host bits are set | with prefix length 0 the mask is a shift by the word's width; where that leaves the mask 0, host bits pass |

`mcIpDedupInvertEmpty` also shows that `IpSet!Invert` had to be written as the code
has it: the complement of the empty set is empty.

`ReadBack` names where a printed line is not read back, and but for the long form it
states that it is not, so that the run shows these deviations too:

- a network whose first block alone is zero is printed as `::2:3:4:5:6:7:8`, which
  the parser rejects: the seven blocks to the right of the double colon and the
  empty one it counts to its left are already eight;
- the long form takes the fifth block at bit 46 (`ip/ip6/base.h:56`): for prefix
  lengths above 64 another network is printed;
- `-r` leaves `/128` out, and `2001:db8::` is read again as a `/32`: the guess counts
  the blocks that are written when none is to the right of the double colon (`mcIpTextGuess`).

No run of its own shows that a line that starts with `0x` ends a run with `-k` too, and
with 70, against the manual's "skip invalid lines in input instead of exiting": a comment
in the code says so (`mixed.c:149`).  Lines of that kind are in `mcIpDedupParse`.

Other peculiarities the models have as the code has them: `:1:2` is accepted as
`0:1:2::/48`, `::` alone is a `/16`, and the netmask of `0.0.0.0/0` may be
`255.255.255.255` in JSON (the shift is undefined).

## 6. Not modelled, and the plan

Left to do, in this order:

1. Compose ParseIp with IpDedup: `Line` is there the set of results a line may have;
   ParseIp could supply exactly those of a text.
2. `-L`: the wait status of `system()` becomes the exit code (`main.c:407`), of
   which the parent sees the lowest 8 bits: a shell that exits with 1 gives 256,
   seen as 0.  Now it is one step with every exit code.

Taken from the C library: `errno` after `getline()` tells a read error from the end of
a file (`readfile.c:105`).  `ReadFails` and `EndOfFile` are two actions, so the
properties say what follows a read error, and not that each one is recognised.

Not modelled, since no state of the program and no promise of its documents
depends on it: errors of writing and closing the output, which the code does not
look at (`globals.c:66`); a carriage return at a line's end, which makes the line one
of those the parsers reject (`strutil.c:7`); `dynarray_pop()` and the setters no one
calls; build files, the lists of networks that come with the program, the shell
scripts and completion, help texts, and the layout of JSON.
