# A formal model of the bencode library

TLA+ specifications of the C library and command-line tool in this repository:
what each component promises, what its code does step by step, and how the two
are related. Every definition that models code is listed, with the lines it
stands for, in `PROJECT.json` ("map"). Paths below are relative to the repository.

## 1. The system

| Component | Source | State it keeps | Operations |
|---|---|---|---|
| Vocabulary | `include/bencode/bencode.h`, `src/parse_sax.c` 61-88 | none | statuses, callback table, byte order of keys |
| SAX parser | `src/parse_sax.c` | cursor, scope array (256), effective depth; for one call only | `bencode_parse_sax` |
| DOM parser | `src/parse_dom.c` | root, array of 257 frames, depth; for one call only | `bencode_parse` and its six callbacks |
| Value tree | `src/value.c`, `src/bencode_internal.h` | heap nodes, arrays with capacity, copied keys and payloads | new, append, set, get, clone, free, accessors |
| Emitter | `src/emit.c` | a sink: FILE, user callback, or a growing buffer | `bencode_emit`, `_to_file`, `_to_alloc` |
| Command-line tool | `src/main.c` | input buffer, a tree, stdout | `validate`, `print`, `roundtrip`, `size`; exit code 0, 1 or 2 |
| Status names, version | `src/status.c`, `src/version.c` | none | constant strings |

**Interaction.** Everything is a synchronous call on the caller's thread: there
are no threads, locks or messages, and nothing is persisted. The SAX parser calls
back the consumer; the DOM parser is one such consumer and calls the builders of
the value tree from its callbacks; the builders call the caller's allocator; the
emitter walks a tree and calls a sink; the command-line tool calls the DOM parser
and the emitter.

**What is hard here** is therefore not scheduling, but:

* a recursive-descent parser with mutable state in three places (cursor, scope
  stack, `expecting_key`) whose pieces agree only between certain lines;
* failure at any point: the input may stop or go wrong at any byte, every
  callback may refuse, and every allocation may return NULL, with partly built
  structures that someone must free exactly once;
* two stacks kept in parallel by two files that never look at each other
  (`sax_scope` in the parser, `dom_frame` in the builder);
* arithmetic at its limits: 64-bit accumulation with an overflow guard, the
  asymmetry of `INT64_MIN`, lengths compared with what is left of the input,
  fixed arrays guarded by a caller-supplied depth.

**What makes each component correct.**

* SAX parser: accepts exactly the canonical documents within the depth limit;
  reports exactly what it read; never leaves its array or its input; ascending
  keys; errors and refusals are final; always returns; a truncated document is
  called truncated.
* DOM parser: its stack mirrors the parser's; pointers in frames never dangle; no
  block leaks or is freed twice, whatever allocation fails; the tree spells the
  document; trailing bytes are refused unless asked for.
* Value tree: entries within capacity; keys sorted and unique, so that every key
  is found; every child has one owner; a failed operation changes nothing the
  caller can see; a clone shares nothing with its original.
* Emitter: writes the canonical spelling of the tree; the bytes that reached the
  sink before a failure are a prefix of it; the growing buffer never overflows
  and is freed on failure.
* Command-line tool: one exit code for each outcome, and no success reported
  for output that was lost.

## 2. Modules

| Module | What it is | Extends |
|---|---|---|
| `Bencode` | bytes, statuses, events, byte order | standard modules |
| `EventProtocol` | **abstract**: what a consumer of the callbacks may rely on | `Bencode` |
| `ParseSax` | **detailed**: `parse_sax.c` | `Bencode`, instantiates `EventProtocol` |
| `Encoding` | reference definition of how a number, a string, a sequence of events and a tree are written | `Bencode` |
| `CanonicalBencode` | reference definition of the grammar, recursive | `Encoding` |
| `SaxSpelling` | what has been reported, spelt, against what has been read | `ParseSax`, `Encoding` |
| `SaxReference` | properties of the parser against the recursive reference | `SaxSpelling`, `CanonicalBencode` |
| `ValueTree` | `value.c` as operators on a heap | `Bencode` |
| `ParseDom` | **composition**: `parse_dom.c` over `ParseSax` and `ValueTree` | both |
| `DomSpelling` | what the tree stands for, once it is handed out and while it grows | `ParseDom`, `Encoding` |
| `DomReference` | which inputs give a tree, against the recursive reference | `DomSpelling`, instantiates `SaxReference` and `CanonicalBencode` |
| `ValueClone` | `bencode_value_clone`, its recursion as a stack of frames | `ValueTree` |
| `ValueForest` | **abstract**: what a caller of the builders may rely on | `Bencode` |
| `Builder` | **detailed**: any client of `value.c` | `ValueClone`, instantiates `ValueForest` |
| `Writer` | **abstract**: what the emitter promises its sink and its caller | `Bencode` |
| `Emit` | **detailed**: `emit.c` | `ValueTree` |
| `EmitWriter` | the emitter as a `Writer` of the document that the tree stands for | `Emit`, `Encoding`, instantiates `Writer` |
| `EmitReference` | what is emitted against the canonical grammar | `EmitWriter`, `CanonicalBencode` |
| `ReadAll` | `read_all` of `main.c` | standard modules |
| `Cli` | **composition**: the process, over `ReadAll`, `ParseDom` and `Emit` | all three |
| `CliReference` | what the documentation of the tool promises | `Cli`, `CanonicalBencode` |
| `MCSaxBytes`, `MCSaxTokens`, `MCSaxPrefixes`, `MCDom`, `MCBuilder`, `MCEmit`, `MCReadAll`, `MCCli` | instances for TLC | the modules they are named for |
| `ParseSaxProofs` | proofs: the parser's invariants; the callbacks follow the protocol and spell the input | `SaxSpelling`, `BencodeProofs` |
| `ReadAllProofs` | proofs: the buffer is the input | `ReadAll` |
| `BencodeProofs` | induction and recursive functions; concatenation and decimal notation; the byte order of keys is total | `Encoding` |
| `ValueTreeProofs` | proofs about the operators of `ValueTree`: search, allocation, growth, freeing; what a tree spells | `ValueTree`, `BencodeProofs` |
| `ParseDomProofs` | proofs: `bencode_parse` drives the parser; the tree, its frames and its heap; the tree spells the input | `DomSpelling`, `ParseSaxProofs`, `ValueTreeProofs` |
| `BuilderProofs` | proofs: what the caller of the builders owns is a forest; clones | `Builder`, `ValueTreeProofs` |
| `EmitProofs` | proofs: the emitter's sinks and its buffer; the emitter is a `Writer` | `EmitWriter`, `ValueTreeProofs` |
| `CliProofs` | proofs: what the tool allocates is freed, over a whole run | `Cli`, `ParseDomProofs`, `EmitProofs`, `ReadAllProofs` |

Recursive operators live only in the reference modules, which the proofs do not use.
Operators with a name such as `HasRoom_late`, marked *Mutant* and placed before the
definition they vary, are plausible bugs of that definition; `PROJECT.json` says
which property rejects each. No specification uses them.

### 2.1 `ParseSax`: how it corresponds to the code

One behaviour is one call of `bencode_parse_sax`. The C recursion
`parse_value -> parse_list / parse_dict -> parse_value` needs no stack of its own in
the model: an activation of `parse_list` or `parse_dict` exists exactly while its
scope does, so `scopes` is both. `pc` says where control is:

| `pc` | in the code |
|---|---|
| `entry` | before the argument checks |
| `value` | `parse_value` has been called for the root |
| `body` | at the head of the `while (1)` of the innermost container |
| `digits` | in the loop of `parse_unsigned`, for the purpose `num.use` |
| `open_callback` | in a callback after which the container's body goes on (a begin, or a key) |
| `value_callback` | in a callback that reports a complete value (a scalar, or an end) |
| `unwind` | `status` is on its way up: the innermost activation that is left is about to get it |
| `done` | returned |

There is one action per token-level function (`parse_int`, `parse_string`,
`parse_list`, `parse_dict`, `parse_dict_key`, ...), one step per digit, one per
callback. An error goes up as it does in the code: `Fail` is the return of the function that
found it (or whose callback refused), one `HandUp` is an enclosing `parse_list` or
`parse_dict` that gets it, pops its scope and returns it, and `ReportError` is the public
entry, which reports the cursor. `Resume(st)` is the return of a callback; `ParseDom`
substitutes its own callbacks there.

`events`, `keys` inside a scope, and `callback_status` are history variables: the
code does not keep them, no guard reads them except to know which callback is in
flight, and the properties are stated with them.

### 2.2 `EventProtocol` and the refinement

The abstract specification knows nothing of bytes: a consumer hears one value;
a container ends only when it is innermost; in a dict keys and values alternate,
keys ascend, and a dict does not end between a key and its value; OK means the one
value is complete. `ParseSax` implements it under the mapping `OpenFrames`. The one
subtle point of the mapping is the code's at `parse_sax.c:383`: the parser sets
`expecting_key` after the callback of the value has returned, the consumer
considers the key due as soon as the callback is made. Once an error has been found the
report is over: what is left of the scopes while they unwind is not shown (`OpenFrames` is
empty then), and the result is the status under way, so each `HandUp` must leave it alone.

### 2.3 `ValueTree` and `ParseDom`

The heap is a value: the set of live blocks, each with the allocator it came from, the
contents of the live nodes, and a `fault` flag raised by freeing what is not live or
belongs to another allocator. An allocator gives the lowest free number, so that memory is
reused as soon as it can be and a stale pointer may well meet a new node. Each operation is
an operator from a heap to the *set* of its results, because every allocation may return
NULL. A table that lacks a function (`"partial"`) is what `bencode_allocator_check` refuses.
`bencode_value_free` frees the whole tree in one step; it raises `fault` when
two entries lead to the same node, which is when the recursion would free it twice.

`ParseDom` adds the builder's state (`dom`) and the entry point's (`dom_pc`, `opts`,
`returned`) to the parser's. A callback is atomic, as it is in the code: nothing else
runs meanwhile, and the intermediate states are inside the operators
(`open_container` = allocate, attach or free, push).

### 2.4 `Builder` and `ValueForest`

`Builder` is a program that uses `value.c`: it makes values by several allocators, parses
strings out of an input buffer, appends, sets, clones and frees, in any order the header
allows. A call is two steps, the caller's (`CallMake`, `CallSet`, ...) and the library's
(`Make`, `Attach`, `Free`), with the request in `ask` and the result in `answer`. A call that
lacks a pointer it needs is one request (`CallWithNull`), refused before anything is looked at
(`RefuseNull`); the operators of `ValueTree` and `ValueClone` stand for calls that have theirs.
`ValueForest` is the same interface without blocks, arrays or order: nodes with contents, a
dict as a function from keys to values. It says what a failed call leaves (everything), what
`dict_set` does to a key that is there (frees the old value, cannot fail) and what a clone is
(equal, disjoint, the caller's). `Builder` implements it under the mapping `Contents`.

### 2.5 `Emit` and `Writer`

One behaviour is one call of `bencode_emit`, `_to_file` or `_to_alloc`. The recursion
`emit_value -> emit_list / emit_dict -> emit_value` is `tasks`, what is left to write:
`TakeApart` replaces a value by its parts, or a loop by its next iteration and the rest of it;
`emit_bytes` is one call of the sink, which may refuse. The three sinks are operators
from a chunk to the results it may have: the caller's function, `fwrite` (which may keep
the bytes, pass them on, or write some of them), and the buffer that doubles. `Writer` knows
only a document and a sink that takes it piece by piece; the mapping gives it the canonical
spelling of the tree.

### 2.6 `ReadAll` and `Cli`

`ReadAll` is `read_all` with `grow_buf` and `open_input`. `Fread` follows the C standard: it
returns as much as was asked for, or all that is left, unless there is an error; the error
flag of the stream is sticky, the position after an error unspecified.

`Cli` runs the process from `main` to exit: `cli_pc` is in `main` and `load` first, then named
after the subcommand, then `cleanup`, `free_input`, `exit` and `gone`. The emitter's buffer, the tree
and the input are freed one after the other (`FreeEmitted`, `FreeValue`, `FreeInput`). `load` runs `ReadNext`, then gives the
bytes to `DomNext`; `roundtrip` runs `Emitting`; `print` and `size` walk the tree by its accessors,
using the emitter's `tasks` for their own recursion. `stdout` is a stream that may keep
what it is given, so that a write that "succeeded" may fail later: in the `fflush` of `print`,
which is looked at, or in the flush at exit, which is not.

### 2.7 Conventions and abstractions

* Integers have the width of a small machine: `UINT64_RANGE`, `INT64_MAX` and `SIZE_MAX`
  are constants, and the accumulator wraps modulo the first one. The assumptions
  on them (`WidthAssumption`) are those that hold of the real ones.
* Pointers into the input are byte strings. A NULL `last_key` or `pending_key` is `<<>>`
  and a non-NULL one `<<key>>`, so that the empty key is not mistaken for none.
* A write of several calls with no decision between them (the characters of a printed
  string, the indentation, the eight lines of `size`) is one write; a write that fails leaves the
  text as it was, since nothing is written after it and its caller only learns that it failed.
* Messages are reduced to their newline, `print`'s rendering to its brackets, commas, colons,
  numbers and quoted strings; nothing is said of standard error.
* `memcmp` and the allocator are outside the repository and modelled by their contract.

## 3. Runs

The bounds are small because the grammar is: depth 3 passes every combination of
"limit below, at, above the array", six-bit integers have the same corners as
64-bit ones, and capacity 1 doubling to 4 makes an array grow twice and fail once.

| Run | Inputs and bounds | Checks |
|---|---|---|
| `sax_bytes` | every string of up to 5 bytes over 10 bytes: `i l d e : -` and the digits 0-3; 111 111 calls | `TypeOK`, `NumbersInRange`, `RoundTrip`, `AcceptsCanonical`, `Progress` |
| `sax_tokens` | up to 4 tokens after an open container, and dicts of up to 4 entries over 4 keys (one empty, one a prefix of another); limits 0, 1, 7; three sets of callbacks, each of which may abort; the NULL input | `IInv` (which includes `CursorInBounds`), `DepthBounded`, `KeysAscend`, `AbortIsFinal`, `AcceptsCanonical`, `ImplementsProtocol` |
| `sax_prefixes` | every prefix of every canonical document among those, under fairness | `PrefixesRunOut`, `CursorInBounds`, `Termination` |
| `dom` | up to 3 tokens after an optional open container, dicts of up to 3 entries with container values, a fixed nested document; limits 0 and 7; strict, trailing, and refused arguments; every allocation may fail | `Mirror`, `Spine`, `Owned`, `Searchable`, `TreeSpells`, `AcceptsDocument`, `DomInv` |
| `builder` | up to 4 values, of 5 kinds by two allocators (an integer, a string, a list, a dict, a string parsed out of a buffer), and clones by a good and an incomplete allocator; one key, at most 2 owned and 2 entries | `Ownership`, `Detached`, `ImplementsForest` |
| `builder_dicts` | up to 4 values, over 3 keys (one empty, one a prefix of another) set in any order and again; capacity from 1 to 4; an allocator that is refused | `EveryKeyFound`, `ImplementsForest` |
| `emit` | scalars with 1 and 2 digits and both extremes, lists of 2, dicts of up to 4 keys inserted in every order, nesting 3; 3 entry points, missing arguments, an incomplete allocator; buffer from 4 to 16, growth succeeds twice and then fails | `BufferHolds`, `BufferOwned`, `FileDelivered`, `EmitsCanonical`, `ImplementsWriter`, `EmitInv` |
| `read_all` | inputs of 0 to 17 distinct bytes; buffer from 2 to 16, so growth succeeds three times and then fails; every read and allocation may fail | `WholeInput`, `Accounted`, `NothingKept` |
| `cli` | 16 files (empty, scalars, nested, escaped, longer than the first buffer, malformed, truncated, trailed, too deep) and 14 command lines; every read, write, flush and allocation may fail | `ExitCode`, `Printed`, `StatsAgree`, `Released`, `Exits` |
| `emit_deep`, `cli_writes`, `cli_memory` | as `emit` and `cli` | **violated**: `ParseAccepts`, `WriteErrorsReported`, `OneMeansNotCanonical` (see Findings) |

What they show:

* `AcceptsCanonical` compares the parser with an independent recursive definition of
  the canonical grammar: both directions, so neither a non-canonical spelling
  is accepted (leading zero, `-0`, unsorted or repeated key, wrong length, a number
  past its limit) nor a canonical one refused (`INT64_MIN` included).
* `AbortIsFinal`: after a refusal, whatever the parser still has to do to return through the open
  containers, nothing more is reported, the caller gets the status of the callback, and the
  offset it gets is the end of what the events up to the refused one spell.
* `RoundTrip` holds at every point between two recognised items, not only at the end:
  what has been reported spells what has been consumed.
* `PrefixesRunOut`: a reader that gets a document piecemeal may retry on
  TRUNCATED or STRING_LENGTH; no prefix of a good document gets another error.
* `Mirror` is the agreement that `parse_dom.c` relies on and nowhere checks. The
  two `expecting_key` flags of an outer dict legitimately differ while a
  container that is its value is open; the property says exactly when.
* `Owned` says, at every moment outside a callback and after every combination of
  failed allocations, that the live blocks are exactly those of the one tree.
* `ImplementsForest`, `Ownership` and `Detached`: the rules the header gives the caller are
  enough. Whatever it does within them, and whatever fails, no block is lost, freed twice, freed
  by another allocator, or read after the input it points into is gone.
* `ImplementsWriter` and `EmitsCanonical`: at every moment, refusals included, the sink has a
  prefix of the canonical spelling; no empty chunk, nothing after a refusal, and OK only with
  the whole document (for a FILE: delivered, not kept).
* `WholeInput`: an error that strikes after some bytes of a read looks like success to the loop.
  It is not lost, because the flag is sticky and the loop ends only on a read of nothing.
* `ExitCode` relates the ends of the process: exit 0 only for a canonical file read
  entirely, 1 only for a file that is not one (so that `roundtrip` never differs) or when memory
  ran out, 2 exactly when a read failed or a write said so.
* `Released` holds at every moment of a run: there is no tree without the input that its strings
  point into, so the tree must be freed first, on every path.
* `StatsAgree` compares the tally of a walk of the tree with the parser's events.

Deadlock is not checked: a behaviour is one call, or one run of the process, and it ends;
`builder` ends where its bounds are reached.

### Findings

* `cli_writes` (a bug): `validate`, `roundtrip` and `size` do not flush standard output. When it
  is a file or a pipe, `puts` succeeds before anything is written, the flush happens at exit and
  its failure is ignored: `bencode validate FILE > /dev/full` exits with 0. The documentation
  promises 2 (`README.md` 88, `src/main.c` 22); `print` keeps that promise.
* `cli_memory`: out of memory is exit code 1, which the documentation reserves for input that
  is not canonical (`README.md` 87, `src/main.c` 21 and 252-254).
* `emit_deep`: the header says that what is emitted is what `bencode_parse` accepts
  (`bencode.h` 470); the builders and the emitter know no limit of nesting, the parser does. That
  the builders have none is documented (`bencode.h` 386-398, with the C stack as the danger); the
  promise at 470 makes no exception for the trees that are so built.

### Fairness

`sax_prefixes` and `cli` use it. `FairSpec` is weak fairness of the parser's own steps (it
runs on the caller's thread and waits for nothing) and of callbacks (the
library can promise to return only if its callbacks do). `Progress` states the
same without fairness: every step lowers `Variant`, three for each byte left, one for
each open scope and a rank of `pc`, so that the number of steps is linear in the input. `CliSpec` has weak fairness
of the process as a whole: it is one thread that is scheduled, and reads of its input return.

## 4. Proofs

TLAPS checks these for every value of the constants that satisfies the named
assumptions of `ParseSax`, `ValueTree`, `ParseDom`, `Builder`, `Emit`, `ReadAll` and `Cli`: any set of calls, any
depth of the array, any integer width, any input, any tree, any size of a buffer, any program that uses the
builders and any command line.

| Theorem | States |
|---|---|
| `Invariance` | `Spec => []IInv` |
| `TypeCorrect`, `DepthIsBounded`, `CursorStaysInBounds`, `NumbersStayInRange`, `KeysAreAscending` | the corresponding invariant |
| `AbortsAreFinal` | `Spec => []AbortIsFinal` |
| `ParsingProgresses` | `Progress`: every step lowers the variant |
| `Refinement` | `Spec => ImplementsProtocol` |
| `EventsSpellInput` | `Spec => []RoundTrip` |
| `DrivesParser` | `DomSpec => Spec` |
| `ParserInvariantUnderDom` | `DomSpec => []IInv` |
| `TreeInvariance` | `DomSpec => [](IInv /\ DomInv)` |
| `StacksMirror`, `FramesAreTheSpine`, `TreeOwnsHeap`, `EveryKeyIsFound` | `DomSpec => []Mirror`, `[]Spine`, `[]Owned`, `[]Searchable` |
| `TreeSpellsInput` | `DomSpec => []TreeSpells` |
| `KeyTrichotomy` | `bytes_cmp` is a total order whose zero is equality |
| `DictSearchFinds`, `DictSet`, `FreeTree` | what the binary search finds; what `bencode_dict_set` and `bencode_value_free` leave on the heap |
| `BuilderInvariance` | `BuilderSpec => []BuilderInv` |
| `OwnershipHolds`, `DetachedHolds`, `EveryKeyFoundHolds` | `BuilderSpec => []Ownership`, `[]Detached`, `[]EveryKeyFound` |
| `ForestIsImplemented` | `BuilderSpec => ImplementsForest` |
| `EmitInvariance` | `EmitSpec => []EmitInv` |
| `BufferHasRoom`, `BufferHasOwner`, `FileIsDelivered` | `EmitSpec => []BufferHolds`, `[]BufferOwned`, `[]FileDelivered` |
| `WriterIsImplemented` | `EmitSpec => ImplementsWriter` |
| `InputIsWhole`, `ReadsAreAccounted`, `NothingIsKept` | `ReadSpec => []WholeInput`, `[]Accounted`, `[]NothingKept` |
| `CliInvariance` | `CliSpec => []CliInv` |
| `NothingIsLeft` | `CliSpec => []Released` |

**The inductive invariant.** None of the safety properties is inductive alone. `IInv` adds

* `ControlInv`: where there must be an open scope, an event, or a byte to read. Without
  it `Last(scopes)` and `peek(p)` have no meaning in the actions that use them;
* `NumberInv`: `num.max_mag` is the limit of the number's purpose, and a key is being read
  only in a dict that expects one;
* `ScopeInv`: only the innermost scope can be expecting a key (the consequence of
  `parse_sax.c:383` coming after the recursive call), and `last_key` is the last of
  `keys`. The second half is what turns the comparison with a neighbour into
  `KeysAscend`, by transitivity of the order (`KeyBefore`), which is a lemma.

The numeric core is the lemma that the overflow guard is exact: in wrapping
arithmetic `acc > (max_mag - d) / 10` holds if and only if `acc * 10 + d` exceeds
`max_mag`, given `d <= 9 <= max_mag < UINT64_RANGE`. The lower bound on the limits is
needed: for a limit under 9 the subtraction itself would wrap.

**The refinement** goes action by action: actions that recognise something map to
`Hear`, those that find an error or end the call to `Return`, all others to a stutter (handing
an error up among them), `IInv` supplying what `open` must look like.

**What is reported spells what is read.** `RoundTrip` is silent while a number is in progress, so it is
strengthened to `SpelledInv`: then what has been reported, the bytes that open the number (`i`, `i-`, or none
for a length) and the decimal notation of the accumulator are what has been read. A digit that
is taken extends that notation by itself (`DecimalGrows`) unless the accumulator is 0, and
then there is none to take, since a leading zero is refused before the loop; that is the second part
of `SpelledInv`. The ends of a number add its terminator, and `-0` never gets there. A string adds its
length, the colon and the payload, which are adjacent pieces of the input (`ReadGrows`,
`PayloadSpells`). That concatenating the spellings of one more event adds that event's spelling is
`FlattenAppend`, about `FlattenSeq` of the community modules.

**Aborts.** `AbortIsFinal` speaks of a state in which the callback has already refused, with an
arbitrary number of containers open. Its inductive step has two halves. When the callback refuses,
what is reported spells what is read, which is `RoundTrip` just before: hence the proof carries
`SpelledInv` along (`SpellingInvariance`). From then on only `HandUp` and `ReportError` can step
(`ErrorSteps`, `ParserKeepsAnswer`), which keep the cursor, the status and the events.

**`DrivesParser`.** The steps of `bencode_parse` either leave the parser's variables alone or
are parser steps; the one case with content is the callback, which must answer with a status
that `ParseSax` allows a callback to return. That is a chain of lemmas down to
`grow_array` and the node allocation. From it every theorem about the parser holds
while the tree is being built.

**`read_all`.** `WholeInput` speaks of the return only. What makes it inductive is `Accounted`:
until an error the buffer is the part of the input before the position, and there is room, so a
read of nothing without an error means that the position is the end. `Tidy` adds which exits
have given the buffer up. The step with content is `ReadSome`: two adjacent pieces of the input
make one (`Contiguous`).

**The tree.** `DomInv` is the invariant of `bencode_parse`. It has three parts, none of which is
inductive without the others:

* `OneTree`, of the heap (`HeapInv`): every live block is a part of exactly one node
  (`HeldOnce`), no two entries lead to the same node (`OneParent`), entries fit their arrays and
  those of a dict ascend (`Ordered`), the nodes are those reached from the root, and no entry leads
  back to it;
* `OnSpine`, of the frames: each container is the root, or the last entry of the one around it, and
  they are distinct. It is what makes the container of a frame survive the freeing of a node its
  parent could not take: only a node that never became an entry is freed;
* `StackInv`, of the frames and the parser's scopes (`Agrees`): a dict has the keys its scope has
  heard, in that order, but for the one that waits in the frame. `CallbackInv` adds what the callback
  in flight is for. It is this part that carries the parser's `KeysAscend` over to the heap: the
  pending key comes after all keys of the dict, so `bencode_dict_set` inserts at the end and never
  replaces, which is why no callback ever frees a subtree that a frame points into.

The argument follows the code. `ValueTreeProofs` proves of each operator what it does to a heap in
order: the block an allocator gives is new, growing an array keeps the entries and gives back the old
block, an entry is added or every block is given back. `AttachTop` puts these together for a
callback, `NodeHandled` for a new node in any of them, `HandlerHandled` for all; `ParseHears` and
`HeardStack` do the parser's own steps.

**The forest.** A client of `value.c` has many trees, no order among its calls and no parser to keep its keys
ascending, so nothing of `DomInv` but `HeapInv` is left. `BuilderInv` says that the heap is a forest
(`ForestOf`): `HeapInv`, entries lead down (`Grounded`: each node has a depth greater than its parent's), and
what the caller owns is what no entry leads to (`Parentless`). A depth is what makes the proofs possible: `Tree`
is a union of levels, as many as there are nodes, and it is only where entries lead down that they are enough, so that the tree is the least set that holds the root and the
children of its members (`LevelIsReached`, `TreeHolds`, `TreeIsLeast`). From that come `ForestOwns`, which is
`Ownership`, and that a call leaves the trees it does not touch as they were (`OtherTreesStay`). The rest of
`BuilderInv` is the request: that it is about values the caller owns when the library comes to answer it,
and that only values parsed from the input borrow from it (`Borrowed`).

* *Attaching* a root to a node outside it keeps every path down (`EntryTaken`): the depths of the gift grow by that
  of its new parent.
* *Setting* a key opens a gap in the middle of the array, with the keys on either side still in order (lemmas of
  `ValueTreeProofs`), or frees the tree of the old value, whose blocks no other tree has (`ValueReplaced`, `RootFreed`).
* *Cloning* is the induction over the steps of the copy. While it lasts (`Running`), the heap is what it was and, beside it,
  a forest whose roots are the copies under way, one for each call of the recursion; `ImageOf`
  maps the nodes copied so far to their copies, entry by entry, and `Following` says that those
  that lack entries are the frames. When the last frame returns the image is
  the whole tree: a node left out would have an entry leading to it from one that is complete. A refusal at any
  depth frees one root of that forest per frame, so nothing is left of it (`CopyGivenUp`, `NothingLeft`).
  `CloneEnds` turns what every step keeps into what the call returns. (The operator `bencode_value_clone` looks three
  steps ahead for every node, which an entry, a return and a release per node never pass; that it always returns is
  TLC's to say.)

**The builders keep their promises.** The refinement maps every block with a node to what its caller can see
of it (`Contents`; `View` in the proofs): a list to the sequence of its children, a dict, whose keys differ because
they ascend, to the function from them to theirs (`KidsOfDict`, `KidsOfOthers`). `ValueForest` walks this map where the heap has entries;
`ForestBelow` shows that both walks find the same tree. Every answer of the library is then a step of `ValueForest`:

* a refusal leaves the heap, and so the map, as it was, and comes only where `ValueForest` allows one (`Refuses`, `CallFails`);
* an appended entry is one more child, a gap opened for a new key one more point of the function (`KidsPut`), and a key that is there
  keeps its place and changes its value, while the old value's tree leaves the map (`KidsLed`);
* the image by which `ValueCloned` describes a clone is the bijection that `ValueForest` asks for: onto the new
  values, with the children of each copy the copies of the children (`KidsCopied`, `TreeIsCopied`).

The caller's part is `CallersRights`: what `AskInv` says of a request is what `Rightful` asks of one. `FreeInput` is a stutter.

**The tree spells the input.** `TreeSpells` speaks of the return only; `DomSpelledInv` says what the tree
stands for while it grows. Its spelling (`Spelling`) always has an end for every open container,
though none has been heard yet, and lacks the key that waits in the innermost frame. So what the events
that the builder has been told of spell (`Answered`: all but the one in flight) is the spelling of the tree without
those ends, and with that key (`Spells`). A callback that succeeds moves both sides on by the spelling of its
own event (`Respelt`), however deep the entry goes: `GrowthSpells` shows, from the innermost container up
along `OnSpine`, that a new last entry appears in the spelling of the root exactly where the ends begin.
`Agrees` supplies the key under which a value goes in (`KeySpent`). With `RoundTrip`, which
`DrivesParser` carries over, the tree handed out spells the bytes consumed.

**The emitter's buffer.** `TreesAssumption` says that the trees given to the emitter satisfy `OneTree`,
which is what `TreeInvariance` proves of a tree that `bencode_parse` returns. `EmitInv` adds to
`BufferHolds` and `BufferOwned` that the tasks are about nodes of the tree, that the children of a
node are nodes, and that the block of the buffer, which exists only for `bencode_emit_to_alloc`, is
not one of the tree's. The last is what makes freeing the buffer on a failed write leave the tree
whole. The argument has one lemma per sink (`UserSink`, `FileSink`, `AllocSink`), each saying what a
chunk leaves (`Leaves`: the tree as it was, the written bytes within the capacity, a live buffer
that replaced its predecessor or is it); `WalkHolds` carries that over to any step of the walk.
`AllocSink` rests on `GrownHasRoom`: the doubling of the capacity, unless it overflows, ends with room for the chunk.

**The emitter is a `Writer`.** The refinement maps the Writer's document to what the tree stands for
(`Spelling`), and every chunk that is taken to `Accept`. `WriteInv` is why that works: while nothing
was refused, what the sink has, followed by what the tasks of the walk stand for (`Unwritten`), is the
document. Taking a task apart leaves that as it is (`UnfoldSpells`, case by case the text of
`emit_value`), writing a chunk moves its bytes from one half to the other (`ChunkWrites`), and a refused
chunk is cut short of at least one byte (`SinkTakes`), so the sink has less than the document. An
empty list of tasks therefore means that the sink has all of it, and a document is never empty. For
`Spelling` to mean anything the tree must have no cycle: that is the last part of `OneTree`, from which
`TreeRanked` obtains a rank that falls from a node to its children, so that the recursive
function exists (`TreeSpelt`).

**The process.** `CliInv` says, for each stage of a run, what the process has there: `ReadInv` while
`read_all` runs, `IInv` and `DomInv` while `bencode_parse` does, the tree alone (`Loaded`) while a
subcommand looks at it, `EmitInv` and the tree (`TreeAlone`) during `roundtrip`, nothing at the exit.
Each component's invariant is preserved by its own steps, which is already proved; what
`CliProofs` shows is the seams: the buffer of `read_all` is an input `bencode_parse` may be called
with (`CallKeepsInv`), the tree it hands out is one the emitter may be called with, and if it hands
out none nothing is left of it (`EndLoadKeepsInv`), and once the emitter's buffer is gone the tree is
all there is, so that `bencode_value_free` leaves nothing but the input (`InputLeft`, `FreeKeepsInv`). `TreesAssumption` is not used
here: that the tree is in order is a result of `DomInv`. (Its instance in the run `cli` is the empty tree.)

**Recursive functions.** `dict_search`, `Tree`, `bencode_value_clone`, `Spellings`, `Grown`, `decimal` and `FlattenSeq` are recursive functions, and what they compute is
proved by induction. The induction is over a set rather than an operator: the subsets of a finite set
are well-founded (`FS_StrictSubsetOrderingWellFounded`), from which `BencodeProofs` obtains the least
element of a set of naturals (`LeastNatural`), induction (`InductionOverSet`) and the existence of
a function defined by recursion on a rank (`RecursiveFunctionExists`).

**Model-checked only.** Liveness (`Termination`, `Exits`); the comparisons with the recursive
reference, whose operators are declared RECURSIVE (`AcceptsCanonical`, `AcceptsDocument`,
`PrefixesRunOut`, `EmitsCanonical`, `ExitCode`, `Printed`,
`StatsAgree`).

## 5. Not modelled

* `src/status.c`, `src/version.c`: constant strings.
* The check in `emit_int` that `snprintf` did not overrun its buffer, and the branches of `print`
  and `walk` for a NULL node or an accessor that fails: no tree of the library takes them.
* Standard error, the wording of messages and the layout of `print`.
* Concurrent calls: the library has no state of its own, and the header asks its callers not to
  change a value that another thread reads.
* `bencode_parse` with a NULL `opts` or `consumed` pointer: the defaults are those of a
  zeroed struct, and results not stored are not observed.
* A NULL key of some length given to `bencode_dict_get`, and the NULL results of the other accessors
  for a NULL value or a NULL place for the result: they read nothing and change nothing.
* Stack exhaustion by recursion, and alignment of what the allocator returns.
* Tests, fuzzers, benchmarks, examples, build and packaging: no logic of the library.

## 6. Plan

Every function of the library and of the tool is modelled, and every property that does not need
fairness or a recursive reference is proved. What would come next is a reference for canonical
bencode that is a recursive function, not an operator, so that the comparisons with it come within reach
of a proof too.
