# json-projection: a verification development

`json-projection` copies chosen members of a JSON object, as raw bytes, out of a
document it never fully parses; a layer in Python derives what to copy from a
pydantic model.  This directory holds TLA+ models of both, the TLC configurations
that check them on small instances, and theorems about them that the TLAPS proof
system checks for every value of the constants.

Line numbers refer to the repository as it stands beside this directory
(`stream/mod.rs` is `src/stream/mod.rs` of the repository, and so on).

## 1. The system

| Component | Source | State it keeps | Operations |
|---|---|---|---|
| Spec compiler | `src/spec.rs` | none; returns a `Spec` tree | `from_py_root`, `from_py_excluding` |
| Whole-buffer walk | `src/walk.rs` | output buffer, jiter's cursor | `project_bytes` |
| Stream plan | `src/stream/spec.rs` | an immutable arena of nodes | `StreamPlan::new`, `node` |
| Scalar lexer | `src/stream/lexer.rs` | one `State` variant | `start`, `push`, `span`, `finish` |
| Streaming engine | `src/stream/mod.rs` | stack of frames, token, key and output buffers, offset, status | `feed`, `finish` |
| Python API | `src/lib.rs` | a compiled `Spec`, a lazily built shared plan | `apply`, `project`, `stream`, `apply_stream`, `ProjectionStream.feed/finish` |
| Exclusion and schema traversal | `pydantic.py` 34-417 | edited copies of core schemas | `normalize_exclude`, `projected_validator` |
| Projection derivation | `pydantic.py` 423-444, 641-1007 | a derived spec, `complete`, fallbacks | `_derive_spec`, `projection_plan`, `Projected` |
| Migration adapters | `pydantic.py` 447-638 | a spec under construction | `migration_adapter`, `_materialise`, `_keep_path` |
| jiter (crate) | external | cursor, decoded key tape | `next_object`, `next_key`, `known_skip`, ... |

How they interact.  The Python API compiles rules once into a `Spec`.  `apply`
hands the whole buffer to the walk, which drives jiter.  `stream` flattens the
`Spec` into a plan, shared by all sessions of the projection, and opens an
engine on it; the engine uses the lexer a byte (or a span) at a time, and jiter
only to decode the keys it must look up.  `apply_stream` is a loop around one
private session: check signals, read, feed, until a read is empty, then finish.
The pydantic layer derives a spec from a model, asking the adapters of migrating
classes what their validators read, projects the bytes, and validates what is
left with an edited schema.

What is hard here.  There are no threads inside the core, but there is a
two-party protocol: the caller may cut the document **anywhere**, call at the
wrong time, stop early or send what is not JSON, and the session must answer as
if it had seen the document whole.  Two implementations (walk and engine) must
agree byte for byte, including the offset of the first error.  The state a feed
leaves behind (lexer variant, frame, half a key) must be all the next one needs.
Commas are written late, numbers end late, errors in keys are found late.
`apply_stream` adds short reads, failing readers and signals.  Buffers, nesting
and number prefixes have limits.  `PROJECT.json` lists these hazards at their
lines, with the properties that cover each.

The pydantic layer is sequential, and hard in another way: three traversals of
one schema (the derivation, the editing of the validator, pydantic-core's own)
must agree about every place where a class can be, or an excluded value is read.
Guards are dropped on the word of `complete`.  A spec under construction is made
of dicts that are shared; a spec that an adapter returns may hold iterators, or
itself.

What makes each component correct:

* **lexer**: it accepts exactly the scalars of the grammar, refuses at the first
  byte no scalar can go on with, and its fast path changes nothing;
* **engine**: it answers as the walk does, whatever the chunks; it never
  panics; what it drops it never buffers; a failed session keeps nothing;
* **plan**: the order a `HashMap` is walked in does not matter;
* **walk**: its output parses to the selection the reference of the tests makes,
  and projecting twice is projecting once;
* **apply_stream**: bytes are returned for the whole source or not at all;
* **spec compiler**: it accepts the grammar of specs and nothing else, ends on
  specs that contain themselves, and what it makes selects what was written,
  whatever Python code does to the spec meanwhile;
* **adapters**: merging paths keeps at least every path, in any order, and takes
  nothing back; what an adapter returns means the same both times it is compiled;
* **derivation and exclusion**: no excluded value is read, what is retained reads
  as without projection, a plan that is `complete` leaves no excluded key, and
  every adapter was asked.

## 2. The modules

```
 Bytes -+- Lexer -+- ScalarMachine (with ScalarText) -+- MCScalar
        |         |                                   +- ScalarMachineProofs (with Inductions)
        |         +- LexerProofs
        |         +- StreamEngine (with KeyText, PlanShape) -- ByteReading -+- MCStream
        |                                      (with ProjectionContract)    +- StreamProofs (with
        |                                                                      LexerProofs, Inductions)
        +- KeyText -- ScalarText -- Jiter -- Walk (with SpecTree)
 Walk -+- WholeDocument, StreamPlan, Documents (with ProjectionContract) -- MCStream
       +- Reference (with JsonTree) -- MCWalk
 ProjectionContract -- ApplyStream -+- MCApply (with WholeDocument)
                                    +- ApplyProofs
 RuleGrammar -+- SpecCompile (with SpecTree) -+- MCSpec (with WrittenRules, StreamPlan, PlanShape)
              |                               +- SpecCompileProofs (with Inductions)
              +- WrittenRules (with Reference)
              +- Materialise -+- MCMaterialise (with WrittenRules)
                              +- MaterialiseProofs (with Inductions)
 KeepPath -+- MCKeepPath
           +- KeepPathProofs (with Inductions)
 CoreSchema -+- DeriveSpec (with SpecTree) --+
             +- PydanticReads (with JsonTree) +-- Projected -- MCProjected
```

| Module | Models | State and actions, against the code |
|---|---|---|
| `Bytes` | the byte classes and the prefix cap | ranges of the source as sets of numbers |
| `Lexer` | `lexer.rs` | pure operators, one per arm of `push`; a state is a record tagged with the enum's variant; the accumulator is arithmetic modulo 2^16 |
| `ScalarMachine` | one scalar through `start` and `push` | `scalar` is the lexer's state; `text` is a history variable |
| `KeyText` | what `complete_token` asks of jiter and `str::from_utf8` | raw key to name, and `valid_up_to` |
| `ScalarText` | how the crate scans a scalar (external) | offsets in, `ok`/`bad`/`more` with an offset out; the rest of a string is a recursive function, so that it can be proved about |
| `Jiter` | the cursor of the crate as `walk.rs` uses it (external) | the same for objects, arrays and skipping; recursive operators |
| `Walk` | `walk.rs`, and `run` of `lib.rs` | one operator per function; `Run` is what `apply`, a call of a projection and `project` end in |
| `JsonTree` | `tests/reference.py` | trees of members, and what the rules select of one |
| `Reference` | `tests/reference.py` | the tree of a document's bytes |
| `SpecTree` | the enum of `spec.rs` | records tagged by `kind` |
| `SpecCompile` | `spec.rs` 31-136 | see below |
| `RuleGrammar` | the grammar of rules | which Python objects are rules, nested in how many levels, and the tree they spell: recursive functions, so that they can be proved about |
| `WrittenRules` | the same rules, uncompiled | `tests/reference.py` 34-63 on Python objects |
| `PlanShape` | what an arena may look like | the assumption of `StreamEngine`, checked of the compiler's output |
| `StreamPlan` | `stream/spec.rs` | *every* arena `insert` can build, one per order of the fields |
| `StreamEngine` | `stream/mod.rs` | see below |
| `ByteReading` | what a document makes of a session when it is read one byte at a time | a reading is a value (frames, scalar, key, output) and `Takes` takes it to the next; no chunk, no cursor, no span, no comma or number left to a later turn.  It says what `feed` and `consume` come to in `stream/mod.rs` 93-410, and is the `Verdict` of `CutsDoNotMatter` and the second reading of `ProjectsToItself` |
| `ProjectionContract` | what a session promises | state: the bytes fed, the status, the last answer; what the bytes deserve is the constant operator `Verdict` |
| `WholeDocument` | the value of `Verdict` | the walk's answer, under one nesting limit |
| `ApplyStream` | `lib.rs` 112-178 | program counter over the loop; the session inside is the contract's |
| `KeepPath` | `pydantic.py` 543-638 | see below |
| `Materialise` | `pydantic.py` 474-536 | see below |
| `CoreSchema` | the traversals of `pydantic.py` 53-287, 423-444 | operators on a schema; a node is a record tagged by its type |
| `DeriveSpec` | `pydantic.py` 201-229, 675-887 | operators; what the nested functions share is passed on as `st` |
| `PydanticReads` | pydantic-core (external) | what a validator reads of a document, and the exclusions it met |
| `Projected` | `pydantic.py` 325-417, 890-1001 | see below |
| `MC*`, `Documents` | values for the runs | documents built from pieces, rules, offers |
| `LexerProofs`, `ScalarMachineProofs`, `StreamProofs`, `ApplyProofs`, `SpecCompileProofs`, `KeepPathProofs`, `MaterialiseProofs` | theorems | section 5 |
| `Inductions` | lemmas | a set of numbers has a least one; functions defined by recursion exist |

**StreamEngine.**  The variables `frames`, `token`, `key`, `output`, `offset`,
`started`, `status` are the fields of `Engine`; `plan` is the shared arena;
`calling`, `chunk`, `index` are the call in progress and the cursor of
`consume`; `fed` and `reply` are history.  A step is one turn of the loop of
`consume`, complete with every call it makes: `LookupKeyEnds`, for instance, is
the push that completes the key, the write, the offset, jiter's decoding, the
lookup, the comma, and the clearing of the buffer.  The loop consumes no byte in
exactly one case, `NumberEnds`, and the model keeps it as a turn of its own.
Every `Err` is an action (`BadByte`, `LookupKeyBroken`, `BadRoot`,
`TrailingInput`, `Misplaced`, `TooDeep`, `BadValue`, `FinishIncomplete`), which
does what `fail` does, and answers with the offset; the wording of errors is
left out.  Frames keep the node *index*, as in the code, so that the agreement
of the index with the container is a property and not a given.

**SpecCompile.**  The recursion of `from_py` is a stack, `frames`: a call waiting
for a member's rule (with the rules so far and the entries left of the snapshot),
for an element's, or for a name from an iterator; the depth argument is the
length of the stack, and `root` is its being empty.  Objects live in `heap`, by
identity, so that they can be shared and contain themselves.  Python code runs
exactly where the code calls it: while a mapping that is no `dict` is copied, when
an iterator is asked for, and at each of its names.  There the heap may change
(`Meddled`: what is in an object, never what kind of object it is) and an exception
may come; it may also come from the `repr` of the rules, which the constructor of a
projection asks for once they are compiled (`ReprRaises`).  `written` (the objects as they were passed), `calm` (none has been
changed) and `past` (all that they have been) are history.

**KeepPath.**  A derived spec is made of dicts that `_keep_path` changes where they
stand, and the derivation puts one dict under every key of a field, so `heap`
maps identities to entries.  `Construct` is `migration_adapter` up to its return;
the other actions are a call of the adapter it returns, a path at a time and a
turn of `_keep_path`'s loop at a time (`KeptAlready`, `Create`, `Widen`,
`Descend`, `Last`: its branches).  `merged` is history.

**Materialise.**  `frames` are the calls of `_materialise` in progress; `Seen` and
`depth` are its two arguments, which the model computes from the calls as the
code hands them down.  An iterator is spent in the heap as it is read, the
adapter's own code may raise where it runs, and between the two compilations its
objects may be cleared.  What the compiler accepts is taken from `RuleGrammar`, which
`CompilerAcceptsTheGrammar` proves to be what `spec.rs` does (a list or an iterator is
given to it as names: `AsRules`).  What rules mean is the parameter `Meaning`; the runs
give it what `WrittenRules` selects from trees.

**Projected.**  `Plan` derives, `Build` edits the schema and applies the guards,
`ValidateJson` projects a document and reads the rest, for as many documents as
come.  `x` is what was asked: a schema, the excluded names, the adapters.  The
derivation and the reading are operators, since both are recursive and neither
has state that outlives a call; what the calls of the derivation share
(fallbacks, the classes derived, the calls of adapters) is a record that is
passed from one to the next in the order of the code.  A document is a tree: that
the bytes are projected as `Select` projects the tree is the run `whole_buffer`.
pydantic-core is not in the repository; `PydanticReads` has what
`pydantic.py` says of it and relies on: the order of aliases, names and
`by_name`, extras, defaults, the place of each kind of validator, and the
`__init__` that goes back to the original validator.  Beside its value an answer
has `met`, the excluded fields whose input was looked at, which is what the
library promises never happens.

**ProjectionContract** has no frames and no lexer.  Its answer to a feed is
`Verdict` of the bytes fed so far; the runs give it the value `Judged` of
`WholeDocument`: the walk over the bytes, except that the first byte that nests deeper than the session's limit is an error there.  (The walk
restarts jiter's own budget for every value it copies or skips, so the two
limits differ; the README of the repository documents the session's as "200
containers including the root".)  `more` says that a continuation could be
accepted: a feed may not fail on it, and a finish must.

## 3. Runs

All are exhaustive for their bounds; sizes are distinct states.  Three (`overflow`,
`once`, `hidden_alias`) are expected to be violated, see "Where the documentation and
the code differ".

| Run | Question | Bounds, and why they are enough |
|---|---|---|
| `scalars` (245 000) | Does the lexer read the grammar? | Texts of up to 7 bytes (escapes and literals run to their end), a byte of every class the state tells apart and one to refuse; hex digits around d7ff, d800, dbff, dc00, dfff and e000 for both halves of a pair; `MaxPrefix` 3, reached with and without a minus |
| `stream_chunks` (187 000) | Does the session answer as its bytes deserve however the document is cut, and does every feed return? | Five documents, all chunkings, empty chunks too; two plans in all their layouts; they hold duplicates, dropped and kept arrays, mismatched shapes, white space everywhere, escaped quotes, fractions and exponents, a prefix at and over the cap, numbers, keys and strings that end with a chunk |
| `stream_bytes` (114 000) | Can any input make it panic, write what cannot be projected again, or fail otherwise than the walk does? | All strings of up to 4 bytes over 10 structural bytes, from the start and as the value of each of two members with a rule; and, whole or in chunks of up to three bytes, the documents of `stream_chunks`, every one-byte loss and two substitutions at every place of a short document, bad and good UTF-8 keys, keys spelled with escapes, nesting at 3 and 4 with a limit of 3, trailing input |
| `whole_buffer` (62 000) | Does the walk select what the reference selects? | All viable documents of up to 10 tokens out of nine, keys with escapes and white space among them; four rules; budget 3 |
| `compile` (1 274 000) | What does the compiler accept, and what does it make of it? | Specs of two nested mappings with up to two entries each, over all the kinds of values, with sharing and cycles; cap 2; dicts cleared or replaced by Python code at every point where it runs |
| `keep_path` (16 000) | Does an adapter keep what it was asked to keep? | Four derived specs: empty, with arrays, with a dict under two keys, nested; two fields and a control with paths of up to three keys, of which one may be `__all__`, in every order; every combination of retained fields and dependencies |
| `materialise` (127 000) | Is an adapter's result read as the compiler reads it, and the same twice? | Every mapping of up to two entries in a mapping, with a list, an iterator, strings, booleans and other values shared, nested and inside themselves; depth 2, and lists and mappings nested up to a recursion limit of 6 and beyond it |
| `projected` (133 000) | Is an excluded value ever read, and a retained one lost? | A class with a retained and an excluded field, with and without default, in fifteen places (direct, list, dict, nullable, after and foreign validators, a held class, alias paths and choices, colliding keys of two and three fields, references): every `extra` and `validate_by_name`; aliases that collide; five kinds of own validators with adapters that fit, keep too much, require or misname fields; recursion, `__init__`, several and unknown exclusions.  Documents: all subsets of the keys that any of these looks for, each in the place of the class |
| `overflow`, `once`, `hidden_alias` | see below | the bounds of `materialise` and families of `projected` |
| `apply_stream` (19 000) | Does a call return the whole or raise, and say what its session did? | Seven sources (valid, cut, trailing, too deep, empty, bad key), chunk sizes 0, 1 and 4, every sequence of reads of any length, signals at any time whose handler raises or not |

The checks behind the names:

* `KeepsContract` (refinement, `stream_bytes`): `Contract!Spec` with `spec <- TreeOf(plan)`,
  `doc <- fed`.  A step inside a feed must be a stutter of the contract, a
  returning feed its `Feed`, so the mapping is the identity on what a caller
  sees.  It says at once that the walk and the session agree in output and in
  error offset, that a finished or failed session refuses, and that layouts do
  not matter.
* `CutsDoNotMatter` (refinement, `stream_chunks`): the same contract, but what bytes
  deserve is what one reading of them makes, byte by byte (`ByteReading`).  Spans, late
  numbers, the state between two feeds and the cuts themselves are invisible.  It
  needs no walk, so it can be proved; that the reading is also the walk's is
  `KeepsContract`.
* `StackInv`: every open container is treated as the rule of the one around it
  asks; the token is where a value or key is due and goes to the buffer its rule
  calls for; the key buffer is exactly the key being read; a dead session holds
  nothing.
* `NoPanic`: no `unwrap` of `None`, no `unreachable!`.
* `ProjectsToItself`: at all times what has been written, read again under the same
  plan, is refused nowhere and comes out as it is, and is a whole document exactly when
  the session has read one.  So each comma, colon, bracket and number that is written
  stands where a reader can take it, whatever was dropped around it, and a second
  projection would drop nothing more.
* `DropsAtOnce`, `BufferBound`: no byte of a dropped member is buffered, not
  even the white space around its colon; buffers never outnumber the bytes read.
* `ReadsTheGrammar`, `SpanIsInvisible`, `EscapeFits`: the lexer.
* `MatchesReference`, `Idempotent`: the walk, through `Run`, so that a call that
  is not strict and fails is idempotent too.
* `AcceptsTheGrammar`: without interference a spec compiles exactly if it is one of
  the grammar, and the tree is part for part what the objects spell
  (`SpellsWhatIsWritten`); `MeansWhatIsWritten`: the tree selects from parsed documents
  what the reference of the tests selects by the Python objects.
* `CanBeApplied`, `OneMoment`: with interference, no tree mixes the modes, drops
  an element or is deeper than the cap, and the rules of each object are for the names
  of one mapping at one moment, or keep what one iterator gave.
* `PlanKeepsRules`: every layout of what compiles is well formed (the assumption
  of the engine's proofs) and spells the same tree.
* `Ends`: the constructor returns or raises, for a spec that contains itself too.
* `EveryPathKept`: when an adapter returns, its spec keeps every path of a retained
  field and every control; `NothingForgotten`: no step takes back what the
  derivation or an earlier path kept; `MergesAsASet`: where no dict is shared or cyclic, what
  is kept is a function of the *set* of paths, and includes nothing else.
* `AcceptsWhatCompiles`, `MeansWhatWasReturned`, `CompiledTwiceAlike`: an adapter's
  result is refused exactly if the compiler would refuse it, and both
  compilations select what it says.
* `ExcludedNeverRead`: no input of an excluded field is looked at, at any depth and
  in any mode, nor kept as an extra.  In a plan that is not complete, documents
  with the literal synthetic alias are set apart, as the docstring of
  `projected_validator` does.
* `RetainedReadsTheSame`: a document the model accepts as it is reads the same after
  projection, less the excluded fields.  This is what says that the derivation
  keeps *enough*.
* `SurvivorsAreReported`: whatever excluded field the original model could still read
  from a projected document is named by a fallback; so a plan without fallbacks
  is complete, and the fallbacks name the right classes.
* `AdaptersAreConsulted`: a plan exists only if the adapter of every class in what is
  retained was asked, also where it is kept whole.
* `ReturnsTheWhole`, `FedInOrder`, `StopsAtError`, `MovesOn`: apply_stream.  Its `TypeOK` holds
  `Answers` too: a call that runs has an active session, one that returns has a session
  that has finished, with the same bytes, one that raises a JSON error has a session that
  failed, at the same offset; so a closed session is never called (the `RuntimeError` of
  `stream_error` cannot come out of `apply_stream`).

The engine's limits are constants: `MaxDepth` is 200 and `MaxPrefix` 4300 in the
code, 3 in the runs; nothing in the code depends on their value beyond the
comparison, and the proofs cover every value.  `SkipLimit`, jiter's budget for
one skipped value, equals `MaxDepth` in the runs of the engine so that the two
budgets meet.

**Where the documentation and the code differ.**  Three runs state a sentence of the
documentation, and TLC finds it violated by what the code does:

* `overflow` (`NeverOverflows`): the docstring of `_materialise` says that `depth` and `seen` keep an
  absurdly deep output from raising `RecursionError`; members of a list are read
  at the list's own depth, so lists in lists are not bounded.  (The compiler would
  refuse them, with its own message, had it been asked.)
* `once` (`OncePerOccurrence`): README.md 219 says that adapters run once per occurrence of the class, also
  in subtrees that are kept whole; there a class that was derived before is
  skipped, as a test wants.  The weaker `AdaptersAreConsulted` holds.
* `hidden_alias` (`SyntheticKeyStripped`): README.md 283 says that `Projected` strips a member under the literal
  synthetic alias; in a subtree that is kept whole it is kept, and read.

**Deadlock** is checked except where a run stops by design: a scalar that has
ended or reached the bound on its text (`scalars`), a document that has used its
tokens (`whole_buffer`).

**Fairness.**  `stream_chunks` and `compile` need it, for `FeedEnds` and `Ends`: `WF_vars(Step)`, a turn of the
loop (a step of the compiler) that can be taken is eventually taken.  The
compiler further needs that Python code it calls returns and that iterators have
an end.  `feed` runs on the thread that called it,
without waiting for anything, so that is what the operating system gives it.
Nothing is assumed of the caller, who may never call again.  That
`apply_stream` ends is stated without fairness, as an action property with a
decreasing measure (`MovesOn`), and assumes a reader that is not endless.

## 4. Mutants

Every property of every run has a mutant: a definition of the model changed as a
plausible slip in the code would change it (a limit tested one late, the
delimiter of a number consumed, the key buffer not cleared, raw instead of
decoded lookup, a comma written when read, a short read taken for the end), under
which TLC finds the property violated.  They stand beside the definitions they
change, marked MUTANT, and are not used by any specification.

## 5. Proofs

All proofs are checked by `tlapm` down to the leaves, for every value of the
constants the assumptions allow:

* `PrefixAssumption` (`Bytes`): `MaxPrefix` is a natural number of at least 2,
  since a minus and a digit already count 2;
* `PlanAssumption` (`StreamEngine`): plans are well formed, that is, non-empty,
  rooted at an object and closed under their references: what `StreamPlan::new`
  builds; TLC evaluates it on all the layouts of the runs, and `compile` checks it
  of everything the compiler lets through;
* `DepthAssumption`, `NoneAssumption`: a positive limit; "no token" is not a token;
* `SourceAssumption`, `SizeAssumption` (`ApplyStream`): sources are bytes, sizes
  are integers (not only positive ones: the code refuses the others);
* `DepthAssumption`, `HeapAssumption` (`SpecCompile`): the cap on the depth is a natural
  number; a caller's objects are of the kinds there are, and their entries are sequences
  whose values are objects that are there;
* `VerdictAssumption` (`ApplyStream`): nothing is refused before a byte is read,
  and bytes that are bad stay bad at the same offset whatever follows; a verdict holds an
  offset and bytes.  The
  proofs about the loop use no more than this of JSON; TLC evaluates it for the
  walk's verdict on every prefix of the sources of the run;
* `EntryAssumption`, `PathAssumption`, `RequestAssumption` (`KeepPath`): the markers of
  a spec are different from each other and are no dicts; paths have a bounded
  length; an adapter is made of lists of paths and is given dicts that are closed
  under their entries.  Sharing and cycles are not excluded;
* `LimitAssumption`, `HeapsAssumption` (`Materialise`): Python allows more calls than the
  depth needs; what an adapter returns holds objects that are there, and a mapping
  holds a `str` key once (other keys may come back equal as often as they like).
  Sharing and cycles are not excluded here either.

The two theorems on what adapters mean have one hypothesis more, `MeaningOfWhatIsRead`:
rules of which every read gives the same (`Alike`: a relation between the objects of
two heaps under which mappings have the same keys and related values, and lists and
iterators related items, whatever kind of mapping or list they are) mean the same.
`Meaning` is a parameter, and this is all that is asked of it; that the
meaning `WrittenRules` gives is such a one, TLC evaluates in `MCMaterialise` for every heap
of the run against a copy of it in the opposite order, made of dicts and lists.

| Theorem | Statement | Argument |
|---|---|---|
| `LexerProofs!PushTyped`, `SpanSound` | `push` stays in the enum; a span byte is a no-op | one lemma per variant |
| `ScalarMachineProofs!Typed` | `Spec => []TypeOK` | from `PushTyped` |
| `ScalarMachineProofs!SpanInvisible` | `Spec => []SpanIsInvisible` | `SpanSound` in every typed state |
| `ScalarMachineProofs!PrefixCounted` | `Spec => []PrefixIsCounted`: the count of a number is the length of its integer part | no run of its own (`ReadsTheGrammar` catches a wrong cap); strengthened with "in `Minus`, one byte has been read": the count of a negative number starts there |
| `ScalarMachineProofs!EscapeNeverOverflows` | `Spec => []EscapeFits` | strengthened with the number of digits still to come being at most four, so that the value is below 16 to the number read |
| `ScalarMachineProofs!LexerReadsTheGrammar` | `Spec => []ReadsTheGrammar` | `ReadInv`, see below |
| `StreamProofs!Consistent` | `Spec => [](TypeOK /\ StackInv)` | the inductive invariant, one step per action |
| `StreamProofs!StreamTyped`, `StackConsistent`, `NeverPanics` | `TypeOK`, `StackInv`, `NoPanic` | consequences of it |
| `StreamProofs!DropsImmediately` | `Spec => DropsAtOnce` | from the invariant: where the rule discards, the token's destination is not a buffer |
| `StreamProofs!BuffersBounded` | `Spec => []BufferBound` | see below |
| `StreamProofs!CutsAreInvisible` | `Spec => CutsDoNotMatter` | `ReadInv`, see below |
| `StreamProofs!WhatIsWrittenProjectsToItself` | `Spec => []ProjectsToItself` | `EchoInv`, see below |
| `ApplyProofs!LoopConsistent`, `ApplyTyped`, `NothingLost` | `LoopInv`, `TypeOK` (types, and that the call answers for its session), `FedInOrder` | the loop's inductive invariant, one step per action |
| `ApplyProofs!WholeOrNothing` | `Spec => []ReturnsTheWhole` | at a finish the chunk is empty, so the reader is at its end and the session has the source |
| `ApplyProofs!ErrorsAtOnce` | `Spec => []StopsAtError` | an active session was given nothing bad; a prefix that is bad fixes the offset of the whole |
| `ApplyProofs!EndsWithTheSource` | `Spec => MovesOn` | a chunk that is not empty uses up three units of the measure and gives back two |
| `SpecCompileProofs!CompilerTyped` | `Spec => []TypeOK` | the inductive `CompileInv`: what waits is a stack of calls of which only the innermost may be asking for names, and where the compiler is fits what that call waits for |
| `SpecCompileProofs!CompiledCanBeApplied` | `Spec => []CanBeApplied` | `PartsInv`: whatever Python code does meanwhile, the trees in hand are of one mode, and no deeper than the calls they wait in leave room for |
| `SpecCompileProofs!CompilerAcceptsTheGrammar`, `CompilerSpellsTheRules` | `Spec => []AcceptsTheGrammar`, `Spec => []SpellsWhatIsWritten` | `GrammarInv`, see below |
| `SpecCompileProofs!RulesAreOfOneMoment` | `Spec => []OneMoment` | `MomentInv`, see below |
| `MaterialiseProofs!WalkTyped` | `Spec => []TypeOK` | `WalkInv`: every call in progress stands at an item of what it reads and has a copy begun that no other call has |
| `MaterialiseProofs!FirstMeansWhatWasReturned`, `SecondMeansTheSame` | `MeansWhatWasReturned`, `CompiledTwiceAlike`, of any `Meaning` that rests on what is read | `CopyInv`, see below |
| `MaterialiseProofs!WalkAcceptsWhatCompiles` | `Spec => []AcceptsWhatCompiles` | `AcceptInv`, see below |
| `KeepPathProofs!AdapterConsistent`, `AdapterTyped` | `KeepInv`, `TypeOK` | the adapter's inductive invariant, one step per action |
| `KeepPathProofs!KeepsEveryPath` | `Spec => []EveryPathKept` | see below |
| `KeepPathProofs!KeepsASet` | `Spec => []MergesAsASet` | what was kept, is kept, and may be kept, entry by entry; see below |
| `KeepPathProofs!ForgetsNothing` | `Spec => NothingForgotten` | each change of the heap replaces an entry that leads nowhere, or puts `True` |

The lexer against the grammar.  `ReadsTheGrammar` compares an answer with a scan of the
whole text, and says nothing of what the state will make of the bytes to come, so it
is far from inductive.  `ReadInv` speaks of *every* text that begins with the bytes seen
(`Understood`): there is an offset `j`, the same for all of them, at which the scan still
stands (at the start of the string's current character, of the number's current part, of
the word), the bytes between `j` and the end of what was seen are what the state says
they are (`Stands`: so many hex digits with that value after `\u`, so many letters of the word, ...),
and the scan of the text is the scan from `j` on (`Rest`).  One lemma per variant of `State`
shows that a byte more either leaves a state that stands for it, with `j` moved on or not
(`GoesOn`), or ends the scan where the lexer ends it or refuses the byte (`Answers`), and
that with no byte more the scan is complete just where `finish` accepts (`Settles`).  The rest of
a string is a recursive function, whose existence (`TailsExist`) comes from
`Inductions!Recursion`, each character ending after it starts.  The proof also showed that a
`CASE` of the model had two guards that could hold at once, for a last letter that
differs, and so did not say which answer it gave; it is now an `IF`, as in the code.

Why the invariant of the engine has the shape it has.  `NoPanic` alone is not
inductive: that an element is read under an array's node depends on how the
frame was pushed.  `StackFollowsPlan` relates each frame to what the frame under
it asks of the value it waits for, `NextFits` keeps `next` truthful between key
and value, `TokenFits` says where a scalar may be, and `KindFits` follows for a
new frame from `Applied`, which keeps a projection only where the shape fits
(it begins with the lemmas: replacing the top, pushing, popping, the end of a
value).  With them every action preserves the conjunction, and the panics are
excluded by looking at it.

`BufferBound` is not inductive either: the engine *adds* commas.  The
strengthening, `SpaceInv`, says that while a comma is owed (a separator was
read and not written, because it is not yet known whether what follows is kept)
a byte of room exists, and that a fresh session has written nothing.

That cuts do not matter is the refinement of `ProjectionContract` with `Deserved`, the
reading byte by byte, for `Verdict`.  `ReadInv` says that a session that is active
`Follows` the reading of the bytes it has consumed (`Eaten`): the reading is `View`, the
session's own frames, scalar, key and output; or the session has just ended a number
at a byte that it has still to consume, where the reading has it yet to end.  One lemma
per action shows that what the action does to the state is what `Takes` does with
its byte; a span is as many bytes, each of which only adds itself (`SpanSound`
again).  A turn inside a feed is then a stutter of the contract, a feed that
returns has read all of its bytes, and a feed that fails leaves a reading that is
refused and stays so, at the same offset, whatever the rest of the chunk was
(`BadStays`).

That what is written projects to itself is about two readings at once: of the session's
document and of its output, which is shorter, and in which commas stand elsewhere.
`EchoInv` says that the reading of the output `Echoes` the session.  Its stack is the
kept part of the session's stack (`Mirrored`): what is dropped has all of its frames at
the end, and a frame that selects `Shows` what it has *written*, not what it has read,
so that it awaits a comma, or its first member, until the next member is known to be kept.
While a kept scalar is read both are in it, in the same state of the lexer; once
it is over the second reading may not know that yet, a number ending late (`StandsAt`,
`Over`): any of the bytes a session can write next ends it.  A key whose rule is still
to be looked up is in the buffer and not in the output, so `EchoInv` says of it what it
*would* do (`Spells`): wherever a key is due, reading its bytes makes the scalar that
is being read.  When its rule is found the comma and the key are written at once, and the
second reading takes the same rule, since it decodes the same bytes.  The proof has one
lemma per way in which an action changes frames, scalar or output, and showed what
the property rests on: no byte of a dropped member, and no comma before it, is
written; and the rule of a value
depends on the rule of its container and on its key, never on what came before it.

The loop of `apply_stream` needs two facts besides `TypeOK` and `FedInOrder`: `ChunkIsNext`,
that the chunk at hand is the piece of the source that ends where the reader
stands, and is empty only at the end; and `NothingBad`, that an active session
has been given nothing bad.

`KeepPath` has no recursive definition of "kept", since nothing recursive could be
proved about: that a path is kept is the existence of a *trail*, a function from
the positions of the path to dicts or `True` that follows the heap.  The two
lemmas that carry the proof are about one write: `TrailStays`, if the entry
written led nowhere every trail is one still, and `TrailWidens`, if `True` is
written then a trail through that entry becomes one that is `True` from there on.
They hold in any heap, so sharing needs no case of its own for the lower bound.  `KeepInv` says that
the keys passed of the path being merged lead to `node` (`Reached`), that all
merged paths are kept (`MergedKept`), and that every path wanted is merged, being
merged, or still to come (`Progress`).

`MergesAsASet` bounds what is kept from above as well, for a derived spec that is a
tree, as `_derive_spec` makes them unless a field has several keys.  `SetInv` says how
the heap has grown (`Grew`: a derived dict stands where it stood or was widened, a
derived array was left or widened, no entry became an array) and that it is a tree
still in which each path kept is accounted for (`NothingElse`).  In a tree a dict has one
address (`SameAddress`), so what a `True` newly written adds runs through the path being
merged (`WholeAdds`), and a new dict adds nothing (`NewAdds`).  A `True` written for
an array was an array of the derived spec, reached by the same keys there (`TrailOfOld`).
The proof showed that it is not enough that no dict stands under two keys: the spec must not
stand in itself either, or a key kept at the root is kept in every turn of the cycle.

The compiler.  `GrammarInv` says, while Python code has left the rules alone, that the
calls in progress compile a *chain* of objects: the root first, each the rule that the
call before it waits for, and each of them a rule of its level if the root is one
(`Chain`).  A call waiting for a member has found rules at all the entries it has seen to,
but for the one that is pending, so that at its return its object is a rule too; and
the rules it has compiled for them are what they spell.  With
that both directions follow at once: what is refused refutes the last of the chain, and with it
the root; what is returned at depth 0 is the root, and is what it spells.  `RulesWithin` is a recursive
function of the levels, so `RulesWithinLevels` has to be proved of it, and the
provers cannot instantiate the library's induction theorems; `Inductions` does
without: `Least` says that a set of numbers has a least member (from the
well-foundedness of `<`), so that there is no least counterexample, and `Recursion` that the
function exists whose values a recursive definition states.

With interference there is no one thing that the rules spell, and `MomentInv` speaks of
names alone.  A call that waits for a member was given the entries of one mapping in one
of the heaps there have been: the names it has rules for, the one it waits for and those
still to come are the names of that mapping (`OfMapping`); the snapshot is its own, so
that no later change to the heap touches it.  Of an iterator less can be said, since its
names come one by one: each is a name that this iterator had at some time, and all the
rules are leaves (`OfIterator`).  `HeapsInv`, that a later heap has the same objects of
the same kinds, keeps the values of the snapshot objects that are there; and whatever is
in hand is made of such rules at every level (`Timely`).

An adapter's result.  `WalkInv` holds whatever Python code does: heap objects the
adapter returned are what they were but for iterators that are further on
(`AsReturned`), and those made since refer to nothing of the adapter's (`Fresh`,
`Settled`), which is why a change of the adapter's objects between the compilations
cannot change what is compiled.  `CopyInv` says that there is a relation
`C` of made objects with the objects they copy under which the same is read of both
(`Alike`), that what each call in progress has made so far is so related, and the
result to the object it was made for; the relation grows by a pair at each return.  What
was returned and what was compiled are then `Alike`, and so is the second copy
to the first.  `AcceptInv` bounds the walk by the grammar: where
the result is one of the grammar's, the objects in progress are rules of one level
less each and all but the last are mappings (`RulesAllAlong`), so neither the depth nor
the test for cycles refuses; an object inside itself is no rule (of the levels an
object is a rule within there is a least, and its values are rules within fewer).

What stays with TLC.  Everything about `Projected`, whose operators are recursive.  In the
compiler, `MeansWhatIsWritten` and `PlanKeepsRules`, which are about trees and what the
recursive reference selects from them (`SpellsWhatIsWritten`, which is proved, is about the
tree alone).  `KeepsContract`, `MatchesReference` and `Idempotent` rest on the recursive
operators of `Jiter` and `Walk`, which the proof system cannot reason about.  `FeedEnds` and
`Ends` are liveness.  `ApplyStream` is proved with the verdict a parameter, and the session with the
reading as its verdict; that this is the walk's verdict is `KeepsContract`, and TLC's.

## 6. What is not modelled

* Error messages and their wording (offsets are); Python reprs.
* `to_bytes`: a conversion of `str`, `bytearray` and `memoryview` to bytes.
* The race on `OnceLock` in `stream`: the standard library's, and every arena it
  may settle on is checked.  Sessions of one projection share that plan and
  nothing else; it is behind an `Arc` and never written after it is built, so
  calls on two sessions commute by the types.
* Memory allocation and the growth of vectors.
* jiter's own implementation: the model follows what the code here relies on.
* In the pydantic layer: the type checks of `normalize_exclude` and of paths;
  `_copy`, which gives the editing a schema of its own; `_check_prebuilt_support`, a
  probe of the installed pydantic-core; the paths and reasons of fallbacks; keys
  and fields that are named `__all__`; references to definitions that are not there; integer segments of aliases; sets and
  tuples, which derive as lists do; unions, dataclasses and TypedDicts, which are
  kept whole as dicts are, although pydantic-core chooses among the members of a
  union.  Migrations return data, not instances.
* pydantic's reading of extras that stand under the key of a retained field: a
  class that allows extras and has excluded fields keeps just those
  (README.md, "Extras"), and `RetainedReadsTheSame` compares no others.
* In the compiler: `dict` subclasses (read as dicts), keys whose comparison runs
  Python code, iterators without an end.
* Tests, examples, stubs, packaging and CI: nothing to check.

## 7. Plan

Done: lexer, engine, plan, walk, contract, `apply_stream`, compiler, adapters,
derivation and exclusion; their runs; the inductive invariants of the lexer, the
engine, its buffers, `apply_stream`, the merging of paths; that the lexer reads the
grammar of scalars and the compiler accepts that of rules and spells what they say;
that cuts do not matter and that what is written projects to itself; that an
adapter's result is accepted and read as the compiler would, and that what adapters
keep is a function of the set of their paths.

What is left:

1. The walk as an iterative machine on jiter's cursor, with recursion as a stack
   as in `SpecCompile`, so that `KeepsContract` could be proved against the
   reading of `ByteReading` and not only checked.
2. Unions in the schema language, with pydantic-core's choice among their members
   left open.
