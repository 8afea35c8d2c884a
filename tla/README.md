# A verification project for vtypes

`vtypes` parses binary data by a profile: a table of parsers by type name, to
which a text adds struct definitions. A struct is parsed lazily, field by field,
while a VQL query asks for its fields; offsets, sizes, counts and values may be
lambdas over the struct itself. This directory models that program in TLA+,
checks the models with TLC on small instances, and proves part of what they say
with TLAPS for any instance.

## The system

| Component | Source | State it keeps | Operations | Where it is modelled |
|---|---|---|---|---|
| Profile | profile.go, models.go | `types`: name to parser | NewProfile, AddModel, AddParser, GetParser, ParseStructDefinitions, Parse | Profile |
| Wrapping parsers | array, enumeration, pointer, timestamp, profile_parser, bitfield, flags | a pointer to the parser of their element, or "invalid" | New, Parse | Profile (resolution), SharedParsers (resolution by several goroutines), Layout (sizes), Numbers (values) |
| Option decoding | options.go | none | ParseOptions, maybeGetParser | Definitions; maybeGetParser in Profile |
| StructParser, ParseAtOffset | struct.go | fields in order, offset or its lambda | AddField, Parse, Size | Profile, StructObject, Layout |
| StructObject | struct.go, value.go | cache of fields, parent, the scope whose `this` it is | Get, Size, Parent, MarshalJSON, getThis | StructObject |
| References | reference.go | struct offset and field parser | Start, Size, End, Value | StructObject (Value), Layout (the rest) |
| ArrayParser, ArrayObject | array.go | contents, offset, size | Parse, Get, SetParent, Contents | Layout, StructObject (arrays of structs) |
| Array iterator | protocol.go | a goroutine and a channel per iteration | Iterate | ArrayIterator |
| Strings | string.go | none | Parse, InstanceSize | Layout |
| Numbers | int, varint, bitfield, flags, enumeration, timestamp | none | New, Parse | Numbers; sizes in Layout |
| Union | union.go | choices, built at the first Parse | Parse | SharedParsers |
| Definition decoders | yaml.go, json.go | none | UnmarshalYAML, UnmarshalJSON | Definitions |
| Helpers, null parser, scope, debug, errors, docs | utils.go and others | none | to_int64, SizeOf, EvalLambda... | the ones that decide something, in Numbers, Layout and StructObject |

How they interact. A load registers each struct, then builds a parser for every
field by calling `New` of the parser its type names, which calls GetParser for
the type it wraps, and so on; a name that is not there yet is looked up when the
load returns (for a field) or when the wrapper first parses (for its element).
A query calls Get on a StructObject through the Associative protocol. Get calls
the field's ParseAtOffset, which may evaluate an offset lambda, which calls Get
on a copy of the struct, which shares its cache; the result is cached, and if it
is a struct its parent is set. Arrays parse their elements eagerly, and the query
engine iterates over them through a goroutine and an unbuffered channel.

What is hard:

* *Partial failure.* ParseStructDefinitions returns early in many places, runs
  its deferred lookups on each return, and undoes nothing.
* *Late binding.* Names are bound at New, at the return of the load or at the
  first Parse, and an outcome, good or bad, is kept.
* *Stale state.* The reader may be a live device: what was read first is cached,
  while copies and references of the same struct are read later.
* *Re-entrancy.* Get evaluates lambdas that call Get, on copies, through parents.
* *Concurrency.* The goroutine of an iteration, its reader and the context; and
  parsers, which all users of a profile share and which finish their own
  construction in Parse without a lock.
* *Sizes.* A reference, an array and a parser compute the size of the same thing
  by different code, from bytes, elements or parsed values; lengths and counts
  are unsigned words that become signed.

What makes each component correct: a load that succeeds leaves no field
unresolved, reports what is wrong and binds each name once (Profile); a struct
is one consistent view of the data, evaluation ends, and parent undoes field
access (StructObject); whoever parses first, a shared parser ends up the same
and only those who met while it was finished can tell (SharedParsers); the
parsers of numbers mean what their options say, one around the other (Numbers);
what is not a definition is refused, by both decoders alike, and what is accepted
is kept (Definitions); the reader of an iteration gets every row once and in
order, is never left waiting, and a cancelled query leaves no goroutine
(ArrayIterator); an array, a reference and a parser agree where things end
(Layout).

## The modules

* **Profile** is the table, the load and the resolution of names. One action per
  step of ParseStructDefinitions between two places it may return from
  (`MaskedStruct`, `AddStruct`, `BadOffset`, `AddField`, `DelayField`,
  `NextStruct`, `EndOfText`), one per deferred function run (`RunDeferred`), then
  `Return`; `AddParser` and `ParseField` happen between loads. A field's parser is
  a `Cell`: the delegate of its ParseAtOffset and the pointers of up to two nested
  wrappers, each nil, set or invalid. The data a Parse reads is abstracted to
  whether it makes an Array or Pointer reach for its element.
* **StructObject** is the evaluation of fields. The heap holds StructObjects,
  parsed ones and the copies getThis makes; caches are maps by identity, so that
  sharing is visible; arrays hold the structs that were parsed with them. A lambda is the list of paths it reads. The call stack is
  explicit: `Descend` enters the evaluation of a field that is not cached,
  `Access` and `EndPath` move along a path, `Finish` parses, caches, sets the
  parent and returns to the caller; `NextElement` is one turn of the array loop,
  which measures an element before it has a parent; `Encode` is MarshalJSON going
  into a value it found. `Change` lets the data under the reader change between
  any two steps, or become unreadable. The user calls Get, Value of a reference,
  Size, Parent and MarshalJSON on whatever it has been given.
* **LazyRecord** is what StructObject promises: a field has any value when first
  read and that value ever after. `OneAnswerPerField` is the refinement.
* **ArrayIterator** is the goroutine of Iterate, its select, its reader (the
  query engine, which may leave at any row) and the contexts. Several iterations
  share an array and a context.
* **RowStream** is what one iteration promises; `EachIsAStream` is the refinement.
* **Layout** is sizes and offsets as functions of the data: the two copies of the
  string search, the array loop, SizeOf of parser and value, references, and a
  struct whose fields follow one another by RelEndOf (`AddField`).
* **SharedParsers** is what goroutines share when they parse with one profile: a
  Union, whose Parse makes the map of its choices and fills it, and a wrapper,
  whose Parse looks up its element type. A step is one access to shared memory:
  the look at the map, the store of the empty one, each write (in two steps, so
  that another access can fall into it), each lookup; the two words of the stored
  parser. What Go leaves undefined is `crashed`. The history variable `alone`
  says who met nobody in an unfinished parser.
* **Numbers** is what bytes mean: the converters of ints, leb128 and sleb128, and
  around them BitField, Flags, Enumeration, Timestamp and WinFileTime, each of
  which converts the value of the one inside with to_int64. `New...` puts a parser
  around the ones there are, as far as its options are valid, `Parse` evaluates
  them all. The order in which a Go map gives the options is any.
* **Definitions** is how text becomes a struct definition and its options become
  the fields of a parser: `DecodeYAML` and `DecodeJSON` on lists with parts of any
  shape, then ParseOptions, one turn of its loop a step (`Absent`, `Lambda`,
  `Literal`, `Extras`), on the option structs of eight parsers. A scalar is what
  matters of it: its type, and for a text whether it looks like a lambda and
  whether it is one.
* **MCProfile, MCStructObject, MCArrayIterator, MCLayout, MCSharedParsers,
  MCNumbers, MCDefinitions** give the constants their values for TLC.
  **ProfileProofs**, **SharedParsersProofs**, **ArrayIteratorProofs**,
  **DefinitionsProofs**, **LayoutProofs** and **NumbersProofs** hold the proofs about
  the module they are named after; **StructObjectProofs** (types, measuring) and
  **StructViewProofs** (what is cached, the refinement, no reentry, the end and the
  nesting of MarshalJSON), which extends it, those about StructObject. A definition with an underscore in its name, as `GetThis_DropsCache`,
  is a broken variant of the one that follows it: exchanged for it, TLC finds the
  property violated that is about that code.

## The runs

| Run | Question | States | Result |
|---|---|---|---|
| profile | What do two loads of any of 13 texts leave behind, with AddParser and field parses in between? | 25,000 | holds |
| struct | Is a struct one view of changing data, whatever the order of reads, with arrays, parents and JSON, and how deep does it recurse? | 67,000 | holds |
| iterator | Does each reader get all rows once, and an end? | 57,000 | holds |
| layout | Do strings, arrays, references and parsers agree on where things end? | 87,000 | holds |
| shared | What is left of a race to finish a parser, and who can go wrong in it? | 498,000 | holds |
| numbers | Do the parsers of numbers compute what they name, alone and around one another? | 549,000 | holds |
| definitions | Which definitions and options are refused, and is the rest kept? | 423,000 | holds |
| profile_silent | Is an invalid definition reported? | | violated |
| layout_sizeof | Is the size of a field the bytes it takes, for every type? | | violated |
| layout_count | Does an array of strings have `count` elements? | | violated |
| layout_length | Is a huge string length clamped? | | violated |
| definitions_short | Is a definition that is too short refused? | | violated |

Bounds, and why they suffice:

* profile: two loads, because every property relates at most two; texts of at
  most two structs with two fields, one for each exit of the load, each order of
  a forward reference, and each pairing of lazy, strict and late wrappers that is
  resolved differently. Nesting of `type_options` stops at two, where a wrapper
  first swallows the error of another.
* struct: a struct and an inner one whose lambdas refer to it, or a struct with an
  array of two structs sized by a field of theirs and one of structs sized by a
  field of their parent; three calls, so that a field may be read, a parent
  visited, and a third one read or encoded; one change of the data, so each read
  is before or after it, and fails before it.
* iterator: three iterations, two on one context; two elements, one emitted as it
  is and one wrapped.
* layout: four bytes over four values - a terminator, two small numbers and one
  that continues a varint and is negative as a word; an integer has 8 values instead
  of 2^64; two fields, so that the second is placed by the first.
* shared: three goroutines, so that two can meet while a third finds what they
  left; a union with a choice and a default, either of which may be undefined
  at first and defined later; a selector that answers a choice, no choice or
  null. The proofs below are for any number of each.
* numbers: words of 8 bits in bytes of 4, so that the third group of a varint is
  cut by the word as the tenth is in the code; every two bytes from five values;
  up to two parsers around a base, the least at which one is given the result of
  another (a BitField is given no options for the type it wraps, so it is always
  the inner one); each start and end bit at a boundary; names that share a number
  or a bit.
* definitions: every list of up to four parts with one part of a wrong shape, as
  each check looks at one part; every parser with every three options of every
  shape, as a field of the Go struct looks at one option, a lambda may share a
  field with a second, and a third may be unknown.

CHECK_DEADLOCK is off where the instance ends by a bound: struct (its calls),
iterator (its iterations end), layout (its fields), numbers and definitions (one
parse); and in shared, where a crashed program goes no further.

### Disagreements with the documentation

* An unknown type inside a BitField or Flags is not reported when that is itself
  inside an Array, Enumeration, Pointer or Timestamp (options.go:262 against
  parser_test.go:641). The field is null for ever and nothing is logged.
* The size of an Enumeration field is the length of its name (struct.go:112
  against README.md:245), so the next field is misplaced; a Pointer likewise has
  the size of its target.
* An array of null terminated strings has at most one element (array.go:123
  against README.md:150).
* A uint64 length with the top bit set is negative after the conversion, is not
  clamped, and make panics (string.go:138 against parser_test.go:324).
* A struct definition with fewer than three parts is not reported: UnmarshalYAML
  indexes it and panics (yaml.go:18 against parser_test.go:641).

### What holds otherwise than one may expect

Some properties state what the code does where no text says what it should do.

* `MeasuredWithoutParent`: an array of structs whose size is a lambda each path of
  which begins with the parent is always empty, as its elements have no parent while they are measured.
* `JsonEnds`: no object is encoded inside itself although fields may answer copies of
  the struct or its parent, but that is so for definitions which are `Encodable` only.
  With a value field `x=>x` and another `x=>x.Parent` in one struct, or a field two
  levels up, TLC finds MarshalJSON recursing without end; and a struct whose field
  answered its parent has become that one's parent, whose JSON then leaves the struct
  out.
* `Nesting`: a value field `x=>x` is encoded once more inside itself before it is left
  out, as what it answers is the copy and not the struct; so each depth counts twice.
* `OnlyRacesGoWrong`: without `alone` it is violated. A goroutine that meets an
  unfinished Union may answer null for a value that has a choice, and the struct
  it parses caches that.
* `VarintsAreNoNumbers`: whatever wraps a leb128 or sleb128 parses to what it has
  for null, and a count or an offset that is one is 0.
* `VarintsReadBack`: a negative sleb128 that is shorter than a word reads as a
  positive number.
* `FlagsNameSetBits`, `EnumerationNamesItsNumber`: of two names for one bit or one
  number which one is answered depends on the order of a Go map; flags list the
  one that won twice.
* `TimestampIsInItsSecond`: the remainder counts as nanoseconds whatever the
  factor is. With a factor of -1, one of the instance's, the least word divides to
  itself: Go's quotient wraps.
* `NoOptionIsLost`: a text option of another type is dropped without an error,
  although it may be a required one.

### Fairness

* struct: `WF_vars(Step)`: a call that was made is executed. Nothing obliges the
  user to call. `Terminates` says that calls return; it holds as the instance's
  definitions have no cycle - with one the code recurses until the stack is full.
* iterator: weak fairness of the goroutine's own steps, of the meeting on the
  channel and of learning that it is closed, which is what the Go scheduler
  gives a goroutine that can run. None for the reader asking again, leaving or
  for a cancellation. The select is not assumed fair: a cancelled context may lose
  to a waiting reader each time, which ends with the array.

## What is proved

For all values of the constants that satisfy the named ASSUMEs.

* **Profile** (`ProfileAssumption`: the model's types are names, texts are
  sequences of struct definitions). `Base` is inductive: types, what a cell can
  look like (`CellInv`), that a name without an owner has no fields (`TableInv`),
  where the running load is (`RunningInv`), and that each deferred lookup names a
  field whose parser is still nil (`PendingInv`). From it follow `TypeCorrect`,
  `LogsOnce` and `PointersDecidedOnce`. `SuccessIsComplete` and `SilenceIsMasked`
  need `CoveredInv` besides: a field without a parser belongs to a load that has
  failed, or its lookup is pending - the property itself says nothing of a load
  that is still running. `RetryFails` adds that a running load whose first struct
  is taken can only be about to fail.
* **SharedParsers** (`SharedAssumption`: choices have types, None is none of the
  names) for any goroutines, choices, types and selector values. `IInv` has four
  parts besides types. `UnionInv`: whoever made the map that the union has now has
  never been made to leave it, so it has every choice up to the one its maker is at
  (`Maker`), and while anybody fills, the types are those the union was first used
  with (`Filling`). `WrapperInv` is the same of a wrapper, and that it is torn only
  while somebody stores to it. `Meeting`: of two in one parser, one of whom
  finishes it, neither is alone. `Correct`: who is alone is right so far. From the
  first follows `Settled`, from all of them `RacesOnly`: who is alone finds a map
  whose maker is done, and nobody writing.
* **ArrayIterator** (`IteratorAssumption`: each iteration has a context, the array
  is a sequence). `IInv` says what goroutine and reader know of each other: the
  reader has the rows before `next`, the select holds row `next`, the channel is
  closed behind the last row or a done context. From it follow `TypeCorrect`,
  `EndIsComplete`, and `ImplementsStream`: every step of an iteration is a step or
  a stutter of RowStream, and a step of another one is a stutter.

* **StructObject** (`StructAssumption`: each struct has its fields and a size
  lambda, and no field is called Parent, or orig, which marks the role of a struct that
  is no copy) for any structs, lambdas, data, and number
  of calls and changes.
  * `WellFormed` is inductive: the heap (`HeapOK`: copies are of the struct of
    their original, and no two structs share a map), the maps and arrays (`CachesOK`,
    `ArraysOK`: they lead to what exists) and the stack (`StackOK`: each evaluation
    waits for the answer of the one above, `Awaits`). From it follows
    `StructTypeCorrect`. With `Measuring`, that an element is measured while nobody
    is its parent, follows `ArraysWithoutParentSized`.
  * `StructIsOneView` and `ParentHasTheStruct` hold as long as no field is
    evaluated inside its own evaluation: the theorems are of
    `Spec /\ []NoReentry`. The hypothesis is needed: a field that is reached again
    before it is cached is read twice, and the second value replaces the first. It is
    the property `NoReentry` of the run struct, and false only for definitions whose
    lambdas have a cycle, for which the code recurses until the stack is full. The
    invariant adds `Pending` (a field that is being evaluated is not cached),
    `FollowsOne` (what an evaluation got from the field it follows is in the map it
    reads), and `View` and `Knows`, which are the properties for all objects and not
    just those the user has. `NothingCachedIsLost` is the step property behind both:
    no map and no value in one is ever replaced.
  * `StructImplementsRecord` is the refinement of LazyRecord. It needs `[]NoReentry`
    and, for a set T of fields, `SizesRead(T)`: sizes read, at whatever remove, only
    fields of T, and none of these is a value field. That is needed as Size evaluates
    with a copy made before the struct has a cache (struct.go:216 and 252): the copy
    makes a map of its own, and a value field could answer the copy itself, which the
    user would then hold beside the struct. Ints, arrays and inner structs are
    thrown away with the size. MCStructObject assumes it with T = {k, m, c}
    (`MCSizesRead`), which TLC evaluates. The invariant (`Clean`) divides the objects into those the user can reach, which have
    the map of the struct they are, and those made for a size, and says that neither
    leads to the other but from a size to what it reads.
  * `RankedNeverReenters` is `Spec => []NoReentry` for every t with `Ranked(t)`, and
    `RankedStructsAreRecords` draws from it what the three theorems above promise,
    with no hypothesis about the evaluation left. `Ranked` (at the end of
    StructObject) is a condition on the definitions alone: what each field may answer,
    who may be the parent of it, which paths its lambda may then still have to read,
    and a number for each field above those of the fields it reads there. Cells of
    that reading are roles, not structs: a copy made for the lambda of a field is
    told from the struct, for a field that answers the struct itself answers such a
    copy, whose parents are others than those of the struct. MCStructObject gives the
    reading of the instance's definitions and assumes `MCRanked`, which TLC evaluates;
    with any rank lowered by too much it is false. The invariant `SomeRoles` says that
    every object can be given a role (`RoledHeap`) so that evaluations are on the
    paths of the reading (`RoledFrame`) and each is below those that wait for it
    (`RoledPlace`: by as much as there are calls between them). It needs no `Pending`:
    reentry is excluded before caches matter. MarshalJSON is outside the ranks and
    starts evaluations of any.
  * `EncodableStructsEnd` is `Spec => []JsonEnds` for every ranked t and every depth with
    `Encodable(t, depth)`, and T with `SizesRead(T)`. `Encodable`, again on the
    definitions alone, gives each role a depth above those of what its shown fields
    answer, but for two kinds of field whose answer struct.go:236 leaves out
    (`LeftOut`): one that answers the parent, in a struct that no value field answers
    and which so keeps the parent it is first given (`KeepsParent`), and, in the copy
    made for it, one that answers its argument. MCStructObject has the depths of its
    definitions and assumes `MCEncodable`. That the objects themselves are left out and
    not just others of their roles needs to be known of the values: `Elements` (elements
    of an array that is being parsed have no parent yet), `Answering` (the same for what
    is still being evaluated) and `Settled` (a field x=>x.Parent of a struct holds its
    parent, and one x=>x holds the copy made for it). In a copy, the latter holds the
    copy itself because copies share the cache (struct.go:252-259), which is `Clean` and
    the reason for T. Then the invariant `Encodings` says what was found in an object and
    is still to be encoded (`EncodingOK`, `Beneath`), and of any two encodings under way
    that the inner is of another object and how much less deep it must be (`Within`).
  * `NestingIsBounded` is `Spec => []Nesting`, for the reading and depth that are the
    constants Reading and Depth. By `Encodings`, encodings are at the bottom of the stack
    and `Within` counts them, two for each depth; by `RoledPlace` what is above the first
    evaluation has ever lower ranks. So a definition bounds the recursion by itself, with
    any data and number of calls.
* **Definitions** (`DefinitionsAssumption`: definitions are trees of values) for
  definitions with any number of parts and fields of any shape, and any options.
  `DecodersAlwaysAgree` is about the two decoders as functions: without what they
  read differently by design both accept the same fields. `OptionsAreAlwaysChecked`
  and `AcceptedOptionsAreKept` are by an invariant (`Loop`) of the turns of
  ParseOptions: what it has passed is right and kept, `left` is what was given
  without the names it has passed, and an error has a cause. It rests on a fact about
  the eight option structs (`Distinct`): in each of them names differ, and the lambda
  that shares a field comes after it.
* **Layout** (`LayoutAssumption`: bytes are numbers, every element and array has
  what its kind needs, a maximum is positive, a pointer does not point to a pointer)
  for any data, types, word and number of fields. The lemmas are about the operators,
  for any offset: `StringTiles` and `StringExtent` of the two searches,
  `SizeIsExtentOf` of the sizes, and `ParsedArray` of the array loop, which is a
  recursive function. What it leaves after n turns (`TurnOK`: a chain of as many
  elements, or of fewer and a reason) is proved by induction over a set of numbers,
  which `SetInduction` has from the well-foundedness of < and not from a theorem with
  an operator parameter. The state invariant (`IInv`) is that each field is what these
  lemmas say, which stays as no step changes the data (`SameSizes`). From it follow
  `LayoutTypeCorrect`, `StringsAlwaysTile`, `SizesAreExtents`, `ArraysAreChains` and
  `ArraysAreShortForAReason`.

* **Numbers** (`NumbersAssumption`: data are sequences of bytes, a word is whole bytes
  and a byte has more than one bit, ints have sizes up to a word, factors are not 0,
  options are finite) for words and bytes of any width, data, parsers and options.
  * The invariant (`IInv`) is that the parser is one New lets be built (`ParserOK`) and
    the value what it parses; `ValueOK` of every value along the way (`ParseIsOK`) gives
    `NumbersTypeCorrect`, and that what wraps no int may as well wrap null
    (`ParseNoInt`) gives `VarintsAreNeverNumbers`. `EnumerationsNameTheirNumber` is the
    last name given for a number, `FlagsNameTheBitsSet` counts a set by its names
    (`CountedByName`).
  * `BitFieldsAreSlices` rests on `DivTwice` (dividing by two numbers is dividing by
    their product, and how the remainders are related), from which a word without its
    low bits is a multiple of a power of two, with and without its sign.
    `VarintsAreReadBack` says what an encoder writes group by group (`Encodes`) and adds
    the groups up again; `TimestampsAreInTheirSecond` is what truncation towards zero
    does to a negative number.
  * Powers of two, sums, encodings and the parsers around one another are recursive
    functions. `Recursion` says once that a function over numbers exists whose value
    comes from the value at a lower number; it takes its step as a function, not as an
    operator. What the functions compute is by `SetInduction`.

Only model-checked is liveness (`Terminates`, `NoReaderHangs`, `CancelEndsGoroutine`):
fairness and ENABLED are beyond the prover. Every invariant and action property of the
runs that hold is proved.

## What is not modelled

Left out for good:

* the text of definitions and error messages, the query engine (vfilter) beyond
  how it calls, debugging, docs, the layout of JSON;
* FatTimestamp and floats, which only rearrange the bits of a word;
* `ArrayObject.Get` with an index: its one comparison admits the length itself
  (array.go:166) and nothing else depends on it; a negative `max_count`
  (array.go:68), a literal of the profile that `LayoutAssumption` excludes;
* rows of an iteration that a query evaluates in several goroutines
  (struct.go:208): whether it does is decided in vfilter.

`Ranked` and `Encodable` are sufficient for the theorems about StructObject and not
necessary: a reading takes every object that a lambda comes to for one it may answer,
so that a value field which only looks at its grandparent counts as one that answers it.
