# A TLA+ model of OdrCop

OdrCop reads the `.pdb` files of a C++ program, one per translation unit, and
the `.obj` next to each, and reports entities that are defined differently in
two of them: violations of the One Definition Rule. This directory holds TLA+
modules of the program, the TLC runs that check them on small instances, and
theorems, proved with TLAPS, that hold for every instance. `PROJECT.json` maps
each definition to the lines it models. Paths below are relative to the
repository; `OdrCop.h:57` means `src/OdrCop.h`, line 57.

## The system

| Part | State | Operations | Talks to |
|---|---|---|---|
| `wmain` (`src.cpp`) | the list of `.pdb` files, the `/exclude-stdlib` switch | scan the roots; load each file; report | `Cop` |
| `Cop::LoadPdb` (`OdrCop.h`) | `udtMap`, `enumMap`, `tdefMap`, `funcMap` for the whole run; `PerTuTypes` for one file | open the `.pdb`; take its global symbols one by one; call `Extract` | DIA (COM), `Extract` |
| `Cop::ReportViolations` (`OdrCop.h`) | `subTypeMaps`, a count | walk the four maps, then the anonymous types collected on the way | the four Info classes |
| Names and keys (`AnonInfo.h`, `BuildUdtKey`, `QualifiedName`) | none | tag, untag, canonicalize the anonymous namespace; build a key | all |
| `UdtInfo`, `EnumInfo`, `TDefInfo` | one definition of a type | construct from DIA, compare, collect the types it uses | DIA |
| `FuncInfo` (`FunctionExtractor.h`) | one definition of a function | split the undecorated name into types, look them up, compare, find a mismatch | `PerTuTypes` |
| `FunctionExtractor::Extract` | none | find the `.obj`, filter functions, key them, fill `funcMap` | `ExtractFunctions`, `FilesAndLinesCache` |
| `FunctionExtractor::ExtractFunctions` | maps for one `.obj` | pair names, body lengths, relocations and lines | `CoffReader` |
| `FilesAndLinesCache` | the source lines read | is a free function `static`? | source files |
| `CoffReader` | a mapped `.obj` | validate, read sections, relocations, symbols | the file |
| `DiaGetters.h` | none | property or default | DIA |
| `dumper/`, `PdbParser.h`, `cvinfo.h`, `ATL/` | - | a separate tool; a file nothing includes; vendored code | - |
| `TUs/`, `golden.txt` | - | regression input and expected output | - |

Everything runs in one thread, nothing is persisted and nothing waits. What is
hard here is something else:

* **order**: the directory iterator decides which definition is `items[0]`,
  and everything is compared with it;
* **partial failure**: every DIA call and the `.obj` reader can fail, and a
  failure is at most a message: the run goes on with what it has;
* **identity**: two things are one entity if their *texts* are one key. The
  anonymous namespace has three spellings, and a tag with the `.pdb` path has
  to keep one unit's entities from another's;
* **positional pairing**: names, body lengths and lines of functions come from
  three lists that are matched by counting;
* **a comparison that is no equivalence**: NOPs are skipped, the longer body's
  end is ignored, a `static` function equals everything.

What makes each part correct:

* names and keys: internal entities of two units never share a key, and none
  shares one with an external entity; two spellings are one name;
* `LoadPdb`: the maps hold exactly what was read; nothing of another unit is
  attached to a signature; a failed load adds no types;
* `ReportViolations`: an external type is reported exactly when two
  definitions differ, in whatever order they came; anonymous types exactly when
  involved; every definition is shown once;
* `MismatchIndex`: symmetric, passes over NOPs only, ends, returns an index
  that exists;
* `ExtractFunctions`: every C++ function once, with its own body and line; both
  passes over `.debug$S` read the same subsections;
* `FuncInfo`'s scans: the arguments, the return type and the kind of function
  are those that were declared;
* `FilesAndLinesCache`: `static` is what the function's own declaration says;
* `UdtInfo`: one declaration is equal to itself whatever order its methods are
  listed in, a difference is a difference unless the name of a type loses it; reading a class ends and reads every
  anonymous class it uses;
* `CoffReader`: a whole file is read whole, and nothing outside a cut one is kept.

The list of hazards in `PROJECT.json` has each of these at its line.

## Modules

| Module | Models |
|---|---|
| `OdrNames` | names, paths, keys: `AnonInfo.h`, `BuildUdtKey`, `CompilandToPdbPath` |
| `Bodies` | `FuncInfo::MismatchIndex` as a recursive function, and what it decides |
| `OdrInfo` | the four Info classes, their `==`, the maps, the test for a violation, `CollectSubItems` |
| `OdrCop` | the program: `wmain`, `LoadPdb`, `Extract`, `ReportViolations` |
| `OdrVerdict` | abstract: definitions are learned, the set is closed, each kind of type is judged once |
| `MismatchScan` | the loop of `MismatchIndex`, one action per branch |
| `ReportEntry` | one turn of `ReportMapViolations`: mismatch index, groups of equal items |
| `ProcPairing` | `ExtractFunctions`: symbol table, S_PROC records, counters, lines |
| `DebugSWalk` | `ExtractFunctions`: the pre-pass and the main pass over the subsections of `.debug$S`, the checksum table |
| `CoffLayout` | `CoffReader`'s constructor on a file whole or cut short; the walk over the symbols |
| `Signature` | `FuncInfo`'s constructor: arguments, return type and kind from an undecorated name |
| `StaticScan` | `FilesAndLinesCache::IsStaticFreeFunction` |
| `UdtCompare` | `UdtInfo`: members, methods, constructors, bases; the names of types; comparison; the keys of unnamed types |
| `UdtResolve` | `resolveNestedUdt`: constructors within constructors, forward declarations |
| `Offsets` | sums of lengths: where the parts of an `.obj` begin |
| `MCOdrCop`, `MCSignature`, `MCUdtCompare` | instances for TLC |
| `BodiesProofs` | the lemmas about `Bodies` that the next three modules use; what `MismatchIndex` decides |
| `OdrCopProofs` | theorems about `OdrCop` and that it implements `OdrVerdict` |
| `MismatchScanProofs`, `ReportEntryProofs` | theorems about those modules |
| `ProcPairingProofs` | theorems about that module |
| `TextProofs` | theorems about the two scans of text, `StaticScan` and `Signature` |
| `ObjProofs` | theorems about `CoffLayout` and `DebugSWalk` |
| `UdtProofs` | theorems about `UdtCompare` and `UdtResolve` |

`OdrCop` extends `OdrInfo`, which extends `OdrNames` and `Bodies`.
`MismatchScan` and `ReportEntry` extend `Bodies`. `OdrCop` instantiates
`OdrVerdict` with a refinement mapping. `CoffLayout` and `DebugSWalk` extend
`Offsets`. The others stand alone, each for a part
whose result is a value in `OdrCop`:

| Module | Its result in `OdrCop` |
|---|---|
| `CoffLayout` | whether `ExtractFunctions` fails (a thrown exception) |
| `DebugSWalk` | the records and lines `ProcPairing` walks |
| `ProcPairing` | `funcs` of a `Content` |
| `StaticScan` | the field `static` of a `Function` |
| `Signature` | the constant of that name: the types a function's name gives |
| `UdtCompare` | `Forms`: two definitions of a class are one form if `UdtInfo::IsEqualTo` says so |
| `UdtResolve` | `Nested`: the anonymous types of a form |

### How `OdrCop` corresponds to the code

`phase` is where `wmain` and `ReportViolations` are, `stage` where `LoadPdb`
and `Extract` are inside the load of `pdbs[at]`.

| Action | Code |
|---|---|
| `FindPdb`, `EndScan` | `src.cpp:22-49`; no file found is the early `return -1` |
| `OpenPdb`, `OpenFails`, `FindChildrenFails` | `OdrCop.h:36-51` and the four `else` at 148-151; after `findChildren` fails `Extract` still runs (146) and the failure is returned (152) |
| `SkipSymbol`, `AddType` | one turn of the loop at `OdrCop.h:53-142` |
| `EndOfSymbols`, `NextFails` | `OdrCop.h:57`: the end of the enumeration and its failure are one `break` |
| `NoObj`, `ExtractFunctions` | `FunctionExtractor.h:652-684`; an exception leaves a prefix |
| `SkipFunction`, `AddFunction`, `EndOfFunctions` | the loop at `FunctionExtractor.h:688-714` |
| `EndLoad` | the end of the loop at `src.cpp:51-57` |
| `ReportMapViolations(kind)` | a call of it for one of the four maps, `OdrCop.h:159-162` |
| `ReportSubTypes` | the two calls for the collected types, `OdrCop.h:166-167` |

Abstractions, each with its reason:

* A *name* is an identifier, the spelling of its anonymous namespace, and the
  tags behind the first one. These are all the code looks for in a name, `std::`,
  `<unnamed` and `<lambda_` aside, which are sets of identifiers or fields.
  A `.pdb` path that is part of another name by accident, or contains `]`, is
  left out.
* A function has two names, the symbol table's and the S_PROC record's, each
  given by the function it is of. The filters and the mark
  `excludeFromComparison` read the record's (`PassedOver`, `AnonIds`), the key
  and its tag the symbol table's (`FuncKey`, `CookieIds`). `ExtractFunctions`
  may pair names of two functions (see `pairing_c`), and `UnitD` of `MCOdrCop`
  has some. In the symbol table any part of the name may hold the cookie, a
  type of an argument too; the mark looks at a name without arguments.
* A type's layout (`Forms`) is a class of `UdtInfo::IsEqualTo` or
  `EnumInfo::IsEqualTo`: both compare fields with fields, and where
  `MemberInfoBase::IsEqualTo` accepts two different type names it accepts all
  unnamed ones, so they are equivalences.
* `Nested` gives the anonymous types of a layout's members and bases.
  Types nested in those are not collected by the code (`UdtInfo.h:587-595` does
  not recurse).
* `std::map`'s order is dropped: no map's walk depends on it. `subTypes`
  is a set, since what is asked of it is whether two contents differ.
* A `.pdb` and its `.obj` do not change during a run.
* "Failed to load" is `failed`. After `findChildren` fails it is said although
  functions were loaded, and after `Next` fails nothing is said; the model does
  as the code does.

### How the other modules correspond

* `ReportEntry`, `MismatchScan`: bodies have at least one byte.
* `ProcPairing`: a function is an index in `code`, in the order of offsets, and
  the length a record gives is the index of the function the record is about.
  Every S_PROC record has a fixup to its section, and the records of a section
  are in one `.debug$S`, as the compiler writes them. Only compiler-generated
  functions lack a record. Of the line records a function has, those for its
  first byte matter: none, one, or more when its lines begin in several files
  (`starts`). What their codeOffset is counted from is chosen once (`absolute`):
  from the function's own beginning, so that each of them is 0, or from the
  section's, as the comments at `FunctionExtractor.h:772-773` and 957 say, so that
  only those of the section's first function are (`Zeros`). The lookup is the
  same in both: the n-th zero of the section (`Line`).
* `DebugSWalk`: `sections` is the `.obj`, `p` the offset of the next header.
  `Here` is the subsection that begins at `p`; bytes where none begins could say
  anything, so reading them is only recorded. A payload's end is rounded up to a
  multiple of four as at `FunctionExtractor.h:861`, and the last payload of a
  section may lack its padding. `Count` is the `(SHORT)` of
  `FunctionExtractor.h:781`, the largest of which is `ShortMax`. An `.obj` has at
  most twice as many sections and one more (`MaxDebugS`), since the file header
  counts them in a `WORD`.
* `CoffLayout`: offsets and sizes are the real ones (20, 40, 10 and 18 bytes),
  counts are small. A read behind the end of the file gives a zero (the rest of a
  page) or ends the program; which one is a nondeterministic choice.
  A field that holds `WordMax` stands for 65535.
* `Signature`: a name is a sequence of tokens that keeps what the scans look at:
  parentheses, commas, angle brackets, `::`, `~`, the quotes of local scopes, a
  calling convention, a junk word; any other word is one of `Words`.
  `Undecorated` writes a declared function as `UnDecorateSymbolName` does, with
  junk in front and, for some, behind it (`suffix`: `const`, `__ptr64`); the
  actions read it back. The junk of `FunctionExtractor.h:198-222` is removed
  token by token (`Cleared`). A calling convention is junk there, too, but only
  behind a space: not in `(__cdecl*)`, which stands behind a parenthesis
  (`IsJunk`). `TextsAssumption` says what the texts of types and classes have in
  common: each closes what it opens, has commas and calling conventions only
  within brackets of some kind or quotes, and does not begin with a calling
  convention or junk; the last component of a class is not empty and no operator
  or destructor. The scans do not see angle brackets, so a comma or a convention
  between them is outside for the code (`Outside`) and inside for the
  assumption (`Angles`): `std::function<int __cdecl(int)>` is among the types.
  A function that returns a reference to an array, whose type stands on both
  sides of its name, is not among the texts.
* `StaticScan`: a line is a sequence of the tokens the two tests tell apart.
* `UdtCompare`: a declaration per unit, and what the unit's `.pdb` lists of its
  functions: any of them, in any order (`Listings`); a failure of `Next` ends the
  list early (`UdtInfo.h:722`) and is one such list. `std::sort` by name leaves
  methods of one name in any order (`SortedCopies`); constructors stay in theirs
  (`Ctors`). A type is an innermost one and what is added to it (`Wraps`).
  `TypeName` has of it what `resolveTypeName` writes: a function without its
  parameters and a pointer to it without a `*` of its own (`UdtInfo.h:205`, 219),
  no const or volatile of what is pointed to (229-240), `&` for both kinds of
  reference (203; `get_reference` is taken to hold for `&&` too), nothing of the
  class of a pointer to members; and every name that begins with that of an
  unnamed type is accepted for every other (119-143). Access to a static member
  is not read (353-377). Sizes are counted in plain types of size 1. A member's
  type is plain or unnamed, and a member of an unnamed type is plain
  (`Declarations`). Left out: a failure of `Next` among members and bases;
  unnamed types within unnamed types; unnamed members without a declarator, whose
  members DIA lists as the class's own; the removal of the class's name and of
  `static` from a method's name (a name is a number in the order of the sort).
  Bases are compared by name and access and are names here; members of one
  offset (bit fields, unions) are listed as declared.
* `UdtResolve`: a frame of `stack` is a constructor under way, with the parts it
  has yet to read. A member's or base's class is complete, hence defined
  earlier; a static member's need not be (`DefinedInOrder`).

Some properties say less than their names may suggest:

* `TypeOK` of `OdrCop` does not ask what a half-read `.obj` leaves;
  `FunctionsJudged` does, of the functions it left.
* `TypesJudgedByTheFiles` leaves unnamed types out, whose keys are made of their
  contents.
* `PassesReadAlike` excepts a section that holds only its signature.
* `EveryReachedClassIsRead` leaves out what is reached through a base given by
  its forward declaration alone, which the code reads as empty.
* `DecidesNoMismatch` takes the end of the shorter body for the end of both, as
  the code does.

Next to some definitions stands a `Mutant...`: the same definition with a
plausible mistake. `PROJECT.json` pairs each property with one that breaks it.

## Runs

| Run | Module | Shows |
|---|---|---|
| `cop` | `MCOdrCop` | type invariant; `InternalEntitiesKeepApart`; `SignatureTypesAreOwn`; `TypesJudgedByTheFiles`: end to end, a class or an enum is reported exactly when two loaded files differ; `FailedLoadsAddNoTypes`; `FunctionsJudged`: comparing with the first is comparing all with all, where no `static` and no prefix is among them; `InvolvedAnonymousTypesReported`; `ImplementsVerdict`: the refinement; `Termination` |
| `mismatch` | `MismatchScan` | the loop computes `MismatchIndex`, passes over NOPs only, decides `NoMismatch`, and ends |
| `entry` | `ReportEntry` | every item printed once; "same as above" is true; a difference is always shown |
| `pairing` | `ProcPairing` | each C++ function extracted, once; when its body and its line are its own; the walk ends |
| `walk` | `DebugSWalk` | both passes read the subsections and nothing else, or nothing at all; which lines get a path; the walk ends |
| `coff` | `CoffLayout` | a whole file loses nothing, and when it is refused all the same; what is kept lies in the file; no auxiliary record is taken for a symbol |
| `signature` | `MCSignature` | arguments, return type and kind read back are those declared, and where exactly they are not |
| `static_scan` | `StaticScan` | in the usual layout the verdict is right; in any layout no earlier declaration counts; the scan ends |
| `udt_compare` | `MCUdtCompare` | one declaration is not reported if the units list the same of it, and only the class is if they list other constructors; a different one is, but for what the comparison cannot see |
| `udt_resolve` | `UdtResolve` | the constructors end and the stack suffices unless a class comes to itself; every class reached is read; reading ends |

Two runs end in a violation: the code does other than a comment says.

| Run | Claim | What happens |
|---|---|---|
| `cop_static` | static functions are never compared (`FunctionExtractor.h:530`) | when one is `items[0]`, a difference between the others is lost |
| `pairing_c` | C functions are ignored entirely (`FunctionExtractor.h:982`) | the next function of the section gets the C function's length |

The following places, where the code does other than one may expect, have no run
of their own. Where a property is named it states exactly when they occur.

* `MismatchIndex`: a body equals every longer one that begins with it
  (`FunctionExtractor.h:499`; `FunctionsJudged` asks for equal lengths,
  `DecidesNoMismatch`).
* `PrintMismatch`: a third, shorter body has no byte at the index found for the
  first two (`FunctionExtractor.h:485`).
* `LoadPdb`: an enum or a typedef whose name has the other spelling of the
  anonymous namespace is not canonicalized (`OdrCop.h:106`) and may be reported
  although `AnonInfo.h:45` says otherwise.
* `Extract`: where names and records are paired wrongly, a function of the
  anonymous namespace may be marked and have an untagged key, or have a tagged
  one and no mark (`FunctionExtractor.h:710-712`; `RightlyMarked` in
  `InternalEntitiesKeepApart`).
* A type whose name starts with `<unnamed-type` and holds the anonymous namespace
  further on is marked and has an untagged key (`OdrCop.h:321`; `reset` in the
  same property).
* Names of types do not tell parameters, const of what is pointed to, or kinds
  of reference (`UdtInfo.h:203`, 219, 229; `Known` in `DifferencesAreReported`).
* The return type `std::function<int __cdecl(int)>` is cut to
  `std::function<int` (`FunctionExtractor.h:251-275`; `BeforeConvention` in
  `ReturnTypeIsFound`).
* The lookup of a line is for codeOffset 0 (`FunctionExtractor.h:966`). The
  comments at 956-957 and 772-773 speak of a lookup in the function's range and of
  offsets that are absolute within the section: in that layout the lookup finds no
  function its line but a section's first (the second part of `LinesAreOwn`). It
  fits the other layout.
* Constructors are compared (`UdtInfo.h:609`) although the comment at 611 says
  that one unit may emit some another does not, "Not an ODR violation" (612: "This
  might be wrong"): one declaration is then reported, the class and nothing else
  (the last part of `SameIsNotReported`).
* `BuildUdtKey`: two unnamed types of one unit with one size and one first member
  share a key (`OdrCop.h:322`; the premise of `SameIsNotReported`).
* An unnamed type whose first member is renamed changes its key, and goes
  unnoticed: under either key there is one definition (`UdtInfo.h:42`,
  `OdrCop.h:331`; `DifferencesAreReported` compares unnamed types under one key).
* `MakeSortedCopy` also hides in which order virtual functions are declared, so
  that two definitions with different vtables compare equal (`UdtInfo.h:421`;
  `DifferencesAreReported` leaves out the order of methods).
* From 32768 sections on neither pass reads anything (`FunctionExtractor.h:781`;
  the last part of `PassesReadAlike`).
* Paths are looked up after each section and not after the loop, although the
  comment at `FunctionExtractor.h:875` defers them: lines of a section before the
  table's have no path (`PathsFollowTheTable`).
* From 65535 relocations on the count record is counted among them
  (`CoffReader.h:122`; `ReachesIntoSymbols`), and the view is not tested
  (`CoffReader.h:85`; the `Die` of `ReadHeader`).
* Arguments are cut at commas between angle brackets (`FunctionExtractor.h:114`;
  `ArgsAreFound`); a function that returns a pointer to a function has an empty
  return type (`FunctionExtractor.h:278`); a constructor of a template of a
  qualified type is not seen as one (`FunctionExtractor.h:350`; `KindIsFound`);
  one of a class local to a destructor, or with an argument of such a class, is
  taken for a destructor (`FunctionExtractor.h:331`; `KindIsFound`).
* The scan for `static` ends at a `>` (`FunctionExtractor.h:623`) and takes a
  static local on the line of the `{` for the function's
  (`FunctionExtractor.h:576`); both are outside `UsualLayout`.

### Bounds

* `cop`: three `.pdb` files, found in any order, any one of them twice or three
  times (`MaxPdbs`). Two of them hold any of five translation units and the
  third has no `.obj`; or all three are among three units that differ (1.3
  million states, two minutes; every other run takes half a minute or less). The units
  are made so that each branch is taken by one: layouts that differ, a
  forwarder, a local type, a lambda, an std type, a module's `.ixx.obj`, the std
  module's place, a typedef of an anonymous type, an anonymous class and enum in
  a signature, functions behind an extern "C" one, whose names are of two functions. Two files suffice for two definitions to differ; with three the
  first and the last may agree. One failure (`MaxFaults`) anywhere shows what
  each failure leaves; no failure undoes another.
* `mismatch`: bodies of up to four bytes, one a NOP: a run of NOPs on each side
  around a difference. `entry`: bodies of up to two bytes and up to three items,
  the least for `==` to fail to be transitive.
* `pairing`: up to three functions in two sections: one passed over, one before
  it and one after; up to two line records for a first byte (`MaxStarts`), so
  that one function's can be taken for the next one's.
* `walk`: up to four sections and three subsections among them, a `SHORT` of
  three bits (`ShortMax` 3). Four sections do not fit into it. The length 6 is no multiple of
  four, so that each payload has padding, which the last one may lack.
* `coff`: two sections, up to three relocations each, `WordMax` 2 (so counts
  below, at and above the overflow), two symbols with up to two auxiliary
  records, cut at the end of each part or one byte before the end.
* `signature`: up to three arguments of five types (plain, pointer to function,
  local, template, template of a function type), eight classes (plain, nested, of
  repeated names, local to a function, local to a destructor, a template in a
  namespace, a template of a qualified type, one of a function type), with and
  without junk behind.
* `static_scan`: all texts of up to three lines of two tokens: the function's
  line, one above it, one above that.
* `udt_compare`: 94 declarations in two units, one feature varied at a time:
  two differ in the type of a member (two of each thing a name may lose: arrays of
  one and two, pointers to functions with and without a parameter), in an
  unnamed type, in a static member, a base, or in up to three functions, of which
  any are listed in any order.
* `udt_resolve`: two classes with up to two parts each: all cycles of length one
  and two. The stack holds three constructors, one more than there are classes.

### Fairness

Every `FairSpec` (in `DebugSWalk`, `FairWalkSpec`) is weak fairness of the whole next-state relation, nothing
finer. The program has one thread and no call that waits for another part of
it, so as long as it can take a step it does. Within the scan the choice to go
on finding files is bounded by `MaxPdbs` (a finite directory).

## Proofs

The theorems hold for all values of the constants that satisfy the assumptions
named in the modules, each of which only says what kind of thing a constant is
(for `UdtResolve`: that the stack holds more constructors than there are
classes; for `UdtCompare`: that declarations have the form described above; for
`DebugSWalk`: that a `WORD` counts the sections). So
they cover any number of files, symbols, functions and failures,
and bodies, lines and classes of any length.

About `OdrCop`:

* `TypeCorrect`: `Spec => []TypeOK`. By itself `TypeOK` is not inductive:
  `FindPdb` and `Opening` need that a load is under way only in phase
  `"load"` and that `at` then points into `pdbs`, and `ExtractFunctions` that
  there is an `.obj`. `TypeInv` is `TypeOK` with this (`LoadInv`).
* `InternalEntitiesKeepApartAlways`. The inductive strengthening `KeysTell`
  says what a key tells of the items under it. For a type, mark and tag come from
  one test on one text, so an item marked anonymous sits under a key with its own
  unit's tag, if the key was not reset. For a function the key tells its name in
  the symbol table, and the tag, if there is one, that it is marked and whose it
  is; but a marked one may have a key without a tag if there is no cookie to put
  it behind. What this says of two items under one key needs `RightlyMarked`:
  that the record's name is of the anonymous namespace exactly if the symbol
  table's is, which the pairing of names does not always give.
* `SignatureTypesAreOwnAlways`, with `OwnTypes`: while a file is being loaded
  everything in `perTU` is of this file. `AddFunction` looks up only there.
* `FailedLoadsAddNoTypesAlways`, with `SourcesInv`: every type in `maps` was
  read by a load that is not in `failed`, and the load that is reading symbols
  is not in it. It holds because every failure that `wmain` is told of comes
  before the first symbol (`OpenFails`, `FindChildrenFails`), and the one that
  comes after (`NextFails`) is not reported.
* `VerdictImplemented`: `Spec => ImplementsVerdict`, the refinement of
  `OdrVerdict`. Adding a type learns one definition or none; a report of a
  type map judges one kind, and "some item differs from the first, which is not
  anonymous" is "two external definitions differ" (`ViolatingIsOdd`, which uses
  the second theorem's invariant); every other step stutters.
* `TypesJudgedByTheFilesAlways`, end to end. While nothing has failed, the
  external definitions in `maps` are those of symbols of the files loaded so
  far (`OnlyFromFiles`), every symbol of those files that is kept is there, up
  to the ones still in `symbols` (`AllFromFiles`, with `RestInv`: `symbols` is a
  tail of the file's), and at the end every file found has been loaded
  (`AllLoaded`). What is reported is then what `ViolatingIsOdd` says of these.
* `InvolvedAnonymousTypesReportedAlways`. `CollectedInv`: in every phase of the
  report, what has been printed and collected is what the maps walked so far
  (`Walked`) hold, and the maps do not change any more; `AnonInv`: the same of
  the two walks over what was collected.

* `FunctionsJudgedAlways`. Under its premise, equal lengths of code and no
  `static`, `SameFunc` is an equivalence (`SameFuncEquivalence`, which rests on
  `MismatchIndexDecides` below), so that two definitions differ exactly when one
  differs from the first; what is reported is in `CollectedInv`.

About bodies. Induction over a body is done over sets, not over formulas: of the
places where a claim fails there would be a least one (`Induction`), and a
recursive function is the one that satisfies its equation, shown to exist in the
same way (`Recursion`).

* `MismatchIndexDecides`: `MismatchIndex(a, b) = -1` exactly when `NoMismatch`.
  By induction backwards from the ends of the bodies: wherever the code passed in
  both is the same (`Kept`), the answer from there on is the right one, and
  neither a match nor a NOP passed over on either side changes that.
* `MismatchScanProofs`: `TypeCorrect` (neither body is read behind its end) and
  `IndexIsFirstDifferenceAlways`, by `FirstInv`: without NOPs the counters are
  equal and what they have passed is the same. `PassedCodeAgreesAlways`: each
  step appends the same byte to both codes, or none. `DecidesNoMismatchAlways`:
  `MismatchIndex` is, at any time, what it is from the two counters on.
* `ReportEntryProofs`: `EveryItemPrintedOnceAlways`, `GroupsAreRightAlways`, by
  `PrintedInv`: the items printed are those in the groups, no item is in two, and
  an item not yet printed equals no group's first.
  `ReportShowsADifferenceAlways`, by `IndexInv`: while the index is looked for no
  body passed departs from the first one's, and since some item differs from the
  first, which is printed first, a second group follows.

About single parts:

* `ProcPairingProofs`: `TypeCorrect`, `EachNameOnceAlways`,
  `NothingLostAlways`, `BodiesAreOwnAlways`, `LinesAreOwnAlways`, all from one
  inductive invariant, `Inv`. After the sort the names of a section are its
  functions in order (`NamesInv`), so that the place of a name is its rank, the
  number of functions of the section before it (`InOrderIs`). The records left
  are the last ones (`RecordsInv`). The C++ functions of rank below the counter,
  and no others, have been extracted, and as many records are consumed as
  functions extracted until the names are exhausted (`CounterInv`): each record is
  consumed by a name or after the last one, so none is short (`NothingLost`), and
  a name before which nothing with a record was passed over meets the record of
  its own rank (`BodiesAreOwn`); and if each of them has one line record at 0, as many
  of those come before its own (`OwnLine`, for `LinesAreOwn`); a function that has
  none is never found.
* `ObjProofs`, about `CoffLayout`: `WholeFilesAreReadAlways`,
  `KeptRecordsAreInTheFileAlways`, `SymbolsAreTakenAlways`, by `LayoutInv`. The
  relocations kept end where the symbol table begins, or before, and are those
  of the sections if the file is whole (`RelocationsInv`); once symbols are kept
  the string table begins in the file, and so all tables lie in it
  (`SymbolsInv`); the walk has come to the first symbols, each at its place
  (`WalkInv`); a whole file is refused for one reason only (`RefusalInv`). Where
  the parts of a file lie comes from lemmas about sums of counts (`SumsAre`).
* `ObjProofs`, about `DebugSWalk`: `PassesReadAlikeAlways`,
  `PathsFollowTheTableAlways`, by `DebugSInv`. A subsection begins where the sum
  of the lengths before it says (`Start`), so one subsection at most begins at
  `p` (`Here`), and the end of the last one, rounded up, is at the section's end
  or behind it, never before. The pre-pass has collected the subsections up to `p`
  (`PreInv`), with the table if it is in this section or an earlier one; the
  main pass has read those up to `p` (`MainInv`) and, in sections that hold only
  their signature, the bytes behind it. That the number of sections is a `WORD`
  is needed: with more of them `Count` would wrap round to a part of them. The
  proof failed until the model said so.
* `TextProofs`, about `StaticScan`: `VerdictIsRightAlways`,
  `NothingEarlierCountsAlways`, by `ScanInv`: the lines left behind hold no
  keyword, and all but the first end no declaration.
* `TextProofs`, about `Signature`: `ArgsAreFoundAlways`,
  `ReturnTypeIsFoundAlways`, `KindIsFoundAlways`, for any texts that
  `TextsAssumption` allows and any number of arguments. What is open after a
  concatenation is what is open after the first text and then after the second
  (`OpensOfConcat`, by induction), so that a text that closes what it opens
  (`Nested`) leaves the places outside of all brackets of its neighbours where
  they are (`NestedConcat`), and in such a text the forward scans find just those
  (`TopsOfNested`; `Depths` ignores a quote that closes nothing, of which there is
  none). Counting backwards from the last `)` comes to its own `(`
  (`LastParenthesesAre`). An undecorated name is put together from nested texts
  (`CallIs`), hence its first calling convention outside is the function's own
  (`ConventionIs`) unless the type has one between angle brackets, which then
  comes first (`BrokenConventionIs`), and its last separators outside are those of the name and of
  the class (`ComponentsAre`). The inductive invariant is `ReadingInv`: what is
  split off, joined, and what is left are together what the parentheses held
  (`Splitting`), and if no argument has a comma between angle brackets
  (`KeptWhole`) the ones split off are the first ones declared and what is left
  is the rest of them joined (`ArgsLeft`); without this second part nothing would
  say that the next comma ends an argument. The attempt found two gaps in the
  properties as they were stated: a class or an argument local to a destructor
  makes a constructor a destructor (`NamesDestructor`), and the return type loses
  junk within it as well. Both are now in `KindIsFound` and `ReturnTypeIsFound`.
* `UdtProofs`, about `UdtCompare`: `SameIsNotReportedAlways`: two sorted orders of
  the same methods are the same if no two different ones have one name
  (`SortedIsUnique`), and the entries of a class differ if its constructors do. `DifferencesAreReportedAlways`: what is read of a declaration determines it, but
  for what `KnownOf` leaves out (`InfoTells`, from `TypeNameTells`, from
  `SuffixTells`): the inside of unnamed types, what the names of types lose, the
  order of methods. An attempt to prove it without the last exception failed, for
  the reason given above. Both use `CompareInv`: the entries of `udtMap` are those of the
  declarations of the units loaded.
* `UdtProofs`, about `UdtResolve`: `EveryReachedClassIsReadAlways`, by
  `ClosedInv`: whatever a class read so far calls is read, under way, or among
  the parts its frame has left. `DiesOnlyInACycleAlways`, by `CycleInv`: each
  frame is called by the one below it (`ChainInv`), so that a stack higher than
  there are classes has one class twice, which hence comes to itself; and no
  class that is finished does.

Only model-checked: all liveness (`Termination`, `ScanEnds`, `WalkEnds`,
`ConstructionEnds`), which is beyond the prover. Every invariant of a passing
run, and the refinement, is a theorem.

## Not modelled

* `DiaGetters.h`: stateless wrappers. The output's wording and layout, and the
  text of a type's name, of which `UdtCompare` has what tells types apart.
* `PdbParser.h`: no file includes it.
* `cvinfo.h` and `ATL/`: vendored; nine tenths of the repository's lines.
* `dumper/`: a separate tool that prints `.pdb` and `.obj` files.
* `TUs/` and `golden.txt`: test data; some of it is in `MCOdrCop`.
* `ConstantMember` of `UdtInfo.h`: the code never creates one.
* Values nothing but a broken compiler or a huge file gives: `DWORD` overflow of
  offsets, auxiliary counts beyond the symbol table, another machine's `.obj`.
* A `.pdb`, an `.obj` or a source that changes during a run.

## Plan

What is left, in this order:

1. Composition: the records of `DebugSWalk` as those of `ProcPairing`, and its
   functions as the `funcs` of `OdrCop`, as a refinement.
2. `UdtCompare`: unnamed types in unnamed types, and the trimming of the names
   of methods.
