# A TLA+ model of doarr

doarr lets a C++ program build calls to templates out of values it computes at
run time. The build tool `dcc` takes *guest* sources, precompiles each into a
header, finds the functions they export, and packs header, names and compiler
options into C code or objects. The run-time library, linked into the *host*,
writes a small source for each new call, runs the C++ compiler on it with the
precompiled header, loads the result and keeps it in a cache.

Source paths below are relative to the repository; line numbers are those of the
modelled commit.

## 1. The system

### Components, their state and their operations

| component | source | state | operations |
|---|---|---|---|
| call and cache | `runtime/call.cpp` | `GLOBAL_cache` (key to `cache_value`), stack of guest bodies | `doarr::internal::call`, `compile` |
| compile and load | `runtime/io.c` | the name counter in `doarr_io_ctx`, `gch_tmp_path` of every guest file, files, loaded libraries, compiler processes | `tmp_path_inc`, `doarr_extract_precompiled_or_null`, `doarr_compile_and_load` |
| temporary directory | `runtime/io.c:29-91` | the directory, the cleaner process, who holds the pipe | `doarr_io_init` |
| build pipeline | `dcc/dcc_gen.c`, `dcc_util.c`, `dcc.c:233-266` | temporary files, two children, the pipe, `c_file`, exit status | `process_single_file`, `dcc_gen_main` |
| command line | `dcc/dcc_options.c`, `dcc_gen.c:142-202,479-494` | options to forward, inputs with positions, output, mode | `dcc_parse_args`, `exec_cxx`, `build_runtime_args` |
| export scanner | `dcc/dcc_scan.c` | a `FILE` | `dcc_scan_up_to_next_export` |
| expression library | `include/doarr/*.hpp`, `runtime/expr_all.cpp` | reference-counted nodes with hash and number of parameters | constructors, copies, equality, hash, writing, extraction |
| generated C | `dcc_gen.c:16-138` | the output being written | escaping, fixed text |
| tool lookup | `dcc.c:40-160,175-190,221-231` | descriptors, `exec_fd` of each tool | search of `PATH` |

### How they interact

* `call` looks a key up; on a miss it puts a **null entry** into the cache, runs
  `compile`, and takes the entry away again if anything throws. On success or a
  hit it runs the entry, and the body may **call back** into the host and so into
  `call`.
* `compile` obtains the context (first use runs `doarr_io_init`), extracts the
  header of the guest file once, writes a source, forks a **compiler**, waits,
  removes the source, opens the object **by its name**, and removes it.
  Names come from one counter that only goes up.
* The directory is removed by a **cleaner** process, which waits for the end of a
  pipe whose write end the host leaks and every child inherits.
* `dcc` starts a **precompiler** and a **preprocessor** side by side, scans the
  output of the second through a pipe, waits for both, then runs `cc`, `ld` and
  `objcopy` one after the other. Outputs wait in a temporary directory until all
  inputs are done. What `dcc` writes into the generated C (options, the position
  of the source between them, the header) is what `io.c` reads when the host runs.

### What is hard, and what makes each part correct

* Calls that fail at any of a dozen places, followed by further calls: the cache
  and the header paths must not remember the failure (`NoNullEntry`,
  `HeaderComplete`, `Promise`).
* Compilers the host has stopped waiting for: they read and write later, under
  names of their own (`LoadsFinishedObject`, `RunsOwnCode`).
* Processes that end in any order, killed or not: the directory must stay for the
  last of them, and go after it (`InUseIsThere`, `CleanedUp`, `AttemptsUndone`).
* Two children and a bounded pipe next to an error path: nobody may wait for
  someone who waits for him (`Terminates`), nothing may be left behind
  (`NoLeftovers`, `NothingRuns`), and the exit status must tell what was delivered
  (`StatusTellsAll`, `OneObjectPerInput`, `OutputsLast`).
* Vectors of arguments built by one piece of code and sized by another
  (`FitsArgBuff`, `Allocated`), and a position that must mean the same on both
  sides (`InputInPlace`, `RuntimePosInRange`).
* Nodes shared by hand-counted handles (`CountIsRefs`,
  `NothingLeaks`), which must look like values (`ValueSemantics`).
* One tree traversed three times, by three pieces of code, for the key, for the
  code and for the parameters, with calls that are only equal sharing the code
  (`RunsWhatWasSaid`, `ParamsFit`, `CompiledOnce`).
* Text read and written by hand: what C++ tokens there are in it (`ExportsExact`,
  `ExactlyNames`), and what a C or C++ compiler reads back
  (`ReadByC`, `ReadsBack`).
* Descriptors that run short or take the numbers of the standard streams
  (`ToolsRight`, `DescriptorsRight`).

## 2. Modules

| module | what it is |
|---|---|
| `CallMemo` | abstract specification: what `call` promises, with keys and bodies only |
| `Runtime` | call, cache, names, header, sources, objects, loader and compilers; `Promise` is `CallMemo` under the mapping below |
| `RuntimeProofs` | theorems about `Runtime`, with proofs |
| `TmpDir` | the life of the directory, of the cleaner and of the pipe |
| `TmpDirProofs` | theorems about `TmpDir`, with proofs |
| `Host` | `Runtime` and `TmpDir` together, with a host that may end at any point |
| `HostProofs` | theorems about `Host`, from those about its two parts |
| `TmpName` | the buffer with the directory, the separator and the counter |
| `ExprValues` | abstract specification: expressions are values |
| `ExprRefs` | handles, nodes and reference counts; `ValueSemantics` is `ExprValues` |
| `ExprRefsProofs` | theorems about the reference counts, with proofs |
| `ExprCode` | hash, equality, written code and parameters of expressions |
| `Literals` | the texts of integers, characters and names |
| `Numbers` | powers, and the numbers digits stand for: the reference for `TmpName` and `Literals` |
| `TextProofs` | theorems about `Literals`, `TmpName`, `GenText` and `DccScan`, with proofs |
| `DccBuild` | one run of `dcc` behind the command line |
| `DccBuildProofs` | theorems about `DccBuild`, with proofs |
| `DccArgs` | the command line, and the argument vectors made of it |
| `DccArgsProofs` | theorems about `DccArgs`, with proofs |
| `OptionTable` | which row of the table an option is |
| `DccScan` | the scanner for exports, next to the tokens it reads |
| `GenText` | arguments and header in the generated C, and how C reads them |
| `ToolLookup` | the search for the tools, with descriptors |
| `LookupProofs` | theorems about `ToolLookup`, `OptionTable` and `ExprCode`, with proofs |
| `Parts` | `Literals`, `TmpName`, `DccScan`, `GenText`, `ToolLookup` and `OptionTable`, which share no state, side by side, and their properties by name |
| `MC...` | instances for TLC; `MCParts` runs one of `Parts` or `ExprCode`, `MCTexts` has the tokens for `DccScan` |

### Runtime

A step of the host is the code between two points where another process or a
guest body can act. `pc` is `"user"` outside `compile`; the other values name the
next thing `compile` does: `init` (`GLOBAL_io_ctx`), `extract`, `source` (the
`FILE`), `fork`, `wait`, `remove` (`try_remove` of the source and the
decision `if(!compiled_ok)`), `load` (`dlopen`, `try_remove`, `dlsym`). `job` is the
locals. A throw is the operator `Throw`: it always goes through the `catch (...)`,
so the erased entry is part of the failing step. `"dead"` stands for `abort` and
for the crash on an unchecked `fopen`.

* Names are numbers below `NameLimit`, and `next` is the counter. `tmp_path_inc`
  aborts when it would leave the last name, which is therefore never used.
* A generated source is *whole*, *cut* inside the entry function (no compiler
  accepts it) or *headed*: cut before it, so that it compiles into a library
  without `DOARR_EXPORT`. The code checks none of the writes.
* A compiler first opens its source, later writes its object or fails. It
  needs the whole header. A wait that fails leaves it running (`WaitFails`).
* `dlopen` returns the library it already has under that name (`Opened`): that is
  what would go wrong if names came back.
* Template arguments with dynamic values are a number per key (`TmplParams`);
  `Reject` leaves everything alone.

Mapping to `CallMemo`: a key is *compiled* when its entry is set; the key
*compiling* is `job.key`; *runs* is the stack, read through the loaded libraries,
so a body that was not its caller's would show as a wrong run.

### TmpDir

`host` walks through `doarr_io_init`; each attempt has a directory and a pipe of its
own, and `writers` says who holds the write end. `Inherited` is what fork and exec do
to descriptors. A failed attempt leaves its pipe open in the host, as the code does.
The cleaner can be killed until it has blocked signals (`CleanerDies`).

### Host

The composition shares no variables: a step of `Host` is a step of each module that
takes part in it. The host of `Runtime` is the host of `TmpDir`; a compiler
is the child whose number is the name of its output. `InitIo` of `Runtime` becomes the
steps of `doarr_io_init` (`Initialise`, `Initialised`, `InitialiseFails`), `Fork` starts
a child of `TmpDir`, and a compiler that ends gives its end of the pipe back. New
are `Ends`, which stops the host between any two steps, and `Clean`, which takes
the files of `Runtime` away.

### TmpName

`chars` is `tmp_path`, and `c` the pointer of `tmp_path_inc`, whose loop is one step per
letter. What the cleaner gets is the string in the copy of the buffer the fork makes.
`given` lists the names handed out: the n-th is the number n - 1, which is
what `Inc` and `Exhausted` of `Runtime` say.

### ExprRefs and ExprValues

Variables of the program, the `exprs` being filled and the keys of `GLOBAL_cache` hold
handles; so do nodes (`kids`). One action per constructor, assignment, swap and
destructor, copying or moving. The typed wrappers of `expr.hpp` and `import.hpp`
only pass handles on: `fn`, `tmpl` and their variants are `Push` and `NewCall`, `operator^` is
`NewInfix`, a call is `KeepKey` or `DropKey`. A release goes through the handles in a
deleted node one by one (`todo`), and so does the release inside an assignment, which
takes its source only afterwards (`StartAssign`, `FinishAssign`). In
`ExprValues` a variable holds a tree; the mapping reads the tree off the nodes, and a
variable that is being assigned to already counts as assigned.

### ExprCode

Expressions are numbered in the order in which a program makes them (`Nodes`, a constant), so that the handles
in a node are smaller numbers (`NodesAssumption`). Each virtual function is a table over the expressions,
`Hash`, `Equal` (over pairs), `write_to`, `extract_params`, `num_params`, defined by recursion, and an operator
next to it (`hash_of`, `equal_parts`, `write_of`, `extract_of`, `count_of`) says what each class of nodes does,
with the table for its parts. `write_to[n]` is a function of the number of the next parameter. The code is a sequence of tokens in which
a dynamic value is `Param(i, tag)`. `Hit` and `Miss` are `call` without its failures.
`Meaning` says what the call says, values in place; `Executed` is the code with the extracted
parameters read as `any` is read. `MCNum` chooses numbers such that unequal trees have
equal hashes.

### Literals

`int_expr` digit by digit, `char_expr`, and `valid_qname_end` character by character.
Characters are ASCII codes and pointers are indices from 1. A negative `char` is written
as a `size_t`, so `ReadsBack` needs the conversion back; in a template argument,
which is where `dim` puts it, C++ does not convert and the code is rejected.

### DccScan

Texts have no end of their own: the environment appends a token of C++ whenever the
scanner has read the last one. Next to it runs what C++ says of the tokens (`seen`): they are an
export when they read `doarr :: exported NAME (`. Characters stand for their
classes, except for those of the two words. The order of reading follows the code, with the character `ungetc` puts
back, with a `prev` that a partial match leaves alone, and with a delimiter of
limited length. Left out of the texts, because the scanner is known to misread them (`TextsAssumption` says which tokens
remain):

* names that end in R, as in `template<class R>`: the character behind the R is dropped, and `prev` is still the R, so that a
  `doarr` next to it is passed over. Only as in `x R;`, up to a space, are they among the texts;
* character constants with a quote (finding 5, in a run of its own);
* `ddoarr` and `dodoarr`, taken for `doarr`, and `doarr::xdoarr::exported`, because
  `prev` is older than the partial match;
* `doarr::exportedX`, as nothing looks for the end of the word.

### GenText

`WriteCharacter` is the loop over an argument, `WriteLine` and `WriteRest` the two loops over the
header. `CReads` is the part of translation phases 1, 2, 5 and 6 of C that
matters: trigraphs, continued lines, escapes, and joined literals. `EscapesApart` says of the arguments
that none has a hexadecimal digit behind a byte that is written as an escape; where it does not hold C reads
something else (known divergences, below).

### ToolLookup

A place is an element of `PATH` or the path in the name itself, and `disk` says what is there.
`fds` is the table of descriptors with the lowest free one handed out, and
`Limit` lets it run out anywhere. `exec_fd` is 0 for a tool not found, as in the code. An empty
element of `PATH` is passed over: `find_tools_path` takes `AT_FDCWD` for it, but returns since that is negative (known divergences, below).

### OptionTable

All rows of the table in their order, with options cut where one continues another.
`DccArgs` starts from the row this lookup finds.

### DccBuild

`pc` follows the program text. What remains to be done for an input after both waits is a sequence
of operations, `Plan`, one for each of the four ways through
`dcc_gen.c:314-405`; `DoUnlink`, `DoMap`, `DoFinish` and `DoTool` take them one by
one, and any of them may fail. The error path is `CloseFiles`, `ErrorPre`,
`ErrorPch`, `ErrorUnlink` in the order of lines 407-420, with the outputs of earlier
inputs (line 499) in the last. Delivery has the three ways of lines 504-557;
`cat_unlink_close` is `CatFile`, `CatFails`, `CloseCat`, and `move_from_tmp` is
`Rename`, `CopyInstead`, `MoveFails`. A write that fails may have left a `Part` of
the code at its destination. `Faults` lists the kinds of failure a run may meet, so that
one cfg can leave out the one kind under which a property fails.
The tools waited for at once are one step each.

### DccArgs

A word is what the parser sees: syntax, action, and whether text is attached; which option
the table finds for a string is abstracted. One action per case of
`dcc_parse_args`; `Check` is `main`'s. The argument vectors are operators that
give sequences of word positions, so that order and length can be compared.

## 3. Runs

| run | bounds | shows |
|---|---|---|
| `runtime_safety` | keys `k1`, `k2` in two files and `kt` that is always rejected, in the file of `k2`; 8 names; 2 nested bodies | the five invariants of `Runtime`, and that it implements `CallMemo` |
| `host` | one key that compiles, one that is rejected, in one file; 6 names, 2 attempts; with fairness | nothing is taken away, files lie in directories, calls end, and after the host everything goes |
| `tmpdir` | 3 attempts, 3 children | the directory: in use, undone, cleaned up |
| `dcc_faults` | 3 inputs, sources of up to 3 items, a pipe of 1, all failures but `stream` | the seven properties of `DccBuild` |
| `dcc_stream` | the same, only `stream` failures | **violation** of `Terminates` |
| `dcc_toolfork` | only failing forks of tools | **violation** of `ToolFailureReported` |
| `dcc_samename` | inputs 1 and 3 with one base name, no failures | **violation** of `OneObjectPerInput` |
| `expr_refs` | 3 handles, 3 nodes, 2 labels, one argument, one key; symmetric | counts at every step; no leak; values without sharing |
| `parts` | one part per behaviour, see below | the 12 invariants of the seven parts |
| `scan_quote` | the texts of `DccScan` and `'"'` | **violation** of `ExportsFound` |
| `args_lines` | all command lines of up to 4 words of 16 kinds | the five invariants of `DccArgs` |
| `args_include` | up to 8 words: inputs, `-c`, `-includeX` | **violation** of `RuntimePosInRange` |

The bounds of `parts`, in which `MCParts` lets one module run per behaviour and the others rest:

| part | bounds | properties |
|---|---|---|
| `ExprCode` | two cache entries, all pairs of 47 calls, hashes modulo 2 | `ParamsFit`, `RunsWhatWasSaid`, `CompiledOnce` |
| `Literals` | `size_t` of 2 bytes; all characters; strings of up to 6 of `: a 0 -` | `InBounds` (`InBuffer`, `InName`, `Terminated`), `ReadsBack`, `ExactlyNames` |
| `TmpName` | 4 digits in base 3, to the end | `NamesRight` (`BufferKept`, `NamesInOrder`, `RemovedIsParent`) |
| `DccScan` | 22 kinds of tokens in any order, delimiters of up to 2 characters | `ExportsExact` (`NoneInvented`, `NoneMissed`) |
| `GenText` | arguments of up to 4 of 8 characters, headers of up to 5 of 4 bytes, lines of 2 | `ReadByC` (`ArgumentKept`, `HeaderKept`) |
| `ToolLookup` | 2 tools, 2 elements of `PATH`, 8 descriptors, any of the first 3 closed | `ToolsRight` (`FirstOnPath`, `ReportedMissing`), `DescriptorsRight` (`StandardStreams`, `DescriptorsKept`, `OneEach`) |
| `OptionTable` | the whole table; each option with and without text | `RightRow` (`LongestOption`, `CellsFilled`) |

Why the bounds are enough. A compilation takes two or three names, so 8 names
allow three compilations on end, of which two can leave orphans that meet the
third; the counter also runs out. Two bodies are enough for a call inside a call;
deeper ones repeat it. Three attempts of `doarr_io_init` let a cleaner inherit the pipes of two failed ones. Three inputs make
earlier outputs, a current one and later ones. With 3 items and a pipe of 1 the
preprocessor is blocked after the scanner has given up. Four words hold two
options with separate values, or a repeated `-o`.

`Host` needs one compilation that leaves an orphan and one more after it, of the same file. Three nodes make a shared node
below another, released through it, and an address used again; two variables
suffice for each assignment, and a third one makes all of `NewInfix`. Two cache
entries are what a confusion takes, and modulo 2 many hashes are equal. A delimiter of 2 characters and its quote fill
`MaxDelim` = 3, which stands for 17. Two tools and
two elements are enough to find one before the other, and 8 descriptors run out at
every point of the search. A base of 3 has a carry into each digit.

`NameLimit` stands for 26^13 and is not a bound of the model but a constant the
theorems leave open. `MaxDepth`, `MaxAttempts`, `MaxItems` and `MaxArgs` are bounds, and so are `MaxKeys` and `MaxEntries`. `Limit`, `MaxDelim`, `Bytes`, `Base`, `Digits`
and `bytes_per_line` have values in the system or the code, and small ones in the runs.

### Fairness

* `Runtime` by itself states none; its calls come to an end in `Host`.
* `TmpDir`: the cleaner runs on once signals are blocked (`SIGKILL` at the cleaner
  is left out), and children end. `CleanedUp` needs the second, as the
  read of the cleaner lasts as long as any of them.
* `Host`: the host runs on inside a call, `doarr_io_init` included, every compiler it has
  started ends, and so the cleaner runs on as in `TmpDir`. Nothing is assumed of the program's calls, of guest
  bodies, or of failing waits. Nothing makes the host end, and `EverythingGoes` asks only what follows
  when it has.
* `DccBuild`: dcc and the compilers run on unless they are blocked on the pipe. That a blocked
  preprocessor is killed by someone is possible (`PreprocessorFails`) but not
  relied on.

### Findings

1. **dcc hangs when the pipe does not become a stream** (`dcc_stream`). If `close`
   of the write end or `fdopen` fails, `start_preprocessor` returns with the read end
   open in dcc (`dcc_gen.c:264-271`). The error path has no stream to close, and
   waits for a preprocessor that fills the pipe and blocks. The comment in line 266
   wants to avoid waiting for an end of file that never comes.
2. **A failing fork of a tool crashes the report** (`dcc_toolfork`).
   `dcc_gen.c:222` prints `*args`, which only the child sets; in dcc it is the
   placeholder of `TBA`.
3. **Inputs with one base name overwrite each other** (`dcc_samename`), where
   the help text promises one object per input (`dcc_options.c:195`).
4. **Options after the input move the run-time source** (`args_include`).
   `build_runtime_args` subtracts every option that is not forwarded to run time
   (`-include`, `-imacros`, `-iquote` and the like, lines 153-154 of the table), also
   those after the input. Already one such option puts the source before an
   option it stood behind; five put it before the compiler's name, so that the host
   tries to execute it; six make the position negative, which `io.c:161` turns into a
   huge `size_t`. With all such options before the input the position is right
   (`RuntimePlaceAfterInclude`).
5. **A quote in a character constant opens a string** (`scan_quote`). The scanner
   does not know character constants: after `'"'`, which preprocessed headers contain,
   code and strings are exchanged up to the next quote, and exports are lost.

### Known divergences without a run

These were met while modelling. The models follow the code there; the inputs of
`parts` leave the cases out, or its properties do not speak of them.

* `dcc_scan.c:132` reads one character after every R and drops it unless it is a
  quote. In `template<class R>doarr::exported f(` this is the `>`, so that the d follows
  an R and is taken for the middle of a name, and the export is not found. With a
  space before `doarr` it is.
* `dcc_scan.c:142`: `prev` is older than a partial match, so that `ddoarr` and `dodoarr`
  are taken for `doarr`, and `doarr::xdoarr::exported` for an export.
* `dcc_gen.c:93`: bytes outside ASCII in arguments become `\x` with two digits, and C
  takes a following hexadecimal digit into the escape; most compilers then reject it.
  The header is written in octal, with three digits, and is safe.
* `dcc.c:70`: an empty element of `PATH` is never searched. The line before takes `AT_FDCWD` for it, so that the working directory
  is meant, but `AT_FDCWD` is negative, and a negative value is taken for an `open` that failed: the function
  returns, silently or with the message of an old `errno`, and a tool that is only in the working directory is reported missing.
  `ReportedMissing` therefore speaks of directories named on `PATH`.
* `dcc.c:46`: `is_executable` tests the permission to read, 0444, so that a data file hides an
  executable further on in `PATH`, which is noticed only when it is executed.

## 4. Proofs

The proofs hold for all values of the constants that satisfy the assumptions named in
the modules. From `ToolLookup` on, the assumption is a definition and stands as a
hypothesis in each theorem; definitions are cited as those of the instances `Tool`, `Lit`, `Name`, `Gen`, `Opt` and `Scan`
(those of `ExprCode` by their names). `MCParts` has TLC evaluate all of them:

| module | assumptions | what they say |
|---|---|---|
| `Runtime` | `KeysAssumption`, `LimitAssumption`, `NoneAssumption` | files and counts are assigned to keys; there is at least one name; the null value differs from every real one |
| `TmpDir` | `ProcessAssumption`, `AttemptsAssumption` | host, cleaner and children are different processes |
| `Host` | `HostAssumption` | those of `Runtime` and `TmpDir`, with the compilers as children |
| `DccArgs` | `WordsAssumption`, `LengthAssumption` | the words are records of the right shape; lengths are natural numbers |
| `DccBuild` | `SizeAssumption`, `FaultAssumption`, `NameAssumption` | at least one input, one item and one place in the pipe; each input has a name for its object |
| `ExprRefs` | `NodeAssumption`, `BoundAssumption` | the null pointer is no node and no assignment |
| `ExpressionsAreValues` | `ValuesApart`, a hypothesis | a tree is none of the two marks for variables without one; this speaks of all trees, which TLC cannot enumerate |
| `ToolLookup` | `SizeAssumption` | there is a tool, and room for more than the three standard streams |
| `Literals` | `ValuesAssumption` | integers have at least one byte and fit their width, characters are signed bytes, names have no terminator inside |
| `TmpName` | `SizeAssumption` | at least two letters and one digit |
| `GenText` | `BytesAssumption`, `EscapesApart` | arguments and headers consist of bytes, and a line has at least one; no hexadecimal digit follows a byte of an argument that is escaped |
| `OptionTable` | `TableOrder` | no option stands twice; one that continues another stands behind it; the last row has a description and an action. TLC confirms this of the table in the code |
| `DccScan` | `TokensAssumption`, `TextsAssumption` | names, punctuation of one character or `::`, strings, raw strings with a delimiter shorter than `delim`, spaces, and phrases, in any number; a name is not next to another character of a name. Left out is what the scanner misreads (section 2, `DccScan`): a name may not end in R, nor go on behind `exported`, nor end in `doarr` when it begins with a d and is not `doarr` itself |
| `ExprCode` | `NodesAssumption` | each node is of one of the four classes, and its handles are to nodes made before; calls are made of these expressions. Nothing is assumed of hashes |
| `ExprCode` | `TextAssumption` | raw code is no bracket, comma or operator: it is an integer, a character in quotes or a qualified name (`int_expr`, `char_expr`, `qname_expr`); calls have `()` or `<>`, the one operator is `^`, and a call without template arguments has none. Only `CodeCompiledOnce` needs it |

**Runtime.** `RunsOwnCode` is not inductive: a library is right because the object it
was read from is, which was written by a compiler that read the right source. `IInv`
follows this chain back, in named parts:

* `NamesFresh`: names the counter has not reached are unused;
* `JobSet`, `JobOk`: which locals of `compile` are set where;
* `NullEntry`: the only null entry of the cache is the job's;
* `JobFiles`, `JobCompiler`: the source and the object under the job's names are the
  job's, and the only compiler that reads the one or writes the other is its own,
  also after a wait has failed;
* `CompilersApart`: no two compilers write the same object.

`Invariance` proves `IInv` with one lemma per group of actions; `NeverNull`, `OwnCode`,
`WholeHeaders` and `FinishedObjects` follow, and `TypeCorrect` stands by itself.
`Refinement` proves that `Runtime` implements `CallMemo`: most steps leave the memo alone, and
`Load` is a `Compiled` step because `IInv` says whose library it is.

**TmpDir.** `DirInv` adds to the properties who holds the pipe: everyone
who works in the directory does (`Holding`), and so the cleaner gets to removing only
when they have all ended (`Cleaning`). `NeverGoneInUse` and `FailedAttempts` follow.

**Host.** The proofs about the two parts are used as they are: `HostProofs` instantiates
`RuntimeProofs` and `TmpDirProofs`, proves their assumptions (`Assumed`) and that a step of the whole
is a step of the part or leaves it alone (`DirSteps`, `CallSteps`). The lemmas `Same...` only
say that the two instances of a module define the same. What the parts do not know is in `HostInv`:

* `Tied`: the dead host of the one is the dead host of the other, and every running compiler is a
  child that holds the pipe;
* `Readable`: what a compiler needs when the host is gone, and `IInv` with it, which no longer
  holds when the cleaner is at work: the header of the source it reads, or is
  about to read, is whole;
* `Kept`: before the directory is made there are neither files nor compilers.

`DirectoryAsSpecified` proves that `Host` implements `TmpDir`, and `CallsAsPromised` that it implements
`CallMemo`; `FilesStay` and `FilesOnlyThere` are the two safety properties of the run `host`.

**DccBuild.** One invariant after the other, each with one lemma per group of actions. The number of
inputs, the items of a source and the size of the pipe are arbitrary.

* `Types` and `Pids` (dcc has the pid of each child that may run): `ChildrenWaitedFor` and
  `NothingDeliveredEarly`.
* `Sourced`: the plan is *possible*, that is, each file an operation uses is there or is made by an
  operation before, and is not unlinked before. `Plan` makes such a plan in each of its four ways,
  and every step keeps the rest of it possible: `PlansFindTheirFiles`.
* `Traced`: the files in the temporary directory are those of `Known`, which depends on how far dcc is, and in a plan each is
  *scheduled* for an unlink. The property allows for unlinks that fail, as does
  the invariant (`stuck`), and for crashes, which leave the directory: `CleansUp`.
* `Arrived`: what each destination holds while the files are being delivered, by how much of the list
  of deliveries is left: `StatusIsTrue`. `ObjectsApart` needs `NamesDiffer`, which is
  no assumption of the module, since dcc does not check it: without it `OneObjectPerInput` is false, as the run `dcc_samename`
  shows.

**DccArgs.** `ArgsInv` bounds what has been kept by what has been read (`Behind`), and lines may be of any
length: `NeverOverflows`, `NothingTwice`, `InputsStay`. The vectors made of it are counted with the
cardinalities of the options before and after a position (`RuntimePlace`, `RuntimeRange`: exactly when
the position is in the generated vector).
`VectorsFit` has the hypothesis `Precompiler < Finder`, which the proof brought to light: `cxx_args_buff` has no room
of its own for the precompiler's input and the null pointer, and is large enough only because
`dcc_gen.c:143-144` lists one argument for precompiling and three for the preprocessor.
`FitsByLengthOfOptions` proves that this is exact: with `Finder <= Precompiler` the vector of the precompiler fills the
buffer to the last place, and the null pointer would be written behind it.

**ExprRefs.** `Counted` says that the count of a node is the sum of six kinds of references: variables, handles in nodes, arguments,
keys, handles still to be released, and an assignment that has not taken its source yet. Each action
changes two of the six, and the proof is about how cardinalities change with it.
`CountsAreExact` is this without the sum. For `NoLeaks` counting is not enough, since a ring of nodes would count right:
`Acyclic` adds that every set of live nodes has one that none of them refers to. It is
stated without an order or a path, and so its proof needs no induction.

`ExpressionsAreValues` proves that `ExprRefs` implements `ExprValues`. The value of a node is a function defined by recursion over
the nodes, and must be shown to exist: `Grounded` says of all nodes what `Acyclic` says of the live ones, downwards (every set of
nodes has one without a child in it), and solutions on a part of the nodes then agree and can be extended (`ValueExists`).
A node that is there before and after a step keeps its value (`ValuesStay`), because everything below it stays too (`Sound`: what is
referred to is live). So only the variables a step names change. An assignment takes effect when it starts: `Settled` is what a variable will
hold when it is done, and `Sound` speaks of that, since what the target still points to may be gone. Nothing the
assignment releases on the way shows (`Stutter`).

**ToolLookup.** The property speaks of a tool that was found; the invariant must also say why one that was not
found is not there. `Looked` does: as long as a tool is missing and descriptors have not run
out, all candidates for it are still *ahead* of the search, which goes through the elements of `PATH` and within each through
the tools. `Stage` says what each step may rely on, above all that the standard streams are open from
`"dev_fd"` on, so that no later descriptor is one of theirs. `SearchIsRight` follows: when the search is over nothing is ahead, so that *each*
tool that is missing has no candidate. So does `DescriptorsApart`: the descriptor of a tool that was found is open for the
file of this tool, so that no other has it (`EachHasItsOwn`).

**OptionTable.** `OptInv`: no row behind the one tried last begins the word, and the two cells hold the nearest
row with a description and the nearest action among those tried. `RowsAreRight` needs of the table what `TableOrder` says: if two
options begin a word, one continues the other (`BothBegin`), and is then tried first.

**ExprCode.** Hit and miss are alike in the end: `CodeInv` says that an entry holds the code of its key, and that what is
run is the code of the call itself, in whichever entry it was found. The second is `SameSource`: keys that are equal have the same
code, since equal expressions have the same writer, whatever their dynamic values (`AllAlike`). What is left is to compare three
traversals of one call, by induction over the numbers of the nodes (`StrongInduction`, `ByNumber`). That the recursive tables exist
is proved first, from cuts of them (`TableExists`, `CountsIs`, `ExtractIs`, `SaysIs`, `WriterIs`, `EqualIs`). The induction
hypothesis is

* `Piece(code, i0, m, xs, says)`: the parameters in `code` are `i0` to `m - 1`, in order, and with the values `xs` in
  these places the code reads `says`. Pieces can be joined (`JoinPieces`), in loops over arguments too (`ArgsGood`);
* `Good`: from any number, `write_to` of a node makes such a piece, with the values `extract_params` gives and what `Says` says
  (`AllNodesGood`); and `num_params` is the number of these values (`AllCounted`).

`CodeSaysTheCall` and `ParametersFit` follow. `EntriesAreNew` proves that no entry is made for a call another entry would do for.

That no two entries have the same code either (`CodeCompiledOnce`) needs the converse of `SameSource`, `KeyUnique`: calls with the
same code are equal. Code can be read in one way only, from its end. `InText(s, T, a, b)` says that the piece `s` stands in the
text `T` from `a` to `b`, and `Stands` that the code of a node does, whatever its first parameter. The last token tells
parameters, raw code and brackets apart (`LastToken`); before the last expression in the brackets is the operator if they are
those of an infix expression, and a comma or the opening bracket if they are those of a call (`CallNotInfix`), and no
expression ends in one of these, which is how a list of arguments is known to have ended (`ListsAgree`). So two nodes whose codes end at the same place
begin at the same place and are equal (`Agree`, by induction over the numbers of the nodes in `NodeAgrees`). That equal parts have
equal hashes, which `==` asks for too, is `EqualByParts`; the table of hashes exists without a type for its values (`HashIs`).

**Literals, TmpName and GenText.** What a loop over a text computes needs induction over the text, and the induction theorems
of the library cannot be used. `Induction` gets it from the least counterexample, for a set instead of a
predicate, and `Recursion` shows that functions defined by recursion over the natural numbers exist, which
the provers do not know either. On them rest the lemmas about `Number`: `OneDigit`, what changing a digit does, and `FirstDigit`, what
one more digit in front does.

* Integers: `Writing` says that what remains of the number, with the digits already written behind it, is the number
  (`LiteralsReadBack`), and that it has no more digits than there are places left. That the buffer
  is large enough for every width is `ThreeDigits`, 256^n <= 10^(3n) (`PointersInside`).
* Characters: 256 divides the number of integers, so that a negative character that becomes a `size_t` comes back (`Converted`).
* Names: `Read` says which characters *fit* when the pointer has come to each place; a name is qualified when all of its
  characters fit (`NamesExact`).
* `Counting`: between two names the counter is the number of names given, and in the middle of a carry a digit at the
  pointer is missing; at the separator this is 26^13, and the program stops (`NamesAreNew`).
* `GenText`: the reader of C is a recursive function over the finished text, and becomes a machine that reads what is
  written character by character (`ReadAppend`). This needs a text in which no trigraph begins (`Clean`, `OneMore`): the last
  character is a question mark only if none follows (`OpenQuestion`). `Ends` is what has been read when the literal
  ends here, also in the middle of an escape, and `GenInv` that this is what has been written. An octal escape is closed by its third
  digit, a hexadecimal one only by what follows (`OpenEscape`), which is where `EscapesApart` is needed: the proof for headers
  does without it. `OctalsKept` is the induction over the bytes of a line (`TextsReadByC`).

**DccScan.** The scanner reads characters and `seen` counts tokens, so the invariant must say how the two go together in
the middle of a token. `Taken` is how many characters of it the scanner has taken, one that was put back not
counted. `Within` says, for each kind of token, where the scanner is after so many: in a string between an escaped
place and the next (`InQuotes`, where the set of escaped places is a witness), in a raw string with so much of the
delimiter read, or comparing it since the last parenthesis (`InRaw`), in a name with a part of `doarr` or `exported`
matched that the name does not go on with (`InWord`). Between two tokens it is `Settled`: where it is tells what has been seen of an
export. Only behind a name may it be `Ragged`, with a word half matched or a name half read, until the next character has told it
otherwise. `Loose`, that `prev` is no character of a name, is what lets the next `doarr` be seen; that an abandoned match keeps it
is why a name may not begin with d and end in `doarr`. When the token that decides has come (`Decides`), the
scanner answers before it has taken one character of it, or with it, and at the end of the text (`AtEnd`) it is in no name.

A step of the scanner is first reduced to what it does with a character, apart from the text (`ScannerMoves`: one lemma per
action), then followed through each kind of token (`WithinMoves`); between tokens, there is one lemma for what has been seen so far
(`NextTokenMoves`). `ExportsFoundExactly` follows, for texts without bound, of any tokens that satisfy `TextsAssumption`, and for every
length of `delim`.

Only model-checked is liveness (`CallEnds`, `EverythingGoes`, `CleanedUp`, `Terminates`), which is beyond the prover.

## 5. What is not modelled

* Threads, and hosts that fork after their first call: the library has no locks
  and does not claim to support either.
* Static constructors of a guest that call doarr while `dlopen` runs.
* Others who remove files under `/tmp`.
* Descriptors in dcc after the tools are found: it never closes the streams of finished preprocessors, nor
  the descriptor of an empty file in `dcc_map`.
* Signals to dcc itself: it leaves its directory behind, and has no handler.
* `fexecve` of a script, which needs the descriptor open in the interpreter (`dcc_util.c`), and failing
  `fstat` and `readlinkat` in the search for tools.
* The use of a null `c_file`: `DccBuild` contains the crash, and states nothing about it.
* The stack taken by recursion over deep expressions.
* Fixed text: the generated C around arguments and header, the help, messages; and the layout checks of
  `runtime_struct_defs.h`, which run at compile time.

## 6. Plan

Done, in the order of importance: `CallMemo`, `Runtime` with proofs, `TmpDir` with proofs, `DccBuild`, `DccArgs`,
then `ExprValues`, `ExprRefs`, `ExprCode`, `Host`, `TmpName`, `DccScan`, `Literals`, `GenText`,
`ToolLookup`, `OptionTable`.

Proofs done since: `DccArgsProofs`, `DccBuildProofs`, `ExprRefsProofs`, `HostProofs`, `TextProofs`,
`LookupProofs` (tools, options, and the code of calls), and the exports of a text in `TextProofs`.

Next:

1. The descriptors of `DccBuild`, as in `ToolLookup`.
