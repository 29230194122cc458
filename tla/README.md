# TLA+ models of the DRAMPower regression harness

This directory holds TLA+ models of the Python code in this repository. The
main subject is the DRAMPower regression harness,
`src/common/DRAMPower/test/test.py`, and its regeneration script, `update.py`.
The third file, `src/zsim-ramulator/validation/validate_hostTraces.py`, is a
separate statistics script. The models treat drampower, libdrampower and make
as black boxes. Each black box has a fixed behaviour per input. The models check
what the harness does with that behaviour.

## Inventory

### Components, state and operations

| Component | Code | State it keeps | Operations |
|---|---|---|---|
| Artifact Store | `extractFileToTmpFile` (18-24), `setUp` (39-43), `tearDown` (55-61), `get_LPDDR2_1066_trace_file` (86-89) | temp files in /tmp; `self.tempFiles`, the list of temp files to remove (its head is `self.tempFileName`) | mkstemp, gunzip a fixture into a temp file, register the path, unlink every registered path while ignoring errors |
| Build Orchestrator | `TestBuild` (27-31), `buildDRAMPower` (35-37), `buildLibDRAMPowerExecutables` (356-359) | object files, libraries and executables in the tree; make's up-to-date view | `make -jN`, `make -f test/libdrampowertest/Makefile USE_XERCES=.. COVERAGE=..` |
| Scenario Runner | `run_and_compare_to_reference` (65-72), `test_no_arguments_error` (82-84), `test_broken_trace` (346-350) | the temp output file | run drampower with stdout redirected to the temp file; check its exit code (exit-code tests only) |
| Output Normalizer / Comparator | `getFilteredOutput` (45-48), `getResults` (50-53), `assertListEqual` | none (pure) | drop marker (`*`) and short lines; keep only the summary lines |
| Scenario Matrix | the 45 methods of `TestOutput` (74-350) | none | one golden or exit-code check per method |
| Library tests / Coverage Relocator | `TestLibDRAMPower` (353-405) | `lib_test.gcno`/`.gcda` in the working directory and in `test/libdrampowertest` | build the library tests, run `library_test` and `window_example`, move the coverage files, unlink `lib_test.gcno` |
| Build hygiene | `TestClean` (407-418) | the object files in the tree | `make clean`, then count `*.[oad]` files, skipping names that start with `conftest` |
| Regeneration | `update.py` | the reference files; temp files | rewrite 5 reference files from the current drampower output |
| Host trace validation | `validate_hostTraces.py` | counters in `traceIPC` and `zsimIPC` | compute IPC and MPKI from a trace and a zsim HDF5 file |

### How the components interact

unittest runs the test classes in name order: `TestBuild`, `TestClean`,
`TestLibDRAMPower`, then `TestOutput`. Within a class it runs the methods in
name order. Each method of `TestUsingBuildResult` runs these steps:

1. `setUp` builds drampower and creates the temp output file.
2. The test body runs the scenario.
3. `tearDown` removes every registered temp file.

unittest skips `tearDown` when `setUp` raised. The components share state only
through the file system:

- the temp files;
- the build products;
- the coverage files in the working directory;
- the reference files, which `update.py` writes and `test.py` reads.

Nothing in this code runs concurrently. The hard behaviours are all about order
and failure:

- a step that fails half-way, such as a fixture that does not decompress after
  its temp file exists;
- failures that unittest turns into errors, and the cleanup it runs or skips
  after them;
- make deciding that a target is up to date, so a build creates no new files;
- one test depending on files an earlier test left behind (coverage files,
  object files);
- a round trip between regeneration and verification.

### What makes each component correct

- **Artifact Store.** Every temp file a test creates is gone when the test ends,
  on the failure paths too.
- **Runner and comparator.** Each test records the verdict of its own scenario:
  - an error when the build or its fixture is unavailable;
  - otherwise a pass exactly when the signal lines of the output equal those of
    the reference, or when the exit code is the expected one;
  - and, for golden tests, only when drampower exited with 0.
- **Scenario Matrix.** Each scenario of the spec's matrix is run by exactly one
  method, against the reference generated for that scenario.
- **Coverage Relocator.** No test errors because of a coverage file that another
  test moved or that make did not produce. Both coverage files leave the working
  directory together.
- **Build hygiene.** After `make clean`, no object, archive or dependency file
  remains.
- **Regeneration.** Regeneration followed by verification passes. Regeneration
  never leaves a reference truncated or temp files behind.

`PROJECT.json` lists the hazards, each at the line where it bites.

## Modules

| Module | Models | Composes |
|---|---|---|
| `Normalize` | `getFilteredOutput`, `getResults` and the lines `readlines()` returns, as operators. It also holds the spec's definition of signal lines, for reference. | — |
| `OutputTest` | `TestUsingBuildResult` and `TestOutput` as a state machine. | `Normalize` |
| `ScenarioMatrix` | Every `TestOutput` method as a row (name, kind, command, reference file), plus the spec's matrix. | — |
| `MCOutputTest` | Five methods, one of each kind (both LPDDR2 tests share the gzip fixture), in unittest's order. | `OutputTest` |
| `MCOutputMatrix` | All 45 methods of `ScenarioMatrix`, run through `OutputTest`. | `OutputTest`, `ScenarioMatrix` |
| `LibTest` | `TestLibDRAMPower`: its four methods with `COVERAGE` on and off, the library build and the coverage files. | `Normalize` |
| `MCLibTest` | Small reports for `library_test`, drampower and `window_example`. | `LibTest` |
| `TraceStats` | `traceIPC`'s regex search, `split()`, `int()` and loop body as operators over lines of characters (`Scan`, `Tally`), plus a declarative reference (`RefRecord`, `RefTotals`). | — |
| `HostValidation` | `validate_hostTraces.py` as a state machine: `main`, `zsimIPC` and `traceIPC`. | `TraceStats`, `PrintedReport` |
| `PrintedReport` | The abstract specification: a report is printed in order, one line at a time, and may stop anywhere. | — |
| `Regenerate` | `update.py`'s `newReferenceFiles` as steps, followed by a verification run of every `TestOutput` method. | `ScenarioMatrix` |
| `MCHostValidation` | Five trace lines and 160 stats dumps. | `HostValidation` |

### How `OutputTest` corresponds to the code

The environment is chosen once, in `Init`, and never changes afterwards,
because the build, the fixture and drampower are deterministic:

- `buildOk`: the result of make;
- `fixtureOk`: whether the gzip fixture can be read;
- `toolOut[i]` and `toolExit[i]`: what drampower prints and returns for test `i`.

The harness state is:

- `cur`: the running method;
- `pc`: the step inside that method;
- `tempFiles`: `self.tempFiles`;
- `onDisk`: the mkstemp paths that exist;
- `nextTemp`: mkstemp's next unique path;
- `result`: unittest's outcome for each test;
- `created`: a history of the paths each test created.

The actions are named after the methods they model:

- `setUp`: a failed make is an error with no `tearDown`.
- `get_LPDDR2_1066_trace_file`: `extractFileToTmpFile` creates the temp file
  first. The path is registered only if decompression succeeds.
- `run_and_compare_to_reference`: the exit code is dropped, and the filtered
  line sequences are compared.
- `test_no_arguments_error` and `test_broken_trace`.
- `tearDown`: unittest then moves on to the next method.

`TypeOK` also says that `self.tempFiles` holds only paths that the running
method created. Its mutant is a `setUp` that appends to the previous method's
list in place of assigning a fresh one.

A line is a record with these fields:

- the prefix class of its text: `*`, `Total Trace Energy`, `Average Power` or
  other;
- the data it reports;
- its text length, capped at 2;
- whether it ends in a newline.

That is all `len(x) > 1` and `startswith` can tell apart.

### How `LibTest` corresponds to the code

The environment, fixed in `Init`, is:

- `coverage`: `inCoverageTest()`;
- `buildOk`: make of drampower in `setUp`;
- `libBuildOk[x]`: whether the library test programs compile with
  `USE_XERCES=x`;
- `libExitOk`, `libOut`: `library_test`'s exit code and stdout;
- `dpExitOk`, `winExitOk`, `winOut`: the window example's two programs.

The harness state is `cur`, `pc` and `result` as in `OutputTest`, plus:

- `tmp`: the lines of `self.tempFileName`;
- `upToDate`, `builtCov`: whether the library test programs exist and are
  newer than their sources, and whether they were compiled with `COVERAGE=1`.
  Both are free in `Init`, because an earlier run may have left the programs;
- `makeOk[m]`: whether the library build of method `m` returned 0;
- `cwd`, `testDir`: the coverage files in the working directory and in
  `test/libdrampowertest`.

make is modelled by `MakeRun`, which is deterministic in the state. make
decides from timestamps, and only a successful compile changes them:

- up-to-date programs are not recompiled, and make returns 0 whatever
  `USE_XERCES` is;
- otherwise make compiles, and returns 0 exactly when `libBuildOk` holds for
  that setting.

A compile with coverage leaves `lib_test.gcno`. Running `library_test` leaves
`lib_test.gcda` when the programs are instrumented (`builtCov`). `RenameLoop` is the `for` loop inside one `try`: the first
missing file ends it. The unlink in the without-Xerces test has no `try`, so a
missing `lib_test.gcno` is an error. The window example writes both outputs
with mode `'w'` (`WriteW`) and compares their `getResults`. `TypeOK` also
says that the temp file holds the stdout of at most one program. A file
reopened with `'a'` breaks it.

### How `HostValidation` corresponds to the code

The inputs are fixed in `Init`:

- whether `len(sys.argv) == 3`;
- `h5`: whether `h5py.File(..)["stats"]["root"]` succeeds, or raises `IOError`
  (the file cannot be opened) or `KeyError` (it holds no zsim stats);
- whether that dataset is empty, and its last dump;
- `traceOk`: whether `open(sys.argv[2])` succeeds;
- the trace: a sequence of lines, each a sequence of one-character strings. A dump holds the `cycles` and `instrs` of
each core, and each L3 miss counter already summed over the banks (`np.sum`).
The script's state is:

- `pc`: the statement it is at;
- `c`, `cycles`, `instructions`: `zsimIPC`'s loop;
- `ln`, `acc`: `traceIPC`'s loop and its two counters;
- `out`: the records printed, each holding the numbers its line shows (a ratio
  as its two operands);
- `raised`: the exception that ended the script.

There is one action per statement group:

- `Argv`: the usage check, then the ZSIM header;
- `zsimIPC`: up to the loop, including the opens;
- `zsimCore`: one iteration;
- `zsimOverall`, `zsimMPKI`;
- `traceIPC_open`: the TRACE header, the open and the zeroed counters;
- `traceLine`: one line;
- `traceReport`.

The headers are records of their own, because they decide what a report cut
short by an exception looks like. Python evaluates a whole `print` expression before printing,
so a division by zero prints nothing for that line.

`Scan` translates `re.search(r'\d\s\d\s\d+\s\w\s', line)` and the
`split()` that follows. A shorter `\d+` leaves a digit where `\s` must follow,
so only the greedy digit run can match. `RefRecord` states the same pattern
declaratively (the leftmost match, the longest run) for `ExpectedReport`.
Because both read the code's pattern, no property judges which lines the
pattern should accept: the trace format is documented nowhere in the
repository. Lines 29 and 31 are tab-indented. Python 2 puts them at columns 16
and 19, so `totalInstructions += 1` is inside `if type != "P"` and
`misses += 1` is not.

**Refinement.** `HostValidation` instantiates `PrintedReport` with
`printed <- out` and `report <- ExpectedReport`. `ExpectedReport` is built from
reference definitions:

- the cores with cycles, selected from the dump;
- sums over sets of cores and counters;
- `RefTotals` of the trace.

`ReportRefined` is `PrintedReport`'s `Spec`. Steps that print nothing are
stuttering steps of the abstract specification. Crashes are allowed to cut the
report short. The script is outside the spec, and nothing in the repository
says what it should print for an empty dataset, cores without cycles or a
trace without records. So the exceptions at lines 46, 58 and 35 are reached
but not judged.

**Liveness.** `Spec` has `WF_vars(Next)`. The script is one sequential process,
and the next statement is always enabled until it halts. `ReportCompletes`
says that the script ends, and that if it ends without an exception it has
printed all of `ExpectedReport`. This is the half the refinement cannot give:
a printer that stops early still refines `PrintedReport`.

### How `Regenerate` corresponds to the code

The environment is fixed in `Init`:

- `changed`: no memspec, or one of the 7 the matrix uses, whose power model
  changed since the references were generated;
- `fixtureOk`: whether the gzip fixture can be read;
- `failing`: no command, or one command, on which drampower exits non-zero
  after part of its report. It is one of the five that `update.py` reruns, or
  one it does not (the short LPDDR2 trace, Rho 25). drampower is
  deterministic, so the command fails the same way in both modes;
- `binaryBuilt`: whether `./drampower` exists when `update.py` runs. The
  script never builds it; the verification mode's `setUp` does.

A reference file's content is abstracted to three facts: the command that
produced it, whether that output reflects the changed model, and how much
of the report it holds (`text`): all of it, the part printed before a failure,
or nothing.
`refs` maps file names to contents, starting with what `GeneratedBy` says each
checked-in file was made from. The actions are:

- `ExtractUnused`: line 17. mkstemp, then the fixture; an unreadable fixture
  raises before any reference is written.
- `run_and_use_as_reference`: one of the five calls in `UpdateSteps`. The file
  is created or truncated and gets drampower's output whatever the exit code;
  steps 2 and 3 extract the fixture again (`tmp`). Without `./drampower`,
  `subprocess.call` raises OSError after the truncation, and the script stops
  with that file empty.
- `Verify`: the verification mode after `update.py` ended or raised. An LPDDR2
  method whose fixture cannot be read errors. Any other method passes when its
  reference equals drampower's complete current output for its command. `OutputTest` checks how that comparison is made.


| Run | Config | Expect | What it shows |
|---|---|---|---|
| `output_pass` | `MCOutputTest.cfg` | pass | See below. |
| `output_tmpleak` | `MCOutputTestLeak.cfg` | violation | `TempFilesReleased`: when the LPDDR2 fixture cannot be read, its mkstemp file stays in /tmp (`test.py:19`, `:88`). |
| `matrix_pass` | `MCOutputMatrix.cfg` | pass | See below. |
| `lib_pass` | `MCLibTest.cfg` | pass | `TypeOK` and `LibVerdicts`: every method except the coverage unlink records the verdict of its own make run and programs, with the programs up to date or not, under every compile, exit code and output. 29,520 distinct states. |
| `lib_unlink` | `MCLibCoverageCleanupNonFatal.cfg` | violation | `CoverageCleanupNonFatal`: in coverage mode the without-Xerces test errors when `lib_test.gcno` was already moved or not rebuilt (`test.py:369`). |
| `lib_relocate` | `MCLibCoverageRelocated.cfg` | violation | `CoverageRelocated`: a failing `library_test` skips the loop (`test.py:377`; this is the trace TLC reports). With up-to-date programs, the loop stops at the missing `lib_test.gcno` before moving `lib_test.gcda` (`:384`). |
| `host_pass` | `MCHostValidation.cfg` | pass | `TypeOK`, `ReportRefined` and `ReportCompletes`. Inputs: both argument counts, the three outcomes of opening the stats file, the two of opening the trace, 26 traces, an empty dataset and 160 dumps. 288,560 states. |
| `regen_pass` | `Regenerate.cfg` | pass | `TypeOK` and `RegeneratedVerify`: every file `update.py` rewrites is the one `TestOutput` reads for the same command, whatever changed, failed or raised (1,008 states). |
| `regen_roundtrip` | `RegenerateRoundTrip.cfg` | violation | `RoundTrip`: regeneration then verification must report a match exactly for the commands that exit with 0. It is asked of a regeneration that ran to its end, and of any regeneration, even one that raised, when no model changed. It fails in three ways, and each is violated on its own. First, after a change to the DDR3 model, because `update.py` rewrites only 5 of the 45 references (`update.py:16`). Second, a failing command is regenerated from its partial output, and that output then matches, because both scripts drop the exit code (`update.py:10`, `test.py:68`). Third, with no model change, a missing `./drampower` leaves the first reference truncated to nothing (`update.py:9`). |

`output_pass` checks `TypeOK`, `VerdictsIndependent` and
`LeaksOnlyFixtureErrors` in every combination of these inputs:

- build success or failure;
- fixture readable or not;
- four drampower reports per golden test:
  - identical to the reference;
  - the same signal lines under another banner, with different blank lines;
  - a missing line;
  - reordered lines;
- exit codes 0 and 1.

It finds 94,208 distinct states.

`matrix_pass` checks `MatrixTraceable` over all 45 methods. drampower is either
unchanged, or changed for one of the 7 memspecs the matrix uses. The run finds
11,712 distinct states. A copy-pasted PASR reference violates
`MatrixTraceable`.

Every property of a passing run has a mutant in `PROJECT.json`. A mutant is a
plausible bug of the modelled code that the property catches.

**Bounds.** Five methods cover every kind of method and the fixture shared by
two tests. Temp paths are bounded by `2 * Len(Tests)`, because each test makes
at most two. The runs stop after the last method, and `CHECK_DEADLOCK FALSE`
says so: the suite really does end there.

**Fairness.** `Spec` has `WF_vars(Next)`. This is justified by the sequential
driver: it always takes its next step, unless a subprocess hangs. The spec calls
that hang an accepted limitation, and it is not modelled.

**Run order.** In the matrix run, the methods run in source order, not sorted.
The properties checked there compare each test only with its own scenario, and
`MCOutputTest` checks the sorted order.

## Plan

The plan is ordered by importance. Items 1 to 5 and 7 are done; 6 and 8 were dropped, for the reasons given there.

1. `Normalize`, `OutputTest`, `MCOutputTest`: the TestOutput lifecycle and the
   Artifact Store. Done.
2. `ScenarioMatrix`, `MCOutputMatrix`: the full method table against the spec's
   matrix. Done.
3. The two violation runs for the findings: the temp file leaked on fixture
   failure, and the ignored exit code. Done. The exit code is now checked in
   `regen_roundtrip`, where dropping it also decides the reference.
4. `LibTest`: `TestLibDRAMPower` with `COVERAGE` on and off. It will model:
   - the working-directory and test-directory coverage files;
   - make's up-to-date decision (a rebuild produces `lib_test.gcno`, running
     `library_test` produces `.gcda`);
   - the rename loop in one `try`;
   - the unguarded `os.unlink`;
   - the window example comparing `getResults` of two outputs in the shared temp
     file.

   Properties:
   - no test errors from coverage housekeeping;
   - the coverage files never remain split between directories;
   - the window verdict is independent of the full report.

   Expected: a violation for the unguarded unlink (`test.py:369`). Done, with
   a violation also for the rename loop. A stale-build run (make blind to
   `USE_XERCES`) was dropped: it depends on the Makefile, which is not in the
   repository.
5. `Regenerate`: `update.py` together with verification. Its state is the
   reference files, the drampower version and the temp files. Properties:
   - the round trip from spec §8 (regenerate, then verify, passes; expected to
     be violated for the 40 references `update.py` does not rewrite);
   - a reference is never left truncated by a failed run;
   - no temp-file leak.

   Done, with both violations. The temp-file leak is unconditional (three files
   per run) and is only counted, in `tmp`. Still open: a refinement in which the
   verification mode of `OutputTest` implements an abstract "verdict = output
   unchanged since regeneration" specification.
6. `Suite`: the test classes in unittest order, sharing the build tree.
   Dropped: see "Not modelled".
7. `TraceStats`, `HostValidation`: the whole of `validate_hostTraces.py`, with
   the refinement to `PrintedReport`. Done.
8. A `Normalize` run over unterminated one-character lines. At that boundary the
   code drops a line that the spec's "blank line" would keep. Dropped: only a
   drampower run cut off mid-line prints such a line, and that run exits
   non-zero. The ignored exit code is already the finding checked by
   `regen_roundtrip`. The spec itself says "lines of length <= 1, allowing
   for the trailing newline", which is what `len(x) > 1` does, so this is no
   divergence. `SpecSignal` follows those words.

## Not modelled

- **drampower and libdrampower.** They are C++ code outside `src/`. They appear
  only as an environment: a deterministic report and exit code per command.
- **make.** Only its outcome and, in `LibTest`, its up-to-date decision.
- **Build hygiene (`TestBuild`, `TestClean`) and the class order.** These
  tests are `make`, `make clean` and a count of the `*.[oad]` files in the
  tree. Which files exist afterwards is decided by `Makefile` and
  `test/libdrampowertest/Makefile`, and neither is in this repository. A model
  would have to invent the files each target creates and removes, and the
  verdict would follow from that invention. test.py itself fixes two things:
  - the order: `TestBuild`, `TestClean`, `TestLibDRAMPower`, `TestOutput`;
  - every later `setUp` rebuilds drampower, so the clean in the middle does not
    starve the later tests.

  The order means the scan runs before the verification classes. So it never
  checks what the spec asks: the tree after a full verification run followed
  by a clean. `PROJECT.json` records this as the hazard at `test.py:407`.
- **HDF5 and the numbers' representation in `validate_hostTraces.py`.** The
  model sees the last dump as its counters. An unopenable file and a file
  without stats are modelled as the exception they raise. h5py itself, numpy's `uint64` sums (they wrap only past 2^64 cycles) and float formatting
  are left out. The `except` of `traceIPC` is unreachable: a match always
  splits into four tokens and its digit run always parses.
- **The module-level `devnull`.** It only decides whether subprocess output is
  shown.
