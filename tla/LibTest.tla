------------------------------- MODULE LibTest -------------------------------
(***************************************************************************)
(* The TestLibDRAMPower test case of test/test.py.  Its four methods run  *)
(* in name order, each between TestUsingBuildResult's setUp (build         *)
(* drampower, mkstemp the output file) and tearDown (unlink it).  Every   *)
(* method builds the library test programs with                           *)
(*     make -f test/libdrampowertest/Makefile USE_XERCES=.. COVERAGE=..   *)
(* With COVERAGE=1 a compile leaves lib_test.gcno in the working          *)
(* directory and a run of library_test leaves lib_test.gcda there; the    *)
(* methods move or delete them.                                            *)
(*                                                                         *)
(* make is a black box: when the programs are newer than their sources it *)
(* finds them up to date, compiles nothing and returns 0 (it does not see *)
(* USE_XERCES); otherwise it compiles, and returns 0 exactly when the     *)
(* sources build with that USE_XERCES value.  A run of library_test leaves              *)
(* lib_test.gcda when the programs were compiled with COVERAGE=1.         *)
(***************************************************************************)
EXTENDS Naturals, Sequences, FiniteSets, Normalize

CONSTANTS
    LibReference,       \* test_libdrampower_output_matches_reference.out
    LibOutputs,         \* the stdouts library_test may print
    DrampowerWindow,    \* drampower's stdout for the window command trace
    WindowOutputs       \* the stdouts window_example may print

ASSUME /\ IsReadLines(LibReference) /\ IsReadLines(DrampowerWindow)
       /\ \A o \in LibOutputs \cup WindowOutputs : IsReadLines(o)

\* The methods, in the order unittest sorts their names.
OutputMatches == 1      \* test_libdrampower_output_matches_reference
WithXerces == 2         \* test_libdrampower_with_xerces_test_builds
WithoutXerces == 3      \* test_libdrampower_without_xerces_test_builds
Window == 4             \* test_window_example
Methods == 1..4

Gcno == "lib_test.gcno"
Gcda == "lib_test.gcda"
CoverageFiles == {Gcno, Gcda}

VARIABLES
    coverage,       \* COVERAGE=1 in the environment (inCoverageTest)
    buildOk,        \* make -f Makefile returns 0
    libBuildOk,     \* libBuildOk[x]: the library test programs compile with USE_XERCES=x
    libExitOk,      \* library_test exits with 0
    libOut,         \* what library_test prints
    dpExitOk,       \* drampower exits with 0 on window.trace
    winExitOk,      \* window_example exits with 0
    winOut,         \* what window_example prints
    cur, pc, result,
    makeOk,         \* makeOk[m]: the library build of method m returned 0
    tmp,            \* the lines of self.tempFileName (empty between methods)
    upToDate,       \* the library test programs exist and are newer than their sources
    builtCov,       \* they were compiled with COVERAGE=1
    cwd,            \* the coverage files in the working directory
    testDir         \* the coverage files in test/libdrampowertest

env == <<coverage, buildOk, libBuildOk, libExitOk, libOut, dpExitOk, winExitOk, winOut>>
vars == <<coverage, buildOk, libBuildOk, libExitOk, libOut, dpExitOk, winExitOk, winOut,
          cur, pc, result, makeOk, tmp, upToDate, builtCov, cwd, testDir>>

Outcome == {"none", "pass", "fail", "error"}

TypeOK ==
    /\ coverage \in BOOLEAN /\ buildOk \in BOOLEAN
    /\ libBuildOk \in [BOOLEAN -> BOOLEAN]
    /\ libExitOk \in BOOLEAN /\ libOut \in LibOutputs
    /\ dpExitOk \in BOOLEAN /\ winExitOk \in BOOLEAN /\ winOut \in WindowOutputs
    /\ cur \in 1..5
    \* the temp file holds the stdout of at most one program
    /\ tmp \in {<<>>, DrampowerWindow} \cup LibOutputs \cup WindowOutputs
    /\ pc \in {"setUp", "body", "tearDown"}
    /\ result \in [Methods -> Outcome]
    /\ \A m \in 1..cur-1 : result[m] # "none"
    /\ makeOk \in [Methods -> BOOLEAN]
    /\ upToDate \in BOOLEAN /\ builtCov \in BOOLEAN
    /\ cwd \subseteq CoverageFiles /\ testDir \subseteq CoverageFiles

Init ==
    /\ coverage \in BOOLEAN /\ buildOk \in BOOLEAN
    /\ libBuildOk \in [BOOLEAN -> BOOLEAN]
    /\ libExitOk \in BOOLEAN /\ libOut \in LibOutputs
    /\ dpExitOk \in BOOLEAN /\ winExitOk \in BOOLEAN /\ winOut \in WindowOutputs
    /\ cur = 1 /\ pc = "setUp"
    /\ result = [m \in Methods |-> "none"]
    /\ makeOk = [m \in Methods |-> FALSE]
    /\ tmp = <<>>
    \* programs left by an earlier run, with or without coverage
    /\ upToDate \in BOOLEAN /\ builtCov \in IF upToDate THEN BOOLEAN ELSE {FALSE}
    /\ cwd = {} /\ testDir = {}

-----------------------------------------------------------------------------
Finish(outcome) == result' = [result EXCEPT ![cur] = outcome]

\* The run of make -f test/libdrampowertest/Makefile USE_XERCES=x: ok is
\* its exit code 0, rc that it compiled the programs.
MakeRun(x) ==
    IF upToDate THEN [ok |-> TRUE, rc |-> FALSE]
    ELSE [ok |-> libBuildOk[x], rc |-> libBuildOk[x]]

\* buildLibDRAMPowerExecutables(useXerces) with make run mk: the exit code is
\* asserted, and a compile replaces the programs (instrumented when
\* COVERAGE=1) and, with coverage, leaves lib_test.gcno.
LibBuild(mk) ==
    /\ makeOk' = [makeOk EXCEPT ![cur] = mk.ok]
    /\ upToDate' = (upToDate \/ mk.rc)
    /\ builtCov' = IF mk.rc THEN coverage ELSE builtCov

CwdAfterBuild(rc) == IF rc /\ coverage THEN cwd \cup {Gcno} ELSE cwd

\* for cp in [gcno, gcda]: os.rename(cp, testPath/cp), the whole loop in one
\* try: the first missing file ends it.
RECURSIVE RenameLoop(_, _, _)
RenameLoop(files, c, d) ==
    IF files = <<>> \/ Head(files) \notin c THEN <<c, d>>
    ELSE RenameLoop(Tail(files), c \ {Head(files)}, d \cup {Head(files)})

\* Mutant: the file reopened with 'a', so the second output is appended.
WriteA(old, out) == old \o out

\* with open(self.tempFileName, 'w') as f: subprocess.call(..., stdout=f):
\* the file is truncated and then holds the program's stdout.
WriteW(old, out) == out

\* setUp: buildDRAMPower asserts make returns 0, then mkstemp.
setUp ==
    /\ pc = "setUp" /\ cur <= 4
    /\ \/ /\ ~buildOk
          /\ Finish("error")
          /\ cur' = cur + 1
          /\ UNCHANGED <<pc, tmp>>
       \/ /\ buildOk
          /\ tmp' = <<>>
          /\ pc' = "body"
          /\ UNCHANGED <<cur, result>>
    /\ UNCHANGED <<env, makeOk, upToDate, builtCov, cwd, testDir>>

\* test_libdrampower_output_matches_reference: build, run library_test into
\* the temp file (its exit code is asserted inside the with block), move
\* the coverage files (errors ignored), compare with the reference.
test_libdrampower_output_matches_reference ==
    /\ pc = "body" /\ cur = OutputMatches
    /\ pc' = "tearDown"
    /\ LET mk == MakeRun(TRUE) IN
         /\ LibBuild(mk)
         /\ IF ~mk.ok
            THEN Finish("fail") /\ UNCHANGED <<tmp, cwd, testDir>>
            ELSE LET instrumented == IF mk.rc THEN coverage ELSE builtCov
                     ran == IF instrumented THEN CwdAfterBuild(mk.rc) \cup {Gcda}
                            ELSE CwdAfterBuild(mk.rc)
                     moved == IF coverage THEN RenameLoop(<<Gcno, Gcda>>, ran, testDir)
                              ELSE <<ran, testDir>>
                 IN /\ tmp' = WriteW(tmp, libOut)
                    /\ IF libExitOk
                       THEN /\ cwd' = moved[1] /\ testDir' = moved[2]
                            /\ Finish(IF getFilteredOutput(libOut) = getFilteredOutput(LibReference)
                                      THEN "pass" ELSE "fail")
                       ELSE /\ cwd' = ran /\ testDir' = testDir
                            /\ Finish("fail")
    /\ UNCHANGED <<env, cur>>

\* test_libdrampower_with_xerces_test_builds: the build returns 0.
test_libdrampower_with_xerces_test_builds ==
    /\ pc = "body" /\ cur = WithXerces
    /\ pc' = "tearDown"
    /\ LET mk == MakeRun(TRUE) IN
         /\ LibBuild(mk)
         /\ cwd' = CwdAfterBuild(mk.rc)
         /\ Finish(IF mk.ok THEN "pass" ELSE "fail")
    /\ UNCHANGED <<env, cur, tmp, testDir>>

\* test_libdrampower_without_xerces_test_builds: the build returns 0; with
\* coverage, lib_test.gcno is then unlinked outside any try.
test_libdrampower_without_xerces_test_builds ==
    /\ pc = "body" /\ cur = WithoutXerces
    /\ pc' = "tearDown"
    /\ LET mk == MakeRun(FALSE) IN
         /\ LibBuild(mk)
         /\ \/ /\ ~mk.ok
               /\ cwd' = cwd
               /\ Finish("fail")
            \/ /\ mk.ok /\ ~coverage
               /\ cwd' = CwdAfterBuild(mk.rc)
               /\ Finish("pass")
            \/ /\ mk.ok /\ coverage /\ Gcno \in CwdAfterBuild(mk.rc)
               /\ cwd' = CwdAfterBuild(mk.rc) \ {Gcno}
               /\ Finish("pass")
            \/ /\ mk.ok /\ coverage /\ Gcno \notin CwdAfterBuild(mk.rc)
               /\ cwd' = CwdAfterBuild(mk.rc)
               /\ Finish("error")
    /\ UNCHANGED <<env, cur, tmp, testDir>>

\* test_window_example: drampower on window.trace into the temp file, keep
\* its summary lines, then window_example into the same file (reopened with
\* 'w', so truncated), keep its summary lines, and compare them.  Each
\* exit code is asserted right after its program ran.
test_window_example ==
    /\ pc = "body" /\ cur = Window
    /\ pc' = "tearDown"
    /\ LET mk == MakeRun(TRUE) IN
         /\ LibBuild(mk)
         /\ cwd' = CwdAfterBuild(mk.rc)
         /\ LET first == WriteW(tmp, DrampowerWindow)
                second == WriteW(first, winOut)
            IN CASE ~mk.ok -> tmp' = tmp /\ Finish("fail")
                 [] ~dpExitOk -> tmp' = first /\ Finish("fail")
                 [] ~winExitOk -> tmp' = second /\ Finish("fail")
                 [] OTHER -> /\ tmp' = second
                             /\ Finish(IF getResults(first) = getResults(second)
                                       THEN "pass" ELSE "fail")
    /\ UNCHANGED <<env, cur, testDir>>

\* tearDown: unlink self.tempFiles; unittest moves on to the next method.
tearDown ==
    /\ pc = "tearDown"
    /\ tmp' = <<>>
    /\ cur' = cur + 1
    /\ pc' = "setUp"
    /\ UNCHANGED <<env, result, makeOk, upToDate, builtCov, cwd, testDir>>

Next ==
    \/ setUp
    \/ test_libdrampower_output_matches_reference
    \/ test_libdrampower_with_xerces_test_builds
    \/ test_libdrampower_without_xerces_test_builds
    \/ test_window_example
    \/ tearDown

Spec == Init /\ [][Next]_vars /\ WF_vars(Next)

-----------------------------------------------------------------------------
(* Properties                                                              *)

\* The outcome the spec and the docstrings ask of each method: an error
\* only when drampower does not build; otherwise a pass exactly when the
\* library build it ran returned 0 and, for the two that run programs,
\* every program exits with 0 and the compared lines agree.
LibExpected(m) ==
    CASE ~buildOk -> "error"
      [] m = OutputMatches ->
            IF makeOk[m] /\ libExitOk
               /\ SignalLines(libOut) = SignalLines(LibReference)
            THEN "pass" ELSE "fail"
      [] m \in {WithXerces, WithoutXerces} -> IF makeOk[m] THEN "pass" ELSE "fail"
      [] m = Window ->
            IF makeOk[m] /\ dpExitOk /\ winExitOk
               /\ SummaryLines(DrampowerWindow) = SummaryLines(winOut)
            THEN "pass" ELSE "fail"

\* Every finished method of TestLibDRAMPower recorded that outcome, with
\* coverage on or off and whatever make rebuilt, except that the unlink of
\* test_libdrampower_without_xerces_test_builds is left to
\* CoverageCleanupNonFatal: the window example compares the summaries of
\* the two programs although both wrote the same temp file, and the
\* coverage moves of test_libdrampower_output_matches_reference never
\* change its verdict.
LibVerdicts ==
    \A m \in 1..cur-1 : (m # WithoutXerces \/ ~coverage) => result[m] = LibExpected(m)

\* Spec (Coverage Relocator): moving or removing coverage files is best
\* effort and never makes a test fail.
CoverageCleanupNonFatal == \A m \in 1..cur-1 : result[m] = LibExpected(m)

\* Spec (Coverage Relocator): after a coverage run of library_test in
\* test_libdrampower_output_matches_reference its coverage files have left
\* the working directory before the next method builds again.
CoverageRelocated ==
    (cur = OutputMatches /\ pc = "tearDown" /\ coverage /\ makeOk[OutputMatches])
        => cwd \cap CoverageFiles = {}

=============================================================================
