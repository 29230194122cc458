----------------------------- MODULE Regenerate -----------------------------
(***************************************************************************)
(* test/update.py (TestUpdate.newReferenceFiles) followed by a            *)
(* verification run of TestOutput against the same binary.                 *)
(*                                                                         *)
(* A reference file holds the report of one command; the report of a      *)
(* command depends on whether the power model of its memspec changed since *)
(* the checked-in references were generated.  drampower is deterministic: *)
(* a command that fails (exits non-zero after part of its report) fails    *)
(* the same way each time it is run.  Verification of a method passes     *)
(* exactly when its reference holds the report drampower now prints for    *)
(* the method's command; exit codes are not compared, and the comparison   *)
(* itself is checked in OutputTest.                                        *)
(***************************************************************************)
EXTENDS Naturals, Sequences, FiniteSets, TLC, ScenarioMatrix

Rows == TestOutputRows
GoldenIdx == {i \in DOMAIN Rows : Rows[i].ref # <<>>}
RefFiles == {Rows[i].ref : i \in GoldenIdx}
Memspecs == {Rows[i].cmd.mem : i \in GoldenIdx}

\* A file's text: drampower's whole report, the part it printed before
\* failing, or nothing.
Content == [cmd : {Rows[i].cmd : i \in GoldenIdx}, model : BOOLEAN,
            text : {"full", "partial", "none"}]

\* Mutant: the self-refresh reference written under another name.
UpdateStepsTypo ==
    << [cmd |-> Cmd("MICRON_1Gb_DDR2-1066_16bit_H", "-c", "traces/commands.trace", <<>>),
        ref |-> <<"test_commands_trace_output_matches_reference">>],
       [cmd |-> Cmd(LPDDR2, "-c", LPDDR2Gz, <<>>), ref |-> <<"test_LPDDR2_1066_matches_reference">>],
       [cmd |-> Cmd(LPDDR2, "-c", LPDDR2Gz, <<"-r">>),
        ref |-> <<"test_LPDDR2_1066_termination_matches_reference">>],
       [cmd |-> Cmd(LPDDR3, "-t", Jpeg, <<>>), ref |-> <<"test_transaction_scheduler">>],
       [cmd |-> Cmd(LPDDR3, "-t", Jpeg, <<"-p", 2>>),
        ref |-> <<"test_transaction_scheduler_self_refresh">>] >>

\* Mutant: the termination reference regenerated without -r.
UpdateStepsNoTermination ==
    << [cmd |-> Cmd("MICRON_1Gb_DDR2-1066_16bit_H", "-c", "traces/commands.trace", <<>>),
        ref |-> <<"test_commands_trace_output_matches_reference">>],
       [cmd |-> Cmd(LPDDR2, "-c", LPDDR2Gz, <<>>), ref |-> <<"test_LPDDR2_1066_matches_reference">>],
       [cmd |-> Cmd(LPDDR2, "-c", LPDDR2Gz, <<>>),
        ref |-> <<"test_LPDDR2_1066_termination_matches_reference">>],
       [cmd |-> Cmd(LPDDR3, "-t", Jpeg, <<>>), ref |-> <<"test_transaction_scheduler">>],
       [cmd |-> Cmd(LPDDR3, "-t", Jpeg, <<"-p", 2>>),
        ref |-> <<"test_transaction_scheduler_with_self_refresh">>] >>

\* The five run_and_use_as_reference calls of newReferenceFiles, in order
\* (the LPDDR2 trace is the file extracted from the gzip fixture).
UpdateSteps ==
    << [cmd |-> Cmd("MICRON_1Gb_DDR2-1066_16bit_H", "-c", "traces/commands.trace", <<>>),
        ref |-> <<"test_commands_trace_output_matches_reference">>],
       [cmd |-> Cmd(LPDDR2, "-c", LPDDR2Gz, <<>>), ref |-> <<"test_LPDDR2_1066_matches_reference">>],
       [cmd |-> Cmd(LPDDR2, "-c", LPDDR2Gz, <<"-r">>),
        ref |-> <<"test_LPDDR2_1066_termination_matches_reference">>],
       [cmd |-> Cmd(LPDDR3, "-t", Jpeg, <<>>), ref |-> <<"test_transaction_scheduler">>],
       [cmd |-> Cmd(LPDDR3, "-t", Jpeg, <<"-p", 2>>),
        ref |-> <<"test_transaction_scheduler_with_self_refresh">>] >>

\* Steps 2 and 3 call get_LPDDR2_1066_trace_file, which extracts again.
Extracts == {2, 3}

VARIABLES
    changed,    \* the memspecs whose power model changed since the references
    fixtureOk,  \* test/data/LPDDR2-1066.commands.trace.gz can be read
    failing,    \* the commands drampower fails on, after part of the report
    binaryBuilt, \* ./drampower exists when update.py runs
    step,       \* the next run_and_use_as_reference call
    pc,         \* "regen", "raised" (an uncaught exception), "verify", "done"
    refs,       \* the reference files: name -> content
    tmp,        \* temp files extracted and not removed
    verdict     \* TestOutput's verdict per method

vars == <<changed, fixtureOk, failing, binaryBuilt, step, pc, refs, tmp, verdict>>

\* What drampower prints now for cmd.
Output(cmd) == [cmd |-> cmd, model |-> cmd.mem \in changed,
                text |-> IF cmd \in failing THEN "partial" ELSE "full"]

\* The commands the references are compared against.
GoldenCmds == {Rows[i].cmd : i \in GoldenIdx}

TypeOK ==
    /\ changed \subseteq Memspecs /\ fixtureOk \in BOOLEAN /\ failing \subseteq GoldenCmds
    /\ binaryBuilt \in BOOLEAN
    /\ step \in 0..6 /\ pc \in {"regen", "raised", "verify", "done"}
    /\ refs \in [RefFiles -> Content]
    /\ tmp \in 0..3
    /\ verdict \in [DOMAIN Rows -> {"none", "pass", "fail", "error"}]

Init ==
    /\ changed \in {{}} \cup {{m} : m \in Memspecs}
    /\ fixtureOk \in BOOLEAN
    \* a command of update.py, or one it does not rerun, fails
    /\ failing \in {{}} \cup {{UpdateSteps[k].cmd} : k \in 1..5}
                     \cup {{Rows[i].cmd} : i \in {4, 9}}
    /\ binaryBuilt \in BOOLEAN
    /\ step = 0 /\ pc = "regen"
    \* every checked-in reference holds the report of its command before
    \* the change
    /\ refs = [r \in RefFiles |-> [cmd |-> GeneratedBy(r), model |-> FALSE, text |-> "full"]]
    /\ tmp = 0
    /\ verdict = [i \in DOMAIN Rows |-> "none"]

-----------------------------------------------------------------------------
\* Line 17: an extraction whose result is never used; mkstemp runs before
\* the fixture is opened.
ExtractUnused ==
    /\ pc = "regen" /\ step = 0
    /\ tmp' = tmp + 1
    /\ IF fixtureOk THEN step' = 1 /\ UNCHANGED pc
       ELSE pc' = "raised" /\ UNCHANGED step
    /\ UNCHANGED <<changed, fixtureOk, failing, binaryBuilt, refs, verdict>>

\* run_and_use_as_reference: open(refFile, 'w') truncates (or creates) the
\* file, and drampower's stdout goes into it whatever its exit code; when
\* ./drampower does not exist subprocess.call raises OSError, leaving the
\* file empty.
run_and_use_as_reference ==
    /\ pc = "regen" /\ step \in 1..5
    /\ LET u == UpdateSteps[step]
           written == IF binaryBuilt THEN Output(u.cmd)
                      ELSE [cmd |-> u.cmd, model |-> FALSE, text |-> "none"]
       IN refs' = (u.ref :> written) @@ refs
    /\ tmp' = tmp + (IF step \in Extracts THEN 1 ELSE 0)
    /\ IF binaryBuilt
       THEN /\ step' = step + 1
            /\ pc' = IF step = 5 THEN "verify" ELSE "regen"
       ELSE pc' = "raised" /\ UNCHANGED step
    /\ UNCHANGED <<changed, fixtureOk, failing, binaryBuilt, verdict>>

\* The verification mode, run after update.py ended or raised: each golden
\* method's setUp builds drampower; an LPDDR2 method whose fixture cannot
\* be extracted errors, and every other compares its output with its
\* reference.
Verify ==
    /\ pc \in {"verify", "raised"}
    /\ verdict' = [i \in DOMAIN Rows |->
                     CASE i \notin GoldenIdx -> "none"
                       [] Rows[i].kind = "goldenGz" /\ ~fixtureOk -> "error"
                       [] refs[Rows[i].ref] = Output(Rows[i].cmd) -> "pass"
                       [] OTHER -> "fail"]
    /\ pc' = "done"
    /\ UNCHANGED <<changed, fixtureOk, failing, binaryBuilt, step, refs, tmp>>

Next == ExtractUnused \/ run_and_use_as_reference \/ Verify

Spec == Init /\ [][Next]_vars /\ WF_vars(Next)

-----------------------------------------------------------------------------
(* Properties                                                              *)

\* Every reference update.py rewrote verifies: it
\* regenerates each file with the command TestOutput compares that file
\* against, under the name TestOutput reads.
RegeneratedVerify ==
    pc = "done" =>
        \A i \in GoldenIdx :
            (\E k \in 1..step - 1 : UpdateSteps[k].ref = Rows[i].ref)
                => verdict[i] = "pass"

\* Spec (Round-trip, and the exit-code contract of the Scenario Runner):
\* after the regeneration mode ran, the verification mode against the same
\* binary and fixtures reports a match for every golden method whose
\* command drampower runs with exit code 0, and no match for the others
\* (an LPDDR2 method without its fixture errors in either mode).
\* This is asked of a regeneration that ran to its end, and of any
\* regeneration, even one that raised, when no power model changed: the
\* references were right before it, and it must not make them wrong.
RoundTrip ==
    (pc = "done" /\ (step = 6 \/ changed = {}))
        => \A i \in GoldenIdx :
               verdict[i] = CASE Rows[i].kind = "goldenGz" /\ ~fixtureOk -> "error"
                               [] Rows[i].cmd \in failing -> "fail"
                               [] OTHER -> "pass"
=============================================================================
