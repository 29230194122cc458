--------------------------- MODULE MCOutputMatrix ---------------------------
(***************************************************************************)
(* TestOutput with every one of its 45 methods, as ScenarioMatrix lists   *)
(* them.  drampower prints, for a command, a report of that command; a     *)
(* change to the power model of some memspecs changes the report of every *)
(* command on those memspecs.  Each reference file holds the report of    *)
(* the command it was generated with, before any change.                  *)
(***************************************************************************)
EXTENDS OutputTest, ScenarioMatrix

Rows == TestOutputRows

Memspecs == {Rows[i].cmd.mem : i \in DOMAIN Rows} \ {""}

Banner(v) == [first |-> Marker, data |-> v, len |-> 2, nl |-> TRUE]
Blank == [first |-> "other", data |-> "", len |-> 0, nl |-> TRUE]

\* What drampower prints for cmd when the models of the memspecs in
\* changed differ from those the references were generated with.
Report(cmd, changed) ==
    LET d == <<cmd, cmd.mem \in changed>>
    IN << Banner(changed = {}), Blank,
          [first |-> "other", data |-> d, len |-> 2, nl |-> TRUE],
          [first |-> TotalPrefix, data |-> d, len |-> 2, nl |-> TRUE],
          [first |-> AveragePrefix, data |-> d, len |-> 2, nl |-> TRUE] >>

MCTests == [i \in DOMAIN Rows |-> Rows[i].name]
MCKind == [i \in DOMAIN Rows |-> Rows[i].kind]
MCReference == [i \in DOMAIN Rows |->
                  IF Rows[i].ref = <<>> THEN <<>> ELSE Report(GeneratedBy(Rows[i].ref), {})]

\* No change, or a change to the model of one memspec.
MCToolOutputs ==
    { [i \in Golden |-> Report(Rows[i].cmd, changed)] :
        changed \in {{}} \cup {{m} : m \in Memspecs} }

\* The exit code of drampower without arguments and with a broken trace.
MCToolExits ==
    { [i \in TestIdx |-> IF Kind[i] = "noArgs" THEN noArgs ELSE other] :
        noArgs \in {0, 1}, other \in {0, 1} }

\* Every scenario of the spec's matrix is run by exactly one test method,
\* and, once that method has run on a successful build with its fixture
\* available, it passed exactly when drampower still prints for the
\* scenario what it printed when the references were generated: the
\* method compares the right command with the right reference file.
MatrixTraceable ==
    /\ \A s \in SpecGolden : Cardinality({i \in TestIdx : Rows[i].cmd = s}) = 1
    /\ \A i \in 1..cur-1 :
         (Rows[i].cmd \in SpecGolden /\ buildOk /\ (Kind[i] = "goldenGz" => fixtureOk))
            => result[i] = IF SignalLines(toolOut[i]) = SignalLines(Report(Rows[i].cmd, {}))
                           THEN "pass" ELSE "fail"
=============================================================================
