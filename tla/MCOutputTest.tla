---------------------------- MODULE MCOutputTest ----------------------------
(***************************************************************************)
(* TestOutput with five of its methods, one of every kind, in the order    *)
(* unittest sorts them: both LPDDR2 tests share the gzip fixture.           *)
(***************************************************************************)
EXTENDS OutputTest

MCTests == <<"test_LPDDR2_1066_matches_reference",
             "test_LPDDR2_1066_termination_matches_reference",
             "test_broken_trace",
             "test_commands_trace_output_matches_reference",
             "test_no_arguments_error">>

MCKind == <<"goldenGz", "goldenGz", "broken", "golden", "noArgs">>

\* The banner names the drampower version; the report lines the energies.
Banner(v) == [first |-> Marker, data |-> v, len |-> 2, nl |-> TRUE]
Blank == [first |-> "other", data |-> "", len |-> 0, nl |-> TRUE]
Report == [first |-> "other", data |-> "cmd", len |-> 2, nl |-> TRUE]
Total == [first |-> TotalPrefix, data |-> "E", len |-> 2, nl |-> TRUE]
Average == [first |-> AveragePrefix, data |-> "P", len |-> 2, nl |-> TRUE]

Golden1 == <<Banner("v1"), Blank, Report, Total, Average>>

MCReference == [i \in 1..5 |-> Golden1]

\* The same report, then the same report under another banner with its
\* blank lines laid out differently, a report missing a line and a report
\* in another order.
MCOutputs == { Golden1,
               <<Banner("v2"), Report, Blank, Blank, Total, Average>>,
               <<Banner("v1"), Report, Total>>,
               <<Banner("v1"), Total, Report, Average>> }

MCToolOutputs == [Golden -> MCOutputs]

MCToolExits == [TestIdx -> {0, 1}]
=============================================================================
