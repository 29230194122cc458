------------------------------ MODULE Normalize ------------------------------
(***************************************************************************)
(* The output filters of test/test.py.  getFilteredOutput is applied to    *)
(* both the captured stdout and the reference file before a golden         *)
(* comparison; getResults keeps only the two summary lines and is used by  *)
(* the window example to compare drampower with libdrampower.              *)
(*                                                                         *)
(* A line is an element of what file.readlines() returns: its text and a   *)
(* trailing newline, which every line but possibly the last one has.  The  *)
(* text is abstracted to the prefix class it starts with, the data it      *)
(* reports (any value: equal data, equal text) and its length, capped at  *)
(* 2 ("2" stands for two or more characters).                             *)
(***************************************************************************)
EXTENDS Naturals, Sequences

Marker == "*"
TotalPrefix == "Total Trace Energy"
AveragePrefix == "Average Power"
Prefixes == {Marker, TotalPrefix, AveragePrefix, "other"}

\* An empty text starts with nothing; a summary prefix is longer than 2.
IsLine(l) ==
    /\ DOMAIN l = {"first", "data", "len", "nl"}
    /\ l.first \in Prefixes /\ l.len \in 0..2 /\ l.nl \in BOOLEAN
    /\ l.len = 0 => l.first = "other"
    /\ l.first \in {TotalPrefix, AveragePrefix} => l.len = 2

\* A result of readlines(): only the last line may lack its newline and
\* readlines never yields an empty string.
IsReadLines(s) ==
    \A i \in 1..Len(s) :
        /\ IsLine(s[i])
        /\ i < Len(s) => s[i].nl
        /\ s[i].len > 0 \/ s[i].nl

\* Python len(x) of a line returned by readlines().
PyLen(l) == l.len + (IF l.nl THEN 1 ELSE 0)

StartsWith(l, p) == l.len > 0 /\ l.first = p

\* Mutant: the len(x) > 1 condition dropped, so blank lines are compared.
IsSignalNoLength(l) == ~StartsWith(l, Marker)

IsSignal(l) == ~StartsWith(l, Marker) /\ PyLen(l) > 1

getFilteredOutput(lines) == SelectSeq(lines, IsSignal)

IsResult(l) == StartsWith(l, TotalPrefix) \/ StartsWith(l, AveragePrefix)

getResults(lines) == SelectSeq(lines, IsResult)

-----------------------------------------------------------------------------
(* Reference definitions, from the spec's wording rather than the code.    *)

\* Spec (Output Normalizer): drop a line whose first character is the
\* comment marker and a line of length <= 1 (a blank line, allowing for
\* its trailing newline); keep the rest, in order.
SpecSignal(l) == ~StartsWith(l, Marker) /\ PyLen(l) > 1

SignalLines(lines) == SelectSeq(lines, SpecSignal)

\* Spec, Reference Comparator: the summary lines are those beginning with
\* "Total Trace Energy" or "Average Power".
SpecSummary(l) == l.len > 0 /\ l.first \in {TotalPrefix, AveragePrefix}

SummaryLines(lines) == SelectSeq(lines, SpecSummary)
=============================================================================
