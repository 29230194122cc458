--------------------------- MODULE PrintedReport ---------------------------
(***************************************************************************)
(* What a report-printing script promises: it prints the lines of its     *)
(* report in order, one at a time, and may stop at any point.             *)
(***************************************************************************)
EXTENDS Naturals, Sequences

VARIABLES
    printed,    \* the lines printed so far
    report      \* the complete report for the inputs

vars == <<printed, report>>

Init == printed = <<>>

PrintNext ==
    /\ Len(printed) < Len(report)
    /\ printed' = Append(printed, report[Len(printed) + 1])
    /\ UNCHANGED report

Spec == Init /\ [][PrintNext]_vars
=============================================================================
