----------------------------- MODULE MCLibTest -----------------------------
(***************************************************************************)
(* TestLibDRAMPower with small report alphabets: a reference, the same     *)
(* signal lines under another banner, and a report with another energy.   *)
(***************************************************************************)
EXTENDS LibTest

Banner(v) == [first |-> Marker, data |-> v, len |-> 2, nl |-> TRUE]
Blank == [first |-> "other", data |-> "", len |-> 0, nl |-> TRUE]
Cmd(d) == [first |-> "other", data |-> d, len |-> 2, nl |-> TRUE]
Total(e) == [first |-> TotalPrefix, data |-> e, len |-> 2, nl |-> TRUE]
Average(p) == [first |-> AveragePrefix, data |-> p, len |-> 2, nl |-> TRUE]

MCLibReference == <<Banner("v1"), Cmd("act"), Blank, Total(1), Average(1)>>
MCLibOutputs == { MCLibReference,
                  <<Banner("v2"), Blank, Cmd("act"), Total(1), Average(1)>>,
                  <<Banner("v1"), Cmd("act"), Total(2), Average(1)>> }

\* drampower prints its per-command report; window_example prints the
\* per-window report of the library and the same totals, or other totals.
MCDrampowerWindow == <<Banner("v1"), Cmd("act"), Cmd("pre"), Total(1), Average(1)>>
MCWindowOutputs == { <<Cmd("window 1"), Total(1), Average(1)>>,
                     <<Cmd("window 1"), Total(1), Average(2)>>,
                     <<Cmd("window 1"), Cmd("window 2")>> }
=============================================================================
