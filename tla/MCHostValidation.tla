-------------------------- MODULE MCHostValidation --------------------------
(***************************************************************************)
(* validate_hostTraces.py on small inputs.  Trace lines, as characters:    *)
(*   LineR  "0 1 12 R 7f\n"   a record of 12 instructions, type R          *)
(*   LineP  "1 0 0 P 4\n"     a record of 0 instructions, type P           *)
(*   LineH  "# zsim\n"        no record                                    *)
(*   LineM  "10 2 5 W 9\n"    the pattern matches after the first digit   *)
(*   LineE  "0 0 3 R"         a last line without newline: no record       *)
(* Stats dumps: one or two cores with 0 or 4 cycles and 0 or 3             *)
(* instructions, each L3 counter 0 or 1.                                   *)
(***************************************************************************)
EXTENDS HostValidation

LineR == <<"0", " ", "1", " ", "1", "2", " ", "R", " ", "7", "f", "\n">>
LineP == <<"1", " ", "0", " ", "0", " ", "P", " ", "4", "\n">>
LineH == <<"#", " ", "z", "s", "i", "m", "\n">>
LineM == <<"1", "0", " ", "2", " ", "5", " ", "W", " ", "9", "\n">>
LineE == <<"0", " ", "0", " ", "3", " ", "R">>

Terminated == {LineR, LineP, LineH, LineM}

MCTraces ==
    {<<>>, <<LineE>>} \cup {<<a>> : a \in Terminated}
    \cup {<<a, b>> : a \in Terminated, b \in Terminated \cup {LineE}}

CoreStats == [cycles : {0, 4}, instrs : {0, 3}]

MCDumps ==
    [core : {<<x>> : x \in CoreStats} \cup {<<x, y>> : x, y \in CoreStats},
     l3 : [{"mGETS", "mGETXIM", "mGETXSM"} -> {0, 1}]]
=============================================================================
