--------------------------- MODULE HostValidation ---------------------------
(***************************************************************************)
(* zsim-ramulator/validation/validate_hostTraces.py as a state machine:    *)
(* the argument check, zsimIPC over the last stats dump of the HDF5 file   *)
(* and traceIPC over the trace, in that order, each print a record of the  *)
(* numbers it shows, and an uncaught exception ending the script.          *)
(*                                                                         *)
(* The two input files are fixed in Init: whether h5py can open the stats  *)
(* file and find stats/root in it, whether that dataset has no dump at     *)
(* all, its final entry (a record of per-core counters and the three L3    *)
(* miss counters summed over the banks), and whether the trace can be      *)
(* opened and its lines.  A ratio is printed as its numerator and          *)
(* denominator; float() and the formatting are left out.                  *)
(***************************************************************************)
EXTENDS Naturals, Sequences, SequencesExt, FiniteSetsExt, TraceStats

CONSTANTS
    Traces,         \* the trace files: sequences of lines
    Dumps           \* the final stats dumps the HDF5 file may hold

VARIABLES
    argcOk,         \* len(sys.argv) == 3
    h5,             \* "ok", or what h5py.File(..)["stats"]["root"] raises
    traceOk,        \* open(sys.argv[2], "r") succeeds
    trace,          \* the lines of sys.argv[2]
    empty,          \* dset.size == 0: the simulation dumped no stats
    final,          \* dset[findex] when it is not empty
    pc,             \* the statement the script is at
    c,              \* zsimIPC's loop index (1-based)
    cycles, instructions,   \* zsimIPC's lists
    ln,             \* traceIPC's next line
    acc,            \* traceIPC's [instrs |-> totalInstructions, misses |-> misses]
    out,            \* the records printed so far
    raised          \* the exception that ended the script, or "none"

vars == <<argcOk, h5, traceOk, trace, empty, final, pc, c, cycles, instructions, ln, acc, out, raised>>

NumCores == Len(final.core)
SumOf(s) == FoldSeq(LAMBDA x, y : x + y, 0, s)

\* The section headers main prints before each function.
ZsimHeader == [kind |-> "zsimHeader"]
TraceHeader == [kind |-> "traceHeader"]

TypeOK ==
    /\ argcOk \in BOOLEAN /\ h5 \in {"ok", "IOError", "KeyError"} /\ traceOk \in BOOLEAN
    /\ trace \in Traces /\ empty \in BOOLEAN /\ final \in Dumps
    /\ pc \in {"argv", "zsimIPC", "zsimCore", "zsimMPKI",
               "traceOpen", "traceLine", "halted"}
    /\ c \in Nat /\ ln \in Nat
    /\ cycles \in Seq(Nat) /\ instructions \in Seq(Nat)
    /\ Len(cycles) = Len(instructions)
    /\ acc \in [instrs : Nat, misses : Nat]
    /\ raised \in {"none", "IOError", "KeyError", "IndexError", "ZeroDivisionError"}

Init ==
    /\ argcOk \in BOOLEAN /\ h5 \in {"ok", "IOError", "KeyError"} /\ traceOk \in BOOLEAN
    /\ trace \in Traces /\ empty \in BOOLEAN /\ final \in Dumps
    /\ pc = "argv" /\ c = 0 /\ cycles = <<>> /\ instructions = <<>>
    /\ ln = 0 /\ acc = Zero /\ out = <<>> /\ raised = "none"

Raise(e) == pc' = "halted" /\ raised' = e

-----------------------------------------------------------------------------
\* if len(sys.argv) != 3: print usage; sys.exit(); then the ZSIM header.
Argv ==
    /\ pc = "argv"
    /\ IF argcOk THEN pc' = "zsimIPC" /\ out' = Append(out, ZsimHeader)
       ELSE pc' = "halted" /\ out' = Append(out, [kind |-> "usage"])
    /\ UNCHANGED <<argcOk, h5, traceOk, trace, empty, final, c, cycles, instructions, ln, acc, raised>>

\* Mutant: instructions = [0] * (num_cores - 1).
zsimIPC_short_list ==
    /\ pc = "zsimIPC"
    /\ \/ /\ h5 # "ok"
          /\ Raise(h5)
          /\ UNCHANGED <<out, c, cycles, instructions>>
       \/ /\ h5 = "ok" /\ empty
          /\ Raise("IndexError")
          /\ UNCHANGED <<out, c, cycles, instructions>>
       \/ /\ h5 = "ok" /\ ~empty
          /\ out' = Append(out, [kind |-> "cores", n |-> NumCores])
          /\ cycles' = [i \in 1..NumCores |-> 0]
          /\ instructions' = [i \in 1..NumCores - 1 |-> 0]
          /\ c' = 1 /\ pc' = "zsimCore"
          /\ UNCHANGED raised
    /\ UNCHANGED <<argcOk, h5, traceOk, trace, empty, final, ln, acc>>

\* zsimIPC up to its loop: h5py.File raises IOError for a file it cannot
\* open, ["stats"]["root"] KeyError for one without zsim stats; findex = dset.size - 1 indexes nothing in an
\* empty dataset; otherwise print the core count and zero both lists.
zsimIPC ==
    /\ pc = "zsimIPC"
    /\ \/ /\ h5 # "ok"
          /\ Raise(h5)
          /\ UNCHANGED <<out, c, cycles, instructions>>
       \/ /\ h5 = "ok" /\ empty
          /\ Raise("IndexError")
          /\ UNCHANGED <<out, c, cycles, instructions>>
       \/ /\ h5 = "ok" /\ ~empty
          /\ out' = Append(out, [kind |-> "cores", n |-> NumCores])
          /\ cycles' = [i \in 1..NumCores |-> 0]
          /\ instructions' = [i \in 1..NumCores |-> 0]
          /\ c' = 1 /\ pc' = "zsimCore"
          /\ UNCHANGED raised
    /\ UNCHANGED <<argcOk, h5, traceOk, trace, empty, final, ln, acc>>

\* One iteration: read the core's counters; print its IPC unless its
\* cycles are 0.
zsimCore ==
    /\ pc = "zsimCore" /\ c <= NumCores
    /\ LET core == final.core[c] IN
       /\ cycles' = [cycles EXCEPT ![c] = core.cycles]
       /\ instructions' = [instructions EXCEPT ![c] = core.instrs]
       /\ out' = IF core.cycles # 0
                 THEN Append(out, [kind |-> "core", core |-> c,
                                   cycles |-> core.cycles, instrs |-> core.instrs])
                 ELSE out
    /\ c' = c + 1
    /\ UNCHANGED <<argcOk, h5, traceOk, trace, empty, final, pc, ln, acc, raised>>

\* After the loop: the overall IPC divides by the sum of the cycles.
zsimOverall ==
    /\ pc = "zsimCore" /\ c > NumCores
    /\ IF SumOf(cycles) = 0
       THEN Raise("ZeroDivisionError") /\ UNCHANGED out
       ELSE /\ out' = Append(out, [kind |-> "overall", cycles |-> SumOf(cycles),
                                   instrs |-> SumOf(instructions)])
            /\ pc' = "zsimMPKI" /\ UNCHANGED raised
    /\ UNCHANGED <<argcOk, h5, traceOk, trace, empty, final, c, cycles, instructions, ln, acc>>

\* The L3 misses of the three counters per kilo-instruction; zsimIPC
\* returns.
zsimMPKI ==
    /\ pc = "zsimMPKI"
    /\ LET misses == final.l3["mGETS"] + final.l3["mGETXIM"] + final.l3["mGETXSM"]
       IN IF SumOf(instructions) = 0
          THEN Raise("ZeroDivisionError") /\ UNCHANGED out
          ELSE /\ out' = Append(out, [kind |-> "zsimMPKI", misses |-> misses,
                                      instrs |-> SumOf(instructions)])
               /\ pc' = "traceOpen"
               /\ UNCHANGED raised
    /\ UNCHANGED <<argcOk, h5, traceOk, trace, empty, final, c, cycles, instructions, ln, acc>>

\* main prints the TRACE header and calls traceIPC, which opens the trace
\* (IOError when it cannot) and zeroes its counters.
traceIPC_open ==
    /\ pc = "traceOpen"
    /\ out' = Append(out, TraceHeader)
    /\ IF traceOk THEN pc' = "traceLine" /\ ln' = 1 /\ acc' = Zero /\ UNCHANGED raised
       ELSE Raise("IOError") /\ UNCHANGED <<ln, acc>>
    /\ UNCHANGED <<argcOk, h5, traceOk, trace, empty, final, c, cycles, instructions>>

\* One iteration of `for line in inputFile`.
traceLine ==
    /\ pc = "traceLine" /\ ln <= Len(trace)
    /\ acc' = Tally(acc, trace[ln])
    /\ ln' = ln + 1
    /\ UNCHANGED <<argcOk, h5, traceOk, trace, empty, final, pc, c, cycles, instructions, out, raised>>

\* Mutant: the last print guarded by `if totalInstructions:`.
traceReport_guarded ==
    /\ pc = "traceLine" /\ ln > Len(trace)
    /\ out' = IF acc.instrs = 0 THEN out
              ELSE Append(out, [kind |-> "trace", instrs |-> acc.instrs, misses |-> acc.misses])
    /\ pc' = "halted"
    /\ UNCHANGED <<argcOk, h5, traceOk, trace, empty, final, c, cycles, instructions, ln, acc, raised>>

\* The last print: misses * 1000 / totalInstructions.
traceReport ==
    /\ pc = "traceLine" /\ ln > Len(trace)
    /\ IF acc.instrs = 0
       THEN Raise("ZeroDivisionError") /\ UNCHANGED out
       ELSE /\ out' = Append(out, [kind |-> "trace", instrs |-> acc.instrs,
                                   misses |-> acc.misses])
            /\ pc' = "halted" /\ UNCHANGED raised
    /\ UNCHANGED <<argcOk, h5, traceOk, trace, empty, final, c, cycles, instructions, ln, acc>>

Next ==
    \/ Argv \/ zsimIPC \/ zsimCore \/ zsimOverall \/ zsimMPKI
    \/ traceIPC_open \/ traceLine \/ traceReport

\* The script is one sequential process that always takes its next
\* statement: weak fairness.
Spec == Init /\ [][Next]_vars /\ WF_vars(Next)

-----------------------------------------------------------------------------
(* The report the script is meant to print for its inputs, from reference *)
(* definitions: the usage line, or the ZSIM header, the core count, the   *)
(* IPC of every core with cycles, the overall IPC, the L3 MPKI, the TRACE  *)
(* header and the trace totals; an input file that cannot be read ends    *)
(* the report after the header of its section.                            *)

\* The reference totals of every trace file (a constant, computed once).
RefTraceTotals == [t \in Traces |-> RefTotals(t)]

ExpectedReport ==
    IF ~argcOk THEN <<[kind |-> "usage"]>>
    ELSE IF h5 # "ok" \/ empty THEN <<ZsimHeader>>
    ELSE LET n == Len(final.core)
             Cycles(i) == final.core[i].cycles
             Instrs(i) == final.core[i].instrs
             perCore == [i \in 1..n |-> [kind |-> "core", core |-> i,
                                        cycles |-> Cycles(i), instrs |-> Instrs(i)]]
             totI == MapThenSumSet(Instrs, 1..n)
             t == RefTraceTotals[trace]
         IN  <<ZsimHeader, [kind |-> "cores", n |-> n]>>
             \o SelectSeq(perCore, LAMBDA r : r.cycles # 0)
             \o <<[kind |-> "overall", cycles |-> MapThenSumSet(Cycles, 1..n), instrs |-> totI],
                  [kind |-> "zsimMPKI", instrs |-> totI,
                   misses |-> MapThenSumSet(LAMBDA k : final.l3[k],
                                            {"mGETS", "mGETXIM", "mGETXSM"})],
                  TraceHeader>>
             \o (IF traceOk THEN <<[kind |-> "trace", instrs |-> t.instrs, misses |-> t.misses]>>
                 ELSE <<>>)

Report == INSTANCE PrintedReport WITH printed <- out, report <- ExpectedReport

\* The script prints its report in order, one record at a time, each record
\* the one the inputs call for: the zsimIPC loop prints the cores with
\* cycles in core order, the sums add every core and every L3 counter, and
\* traceIPC's totals are those of the records the pattern finds.  A crash
\* may cut the report short; it never prints a wrong line.
ReportRefined == Report!Spec

\* The script ends, and when it ends without an exception it has printed
\* the whole report its inputs call for: no section is skipped silently.
ReportCompletes == <>(pc = "halted" /\ (raised = "none" => out = ExpectedReport))
=============================================================================
