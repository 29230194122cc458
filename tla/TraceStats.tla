----------------------------- MODULE TraceStats -----------------------------
(***************************************************************************)
(* The per-line arithmetic of traceIPC in                                  *)
(* zsim-ramulator/validation/validate_hostTraces.py.  A line is the        *)
(* sequence of its characters, each a one-character string, as `for line   *)
(* in inputFile` yields it (with its "\n", except perhaps the last).       *)
(*                                                                         *)
(* The code: re.search(r'\d\s\d\s\d+\s\w\s', line); on a match, field 2    *)
(* of match.group().split() is the instruction count and field 3 the      *)
(* type; totalInstructions += instr, plus 1 when type != "P"; misses += 1. *)
(* Scan and Tally translate that code; RefRecord and RefTotals define the  *)
(* same numbers declaratively, as regular-expression semantics and sums.   *)
(***************************************************************************)
EXTENDS Naturals, Sequences, SequencesExt, FiniteSetsExt

DigitChars == <<"0", "1", "2", "3", "4", "5", "6", "7", "8", "9">>
Digits == Range(DigitChars)
\* \s of a str pattern in Python 2: [ \t\n\r\f\v]; the lines hold no \f, \v.
Spaces == {" ", "\t", "\n", "\r"}
Letters == {"a", "b", "c", "d", "e", "f", "g", "h", "i", "j", "k", "l", "m",
            "n", "o", "p", "q", "r", "s", "t", "u", "v", "w", "x", "y", "z",
            "A", "B", "C", "D", "E", "F", "G", "H", "I", "J", "K", "L", "M",
            "N", "O", "P", "Q", "R", "S", "T", "U", "V", "W", "X", "Y", "Z"}
\* \w of a str pattern without re.UNICODE: [a-zA-Z0-9_].
Word == Digits \cup Letters \cup {"_"}

DigitValue(d) == CHOOSE n \in 0..9 : DigitChars[n + 1] = d

NoRecord == [instr |-> 0, type |-> "none"]

-----------------------------------------------------------------------------
(* The code                                                                *)

\* int(s) of a run of decimal digits.
IntOf(ds) == FoldLeft(LAMBDA acc, d : 10 * acc + DigitValue(d), 0, ds)

\* The end of the run of digits from position j (greedy \d+).
RECURSIVE DigitRunEnd(_, _)
DigitRunEnd(l, j) ==
    IF j <= Len(l) /\ l[j] \in Digits THEN DigitRunEnd(l, j + 1) ELSE j

\* The pattern matches at i.  A shorter \d+ leaves a digit where \s must
\* follow, so backtracking never helps: only the greedy run can match.
MatchAt(l, i) ==
    LET j == DigitRunEnd(l, i + 4) IN
    /\ i + 4 <= Len(l)
    /\ l[i] \in Digits /\ l[i + 1] \in Spaces
    /\ l[i + 2] \in Digits /\ l[i + 3] \in Spaces /\ l[i + 4] \in Digits
    /\ j + 2 <= Len(l)
    /\ l[j] \in Spaces /\ l[j + 1] \in Word /\ l[j + 2] \in Spaces

\* re.search: the leftmost position the pattern matches at, 0 for None.
RECURSIVE Search(_, _)
Search(l, i) ==
    IF i + 7 > Len(l) THEN 0
    ELSE IF MatchAt(l, i) THEN i ELSE Search(l, i + 1)

\* match.group().split(): the tokens are l[i], l[i+2], the digit run and
\* the \w character, so [2] is the run and [3] the type.
Scan(l) ==
    LET i == Search(l, 1)
        j == DigitRunEnd(l, i + 4)
    IN IF i = 0 THEN NoRecord
       ELSE [instr |-> IntOf(SubSeq(l, i + 4, j - 1)), type |-> l[j + 1]]

\* Mutant: misses counted only for lines that are not of type "P".
TallyMissesInIf(acc, l) ==
    LET r == Scan(l) IN
    IF r = NoRecord THEN acc
    ELSE [instrs |-> acc.instrs + r.instr + (IF r.type # "P" THEN 1 ELSE 0),
          misses |-> acc.misses + (IF r.type # "P" THEN 1 ELSE 0)]

\* The loop body.  int() of ASCII digits and the 4-token split cannot
\* raise, so the except branch is never taken.
Tally(acc, l) ==
    LET r == Scan(l) IN
    IF r = NoRecord THEN acc
    ELSE [instrs |-> acc.instrs + r.instr + (IF r.type # "P" THEN 1 ELSE 0),
          misses |-> acc.misses + 1]

Zero == [instrs |-> 0, misses |-> 0]

-----------------------------------------------------------------------------
(* Reference definitions                                                   *)

\* The pattern matches line l at i with a digit run of length k.
PatternAt(l, i, k) ==
    /\ i + k + 6 <= Len(l)
    /\ l[i] \in Digits /\ l[i + 1] \in Spaces
    /\ l[i + 2] \in Digits /\ l[i + 3] \in Spaces
    /\ \A p \in i + 4 .. i + 3 + k : l[p] \in Digits
    /\ l[i + 4 + k] \in Spaces /\ l[i + 5 + k] \in Word /\ l[i + 6 + k] \in Spaces

\* The value of a digit string as a sum of digit * 10^place.
RefInt(ds) == MapThenSumSet(LAMBDA p : DigitValue(ds[p]) * 10^(Len(ds) - p), DOMAIN ds)

\* Leftmost match; at that position the longest run (greedy with
\* backtracking).
RefRecord(l) ==
    LET M == {m \in (1..Len(l)) \X (1..Len(l)) : PatternAt(l, m[1], m[2])}
    IN IF M = {} THEN NoRecord
       ELSE LET i == Min({m[1] : m \in M})
                k == Max({m[2] : m \in {x \in M : x[1] = i}})
            IN [instr |-> RefInt(SubSeq(l, i + 4, i + 3 + k)), type |-> l[i + 5 + k]]

\* Instructions: the count of every record plus one per non-"P" record;
\* misses: the number of records.
RefTotals(lines) ==
    LET rec == [p \in DOMAIN lines |-> RefRecord(lines[p])]
        recs == {p \in DOMAIN lines : rec[p] # NoRecord}
    IN [instrs |-> MapThenSumSet(LAMBDA p : rec[p].instr
                                  + (IF rec[p].type = "P" THEN 0 ELSE 1), recs),
        misses |-> Cardinality(recs)]
=============================================================================
