\* validate_hostTraces.py over every argument count, stats dump and trace
\* of MCHostValidation.
CONSTANTS
    Traces <- MCTraces
    Dumps <- MCDumps

SPECIFICATION Spec

INVARIANT TypeOK
PROPERTY ReportRefined
PROPERTY ReportCompletes

\* The script ends after its last print or an exception.
CHECK_DEADLOCK FALSE
