\* update.py then TestOutput, with or without a changed power model, an
\* unreadable fixture or a failing drampower run.
SPECIFICATION Spec
INVARIANT TypeOK
INVARIANT RegeneratedVerify

\* Verification is the last step.
CHECK_DEADLOCK FALSE
