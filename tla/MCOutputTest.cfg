\* TestOutput: verdicts and temp-file cleanup under build and fixture failure.
CONSTANTS
    Tests <- MCTests
    Kind <- MCKind
    Reference <- MCReference
    ToolOutputs <- MCToolOutputs
    ToolExits <- MCToolExits

SPECIFICATION Spec

INVARIANT TypeOK
INVARIANT VerdictsIndependent
INVARIANT LeaksOnlyFixtureErrors

\* The suite ends after its last test method.
CHECK_DEADLOCK FALSE
