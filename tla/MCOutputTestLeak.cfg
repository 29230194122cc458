\* Spec: temp files released on failure paths too
CONSTANTS
    Tests <- MCTests
    Kind <- MCKind
    Reference <- MCReference
    ToolOutputs <- MCToolOutputs
    ToolExits <- MCToolExits

SPECIFICATION Spec

INVARIANT TempFilesReleased

\* The suite ends after its last test method.
CHECK_DEADLOCK FALSE
