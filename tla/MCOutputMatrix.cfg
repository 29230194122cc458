\* TestOutput with all of its methods: each spec scenario checked against its own reference.
CONSTANTS
    Tests <- MCTests
    Kind <- MCKind
    Reference <- MCReference
    ToolOutputs <- MCToolOutputs
    ToolExits <- MCToolExits

SPECIFICATION Spec

INVARIANT MatrixTraceable

\* The suite ends after its last test method.
CHECK_DEADLOCK FALSE
