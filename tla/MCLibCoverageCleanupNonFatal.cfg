\* The unguarded unlink of lib_test.gcno in coverage mode.
CONSTANTS
    LibReference <- MCLibReference
    LibOutputs <- MCLibOutputs
    DrampowerWindow <- MCDrampowerWindow
    WindowOutputs <- MCWindowOutputs

SPECIFICATION Spec


INVARIANT CoverageCleanupNonFatal

\* The test case ends after its last method.
CHECK_DEADLOCK FALSE
