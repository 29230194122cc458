\* The coverage files after test_libdrampower_output_matches_reference.
CONSTANTS
    LibReference <- MCLibReference
    LibOutputs <- MCLibOutputs
    DrampowerWindow <- MCDrampowerWindow
    WindowOutputs <- MCWindowOutputs

SPECIFICATION Spec


INVARIANT CoverageRelocated

\* The test case ends after its last method.
CHECK_DEADLOCK FALSE
