\* TestLibDRAMPower with coverage on and off, every make and program outcome.
CONSTANTS
    LibReference <- MCLibReference
    LibOutputs <- MCLibOutputs
    DrampowerWindow <- MCDrampowerWindow
    WindowOutputs <- MCWindowOutputs

SPECIFICATION Spec

INVARIANT TypeOK
INVARIANT LibVerdicts

\* The test case ends after its last method.
CHECK_DEADLOCK FALSE
