SPECIFICATION CanarySpec
CONSTANT Blank = Blank
PROPERTY RecoveryCompletes
CHECK_DEADLOCK FALSE
