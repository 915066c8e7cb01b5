SPECIFICATION Spec
CONSTANTS
    Programs <- MCPrograms
    Block = 14
    MaxSets = 2
    MaxSaves = 2
    MaxLoads = 1
    MaxCrashes = 1
INVARIANTS TypeOK OverlappingSavesAgree Restored CrashTearsOneLine
\* The program rests when its sets, saves, loads and crashes have been used up.
CHECK_DEADLOCK FALSE
