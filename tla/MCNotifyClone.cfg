CONSTANTS
    MaxTasks <- MCMaxTasks
    MaxInstr <- MCMaxInstr
    Handles <- MCHandles
    Programs <- ClonedNotifyTest
SPECIFICATION NSpec
CHECK_DEADLOCK FALSE
INVARIANT LatchExcludesWaiters
