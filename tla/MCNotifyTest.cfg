CONSTANTS
    MaxTasks <- MCMaxTasks
    MaxInstr <- MCMaxInstr
    Handles <- MCHandles
    Programs <- CheckedPrograms
SPECIFICATION NSpec
INVARIANT NTypeOK
INVARIANT LatchExcludesWaiters
INVARIANT NotificationsConserved
INVARIANT WaitersAreLive
INVARIANT VerifyFindsNoFailure
PROPERTY NotifyImplementsAbstract
CHECK_DEADLOCK FALSE
