CONSTANTS
    MaxTasks <- MCMaxTasks
    MaxInstr <- MCMaxInstr
    Handles <- MCHandles
    Programs <- MultipleWaitersTest
SPECIFICATION NSpec
CHECK_DEADLOCK FALSE
INVARIANT NotificationsConserved
