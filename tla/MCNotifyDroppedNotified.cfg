CONSTANTS
    MaxTasks <- MCMaxTasks
    MaxInstr <- MCMaxInstr
    Handles <- MCHandles
    Programs <- DroppedNotifiedTest
SPECIFICATION NSpec
CHECK_DEADLOCK FALSE
INVARIANT NotificationsConserved
