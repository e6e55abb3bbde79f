CONSTANTS
    MaxTasks <- MCMaxTasks
    MaxOps <- MCMaxOps
    MaxInstr <- MCMaxInstr
SPECIFICATION GSpec
INVARIANT TypeOK
INVARIANT RunningIsCurrent
INVARIANT FailuresAreGenuine
PROPERTY CurrentTaskAbsorbing
PROPERTY ImplementsAbstract
PROPERTY Termination
CHECK_DEADLOCK FALSE
