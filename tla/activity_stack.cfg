SPECIFICATION StackSpec
CONSTANT MaxActivity = 6
INVARIANTS StackAliveOnce PolicyOfVisible NoLeak
PROPERTY FreedOnlyExited
