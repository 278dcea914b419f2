SPECIFICATION SharedSpec
CONSTANTS
    s1 = s1
    SessionIds = {s1}
    NumRuns = 3
    NumTasks = 2
INVARIANTS OwnBrowserLives
PROPERTIES KeepsBrowser
CHECK_DEADLOCK FALSE
