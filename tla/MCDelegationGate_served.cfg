SPECIFICATION Spec
CONSTANTS
    r1 = r1
    f1 = f1
    f2 = f2
    Members <- MCMembers
    Tasks <- MCTasks
    MaxCalls = 3
    RepeatLimit = 2
    VolumeLimit = 2
    MaxRedirects = 1
    ForwardRequired = TRUE
INVARIANT ServedIsTheAnswer
CHECK_DEADLOCK FALSE
