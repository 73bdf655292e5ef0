SPECIFICATION FairSpec
CONSTANTS
    e1 = e1
    e2 = e2
    e3 = e3
    e4 = e4
    p1 = p1
    p2 = p2
    Null = Null
    Envs = {e1, e2, e3, e4}
    Process <- TwoProjects
    UserConfig <- UserConfigs
    WorkerMayCrash = TRUE
INVARIANTS OwnWorkerAnswers MixedOnlyBySharedPort HardforkOfUser
PROPERTY EmulationStarts
CHECK_DEADLOCK FALSE
