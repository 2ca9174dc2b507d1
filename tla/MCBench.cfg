SPECIFICATION BenchSpec
INVARIANTS OkMeansProgrammed OkMeansRunning FailureIsFresh
PROPERTIES TesterKeepsProgram
