SPECIFICATION MCSpec
CONSTANTS
  Lists <- MCLists
  MaxThreads = 2
  MaxInputs = 3
INVARIANTS LoadingMeansFetching WindowFollowsMascot
PROPERTIES ClickArrives NothingUnasked
