SPECIFICATION FairSpec
CONSTANTS
    MaxPid = 3
    Pipelines = {1, 2, 3}
    Builtins = {"jobs", "bg", "exit"}
INVARIANT ChildrenListed
INVARIANT JobsEnd
PROPERTY PromptReturns
