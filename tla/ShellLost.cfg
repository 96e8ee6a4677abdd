SPECIFICATION Spec
CONSTANTS
    MaxPid = 3
    Pipelines = {1, 2}
    Builtins = {"bg", "fg", "exit"}
INVARIANT ChildrenListed
