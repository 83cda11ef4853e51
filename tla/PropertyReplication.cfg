SPECIFICATION Spec
CONSTANTS
    Prop <- MCProp
    Condition <- MCCondition
    PushModelProperty <- MCProp
    MAX_CHANGE_HISTORY = 2
    MAX_SENT_HISTORY = 2
    Sizes = {"whole", "partial", "large"}
    MaxChanges = 2
    MaxOwnerChanges = 1
    MaxLosses = 1
INVARIANTS
    HistoryAgrees
    NothingForgotten
    DormantIsUpToDate
    SkippedIsEmpty
PROPERTIES
    NeverGoesBack
    OpenBunchIsComplete
    Converges
