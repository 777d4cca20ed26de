CONSTANTS
    Task <- MCTask
    PriorityCount = 4
    Quota = 3
    PriorityOf <- MCPriorityOf
SPECIFICATION LiveSpec
INVARIANTS
    PromotionNeverLate
    BoundedBypass
PROPERTIES
    NoStarvation
