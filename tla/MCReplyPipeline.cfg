CONSTANTS
    Tenants <- MCTenants
    Messages <- MCMessages
    Replies <- MCReplies
    MaxTurns = 2
SPECIFICATION PipelineSpec
CHECK_DEADLOCK FALSE
INVARIANTS
    WordsAreChecked
    GenericIsTold
    OfferedOnce
