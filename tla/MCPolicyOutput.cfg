\* The answer of one policy to one request.
SPECIFICATION Spec
CONSTANTS
    Policies <- MCPolicies
    Requests <- MCRequests
    ContextParam <- MCContextParam
    SlotParam <- MCSlotParam
    Number <- MCNumber
    ServiceTexts <- MCServiceTexts
INVARIANTS
    TypeOK
    ParamsReadAsWritten
    AssertionsReadAsWritten
    AnswerReadsAsWritten
CHECK_DEADLOCK FALSE
