SPECIFICATION GuardedSpec
CONSTANTS
    NoText = NoText
    Queries = {q1}
    GovCall <- MCGovCall
    Text <- MCText
    Findings <- MCFindings
    Binary = {"binary"}
    Long = {"long"}
    Guards = {"open", "closed", "wx"}
    Prompts = {"fine", "unsafe", "binary", "long", NoText}
    Answers = {"fine", "private", "long", NoText}
INVARIANTS
    RefusedNeverRuns
    PrivateAnswersMasked
    AnswersKept
PROPERTIES
    FilterKeepsPromise
    
