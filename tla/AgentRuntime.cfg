SPECIFICATION Spec
CONSTANTS
    Queries = {q1, q2, q3}
    MAX_TOOL_ROUNDS = 2
    Responses <- MCResponses
INVARIANTS
    TypeOK
PROPERTIES
    ImplementsQueries
    EveryQueryEnds
