SPECIFICATION Spec
CONSTANTS
    Sends = {s1, s2}
    NoSend = NoSend
    MaxAttempts = 2
    Queries <- MCQueries
INVARIANTS
    AnswersWereStreamed
PROPERTIES
    ImplementsDialogue
    NotAskedAgain
    EveryQuestionClosed
