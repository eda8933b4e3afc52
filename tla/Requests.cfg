\* Four numbers for 65536: five requests and more go round once and a half, past the
\* number of the notifications.
CONSTANTS
    SeqLimit = 4
    MaxRequests = 5
    MaxTold = 2
    InboxCap = 4
SPECIFICATION Spec
INVARIANTS
    TypeOK
    AnswersFindTheirRequest
    KeptAreUnanswered
    DropsAreCounted
