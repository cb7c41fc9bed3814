SPECIFICATION Spec
CONSTANTS
    Tickets <- MCTickets
    Prs <- MCPrs
    People <- MCPeople
    Strangers <- MCStrangers
    NoId = "none"
    NoName = "nobody"
    Scores <- MCScores
    Reads <- MCReads
    Writes <- MCWrites
    Disabled <- MCDisabled
    Queries <- MCQueries
    Enabled <- Intents
    Window = 2
    MaxTurns = 2
    Past <- MCPast
INVARIANTS
    AnswersAreGrounded
    RefusalsStand
    RevisedOnlyToImprove
    CardsReachUser
    CardsNameTheirTicket
    OnlyReadsRun
CHECK_DEADLOCK FALSE
