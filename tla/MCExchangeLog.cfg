\* Enough exchanges for both moves and for a recorder that falls behind.
SPECIFICATION FairSpec
CONSTANT MaxExchanges = 5
INVARIANTS ReportAccountsForEveryExchange GripperOutlivesUsers SettledMeansOver
PROPERTY ProgramEnds
