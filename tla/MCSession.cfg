SPECIFICATION FairSpec
CONSTANT MaxTokens = 2
INVARIANTS TypeOK 
PROPERTIES SignsIn LeavesDashboard
