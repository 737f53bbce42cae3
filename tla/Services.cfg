\* LLM budget, dead letters, reviews, chunks, retrieval, extraction and mail of one organization.
SPECIFICATION ServicesSpec
CONSTANTS
 Workers = {p1, p2}
 BudgetJobs = {"j1", "j2"}
 UnknownPages = unknown
 Pages <- Pages1
 ReservationFixed = 0
 ReservationPage = 1
 ReservationMax = 2
 Limit = 2
 ReservationTtl = 1
 BudgetMonth = 2
 MaxClock = 2
 MaxBurned = 4
 Events = {e1}
 Handlers = {p1, p2}
 MaxAttempts = 2
 MaxDeliveries = 3
 Reviewers = {r1, r2}
 ReviewRequests = {p1, p2}
 Extracted = {"requirement"}
 Assessed = {"compliance"}
 MaxExtractions = 2
 MaxReviews = 2
 MaxComments = 1
 Documents <- Documents1
 MaxChars = 4
 OverlapChars = 2
 Corpus = {1, 2, 3}
 RankDepth = 2
 RrfK = 1
 Unit = 6
 TopN = 2
 RerankCandidates = 3
 RerankScores = {1, 2}
 ContextLimit = 2
 MaxQueries = 2
 Agents = {"requirements", "risks"}
 NodeAttempts = 2
 SchemaAttempts = 2
 Contexts <- Contexts1
 Elements <- Elements1
 LongQuotes = {"one", "across", "lost"}
 Answers <- Answers1
 Assessments <- Assessments1
 MaxPhases = 2
 Addresses = {x1, x2}
 SubscriptionEvents = {"event"}
 Thresholds = {"storage"}
 Senders = {p1, p2}
 MaxRounds = 2
 MaxWaived = 1
INVARIANTS ServicesTypeOK SpendBounded ReservationsReturned UsageAccounted NoSilentLoss ReviewAccounted NoOrphanComment ChunksSound ContextIsBest AnalysisWhole EventMailedOnce
PROPERTIES CeilingKept ImplementsLedger
CHECK_DEADLOCK FALSE
SYMMETRY ServicesSymmetry
