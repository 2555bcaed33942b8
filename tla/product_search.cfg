CONSTANTS
    Prd1 = "prd1"
    Prd2 = "prd2"
    MapDays <- MCMapDays
    Issues <- MCIssues
    Requests <- MCRequests
SPECIFICATION Spec
INVARIANTS NewestMap NewestIssues CentersAccountedFor AttemptsAreTheCenters
\* A call ends with its result.
CHECK_DEADLOCK FALSE
