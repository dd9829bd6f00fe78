SPECIFICATION FairSpec
CONSTANTS
    Uploads  = {u1}
    Refresh  = refresh
    Requests = {r1, r2}
    Workers  = {w1, w2}
    NoWorker = none
    MaxJobs  = 2
INVARIANTS NeverRerun CopiesAreRaced ImportsAreSound
PROPERTIES OutcomesStand QueuedJobsEnd
CHECK_DEADLOCK FALSE
