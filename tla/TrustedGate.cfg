\* Two pull requests, one by an admin, against one controller job at a time.
SPECIFICATION Spec
CONSTANTS
    Pull = {p1, p2}
    AdminAuthored = {p1}
    Trees <- PushedTrees
    Root <- RootTree
    MaxPushes = 2
    MaxJobs = 2
    MaxMishaps = 1
    None = None
INVARIANTS SentinelFailsClosed GreenMeansJudged
PROPERTIES ProtectedMergeAuthorized
CHECK_DEADLOCK FALSE

ACTION_CONSTRAINT AuthorsPause
