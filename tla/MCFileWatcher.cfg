\* Registration, polling and shutdown; changes are loaded; the shutdown ends,
\* or is stuck in join() under the mutex.
SPECIFICATION FairSpec
CONSTANTS
    services = services
    tokens = tokens
    NoFile = NoFile
    File <- MCFile
    InitOrder <- MCInitOrder
    DestroyOrder <- MCDestroyOrder
    ReleasesFirst <- MCReleasesFirst
    MaxEdits = 2
    MaxTime = 2
INVARIANTS
    TypeOK
    CallbackFindsManager
    JoinedAtExit
    WatcherInv
    UnnoticedOnlyWithinSecond
PROPERTIES
    PollSeesOneMap
    ChangeIsLoaded
    QuitsUnlessJoinDeadlock
CHECK_DEADLOCK FALSE
