\* main joins the watcher thread under the mutex.
SPECIFICATION FairSpec
CONSTANTS
    services = services
    tokens = tokens
    NoFile = NoFile
    File <- MCFile
    InitOrder <- MCInitOrder
    DestroyOrder <- MCDestroyOrder
    ReleasesFirst <- MCReleasesFirst
    MaxEdits = 0
    MaxTime = 1
PROPERTY
    QuitsWhenAsked
CHECK_DEADLOCK FALSE
