\* Three requests, one key, one crash; a file that cannot be read and one of a type
\* that is not allowed.
SPECIFICATION FairSpec
CONSTANTS
    q1 = q1
    q2 = q2
    q3 = q3
    Requests = {q1, q2, q3}
    Keys = {"key"}
    Contents = {"invoice", "broken", "archive"}
    Unreadable = {"broken"}
    Unsupported = {"archive"}
    MaxCrashes = 1
INVARIANTS
    TypeOK OneRunPerKey AnalysedWhatWasChecked VersionHistory StoredFileAccounted
PROPERTIES
    EveryRequestAnswered
CHECK_DEADLOCK FALSE
