SPECIFICATION FairJobsSpec
CONSTANTS
    Sockets = {admin}
    admin = admin
    MaxJobs = 2
    MaxRevision = 4
    MaxVisits = 4
INVARIANTS
    JobsTypeOK
    OneActiveJob
    NoStaleSocket
PROPERTIES
    EndIsSeen
CHECK_DEADLOCK FALSE
