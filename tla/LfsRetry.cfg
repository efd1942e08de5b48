SPECIFICATION FairSpec
CONSTANTS
    Uploaders = {u1}
    Downloaders = {d1}
    Size = 3
    MaxAborts = 2
    MaxCrashes = 2
PROPERTY RetryRepairs
