SPECIFICATION FairSpec
CONSTANTS
    Proc = {p1, p2}
    None = None
    Empty = Empty
    Junk = Junk
    Inode = {1, 2, 3}
    Lifespan = {0, 1}
    pa_lock_attempts = 2
    MaxTime = 2
    MaxDeletes = 1
    Crashes = 1
INVARIANTS ServedIsCurrent OneRenewsFile
 
