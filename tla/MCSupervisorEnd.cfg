SPECIFICATION FairSpec
CONSTANTS
    s1 = s1
    d1 = d1
    d2 = d2
    d3 = d3
    d4 = d4
    p1 = p1
    p2 = p2
    p3 = p3
    Src = {s1}
    Dst <- LiveDst
    Inside = {}
    Pid <- LivePid
    MaxJobs = 2
    NoPid = NoPid
    NoJob = NoJob
PROPERTIES
    EndStopsWatching
CHECK_DEADLOCK FALSE
