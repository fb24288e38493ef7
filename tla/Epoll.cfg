SPECIFICATION FairSpec
CONSTANTS
    MAX_EPOLLS = 1
    MAX_EPOLL_FDS = 2
    Task = {t1, t2}
    SockFd = {s1}
    FileFd = {f1}
    Cookie = {c1, c2}
    MaxEvents <- MCMaxEvents
    Timeouts <- MCTimeouts
    NoCookie = NoCookie
    NoFd = NoFd
INVARIANTS
    OwnEvents
    SleepsNoLonger
PROPERTIES
    NamesPolled
    WaitEnds
