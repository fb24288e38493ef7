------------------------------- MODULE Epoll -------------------------------
(***************************************************************************)
(* epoll (kernel/syscall.c): instances with a list of watched descriptors, *)
(* and waits that poll the list, sleeping a tick between two scans.        *)
(*                                                                         *)
(* A system call runs with interrupts disabled until its first task_sleep: *)
(* the first scan of a wait is one step, in the later ones other tasks may *)
(* come between any two entries, and between the scan and the copy.  The   *)
(* events are collected in one static array that all waits share.          *)
(***************************************************************************)
EXTENDS Integers, Sequences, FiniteSets

CONSTANTS
    MAX_EPOLLS,     \* instances
    MAX_EPOLL_FDS,  \* descriptors in an instance
    Task,           \* the tasks
    SockFd,         \* descriptors of sockets
    FileFd,         \* other descriptors, always ready
    Cookie,         \* values of epoll_event.data
    MaxEvents,      \* values of the argument maxevents
    Timeouts,       \* values of the argument timeout, in ticks
    NoCookie, NoFd

ASSUME EpollAssumption ==
    /\ MAX_EPOLLS \in Nat /\ MAX_EPOLL_FDS \in Nat \ {0}
    /\ SockFd \cap FileFd = {}
    /\ MaxEvents \subseteq Int /\ Timeouts \subseteq Int
    /\ NoCookie \notin Cookie /\ NoFd \notin SockFd \cup FileFd

Inst == 0 .. MAX_EPOLLS - 1
Fd == SockFd \cup FileFd
Entry == [fd : Fd, data : Cookie]

VARIABLES
    n_used,     \* the instances in use are the first ones
    fds,        \* their entries, the first count
    ready,      \* sockets for which unix_sock_poll returns something
    out_events, \* the static array: the data of its entries
    pc, ep, maxevents, timeout, loops, i, fd,
                \* each task: where, and the locals of its wait
    mine,       \* what the current scan of the task found (history)
    mixed,      \* another wait has stored events since (history)
    shifted     \* the list was changed under its poll (history)

wait == <<ep, maxevents, timeout, loops>>
vars == <<n_used, fds, ready, out_events, pc, ep, maxevents, timeout, loops, i,
          fd, mine, mixed, shifted>>

Init ==
    /\ n_used = 0
    /\ fds = [e \in Inst |-> <<>>]
    /\ ready = {}
    /\ out_events = [k \in 1 .. MAX_EPOLL_FDS |-> NoCookie]
    /\ pc = [t \in Task |-> "run"]
    /\ ep = [t \in Task |-> 0]
    /\ maxevents = [t \in Task |-> 0]
    /\ timeout = [t \in Task |-> 0]
    /\ loops = [t \in Task |-> 0]
    /\ i = [t \in Task |-> 0]
    /\ fd = [t \in Task |-> NoFd]
    /\ mine = [t \in Task |-> <<>>]
    /\ mixed = [t \in Task |-> FALSE]
    /\ shifted = [t \in Task |-> FALSE]
-----------------------------------------------------------------------------
(* The sockets gain and lose data (module UnixSocket).                     *)
SocketEvent(s) ==
    /\ ready' = IF s \in ready THEN ready \ {s} ELSE ready \cup {s}
    /\ UNCHANGED <<n_used, fds, out_events, pc, wait, i, fd, mine, mixed,
                   shifted>>

Running(t) == pc[t] = "run"

(* No call gives an instance back: close knows nothing of them.            *)
sys_epoll_create1(t) ==
    /\ Running(t)
    /\ n_used < MAX_EPOLLS
    /\ n_used' = n_used + 1
    /\ UNCHANGED <<fds, ready, out_events, pc, wait, i, fd, mine, mixed,
                   shifted>>

Has(e, f, k) == k \in DOMAIN fds[e] /\ fds[e][k].fd = f

(* Scans of e that are between the two reads of an entry.                  *)
Polling(e) == {u \in Task : pc[u] = "poll" /\ ep[u] = e}

Changed(e, list) ==
    /\ fds' = [fds EXCEPT ![e] = list]
    /\ shifted' = [u \in Task |-> shifted[u] \/ u \in Polling(e)]

Without(s, k) == SubSeq(s, 1, k - 1) \o SubSeq(s, k + 1, Len(s))

MayAdd(e, f) ==
    Len(fds[e]) < MAX_EPOLL_FDS /\ \A k \in DOMAIN fds[e] : ~Has(e, f, k)

sys_epoll_ctl(t, e, f, d) ==
    /\ Running(t) /\ e < n_used
    /\ \/ \E k \in DOMAIN fds[e] :
             /\ Has(e, f, k) /\ \A j \in 1 .. k - 1 : ~Has(e, f, j)
             /\ \/ Changed(e, Without(fds[e], k))
                \/ Changed(e, [fds[e] EXCEPT ![k].data = d])
       \/ /\ MayAdd(e, f)
          /\ Changed(e, Append(fds[e], [fd |-> f, data |-> d]))
    /\ UNCHANGED <<n_used, ready, out_events, pc, wait, i, fd, mine, mixed>>
-----------------------------------------------------------------------------
Ready(f) == f \in FileFd \/ f \in ready

(* ready_count reaches maxevents: tested after an event is stored, so that *)
(* at least one is.                                                        *)
Enough(n, max) == n >= max

AtMost(max) == IF max < 1 THEN 1 ELSE max

Found(e, max) ==
    LET all == SelectSeq(fds[e], LAMBDA x : Ready(x.fd))
    IN  IF Enough(Len(all), max) /\ all # <<>> THEN SubSeq(all, 1, AtMost(max))
        ELSE all

Stored(s) == [k \in DOMAIN out_events |->
                IF k \in DOMAIN s THEN s[k].data ELSE out_events[k]]

(* Task t stores events while others are between their stores and copy.    *)
MixedBy(t) == [u \in Task |-> mixed[u] \/ (u # t /\ mine[u] # <<>>)]

(* The first scan.  With no event and a timeout the task goes to sleep.    *)
sys_epoll_wait(t, e, max, tmo) ==
    /\ Running(t) /\ e < n_used
    /\ out_events' = Stored(Found(e, max))
    /\ mixed' = IF Found(e, max) = <<>> THEN mixed ELSE MixedBy(t)
    /\ \/ /\ Found(e, max) # <<>> \/ tmo = 0
          /\ UNCHANGED <<pc, wait>>
       \/ /\ Found(e, max) = <<>> /\ tmo # 0
          /\ pc' = [pc EXCEPT ![t] = "sleep"]
          /\ ep' = [ep EXCEPT ![t] = e]
          /\ maxevents' = [maxevents EXCEPT ![t] = max]
          /\ timeout' = [timeout EXCEPT ![t] = tmo]
          /\ UNCHANGED loops
    /\ UNCHANGED <<n_used, fds, ready, i, fd, mine, shifted>>

(* Mutant: a scan starts at the second entry. *)
FirstEntry_Mutant == 2

FirstEntry == 1

(* task_sleep returns, and the next scan starts.                           *)
wait_wake(t) ==
    /\ pc[t] = "sleep"
    /\ pc' = [pc EXCEPT ![t] = "scan"]
    /\ loops' = [loops EXCEPT ![t] = IF timeout[t] < 0 THEN @ ELSE @ + 1]
    /\ i' = [i EXCEPT ![t] = FirstEntry]
    /\ UNCHANGED <<n_used, fds, ready, out_events, ep, maxevents, timeout, fd,
                   mine, mixed, shifted>>

(* Entry i is looked at: its descriptor is read...                         *)
wait_load(t) ==
    /\ pc[t] = "scan" /\ i[t] <= Len(fds[ep[t]])
    /\ pc' = [pc EXCEPT ![t] = "poll"]
    /\ fd' = [fd EXCEPT ![t] = fds[ep[t]][i[t]].fd]
    /\ UNCHANGED <<n_used, fds, ready, out_events, wait, i, mine, mixed,
                   shifted>>

(* Mutant: events are stored one place too far. *)
Slot_Mutant(t) == Len(mine[t]) + 2

Slot(t) == Len(mine[t]) + 1

(* Mutant: the data of the entry after it. *)
DataAt_Mutant(e, k) ==
    IF k + 1 \in DOMAIN fds[e] THEN {fds[e][k + 1].data} ELSE Cookie

(* An entry that is past the end by now still has an old value.            *)
DataAt(e, k) == IF k \in DOMAIN fds[e] THEN {fds[e][k].data} ELSE Cookie

(* ...it is polled, and the data in entry i, by now maybe another one, is  *)
(* stored.                                                                 *)
wait_poll(t) ==
    /\ pc[t] = "poll"
    /\ i' = [i EXCEPT ![t] = @ + 1]
    /\ \/ /\ ~Ready(fd[t])
          /\ pc' = [pc EXCEPT ![t] = "scan"]
          /\ UNCHANGED <<out_events, mine, mixed>>
       \/ /\ Ready(fd[t])
          /\ \E d \in DataAt(ep[t], i[t]) :
                /\ out_events' = [out_events EXCEPT ![Slot(t)] = d]
                /\ mine' = [mine EXCEPT ![t] =
                              Append(@, [fd |-> fd[t], data |-> d])]
          /\ mixed' = MixedBy(t)
          /\ pc' = [pc EXCEPT ![t] = IF Enough(Len(mine'[t]), maxevents[t])
                                     THEN "copy" ELSE "scan"]
    /\ shifted' = [shifted EXCEPT ![t] = FALSE]
    /\ fd' = [fd EXCEPT ![t] = NoFd]
    /\ UNCHANGED <<n_used, fds, ready, wait>>

(* Mutant: the loop goes on for one tick more. *)
TimedOut_Mutant(t) == timeout[t] >= 0 /\ loops[t] > timeout[t]

TimedOut(t) == timeout[t] >= 0 /\ loops[t] >= timeout[t]

(* The wait of t returns.                                                  *)
Return(t) ==
    /\ pc' = [pc EXCEPT ![t] = "run"]
    /\ ep' = [ep EXCEPT ![t] = 0]
    /\ maxevents' = [maxevents EXCEPT ![t] = 0]
    /\ timeout' = [timeout EXCEPT ![t] = 0]
    /\ loops' = [loops EXCEPT ![t] = 0]

(* The end of a scan: copy, give up or sleep again.                        *)
wait_end(t) ==
    /\ pc[t] = "scan" /\ i[t] > Len(fds[ep[t]])
    /\ IF mine[t] = <<>> /\ TimedOut(t) THEN Return(t)
       ELSE /\ pc' = [pc EXCEPT ![t] = IF mine[t] # <<>> THEN "copy"
                                       ELSE "sleep"]
            /\ UNCHANGED wait
    /\ i' = [i EXCEPT ![t] = 0]
    /\ UNCHANGED <<n_used, fds, ready, out_events, fd, mine, mixed, shifted>>

(* The events are copied out of the static array.                          *)
wait_copy(t) ==
    /\ pc[t] = "copy"
    /\ Return(t)
    /\ mine' = [mine EXCEPT ![t] = <<>>]
    /\ mixed' = [mixed EXCEPT ![t] = FALSE]
    /\ i' = [i EXCEPT ![t] = 0]
    /\ UNCHANGED <<n_used, fds, ready, out_events, fd, shifted>>

Waiting(t) == \/ wait_wake(t)
              \/ wait_load(t)
              \/ wait_poll(t)
              \/ wait_end(t)
              \/ wait_copy(t)

Next ==
    \/ \E s \in SockFd : SocketEvent(s)
    \/ \E t \in Task :
          \/ sys_epoll_create1(t)
          \/ \E e \in Inst, f \in Fd, d \in Cookie : sys_epoll_ctl(t, e, f, d)
          \/ \E e \in Inst, max \in MaxEvents, tmo \in Timeouts :
                sys_epoll_wait(t, e, max, tmo)
          \/ Waiting(t)

Spec == Init /\ [][Next]_vars

(* A sleeping task is woken and scheduled (module Sched).                  *)
FairSpec == Spec /\ \A t \in Task : WF_vars(Waiting(t))
-----------------------------------------------------------------------------
(* What a wait is about to copy is what its own scan stored, unless        *)
(* another wait stored events in the static array meanwhile                *)
(* (syscall.c:136, 152 and 168).                                           *)
OwnEvents ==
    \A t \in Task : ~mixed[t] =>
        \A k \in DOMAIN mine[t] : out_events[k] = mine[t][k].data

(* An event that a scan stores carries the data registered for the         *)
(* descriptor it polled, unless the list was changed between the two reads *)
(* of the entry (syscall.c:141 and 153).                                   *)
NamesPolled ==
    [][\A t \in Task : Len(mine'[t]) > Len(mine[t]) /\ ~shifted[t] =>
         \E k \in DOMAIN fds[ep[t]] :
             fds[ep[t]][k] = mine'[t][Len(mine'[t])]]_vars

(* A wait with a timeout does not sleep longer (syscall.c:134 and 160).    *)
SleepsNoLonger ==
    \A t \in Task : pc[t] = "sleep" /\ timeout[t] >= 0 => loops[t] < timeout[t]

(* t waits, and f is watched and ready.                                    *)
Pending(t, f) ==
    /\ pc[t] # "run" /\ Ready(f)
    /\ \E k \in DOMAIN fds[ep[t]] : fds[ep[t]][k].fd = f

(* A wait does not go on for ever while one descriptor stays watched and   *)
(* ready, even when others are added and removed under its scans (an entry *)
(* that moves forward may be missed, but not again and again), nor when it *)
(* has a timeout (syscall.c:138-164).                                      *)
WaitEnds ==
    \A t \in Task :
        /\ []<>(pc[t] = "run" \/ timeout[t] < 0)
        /\ \A f \in Fd : []<>~Pending(t, f)
=============================================================================
