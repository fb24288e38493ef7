---------------------------- MODULE EpollProofs ----------------------------
(***************************************************************************)
(* Proofs about epoll, for any number of instances, descriptors and tasks: *)
(* what a wait may rely on although all waits share one array and the list *)
(* changes under a scan.                                                   *)
(***************************************************************************)
EXTENDS Epoll, SequenceTheorems, TLAPS

Slots == 1 .. MAX_EPOLL_FDS
Pc == {"run", "sleep", "scan", "poll", "copy"}

Types ==
    /\ fds \in [Inst -> Seq(Entry)]
    /\ out_events = [k \in Slots |-> out_events[k]]
    /\ pc \in [Task -> Pc] /\ ep \in [Task -> Nat]
    /\ maxevents \in [Task -> Int] /\ timeout \in [Task -> Int]
    /\ loops \in [Task -> Nat] /\ i \in [Task -> Nat]
    /\ fd \in [Task -> Fd \cup {NoFd}]
    /\ mine \in [Task -> Seq(Entry)]
    /\ mixed \in [Task -> BOOLEAN] /\ shifted \in [Task -> BOOLEAN]

(* The lists fit in their arrays.                                          *)
ListsFit == \A e \in Inst : Len(fds[e]) <= MAX_EPOLL_FDS

(* A wait: it has an instance, starts without events and ticks, stores no  *)
(* more events than it has looked at entries, and has in fd the descriptor *)
(* of entry i unless the list has changed since.                           *)
WaitInv(t) ==
    /\ pc[t] # "run" => ep[t] \in Inst
    /\ pc[t] = "run" => loops[t] = 0
    /\ pc[t] \in {"run", "sleep"} => mine[t] = <<>>
    /\ pc[t] \in {"scan", "poll"} => Len(mine[t]) < i[t]
    /\ pc[t] = "poll" => i[t] <= MAX_EPOLL_FDS /\ fd[t] \in Fd
    /\ pc[t] = "poll" /\ ~shifted[t] =>
          i[t] <= Len(fds[ep[t]]) /\ fds[ep[t]][i[t]].fd = fd[t]

EpollInv ==
    /\ Types /\ ListsFit
    /\ \A t \in Task : WaitInv(t)
    /\ OwnEvents /\ SleepsNoLonger

LEMMA InitEpoll == Init => EpollInv
<1> SUFFICES ASSUME Init PROVE EpollInv
  OBVIOUS
<1>1. Types
  BY DEF Init, Types, Slots, Pc
<1>2. ListsFit
  BY EpollAssumption DEF Init, ListsFit
<1>3. ASSUME NEW t \in Task PROVE WaitInv(t)
  BY <1>3 DEF Init, WaitInv
<1>4. OwnEvents /\ SleepsNoLonger
  BY DEF Init, OwnEvents, SleepsNoLonger
<1>5. QED
  BY <1>1, <1>2, <1>3, <1>4 DEF EpollInv

(* Steps of the system that no wait and no list takes part in.             *)
LEMMA WaitsAlone ==
    ASSUME EpollInv,
           UNCHANGED <<fds, out_events, pc, wait, i, fd, mine, mixed, shifted>>
    PROVE  EpollInv'
BY DEF EpollInv, Types, ListsFit, WaitInv, OwnEvents, SleepsNoLonger, wait

(* A list after one entry is removed, changed or added is a list that      *)
(* fits.                                                                   *)
LEMMA ListAfter ==
    ASSUME NEW s \in Seq(Entry), Len(s) <= MAX_EPOLL_FDS,
           NEW k \in 1 .. Len(s), NEW d \in Cookie
    PROVE  /\ Without(s, k) \in Seq(Entry)
           /\ Len(Without(s, k)) <= MAX_EPOLL_FDS
           /\ [s EXCEPT ![k].data = d] \in Seq(Entry)
           /\ Len([s EXCEPT ![k].data = d]) <= MAX_EPOLL_FDS
<1>1. Len(s) \in Nat /\ k \in Nat /\ k >= 1 /\ k <= Len(s)
  OBVIOUS
<1>2. SubSeq(s, 1, k - 1) \in Seq(Entry) /\ Len(SubSeq(s, 1, k - 1)) = k - 1
  BY <1>1
<1>3. SubSeq(s, k + 1, Len(s)) \in Seq(Entry)
      /\ Len(SubSeq(s, k + 1, Len(s))) = Len(s) - k
  BY <1>1
<1>4. Without(s, k) \in Seq(Entry) /\ Len(Without(s, k)) = Len(s) - 1
  <2> DEFINE a == SubSeq(s, 1, k - 1)
             b == SubSeq(s, k + 1, Len(s))
  <2>1. a \in Seq(Entry) /\ b \in Seq(Entry)
        /\ Len(a) = k - 1 /\ Len(b) = Len(s) - k
    BY <1>2, <1>3
  <2>2. Without(s, k) = a \o b
    BY DEF Without
  <2> HIDE DEF a, b
  <2>3. a \o b \in Seq(Entry) /\ Len(a \o b) = Len(a) + Len(b)
    BY <2>1, ConcatProperties
  <2>4. Len(a) + Len(b) = Len(s) - 1
    BY <1>1, <2>1
  <2>5. QED
    BY <2>2, <2>3, <2>4
<1>5. [s[k] EXCEPT !.data = d] \in Entry
  <2>1. s[k] \in Entry
    BY ElementOfSeq
  <2>2. QED
    BY <2>1 DEF Entry
<1>6. [s EXCEPT ![k].data = d] \in Seq(Entry)
      /\ Len([s EXCEPT ![k].data = d]) = Len(s)
  BY <1>1, <1>5
<1>7. QED
  BY <1>1, <1>4, <1>6, EpollAssumption

(* epoll_ctl: scans that are in the middle of an entry know that the list  *)
(* has changed.                                                            *)
LEMMA ListChanged ==
    ASSUME EpollInv, NEW e \in Inst, NEW list \in Seq(Entry),
           Len(list) <= MAX_EPOLL_FDS, Changed(e, list),
           UNCHANGED <<out_events, pc, wait, i, fd, mine, mixed>>
    PROVE  EpollInv'
<1>1. fds' = [fds EXCEPT ![e] = list]
      /\ shifted' = [u \in Task |-> shifted[u] \/ u \in Polling(e)]
  BY DEF Changed
<1>2. Types'
  BY <1>1 DEF EpollInv, Types, wait
<1>3. ListsFit'
  BY <1>1 DEF EpollInv, ListsFit, Types
<1>4. ASSUME NEW t \in Task PROVE WaitInv(t)'
  <2>1. WaitInv(t)
    BY <1>4 DEF EpollInv
  <2>2. pc[t] = "poll" /\ ~shifted'[t] => ~shifted[t] /\ ep[t] # e
    BY <1>1, <1>4 DEF Polling
  <2>3. QED
    BY <1>1, <1>4, <2>1, <2>2 DEF EpollInv, Types, WaitInv, wait
<1>5. OwnEvents' /\ SleepsNoLonger'
  BY DEF EpollInv, OwnEvents, SleepsNoLonger, wait
<1>6. QED
  BY <1>2, <1>3, <1>4, <1>5 DEF EpollInv

LEMMA EpollStep == EpollInv /\ [Next]_vars => EpollInv'
<1> SUFFICES ASSUME EpollInv, [Next]_vars PROVE EpollInv'
  OBVIOUS
<1>0. Types /\ ListsFit
  BY DEF EpollInv
<1>1. ASSUME NEW s \in SockFd, SocketEvent(s) PROVE EpollInv'
  BY <1>1, WaitsAlone DEF SocketEvent
<1>2. ASSUME NEW t \in Task, sys_epoll_create1(t) PROVE EpollInv'
  BY <1>2, WaitsAlone DEF sys_epoll_create1
<1>3. ASSUME NEW t \in Task, NEW e \in Inst, NEW f \in Fd, NEW d \in Cookie,
             sys_epoll_ctl(t, e, f, d)
      PROVE  EpollInv'
  <2> DEFINE s == fds[e]
  <2>1. s \in Seq(Entry) /\ Len(s) <= MAX_EPOLL_FDS /\ DOMAIN s = 1 .. Len(s)
    BY <1>0 DEF Types, ListsFit
  <2>2. UNCHANGED <<out_events, pc, wait, i, fd, mine, mixed>>
    BY <1>3 DEF sys_epoll_ctl
  <2>3. ASSUME NEW k \in DOMAIN s, Changed(e, Without(s, k)) PROVE EpollInv'
    BY <2>1, <2>2, <2>3, ListAfter, ListChanged
  <2>4. ASSUME NEW k \in DOMAIN s, Changed(e, [s EXCEPT ![k].data = d])
        PROVE  EpollInv'
    BY <2>1, <2>2, <2>4, ListAfter, ListChanged
  <2>5. CASE MayAdd(e, f) /\ Changed(e, Append(s, [fd |-> f, data |-> d]))
    <3>1. [fd |-> f, data |-> d] \in Entry
      BY DEF Entry
    <3>2. Append(s, [fd |-> f, data |-> d]) \in Seq(Entry)
          /\ Len(Append(s, [fd |-> f, data |-> d])) = Len(s) + 1
      BY <2>1, <3>1
    <3>3. Len(s) < MAX_EPOLL_FDS
      BY <2>5 DEF MayAdd
    <3>4. Len(Append(s, [fd |-> f, data |-> d])) <= MAX_EPOLL_FDS
      BY <2>1, <3>2, <3>3, EpollAssumption
    <3>5. QED
      BY <2>2, <2>5, <3>2, <3>4, ListChanged
  <2>6. QED
    BY <1>3, <2>3, <2>4, <2>5 DEF sys_epoll_ctl
<1>4. ASSUME NEW t \in Task, NEW e \in Inst, NEW max \in MaxEvents,
             NEW tmo \in Timeouts, sys_epoll_wait(t, e, max, tmo)
      PROVE  EpollInv'
  <2>1. /\ pc[t] = "run" /\ out_events' = Stored(Found(e, max))
        /\ mixed' = IF Found(e, max) = <<>> THEN mixed ELSE MixedBy(t)
        /\ UNCHANGED <<fds, i, fd, mine, shifted>>
    BY <1>4 DEF sys_epoll_wait, Running
  <2>2. /\ loops' = loops
        /\ \/ UNCHANGED <<pc, ep, maxevents, timeout>>
           \/ /\ tmo # 0
              /\ pc' = [pc EXCEPT ![t] = "sleep"]
              /\ ep' = [ep EXCEPT ![t] = e]
              /\ maxevents' = [maxevents EXCEPT ![t] = max]
              /\ timeout' = [timeout EXCEPT ![t] = tmo]
    BY <1>4 DEF sys_epoll_wait, wait
  <2>3. WaitInv(t) /\ mine[t] = <<>> /\ loops[t] = 0
    BY <2>1 DEF EpollInv, WaitInv
  <2>4. e \in Nat /\ max \in Int /\ tmo \in Int
    BY EpollAssumption DEF Inst
  <2>5. Types'
    <3>1. out_events' = [k \in Slots |-> out_events'[k]]
      BY <1>0, <2>1 DEF Types, Stored
    <3>2. mixed' \in [Task -> BOOLEAN]
      BY <1>0, <2>1 DEF Types, MixedBy
    <3>3. /\ pc' \in [Task -> Pc] /\ ep' \in [Task -> Nat]
          /\ maxevents' \in [Task -> Int] /\ timeout' \in [Task -> Int]
      <4>1. /\ pc \in [Task -> Pc] /\ ep \in [Task -> Nat] /\ "sleep" \in Pc
            /\ maxevents \in [Task -> Int] /\ timeout \in [Task -> Int]
        BY <1>0 DEF Types, Pc
      <4>2. CASE UNCHANGED <<pc, ep, maxevents, timeout>>
        BY <4>1, <4>2
      <4>3. CASE /\ pc' = [pc EXCEPT ![t] = "sleep"]
                 /\ ep' = [ep EXCEPT ![t] = e]
                 /\ maxevents' = [maxevents EXCEPT ![t] = max]
                 /\ timeout' = [timeout EXCEPT ![t] = tmo]
        BY <2>4, <4>1, <4>3
      <4>4. QED
        BY <2>2, <4>2, <4>3
    <3>4. QED
      BY <1>0, <2>1, <2>2, <3>1, <3>2, <3>3 DEF Types
  <2>6. ListsFit'
    BY <1>0, <2>1 DEF ListsFit
  <2>7. ASSUME NEW u \in Task PROVE WaitInv(u)'
    <3>1. WaitInv(u)
      BY <2>7 DEF EpollInv
    <3>2. CASE u = t
      BY <1>0, <2>1, <2>2, <2>3, <3>2 DEF WaitInv, Types
    <3>3. CASE u # t
      BY <1>0, <2>1, <2>2, <2>7, <3>1, <3>3 DEF WaitInv, Types
    <3>4. QED
      BY <3>2, <3>3
  <2>8. OwnEvents'
    <3>1. CASE Found(e, max) = <<>>
      <4>1. out_events' = out_events
        BY <1>0, <2>1, <3>1 DEF Stored, Types
      <4>2. QED
        BY <2>1, <3>1, <4>1 DEF EpollInv, OwnEvents
    <3>2. CASE Found(e, max) # <<>>
      <4>1. ASSUME NEW u \in Task, ~mixed'[u] PROVE mine'[u] = <<>>
        <5>1. mixed'[u] = (mixed[u] \/ (u # t /\ mine[u] # <<>>))
          BY <2>1, <3>2 DEF MixedBy
        <5>2. QED
          BY <2>1, <2>3, <4>1, <5>1
      <4>2. DOMAIN <<>> = {}
        OBVIOUS
      <4>3. QED
        BY <4>1, <4>2, Zenon DEF OwnEvents
    <3>3. QED
      BY <3>1, <3>2
  <2>9. SleepsNoLonger'
    BY <1>0, <2>2, <2>3, <2>4 DEF EpollInv, SleepsNoLonger, Types
  <2>10. QED
    BY <2>5, <2>6, <2>7, <2>8, <2>9 DEF EpollInv
<1>5. ASSUME NEW t \in Task, wait_wake(t) PROVE EpollInv'
  <2>1. /\ pc[t] = "sleep" /\ pc' = [pc EXCEPT ![t] = "scan"]
        /\ loops' = [loops EXCEPT ![t] = IF timeout[t] < 0 THEN @ ELSE @ + 1]
        /\ i' = [i EXCEPT ![t] = 1]
        /\ UNCHANGED <<fds, out_events, ep, maxevents, timeout, fd, mine,
                       mixed, shifted>>
    BY <1>5 DEF wait_wake, FirstEntry
  <2>2. Types' /\ ListsFit'
    BY <1>0, <2>1 DEF Types, Pc, ListsFit
  <2>3. ASSUME NEW u \in Task PROVE WaitInv(u)'
    <3>1. WaitInv(u)
      BY <2>3 DEF EpollInv
    <3>2. CASE u = t
      BY <1>0, <2>1, <3>1, <3>2 DEF WaitInv, Types
    <3>3. CASE u # t
      BY <1>0, <2>1, <3>1, <3>3 DEF WaitInv, Types
    <3>4. QED
      BY <3>2, <3>3
  <2>4. OwnEvents' /\ SleepsNoLonger'
    BY <1>0, <2>1 DEF EpollInv, OwnEvents, SleepsNoLonger, Types
  <2>5. QED
    BY <2>2, <2>3, <2>4 DEF EpollInv
<1>6. ASSUME NEW t \in Task, wait_load(t) PROVE EpollInv'
  <2>1. /\ pc[t] = "scan" /\ i[t] <= Len(fds[ep[t]])
        /\ pc' = [pc EXCEPT ![t] = "poll"]
        /\ fd' = [fd EXCEPT ![t] = fds[ep[t]][i[t]].fd]
        /\ UNCHANGED <<fds, out_events, ep, maxevents, timeout, loops, i, mine,
                       mixed, shifted>>
    BY <1>6 DEF wait_load, wait
  <2>2. /\ WaitInv(t) /\ ep[t] \in Inst /\ Len(mine[t]) < i[t]
        /\ i[t] \in Nat /\ Len(mine[t]) \in Nat
    BY <1>0, <2>1 DEF EpollInv, WaitInv, Types
  <2>3. fds[ep[t]] \in Seq(Entry) /\ Len(fds[ep[t]]) <= MAX_EPOLL_FDS
    BY <1>0, <2>2 DEF Types, ListsFit
  <2>4. fds[ep[t]][i[t]].fd \in Fd /\ i[t] <= MAX_EPOLL_FDS
    <3>1. i[t] \in 1 .. Len(fds[ep[t]])
      BY <2>1, <2>2, <2>3
    <3>2. QED
      <4>1. fds[ep[t]][i[t]] \in Entry
        BY <2>3, <3>1, ElementOfSeq
      <4>2. i[t] <= MAX_EPOLL_FDS
        BY <2>1, <2>2, <2>3, EpollAssumption
      <4>3. QED
        BY <4>1, <4>2 DEF Entry
  <2>5. Types' /\ ListsFit'
    BY <1>0, <2>1, <2>4 DEF Types, Pc, ListsFit
  <2>6. ASSUME NEW u \in Task PROVE WaitInv(u)'
    <3>1. WaitInv(u)
      BY <2>6 DEF EpollInv
    <3>2. CASE u = t
      BY <1>0, <2>1, <2>2, <2>4, <3>2 DEF WaitInv, Types
    <3>3. CASE u # t
      BY <1>0, <2>1, <2>6, <3>1, <3>3 DEF WaitInv, Types
    <3>4. QED
      BY <3>2, <3>3
  <2>7. OwnEvents' /\ SleepsNoLonger'
    BY <1>0, <2>1 DEF EpollInv, OwnEvents, SleepsNoLonger, Types
  <2>8. QED
    BY <2>5, <2>6, <2>7 DEF EpollInv
<1>7. ASSUME NEW t \in Task, wait_poll(t) PROVE EpollInv'
  <2>1. /\ pc[t] = "poll" /\ i' = [i EXCEPT ![t] = @ + 1]
        /\ shifted' = [shifted EXCEPT ![t] = FALSE]
        /\ fd' = [fd EXCEPT ![t] = NoFd]
        /\ UNCHANGED <<fds, ep, maxevents, timeout, loops>>
    BY <1>7 DEF wait_poll, wait
  <2>2. /\ WaitInv(t) /\ ep[t] \in Inst /\ Len(mine[t]) < i[t]
        /\ i[t] \in Nat /\ Len(mine[t]) \in Nat /\ i[t] <= MAX_EPOLL_FDS
        /\ fd[t] \in Fd /\ mine[t] \in Seq(Entry)
    BY <1>0, <2>1 DEF EpollInv, WaitInv, Types
  <2>3. CASE /\ pc' = [pc EXCEPT ![t] = "scan"]
             /\ UNCHANGED <<out_events, mine, mixed>>
    <3>1. Types' /\ ListsFit'
      BY <1>0, <2>1, <2>3 DEF Types, Pc, ListsFit
    <3>2. ASSUME NEW u \in Task PROVE WaitInv(u)'
      <4>1. WaitInv(u)
        BY <3>2 DEF EpollInv
      <4>2. CASE u = t
        BY <1>0, <2>1, <2>2, <2>3, <4>2 DEF WaitInv, Types
      <4>3. CASE u # t
        BY <1>0, <2>1, <2>3, <3>2, <4>1, <4>3 DEF WaitInv, Types
      <4>4. QED
        BY <4>2, <4>3
    <3>3. OwnEvents' /\ SleepsNoLonger'
      BY <1>0, <2>1, <2>3 DEF EpollInv, OwnEvents, SleepsNoLonger, Types
    <3>4. QED
      BY <3>1, <3>2, <3>3 DEF EpollInv
  <2>4. ASSUME NEW d \in DataAt(ep[t], i[t]),
               out_events' = [out_events EXCEPT ![Slot(t)] = d],
               mine' = [mine EXCEPT ![t] =
                          Append(@, [fd |-> fd[t], data |-> d])],
               mixed' = MixedBy(t),
               pc' = [pc EXCEPT ![t] = IF Enough(Len(mine'[t]), maxevents[t])
                                       THEN "copy" ELSE "scan"]
        PROVE  EpollInv'
    <3> DEFINE ev == [fd |-> fd[t], data |-> d]
    <3>1. d \in Cookie
      <4>1. fds[ep[t]] \in Seq(Entry)
        BY <1>0, <2>2 DEF Types
      <4>2. QED
        <5>1. CASE i[t] \in DOMAIN fds[ep[t]]
          <6>1. i[t] \in 1 .. Len(fds[ep[t]])
            BY <4>1, <5>1, LenProperties
          <6>2. fds[ep[t]][i[t]] \in Entry
            BY <4>1, <6>1, ElementOfSeq
          <6>3. QED
            BY <5>1, <6>2 DEF DataAt, Entry
        <5>2. CASE i[t] \notin DOMAIN fds[ep[t]]
          BY <5>2 DEF DataAt
        <5>3. QED
          BY <5>1, <5>2
    <3>2. ev \in Entry
      BY <2>2, <3>1 DEF Entry
    <3> DEFINE new == Append(mine[t], ev)
    <3>3. /\ new \in Seq(Entry) /\ Len(new) = Len(mine[t]) + 1
          /\ new[Len(mine[t]) + 1] = ev
          /\ \A k \in 1 .. Len(mine[t]) : new[k] = mine[t][k]
      BY <2>2, <3>2
    <3>4. ev.data = d
      OBVIOUS
    <3>5. mine' = [mine EXCEPT ![t] = new] /\ mine'[t] = new
      BY <1>0, <2>4 DEF Types
    <3> HIDE DEF ev, new
    <3>6. Slot(t) \in Slots /\ Slot(t) = Len(mine[t]) + 1
      BY <2>2, EpollAssumption DEF Slot, Slots
    <3>7. /\ out_events'[Slot(t)] = d
          /\ \A k \in Slots : k # Slot(t) => out_events'[k] = out_events[k]
      BY <1>0, <2>4, <3>6 DEF Types
    <3>8. Types'
      <4>1. out_events' = [k \in Slots |-> out_events'[k]]
        BY <1>0, <2>4 DEF Types
      <4>2. mixed' \in [Task -> BOOLEAN]
        BY <1>0, <2>4 DEF Types, MixedBy
      <4>3. pc' \in [Task -> Pc]
        BY <1>0, <2>4 DEF Types, Pc
      <4>4. mine' \in [Task -> Seq(Entry)]
        BY <1>0, <3>3, <3>5 DEF Types
      <4>5. i' \in [Task -> Nat] /\ shifted' \in [Task -> BOOLEAN]
            /\ fd' \in [Task -> Fd \cup {NoFd}]
        BY <1>0, <2>1 DEF Types
      <4>6. QED
        BY <1>0, <2>1, <4>1, <4>2, <4>3, <4>4, <4>5 DEF Types
    <3>9. ListsFit'
      BY <1>0, <2>1 DEF ListsFit
    <3>10. ASSUME NEW u \in Task PROVE WaitInv(u)'
      <4>1. WaitInv(u)
        BY <3>10 DEF EpollInv
      <4>2. CASE u = t
        <5>1. pc'[t] \in {"copy", "scan"} /\ i'[t] = i[t] + 1
          BY <1>0, <2>1, <2>4 DEF Types
        <5>2. Len(mine'[t]) < i'[t]
          BY <2>2, <3>3, <3>5, <5>1
        <5>3. QED
          BY <2>1, <2>2, <4>2, <5>1, <5>2 DEF WaitInv
      <4>3. CASE u # t
        BY <1>0, <2>1, <2>4, <3>10, <4>1, <4>3 DEF WaitInv, Types
      <4>4. QED
        BY <4>2, <4>3
    <3>11. OwnEvents'
      <4> SUFFICES ASSUME NEW u \in Task, ~mixed'[u],
                          NEW k \in DOMAIN mine'[u]
                   PROVE  out_events'[k] = mine'[u][k].data
        BY DEF OwnEvents
      <4>1. CASE u # t
        <5>1. mine'[u] = mine[u]
          BY <1>0, <3>5, <4>1 DEF Types
        <5>2. mine[u] = <<>>
          BY <2>4, <4>1 DEF MixedBy
        <5>3. QED
          BY <5>1, <5>2
      <4>2. CASE u = t
        <5>1. ~mixed[t] /\ k \in 1 .. Len(mine[t]) + 1
          <6>1. ~mixed[t]
            BY <2>4, <4>2 DEF MixedBy
          <6>2. DOMAIN new = 1 .. Len(new)
            BY <3>3, LenProperties
          <6>3. QED
            BY <3>3, <3>5, <4>2, <6>1, <6>2
        <5>2. CASE k = Len(mine[t]) + 1
          BY <3>3, <3>4, <3>5, <3>6, <3>7, <4>2, <5>2
        <5>3. CASE k # Len(mine[t]) + 1
          <6>1. k \in 1 .. Len(mine[t]) /\ k \in DOMAIN mine[t]
            BY <2>2, <5>1, <5>3
          <6>2. k \in Slots /\ k # Slot(t)
            BY <2>2, <3>6, <6>1, EpollAssumption DEF Slots
          <6>3. out_events[k] = mine[t][k].data
            BY <5>1, <6>1 DEF EpollInv, OwnEvents
          <6>4. QED
            BY <3>3, <3>5, <3>7, <4>2, <6>1, <6>2, <6>3
        <5>4. QED
          BY <5>2, <5>3
      <4>3. QED
        BY <4>1, <4>2
    <3>12. SleepsNoLonger'
      BY <1>0, <2>1, <2>4 DEF EpollInv, SleepsNoLonger, Types
    <3>13. QED
      BY <3>8, <3>9, <3>10, <3>11, <3>12 DEF EpollInv
  <2>5. QED
    BY <1>7, <2>3, <2>4 DEF wait_poll
<1>8. ASSUME NEW t \in Task, wait_end(t) PROVE EpollInv'
  <2>1. /\ pc[t] = "scan" /\ i' = [i EXCEPT ![t] = 0]
        /\ UNCHANGED <<fds, out_events, fd, mine, mixed, shifted>>
        /\ \/ mine[t] = <<>> /\ Return(t)
           \/ /\ mine[t] # <<>> \/ ~TimedOut(t)
              /\ pc' = [pc EXCEPT ![t] = IF mine[t] # <<>> THEN "copy"
                                         ELSE "sleep"]
              /\ UNCHANGED <<ep, maxevents, timeout, loops>>
    BY <1>8 DEF wait_end, wait
  <2>2. Types' /\ ListsFit'
    <3>1. CASE Return(t)
      <4>1. pc' \in [Task -> Pc] /\ i' \in [Task -> Nat]
        BY <1>0, <2>1, <3>1 DEF Types, Pc, Return
      <4>2. ep' \in [Task -> Nat] /\ loops' \in [Task -> Nat]
        BY <1>0, <3>1 DEF Types, Return
      <4>3. maxevents' \in [Task -> Int] /\ timeout' \in [Task -> Int]
        BY <1>0, <3>1 DEF Types, Return
      <4>4. QED
        BY <1>0, <2>1, <4>1, <4>2, <4>3 DEF Types, ListsFit
    <3>2. CASE /\ pc' = [pc EXCEPT ![t] = IF mine[t] # <<>> THEN "copy"
                                          ELSE "sleep"]
               /\ UNCHANGED <<ep, maxevents, timeout, loops>>
      BY <1>0, <2>1, <3>2 DEF Types, Pc, ListsFit
    <3>3. QED
      BY <2>1, <3>1, <3>2
  <2>3. ASSUME NEW u \in Task PROVE WaitInv(u)'
    <3>1. WaitInv(u)
      BY <2>3 DEF EpollInv
    <3>2. CASE u = t
      BY <1>0, <2>1, <3>1, <3>2 DEF WaitInv, Types, Return
    <3>3. CASE u # t
      BY <1>0, <2>1, <2>3, <3>1, <3>3 DEF WaitInv, Types, Return
    <3>4. QED
      BY <3>2, <3>3
  <2>4. OwnEvents'
    BY <2>1 DEF EpollInv, OwnEvents
  <2>5. SleepsNoLonger'
    <3>1. CASE Return(t)
      BY <1>0, <3>1 DEF EpollInv, SleepsNoLonger, Types, Return
    <3>2. CASE /\ mine[t] # <<>> \/ ~TimedOut(t)
               /\ pc' = [pc EXCEPT ![t] = IF mine[t] # <<>> THEN "copy"
                                          ELSE "sleep"]
               /\ UNCHANGED <<ep, maxevents, timeout, loops>>
      <4>1. loops[t] \in Nat /\ timeout[t] \in Int
        BY <1>0 DEF Types
      <4>2. pc'[t] = "sleep" /\ timeout[t] >= 0 => loops[t] < timeout[t]
        BY <1>0, <3>2, <4>1 DEF Types, TimedOut
      <4>3. \A u \in Task : u # t => pc'[u] = pc[u]
        BY <1>0, <3>2 DEF Types
      <4>4. QED
        BY <3>2, <4>2, <4>3 DEF EpollInv, SleepsNoLonger
    <3>3. QED
      BY <2>1, <3>1, <3>2
  <2>6. QED
    BY <2>2, <2>3, <2>4, <2>5 DEF EpollInv
<1>9. ASSUME NEW t \in Task, wait_copy(t) PROVE EpollInv'
  <2>1. /\ pc[t] = "copy" /\ Return(t) /\ i' = [i EXCEPT ![t] = 0]
        /\ mine' = [mine EXCEPT ![t] = <<>>]
        /\ mixed' = [mixed EXCEPT ![t] = FALSE]
        /\ UNCHANGED <<fds, out_events, fd, shifted>>
    BY <1>9 DEF wait_copy
  <2>2. Types' /\ ListsFit'
    BY <1>0, <2>1 DEF Types, Pc, ListsFit, Return
  <2>3. ASSUME NEW u \in Task PROVE WaitInv(u)'
    <3>1. WaitInv(u)
      BY <2>3 DEF EpollInv
    <3>2. CASE u = t
      BY <1>0, <2>1, <3>1, <3>2 DEF WaitInv, Types, Return
    <3>3. CASE u # t
      BY <1>0, <2>1, <2>3, <3>1, <3>3 DEF WaitInv, Types, Return
    <3>4. QED
      BY <3>2, <3>3
  <2>4. OwnEvents'
    <3> SUFFICES ASSUME NEW u \in Task, ~mixed'[u], NEW k \in DOMAIN mine'[u]
                 PROVE  out_events'[k] = mine'[u][k].data
      BY DEF OwnEvents
    <3>1. u # t
      BY <1>0, <2>1 DEF Types
    <3>2. mixed'[u] = mixed[u] /\ mine'[u] = mine[u]
      BY <1>0, <2>1, <3>1 DEF Types
    <3>3. QED
      BY <2>1, <3>2 DEF EpollInv, OwnEvents
  <2>5. SleepsNoLonger'
    BY <1>0, <2>1 DEF EpollInv, SleepsNoLonger, Types, Return
  <2>6. QED
    BY <2>2, <2>3, <2>4, <2>5 DEF EpollInv
<1>10. CASE UNCHANGED vars
  BY <1>10, WaitsAlone DEF vars, wait
<1>11. QED
  BY <1>1, <1>2, <1>3, <1>4, <1>5, <1>6, <1>7, <1>8, <1>9, <1>10
     DEF Next, Waiting

(* The inductive invariant: types, lists within their arrays, the locals   *)
(* of the waits, and the two properties below (syscall.c:84-171).          *)
THEOREM EpollInvariant == Spec => []EpollInv
BY InitEpoll, EpollStep, PTL DEF Spec

(* The events that a wait copies are its own, for any number of waits on   *)
(* the one static array, unless another wait stored meanwhile              *)
(* (syscall.c:136, 152 and 168).                                           *)
THEOREM WaitsGetTheirOwn == Spec => []OwnEvents
<1>1. EpollInv => OwnEvents
  BY DEF EpollInv
<1>2. QED
  BY EpollInvariant, <1>1, PTL

(* A wait never sleeps another tick when its timeout is over               *)
(* (syscall.c:134 and 160).                                                *)
THEOREM WaitsAreShort == Spec => []SleepsNoLonger
<1>1. EpollInv => SleepsNoLonger
  BY DEF EpollInv
<1>2. QED
  BY EpollInvariant, <1>1, PTL
-----------------------------------------------------------------------------
(* Only wait_poll stores an event.                                         *)
LEMMA OthersStoreNothing ==
    ASSUME EpollInv, [Next]_vars, NEW t \in Task, ~wait_poll(t)
    PROVE  ~(Len(mine'[t]) > Len(mine[t]))
<1>1. mine \in [Task -> Seq(Entry)]
  BY DEF EpollInv, Types
<1>2. \/ mine' = mine
      \/ \E u \in Task : wait_poll(u) \/ wait_copy(u)
  BY DEF Next, Waiting, vars, SocketEvent, sys_epoll_create1, sys_epoll_ctl,
         sys_epoll_wait, wait_wake, wait_load, wait_end
<1>3. CASE mine' = mine
  BY <1>1, <1>3
<1>4. ASSUME NEW u \in Task, wait_poll(u) PROVE mine'[t] = mine[t]
  BY <1>1, <1>4 DEF wait_poll
<1>5. ASSUME NEW u \in Task, wait_copy(u)
      PROVE  mine'[t] = mine[t] \/ mine'[t] = <<>>
  BY <1>1, <1>5 DEF wait_copy
<1>6. QED
  BY <1>1, <1>2, <1>3, <1>4, <1>5

(* An event carries the data that is registered for the descriptor that    *)
(* was polled, unless the list was changed between the two reads of its    *)
(* entry (syscall.c:141 and 153).                                          *)
THEOREM EventsNamePolled == Spec => NamesPolled
<1> DEFINE Good ==
      \A t \in Task : Len(mine'[t]) > Len(mine[t]) /\ ~shifted[t] =>
         \E k \in DOMAIN fds[ep[t]] :
             fds[ep[t]][k] = mine'[t][Len(mine'[t])]
<1>1. EpollInv /\ [Next]_vars => Good
  <2> SUFFICES ASSUME EpollInv, [Next]_vars, NEW t \in Task,
                      Len(mine'[t]) > Len(mine[t]), ~shifted[t]
               PROVE  \E k \in DOMAIN fds[ep[t]] :
                         fds[ep[t]][k] = mine'[t][Len(mine'[t])]
    OBVIOUS
  <2>1. wait_poll(t)
    BY OthersStoreNothing
  <2>2. pc[t] = "poll" /\ WaitInv(t) /\ Types
    BY <2>1 DEF wait_poll, EpollInv
  <2> DEFINE s == fds[ep[t]]
             k == i[t]
  <2>3. /\ s \in Seq(Entry) /\ k \in Nat /\ Len(mine[t]) < k /\ k <= Len(s)
        /\ s[k].fd = fd[t] /\ mine[t] \in Seq(Entry)
        /\ mine \in [Task -> Seq(Entry)]
    BY <2>2 DEF WaitInv, Types
  <2>4. k \in DOMAIN s /\ s[k] \in Entry
    BY <2>3
  <2>5. PICK d \in DataAt(ep[t], i[t]) :
           mine' = [mine EXCEPT ![t] = Append(@, [fd |-> fd[t], data |-> d])]
    <3>1. Len(mine[t]) \in Nat
      BY <2>3
    <3>2. mine' # mine
      BY <3>1
    <3>3. QED
      BY <2>1, <3>2 DEF wait_poll
  <2>6. d = s[k].data
    BY <2>4, <2>5 DEF DataAt
  <2>7. [fd |-> fd[t], data |-> d] = s[k]
    BY <2>3, <2>4, <2>6 DEF Entry
  <2>8. mine'[t] = Append(mine[t], s[k])
    BY <2>3, <2>5, <2>7
  <2>9. mine'[t][Len(mine'[t])] = s[k]
    BY <2>3, <2>4, <2>8
  <2>10. QED
    BY <2>4, <2>9
<1>2. QED
  BY EpollInvariant, <1>1, PTL DEF Spec, NamesPolled
=============================================================================
