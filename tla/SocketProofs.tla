---------------------------- MODULE SocketProofs ----------------------------
(***************************************************************************)
(* Proofs about the sockets, for any number of sockets, tasks and paths    *)
(* and rings of any size: connected sockets are paired, paths unique, the  *)
(* rings are queues and no slot is lost.  UnixMsg implements UnixSocket,   *)
(* so that all of this holds with sendmsg and recvmsg too, and the files   *)
(* that messages carry are neither leaked nor given away twice.            *)
(***************************************************************************)
EXTENDS UnixMsg, SequenceTheorems, TLAPS

LEMMA NoneIsNoSocket == PEER_NONE \notin Sock
BY SocketAssumption DEF PEER_NONE, Sock

LEMMA InitPeerInv == Init => PeerInv
BY SocketAssumption DEF Init, PeerInv, PeersPaired, Sock, SkState

(* Steps that leave the pairing alone and hand out only slots in use.      *)
LEMMA UnpairedStep ==
    ASSUME PeerInv,
           used' = used, state' = state, peer_idx' = peer_idx,
           open' \subseteq {i \in Sock : used[i]}
    PROVE  PeerInv'
BY DEF PeerInv, PeersPaired

LEMMA PeerStep == PeerInv /\ [Next]_vars => PeerInv'
<1> SUFFICES ASSUME PeerInv, [Next]_vars PROVE PeerInv'
  OBVIOUS
<1> USE NoneIsNoSocket
<1>1. ASSUME NEW t \in Task, NEW i \in Sock, unix_socket(t, i) PROVE PeerInv'
  BY <1>1 DEF unix_socket, IsFirstUnused, FreshSlots, PeerInv, PeersPaired,
              SkState
<1>2. ASSUME NEW t \in Task, NEW a \in Sock, NEW b \in Sock,
             unix_socketpair(t, a, b)
      PROVE  PeerInv'
  <2>1. /\ used' = [i \in Sock |-> used[i] \/ i \in {a, b}]
        /\ state' = [state EXCEPT ![a] = "CONNECTED", ![b] = "CONNECTED"]
        /\ peer_idx' = [peer_idx EXCEPT ![a] = b, ![b] = a]
        /\ open' = open \cup {a, b}
        /\ ~used[a] /\ ~used[b] /\ a # b
    BY <1>2 DEF unix_socketpair, IsFirstUnused, FreshSlots
  <2>2. \A i \in Sock : used[i] => peer_idx[i] # a /\ peer_idx[i] # b
    BY <2>1 DEF PeerInv, PeersPaired
  <2>3. PeersPaired'
    BY <2>1, <2>2 DEF PeerInv, PeersPaired
  <2>4. QED
    BY <2>1, <2>3 DEF PeerInv, SkState
<1>3. ASSUME NEW t \in Task, NEW i \in Sock, NEW p \in Path, unix_bind(t, i, p)
      PROVE  PeerInv'
  BY <1>3 DEF unix_bind, history, PeerInv, PeersPaired, SkState
<1>4. ASSUME NEW t \in Task, NEW i \in Sock, unix_listen(t, i) PROVE PeerInv'
  BY <1>4 DEF unix_listen, history, PeerInv, PeersPaired, SkState
<1>5. ASSUME NEW t \in Task, NEW c \in Sock, NEW l \in Sock, NEW s \in Sock,
             unix_connect(t, c, l, s)
      PROVE  PeerInv'
  BY <1>5 DEF unix_connect, IsFirstUnused, PeerInv, PeersPaired, SkState
<1>6. ASSUME NEW t \in Task, NEW c \in Sock, NEW l \in Sock, NEW s \in Sock,
             connect_refused(t, c, l, s)
      PROVE  PeerInv'
  BY <1>6 DEF connect_refused, RefusedUsed, IsFirstUnused, PeerInv,
              PeersPaired, SkState
<1>7. ASSUME NEW t \in Task, NEW i \in Sock, unix_accept(t, i) PROVE PeerInv'
  <2>1. open' \subseteq {k \in Sock : used[k]}
    BY <1>7 DEF unix_accept, Accepted, PeerInv
  <2>2. QED
    BY <1>7, <2>1, UnpairedStep DEF unix_accept
<1>8. ASSUME NEW t \in Task, NEW i \in Sock, NEW n \in WriteLens,
             NEW b \in Byte, unix_sock_write(t, i, n, b)
      PROVE  PeerInv'
  BY <1>8, UnpairedStep DEF unix_sock_write, PeerInv
<1>9. ASSUME NEW t \in Task, NEW i \in Sock, NEW n \in ReadLens,
             unix_sock_read(t, i, n)
      PROVE  PeerInv'
  BY <1>9, UnpairedStep DEF unix_sock_read, PeerInv
<1>10. ASSUME NEW t \in Task, NEW i \in Sock, unix_sock_close(t, i)
       PROVE  PeerInv'
  <2>1. /\ used' = [used EXCEPT ![i] = FALSE]
        /\ state' = [state EXCEPT ![i] = "UNUSED"]
        /\ peer_idx' = PeersAfterClose(i)
        /\ open' = open \ {i}
        /\ used[i]
    BY <1>10 DEF unix_sock_close, PeerInv
  <2>2. peer_idx' \in [Sock -> Sock \cup {PEER_NONE}]
    BY <2>1, SocketAssumption DEF PeersAfterClose, PeerInv, Sock
  <2>3. ASSUME NEW j \in Sock, used'[j], peer_idx'[j] # PEER_NONE
        PROVE  j # i /\ used[j] /\ peer_idx'[j] = peer_idx[j]
               /\ peer_idx[j] # PEER_NONE /\ peer_idx[j] # i
    <3>1. j # i /\ used[j]
      BY <2>1, <2>3 DEF PeerInv
    <3>2. ~(j = peer_idx[i] /\ peer_idx[j] = i) /\ peer_idx'[j] = peer_idx[j]
      BY <2>1, <2>3, <3>1 DEF PeersAfterClose
    <3>3. QED
      BY <2>3, <3>1, <3>2 DEF PeerInv, PeersPaired
  <2>4. ASSUME NEW j \in Sock, used'[j], peer_idx'[j] # PEER_NONE
        PROVE  /\ used'[peer_idx'[j]]
               /\ peer_idx'[peer_idx'[j]] = j
               /\ state'[j] = "CONNECTED" /\ state'[peer_idx'[j]] = "CONNECTED"
    <3> DEFINE k == peer_idx[j]
    <3>1. k \in Sock /\ k # i /\ used[k] /\ peer_idx[k] = j /\ j # i
          /\ state[j] = "CONNECTED" /\ state[k] = "CONNECTED"
          /\ peer_idx'[j] = k
      BY <2>3, <2>4 DEF PeerInv, PeersPaired
    <3>2. peer_idx'[k] = j
      BY <2>1, <3>1 DEF PeersAfterClose
    <3>3. QED
      BY <2>1, <3>1, <3>2 DEF PeerInv
  <2>5. QED
    BY <2>1, <2>2, <2>4 DEF PeerInv, PeersPaired, SkState
<1>11. ASSUME NEW t \in Task, NEW i \in Sock, NEW f \in Flags,
              unix_sock_fcntl(t, i, f)
       PROVE  PeerInv'
  BY <1>11, UnpairedStep DEF unix_sock_fcntl, history, PeerInv
<1>12. ASSUME NEW t \in Task, NEW i \in Sock, NEW f \in Flags,
              NEW n \in {0, EVENT_LEN}, NEW b \in Byte,
              unix_eventfd(t, i, f, n, b)
       PROVE  PeerInv'
  BY <1>12 DEF unix_eventfd, IsFirstUnused, FreshSlots, PeerInv, PeersPaired,
               SkState
<1>13. ASSUME NEW t \in Task, NEW p \in Path, vfs_unlink(t, p) PROVE PeerInv'
  BY <1>13, UnpairedStep DEF vfs_unlink, table, history, PeerInv
<1>14. ASSUME NEW t \in Task, Blocked(t) PROVE PeerInv'
  <2>1. CASE accept_wake(t)
    BY <2>1, UnpairedStep DEF accept_wake, table, history, PeerInv
  <2>2. CASE accept_go(t)
    BY <2>2, UnpairedStep DEF accept_go, table, history, PeerInv
  <2>3. CASE accept_shift(t)
    <3>1. open' \subseteq {k \in Sock : used[k]}
      BY <2>3 DEF accept_shift, Accepted, PeerInv
    <3>2. QED
      BY <2>3, <3>1, UnpairedStep DEF accept_shift
  <2>4. CASE read_wake(t)
    BY <2>4, UnpairedStep DEF read_wake, table, history, PeerInv
  <2>5. ASSUME NEW n \in ReadLens, read_go(t, n) PROVE PeerInv'
    BY <2>5, UnpairedStep DEF read_go, PeerInv
  <2>6. QED
    BY <1>14, <2>1, <2>2, <2>3, <2>4, <2>5 DEF Blocked
<1>15. CASE UNCHANGED vars
  BY <1>15, UnpairedStep DEF vars, PeerInv
<1>16. QED
  BY <1>1, <1>2, <1>3, <1>4, <1>5, <1>6, <1>7, <1>8, <1>9, <1>10, <1>11,
     <1>12, <1>13, <1>14, <1>15 DEF Next

(* The inductive invariant: programs know only slots in use, and connected *)
(* slots are paired (un_socket.c).                                         *)
THEOREM PeerInvariant == Spec => []PeerInv
BY InitPeerInv, PeerStep, PTL DEF Spec

(* unix_sock_write always reaches the socket that is connected back to the *)
(* writer, through every order of closing, refusing and reusing slots.     *)
THEOREM SocketsPaired == Spec => []PeersPaired
<1>1. PeerInv => PeersPaired
  BY DEF PeerInv
<1>2. QED
  BY PeerInvariant, <1>1, PTL
-----------------------------------------------------------------------------
(* Sockets that connect and bind look for.                                 *)
Bound(i) == used[i] /\ state[i] \in {"BOUND", "LISTENING"}

(* The inductive invariant behind PathsUnique.                             *)
PathInv ==
    /\ used \in [Sock -> BOOLEAN] /\ state \in [Sock -> SkState]
    /\ path \in [Sock -> Path \cup {NoPath}]
    /\ PathsUnique

(* Steps that bind no socket and move no bound one.                        *)
LEMMA NothingBound ==
    ASSUME PathInv,
           used' \in [Sock -> BOOLEAN], state' \in [Sock -> SkState],
           path' \in [Sock -> Path \cup {NoPath}],
           \A i \in Sock : Bound(i)' => Bound(i) /\ path'[i] = path[i]
    PROVE  PathInv'
BY DEF PathInv, PathsUnique, Bound

LEMMA SameTable ==
    ASSUME PathInv, used' = used, state' = state, path' = path
    PROVE  PathInv'
BY DEF PathInv, PathsUnique

LEMMA PathStep == PathInv /\ [Next]_vars => PathInv'
<1> SUFFICES ASSUME PathInv, [Next]_vars PROVE PathInv'
  OBVIOUS
<1>1. ASSUME NEW t \in Task, NEW i \in Sock, unix_socket(t, i) PROVE PathInv'
  BY <1>1, NothingBound DEF unix_socket, FreshSlots, Bound, PathInv, SkState
<1>2. ASSUME NEW t \in Task, NEW a \in Sock, NEW b \in Sock,
             unix_socketpair(t, a, b)
      PROVE  PathInv'
  BY <1>2, NothingBound DEF unix_socketpair, FreshSlots, Bound, PathInv, SkState
<1>3. ASSUME NEW t \in Task, NEW i \in Sock, NEW p \in Path, unix_bind(t, i, p)
      PROVE  PathInv'
  <2>1. /\ used' = used /\ state[i] = "CREATED"
        /\ path' = [path EXCEPT ![i] = p]
    BY <1>3 DEF unix_bind
  <2>2. CASE state' = state
    BY <2>1, <2>2, NothingBound DEF Bound, PathInv
  <2>3. CASE ~Taken(p, i) /\ state' = [state EXCEPT ![i] = "BOUND"]
    <3>1. \A k \in Sock \ {i} : used[k] => path[k] # p
      BY <2>3 DEF Taken
    <3>2. PathsUnique'
      BY <2>1, <2>3, <3>1 DEF PathsUnique, PathInv
    <3>3. QED
      BY <2>1, <2>3, <3>2 DEF PathInv, SkState
  <2>4. QED
    BY <1>3, <2>2, <2>3 DEF unix_bind
<1>4. ASSUME NEW t \in Task, NEW i \in Sock, unix_listen(t, i) PROVE PathInv'
  BY <1>4, NothingBound DEF unix_listen, Bound, PathInv, SkState
<1>5. ASSUME NEW t \in Task, NEW c \in Sock, NEW l \in Sock, NEW s \in Sock,
             unix_connect(t, c, l, s)
      PROVE  PathInv'
  BY <1>5, NothingBound DEF unix_connect, Bound, PathInv, SkState
<1>6. ASSUME NEW t \in Task, NEW c \in Sock, NEW l \in Sock, NEW s \in Sock,
             connect_refused(t, c, l, s)
      PROVE  PathInv'
  BY <1>6, NothingBound DEF connect_refused, RefusedUsed, Bound, PathInv,
                            SkState
<1>7. ASSUME NEW t \in Task, NEW i \in Sock, unix_accept(t, i) PROVE PathInv'
  BY <1>7, SameTable DEF unix_accept
<1>8. ASSUME NEW t \in Task, NEW i \in Sock, NEW n \in WriteLens,
             NEW b \in Byte, unix_sock_write(t, i, n, b)
      PROVE  PathInv'
  BY <1>8, SameTable DEF unix_sock_write
<1>9. ASSUME NEW t \in Task, NEW i \in Sock, NEW n \in ReadLens,
             unix_sock_read(t, i, n)
      PROVE  PathInv'
  BY <1>9, SameTable DEF unix_sock_read
<1>10. ASSUME NEW t \in Task, NEW i \in Sock, unix_sock_close(t, i)
       PROVE  PathInv'
  BY <1>10, NothingBound DEF unix_sock_close, Bound, PathInv, SkState
<1>11. ASSUME NEW t \in Task, NEW i \in Sock, NEW f \in Flags,
              unix_sock_fcntl(t, i, f)
       PROVE  PathInv'
  BY <1>11, SameTable DEF unix_sock_fcntl
<1>12. ASSUME NEW t \in Task, NEW i \in Sock, NEW f \in Flags,
              NEW n \in {0, EVENT_LEN}, NEW b \in Byte,
              unix_eventfd(t, i, f, n, b)
       PROVE  PathInv'
  BY <1>12, NothingBound DEF unix_eventfd, FreshSlots, Bound, PathInv, SkState
<1>13. ASSUME NEW t \in Task, NEW p \in Path, vfs_unlink(t, p) PROVE PathInv'
  BY <1>13, SameTable DEF vfs_unlink, table
<1>14. ASSUME NEW t \in Task, Blocked(t) PROVE PathInv'
  <2>1. used' = used /\ state' = state /\ path' = path
    BY <1>14 DEF Blocked, accept_wake, accept_go, accept_shift, read_wake,
                 read_go, table
  <2>2. QED
    BY <2>1, SameTable
<1>15. CASE UNCHANGED vars
  BY <1>15, SameTable DEF vars, table
<1>16. QED
  BY <1>1, <1>2, <1>3, <1>4, <1>5, <1>6, <1>7, <1>8, <1>9, <1>10, <1>11,
     <1>12, <1>13, <1>14, <1>15 DEF Next

(* Two sockets are never bound to one path, for any number of sockets and  *)
(* paths, although a failing bind leaves its path behind and the socket    *)
(* file may be removed at any time (un_socket.c:139-174).                  *)
THEOREM PathsStayUnique == Spec => []PathsUnique
<1>1. Init => PathInv
  BY DEF Init, PathInv, PathsUnique, SkState
<1>2. PathInv => PathsUnique
  BY DEF PathInv
<1>3. QED
  BY <1>1, <1>2, PathStep, PTL DEF Spec
-----------------------------------------------------------------------------
LEMMA SeqAsFunction ==
    ASSUME NEW S, NEW s \in Seq(S)
    PROVE  s = [k \in 1 .. Len(s) |-> s[k]]
OBVIOUS

(* Places of a ring.                                                       *)
Place == 0 .. RX_CAP - 1

(* n places on from a.                                                     *)
LEMMA Forward ==
    ASSUME NEW a \in Place, NEW n \in 0 .. RX_CAP
    PROVE  /\ (a + n) % RX_CAP = IF a + n < RX_CAP THEN a + n
                                 ELSE a + n - RX_CAP
           /\ (a + n) % RX_CAP \in Place
BY SocketAssumption DEF Place

(* The way from b to a.                                                    *)
LEMMA Distance ==
    ASSUME NEW a \in Place, NEW b \in Place
    PROVE  /\ (a + RX_CAP - b) % RX_CAP = IF a >= b THEN a - b
                                          ELSE a + RX_CAP - b
           /\ (a + RX_CAP - b) % RX_CAP \in Place
BY SocketAssumption DEF Place

LEMMA RoomLeft ==
    ASSUME NEW a \in Place, NEW b \in Place
    PROVE  (a + RX_CAP - 1 - b) % RX_CAP
              = RX_CAP - 1 - ((b + RX_CAP - a) % RX_CAP)
<1>1. CASE a > b
  <2>1. (a + RX_CAP - 1 - b) % RX_CAP = a - 1 - b
    BY <1>1, SocketAssumption DEF Place
  <2>2. QED
    BY <1>1, <2>1, Distance, SocketAssumption DEF Place
<1>2. CASE a <= b
  <2>1. (a + RX_CAP - 1 - b) % RX_CAP = a + RX_CAP - 1 - b
    BY <1>2, SocketAssumption DEF Place
  <2>2. QED
    BY <1>2, <2>1, Distance, SocketAssumption DEF Place
<1>3. QED
  BY <1>1, <1>2 DEF Place

(* The inductive invariant behind RingIsFifo: it holds of every slot.      *)
RingInv ==
    /\ rhd \in [Sock -> Place] /\ rtl \in [Sock -> Place]
    /\ rx \in [Sock -> [Place -> Byte]]
    /\ pending \in [Sock -> Seq(Byte)]
    /\ on \in [Task -> Sock]
    /\ \A i \in Sock : Contents(i) = pending[i]

LEMMA RingTypes ==
    ASSUME RingInv, NEW i \in Sock
    PROVE  /\ rhd[i] \in Place /\ rtl[i] \in Place
           /\ pending[i] \in Seq(Byte) /\ Len(pending[i]) = Filled(i)
           /\ Filled(i) \in Place
           /\ \A k \in 1 .. Filled(i) :
                 pending[i][k] = rx[i][(rtl[i] + k - 1) % RX_CAP]
<1>1. rhd[i] \in Place /\ rtl[i] \in Place /\ pending[i] \in Seq(Byte)
      /\ pending[i] = Contents(i)
  BY DEF RingInv
<1>2. Filled(i) \in Place
  BY <1>1, Distance DEF Filled
<1>3. Filled(i) \in Nat
  BY <1>2, SocketAssumption DEF Place
<1>4. QED
  BY <1>1, <1>2, <1>3 DEF Contents

LEMMA SameRing ==
    ASSUME NEW i \in Sock, Contents(i) = pending[i],
           rhd'[i] = rhd[i], rtl'[i] = rtl[i], rx'[i] = rx[i],
           pending'[i] = pending[i]
    PROVE  Contents(i)' = pending'[i]
BY DEF Contents, Filled

LEMMA EmptyRing ==
    ASSUME NEW i \in Sock, rhd'[i] = 0, rtl'[i] = 0, pending'[i] = <<>>
    PROVE  Contents(i)' = pending'[i]
<1>1. Filled(i)' = 0
  BY SocketAssumption DEF Filled
<1>2. QED
  BY <1>1 DEF Contents

(* n bytes put behind the F that wait: where the head is, how many bytes   *)
(* wait, and which places are written.                                     *)
LEMMA PushPlaces ==
    ASSUME NEW r \in Place, NEW t \in Place, NEW F, NEW n \in Nat,
           F = (r + RX_CAP - t) % RX_CAP, F + n <= RX_CAP - 1
    PROVE  /\ (r + n) % RX_CAP \in Place
           /\ (((r + n) % RX_CAP) + RX_CAP - t) % RX_CAP = F + n
           /\ \A k \in 1 .. F + n :
                 LET w == (t + k - 1) % RX_CAP
                 IN  /\ w \in Place
                     /\ ((w + RX_CAP - r) % RX_CAP < n) <=> k > F
<1>1. F = (IF r >= t THEN r - t ELSE r + RX_CAP - t) /\ F \in Nat
  BY Distance, SocketAssumption DEF Place
<1>2. n \in 0 .. RX_CAP
  BY <1>1, SocketAssumption
<1> DEFINE r1 == (r + n) % RX_CAP
<1>3. r1 \in Place
      /\ r1 = IF r + n < RX_CAP THEN r + n ELSE r + n - RX_CAP
  BY <1>2, Forward
<1>4. (r1 + RX_CAP - t) % RX_CAP = F + n
  <2> HIDE DEF r1
  <2>1. (r1 + RX_CAP - t) % RX_CAP = IF r1 >= t THEN r1 - t
                                     ELSE r1 + RX_CAP - t
    BY <1>3, Distance
  <2>2. QED
    BY <1>1, <1>3, <2>1, SocketAssumption DEF Place
<1>5. ASSUME NEW k \in 1 .. F + n
      PROVE  LET w == (t + k - 1) % RX_CAP
             IN  /\ w \in Place
                 /\ ((w + RX_CAP - r) % RX_CAP < n) <=> k > F
  <2> DEFINE w == (t + k - 1) % RX_CAP
  <2>1. k - 1 \in 0 .. RX_CAP /\ k \in Nat
    BY <1>1, SocketAssumption
  <2>2. w = (t + (k - 1)) % RX_CAP
    BY <2>1, SocketAssumption DEF Place
  <2>3. w \in Place
        /\ w = IF t + k - 1 < RX_CAP THEN t + k - 1 ELSE t + k - 1 - RX_CAP
    BY <2>1, <2>2, Forward, SocketAssumption DEF Place
  <2> HIDE DEF w
  <2>4. (w + RX_CAP - r) % RX_CAP = IF w >= r THEN w - r ELSE w + RX_CAP - r
    BY <2>3, Distance
  <2>5. ((w + RX_CAP - r) % RX_CAP < n) <=> k > F
    BY <1>1, <2>1, <2>3, <2>4, SocketAssumption DEF Place
  <2>6. QED
    BY <2>3, <2>5 DEF w
<1>6. QED
  BY <1>3, <1>4, <1>5

(* n of F bytes taken: where the tail is, how many bytes wait, and which.  *)
LEMMA PopPlaces ==
    ASSUME NEW r \in Place, NEW t \in Place, NEW F, NEW n \in Nat,
           F = (r + RX_CAP - t) % RX_CAP, n <= F
    PROVE  /\ (t + n) % RX_CAP \in Place
           /\ (r + RX_CAP - ((t + n) % RX_CAP)) % RX_CAP = F - n
           /\ \A k \in 1 .. F - n :
                 (((t + n) % RX_CAP) + k - 1) % RX_CAP
                    = (t + (k + n) - 1) % RX_CAP
<1>1. F = (IF r >= t THEN r - t ELSE r + RX_CAP - t) /\ F \in Nat
      /\ F \in Place
  BY Distance, SocketAssumption DEF Place
<1>2. n \in 0 .. RX_CAP
  BY <1>1, SocketAssumption DEF Place
<1> DEFINE t1 == (t + n) % RX_CAP
<1>3. t1 \in Place
      /\ t1 = IF t + n < RX_CAP THEN t + n ELSE t + n - RX_CAP
  BY <1>2, Forward
<1>4. (r + RX_CAP - t1) % RX_CAP = F - n
  <2> HIDE DEF t1
  <2>1. (r + RX_CAP - t1) % RX_CAP = IF r >= t1 THEN r - t1
                                     ELSE r + RX_CAP - t1
    BY <1>3, Distance
  <2>2. QED
    BY <1>1, <1>3, <2>1, SocketAssumption DEF Place
<1>5. ASSUME NEW k \in 1 .. F - n
      PROVE  (t1 + k - 1) % RX_CAP = (t + (k + n) - 1) % RX_CAP
  <2>1. k - 1 \in 0 .. RX_CAP /\ k + n - 1 \in 0 .. RX_CAP /\ k \in Nat
    BY <1>1, SocketAssumption DEF Place
  <2> HIDE DEF t1
  <2>2. t1 + k - 1 = t1 + (k - 1) /\ t + (k + n) - 1 = t + (k + n - 1)
    BY <1>3, <2>1, SocketAssumption DEF Place
  <2>3. /\ (t1 + (k - 1)) % RX_CAP = IF t1 + (k - 1) < RX_CAP
             THEN t1 + (k - 1) ELSE t1 + (k - 1) - RX_CAP
        /\ (t + (k + n - 1)) % RX_CAP = IF t + (k + n - 1) < RX_CAP
             THEN t + (k + n - 1) ELSE t + (k + n - 1) - RX_CAP
    BY <1>3, <2>1, Forward
  <2>4. QED
    BY <1>1, <1>3, <2>1, <2>2, <2>3, SocketAssumption DEF Place
<1>6. QED
  BY <1>3, <1>4, <1>5

(* push_rx puts the bytes behind those that wait.                          *)
LEMMA PushKeepsOrder ==
    ASSUME RingInv, NEW i \in Sock, NEW n \in Nat, NEW b \in Byte,
           push_rx(i, n, b), rtl' = rtl
    PROVE  /\ rhd' \in [Sock -> Place] /\ rx' \in [Sock -> [Place -> Byte]]
           /\ pending' \in [Sock -> Seq(Byte)]
           /\ \A j \in Sock : Contents(j)' = pending'[j]
<1> DEFINE p == Pushed(n, i)
           F == Filled(i)
           old == pending[i]
           more == [k \in 1 .. p |-> b]
<1>1. rhd[i] \in Place /\ rtl[i] \in Place /\ F \in Place
      /\ F = (rhd[i] + RX_CAP - rtl[i]) % RX_CAP
  BY RingTypes DEF Filled
<1>2. Room(i) = RX_CAP - 1 - F
  BY <1>1, RoomLeft DEF Room
<1>3. p \in Nat /\ F + p <= RX_CAP - 1
  <2> HIDE DEF F
  <2>1. QED
    BY <1>1, <1>2, SocketAssumption DEF Pushed, Place
<1>4. old \in Seq(Byte) /\ Len(old) = F
      /\ \A k \in 1 .. F : old[k] = rx[i][(rtl[i] + k - 1) % RX_CAP]
  BY RingTypes
<1>5. rhd'[i] = (rhd[i] + p) % RX_CAP /\ rtl'[i] = rtl[i]
  BY DEF push_rx, NewHead, RingInv
<1>6. rx'[i] = [k \in Place |-> IF (k + RX_CAP - rhd[i]) % RX_CAP < p
                                THEN b ELSE rx[i][k]]
      /\ rx' \in [Sock -> [Place -> Byte]]
  BY DEF push_rx, RingInv, Place
<1>7. more \in Seq(Byte) /\ Len(more) = p /\ \A k \in 1 .. p : more[k] = b
  BY <1>3
<1>8. pending'[i] = old \o more /\ pending' \in [Sock -> Seq(Byte)]
  <2>1. old \o more \in Seq(Byte)
    BY <1>4, <1>7, ConcatProperties
  <2>2. pending' = [pending EXCEPT ![i] = old \o more]
    BY DEF push_rx, RingInv
  <2> HIDE DEF more
  <2>3. QED
    BY <2>1, <2>2 DEF RingInv
<1> HIDE DEF p, F, old, more
<1>9. /\ rhd'[i] \in Place
      /\ (rhd'[i] + RX_CAP - rtl[i]) % RX_CAP = F + p
      /\ \A k \in 1 .. F + p :
            LET w == (rtl[i] + k - 1) % RX_CAP
            IN  /\ w \in Place
                /\ ((w + RX_CAP - rhd[i]) % RX_CAP < p) <=> k > F
  BY <1>1, <1>3, <1>5, PushPlaces
<1>10. ASSUME NEW k \in 1 .. F + p
       PROVE  rx'[i][(rtl[i] + k - 1) % RX_CAP] = (old \o more)[k]
  <2>1. rx'[i][(rtl[i] + k - 1) % RX_CAP]
          = IF k > F THEN b ELSE rx[i][(rtl[i] + k - 1) % RX_CAP]
    BY <1>6, <1>9
  <2>2. F \in Nat /\ k \in Nat
    BY <1>1, SocketAssumption DEF Place
  <2>3. (old \o more)[k] = IF k > F THEN more[k - F] ELSE old[k]
    BY <1>3, <1>4, <1>7, <2>2
  <2>4. k > F => k - F \in 1 .. p
    BY <1>3, <2>2
  <2>5. QED
    BY <1>4, <1>7, <2>1, <2>2, <2>3, <2>4
<1>11. Contents(i)' = pending'[i]
  <2>1. Contents(i)' = [k \in 1 .. F + p |->
                          rx'[i][(rtl[i] + k - 1) % RX_CAP]]
    BY <1>5, <1>9 DEF Contents, Filled
  <2>2. old \o more \in Seq(Byte) /\ Len(old \o more) = F + p
    BY <1>4, <1>7, ConcatProperties
  <2>3. old \o more = [k \in 1 .. F + p |-> (old \o more)[k]]
    BY <2>2, SeqAsFunction
  <2>4. QED
    BY <1>8, <1>10, <2>1, <2>3
<1>12. ASSUME NEW j \in Sock, j # i PROVE Contents(j)' = pending'[j]
  BY <1>12, SameRing DEF push_rx, RingInv
<1>13. rhd' \in [Sock -> Place]
  BY <1>9 DEF push_rx, RingInv
<1>14. QED
  BY <1>6, <1>8, <1>11, <1>12, <1>13

(* Drain takes the bytes that have waited longest.                         *)
LEMMA DrainKeepsOrder ==
    ASSUME RingInv, NEW i \in Sock, NEW n \in Nat, Drain(i, n),
           rhd' = rhd, rx' = rx
    PROVE  /\ rtl' \in [Sock -> Place]
           /\ pending' \in [Sock -> Seq(Byte)]
           /\ \A j \in Sock : Contents(j)' = pending'[j]
<1> DEFINE p == Popped(n, i)
           F == Filled(i)
           old == pending[i]
<1>1. rhd[i] \in Place /\ rtl[i] \in Place /\ F \in Place
      /\ F = (rhd[i] + RX_CAP - rtl[i]) % RX_CAP
  BY RingTypes DEF Filled
<1>2. p \in Nat /\ p <= F /\ F \in Nat
  <2> HIDE DEF F
  <2>1. QED
    BY <1>1, SocketAssumption DEF Popped, Place, F
<1>3. old \in Seq(Byte) /\ Len(old) = F
      /\ \A k \in 1 .. F : old[k] = rx[i][(rtl[i] + k - 1) % RX_CAP]
  BY RingTypes
<1>4. rtl'[i] = (rtl[i] + p) % RX_CAP
  BY DEF Drain, RingInv
<1>5. pending' = [pending EXCEPT ![i] = SubSeq(old, p + 1, F)]
  BY <1>3 DEF Drain, RingInv
<1> HIDE DEF p, F, old
<1>6. SubSeq(old, p + 1, F) \in Seq(Byte)
      /\ Len(SubSeq(old, p + 1, F)) = F - p
      /\ \A k \in 1 .. F - p : SubSeq(old, p + 1, F)[k] = old[k + p]
  BY <1>2, <1>3
<1>7. pending'[i] = SubSeq(old, p + 1, F) /\ pending' \in [Sock -> Seq(Byte)]
  BY <1>5, <1>6 DEF RingInv
<1>8. /\ rtl'[i] \in Place
      /\ (rhd[i] + RX_CAP - rtl'[i]) % RX_CAP = F - p
      /\ \A k \in 1 .. F - p : (rtl'[i] + k - 1) % RX_CAP
                                  = (rtl[i] + (k + p) - 1) % RX_CAP
  <2> DEFINE r == rhd[i]
             t == rtl[i]
  <2>1. r \in Place /\ t \in Place /\ F = (r + RX_CAP - t) % RX_CAP
    BY <1>1
  <2> HIDE DEF r, t
  <2>2. /\ (t + p) % RX_CAP \in Place
        /\ (r + RX_CAP - ((t + p) % RX_CAP)) % RX_CAP = F - p
        /\ \A k \in 1 .. F - p :
              (((t + p) % RX_CAP) + k - 1) % RX_CAP
                 = (t + (k + p) - 1) % RX_CAP
    BY <1>2, <2>1, PopPlaces
  <2>3. QED
    BY <1>4, <2>2 DEF r, t
<1>9. ASSUME NEW k \in 1 .. F - p
      PROVE  rx[i][(rtl'[i] + k - 1) % RX_CAP] = pending'[i][k]
  <2>1. k + p \in 1 .. F
    BY <1>2
  <2>2. QED
    BY <1>3, <1>6, <1>7, <1>8, <2>1
<1>10. Contents(i)' = pending'[i]
  <2>1. Contents(i)' = [k \in 1 .. F - p |->
                          rx[i][(rtl'[i] + k - 1) % RX_CAP]]
    BY <1>8 DEF Contents, Filled
  <2>2. pending'[i] = [k \in 1 .. F - p |-> pending'[i][k]]
    BY <1>6, <1>7, SeqAsFunction
  <2>3. QED
    BY <1>9, <2>1, <2>2
<1>11. ASSUME NEW j \in Sock, j # i PROVE Contents(j)' = pending'[j]
  BY <1>11, SameRing DEF Drain, RingInv
<1>12. rtl' \in [Sock -> Place]
  BY <1>8 DEF Drain, RingInv
<1>13. QED
  BY <1>7, <1>10, <1>11, <1>12

(* Steps that empty some rings and leave the others alone.                 *)
LEMMA RingsReset ==
    ASSUME RingInv, NEW S \in SUBSET Sock, rx' = rx, on' \in [Task -> Sock],
           rhd' = [i \in Sock |-> IF i \in S THEN 0 ELSE rhd[i]],
           rtl' = [i \in Sock |-> IF i \in S THEN 0 ELSE rtl[i]],
           pending' = [i \in Sock |-> IF i \in S THEN <<>> ELSE pending[i]]
    PROVE  RingInv'
<1>1. rhd' \in [Sock -> Place] /\ rtl' \in [Sock -> Place]
      /\ pending' \in [Sock -> Seq(Byte)]
  BY SocketAssumption DEF RingInv, Place
<1>2. ASSUME NEW i \in Sock PROVE Contents(i)' = pending'[i]
  <2>1. CASE i \in S
    BY <2>1, EmptyRing
  <2>2. CASE i \notin S
    BY <2>2, SameRing DEF RingInv
  <2>3. QED
    BY <2>1, <2>2
<1>3. QED
  BY <1>1, <1>2 DEF RingInv

(* Steps that touch no ring.                                               *)
LEMMA RingsAlone ==
    ASSUME RingInv, on' \in [Task -> Sock],
           rx' = rx, rhd' = rhd, rtl' = rtl, pending' = pending
    PROVE  RingInv'
BY SameRing DEF RingInv

LEMMA RingStep == PeerInv /\ RingInv /\ [Next]_vars => RingInv'
<1> SUFFICES ASSUME PeerInv, RingInv, [Next]_vars PROVE RingInv'
  OBVIOUS
<1>0. on \in [Task -> Sock] /\ 0 \in Sock
  BY SocketAssumption DEF RingInv, Sock
<1>1. ASSUME NEW t \in Task, NEW i \in Sock, unix_socket(t, i) PROVE RingInv'
  BY <1>0, <1>1, RingsReset DEF unix_socket, FreshSlots, EmptyRings
<1>2. ASSUME NEW t \in Task, NEW a \in Sock, NEW b \in Sock,
             unix_socketpair(t, a, b)
      PROVE  RingInv'
  BY <1>0, <1>2, RingsReset DEF unix_socketpair, FreshSlots, EmptyRings
<1>3. ASSUME NEW t \in Task, NEW i \in Sock, NEW p \in Path, unix_bind(t, i, p)
      PROVE  RingInv'
  BY <1>0, <1>3, RingsAlone DEF unix_bind, history
<1>4. ASSUME NEW t \in Task, NEW i \in Sock, unix_listen(t, i) PROVE RingInv'
  BY <1>0, <1>4, RingsAlone DEF unix_listen, history
<1>5. ASSUME NEW t \in Task, NEW c \in Sock, NEW l \in Sock, NEW s \in Sock,
             unix_connect(t, c, l, s) \/ connect_refused(t, c, l, s)
      PROVE  RingInv'
  <2>1. rtl' = [rtl EXCEPT ![s] = 0] /\ EmptyRings({s}) /\ on' = on
    BY <1>5 DEF unix_connect, connect_refused
  <2>2. rtl' = [i \in Sock |-> IF i \in {s} THEN 0 ELSE rtl[i]]
    BY <2>1 DEF RingInv
  <2>3. QED
    BY <1>0, <2>1, <2>2, RingsReset DEF EmptyRings
<1>6. ASSUME NEW t \in Task, NEW i \in Sock, unix_accept(t, i) PROVE RingInv'
  BY <1>0, <1>6, RingsAlone DEF unix_accept
<1>7. ASSUME NEW t \in Task, NEW i \in Sock, NEW n \in WriteLens,
             NEW b \in Byte, unix_sock_write(t, i, n, b)
      PROVE  RingInv'
  <2>1. peer_idx[i] \in Sock /\ n \in Nat
    BY <1>7, SocketAssumption DEF unix_sock_write, PeerInv
  <2>2. push_rx(peer_idx[i], n, b) /\ rtl' = rtl /\ on' = on
    BY <1>7 DEF unix_sock_write
  <2>3. QED
    BY <2>1, <2>2, PushKeepsOrder DEF RingInv
<1>8. ASSUME NEW t \in Task, NEW i \in Sock, NEW n \in ReadLens,
             unix_sock_read(t, i, n)
      PROVE  RingInv'
  <2>1. rx' = rx /\ rhd' = rhd /\ on' \in [Task -> Sock]
    BY <1>0, <1>8 DEF unix_sock_read
  <2>2. CASE Drain(i, n)
    BY <2>1, <2>2, DrainKeepsOrder, SocketAssumption DEF RingInv
  <2>3. CASE UNCHANGED <<rtl, pending>>
    BY <2>1, <2>3, RingsAlone
  <2>4. QED
    BY <1>8, <2>2, <2>3 DEF unix_sock_read
<1>9. ASSUME NEW t \in Task, NEW i \in Sock, unix_sock_close(t, i)
      PROVE  RingInv'
  <2>1. rtl' = [rtl EXCEPT ![i] = 0] /\ EmptyRings({i}) /\ on' = on
    BY <1>9 DEF unix_sock_close
  <2>2. rtl' = [j \in Sock |-> IF j \in {i} THEN 0 ELSE rtl[j]]
    BY <2>1 DEF RingInv
  <2>3. QED
    BY <1>0, <2>1, <2>2, RingsReset DEF EmptyRings
<1>10. ASSUME NEW t \in Task, NEW i \in Sock, NEW f \in Flags,
              unix_sock_fcntl(t, i, f)
       PROVE  RingInv'
  BY <1>0, <1>10, RingsAlone DEF unix_sock_fcntl, history
<1>11. ASSUME NEW t \in Task, NEW i \in Sock, NEW f \in Flags,
              NEW n \in {0, EVENT_LEN}, NEW b \in Byte,
              unix_eventfd(t, i, f, n, b)
       PROVE  RingInv'
  <2>1. /\ rx' = [rx EXCEPT ![i] = [k \in Place |->
                                      IF k < n THEN b ELSE rx[i][k]]]
        /\ rhd' = [rhd EXCEPT ![i] = n]
        /\ pending' = [pending EXCEPT ![i] = [k \in 1 .. n |-> b]]
        /\ rtl' = [j \in Sock |-> IF j \in {i} THEN 0 ELSE rtl[j]]
        /\ on' = on
    BY <1>11 DEF unix_eventfd, FreshSlots, Place
  <2>2. n \in Place /\ 0 \in Place /\ n \in Nat
    BY SocketAssumption DEF Place
  <2>3. [k \in 1 .. n |-> b] \in Seq(Byte)
    BY <2>2
  <2>4. /\ rhd' \in [Sock -> Place] /\ rtl' \in [Sock -> Place]
        /\ rx' \in [Sock -> [Place -> Byte]]
        /\ pending' \in [Sock -> Seq(Byte)]
    BY <2>1, <2>2, <2>3 DEF RingInv
  <2>5. Contents(i)' = pending'[i]
    <3>1. rhd'[i] = n /\ rtl'[i] = 0 /\ pending'[i] = [k \in 1 .. n |-> b]
          /\ rx'[i] = [k \in Place |-> IF k < n THEN b ELSE rx[i][k]]
      BY <2>1 DEF RingInv
    <3>2. (n + RX_CAP - 0) % RX_CAP = n
      BY <2>2, Distance, SocketAssumption DEF Place
    <3>3. Filled(i)' = n
      BY <3>1, <3>2 DEF Filled
    <3>4. \A k \in 1 .. n : (0 + k - 1) % RX_CAP = k - 1 /\ k - 1 \in Place
                            /\ k - 1 < n
      BY <2>2, SocketAssumption DEF Place
    <3>5. QED
      BY <3>1, <3>3, <3>4 DEF Contents
  <2>6. ASSUME NEW j \in Sock, j # i PROVE Contents(j)' = pending'[j]
    BY <2>1, <2>6, SameRing DEF RingInv
  <2>7. QED
    BY <1>0, <2>1, <2>4, <2>5, <2>6 DEF RingInv
<1>12. ASSUME NEW t \in Task, NEW p \in Path, vfs_unlink(t, p) PROVE RingInv'
  BY <1>0, <1>12, RingsAlone DEF vfs_unlink, table, history
<1>13. ASSUME NEW t \in Task, Blocked(t) PROVE RingInv'
  <2>1. CASE accept_wake(t) \/ accept_go(t) \/ accept_shift(t) \/ read_wake(t)
    <3>1. on' \in [Task -> Sock]
      BY <1>0, <2>1 DEF accept_wake, accept_go, accept_shift, read_wake, Return
    <3>2. rx' = rx /\ rhd' = rhd /\ rtl' = rtl /\ pending' = pending
      BY <2>1 DEF accept_wake, accept_go, accept_shift, read_wake, table,
                  history
    <3>3. QED
      BY <3>1, <3>2, RingsAlone
  <2>2. ASSUME NEW n \in ReadLens, read_go(t, n) PROVE RingInv'
    <3>1. rx' = rx /\ rhd' = rhd /\ on' \in [Task -> Sock] /\ on[t] \in Sock
          /\ n \in Nat
      BY <1>0, <2>2, SocketAssumption DEF read_go, Return
    <3>2. Drain(on[t], n)
      BY <2>2 DEF read_go
    <3>3. QED
      BY <3>1, <3>2, DrainKeepsOrder DEF RingInv
  <2>3. QED
    BY <1>13, <2>1, <2>2 DEF Blocked
<1>14. CASE UNCHANGED vars
  BY <1>0, <1>14, RingsAlone DEF vars
<1>15. QED
  BY <1>1, <1>2, <1>3, <1>4, <1>5, <1>6, <1>7, <1>8, <1>9, <1>10, <1>11,
     <1>12, <1>13, <1>14 DEF Next

LEMMA InitRing == Init => RingInv
<1> SUFFICES ASSUME Init PROVE RingInv
  OBVIOUS
<1>1. 0 \in Sock /\ 0 \in Place
  BY SocketAssumption DEF Sock, Place
<1>2. rhd \in [Sock -> Place] /\ rtl \in [Sock -> Place]
      /\ pending \in [Sock -> Seq(Byte)] /\ on \in [Task -> Sock]
  BY <1>1 DEF Init
<1>3. rx \in [Sock -> [Place -> Byte]]
  BY DEF Init, Place
<1>4. ASSUME NEW i \in Sock PROVE Contents(i) = pending[i]
  <2>1. rhd[i] = 0 /\ rtl[i] = 0 /\ pending[i] = <<>>
    BY DEF Init
  <2>2. Filled(i) = 0
    BY <2>1, SocketAssumption DEF Filled
  <2>3. QED
    BY <2>1, <2>2 DEF Contents
<1>5. QED
  BY <1>2, <1>3, <1>4 DEF RingInv

(* The inductive invariants of the rings and of the sockets together.      *)
THEOREM RingInvariant == Spec => []RingInv
BY InitRing, PeerInvariant, RingStep, PTL DEF Spec

(* A reader gets the bytes that the other side wrote, each once and in     *)
(* their order, for rings of any size, writes that wrap around or fit only *)
(* in part, and readers that slept (push_rx, pop_rx, un_socket.c:66-94).   *)
THEOREM RingsAreFifo == Spec => []RingIsFifo
<1>1. RingInv => RingIsFifo
  BY DEF RingInv, RingIsFifo
<1>2. QED
  BY RingInvariant, <1>1, PTL
-----------------------------------------------------------------------------
(* The inductive invariant behind NoSlotLost.  A slot waits in one place   *)
(* of one queue, a slot that is not in use has an empty queue, and a task  *)
(* past the loop of unix_accept has its connection at the head of the      *)
(* queue, or the history tells that it was closed or taken meanwhile.      *)
PcType == {"run", "accept", "acceptGo", "acceptShift", "read", "readGo"}

SlotTypes ==
    /\ used \in [Sock -> BOOLEAN] /\ listen_q \in [Sock -> Seq(Sock)]
    /\ open \subseteq Sock
    /\ pc \in [Task -> PcType]
    /\ on \in [Task -> Sock] /\ si \in [Task -> Sock]

QueuedOnce ==
    \A l, m \in Sock :
        \A j \in 1 .. Len(listen_q[l]), k \in 1 .. Len(listen_q[m]) :
            listen_q[l][j] = listen_q[m][k] => l = m /\ j = k

QueuesKept ==
    /\ {i \in Sock : used[i]} = open \cup Queued
    /\ open \cap Queued = {}
    /\ QueuedOnce
    /\ \A i \in Sock : ~used[i] => listen_q[i] = <<>>

Accepting == {"acceptGo", "acceptShift"}

HeadsKept ==
    \A t \in Task : pc[t] \in Accepting =>
        /\ listen_q[on[t]] # <<>>
        /\ pc[t] = "acceptShift" => si[t] = Head(listen_q[on[t]])

SlotInv ==
    SlotTypes /\ (~orphaned /\ ~raced => QueuesKept /\ HeadsKept)

LEMMA QueuedIs ==
    ASSUME NEW x
    PROVE  x \in Queued <=>
              \E l \in Sock : \E k \in 1 .. Len(listen_q[l]) :
                  listen_q[l][k] = x
BY DEF Queued

LEMMA QueuedIsNext ==
    ASSUME NEW x
    PROVE  x \in Queued' <=>
              \E l \in Sock : \E k \in 1 .. Len(listen_q'[l]) :
                  listen_q'[l][k] = x
BY DEF Queued

LEMMA SameQueued == listen_q' = listen_q => Queued' = Queued
BY DEF Queued

(* Steps that change no queue and bring no task past the loop.             *)
LEMMA QueuesAlone ==
    ASSUME SlotInv, SlotTypes', listen_q' = listen_q,
           used' = used, open' = open,
           orphaned' = orphaned, raced' = raced,
           \A u \in Task : pc'[u] \in Accepting =>
               pc[u] = pc'[u] /\ on'[u] = on[u] /\ si'[u] = si[u]
    PROVE  SlotInv'
<1> SUFFICES ASSUME ~orphaned, ~raced PROVE QueuesKept' /\ HeadsKept'
  BY DEF SlotInv
<1>1. QueuesKept /\ HeadsKept
  BY DEF SlotInv
<1>2. QueuesKept'
  BY <1>1, SameQueued DEF QueuesKept, QueuedOnce
<1>3. HeadsKept'
  BY <1>1 DEF HeadsKept
<1>4. QED
  BY <1>2, <1>3

(* Steps that give new slots to a program.                                 *)
LEMMA SlotsTaken ==
    ASSUME SlotInv, NEW S \in SUBSET Sock, \A i \in S : ~used[i],
           FreshSlots(S), open' = open \cup S,
           UNCHANGED <<pc, on, si, orphaned, raced>>
    PROVE  SlotInv'
<1>1. SlotTypes'
  BY DEF SlotInv, SlotTypes, FreshSlots
<1> SUFFICES ASSUME ~orphaned, ~raced PROVE QueuesKept' /\ HeadsKept'
  BY <1>1 DEF SlotInv
<1>2. QueuesKept /\ HeadsKept /\ SlotTypes
  BY DEF SlotInv
<1>3. listen_q' = listen_q
  BY <1>2 DEF FreshSlots, QueuesKept, SlotTypes
<1>4. Queued' = Queued
  BY <1>3, SameQueued
<1>5. {i \in Sock : used'[i]} = {i \in Sock : used[i]} \cup S
  BY DEF FreshSlots
<1>6. S \cap Queued = {}
  BY <1>2 DEF QueuesKept
<1>7. QueuesKept'
  <2>1. QueuedOnce'
    BY <1>2, <1>3 DEF QueuesKept, QueuedOnce
  <2>2. \A i \in Sock : ~used'[i] => listen_q'[i] = <<>>
    BY <1>2, <1>3 DEF QueuesKept, FreshSlots
  <2>3. QED
    BY <1>2, <1>4, <1>5, <1>6, <2>1, <2>2 DEF QueuesKept
<1>8. HeadsKept'
  BY <1>2, <1>3 DEF HeadsKept
<1>9. QED
  BY <1>7, <1>8

(* The first connection of a queue goes to a program.                      *)
LEMMA QueueShifted ==
    ASSUME SlotTypes, QueuesKept, NEW l \in Sock, listen_q[l] # <<>>,
           listen_q' = [listen_q EXCEPT ![l] = Tail(@)],
           Accepted(Head(listen_q[l])), used' = used
    PROVE  QueuesKept'
<1> DEFINE c == Head(listen_q[l])
           q == listen_q[l]
<1>1. q \in Seq(Sock) /\ Len(q) \in Nat \ {0} /\ c = q[1] /\ c \in Sock
  BY DEF SlotTypes
<1>2. listen_q'[l] = Tail(q)
      /\ \A m \in Sock : m # l => listen_q'[m] = listen_q[m]
  BY DEF SlotTypes
<1>3. Len(Tail(q)) = Len(q) - 1
      /\ \A k \in 1 .. Len(Tail(q)) :
            Tail(q)[k] = q[k + 1] /\ k + 1 \in 1 .. Len(q)
  BY <1>1
<1>4. c \in Queued
  BY <1>1, QueuedIs
<1>5. used[c]
  BY <1>1, <1>4 DEF QueuesKept
<1>6. open' = open \cup {c}
  BY <1>1, <1>5 DEF Accepted
<1>7. ASSUME NEW x \in Queued' PROVE x \in Queued /\ x # c
  <2>1. PICK m \in Sock : \E k \in 1 .. Len(listen_q'[m]) : listen_q'[m][k] = x
    BY <1>7, QueuedIsNext
  <2>2. PICK k \in 1 .. Len(listen_q'[m]) : listen_q'[m][k] = x
    BY <2>1
  <2>3. CASE m = l
    <3>1. x = q[k + 1] /\ k + 1 \in 1 .. Len(q) /\ k + 1 # 1
      <4>1. k \in 1 .. Len(Tail(q)) /\ x = Tail(q)[k]
        BY <1>2, <2>2, <2>3
      <4>2. QED
        BY <1>1, <1>3, <4>1
    <3>2. 1 \in 1 .. Len(q)
      BY <1>1
    <3>3. QED
      BY <1>1, <3>1, <3>2, QueuedIs DEF QueuesKept, QueuedOnce
  <2>4. CASE m # l
    <3>1. x = listen_q[m][k] /\ k \in 1 .. Len(listen_q[m])
      BY <1>2, <2>2, <2>4
    <3>2. 1 \in 1 .. Len(q)
      BY <1>1
    <3>3. QED
      BY <1>1, <2>4, <3>1, <3>2, QueuedIs DEF QueuesKept, QueuedOnce
  <2>5. QED
    BY <2>3, <2>4
<1>8. ASSUME NEW x \in Queued, x # c PROVE x \in Queued'
  <2>1. PICK m \in Sock : \E k \in 1 .. Len(listen_q[m]) : listen_q[m][k] = x
    BY <1>8, QueuedIs
  <2>2. PICK k \in 1 .. Len(listen_q[m]) : listen_q[m][k] = x
    BY <2>1
  <2>3. CASE m = l
    <3>1. k - 1 \in 1 .. Len(Tail(q)) /\ Tail(q)[k - 1] = x
      <4>1. k # 1 /\ k \in 1 .. Len(q)
        BY <1>1, <1>8, <2>2, <2>3
      <4>2. k - 1 \in 1 .. Len(Tail(q))
        BY <1>1, <1>3, <4>1
      <4>3. QED
        BY <1>1, <1>3, <2>2, <2>3, <4>1, <4>2
    <3>2. QED
      BY <1>2, <3>1, QueuedIsNext
  <2>4. CASE m # l
    BY <1>2, <2>2, <2>4, QueuedIsNext
  <2>5. QED
    BY <2>3, <2>4
<1>9. QueuedOnce'
  <2> SUFFICES ASSUME NEW a \in Sock, NEW b \in Sock,
                      NEW j \in 1 .. Len(listen_q'[a]),
                      NEW k \in 1 .. Len(listen_q'[b]),
                      listen_q'[a][j] = listen_q'[b][k]
               PROVE  a = b /\ j = k
    BY DEF QueuedOnce
  <2> DEFINE jj == IF a = l THEN j + 1 ELSE j
             kk == IF b = l THEN k + 1 ELSE k
  <2>1. jj \in 1 .. Len(listen_q[a]) /\ listen_q'[a][j] = listen_q[a][jj]
    BY <1>2, <1>3
  <2>2. kk \in 1 .. Len(listen_q[b]) /\ listen_q'[b][k] = listen_q[b][kk]
    BY <1>2, <1>3
  <2>3. a = b /\ jj = kk
    BY <2>1, <2>2 DEF QueuesKept, QueuedOnce
  <2>4. j \in Nat /\ k \in Nat
    BY <1>1, <1>2, <1>3 DEF SlotTypes
  <2>5. QED
    BY <2>3, <2>4
<1>10. \A i \in Sock : ~used'[i] => listen_q'[i] = <<>>
  BY <1>1, <1>2 DEF QueuesKept
<1>11. open' \cup Queued' = open \cup Queued
  BY <1>4, <1>6, <1>7, <1>8
<1>12. open' \cap Queued' = {}
  BY <1>6, <1>7 DEF QueuesKept
<1>13. QED
  BY <1>9, <1>10, <1>11, <1>12 DEF QueuesKept

LEMMA SlotStep == SlotInv /\ [Next]_vars => SlotInv'
<1> SUFFICES ASSUME SlotInv, [Next]_vars PROVE SlotInv'
  OBVIOUS
<1>0. SlotTypes /\ 0 \in Sock
  BY SocketAssumption DEF SlotInv, Sock
<1>1. ASSUME NEW t \in Task, NEW i \in Sock, unix_socket(t, i) PROVE SlotInv'
  BY <1>1, SlotsTaken DEF unix_socket, IsFirstUnused
<1>2. ASSUME NEW t \in Task, NEW a \in Sock, NEW b \in Sock,
             unix_socketpair(t, a, b)
      PROVE  SlotInv'
  BY <1>2, SlotsTaken DEF unix_socketpair, IsFirstUnused
<1>3. ASSUME NEW t \in Task, NEW i \in Sock, NEW p \in Path, unix_bind(t, i, p)
      PROVE  SlotInv'
  BY <1>0, <1>3, QueuesAlone DEF unix_bind, history, SlotTypes
<1>4. ASSUME NEW t \in Task, NEW i \in Sock, unix_listen(t, i) PROVE SlotInv'
  BY <1>0, <1>4, QueuesAlone DEF unix_listen, history, SlotTypes
<1>5. ASSUME NEW t \in Task, NEW c \in Sock, NEW l \in Sock, NEW s \in Sock,
             unix_connect(t, c, l, s)
      PROVE  SlotInv'
  <2>1. /\ used[l] /\ ~used[s] /\ l # s
        /\ used' = [used EXCEPT ![s] = TRUE]
        /\ listen_q' = [listen_q EXCEPT ![s] = <<>>, ![l] = Append(@, s)]
        /\ UNCHANGED <<pc, on, si, open, orphaned, raced>>
    BY <1>5 DEF unix_connect, IsListener, Listens, IsFirstUnused
  <2>2. SlotTypes'
    <3>1. <<>> \in Seq(Sock) /\ Append(listen_q[l], s) \in Seq(Sock)
      BY <1>0 DEF SlotTypes
    <3>2. listen_q' = [[listen_q EXCEPT ![s] = <<>>]
                          EXCEPT ![l] = Append(listen_q[l], s)]
      BY <1>0, <2>1 DEF SlotTypes
    <3>3. listen_q' \in [Sock -> Seq(Sock)]
      BY <1>0, <3>1, <3>2 DEF SlotTypes
    <3>4. QED
      BY <1>0, <2>1, <3>3 DEF SlotTypes
  <2> SUFFICES ASSUME ~orphaned, ~raced PROVE QueuesKept' /\ HeadsKept'
    BY <2>1, <2>2 DEF SlotInv
  <2>3. QueuesKept /\ HeadsKept
    BY DEF SlotInv
  <2> DEFINE q == listen_q[l]
  <2>4. /\ \A m \in Sock : m # l => listen_q'[m] = listen_q[m]
        /\ listen_q'[l] = Append(q, s)
    BY <1>0, <2>1, <2>3 DEF QueuesKept, SlotTypes
  <2>5. q \in Seq(Sock) /\ Len(q) \in Nat
    BY <1>0 DEF SlotTypes
  <2>6. /\ Len(Append(q, s)) = Len(q) + 1 /\ Append(q, s)[Len(q) + 1] = s
        /\ \A k \in 1 .. Len(q) : Append(q, s)[k] = q[k]
    BY <2>5
  <2> HIDE DEF q
  <2>7. s \notin Queued /\ s \notin open
    BY <2>1, <2>3 DEF QueuesKept
  <2>8. ASSUME NEW m \in Sock, NEW k \in 1 .. Len(listen_q'[m])
        PROVE  \/ m = l /\ k = Len(q) + 1 /\ listen_q'[m][k] = s
               \/ k \in 1 .. Len(listen_q[m])
                  /\ listen_q'[m][k] = listen_q[m][k]
    <3>1. CASE m = l
      BY <2>4, <2>5, <2>6, <3>1 DEF q
    <3>2. CASE m # l
      BY <2>4, <3>2
    <3>3. QED
      BY <3>1, <3>2
  <2>9. Queued' = Queued \cup {s}
    <3>1. ASSUME NEW x \in Queued' PROVE x \in Queued \cup {s}
      BY <2>8, <3>1, QueuedIs, QueuedIsNext
    <3>2. s \in Queued'
      <4>1. Len(q) + 1 \in 1 .. Len(listen_q'[l])
        BY <2>4, <2>5, <2>6
      <4>2. QED
        BY <2>4, <2>6, <4>1, QueuedIsNext
    <3>3. ASSUME NEW x \in Queued PROVE x \in Queued'
      <4>1. PICK m \in Sock :
               \E k \in 1 .. Len(listen_q[m]) : listen_q[m][k] = x
        BY <3>3, QueuedIs
      <4>2. PICK k \in 1 .. Len(listen_q[m]) : listen_q[m][k] = x
        BY <4>1
      <4>3. k \in 1 .. Len(listen_q'[m]) /\ listen_q'[m][k] = x
        <5>1. CASE m = l
          BY <2>4, <2>5, <2>6, <4>2, <5>1 DEF q
        <5>2. CASE m # l
          BY <2>4, <4>2, <5>2
        <5>3. QED
          BY <5>1, <5>2
      <4>4. QED
        BY <4>3, QueuedIsNext
    <3>4. QED
      BY <3>1, <3>2, <3>3
  <2>10. QueuedOnce'
    <3> SUFFICES ASSUME NEW a \in Sock, NEW b \in Sock,
                        NEW j \in 1 .. Len(listen_q'[a]),
                        NEW k \in 1 .. Len(listen_q'[b]),
                        listen_q'[a][j] = listen_q'[b][k]
                 PROVE  a = b /\ j = k
      BY DEF QueuedOnce
    <3>1. \A m \in Sock : \A n \in 1 .. Len(listen_q[m]) : listen_q[m][n] # s
      BY <2>7, QueuedIs
    <3>2. QED
      BY <2>3, <2>8, <3>1 DEF QueuesKept, QueuedOnce
  <2>11. {i \in Sock : used'[i]} = {i \in Sock : used[i]} \cup {s}
    BY <1>0, <2>1 DEF SlotTypes
  <2>12. \A i \in Sock : ~used'[i] => listen_q'[i] = <<>>
    BY <1>0, <2>1, <2>3, <2>4 DEF SlotTypes, QueuesKept
  <2>13. QueuesKept'
    BY <2>1, <2>3, <2>7, <2>9, <2>10, <2>11, <2>12 DEF QueuesKept
  <2>14. HeadsKept'
    <3>1. Append(q, s) # <<>> /\ (q # <<>> => Head(Append(q, s)) = Head(q))
      BY <2>5
    <3>2. QED
      BY <1>0, <2>1, <2>3, <2>4, <3>1 DEF HeadsKept, SlotTypes, q
  <2>15. QED
    BY <2>13, <2>14
<1>6. ASSUME NEW t \in Task, NEW c \in Sock, NEW l \in Sock, NEW s \in Sock,
             connect_refused(t, c, l, s)
      PROVE  SlotInv'
  <2>1. /\ ~used[s] /\ used' = used
        /\ listen_q' = [listen_q EXCEPT ![s] = <<>>]
        /\ UNCHANGED <<pc, on, si, open, orphaned, raced>>
    BY <1>6 DEF connect_refused, RefusedUsed, IsFirstUnused
  <2>2. SlotTypes'
    BY <1>0, <2>1 DEF SlotTypes
  <2>3. CASE orphaned \/ raced
    BY <2>1, <2>2, <2>3 DEF SlotInv
  <2>4. CASE ~orphaned /\ ~raced
    <3>1. listen_q' = listen_q
      BY <1>0, <2>1, <2>4 DEF SlotInv, QueuesKept, SlotTypes
    <3>2. QED
      BY <2>1, <2>2, <3>1, QueuesAlone
  <2>5. QED
    BY <2>3, <2>4
<1>7. ASSUME NEW t \in Task, NEW i \in Sock, unix_accept(t, i) PROVE SlotInv'
  <2>1. CASE listen_q[i] # <<>>
    <3>1. /\ listen_q' = [listen_q EXCEPT ![i] = Tail(@)]
          /\ Accepted(Head(listen_q[i]))
          /\ raced' = (raced \/ Contended(t, i))
          /\ UNCHANGED <<used, pc, on, si, orphaned>>
          /\ pc[t] = "run"
      BY <1>7, <2>1 DEF unix_accept, Running
    <3>2. SlotTypes'
      <4>1. listen_q' \in [Sock -> Seq(Sock)]
        BY <1>0, <2>1, <3>1 DEF SlotTypes
      <4>2. open' \subseteq Sock
        BY <1>0, <3>1 DEF SlotTypes, Accepted
      <4>3. QED
        BY <1>0, <3>1, <4>1, <4>2 DEF SlotTypes
    <3> SUFFICES ASSUME ~orphaned', ~raced' PROVE QueuesKept' /\ HeadsKept'
      BY <3>2 DEF SlotInv
    <3>3. QueuesKept /\ HeadsKept /\ ~Contended(t, i)
      BY <3>1 DEF SlotInv
    <3>4. QueuesKept'
      BY <1>0, <2>1, <3>1, <3>3, QueueShifted
    <3>5. \A u \in Task : pc'[u] \in Accepting => on[u] # i
      BY <3>1, <3>3 DEF Contended, Accepting
    <3>6. HeadsKept'
      BY <1>0, <3>1, <3>3, <3>5 DEF HeadsKept, SlotTypes
    <3>7. QED
      BY <3>4, <3>6
  <2>2. CASE listen_q[i] = <<>>
    <3>1. /\ pc' = [pc EXCEPT ![t] = "accept"] /\ on' = [on EXCEPT ![t] = i]
          /\ UNCHANGED <<used, listen_q, open, raced, orphaned, si>>
      BY <1>7, <2>2 DEF unix_accept
    <3>2. SlotTypes'
      BY <1>0, <3>1 DEF SlotTypes, PcType
    <3>3. \A u \in Task : pc'[u] \in Accepting => u # t
      BY <1>0, <3>1 DEF Accepting, SlotTypes
    <3>4. QED
      BY <1>0, <3>1, <3>2, <3>3, QueuesAlone DEF SlotTypes
  <2>3. QED
    BY <2>1, <2>2
<1>8. ASSUME NEW t \in Task, NEW i \in Sock, NEW n \in WriteLens,
             NEW b \in Byte, unix_sock_write(t, i, n, b)
      PROVE  SlotInv'
  BY <1>0, <1>8, QueuesAlone DEF unix_sock_write, SlotTypes
<1>9. ASSUME NEW t \in Task, NEW i \in Sock, NEW n \in ReadLens,
             unix_sock_read(t, i, n)
      PROVE  SlotInv'
  <2>1. /\ UNCHANGED <<used, listen_q, open, raced, orphaned, si>>
        /\ \/ UNCHANGED <<pc, on>>
           \/ pc' = [pc EXCEPT ![t] = "read"] /\ on' = [on EXCEPT ![t] = i]
    BY <1>9 DEF unix_sock_read
  <2>2. SlotTypes'
    BY <1>0, <2>1 DEF SlotTypes, PcType
  <2>3. \A u \in Task : pc'[u] \in Accepting =>
            pc[u] = pc'[u] /\ on'[u] = on[u]
    BY <1>0, <2>1 DEF Accepting, SlotTypes
  <2>4. QED
    BY <2>1, <2>2, <2>3, QueuesAlone
<1>10. ASSUME NEW t \in Task, NEW i \in Sock, unix_sock_close(t, i)
       PROVE  SlotInv'
  <2>1. /\ i \in open
        /\ used' = [used EXCEPT ![i] = FALSE]
        /\ listen_q' = [listen_q EXCEPT ![i] = <<>>]
        /\ open' = open \ {i}
        /\ orphaned' = (orphaned \/ listen_q[i] # <<>>)
        /\ UNCHANGED <<pc, on, si, raced>>
    BY <1>10 DEF unix_sock_close
  <2>2. SlotTypes'
    BY <1>0, <2>1 DEF SlotTypes
  <2> SUFFICES ASSUME ~orphaned', ~raced' PROVE QueuesKept' /\ HeadsKept'
    BY <2>2 DEF SlotInv
  <2>3. QueuesKept /\ HeadsKept /\ listen_q[i] = <<>>
    BY <2>1 DEF SlotInv
  <2>4. listen_q' = listen_q
    BY <1>0, <2>1, <2>3 DEF SlotTypes
  <2>5. Queued' = Queued
    BY <2>4, SameQueued
  <2>6. {j \in Sock : used'[j]} = {j \in Sock : used[j]} \ {i}
    BY <1>0, <2>1 DEF SlotTypes
  <2>7. QueuedOnce' /\ \A j \in Sock : ~used'[j] => listen_q'[j] = <<>>
    BY <1>0, <2>1, <2>3, <2>4 DEF QueuesKept, QueuedOnce, SlotTypes
  <2>8. QueuesKept'
    BY <2>1, <2>3, <2>5, <2>6, <2>7 DEF QueuesKept
  <2>9. HeadsKept'
    BY <2>1, <2>3, <2>4 DEF HeadsKept
  <2>10. QED
    BY <2>8, <2>9
<1>11. ASSUME NEW t \in Task, NEW i \in Sock, NEW f \in Flags,
              unix_sock_fcntl(t, i, f)
       PROVE  SlotInv'
  BY <1>0, <1>11, QueuesAlone DEF unix_sock_fcntl, history, SlotTypes
<1>12. ASSUME NEW t \in Task, NEW i \in Sock, NEW f \in Flags,
              NEW n \in {0, EVENT_LEN}, NEW b \in Byte,
              unix_eventfd(t, i, f, n, b)
       PROVE  SlotInv'
  BY <1>12, SlotsTaken DEF unix_eventfd, IsFirstUnused
<1>13. ASSUME NEW t \in Task, NEW p \in Path, vfs_unlink(t, p) PROVE SlotInv'
  BY <1>0, <1>13, QueuesAlone DEF vfs_unlink, table, history, SlotTypes
<1>14. ASSUME NEW t \in Task, accept_wake(t) PROVE SlotInv'
  <2>1. /\ UNCHANGED <<used, listen_q, open, raced, orphaned>>
        /\ \/ /\ pc' = [pc EXCEPT ![t] = "acceptGo"] /\ on' = on /\ si' = si
              /\ listen_q[on[t]] # <<>>
           \/ Return(t)
    BY <1>14 DEF accept_wake, table, history
  <2>2. SlotTypes'
    BY <1>0, <2>1 DEF SlotTypes, PcType, Return
  <2>3. CASE Return(t)
    <3>1. \A u \in Task : pc'[u] \in Accepting => u # t
      BY <1>0, <2>3 DEF Accepting, SlotTypes, Return
    <3>2. QED
      BY <1>0, <2>1, <2>2, <2>3, <3>1, QueuesAlone DEF SlotTypes, Return
  <2>4. CASE ~Return(t)
    <3> SUFFICES ASSUME ~orphaned, ~raced PROVE QueuesKept' /\ HeadsKept'
      BY <2>1, <2>2 DEF SlotInv
    <3>1. QueuesKept /\ HeadsKept
      BY DEF SlotInv
    <3>2. QueuesKept'
      BY <2>1, <3>1, SameQueued DEF QueuesKept, QueuedOnce
    <3>3. HeadsKept'
      BY <1>0, <2>1, <2>4, <3>1 DEF HeadsKept, SlotTypes
    <3>4. QED
      BY <3>2, <3>3
  <2>5. QED
    BY <2>3, <2>4
<1>15. ASSUME NEW t \in Task, accept_go(t) PROVE SlotInv'
  <2>1. /\ UNCHANGED <<used, listen_q, open, raced, orphaned, on>>
        /\ listen_q[on[t]] # <<>>
        /\ si' = [si EXCEPT ![t] = Head(listen_q[on[t]])]
        /\ pc' = [pc EXCEPT ![t] = "acceptShift"]
    BY <1>15 DEF accept_go, table, history
  <2>2. Head(listen_q[on[t]]) \in Sock
    BY <1>0, <2>1 DEF SlotTypes
  <2>3. SlotTypes'
    BY <1>0, <2>1, <2>2 DEF SlotTypes, PcType
  <2> SUFFICES ASSUME ~orphaned, ~raced PROVE QueuesKept' /\ HeadsKept'
    BY <2>1, <2>3 DEF SlotInv
  <2>4. QueuesKept /\ HeadsKept
    BY DEF SlotInv
  <2>5. QueuesKept'
    BY <2>1, <2>4, SameQueued DEF QueuesKept, QueuedOnce
  <2>6. HeadsKept'
    BY <1>0, <2>1, <2>4 DEF HeadsKept, SlotTypes
  <2>7. QED
    BY <2>5, <2>6
<1>16. ASSUME NEW t \in Task, accept_shift(t) PROVE SlotInv'
  <2> DEFINE l == on[t]
  <2>1. /\ listen_q[l] # <<>> /\ pc[t] = "acceptShift"
        /\ listen_q' = [listen_q EXCEPT ![l] = Tail(@)]
        /\ Accepted(si[t])
        /\ raced' = (raced \/ Contended(t, l))
        /\ Return(t)
        /\ UNCHANGED <<used, orphaned>>
    BY <1>16 DEF accept_shift
  <2>2. l \in Sock /\ si[t] \in Sock
    BY <1>0 DEF SlotTypes
  <2>3. SlotTypes'
    <3>1. listen_q' \in [Sock -> Seq(Sock)]
      BY <1>0, <2>1, <2>2 DEF SlotTypes
    <3>2. open' \subseteq Sock
      BY <1>0, <2>1, <2>2 DEF SlotTypes, Accepted
    <3>3. QED
      BY <1>0, <2>1, <3>1, <3>2 DEF SlotTypes, Return, PcType
  <2> SUFFICES ASSUME ~orphaned', ~raced' PROVE QueuesKept' /\ HeadsKept'
    BY <2>3 DEF SlotInv
  <2>4. QueuesKept /\ HeadsKept /\ ~Contended(t, l)
    BY <2>1 DEF SlotInv
  <2>5. si[t] = Head(listen_q[l])
    BY <2>1, <2>4 DEF HeadsKept, Accepting
  <2>6. QueuesKept'
    BY <1>0, <2>1, <2>2, <2>4, <2>5, QueueShifted
  <2>7. \A u \in Task : pc'[u] \in Accepting =>
            u # t /\ pc[u] = pc'[u] /\ on[u] # l
    BY <1>0, <2>1, <2>4 DEF Contended, Accepting, Return, SlotTypes
  <2>8. HeadsKept'
    BY <1>0, <2>1, <2>2, <2>4, <2>7 DEF HeadsKept, SlotTypes, Return
  <2>9. QED
    BY <2>6, <2>8
<1>17. ASSUME NEW t \in Task,
              read_wake(t) \/ \E n \in ReadLens : read_go(t, n)
       PROVE  SlotInv'
  <2>1. /\ UNCHANGED <<used, listen_q, open, raced, orphaned>>
        /\ \/ pc' = [pc EXCEPT ![t] = "readGo"] /\ on' = on /\ si' = si
           \/ Return(t)
    BY <1>17 DEF read_wake, read_go, table, history
  <2>2. SlotTypes'
    BY <1>0, <2>1 DEF SlotTypes, PcType, Return
  <2>3. \A u \in Task : pc'[u] \in Accepting =>
            pc[u] = pc'[u] /\ on'[u] = on[u] /\ si'[u] = si[u]
    BY <1>0, <2>1 DEF Accepting, SlotTypes, Return
  <2>4. QED
    BY <2>1, <2>2, <2>3, QueuesAlone
<1>18. CASE UNCHANGED vars
  BY <1>0, <1>18, QueuesAlone DEF vars, SlotTypes
<1>19. ASSUME NEW t \in Task, Blocked(t) PROVE SlotInv'
  BY <1>14, <1>15, <1>16, <1>17, <1>19 DEF Blocked
<1>20. QED
  BY <1>1, <1>2, <1>3, <1>4, <1>5, <1>6, <1>7, <1>8, <1>9, <1>10, <1>11,
     <1>12, <1>13, <1>18, <1>19 DEF Next

LEMMA InitSlot == Init => SlotInv
<1> SUFFICES ASSUME Init PROVE SlotInv
  OBVIOUS
<1>1. SlotTypes
  BY SocketAssumption DEF Init, SlotTypes, PcType, Sock
<1>2. Queued = {}
  BY DEF Init, Queued
<1>3. QueuesKept
  BY <1>2 DEF Init, QueuesKept, QueuedOnce
<1>4. HeadsKept
  BY DEF Init, HeadsKept, Accepting
<1>5. QED
  BY <1>1, <1>3, <1>4 DEF SlotInv

(* No slot of the socket table is lost and none is given out twice, for    *)
(* any number of sockets, tasks and waiting connections, unless a listener *)
(* is closed with connections in its queue or two tasks accept the same    *)
(* connection (un_socket.c:202-267).                                       *)
THEOREM SlotsKept == Spec => []NoSlotLost
<1>1. SlotInv => NoSlotLost
  BY DEF SlotInv, QueuesKept, NoSlotLost
<1>2. QED
  BY <1>1, InitSlot, SlotStep, PTL DEF Spec
-----------------------------------------------------------------------------
(* Every call of UnixMsg is a call of UnixSocket, or leaves the sockets    *)
(* alone.                                                                  *)
LEMMA MsgStep ==
    load \in Loads /\ [MsgNext]_mvars => [Next]_vars /\ load' = load
<1> SUFFICES ASSUME load \in Loads, [MsgNext]_mvars
             PROVE  [Next]_vars /\ load' = load
  OBVIOUS
<1>1. ASSUME NEW t \in Task, Plain(t), Untouched
      PROVE  Next /\ load' = load
  <2>1. load.write \subseteq WriteLens /\ load.bytes \subseteq Byte
        /\ load.read \subseteq ReadLens /\ load.flags \subseteq Flags
        /\ load.from \subseteq Sock
    BY MsgAssumption
  <2>2. CASE \E i \in Sock : unix_socket(t, i)
    BY <1>1, <2>2 DEF Next, Untouched
  <2>3. CASE \E a, b \in Sock : unix_socketpair(t, a, b)
    BY <1>1, <2>3 DEF Next, Untouched
  <2>4. CASE \E i \in load.from, n \in load.write, b \in load.bytes :
               unix_sock_write(t, i, n, b)
    BY <1>1, <2>1, <2>4 DEF Next, Untouched
  <2>5. CASE \E i \in Sock, n \in load.read : unix_sock_read(t, i, n)
    BY <1>1, <2>1, <2>5 DEF Next, Untouched
  <2>6. CASE \E i \in Sock, f \in load.flags : unix_sock_fcntl(t, i, f)
    BY <1>1, <2>1, <2>6 DEF Next, Untouched
  <2>7. CASE \E i \in Sock, f \in load.flags, n \in {0, EVENT_LEN},
                b \in load.bytes : unix_eventfd(t, i, f, n, b)
    BY <1>1, <2>1, <2>7 DEF Next, Untouched
  <2>8. QED
    BY <1>1, <2>2, <2>3, <2>4, <2>5, <2>6, <2>7 DEF Plain
<1>2. ASSUME NEW t \in Task, Woken(t) PROVE [Next]_vars /\ load' = load
  <2>1. CASE recv_data(t)
    <3>1. Blocked(t)
      BY <2>1 DEF recv_data, Blocked
    <3>2. Next
      BY <3>1 DEF Next
    <3>3. load' = load
      BY <2>1 DEF recv_data
    <3>4. QED
      BY <3>2, <3>3
  <2>2. CASE recv_load(t)
    BY <2>2 DEF recv_load
  <2>3. CASE recv_shift(t)
    BY <2>3 DEF recv_shift
  <2>4. QED
    BY <1>2, <2>1, <2>2, <2>3 DEF Woken
<1>3. ASSUME NEW t \in Task, vfs_open(t) PROVE vars' = vars /\ load' = load
  BY <1>3 DEF vfs_open
<1>4. ASSUME NEW t \in Task, NEW d \in Vfd, vfs_close(t, d)
      PROVE  vars' = vars /\ load' = load
  BY <1>4 DEF vfs_close
<1>5. ASSUME NEW t \in Task, NEW i \in Sock, sock_close(t, i)
      PROVE  Next /\ load' = load
  <2>1. unix_sock_close(t, i) /\ load' = load
    BY <1>5 DEF sock_close
  <2>2. QED
    BY <2>1 DEF Next
<1>6. ASSUME NEW t \in Task, NEW i \in load.from, NEW n \in load.send,
             NEW b \in load.bytes, NEW k \in load.pass,
             NEW items \in [1 .. k -> Sendable],
             unix_sock_sendmsg(t, i, n, b, items)
      PROVE  [Next]_vars /\ load' = load
  <2>1. n \in Nat /\ i \in Sock /\ b \in Byte /\ (n # 0 => n \in WriteLens)
    BY MsgAssumption
  <2>2. load' = load
    BY <1>6 DEF unix_sock_sendmsg
  <2>3. CASE n > 0
    <3>1. unix_sock_write(t, i, n, b)
      BY <1>6, <2>3 DEF unix_sock_sendmsg
    <3>2. QED
      BY <2>1, <2>2, <2>3, <3>1 DEF Next
  <2>4. CASE ~(n > 0)
    BY <1>6, <2>2, <2>4 DEF unix_sock_sendmsg
  <2>5. QED
    BY <2>3, <2>4
<1>7. ASSUME NEW t \in Task, NEW i \in Sock, NEW n \in load.recv,
             NEW room \in MaxFds, unix_sock_recvmsg(t, i, n, room)
      PROVE  [Next]_vars /\ load' = load
  <2>1. n \in Nat /\ (n # 0 => n \in ReadLens)
    BY MsgAssumption
  <2>2. load' = load
    BY <1>7 DEF unix_sock_recvmsg, Take
  <2>3. CASE n > 0
    <3>1. unix_sock_read(t, i, n)
      BY <1>7, <2>3 DEF unix_sock_recvmsg
    <3>2. QED
      BY <2>1, <2>2, <2>3, <3>1 DEF Next
  <2>4. CASE ~(n > 0)
    BY <1>7, <2>2, <2>4 DEF unix_sock_recvmsg
  <2>5. QED
    BY <2>3, <2>4
<1>8. CASE MsgNext
  BY <1>1, <1>2, <1>3, <1>4, <1>5, <1>6, <1>7, <1>8 DEF MsgNext
<1>9. CASE UNCHANGED mvars
  BY <1>9 DEF mvars
<1>10. QED
  BY <1>8, <1>9

(* sendmsg and recvmsg use the byte rings and the connections as write,    *)
(* read and close do (un_socket.c:320-421): every behaviour of UnixMsg is  *)
(* one of UnixSocket.                                                      *)
THEOREM MessagesImplementSockets == MsgSpec => Spec
<1> DEFINE Loaded == load \in Loads
<1>1. MsgInit => Init /\ Loaded
  BY DEF MsgInit
<1>2. Loaded /\ [MsgNext]_mvars => [Next]_vars /\ Loaded'
  BY MsgStep
<1> HIDE DEF Loaded
<1>3. QED
  BY <1>1, <1>2, PTL DEF MsgSpec, Spec

(* So with messages, too, data reaches only the socket connected back to   *)
(* the sender, in its order, and no slot is lost.                          *)
THEOREM MessagesPaired ==
    MsgSpec => [](PeersPaired /\ RingIsFifo /\ NoSlotLost)
BY MessagesImplementSockets, SocketsPaired, RingsAreFifo, SlotsKept, PTL

-----------------------------------------------------------------------------
(* The files in the rings, given as f, are those of v that are not known:  *)
(* each waits in one place.                                                *)
Waits(f, d, i, k) == ~f[i][k].sock /\ f[i][k].fd = d

OwnedBy(f, v, kn) ==
    /\ \A d : d \in v <=> \/ d \in kn
                          \/ \E i \in Sock : \E k \in DOMAIN f[i] :
                                Waits(f, d, i, k)
    /\ \A d : \A i, j \in Sock : \A k \in DOMAIN f[i], l \in DOMAIN f[j] :
          Waits(f, d, i, k) =>
              d \notin kn /\ (Waits(f, d, j, l) => i = j /\ k = l)

(* What a task in recvmsg has read of a ring is still there, and a slot    *)
(* without a socket has no descriptors.                                    *)
RecvInv ==
    /\ load \in Loads
    /\ fds_rx \in [Sock -> Seq(Item)] /\ vfs \subseteq Vfd
    /\ mpc \in [Task -> {"idle", "read", "fds", "shift"}]
    /\ mon \in [Task -> Sock] /\ mfd \in [Task -> Item]
    /\ \A i \in Sock : ~used[i] => fds_rx[i] = <<>>
    /\ ~shared => \A t \in Task : mpc[t] = "shift" =>
          fds_rx[mon[t]] # <<>> /\ mfd[t] = Head(fds_rx[mon[t]])

FilesInv == RecvInv /\ FilesOwned

LEMMA OwnedIs ==
    ASSUME NEW f, NEW v, NEW kn
    PROVE  OwnedBy(f, v, kn) <=>
             /\ v = kn \cup UNION {Files(f[i]) : i \in Sock}
             /\ \A i, j \in Sock :
                  \A k \in {n \in DOMAIN f[i] : ~f[i][n].sock},
                     l \in {n \in DOMAIN f[j] : ~f[j][n].sock} :
                    /\ f[i][k].fd \notin kn
                    /\ f[i][k].fd = f[j][l].fd => i = j /\ k = l
<1>1. \A d : \A i \in Sock :
        d \in Files(f[i]) <=> \E k \in DOMAIN f[i] : Waits(f, d, i, k)
  BY DEF Files, Waits
<1>2. v = kn \cup UNION {Files(f[i]) : i \in Sock} <=>
        \A d : d \in v <=> d \in kn \/ \E i \in Sock : d \in Files(f[i])
  OBVIOUS
<1>3. v = kn \cup UNION {Files(f[i]) : i \in Sock} <=>
        \A d : d \in v <=> \/ d \in kn
                           \/ \E i \in Sock : \E k \in DOMAIN f[i] :
                                 Waits(f, d, i, k)
  BY <1>1, <1>2, Zenon
<1> DEFINE A == \A i, j \in Sock :
                   \A k \in {n \in DOMAIN f[i] : ~f[i][n].sock},
                      l \in {n \in DOMAIN f[j] : ~f[j][n].sock} :
                     /\ f[i][k].fd \notin kn
                     /\ f[i][k].fd = f[j][l].fd => i = j /\ k = l
           B == \A d : \A i, j \in Sock :
                   \A k \in DOMAIN f[i], l \in DOMAIN f[j] :
                     Waits(f, d, i, k) =>
                       d \notin kn /\ (Waits(f, d, j, l) => i = j /\ k = l)
<1>4. A => B
  BY DEF Waits
<1>5. B => A
  BY DEF Waits
<1> QED
  BY <1>3, <1>4, <1>5, Zenon DEF OwnedBy

LEMMA FilesOwnedIs ==
    /\ FilesOwned <=> (~shared => OwnedBy(fds_rx, vfs, known))
    /\ FilesOwned' <=> (~shared' => OwnedBy(fds_rx', vfs', known'))
<1>1. FilesOwned <=> (~shared => OwnedBy(fds_rx, vfs, known))
  BY OwnedIs, Zenon DEF FilesOwned, FilesAt, QueuedFiles
<1>2. FilesOwned' <=> (~shared' => OwnedBy(fds_rx', vfs', known'))
  BY OwnedIs, Zenon DEF FilesOwned, FilesAt, QueuedFiles, Files
<1> QED
  BY <1>1, <1>2

(* A file is opened, or closed by a program that knows it.                 *)
LEMMA OwnedOpened ==
    ASSUME NEW f, NEW v, NEW kn, OwnedBy(f, v, kn), NEW d, d \notin v
    PROVE  OwnedBy(f, v \cup {d}, kn \cup {d})
BY DEF OwnedBy

LEMMA OwnedClosed ==
    ASSUME NEW f, NEW v, NEW kn, OwnedBy(f, v, kn), NEW d, d \in kn
    PROVE  OwnedBy(f, v \ {d}, kn \ {d})
BY DEF OwnedBy

(* The ring of p is emptied and its files closed.                          *)
LEMMA OwnedDropped ==
    ASSUME NEW f \in [Sock -> Seq(Item)], NEW v, NEW kn, OwnedBy(f, v, kn),
           NEW p \in Sock
    PROVE  OwnedBy([f EXCEPT ![p] = <<>>], v \ Files(f[p]), kn)
<1> DEFINE g == [f EXCEPT ![p] = <<>>]
<1>1. DOMAIN g[p] = {} /\ \A i \in Sock : i # p => g[i] = f[i]
  BY DOMAIN <<>> = {}
<1>2. \A d : d \in Files(f[p]) <=> \E k \in DOMAIN f[p] : Waits(f, d, p, k)
  BY DEF Files, Waits
<1> HIDE DEF g
<1>3. \A d, i, k : i \in Sock /\ i # p =>
                     (Waits(g, d, i, k) <=> Waits(f, d, i, k))
  BY <1>1 DEF Waits
<1>4. ASSUME NEW d
      PROVE  d \in v \ Files(f[p]) <=>
               \/ d \in kn
               \/ \E i \in Sock : \E k \in DOMAIN g[i] : Waits(g, d, i, k)
  <2>1. d \in v <=> \/ d \in kn
                    \/ \E i \in Sock : \E k \in DOMAIN f[i] : Waits(f, d, i, k)
    BY DEF OwnedBy
  <2>2. \A i \in Sock : \A k \in DOMAIN f[i], l \in DOMAIN f[p] :
          Waits(f, d, p, l) => d \notin kn /\ (Waits(f, d, i, k) => i = p)
    BY DEF OwnedBy
  <2>3. ASSUME d \in v \ Files(f[p])
        PROVE  \/ d \in kn
               \/ \E i \in Sock : \E k \in DOMAIN g[i] : Waits(g, d, i, k)
    BY <1>1, <1>2, <1>3, <2>1, <2>3
  <2>4. ASSUME d \in kn
        PROVE  d \in v \ Files(f[p])
    BY <1>2, <2>1, <2>2, <2>4
  <2>5. ASSUME NEW i \in Sock, NEW k \in DOMAIN g[i], Waits(g, d, i, k)
        PROVE  d \in v \ Files(f[p])
    <3>1. i # p /\ k \in DOMAIN f[i] /\ Waits(f, d, i, k)
      BY <1>1, <1>3, <2>5
    <3> QED
      BY <1>2, <2>1, <2>2, <3>1
  <2> QED
    BY <2>3, <2>4, <2>5, Zenon
<1>5. ASSUME NEW d, NEW i \in Sock, NEW j \in Sock, NEW k \in DOMAIN g[i],
             NEW l \in DOMAIN g[j], Waits(g, d, i, k)
      PROVE  d \notin kn /\ (Waits(g, d, j, l) => i = j /\ k = l)
  <2>1. i # p /\ j # p /\ k \in DOMAIN f[i] /\ l \in DOMAIN f[j]
    BY <1>1
  <2> QED
    BY <1>3, <1>5, <2>1 DEF OwnedBy
<1> QED
  BY <1>4, <1>5, Zenon DEF OwnedBy, g

(* The first n items of the ring of p go to a program.                     *)
LEMMA OwnedTaken ==
    ASSUME NEW f \in [Sock -> Seq(Item)], NEW v, NEW kn, OwnedBy(f, v, kn),
           NEW p \in Sock, NEW n \in 0 .. Len(f[p])
    PROVE  OwnedBy([f EXCEPT ![p] = SubSeq(f[p], n + 1, Len(f[p]))], v,
                   kn \cup Files(SubSeq(f[p], 1, n)))
<1>1. PICK q \in Seq(Item) : q = f[p]
  OBVIOUS
<1>2. PICK m \in Nat : m = Len(q) /\ DOMAIN q = 1 .. m
  OBVIOUS
<1> DEFINE rest == SubSeq(q, n + 1, m)  taken == SubSeq(q, 1, n)
           g == [f EXCEPT ![p] = rest]
<1>3. n \in 0 .. m
  BY <1>1, <1>2
<1>4. /\ DOMAIN rest = 1 .. m - n
      /\ \A k \in 1 .. m - n : k + n \in 1 .. m /\ rest[k] = q[k + n]
  BY <1>2, <1>3
<1>5. /\ DOMAIN taken = 1 .. n
      /\ \A k \in 1 .. n : k \in 1 .. m /\ taken[k] = q[k]
  BY <1>2, <1>3
<1> DEFINE T(d) == \E k \in 1 .. n : Waits(f, d, p, k)
<1>6. \A d : d \in Files(taken) <=> T(d)
  <2> HIDE DEF taken
  <2> QED
    BY <1>1, <1>5 DEF Files, Waits
<1>7. g[p] = rest /\ \A i \in Sock : i # p => g[i] = f[i]
  OBVIOUS
<1> HIDE DEF rest, taken, g, T
<1> DEFINE at(i, k) == IF i = p THEN k + n ELSE k
<1>8. ASSUME NEW i \in Sock, NEW k \in DOMAIN g[i]
      PROVE  /\ at(i, k) \in DOMAIN f[i] /\ (i = p => at(i, k) \notin 1 .. n)
             /\ \A d : Waits(g, d, i, k) <=> Waits(f, d, i, at(i, k))
  <2>1. CASE i # p
    BY <1>7, <2>1 DEF Waits
  <2>2. CASE i = p
    <3>1. k \in 1 .. m - n /\ at(i, k) = k + n
      BY <1>4, <1>7, <2>2
    <3>2. k + n \in 1 .. m /\ k + n \notin 1 .. n
      BY <1>3, <3>1
    <3>3. g[i][k] = f[i][k + n]
      BY <1>1, <1>4, <1>7, <2>2, <3>1
    <3> QED
      BY <1>1, <1>2, <2>2, <3>1, <3>2, <3>3, Zenon DEF Waits
  <2> QED
    BY <2>1, <2>2
<1>9. ASSUME NEW d, NEW i \in Sock, NEW k \in DOMAIN f[i], Waits(f, d, i, k)
      PROVE  T(d) \/ \E l \in DOMAIN g[i] : Waits(g, d, i, l)
  <2>1. CASE i # p
    BY <1>7, <1>9, <2>1 DEF Waits
  <2>2. CASE i = p /\ k \in 1 .. n
    BY <1>9, <2>2 DEF T
  <2>3. CASE i = p /\ k \notin 1 .. n
    <3>1. k \in 1 .. m
      BY <1>1, <1>2, <2>3
    <3>2. k - n \in 1 .. m - n /\ (k - n) + n = k
      BY <1>3, <2>3, <3>1
    <3>3. g[i][k - n] = f[i][k] /\ k - n \in DOMAIN g[i]
      BY <1>1, <1>4, <1>7, <2>3, <3>2
    <3> QED
      BY <1>9, <3>3 DEF Waits
  <2> QED
    BY <2>1, <2>2, <2>3
<1>10. \A d : T(d) => d \in v /\ d \notin kn
  BY <1>1, <1>2, <1>5 DEF T, OwnedBy
<1>11. \A d : \A i, j \in Sock : \A k \in DOMAIN f[i], l \in DOMAIN f[j] :
         Waits(f, d, i, k) /\ Waits(f, d, j, l) => i = j /\ k = l
  BY DEF OwnedBy
<1>12. ASSUME NEW d
       PROVE  d \in v <=> \/ d \in kn \/ T(d)
                          \/ \E i \in Sock : \E k \in DOMAIN g[i] :
                                Waits(g, d, i, k)
  <2>1. d \in v <=> \/ d \in kn
                    \/ \E i \in Sock : \E k \in DOMAIN f[i] : Waits(f, d, i, k)
    BY DEF OwnedBy
  <2> HIDE DEF at
  <2> QED
    BY <1>8, <1>9, <1>10, <2>1, Zenon
<1>13. ASSUME NEW d, NEW i \in Sock, NEW j \in Sock, NEW k \in DOMAIN g[i],
              NEW l \in DOMAIN g[j], Waits(g, d, i, k)
       PROVE  d \notin kn /\ ~T(d) /\ (Waits(g, d, j, l) => i = j /\ k = l)
  <2>1. /\ at(i, k) \in DOMAIN f[i] /\ Waits(f, d, i, at(i, k))
        /\ i = p => at(i, k) \notin 1 .. n
        /\ at(j, l) \in DOMAIN f[j]
        /\ Waits(g, d, j, l) => Waits(f, d, j, at(j, l))
    <3> HIDE DEF at
    <3> QED
      BY <1>8, <1>13
  <2>2. d \notin kn
        /\ (Waits(g, d, j, l) => i = j /\ at(i, k) = at(j, l))
    <3> HIDE DEF at
    <3> QED
      BY <2>1 DEF OwnedBy
  <2>3. ~T(d)
    <3>1. SUFFICES ASSUME NEW h \in 1 .. n, Waits(f, d, p, h)
                   PROVE  FALSE
      BY DEF T
    <3>2. h \in DOMAIN f[p]
      BY <1>1, <1>2, <1>5
    <3>3. i = p /\ at(i, k) = h
      <4> HIDE DEF at
      <4> QED
        BY <1>11, <2>1, <3>1, <3>2, Zenon
    <3> HIDE DEF at
    <3> QED
      BY <2>1, <3>3
  <2>4. Waits(g, d, j, l) => k = l
    <3>1. SUFFICES ASSUME Waits(g, d, j, l)
                   PROVE  k = l
      OBVIOUS
    <3>2. i = j /\ at(i, k) = at(j, l)
      BY <2>2, <3>1
    <3>3. CASE i # p
      BY <3>2, <3>3
    <3>4. CASE i = p
      <4>1. k \in 1 .. m - n /\ l \in 1 .. m - n
        BY <1>4, <1>7, <3>2, <3>4
      <4>2. k + n = l + n
        BY <3>2, <3>4
      <4> QED
        BY <1>3, <4>1, <4>2
    <3> QED
      BY <3>3, <3>4
  <2> QED
    BY <2>2, <2>3, <2>4
<1>14. OwnedBy(g, v, kn \cup Files(taken))
  <2>1. \A d : d \in kn \cup Files(taken) <=> d \in kn \/ T(d)
    BY <1>6
  <2> QED
    BY <1>12, <1>13, <2>1, Zenon DEF OwnedBy
<1> QED
  BY <1>1, <1>2, <1>14 DEF g, rest, taken

(* The duplicates in sent are new and differ: they go to the ring of p.    *)
LEMMA OwnedSent ==
    ASSUME NEW f \in [Sock -> Seq(Item)], NEW v, NEW kn, OwnedBy(f, v, kn),
           NEW p \in Sock, NEW m \in Nat, NEW sent \in [1 .. m -> Item],
           \A k \in 1 .. m : ~sent[k].sock =>
              /\ sent[k].fd \notin v
              /\ \A j \in 1 .. k - 1 :
                    ~sent[j].sock => sent[j].fd # sent[k].fd
    PROVE  OwnedBy([f EXCEPT ![p] = f[p] \o sent], v \cup Files(sent), kn)
<1>1. PICK q \in Seq(Item) : q = f[p]
  OBVIOUS
<1>2. PICK n \in Nat : n = Len(q) /\ DOMAIN q = 1 .. n
  OBVIOUS
<1>3. sent \in Seq(Item) /\ Len(sent) = m /\ DOMAIN sent = 1 .. m
  OBVIOUS
<1> DEFINE new == q \o sent  g == [f EXCEPT ![p] = new]
<1>4. /\ DOMAIN new = 1 .. n + m
      /\ \A k \in 1 .. n : new[k] = q[k]
      /\ \A k \in n + 1 .. n + m : new[k] = sent[k - n]
  BY <1>2, <1>3
<1> DEFINE S(d, k) == k \in 1 .. m /\ ~sent[k].sock /\ sent[k].fd = d
<1>5. \A d : d \in Files(sent) <=> \E k \in 1 .. m : S(d, k)
  BY <1>3 DEF Files
<1>6. g[p] = new /\ \A i \in Sock : i # p => g[i] = f[i]
  OBVIOUS
<1>7. \A d, k, l : S(d, k) /\ S(d, l) => k = l
  <2>1. SUFFICES ASSUME NEW d, NEW k \in 1 .. m, NEW l \in 1 .. m, S(d, k),
                        S(d, l)
                 PROVE  k = l
    OBVIOUS
  <2>2. k \notin 1 .. l - 1 /\ l \notin 1 .. k - 1
    BY <2>1
  <2> HIDE DEF S
  <2> QED
    BY <2>2
<1>8. \A d, k : S(d, k) => d \notin v
  OBVIOUS
<1> HIDE DEF new, g, S
(* A file waits in the new ring where it did, or where it was sent. *)
<1> DEFINE old(i, k) == i # p \/ k \in 1 .. n
<1>9. ASSUME NEW i \in Sock, NEW k \in DOMAIN g[i]
      PROVE  /\ old(i, k) => /\ k \in DOMAIN f[i]
                             /\ \A d : Waits(g, d, i, k) <=> Waits(f, d, i, k)
             /\ ~old(i, k) => /\ i = p /\ k - n \in 1 .. m
                              /\ k \in n + 1 .. n + m
                              /\ \A d : Waits(g, d, i, k) <=> S(d, k - n)
  <2>1. CASE i # p
    BY <1>6, <2>1 DEF Waits
  <2>2. CASE i = p /\ k \in 1 .. n
    BY <1>1, <1>2, <1>4, <1>6, <2>2 DEF Waits
  <2>3. CASE i = p /\ k \notin 1 .. n
    <3>1. k \in 1 .. n + m
      BY <1>4, <1>6, <2>3
    <3>2. k \in n + 1 .. n + m /\ k - n \in 1 .. m
      BY <2>3, <3>1
    <3>3. g[i][k] = sent[k - n]
      BY <1>4, <1>6, <2>3, <3>2
    <3> QED
      BY <2>3, <3>2, <3>3 DEF Waits, S
  <2> QED
    BY <2>1, <2>2, <2>3
<1>10. ASSUME NEW d, NEW i \in Sock, NEW k \in DOMAIN f[i], Waits(f, d, i, k)
       PROVE  k \in DOMAIN g[i] /\ Waits(g, d, i, k)
  <2>1. CASE i # p
    BY <1>6, <1>10, <2>1 DEF Waits
  <2>2. CASE i = p
    <3>1. k \in 1 .. n /\ k \in 1 .. n + m
      BY <1>1, <1>2, <2>2
    <3> QED
      BY <1>1, <1>4, <1>6, <1>10, <2>2, <3>1 DEF Waits
  <2> QED
    BY <2>1, <2>2
<1>11. ASSUME NEW d, NEW k \in 1 .. m, S(d, k)
       PROVE  \E l \in DOMAIN g[p] : Waits(g, d, p, l)
  <2>1. k + n \in n + 1 .. n + m /\ k + n \in 1 .. n + m /\ (k + n) - n = k
    OBVIOUS
  <2>2. g[p][k + n] = sent[k] /\ k + n \in DOMAIN g[p]
    BY <1>4, <1>6, <2>1
  <2> QED
    BY <1>11, <2>2 DEF S, Waits
<1> HIDE DEF old
<1>12. ASSUME NEW d
       PROVE  d \in v \cup Files(sent) <=>
                \/ d \in kn
                \/ \E i \in Sock : \E k \in DOMAIN g[i] : Waits(g, d, i, k)
  <2>1. d \in v <=> \/ d \in kn
                    \/ \E i \in Sock : \E k \in DOMAIN f[i] : Waits(f, d, i, k)
    BY DEF OwnedBy
  <2>2. ASSUME NEW i \in Sock, NEW k \in DOMAIN g[i], Waits(g, d, i, k)
        PROVE  d \in v \cup Files(sent)
    BY <1>5, <1>9, <2>1, <2>2
  <2>3. ASSUME d \in Files(sent)
        PROVE  \E i \in Sock : \E k \in DOMAIN g[i] : Waits(g, d, i, k)
    BY <1>5, <1>11, <2>3
  <2>4. ASSUME d \in v
        PROVE  \/ d \in kn
               \/ \E i \in Sock : \E k \in DOMAIN g[i] : Waits(g, d, i, k)
    BY <1>10, <2>1, <2>4
  <2> QED
    BY <2>1, <2>2, <2>3, <2>4, Zenon
<1>13. ASSUME NEW d, NEW i \in Sock, NEW j \in Sock, NEW k \in DOMAIN g[i],
              NEW l \in DOMAIN g[j], Waits(g, d, i, k)
       PROVE  d \notin kn /\ (Waits(g, d, j, l) => i = j /\ k = l)
  <2>1. d \in kn => d \in v
    BY DEF OwnedBy
  <2>2. old(i, k) => d \in v /\ d \notin kn
    BY <1>9, <1>13 DEF OwnedBy
  <2>3. old(j, l) /\ Waits(g, d, j, l) => d \in v
    BY <1>9 DEF OwnedBy
  <2>4. ~old(i, k) => d \notin v
    BY <1>8, <1>9, <1>13
  <2>5. ~old(j, l) /\ Waits(g, d, j, l) => d \notin v
    BY <1>8, <1>9
  <2>6. CASE old(i, k)
    <3>1. ASSUME Waits(g, d, j, l)
          PROVE  i = j /\ k = l
      <4>1. old(j, l)
        BY <2>2, <2>5, <2>6, <3>1
      <4> QED
        <5>1. /\ k \in DOMAIN f[i] /\ l \in DOMAIN f[j]
              /\ Waits(f, d, i, k) /\ Waits(f, d, j, l)
          BY <1>9, <1>13, <2>6, <3>1, <4>1
        <5>2. \A x : \A a, b \in Sock :
              \A y \in DOMAIN f[a], z \in DOMAIN f[b] :
                Waits(f, x, a, y) /\ Waits(f, x, b, z) => a = b /\ y = z
          BY DEF OwnedBy
        <5> QED
          BY <5>1, <5>2, Zenon
    <3> QED
      BY <2>2, <2>6, <3>1
  <2>7. CASE ~old(i, k)
    <3>1. ASSUME Waits(g, d, j, l)
          PROVE  i = j /\ k = l
      <4>1. ~old(j, l)
        BY <2>3, <2>4, <2>7, <3>1
      <4>2. /\ i = p /\ j = p /\ S(d, k - n) /\ S(d, l - n)
            /\ k \in n + 1 .. n + m /\ l \in n + 1 .. n + m
        BY <1>9, <1>13, <2>7, <3>1, <4>1
      <4>3. k - n = l - n
        BY <1>7, <4>2
      <4>4. k = l
        BY <4>2, <4>3
      <4> QED
        BY <4>2, <4>4
    <3> QED
      BY <2>1, <2>4, <2>7, <3>1
  <2> QED
    BY <2>6, <2>7
<1>14. OwnedBy(g, v \cup Files(sent), kn)
  BY <1>12, <1>13, Zenon DEF OwnedBy
<1> QED
  BY <1>1, <1>14 DEF g, new

(* Steps that leave the rings of descriptors and the files alone, while    *)
(* slots may be taken: their rings are empty.                              *)
LEMMA RingsUntouched ==
    ASSUME FilesInv, UNCHANGED <<load, fds_rx, vfs, known, shared>>,
           \A i \in Sock : used[i] => used'[i],
           mpc' \in [Task -> {"idle", "read", "fds", "shift"}],
           mon' \in [Task -> Sock], mfd' \in [Task -> Item],
           \A t \in Task : mpc'[t] = "shift" =>
              \/ mpc[t] = "shift" /\ mon'[t] = mon[t] /\ mfd'[t] = mfd[t]
              \/ /\ fds_rx[mon'[t]] # <<>>
                 /\ mfd'[t] = Head(fds_rx[mon'[t]])
    PROVE  FilesInv'
<1>1. FilesOwned'
  BY FilesOwnedIs DEF FilesInv
<1>2. RecvInv'
  BY DEF FilesInv, RecvInv
<1> QED
  BY <1>1, <1>2 DEF FilesInv

LEMMA PlainFiles ==
    ASSUME FilesInv, NEW t \in Task, Plain(t), Untouched
    PROVE  FilesInv'
<1>1. \A i \in Sock : used[i] => used'[i]
  BY DEF Plain, unix_socket, unix_socketpair, FreshSlots, unix_sock_write,
         unix_sock_read, unix_sock_fcntl, unix_eventfd, history
<1>2. fds_rx' = fds_rx
  <2>1. fds_rx \in [Sock -> Seq(Item)]
        /\ \A i \in Sock : ~used[i] => fds_rx[i] = <<>>
    BY DEF FilesInv, RecvInv
  <2> QED
    BY <2>1 DEF Untouched
<1>3. UNCHANGED <<load, vfs, known, shared, mpc, mon, mroom, mfd>>
  BY DEF Untouched, rlocals
<1>4. /\ mpc \in [Task -> {"idle", "read", "fds", "shift"}]
      /\ mon \in [Task -> Sock] /\ mfd \in [Task -> Item]
  BY DEF FilesInv, RecvInv
<1> QED
  BY <1>1, <1>2, <1>3, <1>4, RingsUntouched

LEMMA ZeroIsItem == 0 \in Sock /\ Zero \in Item
BY SocketAssumption, MsgAssumption DEF Sock, Zero, Item, Vfd

LEMMA RecvDataFiles ==
    ASSUME FilesInv, NEW t \in Task, recv_data(t)
    PROVE  FilesInv'
<1>1. used' = used /\ UNCHANGED <<load, fds_rx, vfs, known, shared>>
  BY DEF recv_data, read_wake, read_go, table, rings
<1>2. \/ UNCHANGED <<mpc, mon, mfd>>
      \/ mpc' = [mpc EXCEPT ![t] = "fds"] /\ UNCHANGED <<mon, mfd>>
      \/ /\ mpc' = [mpc EXCEPT ![t] = "idle"] /\ mon' = [mon EXCEPT ![t] = 0]
         /\ mfd' = [mfd EXCEPT ![t] = Zero]
  BY DEF recv_data, recv_return, rlocals
<1>3. /\ mpc \in [Task -> {"idle", "read", "fds", "shift"}]
      /\ mon \in [Task -> Sock] /\ mfd \in [Task -> Item]
  BY DEF FilesInv, RecvInv
<1>4. /\ mpc' \in [Task -> {"idle", "read", "fds", "shift"}]
      /\ mon' \in [Task -> Sock] /\ mfd' \in [Task -> Item]
  BY <1>2, <1>3, ZeroIsItem
<1>5. \A u \in Task : mpc'[u] = "shift" =>
         mpc[u] = "shift" /\ mon'[u] = mon[u] /\ mfd'[u] = mfd[u]
  BY <1>2, <1>3
<1> QED
  BY <1>1, <1>4, <1>5, RingsUntouched

LEMMA RecvLoadFiles ==
    ASSUME FilesInv, NEW t \in Task, recv_load(t)
    PROVE  FilesInv'
<1>1. used' = used /\ UNCHANGED <<load, fds_rx, vfs, known, shared>>
  BY DEF recv_load, rings, vars
<1>2. \/ /\ fds_rx[mon[t]] # <<>> /\ mpc' = [mpc EXCEPT ![t] = "shift"]
         /\ mfd' = [mfd EXCEPT ![t] = Head(fds_rx[mon[t]])]
         /\ mon' = mon
      \/ /\ mpc' = [mpc EXCEPT ![t] = "idle"] /\ mon' = [mon EXCEPT ![t] = 0]
         /\ mfd' = [mfd EXCEPT ![t] = Zero]
  BY DEF recv_load, recv_return
<1>3. /\ mpc \in [Task -> {"idle", "read", "fds", "shift"}]
      /\ mon \in [Task -> Sock] /\ mfd \in [Task -> Item]
      /\ fds_rx \in [Sock -> Seq(Item)]
  BY DEF FilesInv, RecvInv
<1>4. fds_rx[mon[t]] # <<>> => Head(fds_rx[mon[t]]) \in Item
  <2>1. PICK q \in Seq(Item) : q = fds_rx[mon[t]]
    BY <1>3
  <2>2. q # <<>> => Head(q) \in Item
    BY HeadTailProperties
  <2> QED
    BY <2>1, <2>2
<1>5. /\ mpc' \in [Task -> {"idle", "read", "fds", "shift"}]
      /\ mon' \in [Task -> Sock] /\ mfd' \in [Task -> Item]
  BY <1>2, <1>3, <1>4, ZeroIsItem
<1>6. ASSUME NEW u \in Task, mpc'[u] = "shift"
      PROVE  \/ mpc[u] = "shift" /\ mon'[u] = mon[u] /\ mfd'[u] = mfd[u]
             \/ fds_rx[mon'[u]] # <<>> /\ mfd'[u] = Head(fds_rx[mon'[u]])
  BY <1>2, <1>3, <1>6
<1> QED
  BY <1>1, <1>5, <1>6, RingsUntouched

LEMMA OpenCloseFiles ==
    ASSUME FilesInv, ~shared, NEW t \in Task,
           vfs_open(t) \/ \E d \in Vfd : vfs_close(t, d)
    PROVE  FilesInv'
<1>1. /\ UNCHANGED <<load, fds_rx, shared, mpc, mon, mfd>> /\ used' = used
      /\ \/ \E d \in Vfd \ vfs :
               vfs' = vfs \cup {d} /\ known' = known \cup {d}
         \/ \E d \in known : vfs' = vfs \ {d} /\ known' = known \ {d}
  BY DEF vfs_open, vfs_close, Least, rlocals, vars
<1>2. OwnedBy(fds_rx, vfs, known)
  BY FilesOwnedIs DEF FilesInv
<1>3. OwnedBy(fds_rx, vfs', known')
  BY <1>1, <1>2, OwnedOpened, OwnedClosed
<1>4. FilesOwned'
  BY <1>1, <1>3, FilesOwnedIs
<1>5. RecvInv'
  BY <1>1 DEF FilesInv, RecvInv
<1> QED
  BY <1>4, <1>5 DEF FilesInv

LEMMA CloseFiles ==
    ASSUME FilesInv, ~shared, NEW t \in Task, NEW i \in Sock, sock_close(t, i)
    PROVE  FilesInv'
<1>1. /\ mpc[t] = "idle" /\ used' = [used EXCEPT ![i] = FALSE]
      /\ vfs' = vfs \ Files(fds_rx[i])
      /\ fds_rx' = [fds_rx EXCEPT ![i] = <<>>]
      /\ Taking(t, i) => shared'
      /\ UNCHANGED <<load, known, mpc, mon, mfd>>
  BY DEF sock_close, Idle, unix_sock_close, QueuedFiles, rlocals
<1>2. fds_rx \in [Sock -> Seq(Item)] /\ OwnedBy(fds_rx, vfs, known)
  BY FilesOwnedIs DEF FilesInv, RecvInv
<1>3. OwnedBy(fds_rx', vfs', known')
  BY <1>1, <1>2, OwnedDropped
<1>4. FilesOwned'
  BY <1>3, FilesOwnedIs
<1>5. fds_rx' \in [Sock -> Seq(Item)] /\ fds_rx'[i] = <<>>
      /\ \A j \in Sock : j # i => fds_rx'[j] = fds_rx[j]
  <2>1. <<>> \in Seq(Item)
    OBVIOUS
  <2> QED
    BY <1>1, <1>2, <2>1
<1>6. ASSUME ~shared', NEW u \in Task, mpc'[u] = "shift"
      PROVE  fds_rx'[mon'[u]] # <<>> /\ mfd'[u] = Head(fds_rx'[mon'[u]])
  <2>1. mon[u] # i /\ mon[u] \in Sock
    BY <1>1, <1>6 DEF Taking, FilesInv, RecvInv
  <2> QED
    BY <1>1, <1>5, <1>6, <2>1 DEF FilesInv, RecvInv
<1>7. \A j \in Sock : ~used'[j] => fds_rx'[j] = <<>>
  <2>1. \A j \in Sock : j # i => used'[j] = used[j]
    BY <1>1
  <2> QED
    BY <1>5, <2>1 DEF FilesInv, RecvInv
<1>8. RecvInv'
  BY <1>1, <1>5, <1>6, <1>7 DEF FilesInv, RecvInv
<1> QED
  BY <1>4, <1>8 DEF FilesInv

LEMMA RingTaken ==
    ASSUME FilesInv, ~shared, NEW t \in Task, NEW p \in Sock,
           NEW n \in 0 .. Len(fds_rx[p]),
           fds_rx' = [fds_rx EXCEPT ![p] =
                        SubSeq(fds_rx[p], n + 1, Len(fds_rx[p]))],
           known' = known \cup Files(SubSeq(fds_rx[p], 1, n)),
           n > 0 /\ Taking(t, p) => shared',
           UNCHANGED <<load, vfs, mon, mfd>>, used' = used,
           mpc' \in [Task -> {"idle", "read", "fds", "shift"}],
           \A u \in Task : mpc'[u] = "shift" => mpc[u] = "shift" /\ u # t
    PROVE  FilesInv'
<1>1. fds_rx \in [Sock -> Seq(Item)] /\ OwnedBy(fds_rx, vfs, known)
  BY FilesOwnedIs DEF FilesInv, RecvInv
<1>2. OwnedBy(fds_rx', vfs', known')
  BY <1>1, OwnedTaken
<1>3. FilesOwned'
  BY <1>2, FilesOwnedIs
<1>4. PICK q \in Seq(Item) : q = fds_rx[p]
  BY <1>1
<1>5. SubSeq(q, n + 1, Len(q)) \in Seq(Item)
  <2>1. \A k \in n + 1 .. Len(q) : q[k] \in Item
    BY <1>4, ElementOfSeq
  <2> QED
    BY <1>4, <2>1
<1>6. n = 0 => SubSeq(q, n + 1, Len(q)) = q
  BY <1>4
<1>7. q = <<>> => SubSeq(q, n + 1, Len(q)) = <<>>
  <2>1. q = <<>> => n = 0
    BY <1>4
  <2> QED
    BY <1>6, <2>1
<1> DEFINE rest == SubSeq(q, n + 1, Len(q))
<1>8. fds_rx' = [fds_rx EXCEPT ![p] = rest]
  BY <1>4
<1> HIDE DEF rest
<1>9. /\ fds_rx' \in [Sock -> Seq(Item)] /\ fds_rx'[p] = rest
      /\ \A i \in Sock : i # p => fds_rx'[i] = fds_rx[i]
  BY <1>1, <1>5, <1>8 DEF rest
<1>10. n = 0 => fds_rx' = fds_rx
  BY <1>1, <1>4, <1>6, <1>8 DEF rest
<1>11. \A i \in Sock : ~used'[i] => fds_rx'[i] = <<>>
  BY <1>4, <1>7, <1>9 DEF rest, FilesInv, RecvInv
<1>12. ASSUME ~shared', NEW u \in Task, mpc'[u] = "shift"
       PROVE  fds_rx'[mon'[u]] # <<>> /\ mfd'[u] = Head(fds_rx'[mon'[u]])
  <2>1. mpc[u] = "shift" /\ u # t /\ mon[u] \in Sock
    BY <1>12 DEF FilesInv, RecvInv
  <2>2. n = 0 \/ mon[u] # p
    <3>1. n > 0 => ~Taking(t, p)
      BY <1>12
    <3>2. Taking(t, p) \/ mon[u] # p
      BY <2>1 DEF Taking
    <3> QED
      BY <3>1, <3>2
  <2>3. fds_rx'[mon[u]] = fds_rx[mon[u]]
    BY <1>9, <1>10, <2>1, <2>2
  <2> QED
    BY <2>1, <2>3 DEF FilesInv, RecvInv
<1>13. RecvInv'
  BY <1>9, <1>11, <1>12 DEF FilesInv, RecvInv
<1> QED
  BY <1>3, <1>13 DEF FilesInv

LEMMA RecvShiftFiles ==
    ASSUME FilesInv, ~shared, NEW t \in Task, recv_shift(t)
    PROVE  FilesInv'
<1>1. PICK p \in Sock : p = mon[t]
  BY DEF FilesInv, RecvInv
<1>2. PICK q \in Seq(Item) : q = fds_rx[p]
  BY DEF FilesInv, RecvInv
<1>3. q # <<>> /\ mfd[t] = Head(q)
  BY <1>1, <1>2 DEF recv_shift, FilesInv, RecvInv
<1>4. 1 \in 0 .. Len(q) /\ Files(SubSeq(q, 1, 1)) = Files(<<Head(q)>>)
  <2>1. Len(q) \in Nat /\ Len(q) > 0
    BY <1>2, <1>3, EmptySeq
  <2>2. 1 \in DOMAIN q /\ Head(q) = q[1]
    BY <1>2, <1>3, <2>1
  <2> DEFINE one == SubSeq(q, 1, 1)  head == <<q[1]>>
  <2>3. one \in Seq(Item) /\ Len(one) = 1 /\ one[1] = q[1]
    BY <1>2, <2>1, <2>2
  <2>4. DOMAIN one = {1} /\ DOMAIN head = {1} /\ head[1] = q[1]
    <3>1. DOMAIN one = 1 .. 1
      BY <2>3
    <3> QED
      BY <3>1
  <2> HIDE DEF one, head
  <2>5. Files(one) = Files(head)
    BY <2>3, <2>4 DEF Files
  <2> QED
    BY <2>1, <2>2, <2>5 DEF one, head
<1>5. /\ fds_rx' = [fds_rx EXCEPT ![p] =
                      SubSeq(fds_rx[p], 1 + 1, Len(fds_rx[p]))]
      /\ known' = known \cup Files(SubSeq(fds_rx[p], 1, 1))
  <2>1. /\ fds_rx' = [fds_rx EXCEPT ![p] =
                        SubSeq(fds_rx[p], 2, Len(fds_rx[p]))]
        /\ known' = known \cup Files(<<mfd[t]>>)
    BY <1>1 DEF recv_shift
  <2>2. 1 + 1 = 2
    OBVIOUS
  <2> QED
    BY <1>2, <1>3, <1>4, <2>1, <2>2, Zenon
<1>6. /\ Taking(t, p) => shared'
      /\ UNCHANGED <<load, vfs, mon, mfd>> /\ used' = used
  BY <1>1 DEF recv_shift, vars
<1>7. /\ mpc' \in [Task -> {"idle", "read", "fds", "shift"}]
      /\ \A u \in Task : mpc'[u] = "shift" => mpc[u] = "shift" /\ u # t
  BY DEF recv_shift, FilesInv, RecvInv
<1> QED
  BY <1>2, <1>4, <1>5, <1>6, <1>7, RingTaken

LEMMA RecvMsgFiles ==
    ASSUME FilesInv, ~shared, NEW t \in Task, NEW i \in Sock,
           NEW n \in Nat, NEW room \in MaxFds,
           unix_sock_recvmsg(t, i, n, room)
    PROVE  FilesInv'
<1>1. used' = used /\ mpc[t] = "idle"
  BY DEF unix_sock_recvmsg, unix_sock_read, vars, Idle
<1>2. mpc \in [Task -> {"idle", "read", "fds", "shift"}]
      /\ mon \in [Task -> Sock] /\ mfd \in [Task -> Item]
      /\ fds_rx \in [Sock -> Seq(Item)]
  BY DEF FilesInv, RecvInv
<1>3. CASE n > 0 /\ MustWait(i)
  <2>1. /\ mpc' = [mpc EXCEPT ![t] = "read"]
        /\ mon' = [mon EXCEPT ![t] = i]
        /\ UNCHANGED <<load, fds_rx, vfs, known, shared, mfd>>
    BY <1>3 DEF unix_sock_recvmsg, rings
  <2> QED
    BY <1>1, <1>2, <2>1, RingsUntouched
<1>4. CASE ~(n > 0 /\ MustWait(i))
  <2>1. Take(t, i, room)
    BY <1>4 DEF unix_sock_recvmsg
  <2>2. PICK k : k = IF room < Len(fds_rx[i]) THEN room ELSE Len(fds_rx[i])
    OBVIOUS
  <2>3. k \in 0 .. Len(fds_rx[i])
    <3>1. Len(fds_rx[i]) \in Nat
      BY <1>2
    <3> QED
      BY <2>2, <3>1, MsgAssumption
  <2>4. /\ fds_rx' = [fds_rx EXCEPT ![i] =
                        SubSeq(fds_rx[i], k + 1, Len(fds_rx[i]))]
        /\ known' = known \cup Files(SubSeq(fds_rx[i], 1, k))
        /\ k > 0 /\ Taking(t, i) => shared'
        /\ UNCHANGED <<load, vfs, mpc, mon, mfd>>
    BY <2>1, <2>2, Zenon DEF Take, rlocals
  <2>5. \A u \in Task : mpc'[u] = "shift" => mpc[u] = "shift" /\ u # t
    BY <1>1, <2>4
  <2> QED
    BY <1>1, <1>2, <2>3, <2>4, <2>5, RingTaken
<1> QED
  BY <1>3, <1>4

(* What arrives is fresh: vfs_dup gives a file a number that is not in use *)
(* and that no earlier file of the message was given.                      *)
LEMMA ArrivesFresh ==
    ASSUME NEW q, NEW items, NEW m \in Nat, NEW sent \in [1 .. m -> Item],
           Arrives(q, items, sent)
    PROVE  \A k \in 1 .. m : ~sent[k].sock =>
              /\ sent[k].fd \notin vfs /\ sent[k].fd \in Vfd
              /\ \A j \in 1 .. k - 1 :
                    ~sent[j].sock => sent[j].fd # sent[k].fd
<1>1. SUFFICES ASSUME NEW k \in 1 .. m, ~sent[k].sock
               PROVE  /\ sent[k].fd \notin vfs /\ sent[k].fd \in Vfd
                      /\ \A j \in 1 .. k - 1 :
                            ~sent[j].sock => sent[j].fd # sent[k].fd
  OBVIOUS
<1>2. PICK c : c = k - 1 /\ c \in Nat /\ c <= m
  OBVIOUS
<1> DEFINE before == SubSeq(sent, 1, c)
<1>3. DOMAIN before = 1 .. c /\ \A j \in 1 .. c : before[j] = sent[j]
  <2>1. sent \in Seq(Item) /\ Len(sent) = m
    OBVIOUS
  <2> QED
    BY <1>2, <2>1
<1> HIDE DEF before
<1>4. sent[k].fd \in Dup(before)
  <2>1. DOMAIN sent = 1 .. m
    OBVIOUS
  <2>2. IF items[k].sock THEN sent[k] = items[k]
        ELSE ~sent[k].sock /\ sent[k].fd \in Dup(SubSeq(sent, 1, k - 1))
    BY <2>1 DEF Arrives
  <2>3. ~items[k].sock
    BY <1>1, <2>2
  <2> QED
    BY <1>2, <2>2, <2>3, Zenon DEF before
<1>5. /\ sent[k].fd \in Vfd /\ sent[k].fd \notin vfs
      /\ sent[k].fd \notin Files(before)
  BY <1>4 DEF Dup, Least
<1>6. \A j \in 1 .. c : ~sent[j].sock => sent[j].fd \in Files(before)
  BY <1>3 DEF Files
<1> QED
  BY <1>2, <1>5, <1>6

LEMMA SendMsgFiles ==
    ASSUME PeerInv, FilesInv, ~shared, NEW t \in Task, NEW i \in Sock, NEW n,
           NEW b, NEW k \in Nat, NEW items \in [1 .. k -> Sendable],
           unix_sock_sendmsg(t, i, n, b, items)
    PROVE  FilesInv'
<1>1. /\ used' = used /\ i \in open /\ peer_idx[i] # PEER_NONE
      /\ UNCHANGED <<load, known, shared, mpc, mon, mfd>>
  BY DEF unix_sock_sendmsg, unix_sock_write, vars, rlocals
<1>2. PICK p \in Sock : p = peer_idx[i] /\ used[p]
  BY <1>1 DEF PeerInv, PeersPaired
<1>3. /\ mpc \in [Task -> {"idle", "read", "fds", "shift"}]
      /\ mon \in [Task -> Sock] /\ mfd \in [Task -> Item]
      /\ fds_rx \in [Sock -> Seq(Item)] /\ OwnedBy(fds_rx, vfs, known)
  BY FilesOwnedIs DEF FilesInv, RecvInv
<1>4. CASE UNCHANGED <<fds_rx, vfs>>
  BY <1>1, <1>3, <1>4, RingsUntouched
<1>5. CASE \E m \in 0 .. Len(items) : \E sent \in [1 .. m -> Item] :
              /\ Arrives(fds_rx[p], items, sent)
              /\ fds_rx' = [fds_rx EXCEPT ![p] = @ \o sent]
              /\ vfs' = vfs \cup Files(sent) \cup Refused(items, sent)
  <2>1. PICK m \in Nat : \E sent \in [1 .. m -> Item] :
              /\ Arrives(fds_rx[p], items, sent)
              /\ fds_rx' = [fds_rx EXCEPT ![p] = @ \o sent]
              /\ vfs' = vfs \cup Files(sent) \cup Refused(items, sent)
    <3>1. \A m \in 0 .. Len(items) : m \in Nat
      OBVIOUS
    <3> QED
      BY <1>5, <3>1, Zenon
  <2>2. PICK sent \in [1 .. m -> Item] :
              /\ Arrives(fds_rx[p], items, sent)
              /\ fds_rx' = [fds_rx EXCEPT ![p] = fds_rx[p] \o sent]
              /\ vfs' = vfs \cup Files(sent)
    BY <2>1, Zenon DEF Refused
  <2>3. \A j \in 1 .. m : ~sent[j].sock =>
              /\ sent[j].fd \notin vfs /\ sent[j].fd \in Vfd
              /\ \A h \in 1 .. j - 1 :
                    ~sent[h].sock => sent[h].fd # sent[j].fd
    BY <2>2, ArrivesFresh
  <2>4. OwnedBy(fds_rx', vfs', known')
    BY <1>1, <1>3, <2>2, <2>3, OwnedSent
  <2>5. FilesOwned'
    BY <2>4, FilesOwnedIs
  <2>6. PICK q \in Seq(Item) : q = fds_rx[p]
    BY <1>3
  <2>7. sent \in Seq(Item) /\ DOMAIN sent = 1 .. m
    OBVIOUS
  <2>8. /\ q \o sent \in Seq(Item)
        /\ q # <<>> => q \o sent # <<>> /\ Head(q \o sent) = Head(q)
    <3>1. q \o sent \in Seq(Item)
      BY <2>6, <2>7
    <3>2. ASSUME q # <<>>
          PROVE  q \o sent # <<>> /\ Head(q \o sent) = Head(q)
      <4>1. Len(q) \in Nat /\ Len(q) > 0
        BY <2>6, <3>2, EmptySeq
      <4>2. (q \o sent)[1] = q[1] /\ Len(q \o sent) > 0
        BY <2>6, <2>7, <4>1
      <4> QED
        BY <2>6, <3>1, <3>2, <4>2, EmptySeq, HeadTailProperties
    <3> QED
      BY <3>1, <3>2
  <2> DEFINE new == q \o sent
  <2>9. fds_rx' = [fds_rx EXCEPT ![p] = new]
    BY <2>2, <2>6
  <2> HIDE DEF new
  <2>10. /\ fds_rx' \in [Sock -> Seq(Item)] /\ fds_rx'[p] = new
         /\ \A j \in Sock : j # p => fds_rx'[j] = fds_rx[j]
    BY <1>3, <2>8, <2>9 DEF new
  <2>11. ASSUME NEW u \in Task, mpc'[u] = "shift"
         PROVE  fds_rx'[mon'[u]] # <<>> /\ mfd'[u] = Head(fds_rx'[mon'[u]])
    <3>1. /\ mon[u] \in Sock /\ fds_rx[mon[u]] # <<>>
          /\ mfd[u] = Head(fds_rx[mon[u]])
      BY <1>1, <2>11 DEF FilesInv, RecvInv
    <3> QED
      BY <1>1, <2>6, <2>8, <2>10, <3>1 DEF new
  <2>12. vfs' \subseteq Vfd
    BY <2>2, <2>3, <2>7 DEF Files, FilesInv, RecvInv
  <2>13. \A j \in Sock : ~used'[j] => fds_rx'[j] = <<>>
    BY <1>1, <1>2, <2>10 DEF FilesInv, RecvInv
  <2>14. RecvInv'
    BY <1>1, <1>3, <2>10, <2>11, <2>12, <2>13 DEF FilesInv, RecvInv
  <2> QED
    BY <2>5, <2>14 DEF FilesInv
<1> QED
  BY <1>2, <1>4, <1>5 DEF unix_sock_sendmsg

LEMMA FilesStep == PeerInv /\ FilesInv /\ [MsgNext]_mvars => FilesInv'
<1>1. SUFFICES ASSUME PeerInv, FilesInv, [MsgNext]_mvars
               PROVE  FilesInv'
  OBVIOUS
<1>2. CASE UNCHANGED mvars
  <2>1. UNCHANGED <<load, fds_rx, vfs, known, shared, mpc, mon, mfd, used>>
    BY <1>2 DEF mvars, rings, rlocals, vars
  <2>2. /\ mpc \in [Task -> {"idle", "read", "fds", "shift"}]
        /\ mon \in [Task -> Sock] /\ mfd \in [Task -> Item]
    BY <1>1 DEF FilesInv, RecvInv
  <2> QED
    BY <1>1, <2>1, <2>2, RingsUntouched
<1>3. CASE MsgNext
  <2>1. PICK t \in Task :
        \/ Plain(t) /\ Untouched
        \/ Woken(t)
        \/ vfs_open(t)
        \/ \E d \in Vfd : vfs_close(t, d)
        \/ \E i \in Sock : sock_close(t, i)
        \/ \E i \in load.from, n \in load.send, b \in load.bytes :
              \E k \in load.pass : \E items \in [1 .. k -> Sendable] :
                  unix_sock_sendmsg(t, i, n, b, items)
        \/ \E i \in Sock, n \in load.recv, room \in MaxFds :
              unix_sock_recvmsg(t, i, n, room)
    BY <1>3, Zenon DEF MsgNext
  <2>2. ~shared
    BY <1>3 DEF MsgNext
  <2>3. /\ load.from \subseteq Sock /\ load.pass \subseteq Nat
        /\ load.recv \subseteq Nat
    BY <1>1, MsgAssumption DEF FilesInv, RecvInv
  <2>4. CASE Plain(t) /\ Untouched
    BY <1>1, <2>4, PlainFiles
  <2>5. CASE Woken(t)
    BY <1>1, <2>5, RecvDataFiles, RecvLoadFiles, RecvShiftFiles DEF Woken
  <2>6. CASE vfs_open(t) \/ \E d \in Vfd : vfs_close(t, d)
    BY <1>1, <2>2, <2>6, OpenCloseFiles
  <2>7. CASE \E i \in Sock : sock_close(t, i)
    BY <1>1, <2>2, <2>7, CloseFiles
  <2>8. CASE \E i \in load.from, n \in load.send, b \in load.bytes :
              \E k \in load.pass : \E items \in [1 .. k -> Sendable] :
                  unix_sock_sendmsg(t, i, n, b, items)
    BY <1>1, <2>2, <2>3, <2>8, SendMsgFiles
  <2>9. CASE \E i \in Sock, n \in load.recv, room \in MaxFds :
              unix_sock_recvmsg(t, i, n, room)
    BY <1>1, <2>2, <2>3, <2>9, RecvMsgFiles
  <2> QED
    BY <2>1, <2>4, <2>5, <2>6, <2>7, <2>8, <2>9
<1> QED
  BY <1>1, <1>2, <1>3

LEMMA InitFiles == MsgInit => FilesInv
<1>1. SUFFICES ASSUME MsgInit
               PROVE  FilesInv
  OBVIOUS
<1>2. <<>> \in Seq(Item) /\ DOMAIN <<>> = {}
  OBVIOUS
<1>3. RecvInv
  BY <1>1, <1>2, ZeroIsItem DEF MsgInit, RecvInv
<1>4. FilesOwned
  <2>1. \A i \in Sock : fds_rx[i] = <<>>
    BY <1>1 DEF MsgInit
  <2>2. vfs = {} /\ known = {}
    BY <1>1 DEF MsgInit
  <2>3. OwnedBy(fds_rx, vfs, known)
    BY <1>2, <2>1, <2>2 DEF OwnedBy
  <2> QED
    BY <2>3, FilesOwnedIs
<1> QED
  BY <1>3, <1>4 DEF FilesInv

(* Every file descriptor in use is known to a program or waits in exactly  *)
(* one place of one ring, through messages that arrive in part, full rings *)
(* and tables, and sockets closed with descriptors waiting (un_socket.c:   *)
(* 307, 353 and 403), for tables, rings and messages of every size.        *)
THEOREM FilesHaveOneOwner == MsgSpec => []FilesOwned
<1>1. MsgInit => FilesInv
  BY InitFiles
<1>2. PeerInv /\ FilesInv /\ [MsgNext]_mvars => FilesInv'
  BY FilesStep
<1>3. MsgSpec => []PeerInv
  BY MessagesImplementSockets, PeerInvariant, PTL
<1>4. FilesInv => FilesOwned
  BY DEF FilesInv
<1> QED
  BY <1>1, <1>2, <1>3, <1>4, PTL DEF MsgSpec

=============================================================================
