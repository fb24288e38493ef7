------------------------------ MODULE UnixMsg ------------------------------
(***************************************************************************)
(* sendmsg and recvmsg of the AF_UNIX sockets (net/un_socket.c): messages  *)
(* that carry descriptors.  The data goes through the byte rings of module *)
(* UnixSocket, the descriptors through a second ring of each socket: files *)
(* as duplicates made by the sender, sockets as their bare number.         *)
(*                                                                         *)
(* A call is one step until it sleeps.  A recvmsg that has slept runs with *)
(* interrupts enabled, and takes the descriptors one at a time, in two     *)
(* steps each.  Several iovecs are one of their total length.              *)
(***************************************************************************)
EXTENDS UnixSocket

CONSTANTS
    FDS_CAP,        \* size of a descriptor ring (16)
    VFS_MAX_FDS,    \* file descriptors of the file system
    MaxFds,         \* numbers of descriptors a recvmsg has room for
    Loads           \* what happens in a run: the lengths of write, read,
                    \* sendmsg and recvmsg, the bytes, the values of
                    \* O_NONBLOCK, how many descriptors a message carries,
                    \* which sockets programs write to, and whether there are
                    \* sockets besides the pairs

ASSUME MsgAssumption ==
    /\ FDS_CAP \in Nat /\ FDS_CAP > 1
    /\ VFS_MAX_FDS \in Nat \ {0}
    /\ MaxFds \subseteq Nat
    /\ \A l \in Loads :
          /\ l.write \cup (l.send \ {0}) \subseteq WriteLens
          /\ l.read \cup (l.recv \ {0}) \subseteq ReadLens
          /\ l.bytes \subseteq Byte /\ l.flags \subseteq Flags
          /\ l.from \subseteq Sock
          /\ l.send \cup l.recv \cup l.pass \subseteq Nat

Vfd == 0 .. VFS_MAX_FDS - 1
Item == [sock : {FALSE}, fd : Vfd] \cup [sock : {TRUE}, fd : Sock]
Zero == [sock |-> FALSE, fd |-> 0]

VARIABLES
    load,           \* one of Loads
    fds_rx,         \* the ring of descriptors of every socket: what it holds
    vfs,            \* file descriptors in use (module Vfs)
    known,          \* those of them that programs know (history)
    mpc, mon, mroom, mfd, \* recvmsg: where a task is in it, on which socket,
                    \* the room left for descriptors, the one it has read
    shared          \* a ring was used by two tasks, or its socket closed,
                    \* while a task took descriptors from it (history)

rings == <<fds_rx, vfs, known, shared>>
rlocals == <<mpc, mon, mroom, mfd>>
mvars == <<load, rings, rlocals, vars>>

MsgInit ==
    /\ Init
    /\ \A i \in Sock : rx[i][0] = CHOOSE b \in Byte : TRUE  \* zero
    /\ load \in Loads
    /\ fds_rx = [i \in Sock |-> <<>>]
    /\ vfs = {} /\ known = {}
    /\ mpc = [t \in Task |-> "idle"] /\ mon = [t \in Task |-> 0]
    /\ mroom = [t \in Task |-> 0] /\ mfd = [t \in Task |-> Zero]
    /\ shared = FALSE
-----------------------------------------------------------------------------
Idle(t) == mpc[t] = "idle" /\ Running(t)

(* The least member of S, if there is one.                                 *)
Least(S) == {s \in S : \A r \in S : s <= r}

(* Another task is taking descriptors from the ring of i.                  *)
Taking(t, i) ==
    \E u \in Task \ {t} : mpc[u] \in {"fds", "shift"} /\ mon[u] = i

(* Calls that do not touch the descriptors; alloc_slot clears the ring of  *)
(* a new socket.                                                           *)
Untouched ==
    /\ fds_rx' = [i \in Sock |-> IF used'[i] /\ ~used[i] THEN <<>>
                                                        ELSE fds_rx[i]]
    /\ UNCHANGED <<load, vfs, known, shared, rlocals>>

(* A program opens, or closes, a file.                                     *)
vfs_open(t) ==
    /\ Idle(t) /\ load.pass # {0}
    /\ \E d \in Least(Vfd \ vfs) :
          vfs' = vfs \cup {d} /\ known' = known \cup {d}
    /\ UNCHANGED <<load, fds_rx, shared, rlocals, vars>>

vfs_close(t, d) ==
    /\ Idle(t) /\ d \in known
    /\ vfs' = vfs \ {d} /\ known' = known \ {d}
    /\ UNCHANGED <<load, fds_rx, shared, rlocals, vars>>
-----------------------------------------------------------------------------
Files(items) == {items[k].fd : k \in {j \in DOMAIN items : ~items[j].sock}}

(* The duplicate that vfs_dup makes of a file when those of sent are made: *)
(* the least free number, if there is one.                                 *)
Dup(sent) == Least(Vfd \ (vfs \cup Files(sent)))

(* Of a message with items, sent is what arrives in a ring that holds q.   *)
(* Files are duplicated.  The first one without a number for its duplicate *)
(* ends the loop, and so does the first descriptor that finds the ring     *)
(* full.                                                                   *)
Arrives(q, items, sent) ==
    /\ Len(q) + Len(sent) < FDS_CAP
    /\ \A k \in DOMAIN sent :
          IF items[k].sock THEN sent[k] = items[k]
          ELSE ~sent[k].sock /\ sent[k].fd \in Dup(SubSeq(sent, 1, k - 1))
    /\ Len(sent) < Len(items) =>
          \/ Len(q) + Len(sent) = FDS_CAP - 1
          \/ ~items[Len(sent) + 1].sock /\ Dup(sent) = {}

(* Mutant: nor is the duplicate closed. *)
Refused_Mutant(items, sent) ==
    IF Len(sent) = Len(items) \/ items[Len(sent) + 1].sock THEN {}
    ELSE Dup(sent)

(* What is left of the duplicate that finds the ring full: it is closed.   *)
Refused(items, sent) == {}

(* What programs send: descriptors they know; the least one stands for the *)
(* others, since duplicates do not differ.                                 *)
Sendable ==
    [sock : {FALSE}, fd : Least(known)] \cup [sock : {TRUE}, fd : Least(open)]

(* The data first: when it does not fit the call fails, and what fits has  *)
(* arrived; so it has when the descriptors fail.                           *)
unix_sock_sendmsg(t, i, n, b, items) ==
    /\ Idle(t)
    /\ IF n > 0 THEN unix_sock_write(t, i, n, b)
       ELSE i \in open /\ state[i] = "CONNECTED" /\ peer_idx[i] # PEER_NONE
            /\ UNCHANGED vars
    /\ LET p == peer_idx[i]
       IN  IF n > Room(p) THEN UNCHANGED <<fds_rx, vfs>>
           ELSE \E m \in 0 .. Len(items) : \E sent \in [1 .. m -> Item] :
                   /\ Arrives(fds_rx[p], items, sent)
                   /\ fds_rx' = [fds_rx EXCEPT ![p] = @ \o sent]
                   /\ vfs' = vfs \cup Files(sent) \cup Refused(items, sent)
    /\ UNCHANGED <<load, known, shared, rlocals>>
-----------------------------------------------------------------------------
(* The first items of the ring of i go to the program.                     *)
Take(t, i, room) ==
    LET n == IF room < Len(fds_rx[i]) THEN room ELSE Len(fds_rx[i])
    IN  /\ fds_rx' = [fds_rx EXCEPT ![i] = SubSeq(@, n + 1, Len(@))]
        /\ known' = known \cup Files(SubSeq(fds_rx[i], 1, n))
        /\ shared' = (shared \/ (n > 0 /\ Taking(t, i)))
        /\ UNCHANGED <<load, vfs, rlocals>>

(* recvmsg: data and descriptors at once, or the sleep in pop_rx.          *)
unix_sock_recvmsg(t, i, n, room) ==
    /\ Idle(t)
    /\ IF n > 0 THEN unix_sock_read(t, i, n)
       ELSE i \in open /\ state[i] = "CONNECTED" /\ UNCHANGED vars
    /\ IF n > 0 /\ MustWait(i)
       THEN /\ mpc' = [mpc EXCEPT ![t] = "read"]
            /\ mon' = [mon EXCEPT ![t] = i]
            /\ mroom' = [mroom EXCEPT ![t] = room]
            /\ UNCHANGED <<load, rings, mfd>>
       ELSE Take(t, i, room)

recv_return(t) ==
    /\ mpc' = [mpc EXCEPT ![t] = "idle"] /\ mon' = [mon EXCEPT ![t] = 0]
    /\ mroom' = [mroom EXCEPT ![t] = 0] /\ mfd' = [mfd EXCEPT ![t] = Zero]

(* A blocked call goes on; a recvmsg with the descriptors, when its pop_rx *)
(* has not failed.                                                         *)
recv_data(t) ==
    /\ read_wake(t) \/ \E n \in ReadLens : read_go(t, n)
    /\ IF mpc[t] = "idle" \/ pc'[t] # "run" THEN UNCHANGED rlocals
       ELSE IF pc[t] = "readGo"
       THEN mpc' = [mpc EXCEPT ![t] = "fds"] /\ UNCHANGED <<mon, mroom, mfd>>
       ELSE recv_return(t)
    /\ UNCHANGED <<load, rings>>

(* The loop over the descriptors: the entry is read...                     *)
recv_load(t) ==
    /\ mpc[t] = "fds"
    /\ IF mroom[t] = 0 \/ fds_rx[mon[t]] = <<>> THEN recv_return(t)
       ELSE /\ mpc' = [mpc EXCEPT ![t] = "shift"]
            /\ mfd' = [mfd EXCEPT ![t] = Head(fds_rx[mon[t]])]
            /\ UNCHANGED <<mon, mroom>>
    /\ UNCHANGED <<load, rings, vars>>

(* ...and the tail advanced.                                               *)
recv_shift(t) ==
    /\ mpc[t] = "shift"
    /\ mpc' = [mpc EXCEPT ![t] = "fds"]
    /\ mroom' = [mroom EXCEPT ![t] = @ - 1]
    /\ fds_rx' = [fds_rx EXCEPT ![mon[t]] = SubSeq(@, 2, Len(@))]
    /\ known' = known \cup Files(<<mfd[t]>>)
    /\ shared' = (shared \/ Taking(t, mon[t]))
    /\ UNCHANGED <<load, vfs, mon, mfd, vars>>

(* The files in the ring of i, which close closes.                         *)
QueuedFiles(i) == Files(fds_rx[i])

(* Close, with the descriptors that wait.                                  *)
sock_close(t, i) ==
    /\ Idle(t) /\ unix_sock_close(t, i)
    /\ vfs' = vfs \ QueuedFiles(i)
    /\ fds_rx' = [fds_rx EXCEPT ![i] = <<>>]
    /\ shared' = (shared \/ Taking(t, i))
    /\ UNCHANGED <<load, known, rlocals>>
-----------------------------------------------------------------------------
(* The other calls of module UnixSocket, without those that make a pair    *)
(* by way of a listener: socketpair makes the same one.                    *)
Plain(t) ==
    /\ Idle(t)
    /\ \/ load.alone /\ \E i \in Sock : unix_socket(t, i)
       \/ \E a, b \in Sock : unix_socketpair(t, a, b)
       \/ \E i \in load.from, n \in load.write, b \in load.bytes :
             unix_sock_write(t, i, n, b)
       \/ \E i \in Sock, n \in load.read : unix_sock_read(t, i, n)
       \/ \E i \in Sock, f \in load.flags : unix_sock_fcntl(t, i, f)
       \/ /\ load.alone
          /\ \E i \in Sock, f \in load.flags, n \in {0, EVENT_LEN},
                b \in load.bytes : unix_eventfd(t, i, f, n, b)

(* What a task does once it is woken and scheduled.                        *)
Woken(t) == ~shared /\ (recv_data(t) \/ recv_load(t) \/ recv_shift(t))

(* What a ring holds after two tasks shared it is not followed.            *)
MsgNext ==
    /\ ~shared
    /\ \E t \in Task :
        \/ Plain(t) /\ Untouched
        \/ Woken(t)
        \/ vfs_open(t)
        \/ \E d \in Vfd : vfs_close(t, d)
        \/ \E i \in Sock : sock_close(t, i)
        \/ \E i \in load.from, n \in load.send, b \in load.bytes :
              \E k \in load.pass : \E items \in [1 .. k -> Sendable] :
                  unix_sock_sendmsg(t, i, n, b, items)
        \/ \E i \in Sock, n \in load.recv, room \in MaxFds :
              unix_sock_recvmsg(t, i, n, room)

MsgSpec == MsgInit /\ [][MsgNext]_mvars

(* A sleeping task is woken and scheduled (module Sched).                  *)
FairMsgSpec == MsgSpec /\ \A t \in Task : WF_mvars(Woken(t))
-----------------------------------------------------------------------------
FilesAt(i) == {k \in DOMAIN fds_rx[i] : ~fds_rx[i][k].sock}

(* Every file descriptor in use is known to a program or waits in exactly  *)
(* one place of one ring, and the others are free: a message that fails    *)
(* half way, a ring that is full, and a socket closed with descriptors     *)
(* waiting leak none and give none away twice (un_socket.c:307, 353 and    *)
(* 403), unless a ring is shared by two tasks that both slept in recvmsg.  *)
FilesOwned ==
    ~shared =>
        /\ vfs = known \cup UNION {QueuedFiles(i) : i \in Sock}
        /\ \A i, j \in Sock : \A k \in FilesAt(i), l \in FilesAt(j) :
              /\ fds_rx[i][k].fd \notin known
              /\ fds_rx[i][k].fd = fds_rx[j][l].fd =>
                    i = j /\ k = l

(* No socket in use is connected to i.                                     *)
Abandoned(i) == \A j \in Sock : used[j] => peer_idx[j] # i

(* A task is in a read or recvmsg on a connection without another end.     *)
HungUp(t) ==
    \/ mpc[t] # "idle" /\ Abandoned(mon[t])
    \/ pc[t] = "read" /\ Abandoned(on[t])

(* A read or recvmsg that waits on a connection whose other end is gone    *)
(* returns, with the descriptors that arrived before (un_socket.c:81, 299  *)
(* and 397-406), unless its own socket is closed under it: then the memset *)
(* makes peer_idx 0, and it may wait for ever.                             *)
HangupReturns == \A t \in Task : HungUp(t) ~> (Idle(t) \/ pulled \/ shared)
=============================================================================
