----------------------------- MODULE UnixSocket -----------------------------
(***************************************************************************)
(* The AF_UNIX stream sockets (net/un_socket.c): a table of sockets shared *)
(* by all tasks, connected in pairs, each with a receive ring.             *)
(*                                                                         *)
(* A call runs with interrupts disabled and is one step, until it blocks:  *)
(* task_sleep enables them, so that in a read or an accept that has slept  *)
(* the timer may come between the test of the loop and what follows it.    *)
(* Calls that fail without an effect (EBADF, EAGAIN...) are no steps.      *)
(***************************************************************************)
EXTENDS Integers, Sequences, FiniteSets

CONSTANTS
    UNIX_SOCK_MAX,  \* sockets in the table
    RX_CAP,         \* size of a receive ring
    ACCEPT_Q,       \* size of a listener's queue
    Task,           \* the tasks
    Path,           \* file names sockets are bound to
    Byte,           \* data
    ReadLens,       \* lengths of reads
    WriteLens,      \* lengths of writes
    EVENT_LEN,      \* bytes of an eventfd's counter
    Flags,          \* values given to O_NONBLOCK
    NoPath          \* the empty path

ASSUME SocketAssumption ==
    /\ UNIX_SOCK_MAX \in Nat \ {0}
    /\ RX_CAP \in Nat /\ RX_CAP > 1
    /\ ACCEPT_Q \in Nat \ {0}
    /\ EVENT_LEN \in 1 .. RX_CAP - 1
    /\ ReadLens \subseteq Nat \ {0} /\ WriteLens \subseteq Nat \ {0}
    /\ Flags \subseteq BOOLEAN
    /\ NoPath \notin Path

PEER_NONE == -1
Sock == 0 .. UNIX_SOCK_MAX - 1
SkState == {"UNUSED", "CREATED", "BOUND", "LISTENING", "CONNECTED"}

VARIABLES
    used, state, path, peer_idx, nonblock,
    rx, rhd, rtl,    \* the ring: its bytes, head and tail
    listen_q,        \* connections waiting for accept, the first n_wait
    files,           \* socket files in the file system
    pc, on,          \* where each task is, and in a call on which socket
    si,              \* local of unix_accept: the connection it returns
    open,            \* descriptors programs know and have not closed (history)
    pending,         \* bytes accepted for a socket and not yet read (history)
    pulled,          \* a socket was closed under a blocked call (history)
    orphaned,        \* a listener was closed with connections waiting
                     \* (history)
    raced            \* a task woke up for a connection that another one
                     \* took first (history)

table == <<used, state, path, peer_idx, nonblock, rx, rhd, rtl, listen_q>>
history == <<open, pending, pulled, orphaned, raced>>
vars == <<used, state, path, peer_idx, nonblock, rx, rhd, rtl, listen_q,
          files, pc, on, si, open, pending, pulled, orphaned, raced>>

(* unix_socket_init: memset of the table, so that peer_idx is 0.           *)
Init ==
    /\ used = [i \in Sock |-> FALSE]
    /\ state = [i \in Sock |-> "UNUSED"]
    /\ path = [i \in Sock |-> NoPath]
    /\ peer_idx = [i \in Sock |-> 0]
    /\ nonblock = [i \in Sock |-> FALSE]
    /\ \E b \in Byte : rx = [i \in Sock |-> [k \in 0 .. RX_CAP - 1 |-> b]]
    /\ rhd = [i \in Sock |-> 0]
    /\ rtl = [i \in Sock |-> 0]
    /\ listen_q = [i \in Sock |-> <<>>]
    /\ files = {}
    /\ pc = [t \in Task |-> "run"]
    /\ on = [t \in Task |-> 0]
    /\ si = [t \in Task |-> 0]
    /\ open = {}
    /\ pending = [i \in Sock |-> <<>>]
    /\ pulled = FALSE
    /\ orphaned = FALSE
    /\ raced = FALSE
-----------------------------------------------------------------------------
(* alloc_slot takes the first unused slot.                                 *)
IsFirstUnused(i) == ~used[i] /\ \A j \in Sock : j < i => used[j]

(* What alloc_slot leaves in the fields that the caller does not set.      *)
FreshSlots(S) ==
    /\ used' = [i \in Sock |-> used[i] \/ i \in S]
    /\ path' = [i \in Sock |-> IF i \in S THEN NoPath ELSE path[i]]
    /\ listen_q' = [i \in Sock |-> IF i \in S THEN <<>> ELSE listen_q[i]]
    /\ rtl' = [i \in Sock |-> IF i \in S THEN 0 ELSE rtl[i]]

EmptyRings(S) ==
    /\ rhd' = [i \in Sock |-> IF i \in S THEN 0 ELSE rhd[i]]
    /\ pending' = [i \in Sock |-> IF i \in S THEN <<>> ELSE pending[i]]
    /\ UNCHANGED rx

Running(t) == pc[t] = "run"

(* The call of t returns.                                                  *)
Return(t) ==
    /\ pc' = [pc EXCEPT ![t] = "run"]
    /\ on' = [on EXCEPT ![t] = 0]
    /\ si' = [si EXCEPT ![t] = 0]

unix_socket(t, i) ==
    /\ Running(t)
    /\ IsFirstUnused(i)
    /\ FreshSlots({i}) /\ EmptyRings({i})
    /\ state' = [state EXCEPT ![i] = "CREATED"]
    /\ peer_idx' = [peer_idx EXCEPT ![i] = PEER_NONE]
    /\ nonblock' = [nonblock EXCEPT ![i] = FALSE]
    /\ open' = open \cup {i}
    /\ UNCHANGED <<files, pc, on, si, pulled, orphaned, raced>>

(* With one slot left the first one is given back and the call fails.      *)
unix_socketpair(t, a, b) ==
    /\ Running(t)
    /\ IsFirstUnused(a)
    /\ ~used[b] /\ a # b /\ \A j \in Sock : j < b => used[j] \/ j = a
    /\ FreshSlots({a, b}) /\ EmptyRings({a, b})
    /\ state' = [state EXCEPT ![a] = "CONNECTED", ![b] = "CONNECTED"]
    /\ peer_idx' = [peer_idx EXCEPT ![a] = b, ![b] = a]
    /\ nonblock' = [nonblock EXCEPT ![a] = FALSE, ![b] = FALSE]
    /\ open' = open \cup {a, b}
    /\ UNCHANGED <<files, pc, on, si, pulled, orphaned, raced>>

(* Mutant: only the file is looked for. *)
Taken_Mutant(p, i) == p \in files

(* The file exists, or another socket has this path, bound or not.         *)
Taken(p, i) == p \in files \/ \E k \in Sock \ {i} : used[k] /\ path[k] = p

(* The path is stored before it is known to be free, and stays when the    *)
(* call fails, because it is taken or the file cannot be created.          *)
unix_bind(t, i, p) ==
    /\ Running(t)
    /\ i \in open /\ state[i] = "CREATED"
    /\ path' = [path EXCEPT ![i] = p]
    /\ \/ UNCHANGED <<files, state>>
       \/ /\ ~Taken(p, i)
          /\ files' = files \cup {p}
          /\ state' = [state EXCEPT ![i] = "BOUND"]
    /\ UNCHANGED <<used, peer_idx, nonblock, rx, rhd, rtl, listen_q, pc, on, si,
                   history>>

unix_listen(t, i) ==
    /\ Running(t)
    /\ i \in open /\ state[i] = "BOUND"
    /\ state' = [state EXCEPT ![i] = "LISTENING"]
    /\ UNCHANGED <<used, path, peer_idx, nonblock, rx, rhd, rtl, listen_q,
                   files, pc, on, si, history>>

(* find_listener: the first one.                                           *)
Listens(k, p) == used[k] /\ state[k] = "LISTENING" /\ path[k] = p
IsListener(l, p) == Listens(l, p) /\ \A k \in Sock : k < l => ~Listens(k, p)

(* The new server side s waits in the listener's queue.                    *)
unix_connect(t, c, l, s) ==
    /\ Running(t)
    /\ c \in open /\ state[c] = "CREATED"
    /\ \E p \in Path : IsListener(l, p)
    /\ IsFirstUnused(s)
    /\ Len(listen_q[l]) < ACCEPT_Q
    /\ used' = [used EXCEPT ![s] = TRUE]
    /\ path' = [path EXCEPT ![s] = NoPath]
    /\ listen_q' = [listen_q EXCEPT ![s] = <<>>, ![l] = Append(@, s)]
    /\ rtl' = [rtl EXCEPT ![s] = 0]
    /\ EmptyRings({s})
    /\ state' = [state EXCEPT ![s] = "CONNECTED", ![c] = "CONNECTED"]
    /\ peer_idx' = [peer_idx EXCEPT ![s] = c, ![c] = s]
    /\ nonblock' = [nonblock EXCEPT ![s] = FALSE]
    /\ UNCHANGED <<files, pc, on, si, open, pulled, orphaned, raced>>

(* Mutant: the slot is not given back. *)
RefusedUsed_Mutant(s) == [used EXCEPT ![s] = TRUE]

RefusedUsed(s) == used

(* The queue is full: the slot is given back, its fields stay as set.      *)
connect_refused(t, c, l, s) ==
    /\ Running(t)
    /\ c \in open /\ state[c] = "CREATED"
    /\ \E p \in Path : IsListener(l, p)
    /\ IsFirstUnused(s)
    /\ Len(listen_q[l]) >= ACCEPT_Q
    /\ used' = RefusedUsed(s)
    /\ path' = [path EXCEPT ![s] = NoPath]
    /\ listen_q' = [listen_q EXCEPT ![s] = <<>>]
    /\ rtl' = [rtl EXCEPT ![s] = 0]
    /\ EmptyRings({s})
    /\ state' = [state EXCEPT ![s] = "CONNECTED"]
    /\ peer_idx' = [peer_idx EXCEPT ![s] = c, ![c] = PEER_NONE]
    /\ nonblock' = [nonblock EXCEPT ![s] = FALSE]
    /\ UNCHANGED <<files, pc, on, si, open, pulled, orphaned, raced>>
-----------------------------------------------------------------------------
(* The caller gets a connection, unless its slot is not in use any more.   *)
Accepted(c) == open' = IF c \in Sock /\ used[c] THEN open \cup {c} ELSE open

(* Another task is past the loop of unix_accept on the same listener.      *)
Contended(t, i) ==
    \E u \in Task \ {t} : pc[u] \in {"acceptGo", "acceptShift"} /\ on[u] = i

(* unix_accept: at once when a connection waits, otherwise it sleeps in a  *)
(* loop (unless O_NONBLOCK) and goes on when the queue is not empty.       *)
unix_accept(t, i) ==
    /\ Running(t)
    /\ i \in open /\ state[i] = "LISTENING"
    /\ \/ /\ listen_q[i] # <<>>
          /\ listen_q' = [listen_q EXCEPT ![i] = Tail(@)]
          /\ Accepted(Head(listen_q[i]))
          /\ raced' = (raced \/ Contended(t, i))
          /\ UNCHANGED <<pc, on>>
       \/ /\ listen_q[i] = <<>> /\ ~nonblock[i]
          /\ pc' = [pc EXCEPT ![t] = "accept"]
          /\ on' = [on EXCEPT ![t] = i]
          /\ UNCHANGED <<listen_q, open, raced>>
    /\ UNCHANGED <<used, state, path, peer_idx, nonblock, rx, rhd, rtl, files,
                   si, pending, pulled, orphaned>>

accept_wake(t) ==
    /\ pc[t] = "accept"
    /\ \/ /\ listen_q[on[t]] # <<>>
          /\ pc' = [pc EXCEPT ![t] = "acceptGo"]
          /\ UNCHANGED <<on, si>>
       \/ /\ listen_q[on[t]] = <<>> /\ nonblock[on[t]]
          /\ Return(t)
    /\ UNCHANGED <<table, files, history>>

(* Past the loop: read the first entry, then shift the queue.  When        *)
(* n_wait is 0 by now, memmove gets a negative size: the kernel faults and *)
(* the model stops.                                                        *)
accept_go(t) ==
    /\ pc[t] = "acceptGo"
    /\ listen_q[on[t]] # <<>>
    /\ si' = [si EXCEPT ![t] = Head(listen_q[on[t]])]
    /\ pc' = [pc EXCEPT ![t] = "acceptShift"]
    /\ UNCHANGED <<table, files, on, history>>

accept_shift(t) ==
    /\ pc[t] = "acceptShift"
    /\ listen_q[on[t]] # <<>>
    /\ listen_q' = [listen_q EXCEPT ![on[t]] = Tail(@)]
    /\ Accepted(si[t])
    /\ raced' = (raced \/ Contended(t, on[t]))
    /\ Return(t)
    /\ UNCHANGED <<used, state, path, peer_idx, nonblock, rx, rhd, rtl, files,
                   pending, pulled, orphaned>>
-----------------------------------------------------------------------------
(* Mutant: a full ring is noticed one byte too late. *)
Room_Mutant(i) == RX_CAP

(* push_rx stops when the next head would be the tail.                     *)
Room(i) == (rtl[i] + RX_CAP - 1 - rhd[i]) % RX_CAP

(* push_rx of n bytes b: what fits is stored, also when not all of it does *)
(* and the call returns -ENOMEM.                                           *)
Pushed(n, i) == IF n <= Room(i) THEN n ELSE Room(i)

NewHead(i, n) == (rhd[i] + n) % RX_CAP

push_rx(i, n, b) ==
    /\ rx' = [rx EXCEPT ![i] = [k \in 0 .. RX_CAP - 1 |->
                IF (k + RX_CAP - rhd[i]) % RX_CAP < Pushed(n, i)
                THEN b ELSE rx[i][k]]]
    /\ rhd' = [rhd EXCEPT ![i] = NewHead(i, Pushed(n, i))]
    /\ pending' = [pending EXCEPT ![i] = @ \o [k \in 1 .. Pushed(n, i) |-> b]]

unix_sock_write(t, i, n, b) ==
    /\ Running(t)
    /\ i \in open /\ state[i] = "CONNECTED" /\ peer_idx[i] # PEER_NONE
    /\ push_rx(peer_idx[i], n, b)
    /\ UNCHANGED <<used, state, path, peer_idx, nonblock, rtl, listen_q,
                   files, pc, on, si, open, pulled, orphaned, raced>>

(* The loop condition of pop_rx.                                           *)
MustWait(i) == rtl[i] = rhd[i] /\ peer_idx[i] # PEER_NONE

Filled(i) == (rhd[i] + RX_CAP - rtl[i]) % RX_CAP
Popped(n, i) == IF n <= Filled(i) THEN n ELSE Filled(i)

Drain(i, n) ==
    /\ rtl' = [rtl EXCEPT ![i] = (@ + Popped(n, i)) % RX_CAP]
    /\ pending' = [pending EXCEPT ![i] =
                     SubSeq(@, Popped(n, i) + 1, Len(@))]

(* unix_sock_read: at once, or after sleeping in the loop of pop_rx.       *)
unix_sock_read(t, i, n) ==
    /\ Running(t)
    /\ i \in open /\ state[i] = "CONNECTED"
    /\ \/ /\ ~MustWait(i)
          /\ Drain(i, n)
          /\ UNCHANGED <<pc, on>>
       \/ /\ MustWait(i) /\ ~nonblock[i]
          /\ pc' = [pc EXCEPT ![t] = "read"]
          /\ on' = [on EXCEPT ![t] = i]
          /\ UNCHANGED <<rtl, pending>>
    /\ UNCHANGED <<used, state, path, peer_idx, nonblock, rx, rhd, listen_q,
                   files, si, open, pulled, orphaned, raced>>

read_wake(t) ==
    /\ pc[t] = "read"
    /\ \/ /\ ~MustWait(on[t])
          /\ pc' = [pc EXCEPT ![t] = "readGo"]
          /\ UNCHANGED <<on, si>>
       \/ /\ MustWait(on[t]) /\ nonblock[on[t]]
          /\ Return(t)
    /\ UNCHANGED <<table, files, history>>

read_go(t, n) ==
    /\ pc[t] = "readGo"
    /\ Drain(on[t], n)
    /\ Return(t)
    /\ UNCHANGED <<used, state, path, peer_idx, nonblock, rx, rhd, listen_q,
                   files, open, pulled, orphaned, raced>>
-----------------------------------------------------------------------------
(* Mutant: the other side is not told. *)
PeersAfterClose_Mutant(i) == [peer_idx EXCEPT ![i] = 0]

(* The other side of i loses its peer; memset leaves 0 in the slot itself. *)
PeersAfterClose(i) ==
    [j \in Sock |-> IF j = i THEN 0
                    ELSE IF j = peer_idx[i] /\ used[j] /\ peer_idx[j] = i
                    THEN PEER_NONE ELSE peer_idx[j]]

unix_sock_close(t, i) ==
    /\ Running(t)
    /\ i \in open
    /\ peer_idx' = PeersAfterClose(i)
    /\ files' = IF state[i] \in {"BOUND", "LISTENING"} THEN files \ {path[i]}
                                                      ELSE files
    /\ used' = [used EXCEPT ![i] = FALSE]
    /\ state' = [state EXCEPT ![i] = "UNUSED"]
    /\ path' = [path EXCEPT ![i] = NoPath]
    /\ nonblock' = [nonblock EXCEPT ![i] = FALSE]
    /\ listen_q' = [listen_q EXCEPT ![i] = <<>>]
    /\ rtl' = [rtl EXCEPT ![i] = 0]
    /\ EmptyRings({i})
    /\ open' = open \ {i}
    /\ pulled' = (pulled \/ \E u \in Task : pc[u] # "run" /\ on[u] = i)
    /\ orphaned' = (orphaned \/ listen_q[i] # <<>>)
    /\ UNCHANGED <<pc, on, si, raced>>

(* F_SETFL.                                                                *)
unix_sock_fcntl(t, i, f) ==
    /\ Running(t)
    /\ i \in open
    /\ nonblock' = [nonblock EXCEPT ![i] = f]
    /\ UNCHANGED <<used, state, path, peer_idx, rx, rhd, rtl, listen_q, files,
                   pc, on, si, history>>

(* An eventfd is a socket connected to itself; a nonzero initial value is  *)
(* pushed into its own ring.                                               *)
unix_eventfd(t, i, f, n, b) ==
    /\ Running(t)
    /\ IsFirstUnused(i)
    /\ FreshSlots({i})
    /\ rx' = [rx EXCEPT ![i] = [k \in 0 .. RX_CAP - 1 |->
                                  IF k < n THEN b ELSE rx[i][k]]]
    /\ rhd' = [rhd EXCEPT ![i] = n]
    /\ pending' = [pending EXCEPT ![i] = [k \in 1 .. n |-> b]]
    /\ state' = [state EXCEPT ![i] = "CONNECTED"]
    /\ peer_idx' = [peer_idx EXCEPT ![i] = i]
    /\ nonblock' = [nonblock EXCEPT ![i] = f]
    /\ open' = open \cup {i}
    /\ UNCHANGED <<files, pc, on, si, pulled, orphaned, raced>>

(* Any task may unlink a socket file.                                      *)
vfs_unlink(t, p) ==
    /\ Running(t)
    /\ p \in files
    /\ files' = files \ {p}
    /\ UNCHANGED <<table, pc, on, si, history>>

Blocked(t) == \/ accept_wake(t)
              \/ accept_go(t)
              \/ accept_shift(t)
              \/ read_wake(t)
              \/ \E n \in ReadLens : read_go(t, n)

Next ==
    \E t \in Task :
        \/ \E i \in Sock : unix_socket(t, i)
        \/ \E a, b \in Sock : unix_socketpair(t, a, b)
        \/ \E i \in Sock, p \in Path : unix_bind(t, i, p)
        \/ \E i \in Sock : unix_listen(t, i)
        \/ \E c, l, s \in Sock : unix_connect(t, c, l, s)
        \/ \E c, l, s \in Sock : connect_refused(t, c, l, s)
        \/ \E i \in Sock : unix_accept(t, i)
        \/ \E i \in Sock, n \in WriteLens, b \in Byte : unix_sock_write(t, i, n, b)
        \/ \E i \in Sock, n \in ReadLens : unix_sock_read(t, i, n)
        \/ \E i \in Sock : unix_sock_close(t, i)
        \/ \E i \in Sock, f \in Flags : unix_sock_fcntl(t, i, f)
        \/ \E i \in Sock, f \in Flags, n \in {0, EVENT_LEN}, b \in Byte :
              unix_eventfd(t, i, f, n, b)
        \/ \E p \in Path : vfs_unlink(t, p)
        \/ Blocked(t)

Spec == Init /\ [][Next]_vars
-----------------------------------------------------------------------------
(* A socket whose peer is set is one of a pair: the peer is in use, is     *)
(* connected and points back, through every order of closing, refusing and *)
(* reusing slots.  Otherwise unix_sock_write would fill the ring of a      *)
(* stranger (un_socket.c:227-318).                                         *)
PeersPaired ==
    \A i \in Sock : used[i] /\ peer_idx[i] # PEER_NONE =>
        /\ used[peer_idx[i]]
        /\ peer_idx[peer_idx[i]] = i
        /\ state[i] = "CONNECTED" /\ state[peer_idx[i]] = "CONNECTED"

(* The bytes in the ring of i, from its tail to its head.                  *)
Contents(i) == [k \in 1 .. Filled(i) |-> rx[i][(rtl[i] + k - 1) % RX_CAP]]

(* The ring holds exactly the bytes that were accepted and not yet read,   *)
(* in their order, also when it is full, wraps around or takes only a part *)
(* of a write (push_rx, pop_rx, un_socket.c:66-94).                        *)
RingIsFifo == \A i \in Sock : used[i] => Contents(i) = pending[i]

(* Two sockets are never bound to the same path, even when the socket file *)
(* was removed meanwhile: connect reaches the one listener                 *)
(* (un_socket.c:160-165).                                                  *)
PathsUnique ==
    \A i, j \in Sock :
        /\ used[i] /\ state[i] \in {"BOUND", "LISTENING"}
        /\ used[j] /\ state[j] \in {"BOUND", "LISTENING"}
        /\ path[i] = path[j]
        => i = j

(* The inductive invariant behind it: programs know only slots in use.     *)
PeerInv ==
    /\ used \in [Sock -> BOOLEAN] /\ state \in [Sock -> SkState]
    /\ peer_idx \in [Sock -> Sock \cup {PEER_NONE}]
    /\ open \subseteq {i \in Sock : used[i]}
    /\ PeersPaired

Queued == UNION {{listen_q[l][k] : k \in 1 .. Len(listen_q[l])} : l \in Sock}

(* Every slot in use is known to a program or waits in the queue of a      *)
(* listener, and none is both: no slot of the small table is lost          *)
(* (un_socket.c:202-267), unless a listener is closed while connections    *)
(* wait, or two tasks that accept on one socket wake up for the same       *)
(* connection.                                                             *)
NoSlotLost ==
    (~orphaned /\ ~raced) =>
        /\ {i \in Sock : used[i]} = open \cup Queued
        /\ open \cap Queued = {}
=============================================================================
