----------------------------- MODULE InputProofs ----------------------------
(***************************************************************************)
(* Proofs about keyboard and mouse input, for rings of any size and any    *)
(* codes and movements: each ring is a lossy queue, packets are whole, and *)
(* shift does not stick.                                                   *)
(***************************************************************************)
EXTENDS Input, SequenceTheorems, TLAPS

Packets == [whole : BOOLEAN, starts : BOOLEAN, buttons : Moves]
Item(n) == IF n = "raw" THEN Codes ELSE IF n = "kbd" THEN Key ELSE Packets
Index(n) == 0 .. Size(n) - 1

TypeOK ==
    /\ load \in Loads
    /\ buf = [n \in Queue |-> buf[n]]
    /\ \A n \in Queue : buf[n] \in [Index(n) -> Item(n) \cup {None}]
    /\ head \in [Queue -> Nat] /\ tail \in [Queue -> Nat]
    /\ \A n \in Queue : head[n] \in Index(n) /\ tail[n] \in Index(n)
    /\ shift_held \in BOOLEAN /\ e0_pending \in BOOLEAN
    /\ s_pkt \in Seq([pos : 1 .. 3, v : Moves]) /\ Len(s_pkt) <= 2
    /\ obf \in Byte \cup {None} /\ mpos \in 1 .. 3
    /\ prefix \in BOOLEAN
    /\ raced \in [Queue -> BOOLEAN] /\ out = [n \in Queue |-> out[n]]
    /\ keyLost \in BOOLEAN /\ moveLost \in BOOLEAN

(* What the shell has read of the ring it is emptying still holds.         *)
PollInv ==
    /\ sq \in Queue
    /\ pc \in {"load", "tail", "store"} /\ ~raced[sq] => head[sq] # tail[sq]
    /\ pc \in {"tail", "store"} /\ ~raced[sq] => c = buf[sq][tail[sq]]
    /\ pc = "store" => t0 \in Index(sq) /\ (~raced[sq] => t0 = tail[sq])
    /\ pc = "flushHead" => sq = "mouse" /\ (~raced[sq] => tail[sq] = 0)

(* The keyboard's state and the driver's, with the code between them.      *)
ShiftInv ==
    ~keyLost =>
        IF obf # None /\ ~obf.aux
        THEN /\ prefix <=> obf.b.key = "E0"
             /\ ShiftAfter(obf.b) => down # {}
        ELSE (prefix <=> e0_pending) /\ (shift_held => down # {})

(* The mouse's place and the driver's, with the byte between them.         *)
PacketInv ==
    /\ obf # None /\ obf.aux =>
         IF obf.b.pos = 1 THEN obf.b.bit3 ELSE obf.b.bit3 \in load.bit3
    /\ load.bit3 = {FALSE} /\ s_pkt # <<>> => s_pkt[1].pos = 1
    /\ ~moveLost =>
         /\ \A k \in 1 .. Len(s_pkt) : s_pkt[k].pos = k
         /\ IF obf # None /\ obf.aux
            THEN /\ obf.b.pos = Len(s_pkt) + 1
                 /\ mpos = (obf.b.pos % 3) + 1
            ELSE mpos = Len(s_pkt) + 1

(* The items of a ring that is in use; a packet is whole, or starts with a *)
(* first byte, as PacketsWhole says.                                       *)
Good(n, x) == n = "mouse" => /\ ~moveLost => x.whole
                             /\ load.bit3 = {FALSE} => x.starts

RingInv ==
    \A n \in Queue : Live(n) =>
        \A k \in DOMAIN Items(n) :
            Items(n)[k] \in Item(n) /\ Good(n, Items(n)[k])

InputInv == TypeOK /\ PollInv /\ ShiftInv /\ PacketInv /\ RingInv

(* A step of the queue that ring n is, or none: LossyQueue, for any ring.  *)
QPut(n) == /\ Live(n) /\ Len(Held(n)) < Size(n) - 1
           /\ \E x \in Item(n) : Held(n)' = Append(Held(n), x)
           /\ Live(n)' = Live(n) /\ Delivered(n)' = Delivered(n)

QGet(n) == /\ Live(n) /\ Held(n) # <<>>
           /\ Delivered(n)' = Head(Held(n)) /\ Held(n)' = Tail(Held(n))
           /\ Live(n)' = Live(n)

QOff(n) == /\ Live(n)' = FALSE /\ Held(n)' = <<>>
           /\ Delivered(n)' \in {Delivered(n), None}

QOn(n) == /\ ~Live(n) /\ Live(n)' = TRUE /\ Held(n)' = <<>>
          /\ Delivered(n)' = Delivered(n)

QSame(n) == /\ Live(n)' = Live(n) /\ Held(n)' = Held(n)
            /\ Delivered(n)' = Delivered(n)

QStep(n) == QPut(n) \/ QGet(n) \/ QOff(n) \/ QOn(n) \/ QSame(n)
QSteps == \A n \in Queue : QStep(n)

-----------------------------------------------------------------------------
(* A ring of N places as a sequence.                                       *)
Ring(b, h, t, N) ==
    [k \in 1 .. (h - t + N) % N |-> b[(t + k - 1) % N]]

LEMMA Forward ==
    ASSUME NEW N \in Nat, N > 1, NEW a \in 0 .. N - 1, NEW n \in 0 .. N
    PROVE  /\ (a + n) % N = IF a + n < N THEN a + n ELSE a + n - N
           /\ (a + n) % N \in 0 .. N - 1
OBVIOUS

LEMMA Distance ==
    ASSUME NEW N \in Nat, N > 1, NEW h \in 0 .. N - 1, NEW t \in 0 .. N - 1
    PROVE  /\ (h - t + N) % N = IF h >= t THEN h - t ELSE h - t + N
           /\ (h - t + N) % N \in 0 .. N - 1
           /\ (h - t + N) % N = 0 <=> h = t
OBVIOUS

(* The place of an item is a place of the ring, before the head.           *)
LEMMA PlaceOf ==
    ASSUME NEW N \in Nat, N > 1, NEW h \in 0 .. N - 1, NEW t \in 0 .. N - 1,
           NEW k \in 1 .. (h - t + N) % N
    PROVE  (t + k - 1) % N \in 0 .. N - 1 /\ (t + k - 1) % N # h
<1>1. PICK d \in 0 .. N - 1 : d = (h - t + N) % N
  BY Distance
<1>2. d = IF h >= t THEN h - t ELSE h - t + N
  BY <1>1, Distance
<1>3. k - 1 \in 0 .. N /\ k \in 1 .. d /\ t + k - 1 = t + (k - 1)
  BY <1>1
<1>4. PICK w : w = (t + k - 1) % N
  OBVIOUS
<1>5. w = (IF t + (k - 1) < N THEN t + (k - 1) ELSE t + (k - 1) - N)
      /\ w \in 0 .. N - 1
  BY <1>3, <1>4, Forward
<1>6. w # h
  BY <1>2, <1>3, <1>5
<1> QED
  BY <1>4, <1>5, <1>6

LEMMA RingSeq ==
    ASSUME NEW S, NEW N \in Nat, N > 1, NEW h \in 0 .. N - 1,
           NEW t \in 0 .. N - 1, NEW b \in [0 .. N - 1 -> S]
    PROVE  /\ Ring(b, h, t, N) \in Seq(S)
           /\ Len(Ring(b, h, t, N)) = (h - t + N) % N
<1>1. PICK d \in 0 .. N - 1 : d = (h - t + N) % N
  BY Distance
<1>2. \A k \in 1 .. d : b[(t + k - 1) % N] \in S
  BY <1>1, PlaceOf
<1>3. Ring(b, h, t, N) = [k \in 1 .. d |-> b[(t + k - 1) % N]]
  BY <1>1 DEF Ring
<1>4. Ring(b, h, t, N) \in [1 .. d -> S]
  BY <1>2, <1>3
<1> QED
  BY <1>1, <1>4

LEMMA SeqAsFunction ==
    ASSUME NEW S, NEW s \in Seq(S)
    PROVE  s = [k \in 1 .. Len(s) |-> s[k]]
OBVIOUS

(* An item put at the head of a ring with room comes last.                 *)
LEMMA RingPut ==
    ASSUME NEW S, NEW N \in Nat, N > 1, NEW h \in 0 .. N - 1,
           NEW t \in 0 .. N - 1, NEW b \in [0 .. N - 1 -> S], NEW x \in S,
           (h + 1) % N # t
    PROVE  /\ (h + 1) % N \in 0 .. N - 1
           /\ Ring([b EXCEPT ![h] = x], (h + 1) % N, t, N)
                = Append(Ring(b, h, t, N), x)
           /\ Len(Ring(b, h, t, N)) < N - 1
<1>1. PICK d \in 0 .. N - 1 : d = (h - t + N) % N
  BY Distance
<1>2. PICK h1 : h1 = (h + 1) % N
  OBVIOUS
<1>3. h1 = (IF h + 1 < N THEN h + 1 ELSE h + 1 - N) /\ h1 \in 0 .. N - 1
  <2>1. 1 \in 0 .. N
    OBVIOUS
  <2> QED
    BY <1>2, <2>1, Forward
<1>4. d = IF h >= t THEN h - t ELSE h - t + N
  BY <1>1, Distance
<1>5. (h1 - t + N) % N = IF h1 >= t THEN h1 - t ELSE h1 - t + N
  BY <1>3, Distance
<1>6. (h1 - t + N) % N = d + 1 /\ d < N - 1
  BY <1>2, <1>3, <1>4, <1>5
<1> DEFINE b1 == [b EXCEPT ![h] = x]
           old == Ring(b, h, t, N)
<1>7. old \in Seq(S) /\ Len(old) = d /\ DOMAIN old = 1 .. d
  <2>1. old \in Seq(S) /\ Len(old) = (h - t + N) % N
    BY RingSeq
  <2> HIDE DEF old
  <2> QED
    BY <1>1, <2>1
<1>8. ASSUME NEW k \in 1 .. d + 1
      PROVE  b1[(t + k - 1) % N] = Append(old, x)[k]
  <2>1. CASE k = d + 1
    <3>1. t + k - 1 = t + d
      BY <2>1
    <3>2. (t + d) % N = IF t + d < N THEN t + d ELSE t + d - N
      <4>1. d \in 0 .. N
        BY <1>1
      <4> QED
        BY <4>1, Forward
    <3>3. (t + d) % N = h
      BY <1>4, <3>2
    <3>4. b1[h] = x
      OBVIOUS
    <3> QED
      BY <1>7, <2>1, <3>1, <3>3, <3>4
  <2>2. CASE k \in 1 .. d
    <3>1. (t + k - 1) % N \in 0 .. N - 1 /\ (t + k - 1) % N # h
      BY <1>1, <2>2, PlaceOf
    <3>2. old[k] = b[(t + k - 1) % N]
      BY <1>1, <2>2 DEF Ring
    <3>3. Append(old, x)[k] = old[k]
      <4> HIDE DEF old
      <4> QED
        BY <1>7, <2>2
    <3>4. b1[(t + k - 1) % N] = b[(t + k - 1) % N]
      BY <3>1
    <3> QED
      BY <3>2, <3>3, <3>4
  <2>3. k = d + 1 \/ k \in 1 .. d
    OBVIOUS
  <2> QED
    BY <2>1, <2>2, <2>3, Zenon
<1>9. Ring(b1, h1, t, N) = [k \in 1 .. d + 1 |-> b1[(t + k - 1) % N]]
  BY <1>6 DEF Ring
<1> HIDE DEF old, b1
<1>10. Append(old, x) \in Seq(S) /\ Len(Append(old, x)) = d + 1
  BY <1>7
<1>11. Append(old, x) = [k \in 1 .. d + 1 |-> Append(old, x)[k]]
  BY <1>10, SeqAsFunction
<1>12. Ring(b1, h1, t, N) = Append(old, x)
  BY <1>8, <1>9, <1>11
<1> QED
  BY <1>2, <1>3, <1>6, <1>7, <1>12 DEF old, b1

(* Moving the tail of a ring that holds something takes the first item.    *)
Shifts(r, x, s) == r # <<>> /\ x = Head(r) /\ s = Tail(r)

LEMMA RingGet ==
    ASSUME NEW S, NEW N \in Nat, N > 1, NEW h \in 0 .. N - 1,
           NEW t \in 0 .. N - 1, NEW b \in [0 .. N - 1 -> S], h # t
    PROVE  /\ (t + 1) % N \in 0 .. N - 1
           /\ Shifts(Ring(b, h, t, N), b[t], Ring(b, h, (t + 1) % N, N))
<1>1. PICK d \in 0 .. N - 1 : d = (h - t + N) % N
  BY Distance
<1>2. PICK t1 : t1 = (t + 1) % N
  OBVIOUS
<1>3. t1 = (IF t + 1 < N THEN t + 1 ELSE t + 1 - N) /\ t1 \in 0 .. N - 1
  <2>1. 1 \in 0 .. N
    OBVIOUS
  <2> QED
    BY <1>2, <2>1, Forward
<1>4. d = IF h >= t THEN h - t ELSE h - t + N
  BY <1>1, Distance
<1>5. (h - t1 + N) % N = IF h >= t1 THEN h - t1 ELSE h - t1 + N
  <2>1. t1 \in 0 .. N - 1
    BY <1>3
  <2> QED
    BY <2>1, Distance
<1>6. (h - t1 + N) % N = d - 1 /\ d > 0
  BY <1>3, <1>4, <1>5
<1> DEFINE old == Ring(b, h, t, N)
<1>7. old \in Seq(S) /\ Len(old) = d /\ DOMAIN old = 1 .. d
  <2>1. old \in Seq(S) /\ Len(old) = (h - t + N) % N
    BY RingSeq
  <2> HIDE DEF old
  <2> QED
    BY <1>1, <2>1
<1>8. b[t] = old[1]
  <2>1. (t + 1 - 1) % N = t
    OBVIOUS
  <2>2. old[1] = b[(t + 1 - 1) % N]
    BY <1>1, <1>6 DEF Ring
  <2> QED
    BY <2>1, <2>2
<1>9. ASSUME NEW k \in 1 .. d - 1
      PROVE  b[(t1 + k - 1) % N] = Tail(old)[k]
  <2>1. k + 1 \in 1 .. d /\ k - 1 \in 0 .. N /\ k \in 0 .. N
    OBVIOUS
  <2>2. Tail(old)[k] = old[k + 1]
    <3> HIDE DEF old
    <3> QED
      BY <1>6, <1>7
  <2>3. old[k + 1] = b[(t + (k + 1) - 1) % N]
    BY <1>1, <2>1 DEF Ring
  <2>4. t + (k + 1) - 1 = t + k /\ t1 + k - 1 = t1 + (k - 1)
    BY <1>3
  <2>5. (t + k) % N = IF t + k < N THEN t + k ELSE t + k - N
    BY <2>1, Forward
  <2>6. (t1 + (k - 1)) % N = IF t1 + (k - 1) < N THEN t1 + (k - 1)
                             ELSE t1 + (k - 1) - N
    BY <1>3, <2>1, Forward
  <2>7. (t1 + (k - 1)) % N = (t + k) % N
    BY <1>3, <2>5, <2>6
  <2> QED
    BY <2>2, <2>3, <2>4, <2>7
<1>10. Ring(b, h, t1, N) = [k \in 1 .. d - 1 |-> b[(t1 + k - 1) % N]]
  BY <1>6 DEF Ring
<1> HIDE DEF old
<1>11. Tail(old) \in Seq(S) /\ Len(Tail(old)) = d - 1 /\ old # <<>>
       /\ Head(old) = old[1]
  BY <1>6, <1>7
<1>12. Tail(old) = [k \in 1 .. d - 1 |-> Tail(old)[k]]
  BY <1>11, SeqAsFunction
<1>13. Ring(b, h, t1, N) = Tail(old)
  BY <1>9, <1>10, <1>12
<1> QED
  BY <1>2, <1>3, <1>8, <1>11, <1>13 DEF old, Shifts

-----------------------------------------------------------------------------
LEMMA SizeType ==
    ASSUME NEW n \in Queue
    PROVE  Size(n) \in Nat /\ Size(n) > 1
BY InputAssumption DEF Size

LEMMA ItemsRing ==
    ASSUME TypeOK, NEW n \in Queue
    PROVE  /\ Items(n) = Ring(buf[n], head[n], tail[n], Size(n))
           /\ Items(n) \in Seq(Item(n) \cup {None})
           /\ Len(Items(n)) = (head[n] - tail[n] + Size(n)) % Size(n)
           /\ DOMAIN Items(n) = 1 .. Len(Items(n))
<1>1. /\ buf[n] \in [0 .. Size(n) - 1 -> Item(n) \cup {None}]
      /\ head[n] \in 0 .. Size(n) - 1 /\ tail[n] \in 0 .. Size(n) - 1
  BY DEF TypeOK, Index
<1>2. Items(n) = Ring(buf[n], head[n], tail[n], Size(n))
  BY DEF Items, Ring
<1>3. Size(n) \in Nat /\ Size(n) > 1
  BY SizeType
<1>4. /\ Items(n) \in Seq(Item(n) \cup {None})
      /\ Len(Items(n)) = (head[n] - tail[n] + Size(n)) % Size(n)
  <2> DEFINE N == Size(n)  h == head[n]  t == tail[n]  b == buf[n]
             S == Item(n) \cup {None}
  <2>1. /\ N \in Nat /\ N > 1 /\ h \in 0 .. N - 1 /\ t \in 0 .. N - 1
        /\ b \in [0 .. N - 1 -> S]
    BY <1>1, <1>3
  <2>2. Items(n) = Ring(b, h, t, N)
    BY <1>2
  <2> HIDE DEF N, h, t, b, S
  <2>3. Ring(b, h, t, N) \in Seq(S) /\ Len(Ring(b, h, t, N)) = (h - t + N) % N
    BY <2>1, RingSeq
  <2>4. Items(n) \in Seq(S) /\ Len(Items(n)) = (h - t + N) % N
    BY <2>2, <2>3
  <2> QED
    BY <2>4 DEF N, h, t, S
<1> QED
  BY <1>2, <1>4

(* What the load of a run allows.                                          *)
LEMMA LoadType ==
    ASSUME TypeOK
    PROVE  /\ load.codes \subseteq Codes /\ load.moves \subseteq Moves
           /\ load.bit3 \subseteq BOOLEAN
           /\ load.shell \subseteq {"kbd", "mouse"}
           /\ load.user \subseteq Queue
<1>1. load \in [codes : SUBSET Codes, moves : SUBSET Moves,
                bit3 : SUBSET BOOLEAN,
                shell : SUBSET {"kbd", "mouse"},
                user : SUBSET {"kbd", "raw", "mouse"}]
  BY InputAssumption, Zenon DEF TypeOK
<1> QED
  BY <1>1 DEF Queue

(* A byte in the controller, by its kind.                                  *)
LEMMA ByteIs ==
    ASSUME TypeOK, obf # None
    PROVE  /\ obf.aux \in BOOLEAN
           /\ ~obf.aux => obf.b \in Codes
           /\ obf.aux => obf.b \in [pos : 1 .. 3, bit3 : BOOLEAN, v : Moves]
<1>1. obf \in Byte
  BY DEF TypeOK
<1> QED
  BY <1>1 DEF Byte

(* A ring that nothing touches.                                            *)
LEMMA RingAlone ==
    ASSUME NEW n, buf'[n] = buf[n], head'[n] = head[n], tail'[n] = tail[n],
           raced'[n] = raced[n], out'[n] = out[n], Live(n)' = Live(n)
    PROVE  Items(n)' = Items(n) /\ QSame(n)
<1>1. Items(n)' = Items(n)
  BY DEF Items
<1> QED
  BY <1>1 DEF QSame, Held, Delivered

LEMMA RingsKept ==
    ASSUME RingInv, UNCHANGED <<load, buf, head, tail, raced, out>>,
           pc = "flushHead" <=> pc' = "flushHead", moveLost => moveLost'
    PROVE  RingInv' /\ QSteps
<1>1. ASSUME NEW n \in Queue
      PROVE  Live(n)' = Live(n) /\ Items(n)' = Items(n) /\ QSame(n)
  <2>1. Live(n)' = Live(n)
    BY DEF Live
  <2> QED
    BY <2>1, RingAlone
<1>2. \A n, x : Good(n, x) => Good(n, x)'
  BY DEF Good
<1>3. RingInv'
  BY <1>1, <1>2 DEF RingInv
<1> QED
  BY <1>1, <1>3 DEF QSteps, QStep

LEMMA KeysKept ==
    ASSUME ShiftInv,
           UNCHANGED <<obf, prefix, down, keyLost, e0_pending, shift_held>>
    PROVE  ShiftInv'
BY DEF ShiftInv, ShiftAfter

LEMMA PacketKept ==
    ASSUME PacketInv, UNCHANGED <<load, obf, s_pkt, mpos, moveLost>>
    PROVE  PacketInv'
BY DEF PacketInv

(* Items put at the heads of some rings.                                   *)
LEMMA Pushed ==
    ASSUME TypeOK, NEW x, DOMAIN x \subseteq Queue,
           \A n \in DOMAIN x : x[n] \in Item(n), Push(x)
    PROVE  /\ buf' = [n \in Queue |-> buf'[n]]
           /\ \A n \in Queue : buf'[n] \in [Index(n) -> Item(n) \cup {None}]
           /\ head' \in [Queue -> Nat] /\ tail' = tail
           /\ \A n \in Queue : head'[n] \in Index(n)
           /\ \A n \in Queue :
                \/ /\ buf'[n] = buf[n] /\ head'[n] = head[n]
                   /\ Items(n)' = Items(n)
                \/ /\ n \in DOMAIN x /\ Len(Items(n)) < Size(n) - 1
                   /\ Items(n)' = Append(Items(n), x[n])
           /\ \A n \in Queue : head[n] # tail[n] =>
                /\ head'[n] # tail'[n]
                /\ buf'[n][tail[n]] = buf[n][tail[n]]
<1> DEFINE In == {n \in DOMAIN x : ~Full(n)}
<1>1. /\ buf' = [n \in Queue |-> IF n \in In
                     THEN [buf[n] EXCEPT ![head[n]] = x[n]] ELSE buf[n]]
      /\ head' = [n \in Queue |-> IF n \in In
                     THEN (head[n] + 1) % Size(n) ELSE head[n]]
      /\ tail' = tail
  BY DEF Push
<1>2. ASSUME NEW n \in Queue
      PROVE  /\ buf'[n] \in [Index(n) -> Item(n) \cup {None}]
             /\ head'[n] \in Index(n)
             /\ \/ /\ buf'[n] = buf[n] /\ head'[n] = head[n]
                   /\ Items(n)' = Items(n)
                \/ /\ n \in DOMAIN x /\ Len(Items(n)) < Size(n) - 1
                   /\ Items(n)' = Append(Items(n), x[n])
             /\ head[n] # tail[n] => /\ head'[n] # tail'[n]
                                     /\ buf'[n][tail[n]] = buf[n][tail[n]]
  <2>1. /\ buf[n] \in [0 .. Size(n) - 1 -> Item(n) \cup {None}]
        /\ head[n] \in 0 .. Size(n) - 1 /\ tail[n] \in 0 .. Size(n) - 1
        /\ Size(n) \in Nat /\ Size(n) > 1
    BY SizeType DEF TypeOK, Index
  <2>2. CASE n \notin In
    <3>1. buf'[n] = buf[n] /\ head'[n] = head[n] /\ tail'[n] = tail[n]
      BY <1>1, <2>2
    <3>2. Items(n)' = Items(n)
      BY <3>1 DEF Items
    <3> QED
      BY <2>1, <3>1, <3>2 DEF Index
  <2>3. CASE n \in In
    <3>1. buf'[n] = [buf[n] EXCEPT ![head[n]] = x[n]]
          /\ head'[n] = (head[n] + 1) % Size(n) /\ tail'[n] = tail[n]
      BY <1>1, <2>3
    <3>2. n \in DOMAIN x /\ x[n] \in Item(n) \cup {None}
          /\ (head[n] + 1) % Size(n) # tail[n]
      BY <2>3 DEF Full
    <3>3. /\ (head[n] + 1) % Size(n) \in 0 .. Size(n) - 1
          /\ Ring([buf[n] EXCEPT ![head[n]] = x[n]], (head[n] + 1) % Size(n),
                  tail[n], Size(n))
               = Append(Ring(buf[n], head[n], tail[n], Size(n)), x[n])
          /\ Len(Ring(buf[n], head[n], tail[n], Size(n))) < Size(n) - 1
      <4> DEFINE N == Size(n)  h == head[n]  t == tail[n]  b == buf[n]
                 S == Item(n) \cup {None}  y == x[n]
      <4>1. /\ N \in Nat /\ N > 1 /\ h \in 0 .. N - 1 /\ t \in 0 .. N - 1
            /\ b \in [0 .. N - 1 -> S] /\ y \in S /\ (h + 1) % N # t
        BY <2>1, <3>2
      <4> HIDE DEF N, h, t, b, S, y
      <4>2. /\ (h + 1) % N \in 0 .. N - 1
            /\ Ring([b EXCEPT ![h] = y], (h + 1) % N, t, N)
                  = Append(Ring(b, h, t, N), y)
            /\ Len(Ring(b, h, t, N)) < N - 1
        BY <4>1, RingPut
      <4> QED
        BY <4>2, Zenon DEF N, h, t, b, y
    <3>4. Items(n) = Ring(buf[n], head[n], tail[n], Size(n))
      BY DEF Items, Ring
    <3>5. Items(n)' = Ring(buf'[n], head'[n], tail'[n], Size(n))
      BY DEF Items, Ring, Size
    <3>6. Items(n)' = Append(Items(n), x[n]) /\ Len(Items(n)) < Size(n) - 1
      BY <3>1, <3>3, <3>4, <3>5, Zenon
    <3>7. buf'[n] \in [0 .. Size(n) - 1 -> Item(n) \cup {None}]
      BY <2>1, <3>1, <3>2
    <3>8. head[n] # tail[n] => buf'[n][tail[n]] = buf[n][tail[n]]
      BY <2>1, <3>1
    <3>9. head'[n] # tail'[n] /\ head'[n] \in 0 .. Size(n) - 1
      BY <3>1, <3>2, <3>3, Zenon
    <3> QED
      BY <3>2, <3>6, <3>7, <3>8, <3>9 DEF Index
  <2> QED
    BY <2>2, <2>3
<1>3. head' \in [Queue -> Nat]
  <2>1. \A n \in Queue : head'[n] \in Nat
    BY <1>2, SizeType DEF Index
  <2> QED
    BY <1>1, <2>1
<1>4. buf' = [n \in Queue |-> buf'[n]]
  BY <1>1
<1> QED
  BY <1>1, <1>2, <1>3, <1>4

(* ...keep the rings as they should be, and are steps of the queues.       *)
LEMMA PushedRings ==
    ASSUME TypeOK, RingInv, NEW x, DOMAIN x \subseteq Queue,
           \A n \in DOMAIN x : x[n] \in Item(n) /\ Good(n, x[n]),
           Push(x), UNCHANGED <<load, raced, out, pc>>, moveLost' = moveLost
    PROVE  RingInv' /\ QSteps
<1>1. \A n \in Queue :
        \/ /\ buf'[n] = buf[n] /\ head'[n] = head[n]
           /\ Items(n)' = Items(n)
        \/ /\ n \in DOMAIN x /\ Len(Items(n)) < Size(n) - 1
           /\ Items(n)' = Append(Items(n), x[n])
  BY Pushed
<1>2. ASSUME NEW n \in Queue
      PROVE  /\ QStep(n)
             /\ Live(n)' => \A k \in DOMAIN Items(n)' :
                    /\ Items(n)'[k] \in Item(n)
                    /\ Good(n, Items(n)[k])'
  <2>0. Live(n)' = Live(n) /\ Delivered(n)' = Delivered(n)
    BY DEF Live, Delivered
  <2>1. \A y : Good(n, y)' = Good(n, y)
    BY DEF Good
  <2>2. CASE Items(n)' = Items(n)
    <3>1. QSame(n)
      BY <2>0, <2>2 DEF QSame, Held
    <3>2. Live(n)' => \A k \in DOMAIN Items(n)' :
             Items(n)'[k] \in Item(n) /\ Good(n, Items(n)[k])'
      BY <2>0, <2>1, <2>2 DEF RingInv, Good
    <3> QED
      BY <3>1, <3>2 DEF QStep
  <2>3. CASE /\ n \in DOMAIN x /\ Len(Items(n)) < Size(n) - 1
             /\ Items(n)' = Append(Items(n), x[n])
    <3>1. x[n] \in Item(n) /\ Good(n, x[n])
      BY <2>1, <2>3 DEF Good
    <3>2. QStep(n)
      <4>1. CASE Live(n)
        <5>1. QPut(n)
          BY <2>0, <2>3, <3>1, <4>1 DEF QPut, Held
        <5> QED
          BY <5>1 DEF QStep
      <4>2. CASE ~Live(n)
        BY <2>0, <4>2 DEF QStep, QSame, Held
      <4> QED
        BY <4>1, <4>2
    <3>3. ASSUME Live(n), NEW k \in DOMAIN Items(n)'
          PROVE  Items(n)'[k] \in Item(n) /\ Good(n, Items(n)[k])'
      <4>1. Items(n) \in Seq(Item(n) \cup {None})
            /\ DOMAIN Items(n) = 1 .. Len(Items(n))
        BY ItemsRing
      <4>2. PICK s : s = Items(n)
        OBVIOUS
      <4>3. s \in Seq(Item(n) \cup {None}) /\ Len(s) \in Nat
        BY <4>1, <4>2
      <4>4. k \in 1 .. Len(s) + 1
        BY <2>3, <3>1, <3>3, <4>2, <4>3
      <4>5. \A j \in 1 .. Len(s) : s[j] \in Item(n) /\ Good(n, s[j])
        BY <3>3, <4>1, <4>2 DEF RingInv
      <4>6. Append(s, x[n])[k] = IF k = Len(s) + 1 THEN x[n] ELSE s[k]
        BY <3>1, <4>3, <4>4
      <4>7. /\ Append(s, x[n])[k] \in Item(n)
            /\ Good(n, Append(s, x[n])[k])
        <5>1. CASE k = Len(s) + 1
          BY <3>1, <4>6, <5>1
        <5>2. CASE k # Len(s) + 1
          <6>1. k \in 1 .. Len(s)
            BY <4>3, <4>4, <5>2
          <6> QED
            BY <4>5, <4>6, <5>2, <6>1
        <5> QED
          BY <5>1, <5>2
      <4> QED
        BY <2>3, <4>2, <4>7 DEF Good
    <3> QED
      BY <2>0, <3>2, <3>3
  <2> QED
    BY <1>1, <2>2, <2>3
<1> QED
  BY <1>2 DEF RingInv, QSteps

(* The first item of a ring is taken...                                    *)
LEMMA GotItem ==
    ASSUME TypeOK, RingInv, NEW m \in Queue, Live(m), head[m] # tail[m],
           buf' = buf, head' = head,
           tail' = [tail EXCEPT ![m] = Advance(tail[m], m)],
           out' = [out EXCEPT ![m] = buf[m][tail[m]]],
           UNCHANGED <<load, raced, moveLost>>,
           pc = "flushHead" <=> pc' = "flushHead"
    PROVE  RingInv' /\ QSteps
<1>0. \A n : Live(n)' = Live(n) /\ \A y : Good(n, y)' = Good(n, y)
  BY DEF Live, Good
<1>1. ASSUME NEW n \in Queue, n # m
      PROVE  Items(n)' = Items(n) /\ QSame(n)
  <2>1. tail'[n] = tail[n] /\ out'[n] = out[n]
    BY <1>1 DEF TypeOK
  <2> QED
    BY <1>0, <2>1, RingAlone
<1> DEFINE N == Size(m)  h == head[m]  t == tail[m]  b == buf[m]
           S == Item(m) \cup {None}  s == Items(m)
<1>2. /\ N \in Nat /\ N > 1 /\ h \in 0 .. N - 1 /\ t \in 0 .. N - 1
      /\ b \in [0 .. N - 1 -> S] /\ h # t
  BY SizeType DEF TypeOK, Index
<1>3. tail'[m] = (t + 1) % N /\ out'[m] = b[t]
  BY DEF Advance, TypeOK
<1>4. s = Ring(b, h, t, N) /\ Items(m)' = Ring(b, h, tail'[m], N)
  BY DEF Items, Ring, Size
<1>5. s \in Seq(S)
  BY ItemsRing
<1>6. \A k \in DOMAIN s : s[k] \in Item(m) /\ Good(m, s[k])
  BY DEF RingInv
<1> HIDE DEF N, h, t, b, S, s
<1>7. s # <<>> /\ b[t] = Head(s) /\ Items(m)' = Tail(s)
  <2>1. Shifts(Ring(b, h, t, N), b[t], Ring(b, h, (t + 1) % N, N))
    BY <1>2, RingGet
  <2> QED
    BY <1>3, <1>4, <2>1, Zenon DEF Shifts
<1>8. QGet(m)
  <2>1. raced[m] = FALSE /\ raced' = raced
    BY DEF Live, TypeOK
  <2>2. Delivered(m)' = Head(s)
    BY <1>3, <1>7, <2>1 DEF Delivered
  <2>3. Held(m) = s /\ Held(m)' = Tail(s)
    BY <1>0, <1>7 DEF Held, s
  <2> QED
    BY <1>0, <1>7, <2>2, <2>3 DEF QGet
<1>9. \A k \in DOMAIN Items(m)' : Items(m)'[k] \in Item(m)
                                 /\ Good(m, Items(m)'[k])
  <2>1. DOMAIN Tail(s) = 1 .. Len(s) - 1 /\ DOMAIN s = 1 .. Len(s)
        /\ Len(s) \in Nat
    BY <1>5, <1>7
  <2>2. \A k \in 1 .. Len(s) - 1 : Tail(s)[k] = s[k + 1]
    BY <1>5, <1>7
  <2>3. \A k \in 1 .. Len(s) - 1 : k + 1 \in 1 .. Len(s)
    BY <2>1
  <2> QED
    BY <1>6, <1>7, <2>1, <2>2, <2>3
<1>10. RingInv'
  BY <1>0, <1>1, <1>9 DEF RingInv, Good
<1> QED
  BY <1>1, <1>8, <1>10 DEF QSteps, QStep

(* ...or two readers overlap in it.                                        *)
LEMMA Overlapped ==
    ASSUME TypeOK, RingInv, NEW m \in Queue, raced'[m],
           UNCHANGED <<load, buf, head, moveLost>>,
           \A n \in Queue : n # m => /\ tail'[n] = tail[n]
                                     /\ out'[n] = out[n]
                                     /\ raced'[n] = raced[n],
           pc = "flushHead" <=> pc' = "flushHead"
    PROVE  RingInv' /\ QSteps
<1>0. \A n : \A y : Good(n, y)' = Good(n, y)
  BY DEF Good
<1>1. ASSUME NEW n \in Queue, n # m
      PROVE  Live(n)' = Live(n) /\ Items(n)' = Items(n) /\ QSame(n)
  <2>1. Live(n)' = Live(n)
    BY <1>1 DEF Live
  <2> QED
    BY <1>1, <2>1, RingAlone
<1>2. Live(m)' = FALSE /\ Held(m)' = <<>> /\ Delivered(m)' = None
  BY DEF Live, Held, Delivered
<1>3. QOff(m)
  BY <1>2 DEF QOff
<1>4. RingInv'
  BY <1>0, <1>1, <1>2 DEF RingInv, Good
<1> QED
  BY <1>1, <1>3, <1>4 DEF QSteps, QStep
-----------------------------------------------------------------------------
LEMMA KeyboardSends ==
    ASSUME InputInv, NEW code \in Codes, keyboard_sends(code), UNCHANGED load
    PROVE  InputInv' /\ QSteps
<1>0. TypeOK /\ PollInv /\ ShiftInv /\ PacketInv /\ RingInv
  BY DEF InputInv
<1>1. /\ obf = None /\ obf' = [aux |-> FALSE, b |-> code]
      /\ prefix' = (code.key = "E0")
      /\ down' = IF prefix \/ code.key \notin SHIFTS THEN down
                 ELSE IF code.up THEN down \ {code.key}
                 ELSE down \cup {code.key}
      /\ UNCHANGED <<buf, head, tail, shift_held, caps_lock, e0_pending, s_pkt,
                     irq, left, mpos, pc, sq, c, t0, out, raced, keyLost,
                     moveLost>>
  BY Zenon DEF keyboard_sends, rings, keys, shell, history
<1>2. obf' \in Byte /\ obf' # None /\ obf'.aux = FALSE /\ obf'.b = code
  <2>1. obf' \in Byte
    BY <1>1 DEF Byte
  <2> QED
    BY <1>1, <2>1, InputAssumption
<1>3. TypeOK'
  <2>1. prefix' \in BOOLEAN
    BY <1>1, Zenon
  <2> QED
    BY <1>0, <1>1, <1>2, <2>1 DEF TypeOK, Items
<1>4. PollInv'
  BY <1>0, <1>1 DEF PollInv
<1>5. ShiftInv'
  <2>1. ASSUME ~keyLost
        PROVE  /\ prefix' <=> code.key = "E0"
               /\ ShiftAfter(code) => down' # {}
    <3>1. (prefix <=> e0_pending) /\ (shift_held => down # {})
      BY <1>0, <1>1, <2>1 DEF ShiftInv
    <3>2. prefix' <=> code.key = "E0"
      BY <1>1, Zenon
    <3>3. code.up \in BOOLEAN
      BY InputAssumption
    <3>4. CASE ~prefix /\ code.key \in SHIFTS
      BY <1>1, <3>1, <3>2, <3>3, <3>4 DEF ShiftAfter
    <3>5. CASE prefix \/ code.key \notin SHIFTS
      BY <1>1, <3>1, <3>2, <3>5 DEF ShiftAfter
    <3> QED
      BY <3>4, <3>5
  <2>2. ShiftAfter(obf.b)' = ShiftAfter(code)
    BY <1>1, <1>2 DEF ShiftAfter
  <2> QED
    BY <1>1, <1>2, <2>1, <2>2 DEF ShiftInv
<1>6. PacketInv'
  BY <1>0, <1>1, <1>2 DEF PacketInv
<1>7. RingInv' /\ QSteps
  BY <1>0, <1>1, RingsKept
<1> QED
  BY <1>3, <1>4, <1>5, <1>6, <1>7 DEF InputInv

LEMMA MouseSends ==
    ASSUME InputInv, NEW bit3 \in BOOLEAN, NEW v \in Moves,
           mouse_sends(bit3, v), UNCHANGED load
    PROVE  InputInv' /\ QSteps
<1> DEFINE byte == [pos |-> mpos, bit3 |-> bit3, v |-> v]
<1>0. TypeOK /\ PollInv /\ ShiftInv /\ PacketInv /\ RingInv
  BY DEF InputInv
<1>1. /\ obf = None /\ obf' = [aux |-> TRUE, b |-> byte]
      /\ (mpos = 1 => bit3) /\ (mpos # 1 => bit3 \in load.bit3)
      /\ mpos' = (mpos % 3) + 1
      /\ UNCHANGED <<buf, head, tail, shift_held, caps_lock, e0_pending, s_pkt,
                     irq, left, down, prefix, pc, sq, c, t0, out, raced,
                     keyLost, moveLost>>
  BY DEF mouse_sends, rings, keys, shell, history
<1>2. mpos \in 1 .. 3 /\ mpos' \in 1 .. 3
  <2>1. mpos \in 1 .. 3
    BY <1>0 DEF TypeOK
  <2> QED
    BY <1>1, <2>1
<1>3. /\ obf' \in Byte /\ obf' # None /\ obf'.aux = TRUE
      /\ obf'.b.pos = mpos /\ obf'.b.bit3 = bit3
  <2>1. byte \in [pos : 1 .. 3, bit3 : BOOLEAN, v : Moves]
    BY <1>2
  <2>2. byte.pos = mpos /\ byte.bit3 = bit3
    OBVIOUS
  <2> HIDE DEF byte
  <2>3. obf' \in Byte
    BY <1>1, <2>1 DEF Byte
  <2> QED
    BY <1>1, <2>2, <2>3, InputAssumption
<1>4. TypeOK'
  BY <1>0, <1>1, <1>2, <1>3 DEF TypeOK
<1>5. PollInv'
  BY <1>0, <1>1 DEF PollInv
<1>6. ShiftInv'
  BY <1>0, <1>1, <1>3 DEF ShiftInv
<1>7. PacketInv'
  <2>1. IF obf'.b.pos = 1 THEN obf'.b.bit3 ELSE obf'.b.bit3 \in load'.bit3
    BY <1>1, <1>3
  <2>2. ~moveLost => mpos = Len(s_pkt) + 1
    BY <1>0, <1>1 DEF PacketInv
  <2> QED
    BY <1>0, <1>1, <1>3, <2>1, <2>2 DEF PacketInv
<1>8. RingInv' /\ QSteps
  BY <1>0, <1>1, RingsKept
<1> QED
  BY <1>4, <1>5, <1>6, <1>7, <1>8 DEF InputInv

(* What kbd_handle_byte queues is a key or nothing.                        *)
LEMMA DecodedIs ==
    ASSUME NEW code
    PROVE  Decoded(code) = None \/ Decoded(code) \in Key
BY DEF Decoded, Character, Key, Letter, Digit

LEMMA KeyboardIrq ==
    ASSUME InputInv, keyboard_irq, UNCHANGED load
    PROVE  InputInv' /\ QSteps
<1>0. TypeOK /\ PollInv /\ ShiftInv /\ PacketInv /\ RingInv
  BY DEF InputInv
<1>1. /\ obf # None /\ obf' = None
      /\ moveLost' = (moveLost \/ obf.aux)
      /\ UNCHANGED <<s_pkt, pending, irq, mpos, down, prefix, pc, sq, c, t0,
                     out, raced, keyLost>>
  BY Zenon DEF keyboard_irq, shell
<1>2. obf.aux \in BOOLEAN /\ (~obf.aux => obf.b \in Codes)
  BY <1>0, <1>1, ByteIs
<1>3. CASE obf.aux
  <2>1. UNCHANGED <<buf, head, tail, shift_held, caps_lock, e0_pending>>
    BY <1>3, Zenon DEF keyboard_irq, rings, keys
  <2>2. moveLost' = TRUE
    BY <1>1, <1>3, Zenon
  <2>3. TypeOK'
    BY <1>0, <1>1, <2>1, <2>2 DEF TypeOK
  <2>4. PollInv'
    BY <1>0, <1>1, <2>1 DEF PollInv
  <2>5. ShiftInv'
    BY <1>0, <1>1, <1>3, <2>1 DEF ShiftInv
  <2>6. PacketInv'
    BY <1>0, <1>1, <2>2 DEF PacketInv
  <2>7. RingInv' /\ QSteps
    BY <1>0, <1>1, <2>1, <2>2, RingsKept
  <2> QED
    BY <2>3, <2>4, <2>5, <2>6, <2>7 DEF InputInv
<1>4. CASE ~obf.aux
  <2> DEFINE code == obf.b
             x == IF Decoded(code) = None THEN [n \in {"raw"} |-> code]
                  ELSE [n \in {"raw", "kbd"} |->
                          IF n = "raw" THEN code ELSE Decoded(code)]
  <2>1. /\ e0_pending' = (code.key = "E0")
        /\ shift_held' = ShiftAfter(code)
        /\ Push(x)
    BY <1>4, Zenon DEF keyboard_irq, kbd_handle_byte
  <2>2. moveLost' = moveLost
    BY <1>0, <1>1, <1>4 DEF TypeOK
  <2>3. /\ DOMAIN x \subseteq Queue
        /\ \A n \in DOMAIN x : x[n] \in Item(n) /\ n # "mouse"
    <3>1. code \in Codes
      BY <1>2, <1>4
    <3>2. CASE Decoded(code) = None
      BY <3>1, <3>2 DEF Item, Queue
    <3>3. CASE Decoded(code) # None
      <4>1. Decoded(code) \in Key
        BY <3>3, DecodedIs
      <4> QED
        BY <3>1, <3>3, <4>1 DEF Item, Queue
    <3> QED
      BY <3>2, <3>3
  <2> HIDE DEF x
  <2>4. /\ buf' = [n \in Queue |-> buf'[n]]
        /\ \A n \in Queue : buf'[n] \in [Index(n) -> Item(n) \cup {None}]
        /\ head' \in [Queue -> Nat] /\ tail' = tail
        /\ \A n \in Queue : head'[n] \in Index(n)
        /\ \A n \in Queue : head[n] # tail[n] =>
             /\ head'[n] # tail'[n]
             /\ buf'[n][tail[n]] = buf[n][tail[n]]
    BY <1>0, <2>1, <2>3, Pushed
  <2>5. /\ e0_pending' \in BOOLEAN /\ shift_held' \in BOOLEAN
    <3>1. e0_pending' \in BOOLEAN
      BY <2>1, Zenon
    <3>2. code.up \in BOOLEAN
      BY <1>2, <1>4, InputAssumption
    <3>3. shift_held' \in BOOLEAN
      BY <1>0, <2>1, <3>2 DEF TypeOK, ShiftAfter
    <3> QED
      BY <3>1, <3>3
  <2>6. TypeOK'
    BY <1>0, <1>1, <2>2, <2>4, <2>5 DEF TypeOK
  <2>7. PollInv'
    BY <1>0, <1>1, <2>4 DEF PollInv
  <2>8. ShiftInv'
    <3>1. ~keyLost => (prefix <=> code.key = "E0")
                      /\ (ShiftAfter(code) => down # {})
      BY <1>0, <1>1, <1>4 DEF ShiftInv
    <3>2. e0_pending' <=> code.key = "E0"
      BY <2>1, Zenon
    <3>3. shift_held' <=> ShiftAfter(code)
      BY <2>1, Zenon
    <3> QED
      BY <1>1, <3>1, <3>2, <3>3 DEF ShiftInv
  <2>9. PacketInv'
    BY <1>0, <1>1, <1>4, <2>2 DEF PacketInv
  <2>10. RingInv' /\ QSteps
    <3>1. \A n \in DOMAIN x : x[n] \in Item(n) /\ Good(n, x[n])
      BY <2>3 DEF Good
    <3>2. UNCHANGED <<load, raced, out, pc>>
      BY <1>1
    <3> QED
      BY <1>0, <2>1, <2>2, <2>3, <3>1, <3>2, PushedRings
  <2> QED
    BY <2>6, <2>7, <2>8, <2>9, <2>10 DEF InputInv
<1> QED
  BY <1>2, <1>3, <1>4

LEMMA UpToTwo ==
    ASSUME NEW n \in Nat, n <= 2
    PROVE  n = 0 \/ n = 1 \/ n = 2
OBVIOUS

LEMMA MouseIrq ==
    ASSUME InputInv, mouse_irq, UNCHANGED load
    PROVE  InputInv' /\ QSteps
<1>0. TypeOK /\ PollInv /\ ShiftInv /\ PacketInv /\ RingInv
  BY DEF InputInv
<1>1. /\ obf # None /\ obf' = None
      /\ keyLost' = (keyLost \/ ~obf.aux)
      /\ UNCHANGED <<shift_held, caps_lock, e0_pending, pending, irq, left,
                     mpos, down, prefix, pc, sq, c, t0, out, raced, moveLost>>
  BY Zenon DEF mouse_irq, keys, shell
<1>2. /\ obf.aux \in BOOLEAN
      /\ obf.aux => obf.b \in [pos : 1 .. 3, bit3 : BOOLEAN, v : Moves]
  BY <1>0, <1>1, ByteIs
<1>3. keyLost' \in BOOLEAN /\ (~keyLost' => ~keyLost /\ obf.aux)
  BY <1>1, <1>2, Zenon
<1>4. ShiftInv'
  BY <1>0, <1>1, <1>3 DEF ShiftInv
<1>5. ~moveLost /\ obf.aux => /\ obf.b.pos = Len(s_pkt) + 1
                              /\ mpos = (obf.b.pos % 3) + 1
                              /\ \A k \in 1 .. Len(s_pkt) : s_pkt[k].pos = k
  BY <1>0, <1>1 DEF PacketInv
<1>6. /\ s_pkt \in Seq([pos : 1 .. 3, v : Moves]) 
      /\ Len(s_pkt) = 0 \/ Len(s_pkt) = 1 \/ Len(s_pkt) = 2
      /\ s_pkt = <<>> <=> Len(s_pkt) = 0
  <2> DEFINE T == [pos : 1 .. 3, v : Moves]
  <2>1. s_pkt \in Seq(T) /\ Len(s_pkt) <= 2
    BY <1>0 DEF TypeOK
  <2> HIDE DEF T
  <2>2. Len(s_pkt) \in Nat /\ (s_pkt = <<>> <=> Len(s_pkt) = 0)
    BY <2>1, EmptySeq
  <2>3. Len(s_pkt) = 0 \/ Len(s_pkt) = 1 \/ Len(s_pkt) = 2
    BY <2>1, <2>2, UpToTwo, Zenon
  <2> QED
    BY <2>1, <2>2, <2>3 DEF T
(* The byte is not for the packet. *)
<1>7. CASE ~obf.aux \/ ~Taken(obf.b)
  <2>1. UNCHANGED <<buf, head, tail, s_pkt>>
    BY <1>7, Zenon DEF mouse_irq, rings
  <2>2. ~moveLost => ~obf.aux
    <3>1. ASSUME obf.aux, ~moveLost
          PROVE  FALSE
      <4>1. s_pkt = <<>> /\ ~obf.b.bit3
        BY <1>7, <3>1 DEF Taken
      <4>2. obf.b.pos = 1
        BY <1>5, <1>6, <3>1, <4>1
      <4> QED
        BY <1>0, <1>1, <3>1, <4>1, <4>2 DEF PacketInv
    <3> QED
      BY <1>2, <3>1
  <2>3. TypeOK'
    BY <1>0, <1>1, <1>3, <2>1 DEF TypeOK
  <2>4. PollInv'
    BY <1>0, <1>1, <2>1 DEF PollInv
  <2>5. PacketInv'
    BY <1>0, <1>1, <2>1, <2>2 DEF PacketInv
  <2>6. RingInv' /\ QSteps
    BY <1>0, <1>1, <2>1, RingsKept
  <2> QED
    BY <1>4, <2>3, <2>4, <2>5, <2>6 DEF InputInv
<1> DEFINE d == Data(obf.b)
<1>8. ASSUME obf.aux, Taken(obf.b)
      PROVE  /\ d \in [pos : 1 .. 3, v : Moves] /\ d.pos = obf.b.pos
             /\ d.v \in Moves
             /\ load.bit3 = {FALSE} /\ s_pkt = <<>> => d.pos = 1
  <2>1. obf.b \in [pos : 1 .. 3, bit3 : BOOLEAN, v : Moves]
    BY <1>2, <1>8
  <2>2. d = [pos |-> obf.b.pos, v |-> obf.b.v]
    BY DEF Data
  <2>3. d \in [pos : 1 .. 3, v : Moves] /\ d.pos = obf.b.pos /\ d.v \in Moves
    BY <2>1, <2>2
  <2>4. load.bit3 = {FALSE} /\ s_pkt = <<>> => obf.b.pos = 1
    BY <1>0, <1>1, <1>8, <2>1 DEF PacketInv, Taken
  <2> QED
    BY <2>3, <2>4
(* The byte goes on the packet. *)
<1>9. CASE obf.aux /\ Taken(obf.b) /\ Len(s_pkt) < 2
  <2>1. s_pkt' = Append(s_pkt, d) /\ UNCHANGED <<buf, head, tail>>
    BY <1>9, Zenon DEF mouse_irq, rings
  <2>2. /\ d \in [pos : 1 .. 3, v : Moves] /\ d.pos = obf.b.pos
        /\ load.bit3 = {FALSE} /\ s_pkt = <<>> => d.pos = 1
    BY <1>8, <1>9
  <2> HIDE DEF d
  <2>3. /\ s_pkt' \in Seq([pos : 1 .. 3, v : Moves])
        /\ Len(s_pkt') = Len(s_pkt) + 1
        /\ s_pkt'[Len(s_pkt) + 1] = d
        /\ \A k \in 1 .. Len(s_pkt) : s_pkt'[k] = s_pkt[k]
    BY <1>6, <2>1, <2>2
  <2>4. Len(s_pkt') <= 2
    BY <1>6, <1>9, <2>3
  <2>5. TypeOK'
    BY <1>0, <1>1, <1>3, <2>1, <2>3, <2>4 DEF TypeOK
  <2>6. PollInv'
    BY <1>0, <1>1, <2>1 DEF PollInv
  <2>7. load.bit3 = {FALSE} => s_pkt'[1].pos = 1
    <3>1. CASE s_pkt = <<>>
      BY <1>6, <2>2, <2>3, <3>1
    <3>2. CASE s_pkt # <<>>
      <4>1. 1 \in 1 .. Len(s_pkt)
        BY <1>6, <3>2
      <4> QED
        BY <1>0, <2>3, <3>2, <4>1 DEF PacketInv
    <3> QED
      BY <3>1, <3>2
  <2>8. ASSUME ~moveLost
        PROVE  /\ \A k \in 1 .. Len(s_pkt') : s_pkt'[k].pos = k
               /\ mpos = Len(s_pkt') + 1
    <3>1. \A k \in 1 .. Len(s_pkt') : k \in 1 .. Len(s_pkt)
                                      \/ k = Len(s_pkt) + 1
      BY <1>6, <2>3
    <3>2. d.pos = Len(s_pkt) + 1
      BY <1>5, <1>9, <2>2, <2>8
    <3>3. mpos = Len(s_pkt) + 2
      <4>1. mpos = ((Len(s_pkt) + 1) % 3) + 1
        BY <1>5, <1>9, <2>8
      <4>2. PICK n : n = Len(s_pkt)
        OBVIOUS
      <4>3. /\ n = 0 \/ n = 1 \/ n = 2
            /\ n < 2 /\ mpos = ((n + 1) % 3) + 1
        BY <1>6, <1>9, <4>1, <4>2, Zenon
      <4>4. mpos = n + 2
        BY <4>3
      <4> QED
        BY <4>2, <4>4
    <3>4. mpos = Len(s_pkt') + 1
      BY <1>6, <2>3, <3>3
    <3> QED
      BY <1>5, <1>9, <2>3, <2>8, <3>1, <3>2, <3>4
  <2>9. PacketInv'
    BY <1>1, <2>7, <2>8 DEF PacketInv
  <2>10. RingInv' /\ QSteps
    BY <1>0, <1>1, <2>1, RingsKept
  <2> QED
    BY <1>4, <2>5, <2>6, <2>9, <2>10 DEF InputInv
(* The byte completes the packet. *)
<1>10. CASE obf.aux /\ Taken(obf.b) /\ ~(Len(s_pkt) < 2)
  <2> DEFINE p == Append(s_pkt, d)
             x == [n \in {"mouse"} |-> Packet(p)]
  <2>1. s_pkt' = <<>> /\ Push(x)
    BY <1>10, Zenon DEF mouse_irq, Rest
  <2>2. /\ d \in [pos : 1 .. 3, v : Moves] /\ d.pos = obf.b.pos
    BY <1>8, <1>10
  <2>3. Len(s_pkt) = 2 /\ s_pkt # <<>>
    <3>1. 0 < 2 /\ 1 < 2 /\ 0 # 2
      OBVIOUS
    <3> QED
      BY <1>6, <1>10, <3>1, Zenon
  <2>4. p[1] = s_pkt[1] /\ p[2] = s_pkt[2] /\ p[3] = d
    <3> HIDE DEF d
    <3>1. PICK T : T = [pos : 1 .. 3, v : Moves]
      OBVIOUS
    <3>2. s_pkt \in Seq(T) /\ d \in T
      BY <1>6, <2>2, <3>1
    <3>3. /\ p[Len(s_pkt) + 1] = d
          /\ \A k \in 1 .. Len(s_pkt) : p[k] = s_pkt[k]
      BY <3>2
    <3>4. 1 \in 1 .. 2 /\ 2 \in 1 .. 2 /\ 2 + 1 = 3
      OBVIOUS
    <3> QED
      BY <2>3, <3>3, <3>4, Zenon
  <2>5. s_pkt[1] \in [pos : 1 .. 3, v : Moves]
    <3>1. PICK T : T = [pos : 1 .. 3, v : Moves]
      OBVIOUS
    <3>2. s_pkt \in Seq(T) /\ 1 \in 1 .. Len(s_pkt)
      BY <1>6, <2>3, <3>1
    <3>3. s_pkt[1] \in T
      BY <3>2, ElementOfSeq, Zenon
    <3> QED
      BY <3>1, <3>3
  <2>6. /\ Packet(p) \in Packets
        /\ ~moveLost => Packet(p).whole
        /\ load.bit3 = {FALSE} => Packet(p).starts
    <3> DEFINE w == \A k \in 1 .. 3 : p[k].pos = k
               st == p[1].pos = 1
    <3>1. Packet(p) = [whole |-> w, starts |-> st, buttons |-> p[1].v]
      BY Zenon DEF Packet
    <3>2. p[1].v \in Moves
      BY <2>4, <2>5
    <3>3. w \in BOOLEAN /\ st \in BOOLEAN
      BY Zenon
    <3>4. ~moveLost => w
      <4>1. ASSUME ~moveLost
            PROVE  p[1].pos = 1 /\ p[2].pos = 2 /\ p[3].pos = 3
        <5>1. \A k \in 1 .. 2 : s_pkt[k].pos = k
          BY <1>5, <1>10, <2>3, <4>1
        <5>2. d.pos = 3
          BY <1>5, <1>10, <2>2, <2>3, <4>1
        <5> HIDE DEF d, p
        <5> QED
          BY <2>4, <5>1, <5>2
      <4> HIDE DEF p
      <4> QED
        BY <4>1
    <3>5. load.bit3 = {FALSE} => st
      BY <1>0, <2>3, <2>4 DEF PacketInv
    <3> HIDE DEF w, st, p
    <3>6. PICK bu : bu = p[1].v
      OBVIOUS
    <3>7. PICK q : q = [whole |-> w, starts |-> st, buttons |-> bu]
      OBVIOUS
    <3>8. q.whole = w /\ q.starts = st
      BY <3>7, Zenon
    <3>9. q \in Packets
      BY <3>2, <3>3, <3>6, <3>7, Zenon DEF Packets
    <3> QED
      BY <3>1, <3>4, <3>5, <3>6, <3>7, <3>8, <3>9, Zenon
  <2> HIDE DEF p, d
  <2>7. DOMAIN x = {"mouse"} /\ x["mouse"] = Packet(p)
    OBVIOUS
  <2>8. /\ DOMAIN x \subseteq Queue
        /\ \A n \in DOMAIN x : x[n] \in Item(n) /\ Good(n, x[n])
    <3> HIDE DEF x
    <3> QED
      BY <2>6, <2>7 DEF Good, Item, Queue
  <2> HIDE DEF x
  <2>9. /\ buf' = [n \in Queue |-> buf'[n]]
        /\ \A n \in Queue : buf'[n] \in [Index(n) -> Item(n) \cup {None}]
        /\ head' \in [Queue -> Nat] /\ tail' = tail
        /\ \A n \in Queue : head'[n] \in Index(n)
        /\ \A n \in Queue : head[n] # tail[n] =>
             /\ head'[n] # tail'[n]
             /\ buf'[n][tail[n]] = buf[n][tail[n]]
    BY <1>0, <2>1, <2>8, Pushed
  <2>10. TypeOK'
    <3>1. s_pkt' \in Seq([pos : 1 .. 3, v : Moves]) /\ Len(s_pkt') <= 2
      BY <2>1
    <3> QED
      BY <1>0, <1>1, <1>3, <2>9, <3>1 DEF TypeOK
  <2>11. PollInv'
    BY <1>0, <1>1, <2>9 DEF PollInv
  <2>12. PacketInv'
    <3>1. ~moveLost => mpos = 1
      <4>1. ~moveLost => mpos = (3 % 3) + 1
        BY <1>5, <1>10, <2>3
      <4> QED
        BY <4>1
    <3>2. Len(s_pkt') = 0
      BY <2>1
    <3> QED
      BY <1>1, <2>1, <3>1, <3>2 DEF PacketInv
  <2>13. RingInv' /\ QSteps
    <3>1. UNCHANGED <<load, raced, out, pc>> /\ moveLost' = moveLost
      BY <1>1
    <3> QED
      BY <1>0, <2>1, <2>8, <3>1, PushedRings
  <2> QED
    BY <1>4, <2>10, <2>11, <2>12, <2>13 DEF InputInv
<1> QED
  BY <1>7, <1>9, <1>10

-----------------------------------------------------------------------------
(* Steps that touch neither the rings nor the drivers' state.              *)
LEMMA ShellMoves ==
    ASSUME InputInv, PollInv', pc = "flushHead" <=> pc' = "flushHead",
           UNCHANGED <<load, buf, head, tail, shift_held, e0_pending, s_pkt,
                       obf, mpos, prefix, down, raced, out, keyLost, moveLost>>
    PROVE  InputInv' /\ QSteps
<1>0. TypeOK /\ PollInv /\ ShiftInv /\ PacketInv /\ RingInv
  BY DEF InputInv
<1>1. TypeOK'
  BY <1>0 DEF TypeOK
<1>2. ShiftInv'
  BY <1>0, KeysKept
<1>3. PacketInv'
  BY <1>0, PacketKept
<1>4. RingInv' /\ QSteps
  BY <1>0, RingsKept
<1> QED
  BY <1>1, <1>2, <1>3, <1>4 DEF InputInv

LEMMA Interrupts ==
    ASSUME InputInv, (\E n \in {1, 12} : irq_enter(n)) \/ irq_eoi \/ timer,
           UNCHANGED load
    PROVE  InputInv' /\ QSteps
<1>1. /\ UNCHANGED <<buf, head, tail, shift_held, e0_pending, s_pkt, obf,
                     mpos, prefix, down, raced, out, keyLost, moveLost, sq, c,
                     t0>>
      /\ pc' = pc \/ (pc = "hlt" /\ pc' = "getkey")
  BY DEF irq_enter, irq_eoi, timer, rings, keys, device, shell, history
<1>2. PollInv'
  BY <1>1 DEF InputInv, PollInv
<1> QED
  BY <1>1, <1>2, ShellMoves

LEMMA Polls ==
    ASSUME InputInv, UNCHANGED load,
           \/ \E n \in load.shell : poll(n)
           \/ poll_load \/ poll_tail \/ keyboard_getkey
    PROVE  InputInv' /\ QSteps
<1>0. TypeOK /\ PollInv
  BY DEF InputInv
<1>1. ASSUME NEW n \in load.shell, poll(n)
      PROVE  InputInv' /\ QSteps
  <2>1. n \in Queue
    BY <1>0, LoadType DEF Queue
  <2>2. /\ pc = "idle" /\ head[n] # tail[n] /\ pc' = "load" /\ sq' = n
        /\ UNCHANGED <<buf, head, tail, shift_held, e0_pending, s_pkt, obf,
                       mpos, prefix, down, raced, out, keyLost, moveLost>>
    BY <1>1 DEF poll, At, Goto, rings, keys, device, history
  <2>3. PollInv'
    BY <2>1, <2>2 DEF PollInv
  <2> QED
    BY <2>2, <2>3, ShellMoves
<1>2. ASSUME poll_load
      PROVE  InputInv' /\ QSteps
  <2>1. /\ pc = "load" /\ pc' = "tail" /\ c' = buf[sq][tail[sq]] /\ sq' = sq
        /\ UNCHANGED <<buf, head, tail, shift_held, e0_pending, s_pkt, obf,
                       mpos, prefix, down, raced, out, keyLost, moveLost>>
    BY <1>2 DEF poll_load, At, Goto, rings, keys, device, history
  <2>2. PollInv'
    BY <1>0, <2>1 DEF PollInv
  <2> QED
    BY <2>1, <2>2, ShellMoves
<1>3. ASSUME poll_tail
      PROVE  InputInv' /\ QSteps
  <2>1. /\ pc = "tail" /\ pc' = "store" /\ t0' = tail[sq] /\ sq' = sq
        /\ c' = c
        /\ UNCHANGED <<buf, head, tail, shift_held, e0_pending, s_pkt, obf,
                       mpos, prefix, down, raced, out, keyLost, moveLost>>
    BY <1>3 DEF poll_tail, At, Goto, rings, keys, device, history
  <2>2. sq \in Queue /\ tail[sq] \in Index(sq)
    BY <1>0 DEF PollInv, TypeOK
  <2>3. PollInv'
    BY <1>0, <2>1, <2>2 DEF PollInv
  <2> QED
    BY <2>1, <2>3, ShellMoves
<1>4. ASSUME keyboard_getkey
      PROVE  InputInv' /\ QSteps
  <2>1. /\ \/ sq' = sq /\ pc' \in {"halting", "hlt"}
           \/ sq' = "kbd" /\ pc' = "getkey"
           \/ sq' = "kbd" /\ pc' = "load" /\ head["kbd"] # tail["kbd"]
        /\ pc # "flushHead"
        /\ UNCHANGED <<buf, head, tail, shift_held, e0_pending, s_pkt, obf,
                       mpos, prefix, down, raced, out, keyLost, moveLost>>
    BY <1>4 DEF keyboard_getkey, At, Goto, rings, keys, device, history
  <2>2. PollInv'
    BY <1>0, <2>1 DEF PollInv, Queue
  <2> QED
    BY <2>1, <2>2, ShellMoves
<1> QED
  BY <1>1, <1>2, <1>3, <1>4

(* A reader moves the tail of its ring.                                    *)
LEMMA TailMoves ==
    ASSUME TypeOK, NEW m \in Queue, NEW i \in Index(m),
           tail' = [tail EXCEPT ![m] = Advance(i, m)]
    PROVE  /\ tail' \in [Queue -> Nat]
           /\ \A n \in Queue : tail'[n] \in Index(n)
           /\ \A n \in Queue : n # m => tail'[n] = tail[n]
<1>1. Size(m) \in Nat /\ Size(m) > 1 /\ i \in 0 .. Size(m) - 1
  BY SizeType DEF Index
<1>2. Advance(i, m) \in 0 .. Size(m) - 1
  <2> DEFINE N == Size(m)
  <2>1. N \in Nat /\ N > 1 /\ i \in 0 .. N - 1 /\ 1 \in 0 .. N
    BY <1>1
  <2> HIDE DEF N
  <2>2. (i + 1) % N \in 0 .. N - 1
    BY <2>1, Forward
  <2> QED
    BY <2>2 DEF N, Advance
<1>3. Advance(i, m) \in Index(m) /\ Advance(i, m) \in Nat
  BY <1>1, <1>2 DEF Index
<1>4. tail \in [Queue -> Nat] /\ \A n \in Queue : tail[n] \in Index(n)
  BY DEF TypeOK
<1>5. tail' \in [Queue -> Nat] /\ tail'[m] = Advance(i, m)
      /\ \A n \in Queue : n # m => tail'[n] = tail[n]
  BY <1>3, <1>4
<1> QED
  BY <1>3, <1>4, <1>5

LEMMA PollStore ==
    ASSUME InputInv, poll_store, UNCHANGED load
    PROVE  InputInv' /\ QSteps
<1>0. TypeOK /\ PollInv /\ ShiftInv /\ PacketInv /\ RingInv
  BY DEF InputInv
<1>1. /\ pc = "store" /\ pc' = "idle" /\ sq' = "kbd"
      /\ tail' = [tail EXCEPT ![sq] = Advance(t0, sq)]
      /\ out' = [out EXCEPT ![sq] = c]
      /\ UNCHANGED <<buf, head, shift_held, e0_pending, s_pkt, obf, mpos,
                     prefix, down, raced, keyLost, moveLost>>
  BY DEF poll_store, At, Goto, keys, device
<1>2. /\ sq \in Queue /\ t0 \in Index(sq)
      /\ ~raced[sq] => /\ t0 = tail[sq] /\ c = buf[sq][tail[sq]]
                       /\ head[sq] # tail[sq]
  BY <1>0, <1>1 DEF PollInv
<1>3. /\ tail' \in [Queue -> Nat]
      /\ \A n \in Queue : tail'[n] \in Index(n)
      /\ \A n \in Queue : n # sq => tail'[n] = tail[n]
  BY <1>0, <1>1, <1>2, TailMoves
<1>4. out = [n \in Queue |-> out[n]]
  BY <1>0 DEF TypeOK
<1>5. out' = [n \in Queue |-> out'[n]]
      /\ \A n \in Queue : n # sq => out'[n] = out[n]
  BY <1>1, <1>4
<1>6. TypeOK'
  BY <1>0, <1>1, <1>3, <1>5 DEF TypeOK
<1>7. PollInv'
  BY <1>1 DEF PollInv, Queue
<1>8. ShiftInv'
  BY <1>0, <1>1, KeysKept
<1>9. PacketInv'
  BY <1>0, <1>1, PacketKept
<1>10. RingInv' /\ QSteps
  <2>1. CASE raced[sq]
    BY <1>0, <1>1, <1>2, <1>3, <1>5, <2>1, Overlapped
  <2>2. CASE ~raced[sq]
    <3>1. Live(sq)
      BY <1>1, <2>2 DEF Live
    <3>2. /\ tail' = [tail EXCEPT ![sq] = Advance(tail[sq], sq)]
          /\ out' = [out EXCEPT ![sq] = buf[sq][tail[sq]]]
      BY <1>1, <1>2, <2>2, Zenon
    <3> QED
      BY <1>0, <1>1, <1>2, <2>2, <3>1, <3>2, GotItem
  <2> QED
    BY <2>1, <2>2
<1> QED
  BY <1>6, <1>7, <1>8, <1>9, <1>10 DEF InputInv

LEMMA UserRead ==
    ASSUME InputInv, NEW m \in Queue, user_read(m), UNCHANGED load
    PROVE  InputInv' /\ QSteps
<1>0. TypeOK /\ PollInv /\ ShiftInv /\ PacketInv /\ RingInv
  BY DEF InputInv
<1> DEFINE r == sq = m /\ pc \in {"load", "tail", "store", "flushHead"}
<1>1. /\ head[m] # tail[m]
      /\ tail' = [tail EXCEPT ![m] = Advance(tail[m], m)]
      /\ out' = [out EXCEPT ![m] = buf[m][tail[m]]]
      /\ raced' = [raced EXCEPT ![m] = raced[m] \/ r]
      /\ UNCHANGED <<buf, head, shift_held, e0_pending, s_pkt, obf, mpos,
                     prefix, down, keyLost, moveLost, pc, sq, c, t0>>
  BY Zenon DEF user_read, keys, device, shell
<1>2. tail[m] \in Index(m)
  BY <1>0 DEF TypeOK
<1>3. /\ tail' \in [Queue -> Nat]
      /\ \A n \in Queue : tail'[n] \in Index(n)
      /\ \A n \in Queue : n # m => tail'[n] = tail[n]
  BY <1>0, <1>1, <1>2, TailMoves
<1>4. out = [n \in Queue |-> out[n]] /\ raced \in [Queue -> BOOLEAN]
  BY <1>0 DEF TypeOK
<1>5. out' = [n \in Queue |-> out'[n]]
      /\ \A n \in Queue : n # m => out'[n] = out[n]
  BY <1>1, <1>4
<1>6. /\ raced' \in [Queue -> BOOLEAN] /\ (raced'[m] <=> raced[m] \/ r)
      /\ \A n \in Queue : n # m => raced'[n] = raced[n]
  <2>1. PICK y \in BOOLEAN : y = (raced[m] \/ r)
    BY Zenon
  <2>2. raced' = [raced EXCEPT ![m] = y]
    BY <1>1, <2>1, Zenon
  <2>3. raced' \in [Queue -> BOOLEAN] /\ raced'[m] = y
        /\ \A n \in Queue : n # m => raced'[n] = raced[n]
    BY <1>4, <2>2
  <2> QED
    BY <2>1, <2>3, Zenon
<1>7. TypeOK'
  BY <1>0, <1>1, <1>3, <1>5, <1>6 DEF TypeOK
<1>8. PollInv'
  <2>1. sq \in Queue /\ sq' = sq
    BY <1>0, <1>1 DEF PollInv
  <2>2. CASE sq = m
    <3>1. pc \in {"load", "tail", "store", "flushHead"} => raced'[sq]
      BY <1>6, <2>2
    <3> HIDE DEF r
    <3> QED
      BY <1>0, <1>1, <2>1, <3>1 DEF PollInv
  <2>3. CASE sq # m
    <3>1. tail'[sq] = tail[sq] /\ raced'[sq] = raced[sq]
      BY <1>3, <1>6, <2>1, <2>3
    <3> HIDE DEF r
    <3> QED
      BY <1>0, <1>1, <2>1, <3>1 DEF PollInv
  <2> QED
    BY <2>2, <2>3
<1>9. ShiftInv'
  BY <1>0, <1>1, KeysKept
<1>10. PacketInv'
  BY <1>0, <1>1, PacketKept
<1>11. RingInv' /\ QSteps
  <2>1. CASE raced'[m]
    <3> HIDE DEF r
    <3> QED
      BY <1>0, <1>1, <1>3, <1>5, <1>6, <2>1, Overlapped
  <2>2. CASE ~raced'[m]
    <3>1. ~raced[m] /\ ~r
      BY <1>6, <2>2, Zenon
    <3>2. Live(m)
      BY <1>0, <3>1 DEF Live, PollInv
    <3>3. raced' = raced
      <4>1. raced'[m] = raced[m]
        BY <1>4, <1>6, <2>2, <3>1
      <4> HIDE DEF r
      <4> QED
        BY <1>4, <1>6, <4>1
    <3> HIDE DEF r
    <3> QED
      BY <1>0, <1>1, <3>2, <3>3, GotItem
  <2> QED
    BY <2>1, <2>2
<1> QED
  BY <1>7, <1>8, <1>9, <1>10, <1>11 DEF InputInv

(* mouse_flush takes the mouse's ring out of use...                        *)
LEMMA FlushTail ==
    ASSUME InputInv, flush_tail, UNCHANGED load
    PROVE  InputInv' /\ QSteps
<1>0. TypeOK /\ PollInv /\ ShiftInv /\ PacketInv /\ RingInv
  BY DEF InputInv
<1>1. /\ pc = "idle" /\ pc' = "flushHead" /\ sq' = "mouse"
      /\ tail' = [tail EXCEPT !["mouse"] = 0]
      /\ UNCHANGED <<buf, head, shift_held, e0_pending, s_pkt, obf, mpos,
                     prefix, down, out, raced, keyLost, moveLost>>
  BY DEF flush_tail, At, Goto, keys, device, history
<1>2. 0 \in Index("mouse") /\ "mouse" \in Queue
  <2>1. "mouse" \in Queue
    BY DEF Queue
  <2> QED
    BY <2>1, SizeType DEF Index
<1>3. /\ tail' \in [Queue -> Nat] /\ tail'["mouse"] = 0
      /\ \A n \in Queue : tail'[n] \in Index(n)
      /\ \A n \in Queue : n # "mouse" => tail'[n] = tail[n]
  <2>1. tail \in [Queue -> Nat] /\ \A n \in Queue : tail[n] \in Index(n)
    BY <1>0 DEF TypeOK
  <2> QED
    BY <1>1, <1>2, <2>1
<1>4. TypeOK'
  BY <1>0, <1>1, <1>3 DEF TypeOK
<1>5. PollInv'
  BY <1>1, <1>2, <1>3 DEF PollInv
<1>6. ShiftInv'
  BY <1>0, <1>1, KeysKept
<1>7. PacketInv'
  BY <1>0, <1>1, PacketKept
<1>8. ASSUME NEW n \in Queue, n # "mouse"
      PROVE  Live(n)' = Live(n) /\ Items(n)' = Items(n) /\ QSame(n)
  <2>1. Live(n)' = Live(n)
    BY <1>1, <1>8 DEF Live
  <2> QED
    BY <1>1, <1>3, <1>8, <2>1, RingAlone
<1>9. /\ Live("mouse")' = FALSE /\ Held("mouse")' = <<>>
      /\ Delivered("mouse")' = Delivered("mouse")
  BY <1>1 DEF Live, Held, Delivered
<1>10. QSteps
  BY <1>8, <1>9 DEF QSteps, QStep, QOff
<1>11. RingInv'
  <2>1. \A n : \A y : Good(n, y)' = Good(n, y)
    BY <1>1 DEF Good
  <2> QED
    BY <1>0, <1>8, <1>9, <2>1 DEF RingInv, Good
<1> QED
  BY <1>4, <1>5, <1>6, <1>7, <1>10, <1>11 DEF InputInv

(* ...and puts it back, empty.                                             *)
LEMMA FlushHead ==
    ASSUME InputInv, flush_head, UNCHANGED load
    PROVE  InputInv' /\ QSteps
<1>0. TypeOK /\ PollInv /\ ShiftInv /\ PacketInv /\ RingInv
  BY DEF InputInv
<1>1. /\ pc = "flushHead" /\ pc' = "flushPkt" /\ sq' = sq
      /\ head' = [head EXCEPT !["mouse"] = 0]
      /\ UNCHANGED <<buf, tail, shift_held, e0_pending, s_pkt, obf, mpos,
                     prefix, down, out, raced, keyLost, moveLost>>
  BY DEF flush_head, HeadFlushed, At, Goto, keys, device, history
<1>2. 0 \in Index("mouse") /\ "mouse" \in Queue
  <2>1. "mouse" \in Queue
    BY DEF Queue
  <2> QED
    BY <2>1, SizeType DEF Index
<1>3. /\ head' \in [Queue -> Nat] /\ head'["mouse"] = 0
      /\ \A n \in Queue : head'[n] \in Index(n)
      /\ \A n \in Queue : n # "mouse" => head'[n] = head[n]
  <2>1. head \in [Queue -> Nat] /\ \A n \in Queue : head[n] \in Index(n)
    BY <1>0 DEF TypeOK
  <2> QED
    BY <1>1, <1>2, <2>1
<1>4. sq = "mouse" /\ (~raced["mouse"] => tail["mouse"] = 0)
  BY <1>0, <1>1 DEF PollInv
<1>5. TypeOK'
  BY <1>0, <1>1, <1>3 DEF TypeOK
<1>6. PollInv'
  BY <1>1, <1>2, <1>4 DEF PollInv
<1>7. ShiftInv'
  BY <1>0, <1>1, KeysKept
<1>8. PacketInv'
  BY <1>0, <1>1, PacketKept
<1>9. ASSUME NEW n \in Queue, n # "mouse"
      PROVE  Live(n)' = Live(n) /\ Items(n)' = Items(n) /\ QSame(n)
  <2>1. Live(n)' = Live(n)
    BY <1>1, <1>9 DEF Live
  <2> QED
    BY <1>1, <1>3, <1>9, <2>1, RingAlone
<1>10. Delivered("mouse")' = Delivered("mouse") /\ ~Live("mouse")
  BY <1>1 DEF Live, Delivered
<1>11. Live("mouse")' => Items("mouse")' = <<>>
  <2>1. SUFFICES ASSUME Live("mouse")'
                 PROVE  Items("mouse")' = <<>>
    OBVIOUS
  <2>2. tail'["mouse"] = 0 /\ head'["mouse"] = 0
    BY <1>1, <1>3, <1>4, <2>1 DEF Live
  <2> DEFINE N == Size("mouse")  b == buf["mouse"]
             S == Item("mouse") \cup {None}
  <2>3. N \in Nat /\ N > 1 /\ b \in [0 .. N - 1 -> S]
    BY <1>0, <1>2, SizeType DEF TypeOK, Index
  <2>4. Items("mouse")' = Ring(b, 0, 0, N)
    BY <1>1, <2>2 DEF Items, Ring, Size
  <2> HIDE DEF N, b, S
  <2>5. PICK z \in 0 .. N - 1 : z = 0
    BY <2>3
  <2>6. /\ Ring(b, z, z, N) \in Seq(S)
        /\ Len(Ring(b, z, z, N)) = (z - z + N) % N
    BY <2>3, RingSeq
  <2>7. (z - z + N) % N = 0
    BY <2>3, Distance
  <2>8. PICK s : s = Ring(b, z, z, N)
    OBVIOUS
  <2>9. s \in Seq(S) /\ Len(s) = 0 /\ Items("mouse")' = s
    BY <2>4, <2>5, <2>6, <2>7, <2>8, Zenon
  <2> QED
    BY <2>9, EmptySeq
<1>12. QStep("mouse")
  <2>1. CASE Live("mouse")'
    BY <1>10, <1>11, <2>1 DEF QStep, QOn, Held
  <2>2. CASE ~Live("mouse")'
    <3>1. Live("mouse")' = FALSE
      BY <2>2, Zenon DEF Live
    <3> QED
      BY <1>10, <3>1 DEF QStep, QOff, Held
  <2> QED
    BY <2>1, <2>2
<1>13. RingInv'
  <2>1. \A n : \A y : Good(n, y)' = Good(n, y)
    BY <1>1 DEF Good
  <2>2. DOMAIN <<>> = {}
    OBVIOUS
  <2>3. ASSUME NEW n \in Queue, Live(n)', NEW k \in DOMAIN Items(n)'
        PROVE  Items(n)'[k] \in Item(n) /\ Good(n, Items(n)'[k])
    <3>1. n # "mouse"
      BY <1>11, <2>2, <2>3
    <3>2. Live(n) /\ Items(n)' = Items(n)
      BY <1>9, <2>3, <3>1
    <3> QED
      BY <1>0, <2>3, <3>2 DEF RingInv
  <2> QED
    BY <2>1, <2>3 DEF RingInv, Good
<1>14. QSteps
  BY <1>9, <1>12 DEF QSteps, QStep
<1> QED
  BY <1>5, <1>6, <1>7, <1>8, <1>13, <1>14 DEF InputInv

LEMMA FlushPkt ==
    ASSUME InputInv, flush_pkt, UNCHANGED load
    PROVE  InputInv' /\ QSteps
<1>0. TypeOK /\ PollInv /\ ShiftInv /\ PacketInv /\ RingInv
  BY DEF InputInv
<1>1. /\ pc = "flushPkt" /\ pc' = "drain" /\ sq' = sq
      /\ s_pkt' = <<>> /\ moveLost' = (moveLost \/ s_pkt # <<>>)
      /\ UNCHANGED <<buf, head, tail, shift_held, e0_pending, obf, mpos,
                     prefix, down, out, raced, keyLost>>
  BY Zenon DEF flush_pkt, At, Goto, rings, keys, device
<1>2. moveLost' \in BOOLEAN /\ (moveLost => moveLost')
      /\ (~moveLost' => ~moveLost /\ s_pkt' = s_pkt)
  BY <1>1, Zenon
<1>3. s_pkt' \in Seq([pos : 1 .. 3, v : Moves]) /\ Len(s_pkt') <= 2
  BY <1>1
<1>4. TypeOK'
  BY <1>0, <1>1, <1>2, <1>3 DEF TypeOK
<1>5. PollInv'
  BY <1>0, <1>1 DEF PollInv
<1>6. ShiftInv'
  BY <1>0, <1>1, KeysKept
<1>7. PacketInv'
  <2>1. CASE moveLost'
    BY <1>0, <1>1, <2>1 DEF PacketInv
  <2>2. CASE ~moveLost'
    <3>1. moveLost' = moveLost /\ s_pkt' = s_pkt
      BY <1>0, <1>2, <2>2 DEF TypeOK
    <3> QED
      BY <1>0, <1>1, <3>1, PacketKept
  <2> QED
    BY <2>1, <2>2
<1>8. RingInv' /\ QSteps
  BY <1>0, <1>1, <1>2, RingsKept
<1> QED
  BY <1>4, <1>5, <1>6, <1>7, <1>8 DEF InputInv

LEMMA FlushDrain ==
    ASSUME InputInv, flush_drain, UNCHANGED load
    PROVE  InputInv' /\ QSteps
<1>0. TypeOK /\ PollInv /\ ShiftInv /\ PacketInv /\ RingInv
  BY DEF InputInv
<1>1. /\ pc = "drain" /\ pc' \in {"drain", "idle"} /\ sq' \in {sq, "kbd"}
      /\ UNCHANGED <<buf, head, tail, shift_held, e0_pending, s_pkt, mpos,
                     prefix, down, out, raced>>
  BY DEF flush_drain, At, Goto, rings, keys
<1>2. PollInv'
  BY <1>0, <1>1 DEF PollInv, Queue
<1>3. CASE UNCHANGED <<obf, keyLost, moveLost>>
  BY <1>1, <1>2, <1>3, ShellMoves
<1>4. CASE /\ obf # None /\ obf' = None
           /\ keyLost' = (keyLost \/ ~obf.aux)
           /\ moveLost' = (moveLost \/ obf.aux)
  <2>1. obf.aux \in BOOLEAN
    BY <1>0, <1>4, ByteIs
  <2>2. /\ keyLost' \in BOOLEAN /\ moveLost' \in BOOLEAN
        /\ ~keyLost' => ~keyLost /\ obf.aux
        /\ ~moveLost' => ~moveLost /\ ~obf.aux
    BY <1>4, <2>1, Zenon
  <2>3. TypeOK'
    BY <1>0, <1>1, <1>4, <2>2 DEF TypeOK
  <2>4. ShiftInv'
    BY <1>0, <1>1, <1>4, <2>2 DEF ShiftInv
  <2>5. PacketInv'
    BY <1>0, <1>1, <1>4, <2>2 DEF PacketInv
  <2>6. moveLost => moveLost'
    BY <1>4, Zenon
  <2>7. RingInv' /\ QSteps
    BY <1>0, <1>1, <2>6, RingsKept
  <2> QED
    BY <1>2, <2>3, <2>4, <2>5, <2>7 DEF InputInv
<1> QED
  BY <1>3, <1>4, Zenon DEF flush_drain

-----------------------------------------------------------------------------
LEMMA InitInput ==
    ASSUME Init
    PROVE  /\ InputInv
           /\ \A n \in Queue : /\ Live(n) = TRUE /\ Held(n) = <<>>
                               /\ Delivered(n) = None
<1>1. ASSUME NEW n \in Queue
      PROVE  /\ Size(n) \in Nat /\ Size(n) > 1
             /\ buf[n] \in [Index(n) -> Item(n) \cup {None}]
             /\ head[n] = 0 /\ tail[n] = 0 /\ 0 \in Index(n)
  <2>1. Size(n) \in Nat /\ Size(n) > 1
    BY SizeType
  <2>2. buf[n] = [k \in Index(n) |-> None] /\ head[n] = 0 /\ tail[n] = 0
    BY DEF Init, Index
  <2>3. 0 \in Index(n)
    BY <2>1 DEF Index
  <2> QED
    BY <2>1, <2>2, <2>3
<1>2. TypeOK
  <2>1. <<>> \in Seq([pos : 1 .. 3, v : Moves]) /\ Len(<<>>) <= 2
    OBVIOUS
  <2>2. head \in [Queue -> Nat] /\ tail \in [Queue -> Nat]
        /\ buf = [n \in Queue |-> buf[n]] /\ out = [n \in Queue |-> out[n]]
    BY DEF Init
  <2>3. raced \in [Queue -> BOOLEAN]
    BY DEF Init
  <2>4. \A n \in Queue : /\ buf[n] \in [Index(n) -> Item(n) \cup {None}]
                         /\ head[n] \in Index(n) /\ tail[n] \in Index(n)
    BY <1>1
  <2>5. s_pkt \in Seq([pos : 1 .. 3, v : Moves]) /\ Len(s_pkt) <= 2
    BY <2>1 DEF Init
  <2>6. /\ load \in Loads
        /\ shift_held = FALSE /\ e0_pending = FALSE /\ prefix = FALSE
        /\ keyLost = FALSE /\ moveLost = FALSE /\ obf = None /\ mpos = 1
    BY DEF Init
  <2>7. /\ shift_held \in BOOLEAN /\ e0_pending \in BOOLEAN
        /\ prefix \in BOOLEAN /\ keyLost \in BOOLEAN /\ moveLost \in BOOLEAN
        /\ obf \in Byte \cup {None}
    BY <2>6, Zenon
  <2>8. mpos \in 1 .. 3
    BY <2>6
  <2> QED
    BY <2>2, <2>3, <2>4, <2>5, <2>6, <2>7, <2>8, Zenon DEF TypeOK
<1>3. ASSUME NEW n \in Queue
      PROVE  Items(n) = <<>>
  <2>1. Items(n) \in Seq(Item(n) \cup {None})
        /\ Len(Items(n)) = (head[n] - tail[n] + Size(n)) % Size(n)
    BY <1>2, ItemsRing
  <2>2. (head[n] - tail[n] + Size(n)) % Size(n) = 0
    <3> DEFINE N == Size(n)  h == head[n]  t == tail[n]
    <3>1. N \in Nat /\ N > 1 /\ h \in 0 .. N - 1 /\ t \in 0 .. N - 1 /\ h = t
      BY <1>1
    <3> HIDE DEF N, h, t
    <3>2. (h - t + N) % N = 0
      BY <3>1, Distance
    <3> QED
      BY <3>2 DEF N, h, t
  <2> QED
    BY <2>1, <2>2, EmptySeq
<1>4. ASSUME NEW n \in Queue
      PROVE  Live(n) = TRUE /\ Held(n) = <<>> /\ Delivered(n) = None
  <2>1. raced[n] = FALSE /\ out[n] = None /\ pc = "idle"
    BY DEF Init
  <2>2. Live(n) = TRUE
    BY <2>1, Zenon DEF Live
  <2> QED
    BY <1>3, <2>1, <2>2 DEF Held, Delivered
<1>5. PollInv /\ ShiftInv /\ PacketInv
  BY DEF Init, PollInv, ShiftInv, PacketInv, Queue
<1>6. RingInv
  <2>1. DOMAIN <<>> = {}
    OBVIOUS
  <2> QED
    BY <1>3, <2>1 DEF RingInv
<1> QED
  BY <1>2, <1>4, <1>5, <1>6 DEF InputInv

(* Every step keeps the invariant, and is a step of each ring's queue or   *)
(* leaves the queue as it is.                                              *)
LEMMA NextInputInv ==
    ASSUME InputInv, [Next]_vars
    PROVE  InputInv' /\ QSteps
<1>0. load.codes \subseteq Codes /\ load.moves \subseteq Moves
      /\ load.user \subseteq Queue
  BY LoadType DEF InputInv
<1>1. ASSUME NEW code \in load.codes, keyboard_sends(code), UNCHANGED load
      PROVE  InputInv' /\ QSteps
  BY <1>0, <1>1, KeyboardSends
<1>2. ASSUME NEW bit3 \in BOOLEAN, NEW v \in load.moves,
             mouse_sends(bit3, v), UNCHANGED load
      PROVE  InputInv' /\ QSteps
  BY <1>0, <1>2, MouseSends
<1>3. ASSUME NEW n \in load.user, user_read(n), UNCHANGED load
      PROVE  InputInv' /\ QSteps
  BY <1>0, <1>3, UserRead
<1>4. ASSUME Handler, UNCHANGED load
      PROVE  InputInv' /\ QSteps
  BY <1>4, KeyboardIrq, MouseIrq DEF Handler
<1>5. ASSUME ShellStep, UNCHANGED load
      PROVE  InputInv' /\ QSteps
  BY <1>5, Polls, PollStore, FlushTail, FlushHead, FlushPkt, FlushDrain
     DEF ShellStep
<1>6. ASSUME (\E n \in {1, 12} : irq_enter(n)) \/ irq_eoi \/ timer,
             UNCHANGED load
      PROVE  InputInv' /\ QSteps
  BY <1>6, Interrupts
<1>7. CASE UNCHANGED vars
  <2>1. PollInv'
    BY <1>7 DEF InputInv, PollInv, vars
  <2> QED
    BY <1>7, <2>1, ShellMoves DEF vars
<1> QED
  BY <1>1, <1>2, <1>3, <1>4, <1>5, <1>6, <1>7 DEF Next

(* The rings' indices, the packet and the history stay of their types, and *)
(* what a reader that was interrupted has read of its ring still holds     *)
(* (keyboard.c:122-128, mouse.c:91-120).                                   *)
THEOREM InputInvariant == Spec => []InputInv
<1>1. Init => InputInv
  BY InitInput
<1>2. InputInv /\ [Next]_vars => InputInv'
  BY NextInputInv
<1> QED
  BY <1>1, <1>2, PTL DEF Spec

(* Shift does not stick, whatever the keyboard sends after a prefix, and   *)
(* however its codes and the mouse's bytes alternate (keyboard.c:58-81).   *)
THEOREM ShiftDoesNotStick == Spec => []ShiftReleased
<1>1. InputInv => ShiftReleased
  <2>1. SUFFICES ASSUME InputInv, ~keyLost, down = {}, obf # None => obf.aux
                 PROVE  ~shift_held
    BY DEF ShiftReleased
  <2> QED
    BY <2>1 DEF InputInv, ShiftInv
<1> QED
  BY <1>1, InputInvariant, PTL

(* Packets are whole in a ring of any size, and start with a first byte    *)
(* when bytes were lost and no distance has bit 3 set (mouse.c:77-97).     *)
THEOREM PacketsAreWhole == Spec => []PacketsWhole
<1>1. InputInv => PacketsWhole
  <2>1. SUFFICES ASSUME InputInv, NEW k \in DOMAIN Held("mouse")
                 PROVE  /\ ~moveLost => Held("mouse")[k].whole
                        /\ load.bit3 = {FALSE} => Held("mouse")[k].starts
    BY DEF PacketsWhole
  <2>2. DOMAIN <<>> = {}
    OBVIOUS
  <2>3. Live("mouse") /\ Held("mouse") = Items("mouse")
    BY <2>1, <2>2 DEF Held
  <2>4. Good("mouse", Items("mouse")[k])
    BY <2>1, <2>3 DEF InputInv, RingInv, Queue
  <2> QED
    BY <2>3, <2>4 DEF Good
<1> QED
  BY <1>1, InputInvariant, PTL

(* Each ring, of any size, is the lossy queue that LossyQueue specifies,   *)
(* for readers whose poll is cut in pieces by the interrupt that writes    *)
(* (keyboard.c:36-46 and 122-136, mouse.c:91-120).                         *)
THEOREM RingsAreLossyQueues == Spec => RingsAreQueues
<1>1. Queue = {"kbd", "raw", "mouse"}
  BY DEF Queue
<1>2. Init => Raw!Init /\ Kbd!Init /\ Mouse!Init
  <2>1. SUFFICES ASSUME Init
                 PROVE  Raw!Init /\ Kbd!Init /\ Mouse!Init
    OBVIOUS
  <2>2. \A n \in Queue : /\ Live(n) = TRUE /\ Held(n) = <<>>
                         /\ Delivered(n) = None
    BY <2>1, InitInput
  <2> QED
    BY <1>1, <2>2 DEF Raw!Init, Kbd!Init, Mouse!Init
<1>3. ASSUME InputInv, [Next]_vars
      PROVE  [Raw!Next]_<<Live("raw"), Held("raw"), Delivered("raw")>>
  <2>1. QStep("raw") /\ Item("raw") = Codes
    BY <1>1, <1>3, NextInputInv DEF QSteps, Item
  <2> QED
    BY <2>1 DEF QStep, QPut, QGet, QOff, QOn, QSame, Raw!Next, Raw!Put,
                Raw!Get, Raw!TurnOff, Raw!TurnOn
<1>4. ASSUME InputInv, [Next]_vars
      PROVE  [Kbd!Next]_<<Live("kbd"), Held("kbd"), Delivered("kbd")>>
  <2>1. QStep("kbd") /\ Item("kbd") = Key
    BY <1>1, <1>4, NextInputInv DEF QSteps, Item
  <2> QED
    BY <2>1 DEF QStep, QPut, QGet, QOff, QOn, QSame, Kbd!Next, Kbd!Put,
                Kbd!Get, Kbd!TurnOff, Kbd!TurnOn
<1>5. ASSUME InputInv, [Next]_vars
      PROVE  [Mouse!Next]_<<Live("mouse"), Held("mouse"), Delivered("mouse")>>
  <2>1. QStep("mouse") /\ Item("mouse") = Packets
    BY <1>1, <1>5, NextInputInv DEF QSteps, Item
  <2> QED
    BY <2>1 DEF QStep, QPut, QGet, QOff, QOn, QSame, Mouse!Next, Mouse!Put,
                Mouse!Get, Mouse!TurnOff, Mouse!TurnOn, Packets
<1> QED
  BY <1>2, <1>3, <1>4, <1>5, InputInvariant, PTL
     DEF Spec, RingsAreQueues, Raw!Spec, Kbd!Spec, Mouse!Spec

=============================================================================
