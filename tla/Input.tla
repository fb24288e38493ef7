------------------------------- MODULE Input -------------------------------
(***************************************************************************)
(* Keyboard and mouse input (drivers/keyboard.c, drivers/mouse.c): two     *)
(* interrupt handlers that share one PS/2 controller fill three rings; the *)
(* shell (or the desktop) empties two of them with interrupts enabled, and *)
(* user programs read all three in system calls, with interrupts disabled. *)
(***************************************************************************)
EXTENDS Integers, Sequences, FiniteSets

CONSTANTS
    KBD_BUF_SIZE,   \* size of the rings of keys and of raw scancodes
    MOUSE_QUEUE,    \* size of the ring of mouse packets
    IrqBytes,       \* bytes read by one keyboard interrupt (32)
    FlushBytes,     \* bytes drained by one mouse_flush (64)
    Codes,          \* scancodes
    Moves,          \* states of the mouse's buttons
    Loads,          \* what happens in a run of the system: the codes the
                    \* keyboard sends, the buttons of the mouse and bit 3 of
                    \* its distances, the rings the shell and user
                    \* programs read
    None            \* no byte, no item

(* What the controller hands over, from the keyboard or from the mouse.    *)
Byte == [aux : {FALSE}, b : Codes] \cup
        [aux : {TRUE}, b : [pos : 1 .. 3, bit3 : BOOLEAN, v : Moves]]

(* What the ring of keys holds: characters and extended keys.              *)
Key == {"a", "A", "1", "!", "KEY_UP"}

ASSUME InputAssumption ==
    /\ KBD_BUF_SIZE \in Nat /\ KBD_BUF_SIZE > 1
    /\ MOUSE_QUEUE \in Nat /\ MOUSE_QUEUE > 1
    /\ IrqBytes \in Nat \ {0} /\ FlushBytes \in Nat
    /\ Codes \subseteq [key : STRING, up : BOOLEAN]
    /\ None \notin Byte \cup Key
    /\ Loads \subseteq [codes : SUBSET Codes, moves : SUBSET Moves,
                        bit3 : SUBSET BOOLEAN,
                        shell : SUBSET {"kbd", "mouse"},
                        user : SUBSET {"kbd", "raw", "mouse"}]

Queue == {"kbd", "raw", "mouse"}
Size(n) == IF n = "mouse" THEN MOUSE_QUEUE ELSE KBD_BUF_SIZE

VARIABLES
    load,                       \* one of Loads
    buf, head, tail,            \* the three rings
    shift_held, caps_lock, e0_pending,
    s_pkt,                      \* the first s_pkt_len bytes of a packet
    obf,                        \* the controller's output buffer
    pending, irq,               \* interrupts raised, and the one handled
    left,                       \* iterations left of the keyboard's loop
    mpos,                       \* the mouse's place in its packet
    down, prefix,               \* the shift keys held down, and whether the
                                \* keyboard has sent E0 and not the rest
    pc, sq, c, t0,              \* the shell: where, in which ring; locals
    out,                        \* the last item each ring delivered (history)
    raced,                      \* two readers overlapped in a ring (history)
    keyLost, moveLost           \* a byte was discarded (history)

rings == <<buf, head, tail>>
keys == <<shift_held, caps_lock, e0_pending>>
device == <<obf, pending, mpos, down, prefix>>
shell == <<pc, sq, c, t0>>
history == <<out, raced, keyLost, moveLost>>
vars == <<load, buf, head, tail, shift_held, caps_lock, e0_pending, s_pkt, obf,
          pending, irq, left, mpos, down, prefix, pc, sq, c, t0, out, raced,
          keyLost, moveLost>>

Init ==
    /\ load \in Loads
    /\ buf = [n \in Queue |-> [k \in 0 .. Size(n) - 1 |-> None]]
    /\ head = [n \in Queue |-> 0] /\ tail = [n \in Queue |-> 0]
    /\ shift_held = FALSE /\ caps_lock = FALSE /\ e0_pending = FALSE
    /\ s_pkt = <<>>
    /\ obf = None /\ pending = {} /\ irq = 0 /\ left = 0
    /\ mpos = 1 /\ down = {} /\ prefix = FALSE
    /\ pc = "idle" /\ sq = "kbd" /\ c = None /\ t0 = 0
    /\ out = [n \in Queue |-> None]
    /\ raced = [n \in Queue |-> FALSE]
    /\ keyLost = FALSE /\ moveLost = FALSE
-----------------------------------------------------------------------------
(* The devices send a byte when the controller's buffer is empty, and it   *)
(* raises the interrupt of the device.  A shift code after E0 is not the   *)
(* key but a part of an extended key's sequence.                           *)
SHIFTS == {"LSHIFT", "RSHIFT"}

keyboard_sends(code) ==
    /\ obf = None
    /\ obf' = [aux |-> FALSE, b |-> code]
    /\ pending' = pending \cup {1}
    /\ prefix' = (code.key = "E0")
    /\ down' = IF prefix \/ code.key \notin SHIFTS THEN down
               ELSE IF code.up THEN down \ {code.key} ELSE down \cup {code.key}
    /\ UNCHANGED <<rings, keys, s_pkt, irq, left, mpos, shell, history>>

(* The first byte of a packet has bit 3 set and holds the buttons; in the  *)
(* others, the distances, only bit 3 is told apart.                        *)
mouse_sends(bit3, v) ==
    /\ obf = None
    /\ IF mpos = 1 THEN bit3
       ELSE bit3 \in load.bit3 /\ v = CHOOSE w \in Moves : TRUE
    /\ obf' = [aux |-> TRUE, b |-> [pos |-> mpos, bit3 |-> bit3, v |-> v]]
    /\ pending' = pending \cup {12}
    /\ mpos' = (mpos % 3) + 1
    /\ UNCHANGED <<rings, keys, s_pkt, irq, left, down, prefix, shell, history>>

(* The processor takes the interrupt with the higher priority.  A task     *)
(* that is halted goes on when it is served.                               *)
irq_enter(n) ==
    /\ irq = 0 /\ n \in pending /\ (n = 12 => 1 \notin pending)
    /\ irq' = n /\ pending' = pending \ {n}
    /\ left' = IrqBytes
    /\ pc' = IF pc = "hlt" THEN "getkey" ELSE pc
    /\ UNCHANGED <<rings, keys, s_pkt, obf, mpos, down, prefix, sq, c, t0,
                   history>>

irq_eoi ==
    /\ irq # 0
    /\ obf = None \/ (irq = 1 /\ left = 0)
    /\ irq' = 0 /\ left' = 0
    /\ UNCHANGED <<rings, keys, s_pkt, device, shell, history>>
-----------------------------------------------------------------------------
Items(n) == [k \in 1 .. (head[n] - tail[n] + Size(n)) % Size(n) |->
                 buf[n][(tail[n] + k - 1) % Size(n)]]

(* Mutant: the ring is filled to the last place. *)
Full_Mutant(n) == FALSE

Full(n) == (head[n] + 1) % Size(n) = tail[n]

(* kbd_push, kbd_push_raw and the end of mouse_irq, x[n] into ring n for   *)
(* every n in its domain.                                                  *)
Push(x) ==
    LET In == {n \in DOMAIN x : ~Full(n)}
    IN  /\ buf' = [n \in Queue |-> IF n \in In
                       THEN [buf[n] EXCEPT ![head[n]] = x[n]] ELSE buf[n]]
        /\ head' = [n \in Queue |-> IF n \in In
                       THEN (head[n] + 1) % Size(n) ELSE head[n]]
        /\ UNCHANGED tail

Letter == "a"
Digit == "1"

(* The character of a key pressed without a prefix, None for a key that    *)
(* has none.                                                               *)
Character(k) ==
    CASE k = Letter -> IF shift_held \/ caps_lock THEN "A" ELSE "a"
      [] k = Digit  -> IF shift_held THEN "!" ELSE "1"
      [] OTHER      -> None

(* What kbd_handle_byte queues: an extended key, or a character.           *)
Decoded(code) ==
    IF code.up \/ code.key = "E0" THEN None
    ELSE IF e0_pending
    THEN IF code.key = "UP" THEN "KEY_UP" ELSE None
    ELSE IF code.key \in SHIFTS \cup {"CAPS"} THEN None
    ELSE Character(code.key)

(* Mutant: the state after a prefix is the state after a plain code. *)
ShiftAfter_Mutant(code) ==
    IF code.key \in SHIFTS THEN ~code.up ELSE shift_held

ShiftAfter(code) ==
    IF ~e0_pending /\ code.key \in SHIFTS THEN ~code.up ELSE shift_held

kbd_handle_byte(code) ==
    /\ e0_pending' = (code.key = "E0")
    /\ shift_held' = ShiftAfter(code)
    /\ caps_lock' = (caps_lock # (~e0_pending /\ code.key = "CAPS" /\ ~code.up))
    /\ Push(IF Decoded(code) = None THEN [n \in {"raw"} |-> code]
            ELSE [n \in {"raw", "kbd"} |->
                    IF n = "raw" THEN code ELSE Decoded(code)])

(* One iteration of the handler's loop.  A byte of the mouse is read and   *)
(* dropped.                                                                *)
keyboard_irq ==
    /\ irq = 1 /\ left > 0 /\ obf # None
    /\ left' = left - 1
    /\ obf' = None
    /\ IF obf.aux THEN UNCHANGED <<rings, keys>> ELSE kbd_handle_byte(obf.b)
    /\ moveLost' = (moveLost \/ obf.aux)
    /\ UNCHANGED <<s_pkt, pending, irq, mpos, down, prefix, shell, out,
                   raced, keyLost>>

(* A packet starts with a byte that has bit 3 set.                         *)
Taken(b) == s_pkt = <<>> => b.bit3

Data(b) == [pos |-> b.pos, v |-> b.v]

(* A packet as it is queued: whether it is one packet of the mouse,        *)
(* whether it starts with the first byte of one, and its buttons.          *)
Packet(p) == [whole |-> \A k \in 1 .. 3 : p[k].pos = k,
              starts |-> p[1].pos = 1, buttons |-> p[1].v]

(* Mutant: the packet is kept when its last byte is queued. *)
Rest_Mutant(p) == Tail(p)

Rest(p) == <<>>

(* Here a byte of the keyboard is dropped.                                 *)
mouse_irq ==
    /\ irq = 12 /\ obf # None
    /\ obf' = None
    /\ IF ~obf.aux \/ ~Taken(obf.b) THEN UNCHANGED <<rings, s_pkt>>
       ELSE IF Len(s_pkt) < 2
       THEN s_pkt' = Append(s_pkt, Data(obf.b)) /\ UNCHANGED rings
       ELSE /\ s_pkt' = Rest(s_pkt)
            /\ Push([n \in {"mouse"} |-> Packet(Append(s_pkt, Data(obf.b)))])
    /\ keyLost' = (keyLost \/ ~obf.aux)
    /\ UNCHANGED <<keys, pending, irq, left, mpos, down, prefix, shell, out,
                   raced, moveLost>>

(* Mutant: only the keyboard and the mouse wake a halted task. *)
timer_Mutant ==
    /\ irq = 0 /\ pc = "hlt" /\ pending # {}
    /\ pc' = "getkey"
    /\ UNCHANGED <<rings, keys, s_pkt, device, irq, left, sq, c, t0, history>>

(* The timer's interrupt: here it only wakes a halted task.                *)
timer ==
    /\ irq = 0 /\ pc = "hlt"
    /\ pc' = "getkey"
    /\ UNCHANGED <<rings, keys, s_pkt, device, irq, left, sq, c, t0, history>>
-----------------------------------------------------------------------------
(* The shell runs when no interrupt is handled.                            *)
At(p) == irq = 0 /\ pc = p

Goto(p) == pc' = p

(* keyboard_poll and mouse_poll: test, load the item, load the tail,       *)
(* store the tail.  Interrupts and other tasks may come between.           *)
poll(n) ==
    /\ At("idle") /\ head[n] # tail[n]
    /\ Goto("load") /\ sq' = n
    /\ UNCHANGED <<rings, keys, s_pkt, device, irq, left, c, t0, history>>

poll_load ==
    /\ At("load")
    /\ Goto("tail") /\ c' = buf[sq][tail[sq]]
    /\ UNCHANGED <<rings, keys, s_pkt, device, irq, left, sq, t0, history>>

poll_tail ==
    /\ At("tail")
    /\ Goto("store") /\ t0' = tail[sq]
    /\ UNCHANGED <<rings, keys, s_pkt, device, irq, left, sq, c, history>>

Advance(k, n) == (k + 1) % Size(n)

poll_store ==
    /\ At("store")
    /\ Goto("idle") /\ sq' = "kbd" /\ c' = None /\ t0' = 0
    /\ tail' = [tail EXCEPT ![sq] = Advance(t0, sq)]
    /\ out' = [out EXCEPT ![sq] = c]
    /\ UNCHANGED <<buf, head, keys, s_pkt, device, irq, left, raced, keyLost,
                   moveLost>>

(* keyboard_getkey halts between two polls that find nothing.              *)
keyboard_getkey ==
    /\ \/ At("idle") /\ Goto("getkey") /\ sq' = "kbd"
       \/ /\ At("getkey") /\ head["kbd"] # tail["kbd"]
          /\ Goto("load") /\ sq' = "kbd"
       \/ At("getkey") /\ head["kbd"] = tail["kbd"] /\ Goto("halting")
                       /\ UNCHANGED sq
       \/ At("halting") /\ Goto("hlt") /\ UNCHANGED sq
    /\ UNCHANGED <<rings, keys, s_pkt, device, irq, left, c, t0, history>>

(* mouse_flush: the tail, the head and the packet are reset one after the  *)
(* other, and what the controller holds is read.                           *)
flush_tail ==
    /\ At("idle")
    /\ Goto("flushHead") /\ sq' = "mouse"
    /\ tail' = [tail EXCEPT !["mouse"] = 0]
    /\ UNCHANGED <<buf, head, keys, s_pkt, device, irq, left, c, t0, history>>

HeadFlushed == [head EXCEPT !["mouse"] = 0]

flush_head ==
    /\ At("flushHead")
    /\ Goto("flushPkt")
    /\ head' = HeadFlushed
    /\ UNCHANGED <<buf, tail, keys, s_pkt, device, irq, left, sq, c, t0,
                   history>>

flush_pkt ==
    /\ At("flushPkt")
    /\ Goto("drain") /\ t0' = FlushBytes
    /\ s_pkt' = <<>>
    /\ moveLost' = (moveLost \/ s_pkt # <<>>)
    /\ UNCHANGED <<rings, keys, device, irq, left, sq, c, out, raced, keyLost>>

flush_drain ==
    /\ At("drain")
    /\ \/ /\ obf = None \/ t0 = 0
          /\ Goto("idle") /\ sq' = "kbd" /\ t0' = 0
          /\ UNCHANGED <<obf, keyLost, moveLost>>
       \/ /\ obf # None /\ t0 > 0
          /\ obf' = None /\ t0' = t0 - 1
          /\ keyLost' = (keyLost \/ ~obf.aux)
          /\ moveLost' = (moveLost \/ obf.aux)
          /\ UNCHANGED <<pc, sq>>
    /\ UNCHANGED <<rings, keys, s_pkt, pending, mpos, down, prefix, irq, left,
                   c, out, raced>>

(* A user program reads one item in a system call: SYS_READ of standard    *)
(* input (a key that is no character is passed over), or of a device file. *)
user_read(n) ==
    /\ irq = 0 /\ head[n] # tail[n]
    /\ tail' = [tail EXCEPT ![n] = Advance(@, n)]
    /\ out' = [out EXCEPT ![n] = buf[n][tail[n]]]
    /\ raced' = [raced EXCEPT ![n] =
          @ \/ (sq = n /\ pc \in {"load", "tail", "store", "flushHead"})]
    /\ UNCHANGED <<buf, head, keys, s_pkt, device, irq, left, shell, keyLost,
                   moveLost>>

ShellStep == \/ \E n \in load.shell : poll(n)
             \/ poll_load
             \/ poll_tail
             \/ poll_store
             \/ "kbd" \in load.shell /\ keyboard_getkey
             \/ "mouse" \in load.shell /\ flush_tail
             \/ flush_head
             \/ flush_pkt
             \/ flush_drain

Handler == keyboard_irq \/ mouse_irq

Next == /\ \/ \E code \in load.codes : keyboard_sends(code)
           \/ \E bit3 \in BOOLEAN, v \in load.moves : mouse_sends(bit3, v)
           \/ \E n \in {1, 12} : irq_enter(n)
           \/ irq_eoi
           \/ Handler
           \/ timer
           \/ ShellStep
           \/ \E n \in load.user : user_read(n)
        /\ UNCHANGED load

Spec == Init /\ [][Next]_vars

(* Interrupted code makes progress between interrupts, and the handlers'   *)
(* loops are faster than a PS/2 device.                                    *)
FairSpec ==
    /\ Spec
    /\ SF_vars(ShellStep /\ UNCHANGED load)
    /\ SF_vars(timer /\ UNCHANGED load)
    /\ SF_vars(irq_eoi /\ UNCHANGED load)
    /\ WF_vars(Handler /\ UNCHANGED load)
-----------------------------------------------------------------------------
(* A ring as its readers see it: off while mouse_flush has reset one end   *)
(* only, and for good once two readers have overlapped in it.              *)
Live(n) == ~raced[n] /\ ~(n = "mouse" /\ pc = "flushHead")
Held(n) == IF Live(n) THEN Items(n) ELSE <<>>
Delivered(n) == IF raced[n] THEN None ELSE out[n]

Raw == INSTANCE LossyQueue WITH
    Item <- Codes, Capacity <- Size("raw") - 1,
    live <- Live("raw"), q <- Held("raw"), out <- Delivered("raw")

Kbd == INSTANCE LossyQueue WITH
    Item <- Key, Capacity <- Size("kbd") - 1,
    live <- Live("kbd"), q <- Held("kbd"), out <- Delivered("kbd")

Mouse == INSTANCE LossyQueue WITH
    Item <- [whole : BOOLEAN, starts : BOOLEAN, buttons : Moves],
    Capacity <- Size("mouse") - 1,
    live <- Live("mouse"), q <- Held("mouse"), out <- Delivered("mouse")

(* Each ring is a lossy queue: the raw scancodes for the programs that     *)
(* read /dev/input/keyboard (keyboard.c:42-46 and 130-136), the keys,      *)
(* although the shell's poll is cut in pieces by interrupts                *)
(* (keyboard.c:36-40 and 122-128), and the mouse packets, although         *)
(* mouse_flush resets one end of the ring after the other while the        *)
(* handler may run (mouse.c:91-120).                                       *)
RingsAreQueues == Raw!Spec /\ Kbd!Spec /\ Mouse!Spec

(* A queued packet is made of the three bytes of one packet of the mouse,  *)
(* unless one of its bytes was read by the keyboard's handler or by        *)
(* mouse_flush.  Even then its buttons come from a first byte, as long as  *)
(* no distance has bit 3 set: the handler finds the start of a packet      *)
(* again (mouse.c:77-97).                                                  *)
PacketsWhole ==
    \A k \in DOMAIN Held("mouse") :
        /\ ~moveLost => Held("mouse")[k].whole
        /\ load.bit3 = {FALSE} => Held("mouse")[k].starts

(* Shift does not stick: when no shift key is held and the last code was   *)
(* handled, letters are small again, unless the mouse's handler or         *)
(* mouse_flush read a byte of the keyboard (keyboard.c:58-81).             *)
ShiftReleased ==
    ~keyLost /\ down = {} /\ (obf # None => obf.aux) => ~shift_held

(* keyboard_getkey returns when there is a key, even when the key arrives  *)
(* between its poll and its hlt (keyboard.c:141).                          *)
GetkeyReturns ==
    (pc \in {"getkey", "halting", "hlt"} /\ head["kbd"] # tail["kbd"])
        ~> (pc = "idle" \/ head["kbd"] = tail["kbd"])
=============================================================================
