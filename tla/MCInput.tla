------------------------------ MODULE MCInput ------------------------------
(***************************************************************************)
(* Rings of two or three places, so that they are full soon and wrap       *)
(* around.  The loads put together what interferes: the shift keys and the *)
(* mouse (each handler may read the other's byte), the prefix and the      *)
(* extended double of a shift key, one reader, two readers, and the flush. *)
(***************************************************************************)
EXTENDS Input

Code(k, up) == [key |-> k, up |-> up]
Shift == {Code("LSHIFT", FALSE), Code("LSHIFT", TRUE)}
E0 == Code("E0", FALSE)
A == Code("a", FALSE)
One == Code("1", FALSE)
Caps == Code("CAPS", FALSE)
Up == Code("UP", FALSE)
MCCodes == Shift \cup {E0, A, One, Caps, Up}

Load(codes, moves, bit3, sh, user) ==
    [codes |-> codes, moves |-> moves, bit3 |-> bit3, shell |-> sh,
     user |-> user]
MCLoads == {Load(Shift, {0}, {FALSE}, {}, {}),
            Load(Shift \cup {E0}, {}, {}, {}, {}),
            Load({A, E0}, {}, {}, {}, {"raw"}),
            Load({A}, {}, {}, {"kbd"}, {"kbd"}),
            Load({A, Caps}, {}, {}, {"kbd"}, {}),
            Load({E0, Up, One}, {}, {}, {"kbd"}, {}),
            Load(Shift, {}, {}, {"mouse"}, {}),
            Load({}, {0, 1}, {FALSE}, {"mouse"}, {}),
            Load({}, {0}, {TRUE}, {"mouse"}, {"mouse"})}
=============================================================================
