------------------------------- MODULE MCMsg -------------------------------
(***************************************************************************)
(* Two slots and two tasks.  The loads: plain reads and writes of two      *)
(* different bytes through rings of three; messages with one and two       *)
(* descriptors, some without data, through rings with room for two.        *)
(***************************************************************************)
EXTENDS UnixMsg

Load(write, read, send, receive, bytes, flags, pass, from, alone) ==
    [write |-> write, read |-> read, send |-> send, recv |-> receive,
     bytes |-> bytes, flags |-> flags, pass |-> pass, from |-> from,
     alone |-> alone]

MCLoads ==
    {Load({1, 2}, {2}, {}, {}, Byte, {FALSE}, {0}, {1}, TRUE),
     Load({}, {}, {0, 1}, {1}, {CHOOSE b \in Byte : TRUE}, {TRUE}, {1, 2},
          {1}, FALSE)}
=============================================================================
