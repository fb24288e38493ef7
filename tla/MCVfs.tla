------------------------------- MODULE MCVfs -------------------------------
(***************************************************************************)
(* Three slots, one of them the root.  The loads: names that are short and *)
(* long, directories and the working directory, without data; one file of  *)
(* a few bytes that is cut, sought and extended through two descriptors;   *)
(* the shell and programs that open and remove files and directories; the  *)
(* shell and programs that open, write and remove the same file.           *)
(***************************************************************************)
EXTENDS Vfs

P(abs, dir, leaf) == [abs |-> abs, dir |-> dir, leaf |-> leaf]
A == P(TRUE, <<>>, <<"a">>)
Long == P(TRUE, <<>>, <<"a", "b">>)
Below == P(TRUE, <<"a">>, <<"b">>)
Here == P(FALSE, <<>>, <<"b">>)
Up == P(FALSE, <<"..">>, <<"a">>)

Load(paths, flags, lens, cuts, seeks, max, sh) ==
    [paths |-> paths, flags |-> flags, lens |-> lens, cuts |-> cuts,
     seeks |-> seeks, max |-> max, shell |-> sh]
MCLoads ==
    {Load({A, Long, Below, Here, Up}, {{"R", "C"}}, {}, {}, {}, 0, {"cd"}),
     Load({A}, {{"R", "W", "C"}, {"R", "T"}}, {1, 2}, {1, 2}, {0, 3},
          MaxOffset, {}),
     Load({A, Below}, {{"R", "C"}}, {}, {}, {}, 0, {"open"}),
     Load({A}, {{"W", "C"}}, {1}, {}, {}, 1, {"open"})}
=============================================================================
