------------------------------ MODULE MCEpoll ------------------------------
(***************************************************************************)
(* One instance of two entries and two tasks, so that two waits share the  *)
(* static array; a socket that becomes ready and not, and a file that      *)
(* always is.                                                              *)
(***************************************************************************)
EXTENDS Epoll

MCMaxEvents == {0, 2}
MCTimeouts == {-1, 0, 1}
=============================================================================
