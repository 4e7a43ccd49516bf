---------------------------- MODULE MC_EventLoop ----------------------------
(***************************************************************************)
(* Model-checking instance of EventLoop: a pool of two slots, three client *)
(* descriptors and three connection attempts, so that the pool runs out   *)
(* and slots and descriptors are reused.                                   *)
(***************************************************************************)
EXTENDS EventLoop

MCFds == {1, 2, 3}
=============================================================================
