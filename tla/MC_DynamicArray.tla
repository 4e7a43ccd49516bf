--------------------------- MODULE MC_DynamicArray ---------------------------
(***************************************************************************)
(* Model-checking instance of DynamicArray: initial sizes 1 and 2, up to  *)
(* four elements, so that an array regrows twice (1, 2, 4) or once (2, 4), *)
(* and push_ix / get_ix at indexes below, at and past nelts and nalloc.    *)
(***************************************************************************)
EXTENDS DynamicArray
=============================================================================
