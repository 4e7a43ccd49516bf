------------------------------ MODULE ArraySeq ------------------------------
(***************************************************************************)
(* What a dynamic_array_t promises its callers (conf_file.c reads it this *)
(* way, and ConfFile models it so): a sequence that push extends by one    *)
(* element, or leaves alone when memory runs out; get_ix returns the       *)
(* element at a 0-based index or NULL past the end; and a write through    *)
(* push_ix changes what get_ix returns only at an index already pushed.   *)
(***************************************************************************)
EXTENDS Integers, Sequences

CONSTANTS Values, Indexes, NULL

VARIABLES
  seq,  \* the elements, in push order
  out   \* what the last get_ix returned

Init == seq = <<>> /\ out = NULL

Push(v) == seq' = Append(seq, v) /\ UNCHANGED out

Set(i, v) ==
  /\ seq' = IF i < Len(seq) THEN [seq EXCEPT ![i + 1] = v] ELSE seq
  /\ UNCHANGED out

Get(i) ==
  /\ out' = IF i < Len(seq) THEN seq[i + 1] ELSE NULL
  /\ UNCHANGED seq

Next == \E v \in Values, i \in Indexes : Push(v) \/ Set(i, v) \/ Get(i)

Spec == Init /\ [][Next]_<<seq, out>>
=============================================================================
