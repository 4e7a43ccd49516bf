---------------------------- MODULE DynamicArray ----------------------------
(***************************************************************************)
(* dynamic_array_t of src/src/dynamic_array.c: an allocation elts of       *)
(* nalloc slots, of which the first nelts hold pushed elements.  Callers   *)
(* store through the pointer push and push_ix return, so each action is    *)
(* the call together with that store (or with the read through get_ix's    *)
(* pointer).  A slot never written holds Garbage, the content of fresh     *)
(* pool memory.  The module is shown to implement ArraySeq.                *)
(***************************************************************************)
EXTENDS Integers, Sequences

CONSTANTS
  Values,     \* what callers store
  Indexes,    \* the indexes callers pass to push_ix and get_ix
  InitSizes,  \* the n callers pass to dynamic_array_create / _init
  MaxElts,    \* bound on nelts
  CallOk,     \* outcomes of pmalloc: a subset of BOOLEAN
  NULL,
  Garbage

ASSUME InitSizes \subseteq Nat \ {0} /\ MaxElts \in Nat /\ CallOk \subseteq BOOLEAN

VARIABLES
  elts,    \* elts[k] for k in 0 .. nalloc - 1
  nelts,
  nalloc,
  out      \* what the caller read through the last get_ix

vars == <<elts, nelts, nalloc, out>>

\* Fresh pmalloc memory of k slots.
Fresh(k) == [j \in 0 .. k - 1 |-> Garbage]


\* dynamic_array_init with pmalloc succeeding: n fresh slots, none used.
DynamicArrayInit(n) == elts = Fresh(n) /\ nalloc = n /\ nelts = 0

\* dynamic_array_create: a new array header, then the same as _init.
Init ==
  /\ \E n \in InitSizes : DynamicArrayInit(n)
  /\ out = NULL

(***************************************************************************)
(* dynamic_array_push and the store through its slot.  A full array is    *)
(* regrown to twice nalloc, copying size * nalloc bytes, that is every     *)
(* slot; when that pmalloc fails push returns NULL and nothing changes.    *)
(***************************************************************************)
\* Mutant of Grown: memcpy copies one slot too few.
GrownShort == [j \in 0 .. 2 * nalloc - 1 |-> IF j < nalloc - 1 THEN elts[j] ELSE Garbage]

Grown == [j \in 0 .. 2 * nalloc - 1 |-> IF j < nalloc THEN elts[j] ELSE Garbage]

DynamicArrayPush(v) ==
  /\ nelts < MaxElts
  /\ \E ok \in CallOk :
       IF nelts = nalloc /\ ~ok
       THEN UNCHANGED vars
       ELSE LET e == IF nelts = nalloc THEN Grown ELSE elts
                n == IF nelts = nalloc THEN 2 * nalloc ELSE nalloc
            IN /\ nalloc' = n
               /\ elts' = [e EXCEPT ![nelts] = v]
               /\ nelts' = nelts + 1
               /\ UNCHANGED out

\* dynamic_array_push_ix and the store: any index below nalloc, nelts
\* unchanged; NULL (and no store) past nalloc.
DynamicArrayPushIx(i, v) ==
  /\ elts' = IF i < nalloc THEN [elts EXCEPT ![i] = v] ELSE elts
  /\ UNCHANGED <<nelts, nalloc, out>>

\* dynamic_array_get_ix and the read through its pointer.
DynamicArrayGetIx(i) ==
  /\ out' = IF i < nelts THEN elts[i] ELSE NULL
  /\ UNCHANGED <<elts, nelts, nalloc>>

Next ==
  \E v \in Values, i \in Indexes :
    DynamicArrayPush(v) \/ DynamicArrayPushIx(i, v) \/ DynamicArrayGetIx(i)

Spec == Init /\ [][Next]_vars

-----------------------------------------------------------------------------
\* The refinement mapping: the sequence is the first nelts slots.
AS == INSTANCE ArraySeq WITH seq <- [k \in 1 .. nelts |-> elts[k - 1]]

\* The array implements ArraySeq: every push, push_ix and get_ix is a step
\* of the sequence (or leaves it alone), so regrowth keeps every element
\* and get_ix reads back what was stored, never Garbage.
ImplementsArraySeq == AS!Spec
=============================================================================
