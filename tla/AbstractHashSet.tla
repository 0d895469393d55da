---------------------------- MODULE AbstractHashSet ----------------------------
(***************************************************************************)
(* What the sets of sparsepp promise, with no word of buckets: every set   *)
(* holds some keys, a stream remembers the keys of the set written to it,  *)
(* and reading the stream gives them back or fails.  A set whose reading   *)
(* failed is not valid until it is read again.                             *)
(***************************************************************************)
CONSTANTS Key, Set

VARIABLES
  contents,   \* the keys of every set
  valid,      \* whether a set may be used
  stored      \* the key sets that streams hold: none, or one

avars == <<contents, valid, stored>>

AInit(first) == /\ contents = first
                /\ valid = [t \in Set |-> TRUE]
                /\ stored = {}

AAdd(t, keys) ==
  /\ valid[t]
  /\ contents' = [contents EXCEPT ![t] = @ \cup keys]
  /\ UNCHANGED <<valid, stored>>

ARemove(t, keys) ==
  /\ valid[t]
  /\ contents' = [contents EXCEPT ![t] = @ \ keys]
  /\ UNCHANGED <<valid, stored>>

ACopy(t, u) ==
  /\ valid[t] /\ valid[u]
  /\ contents' = [contents EXCEPT ![t] = contents[u]]
  /\ UNCHANGED <<valid, stored>>

AExchange(t, u) ==
  /\ valid[t] /\ valid[u]
  /\ contents' = [contents EXCEPT ![t] = contents[u], ![u] = contents[t]]
  /\ UNCHANGED <<valid, stored>>

\* A new set is made of another, which is left empty.
ATake(t, u) ==
  /\ valid[t] /\ valid[u] /\ t # u
  /\ contents' = [contents EXCEPT ![t] = contents[u], ![u] = {}]
  /\ UNCHANGED <<valid, stored>>

AStore(t) ==
  /\ valid[t]
  /\ stored' = {contents[t]}
  /\ UNCHANGED <<contents, valid>>

ALoad(t) ==
  /\ \E keys \in stored : contents' = [contents EXCEPT ![t] = keys]
  /\ valid' = [valid EXCEPT ![t] = TRUE]
  /\ UNCHANGED stored

AFailToLoad(t) ==
  /\ contents' = [contents EXCEPT ![t] = {}]
  /\ valid' = [valid EXCEPT ![t] = FALSE]
  /\ UNCHANGED stored

ANext ==
  \E t \in Set :
    \/ \E keys \in SUBSET Key : AAdd(t, keys) \/ ARemove(t, keys)
    \/ \E u \in Set : ACopy(t, u) \/ AExchange(t, u) \/ ATake(t, u)
    \/ AStore(t) \/ ALoad(t) \/ AFailToLoad(t)

ASpec == (\E first \in [Set -> SUBSET Key] : AInit(first)) /\ [][ANext]_avars
=============================================================================
