----------------------------- MODULE KeyedValues -----------------------------
(***************************************************************************)
(* What dlinkedmap.h promises: a partial function from keys to values,     *)
(* with the value that each call returns.                                  *)
(***************************************************************************)
EXTENDS Naturals, Functions

CONSTANTS Keys, Values, Absent

VARIABLES values, call          \* the last call, its arguments and its result

ValuesInit == values = <<>> /\ call = <<>>

PutKey(k, v) ==
    /\ values' = [x \in DOMAIN values \cup {k} |-> IF x = k THEN v ELSE values[x]]
    /\ call' = <<"put", <<k, v>>, IF k \in DOMAIN values THEN 2 ELSE 1>>

GotKey(k) ==
    /\ call' = <<"get", k, IF k \in DOMAIN values THEN values[k] ELSE Absent>>
    /\ UNCHANGED values

RemovedKey(k) ==
    /\ values' = Restrict(values, DOMAIN values \ {k})
    /\ call' = <<"remove", k, IF k \in DOMAIN values THEN 1 ELSE 0>>

DestroyedKeys == values' = <<>> /\ call' = <<"destroyMap", Absent, 1>>

ValuesNext == \/ \E k \in Keys, v \in Values : PutKey(k, v)
              \/ \E k \in Keys : GotKey(k) \/ RemovedKey(k)
              \/ DestroyedKeys

ValuesSpec == ValuesInit /\ [][ValuesNext]_<<values, call>>
=============================================================================
