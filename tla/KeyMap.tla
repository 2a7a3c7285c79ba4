------------------------------- MODULE KeyMap -------------------------------
(***************************************************************************)
(* What a map with insert, erase, find, contains, clear, size, empty and   *)
(* operator[] promises its client: every answer is that of a partial       *)
(* function from keys to values.  map[k] is NULL where k is absent; ref is *)
(* the key whose value the last find or operator[] gave a pointer to, NULL *)
(* when it gave none or its entry is gone; bRet and uRet are the last      *)
(* answers of bool and uint32_t methods.                                   *)
(***************************************************************************)
EXTENDS Integers, FiniteSets

CONSTANTS Keys, Values, DefaultValue, NULL
VARIABLES map, ref, bRet, uRet

vars == <<map, ref, bRet, uRet>>

Present == {k \in Keys : map[k] # NULL}

Init == map = [k \in Keys |-> NULL] /\ ref = NULL /\ bRet = FALSE /\ uRet = 0

AnswerB(b) == bRet' = b /\ UNCHANGED <<map, ref, uRet>>
AnswerU(u) == uRet' = u /\ UNCHANGED <<map, ref, bRet>>
Put(k, v)  == map' = [map EXCEPT ![k] = v]

\* insert adds an absent key; it fails for a present one, or without memory.
Insert(k, v) == k \notin Present /\ Put(k, v) /\ bRet' = TRUE /\ UNCHANGED <<ref, uRet>>
InsertFails  == AnswerB(FALSE)

Erase(k) ==
    /\ map' = [map EXCEPT ![k] = NULL]
    /\ ref' = IF ref = k THEN NULL ELSE ref
    /\ UNCHANGED <<bRet, uRet>>

Clear == map' = [k \in Keys |-> NULL] /\ ref' = NULL /\ UNCHANGED <<bRet, uRet>>

Find(k) ==
    /\ ref' = IF k \in Present THEN k ELSE NULL
    /\ UNCHANGED <<map, bRet, uRet>>

\* operator[] of an absent key adds it with the default value.
Subscript(k) ==
    /\ k \notin Present
    /\ Put(k, DefaultValue) /\ ref' = k
    /\ UNCHANGED <<bRet, uRet>>

\* The client writes through the pointer it has.
Assign(v) == ref # NULL /\ Put(ref, v) /\ UNCHANGED <<ref, bRet, uRet>>

Next ==
    \/ \E k \in Keys : \/ \E v \in Values : Insert(k, v)
                       \/ Erase(k) \/ Find(k) \/ Subscript(k)
                       \/ AnswerB(k \in Present)
    \/ InsertFails \/ Clear
    \/ \E v \in Values : Assign(v)
    \/ AnswerU(Cardinality(Present))
    \/ AnswerB(Present = {})

Spec == Init /\ [][Next]_vars
=============================================================================
