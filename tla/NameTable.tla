------------------------------ MODULE NameTable -----------------------------
(***************************************************************************)
(* What a registry of named objects promises to threads that create and    *)
(* destroy them concurrently.  table[n] is the object registered under n,  *)
(* wants[t] the name thread t is creating an object for, hand[t] the       *)
(* object t is building or destroying; NULL is none.  A creation takes     *)
(* effect in Register and a destruction in Withdraw, each at once; in      *)
(* between, an object is in one table entry or one hand, or nobody's.      *)
(***************************************************************************)
CONSTANTS Threads, Names, Objects, NULL
VARIABLES table, wants, hand

vars == <<table, wants, hand>>

Init ==
    /\ table = [n \in Names |-> NULL]
    /\ wants = [t \in Threads |-> NULL]
    /\ hand = [t \in Threads |-> NULL]

Nobodys(o) == /\ \A n \in Names : table[n] # o
              /\ \A t \in Threads : hand[t] # o

Busy(t) == wants[t] # NULL \/ hand[t] # NULL

\* A creation starts if the name is free, which does not reserve it.
Ask(t, n) ==
    /\ ~Busy(t) /\ table[n] = NULL
    /\ wants' = [wants EXCEPT ![t] = n]
    /\ UNCHANGED <<table, hand>>

Obtain(t, o) ==
    /\ wants[t] # NULL /\ hand[t] = NULL /\ Nobodys(o)
    /\ hand' = [hand EXCEPT ![t] = o]
    /\ UNCHANGED <<table, wants>>

\* Nothing is registered over an object, and nothing unbuilt is registered.
Register(t) ==
    /\ wants[t] # NULL /\ hand[t] # NULL /\ table[wants[t]] = NULL
    /\ table' = [table EXCEPT ![wants[t]] = hand[t]]
    /\ wants' = [wants EXCEPT ![t] = NULL]
    /\ hand' = [hand EXCEPT ![t] = NULL]

\* A destruction takes the object from the table.
Withdraw(t, n) ==
    /\ ~Busy(t) /\ table[n] # NULL
    /\ hand' = [hand EXCEPT ![t] = table[n]]
    /\ table' = [table EXCEPT ![n] = NULL]
    /\ UNCHANGED wants

\* A creation fails, or a destruction ends: what t had is nobody's.
Finish(t) ==
    /\ Busy(t)
    /\ wants' = [wants EXCEPT ![t] = NULL]
    /\ hand' = [hand EXCEPT ![t] = NULL]
    /\ UNCHANGED table

Next == \E t \in Threads :
    \/ Register(t) \/ Finish(t)
    \/ \E n \in Names : Ask(t, n) \/ Withdraw(t, n)
    \/ \E o \in Objects : Obtain(t, o)

Spec == Init /\ [][Next]_vars
=============================================================================
