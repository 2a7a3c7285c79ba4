------------------------------ MODULE IndexSet ------------------------------
(***************************************************************************)
(* What a bitset of kSize bits promises its callers: it is a set of        *)
(* indices below kSize, and every query answers for that set.  bRet and    *)
(* uRet hold the last answer a bool or uint32_t method returned.           *)
(***************************************************************************)
EXTENDS Integers, FiniteSets

CONSTANT kSize
VARIABLES members, bRet, uRet

vars  == <<members, bRet, uRet>>
Index == 0 .. kSize - 1

Init == members = {} /\ bRet = FALSE /\ uRet = 0

Become(S)   == members' = S /\ UNCHANGED <<bRet, uRet>>
AnswerB(b)  == bRet' = b /\ UNCHANGED <<members, uRet>>
AnswerU(u)  == uRet' = u /\ UNCHANGED <<members, bRet>>

\* u is the least element of S, kSize when S is empty.
LeastOf(u, S) == IF S = {} THEN u = kSize ELSE u \in S /\ \A j \in S : u <= j

Next ==
    \/ \E i \in Index : \/ Become(members \cup {i})
                        \/ Become(members \ {i})
                        \/ AnswerB(i \in members)
    \/ Become({})
    \/ Become(Index)
    \/ AnswerB(members = Index)
    \/ AnswerB(members # {})
    \/ AnswerB(members = {})
    \/ AnswerU(Cardinality(members))
    \/ AnswerU(kSize)
    \/ \E u \in 0 .. kSize : LeastOf(u, members) /\ AnswerU(u)
    \/ \E u \in 0 .. kSize : LeastOf(u, Index \ members) /\ AnswerU(u)

Spec == Init /\ [][Next]_vars
=============================================================================
