----------------------------- MODULE LevelOrder ------------------------------
(***************************************************************************)
(* What the question bank promises to players, without slots or counters:  *)
(* each level has a set of live questions and an order among them.  A new  *)
(* question comes after every question the level already has, a retirement *)
(* or a move removes one question and leaves the order of the others as it *)
(* was, and a retired question never returns.                              *)
(***************************************************************************)
EXTENDS Naturals

CONSTANTS Levels, QuestionIds

VARIABLES
    live,       \* live[l]: the questions of level l
    before,     \* <<p, q>> \in before: p is asked before q in their level
    withdrawn   \* questions that were retired

orderVars == <<live, before, withdrawn>>

Init ==
    /\ before = {} /\ withdrawn = {}
    /\ \/ live = [l \in Levels |-> {}]
       \/ \E l \in Levels, q \in QuestionIds :
             live = [m \in Levels |-> IF m = l THEN {q} ELSE {}]

NotMentioning(q) == {e \in before : e[1] # q /\ e[2] # q}

Admit(l, q) ==
    /\ q \notin withdrawn
    /\ \A m \in Levels : q \notin live[m]
    /\ live' = [live EXCEPT ![l] = @ \cup {q}]
    /\ before' = before \cup (live[l] \X {q})
    /\ UNCHANGED withdrawn

Withdraw(l, q) ==
    /\ q \in live[l]
    /\ live' = [live EXCEPT ![l] = @ \ {q}]
    /\ before' = NotMentioning(q)
    /\ withdrawn' = withdrawn \cup {q}

Transfer(l, m, q) ==
    /\ l # m
    /\ q \in live[l]
    /\ live' = [live EXCEPT ![l] = @ \ {q}, ![m] = @ \cup {q}]
    /\ before' = NotMentioning(q) \cup (live[m] \X {q})
    /\ UNCHANGED withdrawn

Next ==
    \E l \in Levels, q \in QuestionIds :
        \/ Admit(l, q)
        \/ Withdraw(l, q)
        \/ \E m \in Levels : Transfer(l, m, q)

Spec == Init /\ [][Next]_orderVars
=============================================================================
