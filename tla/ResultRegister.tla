---------------------------- MODULE ResultRegister ----------------------------
(***************************************************************************)
(* What a client may rely on when it polls for the answer of a task: the   *)
(* answer is published at most once, is never retracted or replaced, and   *)
(* the cache in front of the database holds that answer or nothing.        *)
(***************************************************************************)
CONSTANTS Answers, NoAnswer

VARIABLES published, cached

Init == published = NoAnswer /\ cached = NoAnswer

Publish == \E a \in Answers \ {NoAnswer} :
    /\ published = NoAnswer
    /\ published' = a
    /\ cached' \in {NoAnswer, a}

Next == Publish

Spec == Init /\ [][Next]_<<published, cached>>
=============================================================================
