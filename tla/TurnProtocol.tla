---------------------------- MODULE TurnProtocol ----------------------------
(***************************************************************************)
(* What a turn promises to the model and to the readers of the session     *)
(* log: the model is consulted, and a turn closed, only when every tool    *)
(* call has its result; results come in the order of the calls; nothing is *)
(* recorded between two turns.                                             *)
(***************************************************************************)
EXTENDS Naturals, Sequences

CONSTANT Call    \* identifiers of tool calls

VARIABLES
    phase,        \* "closed", "open" or, while the model is consulted, "asking"
    unanswered    \* the calls without a result, in the model's order

vars == <<phase, unanswered>>

Init == phase = "closed" /\ unanswered = <<>>

Open == phase = "closed" /\ phase' = "open" /\ UNCHANGED unanswered

Consult == phase = "open" /\ unanswered = <<>> /\ phase' = "asking" /\ UNCHANGED unanswered

\* The model answered, with tool calls or without.
Ask ==
    /\ phase = "asking" /\ phase' = "open"
    /\ unanswered = <<>> /\ unanswered' \in Seq(Call)

Answer ==
    /\ phase = "open" /\ unanswered # <<>>
    /\ \E n \in 1 .. Len(unanswered) : unanswered' = SubSeq(unanswered, n + 1, Len(unanswered))
    /\ UNCHANGED phase

Close ==
    /\ phase = "open" /\ unanswered = <<>>
    /\ phase' = "closed" /\ UNCHANGED unanswered

Next == Open \/ Consult \/ Ask \/ Answer \/ Close

Spec == Init /\ [][Next]_vars
=============================================================================
