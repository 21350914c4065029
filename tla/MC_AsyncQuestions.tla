------------------------- MODULE MC_AsyncQuestions -------------------------
(***************************************************************************)
(* Instances of AsyncQuestions for TLC: a call with two questions and one  *)
(* with a single question, all of the same wording.                        *)
(***************************************************************************)
EXTENDS AsyncQuestions, TLC

CONSTANTS q1, q2, q3, c1, c2, h1

Calls == {c1, c2}
Questions == {q1, q2, q3}
Belongs == q1 :> c1 @@ q2 :> c1 @@ q3 :> c2

\* The smaller instance has one question in each call.
Single == {q1, q3}
BelongsSingle == q1 :> c1 @@ q3 :> c2

\* A structured hook names one question of a call or all of them; a legacy one
\* quotes the wording.
Quoting(targets) == {[hash |-> h1, at |-> 0, target |-> w] : w \in targets}
Contents == {Quoting({q1}), Quoting({q1, q2}), Quoting({Wording})}
ContentsSingle == {Quoting({q1}), Quoting({Wording})}
=============================================================================
