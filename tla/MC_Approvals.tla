---------------------------- MODULE MC_Approvals ----------------------------
(***************************************************************************)
(* Instances of Approvals for TLC: two tool calls, which may be alike.     *)
(***************************************************************************)
EXTENDS Approvals, TLC

CONSTANTS pc, guest, c1, c2, bash, edit, t1, t2, r1, p1, r2, p2, s2

Calls == r1 :> c1 @@ p1 :> c1 @@ r2 :> c2 @@ p2 :> c2 @@ s2 :> c2
Forms == r1 :> "request" @@ p1 :> "prompt" @@ r2 :> "request" @@ p2 :> "prompt" @@ s2 :> "plan"

Runs(host, tool, asked, ended) ==
    [host |-> host, plan |-> FALSE, tool |-> tool, policies |-> {"visible"},
     asked |-> asked, ended |-> ended]

\* The second call runs something else in the same turn; the same in another turn;
\* the same on a guest's device of the same session, or silently, through a bridge
\* that quotes no turn with its requests; or it is a plan.
First == Runs(pc, bash, t1, t1)
Second ==
    {Runs(pc, edit, t1, t1), Runs(pc, bash, t2, t2), Runs(guest, bash, NoTurn, t1),
     [Runs(pc, bash, NoTurn, NoTurn) EXCEPT !.policies = {"silent", "off"}],
     [First EXCEPT !.plan = TRUE, !.policies = Policy]}

Alike == {c1 :> First @@ c2 :> second : second \in Second}
=============================================================================
