----------------------------- MODULE MC_Clients -----------------------------
(***************************************************************************)
(* An instance of EventCatchup, History and Presence for TLC: what a       *)
(* client reads of the server.  They share no variable and no step, and    *)
(* each property is about one of them, so a behaviour moves one of them    *)
(* and leaves the others as they begin.                                    *)
(***************************************************************************)
EXTENDS EventCatchup, History, Presence

CONSTANTS own, other, w1, w2

VARIABLE subject

vars == <<catchupVars, historyVars, presenceVars, subject>>

\* Those that do not move begin in one of their initial states.
Init ==
    /\ CatchupInit /\ HistoryInit /\ PresenceInit
    /\ subject \in {"events", "history", "presence"}
    /\ subject # "events" => role = "member" /\ client.next = "list"
    /\ subject # "history" => ~guest

Next ==
    /\ UNCHANGED subject
    /\ \/ subject = "events" /\ CatchupNext /\ UNCHANGED <<historyVars, presenceVars>>
       \/ subject = "history" /\ HistoryNext /\ UNCHANGED <<catchupVars, presenceVars>>
       \/ subject = "presence" /\ PresenceNext /\ UNCHANGED <<catchupVars, historyVars>>

Spec == Init /\ [][Next]_vars /\ (subject = "events" => CatchupFairness)

\* The types of all three.
TypeOK == CatchupTypeOK /\ HistoryTypeOK /\ PresenceTypeOK

\* No client turns in circles: page by page, by loading the list again when its
\* cursor is not found, or all at once, it gets to the end of the events.
CatchUpEnds == []<>(subject = "events" => current)
=============================================================================
