------------------------------ MODULE Approvals ------------------------------
(***************************************************************************)
(* Approvals an agent waits for: app/main.py receive_hook and the handlers *)
(* of app/storage.py it calls, up to the clean-up at every start.          *)
(*                                                                         *)
(* A tool call that needs the user's permission is told by two hooks, a    *)
(* PermissionRequest with the tool's input and a generic permission_prompt *)
(* (Claude), which become one notification; or by the end of a planning    *)
(* turn whose title asks for confirmation.  PostToolUse, the end of the    *)
(* session's turn, the user, expiry and the start of the server close it.  *)
(* Each hook has a delivery id and is delivered at least once, in any      *)
(* order.  One session id and one working directory, which several devices *)
(* may use; a notification is named after the hook that inserted it.       *)
(***************************************************************************)
EXTENDS Naturals, FiniteSets

CONSTANTS
    Device,
    Guest,       \* the devices that see their own only
    Call,        \* tool calls
    Hook, CallOf, FormOf, \* what tells of them, and how
    Tool,        \* tool and input
    Turn, NoTurn,
    NoCall,
    Stories,     \* what the calls may be
    Window,      \* _CLAUDE_APPROVAL_CORRELATION_WINDOW
    TTL,         \* HOOK_PERMISSION_TTL
    MaxAge       \* bound of the time a notification is looked at

\* A call: its device, what it runs - or that it is the end of a planning turn -
\* the turn its hooks quote, before and after (older bridges quote none), and
\* what the device's settings may be meanwhile.
Policy == {"visible", "silent", "off"}
Tale == [host : Device, plan : BOOLEAN, tool : Tool, policies : SUBSET Policy,
         asked : Turn \union {NoTurn}, ended : Turn \union {NoTurn}]

ASSUME ApprovalAssumption ==
    /\ Guest \subseteq Device
    /\ CallOf \in [Hook -> Call] /\ FormOf \in [Hook -> {"request", "prompt", "plan"}]
    /\ Stories \subseteq [Call -> Tale]
    /\ NoTurn \notin Turn /\ NoCall \notin Call /\ Call \intersect Hook = {}
    /\ {Window, TTL, MaxAge} \subseteq Nat
    /\ Window < TTL
    /\ \A p \in Hook : FormOf[p] = "prompt" =>
          /\ \E r \in Hook : CallOf[r] = CallOf[p] /\ FormOf[r] = "request"
          /\ \A q \in Hook : CallOf[q] = CallOf[p] /\ FormOf[q] = "prompt" => q = p

VARIABLES
    tale,
    phase,    \* of each call: "idle", "waiting" for the user, "over"
    note,     \* the notifications; their age stands for created_at
    confirming, \* a notification, as it was read, whose sibling is yet to follow
    shown,    \* history: what a client that applied every event shows
    orderly,  \* history: the hooks came as an undisturbed session sends them;
    handled,  \* as long as they did: hooks handled, and calls whose end was,
    settled   \* and calls the user, time or the device's settings closed

session == <<tale, phase>>
history == <<orderly, handled, settled>>
vars == <<session, note, confirming, shown, history>>

None == [status |-> "none", age |-> 0, form |-> "prompt", detail |-> NoCall, turn |-> NoTurn]
Note == [status : {"none", "active", "acknowledged", "expired"}, age : 0 .. MaxAge,
         form : {"request", "prompt", "plan"}, detail : Call \union {NoCall},
         turn : Turn \union {NoTurn}]
Hidden == "hidden"

Host(h) == tale[CallOf[h]].host
Active(h) == note[h].status = "active"
Stored == {h \in Hook : note[h].status # "none"}
Tells(h) == {CallOf[h], note[h].detail} \ {NoCall}

\* _viewer_scope_sql.
SeesAll(d, h) == TRUE
Sees(d, h) == d \notin Guest \/ Host(h) = d

Distance(a, b) == IF a < b THEN b - a ELSE a - b

Hooks(c) == {h \in Hook : CallOf[h] = c /\ (FormOf[h] = "plan") = tale[c].plan}

\* What a notification made of hook h would be.
Incoming(h) ==
    [status |-> "active", age |-> 0, form |-> FormOf[h],
     detail |-> IF FormOf[h] = "prompt" THEN NoCall ELSE CallOf[h], turn |-> tale[CallOf[h]].asked]

-----------------------------------------------------------------------------
(***************************************************************************)
(* Transport pairs.                                                        *)
(***************************************************************************)
\* _is_correlated_claude_approval_pair: `forms` are the two transports.
PairsRequests(a, b) ==
    /\ "request" \in {a.form, b.form} /\ "plan" \notin {a.form, b.form}
    /\ Distance(a.age, b.age) <= Window
    /\ NoTurn \in {a.turn, b.turn} \/ a.turn = b.turn
Pairs(a, b) ==
    /\ {a.form, b.form} = {"request", "prompt"}
    /\ Distance(a.age, b.age) <= Window
    /\ NoTurn \in {a.turn, b.turn} \/ a.turn = b.turn

\* The nearest of them in time; two that are equally near are none.
TheNearest(hs, age) ==
    LET near == {h \in hs : \A g \in hs :
                    Distance(note[h].age, age) <= Distance(note[g].age, age)}
    IN  IF Cardinality(near) = 1 THEN near ELSE {}

\* _find_correlated_claude_approval: also of those that are acknowledged.
Correlated(h) ==
    TheNearest({g \in Stored :
                   /\ note[g].status \in {"active", "acknowledged"}
                   /\ Host(g) = Host(h)
                   /\ Pairs(note[g], Incoming(h))}, 0)

\* _merge_correlated_claude_approval: the request's detail is preferred, and
\* fills in what it lacks from the other.
MergedMetadata(a, b) ==
    [a EXCEPT !.form = "request",
              !.turn = IF b.form = "request" /\ b.turn # NoTurn THEN b.turn
                       ELSE IF @ = NoTurn THEN b.turn ELSE @]
Merged(a, b) ==
    [a EXCEPT !.form = "request",
              !.detail = IF b.detail = NoCall THEN @ ELSE b.detail,
              !.turn = IF b.form = "request" /\ b.turn # NoTurn THEN b.turn
                       ELSE IF @ = NoTurn THEN b.turn ELSE @]

\* Events: created with the detail, acknowledged and expired without it.
Display(n) == IF n.status = "active" THEN <<n.detail>> ELSE Hidden

Close(hs, as) ==
    /\ note' = [h \in Hook |-> IF h \in hs THEN [note[h] EXCEPT !.status = as] ELSE note[h]]
    /\ shown' = [h \in Hook |-> IF h \in hs THEN Hidden ELSE shown[h]]

\* What is remembered of the session after hooks `xs` and the settlement of `cs`.
Remember(inOrder, xs, cs) ==
    /\ orderly' = (orderly /\ inOrder)
    /\ handled' = IF orderly' THEN handled \union xs ELSE {}
    /\ settled' = IF orderly' THEN settled \union cs ELSE {}

-----------------------------------------------------------------------------
(***************************************************************************)
(* Hooks that ask.                                                         *)
(***************************************************************************)
\* The row the hook leaves, before it is silenced.
MergesQuietly(g, h) ==
    [row |-> g, note |-> Merged(note[g], Incoming(h)), shown |-> shown[g]]
MergesInto(g, h) ==
    LET merged == Merged(note[g], Incoming(h))
        visible == FormOf[h] = "request" /\ Active(g)
    IN  [row |-> g, note |-> merged, shown |-> IF visible THEN Display(merged) ELSE shown[g]]
Repeats(h) == [row |-> h, note |-> note[h], shown |-> shown[h]]
Inserts(h) == [row |-> h, note |-> Incoming(h), shown |-> Display(Incoming(h))]

\* create_notification: a correlated notification, one of the same delivery, or
\* a new one.
Published(h) ==
    LET gs == Correlated(h)
    IN  IF gs # {} THEN MergesInto(CHOOSE g \in gs : TRUE, h)
        ELSE IF note[h].status # "none" THEN Repeats(h) ELSE Inserts(h)

\* created_at has microseconds: no two notifications are equally old.
AtItsOwnTime(p) == note[p.row].status = "none" => \A g \in Stored : note[g].age > 0

\* Silent devices confirm what they publish; no created event is sent.
Silences(p, policy) == policy = "silent" /\ p.note.status = "active"
Publish(p, policy) ==
    /\ note' = [note EXCEPT ![p.row] =
          IF Silences(p, policy) THEN [p.note EXCEPT !.status = "acknowledged"] ELSE p.note]
    /\ shown' = [shown EXCEPT ![p.row] = IF Silences(p, policy) THEN Hidden ELSE p.shown]

\* An undisturbed session tells an approval once, both hooks within the window,
\* and its device's hooks are not switched off.
InTime(h) ==
    /\ h \notin handled
    /\ phase[CallOf[h]] = "waiting"
    /\ \A g \in Stored : CallOf[h] \in Tells(g) => note[g].age <= Window

\* receive_hook for PermissionRequest and permission_prompt.
Ask(h, policy) ==
    /\ FormOf[h] # "plan" /\ h \in Hooks(CallOf[h])
    /\ policy \in tale[CallOf[h]].policies
    /\ phase[CallOf[h]] # "idle"
    /\ IF policy = "off"
       THEN Remember(FALSE, {}, {}) /\ UNCHANGED <<note, shown>>
       ELSE LET p == Published(h)
            IN  /\ AtItsOwnTime(p) /\ Publish(p, policy)
                /\ Remember(InTime(h), {h}, IF Silences(p, policy) THEN {CallOf[h]} ELSE {})
    /\ UNCHANGED <<session, confirming>>

-----------------------------------------------------------------------------
(***************************************************************************)
(* Hooks that close.                                                       *)
(***************************************************************************)
\* resolve_pending_permission: active approvals with the same tool and input;
\* the turn decides among them, and one that decides nothing closes nothing.
Resolvable(h) == Active(h) /\ note[h].form = "request"
SameKey(h, c) == tale[note[h].detail].tool = tale[c].tool
Candidates(c) == {h \in Hook : Resolvable(h) /\ SameKey(h, c) /\ Sees(tale[c].host, h)}
OfTurn(hs, t) == {h \in hs : note[h].turn = t}
MatchedByTool(c) ==
    LET hs == Candidates(c) IN IF Cardinality(hs) = 1 THEN hs ELSE {}
Matched(c) ==
    LET hs == Candidates(c)
        exact == OfTurn(hs, tale[c].ended)
        matches == IF tale[c].ended = NoTurn THEN hs
                   ELSE IF exact = {} /\ hs = OfTurn(hs, NoTurn) THEN hs ELSE exact
    IN  IF Cardinality(matches) = 1 THEN matches ELSE {}

Someone(cs) == \E c \in cs : phase[c] = "waiting"

\* receive_hook for PostToolUse: nothing is published for it.
ToolEnded(c) ==
    /\ phase[c] = "over" /\ ~tale[c].plan
    /\ Close(Matched(c), "acknowledged")
    /\ Remember(c \notin handled /\ ~Someone(Call), {c}, {})
    /\ UNCHANGED <<session, confirming>>

\* acknowledge_pending_permissions_for_session, from device d.
Pending(d) == {h \in Hook : Active(h) /\ Sees(d, h)}

\* receive_hook for the end of a turn or of a sub-agent's.
TurnEnded(d) ==
    /\ Pending(d) # {}
    /\ Close(Pending(d), "acknowledged")
    /\ Remember(~Someone(Call), {}, {})
    /\ UNCHANGED <<session, confirming>>

\* The end of a planning turn publishes, and closes all but what it published;
\* what others commit between the two might as well have come before.
PlanEnded(h, policy) ==
    /\ FormOf[h] = "plan" /\ h \in Hooks(CallOf[h])
    /\ policy \in tale[CallOf[h]].policies
    /\ phase[CallOf[h]] # "idle"
    /\ LET p == Published(h)
           published == policy # "off"
           others == Pending(Host(h)) \ (IF published THEN {h} ELSE {})
           after(g) == IF g = h /\ published
                       THEN IF Silences(p, policy) THEN [p.note EXCEPT !.status = "acknowledged"]
                            ELSE p.note
                       ELSE IF g \in others THEN [note[g] EXCEPT !.status = "acknowledged"]
                       ELSE note[g]
       IN  /\ published => AtItsOwnTime(p)
           /\ note' = [g \in Hook |-> after(g)]
           /\ shown' = [g \in Hook |-> IF g = h \/ g \in others THEN Display(after(g)) ELSE shown[g]]
           /\ Remember(published /\ InTime(h) /\ ~Someone(Call \ {CallOf[h]}), {h},
                       IF Silences(p, policy) THEN {CallOf[h]} ELSE {})
    /\ UNCHANGED <<session, confirming>>

-----------------------------------------------------------------------------
(***************************************************************************)
(* The user, time and the server.                                          *)
(***************************************************************************)
\* acknowledge_correlated_claude_approvals, with what was read of h before.
Siblings(h, form, turn) ==
    LET reference == [note[h] EXCEPT !.form = form, !.turn = turn]
    IN  TheNearest({g \in Hook \ {h} : /\ Active(g) /\ Host(g) = Host(h)
                                       /\ Pairs(note[g], reference)}, reference.age)

\* POST /notifications/{id}/ack: the notification, and once that is published its
\* sibling.  One confirmation at a time bounds the model.
Acknowledge(d, h) ==
    /\ confirming = {}
    /\ h \in Stored /\ Sees(d, h)
    /\ IF note[h].status = "acknowledged"
       THEN /\ Close(Siblings(h, note[h].form, note[h].turn), "acknowledged")
            /\ UNCHANGED confirming
       ELSE /\ Close({h}, "acknowledged")
            /\ confirming' = {<<h, note[h].form, note[h].turn>>}
    /\ Remember(TRUE, {}, Tells(h))
    /\ UNCHANGED session

AcknowledgeSibling ==
    \E read \in confirming :
       /\ Close(Siblings(read[1], read[2], read[3]), "acknowledged")
       /\ confirming' = {}
       /\ UNCHANGED <<session, history>>

\* expire_due_notifications.
Due == {h \in Hook : Active(h) /\ note[h].age >= TTL}
Expire ==
    /\ Due # {}
    /\ Close(Due, "expired")
    /\ Remember(TRUE, {}, UNION {Tells(h) : h \in Due})
    /\ UNCHANGED <<session, confirming>>

\* The server is started again: acknowledge_legacy_permission_requests takes
\* every active approval for one of before approvals were resolved.
Waiting == {h \in Hook : Active(h)}
Start ==
    /\ Close(Waiting, "acknowledged")
    /\ Remember(TRUE, {}, UNION {Tells(h) : h \in Waiting})
    /\ confirming' = {}
    /\ UNCHANGED session

\* The session: a call needs permission, the user answers at the computer.
NeedPermission(c) ==
    /\ phase[c] = "idle"
    /\ phase' = [phase EXCEPT ![c] = "waiting"]
    /\ Remember(\A b \in Call : phase[b] # "idle" =>
          phase[b] = "over" /\ Hooks(b) \subseteq handled /\ confirming = {}, {}, {})
    /\ UNCHANGED <<tale, note, confirming, shown>>

AnsweredAtComputer(c) ==
    /\ phase[c] = "waiting"
    /\ phase' = [phase EXCEPT ![c] = "over"]
    /\ UNCHANGED <<tale, note, confirming, shown, history>>

Tick ==
    /\ Stored # {}
    /\ \A h \in Stored : note[h].age < MaxAge
    /\ note' = [h \in Hook |-> IF h \in Stored THEN [note[h] EXCEPT !.age = @ + 1] ELSE note[h]]
    /\ UNCHANGED <<session, confirming, shown, history>>

-----------------------------------------------------------------------------
Init ==
    /\ tale \in Stories
    /\ phase = [c \in Call |-> "idle"]
    /\ note = [h \in Hook |-> None]
    /\ confirming = {}
    /\ shown = [h \in Hook |-> Hidden]
    /\ handled = {} /\ settled = {}
    /\ orderly = TRUE

Next ==
    \/ \E h \in Hook, p \in Policy : Ask(h, p) \/ PlanEnded(h, p)
    \/ \E c \in Call : ToolEnded(c) \/ NeedPermission(c) \/ AnsweredAtComputer(c)
    \/ \E d \in Device : TurnEnded(d) \/ \E h \in Hook : Acknowledge(d, h)
    \/ AcknowledgeSibling \/ Expire \/ Start \/ Tick

Spec == Init /\ [][Next]_vars

-----------------------------------------------------------------------------
(***************************************************************************)
(* Properties.                                                             *)
(***************************************************************************)
TypeOK ==
    /\ tale \in Stories
    /\ phase \in [Call -> {"idle", "waiting", "over"}]
    /\ note \in [Hook -> Note]
    /\ \A read \in confirming : read[1] \in Stored
    /\ settled \subseteq Call
    /\ handled \subseteq Hook \union Call
    /\ orderly \in BOOLEAN
    /\ \A h \in Stored : note[h].form # "prompt" => note[h].detail \in Call

\* Whatever is merged, silenced, repeated or closed, a client that applies the
\* events in their order shows the active approvals and no others, each with the
\* detail the table has.
EventsTellTheTable == \A h \in Hook : shown[h] = Display(note[h])

\* The user does not miss an approval: in a session whose hooks come undisturbed,
\* a call that waits is shown with its own detail until the user, time or the
\* device's settings close it, whatever earlier approvals looked like it.
WaitingIsShown ==
    orderly =>
       \A c \in Call :
          phase[c] = "waiting" /\ c \notin settled
                /\ (\E h \in handled \intersect Hook : CallOf[h] = c /\ FormOf[h] # "prompt") =>
             \E h \in Hook : Active(h) /\ note[h].detail = c

\* Calls the hooks tell apart.
Distinct(c, d) ==
    \/ tale[c].tool # tale[d].tool
    \/ NoTurn \notin {tale[c].ended, tale[d].asked} /\ tale[c].ended # tale[d].asked

Closes(h) == Active(h) /\ ~Active(h)'

\* However late, repeated or out of order it comes, the end of one tool call does
\* not close the approval of another that its hooks tell apart.
ToolEndClosesItsOwn ==
    [][\A h \in Hook, c \in Call :
          Closes(h) /\ ToolEnded(c) => ~Distinct(c, note[h].detail)]_vars

\* A guest's hooks and confirmations reach the guest's own approvals only, though
\* another device uses the same session and the same tool.
Acts(d) ==
    \/ \E c \in Call : tale[c].host = d /\ ToolEnded(c)
    \/ TurnEnded(d)
    \/ \E h \in Hook : Acknowledge(d, h)
GuestsCloseTheirOwn ==
    [][\A h \in Hook, d \in Guest : Closes(h) /\ Acts(d) => Host(h) = d]_vars
=============================================================================
