--------------------------- MODULE AsyncQuestions ---------------------------
(***************************************************************************)
(* Questions that Codex asks asynchronously: app/main.py receive_hook and  *)
(* app/storage.py correlate_codex_async_question, with the confirmations   *)
(* and the expiry sweep they race.                                         *)
(*                                                                         *)
(* One session of one device, `Origin`.  A call of the question tool       *)
(* carries one or more questions and becomes one notification; answers     *)
(* arrive later, by other hooks.  The client repeats a hook until it is    *)
(* answered, so signals come at least once and in any order.  A hook that  *)
(* asks is handled in two transactions - create_notification, then         *)
(* correlate_codex_async_question - and the process may die between them.  *)
(* Times are those of the client's clock, which stamps every signal.       *)
(***************************************************************************)
EXTENDS Naturals, FiniteSets

CONSTANTS
    Call,       \* calls of the question tool
    Question,   \* the questions of all calls
    CallOf,     \* the call a question belongs to
    Hash,       \* fingerprints of the wordings
    Delivery,   \* hooks that report answers
    Viewer,     \* devices that may confirm a notification
    Origin,     \* the device Codex runs on
    Content,    \* what one delivery may report: sets of receipts
    Wording,    \* the target of a receipt that names no question
    Silent,     \* the values the device's silent setting takes
    MaxTime,    \* bound of the client's clock
    MaxCrashes  \* bound of the crashes of the server

Stamp == 0 .. MaxTime

\* A receipt quotes a wording; a structured one also names its question.
Receipt == [hash : Hash, at : Stamp, target : Question \union {Wording}]

ASSUME CallAssumption == CallOf \in [Question -> Call] /\ Origin \in Viewer
ASSUME ReceiptAssumption ==
    /\ Wording \notin Question
    /\ Content \subseteq SUBSET Receipt
    /\ Silent \subseteq BOOLEAN
    /\ MaxTime \in Nat
    /\ MaxCrashes \in Nat

VARIABLES
    hash,      \* wording of each question       (what the session says:
    askedAt,   \* stamp of each call              chosen once, unknown to
    content,   \* receipts of each delivery       the server until reported)
    status,    \* notifications.status of a call, "none" before it is created
    acks,      \* acks: the reason under which a viewer confirmed
    lastEvent, \* the last event about a notification in `events`
    confirmed, \* history: notifications confirmed explicitly, in the client's own words
    claimed,   \* history: the same in the server's, since the last correlation
    due,       \* notifications whose expires_at has passed
    questions, \* codex_async_questions
    receipts,  \* codex_async_answers and codex_async_exact_answers
    handling,  \* hooks that ask, between their two transactions
    reported,  \* signals whose handling has finished at least once
    crashes

session == <<hash, askedAt, content>>
notification == <<status, acks, lastEvent>>
confirmations == <<confirmed, claimed>>
vars == <<session, notification, confirmations, due,
          questions, receipts, handling, reported, crashes>>

Status == {"none", "active", "acknowledged", "expired"}
Reason == {"none", "user_confirmed", "silent_send", "async_question_answered"}
\* AckRequest.reason is any text: its default stands for all but the one that
\* the server gives its own confirmations.
Said == {"user_confirmed", "async_question_answered"}
Event == {"none", "created", "acknowledged", "expired"}

EveryQuestion(c) == Question
QuestionsOf(c) == {q \in Question : CallOf[q] = c}

-----------------------------------------------------------------------------
(***************************************************************************)
(* Matching.  A receipt answers a question when no other known question    *)
(* could be meant: the same wording, asked no later than it was answered.  *)
(***************************************************************************)
Meant(q, r) ==
    /\ hash[q] = r.hash
    /\ askedAt[CallOf[q]] <= r.at
    /\ r.target \in {q, Wording}

Answered(qs, rs) == {q \in qs : \E r \in rs : {p \in qs : Meant(p, r)} = {q}}

FullyAnswered(c, qs, rs) == qs \intersect QuestionsOf(c) \subseteq Answered(qs, rs)
Registered(c, qs) == qs \intersect QuestionsOf(c) # {}

\* Only the automatic confirmation is to be taken back; the stored reason tells
\* which one that is, unless a client gives the same.
AnyAcknowledged(c) == status[c] = "acknowledged"
Retractable(c) ==
    /\ status[c] = "acknowledged"
    /\ \E v \in Viewer : acks[c][v] # "none"
    /\ \A v \in Viewer : acks[c][v] \in {"none", "async_question_answered"}

SettlesOnAnswer(c, qs, rs) ==
    /\ Registered(c, qs) /\ c \notin due /\ FullyAnswered(c, qs, rs) /\ status[c] = "active"
    /\ rs # receipts
Settles(c, qs, rs) ==
    Registered(c, qs) /\ c \notin due /\ FullyAnswered(c, qs, rs) /\ status[c] = "active"
NeverReopens(c, qs, rs) == FALSE
Reopens(c, qs, rs) ==
    Registered(c, qs) /\ c \notin due /\ ~FullyAnswered(c, qs, rs) /\ Retractable(c)

\* correlate_codex_async_question once the signal's rows are in: every question
\* of the session is matched again against every receipt.
Correlate(qs, rs) ==
    /\ questions' = qs
    /\ receipts' = rs
    /\ claimed' = {}
    /\ status' = [c \in Call |->
          IF Settles(c, qs, rs) THEN "acknowledged"
          ELSE IF Reopens(c, qs, rs) THEN "active" ELSE status[c]]
    /\ acks' = [c \in Call |->
          IF Settles(c, qs, rs) /\ acks[c][Origin] = "none"
          THEN [acks[c] EXCEPT ![Origin] = "async_question_answered"]
          ELSE IF Reopens(c, qs, rs) THEN [v \in Viewer |-> "none"] ELSE acks[c]]
    /\ lastEvent' = [c \in Call |->
          IF Settles(c, qs, rs) THEN "acknowledged"
          ELSE IF Reopens(c, qs, rs) THEN "created" ELSE lastEvent[c]]

-----------------------------------------------------------------------------
\* create_notification for a call, the first transaction of its hook.  The key
\* (device, session, call) finds the notification of an earlier delivery.  A
\* device set to silent confirms as it publishes; the setting changes at will.
Ask(c, silent) ==
    /\ c \notin handling
    /\ handling' = handling \union {c}
    /\ LET published == IF status[c] = "none" THEN "active" ELSE status[c]
           silences == silent /\ published = "active"
       IN  /\ status' = [status EXCEPT ![c] = IF silences THEN "acknowledged" ELSE published]
           /\ acks' = IF silences THEN [acks EXCEPT ![c][Origin] = "silent_send"] ELSE acks
           /\ lastEvent' = [lastEvent EXCEPT ![c] =
                 IF silences THEN "acknowledged" ELSE IF status[c] = "none" THEN "created" ELSE @]
           /\ confirmed' = IF silences THEN confirmed \union {c} ELSE confirmed
    /\ UNCHANGED <<session, claimed, due, questions, receipts, reported, crashes>>

\* The second transaction of that hook.
RegisterQuestions(c) ==
    /\ c \in handling
    /\ Correlate(questions \union QuestionsOf(c), receipts)
    /\ handling' = handling \ {c}
    /\ reported' = reported \union {c}
    /\ UNCHANGED <<session, confirmed, due, crashes>>

\* A hook that reports answers has one transaction.
ReportAnswer(d) ==
    /\ Correlate(questions, receipts \union content[d])
    /\ reported' = reported \union {d}
    /\ UNCHANGED <<session, confirmed, due, handling, crashes>>

\* POST /notifications/{id}/ack: the reason replaces the automatic one only.
KeepFirst(v, reasons, said) == IF reasons[v] = "none" THEN said ELSE reasons[v]
Upsert(v, reasons, said) ==
    IF reasons[v] \in {"none", "async_question_answered"} THEN said ELSE reasons[v]

NoLongerActive(c) == status[c] # "active"
AlreadyAcknowledged(c) == status[c] = "acknowledged"

Acknowledge(v, c, said) ==
    /\ status[c] # "none"
    /\ acks' = [acks EXCEPT ![c][v] = Upsert(v, acks[c], said)]
    /\ status' = [status EXCEPT ![c] = "acknowledged"]
    /\ lastEvent' = [lastEvent EXCEPT ![c] =
          IF AlreadyAcknowledged(c) THEN @ ELSE "acknowledged"]
    /\ IF said = "async_question_answered"
       THEN claimed' = claimed \union {c} /\ UNCHANGED confirmed
       ELSE confirmed' = confirmed \union {c} /\ UNCHANGED claimed
    /\ UNCHANGED <<session, due, questions, receipts, handling, reported, crashes>>

\* expires_at of a notification passes.
Overdue(c) ==
    /\ status[c] # "none"
    /\ due' = due \union {c}
    /\ UNCHANGED <<session, notification, confirmations,
                   questions, receipts, handling, reported, crashes>>

\* expire_due_notifications, of the sweep or of a request that lists.
Expires(c) == c \in due /\ status[c] = "active"
ExpireDueNotifications ==
    /\ status' = [c \in Call |-> IF Expires(c) THEN "expired" ELSE status[c]]
    /\ lastEvent' = [c \in Call |-> IF Expires(c) THEN "expired" ELSE lastEvent[c]]
    /\ UNCHANGED <<session, acks, confirmations, due,
                   questions, receipts, handling, reported, crashes>>

\* The process dies: what hooks had still to do is lost, what they did stays.
Crash ==
    /\ crashes < MaxCrashes
    /\ crashes' = crashes + 1
    /\ handling' = {}
    /\ UNCHANGED <<session, notification, confirmations, due,
                   questions, receipts, reported>>

-----------------------------------------------------------------------------
Init ==
    /\ hash \in [Question -> Hash]
    /\ askedAt \in [Call -> Stamp]
    /\ content \in [Delivery -> Content]
    /\ status = [c \in Call |-> "none"]
    /\ acks = [c \in Call |-> [v \in Viewer |-> "none"]]
    /\ lastEvent = [c \in Call |-> "none"]
    /\ confirmed = {} /\ claimed = {}
    /\ due = {}
    /\ questions = {}
    /\ receipts = {}
    /\ handling = {}
    /\ reported = {}
    /\ crashes = 0

Next ==
    \/ \E c \in Call, silent \in Silent : Ask(c, silent)
    \/ \E c \in Call : RegisterQuestions(c) \/ Overdue(c)
    \/ \E d \in Delivery : ReportAnswer(d)
    \/ \E v \in Viewer, c \in Call, said \in Said : Acknowledge(v, c, said)
    \/ ExpireDueNotifications
    \/ Crash

Spec == Init /\ [][Next]_vars

\* The client repeats a hook until its handling has finished, and the server
\* finishes what it has begun unless it dies.
Retry(c) == c \notin reported /\ \E silent \in Silent : Ask(c, silent)
FairSpec ==
    /\ Spec
    /\ \A c \in Call : WF_vars(Retry(c)) /\ WF_vars(RegisterQuestions(c))
    /\ \A d \in Delivery : WF_vars(d \notin reported /\ ReportAnswer(d))

-----------------------------------------------------------------------------
(***************************************************************************)
(* Properties.                                                             *)
(***************************************************************************)
\* Types, and the foreign keys: questions and confirmations belong to stored
\* notifications.
TypeOK ==
    /\ hash \in [Question -> Hash]
    /\ askedAt \in [Call -> Stamp]
    /\ content \in [Delivery -> Content]
    /\ status \in [Call -> Status]
    /\ acks \in [Call -> [Viewer -> Reason]]
    /\ lastEvent \in [Call -> Event]
    /\ confirmed \subseteq Call /\ claimed \subseteq Call /\ due \subseteq Call
    /\ questions \subseteq Question
    /\ receipts \subseteq Receipt
    /\ handling \subseteq Call
    /\ reported \subseteq Call \union Delivery
    /\ crashes \in 0 .. MaxCrashes
    /\ \A q \in questions : status[CallOf[q]] # "none"
    /\ \A c \in Call, v \in Viewer : acks[c][v] # "none" => status[c] # "none"

\* A confirmation under a reason of the client's own, or of a silent device, is
\* never undone, whatever question or answer arrives later and whoever else
\* confirms before or after it, under whatever reason.
OwnWordsAreFinal == \A c \in confirmed : status[c] = "acknowledged"

\* "An explicit acknowledgement, including one made after the automatic ack on
\* the same device, is never undone" (storage.py, correlate_codex_async_question).
ExplicitConfirmationIsFinal ==
    [][\A c \in confirmed \union claimed : status'[c] = "acknowledged"]_vars

\* As long as nobody confirmed and time has not run out, a question's
\* notification is closed exactly when every question the server knows of it
\* has a receipt that can mean no other: a late question takes back a match
\* that it makes ambiguous, a late registration finds the answers that came
\* first.  A confirmation in the server's words counts until the next correlation.
StatusFollowsReceipts ==
    \A c \in Call :
       Registered(c, questions) /\ c \notin due \union confirmed \union claimed =>
          (status[c] = "acknowledged") = FullyAnswered(c, questions, receipts)

\* A client that applies the events in their order shows what the table says.
LastEventTellsStatus ==
    \A c \in Call :
       lastEvent[c] = IF status[c] = "active" THEN "created" ELSE status[c]

\* However the hooks are delayed, repeated, reordered or cut in two by a crash,
\* every notification ends as the whole session says, not as it was heard.
AllReceipts == UNION {content[d] : d \in Delivery}
SessionTold(c) ==
    c \in due \union confirmed \union claimed \/
       (status[c] = "acknowledged") = FullyAnswered(c, Question, AllReceipts)
AnswersEventuallySettle == <>[](\A c \in Call : SessionTold(c))
=============================================================================
