------------------------ MODULE AsyncQuestionsProofs ------------------------
(***************************************************************************)
(* Proofs about AsyncQuestions, for every session: any number of calls,    *)
(* questions, wordings and deliveries, any clock and any number of         *)
(* crashes.  Matching stays a black box: nothing depends on which receipts *)
(* mean which question, only on every correlation looking at all of them.  *)
(***************************************************************************)
EXTENDS AsyncQuestions, TLAPS

\* The table of confirmations tells those in a client's own words, and those of
\* silent devices, from all others, which is what lets the correlation spare
\* them.  It does not tell the explicit from the automatic: a client may give
\* the server's reason.
AcksTellWhoConfirmed ==
    \A c \in Call :
       /\ status[c] # "acknowledged" => \A v \in Viewer : acks[c][v] = "none"
       /\ status[c] = "acknowledged" /\ c \notin confirmed => Retractable(c)
       /\ c \in confirmed => \E v \in Viewer : acks[c][v] \in {"user_confirmed", "silent_send"}

ExpiredIsDue == \A c \in Call : status[c] = "expired" => c \in due

\* The second transaction of a hook finds the notification of the first.
HandlingIsStored == \A c \in handling : status[c] # "none"

IInv ==
    /\ TypeOK
    /\ OwnWordsAreFinal
    /\ StatusFollowsReceipts
    /\ LastEventTellsStatus
    /\ AcksTellWhoConfirmed
    /\ ExpiredIsDue
    /\ HandlingIsStored

-----------------------------------------------------------------------------
\* A correlation decides each notification by its own state: it settles an
\* active one, reopens one confirmed under the server's reason only, or leaves it.
LEMMA CorrelateOutcome ==
    ASSUME IInv, NEW qs \in SUBSET Question, NEW rs, Correlate(qs, rs), NEW c \in Call
    PROVE  \/ /\ Settles(c, qs, rs)
              /\ status[c] = "active" /\ c \notin confirmed
              /\ status'[c] = "acknowledged" /\ lastEvent'[c] = "acknowledged"
              /\ acks'[c] = [acks[c] EXCEPT ![Origin] = "async_question_answered"]
           \/ /\ Reopens(c, qs, rs)
              /\ Retractable(c) /\ c \notin confirmed
              /\ status'[c] = "active" /\ lastEvent'[c] = "created"
              /\ acks'[c] = [v \in Viewer |-> "none"]
           \/ /\ ~Settles(c, qs, rs) /\ ~Reopens(c, qs, rs)
              /\ status'[c] = status[c] /\ lastEvent'[c] = lastEvent[c]
              /\ acks'[c] = acks[c]
<1>1. CASE Settles(c, qs, rs)
  <2>1. status[c] = "active" /\ c \notin confirmed
    BY <1>1 DEF Settles, IInv, OwnWordsAreFinal
  <2>2. acks[c][Origin] = "none"
    BY <2>1, CallAssumption DEF IInv, AcksTellWhoConfirmed
  <2> QED
    BY <1>1, <2>1, <2>2 DEF Correlate
<1>2. CASE ~Settles(c, qs, rs) /\ Reopens(c, qs, rs)
  <2>1. Retractable(c)
    BY <1>2 DEF Reopens
  <2>2. c \notin confirmed
    BY <2>1 DEF Retractable, IInv, AcksTellWhoConfirmed
  <2> QED
    BY <1>2, <2>1, <2>2 DEF Correlate
<1>3. CASE ~Settles(c, qs, rs) /\ ~Reopens(c, qs, rs)
  BY <1>3 DEF Correlate
<1> QED
  BY <1>1, <1>2, <1>3

\* The types survive any correlation of stored questions.
LEMMA CorrelateTypes ==
    ASSUME IInv, NEW qs \in SUBSET Question, NEW rs \in SUBSET Receipt, Correlate(qs, rs),
           \A q \in qs : status[CallOf[q]] # "none"
    PROVE  /\ status' \in [Call -> Status]
           /\ acks' \in [Call -> [Viewer -> Reason]]
           /\ lastEvent' \in [Call -> Event]
           /\ \A c \in Call : status[c] # "none" => status'[c] # "none"
           /\ \A c \in Call, v \in Viewer : acks'[c][v] # "none" => status'[c] # "none"
<1>1. /\ status \in [Call -> Status]
      /\ acks \in [Call -> [Viewer -> Reason]]
      /\ lastEvent \in [Call -> Event]
      /\ \A c \in Call, v \in Viewer : acks[c][v] # "none" => status[c] # "none"
  BY DEF IInv, TypeOK
<1>2. ASSUME NEW c \in Call
      PROVE  /\ status'[c] \in Status /\ lastEvent'[c] \in Event
             /\ acks'[c] \in [Viewer -> Reason]
             /\ status[c] # "none" => status'[c] # "none"
             /\ \A v \in Viewer : acks'[c][v] # "none" => status'[c] # "none"
  <2>1. /\ status[c] \in Status /\ lastEvent[c] \in Event
        /\ acks[c] \in [Viewer -> Reason]
        /\ \A v \in Viewer : acks[c][v] # "none" => status[c] # "none"
    BY <1>1
  <2>2. [acks[c] EXCEPT ![Origin] = "async_question_answered"] \in [Viewer -> Reason]
    BY <2>1 DEF Reason
  <2>3. [v \in Viewer |-> "none"] \in [Viewer -> Reason]
    BY DEF Reason
  <2>4. Retractable(c) => status[c] = "acknowledged"
    BY DEF Retractable
  <2> QED
    BY <2>1, <2>2, <2>3, <2>4, CorrelateOutcome DEF Status, Event
<1>3. /\ status' = [c \in Call |-> status'[c]]
      /\ acks' = [c \in Call |-> acks'[c]]
      /\ lastEvent' = [c \in Call |-> lastEvent'[c]]
  BY DEF Correlate
<1> QED
  BY <1>2, <1>3

\* After a correlation every open question's notification says what the
\* receipts say, because all of them were looked at.
LEMMA CorrelateKeeps ==
    ASSUME IInv, NEW qs \in SUBSET Question, NEW rs \in SUBSET Receipt, Correlate(qs, rs),
           \A q \in qs : status[CallOf[q]] # "none",
           UNCHANGED <<session, confirmed, due>>, handling' \subseteq handling
    PROVE  /\ OwnWordsAreFinal'
           /\ StatusFollowsReceipts'
           /\ LastEventTellsStatus'
           /\ AcksTellWhoConfirmed'
           /\ ExpiredIsDue'
           /\ HandlingIsStored'
<1>1. /\ status \in [Call -> Status]
      /\ acks \in [Call -> [Viewer -> Reason]]
      /\ handling \subseteq Call /\ confirmed \subseteq Call
  BY DEF IInv, TypeOK
<1>2. OwnWordsAreFinal'
  BY <1>1, CorrelateOutcome DEF IInv, OwnWordsAreFinal
<1>3. StatusFollowsReceipts'
  <2> SUFFICES ASSUME NEW c \in Call, Registered(c, qs), c \notin due, c \notin confirmed
               PROVE  status'[c] = "acknowledged" <=> FullyAnswered(c, qs, rs)
    <3>1. \A c \in Call : FullyAnswered(c, qs, rs)' <=> FullyAnswered(c, qs, rs)
      BY DEF FullyAnswered, Answered, Meant, session
    <3>2. \A c \in Call : Registered(c, qs)' <=> Registered(c, qs)
      BY DEF Registered
    <3>3. questions' = qs /\ receipts' = rs
      BY DEF Correlate
    <3> QED
      BY <3>1, <3>2, <3>3 DEF StatusFollowsReceipts, FullyAnswered, Answered, Meant, session, Registered
  <2>1. status[c] \in {"active", "acknowledged"}
    BY <1>1, CallAssumption DEF Registered, QuestionsOf, IInv, ExpiredIsDue, Status
  <2>2. status[c] = "acknowledged" => Retractable(c)
    BY DEF IInv, AcksTellWhoConfirmed
  <2>3. CASE FullyAnswered(c, qs, rs)
    BY <2>1, <2>3, CorrelateOutcome DEF Settles, Reopens
  <2>4. CASE ~FullyAnswered(c, qs, rs)
    BY <2>1, <2>2, <2>4, CorrelateOutcome DEF Settles, Reopens
  <2> QED
    BY <2>3, <2>4
<1>4. LastEventTellsStatus'
  BY CorrelateOutcome DEF IInv, LastEventTellsStatus
<1>5. AcksTellWhoConfirmed'
  <2> SUFFICES ASSUME NEW c \in Call
               PROVE  /\ status'[c] # "acknowledged" => \A v \in Viewer : acks'[c][v] = "none"
                      /\ status'[c] = "acknowledged" /\ c \notin confirmed =>
                            /\ \E v \in Viewer : acks'[c][v] # "none"
                            /\ \A v \in Viewer :
                                  acks'[c][v] \in {"none", "async_question_answered"}
                      /\ c \in confirmed =>
                            \E v \in Viewer : acks'[c][v] \in {"user_confirmed", "silent_send"}
    BY DEF AcksTellWhoConfirmed, Retractable
  <2>1. /\ status[c] # "acknowledged" => \A v \in Viewer : acks[c][v] = "none"
        /\ status[c] = "acknowledged" /\ c \notin confirmed => Retractable(c)
        /\ c \in confirmed => \E v \in Viewer : acks[c][v] \in {"user_confirmed", "silent_send"}
    BY DEF IInv, AcksTellWhoConfirmed
  <2>2. acks[c] \in [Viewer -> Reason]
    BY <1>1
  <2> QED
    BY <2>1, <2>2, CorrelateOutcome, CallAssumption DEF Retractable
<1>6. ExpiredIsDue'
  BY CorrelateOutcome DEF IInv, ExpiredIsDue
<1>7. HandlingIsStored'
  BY <1>1, CorrelateOutcome DEF IInv, HandlingIsStored, Retractable
<1> QED
  BY <1>2, <1>3, <1>4, <1>5, <1>6, <1>7

-----------------------------------------------------------------------------
(***************************************************************************)
(* One lemma per operation: it keeps the inductive invariant.              *)
(***************************************************************************)
LEMMA RegisterQuestionsStep ==
    ASSUME IInv, NEW c \in Call, RegisterQuestions(c)
    PROVE  IInv'
<1> DEFINE qs == questions \union QuestionsOf(c)
<1>1. Correlate(qs, receipts) /\ c \in handling /\ handling' = handling \ {c}
  BY DEF RegisterQuestions
<1>2. qs \in SUBSET Question /\ receipts \in SUBSET Receipt
  BY DEF IInv, TypeOK, QuestionsOf
<1>3. \A q \in qs : status[CallOf[q]] # "none"
  BY <1>1 DEF IInv, TypeOK, HandlingIsStored, QuestionsOf
<1> HIDE DEF qs
<1>4. /\ status' \in [Call -> Status]
      /\ acks' \in [Call -> [Viewer -> Reason]]
      /\ lastEvent' \in [Call -> Event]
      /\ \A d \in Call : status[d] # "none" => status'[d] # "none"
      /\ \A d \in Call, v \in Viewer : acks'[d][v] # "none" => status'[d] # "none"
  BY <1>1, <1>2, <1>3, CorrelateTypes
<1>5. questions' = qs /\ receipts' = receipts /\ claimed' = {}
  BY <1>1 DEF Correlate
<1>6. TypeOK'
  BY <1>1, <1>2, <1>3, <1>4, <1>5, CallAssumption DEF RegisterQuestions, session, IInv, TypeOK
<1>7. /\ OwnWordsAreFinal' /\ StatusFollowsReceipts' /\ LastEventTellsStatus'
      /\ AcksTellWhoConfirmed' /\ ExpiredIsDue' /\ HandlingIsStored'
  BY <1>1, <1>2, <1>3, CorrelateKeeps DEF RegisterQuestions
<1> QED
  BY <1>6, <1>7 DEF IInv

LEMMA ReportAnswerStep ==
    ASSUME IInv, NEW d \in Delivery, ReportAnswer(d)
    PROVE  IInv'
<1> DEFINE rs == receipts \union content[d]
<1>1. Correlate(questions, rs) /\ UNCHANGED <<session, confirmed, due, handling, crashes>>
  BY DEF ReportAnswer
<1>2. questions \in SUBSET Question /\ rs \in SUBSET Receipt
  BY ReceiptAssumption DEF IInv, TypeOK
<1>3. \A q \in questions : status[CallOf[q]] # "none"
  BY DEF IInv, TypeOK
<1> HIDE DEF rs
<1>4. /\ status' \in [Call -> Status]
      /\ acks' \in [Call -> [Viewer -> Reason]]
      /\ lastEvent' \in [Call -> Event]
      /\ \A c \in Call : status[c] # "none" => status'[c] # "none"
      /\ \A c \in Call, v \in Viewer : acks'[c][v] # "none" => status'[c] # "none"
  BY <1>1, <1>2, <1>3, CorrelateTypes
<1>5. questions' = questions /\ receipts' = rs /\ claimed' = {}
  BY <1>1 DEF Correlate
<1>6. TypeOK'
  BY <1>1, <1>2, <1>3, <1>4, <1>5, CallAssumption DEF ReportAnswer, session, IInv, TypeOK
<1>7. /\ OwnWordsAreFinal' /\ StatusFollowsReceipts' /\ LastEventTellsStatus'
      /\ AcksTellWhoConfirmed' /\ ExpiredIsDue' /\ HandlingIsStored'
  BY <1>1, <1>2, <1>3, CorrelateKeeps
<1> QED
  BY <1>6, <1>7 DEF IInv

\* Publishing again finds the stored notification, so a silent device confirms
\* what is active only.
LEMMA AskStep ==
    ASSUME IInv, NEW c \in Call, NEW silent \in Silent, Ask(c, silent)
    PROVE  IInv'
<1> DEFINE published == IF status[c] = "none" THEN "active" ELSE status[c]
           silences == silent /\ published = "active"
<1>1. /\ handling' = handling \union {c}
      /\ status' = [status EXCEPT ![c] = IF silences THEN "acknowledged" ELSE published]
      /\ acks' = IF silences THEN [acks EXCEPT ![c][Origin] = "silent_send"] ELSE acks
      /\ lastEvent' = [lastEvent EXCEPT ![c] =
            IF silences THEN "acknowledged"
            ELSE IF status[c] = "none" THEN "created" ELSE lastEvent[c]]
      /\ confirmed' = IF silences THEN confirmed \union {c} ELSE confirmed
      /\ UNCHANGED <<session, claimed, due, questions, receipts, reported, crashes>>
  BY DEF Ask, IInv, TypeOK
<1>2. /\ status \in [Call -> Status]
      /\ acks \in [Call -> [Viewer -> Reason]]
      /\ lastEvent \in [Call -> Event]
      /\ confirmed \subseteq Call /\ handling \subseteq Call
      /\ CallOf \in [Question -> Call] /\ questions \subseteq Question
  BY CallAssumption DEF IInv, TypeOK
<1>3. /\ status'[c] \in {"acknowledged", published} /\ status'[c] # "none"
      /\ \A d \in Call \ {c} : /\ status'[d] = status[d]
                               /\ lastEvent'[d] = lastEvent[d]
                               /\ acks'[d] = acks[d]
  BY <1>1, <1>2
<1>4. /\ silences => /\ status[c] \in {"none", "active"}
                     /\ status'[c] = "acknowledged" /\ lastEvent'[c] = "acknowledged"
                     /\ acks'[c] = [acks[c] EXCEPT ![Origin] = "silent_send"]
                     /\ confirmed' = confirmed \union {c}
      /\ ~silences => /\ status'[c] = published
                      /\ lastEvent'[c] = IF status[c] = "none" THEN "created" ELSE lastEvent[c]
                      /\ acks' = acks /\ confirmed' = confirmed
  BY <1>1, <1>2
<1>5. [acks[c] EXCEPT ![Origin] = "silent_send"] \in [Viewer -> Reason]
  BY <1>2 DEF Reason
<1>6. status' \in [Call -> Status] /\ lastEvent' \in [Call -> Event]
      /\ acks' \in [Call -> [Viewer -> Reason]]
  <2>1. published \in Status
    BY <1>2 DEF Status
  <2> QED
    BY <2>1, <1>1, <1>2, <1>5 DEF Status, Event, Reason
<1> HIDE DEF published, silences
<1>7. TypeOK'
  <2>1. \A q \in questions : status'[CallOf[q]] # "none"
    BY <1>2, <1>3 DEF IInv, TypeOK
  <2>2. \A d \in Call, v \in Viewer : acks'[d][v] # "none" => status'[d] # "none"
    BY <1>3 DEF IInv, TypeOK
  <2> QED
    BY <1>1, <1>2, <1>6, <2>1, <2>2 DEF session, IInv, TypeOK
<1>8. OwnWordsAreFinal'
  BY <1>2, <1>3, <1>4 DEF IInv, OwnWordsAreFinal, published
<1>9. StatusFollowsReceipts'
  <2>1. \A d \in Call : FullyAnswered(d, questions, receipts)' <=>
                           FullyAnswered(d, questions, receipts)
    BY <1>1 DEF FullyAnswered, Answered, Meant, session
  <2>2. \A d \in Call : Registered(d, questions)' <=> Registered(d, questions)
    BY <1>1 DEF Registered
  <2>3. \A d \in Call : Registered(d, questions) => status[d] # "none"
    BY <1>2 DEF IInv, TypeOK, Registered, QuestionsOf
  <2>4. SUFFICES ASSUME NEW d \in Call, Registered(d, questions), d \notin due \union claimed,
                        d \notin confirmed'
                 PROVE  (status'[d] = "acknowledged") <=> FullyAnswered(d, questions, receipts)
    BY <1>1, <2>1, <2>2 DEF StatusFollowsReceipts, FullyAnswered
  <2>5. status'[d] = status[d] /\ d \notin confirmed
    BY <1>1, <1>3, <1>4, <2>3, <2>4 DEF published
  <2> QED
    BY <2>4, <2>5 DEF IInv, StatusFollowsReceipts
<1>10. LastEventTellsStatus'
  BY <1>3, <1>4 DEF IInv, LastEventTellsStatus, published
<1>11. AcksTellWhoConfirmed'
  <2> SUFFICES ASSUME NEW d \in Call
               PROVE  /\ status'[d] # "acknowledged" => \A v \in Viewer : acks'[d][v] = "none"
                      /\ status'[d] = "acknowledged" /\ d \notin confirmed' =>
                            /\ \E v \in Viewer : acks'[d][v] # "none"
                            /\ \A v \in Viewer :
                                  acks'[d][v] \in {"none", "async_question_answered"}
                      /\ d \in confirmed' =>
                            \E v \in Viewer : acks'[d][v] \in {"user_confirmed", "silent_send"}
    BY DEF AcksTellWhoConfirmed, Retractable
  <2>1. /\ status[d] # "acknowledged" => \A v \in Viewer : acks[d][v] = "none"
        /\ status[d] = "acknowledged" /\ d \notin confirmed => Retractable(d)
        /\ d \in confirmed => \E v \in Viewer : acks[d][v] \in {"user_confirmed", "silent_send"}
    BY DEF IInv, AcksTellWhoConfirmed
  <2>2. CASE d # c
    BY <2>1, <2>2, <1>3, <1>4 DEF Retractable
  <2>3. CASE d = c /\ silences
    BY <2>3, <1>2, <1>4, CallAssumption
  <2>4. CASE d = c /\ ~silences
    BY <2>1, <2>4, <1>4 DEF Retractable, published
  <2> QED
    BY <2>2, <2>3, <2>4
<1>12. ExpiredIsDue'
  BY <1>1, <1>3, <1>4 DEF IInv, ExpiredIsDue, published
<1>13. HandlingIsStored'
  BY <1>1, <1>2, <1>3 DEF IInv, HandlingIsStored
<1> QED
  BY <1>7, <1>8, <1>9, <1>10, <1>11, <1>12, <1>13 DEF IInv

\* What the receipts say does not change while the questions and receipts do not.
LEMMA MatchingUnchanged ==
    ASSUME UNCHANGED <<session, questions, receipts>>, NEW c \in Call
    PROVE  /\ FullyAnswered(c, questions, receipts)' <=> FullyAnswered(c, questions, receipts)
           /\ Registered(c, questions)' <=> Registered(c, questions)
BY DEF FullyAnswered, Answered, Meant, Registered, session

LEMMA AcknowledgeStep ==
    ASSUME IInv, NEW v \in Viewer, NEW c \in Call, NEW said \in Said, Acknowledge(v, c, said)
    PROVE  IInv'
<1>1. /\ status[c] # "none"
      /\ acks' = [acks EXCEPT ![c][v] = Upsert(v, acks[c], said)]
      /\ status' = [status EXCEPT ![c] = "acknowledged"]
      /\ lastEvent' = [lastEvent EXCEPT ![c] =
            IF AlreadyAcknowledged(c) THEN lastEvent[c] ELSE "acknowledged"]
      /\ said # "async_question_answered" =>
            confirmed' = confirmed \union {c} /\ claimed' = claimed
      /\ said = "async_question_answered" =>
            confirmed' = confirmed /\ claimed' = claimed \union {c}
      /\ UNCHANGED <<session, due, questions, receipts, handling, reported, crashes>>
  BY DEF Acknowledge, IInv, TypeOK
<1>2. /\ status \in [Call -> Status]
      /\ acks \in [Call -> [Viewer -> Reason]]
      /\ lastEvent \in [Call -> Event]
      /\ confirmed \subseteq Call /\ handling \subseteq Call
      /\ CallOf \in [Question -> Call] /\ questions \subseteq Question
  BY CallAssumption DEF IInv, TypeOK
<1>3. /\ Upsert(v, acks[c], said) \in Reason \ {"none"}
      /\ said # "async_question_answered" =>
            Upsert(v, acks[c], said) \in {"user_confirmed", "silent_send"}
      /\ said = "async_question_answered" =>
            Upsert(v, acks[c], said) =
               IF acks[c][v] \in {"none", "async_question_answered"}
               THEN "async_question_answered" ELSE acks[c][v]
  BY <1>2 DEF Upsert, Reason, Said
<1>4. /\ status'[c] = "acknowledged"
      /\ acks'[c] = [acks[c] EXCEPT ![v] = Upsert(v, acks[c], said)]
      /\ lastEvent'[c] = "acknowledged"
      /\ \A d \in Call \ {c} : /\ status'[d] = status[d]
                               /\ lastEvent'[d] = lastEvent[d]
                               /\ acks'[d] = acks[d]
  BY <1>1, <1>2 DEF IInv, LastEventTellsStatus, AlreadyAcknowledged
<1>5. /\ status' \in [Call -> Status] /\ lastEvent' \in [Call -> Event]
      /\ acks' \in [Call -> [Viewer -> Reason]]
  BY <1>1, <1>2, <1>3 DEF Status, Event, Reason
<1>6. TypeOK'
  <2>1. \A q \in questions : status'[CallOf[q]] # "none"
    BY <1>2, <1>4 DEF IInv, TypeOK
  <2>2. \A d \in Call, w \in Viewer : acks'[d][w] # "none" => status'[d] # "none"
    BY <1>4 DEF IInv, TypeOK
  <2> QED
    BY <1>1, <1>2, <1>5, <2>1, <2>2 DEF session, IInv, TypeOK
<1>7. OwnWordsAreFinal'
  BY <1>1, <1>2, <1>4 DEF IInv, OwnWordsAreFinal
<1>8. StatusFollowsReceipts'
  BY <1>1, <1>4, MatchingUnchanged DEF IInv, StatusFollowsReceipts, FullyAnswered
<1>9. LastEventTellsStatus'
  BY <1>4 DEF IInv, LastEventTellsStatus
<1>10. AcksTellWhoConfirmed'
  <2> SUFFICES ASSUME NEW d \in Call
               PROVE  /\ status'[d] # "acknowledged" => \A w \in Viewer : acks'[d][w] = "none"
                      /\ status'[d] = "acknowledged" /\ d \notin confirmed' =>
                            /\ \E w \in Viewer : acks'[d][w] # "none"
                            /\ \A w \in Viewer :
                                  acks'[d][w] \in {"none", "async_question_answered"}
                      /\ d \in confirmed' =>
                            \E w \in Viewer : acks'[d][w] \in {"user_confirmed", "silent_send"}
    BY DEF AcksTellWhoConfirmed, Retractable
  <2>1. CASE d # c
    BY <2>1, <1>1, <1>4 DEF IInv, AcksTellWhoConfirmed, Retractable
  <2>2. CASE d = c /\ said # "async_question_answered"
    <3>1. acks'[c][v] \in {"user_confirmed", "silent_send"}
      BY <1>2, <1>3, <1>4, <2>2
    <3> QED
      BY <2>2, <3>1, <1>1, <1>4
  <2>3. CASE d = c /\ said = "async_question_answered"
    <3>1. /\ acks'[c][v] = IF acks[c][v] \in {"none", "async_question_answered"}
                           THEN "async_question_answered" ELSE acks[c][v]
          /\ \A w \in Viewer \ {v} : acks'[c][w] = acks[c][w]
      BY <1>2, <1>3, <1>4, <2>3
    <3>2. confirmed' = confirmed /\ status'[c] = "acknowledged"
      BY <1>1, <1>4, <2>3
    <3>3. /\ c \notin confirmed =>
                \A w \in Viewer : acks[c][w] \in {"none", "async_question_answered"}
          /\ c \in confirmed =>
                \E w \in Viewer : acks[c][w] \in {"user_confirmed", "silent_send"}
      BY DEF IInv, AcksTellWhoConfirmed, Retractable
    <3> QED
      BY <2>3, <3>1, <3>2, <3>3
  <2> QED
    BY <2>1, <2>2, <2>3
<1>11. ExpiredIsDue' /\ HandlingIsStored'
  BY <1>1, <1>2, <1>4 DEF IInv, ExpiredIsDue, HandlingIsStored
<1> QED
  BY <1>6, <1>7, <1>8, <1>9, <1>10, <1>11 DEF IInv

LEMMA ExpireStep ==
    ASSUME IInv, ExpireDueNotifications
    PROVE  IInv'
<1>1. /\ \A c \in Call : /\ status'[c] = IF Expires(c) THEN "expired" ELSE status[c]
                         /\ lastEvent'[c] = IF Expires(c) THEN "expired" ELSE lastEvent[c]
      /\ UNCHANGED <<session, acks, confirmed, claimed, due, questions, receipts, handling,
                     reported, crashes>>
  BY DEF ExpireDueNotifications, confirmations
<1>2. /\ status \in [Call -> Status]
      /\ lastEvent \in [Call -> Event]
      /\ confirmed \subseteq Call /\ handling \subseteq Call
      /\ CallOf \in [Question -> Call] /\ questions \subseteq Question
  BY CallAssumption DEF IInv, TypeOK
<1>3. status' \in [Call -> Status] /\ lastEvent' \in [Call -> Event]
  BY <1>2 DEF ExpireDueNotifications, Status, Event
<1>4. TypeOK'
  BY <1>1, <1>2, <1>3 DEF session, IInv, TypeOK, Expires
<1>5. OwnWordsAreFinal' /\ LastEventTellsStatus'
  BY <1>1, <1>2 DEF IInv, OwnWordsAreFinal, LastEventTellsStatus, Expires
<1>6. StatusFollowsReceipts'
  BY <1>1, MatchingUnchanged DEF IInv, StatusFollowsReceipts, Expires, FullyAnswered
<1>7. AcksTellWhoConfirmed'
  BY <1>1 DEF IInv, AcksTellWhoConfirmed, Retractable, Expires
<1>8. ExpiredIsDue' /\ HandlingIsStored'
  BY <1>1, <1>2 DEF IInv, ExpiredIsDue, HandlingIsStored, Expires
<1> QED
  BY <1>4, <1>5, <1>6, <1>7, <1>8 DEF IInv

\* Time, crashes and stuttering leave the tables alone.
LEMMA TablesUnchangedStep ==
    ASSUME IInv, UNCHANGED <<session, notification, confirmations, questions, receipts, reported>>,
           due \subseteq due', due' \subseteq Call,
           handling' \subseteq handling, crashes' \in 0 .. MaxCrashes
    PROVE  IInv'
<1>1. TypeOK'
  BY DEF session, notification, confirmations, IInv, TypeOK
<1>2. StatusFollowsReceipts'
  BY MatchingUnchanged DEF notification, confirmations, IInv, StatusFollowsReceipts, FullyAnswered
<1>3. OwnWordsAreFinal' /\ LastEventTellsStatus' /\ ExpiredIsDue' /\ HandlingIsStored'
  BY DEF notification, confirmations, IInv, OwnWordsAreFinal, LastEventTellsStatus, ExpiredIsDue,
     HandlingIsStored
<1>4. AcksTellWhoConfirmed'
  BY DEF notification, confirmations, IInv, AcksTellWhoConfirmed, Retractable
<1> QED
  BY <1>1, <1>2, <1>3, <1>4 DEF IInv

-----------------------------------------------------------------------------
LEMMA InitInv == Init => IInv
<1> SUFFICES ASSUME Init PROVE IInv
  OBVIOUS
<1>1. TypeOK
  BY ReceiptAssumption DEF Init, TypeOK, Status, Reason, Event
<1>2. StatusFollowsReceipts
  BY DEF Init, StatusFollowsReceipts, Registered
<1> QED
  BY <1>1, <1>2 DEF Init, IInv, OwnWordsAreFinal, LastEventTellsStatus,
     AcksTellWhoConfirmed, ExpiredIsDue, HandlingIsStored

LEMMA NextInv == IInv /\ [Next]_vars => IInv'
<1> SUFFICES ASSUME IInv, [Next]_vars PROVE IInv'
  OBVIOUS
<1>0. due \subseteq Call /\ crashes \in 0 .. MaxCrashes /\ MaxCrashes \in Nat
  BY ReceiptAssumption DEF IInv, TypeOK
<1>1. ASSUME NEW c \in Call, NEW silent \in Silent, Ask(c, silent) PROVE IInv'
  BY <1>1, AskStep
<1>2. ASSUME NEW c \in Call, RegisterQuestions(c) PROVE IInv'
  BY <1>2, RegisterQuestionsStep
<1>3. ASSUME NEW c \in Call, Overdue(c) PROVE IInv'
  BY <1>0, <1>3, TablesUnchangedStep DEF Overdue
<1>4. ASSUME NEW d \in Delivery, ReportAnswer(d) PROVE IInv'
  BY <1>4, ReportAnswerStep
<1>5. ASSUME NEW v \in Viewer, NEW c \in Call, NEW said \in Said, Acknowledge(v, c, said)
      PROVE  IInv'
  BY <1>5, AcknowledgeStep
<1>6. CASE ExpireDueNotifications
  BY <1>6, ExpireStep
<1>7. CASE Crash
  <2>1. crashes' \in 0 .. MaxCrashes
    BY <1>0, <1>7 DEF Crash
  <2> QED
    BY <1>0, <1>7, <2>1, TablesUnchangedStep DEF Crash
<1>8. CASE UNCHANGED vars
  BY <1>0, <1>8, TablesUnchangedStep DEF vars
<1> QED
  BY <1>1, <1>2, <1>3, <1>4, <1>5, <1>6, <1>7, <1>8 DEF Next

\* The inductive invariant holds in every reachable state.
THEOREM Invariance == Spec => []IInv
BY InitInv, NextInv, PTL DEF Spec

\* The tables keep their types and foreign keys.
THEOREM TypeCorrectness == Spec => []TypeOK
<1>1. IInv => TypeOK
  BY DEF IInv
<1> QED
  BY <1>1, Invariance, PTL

\* No later question or answer undoes what a client confirmed in its own words
\* or a silent device confirmed, whoever else confirms under the server's reason.
THEOREM OwnWordsPrevail == Spec => []OwnWordsAreFinal
<1>1. IInv => OwnWordsAreFinal
  BY DEF IInv
<1> QED
  BY <1>1, Invariance, PTL

\* In whatever order questions and answers arrive, are repeated or cut short, a
\* notification nobody confirmed is closed exactly when all its known
\* questions have an unambiguous receipt.
THEOREM StatusTellsReceipts == Spec => []StatusFollowsReceipts
<1>1. IInv => StatusFollowsReceipts
  BY DEF IInv
<1> QED
  BY <1>1, Invariance, PTL

\* The last event about a notification tells its status.
THEOREM EventsTellStatus == Spec => []LastEventTellsStatus
<1>1. IInv => LastEventTellsStatus
  BY DEF IInv
<1> QED
  BY <1>1, Invariance, PTL
=============================================================================
