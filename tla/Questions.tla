------------------------------- MODULE Questions -------------------------------
(***************************************************************************)
(* The questions that ask_user_question puts to the user: the table of     *)
(* pending questions and its rows in the log (apps/studio/src              *)
(* question-registry.ts, user-questions.ts, question-view.ts), the frames  *)
(* that announce them (StudioBus), and the cards of one browser page that  *)
(* shows, counts down, answers and recovers them (apps/web/src/ui).        *)
(*                                                                         *)
(* A question is a number in the order of asking; its id is what the       *)
(* registry gave it.  The page has one event stream for every session; its *)
(* pane of the session Shown is modelled, the others do the same.          *)
(* Time is the order in which the server's timer and the countdown of a    *)
(* card expire, so the two clocks agree on nothing.                        *)
(***************************************************************************)
EXTENDS StudioBus, FiniteSets

CONSTANTS
    Sessions,
    Shown,        \* the session whose pane is modelled
    MaxAsks,      \* bound: questions asked
    MaxLists,     \* bound: lists in flight when the user opens the session again
    MaxTroubles   \* bound: restarts, reloads, losses of the stream or of a request

ASSUME QuestionsAssumption ==
    Shown \in Sessions /\ MaxAsks \in Nat /\ MaxLists \in Nat /\ MaxTroubles \in Nat

Asks == 1..MaxAsks
Ids == 1..MaxAsks

VARIABLES
    counter,   \* QuestionRegistry.counter
    asks,      \* the questions in the order of asking, and how each one ended
    log,       \* the question and answer rows of the session Shown
    buckets,   \* the frames on their way to the page
    online     \* is the page subscribed?

server == <<counter, asks, log>>

VARIABLES
    cards,     \* [Ids -> the card registered under an id, or NoCard]
    view,      \* "closed", "loading" or "shown"
    fetched,   \* the history read while loading
    lists,     \* the requests for the pending questions in flight
    posts,     \* the answers in flight
    missed     \* were frames or a list lost that nothing makes up for?

page == <<cards, view, fetched, lists, posts, missed>>

VARIABLE troubles
vars == <<server, buckets, online, page, troubles>>

Trouble == troubles < MaxTroubles /\ troubles' = troubles + 1

-----------------------------------------------------------------------------
(* The pending table. *)

Question(s, id) == [session |-> s, id |-> id, state |-> "parked", by |-> 0]
Parked(k) == k \in DOMAIN asks /\ asks[k].state = "parked"
(* mutant: the id is minted without advancing the counter *)
NextRequestIdStays == Max({1, counter})
NextRequestId == counter + 1

(* mutant: the guard on the session is skipped (W9206-32) *)
AcceptsAny(post, k) == Parked(k) /\ asks[k].id = post.id
(* QuestionView.answer: the question of that id, unless another session asked. *)
Accepts(post, k) == Parked(k) /\ asks[k].id = post.id /\ asks[k].session = Shown

Row(kind, id, k) == [kind |-> kind, id |-> id, ask |-> k]

(* Nobody waits for the reply to an answer whose card is gone. *)
Replied(post, reply) ==
    (posts \ {post}) \cup (IF post.live THEN {[post EXCEPT !.stage = reply]} ELSE {})

Settle(k, how, by) ==
    /\ asks' = [asks EXCEPT ![k].state = how, ![k].by = by]
    /\ log' = IF asks[k].session = Shown THEN Append(log, Row(how, asks[k].id, k)) ELSE log
    /\ UNCHANGED counter

-----------------------------------------------------------------------------
(* Cards. *)

NoCard == [ask |-> 0, state |-> "none", settled |-> FALSE]
Card(k, state, settled) == [ask |-> k, state |-> state, settled |-> settled]
NoCards == [i \in Ids |-> NoCard]

(* renderQuestionCard and recoverQuestions: refresh the card or make one. *)
Refreshed(card, k) ==
    IF card = NoCard THEN Card(k, "pending", FALSE)
    ELSE IF card.state = "expired" /\ ~card.settled THEN [card EXCEPT !.state = "pending"]
    ELSE card

RefreshedAll(open) ==
    [i \in Ids |-> IF \E k \in open : asks[k].id = i
                   THEN Refreshed(cards[i], CHOOSE k \in open : asks[k].id = i)
                   ELSE cards[i]]

(* renderHistoryQuestionCard over historyQuestionsOf: of the rows of one id the
   first question counts, and the last answer after it. *)
HistoryCard(rows, i) ==
    LET asked == {n \in DOMAIN rows : rows[n].id = i /\ rows[n].kind = "asked"}
        first == Min(asked)
        ends == {n \in DOMAIN rows : rows[n].id = i /\ rows[n].kind # "asked" /\ n > first}
    IN IF asked = {} THEN NoCard
       ELSE IF ends = {} THEN Card(rows[first].ask, "expired", FALSE)
       ELSE IF rows[Max(ends)].kind = "timed_out" THEN Card(rows[first].ask, "expired", TRUE)
       ELSE Card(rows[first].ask, "done", TRUE)

(* mutant: a refusal leaves the optimistic card as it is *)
AfterReplyOptimistic(card, reply) ==
    IF reply = "failed" THEN [card EXCEPT !.state = "pending", !.settled = FALSE] ELSE card
(* submit: the card is drawn as answered at once, and the reply may take it back. *)
AfterReply(card, reply) ==
    CASE reply = "ok" -> card
      [] reply = "refused" -> [card EXCEPT !.state = "closed", !.settled = TRUE]
      [] reply = "failed" -> [card EXCEPT !.state = "pending", !.settled = FALSE]

LivePost(i) == \E p \in posts : p.live /\ p.id = i

Unserved == [served |-> FALSE, open |-> {}]
Served(open) == [served |-> TRUE, open |-> open]

(* mutant: recoverQuestions does not ask *)
RequestListNever == lists
RequestList == lists \cup {Unserved}

-----------------------------------------------------------------------------
Init ==
    /\ counter = 0 /\ asks = <<>> /\ log = <<>>
    /\ buckets = EmptyBuckets /\ online = TRUE
    /\ cards = NoCards /\ view = "shown" /\ fetched = <<>>
    /\ lists = {} /\ posts = {} /\ missed = FALSE
    /\ troubles = 0

(* StudioBus.emit: an overflow takes the frames of its own session only. *)
Emit(frame) ==
    IF online
    THEN /\ buckets' = Push(buckets, frame)
         /\ missed' = (missed \/ (frame.session = Shown /\ Overflows(buckets, Shown)))
    ELSE UNCHANGED <<buckets, missed>>

(* HostUserQuestions.park: register, arm the timer, publish, record. *)
AskUser(s) ==
    LET k == Len(asks) + 1
        id == NextRequestId
    IN /\ Len(asks) < MaxAsks
       /\ counter' = id
       /\ asks' = Append(asks, Question(s, id))
       /\ log' = IF s = Shown THEN Append(log, Row("asked", id, k)) ELSE log
       /\ Emit([session |-> s, kind |-> "question", n |-> k])
       /\ UNCHANGED <<online, cards, view, fetched, lists, posts, troubles>>

(* Any other frame of a session: text, tools, status. *)
EmitOther(s) ==
    /\ online
    /\ Emit([session |-> s, kind |-> "other", n |-> 0])
    /\ UNCHANGED <<server, online, cards, view, fetched, lists, posts, troubles>>

(* PendingQuestion.timeout; the service records it and unregisters. *)
TimeOut(k) ==
    /\ Parked(k)
    /\ Settle(k, "timed_out", 0)
    /\ UNCHANGED <<buckets, online, page, troubles>>

(* POST /api/questions/{id}/answer; the parked call resumes with the answer. *)
AnswerArrives(p) ==
    /\ p.stage = "sent"
    /\ \/ \E k \in Asks : /\ Accepts(p, k)
                          /\ Settle(k, "answered", p.ask)
                          /\ posts' = Replied(p, "ok")
       \/ /\ ~ \E k \in Asks : Accepts(p, k)
          /\ posts' = Replied(p, "refused")
          /\ UNCHANGED server
    /\ UNCHANGED <<buckets, online, cards, view, fetched, lists, missed, troubles>>

(* The process dies with its table, its counter and what it was about to answer. *)
Restart ==
    /\ Trouble
    /\ counter' = 0
    /\ asks' = [k \in DOMAIN asks |->
                  IF Parked(k) THEN [asks[k] EXCEPT !.state = "lost"] ELSE asks[k]]
    /\ posts' = {IF p.stage = "sent" THEN [p EXCEPT !.stage = "failed"] ELSE p :
                   p \in {q \in posts : q.live}}
    /\ buckets' = EmptyBuckets /\ online' = FALSE
    /\ UNCHANGED <<log, cards, view, fetched, lists, missed>>

-----------------------------------------------------------------------------
(* The page. *)

SetCard(i, card) == cards' = [cards EXCEPT ![i] = card]

(* streamSSE writes the head of the queue; the page handles it. *)
Deliver ==
    LET frame == Head(buckets.frames)
    IN /\ buckets.frames # <<>>
       /\ buckets' = Shift(buckets)
       /\ IF frame.kind = "question" /\ frame.session = Shown
          THEN SetCard(asks[frame.n].id, Refreshed(cards[asks[frame.n].id], frame.n))
          ELSE UNCHANGED cards
       /\ UNCHANGED <<server, online, view, fetched, lists, posts, missed, troubles>>

ConnectionLost ==
    /\ online /\ Trouble
    /\ online' = FALSE /\ buckets' = EmptyBuckets
    /\ UNCHANGED <<server, page>>

(* The stream is open again: recoverAllQuestions, if the pane exists. *)
Reconnect ==
    /\ ~online
    /\ online' = TRUE /\ buckets' = EmptyBuckets
    /\ \/ /\ view # "closed" \/ cards # NoCards
          /\ lists' = RequestList /\ missed' = FALSE
       \/ /\ view = "closed" /\ cards = NoCards
          /\ UNCHANGED <<lists, missed>>
    /\ UNCHANGED <<server, cards, view, fetched, posts, troubles>>

(* GET /api/questions: the table as it is when the request is served.  A list
   without a question changes nothing when it arrives and is left out. *)
ListIsServed ==
    LET open == {k \in Asks : Parked(k) /\ asks[k].session = Shown}
    IN /\ Unserved \in lists
       /\ lists' = (lists \cup {Served(open)}) \ {Unserved, Served({})}
       /\ UNCHANGED <<server, buckets, online, cards, view, fetched, posts, missed, troubles>>

ListArrives(request) ==
    /\ request.served
    /\ lists' = lists \ {request}
    /\ cards' = RefreshedAll(request.open)
    /\ UNCHANGED <<server, buckets, online, view, fetched, posts, missed, troubles>>

(* recoverQuestions gives up silently: nothing asks again. *)
ListFails(request) ==
    /\ Trouble
    /\ lists' = lists \ {request}
    /\ missed' = TRUE
    /\ UNCHANGED <<server, buckets, online, cards, view, fetched, posts>>

(* The countdown of a card, by the clock of the page. *)
CountdownEnds(i) ==
    /\ cards[i].state = "pending"
    /\ SetCard(i, [cards[i] EXCEPT !.state = "expired"])
    /\ UNCHANGED <<server, buckets, online, view, fetched, lists, posts, missed, troubles>>

Submit(i) ==
    /\ cards[i].state = "pending"
    /\ SetCard(i, [cards[i] EXCEPT !.state = "done", !.settled = TRUE])
    /\ posts' = posts \cup {[id |-> i, ask |-> cards[i].ask, stage |-> "sent", live |-> TRUE]}
    /\ UNCHANGED <<server, buckets, online, view, fetched, lists, missed, troubles>>

PostFails(p) ==
    /\ p.stage # "failed" /\ Trouble
    /\ posts' = Replied(p, "failed")
    /\ UNCHANGED <<server, buckets, online, cards, view, fetched, lists, missed>>

(* The reply reaches the card that was submitted. *)
ReplyArrives(p) ==
    /\ p.stage # "sent"
    /\ posts' = posts \ {p}
    /\ SetCard(p.id, AfterReply(cards[p.id], p.stage))
    /\ UNCHANGED <<server, buckets, online, view, fetched, lists, missed, troubles>>

(* The cards go; the answers sent from them do not come back to any other. *)
Orphaned == {[p EXCEPT !.live = FALSE] : p \in {q \in posts : q.stage = "sent"}}

Reload ==
    /\ Trouble
    /\ cards' = NoCards /\ view' = "closed" /\ fetched' = <<>>
    /\ lists' = {} /\ missed' = FALSE /\ posts' = Orphaned
    /\ online' = FALSE /\ buckets' = EmptyBuckets
    /\ UNCHANGED server

(* openSession: fetch the history of a pane that has none yet ... *)
OpenSession ==
    /\ view = "closed"
    /\ view' = "loading" /\ fetched' = log
    /\ UNCHANGED <<server, buckets, online, cards, lists, posts, missed, troubles>>

(* ... or ask for the pending questions only, when its history is there or its
   turn is streaming. *)
OpenAgain ==
    /\ view # "loading" /\ Cardinality(lists) < MaxLists
    /\ view' = "shown"
    /\ lists' = RequestList /\ missed' = FALSE
    /\ UNCHANGED <<server, buckets, online, cards, fetched, posts, troubles>>

(* restoreSessionHistory replaces what the pane shows, then asks for the list. *)
HistoryArrives ==
    /\ view = "loading"
    /\ view' = "shown" /\ fetched' = <<>>
    /\ cards' = [i \in Ids |-> HistoryCard(fetched, i)]
    /\ posts' = Orphaned
    /\ lists' = RequestList /\ missed' = FALSE
    /\ UNCHANGED <<server, buckets, online, troubles>>

(* The turn began to stream meanwhile, or the request failed: nothing is asked. *)
HistoryDropped ==
    /\ view = "loading"
    /\ view' = "closed" /\ fetched' = <<>>
    /\ UNCHANGED <<server, buckets, online, cards, lists, posts, missed, troubles>>

Next ==
    \/ Restart \/ Deliver \/ ConnectionLost \/ Reconnect \/ Reload
    \/ OpenSession \/ OpenAgain \/ HistoryArrives \/ HistoryDropped \/ ListIsServed
    \/ \E s \in Sessions : AskUser(s) \/ EmitOther(s)
    \/ \E k \in Asks : TimeOut(k)
    \/ \E p \in posts : AnswerArrives(p) \/ PostFails(p) \/ ReplyArrives(p)
    \/ \E request \in lists : ListArrives(request) \/ ListFails(request)
    \/ \E i \in Ids : CountdownEnds(i) \/ Submit(i)

Spec == Init /\ [][Next]_vars

-----------------------------------------------------------------------------
(* Types, and two pending questions never have one id: the loud failure of
   QuestionRegistry.add (question-registry.ts:226) is out of reach. *)
TypeOK ==
    /\ counter \in 0..MaxAsks
    /\ \A k \in DOMAIN asks :
         /\ asks[k].session \in Sessions /\ asks[k].id \in Ids /\ asks[k].by \in 0..MaxAsks
         /\ asks[k].state \in {"parked", "answered", "timed_out", "lost"}
    /\ \A j, k \in Asks : Parked(j) /\ Parked(k) /\ asks[j].id = asks[k].id => j = k
    /\ online \in BOOLEAN
    /\ \A i \in Ids :
         /\ cards[i].ask \in 0..Len(asks)
         /\ cards[i].state \in {"none", "pending", "done", "expired", "closed"}
         /\ cards[i].state \in {"done", "closed"} => cards[i].settled

(* No other question of the session has the id of this one: the counter starts
   again with the process (question-registry.ts:217), so ids come back. *)
OnlyOne(k) ==
    \A j \in DOMAIN asks :
        asks[j].session = asks[k].session /\ asks[j].id = asks[k].id => j = k

(* An answer settles a question of the session on whose card it was given, also
   when ids have started again (question-view.ts:58-65, W9206-32). *)
AnswerStaysInSession ==
    \A k \in DOMAIN asks :
        asks[k].state = "answered" => asks[asks[k].by].session = asks[k].session

(* The answer to a question was given on the card that shows that question.
   After a restart it is not: "that question can no longer be answered"
   (card.ts:361, format.ts:271). *)
AnswerIsForItsQuestion ==
    \A k \in DOMAIN asks : asks[k].state = "answered" => asks[k].by = k

(* A question that waits for its user is on the page that shows its session, or
   its frame or a list with it is on the way, whatever was lost and reloaded;
   except after an overflow of its own session or a failed list, for which the
   page does nothing more (chat.ts:217, card.ts:341). *)
ShowsQuestion(k) ==
    LET card == cards[asks[k].id]
    IN card.ask = k /\ card.state \in {"pending", "expired", "done"}
OnItsWay(k) ==
    \/ \E i \in DOMAIN buckets.frames :
         buckets.frames[i].kind = "question" /\ buckets.frames[i].n = k
    \/ Unserved \in lists
    \/ \E request \in lists : k \in request.open
PendingHasCard ==
    online /\ view = "shown" /\ ~missed =>
        \A k \in DOMAIN asks :
            Parked(k) /\ asks[k].session = Shown /\ OnlyOne(k) =>
                ShowsQuestion(k) \/ OnItsWay(k)

(* A card drawn as answered is, once no reply is outstanding, the card of an
   answered question, and one drawn as closed belongs to a question that waits
   no more, however answers, time-outs, reloads and lost replies interleave. *)
CardTellsTruth ==
    \A i \in Ids :
        LET card == cards[i]
        IN card # NoCard /\ ~LivePost(i) /\ OnlyOne(card.ask) =>
               /\ card.state = "done" => asks[card.ask].state = "answered"
               /\ card.state = "closed" => asks[card.ask].state # "parked"

(* What one session emits never costs another session its frames, and a session
   that loses its own gets a marker that counts them (sse.ts:10-14). *)
IsolatedOverflow ==
    [][ online /\ online' /\ ~Deliver =>
          \A s \in Sessions :
              \/ IsPrefix(OwnFrames(buckets, s), OwnFrames(buckets', s))
              \/ /\ OwnFrames(buckets', s) =
                      << LaggedMarker(s, Len(OwnFrames(buckets, s)) + 1) >>
                 /\ \A t \in Sessions \ {s} : OwnFrames(buckets', t) = OwnFrames(buckets, t) ]_vars
=============================================================================
