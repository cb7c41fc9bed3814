----------------------------- MODULE ChatStream -----------------------------
(***************************************************************************)
(* The chat page of frontend-angular (chat.ts) on top of StreamChannel: a  *)
(* message opens an EventSource and a POST at the same time, the frames of *)
(* the stream and the answer to the POST arrive in any order, and all that *)
(* the handlers know of the page is its last bubble.                       *)
(*                                                                         *)
(* The bubbles that can be last are, per message, the assistant bubble of  *)
(* its reply and the one with the outcome of its approval card.            *)
(***************************************************************************)
EXTENDS StreamChannel

CONSTANT None  \* no bubble yet

VARIABLES text,     \* what each bubble shows
          card,     \* the approval card of each bubble
          last,     \* the last bubble of `messages`
          loading   \* a POST is outstanding

pageVars == <<text, card, last, loading>>
vars == <<streamVars, pageVars>>

Bubbles == Messages \X {"reply", "outcome"}
ReplyTo(m) == <<m, "reply">>
OutcomeOf(m) == <<m, "outcome">>

ASSUME NoneAssumption == None \notin Bubbles

\* A bubble's text, piece by piece.
TokenPiece(m, t) == [what |-> "token", of |-> m, token |-> t]
Note(what, m) == [what |-> what, of |-> m]
Piece ==
    [what : {"token"}, of : Messages, token : Token]
        \cup [what : {"answer", "failure", "interrupted", "outcome"}, of : Messages]

TypeOK ==
    /\ StreamTypeOK
    /\ text \in [Bubbles -> Seq(Piece)]
    /\ card \in [Bubbles -> {"none", "open", "resolved"}]
    /\ last \in Bubbles \cup {None}
    /\ loading \in BOOLEAN

Init ==
    /\ StreamInit
    /\ text = [b \in Bubbles |-> <<>>]
    /\ card = [b \in Bubbles |-> "none"]
    /\ last = None
    /\ loading = FALSE

-----------------------------------------------------------------------------
(* The event handlers of the page.                                         *)

pendingHitl == \E b \in Bubbles : card[b] = "open"

IsNext(m) == graph[m] = "none" /\ \A k \in 1..(m - 1) : graph[k] # "none"

\* The placeholder bubble, the EventSource and the POST.
Launch(m) ==
    /\ last' = ReplyTo(m)
    /\ loading' = TRUE
    /\ connected' = connected \cup {m}
    /\ sse' = [sse EXCEPT ![m] = "opening"]
    /\ graph' = [graph EXCEPT ![m] = "running"]
    /\ UNCHANGED <<redisVars, hidden, attempt, pushed, reply, batch, cycles, wire,
                   text, card>>

\* Wrong on purpose: send() that looks at `loading` only.
SendOverCard(m) == IsNext(m) /\ ~loading /\ Launch(m)

\* Wrong on purpose: send() that looks at the cards only.
SendWhileLoading(m) == IsNext(m) /\ ~pendingHitl /\ Launch(m)

\* send(), refused while a POST is outstanding or a card is open.
Send(m) == IsNext(m) /\ ~loading /\ ~pendingHitl /\ Launch(m)

Show(piece) == text' = [text EXCEPT ![last] = Append(@, piece)]

\* sseSubscription.unsubscribe(): the frames still on the wire are lost.
HangUp(m) ==
    /\ connected' = connected \ {m}
    /\ wire' = [wire EXCEPT ![m] = <<>>]

Arrives(m, type) ==
    /\ m \in connected
    /\ wire[m] # <<>>
    /\ Head(wire[m]).type = type

\* A token is appended to the last bubble, whichever message it belongs to.
OnToken(m) ==
    /\ Arrives(m, "token")
    /\ Show(TokenPiece(m, Head(wire[m]).token))
    /\ wire' = [wire EXCEPT ![m] = Tail(@)]
    /\ UNCHANGED <<redisVars, graphVars, sseVars, connected, card, last, loading>>

\* An error frame is of no type the page handles.
OnErrorFrame(m) ==
    /\ Arrives(m, "error")
    /\ wire' = [wire EXCEPT ![m] = Tail(@)]
    /\ UNCHANGED <<redisVars, graphVars, sseVars, connected, pageVars>>

OnDone(m) ==
    /\ Arrives(m, "done")
    /\ HangUp(m)
    /\ UNCHANGED <<redisVars, graphVars, sseVars, pageVars>>

\* onerror: the stream ended before a done frame.
OnInterrupted(m) ==
    /\ Arrives(m, "eof")
    /\ HangUp(m)
    /\ IF loading THEN Show(Note("interrupted", m)) ELSE UNCHANGED text
    /\ UNCHANGED <<redisVars, graphVars, sseVars, card, last, loading>>

\* The POST succeeded: its response replaces the text of the last bubble.
\* The EventSource stays open.
OnAnswer(m) ==
    /\ reply[m] \in {"answer", "card"}
    /\ text' = [text EXCEPT ![last] = <<Note("answer", m)>>]
    /\ card' = [card EXCEPT ![last] = IF reply[m] = "card" THEN "open" ELSE "none"]
    /\ loading' = FALSE
    /\ reply' = [reply EXCEPT ![m] = "taken"]
    /\ UNCHANGED <<redisVars, graph, hidden, attempt, pushed, sseVars, netVars, last>>

\* The POST failed.
OnFailure(m) ==
    /\ reply[m] = "failure"
    /\ HangUp(m)
    /\ text' = [text EXCEPT ![last] = <<Note("failure", m)>>]
    /\ loading' = FALSE
    /\ reply' = [reply EXCEPT ![m] = "taken"]
    /\ UNCHANGED <<redisVars, graph, hidden, attempt, pushed, sseVars, card, last>>

\* onHitlResolved: the card was decided, or is gone, and a bubble says so.
OnHitlResolved(m) ==
    /\ card[ReplyTo(m)] = "open"
    /\ card' = [card EXCEPT ![ReplyTo(m)] = "resolved"]
    /\ text' = [text EXCEPT ![OutcomeOf(m)] = <<Note("outcome", m)>>]
    /\ last' = OutcomeOf(m)
    /\ UNCHANGED <<redisVars, graphVars, sseVars, netVars, loading>>

-----------------------------------------------------------------------------
Request(m) ==
    /\ \/ Generate(m) \/ PushToken(m) \/ AttemptFails(m) \/ Retry(m) \/ Generated(m)
       \/ BeginHidden(m) \/ HiddenFails(m) \/ HiddenRetry(m) \/ HiddenReturns(m)
       \/ GraphEnds(m) \/ Respond(m) \/ RespondError(m)
    /\ UNCHANGED pageVars

Poll(m) ==
    /\ \/ OpenStream(m) \/ ReadTokens(m) \/ TrimTokens(m) \/ CheckDone(m)
       \/ TimeOut(m) \/ Cancelled(m)
    /\ UNCHANGED pageVars

Interrupt(m) == Break(m) /\ UNCHANGED pageVars

OnFrame(m) == OnToken(m) \/ OnErrorFrame(m) \/ OnDone(m) \/ OnInterrupted(m)

OnReply(m) == OnAnswer(m) \/ OnFailure(m)

Next ==
    /\ \E m \in Messages :
        \/ Send(m)
        \/ Request(m)
        \/ Poll(m)
        \/ Interrupt(m)
        \/ OnFrame(m)
        \/ OnReply(m)
        \/ OnHitlResolved(m)
    /\ UNCHANGED provider

\* The coroutine of a request, that of its stream and the page's event loop
\* are all scheduled; calls to the model return or raise.  The graph has no
\* loop, so it is not kept from its end by ever more hidden calls.
Fairness ==
    \A m \in Messages :
        /\ WF_vars(Request(m) /\ UNCHANGED provider)
        /\ SF_vars(GraphEnds(m) /\ UNCHANGED <<pageVars, provider>>)
        /\ WF_vars(Poll(m) /\ UNCHANGED provider)
        /\ WF_vars((OnFrame(m) \/ OnReply(m)) /\ UNCHANGED provider)

Spec == Init /\ [][Next]_vars /\ Fairness

-----------------------------------------------------------------------------
(* Properties.                                                             *)

\* The answer to a message, or the notice that it failed, stands at the head
\* of that message's own bubble from the moment its POST is answered, however
\* late tokens, approval cards and further messages follow: the page only
\* ever writes to its last bubble.
AnswerOnOwnBubble ==
    \A m \in Messages :
        reply[m] = "taken" =>
            /\ text[ReplyTo(m)] # <<>>
            /\ Head(text[ReplyTo(m)]) \in {Note("answer", m), Note("failure", m)}

\* Where a bubble shows tokens of m, and where the wire of m carries some.
ShownAt(m, b) == {i \in DOMAIN text[b] : text[b][i].what = "token" /\ text[b][i].of = m}
WiredAt(m) == {i \in DOMAIN wire[m] : wire[m][i].type = "token"}

Precedes(t, u) ==
    t.attempt < u.attempt \/ (t.attempt = u.attempt /\ t.n < u.n)

Ordered(tokens) == \A i, j \in DOMAIN tokens : i < j => Precedes(tokens[i], tokens[j])

\* The server and the wire hold the tokens of m in order,
WireInOrder(m) ==
    /\ \A i, j \in WiredAt(m) : i < j => Precedes(wire[m][i].token, wire[m][j].token)
    /\ \A i \in WiredAt(m), j \in DOMAIN list[m] : Precedes(wire[m][i].token, list[m][j])
    /\ Ordered(list[m])

\* ... and the bubble shows them in order, all of them earlier ones.
ShownInOrder(m, b) ==
    /\ \A i, j \in ShownAt(m, b) : i < j => Precedes(text[b][i].token, text[b][j].token)
    /\ \A i \in ShownAt(m, b), j \in WiredAt(m) :
          Precedes(text[b][i].token, wire[m][j].token)
    /\ \A i \in ShownAt(m, b), j \in DOMAIN list[m] : Precedes(text[b][i].token, list[m][j])

\* No token is shown twice or out of order although the list is read with one
\* Redis command and trimmed with another while tokens are pushed and the
\* list is wiped in between: what a bubble shows of a stream, what is on the
\* wire and what is in the list follow each other.
TokensInOrder ==
    \A m \in Messages : WireInOrder(m) /\ \A b \in Bubbles : ShownInOrder(m, b)

\* Every stream that was opened is closed on both ends: the generator stops
\* polling although a failed request sets no key, and the page lets go of the
\* EventSource although the answer to the POST does not close it.
StreamsEnd ==
    \A m \in Messages :
        sse[m] = "opening" ~> sse[m] = "closed" /\ m \notin connected

\* What the page shows for a message, in the terms of ChatPromise.
Shown(m) ==
    IF graph[m] = "none" THEN "unsent"
    ELSE IF text[ReplyTo(m)] = <<>> THEN "waiting"
    ELSE LET what == Head(text[ReplyTo(m)]).what
         IN  IF what \in {"answer", "failure"} THEN what ELSE "waiting"

Promise == INSTANCE ChatPromise WITH shown <- [m \in Messages |-> Shown(m)]

\* Messages are answered one at a time, and a shown answer is never replaced
\* or taken back, although nothing ties the two requests of a message or the
\* bubbles they write to to each other.
AnswersStand == Promise!Init /\ [][Promise!Next]_(Promise!shownVars)

\* The page keeps the whole promise: besides, every message is answered or
\* its failure shown, whatever becomes of the stream.
PromiseKept == Promise!Spec

=============================================================================
