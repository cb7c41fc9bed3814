-------------------------- MODULE ChatStream_proofs --------------------------
(***************************************************************************)
(* Proofs about ChatStream, for any number of messages, retries, tokens    *)
(* and polling cycles: type correctness, AnswerOnOwnBubble, TokensInOrder, *)
(* and that the page implements the safety part of ChatPromise.            *)
(***************************************************************************)
EXTENDS ChatStream, SequenceTheorems, TLAPS

-----------------------------------------------------------------------------
(* Types.                                                                  *)

\* The frames made of a batch of tokens are frames.
LEMMA TokenFramesType ==
    ASSUME NEW tokens \in Seq(Token)
    PROVE  TokenFrames(tokens) \in Seq(Frame)
<1>1. TokenFrames(tokens) \in [1..Len(tokens) -> Frame]
    BY DEF TokenFrames, TokenFrame, Frame
<1>2. Len(tokens) \in Nat
    OBVIOUS
<1> QED
    BY <1>1, <1>2

\* Emitting frames keeps the wire well typed.
LEMMA EmitType ==
    ASSUME StreamTypeOK, NEW m \in Messages, NEW frames \in Seq(Frame), Emit(m, frames)
    PROVE  wire' \in [Messages -> Seq(Frame)]
<1>1. wire \in [Messages -> Seq(Frame)]
    BY DEF StreamTypeOK
<1>2. wire[m] \o frames \in Seq(Frame)
    BY <1>1
<1> QED
    BY <1>1, <1>2 DEF Emit

\* The steps of a chat request keep the server's variables well typed.
LEMMA RequestType ==
    ASSUME StreamTypeOK, NEW m \in Messages, Request(m), UNCHANGED provider
    PROVE  StreamTypeOK'
<1> USE StreamAssumption DEF Fallback, redisVars, graphVars, sseVars, netVars
<1>e. <<>> \in Seq(Token)
    OBVIOUS
<1>f. ForgetAttempt(m) =>
          /\ hidden' \in [Messages -> {"none", "json", "text", "pause"}]
          /\ attempt' \in [Messages -> 1..Fallback]
          /\ pushed' \in [Messages -> 0..MaxTokens]
    BY DEF StreamTypeOK, ForgetAttempt
<1>n. NextAttempt(m) => attempt' \in [Messages -> 1..Fallback]
    <2>1. attempt[m] \in 1..(MaxRetries + 1)
        BY DEF StreamTypeOK
    <2>2. CASE attempt[m] < MaxRetries /\ attempt' = [attempt EXCEPT ![m] = @ + 1]
        BY <2>1, <2>2 DEF StreamTypeOK
    <2>3. CASE attempt' = [attempt EXCEPT ![m] = Fallback]
        BY <2>1, <2>3 DEF StreamTypeOK
    <2> QED
        BY <2>2, <2>3 DEF NextAttempt
<1>1. CASE Generate(m)
    BY <1>1 DEF StreamTypeOK, Generate, Advance
<1>2. CASE PushToken(m)
    <2>1. pushed[m] + 1 \in 0..MaxTokens /\ pushed[m] + 1 \in 1..MaxTokens
        BY <1>2 DEF StreamTypeOK, PushToken
    <2>2. [attempt |-> attempt[m], n |-> pushed[m] + 1] \in Token
        BY <2>1 DEF StreamTypeOK, Token
    <2>3. Append(list[m], [attempt |-> attempt[m], n |-> pushed[m] + 1]) \in Seq(Token)
        BY <2>2 DEF StreamTypeOK
    <2>4. list' \in [Messages -> Seq(Token)]
        BY <1>2, <2>3 DEF StreamTypeOK, PushToken
    <2>5. pushed' \in [Messages -> 0..MaxTokens]
        BY <1>2, <2>1 DEF StreamTypeOK, PushToken
    <2> QED
        BY <1>2, <2>4, <2>5 DEF StreamTypeOK, PushToken
<1>3. CASE AttemptFails(m)
    <2>1. graph' \in [Messages -> {"none", "running", "streaming", "backoff",
                                   "written", "finished", "replied"}]
        BY <1>3 DEF StreamTypeOK, AttemptFails, Advance
    <2> QED
        BY <1>3, <1>n, <2>1 DEF StreamTypeOK, AttemptFails
<1>4. CASE Retry(m)
    <2>1. list' \in [Messages -> Seq(Token)]
        <3>1. CASE list' = [list EXCEPT ![m] = <<>>]
            BY <1>e, <3>1 DEF StreamTypeOK
        <3>2. CASE UNCHANGED list
            BY <3>2 DEF StreamTypeOK
        <3> QED
            BY <1>4, <3>1, <3>2 DEF Retry
    <2>2. pushed' \in [Messages -> 0..MaxTokens]
        BY <1>4 DEF StreamTypeOK, Retry
    <2>3. graph' \in [Messages -> {"none", "running", "streaming", "backoff",
                                   "written", "finished", "replied"}]
        BY <1>4 DEF StreamTypeOK, Retry, Advance
    <2> QED
        BY <1>4, <2>1, <2>2, <2>3 DEF StreamTypeOK, Retry
<1>5. CASE GraphEnds(m)
    <2>1. done' \in [Messages -> BOOLEAN]
        BY <1>5 DEF StreamTypeOK, GraphEnds
    <2> QED
        BY <1>5, <1>f, <2>1 DEF StreamTypeOK, GraphEnds
<1>6. CASE Respond(m)
    BY <1>6 DEF StreamTypeOK, Respond, Advance
<1>7. CASE RespondError(m)
    BY <1>7, <1>f DEF StreamTypeOK, RespondError
<1>8. CASE Generated(m)
    BY <1>8, <1>f DEF StreamTypeOK, Generated, Advance
<1>9. CASE BeginHidden(m)
    <2>1. PICK mode \in {"text", "json"} : hidden' = [hidden EXCEPT ![m] = mode]
        BY <1>9 DEF BeginHidden
    <2>0. hidden \in [Messages -> {"none", "json", "text", "pause"}]
        BY DEF StreamTypeOK
    <2>2. hidden' \in [Messages -> {"none", "json", "text", "pause"}]
        BY <2>1, <2>0
    <2>3. UNCHANGED <<redisVars, graph, attempt, pushed, reply, sseVars, netVars>>
        BY <1>9 DEF BeginHidden
    <2> QED
        BY SMTT(20), <2>2, <2>3 DEF StreamTypeOK
<1>10. CASE HiddenFails(m)
    <2>1. hidden' \in [Messages -> {"none", "json", "text", "pause"}]
        BY <1>10 DEF StreamTypeOK, HiddenFails, AdvanceHidden
    <2>2. attempt' \in [Messages -> 1..Fallback]
        BY <1>10, <1>n DEF StreamTypeOK, HiddenFails
    <2> QED
        BY <1>10, <2>1, <2>2 DEF StreamTypeOK, HiddenFails
<1>11. CASE HiddenRetry(m)
    BY <1>11 DEF StreamTypeOK, HiddenRetry, AdvanceHidden
<1>12. CASE HiddenReturns(m)
    BY <1>12, <1>f DEF StreamTypeOK, HiddenReturns
<1> QED
    BY <1>1, <1>2, <1>3, <1>4, <1>5, <1>6, <1>7, <1>8, <1>9, <1>10, <1>11, <1>12
    DEF Request

\* So do the steps of the generator.
LEMMA PollType ==
    ASSUME StreamTypeOK, NEW m \in Messages, Poll(m) \/ Interrupt(m), UNCHANGED provider
    PROVE  StreamTypeOK'
<1> USE StreamAssumption DEF redisVars, graphVars, sseVars, netVars
<1>c. Close(m) =>
          /\ sse' \in [Messages -> {"none", "opening", "polling", "trim", "check", "closed"}]
          /\ batch' \in [Messages -> Seq(Token)]
          /\ cycles' \in [Messages -> 0..MaxCycles]
    <2>1. <<>> \in Seq(Token) /\ 0 \in 0..MaxCycles
        OBVIOUS
    <2> QED
        BY <2>1 DEF StreamTypeOK, Close
<1>0. <<Done, Eof>> \in Seq(Frame) /\ <<Error, Eof>> \in Seq(Frame)
    BY DEF Done, Error, Eof, Frame
<1>1. CASE OpenStream(m)
    <2>1. wire' \in [Messages -> Seq(Frame)]
        BY <1>0, <1>1, EmitType DEF StreamTypeOK, OpenStream
    <2> QED
        BY <1>1, <1>c, <2>1 DEF StreamTypeOK, OpenStream
<1>2. CASE ReadTokens(m)
    BY <1>2 DEF StreamTypeOK, ReadTokens
<1>3. CASE TrimTokens(m)
    <2>1. batch[m] \in Seq(Token) /\ list[m] \in Seq(Token)
        BY DEF StreamTypeOK
    <2>2. wire' \in [Messages -> Seq(Frame)]
        BY <1>3, <2>1, TokenFramesType, EmitType DEF TrimTokens
    <2>3. SubSeq(list[m], Len(batch[m]) + 1, Len(list[m])) \in Seq(Token)
        BY <2>1, SubSeqProperties
    <2>4. list' \in [Messages -> Seq(Token)]
        BY <1>3, <2>3 DEF StreamTypeOK, TrimTokens
    <2> QED
        BY <1>3, <2>2, <2>4 DEF StreamTypeOK, TrimTokens
<1>4. CASE CheckDone(m)
    <2>1. wire' \in [Messages -> Seq(Frame)]
        BY <1>0, <1>4, EmitType DEF StreamTypeOK, CheckDone
    <2>2. list' \in [Messages -> Seq(Token)] /\ done' \in [Messages -> BOOLEAN]
        <3>1. <<>> \in Seq(Token)
            OBVIOUS
        <3>2. CASE UNCHANGED redisVars
            BY <3>2 DEF StreamTypeOK
        <3>3. CASE list' = [list EXCEPT ![m] = <<>>] /\ done' = [done EXCEPT ![m] = FALSE]
            BY <3>1, <3>3 DEF StreamTypeOK
        <3> QED
            BY <1>4, <3>2, <3>3 DEF CheckDone
    <2>3. CASE Close(m) /\ UNCHANGED <<graphVars, connected>>
        BY <1>c, <2>1, <2>2, <2>3 DEF StreamTypeOK
    <2>4. CASE /\ sse' = [sse EXCEPT ![m] = "polling"]
               /\ UNCHANGED <<batch, cycles, graphVars, connected>>
        BY <2>1, <2>2, <2>4 DEF StreamTypeOK
    <2> QED
        BY <1>4, <2>3, <2>4 DEF CheckDone
<1>5. CASE Abort(m)
    <2>1. wire' \in [Messages -> Seq(Frame)]
        BY <1>0, <1>5, EmitType DEF Abort
    <2> QED
        BY <1>5, <1>c, <2>1 DEF StreamTypeOK, Abort
<1>6. CASE Cancelled(m)
    BY <1>6, <1>c DEF StreamTypeOK, Cancelled
<1> QED
    BY <1>1, <1>2, <1>3, <1>4, <1>5, <1>6 DEF Poll, Interrupt, TimeOut, Break

\* So do the page's handlers.
LEMMA PageStreamType ==
    ASSUME StreamTypeOK, NEW m \in Messages, UNCHANGED provider,
           Send(m) \/ OnFrame(m) \/ OnReply(m) \/ OnHitlResolved(m)
    PROVE  StreamTypeOK'
<1> USE DEF redisVars, graphVars, sseVars, netVars, streamVars
<1>1. CASE Send(m)
    BY <1>1 DEF StreamTypeOK, Send, Launch
<1>2. wire[m] # <<>> => Tail(wire[m]) \in Seq(Frame)
    BY DEF StreamTypeOK
<1>3. CASE OnToken(m)
    BY <1>2, <1>3 DEF StreamTypeOK, OnToken, Arrives
<1>4. CASE OnErrorFrame(m)
    BY <1>2, <1>4 DEF StreamTypeOK, OnErrorFrame, Arrives
<1>5. HangUp(m) =>
          connected' \in SUBSET Messages /\ wire' \in [Messages -> Seq(Frame)]
    BY DEF StreamTypeOK, HangUp
<1>6. CASE OnDone(m)
    BY <1>5, <1>6 DEF StreamTypeOK, OnDone
<1>7. CASE OnInterrupted(m)
    BY <1>5, <1>7 DEF StreamTypeOK, OnInterrupted
<1>8. CASE OnAnswer(m)
    BY <1>8 DEF StreamTypeOK, OnAnswer
<1>9. CASE OnFailure(m)
    BY <1>5, <1>9 DEF StreamTypeOK, OnFailure
<1>10. CASE OnHitlResolved(m)
    BY <1>10 DEF StreamTypeOK, OnHitlResolved
<1> QED
    BY <1>1, <1>3, <1>4, <1>6, <1>7, <1>8, <1>9, <1>10 DEF OnFrame, OnReply

\* ... and the page's own variables.
PageTypeOK ==
    /\ text \in [Bubbles -> Seq(Piece)]
    /\ card \in [Bubbles -> {"none", "open", "resolved"}]
    /\ last \in Bubbles \cup {None}
    /\ loading \in BOOLEAN

LEMMA BubblesOfMessage ==
    ASSUME NEW m \in Messages
    PROVE  ReplyTo(m) \in Bubbles /\ OutcomeOf(m) \in Bubbles
BY DEF ReplyTo, OutcomeOf, Bubbles

LEMMA ShowType ==
    ASSUME PageTypeOK, NEW p \in Piece, Show(p)
    PROVE  text' \in [Bubbles -> Seq(Piece)]
<1>1. CASE last \in Bubbles
    <2>1. Append(text[last], p) \in Seq(Piece)
        BY <1>1 DEF PageTypeOK
    <2> QED
        BY <2>1 DEF PageTypeOK, Show
<1>2. CASE last \notin Bubbles
    BY <1>2 DEF PageTypeOK, Show
<1> QED
    BY <1>1, <1>2

\* A token frame carries a token.
LEMMA TokenArrives ==
    ASSUME StreamTypeOK, NEW m \in Messages, Arrives(m, "token")
    PROVE  TokenPiece(m, Head(wire[m]).token) \in Piece
<1>1. Head(wire[m]) \in Frame /\ Head(wire[m]).type = "token"
    BY DEF StreamTypeOK, Arrives
<1>2. Head(wire[m]) \in [type : {"token"}, token : Token]
    BY <1>1 DEF Frame
<1> QED
    BY <1>2 DEF TokenPiece, Piece

LEMMA NotesAreNotes ==
    ASSUME NEW m \in Messages,
           NEW what \in {"answer", "failure", "interrupted", "outcome"}
    PROVE  Note(what, m) \in Piece /\ <<Note(what, m)>> \in Seq(Piece)
BY DEF Note, Piece

LEMMA PageType ==
    ASSUME StreamTypeOK, PageTypeOK, NEW m \in Messages,
           Send(m) \/ OnFrame(m) \/ OnReply(m) \/ OnHitlResolved(m)
    PROVE  PageTypeOK'
<1> USE BubblesOfMessage DEF pageVars
<1>1. CASE Send(m)
    BY <1>1 DEF PageTypeOK, Send, Launch
<1>2. CASE OnToken(m)
    BY <1>2, TokenArrives, ShowType DEF PageTypeOK, OnToken
<1>3. CASE OnErrorFrame(m) \/ OnDone(m)
    BY <1>3 DEF PageTypeOK, OnErrorFrame, OnDone
<1>4. CASE OnInterrupted(m)
    BY <1>4, NotesAreNotes, ShowType DEF PageTypeOK, OnInterrupted
<1>5. CASE OnAnswer(m)
    <2>1. text' \in [Bubbles -> Seq(Piece)]
        BY <1>5, NotesAreNotes DEF PageTypeOK, OnAnswer
    <2> QED
        BY <1>5, <2>1 DEF PageTypeOK, OnAnswer
<1>6. CASE OnFailure(m)
    <2>1. text' \in [Bubbles -> Seq(Piece)]
        BY <1>6, NotesAreNotes DEF PageTypeOK, OnFailure
    <2> QED
        BY <1>6, <2>1 DEF PageTypeOK, OnFailure
<1>7. CASE OnHitlResolved(m)
    <2>1. text' \in [Bubbles -> Seq(Piece)]
        BY <1>7, NotesAreNotes DEF PageTypeOK, OnHitlResolved
    <2> QED
        BY <1>7, <2>1 DEF PageTypeOK, OnHitlResolved
<1> QED
    BY <1>1, <1>2, <1>3, <1>4, <1>5, <1>6, <1>7 DEF OnFrame, OnReply

LEMMA TypeParts == TypeOK <=> StreamTypeOK /\ PageTypeOK
BY DEF TypeOK, PageTypeOK

LEMMA InitType == Init => TypeOK
<1> SUFFICES ASSUME Init PROVE TypeOK
    OBVIOUS
<1>1. \A S : <<>> \in Seq(S)
    OBVIOUS
<1>2. /\ 1 \in 1..Fallback /\ 0 \in 0..MaxTokens /\ 0 \in 0..MaxCycles
    BY StreamAssumption DEF Fallback
<1>3. StreamTypeOK
    BY <1>1, <1>2 DEF Init, StreamInit, Configured, StreamTypeOK
<1>4. PageTypeOK
    BY <1>1 DEF Init, PageTypeOK
<1> QED
    BY <1>3, <1>4, TypeParts

LEMMA NextType == TypeOK /\ [Next]_vars => TypeOK'
<1> SUFFICES ASSUME TypeOK, [Next]_vars PROVE TypeOK'
    OBVIOUS
<1>0. UNCHANGED provider
    BY DEF Next, vars, streamVars
<1>1. ASSUME NEW m \in Messages, Request(m) PROVE TypeOK'
    <2>1. StreamTypeOK'
        BY <1>0, <1>1, TypeParts, RequestType
    <2>2. PageTypeOK'
        BY <1>1, TypeParts DEF Request, pageVars, PageTypeOK
    <2> QED
        BY <2>1, <2>2 DEF TypeOK, PageTypeOK
<1>2. ASSUME NEW m \in Messages, Poll(m) \/ Interrupt(m) PROVE TypeOK'
    <2>1. StreamTypeOK'
        BY <1>0, <1>2, TypeParts, PollType
    <2>2. PageTypeOK'
        BY <1>2, TypeParts DEF Poll, Interrupt, pageVars, PageTypeOK
    <2> QED
        BY <2>1, <2>2 DEF TypeOK, PageTypeOK
<1>3. ASSUME NEW m \in Messages,
             Send(m) \/ OnFrame(m) \/ OnReply(m) \/ OnHitlResolved(m)
      PROVE  TypeOK'
    <2>1. StreamTypeOK' /\ PageTypeOK'
        BY <1>0, <1>3, TypeParts, PageStreamType, PageType
    <2> QED
        BY <2>1 DEF TypeOK, PageTypeOK
<1>4. CASE UNCHANGED vars
    BY <1>4 DEF TypeOK, StreamTypeOK, vars, streamVars, redisVars, graphVars,
                sseVars, netVars, pageVars
<1> QED
    BY <1>1, <1>2, <1>3, <1>4 DEF Next

\* Every reachable state of the server, the wire and the page is well typed:
\* in particular no attempt goes past the fallback model.
THEOREM TypeCorrect == Spec => []TypeOK
BY InitType, NextType, PTL DEF Spec

-----------------------------------------------------------------------------
(* The answer stays on its bubble.                                         *)

\* The POST of m has been sent and the page has not taken its answer.
Pending(m) == graph[m] # "none" /\ reply[m] # "taken"

Settled(m) ==
    /\ text[ReplyTo(m)] # <<>>
    /\ Head(text[ReplyTo(m)]) \in {Note("answer", m), Note("failure", m)}

\* The strengthening: a pending message owns the last bubble, so there is at
\* most one, and no card can take the last bubble away from it.
PageInv ==
    \A m \in Messages :
        /\ graph[m] = "none" => text[ReplyTo(m)] = <<>> /\ reply[m] = "none"
        /\ last = ReplyTo(m) => graph[m] # "none"
        /\ reply[m] # "none" => graph[m] = "replied"
        /\ Pending(m) => loading /\ last = ReplyTo(m) /\ ~pendingHitl
        /\ reply[m] = "taken" => Settled(m)
        /\ Pending(m) /\ text[ReplyTo(m)] # <<>> =>
              Head(text[ReplyTo(m)]).what \notin {"answer", "failure"}

LEMMA ReplyToInjective ==
    ASSUME NEW m \in Messages, NEW k \in Messages, ReplyTo(m) = ReplyTo(k)
    PROVE  m = k
BY DEF ReplyTo

LEMMA OutcomeIsNoReply ==
    ASSUME NEW m \in Messages, NEW k \in Messages
    PROVE  OutcomeOf(m) # ReplyTo(k)
BY DEF ReplyTo, OutcomeOf

\* At most one message is pending.
LEMMA OnePending ==
    ASSUME PageInv, NEW m \in Messages, NEW k \in Messages, Pending(m), Pending(k)
    PROVE  m = k
BY ReplyToInjective DEF PageInv

LEMMA AppendKeepsHead ==
    ASSUME NEW S, NEW s \in Seq(S), NEW e \in S
    PROVE  /\ Append(s, e) # <<>>
           /\ s # <<>> => Head(Append(s, e)) = Head(s)
           /\ s = <<>> => Head(Append(s, e)) = e
<1>1. Append(s, e) # <<>>
    <2>1. Len(Append(s, e)) = Len(s) + 1 /\ Len(s) \in Nat
        OBVIOUS
    <2>2. Len(<<>>) = 0
        OBVIOUS
    <2> QED
        BY <2>1, <2>2
<1>2. s # <<>> => Head(Append(s, e)) = Head(s)
    OBVIOUS
<1>3. s = <<>> => Head(Append(s, e)) = e
    OBVIOUS
<1> QED
    BY <1>1, <1>2, <1>3

\* Appending to a bubble keeps what it starts with.
LEMMA ShowKeepsHead ==
    ASSUME PageTypeOK, NEW p \in Piece, Show(p), NEW b \in Bubbles
    PROVE  /\ text[b] # <<>> => text'[b] # <<>> /\ Head(text'[b]) = Head(text[b])
           /\ text[b] = <<>> /\ b # last => text'[b] = <<>>
           /\ text[b] = <<>> /\ b = last => text'[b] # <<>> /\ Head(text'[b]) = p
<1>1. CASE b = last
    <2>1. text'[b] = Append(text[b], p)
        BY <1>1 DEF PageTypeOK, Show
    <2>2. text[b] \in Seq(Piece)
        BY DEF PageTypeOK
    <2>3. /\ text'[b] # <<>>
          /\ text[b] # <<>> => Head(text'[b]) = Head(text[b])
          /\ text[b] = <<>> => Head(text'[b]) = p
        BY <2>1, <2>2, AppendKeepsHead
    <2> QED
        BY <1>1, <2>3
<1>2. CASE b # last
    BY <1>2 DEF PageTypeOK, Show
<1> QED
    BY <1>1, <1>2

\* A piece that is neither an answer nor a failure disturbs nothing.
LEMMA ShowInv ==
    ASSUME TypeOK, PageInv, NEW p \in Piece, Show(p),
           p.what \notin {"answer", "failure"},
           UNCHANGED <<graph, reply, last, loading, card>>
    PROVE  PageInv'
<1> SUFFICES ASSUME NEW k \in Messages
             PROVE  /\ graph[k] = "none" => text'[ReplyTo(k)] = <<>> /\ reply[k] = "none"
                    /\ last = ReplyTo(k) => graph[k] # "none"
                    /\ reply[k] # "none" => graph[k] = "replied"
                    /\ Pending(k) => loading /\ last = ReplyTo(k) /\ ~pendingHitl
                    /\ reply[k] = "taken" => Settled(k)'
                    /\ Pending(k) /\ text'[ReplyTo(k)] # <<>> =>
                          Head(text'[ReplyTo(k)]).what \notin {"answer", "failure"}
    BY DEF PageInv, Pending, Settled, pendingHitl
<1>1. ReplyTo(k) \in Bubbles /\ PageTypeOK
    BY BubblesOfMessage, TypeParts
<1>2. /\ text[ReplyTo(k)] # <<>> =>
            text'[ReplyTo(k)] # <<>> /\ Head(text'[ReplyTo(k)]) = Head(text[ReplyTo(k)])
      /\ text[ReplyTo(k)] = <<>> /\ ReplyTo(k) # last => text'[ReplyTo(k)] = <<>>
      /\ text[ReplyTo(k)] = <<>> /\ ReplyTo(k) = last =>
            text'[ReplyTo(k)] # <<>> /\ Head(text'[ReplyTo(k)]) = p
    BY <1>1, ShowKeepsHead
<1>3. graph[k] = "none" => text'[ReplyTo(k)] = <<>> /\ reply[k] = "none"
    BY <1>2 DEF PageInv
<1>4. reply[k] = "taken" => Settled(k)'
    BY <1>2 DEF PageInv, Settled
<1>5. Pending(k) /\ text'[ReplyTo(k)] # <<>> =>
          Head(text'[ReplyTo(k)]).what \notin {"answer", "failure"}
    BY <1>2 DEF PageInv
<1> QED
    BY <1>3, <1>4, <1>5 DEF PageInv

\* The answer of a POST, and so its failure, goes to the pending message.
LEMMA ReplyInv ==
    ASSUME TypeOK, PageInv, NEW m \in Messages, OnReply(m)
    PROVE  PageInv' /\ Pending(m) /\ last = ReplyTo(m)
                    /\ text' = [text EXCEPT ![ReplyTo(m)] = text'[ReplyTo(m)]]
                    /\ Settled(m)'
<1> USE DEF OnReply
<1>1. Pending(m) /\ last = ReplyTo(m) /\ last' = last /\ graph' = graph
    BY DEF OnAnswer, OnFailure, PageInv, Pending, graphVars
<1>2. reply' = [reply EXCEPT ![m] = "taken"] /\ reply'[m] = "taken"
    BY TypeParts DEF OnAnswer, OnFailure, StreamTypeOK
<1>3. PICK what \in {"answer", "failure"} :
          text' = [text EXCEPT ![ReplyTo(m)] = <<Note(what, m)>>]
    BY <1>1 DEF OnAnswer, OnFailure
<1>4. text'[ReplyTo(m)] = <<Note(what, m)>>
    BY <1>3, BubblesOfMessage, TypeParts DEF PageTypeOK
<1>5. Settled(m)'
    BY <1>4 DEF Settled
<1>6. ASSUME NEW k \in Messages, k # m
      PROVE  /\ text'[ReplyTo(k)] = text[ReplyTo(k)]
             /\ reply'[k] = reply[k]
             /\ ~Pending(k) /\ ~Pending(k)'
    <2>1. text'[ReplyTo(k)] = text[ReplyTo(k)]
        BY <1>3, <1>6, ReplyToInjective, BubblesOfMessage, TypeParts DEF PageTypeOK
    <2>2. reply'[k] = reply[k]
        BY <1>2, <1>6, TypeParts DEF StreamTypeOK
    <2>3. ~Pending(k)
        BY <1>1, <1>6, OnePending
    <2> QED
        BY <1>1, <2>1, <2>2, <2>3 DEF Pending
<1>7. PageInv'
    <2> SUFFICES ASSUME NEW k \in Messages
                 PROVE  /\ graph'[k] = "none" => text'[ReplyTo(k)] = <<>> /\ reply'[k] = "none"
                        /\ last' = ReplyTo(k) => graph'[k] # "none"
                        /\ reply'[k] # "none" => graph'[k] = "replied"
                        /\ ~Pending(k)'
                        /\ reply'[k] = "taken" => Settled(k)'
        BY DEF PageInv
    <2>1. CASE k = m
        BY <1>1, <1>2, <1>5, <2>1 DEF PageInv, Pending, OnAnswer, OnFailure
    <2>2. CASE k # m
        BY <1>1, <1>6, <2>2 DEF PageInv, Settled
    <2> QED
        BY <2>1, <2>2
<1> QED
    BY <1>1, <1>3, <1>4, <1>5, <1>7

\* A message is sent when none is pending; it becomes the pending one.
LEMMA SendInv ==
    ASSUME TypeOK, PageInv, NEW m \in Messages, Send(m)
    PROVE  PageInv'
<1> USE DEF Send, Launch, graphVars
<1>1. graph[m] = "none" /\ text' = text /\ reply' = reply /\ last' = ReplyTo(m) /\ loading'
    BY DEF IsNext
<1>2. graph'[m] = "running" /\ \A k \in Messages \ {m} : graph'[k] = graph[k]
    BY TypeParts DEF StreamTypeOK
<1>3. \A k \in Messages : ~Pending(k)
    BY DEF PageInv
<1>4. pendingHitl' = pendingHitl /\ ~pendingHitl
    BY DEF pendingHitl
<1> SUFFICES ASSUME NEW k \in Messages
             PROVE  /\ graph'[k] = "none" => text'[ReplyTo(k)] = <<>> /\ reply'[k] = "none"
                    /\ last' = ReplyTo(k) => graph'[k] # "none"
                    /\ reply'[k] # "none" => graph'[k] = "replied"
                    /\ Pending(k)' => loading' /\ last' = ReplyTo(k) /\ ~pendingHitl'
                    /\ reply'[k] = "taken" => Settled(k)'
                    /\ Pending(k)' /\ text'[ReplyTo(k)] # <<>> =>
                          Head(text'[ReplyTo(k)]).what \notin {"answer", "failure"}
    BY DEF PageInv
<1>5. CASE k = m
    BY <1>1, <1>2, <1>4, <1>5 DEF PageInv, Pending, Settled
<1>6. CASE k # m
    <2>1. ~Pending(k)' /\ graph'[k] = graph[k] /\ last' # ReplyTo(k)
        BY <1>1, <1>2, <1>3, <1>6, ReplyToInjective DEF Pending
    <2> QED
        BY <1>1, <2>1 DEF PageInv, Settled
<1> QED
    BY <1>5, <1>6

\* A card is decided only while nothing is pending.
LEMMA CardInv ==
    ASSUME TypeOK, PageInv, NEW m \in Messages, OnHitlResolved(m)
    PROVE  PageInv' /\ \A k \in Messages : text'[ReplyTo(k)] = text[ReplyTo(k)]
<1> USE DEF OnHitlResolved, streamVars, graphVars
<1>1. pendingHitl
    BY BubblesOfMessage DEF pendingHitl
<1>2. \A k \in Messages : ~Pending(k) /\ ~Pending(k)'
    BY <1>1 DEF PageInv, Pending
<1>3. \A k \in Messages : text'[ReplyTo(k)] = text[ReplyTo(k)]
    BY OutcomeIsNoReply, BubblesOfMessage, TypeParts DEF PageTypeOK
<1>4. \A k \in Messages : last' # ReplyTo(k)
    BY OutcomeIsNoReply
<1> QED
    BY <1>2, <1>3, <1>4 DEF PageInv, Settled

\* A chat request changes what is pending only by making its reply available.
LEMMA RequestInv ==
    ASSUME TypeOK, PageInv, NEW m \in Messages, Request(m)
    PROVE  /\ PageInv'
           /\ \A k \in Messages : (graph'[k] = "none") = (graph[k] = "none")
<1>1. UNCHANGED <<text, card, last, loading>>
    BY DEF Request, pageVars
<1>2. graph[m] # "none" /\ reply[m] \in {"none"} /\ graph'[m] # "none"
    BY SMTT(30), TypeParts DEF Request, Generate, PushToken, AttemptFails, Retry, GraphEnds,
        Generated, BeginHidden, HiddenFails, HiddenRetry, HiddenReturns, AdvanceHidden,
        InNode, ForgetAttempt,
        Respond, RespondError, Advance, PageInv, StreamTypeOK
<1>3. reply'[m] \in {"none", "answer", "card", "failure"}
      /\ (reply'[m] # "none" => graph'[m] = "replied")
    BY <1>2, TypeParts DEF Request, Generate, PushToken, AttemptFails, Retry, GraphEnds,
        Generated, BeginHidden, HiddenFails, HiddenRetry, HiddenReturns, AdvanceHidden,
        InNode, ForgetAttempt,
        Respond, RespondError, Advance, StreamTypeOK
<1>4. \A k \in Messages \ {m} : graph'[k] = graph[k] /\ reply'[k] = reply[k]
    BY TypeParts DEF Request, Generate, PushToken, AttemptFails, Retry, GraphEnds,
        Generated, BeginHidden, HiddenFails, HiddenRetry, HiddenReturns, AdvanceHidden,
        InNode, ForgetAttempt,
        Respond, RespondError, Advance, StreamTypeOK
<1>5. \A k \in Messages : Pending(k)' = Pending(k)
    BY <1>2, <1>3, <1>4 DEF Pending
<1> QED
    BY <1>1, <1>2, <1>3, <1>4, <1>5 DEF PageInv, Settled, pendingHitl

\* The steps that touch neither replies nor bubbles.
LEMMA QuietInv ==
    ASSUME PageInv, UNCHANGED <<graph, reply, text, card, last, loading>>
    PROVE  PageInv'
BY DEF PageInv, Pending, Settled, pendingHitl

LEMMA QuietSteps ==
    ASSUME NEW m \in Messages,
           \/ Poll(m) \/ Interrupt(m) \/ OnErrorFrame(m) \/ OnDone(m)
           \/ OnInterrupted(m) /\ ~loading
           \/ UNCHANGED vars
    PROVE  UNCHANGED <<graph, reply, text, card, last, loading>>
BY DEF Poll, Interrupt, OpenStream, ReadTokens, TrimTokens, CheckDone, TimeOut, Break,
    Abort, Cancelled, OnErrorFrame, OnDone, OnInterrupted, graphVars, pageVars, vars,
    streamVars

\* The steps that add to the last bubble.
LEMMA ShowSteps ==
    ASSUME TypeOK, NEW m \in Messages,
           OnToken(m) \/ (OnInterrupted(m) /\ loading)
    PROVE  /\ \E p \in Piece : Show(p) /\ p.what \notin {"answer", "failure"}
           /\ UNCHANGED <<graph, reply, card, last, loading>>
<1>1. CASE OnToken(m)
    <2>1. TokenPiece(m, Head(wire[m]).token) \in Piece
        BY <1>1, TypeParts, TokenArrives DEF OnToken
    <2>2. TokenPiece(m, Head(wire[m]).token).what = "token"
        BY DEF TokenPiece
    <2> QED
        BY <1>1, <2>1, <2>2 DEF OnToken, graphVars
<1>2. CASE OnInterrupted(m) /\ loading
    <2>1. Note("interrupted", m) \in Piece /\ Note("interrupted", m).what = "interrupted"
        BY NotesAreNotes DEF Note
    <2> QED
        BY <1>2, <2>1 DEF OnInterrupted, graphVars
<1> QED
    BY <1>1, <1>2

LEMMA NextInv == TypeOK /\ PageInv /\ [Next]_vars => PageInv'
<1> SUFFICES ASSUME TypeOK, PageInv, [Next]_vars PROVE PageInv'
    OBVIOUS
<1>1. ASSUME NEW m \in Messages, OnFrame(m) PROVE PageInv'
    <2>1. CASE OnToken(m) \/ (OnInterrupted(m) /\ loading)
        BY <2>1, ShowSteps, ShowInv
    <2>2. CASE OnErrorFrame(m) \/ OnDone(m) \/ (OnInterrupted(m) /\ ~loading)
        BY <2>2, QuietSteps, QuietInv
    <2> QED
        BY <1>1, <2>1, <2>2 DEF OnFrame
<1>2. ASSUME NEW m \in Messages, Poll(m) \/ Interrupt(m) PROVE PageInv'
    BY <1>2, QuietSteps, QuietInv
<1>3. CASE UNCHANGED vars
    BY <1>3, QuietInv DEF vars, streamVars, graphVars, pageVars
<1> QED
    BY <1>1, <1>2, <1>3, SendInv, RequestInv, ReplyInv, CardInv DEF Next

LEMMA InitInv == Init => PageInv
<1> SUFFICES ASSUME Init PROVE PageInv
    OBVIOUS
<1>1. \A m \in Messages : /\ graph[m] = "none" /\ reply[m] = "none"
                           /\ text[ReplyTo(m)] = <<>>
    BY BubblesOfMessage DEF Init, StreamInit
<1>2. \A m \in Messages : last # ReplyTo(m)
    BY BubblesOfMessage, NoneAssumption DEF Init
<1> QED
    BY <1>1, <1>2 DEF PageInv, Pending

\* For any number of messages, retries, tokens and cycles, the answer to a
\* message stands at the head of that message's own bubble.
THEOREM AnswerKept == Spec => []AnswerOnOwnBubble
<1>1. PageInv => AnswerOnOwnBubble
    BY DEF PageInv, AnswerOnOwnBubble, Settled
<1> QED
    BY <1>1, InitInv, NextInv, TypeCorrect, PTL DEF Spec

-----------------------------------------------------------------------------
(* The page implements ChatPromise, up to fairness.                        *)

LEMMA InitPromise == Init => Promise!Init
BY InitInv DEF Promise!Init, Promise!Messages, Messages, Init, StreamInit, Shown

\* A token or the notice of an interruption leaves a message waiting, and an
\* answered one answered.
LEMMA ShowQuiet ==
    ASSUME TypeOK, NEW p \in Piece, Show(p), p.what \notin {"answer", "failure"},
           graph' = graph, NEW k \in Messages
    PROVE  Shown(k)' = Shown(k)
<1>1. ReplyTo(k) \in Bubbles /\ PageTypeOK
    BY BubblesOfMessage, TypeParts
<1>2. CASE text[ReplyTo(k)] = <<>>
    BY <1>1, <1>2, ShowKeepsHead DEF Shown
<1>3. CASE text[ReplyTo(k)] # <<>>
    BY <1>1, <1>3, ShowKeepsHead DEF Shown
<1> QED
    BY <1>2, <1>3

\* Nothing is shown differently.
LEMMA StutterPromise ==
    ASSUME \A k \in Messages : Shown(k)' = Shown(k)
    PROVE  [Promise!Next]_(Promise!shownVars)
BY DEF Promise!shownVars

LEMMA SendPromise ==
    ASSUME TypeOK, PageInv, NEW m \in Messages, Send(m)
    PROVE  Promise!Send(m)
<1> USE DEF Send, Launch
<1>1. graph[m] = "none" /\ text' = text
    BY DEF IsNext
<1>2. graph'[m] = "running" /\ \A k \in Messages \ {m} : graph'[k] = graph[k]
    BY TypeParts DEF StreamTypeOK
<1>3. Shown(m) = "unsent" /\ Shown(m)' = "waiting"
    BY <1>1, <1>2 DEF PageInv, Shown
<1>4. \A k \in Messages \ {m} : Shown(k)' = Shown(k)
    BY <1>1, <1>2 DEF Shown
<1>5. ASSUME NEW k \in 1..(m - 1)
      PROVE  k \in Messages /\ Shown(k) \in {"answer", "failure"}
    <2>1. k \in Messages
        BY StreamAssumption DEF Messages
    <2>2. graph[k] # "none" /\ ~Pending(k)
        BY <2>1 DEF IsNext, PageInv
    <2>3. Settled(k)
        BY <2>1, <2>2 DEF Pending, PageInv
    <2> QED
        BY <2>1, <2>2, <2>3 DEF Settled, Shown, Note
<1> QED
    BY <1>3, <1>4, <1>5 DEF Promise!Send, Promise!Messages, Messages

LEMMA ReplyPromise ==
    ASSUME TypeOK, PageInv, NEW m \in Messages, OnReply(m)
    PROVE  Promise!Settle(m)
<1>1. Pending(m) /\ Settled(m)' /\ graph' = graph
    BY ReplyInv DEF OnReply, OnAnswer, OnFailure, graphVars
<1>2. Shown(m) = "waiting"
    BY <1>1 DEF Pending, PageInv, Shown
<1>3. Shown(m)' \in {"answer", "failure"}
    BY <1>1 DEF Pending, Settled, Shown, Note
<1>4. ASSUME NEW k \in Messages \ {m} PROVE Shown(k)' = Shown(k)
    <2>1. text'[ReplyTo(k)] = text[ReplyTo(k)]
        BY ReplyInv, ReplyToInjective, BubblesOfMessage, TypeParts DEF PageTypeOK
    <2> QED
        BY <1>1, <2>1 DEF Shown
<1> QED
    BY <1>2, <1>3, <1>4 DEF Promise!Settle, Promise!Messages, Messages

LEMMA NextPromise == TypeOK /\ PageInv /\ [Next]_vars => [Promise!Next]_(Promise!shownVars)
<1> SUFFICES ASSUME TypeOK, PageInv, [Next]_vars PROVE [Promise!Next]_(Promise!shownVars)
    OBVIOUS
<1>1. ASSUME NEW m \in Messages, Send(m) \/ OnReply(m)
      PROVE  Promise!Next
    BY <1>1, SendPromise, ReplyPromise DEF Promise!Next, Promise!Messages, Messages
<1>2. ASSUME NEW m \in Messages, OnFrame(m)
      PROVE  \A k \in Messages : Shown(k)' = Shown(k)
    <2>1. CASE OnToken(m) \/ (OnInterrupted(m) /\ loading)
        BY <2>1, ShowSteps, ShowQuiet
    <2>2. CASE OnErrorFrame(m) \/ OnDone(m) \/ (OnInterrupted(m) /\ ~loading)
        BY <2>2, QuietSteps DEF Shown
    <2> QED
        BY <1>2, <2>1, <2>2 DEF OnFrame
<1>3. ASSUME NEW m \in Messages, Poll(m) \/ Interrupt(m)
      PROVE  \A k \in Messages : Shown(k)' = Shown(k)
    BY <1>3, QuietSteps DEF Shown
<1>4. ASSUME NEW m \in Messages, Request(m)
      PROVE  \A k \in Messages : Shown(k)' = Shown(k)
    BY <1>4, RequestInv DEF Shown, Request, pageVars
<1>5. ASSUME NEW m \in Messages, OnHitlResolved(m)
      PROVE  \A k \in Messages : Shown(k)' = Shown(k)
    BY <1>5, CardInv DEF Shown, OnHitlResolved, streamVars, graphVars
<1>6. ASSUME UNCHANGED vars
      PROVE  \A k \in Messages : Shown(k)' = Shown(k)
    BY <1>6 DEF Shown, vars, streamVars, graphVars, pageVars
<1> QED
    BY <1>1, <1>2, <1>3, <1>4, <1>5, <1>6, StutterPromise DEF Next

\* For every value of the constants the page answers messages one at a time
\* and never replaces or takes back an answer it has shown: each of its steps
\* is a step of ChatPromise or leaves what ChatPromise sees alone.
THEOREM PageKeepsPromise == Spec => AnswersStand
<1>1. Init => TypeOK /\ PageInv
    BY InitType, InitInv
<1>2. TypeOK /\ PageInv /\ [Next]_vars => (TypeOK /\ PageInv)'
    BY NextType, NextInv
<1> QED
    BY <1>1, <1>2, InitPromise, NextPromise, PTL DEF Spec, AnswersStand

-----------------------------------------------------------------------------
(* Tokens are shown in order.                                              *)

\* What the generator has read and not yet trimmed lies behind the wire and
\* the bubbles, and ahead of what it leaves in the list, whether the list
\* still begins with it or was wiped since.
BatchInOrder(m) ==
    /\ Ordered(batch[m])
    /\ \A i \in WiredAt(m), j \in DOMAIN batch[m] : Precedes(wire[m][i].token, batch[m][j])
    /\ \A i \in DOMAIN batch[m], j \in DOMAIN list[m] :
          j > Len(batch[m]) => Precedes(batch[m][i], list[m][j])
    /\ \A b \in Bubbles : \A i \in ShownAt(m, b), j \in DOMAIN batch[m] :
          Precedes(text[b][i].token, batch[m][j])

\* A token the chat request can have pushed by now.
InReach(m, t) ==
    /\ graph[m] \notin {"none", "running"}
    /\ graph[m] = "streaming" =>
          t.attempt < attempt[m] \/ (t.attempt = attempt[m] /\ t.n <= pushed[m])
    /\ graph[m] = "backoff" => t.attempt < attempt[m]

AllInReach(m) ==
    /\ \A b \in Bubbles : \A i \in ShownAt(m, b) : InReach(m, text[b][i].token)
    /\ \A i \in WiredAt(m) : InReach(m, wire[m][i].token)
    /\ \A i \in DOMAIN batch[m] : InReach(m, batch[m][i])
    /\ \A i \in DOMAIN list[m] : InReach(m, list[m][i])

OrderOf(m) ==
    /\ WireInOrder(m)
    /\ BatchInOrder(m)
    /\ \A b \in Bubbles : ShownInOrder(m, b)
    /\ AllInReach(m)

OrderInv == \A m \in Messages : OrderOf(m)

\* The next state shows no token of m that was not shown,
TextShrinks(m) ==
    \A b \in Bubbles : \A i \in ShownAt(m, b)' :
        i \in ShownAt(m, b) /\ text'[b][i] = text[b][i]

\* ... and its wire, its list carry what is left after the first d frames or
\* tokens, followed by nothing but other frames.
WireShrinks(m, d) ==
    \A i \in WiredAt(m)' : i + d \in WiredAt(m) /\ wire'[m][i] = wire[m][i + d]

ListShrinks(m, d) ==
    \A i \in DOMAIN list'[m] : i + d \in DOMAIN list[m] /\ list'[m][i] = list[m][i + d]

\* Places are numbers.
LEMMA PlacesAreNumbers ==
    ASSUME NEW m \in Messages, StreamTypeOK
    PROVE  /\ DOMAIN list[m] \subseteq Nat
           /\ DOMAIN batch[m] \subseteq Nat
           /\ WiredAt(m) \subseteq Nat
<1>1. list[m] \in Seq(Token) /\ batch[m] \in Seq(Token) /\ wire[m] \in Seq(Frame)
  BY DEF StreamTypeOK
<1> QED BY <1>1 DEF WiredAt

\* What stands in a place of a token is a token.
LEMMA PlacedTokens ==
    ASSUME NEW m \in Messages, StreamTypeOK, PageTypeOK
    PROVE  /\ \A b \in Bubbles : \A i \in ShownAt(m, b) : text[b][i].token \in Token
           /\ \A i \in WiredAt(m) : wire[m][i].token \in Token
           /\ \A i \in DOMAIN batch[m] : batch[m][i] \in Token
           /\ \A i \in DOMAIN list[m] : list[m][i] \in Token
<1>1. \A b \in Bubbles : text[b] \in Seq(Piece)
  BY DEF PageTypeOK
<1>2. list[m] \in Seq(Token) /\ batch[m] \in Seq(Token) /\ wire[m] \in Seq(Frame)
  BY DEF StreamTypeOK
<1>3. ASSUME NEW b \in Bubbles, NEW i \in ShownAt(m, b) PROVE text[b][i].token \in Token
  <2>1. text[b][i] \in Piece /\ text[b][i].what = "token"
    BY <1>1 DEF ShownAt
  <2> QED BY <2>1 DEF Piece
<1>4. ASSUME NEW i \in WiredAt(m) PROVE wire[m][i].token \in Token
  <2>1. wire[m][i] \in Frame /\ wire[m][i].type = "token"
    BY <1>2 DEF WiredAt
  <2> QED BY <2>1 DEF Frame
<1> QED BY <1>2, <1>3, <1>4

\* Losing tokens, of whatever place, keeps the others in order.
LEMMA LossKeepsOrder ==
    ASSUME NEW m \in Messages, TypeOK, TypeOK', OrderOf(m),
           NEW d \in Nat, NEW e \in Nat,
           TextShrinks(m), WireShrinks(m, d), ListShrinks(m, e),
           batch'[m] = <<>> \/ (batch'[m] = batch[m] /\ (e = 0 \/ list'[m] = <<>>)),
           \A t \in Token : InReach(m, t) => InReach(m, t)'
    PROVE  OrderOf(m)'
<1>0. /\ DOMAIN list[m] \subseteq Nat /\ DOMAIN batch[m] \subseteq Nat /\ WiredAt(m) \subseteq Nat
      /\ WiredAt(m)' \subseteq Nat /\ DOMAIN list'[m] \subseteq Nat
  <2>1. list'[m] \in Seq(Token) /\ wire'[m] \in Seq(Frame)
    BY DEF TypeOK, StreamTypeOK
  <2>2. WiredAt(m)' \subseteq Nat /\ DOMAIN list'[m] \subseteq Nat
    BY <2>1 DEF WiredAt
  <2> QED BY <2>2, PlacesAreNumbers, TypeParts
<1>1. \A i, j \in WiredAt(m)' : i < j => i + d < j + d
  BY <1>0
<1>2. \A i, j \in DOMAIN list'[m] : i < j => i + e < j + e
  BY <1>0
<1>3. WireInOrder(m)'
  <2>1. \A i, j \in WiredAt(m)' : i < j => Precedes(wire'[m][i].token, wire'[m][j].token)
    BY <1>1 DEF OrderOf, WireInOrder, WireShrinks
  <2>2. \A i \in WiredAt(m)', j \in DOMAIN list'[m] : Precedes(wire'[m][i].token, list'[m][j])
    BY DEF OrderOf, WireInOrder, WireShrinks, ListShrinks
  <2>3. Ordered(list'[m])
    BY <1>2 DEF OrderOf, WireInOrder, ListShrinks, Ordered
  <2> QED BY <2>1, <2>2, <2>3 DEF WireInOrder, Ordered, Precedes
<1>4. \A b \in Bubbles : ShownInOrder(m, b)'
  BY DEF OrderOf, ShownInOrder, TextShrinks, WireShrinks, ListShrinks, Precedes
<1>5. BatchInOrder(m)'
  <2>1. CASE batch'[m] = <<>>
    BY <2>1 DEF BatchInOrder, Ordered
  <2>2. CASE batch'[m] = batch[m] /\ (e = 0 \/ list'[m] = <<>>)
    <3>1. Ordered(batch[m])'
      BY <2>2 DEF OrderOf, BatchInOrder, Ordered, Precedes
    <3>2. \A i \in WiredAt(m)', j \in DOMAIN batch'[m] :
            Precedes(wire'[m][i].token, batch'[m][j])
      BY <2>2 DEF OrderOf, BatchInOrder, WireShrinks
    <3>3. \A i \in DOMAIN batch'[m], j \in DOMAIN list'[m] :
            j > Len(batch'[m]) => Precedes(batch'[m][i], list'[m][j])
      <4>1. CASE list'[m] = <<>>
        BY <4>1
      <4>2. CASE e = 0
        <5>1. \A j \in DOMAIN list'[m] : j \in DOMAIN list[m] /\ list'[m][j] = list[m][j]
          BY <4>2, <1>0 DEF ListShrinks
        <5> QED BY <2>2, <5>1 DEF OrderOf, BatchInOrder
      <4> QED BY <2>2, <4>1, <4>2
    <3>4. \A b \in Bubbles : \A i \in ShownAt(m, b)', j \in DOMAIN batch'[m] :
            Precedes(text'[b][i].token, batch'[m][j])
      BY <2>2 DEF OrderOf, BatchInOrder, TextShrinks
    <3> QED BY <3>1, <3>2, <3>3, <3>4 DEF BatchInOrder, Precedes
  <2> QED BY <2>1, <2>2
<1>6. AllInReach(m)'
  <2> DEFINE Kept(t) == t \in Token /\ InReach(m, t)
  <2>1. /\ \A b \in Bubbles : \A i \in ShownAt(m, b) : Kept(text[b][i].token)
        /\ \A i \in WiredAt(m) : Kept(wire[m][i].token)
        /\ \A i \in DOMAIN batch[m] : Kept(batch[m][i])
        /\ \A i \in DOMAIN list[m] : Kept(list[m][i])
    BY PlacedTokens, TypeParts DEF OrderOf, AllInReach
  <2>2. \A t : Kept(t) => InReach(m, t)'
    OBVIOUS
  <2> HIDE DEF Kept
  <2>3. ASSUME NEW b \in Bubbles, NEW i \in ShownAt(m, b)' PROVE InReach(m, text[b][i].token)'
    <3>1. PICK t : t = text[b][i].token /\ Kept(t) /\ text'[b][i].token = t
      BY <2>1 DEF TextShrinks
    <3> QED BY <2>2, <3>1 DEF InReach
  <2>4. ASSUME NEW i \in WiredAt(m)' PROVE InReach(m, wire[m][i].token)'
    <3>1. PICK t : t = wire[m][i + d].token /\ Kept(t) /\ wire'[m][i].token = t
      BY <2>1 DEF WireShrinks
    <3> QED BY <2>2, <3>1 DEF InReach
  <2>5. ASSUME NEW i \in DOMAIN list[m]' PROVE InReach(m, list[m][i])'
    <3>1. PICK t : t = list[m][i + e] /\ Kept(t) /\ list'[m][i] = t
      BY <2>1 DEF ListShrinks
    <3> QED BY <2>2, <3>1 DEF InReach
  <2>6. ASSUME NEW i \in DOMAIN batch[m]' PROVE InReach(m, batch[m][i])'
    <3>1. PICK t : t = batch[m][i] /\ Kept(t) /\ batch'[m][i] = t
      BY <2>1, <2>6
    <3> QED BY <2>2, <3>1 DEF InReach
  <2> QED BY ONLY <2>3, <2>4, <2>5, <2>6 DEF AllInReach
<1> QED BY <1>3, <1>4, <1>5, <1>6 DEF OrderOf

\* What is on its way in the batch, the list and the wire of a message of
\* which nothing changes but the bubbles.
LEMMA OthersKeepOrder ==
    ASSUME NEW m \in Messages, TypeOK, TypeOK', OrderOf(m), TextShrinks(m),
           wire'[m] = wire[m], list'[m] = list[m], batch'[m] = batch[m],
           \A t \in Token : InReach(m, t) => InReach(m, t)'
    PROVE  OrderOf(m)'
<1>1. WireShrinks(m, 0) /\ ListShrinks(m, 0)
  <2>1. DOMAIN list[m] \subseteq Nat /\ WiredAt(m) \subseteq Nat /\ WiredAt(m)' = WiredAt(m)
    BY PlacesAreNumbers, TypeParts DEF WiredAt
  <2> QED BY <2>1 DEF WireShrinks, ListShrinks
<1> QED BY <1>1, LossKeepsOrder

\* Unchanged bubbles show what they showed.
LEMMA SameText == ASSUME UNCHANGED text, NEW m PROVE TextShrinks(m)
BY DEF TextShrinks, ShownAt

\* A bubble that gets a piece of another message, or a note, and one that is
\* replaced by a note, show no new token.
LEMMA NoteShrinks ==
    ASSUME NEW m \in Messages, TypeOK, NEW b \in Bubbles, NEW p \in Piece,
           p.what # "token" \/ p.of # m,
           text' = [text EXCEPT ![b] = <<p>>] \/ text' = [text EXCEPT ![b] = Append(@, p)]
    PROVE  TextShrinks(m)
<1>1. text \in [Bubbles -> Seq(Piece)]
  BY TypeParts DEF PageTypeOK
<1>2. ASSUME NEW c \in Bubbles, c # b
      PROVE  \A i \in ShownAt(m, c)' : i \in ShownAt(m, c) /\ text'[c][i] = text[c][i]
  BY <1>1, <1>2 DEF ShownAt
<1>3. \A i \in ShownAt(m, b)' : i \in ShownAt(m, b) /\ text'[b][i] = text[b][i]
  <2>1. CASE text' = [text EXCEPT ![b] = <<p>>]
    BY <1>1, <2>1 DEF ShownAt
  <2>2. CASE text' = [text EXCEPT ![b] = Append(@, p)]
    <3>1. text'[b] = Append(text[b], p) /\ text[b] \in Seq(Piece)
      BY <1>1, <2>2
    <3>2. /\ DOMAIN text'[b] = 1..(Len(text[b]) + 1) /\ text'[b][Len(text[b]) + 1] = p
          /\ DOMAIN text[b] = 1..Len(text[b]) /\ Len(text[b]) \in Nat
          /\ \A i \in 1..Len(text[b]) : text'[b][i] = text[b][i]
      BY <3>1
    <3> QED BY <3>2 DEF ShownAt
  <2> QED BY <2>1, <2>2
<1> QED BY <1>2, <1>3 DEF TextShrinks

\* A pushed token is later than every token seen so far.
LEMMA PushKeepsOrder ==
    ASSUME NEW m \in Messages, TypeOK, TypeOK', OrderOf(m), PushToken(m), UNCHANGED pageVars
    PROVE  OrderOf(m)'
<1>0. /\ text' = text /\ wire' = wire /\ batch' = batch /\ graph' = graph /\ attempt' = attempt
      /\ graph[m] = "streaming"
  BY DEF PushToken, pageVars, sseVars, netVars
<1>1. /\ pushed[m] \in Nat /\ pushed'[m] = pushed[m] + 1
  BY TypeParts, StreamAssumption DEF PushToken, StreamTypeOK
<1>2. \A t : t.n \in Nat /\ InReach(m, t) => InReach(m, t)'
  BY <1>0, <1>1 DEF InReach
<1>3. /\ \A b \in Bubbles : \A i \in ShownAt(m, b) : text[b][i].token \in Token
      /\ \A i \in WiredAt(m) : wire[m][i].token \in Token
      /\ \A i \in DOMAIN batch[m] : batch[m][i] \in Token
      /\ \A i \in DOMAIN list[m] : list[m][i] \in Token
  BY PlacedTokens, TypeParts
<1>4. \A t \in Token : t.n \in Nat
  BY StreamAssumption DEF Token
<1>5. AllInReach(m)' <=> \A i \in DOMAIN list'[m] : InReach(m, list[m][i])'
  BY <1>0, <1>2, <1>3, <1>4 DEF AllInReach, OrderOf, ShownAt, WiredAt, InReach
<1>6. CASE UNCHANGED list
  <2>1. AllInReach(m)'
    BY <1>0, <1>1, <1>3, <1>4, <1>5, <1>6 DEF AllInReach, OrderOf, InReach
  <2> QED BY <1>0, <1>6, <2>1 DEF OrderOf, WireInOrder, BatchInOrder, ShownInOrder, ShownAt,
        WiredAt, Ordered, Precedes
<1>7. CASE list' = [list EXCEPT ![m] =
                      Append(@, [attempt |-> attempt[m], n |-> pushed[m] + 1])]
  <2>a. PICK size \in Nat : size = Len(list[m])
    BY TypeParts DEF StreamTypeOK
  <2>b. PICK new : new = [attempt |-> attempt[m], n |-> pushed[m] + 1]
    OBVIOUS
  <2>0. new.attempt = attempt[m] /\ new.n = pushed[m] + 1
    BY <2>b
  <2>1. /\ list[m] \in Seq(Token) /\ list'[m] = Append(list[m], new)
    BY <1>7, <2>b, TypeParts DEF StreamTypeOK
  <2>2. /\ DOMAIN list'[m] = 1..(size + 1) /\ list'[m][size + 1] = new /\ size \in Nat
        /\ DOMAIN list[m] = 1..size /\ \A i \in 1..size : list'[m][i] = list[m][i]
    BY <2>a, <2>1
  <2>c. \A j \in DOMAIN list'[m] :
          (j \in DOMAIN list[m] /\ list'[m][j] = list[m][j]) \/ list'[m][j] = new
    BY <2>2
  <2>3. \A t \in Token : InReach(m, t) => Precedes(t, new)
    BY <1>0, <1>1, <1>4, <2>0 DEF InReach, Precedes
  <2>4. /\ \A b \in Bubbles : \A i \in ShownAt(m, b) : Precedes(text[b][i].token, new)
        /\ \A i \in WiredAt(m) : Precedes(wire[m][i].token, new)
        /\ \A i \in DOMAIN batch[m] : Precedes(batch[m][i], new)
        /\ \A i \in DOMAIN list[m] : Precedes(list[m][i], new)
    BY <1>3, <2>3 DEF OrderOf, AllInReach
  <2>5. AllInReach(m)'
    <3>1. InReach(m, list[m][size + 1])'
      <4>1. list'[m][size + 1] = new
        BY <2>2
      <4> QED BY <1>0, <1>1, <2>0, <4>1 DEF InReach
    <3>2. \A i \in 1..size : InReach(m, list[m][i])'
      <4> TAKE i \in 1..size
      <4>1. PICK t : t = list[m][i] /\ t \in Token /\ InReach(m, t)
        BY <1>3, <2>2 DEF OrderOf, AllInReach
      <4>2. InReach(m, t)' /\ list'[m][i] = t
        BY <1>2, <1>4, <2>2, <4>1
      <4> QED BY <4>2 DEF InReach
    <3> QED BY <1>5, <2>2, <3>1, <3>2 DEF InReach
  <2>6. WireInOrder(m)'
    <3>1. ASSUME NEW i \in DOMAIN list'[m], NEW j \in DOMAIN list'[m], i < j
          PROVE  Precedes(list'[m][i], list'[m][j])
      <4>1. i \in 1..size /\ (j \in 1..size \/ j = size + 1)
        BY <2>2, <3>1
      <4> QED BY <2>2, <2>4, <3>1, <4>1 DEF Ordered, OrderOf, WireInOrder
    <3>2. \A i \in WiredAt(m), j \in DOMAIN list'[m] : Precedes(wire[m][i].token, list'[m][j])
      BY <2>c, <2>4 DEF OrderOf, WireInOrder
    <3> QED BY <1>0, <3>1, <3>2 DEF OrderOf, WireInOrder, WiredAt, Ordered, Precedes
  <2>7. BatchInOrder(m)'
    <3>1. \A i \in DOMAIN batch[m], j \in DOMAIN list'[m] :
            j > Len(batch[m]) => Precedes(batch[m][i], list'[m][j])
      BY <2>c, <2>4 DEF OrderOf, BatchInOrder
    <3> QED BY <1>0, <3>1 DEF OrderOf, BatchInOrder, WiredAt, ShownAt, Ordered, Precedes
  <2>8. ASSUME NEW b \in Bubbles PROVE ShownInOrder(m, b)'
    <3>1. \A i \in ShownAt(m, b), j \in DOMAIN list'[m] : Precedes(text[b][i].token, list'[m][j])
      BY <2>c, <2>4 DEF OrderOf, ShownInOrder
    <3> QED BY <1>0, <3>1 DEF OrderOf, ShownInOrder, WiredAt, ShownAt, Precedes
  <2> QED BY <2>5, <2>6, <2>7, <2>8 DEF OrderOf
<1> QED BY <1>6, <1>7 DEF PushToken

\* What is read is what the list holds: it has its place.
LEMMA ReadKeepsOrder ==
    ASSUME NEW m \in Messages, TypeOK, OrderOf(m), ReadTokens(m), UNCHANGED pageVars
    PROVE  OrderOf(m)'
<1>1. /\ text' = text /\ wire' = wire /\ list' = list /\ batch'[m] = list[m]
      /\ graph' = graph /\ attempt' = attempt /\ pushed' = pushed
  BY TypeParts DEF ReadTokens, pageVars, redisVars, graphVars, netVars, StreamTypeOK
<1>2. WireInOrder(m)' /\ \A b \in Bubbles : ShownInOrder(m, b)'
  BY <1>1 DEF OrderOf, WireInOrder, ShownInOrder, WiredAt, ShownAt, Ordered, Precedes
<1>3. BatchInOrder(m)'
  <2>1. Ordered(list[m]) /\ \A i \in WiredAt(m), j \in DOMAIN list[m] :
                               Precedes(wire[m][i].token, list[m][j])
    BY DEF OrderOf, WireInOrder
  <2>2. \A b \in Bubbles : \A i \in ShownAt(m, b), j \in DOMAIN list[m] :
          Precedes(text[b][i].token, list[m][j])
    BY DEF OrderOf, ShownInOrder
  <2>3. \A j \in DOMAIN list[m] : ~(j > Len(list[m]))
    <3>1. list[m] \in Seq(Token)
      BY TypeParts DEF StreamTypeOK
    <3> QED BY <3>1
  <2> QED BY <1>1, <2>1, <2>2, <2>3 DEF BatchInOrder, Ordered, WiredAt, ShownAt, Precedes
<1>4. AllInReach(m)'
  BY <1>1 DEF OrderOf, AllInReach, WiredAt, ShownAt, InReach
<1> QED BY <1>2, <1>3, <1>4 DEF OrderOf

\* A token that arrives goes from the head of the wire to the end of the last
\* bubble.
LEMMA TokenKeepsOrder ==
    ASSUME NEW m \in Messages, TypeOK, TypeOK', OrderOf(m), OnToken(m)
    PROVE  OrderOf(m)'
<1>1. /\ list' = list /\ batch' = batch /\ graph' = graph /\ attempt' = attempt
      /\ pushed' = pushed /\ wire[m] # <<>> /\ wire'[m] = Tail(wire[m])
      /\ wire[m] \in Seq(Frame) /\ Head(wire[m]).type = "token"
  BY TypeParts DEF OnToken, Arrives, redisVars, graphVars, sseVars, StreamTypeOK
<1>2. PICK size \in Nat : size = Len(wire[m]) /\ size > 0
  BY <1>1
<1>3. /\ DOMAIN wire[m] = 1..size /\ DOMAIN wire'[m] = 1..(size - 1) /\ 1 \in WiredAt(m)
      /\ \A i \in 1..(size - 1) : wire'[m][i] = wire[m][i + 1]
      /\ Head(wire[m]) = wire[m][1]
  <2>1. /\ DOMAIN wire[m] = 1..size /\ Head(wire[m]) = wire[m][1]
    BY <1>1, <1>2
  <2>2. /\ Len(Tail(wire[m])) = size - 1
        /\ \A i \in 1..(size - 1) : Tail(wire[m])[i] = wire[m][i + 1]
    BY <1>1, <1>2, HeadTailProperties
  <2>3. DOMAIN Tail(wire[m]) = 1..(size - 1)
    BY <1>1, <2>2, HeadTailProperties
  <2> QED BY <1>1, <1>2, <2>1, <2>2, <2>3 DEF WiredAt
<1>4. WireShrinks(m, 1) /\ ListShrinks(m, 0)
  <2>1. DOMAIN list[m] \subseteq Nat
    BY PlacesAreNumbers, TypeParts
  <2> QED BY <1>1, <1>2, <1>3, <2>1 DEF WireShrinks, ListShrinks, WiredAt
<1>5. CASE last \notin Bubbles
  <2>1. text' = text
    BY <1>5, TypeParts DEF OnToken, Show, PageTypeOK
  <2>2. TextShrinks(m)
    BY <2>1, SameText
  <2> QED BY <1>1, <1>4, <2>2, LossKeepsOrder DEF InReach
<1>6. CASE last \in Bubbles
  <2>1. PICK t : t = wire[m][1].token
    OBVIOUS
  <2>2. /\ text[last] \in Seq(Piece) /\ text'[last] = Append(text[last], TokenPiece(m, t))
        /\ \A c \in Bubbles : c # last => text'[c] = text[c]
    BY <1>3, <1>6, <2>1, TypeParts DEF OnToken, Show, PageTypeOK
  <2>3. PICK n \in Nat : n = Len(text[last])
    BY <2>2
  <2>4. /\ DOMAIN text[last] = 1..n /\ DOMAIN text'[last] = 1..(n + 1)
        /\ text'[last][n + 1] = TokenPiece(m, t)
        /\ \A i \in 1..n : text'[last][i] = text[last][i]
    BY <2>2, <2>3
  <2>5. ShownAt(m, last) \subseteq 1..n
    BY <2>4 DEF ShownAt
  <2>6. ASSUME NEW b \in Bubbles, NEW i \in ShownAt(m, b)'
        PROVE  \/ i \in ShownAt(m, b) /\ text'[b][i] = text[b][i]
               \/ b = last /\ i = n + 1 /\ text'[b][i].token = t
    <3>1. CASE b = last
      <4>1. i \in 1..(n + 1) /\ text'[b][i].what = "token" /\ text'[b][i].of = m
        BY <2>4, <2>6, <3>1 DEF ShownAt
      <4>2. CASE i \in 1..n
        BY <2>4, <3>1, <4>1, <4>2 DEF ShownAt
      <4>3. CASE i = n + 1
        BY <2>4, <3>1, <4>3 DEF TokenPiece
      <4> QED BY <4>1, <4>2, <4>3
    <3>2. CASE b # last
      BY <2>2, <2>6, <3>2 DEF ShownAt
    <3> QED BY <3>1, <3>2
  <2>7. \A i \in WiredAt(m)' : i + 1 \in WiredAt(m) /\ wire'[m][i] = wire[m][i + 1] /\ 1 < i + 1
    BY <1>2, <1>3 DEF WiredAt
  <2>8. /\ \A b \in Bubbles : \A i \in ShownAt(m, b) : Precedes(text[b][i].token, t)
        /\ \A i \in WiredAt(m)' : Precedes(t, wire'[m][i].token)
        /\ \A i \in DOMAIN list[m] : Precedes(t, list[m][i])
        /\ \A i \in DOMAIN batch[m] : Precedes(t, batch[m][i])
        /\ InReach(m, t)
    BY <1>3, <2>1, <2>7 DEF OrderOf, ShownInOrder, WireInOrder, BatchInOrder, AllInReach
  <2>9. WireInOrder(m)'
    <3>1. \A i, j \in WiredAt(m)' : i < j => Precedes(wire'[m][i].token, wire'[m][j].token)
      <4>1. WiredAt(m)' \subseteq Nat
        BY <1>2, <1>3 DEF WiredAt
      <4>2. \A i, j \in WiredAt(m)' : i < j => i + 1 < j + 1
        BY <4>1
      <4> QED BY <2>7, <4>2 DEF OrderOf, WireInOrder
    <3>2. \A i \in WiredAt(m)', j \in DOMAIN list[m] : Precedes(wire'[m][i].token, list[m][j])
      BY <2>7 DEF OrderOf, WireInOrder
    <3>3. Ordered(list[m])'
      BY <1>1 DEF OrderOf, WireInOrder, Ordered, Precedes
    <3> QED BY <1>1, <3>1, <3>2, <3>3 DEF WireInOrder, Precedes
  <2>10. ASSUME NEW b \in Bubbles PROVE ShownInOrder(m, b)'
    <3>1. ASSUME NEW i \in ShownAt(m, b)', NEW j \in ShownAt(m, b)', i < j
          PROVE  Precedes(text'[b][i].token, text'[b][j].token)
      <4>1. i \in ShownAt(m, b) /\ text'[b][i] = text[b][i]
        <5>1. CASE b = last
          <6>1. ShownAt(m, b)' \subseteq 1..(n + 1)
            BY <2>4, <5>1 DEF ShownAt
          <6>2. i # n + 1
            BY <3>1, <6>1
          <6> QED BY <2>6, <6>2
        <5>2. CASE b # last
          BY <2>6, <5>2
        <5> QED BY <5>1, <5>2
      <4> QED BY <2>6, <2>8, <3>1, <4>1 DEF OrderOf, ShownInOrder
    <3>2. \A i \in ShownAt(m, b)', j \in WiredAt(m)' :
            Precedes(text'[b][i].token, wire'[m][j].token)
      BY <2>6, <2>7, <2>8 DEF OrderOf, ShownInOrder
    <3>3. \A i \in ShownAt(m, b)', j \in DOMAIN list[m] : Precedes(text'[b][i].token, list[m][j])
      BY <2>6, <2>8 DEF OrderOf, ShownInOrder
    <3> QED BY <1>1, <3>1, <3>2, <3>3 DEF ShownInOrder, Precedes
  <2>11. BatchInOrder(m)'
    <3>1. \A i \in WiredAt(m)', j \in DOMAIN batch[m] :
            Precedes(wire'[m][i].token, batch[m][j])
      BY <2>7 DEF OrderOf, BatchInOrder
    <3>2. \A b \in Bubbles : \A i \in ShownAt(m, b)', j \in DOMAIN batch[m] :
            Precedes(text'[b][i].token, batch[m][j])
      BY <2>6, <2>8 DEF OrderOf, BatchInOrder
    <3>3. Ordered(batch[m])'
      BY <1>1 DEF OrderOf, BatchInOrder, Ordered, Precedes
    <3>4. \A i \in DOMAIN batch[m], j \in DOMAIN list[m] :
            j > Len(batch[m]) => Precedes(batch[m][i], list[m][j])
      BY DEF OrderOf, BatchInOrder
    <3>5. \A i \in WiredAt(m)', j \in DOMAIN batch[m]' :
            Precedes(wire[m][i].token, batch[m][j])'
      BY <1>1, <3>1 DEF Precedes
    <3>6. \A b \in Bubbles : \A i \in ShownAt(m, b)', j \in DOMAIN batch[m]' :
            Precedes(text[b][i].token, batch[m][j])'
      BY <1>1, <3>2 DEF Precedes
    <3>7. \A i \in DOMAIN batch[m]', j \in DOMAIN list[m]' :
            j > Len(batch[m])' => Precedes(batch[m][i], list[m][j])'
      BY <1>1, <3>4 DEF Precedes
    <3> QED BY ONLY <3>3, <3>5, <3>6, <3>7 DEF BatchInOrder
  <2>12. AllInReach(m)'
    <3>1. \A b \in Bubbles : \A i \in ShownAt(m, b)' : InReach(m, text'[b][i].token)
      BY <2>6, <2>8 DEF OrderOf, AllInReach
    <3>2. \A i \in WiredAt(m)' : InReach(m, wire'[m][i].token)
      BY <2>7 DEF OrderOf, AllInReach
    <3>3. /\ \A i \in DOMAIN batch[m] : InReach(m, batch[m][i])
          /\ \A i \in DOMAIN list[m] : InReach(m, list[m][i])
      BY DEF OrderOf, AllInReach
    <3>4. /\ \A b \in Bubbles : \A i \in ShownAt(m, b)' : InReach(m, text[b][i].token)'
          /\ \A i \in WiredAt(m)' : InReach(m, wire[m][i].token)'
      BY <1>1, <3>1, <3>2 DEF InReach
    <3>5. /\ \A i \in DOMAIN batch[m]' : InReach(m, batch[m][i])'
          /\ \A i \in DOMAIN list[m]' : InReach(m, list[m][i])'
      BY <1>1, <3>3 DEF InReach
    <3> QED BY ONLY <3>4, <3>5 DEF AllInReach
  <2> QED BY <2>9, <2>10, <2>11, <2>12 DEF OrderOf
<1> QED BY <1>5, <1>6

\* What a sequence holds after its first d elements, and after it is extended.
LEMMA Rest ==
    ASSUME NEW S, NEW s \in Seq(S), NEW d \in Nat, NEW rest, rest = SubSeq(s, d + 1, Len(s))
    PROVE  /\ rest \in Seq(S)
           /\ \A i \in DOMAIN rest : i + d \in DOMAIN s /\ rest[i] = s[i + d] /\ i + d > d
<1>1. PICK n \in Nat : n = Len(s) /\ DOMAIN s = 1..n
  OBVIOUS
<1>2. PICK k \in Int : k = d + 1
  OBVIOUS
<1>3. \A i \in k..n : s[i] \in S
  <2>1. \A i \in k..n : i \in 1..n
    BY <1>2
  <2> QED BY <1>1, <2>1
<1>4. /\ rest \in Seq(S) /\ Len(rest) = IF k <= n THEN n - k + 1 ELSE 0
      /\ \A i \in 1..(n - k + 1) : rest[i] = s[k + i - 1]
  <2>1. rest = SubSeq(s, k, n)
    BY <1>1, <1>2
  <2>2. n \in Int
    BY <1>1
  <2>3. /\ SubSeq(s, k, n) \in Seq(S)
        /\ Len(SubSeq(s, k, n)) = IF k <= n THEN n - k + 1 ELSE 0
        /\ \A i \in 1..(n - k + 1) : SubSeq(s, k, n)[i] = s[k + i - 1]
    BY ONLY <1>3, <2>2, k \in Int, SubSeqProperties
  <2> HIDE <1>1, <1>2
  <2> QED BY ONLY <2>1, <2>3
<1>5. DOMAIN rest \subseteq 1..(n - d)
  <2>1. DOMAIN rest = 1..Len(rest)
    BY <1>4
  <2> QED BY <1>2, <1>4, <2>1
<1>6. ASSUME NEW i \in DOMAIN rest PROVE i + d \in DOMAIN s /\ rest[i] = s[i + d] /\ i + d > d
  <2>1. i \in 1..(n - d) /\ i \in 1..(n - k + 1) /\ k + i - 1 = i + d
    BY <1>2, <1>5, <1>6
  <2>2. rest[i] = s[i + d]
    BY <1>4, <2>1
  <2> QED BY <1>1, <2>1, <2>2
<1> QED BY <1>4, <1>6

LEMMA Extended ==
    ASSUME NEW S, NEW s \in Seq(S), NEW r \in Seq(S)
    PROVE  /\ DOMAIN (s \o r) = 1..(Len(s) + Len(r))
           /\ \A i \in DOMAIN s : (s \o r)[i] = s[i]
           /\ \A i \in DOMAIN r : (s \o r)[Len(s) + i] = r[i]
<1>1. /\ s \o r \in Seq(S) /\ Len(s \o r) = Len(s) + Len(r)
      /\ Len(s) \in Nat /\ Len(r) \in Nat /\ DOMAIN s = 1..Len(s) /\ DOMAIN r = 1..Len(r)
  OBVIOUS
<1>2. \A i \in 1..(Len(s) + Len(r)) :
        (s \o r)[i] = IF i <= Len(s) THEN s[i] ELSE r[i - Len(s)]
  BY ConcatProperties
<1>3. ASSUME NEW i \in DOMAIN r PROVE (s \o r)[Len(s) + i] = r[i]
  BY <1>1, <1>2
<1> QED BY <1>1, <1>2, <1>3

\* The trim drops as many tokens as were read, and these go to the end of the
\* wire, or nowhere when the page has hung up.
LEMMA TrimKeepsOrder ==
    ASSUME NEW m \in Messages, TypeOK, TypeOK', OrderOf(m), TrimTokens(m), UNCHANGED pageVars
    PROVE  OrderOf(m)'
<1>1. /\ text' = text /\ batch'[m] = <<>> /\ graph' = graph /\ attempt' = attempt
      /\ pushed' = pushed /\ list[m] \in Seq(Token) /\ batch[m] \in Seq(Token)
      /\ list'[m] = SubSeq(list[m], Len(batch[m]) + 1, Len(list[m]))
      /\ wire[m] \in Seq(Frame)
  BY TypeParts DEF TrimTokens, pageVars, graphVars, StreamTypeOK
<1>2. PICK d \in Nat : d = Len(batch[m])
  BY <1>1
<1>3. /\ DOMAIN batch[m] = 1..d
      /\ ListShrinks(m, d) /\ \A i \in DOMAIN list'[m] : i + d > d
  <2>1. DOMAIN batch[m] = 1..d
    BY <1>1, <1>2
  <2>2. list'[m] = SubSeq(list[m], d + 1, Len(list[m]))
    BY <1>1, <1>2
  <2>3. \A i \in DOMAIN list'[m] :
          i + d \in DOMAIN list[m] /\ list'[m][i] = list[m][i + d] /\ i + d > d
    BY <1>1, <2>2, Rest
  <2> QED BY <2>1, <2>3 DEF ListShrinks
<1>4. CASE m \notin connected
  <2>1. wire' = wire
    BY <1>4 DEF TrimTokens, Emit
  <2>2. WireShrinks(m, 0)
    <3>1. WiredAt(m)' = WiredAt(m) /\ WiredAt(m) \subseteq Nat
      BY <2>1, PlacesAreNumbers, TypeParts DEF WiredAt
    <3> QED BY <2>1, <3>1 DEF WireShrinks
  <2>3. \A t \in Token : InReach(m, t) => InReach(m, t)'
    BY <1>1 DEF InReach
  <2> QED BY <1>1, <1>3, <2>2, <2>3, SameText, LossKeepsOrder
<1>5. CASE m \in connected
  <2>1. PICK n \in Nat : n = Len(wire[m])
    BY <1>1
  <2>2. /\ DOMAIN wire[m] = 1..n /\ DOMAIN wire'[m] = 1..(n + d)
        /\ \A i \in 1..n : wire'[m][i] = wire[m][i]
        /\ \A i \in 1..d : wire'[m][n + i] = TokenFrame(batch[m][i])
    <3>1. TokenFrames(batch[m]) \in Seq(Frame)
      BY <1>1, TokenFramesType
    <3>2. /\ DOMAIN TokenFrames(batch[m]) = 1..d
          /\ \A i \in 1..d : TokenFrames(batch[m])[i] = TokenFrame(batch[m][i])
      BY <1>3 DEF TokenFrames
    <3>3. Len(TokenFrames(batch[m])) = d
      BY <1>2, <3>1, <3>2
    <3>4. wire'[m] = wire[m] \o TokenFrames(batch[m])
      BY <1>5, TypeParts DEF TrimTokens, Emit, StreamTypeOK
    <3>5. DOMAIN wire[m] = 1..n
      BY <1>1, <2>1
    <3>6. /\ DOMAIN wire'[m] = 1..(n + d)
          /\ \A i \in DOMAIN wire[m] : wire'[m][i] = wire[m][i]
          /\ \A i \in DOMAIN TokenFrames(batch[m]) : wire'[m][n + i] = TokenFrames(batch[m])[i]
      <4>1. PICK w \in Seq(Frame), r \in Seq(Frame) :
              w = wire[m] /\ r = TokenFrames(batch[m])
        BY <1>1, <3>1
      <4>2. /\ DOMAIN (w \o r) = 1..(Len(w) + Len(r))
            /\ \A i \in DOMAIN w : (w \o r)[i] = w[i]
            /\ \A i \in DOMAIN r : (w \o r)[Len(w) + i] = r[i]
        BY ONLY w \in Seq(Frame), r \in Seq(Frame), Extended
      <4>3. wire'[m] = w \o r /\ Len(w) = n /\ Len(r) = d
        BY <2>1, <3>3, <3>4, <4>1
      <4> QED BY ONLY <4>1, <4>2, <4>3, Zenon
    <3> QED BY <3>2, <3>5, <3>6
  <2>3. ASSUME NEW i \in WiredAt(m)'
        PROVE  \/ i \in WiredAt(m) /\ i \in 1..n /\ wire'[m][i] = wire[m][i]
               \/ i - n \in DOMAIN batch[m] /\ i > n /\ wire'[m][i].token = batch[m][i - n]
    <3>1. i \in 1..(n + d) /\ wire'[m][i].type = "token"
      BY <2>2, <2>3 DEF WiredAt
    <3>2. CASE i \in 1..n
      BY <2>2, <3>1, <3>2 DEF WiredAt
    <3>3. CASE i \notin 1..n
      <4>1. i - n \in 1..d /\ n + (i - n) = i
        BY <3>1, <3>3
      <4>2. wire'[m][i] = TokenFrame(batch[m][i - n])
        BY <2>2, <4>1
      <4> QED BY <1>3, <3>1, <3>3, <4>1, <4>2 DEF TokenFrame
    <3> QED BY <3>2, <3>3
  <2>4. ASSUME NEW i \in WiredAt(m)', NEW j \in WiredAt(m)', i < j
        PROVE  Precedes(wire'[m][i].token, wire'[m][j].token)
    <3>0. i \in Nat /\ j \in Nat
      BY <2>2 DEF WiredAt
    <3>1. CASE j \in WiredAt(m) /\ j \in 1..n /\ wire'[m][j] = wire[m][j]
      <4>1. i \in WiredAt(m) /\ wire'[m][i] = wire[m][i]
        BY <2>3, <2>4, <3>0, <3>1
      <4> QED BY <2>4, <3>1, <4>1 DEF OrderOf, WireInOrder
    <3>2. CASE j - n \in DOMAIN batch[m] /\ j > n /\ wire'[m][j].token = batch[m][j - n]
      <4>1. CASE i \in WiredAt(m) /\ wire'[m][i] = wire[m][i]
        BY <3>2, <4>1 DEF OrderOf, BatchInOrder
      <4>2. CASE i - n \in DOMAIN batch[m] /\ wire'[m][i].token = batch[m][i - n]
        <5>1. i - n < j - n
          BY <2>4, <3>0
        <5> QED BY <3>2, <4>2, <5>1 DEF OrderOf, BatchInOrder, Ordered
      <4> QED BY <2>3, <4>1, <4>2
    <3> QED BY <2>3, <3>1, <3>2
  <2>5. \A j \in DOMAIN list'[m] : j + d \in DOMAIN list[m] /\ list'[m][j] = list[m][j + d]
                                  /\ j + d > Len(batch[m])
    BY <1>2, <1>3 DEF ListShrinks
  <2>6. ASSUME NEW i \in WiredAt(m)', NEW j \in DOMAIN list'[m]
        PROVE  Precedes(wire'[m][i].token, list'[m][j])
    <3>1. CASE i \in WiredAt(m) /\ wire'[m][i] = wire[m][i]
      BY <2>5, <3>1 DEF OrderOf, WireInOrder
    <3>2. CASE i - n \in DOMAIN batch[m] /\ wire'[m][i].token = batch[m][i - n]
      BY <2>5, <3>2 DEF OrderOf, BatchInOrder
    <3> QED BY <2>3, <3>1, <3>2
  <2>7. Ordered(list[m])'
    <3>1. \A i, j \in DOMAIN list'[m] : i < j => i + d < j + d
      <4>1. DOMAIN list'[m] \subseteq Nat
        BY DEF TypeOK, StreamTypeOK
      <4> QED BY <4>1
    <3> QED BY <2>5, <3>1 DEF OrderOf, WireInOrder, Ordered, Precedes
  <2>8. WireInOrder(m)'
    BY <2>4, <2>6, <2>7 DEF WireInOrder, Precedes
  <2>9. ASSUME NEW b \in Bubbles PROVE ShownInOrder(m, b)'
    <3>1. ShownAt(m, b)' = ShownAt(m, b)
      BY <1>1 DEF ShownAt
    <3>2. ASSUME NEW i \in ShownAt(m, b), NEW j \in WiredAt(m)'
          PROVE  Precedes(text[b][i].token, wire'[m][j].token)
      <4>1. CASE j \in WiredAt(m) /\ wire'[m][j] = wire[m][j]
        BY <4>1 DEF OrderOf, ShownInOrder
      <4>2. CASE j - n \in DOMAIN batch[m] /\ wire'[m][j].token = batch[m][j - n]
        BY <4>2 DEF OrderOf, BatchInOrder
      <4> QED BY <2>3, <4>1, <4>2
    <3>3. \A i \in ShownAt(m, b), j \in DOMAIN list'[m] : Precedes(text[b][i].token, list'[m][j])
      BY <2>5 DEF OrderOf, ShownInOrder
    <3>4. \A i, j \in ShownAt(m, b) : i < j => Precedes(text[b][i].token, text[b][j].token)
      BY DEF OrderOf, ShownInOrder
    <3> QED BY <1>1, <3>1, <3>2, <3>3, <3>4 DEF ShownInOrder, Precedes
  <2>10. BatchInOrder(m)'
    BY <1>1 DEF BatchInOrder, Ordered
  <2>11. AllInReach(m)'
    <3>1. \A b \in Bubbles : \A i \in ShownAt(m, b)' : InReach(m, text[b][i].token)
      BY <1>1 DEF OrderOf, AllInReach, ShownAt
    <3>2. \A i \in WiredAt(m)' : InReach(m, wire'[m][i].token)
      BY <2>3 DEF OrderOf, AllInReach
    <3>3. \A i \in DOMAIN list'[m] : InReach(m, list'[m][i])
      BY <2>5 DEF OrderOf, AllInReach
    <3>4. /\ \A b \in Bubbles : \A i \in ShownAt(m, b)' : InReach(m, text[b][i].token)'
          /\ \A i \in WiredAt(m)' : InReach(m, wire[m][i].token)'
      BY <1>1, <3>1, <3>2 DEF InReach
    <3>5. /\ \A i \in DOMAIN batch[m]' : InReach(m, batch[m][i])'
          /\ \A i \in DOMAIN list[m]' : InReach(m, list[m][i])'
      <4>1. DOMAIN batch[m]' = {}
        BY <1>1
      <4>2. \A i \in DOMAIN list[m]' : InReach(m, list[m][i])'
        BY <1>1, <3>3 DEF InReach
      <4> QED BY <4>1, <4>2
    <3> QED BY ONLY <3>4, <3>5 DEF AllInReach
  <2> QED BY <2>8, <2>9, <2>10, <2>11 DEF OrderOf
<1> QED BY <1>4, <1>5

\* Nothing about m changes in a step of another message, except that the last
\* bubble shows a piece of that one.
LEMMA ForeignKeepsOrder ==
    ASSUME NEW m \in Messages, TypeOK, TypeOK', OrderOf(m), TextShrinks(m),
           UNCHANGED <<wire[m], list[m], batch[m], graph[m], attempt[m], pushed[m]>>
    PROVE  OrderOf(m)'
BY OthersKeepOrder DEF InReach

\* A step of the server that pushes, reads and trims nothing loses tokens at
\* most, and cannot make the request reach back.
LEMMA RequestKeepsOrder ==
    ASSUME NEW m \in Messages, TypeOK, TypeOK', OrderOf(m), Request(m), ~PushToken(m)
    PROVE  OrderOf(m)'
<1>1. /\ text' = text /\ wire' = wire /\ batch' = batch
      /\ list'[m] = list[m] \/ list'[m] = <<>>
  BY TypeParts DEF Request, Generate, AttemptFails, Retry, Generated, BeginHidden, HiddenFails,
        HiddenRetry, HiddenReturns, GraphEnds, Respond, RespondError, pageVars, sseVars,
        netVars, redisVars, StreamTypeOK
<1>2. \A t \in Token : InReach(m, t) => InReach(m, t)'
  <2>0. /\ graph \in [Messages -> {"none", "running", "streaming", "backoff",
                                   "written", "finished", "replied"}]
        /\ attempt[m] \in Nat /\ pushed[m] \in Nat
        /\ attempt \in [Messages -> 1..Fallback] /\ Fallback \in Nat
        /\ pushed \in [Messages -> 0..MaxTokens]
    BY TypeParts, StreamAssumption DEF StreamTypeOK, Fallback
  <2>t. \A t \in Token : t.attempt \in Nat /\ t.n \in Nat
    BY StreamAssumption DEF Token, Fallback
  <2>1. CASE graph[m] \in {"none", "running"}
    BY <2>1 DEF InReach
  <2>2. CASE graph[m] \notin {"none", "running"} /\ graph'[m] \in {"written", "finished", "replied"}
    BY <2>2 DEF InReach
  <2>3. CASE AttemptFails(m)
    <3>1. attempt'[m] \in Nat /\ attempt'[m] > attempt[m]
      BY <2>0, <2>3, StreamAssumption DEF AttemptFails, NextAttempt, Fallback
    <3>2. graph[m] = "streaming" /\ graph'[m] = "backoff"
      BY <2>0, <2>3 DEF AttemptFails, Advance
    <3> QED BY <2>0, <2>t, <3>1, <3>2 DEF InReach
  <2>4. CASE Retry(m)
    <3>1. graph[m] = "backoff" /\ graph'[m] = "streaming" /\ attempt' = attempt
      BY <2>0, <2>4 DEF Retry, Advance
    <3> QED BY <3>1 DEF InReach
  <2> QED BY <2>0, <2>1, <2>2, <2>3, <2>4 DEF Request, Generate, Generated, BeginHidden,
        HiddenFails, HiddenRetry, HiddenReturns, AdvanceHidden, InNode, GraphEnds, Respond,
        RespondError, Advance
<1>3. TextShrinks(m) /\ WireShrinks(m, 0) /\ ListShrinks(m, 0)
  <2>1. WiredAt(m)' = WiredAt(m) /\ WiredAt(m) \subseteq Nat /\ DOMAIN list[m] \subseteq Nat
    BY <1>1, PlacesAreNumbers, TypeParts DEF WiredAt
  <2> QED BY <1>1, <2>1, SameText DEF WireShrinks, ListShrinks
<1> QED BY <1>1, <1>2, <1>3, LossKeepsOrder

\* Frames without a token are put on the wire and leave the tokens in place.
LEMMA EndFrames ==
    ASSUME NEW m \in Messages, StreamTypeOK, NEW frames \in {<<Done, Eof>>, <<Error, Eof>>},
           Emit(m, frames)
    PROVE  WireShrinks(m, 0)
<1>1. frames \in Seq(Frame) /\ \A i \in DOMAIN frames : frames[i].type # "token"
  <2>1. Done \in Frame /\ Error \in Frame /\ Eof \in Frame
    BY DEF Done, Error, Eof, Frame
  <2>2. Done.type # "token" /\ Error.type # "token" /\ Eof.type # "token"
    BY DEF Done, Error, Eof
  <2>3. /\ frames \in Seq(Frame) /\ DOMAIN frames = 1..2
        /\ frames[1] \in {Done, Error} /\ frames[2] = Eof
    <3>1. CASE frames = <<Done, Eof>>
      BY <2>1, <3>1
    <3>2. CASE frames = <<Error, Eof>>
      BY <2>1, <3>2
    <3> QED BY <3>1, <3>2
  <2> QED BY <2>2, <2>3
<1>2. wire[m] \in Seq(Frame) /\ wire \in [Messages -> Seq(Frame)]
  BY DEF StreamTypeOK
<1>3. CASE m \notin connected
  <2>1. wire' = wire
    BY <1>3 DEF Emit
  <2> QED BY <2>1, PlacesAreNumbers DEF WireShrinks, WiredAt
<1>4. CASE m \in connected
  <2>1. PICK w \in Seq(Frame), r \in Seq(Frame) : w = wire[m] /\ r = frames
    BY <1>1, <1>2
  <2>2. /\ DOMAIN (w \o r) = 1..(Len(w) + Len(r))
        /\ \A i \in DOMAIN w : (w \o r)[i] = w[i]
        /\ \A i \in DOMAIN r : (w \o r)[Len(w) + i] = r[i]
    BY ONLY w \in Seq(Frame), r \in Seq(Frame), Extended
  <2>3. wire'[m] = w \o r
    BY <1>2, <1>4, <2>1 DEF Emit
  <2>4. ASSUME NEW i \in 1..(Len(w) + Len(r)), (w \o r)[i].type = "token"
        PROVE  i \in DOMAIN w
    <3>1. CASE i \notin 1..Len(w)
      <4>1. i - Len(w) \in 1..Len(r) /\ Len(w) + (i - Len(w)) = i
        BY <3>1
      <4>2. (w \o r)[i] = r[i - Len(w)]
        BY <2>2, <4>1
      <4> QED BY <1>1, <2>1, <2>4, <4>1, <4>2
    <3> QED BY <3>1
  <2>5. ASSUME NEW i \in WiredAt(m)' PROVE i + 0 \in WiredAt(m) /\ wire'[m][i] = wire[m][i + 0]
    <3>1. i \in DOMAIN w /\ i + 0 = i
      BY <2>2, <2>3, <2>4, <2>5 DEF WiredAt
    <3> QED BY <2>1, <2>2, <2>3, <2>5, <3>1 DEF WiredAt
  <2> QED BY <2>5 DEF WireShrinks
<1> QED BY <1>3, <1>4

\* So does the generator, except when it reads or trims.
LEMMA PollKeepsOrder ==
    ASSUME NEW m \in Messages, TypeOK, TypeOK', OrderOf(m), Poll(m) \/ Interrupt(m),
           ~ReadTokens(m), ~TrimTokens(m)
    PROVE  OrderOf(m)'
<1>1. /\ text' = text /\ graph' = graph /\ attempt' = attempt /\ pushed' = pushed
      /\ list'[m] = list[m] \/ list'[m] = <<>>
      /\ batch'[m] = batch[m] \/ batch'[m] = <<>>
  <2>1. /\ text' = text /\ graph' = graph /\ attempt' = attempt /\ pushed' = pushed
        /\ list' = list \/ list' = [list EXCEPT ![m] = <<>>]
        /\ batch' = batch \/ batch' = [batch EXCEPT ![m] = <<>>]
    BY DEF Poll, Interrupt, OpenStream, CheckDone, TimeOut, Break, Abort, Cancelled, Close,
          pageVars, redisVars, graphVars
  <2> QED BY <2>1, TypeParts DEF StreamTypeOK
<1>2. WireShrinks(m, 0)
  <2>1. CASE Emit(m, <<Done, Eof>>) \/ Emit(m, <<Error, Eof>>)
    BY <2>1, EndFrames, TypeParts
  <2>2. CASE UNCHANGED wire
    BY <2>2, PlacesAreNumbers, TypeParts DEF WireShrinks, WiredAt
  <2> QED BY <2>1, <2>2 DEF Poll, Interrupt, OpenStream, CheckDone, TimeOut, Break, Abort,
        Cancelled, netVars
<1>3. TextShrinks(m) /\ ListShrinks(m, 0)
  <2>1. DOMAIN list[m] \subseteq Nat
    BY PlacesAreNumbers, TypeParts
  <2> QED BY <1>1, <2>1, SameText DEF ListShrinks
<1>4. \A t \in Token : InReach(m, t) => InReach(m, t)'
  BY <1>1 DEF InReach
<1> QED BY <1>1, <1>2, <1>3, <1>4, LossKeepsOrder

\* The other handlers of the page write notes, and lose what is on the wire
\* when they hang up.
LEMMA PageKeepsOrder ==
    ASSUME NEW m \in Messages, NEW k \in Messages, TypeOK, TypeOK', OrderOf(m),
           Send(k) \/ OnErrorFrame(k) \/ OnDone(k) \/ OnInterrupted(k) \/ OnReply(k)
              \/ OnHitlResolved(k)
    PROVE  OrderOf(m)'
<1>1. /\ list' = list /\ batch' = batch /\ attempt' = attempt /\ pushed' = pushed
      /\ graph'[m] = graph[m] \/ graph[m] = "none"
  BY TypeParts DEF Send, Launch, IsNext, OnErrorFrame, OnDone, OnInterrupted, OnReply, OnAnswer,
        OnFailure, OnHitlResolved, redisVars, graphVars, sseVars, streamVars, StreamTypeOK
<1>2. TextShrinks(m)
  <2>1. CASE UNCHANGED text
    BY <2>1, SameText
  <2>2. ASSUME NEW what \in {"answer", "failure", "interrupted", "outcome"},
               NEW b \in Bubbles \cup {None},
               \/ text' = [text EXCEPT ![b] = <<Note(what, k)>>]
               \/ text' = [text EXCEPT ![b] = Append(@, Note(what, k))]
        PROVE  TextShrinks(m)
    <3>1. Note(what, k) \in Piece /\ Note(what, k).what # "token"
      BY NotesAreNotes DEF Note
    <3>2. CASE b \in Bubbles
      BY <2>2, <3>1, <3>2, NoteShrinks
    <3>3. CASE b \notin Bubbles
      <4>1. text' = text
        BY <2>2, <3>3, TypeParts DEF PageTypeOK
      <4> QED BY <4>1, SameText
    <3> QED BY <3>2, <3>3
  <2>3. last \in Bubbles \cup {None} /\ OutcomeOf(k) \in Bubbles
    BY TypeParts, BubblesOfMessage DEF PageTypeOK
  <2>4. CASE OnInterrupted(k) \/ OnReply(k) \/ OnHitlResolved(k)
    <3>1. CASE OnInterrupted(k)
      BY <2>1, <2>2, <2>3, <3>1 DEF OnInterrupted, Show
    <3>2. CASE OnReply(k)
      BY <2>2, <2>3, <3>2 DEF OnReply, OnAnswer, OnFailure
    <3>3. CASE OnHitlResolved(k)
      BY <2>2, <2>3, <3>3 DEF OnHitlResolved
    <3> QED BY <2>4, <3>1, <3>2, <3>3
  <2> QED BY <2>1, <2>4 DEF Send, Launch, OnErrorFrame, OnDone, pageVars
<1>3. \E d \in Nat : WireShrinks(m, d)
  <2>0. WiredAt(m) \subseteq Nat
    BY PlacesAreNumbers, TypeParts
  <2>1. CASE wire'[m] = wire[m]
    <3>1. WireShrinks(m, 0)
      BY <2>0, <2>1 DEF WireShrinks, WiredAt
    <3> QED BY <3>1
  <2>2. CASE wire'[m] = <<>>
    <3>1. WireShrinks(m, 0)
      BY <2>2 DEF WireShrinks, WiredAt
    <3> QED BY <3>1
  <2>3. CASE wire[m] # <<>> /\ wire'[m] = Tail(wire[m])
    <3>1. wire[m] \in Seq(Frame)
      BY TypeParts DEF StreamTypeOK
    <3>2. wire'[m] = SubSeq(wire[m], 1 + 1, Len(wire[m]))
      <4>1. Tail(wire[m]) = SubSeq(wire[m], 2, Len(wire[m]))
        BY <2>3, <3>1, TailIsSubSeq
      <4> QED BY <2>3, <4>1
    <3>3. \A i \in DOMAIN wire'[m] : i + 1 \in DOMAIN wire[m] /\ wire'[m][i] = wire[m][i + 1]
      BY <3>1, <3>2, Rest
    <3>4. WireShrinks(m, 1)
      BY <3>3 DEF WireShrinks, WiredAt
    <3> QED BY <3>4
  <2> QED BY <2>1, <2>2, <2>3, TypeParts DEF Send, Launch, OnErrorFrame, Arrives, OnDone,
        OnInterrupted, OnReply, OnAnswer, OnFailure, OnHitlResolved, HangUp, netVars, streamVars,
        StreamTypeOK
<1>4. ListShrinks(m, 0)
  BY <1>1, PlacesAreNumbers, TypeParts DEF ListShrinks
<1>5. \A t \in Token : InReach(m, t) => InReach(m, t)'
  BY <1>1 DEF InReach
<1> QED BY <1>1, <1>2, <1>3, <1>4, <1>5, LossKeepsOrder

\* The steps of the server for k leave the places of another message alone.
LEMMA OtherServerStep ==
    ASSUME NEW m \in Messages, NEW k \in Messages, k # m, TypeOK, TypeOK',
           Request(k) \/ Poll(k) \/ Interrupt(k)
    PROVE  UNCHANGED <<wire[m], list[m], batch[m], graph[m], attempt[m], pushed[m]>>
<1>0. StreamTypeOK
  BY TypeParts
<1>1. CASE Request(k)
  <2>1. wire' = wire /\ batch' = batch /\ list'[m] = list[m] /\ pushed'[m] = pushed[m]
    BY <1>0, <1>1 DEF Request, Generate, PushToken, AttemptFails, Retry, Generated, BeginHidden,
          HiddenFails, HiddenRetry, HiddenReturns, GraphEnds, Respond, RespondError,
          ForgetAttempt, sseVars, netVars, redisVars, StreamTypeOK
  <2>2. attempt'[m] = attempt[m] /\ graph'[m] = graph[m]
    BY <1>0, <1>1 DEF Request, Generate, PushToken, AttemptFails, Retry, Generated, BeginHidden,
          HiddenFails, HiddenRetry, HiddenReturns, GraphEnds, Respond, RespondError, Advance,
          NextAttempt, ForgetAttempt, StreamTypeOK
  <2> QED BY <2>1, <2>2
<1>2. CASE Poll(k) \/ Interrupt(k)
  <2>1. graph' = graph /\ attempt' = attempt /\ pushed' = pushed
    BY <1>2 DEF Poll, Interrupt, OpenStream, ReadTokens, TrimTokens, CheckDone, TimeOut, Break,
          Abort, Cancelled, graphVars
  <2>2. list'[m] = list[m] /\ batch'[m] = batch[m]
    BY <1>0, <1>2 DEF Poll, Interrupt, OpenStream, ReadTokens, TrimTokens, CheckDone, TimeOut,
          Break, Abort, Cancelled, Close, redisVars, StreamTypeOK
  <2>3. wire'[m] = wire[m]
    BY <1>0, <1>2 DEF Poll, Interrupt, OpenStream, ReadTokens, TrimTokens, CheckDone, TimeOut,
          Break, Abort, Cancelled, Emit, netVars, StreamTypeOK
  <2> QED BY <2>1, <2>2, <2>3
<1> QED BY <1>1, <1>2

\* A token of k that is shown is none of m.
LEMMA OtherToken ==
    ASSUME NEW m \in Messages, NEW k \in Messages, k # m, TypeOK, TypeOK', OnToken(k)
    PROVE  /\ TextShrinks(m)
           /\ UNCHANGED <<wire[m], list[m], batch[m], graph[m], attempt[m], pushed[m]>>
<1>1. UNCHANGED <<wire[m], list[m], batch[m], graph[m], attempt[m], pushed[m]>>
  BY TypeParts DEF OnToken, redisVars, graphVars, sseVars, StreamTypeOK
<1>2. TextShrinks(m)
  <2>1. PICK p \in Piece : p = TokenPiece(k, Head(wire[k]).token) /\ p.of # m
    BY TokenArrives, TypeParts DEF OnToken, TokenPiece
  <2>2. text' = [text EXCEPT ![last] = Append(@, p)]
    BY <2>1 DEF OnToken, Show
  <2>3. CASE last \in Bubbles
    BY <2>1, <2>2, <2>3, NoteShrinks
  <2>4. CASE last \notin Bubbles
    <3>1. text' = text
      BY <2>2, <2>4, TypeParts DEF PageTypeOK
    <3> QED BY <3>1, SameText
  <2> QED BY <2>3, <2>4
<1> QED BY <1>1, <1>2

LEMMA OrderStep == TypeOK /\ TypeOK' /\ OrderInv /\ [Next]_vars => OrderInv'
<1> SUFFICES ASSUME TypeOK, TypeOK', OrderInv, [Next]_vars, NEW m \in Messages
             PROVE  OrderOf(m)'
  BY DEF OrderInv
<1>0. OrderOf(m)
  BY DEF OrderInv
<1>1. ASSUME NEW k \in Messages, Request(k) \/ Poll(k) \/ Interrupt(k) PROVE OrderOf(m)'
  <2>0. UNCHANGED pageVars
    BY <1>1 DEF Request, Poll, Interrupt
  <2>1. CASE k = m
    BY <1>0, <1>1, <2>0, <2>1, PushKeepsOrder, ReadKeepsOrder, TrimKeepsOrder,
       RequestKeepsOrder, PollKeepsOrder
  <2>2. CASE k # m
    <3>1. UNCHANGED <<wire[m], list[m], batch[m], graph[m], attempt[m], pushed[m]>>
      BY <1>1, <2>2, OtherServerStep
    <3>2. TextShrinks(m)
      BY <2>0, SameText DEF pageVars
    <3> QED BY <1>0, <3>1, <3>2, ForeignKeepsOrder
  <2> QED BY <2>1, <2>2
<1>2. ASSUME NEW k \in Messages, OnToken(k) PROVE OrderOf(m)'
  <2>1. CASE k = m
    BY <1>0, <1>2, <2>1, TokenKeepsOrder
  <2>2. CASE k # m
    BY <1>0, <1>2, <2>2, OtherToken, ForeignKeepsOrder
  <2> QED BY <2>1, <2>2
<1>3. ASSUME NEW k \in Messages,
             Send(k) \/ OnErrorFrame(k) \/ OnDone(k) \/ OnInterrupted(k) \/ OnReply(k)
                \/ OnHitlResolved(k)
      PROVE  OrderOf(m)'
  BY <1>0, <1>3, PageKeepsOrder
<1>4. CASE UNCHANGED vars
  <2>1. UNCHANGED <<wire[m], list[m], batch[m], graph[m], attempt[m], pushed[m]>>
    BY <1>4 DEF vars, streamVars, redisVars, graphVars, sseVars, netVars
  <2>2. TextShrinks(m)
    BY <1>4, SameText DEF vars, pageVars
  <2> QED BY <1>0, <2>1, <2>2, ForeignKeepsOrder
<1> QED BY <1>1, <1>2, <1>3, <1>4 DEF Next, OnFrame

LEMMA OrderInit == Init => OrderInv
<1> SUFFICES ASSUME Init, NEW m \in Messages PROVE OrderOf(m)
  BY DEF OrderInv
<1>1. /\ list[m] = <<>> /\ batch[m] = <<>> /\ wire[m] = <<>>
      /\ \A b \in Bubbles : text[b] = <<>>
  BY DEF Init, StreamInit
<1>2. DOMAIN <<>> = {}
  OBVIOUS
<1>3. WiredAt(m) = {} /\ \A b \in Bubbles : ShownAt(m, b) = {}
  BY <1>1, <1>2 DEF WiredAt, ShownAt
<1>4. WireInOrder(m) /\ \A b \in Bubbles : ShownInOrder(m, b)
  BY <1>1, <1>2, <1>3 DEF WireInOrder, ShownInOrder, Ordered
<1>5. BatchInOrder(m) /\ AllInReach(m)
  BY <1>1, <1>2, <1>3 DEF BatchInOrder, AllInReach, Ordered
<1> QED BY <1>4, <1>5 DEF OrderOf

\* For any number of messages, retries, tokens and cycles: whatever is pushed
\* or wiped between the command that reads the list and the one that trims
\* it, whatever breaks or is retried, no bubble shows a token of a stream
\* twice, or after a later one.
THEOREM TokensStayInOrder == Spec => []TokensInOrder
<1>1. OrderInv => TokensInOrder
  BY DEF OrderInv, OrderOf, TokensInOrder
<1>2. Init => OrderInv
  BY OrderInit
<1>3. TypeOK /\ TypeOK' /\ OrderInv /\ [Next]_vars => OrderInv'
  BY OrderStep
<1> QED BY <1>1, <1>2, <1>3, TypeCorrect, PTL DEF Spec

=============================================================================
