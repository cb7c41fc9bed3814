--------------------------- MODULE StreamChannel ---------------------------
(***************************************************************************)
(* The server side of one chat request of ai-sdlc-assistant and of the     *)
(* Server-Sent Events stream opened for it.  The graph of the request      *)
(* pushes the tokens of the language model to a Redis list, through the    *)
(* provider llm.yaml names (backend/providers), and the generator of       *)
(* backend/api/routes/stream.py polls the list from another request and    *)
(* turns it into frames.  The two share nothing but the Redis keys.        *)
(*                                                                         *)
(* The agent that answers calls generate() once; every other call of the   *)
(* model, before and after, is a hidden one, through generate_text() or    *)
(* generate_structured(), which suppress the stream.                       *)
(*                                                                         *)
(* A token is the n-th chunk of the a-th attempt at the answer; attempt    *)
(* MaxRetries + 1 is the one on the fallback model of GroqProvider.        *)
(***************************************************************************)
EXTENDS Naturals, SequencesExt

CONSTANTS MaxMessages,  \* bound on the messages of the conversation
          MaxRetries,   \* _MAX_RETRIES, attempts on the primary model
          MaxTokens,    \* bound on the chunks of one attempt
          MaxCycles,    \* max_wait_cycles of the generator
          Providers     \* those a deployment may configure

ASSUME StreamAssumption ==
    /\ MaxMessages \in Nat \ {0}
    /\ MaxRetries \in Nat \ {0}
    /\ MaxTokens \in Nat
    /\ MaxCycles \in Nat
    /\ Providers \subseteq {"groq", "gemini", "openai"}

VARIABLES provider,   \* the singleton of LLMFactory
          list,       \* stream:{id}, the tokens not yet drained
          done,       \* stream:{id}:done is set
          graph,      \* how far the chat request got
          hidden,     \* the hidden call of the model it is in
          attempt,    \* the attempt generate() is in
          pushed,     \* the chunks this attempt produced so far
          reply,      \* the answer to POST /api/chat, on its way to the page
          sse,        \* how far the generator is in its polling loop
          batch,      \* its `chunks`
          cycles,     \* its `cycles`
          connected,  \* streams whose EventSource is open in the page
          wire        \* the frames on their way to the page

redisVars == <<list, done>>
graphVars == <<graph, hidden, attempt, pushed, reply>>
sseVars == <<sse, batch, cycles>>
netVars == <<connected, wire>>
streamVars == <<provider, redisVars, graphVars, sseVars, netVars>>

Messages == 1..MaxMessages
Fallback == MaxRetries + 1
Token == [attempt : 1..Fallback, n : 1..MaxTokens]
Frame == [type : {"token"}, token : Token] \cup [type : {"done", "error", "eof"}]

StreamTypeOK ==
    /\ provider \in Providers
    /\ list \in [Messages -> Seq(Token)]
    /\ done \in [Messages -> BOOLEAN]
    /\ graph \in [Messages -> {"none", "running", "streaming", "backoff",
                               "written", "finished", "replied"}]
    /\ hidden \in [Messages -> {"none", "json", "text", "pause"}]
    /\ attempt \in [Messages -> 1..Fallback]
    /\ pushed \in [Messages -> 0..MaxTokens]
    /\ reply \in [Messages -> {"none", "answer", "card", "failure", "taken"}]
    /\ sse \in [Messages -> {"none", "opening", "polling", "trim", "check", "closed"}]
    /\ batch \in [Messages -> Seq(Token)]
    /\ cycles \in [Messages -> 0..MaxCycles]
    /\ connected \in SUBSET Messages
    /\ wire \in [Messages -> Seq(Frame)]

\* LLMFactory.get_provider: the provider of llm.yaml, for good.
Configured == provider \in Providers

StreamInit ==
    /\ Configured
    /\ list = [m \in Messages |-> <<>>]
    /\ done = [m \in Messages |-> FALSE]
    /\ graph = [m \in Messages |-> "none"]
    /\ hidden = [m \in Messages |-> "none"]
    /\ attempt = [m \in Messages |-> 1]
    /\ pushed = [m \in Messages |-> 0]
    /\ reply = [m \in Messages |-> "none"]
    /\ sse = [m \in Messages |-> "none"]
    /\ batch = [m \in Messages |-> <<>>]
    /\ cycles = [m \in Messages |-> 0]
    /\ connected = {}
    /\ wire = [m \in Messages |-> <<>>]

-----------------------------------------------------------------------------
(* The chat request: chat() and, inside its graph, generate().             *)

Advance(m, from, to) == graph[m] = from /\ graph' = [graph EXCEPT ![m] = to]

\* Only GroqProvider has a second model, and only it wipes the list before a
\* retry; the other two have a JSON mode of their own.
HasFallback == provider = "groq"
Wipes == provider = "groq"
HasJsonMode == provider # "groq"

\* The locals of generate() are gone.
ForgetAttempt(m) ==
    /\ hidden' = [hidden EXCEPT ![m] = "none"]
    /\ attempt' = [attempt EXCEPT ![m] = 1]
    /\ pushed' = [pushed EXCEPT ![m] = 0]

\* The agent that answers calls generate().
Generate(m) ==
    /\ hidden[m] = "none"
    /\ Advance(m, "running", "streaming")
    /\ UNCHANGED <<redisVars, hidden, attempt, pushed, reply, sseVars, netVars>>

\* A chunk arrives and is pushed; a failing push is ignored.
PushToken(m) ==
    /\ graph[m] = "streaming"
    /\ pushed[m] < MaxTokens
    /\ pushed' = [pushed EXCEPT ![m] = @ + 1]
    /\ \/ list' = [list EXCEPT ![m] =
                      Append(@, [attempt |-> attempt[m], n |-> pushed[m] + 1])]
       \/ UNCHANGED list
    /\ UNCHANGED <<done, graph, hidden, attempt, reply, sseVars, netVars>>

\* A retryable error is retried on the primary model after a pause, every
\* other one and the last go to the fallback, if there is one.
NextAttempt(m) ==
    \/ attempt[m] < MaxRetries /\ attempt' = [attempt EXCEPT ![m] = @ + 1]
    \/ HasFallback /\ attempt[m] < Fallback /\ attempt' = [attempt EXCEPT ![m] = Fallback]

\* The model's stream breaks.
AttemptFails(m) ==
    /\ Advance(m, "streaming", "backoff")
    /\ NextAttempt(m)
    /\ UNCHANGED <<redisVars, hidden, pushed, reply, sseVars, netVars>>

\* _clear_stream wipes the list (or fails and is ignored), then a new attempt.
Retry(m) ==
    /\ Advance(m, "backoff", "streaming")
    /\ pushed' = [pushed EXCEPT ![m] = 0]
    /\ \/ Wipes /\ list' = [list EXCEPT ![m] = <<>>]
       \/ UNCHANGED list
    /\ UNCHANGED <<done, hidden, attempt, reply, sseVars, netVars>>

\* generate() returns, with an answer or after its last attempt failed.
Generated(m) ==
    /\ Advance(m, "streaming", "written")
    /\ ForgetAttempt(m)
    /\ UNCHANGED <<redisVars, reply, sseVars, netVars>>

\* A node of the graph runs outside generate().
InNode(m) == graph[m] \in {"running", "written"}

\* It calls generate_text() or generate_structured().
BeginHidden(m) ==
    /\ InNode(m)
    /\ hidden[m] = "none"
    /\ \E mode \in {"text"} \cup (IF HasJsonMode THEN {"json"} ELSE {}) :
         hidden' = [hidden EXCEPT ![m] = mode]
    /\ UNCHANGED <<redisVars, graph, attempt, pushed, reply, sseVars, netVars>>

AdvanceHidden(m, from, to) ==
    InNode(m) /\ hidden[m] = from /\ hidden' = [hidden EXCEPT ![m] = to]

\* JSON mode has one attempt, and what it failed at is asked for as text; text
\* is retried as an answer is, but there is nothing to wipe.
HiddenFails(m) ==
    /\ \/ AdvanceHidden(m, "json", "text") /\ UNCHANGED attempt
       \/ AdvanceHidden(m, "text", "pause") /\ NextAttempt(m)
    /\ UNCHANGED <<redisVars, graph, pushed, reply, sseVars, netVars>>

HiddenRetry(m) ==
    /\ AdvanceHidden(m, "pause", "text")
    /\ UNCHANGED <<redisVars, graph, attempt, pushed, reply, sseVars, netVars>>

\* The call returns, with a text or without.
HiddenReturns(m) ==
    /\ InNode(m)
    /\ hidden[m] \in {"json", "text"}
    /\ ForgetAttempt(m)
    /\ UNCHANGED <<redisVars, graph, reply, sseVars, netVars>>

\* The graph is over, whether it called generate() or not; chat() then sets the
\* done key (a failing set is ignored) and saves the turn.
GraphEnds(m) ==
    /\ InNode(m)
    /\ hidden[m] = "none"
    /\ graph' = [graph EXCEPT ![m] = "finished"]
    /\ \/ done' = [done EXCEPT ![m] = TRUE]
       \/ UNCHANGED done
    /\ UNCHANGED <<list, hidden, attempt, pushed, reply, sseVars, netVars>>

\* chat() returns the final answer, with an approval card or without.
Respond(m) ==
    /\ Advance(m, "finished", "replied")
    /\ \E r \in {"answer", "card"} : reply' = [reply EXCEPT ![m] = r]
    /\ UNCHANGED <<redisVars, hidden, attempt, pushed, sseVars, netVars>>

\* Wrong on purpose: an exception of the graph that nobody answers for.
ErrorSwallowed(m) ==
    /\ graph[m] \notin {"none", "replied"}
    /\ graph' = [graph EXCEPT ![m] = "replied"]
    /\ ForgetAttempt(m)
    /\ UNCHANGED <<redisVars, reply, sseVars, netVars>>

\* A blocked message, a failing node of the graph or a lost connection: the
\* POST fails, and nothing tells the stream.
RespondError(m) ==
    /\ graph[m] \notin {"none", "replied"}
    /\ graph' = [graph EXCEPT ![m] = "replied"]
    /\ reply' = [reply EXCEPT ![m] = "failure"]
    /\ ForgetAttempt(m)
    /\ UNCHANGED <<redisVars, sseVars, netVars>>

-----------------------------------------------------------------------------
(* The generator _event_generator(stream_id).                              *)

\* Frames reach the page only while its EventSource is open.
Emit(m, frames) ==
    wire' = IF m \in connected THEN [wire EXCEPT ![m] = @ \o frames] ELSE wire

Done == [type |-> "done"]
Error == [type |-> "error"]
Eof == [type |-> "eof"]
TokenFrame(t) == [type |-> "token", token |-> t]
TokenFrames(tokens) == [i \in DOMAIN tokens |-> TokenFrame(tokens[i])]

\* The generator returns and its locals are gone.
Close(m) ==
    /\ sse' = [sse EXCEPT ![m] = "closed"]
    /\ batch' = [batch EXCEPT ![m] = <<>>]
    /\ cycles' = [cycles EXCEPT ![m] = 0]

\* Without Redis the only frame is "done", and it carries no answer.
OpenStream(m) ==
    /\ sse[m] = "opening"
    /\ \/ sse' = [sse EXCEPT ![m] = "polling"] /\ UNCHANGED <<batch, cycles, wire>>
       \/ Close(m) /\ Emit(m, <<Done, Eof>>)
    /\ UNCHANGED <<redisVars, graphVars, connected>>

\* Wrong on purpose: a loop that does not count its cycles.
ReadUncounted(m) ==
    /\ sse[m] = "polling"
    /\ batch' = [batch EXCEPT ![m] = list[m]]
    /\ sse' = [sse EXCEPT ![m] = IF list[m] = <<>> THEN "check" ELSE "trim"]
    /\ UNCHANGED <<redisVars, graphVars, cycles, netVars>>

\* A new cycle; LRANGE reads the whole list.
ReadTokens(m) ==
    /\ sse[m] = "polling"
    /\ cycles[m] < MaxCycles
    /\ cycles' = [cycles EXCEPT ![m] = @ + 1]
    /\ batch' = [batch EXCEPT ![m] = list[m]]
    /\ sse' = [sse EXCEPT ![m] = IF list[m] = <<>> THEN "check" ELSE "trim"]
    /\ UNCHANGED <<redisVars, graphVars, netVars>>

\* Wrong on purpose: the tokens that were read stay in the list.
ForwardTokens(m) ==
    /\ sse[m] = "trim"
    /\ Emit(m, TokenFrames(batch[m]))
    /\ batch' = [batch EXCEPT ![m] = <<>>]
    /\ sse' = [sse EXCEPT ![m] = "check"]
    /\ UNCHANGED <<redisVars, graphVars, cycles, connected>>

\* LTRIM drops as many tokens as were read, then they become frames.
TrimTokens(m) ==
    /\ sse[m] = "trim"
    /\ list' = [list EXCEPT ![m] = SubSeq(@, Len(batch[m]) + 1, Len(@))]
    /\ Emit(m, TokenFrames(batch[m]))
    /\ batch' = [batch EXCEPT ![m] = <<>>]
    /\ sse' = [sse EXCEPT ![m] = "check"]
    /\ UNCHANGED <<done, graphVars, cycles, connected>>

\* The done key ends the stream and every key of it is deleted, unless the
\* page has hung up by then; otherwise the generator sleeps.  It also looks at
\* a hitl and an error key, which nothing ever sets.
CheckDone(m) ==
    /\ sse[m] = "check"
    /\ \/ /\ done[m]
          /\ Emit(m, <<Done, Eof>>)
          /\ \/ list' = [list EXCEPT ![m] = <<>>] /\ done' = [done EXCEPT ![m] = FALSE]
             \/ UNCHANGED redisVars
          /\ Close(m)
       \/ /\ ~done[m]
          /\ sse' = [sse EXCEPT ![m] = "polling"]
          /\ UNCHANGED <<redisVars, batch, cycles, wire>>
    /\ UNCHANGED <<graphVars, connected>>

\* The generator ends with an error frame,
Abort(m) ==
    /\ Emit(m, <<Error, Eof>>)
    /\ Close(m)
    /\ UNCHANGED <<redisVars, graphVars, connected>>

\* ... when its loop runs out of cycles,
TimeOut(m) == sse[m] = "polling" /\ cycles[m] = MaxCycles /\ Abort(m)

\* ... or when a Redis call raises or the connection breaks.
Break(m) == sse[m] \in {"polling", "trim", "check"} /\ Abort(m)

\* The page has closed its EventSource: CancelledError at the next await.
Cancelled(m) ==
    /\ m \notin connected
    /\ sse[m] \in {"opening", "polling", "trim", "check"}
    /\ Close(m)
    /\ UNCHANGED <<redisVars, graphVars, netVars>>

=============================================================================
