----------------------------- MODULE AvatarPage -----------------------------
(***************************************************************************)
(* The page of the avatar copilot (App.tsx): it connects a provider to a   *)
(* new engine, falls back to the browser's voice, offers to reconnect, and *)
(* hands keys and recognised words to the engines.  An engine that was     *)
(* replaced goes on with what it was doing.                                *)
(***************************************************************************)
EXTENDS SceneEngine

CONSTANT MaxEvents      \* bound: keys, words heard, failures and lost sessions

ASSUME EventsAssumption == MaxEvents \in Nat

VARIABLES autoplay,    \* config.autoplay, of the URL
          loaded,      \* the script has been fetched
          started, canReconnect,
          current,     \* engineRef
          start,       \* how far each call of start() is
          keyed,       \* history: engines that got a key or a jump
          events       \* bound: how many of those there have been

pageVars == <<autoplay, loaded, started, canReconnect, current, start, keyed, events>>
vars == <<sceneVars, pageVars>>

Avatar(s) == <<s, "avatar">>
Fallback(s) == <<s, "fallback">>

TypeOK ==
    /\ EngineTypeOK
    /\ autoplay \in BOOLEAN /\ loaded \in BOOLEAN
    /\ started \in BOOLEAN /\ canReconnect \in BOOLEAN
    /\ current \in Engines \cup {None}
    /\ start \in [Starts -> {"idle", "fetching", "session", "opening", "video", "up"}]
    /\ keyed \subseteq Engines /\ events \in 0..MaxEvents

Init ==
    /\ EngineInit
    /\ autoplay \in BOOLEAN
    /\ loaded = FALSE /\ started = FALSE /\ canReconnect = FALSE
    /\ current = None
    /\ start = [s \in Starts |-> "idle"]
    /\ keyed = {} /\ events = 0

Event == events < MaxEvents /\ events' = events + 1

-----------------------------------------------------------------------------
(* start() and connect().                                                  *)

LoadScript ==
    /\ ~loaded /\ loaded' = TRUE
    /\ UNCHANGED <<sceneVars, autoplay, started, canReconnect, current, start, keyed, events>>

\* start() past the script: the page changes and connect() asks for a session.
Proceed(s) ==
    /\ start' = [start EXCEPT ![s] = "session"]
    /\ started' = TRUE /\ canReconnect' = FALSE
    /\ status' = "connecting"
    /\ UNCHANGED <<provider, play, engine, closing, autoplay, current, keyed, events>>

\* The Start button is there until the page has started, Reconnect while a
\* lost session has not been replaced.
ClickStart(s) ==
    /\ start[s] = "idle"
    /\ ~started \/ canReconnect
    /\ IF loaded THEN Proceed(s) /\ UNCHANGED loaded
       ELSE /\ start' = [start EXCEPT ![s] = "fetching"]
            /\ UNCHANGED <<sceneVars, autoplay, loaded, started, canReconnect, current, keyed, events>>

\* The second fetch of the script; when it fails, Start may be clicked again.
Fetched(s) ==
    /\ start[s] = "fetching"
    /\ loaded' = TRUE
    /\ Proceed(s)

FetchFails(s) ==
    /\ start[s] = "fetching"
    /\ start' = [start EXCEPT ![s] = "idle"]
    /\ Event
    /\ UNCHANGED <<sceneVars, autoplay, loaded, started, canReconnect, current, keyed>>

\* connect() returned engine e, which runs the script if the page does.
Up(s, e, v) ==
    /\ start' = [start EXCEPT ![s] = "up"]
    /\ status' = "listening"
    /\ provider' = [provider EXCEPT ![e] = v]
    /\ engine' = IF autoplay THEN [engine EXCEPT ![e].script = "asking"] ELSE engine

\* The session names the provider and may bring the token; a forced provider
\* asks for its session itself.  The engine gets keys from here on.
SessionArrives(s) ==
    LET e == Avatar(s) IN
    /\ start[s] = "session"
    /\ current' = e
    /\ \/ Up(s, e, Unconnected("dry"))
       \/ \E c \in {"none", "opening"} :
             /\ provider' = [provider EXCEPT ![e] = [Unconnected("anam") EXCEPT !.client = c]]
             /\ start' = [start EXCEPT ![s] = "opening"]
             /\ UNCHANGED <<engine, status>>
    /\ UNCHANGED <<play, closing, autoplay, loaded, started, canReconnect, keyed, events>>

TokenArrives(s) ==
    LET e == Avatar(s) IN
    /\ start[s] = "opening" /\ provider[e].client = "none"
    /\ provider' = [provider EXCEPT ![e].client = "opening"]
    /\ UNCHANGED <<play, engine, status, closing, pageVars>>

\* streamToVideoElement returns; a client that was stopped meanwhile stays so.
StreamStarts(s) ==
    LET e == Avatar(s) IN
    /\ start[s] = "opening" /\ provider[e].client # "none"
    /\ provider' = [provider EXCEPT ![e].client = IF @ = "opening" THEN "live" ELSE @]
    /\ start' = [start EXCEPT ![s] = "video"]
    /\ UNCHANGED <<play, engine, status, closing, autoplay, loaded, started,
                   canReconnect, current, keyed, events>>

\* The video plays, or 15 seconds have passed.
VideoPlays(s) ==
    /\ start[s] = "video"
    /\ Up(s, Avatar(s), provider[Avatar(s)])
    /\ UNCHANGED <<play, closing, autoplay, loaded, started, canReconnect, current, keyed, events>>

\* Whatever fails, the demo goes on with the browser's voice and an engine of
\* its own; what was built for the avatar stays as it is.
ConnectFails(s) ==
    /\ start[s] \in {"session", "opening"}
    /\ current' = Fallback(s)
    /\ Up(s, Fallback(s), Unconnected("dry"))
    /\ Event
    /\ UNCHANGED <<play, closing, autoplay, loaded, started, canReconnect, keyed>>

Connecting(s) ==
    \/ ClickStart(s) \/ Fetched(s) \/ FetchFails(s)
    \/ SessionArrives(s) \/ TokenArrives(s) \/ StreamStarts(s) \/ VideoPlays(s) \/ ConnectFails(s)

-----------------------------------------------------------------------------
(* What the page hands to the engines.                                     *)

Pressed ==
    /\ Event
    /\ keyed' = keyed \cup {current}
    /\ UNCHANGED <<autoplay, loaded, started, canReconnect, current, start>>

Firsts(S) == {i \in S : \A j \in S : i <= j}

\* The number keys and the jump list; a busy engine refuses.
Jump ==
    /\ started /\ current # None
    /\ MayPlay(current)
    /\ \E i \in Scenes : Begin(current, i, FALSE)
    /\ Pressed

\* The space bar plays the first scene not yet played, if there is one.
NextUnplayed ==
    /\ started /\ current # None
    /\ MayPlay(current)
    /\ \E i \in Firsts(Scenes \ engine[current].played) : Begin(current, i, FALSE)
    /\ Pressed

\* Wrong on purpose: the script does not silence the microphone.
AlwaysHears(e) == provider[e].client = "live"

\* Autoplay drives the script; mic input is ignored.
Hears(e) == provider[e].client = "live" /\ ~autoplay

\* Words that match the keywords of some scenes, of which the first unplayed
\* one is played; without any, the copilot asks to rephrase.
UserSpeech(e) ==
    /\ Hears(e) /\ MayPlay(e)
    /\ \E matches \in SUBSET Scenes :
          LET open == matches \ engine[e].played
          IN  \E i \in IF open = {} THEN {Reply} ELSE Firsts(open) : Begin(e, i, FALSE)
    /\ Event
    /\ UNCHANGED <<autoplay, loaded, started, canReconnect, current, start, keyed>>

\* The vendor ends the session, or reports the end of one that was stopped:
\* whichever engine it belonged to, the page turns idle and offers Reconnect.
ConnectionClosed(e) ==
    /\ provider[e].client \in {"live", "stopped"}
    /\ provider' = [provider EXCEPT ![e].client = IF @ = "live" THEN "closed" ELSE "none"]
    /\ status' = "idle"
    /\ canReconnect' = TRUE
    /\ Event
    /\ UNCHANGED <<play, engine, closing, autoplay, loaded, started, current, start, keyed>>

-----------------------------------------------------------------------------
Playing(p) == (Searched(p) \/ TalkReturns(p) \/ UtteranceEnds(p)) /\ UNCHANGED pageVars

Raising(p) ==
    /\ TalkFails(p)
    /\ Event
    /\ UNCHANGED <<autoplay, loaded, started, canReconnect, current, start, keyed>>

Running(e) ==
    /\ SafetyTimer(e) \/ Asked(e) \/ Answer(e) \/ NextScene(e) \/ CloseDemo(e)
    /\ UNCHANGED pageVars

Vendor(e) == (PersonaMessage(e) /\ UNCHANGED pageVars) \/ UserSpeech(e) \/ ConnectionClosed(e)

Next ==
    \/ LoadScript \/ Jump \/ NextUnplayed
    \/ \E s \in Starts : Connecting(s)
    \/ \E p \in Plays : Playing(p) \/ Raising(p)
    \/ \E e \in Engines : Running(e) \/ Vendor(e)

Spec == Init /\ [][Next]_vars

-----------------------------------------------------------------------------
(* Properties.                                                             *)

\* No play hangs and none leaves its mark: whatever the vendor's messages do,
\* early, late, for another speech or never, and whether talk() returns or
\* raises, a speech that is waited for is the one its provider will resolve, by
\* a timer that is set; an engine is busy, and the stage says that the avatar
\* thinks or speaks, only while a play runs.
NothingLeftBehind ==
    /\ \A p \in Plays :
          LET v == provider[play[p].engine] IN
          \/ ~Busy(p) \/ play[p].st = "thinking" \/ play[p].heard \/ v.kind = "dry"
          \/ v.resolver = p /\ v.timer
    /\ \A e \in Engines : engine[e].busy => \E p \in Plays : Busy(p) /\ play[p].engine = e
    /\ status \in {"thinking", "speaking"} => \E p \in Plays : Busy(p)

\* A script that nobody drives by keys asks only when its avatar is silent and
\* every question before has been answered, whatever the microphone hears, the
\* other engines do and the vendor closes.
ScriptInOrder ==
    \A e \in Engines \ keyed :
        engine[e].script \in {"asking", "beat"} =>
            ~engine[e].busy /\ 1..(engine[e].at - 1) \subseteq engine[e].shown

=============================================================================
