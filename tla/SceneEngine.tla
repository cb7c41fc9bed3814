----------------------------- MODULE SceneEngine -----------------------------
(***************************************************************************)
(* The scene engine of the avatar copilot: which scene is played, one play *)
(* at a time behind the busy flag, and the script that runs itself.  It    *)
(* knows the page only by its callbacks, here `status' and `closing'.      *)
(***************************************************************************)
EXTENDS SpeechProvider

CONSTANTS NumScenes,    \* the scenes are 1..NumScenes, in the order of the script
          Searching,    \* scenes that show "searching" before the answer
          Closing       \* scenes after which the closing screen is due

ASSUME ScenesAssumption ==
    NumScenes \in Nat \ {0} /\ Searching \subseteq 1..NumScenes /\ Closing \subseteq 1..NumScenes

Scenes == 1..NumScenes
Reply == 0              \* "I'm sorry, I didn't quite catch that ..."

VARIABLES engine,   \* the engine of each provider
          status,   \* onStatus: what the stage says the avatar does
          closing   \* onClosing: the closing screen is shown

sceneVars == <<provider, play, engine, status, closing>>

\* shown: scenes whose answer is in the conversation.  script, at: how far
\* runAutoplay is; awaited: the play it waits for.  leaving: onClosing is due.
IdleEngine == [ busy |-> FALSE, played |-> {}, shown |-> {}, leaving |-> FALSE,
                script |-> "off", at |-> 1, awaited |-> None ]

EngineType ==
    [ busy : BOOLEAN, played : SUBSET Scenes, shown : SUBSET Scenes, leaving : BOOLEAN,
      script : {"off", "asking", "beat", "answering", "gap", "done", "stopped"},
      at : Scenes, awaited : Plays \cup {None} ]

PlayType ==
    [ st : {"free", "thinking", "talking", "waiting"}, engine : Engines \cup {None},
      scene : Scenes \cup {Reply}, heard : BOOLEAN ]

EngineTypeOK ==
    /\ provider \in [Engines -> ProviderType]
    /\ play \in [Plays -> PlayType]
    /\ engine \in [Engines -> EngineType]
    /\ status \in {"idle", "connecting", "listening", "thinking", "speaking"}
    /\ closing \in BOOLEAN

EngineInit ==
    /\ provider = [e \in Engines |-> Unconnected("dry")]
    /\ play = [p \in Plays |-> NoPlay]
    /\ engine = [e \in Engines |-> IdleEngine]
    /\ status = "idle"
    /\ closing = FALSE

-----------------------------------------------------------------------------
(* Plays.                                                                  *)

Started(e, scene, st) == [st |-> st, engine |-> e, scene |-> scene, heard |-> FALSE]

\* A raised error runs through both `finally's to the caller: the script ends.
ScriptAfter(g, p, ok) ==
    IF g.awaited # p THEN g
    ELSE [g EXCEPT !.awaited = None, !.script = IF ok THEN "gap" ELSE "stopped"]

\* The end of a play, g being its engine: both `finally's, and after a closing
\* scene that was spoken the timer of the closing screen.
Over(g, p, scene, ok) ==
    [ScriptAfter(g, p, ok) EXCEPT !.busy = FALSE, !.leaving = @ \/ (ok /\ scene \in Closing)]

\* Play p of engine e speaks, g being the engine so far: the answer is shown,
\* and a provider without a client raises, which ends the play there and then.
Speak(e, p, scene, g) ==
    LET h == IF scene = Reply THEN g ELSE [g EXCEPT !.shown = @ \cup {scene}]
    IN  IF CanSpeak(e)
        THEN /\ engine' = [engine EXCEPT ![e] = h]
             /\ provider' = [provider EXCEPT ![e] = Speaking(e, p)]
             /\ play' = [play EXCEPT ![p] = Started(e, scene, SpeakFirst(e))]
             /\ status' = "speaking"
        ELSE /\ engine' = [engine EXCEPT ![e] = Over(h, p, scene, FALSE)]
             /\ play' = [play EXCEPT ![p] = NoPlay]
             /\ status' = "listening"
             /\ UNCHANGED provider

\* Wrong on purpose: nothing keeps a second play from starting.
Unguarded(e) == TRUE

MayPlay(e) == ~engine[e].busy

\* playScene and playFallbackReply past the busy flag; the script waits for
\* its own plays.  Searching is shown for a while before the answer.
Begin(e, scene, ofScript) ==
    /\ \E p \in Plays :
          LET f == [engine[e] EXCEPT !.busy = TRUE,
                                     !.played = IF scene = Reply THEN @ ELSE @ \cup {scene}]
              g == IF ofScript THEN [f EXCEPT !.script = "answering", !.awaited = p] ELSE f
          IN  /\ ~Busy(p)
              /\ IF scene \in Searching
                 THEN /\ engine' = [engine EXCEPT ![e] = g]
                      /\ play' = [play EXCEPT ![p] = Started(e, scene, "thinking")]
                      /\ status' = "thinking"
                      /\ UNCHANGED provider
                 ELSE Speak(e, p, scene, g)
    /\ UNCHANGED closing

Searched(p) ==
    LET r == play[p] IN
    /\ r.st = "thinking"
    /\ Speak(r.engine, p, r.scene, engine[r.engine])
    /\ UNCHANGED closing

\* The end of play p, its provider being v by then.
End(p, ok, v) ==
    LET e == play[p].engine IN
    /\ engine' = [engine EXCEPT ![e] = Over(@, p, play[p].scene, ok)]
    /\ provider' = [provider EXCEPT ![e] = v]
    /\ play' = [play EXCEPT ![p] = NoPlay]
    /\ status' = "listening"
    /\ UNCHANGED closing

\* talk() returns, before or after the speech has ended, or raises.
TalkReturns(p) ==
    /\ play[p].st = "talking"
    /\ IF play[p].heard
       THEN End(p, TRUE, provider[play[p].engine])
       ELSE play' = [play EXCEPT ![p].st = "waiting"]
            /\ UNCHANGED <<provider, engine, status, closing>>

TalkFails(p) ==
    /\ play[p].st = "talking"
    /\ End(p, FALSE, Silent(play[p].engine, p))

\* The browser's voice ends, fails or runs into its time limit.
UtteranceEnds(p) ==
    LET e == play[p].engine IN
    /\ play[p].st = "waiting" /\ provider[e].kind = "dry"
    /\ End(p, TRUE, provider[e])

\* finishSpeaking, of the timer or of a message of the persona, whichever
\* speech that message belongs to.
FinishSpeaking(e) ==
    LET p == provider[e].resolver IN
    IF p # None /\ play[p].st = "waiting" THEN End(p, TRUE, Finished(e))
    ELSE /\ provider' = [provider EXCEPT ![e] = Finished(e)]
         /\ play' = IF p = None THEN play ELSE [play EXCEPT ![p].heard = TRUE]
         /\ UNCHANGED <<engine, status, closing>>

SafetyTimer(e) == provider[e].timer /\ FinishSpeaking(e)
PersonaMessage(e) == provider[e].client = "live" /\ FinishSpeaking(e)

-----------------------------------------------------------------------------
(* runAutoplay: question, beat, answer, gap, next scene.                   *)

\* The question has been spoken, and the beat after it begins.
Asked(e) ==
    /\ engine[e].script = "asking"
    /\ engine' = [engine EXCEPT ![e].script = "beat"]
    /\ UNCHANGED <<provider, play, status, closing>>

\* A busy engine refuses its own script, which goes on to the gap.
Answer(e) ==
    /\ engine[e].script = "beat"
    /\ IF MayPlay(e) THEN Begin(e, engine[e].at, TRUE)
       ELSE /\ engine' = [engine EXCEPT ![e].script = "gap"]
            /\ UNCHANGED <<provider, play, status, closing>>

NextScene(e) ==
    /\ engine[e].script = "gap"
    /\ engine' = IF engine[e].at < NumScenes
                  THEN [engine EXCEPT ![e].at = @ + 1, ![e].script = "asking"]
                  ELSE [engine EXCEPT ![e].script = "done"]
    /\ UNCHANGED <<provider, play, status, closing>>

\* onClosing: the screen, and no more minutes of the avatar.
CloseDemo(e) ==
    /\ engine[e].leaving
    /\ engine' = [engine EXCEPT ![e].leaving = FALSE]
    /\ closing' = TRUE
    /\ provider' = [provider EXCEPT ![e] = Disconnected(e)]
    /\ UNCHANGED <<play, status>>

=============================================================================
