-------------------------- MODULE AvatarPage_proofs --------------------------
(***************************************************************************)
(* Proofs about AvatarPage: no play hangs or leaves its mark, and a script *)
(* nobody drives by keys is answered in order, for any script, any number  *)
(* of sessions and plays, and any number of keys and failures.             *)
(*                                                                         *)
(* The invariant ties every engine to its plays.  An engine has a play     *)
(* exactly while it is busy, so it has one at most: the promise its        *)
(* provider holds is never replaced while it is waited for, and what       *)
(* resolves it ends the right play.  The script waits for the play it      *)
(* began; without a key nothing else can make its engine busy.             *)
(***************************************************************************)
EXTENDS AvatarPage, TLAPS

\* The one play of an engine, and the promise of its provider.
PlayOK(e) ==
    /\ engine[e].busy <=> \E p \in Plays : Busy(p) /\ play[p].engine = e
    /\ \A p, q \in Plays : Busy(p) /\ Busy(q) /\ play[p].engine = e /\ play[q].engine = e => p = q
    /\ \A p \in Plays :
          Busy(p) /\ play[p].engine = e =>
             \/ play[p].st = "thinking" \/ play[p].heard \/ provider[e].kind = "dry"
             \/ provider[e].resolver = p /\ provider[e].timer
    /\ provider[e].resolver # None =>
          /\ play[provider[e].resolver].st \in {"talking", "waiting"}
          /\ play[provider[e].resolver].engine = e
          /\ ~play[provider[e].resolver].heard /\ provider[e].kind = "anam"

\* What the script of an engine waits for and has shown.
ScriptOK(e) ==
    LET g == engine[e] IN
    /\ g.script # "off" => autoplay
    /\ g.script = "off" => g.at = 1
    /\ g.script # "answering" => g.awaited = None
    /\ g.script = "answering" =>
          /\ g.awaited \in Plays /\ Busy(g.awaited)
          /\ play[g.awaited].engine = e /\ play[g.awaited].scene = g.at
          /\ play[g.awaited].st = "thinking" \/ g.at \in g.shown
    /\ e \notin keyed =>
          /\ autoplay /\ g.busy => g.script = "answering"
          /\ g.script \notin {"off", "stopped"} => 1..(g.at - 1) \subseteq g.shown
          /\ g.script \in {"gap", "done"} => g.at \in g.shown

\* An engine that start() has not built yet.
Unbuilt(e) ==
    /\ provider[e] = Unconnected("dry")
    /\ ~engine[e].busy /\ engine[e].script = "off" /\ current # e

StartOK(s) ==
    /\ start[s] \in {"idle", "fetching", "session"} => Unbuilt(Avatar(s))
    /\ start[s] # "up" => Unbuilt(Fallback(s)) /\ engine[Avatar(s)].script = "off"

Inv ==
    /\ TypeOK
    /\ \A e \in Engines : PlayOK(e) /\ ScriptOK(e)
    /\ \A p \in Plays : Busy(p) => play[p].engine \in Engines
    /\ status \in {"thinking", "speaking"} => \E p \in Plays : Busy(p)
    /\ \A s \in Starts : StartOK(s)

LEMMA SceneNumbers ==
    /\ 1 \in Scenes /\ Reply \notin Scenes
    /\ \A i \in Scenes : i < NumScenes => i + 1 \in Scenes
    /\ None \notin Plays /\ None \notin Engines
BY ProviderAssumption, ScenesAssumption DEF Scenes, Reply

LEMMA EnginesOf == \A s \in Starts : Avatar(s) \in Engines /\ Fallback(s) \in Engines
BY DEF Avatar, Fallback, Engines

LEMMA InvInit == Init => Inv
<1> SUFFICES ASSUME Init PROVE Inv
    OBVIOUS
<1>1. TypeOK
    <2>1. Unconnected("dry") \in ProviderType /\ NoPlay \in PlayType /\ IdleEngine \in EngineType
        BY SceneNumbers DEF ProviderType, PlayType, EngineType, Unconnected, NoPlay, IdleEngine, Reply
    <2>2. /\ provider \in [Engines -> ProviderType]
          /\ play \in [Plays -> PlayType]
          /\ engine \in [Engines -> EngineType]
        BY <2>1 DEF Init, EngineInit
    <2>3. events \in 0..MaxEvents
        BY EventsAssumption DEF Init
    <2>4. EngineTypeOK
        BY <2>2 DEF EngineTypeOK, Init, EngineInit
    <2> QED
        BY <2>3, <2>4 DEF TypeOK, Init
<1>2. \A p \in Plays : ~Busy(p)
    BY DEF Busy, Init, EngineInit, NoPlay
<1>3. ASSUME NEW e \in Engines PROVE PlayOK(e) /\ ScriptOK(e)
    BY <1>2 DEF PlayOK, ScriptOK, Init, EngineInit, IdleEngine, Unconnected
<1>4. ASSUME NEW s \in Starts PROVE StartOK(s)
    BY EnginesOf, ProviderAssumption DEF StartOK, Unbuilt, Init, EngineInit, IdleEngine
<1> QED
    BY <1>1, <1>2, <1>3, <1>4 DEF Inv, Init, EngineInit

-----------------------------------------------------------------------------
(* Steps of one engine.                                                    *)

\* What a step of engine e leaves of the page.
Calm(e) ==
    /\ UNCHANGED <<autoplay, loaded, started, current, start>>
    /\ canReconnect' \in BOOLEAN /\ closing' \in BOOLEAN
    /\ status' \in {"idle", "connecting", "listening", "thinking", "speaking"}
    /\ keyed' = keyed \/ keyed' = keyed \cup {e}
    /\ events' = events \/ Event

\* p is the only play of engine e, before and after the step that leaves them
\* as r and g, and the provider as v.
PlayFits(e, p, g, v, r) ==
    /\ \A q \in Plays : Busy(q) /\ play[q].engine = e => q = p
    /\ Busy(p) => play[p].engine = e
    /\ g.busy <=> r.st # "free"
    /\ r.st # "free" =>
          /\ r.engine = e
          /\ r.st = "thinking" \/ r.heard \/ v.kind = "dry" \/ (v.resolver = p /\ v.timer)
    /\ v.resolver # None =>
          v.resolver = p /\ r.st \in {"talking", "waiting"} /\ ~r.heard /\ v.kind = "anam"

ScriptFits(e, p, g, r) ==
    /\ g.script # "off" => autoplay /\ engine[e].script # "off"
    /\ g.script = "off" => g.at = 1
    /\ g.script # "answering" => g.awaited = None
    /\ g.script = "answering" =>
          /\ g.awaited = p /\ r.st # "free" /\ r.scene = g.at
          /\ r.st = "thinking" \/ g.at \in g.shown
    /\ e \notin keyed' =>
          /\ autoplay /\ g.busy => g.script = "answering"
          /\ g.script \notin {"off", "stopped"} => 1..(g.at - 1) \subseteq g.shown
          /\ g.script \in {"gap", "done"} => g.at \in g.shown

LEMMA CalmType ==
    ASSUME Inv, NEW e \in Engines, Calm(e),
           provider' \in [Engines -> ProviderType],
           play' \in [Plays -> PlayType],
           engine' \in [Engines -> EngineType]
    PROVE  TypeOK'
<1>1. events' \in 0..MaxEvents
    BY EventsAssumption DEF Inv, TypeOK, Calm, Event
<1>2. EngineTypeOK'
    BY DEF Calm, EngineTypeOK
<1>3. keyed' \subseteq Engines
    BY DEF Calm, Inv, TypeOK
<1> QED
    BY <1>1, <1>2, <1>3 DEF Calm, Inv, TypeOK

\* An engine that does not take part in a step keeps its facts.
LEMMA OthersKeep ==
    ASSUME Inv, NEW e \in Engines, NEW f \in Engines \ {e}, NEW p \in Plays, Calm(e),
           provider'[f] = provider[f], engine'[f] = engine[f],
           Busy(p) => play[p].engine = e,
           \A q \in Plays \ {p} : play'[q] = play[q],
           play'[p].st # "free" => play'[p].engine = e
    PROVE  PlayOK(f)' /\ ScriptOK(f)'
<1>1. PlayOK(f) /\ ScriptOK(f)
    BY DEF Inv
<1>2. \A q \in Plays : Busy(q) /\ play[q].engine = f => q # p /\ play'[q] = play[q]
    OBVIOUS
<1>3. \A q \in Plays : Busy(q)' /\ play'[q].engine = f => q # p /\ play'[q] = play[q] /\ Busy(q)
    BY DEF Busy
<1>4. f \in keyed' <=> f \in keyed
    BY DEF Calm
<1>5. PlayOK(f)'
    <2>1. engine[f].busy <=> \E q \in Plays : Busy(q)' /\ play'[q].engine = f
        BY <1>1, <1>2, <1>3 DEF PlayOK, Busy
    <2>2. provider[f].resolver # None => provider[f].resolver \in Plays
        BY DEF Inv, TypeOK, EngineTypeOK, ProviderType
    <2>3. provider[f].resolver # None =>
              /\ play'[provider[f].resolver].st \in {"talking", "waiting"}
              /\ play'[provider[f].resolver].engine = f
              /\ ~play'[provider[f].resolver].heard /\ provider[f].kind = "anam"
        BY <1>1, <1>2, <2>2 DEF PlayOK, Busy
    <2> QED
        BY <1>1, <1>3, <2>1, <2>3 DEF PlayOK
<1>6. ScriptOK(f)'
    <2>1. engine[f].script = "answering" =>
              /\ play'[engine[f].awaited] = play[engine[f].awaited]
              /\ Busy(engine[f].awaited)'
        BY <1>1, <1>2 DEF ScriptOK, Busy
    <2> QED
        BY <1>1, <1>4, <2>1 DEF ScriptOK, Calm
<1> QED
    BY <1>5, <1>6

\* A step may build engine e only once its start() has come past the session.
Allowed(e) ==
    Unbuilt(e) => \/ Unbuilt(e)'
                  \/ \E s \in Starts : e = Avatar(s) /\ start[s] = "opening"

\* Unbuilt engines stay unbuilt, and the script of a start() that is not up
\* yet stays off.
LEMMA StartsKeep ==
    ASSUME Inv, NEW e \in Engines, Calm(e), Allowed(e),
           \A f \in Engines \ {e} : provider'[f] = provider[f] /\ engine'[f] = engine[f],
           engine[e].script = "off" => engine'[e].script = "off"
    PROVE  \A s \in Starts : StartOK(s)'
<1> SUFFICES ASSUME NEW s \in Starts PROVE StartOK(s)'
    OBVIOUS
<1>1. StartOK(s) /\ Avatar(s) \in Engines /\ Fallback(s) \in Engines
    BY EnginesOf DEF Inv
<1>2. \A f \in Engines \ {e} : Unbuilt(f) => Unbuilt(f)'
    BY DEF Unbuilt, Calm
<1>3. \A f \in Engines : engine[f].script = "off" => engine'[f].script = "off"
    OBVIOUS
<1>4. Unbuilt(Fallback(s)) => Unbuilt(Fallback(s))'
    BY <1>1, <1>2 DEF Allowed, Avatar, Fallback
<1>5. start[s] # "opening" /\ Unbuilt(Avatar(s)) => Unbuilt(Avatar(s))'
    BY <1>1, <1>2 DEF Allowed, Avatar
<1> QED
    BY <1>1, <1>3, <1>4, <1>5 DEF StartOK, Calm

\* A step in which engine e has no other play than p, before and after.
LEMMA LocalStep ==
    ASSUME Inv, NEW e \in Engines, NEW p \in Plays, Calm(e), ~Unbuilt(e),
           NEW g \in EngineType, NEW v \in ProviderType, NEW r \in PlayType,
           engine' = [engine EXCEPT ![e] = g],
           provider' = [provider EXCEPT ![e] = v],
           play' = [play EXCEPT ![p] = r],
           PlayFits(e, p, g, v, r), ScriptFits(e, p, g, r),
           \/ status' \in {"thinking", "speaking"} => r.st # "free"
           \/ status' = status /\ (Busy(p) => r.st # "free")
    PROVE  Inv'
<1>0. /\ provider \in [Engines -> ProviderType] /\ play \in [Plays -> PlayType]
      /\ engine \in [Engines -> EngineType]
    BY DEF Inv, TypeOK, EngineTypeOK
<1>1. /\ engine'[e] = g /\ provider'[e] = v /\ play'[p] = r
      /\ \A f \in Engines \ {e} : provider'[f] = provider[f] /\ engine'[f] = engine[f]
      /\ \A q \in Plays \ {p} : play'[q] = play[q]
    BY <1>0
<1>2. TypeOK'
    BY <1>0, CalmType
<1>3. \A f \in Engines \ {e} : PlayOK(f)' /\ ScriptOK(f)'
    BY <1>1, OthersKeep DEF PlayFits
<1>4. \A q \in Plays \ {p} : ~(Busy(q)' /\ play'[q].engine = e)
    BY <1>1 DEF PlayFits, Busy
<1>5. PlayOK(e)'
    <2>1. Busy(p)' <=> r.st # "free"
        BY <1>1 DEF Busy
    <2> QED
        BY <1>1, <1>4, <2>1 DEF PlayFits, PlayOK
<1>6. ScriptOK(e)'
    <2>1. Busy(p)' <=> r.st # "free"
        BY <1>1 DEF Busy
    <2>2. r.st # "free" => r.engine = e
        BY DEF PlayFits
    <2> QED
        BY <1>1, <2>1, <2>2 DEF ScriptFits, ScriptOK, Calm
<1>7. \A q \in Plays : Busy(q)' => play'[q].engine \in Engines
    BY <1>1 DEF Inv, Busy, PlayFits
<1>8. status' \in {"thinking", "speaking"} => \E q \in Plays : Busy(q)'
    <2>1. CASE status' \in {"thinking", "speaking"} => r.st # "free"
        BY <1>1, <2>1 DEF Busy
    <2>2. CASE status' = status /\ (Busy(p) => r.st # "free")
        <3>1. \A q \in Plays : Busy(q) => Busy(q)'
            BY <1>1, <2>2 DEF Busy
        <3> QED
            BY <2>2, <3>1 DEF Inv
    <2> QED
        BY <2>1, <2>2
<1>9. \A s \in Starts : StartOK(s)'
    BY <1>1, StartsKeep DEF ScriptFits, Allowed
<1> QED
    BY <1>2, <1>3, <1>5, <1>6, <1>7, <1>8, <1>9 DEF Inv

\* A step of engine e in which no play begins, goes on or ends.
LEMMA QuietStep ==
    ASSUME Inv, NEW e \in Engines, Calm(e), Allowed(e),
           NEW g \in EngineType, NEW v \in ProviderType,
           engine' = [engine EXCEPT ![e] = g],
           provider' = [provider EXCEPT ![e] = v],
           UNCHANGED play,
           g.busy = engine[e].busy,
           v.kind = provider[e].kind,
           v.resolver = provider[e].resolver,
           v.resolver # None => v.timer = provider[e].timer,
           status' = status \/ status' \notin {"thinking", "speaking"},
           engine[e].script = "off" => g.script = "off",
           ScriptOK(e)'
    PROVE  Inv'
<1>0. /\ provider \in [Engines -> ProviderType] /\ play \in [Plays -> PlayType]
      /\ engine \in [Engines -> EngineType]
    BY DEF Inv, TypeOK, EngineTypeOK
<1>1. /\ engine'[e] = g /\ provider'[e] = v
      /\ \A f \in Engines \ {e} : provider'[f] = provider[f] /\ engine'[f] = engine[f]
    BY <1>0
<1>2. TypeOK'
    BY <1>0, CalmType
<1>3. PlayOK(e)'
    BY <1>1, ProviderAssumption DEF Inv, PlayOK, Busy
<1>4. ASSUME NEW f \in Engines \ {e} PROVE PlayOK(f)' /\ ScriptOK(f)'
    <2>1. PlayOK(f) /\ ScriptOK(f)
        BY DEF Inv
    <2>2. PlayOK(f)'
        BY <1>1, <2>1 DEF PlayOK, Busy
    <2>3. ScriptOK(f)'
        BY <1>1, <2>1 DEF ScriptOK, Busy, Calm
    <2> QED
        BY <2>2, <2>3
<1>5. \A q \in Plays : Busy(q)' = Busy(q)
    BY DEF Busy
<1>6. \A s \in Starts : StartOK(s)'
    BY <1>1, StartsKeep
<1> QED
    BY <1>1, <1>2, <1>3, <1>4, <1>5, <1>6 DEF Inv

-----------------------------------------------------------------------------
(* Plays.                                                                  *)

\* The engine at a play that runs: what Speak and the end of a play start from.
PlayRuns(e, p, scene, g) ==
    /\ g.busy
    /\ g.script # "off" => autoplay /\ engine[e].script # "off"
    /\ g.script = "off" => g.at = 1
    /\ g.script # "answering" => g.awaited = None
    /\ g.script = "answering" => g.awaited = p /\ scene = g.at
    /\ e \notin keyed' =>
          /\ autoplay => g.script = "answering"
          /\ g.script \notin {"off", "stopped"} => 1..(g.at - 1) \subseteq g.shown

\* p is or may become the only play of e, and no promise is left.
Alone(e, p) ==
    /\ \A q \in Plays : Busy(q) /\ play[q].engine = e => q = p
    /\ Busy(p) => play[p].engine = e

LEMMA OverGives ==
    ASSUME Inv, NEW e \in Engines, NEW p \in Plays, NEW scene, NEW g \in EngineType,
           NEW ok \in BOOLEAN, Calm(e), PlayRuns(e, p, scene, g), g.awaited = p /\ ok => scene \in g.shown
    PROVE  Over(g, p, scene, ok) \in EngineType /\ ScriptFits(e, p, Over(g, p, scene, ok), NoPlay)
           /\ ~Over(g, p, scene, ok).busy
<1> DEFINE h == ScriptAfter(g, p, ok)
<1>1. /\ h \in EngineType /\ h.shown = g.shown /\ h.at = g.at
      /\ g.awaited = p => h.script = (IF ok THEN "gap" ELSE "stopped") /\ h.awaited = None
      /\ g.awaited # p => h = g
    BY DEF ScriptAfter, EngineType
<1>2. /\ Over(g, p, scene, ok) \in EngineType
      /\ Over(g, p, scene, ok).shown = g.shown /\ Over(g, p, scene, ok).at = g.at
      /\ Over(g, p, scene, ok).script = h.script /\ Over(g, p, scene, ok).awaited = h.awaited
      /\ Over(g, p, scene, ok).busy = FALSE
    <2>1. h.leaving \/ (ok /\ scene \in Closing) \in BOOLEAN
        OBVIOUS
    <2> QED
        BY <1>1, <2>1 DEF Over, EngineType
<1>3. CASE g.awaited = p
    <2>1. g.script = "answering" /\ scene = g.at
        BY <1>3, SceneNumbers DEF PlayRuns
    <2> QED
        BY <1>1, <1>2, <1>3, <2>1 DEF ScriptFits, PlayRuns
<1>4. CASE g.awaited # p
    <2>1. g.script # "answering" /\ h = g
        BY <1>1, <1>4 DEF PlayRuns
    <2> QED
        BY <1>2, <2>1 DEF ScriptFits, PlayRuns
<1> QED
    BY <1>2, <1>3, <1>4

LEMMA SpeakStep ==
    ASSUME Inv, NEW e \in Engines, NEW p \in Plays, NEW scene \in Scenes \cup {Reply},
           NEW g \in EngineType, Calm(e), ~Unbuilt(e), Speak(e, p, scene, g),
           PlayRuns(e, p, scene, g), Alone(e, p), provider[e].resolver = None
    PROVE  Inv'
<1> DEFINE h == IF scene = Reply THEN g ELSE [g EXCEPT !.shown = @ \cup {scene}]
<1>1. /\ h \in EngineType /\ PlayRuns(e, p, scene, h)
      /\ h.script = "answering" => scene \in h.shown
    <2>1. h \in EngineType
        BY DEF EngineType
    <2>2. /\ h.busy = g.busy /\ h.script = g.script /\ h.at = g.at /\ h.awaited = g.awaited
          /\ g.shown \subseteq h.shown /\ (scene # Reply => scene \in h.shown)
        BY DEF EngineType
    <2>3. g.script = "answering" => scene # Reply
        BY SceneNumbers DEF PlayRuns, EngineType
    <2> QED
        BY <2>1, <2>2, <2>3 DEF PlayRuns
<1>2. CASE CanSpeak(e)
    <2> DEFINE r == Started(e, scene, SpeakFirst(e))
               v == Speaking(e, p)
    <2>1. /\ r \in PlayType /\ r.st \in {"talking", "waiting"} /\ r.engine = e /\ r.scene = scene
          /\ ~r.heard
        BY DEF Started, SpeakFirst, PlayType
    <2>2. /\ v \in ProviderType
          /\ v.kind = "dry" \/ (v.resolver = p /\ v.timer)
          /\ v.resolver # None => v.resolver = p /\ v.kind = "anam"
        BY DEF Inv, TypeOK, EngineTypeOK, ProviderType, Speaking
    <2>3. /\ engine' = [engine EXCEPT ![e] = h] /\ provider' = [provider EXCEPT ![e] = v]
          /\ play' = [play EXCEPT ![p] = r] /\ status' = "speaking"
        BY <1>2 DEF Speak
    <2>4. PlayFits(e, p, h, v, r)
        BY <1>1, <2>1, <2>2 DEF PlayFits, PlayRuns, Alone
    <2>5. ScriptFits(e, p, h, r)
        BY <1>1, <2>1 DEF ScriptFits, PlayRuns
    <2> HIDE DEF h, r, v
    <2> QED
        BY <1>1, <2>1, <2>2, <2>3, <2>4, <2>5, LocalStep
<1>3. CASE ~CanSpeak(e)
    <2> DEFINE o == Over(h, p, scene, FALSE)
               v == provider[e]
    <2>1. NoPlay \in PlayType /\ NoPlay.st = "free"
        BY DEF NoPlay, PlayType, Reply
    <2>2. o \in EngineType /\ ScriptFits(e, p, o, NoPlay) /\ ~o.busy
        BY <1>1, OverGives
    <2>3. /\ engine' = [engine EXCEPT ![e] = o]
          /\ play' = [play EXCEPT ![p] = NoPlay] /\ status' = "listening" /\ UNCHANGED provider
        BY <1>3 DEF Speak
    <2>4. v \in ProviderType /\ provider' = [provider EXCEPT ![e] = v] /\ v.resolver = None
        BY <2>3 DEF Inv, TypeOK, EngineTypeOK
    <2>5. PlayFits(e, p, o, v, NoPlay)
        BY <2>1, <2>2, <2>4 DEF PlayFits, Alone
    <2> HIDE DEF o, v
    <2> QED
        BY <2>1, <2>2, <2>3, <2>4, <2>5, LocalStep
<1> QED
    BY <1>2, <1>3


\* The engine that a play may begin on: it is silent, and its script is where
\* the caller, the script itself or somebody else, needs it.
LEMMA BeginStep ==
    ASSUME Inv, NEW e \in Engines, NEW scene \in Scenes \cup {Reply}, NEW ofScript \in BOOLEAN,
           Begin(e, scene, ofScript), MayPlay(e), Calm(e), ~Unbuilt(e),
           ofScript => engine[e].script = "beat" /\ scene = engine[e].at,
           ~ofScript => e \in keyed' \/ ~autoplay
    PROVE  Inv'
<1> DEFINE f == [engine[e] EXCEPT !.busy = TRUE,
                                  !.played = IF scene = Reply THEN @ ELSE @ \cup {scene}]
<1>1. PICK p \in Plays :
          LET g == IF ofScript THEN [f EXCEPT !.script = "answering", !.awaited = p] ELSE f
          IN  /\ ~Busy(p)
              /\ IF scene \in Searching
                 THEN /\ engine' = [engine EXCEPT ![e] = g]
                      /\ play' = [play EXCEPT ![p] = Started(e, scene, "thinking")]
                      /\ status' = "thinking"
                      /\ UNCHANGED provider
                 ELSE Speak(e, p, scene, g)
    BY DEF Begin
<1> DEFINE g == IF ofScript THEN [f EXCEPT !.script = "answering", !.awaited = p] ELSE f
<1>2. /\ engine[e] \in EngineType /\ provider[e] \in ProviderType
      /\ PlayOK(e) /\ ScriptOK(e)
    BY DEF Inv, TypeOK, EngineTypeOK
<1>3. /\ f \in EngineType /\ f.busy /\ f.at = engine[e].at /\ f.shown = engine[e].shown
      /\ f.script = engine[e].script /\ f.awaited = engine[e].awaited
    BY <1>2 DEF EngineType
<1>4. /\ g \in EngineType /\ g.busy /\ g.at = engine[e].at /\ g.shown = engine[e].shown
      /\ ofScript => g.script = "answering" /\ g.awaited = p
      /\ ~ofScript => g.script = engine[e].script /\ g.awaited = engine[e].awaited
    BY <1>3 DEF EngineType
<1>5. \A q \in Plays : ~(Busy(q) /\ play[q].engine = e)
    BY <1>2 DEF PlayOK, MayPlay
<1>6. engine[e].script # "answering"
    BY <1>2, <1>5 DEF ScriptOK
<1>7. provider[e].resolver = None
    BY <1>2, <1>5 DEF PlayOK, ProviderType, Busy
<1>8. PlayRuns(e, p, scene, g)
    <2>1. e \notin keyed' => e \notin keyed
        BY DEF Calm
    <2> QED
        BY <1>2, <1>4, <1>6, <2>1 DEF PlayRuns, ScriptOK
<1>9. Alone(e, p)
    BY <1>1, <1>5 DEF Alone
<1>10. CASE scene \in Searching
    <2> DEFINE r == Started(e, scene, "thinking")
               v == provider[e]
    <2>1. r \in PlayType /\ r.st = "thinking" /\ r.engine = e /\ r.scene = scene
        BY DEF Started, PlayType
    <2>2. PlayFits(e, p, g, v, r)
        BY <1>4, <1>7, <1>9, <2>1 DEF PlayFits, Alone
    <2>3. ScriptFits(e, p, g, r)
        BY <1>4, <1>6, <1>8, <2>1 DEF ScriptFits, PlayRuns
    <2>4. /\ engine' = [engine EXCEPT ![e] = g] /\ play' = [play EXCEPT ![p] = r]
          /\ provider' = [provider EXCEPT ![e] = v] /\ v \in ProviderType
        BY <1>1, <1>2, <1>10 DEF Inv, TypeOK, EngineTypeOK
    <2> HIDE DEF g, r, v
    <2> QED
        BY <1>2, <1>4, <2>1, <2>2, <2>3, <2>4, LocalStep
<1>11. CASE scene \notin Searching
    <2>1. Speak(e, p, scene, g)
        BY <1>1, <1>11
    <2> HIDE DEF g
    <2> QED
        BY <1>4, <1>7, <1>8, <1>9, <2>1, SpeakStep
<1> QED
    BY <1>10, <1>11

\* What is known of the engine of a play that runs.
LEMMA PlayKnows ==
    ASSUME Inv, NEW p \in Plays, Busy(p)
    PROVE  LET e == play[p].engine IN
           /\ e \in Engines /\ ~Unbuilt(e) /\ Alone(e, p)
           /\ engine[e] \in EngineType /\ provider[e] \in ProviderType /\ play[p] \in PlayType
           /\ keyed' = keyed \/ keyed' = keyed \cup {e} => PlayRuns(e, p, play[p].scene, engine[e])
           /\ engine[e].awaited = p => play[p].st = "thinking" \/ play[p].scene \in engine[e].shown
           /\ provider[e].resolver # None =>
                 provider[e].resolver = p /\ ~play[p].heard /\ provider[e].kind = "anam"
<1> DEFINE e == play[p].engine
<1>1. e \in Engines /\ PlayOK(e) /\ ScriptOK(e) /\ engine[e].busy
    BY DEF Inv, PlayOK
<1>2. engine[e] \in EngineType /\ provider[e] \in ProviderType /\ play[p] \in PlayType
    BY <1>1 DEF Inv, TypeOK, EngineTypeOK
<1>3. Alone(e, p)
    BY <1>1 DEF PlayOK, Alone
<1>4. engine[e].script = "answering" => engine[e].awaited = p /\ play[p].scene = engine[e].at
    BY <1>1, <1>3 DEF ScriptOK, Alone
<1>5. ASSUME keyed' = keyed \/ keyed' = keyed \cup {e}
      PROVE  PlayRuns(e, p, play[p].scene, engine[e])
    BY <1>1, <1>4, <1>5 DEF PlayRuns, ScriptOK
<1>6. engine[e].awaited = p => play[p].st = "thinking" \/ play[p].scene \in engine[e].shown
    <2>1. engine[e].awaited = p => engine[e].script = "answering"
        BY <1>1, SceneNumbers DEF ScriptOK
    <2> QED
        BY <1>1, <1>4, <2>1 DEF ScriptOK
<1>7. provider[e].resolver # None =>
          provider[e].resolver = p /\ ~play[p].heard /\ provider[e].kind = "anam"
    BY <1>1, <1>2, <1>3 DEF PlayOK, ProviderType, Alone, Busy
<1>8. ~Unbuilt(e)
    BY <1>1 DEF Unbuilt
<1> QED
    BY <1>1, <1>2, <1>3, <1>5, <1>6, <1>7, <1>8


\* The end of a play, its provider being left with nobody's promise.
LEMMA EndStep ==
    ASSUME Inv, NEW p \in Plays, Busy(p), Calm(play[p].engine), NEW ok \in BOOLEAN,
           NEW v \in ProviderType, End(p, ok, v), v.resolver = None,
           play[p].st # "thinking"
    PROVE  Inv'
<1> DEFINE e == play[p].engine
           o == Over(engine[e], p, play[p].scene, ok)
<1>1. /\ e \in Engines /\ ~Unbuilt(e) /\ Alone(e, p) /\ engine[e] \in EngineType
      /\ PlayRuns(e, p, play[p].scene, engine[e])
      /\ engine[e].awaited = p => play[p].scene \in engine[e].shown
    BY PlayKnows DEF Calm
<1>2. o \in EngineType /\ ScriptFits(e, p, o, NoPlay) /\ ~o.busy
    BY <1>1, OverGives
<1>3. NoPlay \in PlayType /\ NoPlay.st = "free"
    BY DEF NoPlay, PlayType, Reply
<1>4. /\ engine' = [engine EXCEPT ![e] = o] /\ provider' = [provider EXCEPT ![e] = v]
      /\ play' = [play EXCEPT ![p] = NoPlay] /\ status' = "listening"
    BY <1>1 DEF End, Inv, TypeOK, EngineTypeOK
<1>5. PlayFits(e, p, o, v, NoPlay)
    BY <1>1, <1>2, <1>3 DEF PlayFits, Alone
<1> HIDE DEF o, e
<1> QED
    <2>1. Calm(e)
        BY DEF e
    <2> QED
        BY <1>1, <1>2, <1>3, <1>4, <1>5, <2>1, LocalStep

LEMMA SearchedStep ==
    ASSUME Inv, NEW p \in Plays, Searched(p), UNCHANGED pageVars
    PROVE  Inv'
<1> DEFINE e == play[p].engine
<1>1. Busy(p) /\ play[p].st = "thinking"
    BY DEF Searched, Busy
<1>2. Calm(e)
    <2>1. status' \in {"speaking", "listening"} /\ closing' = closing
        BY DEF Searched, Speak
    <2> QED
        BY <2>1 DEF Calm, pageVars, Inv, TypeOK, EngineTypeOK
<1>3. /\ e \in Engines /\ ~Unbuilt(e) /\ Alone(e, p) /\ engine[e] \in EngineType
      /\ PlayRuns(e, p, play[p].scene, engine[e]) /\ play[p].scene \in Scenes \cup {Reply}
    BY <1>1, <1>2, PlayKnows DEF Calm, PlayType
<1>4. provider[e].resolver = None
    BY <1>1, <1>3, PlayKnows, SceneNumbers DEF Inv, PlayOK
<1>5. Speak(e, p, play[p].scene, engine[e])
    BY DEF Searched
<1> HIDE DEF e
<1> QED
    BY <1>2, <1>3, <1>4, <1>5, SpeakStep

\* The speech of play p goes on in a state r that still waits for its promise
\* or knows that it was resolved.
LEMMA GoesOn ==
    ASSUME Inv, NEW p \in Plays, Busy(p), play[p].st # "thinking", Calm(play[p].engine),
           NEW r \in PlayType, r.st \in {"talking", "waiting"},
           r.engine = play[p].engine, r.scene = play[p].scene,
           NEW v \in ProviderType, v.resolver # None => v.resolver = p /\ ~r.heard /\ v.kind = "anam",
           r.heard \/ v.kind = "dry" \/ (v.resolver = p /\ v.timer),
           provider' = [provider EXCEPT ![play[p].engine] = v],
           play' = [play EXCEPT ![p] = r],
           UNCHANGED <<engine, status>>
    PROVE  Inv'
<1> DEFINE e == play[p].engine
           g == engine[e]
<1>1. /\ e \in Engines /\ ~Unbuilt(e) /\ Alone(e, p) /\ g \in EngineType
      /\ PlayRuns(e, p, play[p].scene, g)
      /\ g.awaited = p => play[p].scene \in g.shown
    BY PlayKnows DEF Calm
<1>2. PlayFits(e, p, g, v, r)
    BY <1>1 DEF PlayFits, Alone, PlayRuns
<1>3. ScriptFits(e, p, g, r)
    <2>1. g.script = "answering" => g.at \in g.shown
        BY <1>1 DEF PlayRuns
    <2>2. e \notin keyed' /\ g.script \in {"gap", "done"} => g.at \in g.shown
        BY <1>1 DEF PlayRuns, Calm, Inv, ScriptOK
    <2>3. e \notin keyed' => (autoplay /\ g.busy => g.script = "answering")
        BY <1>1 DEF PlayRuns
    <2> QED
        BY <1>1, <2>1, <2>2, <2>3 DEF ScriptFits, PlayRuns
<1>4. engine' = [engine EXCEPT ![e] = g]
    BY <1>1 DEF Inv, TypeOK, EngineTypeOK
<1>5. Calm(e) /\ provider' = [provider EXCEPT ![e] = v]
    OBVIOUS
<1> HIDE DEF g, e
<1> QED
    BY <1>1, <1>2, <1>3, <1>4, <1>5, LocalStep


LEMMA TalkStep ==
    ASSUME Inv, NEW p \in Plays, TalkReturns(p) \/ UtteranceEnds(p), UNCHANGED pageVars
    PROVE  Inv'
<1> DEFINE e == play[p].engine
<1>1. Busy(p) /\ play[p].st \in {"talking", "waiting"}
    BY DEF TalkReturns, UtteranceEnds, Busy
<1>2. Calm(e)
    <2>1. status' \in {status, "listening"} /\ closing' = closing
        BY DEF TalkReturns, UtteranceEnds, End
    <2> QED
        BY <2>1 DEF Calm, pageVars, Inv, TypeOK, EngineTypeOK
<1>3. /\ e \in Engines /\ provider[e] \in ProviderType /\ play[p] \in PlayType
      /\ provider[e].resolver # None =>
            provider[e].resolver = p /\ ~play[p].heard /\ provider[e].kind = "anam"
    BY <1>1, PlayKnows
<1>4. CASE UtteranceEnds(p)
    <2>1. provider[e].resolver = None /\ End(p, TRUE, provider[e])
        BY <1>3, <1>4 DEF UtteranceEnds
    <2> QED
        BY <1>1, <1>2, <1>3, <2>1, EndStep
<1>5. CASE TalkReturns(p) /\ play[p].heard
    <2>1. provider[e].resolver = None /\ End(p, TRUE, provider[e])
        BY <1>3, <1>5 DEF TalkReturns
    <2> QED
        BY <1>1, <1>2, <1>3, <2>1, EndStep
<1>6. CASE TalkReturns(p) /\ ~play[p].heard
    <2> DEFINE r == [play[p] EXCEPT !.st = "waiting"]
    <2>1. /\ r \in PlayType /\ r.st = "waiting" /\ r.engine = e
          /\ r.scene = play[p].scene /\ r.heard = play[p].heard
        BY <1>3 DEF PlayType
    <2>2. /\ play' = [play EXCEPT ![p] = r] /\ UNCHANGED <<engine, status>>
          /\ provider' = [provider EXCEPT ![e] = provider[e]]
        BY <1>6 DEF TalkReturns, Inv, TypeOK, EngineTypeOK
    <2>3. provider[e].kind = "dry" \/ (provider[e].resolver = p /\ provider[e].timer)
        BY <1>1, <1>3, <1>6 DEF Inv, PlayOK
    <2> HIDE DEF r
    <2> QED
        BY <1>1, <1>2, <1>3, <1>6, <2>1, <2>2, <2>3, GoesOn
<1> QED
    BY <1>4, <1>5, <1>6

LEMMA FailsStep ==
    ASSUME Inv, NEW p \in Plays, Raising(p)
    PROVE  Inv'
<1> DEFINE e == play[p].engine
           v == Silent(e, p)
<1>1. Busy(p) /\ play[p].st = "talking" /\ End(p, FALSE, v)
    BY DEF Raising, TalkFails, Busy
<1>2. Calm(e)
    <2>1. status' = "listening" /\ closing' = closing
        BY <1>1 DEF End
    <2> QED
        BY <2>1 DEF Calm, Raising, Event, Inv, TypeOK, EngineTypeOK
<1>3. v \in ProviderType /\ v.resolver = None
    BY <1>1, PlayKnows DEF Silent, ProviderType
<1> HIDE DEF v
<1> QED
    BY <1>1, <1>2, <1>3, EndStep

LEMMA FinishStep ==
    ASSUME Inv, NEW e \in Engines, FinishSpeaking(e), ~Unbuilt(e), UNCHANGED pageVars
    PROVE  Inv'
<1> DEFINE p == provider[e].resolver
           v == Finished(e)
<1>1. /\ provider[e] \in ProviderType /\ engine[e] \in EngineType
      /\ PlayOK(e) /\ ScriptOK(e)
    BY DEF Inv, TypeOK, EngineTypeOK
<1>2. v \in ProviderType /\ v.resolver = None /\ v.kind = provider[e].kind
    BY <1>1 DEF Finished, ProviderType
<1>3. Calm(e)
    <2>1. status' \in {status, "listening"} /\ closing' = closing
        BY DEF FinishSpeaking, End
    <2> QED
        BY <2>1 DEF Calm, pageVars, Inv, TypeOK, EngineTypeOK
<1>4. p # None => /\ p \in Plays /\ Busy(p) /\ play[p].engine = e
                  /\ play[p].st \in {"talking", "waiting"}
    BY <1>1 DEF PlayOK, ProviderType, Busy
<1>5. CASE p # None /\ play[p].st = "waiting"
    <2>1. End(p, TRUE, v)
        BY <1>5 DEF FinishSpeaking
    <2> HIDE DEF p, v
    <2> QED
        BY <1>2, <1>3, <1>4, <1>5, <2>1, EndStep
<1>6. CASE p # None /\ play[p].st # "waiting"
    <2> DEFINE r == [play[p] EXCEPT !.heard = TRUE]
    <2>1. /\ r \in PlayType /\ r.st = play[p].st /\ r.engine = e
          /\ r.scene = play[p].scene /\ r.heard
        BY <1>4, <1>6 DEF PlayType, Inv, TypeOK, EngineTypeOK
    <2>2. /\ play' = [play EXCEPT ![p] = r] /\ UNCHANGED <<engine, status>>
          /\ provider' = [provider EXCEPT ![e] = v]
        BY <1>6 DEF FinishSpeaking
    <2> HIDE DEF p, v, r
    <2> QED
        BY <1>2, <1>3, <1>4, <1>6, <2>1, <2>2, GoesOn
<1>7. CASE p = None
    <2>1. /\ engine' = [engine EXCEPT ![e] = engine[e]] /\ UNCHANGED <<play, engine, status>>
          /\ provider' = [provider EXCEPT ![e] = v]
        BY <1>7 DEF FinishSpeaking, Inv, TypeOK, EngineTypeOK
    <2>2. ScriptOK(e)'
        BY <1>1, <2>1 DEF ScriptOK, Busy, pageVars
    <2> HIDE DEF v
    <2> QED
        BY <1>1, <1>2, <1>3, <1>7, <2>1, <2>2, QuietStep DEF Allowed
<1> QED
    BY <1>5, <1>6, <1>7


-----------------------------------------------------------------------------
(* What moves an engine: its script, the vendor, keys and words.           *)

\* The script goes from one stage to another, at scene i.
LEMMA StageStep ==
    ASSUME Inv, NEW e \in Engines, NEW to \in {"beat", "gap", "asking", "done"}, NEW i \in Scenes,
           engine' = [engine EXCEPT ![e].script = to, ![e].at = i],
           UNCHANGED <<provider, play, status, closing, pageVars>>,
           \/ engine[e].script = "asking" /\ to = "beat" /\ i = engine[e].at
           \/ engine[e].script = "beat" /\ engine[e].busy /\ to = "gap" /\ i = engine[e].at
           \/ engine[e].script = "gap" /\ to = "done" /\ i = engine[e].at
           \/ engine[e].script = "gap" /\ to = "asking" /\ i = engine[e].at + 1
    PROVE  Inv'
<1> DEFINE g == [engine[e] EXCEPT !.script = to, !.at = i]
<1>1. /\ engine[e] \in EngineType /\ provider[e] \in ProviderType
      /\ ScriptOK(e) /\ engine[e].script \notin {"off", "answering"}
    BY DEF Inv, TypeOK, EngineTypeOK
<1>2. /\ g \in EngineType /\ g.script = to /\ g.at = i /\ g.busy = engine[e].busy
      /\ g.shown = engine[e].shown /\ g.awaited = engine[e].awaited
    BY <1>1 DEF EngineType
<1>3. engine' = [engine EXCEPT ![e] = g] /\ engine'[e] = g
    BY DEF Inv, TypeOK, EngineTypeOK
<1>4. i = engine[e].at + 1 => 1..(i - 1) = (1..(engine[e].at - 1)) \cup {engine[e].at}
    BY <1>1 DEF EngineType, Scenes
<1>5. ASSUME e \notin keyed
      PROVE  /\ autoplay /\ g.busy => FALSE
             /\ 1..(i - 1) \subseteq g.shown
             /\ to \in {"gap", "done"} => i \in g.shown
    <2>1. /\ autoplay /\ ~engine[e].busy /\ 1..(engine[e].at - 1) \subseteq engine[e].shown
          /\ engine[e].script = "gap" => engine[e].at \in engine[e].shown
        BY <1>1, <1>5 DEF ScriptOK
    <2> QED
        BY <1>2, <1>4, <2>1
<1>6. ScriptOK(e)'
    BY <1>1, <1>2, <1>3, <1>5 DEF ScriptOK, pageVars
<1>7. Calm(e)
    BY DEF Calm, pageVars, Inv, TypeOK, EngineTypeOK
<1>8. provider' = [provider EXCEPT ![e] = provider[e]]
    BY DEF Inv, TypeOK, EngineTypeOK
<1>9. Allowed(e)
    BY <1>1 DEF Allowed, Unbuilt
<1> HIDE DEF g
<1> QED
    BY <1>1, <1>2, <1>3, <1>6, <1>7, <1>8, <1>9, QuietStep

LEMMA ScriptStep ==
    ASSUME Inv, NEW e \in Engines, Asked(e) \/ Answer(e) \/ NextScene(e), UNCHANGED pageVars
    PROVE  Inv'
<1>1. engine[e] \in EngineType /\ engine[e].at \in Scenes /\ engine[e].script # "off"
    BY DEF Inv, TypeOK, EngineTypeOK, EngineType, Asked, Answer, NextScene
<1>2. CASE Answer(e) /\ MayPlay(e)
    <2>1. Begin(e, engine[e].at, TRUE) /\ engine[e].script = "beat"
        BY <1>2 DEF Answer
    <2>2. Calm(e)
        <3>1. status' \in {"speaking", "thinking", "listening"} /\ closing' = closing
            BY <2>1 DEF Begin, Speak
        <3> QED
            BY <3>1 DEF Calm, pageVars, Inv, TypeOK, EngineTypeOK
    <2>3. ~Unbuilt(e)
        BY <1>1 DEF Unbuilt
    <2> QED
        BY <1>1, <1>2, <2>1, <2>2, <2>3, BeginStep
<1>3. CASE Answer(e) /\ ~MayPlay(e)
    <2>1. /\ engine' = [engine EXCEPT ![e].script = "gap", ![e].at = engine[e].at]
          /\ engine[e].script = "beat" /\ engine[e].busy
          /\ UNCHANGED <<provider, play, status, closing>>
        BY <1>1, <1>3 DEF Answer, MayPlay, EngineType, Inv, TypeOK, EngineTypeOK
    <2> QED
        BY <1>1, <2>1, StageStep
<1>4. CASE Asked(e)
    <2>1. /\ engine' = [engine EXCEPT ![e].script = "beat", ![e].at = engine[e].at]
          /\ engine[e].script = "asking"
          /\ UNCHANGED <<provider, play, status, closing>>
        BY <1>1, <1>4 DEF Asked, EngineType, Inv, TypeOK, EngineTypeOK
    <2> QED
        BY <1>1, <2>1, StageStep
<1>5. CASE NextScene(e) /\ engine[e].at < NumScenes
    <2>1. engine[e].script = "gap" /\ engine[e].at + 1 \in Scenes
          /\ UNCHANGED <<provider, play, status, closing>>
        BY <1>1, <1>5, SceneNumbers DEF NextScene
    <2>2. engine' = [engine EXCEPT ![e].script = "asking", ![e].at = engine[e].at + 1]
        BY <1>1, <1>5 DEF NextScene, EngineType, Inv, TypeOK, EngineTypeOK
    <2> QED
        BY <1>5, <2>1, <2>2, StageStep
<1>6. CASE NextScene(e) /\ ~(engine[e].at < NumScenes)
    <2>1. /\ engine' = [engine EXCEPT ![e].script = "done", ![e].at = engine[e].at]
          /\ engine[e].script = "gap"
          /\ UNCHANGED <<provider, play, status, closing>>
        BY <1>1, <1>6 DEF NextScene, EngineType, Inv, TypeOK, EngineTypeOK
    <2> QED
        BY <1>1, <2>1, StageStep
<1> QED
    BY <1>2, <1>3, <1>4, <1>5, <1>6

LEMMA CloseStep ==
    ASSUME Inv, NEW e \in Engines, CloseDemo(e), UNCHANGED pageVars
    PROVE  Inv'
<1> DEFINE g == [engine[e] EXCEPT !.leaving = FALSE]
           v == Disconnected(e)
<1>1. engine[e] \in EngineType /\ provider[e] \in ProviderType /\ ScriptOK(e)
    BY DEF Inv, TypeOK, EngineTypeOK
<1>2. /\ g \in EngineType /\ g.busy = engine[e].busy /\ g.script = engine[e].script
      /\ g.at = engine[e].at /\ g.awaited = engine[e].awaited /\ g.shown = engine[e].shown
    BY <1>1 DEF EngineType
<1>3. /\ v \in ProviderType /\ v.kind = provider[e].kind
      /\ v.resolver = provider[e].resolver /\ v.timer = provider[e].timer
      /\ provider[e] = Unconnected("dry") => v = provider[e]
    BY <1>1 DEF Disconnected, ProviderType, Unconnected
<1>4. /\ engine' = [engine EXCEPT ![e] = g] /\ provider' = [provider EXCEPT ![e] = v]
      /\ UNCHANGED <<play, status>> /\ closing' = TRUE
    BY DEF CloseDemo, Inv, TypeOK, EngineTypeOK
<1>5. engine'[e] = g /\ provider'[e] = v
    BY <1>4 DEF Inv, TypeOK, EngineTypeOK
<1>6. Calm(e)
    BY <1>4 DEF Calm, pageVars, Inv, TypeOK, EngineTypeOK
<1>7. Allowed(e)
    BY <1>2, <1>3, <1>5 DEF Allowed, Unbuilt, pageVars
<1>8. ScriptOK(e)'
    BY <1>1, <1>2, <1>4, <1>5 DEF ScriptOK, Busy, pageVars
<1> HIDE DEF g, v
<1> QED
    BY <1>2, <1>3, <1>4, <1>6, <1>7, <1>8, QuietStep

LEMMA KeyStep ==
    ASSUME Inv, Jump \/ NextUnplayed
    PROVE  Inv'
<1>1. current \in Engines /\ MayPlay(current) /\ Pressed
    BY DEF Jump, NextUnplayed, Inv, TypeOK
<1>2. PICK i \in Scenes : Begin(current, i, FALSE)
    BY DEF Jump, NextUnplayed, Firsts
<1>3. ~Unbuilt(current)
    BY DEF Unbuilt
<1>4. Calm(current)
    <2>1. status' \in {"speaking", "thinking", "listening"} /\ closing' = closing
        BY <1>2 DEF Begin, Speak
    <2> QED
        BY <1>1, <2>1 DEF Calm, Pressed, Inv, TypeOK, EngineTypeOK
<1>5. current \in keyed'
    BY <1>1 DEF Pressed
<1> QED
    BY <1>1, <1>2, <1>3, <1>4, <1>5, BeginStep

LEMMA WordsStep ==
    ASSUME Inv, NEW e \in Engines, UserSpeech(e)
    PROVE  Inv'
<1>1. PICK i \in Scenes \cup {Reply} : Begin(e, i, FALSE)
    BY DEF UserSpeech, Firsts
<1>2. ~Unbuilt(e) /\ ~autoplay
    BY DEF UserSpeech, Hears, Unbuilt, Unconnected
<1>3. Calm(e)
    <2>1. status' \in {"speaking", "thinking", "listening"} /\ closing' = closing
        BY <1>1 DEF Begin, Speak
    <2> QED
        BY <2>1 DEF Calm, UserSpeech, Inv, TypeOK, EngineTypeOK
<1> QED
    BY <1>1, <1>2, <1>3, BeginStep DEF UserSpeech

LEMMA LostStep ==
    ASSUME Inv, NEW e \in Engines, ConnectionClosed(e)
    PROVE  Inv'
<1> DEFINE v == [provider[e] EXCEPT !.client = IF @ = "live" THEN "closed" ELSE "none"]
<1>1. provider[e] \in ProviderType /\ ScriptOK(e) /\ engine[e] \in EngineType
    BY DEF Inv, TypeOK, EngineTypeOK
<1>2. v \in ProviderType /\ v.kind = provider[e].kind
      /\ v.resolver = provider[e].resolver /\ v.timer = provider[e].timer
    BY <1>1 DEF ProviderType
<1>3. /\ provider' = [provider EXCEPT ![e] = v] /\ engine' = [engine EXCEPT ![e] = engine[e]]
      /\ UNCHANGED play /\ status' = "idle"
    BY DEF ConnectionClosed, Inv, TypeOK, EngineTypeOK
<1>4. ~Unbuilt(e)
    BY DEF ConnectionClosed, Unbuilt, Unconnected
<1>5. Calm(e)
    BY DEF ConnectionClosed, Calm, Event, Inv, TypeOK, EngineTypeOK
<1>6. ScriptOK(e)'
    BY <1>1 DEF ScriptOK, ConnectionClosed, Busy
<1> HIDE DEF v
<1> QED
    BY <1>1, <1>2, <1>3, <1>4, <1>5, <1>6, QuietStep DEF Allowed


-----------------------------------------------------------------------------
(* start() and connect().                                                  *)

\* A step of start() that neither an engine nor a provider notices.
LEMMA PageStep ==
    ASSUME Inv, TypeOK', UNCHANGED <<provider, play, engine, autoplay, current, keyed>>,
           status' = status \/ status' \notin {"thinking", "speaking"},
           \A s \in Starts : \/ start'[s] = start[s]
                             \/ start[s] \in {"idle", "fetching"} /\ start'[s] # "up"
    PROVE  Inv'
<1>1. ASSUME NEW e \in Engines PROVE PlayOK(e)' /\ ScriptOK(e)'
    <2>1. PlayOK(e) /\ ScriptOK(e)
        BY DEF Inv
    <2> QED
        BY <2>1 DEF PlayOK, ScriptOK, Busy
<1>2. ASSUME NEW s \in Starts PROVE StartOK(s)'
    <2>1. StartOK(s)
        BY DEF Inv
    <2>2. \A e : Unbuilt(e)' = Unbuilt(e)
        BY DEF Unbuilt
    <2> QED
        BY <2>1, <2>2 DEF StartOK
<1>3. \A p \in Plays : Busy(p)' = Busy(p)
    BY DEF Busy
<1> QED
    BY <1>1, <1>2, <1>3 DEF Inv

LEMMA ClickSteps ==
    ASSUME Inv, LoadScript \/ \E s \in Starts : ClickStart(s) \/ Fetched(s) \/ FetchFails(s)
    PROVE  Inv'
<1>1. UNCHANGED <<provider, play, engine, autoplay, current, keyed, closing>>
    BY DEF LoadScript, ClickStart, Fetched, FetchFails, Proceed, sceneVars
<1>2. /\ start' \in [Starts -> {"idle", "fetching", "session", "opening", "video", "up"}]
      /\ \A t \in Starts : \/ start'[t] = start[t]
                           \/ start[t] \in {"idle", "fetching"} /\ start'[t] # "up"
    BY DEF LoadScript, ClickStart, Fetched, FetchFails, Proceed, Inv, TypeOK
<1>3. status' = status \/ status' = "connecting"
    BY DEF LoadScript, ClickStart, Fetched, FetchFails, Proceed, sceneVars
<1>4. events' \in 0..MaxEvents
    BY EventsAssumption DEF LoadScript, ClickStart, Fetched, FetchFails, Proceed, Event, Inv, TypeOK
<1>5. loaded' \in BOOLEAN /\ started' \in BOOLEAN /\ canReconnect' \in BOOLEAN
    BY DEF LoadScript, ClickStart, Fetched, FetchFails, Proceed, Inv, TypeOK
<1>6. TypeOK'
    BY <1>1, <1>2, <1>3, <1>4, <1>5 DEF Inv, TypeOK, EngineTypeOK
<1> QED
    BY <1>1, <1>2, <1>3, <1>6, PageStep

\* start() s builds engine e, or brings it up: nothing plays on it that its
\* provider v would not know of, and its script is off until now.
LEMMA BuildStep ==
    ASSUME Inv, NEW s \in Starts, NEW e \in {Avatar(s), Fallback(s)},
           NEW v \in ProviderType, provider' = [provider EXCEPT ![e] = v],
           Unbuilt(e) \/ (v.kind = provider[e].kind /\ v.resolver = provider[e].resolver
                                                     /\ v.timer = provider[e].timer),
           v.resolver # None => provider[e].resolver # None,
           NEW now \in {"opening", "video", "up"}, start' = [start EXCEPT ![s] = now],
           start[s] \in {"session", "opening", "video"}, now # "up" => e = Avatar(s),
           engine[e].script = "off",
           \/ now = "up" /\ autoplay /\ engine' = [engine EXCEPT ![e].script = "asking"]
           \/ UNCHANGED engine,
           current' = e \/ (current' = current /\ e = Avatar(s)),
           UNCHANGED <<play, closing, autoplay, loaded, started, canReconnect, keyed>>,
           events' = events \/ Event,
           status' \in {status, "listening"}
    PROVE  Inv'
<1>1. e \in Engines /\ Avatar(s) \in Engines /\ Fallback(s) \in Engines
    BY EnginesOf
<1>2. /\ engine \in [Engines -> EngineType] /\ provider \in [Engines -> ProviderType]
      /\ play \in [Plays -> PlayType]
    BY DEF Inv, TypeOK, EngineTypeOK
<1>3. PlayOK(e) /\ ScriptOK(e)
    BY <1>1 DEF Inv
<1>4. /\ engine' \in [Engines -> EngineType]
      /\ \A f \in Engines \ {e} : engine'[f] = engine[f] /\ provider'[f] = provider[f]
      /\ engine'[e].busy = engine[e].busy /\ engine'[e].at = engine[e].at
      /\ engine'[e].awaited = engine[e].awaited /\ engine'[e].shown = engine[e].shown
      /\ engine'[e].script = "off" \/ (engine'[e].script = "asking" /\ autoplay /\ now = "up")
      /\ provider'[e] = v
    BY <1>1, <1>2 DEF EngineType
<1>5. TypeOK'
    <2>1. events' \in 0..MaxEvents
        BY EventsAssumption DEF Inv, TypeOK, Event
    <2>2. provider' \in [Engines -> ProviderType]
        BY <1>2
    <2>3. status' \in {"idle", "connecting", "listening", "thinking", "speaking"}
        BY DEF Inv, TypeOK, EngineTypeOK
    <2>4. EngineTypeOK'
        BY <1>2, <1>4, <2>2, <2>3 DEF EngineTypeOK, Inv, TypeOK
    <2>5. start' \in [Starts -> {"idle", "fetching", "session", "opening", "video", "up"}]
        BY DEF Inv, TypeOK
    <2>6. current' \in Engines \cup {None}
        BY <1>1 DEF Inv, TypeOK
    <2> QED
        BY <2>1, <2>4, <2>5, <2>6 DEF Inv, TypeOK
<1>6. PlayOK(e)'
    <2>1. CASE Unbuilt(e)
        <3>1. /\ \A p \in Plays : ~(Busy(p) /\ play[p].engine = e)
              /\ v.resolver = None /\ ~engine'[e].busy
            BY <1>3, <1>4, <2>1 DEF PlayOK, Unbuilt, Unconnected
        <3> QED
            BY <1>4, <3>1 DEF PlayOK, Busy
    <2>2. CASE ~Unbuilt(e)
        BY <1>3, <1>4, <2>2 DEF PlayOK, Busy
    <2> QED
        BY <2>1, <2>2
<1>7. ScriptOK(e)'
    <2>1. engine[e].at = 1 /\ engine[e].awaited = None /\ 1..(1 - 1) = {}
        BY <1>3 DEF ScriptOK
    <2>2. e \notin keyed /\ autoplay => ~engine[e].busy
        BY <1>3 DEF ScriptOK
    <2> QED
        BY <1>4, <2>1, <2>2 DEF ScriptOK
<1>8. ASSUME NEW f \in Engines \ {e} PROVE PlayOK(f)' /\ ScriptOK(f)'
    <2>1. PlayOK(f) /\ ScriptOK(f)
        BY DEF Inv
    <2> QED
        BY <1>4, <2>1 DEF PlayOK, ScriptOK, Busy
<1>9. ASSUME NEW t \in Starts PROVE StartOK(t)'
    <2>1. /\ StartOK(t) /\ StartOK(s) /\ Avatar(t) \in Engines /\ Fallback(t) \in Engines
          /\ start'[s] = now /\ (t # s => start'[t] = start[t])
        BY EnginesOf DEF Inv, TypeOK
    <2>2. \A f \in Engines \ {e} : Unbuilt(f) => Unbuilt(f)'
        BY <1>4, <1>1 DEF Unbuilt
    <2>3. CASE t # s
        <3>1. Avatar(t) # e /\ Fallback(t) # e
            BY <2>3 DEF Avatar, Fallback
        <3> QED
            BY <1>4, <2>1, <2>2, <2>3, <3>1 DEF StartOK
    <2>4. CASE t = s
        <3>1. now # "up" => Fallback(s) # e
            BY DEF Avatar, Fallback
        <3> QED
            BY <1>1, <1>4, <2>1, <2>2, <2>4, <3>1 DEF StartOK
    <2> QED
        BY <2>3, <2>4
<1>10. \A p \in Plays : Busy(p)' = Busy(p)
    BY DEF Busy
<1> QED
    BY <1>5, <1>6, <1>7, <1>8, <1>9, <1>10 DEF Inv


LEMMA ConnectSteps ==
    ASSUME Inv, NEW s \in Starts,
           SessionArrives(s) \/ StreamStarts(s) \/ VideoPlays(s) \/ ConnectFails(s)
    PROVE  Inv'
<1>1. /\ StartOK(s) /\ Avatar(s) \in Engines /\ Fallback(s) \in Engines
      /\ \A e \in Engines : provider[e] \in ProviderType
      /\ \A k \in {"anam", "dry"}, c \in {"none", "opening"} :
            [Unconnected(k) EXCEPT !.client = c] \in ProviderType
      /\ Unconnected("dry") \in ProviderType /\ Unconnected("dry").resolver = None
    BY EnginesOf DEF Inv, TypeOK, EngineTypeOK, ProviderType, Unconnected
<1>2. CASE SessionArrives(s) /\ start' = [start EXCEPT ![s] = "up"]
    <2>1. provider' = [provider EXCEPT ![Avatar(s)] = Unconnected("dry")] \/ start'[s] = "opening"
        BY <1>2 DEF SessionArrives, Up, Inv, TypeOK
    <2>2. Unbuilt(Avatar(s)) /\ engine[Avatar(s)].script = "off"
        BY <1>1, <1>2 DEF SessionArrives, StartOK, Unbuilt
    <2>3. start'[s] = "up"
        BY <1>2 DEF Inv, TypeOK
    <2>4. Up(s, Avatar(s), Unconnected("dry"))
        BY <2>3, <1>2 DEF SessionArrives, Inv, TypeOK
    <2> QED
        BY <1>1, <1>2, <2>2, <2>4, BuildStep DEF SessionArrives, Up
<1>3. CASE SessionArrives(s) /\ start' # [start EXCEPT ![s] = "up"]
    <2>1. PICK c \in {"none", "opening"} :
             /\ provider' = [provider EXCEPT ![Avatar(s)] = [Unconnected("anam") EXCEPT !.client = c]]
             /\ start' = [start EXCEPT ![s] = "opening"]
             /\ UNCHANGED <<engine, status>>
        BY <1>3 DEF SessionArrives, Up
    <2>2. Unbuilt(Avatar(s)) /\ engine[Avatar(s)].script = "off"
        BY <1>1, <1>3 DEF SessionArrives, StartOK, Unbuilt
    <2>3. [Unconnected("anam") EXCEPT !.client = c].resolver = None
        BY DEF Unconnected
    <2> QED
        BY <1>1, <1>3, <2>1, <2>2, <2>3, BuildStep DEF SessionArrives
<1>4. CASE StreamStarts(s)
    <2> DEFINE e == Avatar(s)
               v == [provider[e] EXCEPT !.client = IF @ = "opening" THEN "live" ELSE @]
    <2>1. /\ v \in ProviderType /\ v.kind = provider[e].kind
          /\ v.resolver = provider[e].resolver /\ v.timer = provider[e].timer
        BY <1>1 DEF ProviderType
    <2>2. provider' = [provider EXCEPT ![e] = v] /\ start' = [start EXCEPT ![s] = "video"]
        BY <1>1, <1>4 DEF StreamStarts, Inv, TypeOK, EngineTypeOK
    <2>3. engine[e].script = "off"
        BY <1>1, <1>4 DEF StreamStarts, StartOK
    <2>4. /\ start[s] = "opening" /\ e \in {Avatar(s), Fallback(s)}
          /\ UNCHANGED <<play, engine, status, closing, autoplay, loaded, started,
                         canReconnect, current, keyed, events>>
        BY <1>4 DEF StreamStarts
    <2> HIDE DEF v
    <2> QED
        BY <2>1, <2>2, <2>3, <2>4, BuildStep
<1>5. CASE VideoPlays(s)
    <2>1. engine[Avatar(s)].script = "off"
        BY <1>1, <1>5 DEF VideoPlays, StartOK
    <2> QED
        BY <1>1, <1>5, <2>1, BuildStep DEF VideoPlays, Up
<1>6. CASE ConnectFails(s)
    <2>1. Unbuilt(Fallback(s)) /\ engine[Fallback(s)].script = "off"
        BY <1>1, <1>6 DEF ConnectFails, StartOK, Unbuilt
    <2> QED
        BY <1>1, <1>6, <2>1, BuildStep DEF ConnectFails, Up
<1> QED
    BY <1>2, <1>3, <1>4, <1>5, <1>6

LEMMA TokenStep ==
    ASSUME Inv, NEW s \in Starts, TokenArrives(s)
    PROVE  Inv'
<1> DEFINE e == Avatar(s)
           v == [provider[e] EXCEPT !.client = "opening"]
<1>1. e \in Engines /\ engine[e] \in EngineType /\ provider[e] \in ProviderType /\ ScriptOK(e)
    BY EnginesOf DEF Inv, TypeOK, EngineTypeOK
<1>2. /\ v \in ProviderType /\ v.kind = provider[e].kind
      /\ v.resolver = provider[e].resolver /\ v.timer = provider[e].timer
    BY <1>1 DEF ProviderType
<1>3. /\ provider' = [provider EXCEPT ![e] = v] /\ engine' = [engine EXCEPT ![e] = engine[e]]
      /\ UNCHANGED <<play, status, engine>>
    BY DEF TokenArrives, Inv, TypeOK, EngineTypeOK
<1>4. Calm(e) /\ Allowed(e)
    BY DEF TokenArrives, Calm, Allowed, pageVars, Inv, TypeOK, EngineTypeOK
<1>5. ScriptOK(e)'
    BY <1>1 DEF ScriptOK, TokenArrives, pageVars, Busy
<1> HIDE DEF v, e
<1> QED
    BY <1>1, <1>2, <1>3, <1>4, <1>5, QuietStep

-----------------------------------------------------------------------------
LEMMA InvNext == Inv /\ [Next]_vars => Inv'
<1> SUFFICES ASSUME Inv, [Next]_vars PROVE Inv'
    OBVIOUS
<1>1. CASE LoadScript
    BY <1>1, ClickSteps
<1>2. CASE Jump \/ NextUnplayed
    BY <1>2, KeyStep
<1>3. ASSUME NEW s \in Starts, Connecting(s) PROVE Inv'
    BY <1>3, ClickSteps, ConnectSteps, TokenStep DEF Connecting
<1>4. ASSUME NEW p \in Plays, Playing(p) \/ Raising(p) PROVE Inv'
    BY <1>4, SearchedStep, TalkStep, FailsStep DEF Playing
<1>5. ASSUME NEW e \in Engines, Running(e) \/ Vendor(e) PROVE Inv'
    <2>1. CASE (SafetyTimer(e) \/ PersonaMessage(e)) /\ UNCHANGED pageVars
        <3>1. ~Unbuilt(e) /\ FinishSpeaking(e)
            BY <2>1 DEF SafetyTimer, PersonaMessage, Unbuilt, Unconnected
        <3> QED
            BY <2>1, <3>1, FinishStep
    <2>2. CASE Asked(e) \/ Answer(e) \/ NextScene(e)
        <3>1. UNCHANGED pageVars \/ UserSpeech(e) \/ ConnectionClosed(e)
            BY <1>5 DEF Running, Vendor
        <3> QED
            BY <2>2, <3>1, ScriptStep, WordsStep, LostStep
    <2>3. CASE CloseDemo(e) /\ UNCHANGED pageVars
        BY <2>3, CloseStep
    <2>4. CASE UserSpeech(e) \/ ConnectionClosed(e)
        BY <2>4, WordsStep, LostStep
    <2> QED
        BY <1>5, <2>1, <2>2, <2>3, <2>4 DEF Running, Vendor
<1>6. CASE UNCHANGED vars
    <2>1. TypeOK'
        BY <1>6 DEF vars, sceneVars, pageVars, Inv, TypeOK, EngineTypeOK
    <2> QED
        BY <1>6, <2>1, PageStep DEF vars, sceneVars, pageVars
<1> QED
    BY <1>1, <1>2, <1>3, <1>4, <1>5, <1>6 DEF Next

LEMMA Invariant == Spec => []Inv
BY InvInit, InvNext, PTL DEF Spec

LEMMA InvImplies == Inv => TypeOK /\ NothingLeftBehind /\ ScriptInOrder
<1> SUFFICES ASSUME Inv PROVE TypeOK /\ NothingLeftBehind /\ ScriptInOrder
    OBVIOUS
<1>1. NothingLeftBehind
    <2>1. ASSUME NEW p \in Plays, Busy(p)
          PROVE  LET v == provider[play[p].engine] IN
                 \/ play[p].st = "thinking" \/ play[p].heard \/ v.kind = "dry"
                 \/ v.resolver = p /\ v.timer
        BY <2>1 DEF Inv, PlayOK
    <2>2. \A e \in Engines : engine[e].busy => \E p \in Plays : Busy(p) /\ play[p].engine = e
        BY DEF Inv, PlayOK
    <2> QED
        BY <2>1, <2>2 DEF NothingLeftBehind, Inv
<1>2. ScriptInOrder
    <2> SUFFICES ASSUME NEW e \in Engines \ keyed, engine[e].script \in {"asking", "beat"}
                 PROVE  ~engine[e].busy /\ 1..(engine[e].at - 1) \subseteq engine[e].shown
        BY DEF ScriptInOrder
    <2>1. ScriptOK(e) /\ engine[e].busy \in BOOLEAN
        BY DEF Inv, TypeOK, EngineTypeOK, EngineType
    <2> QED
        BY <2>1 DEF ScriptOK
<1> QED
    BY <1>1, <1>2 DEF Inv

-----------------------------------------------------------------------------
\* Every variable of the page and of its engines keeps to its type, for any
\* script and any number of sessions, plays, keys and failures.
THEOREM TypeCorrect == Spec => []TypeOK
BY Invariant, InvImplies, PTL

\* Whatever the vendor's messages, the safety timer, talk(), Reconnect and the
\* closing of the demo do and in whatever order, a speech that is waited for is
\* the one its provider's timer will resolve, and neither the busy flag of
\* SceneEngine nor the stage's "thinking" or "speaking" outlives its play.
THEOREM NothingIsLeftBehind == Spec => []NothingLeftBehind
BY Invariant, InvImplies, PTL

\* runAutoplay of an engine without key presses asks its next question only
\* when the engine is silent and every earlier question has been answered, for
\* a script of any length.
THEOREM ScriptStaysInOrder == Spec => []ScriptInOrder
BY Invariant, InvImplies, PTL

=============================================================================
