--------------------------- MODULE SpeechProvider ---------------------------
(***************************************************************************)
(* The voices of the avatar copilot: AnamProvider speaks through a client  *)
(* of the vendor, whose end-of-turn message resolves the promise that      *)
(* speak() waits for, with a timer as safety net; DryRunProvider through   *)
(* the speech synthesis of the browser.  Every engine has a provider of    *)
(* its own, and a play is one running call of playScene or of the reply to *)
(* words that match nothing.                                               *)
(***************************************************************************)
EXTENDS Integers

CONSTANTS Starts,     \* calls of start(): the Start button and Reconnect
          Plays,      \* bound: plays that run at the same time
          None        \* no engine, no play

\* connect() builds an engine for the avatar and, if that fails, another one.
Engines == Starts \X {"avatar", "fallback"}

ASSUME ProviderAssumption == None \notin Plays /\ None \notin Engines

VARIABLES provider,   \* per engine: which one, its client, the promise and its timer
          play        \* the running plays

\* client: "none" before connect() has made one, "opening" until its stream
\* starts, "closed" once the vendor ended the session, "stopped" after
\* disconnect(), which forgets it.  resolver: whose speech is awaited.
Unconnected(kind) == [kind |-> kind, client |-> "none", resolver |-> None, timer |-> FALSE]

NoPlay == [st |-> "free", engine |-> None, scene |-> 0, heard |-> FALSE]
Busy(p) == play[p].st # "free"

ProviderType ==
    [ kind : {"anam", "dry"}, client : {"none", "opening", "live", "closed", "stopped"},
      resolver : Plays \cup {None}, timer : BOOLEAN ]

Connected(e) == provider[e].client \notin {"none", "stopped"}

\* speak() raises at once without a client.
CanSpeak(e) == provider[e].kind = "dry" \/ Connected(e)

\* The vendor's voice: the promise and its timer replace the earlier ones,
\* then the call of talk() is awaited.  The browser's voice: its end is.
Speaking(e, p) ==
    IF provider[e].kind = "dry" THEN provider[e]
    ELSE [provider[e] EXCEPT !.resolver = p, !.timer = TRUE]

SpeakFirst(e) == IF provider[e].kind = "dry" THEN "waiting" ELSE "talking"

\* A promise nobody waits for any longer is resolved without effect.
Silent(e, p) == [provider[e] EXCEPT !.resolver = IF @ = p THEN None ELSE @]

\* finishSpeaking: the timer is cleared and the promise, if any, resolved.
Finished(e) == [provider[e] EXCEPT !.resolver = None, !.timer = FALSE]

\* disconnect(): the client is stopped and forgotten.
Disconnected(e) ==
    [provider[e] EXCEPT !.client = IF provider[e].kind = "anam" /\ Connected(e)
                                   THEN "stopped" ELSE @]

=============================================================================
