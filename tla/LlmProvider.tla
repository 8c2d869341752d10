------------------------------- MODULE LlmProvider -------------------------------
(***************************************************************************)
(* The LLM provider of a session: which backend createLlmProvider builds   *)
(* for text and for screenshots, with whose key, and one call of generate: *)
(* the stream raced against the 30 s timer, and what an abandoned stream   *)
(* may still do.  Models, prompts and token texts are left out.            *)
(***************************************************************************)
EXTENDS Integers, FiniteSets

CONSTANTS
    Request,         \* calls of generate
    Config,          \* configurations the backend may be started with
    MaxChunks        \* bound: text chunks of one stream

ASSUME ProviderAssumption == MaxChunks \in Nat

VARIABLES
    llm,             \* what createLlmProvider returned
    calls            \* of each request: its stream and the outcome of the race

-----------------------------------------------------------------------------
(* Configuration                                                            *)

Providers == {"claude", "openai", "gemini", "groq"}

\* A configured name is trimmed and lower-cased before it is looked up; here
\* the misspelt names that are recognized all the same are listed.
Unset == "unset"
Spelling == [Gemini |-> "gemini", Groq |-> "groq"]
Recognize(name) ==
    IF name \in DOMAIN Spelling THEN Spelling[name]
    ELSE IF name \in Providers THEN name ELSE "unrecognized"

\* apiKeyForProvider compares the name as it is written; Anthropic's key is
\* the default.
KeyFor(name) == IF name \in {"openai", "gemini", "groq"} THEN name ELSE "claude"

\* What the start-up code passes on: the vision provider is the explicit one,
\* else the one inferred from the vision model, else the text provider; a key
\* is "" when its secret is not set.
Key(c, name) == IF KeyFor(name) \in c.secrets THEN KeyFor(name) ELSE ""
VisionName(c) ==
    IF c.vision # Unset THEN c.vision
    ELSE IF c.inferred # Unset THEN c.inferred ELSE c.provider

Backend(provider, key) == [provider |-> provider, key |-> key]
NoBackend == Backend("none", "")

\* The client of the recognized text provider cannot be built.
BrokenBackend == Backend("broken", "")

\* The text backend serves screenshots too unless another provider is
\* configured, has a key, and its client can be built.
VisionBackend(text, c) ==
    LET name == Recognize(VisionName(c))
        key == Key(c, VisionName(c))
    IN  IF name \in {"unrecognized", text.provider} \cup c.broken \/ key = "" THEN text
        ELSE Backend(name, key)

CreateLlmProvider(c) ==
    LET provider == Recognize(c.provider)
        text == Backend(provider, Key(c, c.provider))
        Both(backend) == [text |-> backend, vision |-> backend]
    IN  IF c.provider = Unset \/ provider = "unrecognized" THEN Both(NoBackend)
        ELSE IF provider \in c.broken THEN Both(BrokenBackend)
        ELSE [text |-> text, vision |-> VisionBackend(text, c)]

Configured == llm.text \notin {NoBackend, BrokenBackend}

-----------------------------------------------------------------------------
(* One call of generate                                                     *)

\* "racing": the stream runs and the timer is set.  "abandoned": the timer won,
\* the signal is aborted and the stream has not noticed yet.
CallState == {"idle", "racing", "abandoned", "ended"}
Outcome == {"none", "ok", "timeout", "backend-error", "configuration"}
Call == [at : CallState, chunks : 0..MaxChunks, vision : BOOLEAN, outcome : Outcome]
IdleCall == [at |-> "idle", chunks |-> 0, vision |-> FALSE, outcome |-> "none"]

CallsTypeOK ==
    /\ llm \in {CreateLlmProvider(c) : c \in Config}
    /\ calls \in [Request -> Call]

CallsInit ==
    /\ llm \in {CreateLlmProvider(c) : c \in Config}
    /\ calls = [r \in Request |-> IdleCall]

BackendOf(r) == IF calls[r].vision THEN llm.vision ELSE llm.text

StartCall(r, image) ==
    /\ calls' = [calls EXCEPT ![r] = [IdleCall EXCEPT !.at = "racing", !.vision = image]]
    /\ UNCHANGED llm

\* The SDKs of Claude, OpenAI and Groq are given the signal and end with it;
\* Gemini's loop looks at it before it passes a chunk on.
Streams(r) == calls[r].at = "racing"

Chunk(r) ==
    /\ Configured
    /\ Streams(r)
    /\ calls[r].chunks < MaxChunks
    /\ calls' = [calls EXCEPT ![r].chunks = @ + 1]
    /\ UNCHANGED llm

Settles(r, state, outcome) ==
    /\ calls[r].at = "racing"
    /\ calls' = [calls EXCEPT ![r] = [@ EXCEPT !.at = state, !.outcome = outcome]]
    /\ UNCHANGED llm

\* The stream ends or throws before the timer, and the timer is cleared.
StreamEnds(r) == Configured /\ Settles(r, "ended", "ok")
StreamThrows(r) == Configured /\ Settles(r, "ended", "backend-error")

\* The timer fires first: abort, and answer for the stream.
TimesOut(r) ==
    /\ Configured
    /\ Settles(r, IF BackendOf(r).provider = "gemini" THEN "abandoned" ELSE "ended", "timeout")

\* No usable provider: generate answers at once, with the reason.
Unconfigured(r) ==
    /\ ~Configured
    /\ Settles(r, "ended", IF llm.text = BrokenBackend THEN "backend-error" ELSE "configuration")

\* An abandoned Gemini stream meets the aborted signal at its next chunk.
AbandonedEnds(r) ==
    /\ calls[r].at = "abandoned"
    /\ calls' = [calls EXCEPT ![r].at = "ended"]
    /\ UNCHANGED llm

Returned(r) == calls[r].outcome # "none"

-----------------------------------------------------------------------------
(* What the comments say, and the code does not do: see the README.         *)

\* Each provider is called with its own key ("Select the API key matching a
\* provider name", index.ts:63): not if the text provider's name has capitals
\* or spaces, which name the provider all the same, but not its key.
OwnKeys == \A b \in {llm.text, llm.vision} : b.key \in {"", b.provider}
=============================================================================
