------------------------------ MODULE AuthManager ------------------------------
(***************************************************************************)
(* The desktop's sign-in: AuthManager over the Supabase adapter and the     *)
(* token file that createElectronSecureStore reads, truncates and writes.   *)
(* A pair of tokens is a number, in the order of issue: its refresh token   *)
(* is good for one use, its access token until it expires.  One             *)
(* environment; the blobs of the others, in the same file, are left out.    *)
(***************************************************************************)
EXTENDS Integers, FiniteSets, Sequences

CONSTANTS
    Call,         \* slots for calls of the AuthManager that overlap
    Identity,     \* who may sign in
    MaxTokens,    \* bound: pairs of tokens issued
    MaxFaults     \* bound: replies and writes that fail

ASSUME AuthAssumption ==
    /\ IsFiniteSet(Call)
    /\ Identity # {}
    /\ {MaxTokens, MaxFaults} \subseteq Nat

VARIABLES
    file,         \* secure-tokens.json: its pair of tokens, and whether it is truncated
    provider,     \* Supabase: who owns each pair, whose refresh token is good
    adapter,      \* the pair its client holds; the loopback listener of an OAuth flow
    encryption,   \* safeStorage.isEncryptionAvailable()
    call,         \* the calls in flight
    faults,       \* so far
    crossed       \* history: two calls have been changing the tokens at once

authVars == <<file, provider, adapter, encryption, call, faults, crossed>>

NoTokens == 0
Pair == 1..MaxTokens
Nobody == 0

\* An await of a call; the last three are resolveAccount's, in the backend.
Stage == {"load", "refresh", "password", "listen", "redirect", "exchange", "endsession",
          "save", "writing", "clear", "clearing", "verify", "provision", "bootstrap"}
Backend == {"verify", "provision", "bootstrap"}

\* A call that is about to change the stored tokens
Changes(r) == \/ r.at \in {"refresh", "endsession", "save", "writing", "clear", "clearing"}
              \/ r.op = "signout"

Operation == {"restore", "token", "password", "google", "signout"}

\* pair: the tokens it has at hand; who: the identity signing in
Idle == [op |-> "none", at |-> "idle", pair |-> NoTokens, who |-> Nobody]
CallRecord == [op : Operation, at : Stage, pair : 0..MaxTokens, who : Identity \cup {Nobody}]

AuthInit ==
    /\ file = [pair |-> NoTokens, torn |-> FALSE]
    /\ provider = [owner |-> <<>>, good |-> {}, expired |-> {}]
    /\ adapter = [pair |-> NoTokens, listening |-> FALSE]
    /\ encryption \in BOOLEAN
    /\ call = [c \in Call |-> Idle]
    /\ faults = 0
    /\ crossed = FALSE

\* The calls become those, two of which may now be changing the tokens.
Become(calls) ==
    /\ call' = calls
    /\ crossed' = (crossed \/ \E c, d \in Call : c # d /\ Changes(calls[c]) /\ Changes(calls[d]))

InFlight(c) == call[c].op # "none"

\* c goes on to stage at with these tokens.
Goes(c, at, pair) == Become([call EXCEPT ![c].at = at, ![c].pair = pair])

Returns(c) == Become([call EXCEPT ![c] = Idle])

Fault == faults < MaxFaults /\ faults' = faults + 1

-----------------------------------------------------------------------------
(* The identity provider and the adapter                                    *)

CanIssue == Len(provider.owner) < MaxTokens

\* A new pair for who; the refresh token used for it is good no longer.  The
\* client of the adapter holds the newest pair.
Issue(c, who, usedUp) ==
    LET new == Len(provider.owner) + 1 IN
    /\ CanIssue
    /\ provider' = [provider EXCEPT !.owner = Append(@, who),
                                    !.good = (@ \ usedUp) \cup {new}]
    /\ adapter' = [adapter EXCEPT !.pair = new]
    /\ Goes(c, "save", new)

\* An access token expires.
Expires ==
    \E n \in DOMAIN provider.owner \ provider.expired :
        /\ provider' = [provider EXCEPT !.expired = @ \cup {n}]
        /\ UNCHANGED <<file, adapter, encryption, call, faults, crossed>>

\* What a rejected provider makes of a call: a sign-in fails, a refresh clears
\* the stored tokens.
Rejected(c) ==
    IF call[c].at = "refresh" THEN Goes(c, "clear", NoTokens) ELSE Returns(c)

\* refreshSession.  A refresh token that has been used is refused, or still
\* taken within the provider's reuse interval.
RefreshAnswered(c) ==
    /\ call[c].at = "refresh"
    /\ \/ Issue(c, provider.owner[call[c].pair], {call[c].pair})
       \/ /\ call[c].pair \notin provider.good
          /\ Rejected(c)
          /\ UNCHANGED <<provider, adapter>>
    /\ UNCHANGED <<file, encryption, faults>>

\* signInWithPassword, and exchangeCodeForSession
SignInAnswered(c) ==
    /\ call[c].at \in {"password", "exchange"}
    /\ \/ Issue(c, call[c].who, {})
       \/ Rejected(c) /\ UNCHANGED <<provider, adapter>>
    /\ UNCHANGED <<file, encryption, faults>>

\* The network fails.
ProviderLost(c) ==
    /\ call[c].at \in {"refresh", "password", "exchange", "endsession"}
    /\ Fault
    /\ IF call[c].at = "endsession" THEN Goes(c, "clear", NoTokens) ELSE Rejected(c)
    /\ UNCHANGED <<file, provider, adapter, encryption>>

\* waitForOAuthRedirect: the port is taken while another flow still waits.
Listens(c) ==
    /\ call[c].at = "listen"
    /\ IF adapter.listening
       THEN Returns(c) /\ UNCHANGED adapter
       ELSE Goes(c, "redirect", NoTokens) /\ adapter' = [adapter EXCEPT !.listening = TRUE]
    /\ UNCHANGED <<file, provider, encryption, faults>>

\* Mutant: the listener is not closed.
RedirectedKeeping(c) ==
    /\ call[c].at = "redirect"
    /\ Goes(c, "exchange", NoTokens) \/ Returns(c)
    /\ UNCHANGED <<file, provider, adapter, encryption, faults>>

\* The first request to the listener closes it, with a code or without.
Redirected(c) ==
    /\ call[c].at = "redirect"
    /\ adapter' = [adapter EXCEPT !.listening = FALSE]
    /\ Goes(c, "exchange", NoTokens) \/ Returns(c)
    /\ UNCHANGED <<file, provider, encryption, faults>>

\* Mutant: a sign-out that had tokens ends the session and keeps them.
SessionEndedOnly(c) ==
    /\ call[c].at = "endsession"
    /\ provider' = [provider EXCEPT !.good = {}]
    /\ adapter' = [adapter EXCEPT !.pair = NoTokens]
    /\ Returns(c)
    /\ UNCHANGED <<file, encryption, faults>>

\* signOut ends whatever session the client holds; after a launch it holds none.
SessionEnded(c) ==
    /\ call[c].at = "endsession"
    /\ provider' = [provider EXCEPT !.good =
                      IF adapter.pair = NoTokens THEN @
                      ELSE {n \in @ : provider.owner[n] # provider.owner[adapter.pair]}]
    /\ adapter' = [adapter EXCEPT !.pair = NoTokens]
    /\ Goes(c, "clear", NoTokens)
    /\ UNCHANGED <<file, encryption, faults>>

-----------------------------------------------------------------------------
(* The token file                                                           *)

\* A truncated file reads as empty, and so does one that cannot be decrypted.
Stored == IF file.torn \/ ~encryption THEN NoTokens ELSE file.pair

\* load, and what restore, getValidAccessToken and signOut make of it
Loads(c) ==
    /\ call[c].at = "load"
    /\ CASE call[c].op = "signout" ->
              Goes(c, IF Stored = NoTokens THEN "clear" ELSE "endsession", NoTokens)
         [] call[c].op # "signout" /\ Stored \in provider.expired -> Goes(c, "refresh", Stored)
         [] call[c].op = "token" /\ Stored \notin provider.expired -> Goes(c, "verify", Stored)
         [] OTHER -> Returns(c)
    /\ UNCHANGED <<file, provider, adapter, encryption, faults>>

\* set refuses to write without encryption: a sign-in fails, a refresh clears.
Refuses(c) ==
    IF call[c].op \in {"password", "google"} THEN Returns(c)
    ELSE Goes(c, "clear", NoTokens)

\* writeFile truncates the file ...
Truncates(c) ==
    /\ call[c].at \in {"save", "clear"}
    /\ IF call[c].at = "save" /\ ~encryption
       THEN Refuses(c) /\ UNCHANGED file
       ELSE /\ file' = [file EXCEPT !.torn = TRUE]
            /\ Goes(c, IF call[c].at = "save" THEN "writing" ELSE "clearing", call[c].pair)
    /\ UNCHANGED <<provider, adapter, encryption, faults>>

\* What a call does once its tokens are saved or cleared; a token call goes on
\* to the backend, with its access token or without.
Done(c) == IF call[c].op = "token" THEN Goes(c, "verify", call[c].pair) ELSE Returns(c)

\* Mutant: refreshed tokens are returned and not saved.
WritesIfSigningIn(c) ==
    /\ call[c].at \in {"writing", "clearing"}
    /\ file' = IF call[c].op = "token" /\ call[c].at = "writing"
               THEN [file EXCEPT !.torn = FALSE]
               ELSE [pair |-> call[c].pair, torn |-> FALSE]
    /\ Done(c)
    /\ UNCHANGED <<provider, adapter, encryption, faults>>

\* ... and then writes it.  Writes that overlap may leave the tail of the
\* longer one, which does not parse.
Writes(c) ==
    /\ call[c].at \in {"writing", "clearing"}
    /\ \/ file' = [pair |-> call[c].pair, torn |-> FALSE]
       \/ ~file.torn /\ file' = [pair |-> NoTokens, torn |-> FALSE]
    /\ Done(c)
    /\ UNCHANGED <<provider, adapter, encryption, faults>>

\* The disk fails: a failed clear is ignored.
WriteFails(c) ==
    /\ call[c].at \in {"writing", "clearing"}
    /\ Fault
    /\ IF call[c].at = "writing" THEN Refuses(c) ELSE Done(c)
    /\ UNCHANGED <<file, provider, adapter, encryption>>

-----------------------------------------------------------------------------

\* A call of op by a renderer or the session client
Begins(c, op, who) ==
    /\ ~InFlight(c)
    /\ LET at == CASE op \in {"restore", "token", "signout"} -> "load"
                   [] op = "password" -> "password"
                   [] op = "google" -> "listen"
       IN Become([call EXCEPT ![c] = [op |-> op, at |-> at, pair |-> NoTokens, who |-> who]])
    /\ UNCHANGED <<file, provider, adapter, encryption, faults>>

AuthStep(c) ==
    \/ RefreshAnswered(c) \/ SignInAnswered(c) \/ ProviderLost(c)
    \/ Listens(c) \/ Redirected(c) \/ SessionEnded(c)
    \/ Loads(c) \/ Truncates(c) \/ Writes(c) \/ WriteFails(c)
=============================================================================
