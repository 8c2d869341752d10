--------------------------------- MODULE SignIn ---------------------------------
(***************************************************************************)
(* Signing in, from the launch of the app to the Account in the database:   *)
(* the screens that call the AuthManager, the calls themselves, and the     *)
(* backend's AuthVerifier, which resolves an access token to an account,    *)
(* provisions it on the first request and makes listed owners superusers.   *)
(***************************************************************************)
EXTENDS AuthManager

CONSTANTS
    Listed,       \* identities whose email is in the bootstrap allow-list
    MaxLaunches,  \* bound: launches of the app
    MaxCalls      \* bound: calls begun in one launch

ASSUME SignInAssumption ==
    /\ Listed \subseteq Identity
    /\ {MaxLaunches, MaxCalls} \subseteq Nat

VARIABLES
    screen,       \* what App shows
    accounts,     \* the accounts table: the superuser flag of each identity in it
    decided,      \* history: the flag its owner last gave an account
    history       \* for the properties and bounds; see History

vars == <<authVars, screen, accounts, decided, history>>

Flag == {"none", "plain", "superuser"}

\* out: nobody has signed in since the last sign-out; broken: a fault, or a
\* launch, met a call changing the tokens; raced: identities whose first
\* request failed, or was in flight when the owner decided.
History == [launches : 0..MaxLaunches, calls : 0..MaxCalls, out : BOOLEAN,
            broken : BOOLEAN, raced : SUBSET Identity]

SignInTypeOK ==
    /\ file.pair \in 0..MaxTokens
    /\ file.torn \in BOOLEAN
    /\ provider.good \cup provider.expired \subseteq DOMAIN provider.owner
    /\ adapter.pair \in 0..Len(provider.owner)
    /\ adapter.listening \in BOOLEAN
    /\ call \in [Call -> CallRecord \cup {Idle}]
    /\ screen \in {"loading", "auth", "ready"}
    /\ accounts \in [Identity -> Flag]
    /\ decided \in [Identity -> Flag]
    /\ history \in History

SignInInit ==
    /\ AuthInit
    /\ screen = "loading"
    /\ accounts = [i \in Identity |-> "none"]
    /\ decided = [i \in Identity |-> "none"]
    /\ history = [launches |-> 1, calls |-> 0, out |-> TRUE, broken |-> FALSE, raced |-> {}]

-----------------------------------------------------------------------------
(* The app                                                                  *)

Asks(c, op, who) ==
    /\ history.calls < MaxCalls
    /\ history' = [history EXCEPT !.calls = @ + 1, !.out = @ \/ op = "signout"]
    /\ Begins(c, op, who)
    /\ UNCHANGED <<screen, accounts, decided>>

\* App restores the session once, as it loads.
Restore(c) == screen = "loading" /\ history.calls = 0 /\ Asks(c, "restore", Nobody)

\* The sign-in screen disables its buttons while it waits, but one collapsed
\* and expanded meanwhile is mounted anew.
SignIn(c) ==
    /\ screen = "auth"
    /\ \E op \in {"password", "google"}, who \in Identity : Asks(c, op, who)

\* Balance, profile and the gateway's handshake each want a token.
Fetch(c) == screen = "ready" /\ Asks(c, "token", Nobody)

\* Exposed by preload.ts; no screen calls it yet.
SignOut(c) == screen = "ready" /\ Asks(c, "signout", Nobody)

\* A step of the AuthManager, and the screen its result leads to
Acts(c) ==
    /\ AuthStep(c)
    /\ LET done == call[c].op \in {"restore", "password", "google"} /\ call'[c] = Idle
           ok == \/ call[c].at = "writing" /\ UNCHANGED faults
                 \/ call[c].at = "load" /\ Stored # NoTokens
       IN /\ screen' = CASE done /\ ok -> "ready"
                         [] done /\ ~ok /\ call[c].op = "restore" -> "auth"
                         [] OTHER -> screen
          /\ history' = [history EXCEPT !.out = @ /\ ~(done /\ ok),
                                        !.broken = @ \/ faults' # faults]
    /\ UNCHANGED <<accounts, decided>>

Settled == \A c \in Call : ~Changes(call[c])

\* The app ends, wherever its calls are, and is launched again; requests that
\* have reached the backend go on.
Relaunch ==
    /\ history.launches < MaxLaunches
    /\ history' = [history EXCEPT !.launches = @ + 1, !.calls = 0,
                                  !.broken = @ \/ ~Settled]
    /\ call' = [c \in Call |-> IF call[c].at \in Backend THEN call[c] ELSE Idle]
    /\ adapter' = [pair |-> NoTokens, listening |-> FALSE]
    /\ screen' = "loading"
    /\ UNCHANGED <<file, provider, encryption, faults, crossed, accounts, decided>>

-----------------------------------------------------------------------------
(* The backend                                                              *)

Owner(c) == provider.owner[call[c].pair]

BackendStep(c, at) ==
    /\ call[c].at = at
    /\ UNCHANGED <<file, provider, adapter, encryption, faults, screen>>

\* Mutant: the bootstrap applies to accounts that exist.
VerifyBootstrapping(c) ==
    /\ BackendStep(c, "verify")
    /\ CASE call[c].pair \in {NoTokens} \cup provider.expired -> Returns(c)
         [] call[c].pair \notin {NoTokens} \cup provider.expired /\ accounts[Owner(c)] = "none" ->
              Goes(c, "provision", call[c].pair)
         [] OTHER -> IF Owner(c) \in Listed THEN Goes(c, "bootstrap", call[c].pair)
                     ELSE Returns(c)
    /\ UNCHANGED <<accounts, decided, history>>

\* jwtVerify and findByIdentityRef: without a valid token the answer is 401.
Verify(c) ==
    /\ BackendStep(c, "verify")
    /\ IF call[c].pair \in {NoTokens} \cup provider.expired \/ accounts[Owner(c)] # "none"
       THEN Returns(c)
       ELSE Goes(c, "provision", call[c].pair)
    /\ UNCHANGED <<accounts, decided, history>>

\* The upsert leaves is_superuser of an existing row alone.
Provisioned(i) == IF accounts[i] = "none" THEN "plain" ELSE accounts[i]

Provision(c) ==
    /\ BackendStep(c, "provision")
    /\ accounts' = [accounts EXCEPT ![Owner(c)] = Provisioned(Owner(c))]
    /\ IF Owner(c) \in Listed /\ Provisioned(Owner(c)) = "plain"
       THEN Goes(c, "bootstrap", call[c].pair)
       ELSE Returns(c)
    /\ UNCHANGED <<decided, history>>

Bootstrap(c) ==
    /\ BackendStep(c, "bootstrap")
    /\ accounts' = [accounts EXCEPT ![Owner(c)] = "superuser"]
    /\ Returns(c)
    /\ UNCHANGED <<decided, history>>

\* A statement of a request fails: the answer is 500.
RequestFails(c) ==
    /\ call[c].at \in {"provision", "bootstrap"}
    /\ Fault
    /\ Returns(c)
    /\ history' = [history EXCEPT !.raced = @ \cup {Owner(c)}]
    /\ UNCHANGED <<file, provider, adapter, encryption, screen, accounts, decided>>

\* A first request of i is past findByIdentityRef.
Resolving(i) ==
    \E c \in Call : call[c].at \in {"provision", "bootstrap"} /\ Owner(c) = i

\* The owner of the service sets the flag in the dashboard.
OwnerSets ==
    /\ \E i \in Identity, flag \in Flag \ {"none"} :
          /\ accounts[i] \notin {"none", flag}
          /\ accounts' = [accounts EXCEPT ![i] = flag]
          /\ decided' = [decided EXCEPT ![i] = flag]
          /\ history' = [history EXCEPT !.raced = IF Resolving(i) THEN @ \cup {i} ELSE @]
    /\ UNCHANGED <<authVars, screen>>

Next ==
    \/ \E c \in Call :
          \/ Restore(c) \/ SignIn(c) \/ Fetch(c) \/ SignOut(c) \/ Acts(c)
          \/ Verify(c) \/ Provision(c) \/ Bootstrap(c) \/ RequestFails(c)
    \/ Expires /\ UNCHANGED <<screen, accounts, decided, history>>
    \/ Relaunch \/ OwnerSets

Spec == SignInInit /\ [][Next]_vars

-----------------------------------------------------------------------------
(* Properties                                                               *)

\* No call leaves a mess to the next: the token file is truncated only while
\* somebody is writing it, unless a launch or the disk broke a write off, and
\* the loopback port is held exactly while a browser sign-in waits at it.
NothingLeftBehind ==
    /\ file.torn => history.broken \/ \E c \in Call : call[c].at \in {"writing", "clearing"}
    /\ adapter.listening <=> \E c \in Call : call[c].at = "redirect"

Undisturbed == Settled /\ ~crossed /\ ~history.broken

\* The stored refresh token can be used once more (requirement 1.6), unless two
\* calls crossed or something broke while the tokens were being changed:
\* refreshing, signing in again and launching leave no used one behind.
StoredTokenIsGood == Undisturbed /\ file.pair # NoTokens => file.pair \in provider.good

\* Under the same exceptions tokens are stored exactly while the user is signed
\* in: nobody loses a sign-in, and no refresh undoes a sign-out.
StoredWhileSignedIn == Undisturbed => (file.pair = NoTokens <=> history.out)

\* An account's flag is what the owner of the service decided; until then it is
\* what the allow-list says, whatever requests raced to provision the account
\* ("existing accounts are never modified here", authVerifier.ts:33), unless the
\* owner decided during a first request or that request failed half-way.
FlagIsDecided ==
    \A i \in Identity :
        accounts[i] # "none" /\ ~Resolving(i) /\ i \notin history.raced =>
            accounts[i] = CASE decided[i] # "none" -> decided[i]
                            [] decided[i] = "none" /\ i \in Listed -> "superuser"
                            [] OTHER -> "plain"

-----------------------------------------------------------------------------
(* What the documents say, and the code does not do: see the README.         *)

\* Requirement 1.6 without the exception for crossing calls: both refresh with
\* the same token, and the one refused clears what the other saved.
CrossedStaysSignedIn ==
    (\A c \in Call : call[c] = Idle) /\ ~history.broken => (file.pair = NoTokens <=> history.out)

\* "Sign out: clear stored tokens and end the provider session"
\* (authManager.ts:167): after a launch the adapter's client holds no session.
SignOutEndsSession ==
    (\A c \in Call : call[c] = Idle) /\ history.out /\ ~crossed /\ ~history.broken /\ encryption
        => provider.good = {}

\* The allow-list's owner "is unlimited on first sign-in" (authVerifier.ts:111):
\* not when the request fails between the two statements.
ListedIsSuperuser ==
    \A i \in Listed : accounts[i] = "plain" /\ decided[i] = "none" => Resolving(i)
=============================================================================
