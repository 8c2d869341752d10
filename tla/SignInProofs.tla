----------------------------- MODULE SignInProofs -----------------------------
(***************************************************************************)
(* Signing in, for every set of identities, calls, tokens and launches:    *)
(* what first requests that race make of an account's superuser flag, and  *)
(* what is left of calls that overlap, fail or are cut off.                *)
(***************************************************************************)
EXTENDS SignIn, TLAPS

-----------------------------------------------------------------------------
(* Shapes *)

CallShape(r) ==
    /\ DOMAIN r = {"op", "at", "pair", "who"}
    /\ r.op \in Operation \cup {"none"}
    /\ r.at \in Stage \cup {"idle"}
    /\ r.op = "none" => r.at = "idle"

ShapeInv ==
    /\ DOMAIN call = Call
    /\ \A c \in Call : CallShape(call[c])
    /\ DOMAIN file = {"pair", "torn"} /\ file.torn \in BOOLEAN
    /\ DOMAIN provider = {"owner", "good", "expired"}
    /\ DOMAIN adapter = {"pair", "listening"} /\ adapter.listening \in BOOLEAN
    /\ faults \in Nat

\* The stages of a first request
Resolves == {"provision", "bootstrap"}

\* Pairs at hand have been issued, and a call that signs in knows for whom.
PairFits(r, n) ==
    /\ r.pair \in 0..n
    /\ r.at \in Resolves \cup {"refresh"} => r.pair # 0
    /\ r.at \in {"password", "listen", "redirect", "exchange"} => r.who \in Identity

PairsInv ==
    /\ provider.owner \in Seq(Identity)
    /\ provider.expired \subseteq 1..Len(provider.owner)
    /\ file.pair \in 0..Len(provider.owner)
    /\ \A c \in Call : PairFits(call[c], Len(provider.owner))

BaseInv == ShapeInv /\ PairsInv

\* Owners of pairs stay who they are.
OwnersKept ==
    /\ Len(provider.owner) <= Len(provider'.owner)
    /\ \A n \in 1..Len(provider.owner) : provider'.owner[n] = provider.owner[n]

\* c goes on, and no other call does.
Only(c) == DOMAIN call' = Call /\ \A d \in Call \ {c} : call'[d] = call[d]

\* What Goes makes of a call: it alone moves, to that stage with that pair.
LEMMA GoesOn ==
    ASSUME ShapeInv, NEW c \in Call, NEW at \in Stage, NEW pair, Goes(c, at, pair),
           call[c].at \in Stage
    PROVE  /\ Only(c)
           /\ CallShape(call'[c])
           /\ call'[c].at = at /\ call'[c].pair = pair
           /\ call'[c].who = call[c].who /\ call'[c].op = call[c].op
BY DEF Goes, Become, ShapeInv, CallShape, Only, Stage

\* What Returns makes of a call: it alone moves, and is idle.
LEMMA ReturnsIdle ==
    ASSUME ShapeInv, NEW c \in Call, Returns(c)
    PROVE  /\ Only(c)
           /\ CallShape(call'[c])
           /\ call'[c] = Idle /\ call'[c].at = "idle" /\ call'[c].pair = 0
BY DEF Returns, Become, ShapeInv, CallShape, Only, Idle, NoTokens

\* A pair that is at hand has its place among those issued, also later.
LEMMA OthersFit ==
    ASSUME BaseInv, NEW c \in Call, Only(c), NEW n \in Nat, Len(provider.owner) <= n,
           PairFits(call'[c], n)
    PROVE  \A d \in Call : PairFits(call'[d], n)
<1>1. Len(provider.owner) \in Nat
  BY DEF BaseInv, PairsInv
<1> SUFFICES ASSUME NEW d \in Call, d # c PROVE PairFits(call'[d], n)
  OBVIOUS
<1>2. PairFits(call[d], Len(provider.owner)) /\ call'[d] = call[d]
  BY DEF BaseInv, PairsInv, Only
<1> QED
  BY <1>1, <1>2 DEF PairFits

\* A step of one call that issues no pair.
LEMMA StepFits ==
    ASSUME BaseInv, NEW c \in Call, Only(c), CallShape(call'[c]),
           PairFits(call'[c], Len(provider.owner)),
           DOMAIN file' = {"pair", "torn"}, file'.torn \in BOOLEAN,
           file'.pair \in 0..Len(provider.owner),
           DOMAIN provider' = {"owner", "good", "expired"},
           provider'.owner = provider.owner, provider'.expired = provider.expired,
           DOMAIN adapter' = {"pair", "listening"}, adapter'.listening \in BOOLEAN,
           faults' \in Nat
    PROVE  BaseInv' /\ OwnersKept
<1>1. Len(provider.owner) \in Nat
  BY DEF BaseInv, PairsInv
<1>2. ShapeInv'
  BY DEF BaseInv, ShapeInv, Only
<1>3. \A d \in Call : PairFits(call'[d], Len(provider.owner))
  BY <1>1, OthersFit
<1>4. PairsInv'
  BY <1>3 DEF BaseInv, PairsInv
<1>5. OwnersKept
  BY <1>1 DEF OwnersKept
<1> QED
  BY <1>2, <1>4, <1>5 DEF BaseInv

-----------------------------------------------------------------------------
(* The steps of the AuthManager *)

\* A step of c that is none of a first request.
Aside(c) ==
    /\ Only(c)
    /\ call[c].at \notin Resolves
    /\ call'[c].at \notin Resolves
    /\ OwnersKept

Kept(c) == BaseInv' /\ Aside(c)

\* c goes on with the pair it was given, and what the file holds is a pair or none.
LEMMA GoesKeeps ==
    ASSUME BaseInv, NEW c \in Call, NEW at \in Stage \ Resolves,
           NEW pair \in 0..Len(provider.owner), Goes(c, at, pair),
           call[c].at \in Stage \ Resolves,
           at = "refresh" => pair # 0,
           at \in {"password", "listen", "redirect", "exchange"} => call[c].who \in Identity,
           DOMAIN file' = {"pair", "torn"}, file'.torn \in BOOLEAN,
           file'.pair \in 0..Len(provider.owner),
           DOMAIN provider' = {"owner", "good", "expired"},
           provider'.owner = provider.owner, provider'.expired = provider.expired,
           DOMAIN adapter' = {"pair", "listening"}, adapter'.listening \in BOOLEAN,
           faults' \in Nat
    PROVE  Kept(c)
<1>1. /\ Only(c) /\ CallShape(call'[c]) /\ call'[c].at = at /\ call'[c].pair = pair
      /\ call'[c].who = call[c].who
  BY GoesOn DEF BaseInv
<1>2. PairFits(call'[c], Len(provider.owner))
  BY <1>1 DEF PairFits, Resolves
<1>3. BaseInv' /\ OwnersKept
  BY <1>1, <1>2, StepFits
<1> QED
  BY <1>1, <1>3 DEF Kept, Aside

\* A call that returns has nothing at hand any more.
LEMMA ReturnsKeeps ==
    ASSUME BaseInv, NEW c \in Call, Returns(c), call[c].at \in Stage \ Resolves,
           DOMAIN file' = {"pair", "torn"}, file'.torn \in BOOLEAN,
           file'.pair \in 0..Len(provider.owner),
           DOMAIN provider' = {"owner", "good", "expired"},
           provider'.owner = provider.owner, provider'.expired = provider.expired,
           DOMAIN adapter' = {"pair", "listening"}, adapter'.listening \in BOOLEAN,
           faults' \in Nat
    PROVE  Kept(c)
<1>1. /\ Only(c) /\ CallShape(call'[c]) /\ call'[c].at = "idle" /\ call'[c].pair = 0
  BY ReturnsIdle DEF BaseInv
<1>2. PairFits(call'[c], Len(provider.owner))
  BY <1>1 DEF PairFits, Resolves, BaseInv, PairsInv
<1>3. BaseInv' /\ OwnersKept
  BY <1>1, <1>2, StepFits
<1> QED
  BY <1>1, <1>3 DEF Kept, Aside, Resolves

\* A new pair for an identity.
LEMMA IssueKeeps ==
    ASSUME BaseInv, NEW c \in Call, NEW who \in Identity, NEW usedUp, Issue(c, who, usedUp),
           call[c].at \in Stage \ Resolves, UNCHANGED <<file, faults>>
    PROVE  Kept(c)
<1> DEFINE n == Len(provider.owner)
<1>1. /\ n \in Nat /\ provider.owner \in Seq(Identity)
      /\ DOMAIN provider = {"owner", "good", "expired"}
      /\ provider.expired \subseteq 1..n
  BY DEF BaseInv, PairsInv, ShapeInv
<1>2. /\ provider' = [provider EXCEPT !.owner = Append(provider.owner, who),
                                      !.good = (provider.good \ usedUp) \cup {n + 1}]
      /\ adapter' = [adapter EXCEPT !.pair = n + 1]
      /\ Goes(c, "save", n + 1)
  BY DEF Issue
<1>3. /\ DOMAIN provider' = {"owner", "good", "expired"}
      /\ provider'.owner = Append(provider.owner, who)
      /\ provider'.expired = provider.expired
  BY <1>1, <1>2
<1>4. /\ provider'.owner \in Seq(Identity) /\ Len(provider'.owner) = n + 1
      /\ \A m \in 1..n : provider'.owner[m] = provider.owner[m]
  BY <1>1, <1>3
<1>5. /\ Only(c) /\ CallShape(call'[c]) /\ call'[c].at = "save" /\ call'[c].pair = n + 1
  BY <1>2, GoesOn DEF BaseInv, Stage
<1>6. PairFits(call'[c], n + 1)
  BY <1>1, <1>5 DEF PairFits, Resolves
<1>7. \A d \in Call : PairFits(call'[d], n + 1)
  BY <1>1, <1>5, <1>6, OthersFit
<1>8. ShapeInv'
  BY <1>2, <1>3, <1>5 DEF BaseInv, ShapeInv, Only
<1>9. PairsInv'
  BY <1>1, <1>3, <1>4, <1>7 DEF BaseInv, PairsInv
<1>10. OwnersKept
  BY <1>1, <1>4 DEF OwnersKept
<1> QED
  BY <1>5, <1>8, <1>9, <1>10 DEF Kept, Aside, BaseInv, Resolves

\* A provider that rejects: the tokens are cleared, or the sign-in fails.
LEMMA RejectedKeeps ==
    ASSUME BaseInv, NEW c \in Call, Rejected(c), call[c].at \in Stage \ Resolves,
           UNCHANGED <<file, provider, adapter>>, faults' \in Nat
    PROVE  Kept(c)
<1>1. Goes(c, "clear", 0) \/ Returns(c)
  BY DEF Rejected, NoTokens
<1>2. /\ 0 \in 0..Len(provider.owner) /\ file.pair \in 0..Len(provider.owner)
      /\ "clear" \in Stage \ Resolves
  BY DEF BaseInv, PairsInv, Stage, Resolves
<1>3. /\ DOMAIN file = {"pair", "torn"} /\ file.torn \in BOOLEAN
      /\ DOMAIN provider = {"owner", "good", "expired"}
      /\ DOMAIN adapter = {"pair", "listening"} /\ adapter.listening \in BOOLEAN
      /\ file' = file /\ provider' = provider /\ adapter' = adapter
  BY DEF BaseInv, ShapeInv
<1>4. CASE Goes(c, "clear", 0)
  BY <1>2, <1>3, <1>4, GoesKeeps
<1>5. CASE Returns(c)
  BY <1>2, <1>3, <1>5, ReturnsKeeps
<1> QED
  BY <1>1, <1>4, <1>5

\* What BaseInv says of the variables a step changes or passes on.
LEMMA BaseFacts ==
    ASSUME BaseInv
    PROVE  /\ DOMAIN file = {"pair", "torn"} /\ file.torn \in BOOLEAN
           /\ file.pair \in 0..Len(provider.owner) /\ 0 \in 0..Len(provider.owner)
           /\ DOMAIN provider = {"owner", "good", "expired"}
           /\ DOMAIN adapter = {"pair", "listening"} /\ adapter.listening \in BOOLEAN
           /\ faults \in Nat /\ Len(provider.owner) \in Nat
           /\ \A c \in Call : CallShape(call[c]) /\ PairFits(call[c], Len(provider.owner))
BY DEF BaseInv, ShapeInv, PairsInv

\* The provider answers a refresh or a sign-in.
LEMMA AnsweredKeeps ==
    ASSUME BaseInv, NEW c \in Call, RefreshAnswered(c) \/ SignInAnswered(c)
    PROVE  Kept(c)
<1>1. CallShape(call[c]) /\ PairFits(call[c], Len(provider.owner)) /\ faults \in Nat
  BY BaseFacts
<1>2. UNCHANGED <<file, faults>> /\ call[c].at \in Stage \ Resolves
  BY DEF RefreshAnswered, SignInAnswered, Resolves, Stage
<1>3. CASE Rejected(c) /\ UNCHANGED <<provider, adapter>>
  BY <1>1, <1>2, <1>3, RejectedKeeps
<1>4. CASE call[c].at = "refresh" /\ Issue(c, provider.owner[call[c].pair], {call[c].pair})
  <2>1. call[c].pair \in 1..Len(provider.owner)
    BY <1>1, <1>4 DEF PairFits, Resolves
  <2>2. provider.owner[call[c].pair] \in Identity
    BY <2>1 DEF BaseInv, PairsInv
  <2> QED
    BY <2>2, <1>2, <1>4, IssueKeeps
<1>5. CASE call[c].at \in {"password", "exchange"} /\ Issue(c, call[c].who, {})
  <2>1. call[c].who \in Identity
    BY <1>1, <1>5 DEF PairFits
  <2> QED
    BY <2>1, <1>2, <1>5, IssueKeeps
<1> QED
  BY <1>3, <1>4, <1>5 DEF RefreshAnswered, SignInAnswered

\* The network fails, or the provider session ends.
LEMMA LostOrEndedKeeps ==
    ASSUME BaseInv, NEW c \in Call, ProviderLost(c) \/ SessionEnded(c)
    PROVE  Kept(c)
<1>1. CASE ProviderLost(c)
  <2>1. /\ faults' \in Nat /\ UNCHANGED <<file, provider, adapter>> /\ call[c].at \in Stage \ Resolves
    BY <1>1, BaseFacts DEF ProviderLost, Fault, Resolves, Stage
  <2>2. CASE Rejected(c)
    BY <2>1, <2>2, RejectedKeeps
  <2>3. CASE Goes(c, "clear", NoTokens)
    <3>1. "clear" \in Stage \ Resolves /\ NoTokens = 0
      BY DEF Stage, Resolves, NoTokens
    <3> QED
      BY <2>1, <2>3, <3>1, BaseFacts, GoesKeeps
  <2> QED
    BY <1>1, <2>2, <2>3 DEF ProviderLost
<1>2. CASE SessionEnded(c)
  <2>1. /\ Goes(c, "clear", NoTokens) /\ call[c].at \in Stage \ Resolves /\ UNCHANGED <<file, faults>>
        /\ DOMAIN provider' = DOMAIN provider
        /\ provider'.owner = provider.owner /\ provider'.expired = provider.expired
        /\ DOMAIN adapter' = DOMAIN adapter /\ adapter'.listening = adapter.listening
    BY <1>2, BaseFacts DEF SessionEnded, Resolves, Stage
  <2>2. "clear" \in Stage \ Resolves /\ NoTokens = 0
    BY DEF Stage, Resolves, NoTokens
  <2> QED
    BY <2>1, <2>2, BaseFacts, GoesKeeps
<1> QED
  BY <1>1, <1>2

\* The loopback listener opens, or finds its port taken, and closes.
LEMMA ListenerKeeps ==
    ASSUME BaseInv, NEW c \in Call, Listens(c) \/ Redirected(c)
    PROVE  Kept(c)
<1>1. /\ call[c].at \in {"listen", "redirect"} /\ call[c].at \in Stage \ Resolves
      /\ UNCHANGED <<file, provider, faults>>
      /\ DOMAIN adapter' = {"pair", "listening"} /\ adapter'.listening \in BOOLEAN
  BY BaseFacts DEF Listens, Redirected, Resolves, Stage
<1>2. call[c].who \in Identity
  BY <1>1, BaseFacts DEF PairFits
<1>3. {"redirect", "exchange"} \subseteq Stage \ Resolves /\ NoTokens = 0
  BY DEF Stage, Resolves, NoTokens
<1>4. Returns(c) \/ \E at \in {"redirect", "exchange"} : Goes(c, at, 0)
  BY <1>3 DEF Listens, Redirected
<1>5. CASE Returns(c)
  BY <1>1, <1>5, BaseFacts, ReturnsKeeps
<1>6. ASSUME NEW at \in {"redirect", "exchange"}, Goes(c, at, 0)
      PROVE  Kept(c)
  BY <1>1, <1>2, <1>3, <1>6, BaseFacts, GoesKeeps
<1> QED
  BY <1>4, <1>5, <1>6

\* The tokens are loaded.
LEMMA LoadsKeeps ==
    ASSUME BaseInv, NEW c \in Call, Loads(c)
    PROVE  Kept(c)
<1>1. call[c].at \in Stage \ Resolves /\ UNCHANGED <<file, provider, adapter, faults>>
  BY DEF Loads, Resolves, Stage
<1>2. Stored \in 0..Len(provider.owner) /\ 0 \notin provider.expired
  BY BaseFacts DEF Stored, NoTokens, BaseInv, PairsInv
<1>3. {"clear", "endsession", "refresh", "verify"} \subseteq Stage \ Resolves
  BY DEF Stage, Resolves
<1>4. \/ Returns(c)
      \/ \E at \in {"clear", "endsession"} : Goes(c, at, 0)
      \/ Stored \in provider.expired /\ Goes(c, "refresh", Stored)
      \/ Goes(c, "verify", Stored)
  BY DEF Loads, NoTokens
<1>5. CASE Returns(c)
  BY <1>1, <1>5, BaseFacts, ReturnsKeeps
<1>6. ASSUME NEW at \in {"clear", "endsession"}, Goes(c, at, 0)
      PROVE  Kept(c)
  BY <1>1, <1>3, <1>6, BaseFacts, GoesKeeps
<1>7. CASE Stored \in provider.expired /\ Goes(c, "refresh", Stored)
  <2>1. Stored # 0
    BY <1>2, <1>7
  <2> QED
    BY <2>1, <1>1, <1>2, <1>3, <1>7, BaseFacts, GoesKeeps
<1>8. CASE Goes(c, "verify", Stored)
  BY <1>1, <1>2, <1>3, <1>8, BaseFacts, GoesKeeps
<1> QED
  BY <1>4, <1>5, <1>6, <1>7, <1>8

\* The token file is truncated, and written or not.
LEMMA FileKeeps ==
    ASSUME BaseInv, NEW c \in Call, Truncates(c) \/ Writes(c) \/ WriteFails(c)
    PROVE  Kept(c)
<1>1. /\ call[c].at \in {"save", "clear", "writing", "clearing"} /\ call[c].at \in Stage \ Resolves
      /\ UNCHANGED <<provider, adapter>> /\ faults' \in Nat
  BY BaseFacts DEF Truncates, Writes, WriteFails, Fault, Resolves, Stage
<1>2. call[c].pair \in 0..Len(provider.owner)
  BY BaseFacts DEF PairFits
<1>3. DOMAIN file' = {"pair", "torn"} /\ file'.torn \in BOOLEAN
      /\ file'.pair \in 0..Len(provider.owner)
  <2>1. CASE Truncates(c)
    BY <2>1, BaseFacts DEF Truncates
  <2>2. CASE Writes(c)
    <3>1. file' = [pair |-> call[c].pair, torn |-> FALSE]
            \/ file' = [pair |-> 0, torn |-> FALSE]
      BY <2>2 DEF Writes, NoTokens
    <3>2. CASE file' = [pair |-> call[c].pair, torn |-> FALSE]
      BY <3>2, <1>2
    <3>3. CASE file' = [pair |-> 0, torn |-> FALSE]
      BY <3>3, BaseFacts
    <3> QED
      BY <3>1, <3>2, <3>3
  <2>3. CASE WriteFails(c)
    BY <2>3, BaseFacts DEF WriteFails
  <2> QED
    BY <2>1, <2>2, <2>3
<1>4. {"writing", "clearing", "verify", "clear"} \subseteq Stage \ Resolves
  BY DEF Stage, Resolves
<1>5. \/ Returns(c)
      \/ Goes(c, "clear", 0)
      \/ \E at \in {"writing", "clearing", "verify"} : Goes(c, at, call[c].pair)
  BY DEF Truncates, Writes, WriteFails, Refuses, Done, NoTokens
<1>6. CASE Returns(c)
  BY <1>1, <1>3, <1>6, BaseFacts, ReturnsKeeps
<1>7. CASE Goes(c, "clear", 0)
  BY <1>1, <1>3, <1>4, <1>7, BaseFacts, GoesKeeps
<1>8. ASSUME NEW at \in {"writing", "clearing", "verify"}, Goes(c, at, call[c].pair)
      PROVE  Kept(c)
  BY <1>1, <1>2, <1>3, <1>4, <1>8, BaseFacts, GoesKeeps
<1> QED
  BY <1>5, <1>6, <1>7, <1>8

\* Every step of the AuthManager keeps the shapes and the pairs, aside of first requests.
LEMMA AuthStepKeeps ==
    ASSUME BaseInv, NEW c \in Call, AuthStep(c)
    PROVE  Kept(c)
BY AnsweredKeeps, LostOrEndedKeeps, ListenerKeeps, LoadsKeeps, FileKeeps DEF AuthStep

\* A call begins.
LEMMA BeginsKeeps ==
    ASSUME BaseInv, NEW c \in Call, NEW op \in Operation, NEW who,
           op \in {"password", "google"} => who \in Identity, Begins(c, op, who)
    PROVE  Kept(c)
<1> DEFINE at == CASE op \in {"restore", "token", "signout"} -> "load"
                   [] op = "password" -> "password"
                   [] op = "google" -> "listen"
           new == [op |-> op, at |-> at, pair |-> NoTokens, who |-> who]
<1>1. /\ op = "password" => at = "password"
      /\ op = "google" => at = "listen"
      /\ op \in {"restore", "token", "signout"} => at = "load"
  OBVIOUS
<1>2. at \in {"load", "password", "listen"} /\ (at \in {"password", "listen"} => who \in Identity)
  BY <1>1 DEF Operation
<1>3. call' = [call EXCEPT ![c] = new] /\ UNCHANGED <<file, provider, adapter, faults>>
  BY DEF Begins, Become
<1> HIDE DEF at
<1>4. new.at = at /\ new.pair = 0 /\ new.who = who /\ CallShape(new)
  BY <1>2 DEF CallShape, Stage, Operation, NoTokens
<1> HIDE DEF new
<1>5. Only(c) /\ call'[c] = new
  BY <1>3 DEF Only, BaseInv, ShapeInv
<1>6. call[c].at \notin Resolves
  BY DEF Begins, InFlight, BaseInv, ShapeInv, CallShape, Resolves
<1>7. PairFits(new, Len(provider.owner))
  BY <1>2, <1>4, BaseFacts DEF PairFits, Resolves
<1>8. BaseInv' /\ OwnersKept
  BY <1>3, <1>4, <1>5, <1>7, BaseFacts, StepFits
<1>9. new.at \notin Resolves
  BY <1>2, <1>4 DEF Resolves
<1> QED
  BY <1>5, <1>6, <1>8, <1>9 DEF Kept, Aside

-----------------------------------------------------------------------------
(* The flag *)

\* Where an account's flag comes from, unless its owner's decision raced a first
\* request of it or that failed: the owner has decided, or the allow-list has,
\* but for the moment between two statements of a first request.
FlagFits(i) ==
    /\ decided[i] # "none" => accounts[i] # "none"
    /\ i \notin history.raced =>
          /\ Resolving(i) => decided[i] = "none"
          /\ decided[i] # "none" => accounts[i] = decided[i]
          /\ decided[i] = "none" /\ accounts[i] = "superuser" => i \in Listed
          /\ decided[i] = "none" /\ accounts[i] = "plain" => i \notin Listed \/ Resolving(i)

FlagInv ==
    /\ accounts \in [Identity -> Flag]
    /\ decided \in [Identity -> Flag]
    /\ DOMAIN history = {"launches", "calls", "out", "broken", "raced"}
    /\ \A c \in Call : call[c].at = "bootstrap" => Owner(c) \in Listed
    /\ \A i \in Identity : FlagFits(i)

SignInInv == BaseInv /\ FlagInv

\* The same first requests are under way.
ResolvingKept ==
    /\ \A i \in Identity : Resolving(i)' <=> Resolving(i)
    /\ \A c \in Call : call'[c].at = "bootstrap" =>
          call[c].at = "bootstrap" /\ provider'.owner[call'[c].pair] = Owner(c)

HistoryKept ==
    /\ DOMAIN history' = {"launches", "calls", "out", "broken", "raced"}
    /\ history'.raced = history.raced

\* While no first request moves and nobody decides, the flags stay where they come from.
LEMMA FlagsKept ==
    ASSUME FlagInv, ResolvingKept, HistoryKept, UNCHANGED <<accounts, decided>>
    PROVE  FlagInv'
<1>1. ASSUME NEW i \in Identity PROVE FlagFits(i)'
  <2>1. FlagFits(i) /\ (Resolving(i)' <=> Resolving(i))
    BY DEF FlagInv, ResolvingKept
  <2> QED
    BY <2>1 DEF FlagFits, HistoryKept
<1>2. ASSUME NEW c \in Call, call'[c].at = "bootstrap"
      PROVE  Owner(c)' \in Listed
  BY <1>2 DEF FlagInv, ResolvingKept, Owner
<1> QED
  BY <1>1, <1>2 DEF FlagInv, HistoryKept

\* A step aside of the first requests leaves them all.
LEMMA AsideKeepsResolving ==
    ASSUME BaseInv, NEW c \in Call, Aside(c)
    PROVE  ResolvingKept
<1>1. ASSUME NEW d \in Call, call[d].at \in Resolves \/ call'[d].at \in Resolves
      PROVE  call'[d] = call[d] /\ provider'.owner[call[d].pair] = Owner(d)
  <2>1. d # c /\ call'[d] = call[d]
    BY <1>1 DEF Aside, Only
  <2>2. call[d].pair \in 0..Len(provider.owner) /\ call[d].pair # 0
    BY <1>1, <2>1, BaseFacts DEF PairFits
  <2>3. call[d].pair \in 1..Len(provider.owner)
    BY <2>2, BaseFacts
  <2> QED
    BY <2>1, <2>3 DEF Aside, OwnersKept, Owner
<1> QED
  BY <1>1 DEF ResolvingKept, Resolving, Owner, Resolves

\* A step aside of the first requests leaves the flags where they come from.
LEMMA AsideKeepsFlags ==
    ASSUME SignInInv, NEW c \in Call, Kept(c), HistoryKept, UNCHANGED <<accounts, decided>>
    PROVE  SignInInv'
BY AsideKeepsResolving, FlagsKept DEF SignInInv, Kept

\* What a backend step leaves alone.
LEMMA BackendFacts ==
    ASSUME SignInInv, NEW c \in Call, NEW at \in Resolves \cup {"verify"}, BackendStep(c, at)
    PROVE  /\ call[c].at = at /\ call[c].at \in Stage
           /\ UNCHANGED <<file, provider, adapter>>
           /\ CallShape(call[c]) /\ PairFits(call[c], Len(provider.owner))
BY BaseFacts DEF BackendStep, SignInInv, Resolves, Stage

\* A backend step goes on to the next statement, or answers.
LEMMA BackendBase ==
    ASSUME SignInInv, NEW c \in Call, NEW at \in Resolves \cup {"verify"}, BackendStep(c, at),
           NEW next \in Resolves, Returns(c) \/ (Goes(c, next, call[c].pair) /\ call[c].pair # 0),
           faults' \in Nat
    PROVE  BaseInv' /\ Only(c) /\ call'[c].at \in {"idle", next}
           /\ (call'[c].at = next => call'[c].pair = call[c].pair)
<1>1. BaseInv /\ next \in Stage /\ "idle" \notin Resolves
  BY DEF SignInInv, Resolves, Stage
<1>2. CASE Returns(c)
  <2>1. Only(c) /\ CallShape(call'[c]) /\ call'[c].at = "idle" /\ call'[c].pair = 0
    BY <1>1, <1>2, ReturnsIdle DEF BaseInv
  <2>2. PairFits(call'[c], Len(provider.owner))
    BY <1>1, <2>1, BaseFacts DEF PairFits, Resolves
  <2>3. BaseInv'
    BY <1>1, <2>1, <2>2, BaseFacts, BackendFacts, StepFits
  <2> QED
    BY <1>1, <2>1, <2>3
<1>3. CASE Goes(c, next, call[c].pair) /\ call[c].pair # 0
  <2>1. /\ Only(c) /\ CallShape(call'[c]) /\ call'[c].at = next
        /\ call'[c].pair = call[c].pair
    BY <1>1, <1>3, GoesOn, BackendFacts DEF BaseInv
  <2>2. PairFits(call'[c], Len(provider.owner))
    BY <1>1, <1>3, <2>1, BackendFacts DEF PairFits, Resolves
  <2>3. BaseInv'
    BY <1>1, <2>1, <2>2, BaseFacts, BackendFacts, StepFits
  <2> QED
    BY <2>1, <2>3
<1> QED
  BY <1>2, <1>3

\* Whose a first request is does not change; the others go on as they were.
LEMMA BackendResolving ==
    ASSUME SignInInv, NEW c \in Call, Only(c), UNCHANGED provider
    PROVE  \A i \in Identity :
              /\ call[c].at \notin Resolves \/ Owner(c) # i => (Resolving(i) => Resolving(i)')
              /\ Resolving(i)' => Resolving(i) \/ (call'[c].at \in Resolves /\ Owner(c)' = i)
              /\ call'[c].at \in Resolves /\ Owner(c)' = i => Resolving(i)'
<1>1. \A d \in Call : d # c => call'[d] = call[d] /\ Owner(d)' = Owner(d)
  BY DEF Only, Owner
<1> QED
  BY <1>1 DEF Resolving, Resolves

\* A pair that was issued belongs to an identity.
LEMMA OwnerIs ==
    ASSUME BaseInv, NEW c \in Call, call[c].pair \in 1..Len(provider.owner)
    PROVE  Owner(c) \in Identity
BY DEF BaseInv, PairsInv, Owner

\* A first request is found to be one: there is no account.
LEMMA VerifyKeeps ==
    ASSUME SignInInv, NEW c \in Call, Verify(c)
    PROVE  SignInInv'
<1> DEFINE pair == call[c].pair
           o == Owner(c)
<1>1. /\ BackendStep(c, "verify") /\ UNCHANGED <<accounts, decided, history>>
      /\ call[c].at = "verify" /\ UNCHANGED provider /\ faults' \in Nat
      /\ BaseInv /\ FlagInv
  BY BaseFacts DEF Verify, BackendStep, SignInInv
<1>2. \/ Returns(c)
      \/ /\ Goes(c, "provision", pair)
         /\ pair # 0
         /\ accounts[o] = "none"
  BY DEF Verify, NoTokens, Owner
<1>3. pair \in 0..Len(provider.owner) /\ Len(provider.owner) \in Nat
  BY <1>1, BaseFacts DEF PairFits
<1>4. /\ BaseInv' /\ Only(c) /\ call'[c].at \in {"idle", "provision"}
      /\ (call'[c].at = "provision" => call'[c].pair = pair)
  BY <1>1, <1>2, BackendBase DEF Resolves
<1>5. HistoryKept
  BY <1>1 DEF HistoryKept, FlagInv
<1>6. CASE Returns(c)
  <2>1. call'[c].at = "idle"
    BY <1>1, <1>6, ReturnsIdle DEF BaseInv
  <2>2. Aside(c)
    BY <1>1, <1>3, <1>4, <2>1 DEF Aside, Resolves, OwnersKept
  <2> QED
    BY <1>1, <1>4, <1>5, <2>2, AsideKeepsFlags DEF Kept
<1>7. CASE Goes(c, "provision", pair) /\ pair # 0 /\ accounts[o] = "none"
  <2>1. call'[c].at = "provision" /\ call'[c].pair = pair
    BY <1>1, <1>7, GoesOn DEF BaseInv, Stage
  <2>2. Owner(c)' = o /\ o \in Identity
    <3>1. pair \in 1..Len(provider.owner)
      BY <1>3, <1>7
    <3> QED
      BY <3>1, <1>1, <2>1, OwnerIs DEF Owner
  <2>3. ASSUME NEW i \in Identity PROVE FlagFits(i)'
    <3>1. FlagFits(i) /\ (Resolving(i) => Resolving(i)')
      BY <1>1, <1>4, BackendResolving DEF FlagInv, Resolves
    <3>2. Resolving(i)' => Resolving(i) \/ i = o
      BY <1>1, <1>4, <2>2, BackendResolving
    <3>3. i = o => decided[i] = "none"
      BY <1>7, <3>1 DEF FlagFits
    <3> QED
      BY <3>1, <3>2, <3>3, <1>1 DEF FlagFits
  <2>4. ASSUME NEW d \in Call, call'[d].at = "bootstrap" PROVE Owner(d)' \in Listed
    BY <2>1, <2>4, <1>1, <1>4 DEF FlagInv, Only, Owner
  <2> QED
    BY <2>3, <2>4, <1>1, <1>4 DEF SignInInv, FlagInv
<1> QED
  BY <1>2, <1>6, <1>7

\* A call in a first request: whose it is, and that its owner has not decided.
LEMMA ResolvingFacts ==
    ASSUME SignInInv, NEW c \in Call, call[c].at \in Resolves
    PROVE  /\ Owner(c) \in Identity /\ Resolving(Owner(c)) /\ FlagFits(Owner(c))
           /\ call[c].pair # 0
           /\ call[c].at = "bootstrap" => Owner(c) \in Listed
<1>1. call[c].pair \in 1..Len(provider.owner)
  BY BaseFacts DEF PairFits, SignInInv
<1>2. Owner(c) \in Identity
  BY <1>1, OwnerIs DEF SignInInv
<1> QED
  BY <1>1, <1>2 DEF SignInInv, FlagInv, Resolving, Resolves

\* The account is provisioned, and may be one to make a superuser.
LEMMA ProvisionKeeps ==
    ASSUME SignInInv, NEW c \in Call, Provision(c)
    PROVE  SignInInv'
<1>0. PICK o \in Identity : o = Owner(c)
  BY ResolvingFacts DEF Provision, BackendStep, Resolves
<1>1. /\ BackendStep(c, "provision") /\ UNCHANGED <<decided, history>>
      /\ call[c].at = "provision" /\ UNCHANGED provider /\ faults' \in Nat
      /\ accounts' = [accounts EXCEPT ![o] = Provisioned(o)]
      /\ BaseInv /\ FlagInv
  BY <1>0, BaseFacts DEF Provision, BackendStep, SignInInv
<1>2. o \in Identity /\ Resolving(o) /\ FlagFits(o) /\ call[c].pair # 0
  BY <1>0, <1>1, ResolvingFacts DEF Resolves
<1>3. \/ Returns(c) /\ ~(o \in Listed /\ Provisioned(o) = "plain")
      \/ Goes(c, "bootstrap", call[c].pair) /\ o \in Listed
  BY <1>0 DEF Provision
<1>4. /\ BaseInv' /\ Only(c) /\ call'[c].at \in {"idle", "bootstrap"}
      /\ (call'[c].at = "bootstrap" => call'[c].pair = call[c].pair)
  BY <1>1, <1>2, <1>3, BackendBase DEF Resolves
<1>5. /\ accounts' \in [Identity -> Flag] /\ accounts'[o] = Provisioned(o)
      /\ Provisioned(o) = IF accounts[o] = "none" THEN "plain" ELSE accounts[o]
      /\ \A i \in Identity : i # o => accounts'[i] = accounts[i]
  BY <1>1, <1>2 DEF FlagInv, Flag, Provisioned
<1>6. call'[c].at = "bootstrap" => Owner(c)' = o
  BY <1>0, <1>1, <1>4 DEF Owner
<1>7. call'[c].at = "bootstrap" \/ ~(o \in Listed /\ Provisioned(o) = "plain")
  BY <1>1, <1>3, GoesOn DEF BaseInv, Stage
<1>8. call'[c].at = "bootstrap" => o \in Listed
  <2>1. CASE Returns(c)
    BY <2>1, <1>1, ReturnsIdle DEF BaseInv
  <2> QED
    BY <2>1, <1>3
<1>9. ASSUME NEW i \in Identity, i # o PROVE FlagFits(i)'
  <2>1. FlagFits(i) /\ accounts'[i] = accounts[i]
    BY <1>1, <1>5, <1>9 DEF FlagInv
  <2>2. Resolving(i)' <=> Resolving(i)
    BY <1>0, <1>1, <1>4, <1>6, <1>9, BackendResolving DEF Resolves
  <2> QED
    BY <2>1, <2>2, <1>1 DEF FlagFits
<1>10. FlagFits(o)'
  <2>1. o \notin history.raced => decided[o] = "none"
    BY <1>2 DEF FlagFits
  <2>2. o \notin history.raced /\ accounts'[o] = "superuser" => o \in Listed
    BY <1>2, <1>5, <2>1 DEF FlagFits
  <2>3. accounts'[o] = "plain" => o \notin Listed \/ Resolving(o)'
    BY <1>1, <1>2, <1>4, <1>5, <1>6, <1>7, BackendResolving DEF Resolves
  <2>4. accounts'[o] # "none"
    BY <1>5
  <2> QED
    BY <1>1, <2>1, <2>2, <2>3, <2>4 DEF FlagFits
<1>11. ASSUME NEW d \in Call, call'[d].at = "bootstrap" PROVE Owner(d)' \in Listed
  BY <1>1, <1>4, <1>6, <1>8, <1>11 DEF FlagInv, Only, Owner
<1>12. \A i \in Identity : FlagFits(i)'
  BY <1>9, <1>10
<1> QED
  BY <1>1, <1>4, <1>5, <1>11, <1>12 DEF SignInInv, FlagInv

\* A listed owner is made a superuser.
LEMMA BootstrapKeeps ==
    ASSUME SignInInv, NEW c \in Call, Bootstrap(c)
    PROVE  SignInInv'
<1>0. PICK o \in Identity : o = Owner(c)
  BY ResolvingFacts DEF Bootstrap, BackendStep, Resolves
<1>1. /\ BackendStep(c, "bootstrap") /\ UNCHANGED <<decided, history>>
      /\ call[c].at = "bootstrap" /\ UNCHANGED provider /\ faults' \in Nat
      /\ accounts' = [accounts EXCEPT ![o] = "superuser"]
      /\ BaseInv /\ FlagInv /\ Returns(c)
  BY <1>0, BaseFacts DEF Bootstrap, BackendStep, SignInInv
<1>2. FlagFits(o) /\ o \in Listed /\ Resolving(o)
  BY <1>0, <1>1, ResolvingFacts DEF Resolves
<1>3. BaseInv' /\ Only(c) /\ call'[c].at = "idle"
  BY <1>1, BackendBase, ReturnsIdle DEF Resolves, BaseInv
<1>4. /\ accounts' \in [Identity -> Flag] /\ accounts'[o] = "superuser"
      /\ \A i \in Identity : i # o => accounts'[i] = accounts[i]
  BY <1>1 DEF FlagInv, Flag
<1>5. ASSUME NEW i \in Identity, i # o PROVE FlagFits(i)'
  <2>1. FlagFits(i) /\ accounts'[i] = accounts[i]
    BY <1>1, <1>4, <1>5 DEF FlagInv
  <2>2. Resolving(i)' <=> Resolving(i)
    BY <1>0, <1>1, <1>3, <1>5, BackendResolving DEF Resolves
  <2> QED
    BY <2>1, <2>2, <1>1 DEF FlagFits
<1>6. FlagFits(o)'
  BY <1>1, <1>2, <1>4 DEF FlagFits
<1>7. \A i \in Identity : FlagFits(i)'
  BY <1>5, <1>6
<1>8. ASSUME NEW d \in Call, call'[d].at = "bootstrap" PROVE Owner(d)' \in Listed
  BY <1>1, <1>3, <1>8 DEF FlagInv, Only, Owner
<1> QED
  BY <1>1, <1>3, <1>4, <1>7, <1>8 DEF SignInInv, FlagInv

\* A statement of a first request fails.
LEMMA RequestFailsKeeps ==
    ASSUME SignInInv, NEW c \in Call, RequestFails(c)
    PROVE  SignInInv'
<1>0. PICK o \in Identity : o = Owner(c)
  BY ResolvingFacts DEF RequestFails, Resolves
<1>1. /\ call[c].at \in Resolves /\ faults' \in Nat /\ Returns(c)
      /\ UNCHANGED <<file, provider, adapter, accounts, decided>>
      /\ history' = [history EXCEPT !.raced = history.raced \cup {o}]
      /\ BaseInv /\ FlagInv
  BY <1>0, BaseFacts DEF RequestFails, Fault, Resolves, SignInInv
<1>2. Only(c) /\ CallShape(call'[c]) /\ call'[c].at = "idle" /\ call'[c].pair = 0
  BY <1>1, ReturnsIdle DEF BaseInv
<1>3. PairFits(call'[c], Len(provider.owner))
  BY <1>1, <1>2, BaseFacts DEF PairFits, Resolves
<1>4. BaseInv'
  BY <1>1, <1>2, <1>3, BaseFacts, StepFits
<1>5. /\ DOMAIN history' = {"launches", "calls", "out", "broken", "raced"}
      /\ history'.raced = history.raced \cup {o}
  BY <1>1 DEF FlagInv
<1>6. ASSUME NEW i \in Identity PROVE FlagFits(i)'
  <2>1. FlagFits(i) /\ accounts' = accounts /\ decided' = decided
    BY <1>1 DEF FlagInv
  <2>2. CASE i = o
    BY <2>1, <2>2, <1>5 DEF FlagFits
  <2>3. CASE i # o
    <3>1. Resolving(i)' <=> Resolving(i)
      BY <1>0, <1>1, <1>2, <2>3, BackendResolving DEF Resolves
    <3> QED
      BY <2>1, <2>3, <3>1, <1>5 DEF FlagFits
  <2> QED
    BY <2>2, <2>3
<1>7. ASSUME NEW d \in Call, call'[d].at = "bootstrap" PROVE Owner(d)' \in Listed
  BY <1>1, <1>2, <1>7 DEF FlagInv, Only, Owner
<1> QED
  BY <1>1, <1>4, <1>5, <1>6, <1>7 DEF SignInInv, FlagInv

\* The owner of the service decides.
LEMMA OwnerSetsKeeps ==
    ASSUME SignInInv, OwnerSets
    PROVE  SignInInv'
<1>1. PICK o \in Identity, flag \in Flag \ {"none"} :
         /\ accounts[o] \notin {"none", flag}
         /\ accounts' = [accounts EXCEPT ![o] = flag]
         /\ decided' = [decided EXCEPT ![o] = flag]
         /\ history' = [history EXCEPT !.raced = IF Resolving(o) THEN history.raced \cup {o}
                                                 ELSE history.raced]
  BY DEF OwnerSets
<1>2. UNCHANGED <<file, provider, adapter, call, faults>> /\ BaseInv /\ FlagInv
  BY DEF OwnerSets, authVars, SignInInv
<1>3. BaseInv'
  BY <1>2 DEF BaseInv, ShapeInv, PairsInv
<1>4. /\ DOMAIN history' = {"launches", "calls", "out", "broken", "raced"}
      /\ history'.raced = IF Resolving(o) THEN history.raced \cup {o} ELSE history.raced
  BY <1>1, <1>2 DEF FlagInv
<1>5. /\ accounts' \in [Identity -> Flag] /\ decided' \in [Identity -> Flag]
      /\ accounts'[o] = flag /\ decided'[o] = flag
      /\ \A i \in Identity : i # o => accounts'[i] = accounts[i] /\ decided'[i] = decided[i]
  BY <1>1, <1>2 DEF FlagInv
<1>6. ASSUME NEW i \in Identity PROVE FlagFits(i)'
  <2>1. FlagFits(i) /\ (Resolving(i)' <=> Resolving(i))
    BY <1>2 DEF FlagInv, Resolving, Owner
  <2>2. CASE i = o
    BY <2>1, <2>2, <1>4, <1>5 DEF FlagFits
  <2>3. CASE i # o
    <3>1. (i \in history.raced)' <=> i \in history.raced
      BY <2>3, <1>4
    <3> QED
      BY <2>1, <2>3, <3>1, <1>5 DEF FlagFits
  <2> QED
    BY <2>2, <2>3
<1>7. ASSUME NEW d \in Call, call'[d].at = "bootstrap" PROVE Owner(d)' \in Listed
  BY <1>2, <1>7 DEF FlagInv, Owner
<1> QED
  BY <1>3, <1>4, <1>5, <1>6, <1>7 DEF SignInInv, FlagInv

-----------------------------------------------------------------------------
(* Every step *)

\* An access token expires: who a request is for does not change.
LEMMA ExpiresKeeps ==
    ASSUME SignInInv, Expires, UNCHANGED <<screen, accounts, decided, history>>
    PROVE  SignInInv'
<1>1. PICK n \in DOMAIN provider.owner \ provider.expired :
         provider' = [provider EXCEPT !.expired = provider.expired \cup {n}]
  BY DEF Expires
<1>2. UNCHANGED <<file, adapter, call, faults>> /\ BaseInv /\ FlagInv
  BY DEF Expires, SignInInv
<1>3. /\ DOMAIN provider' = {"owner", "good", "expired"}
      /\ provider'.owner = provider.owner
      /\ provider'.expired = provider.expired \cup {n}
      /\ n \in 1..Len(provider.owner)
  BY <1>1, <1>2, BaseFacts DEF BaseInv, PairsInv
<1>4. BaseInv'
  BY <1>2, <1>3 DEF BaseInv, ShapeInv, PairsInv
<1>5. ResolvingKept
  BY <1>2, <1>3 DEF ResolvingKept, Resolving, Owner
<1>6. HistoryKept
  BY <1>2 DEF HistoryKept, FlagInv
<1> QED
  BY <1>2, <1>4, <1>5, <1>6, FlagsKept DEF SignInInv

\* The app is launched again: the requests at the backend go on.
LEMMA RelaunchKeeps ==
    ASSUME SignInInv, Relaunch
    PROVE  SignInInv'
<1>1. /\ BaseInv /\ FlagInv /\ UNCHANGED <<file, provider, faults, accounts, decided>>
      /\ adapter' = [pair |-> NoTokens, listening |-> FALSE]
      /\ call' = [c \in Call |-> IF call[c].at \in Backend THEN call[c] ELSE Idle]
  BY DEF Relaunch, SignInInv
<1>2. DOMAIN call' = Call
  BY <1>1
<1>3. \A c \in Call : /\ call[c].at \in Backend => call'[c] = call[c]
                      /\ call[c].at \notin Backend => call'[c] = Idle
  BY <1>1
<1>4. CallShape(Idle) /\ PairFits(Idle, Len(provider.owner)) /\ Idle.at = "idle"
  BY <1>1, BaseFacts DEF CallShape, PairFits, Idle, NoTokens, Resolves
<1>5. \A c \in Call : CallShape(call'[c]) /\ PairFits(call'[c], Len(provider.owner))
  BY <1>1, <1>3, <1>4, BaseFacts
<1>6. BaseInv'
  BY <1>1, <1>2, <1>5 DEF BaseInv, ShapeInv, PairsInv
<1>7. \A c \in Call : call[c].at \in Resolves \/ call'[c].at \in Resolves => call'[c] = call[c]
  BY <1>3, <1>4 DEF Resolves, Backend
<1>8. ResolvingKept
  BY <1>1, <1>7 DEF ResolvingKept, Resolving, Owner, Resolves
<1>9. HistoryKept
  BY <1>1 DEF Relaunch, HistoryKept, FlagInv
<1> QED
  BY <1>1, <1>6, <1>8, <1>9, FlagsKept DEF SignInInv

\* The AuthManager takes a step, and the screen follows.
LEMMA ActsKeeps ==
    ASSUME SignInInv, NEW c \in Call, Acts(c)
    PROVE  SignInInv'
<1>1. Kept(c) /\ UNCHANGED <<accounts, decided>>
  BY AuthStepKeeps DEF Acts, SignInInv
<1>2. HistoryKept
  BY DEF Acts, HistoryKept, SignInInv, FlagInv
<1> QED
  BY <1>1, <1>2, AsideKeepsFlags

\* The app asks for something.
LEMMA AsksKeeps ==
    ASSUME SignInInv, NEW c \in Call, Restore(c) \/ SignIn(c) \/ Fetch(c) \/ SignOut(c)
    PROVE  SignInInv'
<1>1. PICK op \in Operation, who \in Identity \cup {Nobody} :
         Asks(c, op, who) /\ (op \in {"password", "google"} => who \in Identity)
  BY DEF Restore, SignIn, Fetch, SignOut, Operation
<1>2. Kept(c)
  BY <1>1, BeginsKeeps DEF Asks, SignInInv
<1>3. HistoryKept /\ UNCHANGED <<accounts, decided>>
  BY <1>1 DEF Asks, HistoryKept, SignInInv, FlagInv
<1> QED
  BY <1>2, <1>3, AsideKeepsFlags

\* Before anything has happened there are no calls, pairs or accounts.
LEMMA InitFlags == SignInInit => SignInInv
<1> SUFFICES ASSUME SignInInit PROVE SignInInv
  OBVIOUS
<1>1. \A c \in Call : call[c].at = "idle" /\ call[c].op = "none" /\ call[c].pair = 0
                      /\ DOMAIN call[c] = {"op", "at", "pair", "who"}
  BY DEF SignInInit, AuthInit, Idle, NoTokens
<1>2. ShapeInv
  BY <1>1 DEF SignInInit, AuthInit, ShapeInv, CallShape
<1>3. provider.owner = <<>> /\ provider.expired = {} /\ file.pair = 0
  BY DEF SignInInit, AuthInit, NoTokens
<1>4. PairsInv
  BY <1>1, <1>3 DEF PairsInv, PairFits, Resolves
<1>5. FlagInv
  BY <1>1 DEF SignInInit, FlagInv, FlagFits, Flag, Resolving
<1> QED
  BY <1>2, <1>4, <1>5 DEF SignInInv, BaseInv

\* Nothing happens.
LEMMA StutterKeeps ==
    ASSUME SignInInv, UNCHANGED vars
    PROVE  SignInInv'
<1>1. UNCHANGED <<file, provider, adapter, call, faults, accounts, decided, history>>
  BY DEF vars, authVars
<1>2. BaseInv'
  BY <1>1 DEF SignInInv, BaseInv, ShapeInv, PairsInv
<1>3. ResolvingKept /\ HistoryKept
  BY <1>1 DEF SignInInv, FlagInv, ResolvingKept, Resolving, Owner, HistoryKept
<1> QED
  BY <1>1, <1>2, <1>3, FlagsKept DEF SignInInv

\* Every step keeps the shapes, the pairs and where the flags come from.
LEMMA NextFlags == SignInInv /\ [Next]_vars => SignInInv'
<1> SUFFICES ASSUME SignInInv, [Next]_vars PROVE SignInInv'
  OBVIOUS
<1>1. CASE \E c \in Call : \/ Restore(c) \/ SignIn(c) \/ Fetch(c) \/ SignOut(c) \/ Acts(c)
                          \/ Verify(c) \/ Provision(c) \/ Bootstrap(c) \/ RequestFails(c)
  BY <1>1, AsksKeeps, ActsKeeps, VerifyKeeps, ProvisionKeeps, BootstrapKeeps, RequestFailsKeeps
<1>2. CASE Expires /\ UNCHANGED <<screen, accounts, decided, history>>
  BY <1>2, ExpiresKeeps
<1>3. CASE Relaunch \/ OwnerSets
  BY <1>3, RelaunchKeeps, OwnerSetsKeeps
<1>4. CASE UNCHANGED vars
  BY <1>4, StutterKeeps
<1> QED
  BY <1>1, <1>2, <1>3, <1>4 DEF Next

\* The invariant is about more than the property: it implies it.
LEMMA FlagsDecide == SignInInv => FlagIsDecided
<1> SUFFICES ASSUME SignInInv, NEW i \in Identity, accounts[i] # "none", ~Resolving(i),
                    i \notin history.raced
             PROVE  accounts[i] = CASE decided[i] # "none" -> decided[i]
                                    [] decided[i] = "none" /\ i \in Listed -> "superuser"
                                    [] OTHER -> "plain"
  BY DEF FlagIsDecided
<1>1. FlagFits(i) /\ accounts[i] \in {"plain", "superuser"}
  BY DEF SignInInv, FlagInv, Flag
<1>2. CASE decided[i] # "none"
  BY <1>1, <1>2 DEF FlagFits
<1>3. CASE decided[i] = "none" /\ i \in Listed
  BY <1>1, <1>3 DEF FlagFits
<1>4. CASE decided[i] = "none" /\ i \notin Listed
  BY <1>1, <1>4 DEF FlagFits
<1> QED
  BY <1>2, <1>3, <1>4

\* FlagIsDecided, of authVerifier.ts's resolveAccount, whatever requests race to
\* provision an account: its superuser flag is what the owner of the service
\* decided, and until then what the allow-list says.
THEOREM FlagAlwaysDecided == Spec => []FlagIsDecided
<1>1. SignInInit => SignInInv
  BY InitFlags
<1>2. SignInInv /\ [Next]_vars => SignInInv'
  BY NextFlags
<1>3. SignInInv => FlagIsDecided
  BY FlagsDecide
<1> QED
  BY <1>1, <1>2, <1>3, PTL DEF Spec

-----------------------------------------------------------------------------
(* Nothing is left behind *)

PortInv ==
    /\ \A c, d \in Call : call[c].at = "redirect" /\ call[d].at = "redirect" => c = d
    /\ adapter.listening <=> \E c \in Call : call[c].at = "redirect"

AtFile == {"writing", "clearing"}

FileInv ==
    /\ history.broken \in BOOLEAN
    /\ file.torn => history.broken \/ \E c \in Call : call[c].at \in AtFile

TidyInv == SignInInv /\ PortInv /\ FileInv

\* A step of c that is neither to nor from the loopback listener.
PortQuiet(c) ==
    /\ Only(c)
    /\ call[c].at # "redirect" /\ call'[c].at # "redirect"
    /\ adapter'.listening = adapter.listening

\* A step of c that is not at the token file, nothing being forgotten.
FileQuiet(c) ==
    /\ Only(c)
    /\ call[c].at \notin AtFile
    /\ file'.torn = file.torn

BrokenStays == history'.broken \in BOOLEAN /\ (history.broken => history'.broken)

\* A step away from the listener keeps it matched with its call.
LEMMA PortKept ==
    ASSUME PortInv, NEW c \in Call, PortQuiet(c)
    PROVE  PortInv'
<1>1. \A d \in Call : call'[d].at = "redirect" <=> call[d].at = "redirect"
  BY DEF PortQuiet, Only
<1> QED
  BY <1>1 DEF PortInv, PortQuiet

\* A step away from the token file keeps its writer accounted for.
LEMMA FileKept ==
    ASSUME FileInv, NEW c \in Call, FileQuiet(c), BrokenStays
    PROVE  FileInv'
<1>1. \A d \in Call : call[d].at \in AtFile => call'[d].at \in AtFile
  BY DEF FileQuiet, Only
<1> QED
  BY <1>1 DEF FileInv, FileQuiet, BrokenStays

\* The listener is not what a step of c was about.
LEMMA AwayFromPort ==
    ASSUME BaseInv, NEW c \in Call, call[c].at \in Stage \ {"redirect"},
           adapter'.listening = adapter.listening,
           Returns(c) \/ \E at \in Stage \ {"redirect"}, pair \in Nat : Goes(c, at, pair)
    PROVE  PortQuiet(c)
<1>1. CASE Returns(c)
  BY <1>1, ReturnsIdle DEF BaseInv, PortQuiet
<1>2. ASSUME NEW at \in Stage \ {"redirect"}, NEW pair \in Nat, Goes(c, at, pair)
      PROVE  PortQuiet(c)
  BY <1>2, GoesOn DEF BaseInv, PortQuiet
<1> QED
  BY <1>1, <1>2

\* The listener opens for the one call that finds the port free, and closes
\* with that call.
LEMMA ListenerTidy ==
    ASSUME BaseInv, PortInv, NEW c \in Call, Listens(c) \/ Redirected(c)
    PROVE  PortInv'
<1>1. DOMAIN adapter = {"pair", "listening"} /\ call[c].at \in Stage
  BY BaseFacts DEF Listens, Redirected, Stage
<1>2. CASE Listens(c) /\ adapter.listening
  BY <1>1, <1>2, AwayFromPort, PortKept DEF Listens, Stage
<1>3. CASE Listens(c) /\ ~adapter.listening
  <2>1. Only(c) /\ call'[c].at = "redirect" /\ adapter'.listening = TRUE
    BY <1>1, <1>3, GoesOn DEF Listens, BaseInv, Stage
  <2> QED
    BY <1>3, <2>1 DEF PortInv, Only
<1>4. CASE Redirected(c)
  <2>1. Returns(c) \/ Goes(c, "exchange", 0)
    BY <1>4 DEF Redirected, NoTokens
  <2>2. Only(c) /\ call'[c].at # "redirect"
    BY <1>1, <2>1, GoesOn, ReturnsIdle DEF BaseInv, Stage
  <2>3. adapter'.listening = FALSE /\ call[c].at = "redirect"
    BY <1>1, <1>4 DEF Redirected
  <2> QED
    BY <2>2, <2>3 DEF PortInv, Only
<1> QED
  BY <1>2, <1>3, <1>4

\* No other step of the AuthManager is about the listener.
LEMMA AuthStepTidyPort ==
    ASSUME BaseInv, PortInv, NEW c \in Call, AuthStep(c)
    PROVE  PortInv'
<1> DEFINE Quiet == Returns(c) \/ \E at \in Stage \ {"redirect"}, pair \in Nat : Goes(c, at, pair)
<1>1. /\ {"clear", "save", "refresh", "endsession", "verify", "writing", "clearing"}
              \subseteq Stage \ {"redirect"}
      /\ NoTokens = 0 /\ 0 \in Nat /\ call[c].pair \in Nat /\ Len(provider.owner) + 1 \in Nat
      /\ Stored \in Nat /\ DOMAIN adapter = {"pair", "listening"}
  BY BaseFacts DEF Stage, NoTokens, PairFits, Stored
<1>2. CASE RefreshAnswered(c) \/ SignInAnswered(c) \/ ProviderLost(c)
  <2>1. Rejected(c) => Quiet
    BY <1>1 DEF Rejected
  <2>2. ASSUME NEW who, NEW used, Issue(c, who, used)
        PROVE  Goes(c, "save", Len(provider.owner) + 1) /\ adapter'.listening = adapter.listening
    BY <1>1, <2>2 DEF Issue
  <2>3. Quiet /\ adapter'.listening = adapter.listening
    BY <1>1, <1>2, <2>1, <2>2 DEF RefreshAnswered, SignInAnswered, ProviderLost
  <2>4. call[c].at \in Stage \ {"redirect"}
    BY <1>2 DEF RefreshAnswered, SignInAnswered, ProviderLost, Stage
  <2> QED
    BY <2>3, <2>4, AwayFromPort, PortKept
<1>3. CASE SessionEnded(c)
  <2>1. /\ Goes(c, "clear", 0) /\ adapter'.listening = adapter.listening
        /\ call[c].at \in Stage \ {"redirect"}
    BY <1>1, <1>3 DEF SessionEnded, Stage
  <2> QED
    BY <1>1, <2>1, AwayFromPort, PortKept
<1>4. CASE Loads(c)
  <2>1. /\ adapter' = adapter /\ call[c].at \in Stage \ {"redirect"}
        /\ \/ Returns(c) \/ Goes(c, "clear", 0) \/ Goes(c, "endsession", 0)
           \/ Goes(c, "refresh", Stored) \/ Goes(c, "verify", Stored)
    BY <1>1, <1>4 DEF Loads, Stage
  <2> QED
    BY <1>1, <2>1, AwayFromPort, PortKept
<1>5. CASE Truncates(c) \/ Writes(c) \/ WriteFails(c)
  <2>1. /\ adapter' = adapter /\ call[c].at \in Stage \ {"redirect"}
        /\ \/ Returns(c) \/ Goes(c, "clear", 0)
           \/ \E at \in {"writing", "clearing", "verify"} : Goes(c, at, call[c].pair)
    BY <1>1, <1>5 DEF Truncates, Writes, WriteFails, Refuses, Done, Stage
  <2> QED
    BY <1>1, <2>1, AwayFromPort, PortKept
<1> QED
  BY <1>2, <1>3, <1>4, <1>5, ListenerTidy DEF AuthStep

\* The file is truncated by a call that goes on to write it; a write makes it
\* whole, and one that fails is remembered.
LEMMA AuthStepTidyFile ==
    ASSUME BaseInv, FileInv, NEW c \in Call, AuthStep(c), BrokenStays,
           faults' # faults => history'.broken
    PROVE  FileInv'
<1>1. Only(c) /\ DOMAIN file = {"pair", "torn"} /\ faults \in Nat
  BY AuthStepKeeps, BaseFacts DEF Kept, Aside
<1>2. CASE Truncates(c) /\ file'.torn # file.torn
  <2>1. \E at \in AtFile : Goes(c, at, call[c].pair)
    BY <1>2 DEF Truncates, AtFile
  <2>2. call[c].at \in Stage /\ AtFile \subseteq Stage
    BY <1>2 DEF Truncates, AtFile, Stage
  <2>3. call'[c].at \in AtFile
    BY <2>1, <2>2, GoesOn DEF BaseInv
  <2> QED
    BY <2>3 DEF FileInv, BrokenStays
<1>3. CASE Writes(c)
  <2>1. ~file'.torn
    BY <1>3 DEF Writes
  <2> QED
    BY <2>1 DEF FileInv, BrokenStays
<1>4. CASE WriteFails(c)
  <2>1. history'.broken
    BY <1>1, <1>4 DEF WriteFails, Fault
  <2> QED
    BY <2>1 DEF FileInv, BrokenStays
<1>5. CASE ~Writes(c) /\ ~WriteFails(c) /\ ~(Truncates(c) /\ file'.torn # file.torn)
  <2>1. call[c].at \notin AtFile /\ file'.torn = file.torn
    BY <1>5 DEF AuthStep, RefreshAnswered, SignInAnswered, ProviderLost, Listens, Redirected,
                SessionEnded, Loads, Truncates, AtFile
  <2> QED
    BY <1>1, <2>1, FileKept DEF FileQuiet
<1> QED
  BY <1>2, <1>3, <1>4, <1>5

\* A call that begins is at neither.
LEMMA BeginsTidy ==
    ASSUME BaseInv, PortInv, FileInv, NEW c \in Call, NEW op \in Operation, NEW who,
           Begins(c, op, who), Only(c), BrokenStays
    PROVE  PortInv' /\ FileInv'
<1> DEFINE at == CASE op \in {"restore", "token", "signout"} -> "load"
                   [] op = "password" -> "password"
                   [] op = "google" -> "listen"
           new == [op |-> op, at |-> at, pair |-> NoTokens, who |-> who]
<1>1. /\ op = "password" => at = "password"
      /\ op = "google" => at = "listen"
      /\ op \in {"restore", "token", "signout"} => at = "load"
  OBVIOUS
<1>2. at # "redirect"
  BY <1>1 DEF Operation
<1>3. call' = [call EXCEPT ![c] = new] /\ UNCHANGED <<file, adapter>> /\ call[c].at = "idle"
  BY DEF Begins, Become, InFlight, BaseInv, ShapeInv, CallShape
<1> HIDE DEF at
<1>4. new.at = at
  OBVIOUS
<1> HIDE DEF new
<1>5. call'[c] = new
  BY <1>3 DEF BaseInv, ShapeInv
<1>6. PortQuiet(c) /\ FileQuiet(c)
  BY <1>2, <1>3, <1>4, <1>5 DEF PortQuiet, FileQuiet, AtFile
<1> QED
  BY <1>6, PortKept, FileKept

\* The backend touches neither.
LEMMA BackendTidy ==
    ASSUME TidyInv, NEW c \in Call,
           Verify(c) \/ Provision(c) \/ Bootstrap(c) \/ RequestFails(c)
    PROVE  PortInv' /\ FileInv'
<1>1. /\ call[c].at \in Stage \ {"redirect"} /\ call[c].at \notin AtFile
      /\ UNCHANGED <<file, adapter>> /\ BaseInv /\ call[c].pair \in Nat
  BY BaseFacts DEF Verify, Provision, Bootstrap, RequestFails, BackendStep, Stage, AtFile,
                   TidyInv, SignInInv, PairFits
<1>2. Returns(c) \/ \E at \in Resolves : Goes(c, at, call[c].pair)
  BY DEF Verify, Provision, Bootstrap, RequestFails, Resolves
<1>3. Resolves \subseteq Stage \ {"redirect"}
  BY DEF Resolves, Stage
<1>4. PortQuiet(c)
  BY <1>1, <1>2, <1>3, AwayFromPort
<1>5. BrokenStays
  BY DEF Verify, Provision, Bootstrap, RequestFails, BrokenStays, TidyInv, FileInv, SignInInv,
         FlagInv
<1>6. FileQuiet(c)
  BY <1>1, <1>4 DEF FileQuiet, PortQuiet
<1> QED
  BY <1>4, <1>5, <1>6, PortKept, FileKept DEF TidyInv

\* A launch closes the port; if it cuts a write off, that is remembered.
LEMMA RelaunchTidy ==
    ASSUME TidyInv, Relaunch
    PROVE  PortInv' /\ FileInv'
<1>1. /\ adapter'.listening = FALSE /\ file' = file
      /\ \A c \in Call : call'[c] = IF call[c].at \in Backend THEN call[c] ELSE Idle
      /\ history'.broken = (history.broken \/ ~Settled)
  BY DEF Relaunch, TidyInv, SignInInv, FlagInv
<1>2. \A c \in Call : call'[c].at # "redirect"
  BY <1>1 DEF Backend, Idle
<1>3. PortInv'
  BY <1>1, <1>2 DEF PortInv
<1>4. (\E c \in Call : call[c].at \in AtFile) => ~Settled
  BY DEF Settled, Changes, AtFile
<1>5. FileInv'
  BY <1>1, <1>4 DEF TidyInv, FileInv, Settled
<1> QED
  BY <1>3, <1>5

\* At first the file is whole and the port is free.
LEMMA InitTidy == SignInInit => TidyInv
<1> SUFFICES ASSUME SignInInit PROVE TidyInv
  OBVIOUS
<1>1. \A c \in Call : call[c].at = "idle"
  BY DEF SignInInit, AuthInit, Idle
<1>2. PortInv /\ FileInv
  BY <1>1 DEF SignInInit, AuthInit, PortInv, FileInv
<1> QED
  BY <1>2, InitFlags DEF TidyInv

\* Every step keeps the file and the port accounted for.
LEMMA NextTidy == TidyInv /\ [Next]_vars => TidyInv'
<1> SUFFICES ASSUME TidyInv, [Next]_vars PROVE TidyInv'
  OBVIOUS
<1>1. BaseInv /\ PortInv /\ FileInv /\ SignInInv'
  BY NextFlags DEF TidyInv, SignInInv
<1>2. DOMAIN history = {"launches", "calls", "out", "broken", "raced"} /\ faults \in Nat
  BY BaseFacts DEF TidyInv, SignInInv, FlagInv
<1>3. ASSUME NEW c \in Call, Restore(c) \/ SignIn(c) \/ Fetch(c) \/ SignOut(c)
      PROVE  PortInv' /\ FileInv'
  <2>1. PICK op \in Operation, who \in Identity \cup {Nobody} :
           Asks(c, op, who) /\ (op \in {"password", "google"} => who \in Identity)
    BY <1>3 DEF Restore, SignIn, Fetch, SignOut, Operation
  <2>2. Only(c)
    BY <1>1, <2>1, BeginsKeeps DEF Asks, Kept, Aside
  <2>3. BrokenStays
    BY <1>1, <1>2, <2>1 DEF Asks, BrokenStays, FileInv
  <2> QED
    BY <1>1, <2>1, <2>2, <2>3, BeginsTidy DEF Asks
<1>4. ASSUME NEW c \in Call, Acts(c)
      PROVE  PortInv' /\ FileInv'
  <2>1. AuthStep(c) /\ history'.broken = (history.broken \/ faults' # faults)
    BY <1>2, <1>4 DEF Acts
  <2>2. BrokenStays /\ (faults' # faults => history'.broken)
    BY <1>1, <2>1 DEF BrokenStays, FileInv
  <2> QED
    BY <1>1, <2>1, <2>2, AuthStepTidyPort, AuthStepTidyFile
<1>5. CASE UNCHANGED <<file, adapter, call, history>>
  BY <1>1, <1>5 DEF PortInv, FileInv, TidyInv
<1>6. CASE OwnerSets
  <2>1. UNCHANGED <<file, adapter, call>> /\ history'.broken = history.broken
    BY <1>2, <1>6 DEF OwnerSets, authVars
  <2> QED
    BY <1>1, <2>1 DEF PortInv, FileInv, TidyInv
<1>7. Expires /\ UNCHANGED history => UNCHANGED <<file, adapter, call, history>>
  BY DEF Expires
<1>8. UNCHANGED vars => UNCHANGED <<file, adapter, call, history>>
  BY DEF vars, authVars
<1> QED
  BY <1>1, <1>3, <1>4, <1>5, <1>6, <1>7, <1>8, BackendTidy, RelaunchTidy DEF Next, TidyInv

\* The invariant implies the property.
LEMMA TidyLeavesNothing == TidyInv => NothingLeftBehind
BY DEF TidyInv, PortInv, FileInv, NothingLeftBehind, AtFile

\* NothingLeftBehind, of authManager.ts, electronSecureStore.ts and the loopback
\* listener, however many calls overlap, fail or are cut off: the token file is
\* truncated only while it is being written or after a failure, and the port is
\* held only by the sign-in that waits at it.
THEOREM NeverLeftBehind == Spec => []NothingLeftBehind
<1>1. SignInInit => TidyInv
  BY InitTidy
<1>2. TidyInv /\ [Next]_vars => TidyInv'
  BY NextTidy
<1>3. TidyInv => NothingLeftBehind
  BY TidyLeavesNothing
<1> QED
  BY <1>1, <1>2, <1>3, PTL DEF Spec

-----------------------------------------------------------------------------
(* The stored tokens *)

\* The stages each operation goes through
StageFits(r) ==
    /\ r.op = "none" <=> r.at = "idle"
    /\ r.at = "load" => r.op \in {"restore", "token", "signout"}
    /\ r.at \in {"password", "listen", "redirect", "exchange"} => r.op \in {"password", "google"}
    /\ r.at = "refresh" => r.op \in {"restore", "token"}
    /\ r.at = "endsession" => r.op = "signout"
    /\ r.at \in {"save", "writing"} => r.op \in {"restore", "token", "password", "google"}
    /\ r.at \in {"clear", "clearing"} => r.op \in {"restore", "token", "signout"} /\ r.pair = 0
    /\ r.at \in Backend => r.op = "token"

\* A call of the backend, or none
Away(r) == r.at \in Backend \cup {"idle"}

\* The app is not used while it restores the session.
RestoreInv ==
    /\ history.calls \in Nat
    /\ \A c \in Call : StageFits(call[c])
    /\ screen = "loading" /\ history.calls = 0 => \A c \in Call : Away(call[c])
    /\ \A c \in Call : call[c].op = "restore" =>
          /\ screen = "loading" /\ history.calls # 0
          /\ \A d \in Call \ {c} : Away(call[d])

\* Tokens are stored while somebody is signed in, and good for one more use.
Kempt ==
    /\ file.pair = NoTokens <=> history.out
    /\ file.pair # NoTokens => file.pair \in provider.good

\* A call that will leave the file otherwise
Replaces(r) ==
    \/ r.op = "signout"
    \/ r.at = "save" /\ r.op \in {"restore", "token"}
    \/ r.at = "writing"

\* What the one call that is changing the tokens has at hand
Prepared(r) ==
    /\ r.op = "signout" => history.out
    /\ r.at \in {"clear", "clearing"} => r.op = "signout"
    /\ r.at = "refresh" => r.pair = file.pair
    /\ r.at \in {"save", "writing"} => r.pair # NoTokens /\ r.pair \in provider.good
    /\ r.at \in {"save", "writing"} /\ r.op \in {"restore", "token"} => ~history.out /\ encryption
    /\ r.at = "writing" => encryption
    /\ r.at \in {"writing", "clearing"} => file.torn

\* What is known while one call at a time changes the tokens.
Core ==
    /\ \A c, d \in Call : Changes(call[c]) /\ Changes(call[d]) => c = d
    /\ ~encryption => file.pair = NoTokens
    /\ \A c \in Call : Changes(call[c]) => Prepared(call[c])
    /\ (\A c \in Call : ~Replaces(call[c])) => Kempt

\* One call at a time changes the tokens, and meets no fault.
StoredInv ==
    /\ history.out \in BOOLEAN /\ crossed \in BOOLEAN
    /\ ~crossed /\ ~history.broken => Core

KeptInv == TidyInv /\ RestoreInv /\ StoredInv

\* The same, as it concerns a call that is alone
Ready(c) ==
    /\ ~encryption => file.pair = NoTokens
    /\ Changes(call[c]) => Prepared(call[c])
    /\ ~Replaces(call[c]) => Kempt

\* A restore or a sign-in of c succeeds.
SignsIn(c) ==
    /\ call[c].op \in {"restore", "password", "google"} /\ call'[c] = Idle
    /\ \/ call[c].at = "writing" /\ UNCHANGED faults
       \/ call[c].at = "load" /\ Stored # NoTokens

-----------------------------------------------------------------------------
(* Alone, or beside the others *)

\* Whoever will replace what the file holds is changing the tokens.
LEMMA ReplacesChanges == \A r : Replaces(r) => Changes(r)
BY DEF Replaces, Changes

\* A call that changes the tokens now or next is alone with them.
LEMMA AloneReady ==
    ASSUME Core, NEW c \in Call, Only(c),
           \A d, e \in Call : Changes(call'[d]) /\ Changes(call'[e]) => d = e,
           Changes(call[c]) \/ Changes(call'[c])
    PROVE  /\ Ready(c)
           /\ \A d \in Call \ {c} : ~Changes(call[d]) /\ ~Changes(call'[d])
<1>1. \A d \in Call \ {c} : call'[d] = call[d]
  BY DEF Only
<1>2. \A d \in Call \ {c} : ~Changes(call[d])
  BY <1>1 DEF Core
<1>3. \A d \in Call \ {c} : ~Replaces(call[d])
  BY <1>2, ReplacesChanges
<1>4. Ready(c)
  BY <1>3 DEF Core, Ready
<1> QED
  BY <1>1, <1>2, <1>4

\* What is known of a call that was alone is known of all.
LEMMA AloneKept ==
    ASSUME NEW c \in Call, Ready(c)', \A d \in Call \ {c} : ~Changes(call'[d])
    PROVE  Core'
<1>1. \A d \in Call \ {c} : ~Replaces(call'[d])
  BY ReplacesChanges
<1> QED
  BY <1>1 DEF Core, Ready

\* A step that changes no tokens, beside one that may be.
LEMMA QuietKept ==
    ASSUME Core, NEW c \in Call, Only(c), ~Changes(call[c]), ~Changes(call'[c]),
           UNCHANGED <<file, encryption>>, provider'.good = provider.good,
           history'.out = history.out
    PROVE  Core'
<1>1. \A d \in Call \ {c} : call'[d] = call[d]
  BY DEF Only
<1>2. \A d, e \in Call : Changes(call'[d]) /\ Changes(call'[e]) => d = e
  BY <1>1 DEF Core
<1>3. ASSUME NEW d \in Call, Changes(call'[d]) PROVE Prepared(call[d])'
  <2>1. call'[d] = call[d] /\ Prepared(call[d])
    BY <1>1, <1>3 DEF Core
  <2> QED
    BY <2>1 DEF Prepared
<1>4. ASSUME \A d \in Call : ~Replaces(call'[d]) PROVE Kempt'
  <2>1. ~Replaces(call[c])
    BY ReplacesChanges
  <2>2. Kempt
    BY <1>1, <1>4, <2>1 DEF Core
  <2> QED
    BY <2>2 DEF Kempt
<1> QED
  BY <1>2, <1>3, <1>4 DEF Core

-----------------------------------------------------------------------------
(* What a step of the AuthManager makes of its own call *)

\* A pair at hand is a number, and none is 0.
LEMMA PairIs ==
    ASSUME BaseInv, NEW c \in Call
    PROVE  /\ call[c].pair \in Nat /\ Len(provider.owner) \in Nat /\ file.pair \in Nat
           /\ call[c].at = "refresh" => call[c].pair # 0
           /\ 0 \notin provider.expired /\ CallShape(call[c])
           /\ DOMAIN provider = {"owner", "good", "expired"} /\ DOMAIN file = {"pair", "torn"}
BY BaseFacts DEF PairFits, Resolves, BaseInv, PairsInv

\* The provider answers a refresh with a new pair, good for one more use; with
\* nobody else at the tokens it does not refuse one that is stored.
LEMMA RefreshReady ==
    ASSUME BaseInv, NEW c \in Call, StageFits(call[c]), Ready(c), RefreshAnswered(c),
           history'.out = (history.out /\ ~SignsIn(c))
    PROVE  Ready(c)'
<1>1. /\ call[c].at = "refresh" /\ call[c].op \in {"restore", "token"}
      /\ UNCHANGED <<file, encryption>>
  BY DEF RefreshAnswered, StageFits
<1>2. ~Replaces(call[c]) /\ Changes(call[c])
  BY <1>1 DEF Replaces, Changes
<1>3. file.pair # 0 /\ call[c].pair = file.pair /\ file.pair \in provider.good
      /\ encryption /\ ~history.out
  BY <1>1, <1>2, PairIs DEF Ready, Prepared, Kempt, NoTokens
<1>4. Issue(c, provider.owner[call[c].pair], {call[c].pair})
  BY <1>3 DEF RefreshAnswered
<1> DEFINE n == Len(provider.owner) + 1
<1>5. Goes(c, "save", n) /\ provider'.good = (provider.good \ {call[c].pair}) \cup {n}
  BY <1>4, PairIs DEF Issue
<1>6. call'[c].at = "save" /\ call'[c].pair = n /\ call'[c].op = call[c].op
  BY <1>1, <1>5, GoesOn DEF BaseInv, Stage
<1>7. n # 0 /\ n \in provider'.good
  BY <1>5, PairIs
<1>8. ~history'.out
  BY <1>3
<1>9. Prepared(call[c])'
  BY <1>1, <1>3, <1>6, <1>7, <1>8 DEF Prepared, NoTokens
<1>10. Replaces(call[c])'
  BY <1>1, <1>6 DEF Replaces
<1> QED
  BY <1>1, <1>3, <1>9, <1>10 DEF Ready

\* The provider answers a sign-in: what is stored stays good meanwhile.
LEMMA SignInReady ==
    ASSUME BaseInv, NEW c \in Call, StageFits(call[c]), Ready(c), SignInAnswered(c),
           history'.out = (history.out /\ ~SignsIn(c)), history.out \in BOOLEAN
    PROVE  Ready(c)'
<1>1. /\ call[c].at \in {"password", "exchange"} /\ call[c].op \in {"password", "google"}
      /\ UNCHANGED <<file, encryption>>
  BY DEF SignInAnswered, StageFits
<1>2. ~Replaces(call[c]) /\ call[c].at \in Stage
  BY <1>1 DEF Replaces, Stage
<1>3. Kempt /\ (~encryption => file.pair = NoTokens)
  BY <1>2 DEF Ready
<1>4. ~SignsIn(c) /\ history'.out = history.out
  BY <1>1 DEF SignsIn
<1>5. CASE Issue(c, call[c].who, {})
  <2> DEFINE n == Len(provider.owner) + 1
  <2>1. Goes(c, "save", n) /\ provider'.good = (provider.good \ {}) \cup {n}
    BY <1>5, PairIs DEF Issue
  <2>2. call'[c].at = "save" /\ call'[c].pair = n /\ call'[c].op = call[c].op
    BY <1>2, <2>1, GoesOn DEF BaseInv, Stage
  <2>3. n # 0 /\ n \in provider'.good
    BY <2>1, PairIs
  <2>4. Prepared(call[c])'
    BY <1>1, <2>2, <2>3 DEF Prepared, NoTokens
  <2>5. Kempt'
    BY <1>1, <1>3, <1>4, <2>1 DEF Kempt
  <2> QED
    BY <1>1, <1>3, <2>4, <2>5 DEF Ready
<1>6. CASE Rejected(c) /\ UNCHANGED <<provider, adapter>>
  <2>1. Returns(c)
    BY <1>1, <1>6 DEF Rejected
  <2>2. ~Changes(call'[c])
    BY <2>1, ReturnsIdle DEF BaseInv, Changes, Idle
  <2>3. Kempt'
    BY <1>1, <1>3, <1>4, <1>6 DEF Kempt
  <2> QED
    BY <1>1, <1>3, <2>2, <2>3 DEF Ready
<1> QED
  BY <1>5, <1>6 DEF SignInAnswered

\* The provider session ends on the way to the clear.
LEMMA SessionEndedReady ==
    ASSUME BaseInv, NEW c \in Call, StageFits(call[c]), Ready(c), SessionEnded(c),
           history'.out = (history.out /\ ~SignsIn(c)), history.out \in BOOLEAN
    PROVE  Ready(c)'
<1>1. /\ call[c].at = "endsession" /\ call[c].op = "signout" /\ Goes(c, "clear", NoTokens)
      /\ UNCHANGED <<file, encryption>> /\ call[c].at \in Stage
  BY DEF SessionEnded, StageFits, Stage
<1>2. history'.out
  BY <1>1 DEF Ready, Changes, Prepared, SignsIn
<1>3. call'[c].at = "clear" /\ call'[c].op = "signout"
  BY <1>1, GoesOn DEF BaseInv, Stage
<1>4. Prepared(call[c])' /\ Replaces(call[c])'
  BY <1>2, <1>3 DEF Prepared, Replaces
<1> QED
  BY <1>1, <1>4 DEF Ready

\* The listener's call changes no tokens.
LEMMA ListenerReady ==
    ASSUME BaseInv, NEW c \in Call, StageFits(call[c]), Ready(c), Listens(c) \/ Redirected(c),
           history'.out = (history.out /\ ~SignsIn(c)), history.out \in BOOLEAN
    PROVE  Ready(c)'
<1>1. /\ call[c].at \in {"listen", "redirect"} /\ call[c].op \in {"password", "google"}
      /\ UNCHANGED <<file, provider, encryption>> /\ call[c].at \in Stage
  BY DEF Listens, Redirected, StageFits, Stage
<1>2. Returns(c) \/ Goes(c, "redirect", NoTokens) \/ Goes(c, "exchange", NoTokens)
  BY DEF Listens, Redirected
<1>3. {"redirect", "exchange"} \subseteq Stage
  BY DEF Stage
<1>4. call'[c].at \in {"idle", "redirect", "exchange"} /\ call'[c].op \in {"none", "password", "google"}
  BY <1>1, <1>2, <1>3, GoesOn, ReturnsIdle DEF BaseInv, Idle
<1>5. ~Changes(call[c]) /\ ~Changes(call'[c])
  BY <1>1, <1>4 DEF Changes
<1>6. ~SignsIn(c) /\ history'.out = history.out
  BY <1>1 DEF SignsIn
<1>7. Kempt /\ (~encryption => file.pair = NoTokens)
  BY <1>5, ReplacesChanges DEF Ready
<1>8. Kempt'
  BY <1>1, <1>6, <1>7 DEF Kempt
<1> QED
  BY <1>1, <1>5, <1>6, <1>7, <1>8 DEF Ready

\* What a load makes of its call: a sign-out that goes on, a refresh of the
\* stored pair, a token that is good enough, or a restore that ends.
LEMMA LoadsReady ==
    ASSUME BaseInv, NEW c \in Call, StageFits(call[c]), Ready(c), Loads(c),
           history'.out = (history.out /\ ~SignsIn(c)), history.out \in BOOLEAN
    PROVE  Ready(c)'
<1>1. /\ call[c].at = "load" /\ call[c].op \in {"restore", "token", "signout"}
      /\ UNCHANGED <<file, provider, encryption>> /\ call[c].at \in Stage
  BY DEF Loads, StageFits, Stage
<1>2. {"clear", "endsession", "refresh", "verify"} \subseteq Stage /\ Idle.at = "idle"
  BY DEF Stage, Idle
<1>3. ~encryption => file.pair = NoTokens
  BY DEF Ready
<1>4. CASE call[c].op = "signout"
  <2>1. PICK at \in {"clear", "endsession"} : Goes(c, at, NoTokens)
    BY <1>4 DEF Loads
  <2>2. call'[c].at = at /\ call'[c].op = "signout" /\ call'[c].pair = 0
    BY <1>1, <1>2, <1>4, <2>1, GoesOn DEF BaseInv, NoTokens
  <2>3. history.out /\ history'.out /\ Changes(call[c])
    BY <1>4 DEF Ready, Changes, Prepared, SignsIn
  <2>4. Prepared(call[c])' /\ Replaces(call[c])'
    BY <2>2, <2>3 DEF Prepared, Replaces
  <2> QED
    BY <1>1, <1>3, <2>3, <2>4 DEF Ready
<1>5. CASE call[c].op # "signout" /\ Stored \in provider.expired
  <2>1. Goes(c, "refresh", Stored)
    BY <1>5 DEF Loads
  <2>2. Stored = file.pair
    BY <1>5, PairIs DEF Stored, NoTokens
  <2>3. call'[c].at = "refresh" /\ call'[c].op = call[c].op /\ call'[c].pair = file.pair
    BY <1>1, <1>2, <2>1, <2>2, GoesOn DEF BaseInv
  <2>4. Kempt
    BY <1>1, <1>5 DEF Ready, Replaces
  <2>5. history'.out = history.out
    BY <1>2, <2>3 DEF SignsIn
  <2>6. Kempt'
    BY <1>1, <2>4, <2>5 DEF Kempt
  <2>7. Prepared(call[c])'
    BY <1>1, <1>5, <2>3 DEF Prepared
  <2> QED
    BY <1>1, <1>3, <2>5, <2>6, <2>7 DEF Ready
<1>6. CASE call[c].op = "token" /\ Stored \notin provider.expired
  <2>1. Goes(c, "verify", Stored)
    BY <1>6 DEF Loads
  <2>2. call'[c].at = "verify" /\ call'[c].op = "token"
    BY <1>1, <1>2, <1>6, <2>1, GoesOn DEF BaseInv
  <2>3. Kempt
    BY <1>1, <1>6 DEF Ready, Replaces
  <2>4. history'.out = history.out
    BY <1>6 DEF SignsIn
  <2>5. Kempt'
    BY <1>1, <2>3, <2>4 DEF Kempt
  <2>6. ~Changes(call'[c])
    BY <2>2 DEF Changes
  <2> QED
    BY <1>1, <1>3, <2>4, <2>5, <2>6 DEF Ready
<1>7. CASE call[c].op = "restore" /\ Stored \notin provider.expired
  <2>1. Returns(c)
    BY <1>7 DEF Loads
  <2>2. call'[c] = Idle /\ ~Changes(call'[c])
    BY <2>1, ReturnsIdle DEF BaseInv, Changes, Idle
  <2>3. Kempt
    BY <1>1, <1>7 DEF Ready, Replaces
  <2>4. SignsIn(c) => file.pair # NoTokens
    BY <1>1 DEF SignsIn, Stored
  <2>5. history'.out = history.out
    BY <2>3, <2>4 DEF Kempt
  <2>6. Kempt'
    BY <1>1, <2>3, <2>5 DEF Kempt
  <2> QED
    BY <1>1, <1>3, <2>2, <2>5, <2>6 DEF Ready
<1> QED
  BY <1>1, <1>4, <1>5, <1>6, <1>7

\* The file is truncated for a call that has good tokens for it, or none; a
\* sign-in that may not be stored leaves it.
LEMMA TruncatesReady ==
    ASSUME BaseInv, NEW c \in Call, StageFits(call[c]), Ready(c), Truncates(c),
           history'.out = (history.out /\ ~SignsIn(c)), history.out \in BOOLEAN
    PROVE  Ready(c)'
<1>1. /\ call[c].at \in {"save", "clear"} /\ call[c].at \in Stage /\ Changes(call[c])
      /\ UNCHANGED <<provider, encryption>>
  BY DEF Truncates, Stage, Changes
<1>2. Prepared(call[c]) /\ (~encryption => file.pair = NoTokens) /\ {"writing", "clearing"} \subseteq Stage
  BY <1>1 DEF Ready, Stage
<1>3. ~SignsIn(c) /\ history'.out = history.out
  BY <1>1 DEF SignsIn
<1>4. CASE call[c].at = "save" /\ ~encryption
  <2>1. call[c].op \in {"password", "google"}
    BY <1>2, <1>4 DEF Prepared, StageFits
  <2>2. Returns(c) /\ file' = file
    BY <1>4, <2>1 DEF Truncates, Refuses
  <2>3. Kempt
    BY <1>4, <2>1 DEF Ready, Replaces
  <2>4. Kempt'
    BY <1>1, <1>3, <2>2, <2>3 DEF Kempt
  <2>5. ~Changes(call'[c])
    BY <2>2, ReturnsIdle DEF BaseInv, Changes, Idle
  <2> QED
    BY <1>1, <1>2, <2>2, <2>4, <2>5 DEF Ready
<1>5. CASE call[c].at = "save" /\ encryption
  <2>1. Goes(c, "writing", call[c].pair) /\ file'.torn = TRUE
    BY <1>5, PairIs DEF Truncates
  <2>2. call'[c].at = "writing" /\ call'[c].op = call[c].op /\ call'[c].pair = call[c].pair
    BY <1>1, <1>2, <2>1, GoesOn DEF BaseInv
  <2>3. Prepared(call[c])' /\ Replaces(call[c])'
    BY <1>1, <1>2, <1>3, <1>5, <2>1, <2>2 DEF Prepared, Replaces
  <2> QED
    BY <1>1, <1>5, <2>3 DEF Ready
<1>6. CASE call[c].at = "clear"
  <2>1. Goes(c, "clearing", call[c].pair) /\ file'.torn = TRUE /\ file'.pair = file.pair
    BY <1>6, PairIs DEF Truncates
  <2>2. call'[c].at = "clearing" /\ call'[c].op = call[c].op /\ call[c].op = "signout"
    BY <1>1, <1>2, <1>6, <2>1, GoesOn DEF BaseInv, Prepared
  <2>3. Prepared(call[c])' /\ Replaces(call[c])'
    BY <1>2, <1>3, <2>1, <2>2 DEF Prepared, Replaces
  <2> QED
    BY <1>1, <1>2, <2>1, <2>3 DEF Ready
<1> QED
  BY <1>1, <1>4, <1>5, <1>6

\* What a call has written it leaves: good tokens of whoever signed in, or none.
LEMMA WritesReady ==
    ASSUME BaseInv, NEW c \in Call, StageFits(call[c]), Ready(c), Writes(c),
           history'.out = (history.out /\ ~SignsIn(c)), history.out \in BOOLEAN
    PROVE  Ready(c)'
<1>1. /\ call[c].at \in {"writing", "clearing"} /\ call[c].at \in Stage /\ Changes(call[c])
      /\ UNCHANGED <<provider, encryption, faults>> /\ "verify" \in Stage
  BY DEF Writes, Stage, Changes
<1>2. Prepared(call[c])
  BY <1>1 DEF Ready
<1>3. file' = [pair |-> call[c].pair, torn |-> FALSE] /\ file'.pair = call[c].pair
  BY <1>1, <1>2 DEF Writes, Prepared
<1>4. /\ call[c].op = "token" => call'[c].at = "verify" /\ call'[c].op = "token"
      /\ call[c].op # "token" => call'[c] = Idle
  BY <1>1, GoesOn, ReturnsIdle DEF BaseInv, Writes, Done
<1>5. ~Changes(call'[c])
  BY <1>4 DEF Changes, Idle
<1>6. CASE call[c].at = "writing"
  <2>1. call[c].op \in {"restore", "token", "password", "google"}
    BY <1>6 DEF StageFits
  <2>2. ~history'.out
    BY <1>1, <1>2, <1>4, <1>6, <2>1 DEF Prepared, SignsIn
  <2>3. /\ call[c].pair # NoTokens /\ call[c].pair \in provider.good /\ encryption
    BY <1>2, <1>6 DEF Prepared
  <2>4. Kempt'
    BY <1>1, <1>3, <2>2, <2>3 DEF Kempt
  <2> QED
    BY <1>1, <1>5, <2>3, <2>4 DEF Ready
<1>7. CASE call[c].at = "clearing"
  <2>1. call[c].op = "signout" /\ call[c].pair = 0
    BY <1>2, <1>7 DEF Prepared, StageFits
  <2>2. history'.out
    BY <1>2, <2>1 DEF Prepared, SignsIn
  <2>3. Kempt'
    BY <1>3, <2>1, <2>2 DEF Kempt, NoTokens
  <2> QED
    BY <1>1, <1>3, <1>5, <2>1, <2>3 DEF Ready, NoTokens
<1> QED
  BY <1>1, <1>6, <1>7

-----------------------------------------------------------------------------
(* The stages *)

\* A call that goes on is still the operation it was, at a stage of it.
LEMMA AuthStepStages ==
    ASSUME BaseInv, NEW c \in Call, StageFits(call[c]), AuthStep(c)
    PROVE  StageFits(call'[c]) /\ (call'[c] = Idle \/ call'[c].op = call[c].op)
<1>1. StageFits(Idle)
  BY DEF StageFits, Idle, Backend
<1>2. Returns(c) => StageFits(call'[c]) /\ call'[c] = Idle
  BY <1>1, ReturnsIdle DEF BaseInv
<1>3. ASSUME NEW at \in Stage, NEW pair, Goes(c, at, pair), call[c].at \in Stage
      PROVE  call'[c].at = at /\ call'[c].pair = pair /\ call'[c].op = call[c].op
  BY <1>3, GoesOn DEF BaseInv
<1>4. /\ {"clear", "save", "refresh", "endsession", "verify", "writing", "clearing", "redirect",
          "exchange"} \subseteq Stage
      /\ NoTokens = 0
  BY DEF Stage, NoTokens
<1>5. CASE RefreshAnswered(c) \/ SignInAnswered(c) \/ ProviderLost(c)
  <2>1. /\ call[c].at \in {"refresh", "password", "exchange", "endsession"} /\ call[c].at \in Stage
        /\ \/ Returns(c)
           \/ Goes(c, "clear", 0) /\ call[c].at \in {"refresh", "endsession"}
           \/ call[c].at \in {"refresh", "password", "exchange"} /\ Goes(c, "save", Len(provider.owner) + 1)
    BY <1>4, <1>5 DEF RefreshAnswered, SignInAnswered, ProviderLost, Issue, Rejected, Stage
  <2> QED
    BY <1>2, <1>3, <1>4, <2>1 DEF StageFits, Backend
<1>6. CASE Listens(c) \/ Redirected(c) \/ SessionEnded(c)
  <2>1. /\ call[c].at \in {"listen", "redirect", "endsession"} /\ call[c].at \in Stage
        /\ \/ Returns(c)
           \/ \E at \in {"redirect", "exchange"} : call[c].at # "endsession" /\ Goes(c, at, 0)
           \/ call[c].at = "endsession" /\ Goes(c, "clear", 0)
    BY <1>4, <1>6 DEF Listens, Redirected, SessionEnded, Stage
  <2> QED
    BY <1>2, <1>3, <1>4, <2>1 DEF StageFits, Backend
<1>7. CASE Loads(c)
  <2>1. /\ call[c].at = "load" /\ call[c].at \in Stage
        /\ \/ Returns(c)
           \/ \E at \in {"clear", "endsession"} : call[c].op = "signout" /\ Goes(c, at, 0)
           \/ call[c].op # "signout" /\ Goes(c, "refresh", Stored)
           \/ call[c].op = "token" /\ Goes(c, "verify", Stored)
    BY <1>4, <1>7 DEF Loads, Stage
  <2> QED
    BY <1>2, <1>3, <1>4, <2>1 DEF StageFits, Backend
<1>8. CASE Truncates(c) \/ Writes(c) \/ WriteFails(c)
  <2>1. /\ call[c].at \in {"save", "clear", "writing", "clearing"} /\ call[c].at \in Stage
        /\ \/ Returns(c)
           \/ call[c].op \notin {"password", "google"} /\ Goes(c, "clear", 0)
           \/ call[c].at = "save" /\ Goes(c, "writing", call[c].pair)
           \/ call[c].at = "clear" /\ Goes(c, "clearing", call[c].pair)
           \/ call[c].op = "token" /\ Goes(c, "verify", call[c].pair)
    BY <1>4, <1>8 DEF Truncates, Writes, WriteFails, Refuses, Done, Stage
  <2> QED
    BY <1>2, <1>3, <1>4, <2>1 DEF StageFits, Backend
<1> QED
  BY <1>5, <1>6, <1>7, <1>8 DEF AuthStep

-----------------------------------------------------------------------------
(* Every step *)

\* A step of one call that is at the backend before and after, or begins or
\* ends elsewhere, is told apart from a call that is away.
LEMMA AuthStepNotAway ==
    ASSUME NEW c \in Call, AuthStep(c)
    PROVE  ~Away(call[c])
BY DEF AuthStep, RefreshAnswered, SignInAnswered, ProviderLost, Listens, Redirected,
       SessionEnded, Loads, Truncates, Writes, WriteFails, Away, Backend

\* A restore is no call of the backend, and is one.
LEMMA RestoresAreHere ==
    ASSUME RestoreInv, NEW c \in Call, call[c].op = "restore"
    PROVE  ~Away(call[c])
BY DEF RestoreInv, StageFits, Away

\* A step of the AuthManager: the app goes on to another screen when the restore ends.
LEMMA ActsRestores ==
    ASSUME KeptInv, NEW c \in Call, Acts(c)
    PROVE  RestoreInv'
<1>1. /\ RestoreInv /\ BaseInv /\ AuthStep(c)
      /\ DOMAIN history = {"launches", "calls", "out", "broken", "raced"}
  BY DEF KeptInv, TidyInv, SignInInv, FlagInv, Acts
<1>2. Only(c) /\ StageFits(call[c]) /\ ~Away(call[c])
  BY <1>1, AuthStepKeeps, AuthStepNotAway DEF Kept, Aside, RestoreInv
<1>3. StageFits(call'[c]) /\ (call'[c] = Idle \/ call'[c].op = call[c].op)
  BY <1>1, <1>2, AuthStepStages
<1>4. \A d \in Call \ {c} : call'[d] = call[d]
  BY <1>2 DEF Only
<1>5. \A d \in Call : StageFits(call'[d])
  BY <1>1, <1>3, <1>4 DEF RestoreInv
<1>6. history'.calls = history.calls
  BY <1>1 DEF Acts
<1> DEFINE done == call[c].op \in {"restore", "password", "google"} /\ call'[c] = Idle
           ok == \/ call[c].at = "writing" /\ UNCHANGED faults
                 \/ call[c].at = "load" /\ Stored # NoTokens
<1>7. screen' = CASE done /\ ok -> "ready"
                  [] done /\ ~ok /\ call[c].op = "restore" -> "auth"
                  [] OTHER -> screen
  BY DEF Acts
<1> HIDE DEF ok
<1>8. /\ screen' = "loading" => screen = "loading"
      /\ call[c].op = "restore" /\ call'[c] = Idle => screen' # "loading"
      /\ call[c].op = "restore" /\ call'[c] # Idle => screen' = screen
  BY <1>7
<1> HIDE DEF done
<1>9. ~(screen' = "loading" /\ history'.calls = 0)
  BY <1>1, <1>2, <1>6, <1>8 DEF RestoreInv
<1>10. ASSUME NEW d \in Call, call'[d].op = "restore"
       PROVE  /\ screen' = "loading" /\ history'.calls # 0
              /\ \A e \in Call \ {d} : Away(call'[e])
  <2>1. CASE d = c
    <3>1. call'[c] # Idle /\ call[c].op = "restore"
      BY <1>3, <1>10, <2>1 DEF Idle
    <3> QED
      BY <1>1, <1>4, <1>6, <1>8, <2>1, <3>1 DEF RestoreInv
  <2>2. CASE d # c
    BY <1>1, <1>2, <1>4, <1>10, <2>2 DEF RestoreInv
  <2> QED
    BY <2>1, <2>2
<1> QED
  BY <1>1, <1>5, <1>6, <1>9, <1>10 DEF RestoreInv

\* What is known of two calls that cross, after a step
LEMMA Crossing ==
    ASSUME NEW calls, Become(calls), crossed \in BOOLEAN
    PROVE  /\ crossed' \in BOOLEAN
           /\ ~crossed' => /\ ~crossed
                           /\ \A c, d \in Call : Changes(call'[c]) /\ Changes(call'[d]) => c = d
BY DEF Become

\* Every step of the AuthManager notices a crossing.
LEMMA AuthStepCrossing ==
    ASSUME NEW c \in Call, AuthStep(c), crossed \in BOOLEAN
    PROVE  /\ crossed' \in BOOLEAN
           /\ ~crossed' => /\ ~crossed
                           /\ \A d, e \in Call : Changes(call'[d]) /\ Changes(call'[e]) => d = e
<1>1. Returns(c) \/ \E at, pair : Goes(c, at, pair)
  BY DEF AuthStep, RefreshAnswered, SignInAnswered, ProviderLost, Listens, Redirected,
         SessionEnded, Loads, Truncates, Writes, WriteFails, Issue, Rejected, Refuses, Done
<1>2. \E calls : Become(calls)
  BY <1>1 DEF Returns, Goes
<1> QED
  BY <1>2, Crossing

\* A sign-in that fails leaves the tokens alone.
LEMMA SignInQuiet ==
    ASSUME NEW c \in Call, SignInAnswered(c), ~Changes(call'[c]), BaseInv
    PROVE  UNCHANGED <<file, provider, encryption>>
<1>1. ~Issue(c, call[c].who, {})
  <2> SUFFICES ASSUME Issue(c, call[c].who, {}) PROVE FALSE
    OBVIOUS
  <2>1. Goes(c, "save", Len(provider.owner) + 1) /\ call[c].at \in Stage /\ "save" \in Stage
    BY DEF Issue, SignInAnswered, Stage
  <2>2. call'[c].at = "save"
    BY <2>1, GoesOn DEF BaseInv
  <2> QED
    BY <2>2 DEF Changes
<1> QED
  BY <1>1 DEF SignInAnswered

\* A step that changes no tokens leaves them alone.
LEMMA AuthStepQuiet ==
    ASSUME BaseInv, NEW c \in Call, AuthStep(c), faults' = faults,
           ~Changes(call[c]), ~Changes(call'[c])
    PROVE  UNCHANGED <<file, provider, encryption>>
<1>1. ~ProviderLost(c) /\ ~WriteFails(c)
  BY BaseFacts DEF ProviderLost, WriteFails, Fault
<1>2. ~RefreshAnswered(c) /\ ~SessionEnded(c) /\ ~Truncates(c) /\ ~Writes(c)
  BY DEF RefreshAnswered, SessionEnded, Truncates, Writes, Changes
<1>3. CASE SignInAnswered(c)
  BY <1>3, SignInQuiet
<1>4. CASE Listens(c) \/ Redirected(c) \/ Loads(c)
  BY <1>4 DEF Listens, Redirected, Loads
<1> QED
  BY <1>1, <1>2, <1>3, <1>4 DEF AuthStep

\* A step of the AuthManager without a fault leaves its own call ready.
LEMMA AuthStepReady ==
    ASSUME BaseInv, NEW c \in Call, StageFits(call[c]), Ready(c), AuthStep(c),
           faults' = faults, history'.out = (history.out /\ ~SignsIn(c)),
           history.out \in BOOLEAN
    PROVE  Ready(c)'
<1>1. ~ProviderLost(c) /\ ~WriteFails(c)
  BY BaseFacts DEF ProviderLost, WriteFails, Fault
<1> QED
  BY <1>1, RefreshReady, SignInReady, SessionEndedReady, ListenerReady, LoadsReady,
     TruncatesReady, WritesReady DEF AuthStep

\* Who signs in without changing the tokens is signed in already: a restore
\* finds them stored, while nobody else is at them.
LEMMA SignedInAlready ==
    ASSUME RestoreInv, Core, NEW c \in Call, ~Changes(call[c]), SignsIn(c)
    PROVE  ~history.out
<1>1. call[c].op = "restore" /\ file.pair # NoTokens
  BY DEF SignsIn, RestoreInv, StageFits, Changes, Stored
<1>2. \A d \in Call \ {c} : Away(call[d]) /\ StageFits(call[d])
  BY <1>1 DEF RestoreInv
<1>3. \A d \in Call \ {c} : ~Replaces(call[d])
  BY <1>2 DEF Away, StageFits, Replaces, Backend
<1>4. ~Replaces(call[c])
  BY ReplacesChanges
<1> QED
  BY <1>1, <1>3, <1>4 DEF Core, Kempt

\* A step of the AuthManager keeps what is known of the stored tokens.
LEMMA ActsStored ==
    ASSUME KeptInv, NEW c \in Call, Acts(c)
    PROVE  StoredInv'
<1>1. /\ RestoreInv /\ BaseInv /\ AuthStep(c) /\ StageFits(call[c])
      /\ StoredInv /\ history.broken \in BOOLEAN
      /\ DOMAIN history = {"launches", "calls", "out", "broken", "raced"}
  BY DEF KeptInv, TidyInv, FileInv, SignInInv, FlagInv, Acts, RestoreInv
<1>2. /\ history'.out = (history.out /\ ~SignsIn(c))
      /\ history'.broken = (history.broken \/ faults' # faults)
  BY <1>1 DEF Acts, SignsIn
<1>3. history.out \in BOOLEAN /\ crossed \in BOOLEAN
  BY <1>1 DEF StoredInv
<1>4. Only(c)
  BY <1>1, AuthStepKeeps DEF Kept, Aside
<1> SUFFICES ASSUME ~crossed', ~history'.broken PROVE Core'
  BY <1>1, <1>2, <1>3, AuthStepCrossing DEF StoredInv
<1>5. /\ ~crossed /\ faults' = faults /\ ~history.broken
      /\ \A d, e \in Call : Changes(call'[d]) /\ Changes(call'[e]) => d = e
  BY <1>1, <1>2, <1>3, AuthStepCrossing
<1>6. Core
  BY <1>1, <1>5 DEF StoredInv
<1>7. CASE Changes(call[c]) \/ Changes(call'[c])
  <2>1. Ready(c) /\ \A d \in Call \ {c} : ~Changes(call'[d])
    BY <1>4, <1>5, <1>6, <1>7, AloneReady
  <2>2. Ready(c)'
    BY <1>1, <1>2, <1>3, <1>5, <2>1, AuthStepReady
  <2> QED
    BY <2>1, <2>2, AloneKept
<1>8. CASE ~Changes(call[c]) /\ ~Changes(call'[c])
  <2>1. UNCHANGED <<file, provider, encryption>>
    BY <1>1, <1>5, <1>8, AuthStepQuiet
  <2>2. history'.out = history.out
    BY <1>1, <1>2, <1>3, <1>6, <1>8, SignedInAlready
  <2> QED
    BY <1>4, <1>6, <1>8, <2>1, <2>2, QuietKept
<1> QED
  BY <1>7, <1>8

\* A call that begins: a sign-out is alone with the tokens, or has crossed
\* another call; the rest change none yet.
LEMMA AsksKept ==
    ASSUME KeptInv, NEW c \in Call, Restore(c) \/ SignIn(c) \/ Fetch(c) \/ SignOut(c)
    PROVE  RestoreInv' /\ StoredInv'
<1>1. PICK op \in Operation, who \in Identity \cup {Nobody} :
         /\ Asks(c, op, who)
         /\ op \in {"password", "google"} => who \in Identity
         /\ op = "restore" => screen = "loading" /\ history.calls = 0
         /\ op # "restore" => screen # "loading"
  BY DEF Restore, SignIn, Fetch, SignOut, Operation
<1>2. /\ RestoreInv /\ StoredInv /\ BaseInv /\ history.broken \in BOOLEAN
      /\ DOMAIN history = {"launches", "calls", "out", "broken", "raced"}
  BY DEF KeptInv, TidyInv, FileInv, SignInInv, FlagInv
<1> DEFINE at == CASE op \in {"restore", "token", "signout"} -> "load"
                   [] op = "password" -> "password"
                   [] op = "google" -> "listen"
           new == [op |-> op, at |-> at, pair |-> NoTokens, who |-> who]
<1>3. /\ op \in {"restore", "token", "signout"} => at = "load"
      /\ op = "password" => at = "password"
      /\ op = "google" => at = "listen"
  OBVIOUS
<1> HIDE DEF at
<1>4. new.op = op /\ new.at = at
  OBVIOUS
<1>5. Become([call EXCEPT ![c] = new]) /\ call[c].op = "none"
      /\ UNCHANGED <<file, provider, encryption, screen>>
  BY <1>1 DEF Asks, Begins, InFlight, at
<1> HIDE DEF new
<1>6. Only(c) /\ call'[c] = new /\ call' = [call EXCEPT ![c] = new]
  BY <1>2, <1>5 DEF Become, Only, BaseInv, ShapeInv
<1>7. \A d \in Call \ {c} : call'[d] = call[d]
  BY <1>6 DEF Only
<1>8. /\ history'.calls = history.calls + 1 /\ history'.broken = history.broken
      /\ history'.out = (history.out \/ op = "signout")
  BY <1>1, <1>2 DEF Asks
<1>9. StageFits(new)
  BY <1>3, <1>4 DEF StageFits, Operation, Backend
<1>10. \A d \in Call : StageFits(call'[d])
  BY <1>2, <1>6, <1>7, <1>9 DEF RestoreInv
<1>11. history'.calls \in Nat /\ history'.calls # 0
  BY <1>2, <1>8 DEF RestoreInv
<1>12. ASSUME NEW d \in Call, call'[d].op = "restore"
       PROVE  screen' = "loading" /\ \A e \in Call \ {d} : Away(call'[e])
  <2>1. CASE d = c
    <3>1. screen = "loading" /\ history.calls = 0
      BY <1>1, <1>4, <1>6, <1>12, <2>1
    <3>2. \A e \in Call : Away(call[e])
      BY <1>2, <3>1 DEF RestoreInv
    <3> QED
      BY <1>5, <1>7, <2>1, <3>1, <3>2
  <2>2. CASE d # c
    <3>1. call[d].op = "restore"
      BY <1>7, <1>12, <2>2
    <3>2. screen = "loading" /\ history.calls # 0
      BY <1>2, <3>1 DEF RestoreInv
    <3> QED
      BY <1>1, <3>2
  <2> QED
    BY <2>1, <2>2
<1>13. RestoreInv'
  BY <1>10, <1>11, <1>12 DEF RestoreInv
<1>14. history'.out \in BOOLEAN /\ crossed' \in BOOLEAN
  BY <1>2, <1>5, <1>8, Crossing DEF StoredInv
<1>15. ASSUME ~crossed', ~history'.broken PROVE Core'
  <2>1. /\ ~crossed /\ Core
        /\ \A d, e \in Call : Changes(call'[d]) /\ Changes(call'[e]) => d = e
    BY <1>2, <1>5, <1>8, <1>15, Crossing DEF StoredInv
  <2>2. call[c].at = "idle" /\ ~Changes(call[c])
    BY <1>2, <1>5 DEF RestoreInv, StageFits, Changes
  <2>3. CASE op = "signout"
    <3>1. Changes(call'[c])
      BY <1>4, <1>6, <2>3 DEF Changes
    <3>2. Ready(c) /\ \A d \in Call \ {c} : ~Changes(call'[d])
      BY <1>6, <2>1, <3>1, AloneReady
    <3>3. call'[c].op = "signout" /\ call'[c].at = "load"
      BY <1>3, <1>4, <1>6, <2>3
    <3>4. Prepared(call[c])' /\ Replaces(call[c])'
      BY <1>8, <2>3, <3>3 DEF Prepared, Replaces
    <3>5. Ready(c)'
      BY <1>5, <3>2, <3>4 DEF Ready
    <3> QED
      BY <3>2, <3>5, AloneKept
  <2>4. CASE op # "signout"
    <3>1. ~Changes(call'[c])
      BY <1>3, <1>4, <1>6, <2>4 DEF Changes, Operation
    <3>2. history'.out = history.out
      BY <1>2, <1>8, <2>4 DEF StoredInv
    <3> QED
      BY <1>5, <1>6, <2>1, <2>2, <3>1, <3>2, QuietKept
  <2> QED
    BY <2>3, <2>4
<1> QED
  BY <1>13, <1>14, <1>15 DEF StoredInv

\* The backend changes no tokens.
LEMMA BackendKept ==
    ASSUME KeptInv, NEW c \in Call,
           Verify(c) \/ Provision(c) \/ Bootstrap(c) \/ RequestFails(c)
    PROVE  RestoreInv' /\ StoredInv'
<1>1. /\ RestoreInv /\ StoredInv /\ BaseInv /\ history.broken \in BOOLEAN
      /\ DOMAIN history = {"launches", "calls", "out", "broken", "raced"}
  BY DEF KeptInv, TidyInv, FileInv, SignInInv, FlagInv
<1>2. /\ call[c].at \in Backend /\ call[c].at \in Stage
      /\ UNCHANGED <<file, provider, encryption, screen>>
  BY DEF Verify, Provision, Bootstrap, RequestFails, BackendStep, Backend, Stage
<1>3. /\ history'.out = history.out /\ history'.broken = history.broken
      /\ history'.calls = history.calls
  BY <1>1 DEF Verify, Provision, Bootstrap, RequestFails
<1>4. Returns(c) \/ \E at \in Backend : Goes(c, at, call[c].pair)
  BY DEF Verify, Provision, Bootstrap, RequestFails, Backend
<1>5. /\ Only(c) /\ call[c].op = "token"
      /\ call'[c] = Idle \/ (call'[c].op = "token" /\ call'[c].at \in Backend)
  <2>1. call[c].op = "token" /\ Backend \subseteq Stage
    BY <1>1, <1>2 DEF RestoreInv, StageFits, Backend, Stage
  <2> QED
    BY <1>1, <1>2, <1>4, <2>1, GoesOn, ReturnsIdle DEF BaseInv
<1>6. \E calls : Become(calls)
  BY <1>4 DEF Returns, Goes
<1>7. /\ StageFits(call'[c]) /\ Away(call'[c]) /\ call'[c].op # "restore"
      /\ ~Changes(call[c]) /\ ~Changes(call'[c])
  BY <1>2, <1>5 DEF StageFits, Away, Changes, Backend, Idle
<1>8. \A d \in Call \ {c} : call'[d] = call[d]
  BY <1>5 DEF Only
<1>9. RestoreInv'
  BY <1>1, <1>2, <1>3, <1>7, <1>8 DEF RestoreInv
<1>10. crossed' \in BOOLEAN /\ (~crossed' => ~crossed)
  BY <1>1, <1>6, Crossing DEF StoredInv
<1>11. Core => Core'
  BY <1>2, <1>3, <1>5, <1>7, QuietKept
<1> QED
  BY <1>1, <1>3, <1>9, <1>10, <1>11 DEF StoredInv

\* A launch that cuts nobody off leaves the tokens as they are.
LEMMA RelaunchKept ==
    ASSUME KeptInv, Relaunch
    PROVE  RestoreInv' /\ StoredInv'
<1>1. /\ RestoreInv /\ StoredInv /\ history.broken \in BOOLEAN
      /\ DOMAIN history = {"launches", "calls", "out", "broken", "raced"}
  BY DEF KeptInv, TidyInv, FileInv, SignInInv, FlagInv
<1>2. /\ \A c \in Call : call'[c] = IF call[c].at \in Backend THEN call[c] ELSE Idle
      /\ UNCHANGED <<file, provider, encryption, crossed>>
      /\ history'.calls = 0 /\ history'.out = history.out
      /\ history'.broken = (history.broken \/ ~Settled)
  BY <1>1 DEF Relaunch
<1>3. \A c \in Call : /\ StageFits(call[c])
                      /\ call[c].at \in Backend => call[c].op = "token"
  BY <1>1 DEF RestoreInv, StageFits
<1>4. StageFits(Idle) /\ Away(Idle) /\ Idle.op = "none" /\ ~Changes(Idle)
  BY DEF StageFits, Away, Idle, Backend, Changes
<1>5. \A c \in Call : /\ StageFits(call'[c]) /\ Away(call'[c]) /\ call'[c].op # "restore"
                      /\ ~Changes(call'[c])
  <2> SUFFICES ASSUME NEW c \in Call
               PROVE  /\ StageFits(call'[c]) /\ Away(call'[c]) /\ call'[c].op # "restore"
                      /\ ~Changes(call'[c])
    OBVIOUS
  <2>1. CASE call[c].at \in Backend
    <3>1. call'[c] = call[c] /\ call[c].op = "token"
      BY <1>2, <1>3, <2>1
    <3> QED
      BY <1>3, <2>1, <3>1 DEF Away, Changes, Backend
  <2>2. CASE call[c].at \notin Backend
    BY <1>2, <1>4, <2>2
  <2> QED
    BY <2>1, <2>2
<1>6. RestoreInv'
  BY <1>2, <1>5 DEF RestoreInv
<1>7. ASSUME ~crossed', ~history'.broken PROVE Core'
  <2>1. Core /\ Settled
    BY <1>1, <1>2, <1>7 DEF StoredInv
  <2>2. \A c \in Call : ~Replaces(call[c]) /\ ~Replaces(call'[c])
    BY <1>5, <2>1, ReplacesChanges DEF Settled
  <2>3. Kempt /\ (~encryption => file.pair = NoTokens)
    BY <2>1, <2>2 DEF Core
  <2>4. Kempt'
    BY <1>2, <2>3 DEF Kempt
  <2> QED
    BY <1>2, <1>5, <2>3, <2>4 DEF Core
<1> QED
  BY <1>1, <1>2, <1>6, <1>7 DEF StoredInv, Settled

\* Nothing that the tokens or the screens depend on changes.
LEMMA AsideKept ==
    ASSUME KeptInv, UNCHANGED <<file, encryption, call, crossed, screen>>,
           provider'.good = provider.good, history'.calls = history.calls,
           history'.out = history.out, history'.broken = history.broken
    PROVE  RestoreInv' /\ StoredInv'
<1>1. RestoreInv'
  BY DEF KeptInv, RestoreInv
<1>2. Kempt => Kempt'
  BY DEF Kempt
<1>3. \A c \in Call : Prepared(call[c]) => Prepared(call[c])'
  BY DEF Prepared
<1>4. Core => Core'
  BY <1>2, <1>3 DEF Core
<1> QED
  BY <1>1, <1>4 DEF KeptInv, StoredInv

\* At first nobody is signed in and nothing is stored.
LEMMA InitKept == SignInInit => KeptInv
<1> SUFFICES ASSUME SignInInit PROVE KeptInv
  OBVIOUS
<1>1. /\ \A c \in Call : call[c] = Idle
      /\ history.calls = 0 /\ history.out = TRUE /\ file.pair = NoTokens /\ crossed = FALSE
  BY DEF SignInInit, AuthInit
<1>2. StageFits(Idle) /\ Away(Idle) /\ Idle.op = "none" /\ ~Changes(Idle)
  BY DEF StageFits, Away, Idle, Backend, Changes
<1>3. RestoreInv
  BY <1>1, <1>2 DEF RestoreInv
<1>4. StoredInv
  BY <1>1, <1>2 DEF StoredInv, Core, Kempt
<1> QED
  BY <1>3, <1>4, InitTidy DEF KeptInv

\* Every step keeps what is known of the stored tokens.
LEMMA NextKept == KeptInv /\ [Next]_vars => KeptInv'
<1> SUFFICES ASSUME KeptInv, [Next]_vars PROVE RestoreInv' /\ StoredInv'
  BY NextTidy DEF KeptInv
<1>1. /\ DOMAIN history = {"launches", "calls", "out", "broken", "raced"}
      /\ DOMAIN provider = {"owner", "good", "expired"}
  BY BaseFacts DEF KeptInv, TidyInv, SignInInv, FlagInv
<1>2. CASE Expires /\ UNCHANGED <<screen, accounts, decided, history>>
  BY <1>1, <1>2, AsideKept DEF Expires
<1>3. CASE OwnerSets
  <2>1. /\ UNCHANGED <<authVars, screen>> /\ history'.calls = history.calls
        /\ history'.out = history.out /\ history'.broken = history.broken
    BY <1>1, <1>3 DEF OwnerSets
  <2> QED
    BY <2>1, AsideKept DEF authVars
<1>4. CASE UNCHANGED vars
  BY <1>4, AsideKept DEF vars, authVars
<1> QED
  BY <1>2, <1>3, <1>4, ActsRestores, ActsStored, AsksKept, BackendKept, RelaunchKept DEF Next

\* Nobody is changing the tokens: what they are is known.
LEMMA UndisturbedIsKempt == KeptInv /\ Undisturbed => Kempt
BY ReplacesChanges DEF KeptInv, StoredInv, Core, Undisturbed, Settled

\* StoredTokenIsGood, of authManager.ts's restore, getValidAccessToken, signIn and
\* signOut over electronSecureStore.ts: whatever calls have refreshed, replaced or
\* cleared the tokens, the refresh token in the file can be used once more, unless
\* two calls crossed or something broke while the tokens were being changed.
THEOREM StoredTokenAlwaysGood == Spec => []StoredTokenIsGood
<1>1. SignInInit => KeptInv
  BY InitKept
<1>2. KeptInv /\ [Next]_vars => KeptInv'
  BY NextKept
<1>3. KeptInv => StoredTokenIsGood
  BY UndisturbedIsKempt DEF Kempt, StoredTokenIsGood
<1> QED
  BY <1>1, <1>2, <1>3, PTL DEF Spec

\* StoredWhileSignedIn, of the same calls and the screens that make them: under
\* the same exceptions tokens are stored exactly while the user is signed in, so
\* nobody loses a sign-in and no refresh undoes a sign-out.
THEOREM SignInAlwaysStored == Spec => []StoredWhileSignedIn
<1>1. SignInInit => KeptInv
  BY InitKept
<1>2. KeptInv /\ [Next]_vars => KeptInv'
  BY NextKept
<1>3. KeptInv => StoredWhileSignedIn
  BY UndisturbedIsKempt DEF Kempt, StoredWhileSignedIn
<1> QED
  BY <1>1, <1>2, <1>3, PTL DEF Spec
=============================================================================
