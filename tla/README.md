# Interview Assistant in TLA+

TLA+ models of the interview assistant in this repository, the TLC
configurations that check them on small instances, and theorems about them that
TLAPS proves for all instances. All paths below are relative to the root of the repository.

## 1. The system

A desktop app (Electron: main process and renderer) streams microphone and
system audio over a WebSocket to a backend (Node, Postgres). The backend
transcribes it, finds questions, generates answers with an LLM and streams them
back. Sessions are metered (seconds of speech, tokens of answers) and paid for
with credits kept in an append-only ledger.

    renderer <-IPC-> app controller - session client <=WebSocket=> gateway connection
                                                                    |- STT relay -> provider
                                                                    |- orchestrator -> LLM provider
                                                                    |- credits service
                                                                    '- repositories -> Postgres
    HTTP API ------------------------------------------------------- repositories

| Component (source) | State | Operations | What makes it correct |
|---|---|---|---|
| Credits service (`packages/backend/credits/creditsService.ts`, `packages/shared/credits.ts`) | none of its own; the tables | `recordUsage`, `finalizeSession`, `preSessionCheck`, `liveBalance`, `isExhausted` | a session is debited exactly once, for its usage; balances move for no other reason |
| Repositories, schema (`packages/backend/repos`, `packages/backend/db`) | sessions, usage, ledger, Q&A entries, accounts, profiles | one SQL statement per call | keys, unique indexes and delete rules hold the ledger together |
| Session gateway (`packages/backend/session/sessionGateway.ts`) | per connection: account, session, orchestrator, relay, `finalizing` | messages, audio, close event, callbacks of relay and orchestrator | each session ends once, is billed for what was metered, the client is told the truth |
| Orchestrator (`packages/backend/session/sessionOrchestrator.ts`) | current and pending question, generation sequence, memory, exhausted | questions, answer, regenerate, toggles, `checkCredits` | the latest request wins; transcript and memory hold what was shown |
| Session client (`packages/desktop/main/backendSessionClient.ts`) | socket, connected, attempts, timer, queue, desired session, settings | start, stop, settings, socket events, reconnect | auth first, one connection, the interview survives breaks |
| App controller, renderer (`packages/desktop/main/appController.ts`, `packages/desktop/renderer/App.tsx`) | screen, collapsed, session client per environment | IPC handlers, `session_ended` | the screen follows the session |
| Answer card (`packages/desktop/renderer/Overlay.tsx`) | question, answer, token batch, toggles | buttons, tokens, completion, frames | it shows one answer, and does not wait unseen for one that is not coming |
| STT relays (`packages/backend/session/sttRelay`) | provider socket, buffer, utterance, unmetered samples | audio, close, provider events | speech is understood in order and once; audio is metered once |
| LLM provider (`packages/backend/session/llmProvider.ts`, `packages/shared/domain/llmResolve.ts`) | the backends it was built with | `generate` raced against a timeout | answers or fails, never both; nothing streams after it |
| Auth verifier (`packages/backend/http/authVerifier.ts`) | accounts | verify, provision, bootstrap | one account per identity, with the flag that was decided |
| Auth manager, token store (`packages/desktop/main/authManager.ts`, `tokenStore.ts`, `electronSecureStore.ts`, `supabaseAuthAdapter.ts`) | the token file, the adapter's client, the loopback listener | restore, sign-ins, refresh, sign-out | tokens are kept while signed in, and good |
| Audio capture (`packages/desktop/renderer/audioCapture.ts`) | streams, graph, voice gate | start, stop, toggles, frames | what is captured is what is shown; speech is sent whole |
| Window manager (`packages/desktop/main/windowManager.ts`) | the window; collapse, click-through | collapse, private mode, hotkeys, moves | the window is as the overlay shows it |
| Configuration (`packages/backend/index.ts`) | none | start-up | selects relay, providers and keys |
| Pure text and geometry (`packages/shared/domain`) | none | topic detection, scope, prompts, geometry | functions of their inputs |

How they interact, and what is hard about it:

- Every `await` in the backend is a point where another handler of the same or
  of another connection runs. `recordUsage` and `finalizeSession` are
  read-then-write over several statements; user stop, exhaustion, close event
  and HTTP deletion meet in the middle of each other.
- A connection handles its control messages one at a time, to the end of each
  handler; audio frames, the socket's close event, provider callbacks, metering
  and credit checks do not queue behind them.
- Many promises are voided. Nothing handles `unhandledRejection`, so a rejected
  one ends the Node process, with every session of it open.
- A statement can fail before it takes effect, or after it (the reply is lost).
- The client awaits the access token inside its `open` handler, after it has
  declared itself connected; user commands, a close event and even a new socket
  fall in between. It replays the session on reconnect and also has a queue.
- Both relays keep speech across an await or a broken connection: Deepgram's
  drops and comes back while audio goes on; several Whisper `finalize` calls
  may await their transcription of the same utterance.
- Renderer and main process talk over IPC: a call takes effect later, an event
  finds the Overlay mounted or not, and both sides keep flags of their own.
- Device requests, token refreshes and browser sign-ins are awaited while the
  user goes on clicking; nothing keeps two of them apart.

`PROJECT.json` lists each of these at its line under `hazards`, with the
properties that would catch it.

## 2. Modules

| Module | Models |
|---|---|
| `CreditsService` | the credits service over its tables, under the most general caller |
| `Settlement` | abstract: what the service promises for each session |
| `CreditsRefinement` | the refinement mapping from the first to the second |
| `CreditsProofs` | theorems about `CreditsService` and its refinement |
| `SessionGateway` | connections, relays' metering, credit checks; EXTENDS `CreditsService` |
| `GatewayProofs` | theorems about `SessionGateway`; EXTENDS `CreditsProofs` |
| `Orchestrator` | one session's questions, generations, memory and transcript |
| `SessionClient` | user, desktop client, sockets and the gateway's end of them |
| `ClientProofs` | theorems about `SessionClient` |
| `SttRelay` | what the relays share: frames, metering, endpointing reducers |
| `DeepgramRelay`, `WhisperRelay` | the two relays; EXTEND `SttRelay` |
| `SpeechRelay` | the relay of a session as configured: one of the two |
| `SpeechProofs` | theorems about `SpeechRelay` |
| `LlmProvider` | the choice of backends and keys; `generate` against its timer |
| `AnswerStream` | overlay, orchestrator and provider composed; EXTENDS `Orchestrator` and `LlmProvider` |
| `OrchestratorProofs` | theorems about `Orchestrator` and `AnswerStream` |
| `AudioCapture` | the renderer's capture objects, device requests, voice gate |
| `CaptureProofs` | theorems about `AudioCapture` |
| `WindowManager` | the window and what the manager remembers of it |
| `Shell` | App and Overlay over the `WindowManager` it EXTENDS, with the IPC between |
| `ShellProofs` | theorems about `Shell` |
| `AuthManager` | the calls of the auth manager, Supabase and the token file |
| `SignIn` | app, `AuthManager` (EXTENDED) and the backend's verifier |
| `SignInProofs` | theorems about `SignIn` |
| `MCCredits`, `MCGateway`, `MCOrchestrator`, `MCStream`, `MCSignIn` | constants and symmetry for TLC |

Common conventions: an async function is cut at its awaits, one action per
stretch between two of them. A record field keeps the local variables that
live across the await (`seen`, `row`, `delta`). Bounds are the constants whose
comment says "bound", and appear only in guards. Operators whose comment starts
with "Mutant:" stand next to the definition they vary and are used by no
specification; each is a plausible bug that a property must catch.

### CreditsService

The tables are variables: `sessions` (function from ids to rows or `NoRow`),
`usage`, `ledger` (a sequence in append order). `calls` holds the calls in flight in a set of slots;
`calls[k].at` is the statement the call awaits.

| Action | Code |
|---|---|
| `RecordUsage`, `UsageGet`, `UsageStored`, `UsageRefused` | `recordUsage`: read, merge, upsert, or the foreign key fails |
| `FinalizeSession`, `SessionGet`, `FinalUsageGet` | `finalizeSession` up to the claim |
| `MarkFinalized`, `AlreadyFinalized` | `UPDATE ... WHERE finalized_at IS NULL` and its row count |
| `AppendDebit`, `DebitRefused` | the ledger insert, with `one_debit_per_session` swallowed |
| `CreateSession`, `DeleteSession` | the inserts and the delete with its cascade and SET NULL |
| `StatementLost`, `Settle`, `UnhandledRejection`, `Crash` | a rejected query, the caller resuming, the process dying |

Queries without side effects (`LedgerBalance`, `LiveBalance`, `IsExhausted`,
`PreSessionAuthorized`) are operators their callers evaluate at their awaits.
History: `minted` (ids are never reused), `recorded` (usage whose call took
effect), `lost` (sessions whose claimed debit met a fault), and `debitOf` in an
entry, which survives deletion of the session.

### SessionGateway

`conn[c]` is a `Connection`: `handler` is where the message being handled waits,
`inbox` the promise chain of messages, `ending` the progress of `finalize`.
`orch[s]` is what relay and orchestrator of a session contribute: samples not
metered yet, generations running, `exhausted`. `task[k]` names what resumes when
the call in slot `k` answers: a metering followed by `checkCredits`, the usage
of a generation, a row of the transcript, or `finalize`. `checkCredits` reads
the ledger and the usage at two different awaits (`CheckLedger`, `CheckUsage`).
`finalize` awaits the relay and then settles *whatever session is current*
(`RelayClosed`), as the code does. The gateway calls the service only with what
the code passes it, through the same actions as `CreditsService`.

History: `owner`, `told`, and `stranded`: the sessions that no `finalize` will
be called for, because a later `start_session` overwrote them, because they were
created after the connection's only `finalize` had read `this.session`, or
because a fault or the death of the process hit them. Properties that name
`stranded` say that these are the *only* ways.

### Orchestrator

`generations[g]` goes from streaming over reading `MAX(seq)` and inserting the
row to the reply. A generation is `voided` if nobody would catch its rejection
(spoken questions, switching auto-generate on). `answers` is the sequence of
`answer_complete` messages. Credits are `SessionGateway`'s; here `Exhaust` may
happen at any time. Coding mode and screenshots share `HandleQuestion`, a
screenshot with the placeholder as its question. History: `since`, the sequence
number the current question found when it came, and `again`, the generations
`regenerate` started; so a property can say which generations a question was handed to
(`Takers`), whatever `hasPending` says.

### SessionClient

`client` is the `BackendSessionClient`; `client.opening` are the sockets whose
`handleOpen` awaits the token. `socket[s]` is both ends of one connection: what
was written, how much of it the gateway has handled, and what the gateway makes
of it, which is `SessionGateway` reduced to what a client can tell (refused,
session running, finalizing, hanging up). A message carries the interview it is
about, for the properties. `set_auto_generate` stands for all settings that are
replayed (`capture_state` and coding mode take the same path). With the account
"bypassed" there is no token to fetch, so `handleOpen` ends before anything else of
the main process runs (`NothingFirst`). Collapsing the overlay, which loses
`session_ended`, is in `Shell`.

### SttRelay, DeepgramRelay, WhisperRelay, SpeechRelay

A frame of audio is its number, a text the sequence of the voiced frames it was
made of; so order, loss and repetition of speech can be told, and nothing else
of it. `meter` is `meteredSamples` with the sum of all `onMetered` reports.

| Action | Code |
|---|---|
| `PushAudio`, `Buffer` | `pushAudio`: meter, then send, or keep for the next connection up to the cap |
| `Opens`, `Closes`, `Drops`, `Transcribed`, `UtteranceEnd` | the SDK's events; `Drops` is upstream's |
| `ScheduleReconnect`, `Reconnects` | backoff attempts, one timer |
| `Close` | `close()`: disposed, the last metering, `requestClose` |
| `PushSpeech`, `PushSilence` | Whisper's `pushAudio` on a frame above and below the energy threshold |
| `PartialReturns` | `maybePartial`, at most one at a time (`busy`) |
| `Finalize`, `TranscriptionReturns`, `TranscriptionFails` | `finalize` before and after its await; `requests` are those awaiting |

History: `missing` (speech lost with a connection or to a full buffer), `unmade`
and `overlapped` say what may be lost; the properties say nothing else is.

### LlmProvider and AnswerStream

`CreateLlmProvider(c)` is what a configuration makes of text and vision backend.
Without a usable one, `generate` tells at once whether the configuration is at fault or the
client could not be built (`BrokenBackend`).
`calls[r]` is one `generate`: racing, ended, or "abandoned": the timer has
answered for it and the stream goes on until it notices. `AnswerStream` puts the
provider under `Orchestrator` (each generation is a call) and the Overlay above it:
`outbox` carries its commands, `inbox` tokens, completions and errors, both in
order; `overlay` is the state and the refs of the mounted component, and a new
one after each expand. `batch` is `pendingTokensRef`, `frame` the requested
animation frame, `banner` the failure the banner told of last. The outcome of a
screenshot is for the Overlay that asked (`asked`), and nobody sees it after a
collapse (`Reply`). An answer may be empty (`Whole`). What is in the card is a
matter of `answer` alone: it shows "Generating answer…" whenever it is there and
`answer` is empty, whatever `generating` says (`ShowsWaiting`).

### AudioCapture

`cap[m]` is the `AudioCapture` object of the `m`-th mount of the Overlay,
`streams[m][s]` what each of its requests for a device came to. `start()` is cut
where it awaits a request (`starting`, `Continue`); `Stops` is `stop()` up to
`context.close()`, which `Closed` returns from. `gate` is the voice gate of
`onaudioprocess`: silence since the last voice, the rolling pre-roll, and what
has been given to the sink. History: `crossed`, sources with two requests at once
or a request overtaken by a stop.

### WindowManager and Shell

`win` is the BrowserWindow, `manager` the fields that outlive it. `Shell` adds `ui`
(the state of App and Overlay), `ipc` and `events` (calls and events on
their way) and one action per thing the user can do. `Effects` are the calls that
React effects make after a render, `Forgets` what an unmounted Overlay loses.
The main process handles a call with every window operation it makes
(`Handle`). History: where the window was left, whether the end of the
interview found no Overlay, whether the window was made anew while collapsed.

### AuthManager and SignIn

A pair of tokens is a number, in the order of issue. `call[c].at` is the await of a
call: provider, listener, file, or, for an access token used at the backend, one of the
verifier's statements. Writing the file takes two steps, as `writeFile` truncates
first. `SignIn` adds the screens that begin the calls, launches, the accounts
table and the service's owner, who sets superuser flags by hand. History:
`crossed` (two calls were changing the tokens at once), `out`, `broken`, `raced`,
`decided`.

## 3. What the runs check

All runs set `CHECK_DEADLOCK FALSE`: users and clients may stop, and every
bounded instance does. Sizes are with the bounds below.

| Run | States | Shows |
|---|---|---|
| `Credits` | 2.1 M | types; settled exactly once; what is reported is charged; never overcharged; the first end reason stays; a balance moves only when an enforced session of the account is settled, by that session's consumption; ledger entries only lose their reference to a deleted session; the service implements `Settlement` |
| `GatewaySession` | 4.9 M | every session ends unless stranded (`SessionsEnd`); the summary is the bill; the reason told is the reason recorded; audio is metered once and for its own session; audio that uses up the credits is noticed |
| `GatewayLiveness` | 0.3 M | a closed connection's sessions and an exhausted session come to their end |
| `OrchestratorAnswers` | 1.4 M | transcript and memory hold what was shown, under the question it answered; the current question is handed to one generation or is pending, regenerations aside |
| `ClientSession` | 1.8 M | one connection at a time; the client never lacks a way back; a wanted interview is run again after every break unless the attempts are used up; without auth: auth first, one start per connection, no unasked auto-answers |
| `SpeechRelay` | 2.8 M | every frame is metered once; speech is understood in order, once, and does not vanish; a relay is not dead without the client knowing, and comes back |
| `AnswerStream` | 8.2 M | the card shows one answer, never a part beside the whole nor older text after newer; it does not wait unseen: at rest it shows "Generating answer…" only after a failure the banner told of, an empty answer, or in a session that cannot answer |
| `AudioCapture` | 2.9 M | a device is captured exactly while shown, unless requests crossed; speech is sent in order, once and from its beginning |
| `Shell` | 6.0 M | private mode shown on is on; the window fits the screen; an interview that is over leaves the screen unless nobody heard; click-through shown is click-through |
| `SignIn` | 6.8 M | neither token file nor port are left behind; the stored token is good, and stored while signed in, unless calls crossed; accounts have the flag decided for them |
| `GatewayDropped`, `DevicesLeftOpen` | | the violations of section 5 |

Each module also has a type invariant (`CreditsTypeOK`, `GatewayTypeOK`,
`OrchestratorTypeOK`, `ClientTypeOK`, `RelayTypeOK`, `StreamTypeOK`, `CaptureTypeOK`,
`ShellTypeOK`, `SignInTypeOK`); the first is in its run, some of the others are proved (section 4), and all
hold in the configuration of their module.

### Bounds, and why they suffice

- `Credits`: 2 accounts with 3 opening credits, one enforced and one bypassed, 1
  session of either, 3 calls in flight, one unit of usage, two end reasons, 1
  fault. Sessions do not interact in the service except through an account's
  balance; a second account is needed to see a step touch the wrong one; three slots
  let a metering call overlap two finalizing ones. Slots are reused, so longer
  histories than three calls occur.
- `GatewaySession`: 1 connection that may start 2 sessions, 2 calls in flight, 4
  control messages (auth, start, and two more in any order), metering at 2
  units, 3 units of audio (one metered on the way, one left over for
  `relay.close()`), 2 opening credits at rate 1 (reached by audio, or by
  answers, or both), 1 fault anywhere. Usage above the opening balance occurs.
- `GatewayLiveness`: the same with 3 messages, without faults and symmetry.
- `OrchestratorAnswers`: 3 generations over two texts and the screenshot, a memory
  of 2 turns: enough for an overtaken one, a trimmed memory, and a row number
  read twice.
- `ClientSession`: 2 sockets alive at once, 2 attempts, 2 interviews, 1 further
  command with auth and 3 without (two settings and a stop can be queued
  together), 2 faults. Sockets both ends are done with are reused.
- `SpeechRelay`: 5 frames of 1.7 s against a threshold at its minimum (0.3 s), its default
  and its maximum (5 s), a report every 3 frames, a buffer of 2 (so it fills), 2 reconnect
  attempts (given up and reset), 2 `finalize` calls in flight.
- `AnswerStream`: 2 generations of one chunk each, 3 commands of the user, over 7
  configurations: nothing usable, one provider for all, another one for
  screenshots, named or inferred, with and without its key. Two answers suffice
  to supersede one; one chunk suffices to be late.
- `AudioCapture`: 2 mounts, 5 requests, 5 frames, hangover and pre-roll of 2 frames: a
  capture can be stopped, and the next one started, with both sources awaited; the
  gate can open, shut and open again.
- `Shell`: 7 steps of the user, 2 windows, 2 places, contents lower than the least and higher
  than the least window height. Seven steps reach the interview (two), collapse, drag, expand and
  two more.
- `SignIn`: 2 calls at once, 4 in a launch, 2 launches, 2 identities of which one is
  listed, 3 pairs of tokens, 1 fault: two refreshes, or a refresh and a sign-out, cross.

### Fairness

`FairGatewaySpec`: weak fairness of the handlers, of the tasks, of the database
calls, of `relay.close()` and of the close event of a socket the server itself
closed. The event loop runs what is ready and queries answer or fail. Clients,
providers and faults owe nothing: a client may never say stop, a generation may
never return.

`FairSpec` of `SessionClient`: weak fairness of timers, token fetches, deliveries
and the two event loops; a connecting socket opens or breaks. The user is free,
and so are faults, of which there are finitely many. `InterviewResumes` excepts a client
that has used up its attempts and an account that was refused.

`FairSpec` of `SpeechRelay`: a reconnect timer that is set fires, the close event
of a broken connection comes, a connection that keeps connecting opens. Drops
are free, as often as they like; `RelayRecovers` then says that the client is told.

## 4. What is proved

Sets (accounts, sessions, call slots, identities, questions) are arbitrary, finite or not,
unless an assumption says otherwise; bounds, rates, thresholds and opening
balances are arbitrary numbers. What is assumed of constants is the named
ASSUME of each module, which TLC evaluates in its runs: bounds and rates are
naturals, sizes that the code divides by or indexes with are not 0, values that stand for
"none" are none of the values they stand beside. Only `AuthAssumption` asks
for more: the calls of the auth manager are finitely many.

**Credits** (`CreditsAssumption`; `CreditsProofs`).

- `CreditsTypeCorrect`: `CreditsTypeOK` with
  `CallsWellFormed`, which is inductive: a call that is about to claim or append
  has read the row it needs.
- `SessionsSettledOnce`: `SettledExactlyOnce`. It is not
  inductive. `AppendDebit` would break it if two calls stood before the insert,
  if a call claimed a session that already had a debit, or if a debit existed for
  an id that `CreateSession` may draw again. `SettlementInv` adds what
  excludes that: rows, calls and debits are of minted ids
  (`RowsAreMinted`), a claimed session cannot be claimed again, and its claim is
  held by one call or used by one entry, never both (`ClaimsAreExclusive`), and a finalized row
  has its debit, its claim or its fault (`ClaimsAreKept`). The unique index is
  not needed for it: the claim alone makes the debit unique.
- `NeverOverchargedAlways`: `NeverOvercharged`. A debit is what
  a call has `seen`, so `ChargeInv` adds that the stored usage (`UsageIsRecorded`)
  and what every call has seen (`SeenIsRecorded`) are within the usage recorded so
  far. Lost updates only make the stored usage smaller; conversion to credits is
  monotone (`CreditsForMonotone`).
- `ReportsAreCharged`, `EntriesStay`, `EndedStaysEnded`:
  `ReportedIsCharged`, `LedgerAppendOnly`, `FirstReasonWins`. The first needs
  `ReportInv`: a call that answers "finalized" has appended the amount it tells.
- `ServiceKeepsPromise`: the service implements
  `Settlement`, under `BillInv` (the invariants above together). Every step
  either ends a session, bills it, raises its usage, deletes it, or stutters; that a billing step
  bills an ended, unbilled session for no more than its usage is where the
  invariants are needed.

- `OnlySettlementsMoveBalances`: `OnlySettlementMovesBalance`. A balance is the opening plus a fold over
  the ledger entries that count (`MapThenSumSet`). `Sums` characterises such a total
  over a finite set whichever element is taken first (`AnyOrder`, by induction on
  cardinality), so one more entry adds its amount (`TotalMore`) and detaching entries
  changes nothing (`TotalSame`). That the amount is booked to the owner of the row needs
  `RowsAreRead`: a finalizing call holds its session's account and enforcement.

The lemmas under these are stated for `ServiceStep`: any caller, and any step that
leaves the tables alone.

**Gateway** (with `GatewayAssumption`; `GatewayProofs`).

- `GatewaySettlesOnce`, `GatewayNeverOvercharges`, `GatewayKeepsReasons`,
  `GatewayKeepsPromise`: the service's properties under the gateway's calls, since
  every step of the gateway is a `ServiceStep`.
- `LinkInv` ties tables, connections and tasks together: a session has an owner
  once it is minted, the owner's current session is its own, and whatever runs for
  a session runs for the connection that owns it, which still has one
  (`WorkIsOwned`). Without it a late reply could act on another connection's session.
- `SessionsAlwaysEnd`: `SessionsEnd`. `FinalizeInv` says that the `finalize` of a
  connection is one task with the connection's reason (`FinalizeIsOne`), that nobody ends a
  session before its `finalize` claims it and what that task finds at each
  stage (`ClaimsFollow`), and that a session which has not ended is stranded or has a
  `finalize` coming (`NoneForgotten`).
- `SummariesAreBills`, `ToldReasonsAreRecorded`: `SummaryIsTheBill`,
  `ToldReasonIsRecorded`. They follow from `FinalizeInv` and the service's `ReportInv`:
  whoever tells has the reason its task claimed with and the amount it appended.
- `AudioAlwaysMeteredOnce`: `AudioMeteredOnce`. `AudioInv` says that the calls which carry a
  session's usage are finitely many, that what left its relay and is not recorded is
  the total of what they carry, and that nothing is counted for an id that
  was not drawn yet. A step of a call puts in or takes out what that call
  carries (`AudioResumes`); all others leave the total alone or start one call.
- `AudioExhaustionAlwaysNoticed`: `AudioExhaustionNoticed`. `NoticeInv` says that a
  session which has spent its credits by audio alone is found exhausted, being
  finalized, or has a check on its way that will see it (`Checking`): its metering call
  has answered, and it has yet to read the balance or has read the opening
  one, which is what an account charged for no other session still has
  (`UnchargedBalance`). It rests on two more facts: a metering task waits for a call of its
  own session (`CallsAreOfTasks`, so that whatever is stored has a check behind it,
  `StoredIsChecked`), and a start that goes on to create a session has found
  credit (`Paid`). What was stored by several overlapping calls may miss increments; the
  invariant speaks of the stored usage, as the check does.

**Orchestrator** (`OrchestratorAssumption`; `OrchestratorProofs`).

- `PendingAlwaysWaits`: `PendingIsWaiting`, inductive with what `TranscriptInv` (below) says of
  the generations and two bounds of the history (`PendingInv`): no generation beyond
  `generationSeq` is in `again`, and `since` is not ahead of it. A question that comes empties
  `Takers`, and the generation that is started for it, then or later, is the one that joins; what
  `Regenerate` starts goes into `again` instead.
- `TranscriptAlwaysHoldsAnswers`: `TranscriptHoldsAnswers`. `TranscriptInv` adds what a
  generation in flight has read of the rows (`SeqReadInv`), that rows are numbered
  without gaps (`RowsInv`) and that an answer is shown by a generation that is over and
  has its row (`AnsweredInv`).
- `MemoryAlwaysOfShownAnswers`: `MemoryIsOfShownAnswers`. `MemoryInv` adds that
  every turn is of an answer that was shown, of another one each, under the
  question of its generation, and that neighbours have different questions.

**Answer card** (with `ProviderAssumption`, `StreamAssumption`; `OrchestratorProofs`).

- `StreamTypeCorrect`: `StreamTypeOK`, with screenshots counted as commands.
- `StreamIsOrchestrator`: the composition implements `Orchestrator`: its Overlay
  and its provider give the orchestrator no step that the general caller
  lacks. The theorems above therefore hold of it too.
- `CardAlwaysShowsOneAnswer`: `CardShowsOneAnswer`. It is not inductive, as what
  is on its way will be shown. `Card` speaks of card and batch together with the
  messages behind them: a whole answer stands first, of a generation that is
  over and has no part shown or on its way; parts and tokens ascend by generation;
  after a completion comes no token of its generation. `Loses` covers
  everything that only drops the beginning (a new question, a frame, an unmount).
- `AlwaysWaitsForAnAnswer`: `WaitsForAnAnswer`. `WaitInv` says, also while things are
  on their way, what a generating Overlay and an empty card wait for (`Waits`): the newest
  generation runs, a command or screenshot is on its way to start one, or the message that
  ends it is on its way back; a card that is empty without any of these has text in its
  batch, has been told of the newest failure, or was given an empty answer. It needs that
  behind every token on its way there is an end (`OnTheWay`), that the last completion on
  its way is of the last answer (`LastIsTold`), and that a superseded generation is silent,
  which is why the newest one must be the one that runs. Lemmas sum up steps as `Effects` (what a step of the
  backend sends) and `Quietly` (steps of the Overlay that send nothing).

**Session client** (`ClientAssumption`; `ClientProofs`).

- `OneConnectionAlways`: `OneConnection`, which with the types is inductive: only
  `Open` makes a socket, and only if there is none.
- `NeverStrandedAlways`: `NeverStranded`. It is not inductive: what it says of an open
  socket must hold also while nothing is wanted (`Handshake`), because an
  interview may start on a socket opened long before; `Awake` is its other half.
- `HandshakeAlwaysInOrder`: `HandshakeInOrder`. `OrderInv` adds that the log of every
  connection is good (`GoodLog`: the token first, then starts of distinct interviews that
  have begun), that nothing is written between the opening of a socket and its handshake, that
  an open socket has a log after it, and that queued messages start nothing. Actions
  that write nothing go through `QuietKeeps` and `CalmKeeps`.
- `NeverAutoUnaskedAlways`: `NeverAutoUnasked`, from both ends. `ServersInv`: a gateway that
  generates has handled a message that switches it on and none since that switches it off or
  ends the session (`Sounds`). `SilentInv`: while the user has it off, what is queued,
  and what an open connection carries after its handshake, leaves it off (`Silent`), and
  nothing is queued on a connection that is there.

**Speech** (`SttRelayAssumption`, `DeepgramAssumption`, `WhisperAssumption`; `SpeechProofs`).

- `AllAudioMetered`: `EveryFrameMetered`, over any drop, overflow and close.
- `RelayNeverDead`: `NeverDead`, with the shape of the relay's and the connection's state.
- `SpeechAlwaysPreserved`: `SpeechPreserved`. `StreamInv` says that only a connection that is
  up has heard anything and that nothing is buffered while an open one is there; and
  that the voiced frames are what was understood, what the buffer holds and what is
  known to be missing, in ascending order and the buffer behind what was understood
  (`Spoken`). Texts are sequences of sequences; what flattening them keeps is proved by
  induction over sets of naturals (`AllNaturals`, from the library's `WFMin`, as the
  induction theorems themselves cannot be instantiated).
- `AlwaysKeptUntilTranscribed`: `KeptUntilTranscribed`. `WhisperInv`: every request under way holds all
  of the utterance it was made of but what overlapped it.

**Audio capture** (`CaptureAssumption`; `CaptureProofs`).

- `SpeechAlwaysSentWhole`: `SpeechSentWhole`. The invariant relates the gate's
  three counters to what was sent: the pre-roll is the newest frames that were not sent, as many as it
  may hold, and an open gate has sent all since it opened.
- `DevicesAlwaysShown`: `DevicesAreShown`. It is not inductive: `DeviceInv` adds that
  only the mounted capture has a graph, that a source that is on has an open stream
  (`Live`), and, where no request crossed, that at most one is awaited, while
  its source is off and its capture is mounted (`Exact`).

**Window and screens** (`WindowAssumption`, `ShellAssumption`; `ShellProofs`).

All four properties are about rest, when nothing is on its way, and none is inductive.
Each invariant says what the messages on their way will make of the state, of
which only the last of a kind matters (`LastOf`, `Absent`).

- `ShellTypeCorrect`: `ShellTypeOK`, with the types of what is queued.
- `PrivateAlwaysProtected`: `PrivateIsProtected`. `PrivateInv`: if private mode is shown on, the
  last call about it switches it on, or there is none and the window is protected.
- `StealthAlwaysShown`: `StealthIsShown`. `StealthInv`: the last event about click-through
  tells the window as it is, or what is shown already does.
- `EndAlwaysShown`: `EndedIsShown`. `EndedInv`: an end that was not missed is the
  last news on its way, or the interview has left the screen.
- `WindowAlwaysFits`: `WindowFits`. `WindowInv`: there is a course of the window
  (collapsed or not, and the height it has or returns to) that the calls on their
  way lead through, one after the other (`Leads`), and that ends where the screen wants it
  (`Suits`); the pill's place is known meanwhile (`Placed`). The course is
  a function quantified in the invariant, so no induction over the queue is needed:
  a new call prolongs it, a handled one shortens it.

**Signing in** (`AuthAssumption`, `SignInAssumption`; `SignInProofs`).

- `FlagAlwaysDecided`: `FlagIsDecided`. `PairsInv` says that every pair of tokens at
  hand was issued, so that its owner is known and stays the same; `FlagInv`, that
  only requests of listed identities come to the superuser statement, and what
  an account's flag can be at each stage of such a request.
- `NeverLeftBehind`: `NothingLeftBehind`. `PortInv` says that the listener is up exactly
  while one call waits for its redirect, `FileInv` that a truncated file has a call
  writing or clearing it, or a failure behind it.
- `StoredTokenAlwaysGood`, `SignInAlwaysStored`: `StoredTokenIsGood`, `StoredWhileSignedIn`.
  They need that the app is not used while it restores (`RestoreInv`), and, where no two calls
  crossed and nothing broke (`StoredInv`), that one call at a time
  changes the tokens, that it has at hand what its stage needs (`Prepared`), and
  that the file is kept (`Kempt`) while none is about to replace it.

Each proof has a lemma per delicate action; the other actions go through
lemmas about steps that leave alone what the invariant is about, or only add to it
(`GrowthKeeps`, `DeadKeeps`, `FlagsKept`, ...).

Only model-checked, and why:

- liveness (`ClosedSessionsEnd`, `ExhaustedSessionsEnd`, `InterviewResumes`,
  `RelayRecovers`): fairness is out of the prover's reach.

Every safety property that a passing run checks is proved.

## 5. Where the code departs from its documents

Two departures have a run, and `PROJECT.json` quotes the lines:

- `GatewayDropped`: a socket that closes while `onStartSession` awaits leaves the
  session open for ever.
- `DevicesLeftOpen`: `stop()` passes over a source whose request is still
  awaited; its device is opened afterwards and stays open.

More came up; each has a property in its module that says what the document
says, and no run of its own. To see the counterexample, put the property in the
named configuration, in place of those there.

| Property | Configuration | What happens |
|---|---|---|
| `UsageAccumulates` | `Credits.cfg` | two overlapping `recordUsage` calls lose an increment, which is never charged; `NeverOvercharged` is the half that does hold |
| `FinalizedHasDebit` | `Credits.cfg` | a fault between `markFinalized` and `ledger.append` loses the debit for good (Req 11.1) |
| `DebitCoversMetering` | `GatewaySession.cfg` | `finalize` does not wait for metering in flight, not even for the one that `relay.close()` starts, so the debit misses it (Req 12.5) |
| `ExhaustionNoticed` | `GatewaySession.cfg` | a superseded generation is metered and returns before `checkCredits`; usage by answers is voided, and may land after the check; a second connection of the account spends the same balance unnoticed (Req 10.2). `AudioExhaustionNoticed` is the half that does hold |
| `StartsWithCredit` | `GatewaySession.cfg`, as a PROPERTY | `preSessionCheck` reads the ledger only, so a session starts on credits that an earlier one still open has used (Req 9.4) |
| `LatestRequestWins` | `OrchestratorAnswers.cfg` | an answer overtaken while its row was inserted is shown after the newer one |
| `PendingIsUnanswered` | `OrchestratorAnswers.cfg` | `regenerate` answers a pending question and leaves it pending, for the Answer button or the switch to answer once more (`sessionOrchestrator.ts:112` against 164-167); `PendingIsWaiting` is what does hold |
| `RegenerateExcludesOwnTurn` | `OrchestratorAnswers.cfg` | only the last turn is excluded; another answer may have come in between |
| `CommandsWaitForAuth` | `ClientSession.cfg` | a command issued while the token is fetched is written to the socket before `auth` |
| `StartedOncePerConnection` | `ClientSession.cfg` | the same await: a start is written directly and replayed |
| `StopsItsOwn` | `ClientSession.cfg`, as a PROPERTY | a stop queued while disconnected ends the next interview |
| `ReconnectsBounded` | `ClientSession.cfg`, as a PROPERTY | every open resets the attempts, so a refused client reconnects for ever |
| `StopEndsInterview` | `ClientSession.cfg`, as a PROPERTY | a stop reaching a connection without a session is not answered and the overlay stays (Req 12.6) |
| `SpeechAskedOnce` | `SpeechRelay.cfg` | a second `finalize` transcribes the utterance whose transcription is awaited: the question is asked twice (Req 13.5) |
| `SpeechAllAsked` | `SpeechRelay.cfg` | speech that joins an utterance while it is transcribed is cleared with it |
| `PlaceholderCleared` | `AnswerStream.cfg` | only text takes the place of "Generating answer…" (`Overlay.tsx:487-508`): after an error before the first token (131-134), a failed screenshot (251-256) or an empty answer it stays for ever, although nothing is coming (`design.md:516` of it-interview-assistant, Req 8.7); `WaitsForAnAnswer` is the half that does hold |
| `AutoGenerateShown` | `AnswerStream.cfg` | the Overlay's toggle starts off after an expand, while the orchestrator's is still on |
| `AnswerUnderItsQuestion` | `AnswerStream.cfg` | only the buttons of the card set its question: an automatic answer stands under the question last asked by hand, or under none |
| `ScreenshotsAreSeen` | `AnswerStream.cfg` | regenerating the answer to a screenshot asks without the image |
| `OwnKeys` | `AnswerStream.cfg`, with `C("Gemini", Unset, Unset, {"claude", "gemini"}, {})` in `MCConfig` | provider names are normalized, the choice of their key is not: Gemini is called with Anthropic's key |
| `PageProtected` | `Shell.cfg` | private mode switched off in the Overlay outlives it, on screens without the switch |
| `EndedIsNoticed` | `Shell.cfg` | `session_ended` while collapsed finds no listener: the overlay comes back on expand for an interview that is over |
| `SizeAlwaysFollows` | `Shell.cfg` | a window closed as a pill is created anew while the manager counts as collapsed and ignores content heights |
| `CrossedStaysSignedIn` | `SignIn.cfg` | the loser of two refreshes with one token clears what the winner saved |
| `SignOutEndsSession` | `SignIn.cfg` | after a launch the adapter's client holds no session, so signing out revokes nothing |
| `ListedIsSuperuser` | `SignIn.cfg` | a request that fails between provisioning and `setSuperuser` leaves a listed identity plain for good |

Met while reading, outside the models: `auth_error` is not wired to the renderer
(`wireSessionEvents` in `appController.ts`), so a refused start leaves the
overlay up without a message (Req 8.3).

## 6. Not modelled

- Pure functions of text: topic detection, scope and its colour, prompts, profile
  merging and validation, redaction, Markdown export. They keep no state, and what could be
  wrong in them is wording.
- Geometry: its callers in the window manager are called by nothing but tests.
- The in-memory repositories are a test double whose operations do not interleave.
- Profiles, history reading, resume parsing, migrations and the reading of the
  environment: each is one statement or pure I/O.
- Latency figures, the low-credit warning, `partial_transcript` and topic messages,
  opacity, resizing by hand, layout: nothing depends on them.
- Within what is modelled: one environment at a time; PKCE values, the caching of
  keys and the fixed development account; samples and resampling; prompts.

## 7. Plan

The order was: what costs money and ends a session (`CreditsService`, `Settlement`,
`SessionGateway`), what is answered (`Orchestrator`), what connects the desktop
(`SessionClient`); then what feeds them (`SpeechRelay`, `AudioCapture`), what shows them (`AnswerStream`,
`Shell`) and who may use them (`SignIn`). All of these are there, with the theorems of
section 4.

Left: scope and topic detection against reference definitions over bounded inputs.
