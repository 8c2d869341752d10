----------------------------- MODULE SessionGateway -----------------------------
(***************************************************************************)
(* The session gateway on top of the credits service: the Connection of    *)
(* each WebSocket, the STT relay and orchestrator of each session as far   *)
(* as they meter usage and stop the session, and the asynchronous tasks    *)
(* that call CreditsService and resume when it answers.                    *)
(*                                                                         *)
(* Control messages are handled one at a time, each to its end; audio, the *)
(* socket's close event, generations and metering interleave with them at  *)
(* every await.  text_question stands for each message that generates.     *)
(***************************************************************************)
EXTENDS CreditsService

CONSTANTS
    Conn,         \* WebSocket connections; each is used once
    NoConn,
    NoAccount,    \* Connection.accountId = null
    TokenOf,      \* the account each connection's access token resolves to
    ModeOf,       \* effective enforcement of an account (superusers: bypassed)
    MeterAt,      \* audio units after which a relay meters (60 s of samples)
    MaxMessages,  \* bound: control messages a client sends
    MaxAudio      \* bound: audio units relayed for a session

ASSUME GatewayAssumption ==
    /\ NoConn \notin Conn
    /\ NoAccount \notin Account
    /\ TokenOf \in [Conn -> Account]
    /\ ModeOf \in [Account -> Mode]
    /\ MeterAt \in Nat \ {0}
    /\ MaxMessages \in Nat
    /\ MaxAudio \in Nat

VARIABLES
    conn,         \* the Connection objects
    orch,         \* the relay and orchestrator of each session
    task,         \* what resumes when a slot's awaited call answers
    owner,        \* history: the connection that created a session
    told,         \* history: session_ended / session_summary messages sent
    stranded      \* history: sessions no finalize will be called for

gatewayVars == <<conn, orch, task, owner, told, stranded>>
vars == <<gatewayVars, creditsVars>>

ControlMessage == {"auth", "start_session", "text_question", "stop_session"}

Connection == [ws : {"new", "open", "closing", "closed"},
               sent : 0..MaxMessages,
               inbox : Seq(ControlMessage),
               handler : {"ready", "auth", "check", "create", "stopping"},
               account : Account \cup {NoAccount},
               current : Session \cup {NoSession},
               ending : {"no", "relay_close", "settling", "done", "failed"},
               reason : EndReason]

NewConnection == [ws |-> "new", sent |-> 0, inbox |-> <<>>, handler |-> "ready",
                  account |-> NoAccount, current |-> NoSession,
                  ending |-> "no", reason |-> "disconnected"]

Orchestrator == [exhausted : BOOLEAN, pending : 0..(MeterAt - 1), relayed : 0..MaxAudio,
                 older : 0..MaxMessages, newest : BOOLEAN]
NewOrchestrator == [exhausted |-> FALSE, pending |-> 0, relayed |-> 0,
                    older |-> 0, newest |-> FALSE]

Task == [kind : {"none", "meter", "usage", "finalize", "qna", "check_ledger", "check_usage"},
         conn : Conn \cup {NoConn}, session : Session \cup {NoSession},
         balance : Int, voided : BOOLEAN]
NoTask == [kind |-> "none", conn |-> NoConn, session |-> NoSession,
           balance |-> 0, voided |-> FALSE]
TaskOf(kind, c, s) == [NoTask EXCEPT !.kind = kind, !.conn = c, !.session = s]

Told == [session : Session, reason : EndReason, shown : Session,
         summary : BOOLEAN, credits : Nat]

GatewayTypeOK ==
    /\ CreditsTypeOK
    /\ conn \in [Conn -> Connection]
    /\ orch \in [Session -> Orchestrator]
    /\ task \in [Call -> Task]
    /\ owner \in [Session -> Conn \cup {NoConn}]
    /\ told \in SUBSET Told
    /\ stranded \in SUBSET Session

GatewayInit ==
    /\ CreditsInit
    /\ conn = [c \in Conn |-> NewConnection]
    /\ orch = [s \in Session |-> NewOrchestrator]
    /\ task = [k \in Call |-> NoTask]
    /\ owner = [s \in Session |-> NoConn]
    /\ told = {}
    /\ stranded = {}

\* Mutant: the flag is set only when the session is settled.
FinalizingLate(c) == conn[c].ending \in {"done", "failed"}

Finalizing(c) == conn[c].ending # "no"
Update(c, new) == conn' = [conn EXCEPT ![c] = new]
CloseSocket(x) == [x EXCEPT !.ws = IF x.ws = "open" THEN "closing" ELSE x.ws]

SttUsage(n) == [stt |-> n, llm |-> 0]
LlmUsage == [stt |-> 0, llm |-> 1]

-----------------------------------------------------------------------------
(* finalize: stop the relay, settle the session, tell the client, hang up.  *)

\* Start a metering task for n units of s in a free slot of tasks.
Meter(c, s, n, tasks) ==
    \E k \in Call :
        /\ tasks[k] = NoTask
        /\ RecordUsage(k, s, SttUsage(n))
        /\ task' = [tasks EXCEPT ![k] = TaskOf("meter", c, s)]

\* Mutant: the relay's last samples stay counted after they were metered.
BeginFinalizeKeeping(c, new, reason, orchs, tasks) ==
    LET s == conn[c].current IN
    /\ Update(c, [new EXCEPT !.ending = "relay_close", !.reason = reason])
    /\ orch' = orchs
    /\ \/ orch[s].pending = 0 /\ task' = tasks /\ UNCHANGED creditsVars
       \/ orch[s].pending > 0 /\ Meter(c, s, orch[s].pending, tasks)

\* relay.close() meters what it has left and is awaited.
BeginFinalize(c, new, reason, orchs, tasks) ==
    LET s == conn[c].current IN
    /\ Update(c, [new EXCEPT !.ending = "relay_close", !.reason = reason])
    /\ orch' = [orchs EXCEPT ![s].pending = 0]
    /\ \/ orch[s].pending = 0 /\ task' = tasks /\ UNCHANGED creditsVars
       \/ orch[s].pending > 0 /\ Meter(c, s, orch[s].pending, tasks)

\* Mutant: finalize gives up when the socket has closed meanwhile.
RelayClosedIfOpen(c) ==
    /\ conn[c].ending = "relay_close"
    /\ conn[c].ws # "closed"
    /\ Update(c, [conn[c] EXCEPT !.ending = "settling"])
    /\ \E k \in Call :
          /\ task[k] = NoTask
          /\ FinalizeSession(k, conn[c].current, conn[c].reason)
          /\ task' = [task EXCEPT ![k] = TaskOf("finalize", c, conn[c].current)]
    /\ UNCHANGED <<orch, owner, told, stranded>>

\* The relay is closed: the session current NOW is finalized.
RelayClosed(c) ==
    /\ conn[c].ending = "relay_close"
    /\ Update(c, [conn[c] EXCEPT !.ending = "settling"])
    /\ \E k \in Call :
          /\ task[k] = NoTask
          /\ FinalizeSession(k, conn[c].current, conn[c].reason)
          /\ task' = [task EXCEPT ![k] = TaskOf("finalize", c, conn[c].current)]
    /\ UNCHANGED <<orch, owner, told, stranded>>

Stopping(c) == conn[c].handler = "stopping"

\* Mutant: the summary is sent whether or not this call settled the session.
FinalizeReturnedUnsettled(k) ==
    LET c == task[k].conn IN
    /\ task[k].kind = "finalize"
    /\ calls[k].at = "returned"
    /\ Settle(k)
    /\ task' = [task EXCEPT ![k] = NoTask]
    /\ told' = IF conn[c].ws # "open" THEN told
               ELSE told \cup {[session |-> calls[k].session, reason |-> conn[c].reason,
                                shown |-> conn[c].current,
                                summary |-> Stopping(c),
                                credits |-> CreditsFor(calls[k].seen)]}
    /\ Update(c, [CloseSocket(conn[c]) EXCEPT
                     !.ending = "done",
                     !.handler = IF Stopping(c) THEN "ready" ELSE conn[c].handler])
    /\ UNCHANGED <<orch, owner, stranded>>

FinalizeReturned(k) ==
    LET c == task[k].conn IN
    /\ task[k].kind = "finalize"
    /\ calls[k].at = "returned"
    /\ Settle(k)
    /\ task' = [task EXCEPT ![k] = NoTask]
    /\ told' = IF conn[c].ws # "open" THEN told
               ELSE told \cup {[session |-> calls[k].session, reason |-> conn[c].reason,
                                shown |-> conn[c].current,
                                summary |-> Stopping(c) /\ calls[k].finalized,
                                credits |-> CreditsFor(calls[k].seen)]}
    /\ Update(c, [CloseSocket(conn[c]) EXCEPT
                     !.ending = "done",
                     !.handler = IF Stopping(c) THEN "ready" ELSE conn[c].handler])
    /\ UNCHANGED <<orch, owner, stranded>>

\* The handler of stop_session catches the rejection; finalizing stays set.
StopFailed(k) ==
    LET c == task[k].conn IN
    /\ task[k].kind = "finalize"
    /\ calls[k].at = "rejected"
    /\ Stopping(c)
    /\ Settle(k)
    /\ task' = [task EXCEPT ![k] = NoTask]
    /\ Update(c, [conn[c] EXCEPT !.ending = "failed", !.handler = "ready"])
    /\ stranded' = stranded \cup {calls[k].session}
    /\ UNCHANGED <<orch, owner, told>>

-----------------------------------------------------------------------------
(* The process.                                                             *)

GatewayDies ==
    /\ conn' = [c \in Conn |-> IF conn[c].ws = "new" THEN conn[c]
                               ELSE [NewConnection EXCEPT !.ws = "closed"]]
    /\ orch' = [s \in Session |-> NewOrchestrator]
    /\ task' = [k \in Call |-> NoTask]
    /\ stranded' = stranded \cup minted
    /\ UNCHANGED <<owner, told>>

ProcessCrash == Crash /\ GatewayDies

\* Only stop_session's finalize is awaited by somebody.
RejectionKills(k) ==
    /\ \/ task[k].kind \in {"meter", "usage"}
       \/ task[k].kind = "finalize" /\ ~Stopping(task[k].conn)
    /\ UnhandledRejection(k)
    /\ GatewayDies

-----------------------------------------------------------------------------
(* The socket.                                                              *)

Connect(c) ==
    /\ conn[c].ws = "new"
    /\ Update(c, [conn[c] EXCEPT !.ws = "open"])
    /\ UNCHANGED <<orch, task, owner, told, stranded, creditsVars>>

\* Messages already on the wire still arrive while the server is closing.
Receive(c, m) ==
    /\ conn[c].ws \in {"open", "closing"}
    /\ conn[c].sent < MaxMessages
    /\ Update(c, [conn[c] EXCEPT !.sent = @ + 1, !.inbox = Append(@, m)])
    /\ UNCHANGED <<orch, task, owner, told, stranded, creditsVars>>

Audio(c) ==
    LET s == conn[c].current
        o == orch[s] IN
    /\ conn[c].ws \in {"open", "closing"}
    /\ s # NoSession
    /\ o.relayed < MaxAudio
    /\ IF o.pending + 1 < MeterAt
       THEN /\ orch' = [orch EXCEPT ![s] = [o EXCEPT !.relayed = @ + 1, !.pending = @ + 1]]
            /\ UNCHANGED <<task, creditsVars>>
       ELSE /\ orch' = [orch EXCEPT ![s] = [o EXCEPT !.relayed = @ + 1, !.pending = 0]]
            /\ Meter(c, s, o.pending + 1, task)
    /\ UNCHANGED <<conn, owner, told, stranded>>

\* Mutant: a close the server itself asked for is not a disconnect.
SocketClosesUnasked(c) ==
    LET closed == [conn[c] EXCEPT !.ws = "closed"] IN
    /\ conn[c].ws \in {"open", "closing"}
    /\ IF conn[c].ws = "open" /\ ~Finalizing(c) /\ conn[c].current # NoSession
       THEN BeginFinalize(c, closed, "disconnected", orch, task)
       ELSE Update(c, closed) /\ UNCHANGED <<orch, task, creditsVars>>
    /\ UNCHANGED <<owner, told, stranded>>

\* The close event: by the peer, the network, or after the server's close.
SocketCloses(c) ==
    LET closed == [conn[c] EXCEPT !.ws = "closed"] IN
    /\ conn[c].ws \in {"open", "closing"}
    /\ IF ~Finalizing(c) /\ conn[c].current # NoSession
       THEN BeginFinalize(c, closed, "disconnected", orch, task)
       ELSE Update(c, closed) /\ UNCHANGED <<orch, task, creditsVars>>
    /\ UNCHANGED <<owner, told, stranded>>

-----------------------------------------------------------------------------
(* Control messages, in order.                                              *)

\* Take the next message m: the handler goes on from the connection's state.
NextIs(c, m) ==
    /\ conn[c].handler = "ready"
    /\ conn[c].inbox # <<>>
    /\ Head(conn[c].inbox) = m

Taken(c) == [conn[c] EXCEPT !.inbox = Tail(@)]

HandleAuth(c) ==
    /\ NextIs(c, "auth")
    /\ Update(c, [Taken(c) EXCEPT !.handler = "auth"])
    /\ UNCHANGED <<orch, task, owner, told, stranded, creditsVars>>

AuthOk(c) ==
    /\ conn[c].handler = "auth"
    /\ Update(c, [conn[c] EXCEPT !.handler = "ready", !.account = TokenOf[c]])
    /\ UNCHANGED <<orch, task, owner, told, stranded, creditsVars>>

\* A refused token; or the balance read after the account was stored failed.
AuthFails(c) ==
    /\ conn[c].handler = "auth"
    /\ \E a \in {conn[c].account} \cup (IF MaxFaults > 0 THEN {TokenOf[c]} ELSE {}) :
          Update(c, [CloseSocket(conn[c]) EXCEPT !.handler = "ready", !.account = a])
    /\ UNCHANGED <<orch, task, owner, told, stranded, creditsVars>>

HandleStart(c) ==
    /\ NextIs(c, "start_session")
    /\ Update(c, IF conn[c].account = NoAccount THEN CloseSocket(Taken(c))
                 ELSE [Taken(c) EXCEPT !.handler = "check"])
    /\ UNCHANGED <<orch, task, owner, told, stranded, creditsVars>>

StartChecked(c) ==
    LET a == conn[c].account IN
    /\ conn[c].handler = "check"
    /\ Update(c, IF PreSessionAuthorized(LedgerBalance(a), ModeOf[a])
                 THEN [conn[c] EXCEPT !.handler = "create"]
                 ELSE [CloseSocket(conn[c]) EXCEPT !.handler = "ready"])
    /\ UNCHANGED <<orch, task, owner, told, stranded, creditsVars>>

\* Whether a finalize of c still to come reads this.session.
WillFinalize(c) ==
    conn[c].ending = "relay_close" \/ (conn[c].ending = "no" /\ conn[c].ws # "closed")

\* this.session, this.orchestrator and this.relay are overwritten together.
StartCreated(c) ==
    /\ conn[c].handler = "create"
    /\ \E s \in Session :
          /\ CreateSession(s, conn[c].account, ModeOf[conn[c].account])
          /\ Update(c, [conn[c] EXCEPT !.handler = "ready", !.current = s])
          /\ owner' = [owner EXCEPT ![s] = c]
          /\ stranded' = stranded \cup ((IF WillFinalize(c) THEN {conn[c].current} ELSE {s})
                                           \ {NoSession})
    /\ UNCHANGED <<orch, task, told>>

\* A statement of the start failed: the handler gives up, silently.
StartFails(c) ==
    /\ MaxFaults > 0
    /\ conn[c].handler \in {"check", "create"}
    /\ Update(c, [conn[c] EXCEPT !.handler = "ready"])
    /\ UNCHANGED <<orch, task, owner, told, stranded, creditsVars>>

HandleQuestion(c) ==
    LET s == conn[c].current IN
    /\ NextIs(c, "text_question")
    /\ Update(c, Taken(c))
    /\ orch' = IF s = NoSession \/ orch[s].exhausted THEN orch
               ELSE [orch EXCEPT ![s].older = IF orch[s].newest THEN @ + 1 ELSE @,
                                 ![s].newest = TRUE]
    /\ UNCHANGED <<task, owner, told, stranded, creditsVars>>

HandleStop(c) ==
    /\ NextIs(c, "stop_session")
    /\ IF Finalizing(c) \/ conn[c].current = NoSession
       THEN Update(c, Taken(c)) /\ UNCHANGED <<orch, task, creditsVars>>
       ELSE BeginFinalize(c, [Taken(c) EXCEPT !.handler = "stopping"], "user-ended", orch, task)
    /\ UNCHANGED <<owner, told, stranded>>

-----------------------------------------------------------------------------
(* Generations, as far as they meter usage and check credits.               *)

\* A superseded generation reports its usage and stops there.
OlderAnswered(s) ==
    /\ orch[s].older > 0
    /\ orch' = [orch EXCEPT ![s].older = @ - 1]
    /\ \E k \in Call :
          /\ task[k] = NoTask
          /\ RecordUsage(k, s, LlmUsage)
          /\ task' = [task EXCEPT ![k] = TaskOf("usage", owner[s], s)]
    /\ UNCHANGED <<conn, owner, told, stranded>>

\* The newest one reports its usage and persists its answer.
NewestAnswered(s) ==
    /\ orch[s].newest
    /\ orch' = [orch EXCEPT ![s].newest = FALSE]
    /\ \E k, j \in Call :
          /\ k # j /\ task[k] = NoTask /\ task[j] = NoTask
          /\ RecordUsage(k, s, LlmUsage)
          /\ task' = [task EXCEPT ![k] = TaskOf("usage", owner[s], s),
                                  ![j] = TaskOf("qna", owner[s], s)]
    /\ UNCHANGED <<conn, owner, told, stranded>>

\* The provider failed or timed out.
GenerationFails(s) ==
    /\ \/ orch[s].newest /\ orch' = [orch EXCEPT ![s].newest = FALSE]
       \/ orch[s].older > 0 /\ orch' = [orch EXCEPT ![s].older = @ - 1]
    /\ UNCHANGED <<conn, task, owner, told, stranded, creditsVars>>

-----------------------------------------------------------------------------
(* Tasks resume when the call or query they await answers.                  *)

Enforced(s) == ModeOf[TokenOf[owner[s]]] = "enforced"

\* checkCredits, at its early return.
Check(k, voided) ==
    LET t == task[k] IN
    task' = [task EXCEPT ![k] =
               IF Enforced(t.session) /\ ~orch[t.session].exhausted
               THEN [TaskOf("check_ledger", t.conn, t.session) EXCEPT !.voided = voided]
               ELSE NoTask]

MeterReturned(k) ==
    /\ task[k].kind = "meter"
    /\ calls[k].at = "returned"
    /\ Settle(k)
    /\ Check(k, TRUE)
    /\ UNCHANGED <<conn, orch, owner, told, stranded>>

UsageReturned(k) ==
    /\ task[k].kind = "usage"
    /\ calls[k].at = "returned"
    /\ Settle(k)
    /\ task' = [task EXCEPT ![k] = NoTask]
    /\ UNCHANGED <<conn, orch, owner, told, stranded>>

\* qna.append refuses a deleted session; the message handler logs it.
QnaAppended(k) ==
    /\ task[k].kind = "qna"
    /\ IF sessions[task[k].session] = NoRow THEN task' = [task EXCEPT ![k] = NoTask]
       ELSE Check(k, FALSE)
    /\ UNCHANGED <<conn, orch, owner, told, stranded, creditsVars>>

CheckLedger(k) ==
    /\ task[k].kind = "check_ledger"
    /\ task' = [task EXCEPT ![k].kind = "check_usage",
                            ![k].balance = LedgerBalance(TokenOf[owner[task[k].session]])]
    /\ UNCHANGED <<conn, orch, owner, told, stranded, creditsVars>>

\* Mutant: the session is marked exhausted, and nobody is told.
CheckUsageUnwired(k) ==
    LET t == task[k] IN
    /\ t.kind = "check_usage"
    /\ task' = [task EXCEPT ![k] = NoTask]
    /\ orch' = [orch EXCEPT ![t.session].exhausted =
                   @ \/ IsExhausted(LiveBalance(t.balance, t.session, "enforced"), "enforced")]
    /\ UNCHANGED <<conn, owner, told, stranded, creditsVars>>

\* creditsExhausted() finalizes whatever the connection's session is now.
CheckUsage(k) ==
    LET t == task[k]
        done == [task EXCEPT ![k] = NoTask]
        orchs == [orch EXCEPT ![t.session].exhausted = TRUE] IN
    /\ t.kind = "check_usage"
    /\ IF ~IsExhausted(LiveBalance(t.balance, t.session, "enforced"), "enforced")
       THEN task' = done /\ UNCHANGED <<conn, orch, creditsVars>>
       ELSE IF Finalizing(t.conn)
       THEN task' = done /\ orch' = orchs /\ UNCHANGED <<conn, creditsVars>>
       ELSE BeginFinalize(t.conn, conn[t.conn], "credits-exhausted", orchs, done)
    /\ UNCHANGED <<owner, told, stranded>>

\* A check after a generation may fail and be logged; a voided one kills.
CheckFails(k) ==
    /\ MaxFaults > 0
    /\ \/ task[k].kind = "qna"
       \/ task[k].kind \in {"check_ledger", "check_usage"} /\ ~task[k].voided
    /\ task' = [task EXCEPT ![k] = NoTask]
    /\ UNCHANGED <<conn, orch, owner, told, stranded, creditsVars>>

Statement(k) == (CallStep(k) \/ StatementLost(k)) /\ UNCHANGED gatewayVars

\* DELETE /sessions/:id, at any time
HttpDelete(s) == DeleteSession(s) /\ UNCHANGED gatewayVars

-----------------------------------------------------------------------------
HandlerStep(c) ==
    \/ HandleAuth(c) \/ HandleStart(c) \/ HandleQuestion(c) \/ HandleStop(c)
    \/ AuthOk(c) \/ StartChecked(c) \/ StartCreated(c)

TaskStep(k) ==
    \/ FinalizeReturned(k) \/ StopFailed(k) \/ RejectionKills(k)
    \/ MeterReturned(k) \/ UsageReturned(k) \/ QnaAppended(k)
    \/ CheckLedger(k) \/ CheckUsage(k)

GatewayNext ==
    \/ \E c \in Conn :
          \/ Connect(c) \/ \E m \in ControlMessage : Receive(c, m)
          \/ Audio(c) \/ SocketCloses(c) \/ RelayClosed(c)
          \/ HandlerStep(c) \/ AuthFails(c) \/ StartFails(c)
    \/ \E s \in Session :
          OlderAnswered(s) \/ NewestAnswered(s) \/ GenerationFails(s) \/ HttpDelete(s)
    \/ \E k \in Call : TaskStep(k) \/ CheckFails(k) \/ Statement(k)
    \/ ProcessCrash

GatewaySpec == GatewayInit /\ [][GatewayNext]_vars

\* The event loop runs what is ready, the database answers, and a socket the
\* server closed is closed in the end; clients, providers and faults owe
\* nothing.
Fairness ==
    /\ \A c \in Conn : /\ WF_vars(HandlerStep(c))
                       /\ WF_vars(RelayClosed(c))
                       /\ WF_vars(conn[c].ws = "closing" /\ SocketCloses(c))
    /\ \A k \in Call : WF_vars(TaskStep(k)) /\ WF_vars(CallStep(k) /\ UNCHANGED gatewayVars)

FairGatewaySpec == GatewaySpec /\ Fairness

-----------------------------------------------------------------------------
(* Properties                                                               *)

\* Nothing of the connection is left to run.
Quiet(c) ==
    /\ conn[c].ws = "closed"
    /\ conn[c].handler = "ready"
    /\ conn[c].inbox = <<>>
    /\ conn[c].ending \in {"no", "done", "failed"}

Ended(s) == sessions[s] = NoRow \/ ~Claimable(s)

\* When a connection has come to rest, each session it created is ended or
\* deleted, except those the code strands: overwritten by a later
\* start_session, created after the last finalize read this.session, or hit by
\* a fault or the death of the process.
SessionsEnd ==
    \A s \in Session : owner[s] # NoConn /\ Quiet(owner[s]) => Ended(s) \/ s \in stranded

\* The session_summary shows what the ledger holds for the session it names.
SummaryIsTheBill ==
    \A t \in told : t.summary =>
        \E i \in DebitsOf(t.shown) : ledger[i].amount = -t.credits

\* The reason in session_ended is the reason recorded for the session.
ToldReasonIsRecorded ==
    \A t \in told : sessions[t.session] = NoRow \/ sessions[t.session].ended = t.reason

\* Units of audio of s on their way into its usage record.
SttInFlight(s) ==
    MapThenSumSet(LAMBDA k : calls[k].delta.stt,
        {k \in Call : calls[k].session = s /\ calls[k].at \in {"usage_get", "usage_upsert"}})

\* Every relayed unit of audio is metered once and for its own session: it is
\* buffered in the relay, on its way to recordUsage, or recorded, whichever
\* frames, flushes and finalizes overlap; unless a recordUsage call of the
\* session was rejected, which is about to kill the process.
AudioMeteredOnce ==
    \A s \in Session :
        sessions[s] # NoRow /\ s \notin stranded
          /\ (\A k \in Call : calls[k].at = "rejected" => calls[k].session # s) =>
        orch[s].relayed = recorded[s].stt + orch[s].pending + SttInFlight(s)

\* Once its connection is closed a session is ended, whatever was in flight.
ClosedSessionsEnd ==
    \A s \in Session :
        (owner[s] # NoConn /\ conn[owner[s]].ws = "closed") ~> (Ended(s) \/ s \in stranded)

\* A session found out of credits is stopped by the server itself, without
\* the client's help (Req 10.2).
ExhaustedSessionsEnd ==
    \A s \in Session : orch[s].exhausted ~> (Ended(s) \/ s \in stranded)

-----------------------------------------------------------------------------
(* What the documents say, and the code does not do: see the README.         *)

\* Every session of a dropped connection is finalized (sessionGateway.ts:320,
\* Req 12.4).
DroppedSessionsEnd ==
    \A s \in Session : owner[s] # NoConn /\ Quiet(owner[s]) => Ended(s)

\* The debit covers all the usage metered for the session, once nothing is on
\* its way (Req 12.5: the gateway computes the final usage, then debits it).
DebitCoversMetering ==
    \A s \in Session : \A i \in DebitsOf(s) :
        (\A k \in Call : calls[k].session # s) => -ledger[i].amount = CreditsFor(recorded[s])

\* What a has left when the usage of its open sessions is taken off (Req 9.4).
Spendable(a) ==
    LET mine == {s \in Session : Claimable(s) /\ sessions[s].account = a}
    IN  LedgerBalance(a) - MapThenSumSet(LAMBDA s : CreditsFor(usage[s]), mine)

\* An enforced session starts only if credit is left (Req 8.3).
StartsWithCredit ==
    [][\A c \in Conn :
          conn[c].handler = "check" /\ conn'[c].handler = "create"
             /\ ModeOf[conn[c].account] = "enforced" => Spendable(conn[c].account) > 0]_vars

\* Nothing that meters or checks s is in flight.
MeteringQuiet(s) ==
    /\ \A k \in Call : task[k].session # s
    /\ ~orch[s].newest /\ orch[s].older = 0

\* With metering at rest, an open enforced session out of credits has been
\* found out and is being stopped.
Noticed(s) ==
    Claimable(s) /\ s \notin stranded /\ Enforced(s) /\ MeteringQuiet(s)
        /\ LedgerBalance(TokenOf[owner[s]]) - CreditsFor(usage[s]) <= 0 =>
    orch[s].exhausted \/ Finalizing(owner[s])

\* No session of another connection has been charged to the account of s.
ChargedAlone(s) ==
    \A i \in DOMAIN ledger : ledger[i].account = TokenOf[owner[s]] => ledger[i].debitOf = s

\* Audio alone never takes a session past its credits unnoticed: the check
\* after each recordUsage sees that call's usage and all before it, though
\* other checks and calls of the session run in between; unless the balance
\* also fell by the settlement of another session, which checks nothing.
AudioExhaustionNoticed ==
    \A s \in Session :
        owner[s] # NoConn /\ recorded[s].llm = 0 /\ ChargedAlone(s) => Noticed(s)

\* When the balance reaches zero, by audio or by answers, the server stops the
\* session (Req 10.2).
ExhaustionNoticed == \A s \in Session : Noticed(s)
=============================================================================
