------------------------------ MODULE SessionClient ------------------------------
(***************************************************************************)
(* The desktop's BackendSessionClient with the user above it and the       *)
(* gateway below: connecting, authenticating, queueing, reconnecting and   *)
(* re-establishing the interview over sockets that break and servers that  *)
(* hang up.  The gateway is SessionGateway reduced to what the client can  *)
(* tell; a message carries, for the properties, the interview it is about. *)
(* set_auto_generate stands for every setting replayed on reconnect.       *)
(***************************************************************************)
EXTENDS Integers, Sequences

CONSTANTS
    MaxSockets,      \* bound: sockets alive at once on either side
    MaxAttempts,     \* maxReconnectAttempts
    MaxInterviews,   \* bound: interviews the user starts
    MaxCommands,     \* bound: other commands the user issues with auth,
    MaxBypassed,     \* ... and without, where fewer steps interleave
    MaxFaults        \* bound: sockets that break or fail to connect

ASSUME ClientAssumption ==
    /\ MaxSockets \in Nat \ {0}
    /\ MaxAttempts \in Nat \ {0}
    /\ {MaxInterviews, MaxCommands, MaxBypassed, MaxFaults} \subseteq Nat

VARIABLES
    client,      \* the BackendSessionClient
    socket,      \* both ends of every WebSocket
    phase,       \* what the renderer shows
    endings,     \* session_ended events between main process and renderer
    account,     \* what the gateway makes of the account; "bypassed" without auth
    used         \* history: interviews, commands and faults so far

vars == <<client, socket, phase, endings, account, used>>

Bypassed == account = "bypassed"

Socket == 1..MaxSockets
NoSocket == 0
Interview == 1..MaxInterviews
NoInterview == 0

Message == [type : {"auth", "start_session", "set_auto_generate", "text_question",
                    "stop_session"},
            interview : 0..MaxInterviews, on : BOOLEAN]
Of(type, n) == [type |-> type, interview |-> n, on |-> FALSE]
AutoOn(n) == [type |-> "set_auto_generate", interview |-> n, on |-> TRUE]

Client == [ws : 0..MaxSockets, connected : BOOLEAN, disposed : BOOLEAN,
           attempts : 0..MaxAttempts, timer : BOOLEAN, pending : Seq(Message),
           desired : 0..MaxInterviews, auto : BOOLEAN, opening : SUBSET Socket]

\* client: how the desktop sees it; "broken" until its close event.  sent and
\* handled: the messages written, and how many the gateway has taken.
SocketRecord == [client : {"closed", "connecting", "open", "broken"},
                 sent : Seq(Message), handled : Nat,
                 server : {"closed", "open", "closing"}, authed : BOOLEAN,
                 session : 0..MaxInterviews, finalizing : BOOLEAN, auto : BOOLEAN,
                 ended : BOOLEAN]
NotInUse == [client |-> "closed", sent |-> <<>>, handled |-> 0, server |-> "closed",
             authed |-> FALSE, session |-> NoInterview, finalizing |-> FALSE,
             auto |-> FALSE, ended |-> FALSE]
Fresh == [NotInUse EXCEPT !.client = "connecting"]

ClientTypeOK ==
    /\ client \in Client
    /\ socket \in [Socket -> SocketRecord]
    /\ \A s \in Socket : socket[s].handled <= Len(socket[s].sent)
    /\ phase \in {"ready", "interview"}
    /\ endings \in Nat
    /\ account \in {"bypassed", "ok", "no_token", "no_credit"}
    /\ used \in [interviews : 0..MaxInterviews, commands : Nat,
                 faults : 0..MaxFaults]

Init ==
    /\ client = [ws |-> NoSocket, connected |-> FALSE, disposed |-> FALSE, attempts |-> 0,
                 timer |-> FALSE, pending |-> <<>>, desired |-> NoInterview,
                 auto |-> FALSE, opening |-> {}]
    /\ socket = [s \in Socket |-> NotInUse]
    /\ phase = "ready"
    /\ endings = 0
    /\ account \in {"bypassed", "ok"}
    /\ used = [interviews |-> 0, commands |-> 0, faults |-> 0]

-----------------------------------------------------------------------------
(* Writing                                                                  *)

\* A socket that is not open drops what is written to it.
Write(s, messages) ==
    IF s # NoSocket /\ socket[s].client = "open"
    THEN [socket EXCEPT ![s].sent = @ \o messages]
    ELSE socket

\* send: on the socket if connected, else on the queue
Send(new, m) ==
    IF new.connected /\ new.ws # NoSocket
    THEN client' = new /\ socket' = Write(new.ws, <<m>>)
    ELSE client' = [new EXCEPT !.pending = Append(@, m)] /\ UNCHANGED socket

\* A socket both ends are done with is forgotten.
Closing(x) ==
    IF x.server = "closed" THEN NotInUse
    ELSE [x EXCEPT !.client = "closed", !.ended = FALSE]

Unoccupied == {s \in Socket \ client.opening : socket[s] = NotInUse}

\* Mutant: open does not look whether there is a socket already.
OpenUnguarded(new) ==
    IF new.disposed
    THEN client' = new /\ UNCHANGED socket
    ELSE /\ Unoccupied # {}
         /\ LET s == CHOOSE t \in Unoccupied : TRUE IN
               /\ client' = [new EXCEPT !.ws = s]
               /\ socket' = [socket EXCEPT ![s] = Fresh]

\* open: a new socket unless there is one
Open(new) ==
    IF new.disposed \/ new.ws # NoSocket
    THEN client' = new /\ UNCHANGED socket
    ELSE /\ Unoccupied # {}
         /\ LET s == CHOOSE t \in Unoccupied : TRUE IN
               /\ client' = [new EXCEPT !.ws = s]
               /\ socket' = [socket EXCEPT ![s] = Fresh]

-----------------------------------------------------------------------------
(* The user                                                                 *)

\* IPC_INTERVIEW_START: start(), then sendStartSession
StartInterview ==
    LET n == used.interviews + 1
        new == [client EXCEPT !.attempts = 0, !.desired = n]
    IN  /\ phase = "ready"
        /\ ~client.disposed
        /\ n \in Interview
        /\ IF client.connected /\ client.ws # NoSocket
           THEN /\ client' = new
                /\ socket' = Write(client.ws, <<Of("start_session", n)>>)
           ELSE Open(new)
        /\ phase' = "interview"
        /\ used' = [used EXCEPT !.interviews = n]
        /\ UNCHANGED <<endings, account>>

Command ==
    /\ phase = "interview"
    /\ ~client.disposed
    /\ used.commands < (IF Bypassed THEN MaxBypassed ELSE MaxCommands)
    /\ used' = [used EXCEPT !.commands = @ + 1]
    /\ UNCHANGED <<phase, endings, account>>

StopInterview ==
    /\ Command
    /\ Send([client EXCEPT !.desired = NoInterview, !.auto = FALSE],
            Of("stop_session", used.interviews))

SetAutoGenerate(enabled) ==
    /\ Command
    /\ Send([client EXCEPT !.auto = enabled],
            [Of("set_auto_generate", used.interviews) EXCEPT !.on = enabled])

SubmitText == Command /\ Send(client, Of("text_question", used.interviews))

\* Choosing another environment or quitting; the object is not used again.
Dispose ==
    /\ ~client.disposed
    /\ client' = [client EXCEPT !.disposed = TRUE, !.connected = FALSE, !.timer = FALSE,
                                !.ws = NoSocket, !.pending = <<>>]
    /\ socket' = IF client.ws = NoSocket THEN socket
                 ELSE [socket EXCEPT ![client.ws] = Closing(@)]
    /\ UNCHANGED <<phase, endings, account, used>>

RendererHearsEnd ==
    /\ endings > 0
    /\ endings' = endings - 1
    /\ phase' = "ready"
    /\ UNCHANGED <<client, socket, account, used>>

-----------------------------------------------------------------------------
(* The client's event handlers                                              *)

\* 'open': handleOpen up to its await of the access token
SocketOpens(s) ==
    /\ socket[s].client = "connecting"
    /\ socket' = [socket EXCEPT ![s].client = "open", ![s].server = "open"]
    /\ client' = [client EXCEPT !.connected = TRUE, !.attempts = 0, !.opening = @ \cup {s}]
    /\ UNCHANGED <<phase, endings, account, used>>

\* Mutant: the running session is not re-established.
ReplayNothing == <<>>

\* Mutant: auto-generate is replayed as on without looking at it.
ReplayAutoAlways ==
    IF client.desired = NoInterview THEN <<>>
    ELSE <<Of("start_session", client.desired), AutoOn(client.desired)>>

Replay ==
    IF client.desired = NoInterview THEN <<>>
    ELSE <<Of("start_session", client.desired)>>
            \o (IF client.auto THEN <<AutoOn(client.desired)>> ELSE <<>>)

\* Mutant: the queue is flushed before the auth message is written.
TokenReadyFlushing(s) ==
    LET done == [client EXCEPT !.opening = @ \ {s}] IN
    /\ s \in client.opening
    /\ client' = [done EXCEPT !.pending = <<>>]
    /\ socket' = Write(client.ws, client.pending \o <<Of("auth", NoInterview)>> \o Replay)
    /\ UNCHANGED <<phase, endings, account, used>>

\* The token is there.  handleOpen writes to whatever socket is current by
\* now; a socket still connecting throws, and nothing more happens.
TokenReady(s) ==
    LET done == [client EXCEPT !.opening = @ \ {s}] IN
    /\ s \in client.opening
    /\ IF client.ws # NoSocket /\ socket[client.ws].client = "connecting"
       THEN client' = done /\ UNCHANGED socket
       ELSE /\ client' = [done EXCEPT !.pending = <<>>]
            /\ socket' = Write(client.ws,
                               <<Of("auth", NoInterview)>> \o Replay \o client.pending)
    /\ UNCHANGED <<phase, endings, account, used>>

\* Mutant: the attempts run out one failure too early.
ScheduleReconnectEager(new) ==
    IF new.timer \/ new.attempts + 1 >= MaxAttempts THEN new
    ELSE [new EXCEPT !.timer = TRUE, !.attempts = @ + 1]

ScheduleReconnect(new) ==
    IF new.timer \/ new.attempts >= MaxAttempts THEN new
    ELSE [new EXCEPT !.timer = TRUE, !.attempts = @ + 1]

\* 'close': handleDisconnect closes whatever socket is current.
SocketCloses(s) ==
    /\ \/ socket[s].client = "broken"
       \/ socket[s].client = "open" /\ socket[s].server = "closing" /\ ~socket[s].ended
    /\ socket' = [t \in Socket |->
                    IF t \in {s, client.ws}
                    THEN Closing(socket[t])
                    ELSE socket[t]]
    /\ LET new == [client EXCEPT !.connected = FALSE, !.ws = NoSocket] IN
       client' = IF client.disposed THEN new ELSE ScheduleReconnect(new)
    /\ UNCHANGED <<phase, endings, account, used>>

TimerFires ==
    /\ client.timer
    /\ Open([client EXCEPT !.timer = FALSE])
    /\ UNCHANGED <<phase, endings, account, used>>

\* session_ended arrives and is passed on; the client itself keeps its state.
ClientHearsEnd(s) ==
    /\ socket[s].client = "open"
    /\ socket[s].ended
    /\ socket' = [socket EXCEPT ![s].ended = FALSE]
    /\ endings' = endings + 1
    /\ UNCHANGED <<client, phase, account, used>>

-----------------------------------------------------------------------------
(* The gateway's end of a socket                                            *)

HangUp(x) == [x EXCEPT !.server = "closing"]

Live(s) == socket[s].session # NoInterview /\ ~socket[s].finalizing

Finalized(x) == [x EXCEPT !.finalizing = TRUE, !.server = "closing",
                          !.ended = x.client = "open"]

\* What handling m makes of the connection x.  A message for which there is
\* no orchestrator does nothing.
Handled(x, m) ==
    CASE m.type = "auth" -> IF account = "no_token" THEN HangUp(x)
                            ELSE [x EXCEPT !.authed = TRUE]
      [] m.type = "start_session" ->
            IF ~x.authed \/ account = "no_credit" THEN HangUp(x)
            ELSE [x EXCEPT !.session = m.interview, !.auto = FALSE]
      [] m.type = "set_auto_generate" ->
            IF x.session = NoInterview THEN x ELSE [x EXCEPT !.auto = m.on]
      [] m.type = "text_question" -> x
      [] m.type = "stop_session" ->
            IF x.session = NoInterview \/ x.finalizing THEN x ELSE Finalized(x)

Handle(s) ==
    LET x == socket[s] IN
    /\ x.server # "closed"
    /\ x.handled < Len(x.sent)
    /\ socket' = [socket EXCEPT ![s] = [Handled(x, x.sent[x.handled + 1])
                                        EXCEPT !.handled = @ + 1]]
    /\ UNCHANGED <<client, phase, endings, account, used>>

CreditsExhausted(s) ==
    /\ account = "no_credit"
    /\ Live(s)
    /\ socket[s].server = "open"
    /\ socket' = [socket EXCEPT ![s] = Finalized(@)]
    /\ UNCHANGED <<client, phase, endings, account, used>>

\* The gateway notices that the other end is gone.
ServerSeesClose(s) ==
    /\ socket[s].server # "closed"
    /\ socket[s].client \in {"broken", "closed"}
    /\ socket' = [socket EXCEPT ![s] = [NotInUse EXCEPT !.client = socket[s].client]]
    /\ UNCHANGED <<client, phase, endings, account, used>>

-----------------------------------------------------------------------------
(* The environment                                                          *)

Break(s) ==
    /\ socket[s].client \in {"connecting", "open"}
    /\ used.faults < MaxFaults
    /\ socket' = [socket EXCEPT ![s].client = "broken", ![s].ended = FALSE]
    /\ used' = [used EXCEPT !.faults = @ + 1]
    /\ UNCHANGED <<client, phase, endings, account>>

\* The credits run out, or the tokens expire for good.
AccountFails ==
    /\ account = "ok"
    /\ account' \in {"no_token", "no_credit"}
    /\ UNCHANGED <<client, socket, phase, endings, used>>

-----------------------------------------------------------------------------
\* Without an AuthManager the token is undefined at once: handleOpen goes on
\* before anything else runs in the main process.
NothingFirst == Bypassed => client.opening = {}

Next ==
    \/ NothingFirst /\ (StartInterview \/ StopInterview \/ SubmitText \/ Dispose)
    \/ NothingFirst /\ (\E enabled \in BOOLEAN : SetAutoGenerate(enabled))
    \/ NothingFirst /\ (RendererHearsEnd \/ TimerFires \/ AccountFails)
    \/ \E s \in Socket : TokenReady(s)
    \/ NothingFirst /\ \E s \in Socket :
          \/ SocketOpens(s) \/ SocketCloses(s) \/ ClientHearsEnd(s)
          \/ Handle(s) \/ CreditsExhausted(s) \/ ServerSeesClose(s)
          \/ Break(s)

Spec == Init /\ [][Next]_vars

\* Events that are due are delivered: timers fire, the event loops of desktop
\* and gateway run, a connecting socket opens or breaks, tokens are fetched.
\* The user and the faults are free.
Fairness ==
    /\ WF_vars(RendererHearsEnd)
    /\ WF_vars(TimerFires)
    /\ \A s \in Socket :
          /\ WF_vars(SocketOpens(s))
          /\ WF_vars(TokenReady(s))
          /\ WF_vars(SocketCloses(s))
          /\ WF_vars(ClientHearsEnd(s))
          /\ WF_vars(Handle(s))
          /\ WF_vars(CreditsExhausted(s))
          /\ WF_vars(ServerSeesClose(s))

FairSpec == Spec /\ Fairness

-----------------------------------------------------------------------------
(* Properties                                                               *)

\* At most one connection at a time, and no event handler of an old socket
\* harms the current one (requirement 5.1): every socket but the current one
\* is closed on the client's side, and connected means that the current
\* socket has opened.
OneConnection ==
    /\ \A s \in Socket \ {client.ws} : socket[s].client = "closed"
    /\ client.connected => client.ws # NoSocket /\ socket[client.ws].client # "connecting"

\* A client that wants an interview is never left with nothing that would
\* bring it back: without a socket its timer runs unless it has given up, and
\* an open socket has been authenticated or is about to be.
NeverStranded ==
    client.desired # NoInterview /\ ~client.disposed =>
        /\ client.ws = NoSocket => client.timer \/ client.attempts = MaxAttempts
        /\ client.connected /\ socket[client.ws].client = "open" =>
              \/ client.ws \in client.opening
              \/ \E i \in DOMAIN socket[client.ws].sent :
                    socket[client.ws].sent[i].type = "auth"

Refused == account \in {"no_token", "no_credit"}
InterviewRuns ==
    /\ client.ws # NoSocket
    /\ Live(client.ws)
    /\ socket[client.ws].session = client.desired
GaveUp == client.ws = NoSocket /\ ~client.timer

\* A dropped socket never loses the running interview (backendSessionClient.ts
\* 82-87): while it is wanted and the account is good, the gateway comes to
\* run a session for it again, unless the attempts are used up.
InterviewResumes ==
    [](client.desired # NoInterview =>
        <>(InterviewRuns \/ client.desired = NoInterview \/ Refused \/ GaveUp))

\* Without auth the handshake is atomic in the main process, and the order of
\* what is written is right whatever broke before.  With auth it is not:
\* CommandsWaitForAuth, below.

\* Once nothing is in flight the gateway's session generates answers by itself
\* only if the user has that switched on, whatever was queued, replayed, lost
\* or stopped on the way.
Settled ==
    /\ client.connected
    /\ client.opening = {}
    /\ \A s \in Socket : socket[s].handled = Len(socket[s].sent)
    /\ socket[client.ws].client = "open"
NeverAutoUnasked ==
    Bypassed /\ Settled /\ InterviewRuns /\ socket[client.ws].auto => client.auto

\* The auth message comes first on every connection ("Auth handshake first",
\* backendSessionClient.ts:135).
AuthComesFirst ==
    \A s \in Socket : socket[s].sent # <<>> => socket[s].sent[1].type = "auth"

\* A connection carries one start_session per interview ("do NOT also queue
\* it, or it would be sent twice", backendSessionClient.ts:281).
StartedOncePerConnection ==
    \A s \in Socket : \A i, j \in DOMAIN socket[s].sent :
        /\ socket[s].sent[i].type = "start_session"
        /\ socket[s].sent[j].type = "start_session"
        /\ socket[s].sent[i].interview = socket[s].sent[j].interview
        => i = j

\* Both, on every connection of a client without auth, whatever was queued,
\* replayed and lost before.
HandshakeInOrder == Bypassed => AuthComesFirst /\ StartedOncePerConnection

-----------------------------------------------------------------------------
(* What the documents say, and the code does not do: see the README.         *)

\* With auth, too: connected is set before the access token is awaited, and a
\* command issued meanwhile is written before auth.
CommandsWaitForAuth == AuthComesFirst

\* stop_session ends the interview the user stopped, no later one.
StopsItsOwn ==
    [][\A s \in Socket :
          socket[s].handled < socket'[s].handled /\ ~socket[s].finalizing =>
             LET m == socket[s].sent[socket'[s].handled] IN
             m.type = "stop_session" => socket[s].session \in {NoInterview, m.interview}
      ]_vars

\* Reconnecting is bounded (design.md:1000): a client whose account is refused
\* gives up in the end, unless the user stops.
ReconnectsBounded ==
    [](client.desired # NoInterview /\ Refused =>
        <>(GaveUp \/ client.desired = NoInterview))

\* An interview the user ended leaves the screen (requirement 12.6, the
\* gateway answers the stop).
StopEndsInterview ==
    [](client.desired = NoInterview /\ phase = "interview" =>
        <>(phase = "ready" \/ Refused \/ client.disposed))
=============================================================================
