------------------------------ MODULE ClientProofs ------------------------------
(***************************************************************************)
(* The session client of the desktop, for every number of sockets,         *)
(* attempts, interviews, commands and faults: it has one connection at a   *)
(* time, and is never left without a way back to its interview.            *)
(***************************************************************************)
EXTENDS SessionClient, SequenceTheorems, TLAPS

-----------------------------------------------------------------------------
(* Types *)

\* The two kinds of messages the client makes are messages.
LEMMA MessageTypes ==
    ASSUME NEW n \in 0..MaxInterviews
    PROVE  /\ \A type \in {"auth", "start_session", "set_auto_generate", "text_question",
                           "stop_session"} : Of(type, n) \in Message
           /\ AutoOn(n) \in Message
           /\ \A b \in BOOLEAN : [Of("set_auto_generate", n) EXCEPT !.on = b] \in Message
BY DEF Of, AutoOn, Message

\* What is replayed is a sequence of messages.
LEMMA ReplayType ==
    ASSUME ClientTypeOK
    PROVE  Replay \in Seq(Message)
<1>1. client.desired \in 0..MaxInterviews
  BY DEF ClientTypeOK, Client
<1>2. Of("start_session", client.desired) \in Message /\ AutoOn(client.desired) \in Message
  BY <1>1, MessageTypes
<1> QED
  BY <1>2 DEF Replay

\* A socket that nobody uses, and one just opened, are sockets.
LEMMA FreshTypes ==
    /\ NotInUse \in SocketRecord /\ Fresh \in SocketRecord
    /\ NotInUse.client = "closed" /\ Fresh.client = "connecting"
    /\ NotInUse.sent = <<>> /\ Fresh.sent = <<>>
    /\ NotInUse.handled = 0 /\ Fresh.handled = 0
<1>1. 0 \in 0..MaxInterviews
  BY ClientAssumption
<1>2. <<>> \in Seq(Message)
  OBVIOUS
<1>3. NotInUse \in SocketRecord
  BY <1>1, <1>2 DEF NotInUse, SocketRecord, NoInterview
<1>4. Fresh \in SocketRecord /\ Fresh.client = "connecting" /\ Fresh.sent = NotInUse.sent
      /\ Fresh.handled = NotInUse.handled
  <2> HIDE DEF NotInUse
  <2> QED
    BY <1>3 DEF Fresh, SocketRecord
<1> QED
  BY <1>3, <1>4 DEF NotInUse

\* What has been written stays, and the ends are where they were.
Grown(x, y) ==
    /\ y \in SocketRecord
    /\ y.client = x.client
    /\ y.handled <= Len(y.sent)
    /\ \A i \in DOMAIN x.sent : i \in DOMAIN y.sent /\ y.sent[i] = x.sent[i]

SocketsGrown == socket' \in [Socket -> SocketRecord] /\ \A t \in Socket : Grown(socket[t], socket'[t])

\* Writing adds messages to an open socket.
LEMMA WriteGrows ==
    ASSUME ClientTypeOK, NEW s \in 0..MaxSockets, NEW ms \in Seq(Message), socket' = Write(s, ms)
    PROVE  /\ SocketsGrown
           /\ s # NoSocket /\ socket[s].client = "open" => socket'[s].sent = socket[s].sent \o ms
<1>1. /\ socket \in [Socket -> SocketRecord] /\ \A t \in Socket : socket[t].handled <= Len(socket[t].sent)
  BY DEF ClientTypeOK
<1>2. \A t \in Socket : Grown(socket[t], socket[t])
  BY <1>1 DEF Grown
<1>3. CASE s # NoSocket /\ socket[s].client = "open"
  <2>1. s \in Socket
    BY <1>3, ClientAssumption DEF Socket, NoSocket
  <2> DEFINE x == socket[s]
             y == [x EXCEPT !.sent = x.sent \o ms]
  <2>2. socket' = [socket EXCEPT ![s] = y]
    BY <1>3 DEF Write
  <2>3. x \in SocketRecord /\ x.sent \in Seq(Message) /\ x.handled \in Nat
    BY <1>1, <2>1 DEF SocketRecord
  <2>4. /\ x.sent \o ms \in Seq(Message) /\ Len(x.sent \o ms) = Len(x.sent) + Len(ms)
        /\ \A i \in DOMAIN x.sent : i \in DOMAIN (x.sent \o ms) /\ (x.sent \o ms)[i] = x.sent[i]
    BY <2>3
  <2>5. /\ y \in SocketRecord /\ y.sent = x.sent \o ms /\ y.client = x.client
        /\ y.handled = x.handled
    BY <2>3, <2>4 DEF SocketRecord
  <2>6. y.handled <= Len(y.sent)
    BY <1>1, <2>1, <2>3, <2>4, <2>5
  <2>7. Grown(x, y)
    BY <2>4, <2>5, <2>6 DEF Grown
  <2> HIDE DEF y
  <2>8. socket'[s] = y /\ \A t \in Socket : t # s => socket'[t] = socket[t]
    BY <1>1, <2>1, <2>2
  <2> QED
    BY <1>1, <1>2, <2>2, <2>5, <2>7, <2>8 DEF SocketsGrown
<1>4. CASE ~(s # NoSocket /\ socket[s].client = "open")
  BY <1>1, <1>2, <1>4 DEF Write, SocketsGrown
<1> QED
  BY <1>3, <1>4

-----------------------------------------------------------------------------
(* The invariant                                                            *)

\* Without a socket the timer runs, unless the attempts are used up.
Awake ==
    client.desired # NoInterview /\ ~client.disposed /\ client.ws = NoSocket =>
        client.timer \/ client.attempts = MaxAttempts

HasAuth(t) == \E i \in DOMAIN socket[t].sent : socket[t].sent[i].type = "auth"

\* An open socket has been authenticated, or is about to be, whatever is wanted.
Handshake ==
    client.connected /\ socket[client.ws].client = "open" =>
        client.ws \in client.opening \/ HasAuth(client.ws)

ClientInv == ClientTypeOK /\ OneConnection /\ Awake /\ Handshake

\* The invariant gives what the run checks.
LEMMA InvGivesNeverStranded == ClientInv => NeverStranded
BY DEF ClientInv, Awake, Handshake, HasAuth, NeverStranded

\* The first state: nothing is connected and nothing is wanted.
LEMMA InitClientInv == Init => ClientInv
<1> SUFFICES ASSUME Init PROVE ClientInv
  OBVIOUS
<1>1. NotInUse \in SocketRecord /\ NotInUse.client = "closed" /\ NotInUse.sent = <<>>
      /\ NotInUse.handled = 0
  BY FreshTypes
<1>2. /\ socket \in [Socket -> SocketRecord]
      /\ \A t \in Socket : socket[t] = NotInUse
  BY <1>1 DEF Init
<1>3. \A t \in Socket : socket[t].handled <= Len(socket[t].sent)
  BY <1>1, <1>2
<1>4. client \in Client
  <2>1. <<>> \in Seq(Message)
    OBVIOUS
  <2> QED
    BY <2>1, ClientAssumption DEF Init, Client, NoSocket, NoInterview
<1>5. used \in [interviews : 0..MaxInterviews, commands : Nat, faults : 0..MaxFaults]
  BY ClientAssumption DEF Init
<1>6. ClientTypeOK
  BY <1>2, <1>3, <1>4, <1>5 DEF ClientTypeOK, Init
<1>7. OneConnection /\ Awake /\ Handshake
  BY <1>1, <1>2 DEF OneConnection, Awake, Handshake, Init
<1> QED
  BY <1>6, <1>7 DEF ClientInv

-----------------------------------------------------------------------------
(* Steps that only write, and steps that open a socket                      *)

\* What the invariant says of the state of the client, its socket apart.
ClientKeeps ==
    /\ client'.ws = client.ws /\ client'.connected = client.connected
    /\ client'.opening = client.opening

\* A step that only lets sockets grow keeps the invariant of the sockets.
LEMMA GrowthKeeps ==
    ASSUME ClientInv, SocketsGrown, ClientKeeps
    PROVE  /\ socket' \in [Socket -> SocketRecord]
           /\ \A s \in Socket : socket'[s].handled <= Len(socket'[s].sent)
           /\ OneConnection' /\ Handshake'
<1> DEFINE ws == client.ws
<1>1. /\ \A t \in Socket : socket'[t] \in SocketRecord /\ socket'[t].client = socket[t].client
      /\ \A t \in Socket : socket'[t].handled <= Len(socket'[t].sent)
      /\ \A t \in Socket : HasAuth(t) => HasAuth(t)'
  BY DEF SocketsGrown, Grown, HasAuth
<1>2. socket' \in [Socket -> SocketRecord]
  BY DEF SocketsGrown
<1>3. ws \in {NoSocket} \cup Socket
  BY ClientAssumption DEF ClientInv, ClientTypeOK, Client, Socket, NoSocket
<1>4. OneConnection'
  BY <1>1, <1>3 DEF ClientInv, OneConnection, ClientKeeps
<1>5. ASSUME client'.connected, socket'[client'.ws].client = "open"
      PROVE  client'.ws \in client'.opening \/ HasAuth(client.ws)'
  <2>1. client.connected /\ client'.ws = ws /\ ws # NoSocket
    BY <1>5 DEF ClientInv, OneConnection, ClientKeeps
  <2>2. socket[ws].client = "open"
    BY <1>1, <1>3, <1>5, <2>1
  <2>3. ws \in client.opening \/ HasAuth(ws)
    BY <2>1, <2>2 DEF ClientInv, Handshake
  <2> QED
    BY <1>1, <1>3, <2>1, <2>3 DEF ClientKeeps
<1>6. Handshake'
  BY <1>5 DEF Handshake, HasAuth, ClientKeeps
<1> QED
  BY <1>1, <1>2, <1>4, <1>6

\* Nothing grows when nothing changes.
LEMMA StillGrown ==
    ASSUME ClientInv, UNCHANGED socket
    PROVE  SocketsGrown
BY DEF ClientInv, ClientTypeOK, SocketsGrown, Grown

\* Opening: if there is no socket, the new one is current and connecting.
LEMMA OpenKeeps ==
    ASSUME ClientInv, NEW new \in Client, Open(new), new.ws = client.ws,
           new.connected = client.connected, new.opening = client.opening,
           new.disposed = client.disposed
    PROVE  /\ client' \in Client
           /\ socket' \in [Socket -> SocketRecord]
           /\ \A s \in Socket : socket'[s].handled <= Len(socket'[s].sent)
           /\ OneConnection' /\ Handshake'
           /\ client'.disposed \/ client'.ws # NoSocket
           /\ client'.disposed = new.disposed /\ client'.desired = new.desired
<1>1. CASE new.disposed \/ new.ws # NoSocket
  <2>1. client' = new /\ UNCHANGED socket
    BY <1>1 DEF Open
  <2>2. SocketsGrown /\ ClientKeeps
    BY <2>1, StillGrown DEF ClientKeeps
  <2> QED
    BY <1>1, <2>1, <2>2, GrowthKeeps
<1>2. CASE ~(new.disposed \/ new.ws # NoSocket)
  <2>1. PICK s \in Socket :
          /\ client' = [new EXCEPT !.ws = s]
          /\ socket' = [socket EXCEPT ![s] = Fresh]
    BY <1>2 DEF Open, Unoccupied
  <2>2. socket \in [Socket -> SocketRecord] /\ \A t \in Socket : socket[t].handled <= Len(socket[t].sent)
    BY DEF ClientInv, ClientTypeOK
  <2>3. s \in 0..MaxSockets /\ s # NoSocket
    BY ClientAssumption DEF Socket, NoSocket
  <2>4. /\ client' \in Client /\ client'.ws = s /\ client'.connected = new.connected
        /\ client'.disposed = new.disposed /\ client'.desired = new.desired
    BY <2>1, <2>3 DEF Client
  <2>5. /\ socket' \in [Socket -> SocketRecord] /\ socket'[s] = Fresh
        /\ \A t \in Socket : t # s => socket'[t] = socket[t]
    BY <2>1, <2>2, FreshTypes
  <2>6. ~client'.connected /\ \A t \in Socket : socket[t].client = "closed"
    BY <1>2, <2>4 DEF ClientInv, OneConnection, Socket, NoSocket
  <2>7. \A t \in Socket : socket'[t].handled <= Len(socket'[t].sent)
    <3>1. Fresh.handled <= Len(Fresh.sent)
      BY FreshTypes
    <3> QED
      BY <2>2, <2>5, <3>1
  <2>8. OneConnection' /\ Handshake'
    BY <2>4, <2>5, <2>6 DEF OneConnection, Handshake
  <2> QED
    BY <2>3, <2>4, <2>5, <2>7, <2>8
<1> QED
  BY <1>1, <1>2

\* What the invariant is made of, for the steps below.
LEMMA Assembled ==
    ASSUME client' \in Client, socket' \in [Socket -> SocketRecord],
           \A s \in Socket : socket'[s].handled <= Len(socket'[s].sent),
           phase' \in {"ready", "interview"}, endings' \in Nat,
           account' \in {"bypassed", "ok", "no_token", "no_credit"},
           used' \in [interviews : 0..MaxInterviews, commands : Nat, faults : 0..MaxFaults],
           OneConnection', Awake', Handshake'
    PROVE  ClientInv'
BY DEF ClientInv, ClientTypeOK

\* A step of one socket that lets it grow lets all grow.
LEMMA OneGrows ==
    ASSUME ClientInv, NEW s \in Socket, NEW y, Grown(socket[s], y),
           socket' = [socket EXCEPT ![s] = y]
    PROVE  SocketsGrown
<1>1. socket \in [Socket -> SocketRecord] /\ y \in SocketRecord
  BY DEF ClientInv, ClientTypeOK, Grown
<1>2. socket' \in [Socket -> SocketRecord] /\ socket'[s] = y
      /\ \A t \in Socket : t # s => socket'[t] = socket[t]
  BY <1>1
<1>3. \A t \in Socket : Grown(socket[t], socket[t])
  BY DEF ClientInv, ClientTypeOK, Grown
<1> QED
  BY <1>2, <1>3 DEF SocketsGrown

\* A step after which the client has no use for the socket, and had none if it
\* was closed, keeps the invariant of the sockets.
LEMMA DeadKeeps ==
    ASSUME ClientInv, ClientKeeps, NEW s \in Socket, NEW y \in SocketRecord,
           socket' = [socket EXCEPT ![s] = y], y.handled <= Len(y.sent),
           y.client \in {"broken", "closed"}, socket[s].client = "closed" => y.client = "closed"
    PROVE  /\ socket' \in [Socket -> SocketRecord]
           /\ \A t \in Socket : socket'[t].handled <= Len(socket'[t].sent)
           /\ OneConnection' /\ Handshake'
<1>1. /\ socket \in [Socket -> SocketRecord]
      /\ \A t \in Socket : socket[t].handled <= Len(socket[t].sent)
      /\ client.ws \in {NoSocket} \cup Socket
  BY ClientAssumption DEF ClientInv, ClientTypeOK, Client, Socket, NoSocket
<1>2. socket' \in [Socket -> SocketRecord] /\ socket'[s] = y
      /\ \A t \in Socket : t # s => socket'[t] = socket[t]
  BY <1>1
<1>3. \A t \in Socket : socket'[t].handled <= Len(socket'[t].sent)
  BY <1>1, <1>2
<1>4. OneConnection'
  BY <1>1, <1>2 DEF ClientInv, OneConnection, ClientKeeps
<1>5. ASSUME client'.connected, socket'[client'.ws].client = "open"
      PROVE  client'.ws \in client'.opening
             \/ \E i \in DOMAIN socket'[client'.ws].sent :
                   socket'[client'.ws].sent[i].type = "auth"
  <2>1. client.connected /\ client'.ws = client.ws /\ client.ws \in Socket /\ client.ws # s
    BY <1>1, <1>2, <1>5 DEF ClientInv, OneConnection, ClientKeeps
  <2>2. socket'[client.ws] = socket[client.ws]
    BY <1>2, <2>1
  <2>3. client.ws \in client.opening \/ HasAuth(client.ws)
    BY <1>5, <2>1, <2>2 DEF ClientInv, Handshake
  <2> QED
    BY <2>1, <2>2, <2>3 DEF HasAuth, ClientKeeps
<1>6. Handshake'
  BY <1>5 DEF Handshake, HasAuth
<1> QED
  BY <1>2, <1>3, <1>4, <1>6

\* Sending writes to the current socket, or queues.
LEMMA SendKeeps ==
    ASSUME ClientInv, NEW new \in Client, NEW m \in Message, Send(new, m),
           new.ws = client.ws, new.connected = client.connected, new.opening = client.opening
    PROVE  /\ client' \in Client
           /\ socket' \in [Socket -> SocketRecord]
           /\ \A s \in Socket : socket'[s].handled <= Len(socket'[s].sent)
           /\ OneConnection' /\ Handshake'
           /\ client'.ws = new.ws /\ client'.disposed = new.disposed
           /\ client'.desired = new.desired /\ client'.timer = new.timer
           /\ client'.attempts = new.attempts
<1>1. CASE new.connected /\ new.ws # NoSocket
  <2>1. client' = new /\ socket' = Write(new.ws, <<m>>)
    BY <1>1 DEF Send
  <2>2. new.ws \in 0..MaxSockets /\ <<m>> \in Seq(Message) /\ ClientTypeOK
    BY DEF Client, ClientInv
  <2>3. SocketsGrown
    BY <2>1, <2>2, WriteGrows
  <2> QED
    BY <2>1, <2>3, GrowthKeeps DEF ClientKeeps
<1>2. CASE ~(new.connected /\ new.ws # NoSocket)
  <2>1. client' = [new EXCEPT !.pending = Append(new.pending, m)] /\ UNCHANGED socket
    BY <1>2 DEF Send
  <2>2. new.pending \in Seq(Message)
    BY DEF Client
  <2>3. Append(new.pending, m) \in Seq(Message)
    BY <2>2
  <2>4. /\ client' \in Client
        /\ client'.ws = new.ws /\ client'.disposed = new.disposed
        /\ client'.desired = new.desired /\ client'.timer = new.timer
        /\ client'.attempts = new.attempts /\ ClientKeeps
    BY <2>1, <2>3 DEF Client, ClientKeeps
  <2> QED
    BY <2>1, <2>4, StillGrown, GrowthKeeps
<1> QED
  BY <1>1, <1>2

-----------------------------------------------------------------------------
(* The user's steps                                                         *)

\* The counters stay in their bounds.
LEMMA UsedTypes ==
    ASSUME ClientInv
    PROVE  /\ \A n \in 0..MaxInterviews : [used EXCEPT !.interviews = n]
                \in [interviews : 0..MaxInterviews, commands : Nat, faults : 0..MaxFaults]
           /\ [used EXCEPT !.commands = @ + 1]
                \in [interviews : 0..MaxInterviews, commands : Nat, faults : 0..MaxFaults]
           /\ used.faults < MaxFaults => [used EXCEPT !.faults = @ + 1]
                \in [interviews : 0..MaxInterviews, commands : Nat, faults : 0..MaxFaults]
BY ClientAssumption DEF ClientInv, ClientTypeOK

\* Starting an interview: it is wanted, and there is a socket.
LEMMA StartInterviewKeeps == ClientInv /\ StartInterview => ClientInv'
<1> SUFFICES ASSUME ClientInv, StartInterview PROVE ClientInv'
  OBVIOUS
<1> DEFINE n == used.interviews + 1
           new == [client EXCEPT !.attempts = 0, !.desired = n]
<1>1. n \in 0..MaxInterviews
  BY ClientAssumption DEF StartInterview, Interview
<1>2. /\ new \in Client /\ new.ws = client.ws /\ new.connected = client.connected
      /\ new.opening = client.opening /\ new.disposed = client.disposed /\ ~new.disposed
  <2>1. client \in Client /\ 0 \in 0..MaxAttempts /\ ~client.disposed
    BY ClientAssumption DEF ClientInv, ClientTypeOK, StartInterview
  <2> HIDE DEF n
  <2> QED
    BY <1>1, <2>1 DEF Client
<1>3. IF client.connected /\ client.ws # NoSocket
      THEN client' = new /\ socket' = Write(client.ws, <<Of("start_session", n)>>)
      ELSE Open(new)
  BY DEF StartInterview
<1>4. /\ used' \in [interviews : 0..MaxInterviews, commands : Nat, faults : 0..MaxFaults]
      /\ phase' = "interview" /\ UNCHANGED <<endings, account>>
  BY <1>1, UsedTypes DEF StartInterview
<1>5. /\ client' \in Client
      /\ socket' \in [Socket -> SocketRecord]
      /\ \A s \in Socket : socket'[s].handled <= Len(socket'[s].sent)
      /\ OneConnection' /\ Handshake'
      /\ client'.ws # NoSocket
  <2> HIDE DEF n, new
  <2>1. CASE client.connected /\ client.ws # NoSocket
    <3>1. client' = new /\ socket' = Write(client.ws, <<Of("start_session", n)>>)
      BY <1>3, <2>1
    <3>2. <<Of("start_session", n)>> \in Seq(Message)
      BY <1>1, MessageTypes
    <3>3. SocketsGrown
      BY <3>1, <3>2, WriteGrows DEF ClientInv, ClientTypeOK, Client
    <3> QED
      BY <1>2, <2>1, <3>1, <3>3, GrowthKeeps DEF ClientKeeps
  <2>2. CASE ~(client.connected /\ client.ws # NoSocket)
    BY <1>2, <1>3, <2>2, OpenKeeps
  <2> QED
    BY <2>1, <2>2
<1>6. Awake'
  BY <1>5 DEF Awake
<1>7. phase' \in {"ready", "interview"} /\ endings' \in Nat
      /\ account' \in {"bypassed", "ok", "no_token", "no_credit"}
  BY <1>4 DEF ClientInv, ClientTypeOK
<1> QED
  BY <1>4, <1>5, <1>6, <1>7, Assembled

\* What every command leaves as it was.
LEMMA CommandTypes ==
    ASSUME ClientInv, Command
    PROVE  /\ used' \in [interviews : 0..MaxInterviews, commands : Nat, faults : 0..MaxFaults]
           /\ phase' \in {"ready", "interview"} /\ endings' \in Nat
           /\ account' \in {"bypassed", "ok", "no_token", "no_credit"}
<1>1. used' = [used EXCEPT !.commands = @ + 1] /\ UNCHANGED <<phase, endings, account>>
  BY DEF Command
<1>2. used' \in [interviews : 0..MaxInterviews, commands : Nat, faults : 0..MaxFaults]
  BY <1>1, UsedTypes
<1> QED
  BY <1>1, <1>2 DEF ClientInv, ClientTypeOK

\* Stopping: nothing is wanted any more.
LEMMA StopInterviewKeeps == ClientInv /\ StopInterview => ClientInv'
<1> SUFFICES ASSUME ClientInv, StopInterview PROVE ClientInv'
  OBVIOUS
<1> DEFINE new == [client EXCEPT !.desired = NoInterview, !.auto = FALSE]
<1>1. /\ new \in Client /\ new.ws = client.ws /\ new.connected = client.connected
      /\ new.opening = client.opening /\ new.desired = NoInterview
  <2>1. client \in Client /\ NoInterview \in 0..MaxInterviews
    BY ClientAssumption DEF ClientInv, ClientTypeOK, NoInterview
  <2> QED
    BY <2>1 DEF Client
<1>2. Of("stop_session", used.interviews) \in Message
  BY MessageTypes DEF ClientInv, ClientTypeOK
<1>3. Send(new, Of("stop_session", used.interviews)) /\ Command
  BY DEF StopInterview
<1> HIDE DEF new
<1>4. /\ client' \in Client
      /\ socket' \in [Socket -> SocketRecord]
      /\ \A s \in Socket : socket'[s].handled <= Len(socket'[s].sent)
      /\ OneConnection' /\ Handshake'
      /\ client'.desired = NoInterview
  BY <1>1, <1>2, <1>3, SendKeeps
<1>5. Awake'
  BY <1>4 DEF Awake
<1> QED
  BY <1>3, <1>4, <1>5, CommandTypes, Assembled

\* A command whose sending changes neither what is wanted nor the timer.
LEMMA PlainSendKeeps ==
    ASSUME ClientInv, NEW new \in Client, NEW m \in Message, Command, Send(new, m),
           new.ws = client.ws, new.connected = client.connected,
           new.opening = client.opening, new.disposed = client.disposed,
           new.desired = client.desired, new.timer = client.timer,
           new.attempts = client.attempts
    PROVE  ClientInv'
<1>1. /\ client' \in Client
      /\ socket' \in [Socket -> SocketRecord]
      /\ \A s \in Socket : socket'[s].handled <= Len(socket'[s].sent)
      /\ OneConnection' /\ Handshake'
      /\ client'.ws = new.ws /\ client'.disposed = new.disposed
      /\ client'.desired = new.desired /\ client'.timer = new.timer
      /\ client'.attempts = new.attempts
  BY SendKeeps
<1>2. Awake'
  BY <1>1 DEF ClientInv, Awake
<1> QED
  BY <1>1, <1>2, CommandTypes, Assembled

\* Switching auto-generate sends its message, and no more.
LEMMA SetAutoGenerateKeeps ==
    ASSUME ClientInv, NEW enabled \in BOOLEAN, SetAutoGenerate(enabled)
    PROVE  ClientInv'
<1> DEFINE new == [client EXCEPT !.auto = enabled]
           m == [Of("set_auto_generate", used.interviews) EXCEPT !.on = enabled]
<1>1. /\ new \in Client /\ new.ws = client.ws /\ new.connected = client.connected
      /\ new.opening = client.opening /\ new.disposed = client.disposed
      /\ new.desired = client.desired /\ new.timer = client.timer
      /\ new.attempts = client.attempts
  BY DEF ClientInv, ClientTypeOK, Client
<1>2. m \in Message
  BY MessageTypes DEF ClientInv, ClientTypeOK
<1>3. Send(new, m) /\ Command
  BY DEF SetAutoGenerate
<1> HIDE DEF new, m
<1> QED
  BY <1>1, <1>2, <1>3, PlainSendKeeps

\* A typed question is sent, and no more.
LEMMA SubmitTextKeeps == ClientInv /\ SubmitText => ClientInv'
<1> SUFFICES ASSUME ClientInv, SubmitText PROVE ClientInv'
  OBVIOUS
<1>1. client \in Client /\ Of("text_question", used.interviews) \in Message
  BY MessageTypes DEF ClientInv, ClientTypeOK
<1> QED
  BY <1>1, PlainSendKeeps DEF SubmitText

\* A socket closed by the client is closed.
LEMMA ClosingType ==
    ASSUME NEW x \in SocketRecord, x.handled <= Len(x.sent)
    PROVE  /\ Closing(x) \in SocketRecord /\ Closing(x).client = "closed"
           /\ Closing(x).handled <= Len(Closing(x).sent)
<1>1. CASE x.server = "closed"
  <2>1. Closing(x) = NotInUse
    BY <1>1 DEF Closing
  <2>2. NotInUse \in SocketRecord /\ NotInUse.client = "closed"
        /\ NotInUse.handled <= Len(NotInUse.sent)
    BY FreshTypes
  <2> QED
    BY <2>1, <2>2
<1>2. CASE x.server # "closed"
  BY <1>2 DEF Closing, SocketRecord
<1> QED
  BY <1>1, <1>2

\* Disposing: nothing is left open.
LEMMA DisposeKeeps == ClientInv /\ Dispose => ClientInv'
<1> SUFFICES ASSUME ClientInv, Dispose PROVE ClientInv'
  OBVIOUS
<1>1. /\ socket \in [Socket -> SocketRecord]
      /\ \A t \in Socket : socket[t].handled <= Len(socket[t].sent)
      /\ client \in Client
  BY DEF ClientInv, ClientTypeOK
<1>2. <<>> \in Seq(Message)
  OBVIOUS
<1>3. /\ client' \in Client /\ client'.ws = NoSocket /\ ~client'.connected /\ client'.disposed
  <2>1. NoSocket \in 0..MaxSockets
    BY ClientAssumption DEF NoSocket
  <2>2. client' = [client EXCEPT !.disposed = TRUE, !.connected = FALSE, !.timer = FALSE,
                                 !.ws = NoSocket, !.pending = <<>>]
    BY DEF Dispose
  <2> QED
    BY <1>1, <1>2, <2>1, <2>2 DEF Client
<1>4. /\ socket' \in [Socket -> SocketRecord]
      /\ \A t \in Socket : /\ socket'[t].handled <= Len(socket'[t].sent)
                           /\ socket'[t].client = "closed"
  <2>1. CASE client.ws = NoSocket
    BY <1>1, <2>1 DEF Dispose, ClientInv, OneConnection, NoSocket, Socket
  <2>2. CASE client.ws # NoSocket
    <3> DEFINE s == client.ws
               y == Closing(socket[s])
    <3>1. s \in Socket
      BY <1>1, <2>2, ClientAssumption DEF Client, Socket, NoSocket
    <3>2. y \in SocketRecord /\ y.client = "closed" /\ y.handled <= Len(y.sent)
      BY <1>1, <3>1, ClosingType
    <3>3. socket' = [socket EXCEPT ![s] = y]
      BY <2>2 DEF Dispose
    <3> HIDE DEF y
    <3>4. socket' \in [Socket -> SocketRecord] /\ socket'[s] = y
          /\ \A t \in Socket : t # s => socket'[t] = socket[t]
      BY <1>1, <3>1, <3>2, <3>3
    <3>5. \A t \in Socket : t # s => socket[t].client = "closed"
      BY DEF ClientInv, OneConnection
    <3> QED
      BY <1>1, <3>1, <3>2, <3>4, <3>5
  <2> QED
    BY <2>1, <2>2
<1>5. OneConnection' /\ Awake' /\ Handshake'
  BY <1>3, <1>4 DEF OneConnection, Awake, Handshake
<1> QED
  BY <1>3, <1>4, <1>5, Assembled DEF Dispose, ClientInv, ClientTypeOK

\* The end of the interview is shown.
LEMMA RendererHearsEndKeeps == ClientInv /\ RendererHearsEnd => ClientInv'
<1> SUFFICES ASSUME ClientInv, RendererHearsEnd PROVE ClientInv'
  OBVIOUS
<1>1. UNCHANGED <<client, socket, account, used>> /\ phase' = "ready" /\ endings' \in Nat
  BY DEF RendererHearsEnd, ClientInv, ClientTypeOK
<1>2. OneConnection' /\ Awake' /\ Handshake'
  BY <1>1 DEF ClientInv, OneConnection, Awake, Handshake, HasAuth
<1> QED
  BY <1>1, <1>2, Assembled DEF ClientInv, ClientTypeOK

-----------------------------------------------------------------------------
(* The client's event handlers                                              *)

\* What the steps of the sockets leave as it was.
Rest == UNCHANGED <<phase, endings, account, used>>

\* ... and what is left as it was has its type still.
LEMMA RestTypes ==
    ASSUME ClientInv, Rest
    PROVE  /\ used' \in [interviews : 0..MaxInterviews, commands : Nat, faults : 0..MaxFaults]
           /\ phase' \in {"ready", "interview"} /\ endings' \in Nat
           /\ account' \in {"bypassed", "ok", "no_token", "no_credit"}
BY DEF ClientInv, ClientTypeOK, Rest

\* The timer is off, and there is a socket instead.
LEMMA TimerFiresKeeps == ClientInv /\ TimerFires => ClientInv'
<1> SUFFICES ASSUME ClientInv, TimerFires PROVE ClientInv'
  OBVIOUS
<1> DEFINE new == [client EXCEPT !.timer = FALSE]
<1>1. /\ new \in Client /\ new.ws = client.ws /\ new.connected = client.connected
      /\ new.opening = client.opening /\ new.disposed = client.disposed
  BY DEF ClientInv, ClientTypeOK, Client
<1>2. Open(new) /\ Rest
  BY DEF TimerFires, Rest
<1> HIDE DEF new
<1>3. /\ client' \in Client
      /\ socket' \in [Socket -> SocketRecord]
      /\ \A s \in Socket : socket'[s].handled <= Len(socket'[s].sent)
      /\ OneConnection' /\ Handshake'
      /\ client'.disposed \/ client'.ws # NoSocket
  BY <1>1, <1>2, OpenKeeps
<1>4. Awake'
  BY <1>3 DEF Awake
<1> QED
  BY <1>2, <1>3, <1>4, RestTypes, Assembled

\* An open socket awaits its token.
LEMMA SocketOpensKeeps ==
    ASSUME ClientInv, NEW s \in Socket, SocketOpens(s)
    PROVE  ClientInv'
<1> DEFINE x == socket[s]
           y == [x EXCEPT !.client = "open", !.server = "open"]
<1>1. /\ socket \in [Socket -> SocketRecord] /\ client \in Client
      /\ \A t \in Socket : socket[t].handled <= Len(socket[t].sent)
  BY DEF ClientInv, ClientTypeOK
<1>2. x.client = "connecting" /\ s = client.ws /\ s # NoSocket
  BY DEF SocketOpens, ClientInv, OneConnection, Socket, NoSocket
<1>3. socket' = [socket EXCEPT ![s] = y]
  BY <1>1 DEF SocketOpens
<1>4. y \in SocketRecord /\ y.handled = x.handled /\ y.sent = x.sent /\ y.client = "open"
  <2>1. x \in SocketRecord
    BY <1>1
  <2> HIDE DEF x
  <2> QED
    BY <2>1 DEF SocketRecord
<1> HIDE DEF y
<1>5. /\ socket' \in [Socket -> SocketRecord] /\ socket'[s] = y
      /\ \A t \in Socket : t # s => socket'[t] = socket[t]
  BY <1>1, <1>3, <1>4
<1>6. \A t \in Socket : socket'[t].handled <= Len(socket'[t].sent)
  BY <1>1, <1>4, <1>5
<1>7. /\ client' \in Client /\ client'.ws = s /\ s \in client'.opening
  <2>1. client' = [client EXCEPT !.connected = TRUE, !.attempts = 0,
                                 !.opening = client.opening \cup {s}]
    BY DEF SocketOpens
  <2>2. 0 \in 0..MaxAttempts
    BY ClientAssumption
  <2> QED
    BY <1>1, <1>2, <2>1, <2>2 DEF Client
<1>8. OneConnection' /\ Awake' /\ Handshake'
  BY <1>2, <1>4, <1>5, <1>7 DEF ClientInv, OneConnection, Awake, Handshake
<1>9. Rest
  BY DEF SocketOpens, Rest
<1> QED
  BY <1>5, <1>6, <1>7, <1>8, <1>9, RestTypes, Assembled

\* What is put in front of two sequences is the first of it all.
LEMMA FirstOfThree ==
    ASSUME NEW a \in Message, NEW p \in Seq(Message), NEW q \in Seq(Message)
    PROVE  /\ <<a>> \o p \o q \in Seq(Message)
           /\ 1 \in DOMAIN (<<a>> \o p \o q) /\ (<<a>> \o p \o q)[1] = a
<1> DEFINE r == <<a>> \o p
<1>1. r \in Seq(Message) /\ Len(r) >= 1 /\ r[1] = a
  OBVIOUS
<1> HIDE DEF r
<1>2. r \o q \in Seq(Message) /\ 1 \in DOMAIN (r \o q) /\ (r \o q)[1] = a
  BY <1>1
<1> QED
  BY <1>2 DEF r

\* Nothing more comes of a token than auth, the replay and the queue.
LEMMA TokenReadyKeeps ==
    ASSUME ClientInv, NEW s \in Socket, TokenReady(s)
    PROVE  ClientInv'
<1> DEFINE done == [client EXCEPT !.opening = client.opening \ {s}]
           ws == client.ws
           ms == <<Of("auth", NoInterview)>> \o Replay \o client.pending
<1>1. ClientTypeOK /\ client \in Client /\ ws \in 0..MaxSockets /\ client.pending \in Seq(Message)
  BY DEF ClientInv, ClientTypeOK, Client
<1>2. Rest
  BY DEF TokenReady, Rest
<1>3. CASE ws # NoSocket /\ socket[ws].client = "connecting"
  <2>1. client' = done /\ UNCHANGED socket
    BY <1>3 DEF TokenReady
  <2>2. /\ client' \in Client /\ client'.ws = ws /\ client'.connected = client.connected
        /\ client'.desired = client.desired /\ client'.disposed = client.disposed
        /\ client'.timer = client.timer /\ client'.attempts = client.attempts
    BY <1>1, <2>1 DEF Client
  <2>3. OneConnection' /\ Awake' /\ Handshake'
    BY <1>3, <2>1, <2>2 DEF ClientInv, OneConnection, Awake, Handshake
  <2> QED
    BY <1>1, <1>2, <2>1, <2>2, <2>3, RestTypes, Assembled DEF ClientTypeOK
<1>4. CASE ~(ws # NoSocket /\ socket[ws].client = "connecting")
  <2>1. client' = [done EXCEPT !.pending = <<>>] /\ socket' = Write(ws, ms)
    BY <1>4 DEF TokenReady
  <2>2. <<>> \in Seq(Message)
    OBVIOUS
  <2>3. /\ client' \in Client /\ client'.ws = ws /\ client'.connected = client.connected
        /\ client'.desired = client.desired /\ client'.disposed = client.disposed
        /\ client'.timer = client.timer /\ client'.attempts = client.attempts
        /\ client'.opening = client.opening \ {s}
    BY <1>1, <2>1, <2>2 DEF Client
  <2>4. Of("auth", NoInterview) \in Message /\ Of("auth", NoInterview).type = "auth"
    <3>1. NoInterview \in 0..MaxInterviews
      BY ClientAssumption DEF NoInterview
    <3> QED
      BY <3>1, MessageTypes DEF Of
  <2>5. Replay \in Seq(Message)
    BY <1>1, ReplayType
  <2>6. ms \in Seq(Message) /\ 1 \in DOMAIN ms /\ ms[1].type = "auth"
    <3>1. client.pending \in Seq(Message)
      BY <1>1
    <3>2. ms \in Seq(Message) /\ 1 \in DOMAIN ms /\ ms[1] = Of("auth", NoInterview)
      BY <2>4, <2>5, <3>1, FirstOfThree, Zenon
    <3> QED
      BY <2>4, <3>2, Zenon
  <2> HIDE DEF ms
  <2>7. /\ SocketsGrown
        /\ ws # NoSocket /\ socket[ws].client = "open" => socket'[ws].sent = socket[ws].sent \o ms
    BY <1>1, <2>1, <2>6, WriteGrows
  <2>8. /\ socket' \in [Socket -> SocketRecord]
        /\ \A t \in Socket : /\ socket'[t].handled <= Len(socket'[t].sent)
                             /\ socket'[t].client = socket[t].client
        /\ \A t \in Socket : socket[t].sent \in Seq(Message)
    BY <1>1, <2>7 DEF SocketsGrown, Grown, SocketRecord, ClientTypeOK
  <2>9. ws \in {NoSocket} \cup Socket
    BY <1>1, ClientAssumption DEF Socket, NoSocket
  <2>10. OneConnection' /\ Awake'
    BY <2>3, <2>8, <2>9 DEF ClientInv, OneConnection, Awake
  <2>11. ASSUME client'.connected, socket'[client'.ws].client = "open"
         PROVE  \E i \in DOMAIN socket'[client'.ws].sent :
                   socket'[client'.ws].sent[i].type = "auth"
    <3>1. ws \in Socket /\ client'.ws = ws /\ socket[ws].client = "open" /\ ws # NoSocket
      BY <2>3, <2>8, <2>9, <2>11 DEF ClientInv, OneConnection
    <3> DEFINE old == socket[ws].sent
               i == Len(old) + 1
    <3>2. socket'[ws].sent = old \o ms /\ old \in Seq(Message)
      BY <2>7, <2>8, <3>1
    <3> HIDE DEF old
    <3>3. i \in DOMAIN (old \o ms) /\ (old \o ms)[i] = ms[1]
      BY <2>6, <3>2
    <3> QED
      BY <2>6, <3>1, <3>2, <3>3
  <2>12. Handshake'
    BY <2>11 DEF Handshake, HasAuth
  <2> QED
    BY <1>2, <2>3, <2>8, <2>10, <2>12, RestTypes, Assembled
<1> QED
  BY <1>3, <1>4

\* The socket that closes is the current one; the timer runs, or cannot.
LEMMA SocketClosesKeeps ==
    ASSUME ClientInv, NEW s \in Socket, SocketCloses(s)
    PROVE  ClientInv'
<1> DEFINE new == [client EXCEPT !.connected = FALSE, !.ws = NoSocket]
<1>1. /\ socket \in [Socket -> SocketRecord] /\ client \in Client
      /\ \A t \in Socket : socket[t].handled <= Len(socket[t].sent)
  BY DEF ClientInv, ClientTypeOK
<1>2. s = client.ws
  BY DEF SocketCloses, ClientInv, OneConnection
<1>3. /\ socket' \in [Socket -> SocketRecord]
      /\ \A t \in Socket : /\ socket'[t].handled <= Len(socket'[t].sent)
                           /\ socket'[t].client = "closed"
  <2>1. \A t \in Socket : /\ Closing(socket[t]) \in SocketRecord
                          /\ Closing(socket[t]).client = "closed"
                          /\ Closing(socket[t]).handled <= Len(Closing(socket[t]).sent)
    BY <1>1, ClosingType
  <2>2. socket' = [t \in Socket |-> IF t \in {s, client.ws} THEN Closing(socket[t])
                                    ELSE socket[t]]
    BY DEF SocketCloses
  <2>3. \A t \in Socket : t # s => socket[t].client = "closed"
    BY <1>2 DEF ClientInv, OneConnection
  <2> QED
    BY <1>1, <1>2, <2>1, <2>2, <2>3
<1>4. /\ new \in Client /\ new.ws = NoSocket /\ ~new.connected
      /\ new.disposed = client.disposed
  <2>1. NoSocket \in 0..MaxSockets
    BY ClientAssumption DEF NoSocket
  <2> QED
    BY <1>1, <2>1 DEF Client
<1>5. client' = IF client.disposed THEN new ELSE ScheduleReconnect(new)
  BY DEF SocketCloses
<1> HIDE DEF new
<1>6. /\ client' \in Client /\ client'.ws = NoSocket /\ ~client'.connected
      /\ client'.disposed \/ client'.timer \/ client'.attempts = MaxAttempts
  <2>1. CASE client.disposed
    BY <1>4, <1>5, <2>1
  <2>2. CASE ~client.disposed /\ (new.timer \/ new.attempts >= MaxAttempts)
    <3>1. client' = new
      BY <1>5, <2>2 DEF ScheduleReconnect
    <3>2. new.attempts \in 0..MaxAttempts
      BY <1>4 DEF Client
    <3> QED
      BY <1>4, <2>2, <3>1, <3>2, ClientAssumption
  <2>3. CASE ~client.disposed /\ ~(new.timer \/ new.attempts >= MaxAttempts)
    <3>1. client' = [new EXCEPT !.timer = TRUE, !.attempts = new.attempts + 1]
      BY <1>5, <2>3 DEF ScheduleReconnect
    <3>2. new.attempts + 1 \in 0..MaxAttempts
      BY <1>4, <2>3, ClientAssumption DEF Client
    <3> QED
      BY <1>4, <3>1, <3>2 DEF Client
  <2> QED
    BY <2>1, <2>2, <2>3
<1>7. OneConnection' /\ Awake' /\ Handshake'
  BY <1>3, <1>6 DEF OneConnection, Awake, Handshake
<1>8. Rest
  BY DEF SocketCloses, Rest
<1> QED
  BY <1>3, <1>6, <1>7, <1>8, RestTypes, Assembled

\* What keeps the sockets' part, and the client as it was, keeps the invariant.
LEMMA SocketStep ==
    ASSUME ClientInv, UNCHANGED client, socket' \in [Socket -> SocketRecord],
           \A t \in Socket : socket'[t].handled <= Len(socket'[t].sent),
           OneConnection', Handshake',
           phase' \in {"ready", "interview"}, endings' \in Nat,
           account' \in {"bypassed", "ok", "no_token", "no_credit"},
           used' \in [interviews : 0..MaxInterviews, commands : Nat, faults : 0..MaxFaults]
    PROVE  ClientInv'
<1>1. Awake' /\ client' \in Client
  BY DEF ClientInv, Awake, ClientTypeOK
<1> QED
  BY <1>1, Assembled

\* The end is taken from the socket.
LEMMA ClientHearsEndKeeps ==
    ASSUME ClientInv, NEW s \in Socket, ClientHearsEnd(s)
    PROVE  ClientInv'
<1> DEFINE x == socket[s]
           y == [x EXCEPT !.ended = FALSE]
<1>1. x \in SocketRecord /\ x.handled <= Len(x.sent)
  BY DEF ClientInv, ClientTypeOK
<1>2. socket' = [socket EXCEPT ![s] = y] /\ UNCHANGED <<client, phase, account, used>>
  BY DEF ClientHearsEnd
<1>3. Grown(x, y)
  <2> HIDE DEF x
  <2> QED
    BY <1>1 DEF Grown, SocketRecord
<1>4. endings' \in Nat
  BY DEF ClientHearsEnd, ClientInv, ClientTypeOK
<1> HIDE DEF y
<1>5. SocketsGrown /\ ClientKeeps
  BY <1>2, <1>3, OneGrows DEF ClientKeeps
<1> QED
  BY <1>2, <1>4, <1>5, GrowthKeeps, SocketStep DEF ClientInv, ClientTypeOK

-----------------------------------------------------------------------------
(* The gateway and the environment                                          *)

\* A step of the gateway on the connection, its end of it apart.
LEMMA GatewayStep ==
    ASSUME ClientInv, NEW s \in Socket, NEW y, Grown(socket[s], y),
           socket' = [socket EXCEPT ![s] = y], UNCHANGED client, Rest
    PROVE  ClientInv'
<1>1. SocketsGrown /\ ClientKeeps
  BY OneGrows DEF ClientKeeps
<1> QED
  BY <1>1, GrowthKeeps, RestTypes, SocketStep

\* Handling a message leaves what was sent, and the client's end.
LEMMA HandledType ==
    ASSUME NEW x \in SocketRecord, NEW m \in Message
    PROVE  /\ Handled(x, m) \in SocketRecord
           /\ Handled(x, m).sent = x.sent /\ Handled(x, m).client = x.client
<1>1. x.client \in {"closed", "connecting", "open", "broken"}
  BY DEF SocketRecord
<1>2. /\ HangUp(x) \in SocketRecord /\ HangUp(x).sent = x.sent /\ HangUp(x).client = x.client
  BY DEF HangUp, SocketRecord
<1>3. /\ Finalized(x) \in SocketRecord /\ Finalized(x).sent = x.sent
      /\ Finalized(x).client = x.client
  <2> DEFINE b == x.client = "open"
  <2>1. b \in BOOLEAN
    OBVIOUS
  <2>2. Finalized(x) = [x EXCEPT !.finalizing = TRUE, !.server = "closing", !.ended = b]
    BY DEF Finalized
  <2> HIDE DEF b
  <2> QED
    BY <2>1, <2>2 DEF SocketRecord
<1>4. CASE m.type = "auth"
  <2>1. Handled(x, m) = IF account = "no_token" THEN HangUp(x) ELSE [x EXCEPT !.authed = TRUE]
    BY <1>4 DEF Handled
  <2>2. [x EXCEPT !.authed = TRUE] \in SocketRecord /\ [x EXCEPT !.authed = TRUE].sent = x.sent
        /\ [x EXCEPT !.authed = TRUE].client = x.client
    BY DEF SocketRecord
  <2> QED
    BY <1>2, <2>1, <2>2
<1>5. CASE m.type = "start_session"
  <2> DEFINE y == [x EXCEPT !.session = m.interview, !.auto = FALSE]
  <2>1. Handled(x, m) = IF ~x.authed \/ account = "no_credit" THEN HangUp(x) ELSE y
    BY <1>5 DEF Handled
  <2>2. m.interview \in 0..MaxInterviews
    BY DEF Message
  <2>3. y \in SocketRecord /\ y.sent = x.sent /\ y.client = x.client
    BY <2>2 DEF SocketRecord
  <2> QED
    BY <1>2, <2>1, <2>3
<1>6. CASE m.type = "set_auto_generate"
  <2> DEFINE y == [x EXCEPT !.auto = m.on]
  <2>1. Handled(x, m) = IF x.session = NoInterview THEN x ELSE y
    BY <1>6 DEF Handled
  <2>2. m.on \in BOOLEAN
    BY DEF Message
  <2>3. y \in SocketRecord /\ y.sent = x.sent /\ y.client = x.client
    BY <2>2 DEF SocketRecord
  <2> QED
    BY <2>1, <2>3
<1>7. CASE m.type = "text_question"
  BY <1>7 DEF Handled
<1>8. CASE m.type = "stop_session"
  <2>1. Handled(x, m) = IF x.session = NoInterview \/ x.finalizing THEN x ELSE Finalized(x)
    BY <1>8 DEF Handled
  <2> QED
    BY <1>3, <2>1
<1> QED
  BY <1>4, <1>5, <1>6, <1>7, <1>8 DEF Message

\* The gateway takes the next message.
LEMMA HandleKeeps ==
    ASSUME ClientInv, NEW s \in Socket, Handle(s)
    PROVE  ClientInv'
<1> DEFINE x == socket[s]
           m == x.sent[x.handled + 1]
           h == Handled(x, m)
           y == [h EXCEPT !.handled = h.handled + 1]
<1>1. x \in SocketRecord /\ x.handled <= Len(x.sent)
  BY DEF ClientInv, ClientTypeOK
<1>2. x.handled < Len(x.sent) /\ socket' = [socket EXCEPT ![s] = y]
      /\ UNCHANGED client /\ Rest
  BY DEF Handle, Rest
<1> HIDE DEF x
<1>3. x.sent \in Seq(Message) /\ x.handled \in Nat
  BY <1>1 DEF SocketRecord
<1>4. m \in Message
  BY <1>2, <1>3
<1>5. h \in SocketRecord /\ h.sent = x.sent /\ h.client = x.client
  BY <1>1, <1>4, HandledType
<1>6. h.handled = x.handled
  BY <1>1, <1>4 DEF Handled, HangUp, Finalized, SocketRecord, Message
<1> HIDE DEF h
<1>7. y \in SocketRecord /\ y.sent = x.sent /\ y.client = x.client /\ y.handled = x.handled + 1
  BY <1>3, <1>5, <1>6 DEF SocketRecord
<1> HIDE DEF y
<1>8. Grown(x, y)
  BY <1>2, <1>3, <1>7 DEF Grown
<1> QED
  BY <1>2, <1>8, GatewayStep DEF x

\* The credits are gone, and the session is finalized.
LEMMA CreditsExhaustedKeeps ==
    ASSUME ClientInv, NEW s \in Socket, CreditsExhausted(s)
    PROVE  ClientInv'
<1> DEFINE x == socket[s]
           b == x.client = "open"
           y == [x EXCEPT !.finalizing = TRUE, !.server = "closing", !.ended = b]
<1>1. x \in SocketRecord /\ x.handled <= Len(x.sent) /\ b \in BOOLEAN
  BY DEF ClientInv, ClientTypeOK
<1>2. socket' = [socket EXCEPT ![s] = y] /\ UNCHANGED client /\ Rest
  BY DEF CreditsExhausted, Finalized, Rest
<1> HIDE DEF b
<1>3. Grown(x, y)
  <2> HIDE DEF x
  <2> QED
    BY <1>1 DEF Grown, SocketRecord
<1> QED
  BY <1>2, <1>3, GatewayStep

\* The gateway forgets a connection the client has lost.
LEMMA ServerSeesCloseKeeps ==
    ASSUME ClientInv, NEW s \in Socket, ServerSeesClose(s)
    PROVE  ClientInv'
<1> DEFINE c == socket[s].client
           y == [NotInUse EXCEPT !.client = c]
<1>1. c \in {"broken", "closed"} /\ socket' = [socket EXCEPT ![s] = y]
      /\ UNCHANGED client /\ Rest
  BY DEF ServerSeesClose, Rest
<1> HIDE DEF c
<1>2. y \in SocketRecord /\ y.client = c /\ y.handled = NotInUse.handled /\ y.sent = NotInUse.sent
  BY <1>1, FreshTypes DEF SocketRecord
<1> HIDE DEF y
<1>3. y.handled <= Len(y.sent)
  BY <1>2, FreshTypes
<1>4. ClientKeeps
  BY <1>1 DEF ClientKeeps
<1>5. /\ socket' \in [Socket -> SocketRecord]
      /\ \A t \in Socket : socket'[t].handled <= Len(socket'[t].sent)
      /\ OneConnection' /\ Handshake'
  BY <1>1, <1>2, <1>3, <1>4, DeadKeeps DEF c
<1> QED
  BY <1>1, <1>5, RestTypes, SocketStep

\* A broken socket is broken.
LEMMA BreakKeeps ==
    ASSUME ClientInv, NEW s \in Socket, Break(s)
    PROVE  ClientInv'
<1> DEFINE x == socket[s]
           y == [x EXCEPT !.client = "broken", !.ended = FALSE]
<1>1. x \in SocketRecord /\ x.handled <= Len(x.sent) /\ socket \in [Socket -> SocketRecord]
  BY DEF ClientInv, ClientTypeOK
<1>2. socket' = [socket EXCEPT ![s] = y] /\ UNCHANGED <<client, phase, endings, account>>
      /\ x.client # "closed"
  BY <1>1 DEF Break
<1>3. used' \in [interviews : 0..MaxInterviews, commands : Nat, faults : 0..MaxFaults]
  BY UsedTypes DEF Break
<1>4. y \in SocketRecord /\ y.client = "broken" /\ y.handled <= Len(y.sent)
  <2> HIDE DEF x
  <2> QED
    BY <1>1 DEF SocketRecord
<1>5. ClientKeeps
  BY <1>2 DEF ClientKeeps
<1> HIDE DEF y
<1>6. /\ socket' \in [Socket -> SocketRecord]
      /\ \A t \in Socket : socket'[t].handled <= Len(socket'[t].sent)
      /\ OneConnection' /\ Handshake'
  BY <1>2, <1>4, <1>5, DeadKeeps
<1> QED
  BY <1>2, <1>3, <1>6, SocketStep DEF ClientInv, ClientTypeOK

\* The account turns bad: nothing else changes.
LEMMA AccountFailsKeeps == ClientInv /\ AccountFails => ClientInv'
<1> SUFFICES ASSUME ClientInv, AccountFails PROVE ClientInv'
  OBVIOUS
<1>1. UNCHANGED <<client, socket, phase, endings, used>>
      /\ account' \in {"bypassed", "ok", "no_token", "no_credit"}
  BY DEF AccountFails
<1>2. OneConnection' /\ Handshake'
  BY <1>1 DEF ClientInv, OneConnection, Handshake, HasAuth
<1> QED
  BY <1>1, <1>2, SocketStep DEF ClientInv, ClientTypeOK

-----------------------------------------------------------------------------
(* The theorems                                                             *)

\* Every step, whoever takes it, keeps the invariant.
LEMMA NextClientInv == ClientInv /\ [Next]_vars => ClientInv'
<1> SUFFICES ASSUME ClientInv, [Next]_vars PROVE ClientInv'
  OBVIOUS
<1>1. CASE StartInterview \/ StopInterview \/ SubmitText \/ Dispose
  BY <1>1, StartInterviewKeeps, StopInterviewKeeps, SubmitTextKeeps, DisposeKeeps
<1>2. CASE \E enabled \in BOOLEAN : SetAutoGenerate(enabled)
  BY <1>2, SetAutoGenerateKeeps
<1>3. CASE RendererHearsEnd \/ TimerFires \/ AccountFails
  BY <1>3, RendererHearsEndKeeps, TimerFiresKeeps, AccountFailsKeeps
<1>4. CASE \E s \in Socket : TokenReady(s)
  BY <1>4, TokenReadyKeeps
<1>5. CASE \E s \in Socket : SocketOpens(s) \/ SocketCloses(s) \/ ClientHearsEnd(s)
  BY <1>5, SocketOpensKeeps, SocketClosesKeeps, ClientHearsEndKeeps
<1>6. CASE \E s \in Socket : Handle(s) \/ CreditsExhausted(s) \/ ServerSeesClose(s) \/ Break(s)
  BY <1>6, HandleKeeps, CreditsExhaustedKeeps, ServerSeesCloseKeeps, BreakKeeps
<1>7. CASE UNCHANGED vars
  <2>1. UNCHANGED <<client, socket, phase, endings, account, used>>
    BY <1>7 DEF vars
  <2>2. OneConnection' /\ Handshake'
    BY <2>1 DEF ClientInv, OneConnection, Handshake, HasAuth
  <2> QED
    BY <2>1, <2>2, SocketStep DEF ClientInv, ClientTypeOK
<1> QED
  BY <1>1, <1>2, <1>3, <1>4, <1>5, <1>6, <1>7 DEF Next

\* The invariant holds in every state the client comes to.
LEMMA ClientInvAlways == Spec => []ClientInv
<1>1. Init => ClientInv
  BY InitClientInv
<1>2. ClientInv /\ [Next]_vars => ClientInv'
  BY NextClientInv
<1> QED
  BY <1>1, <1>2, PTL DEF Spec

\* The client has one connection at a time, whatever breaks, however the
\* handlers of old sockets and tokens that come late are interleaved
\* (backendSessionClient.ts 120-265).
THEOREM OneConnectionAlways == Spec => []OneConnection
<1>1. ClientInv => OneConnection
  BY DEF ClientInv
<1> QED
  BY <1>1, ClientInvAlways, PTL

\* A client that wants an interview always has something that will bring it
\* back, or has used up its attempts (scheduleReconnect and handleOpen,
\* backendSessionClient.ts 135-265).
THEOREM NeverStrandedAlways == Spec => []NeverStranded
<1>1. ClientInv => NeverStranded
  BY InvGivesNeverStranded
<1> QED
  BY <1>1, ClientInvAlways, PTL

-----------------------------------------------------------------------------
(* The order of what is written, without auth                               *)

IsStart(m) == m.type = "start_session"

\* What may have been written to one connection when n interviews have begun:
\* auth first, and one start of each interview.
GoodLog(q, n) ==
    /\ q \in Seq(Message)
    /\ q # <<>> => q[1].type = "auth"
    /\ \A i \in 1..Len(q) : IsStart(q[i]) => q[i].interview <= n
    /\ \A i, j \in 1..Len(q) :
          IsStart(q[i]) /\ IsStart(q[j]) /\ q[i].interview = q[j].interview => i = j

\* Nothing is a good log.
LEMMA EmptyLog == \A n : GoodLog(<<>>, n)
BY DEF GoodLog

\* Interviews are numbers.
LEMMA InterviewNumbers ==
    \A q \in Seq(Message) : \A i \in 1..Len(q) : q[i].interview \in Int
<1>1. \A m \in Message : m.interview \in Int
  BY ClientAssumption DEF Message
<1> QED
  BY <1>1

\* A good log stays one as interviews begin.
LEMMA LaterLog ==
    ASSUME NEW q, NEW m \in Nat, NEW n \in Nat, m <= n, GoodLog(q, m)
    PROVE  GoodLog(q, n)
BY InterviewNumbers DEF GoodLog

\* A log that has begun goes on with a message that starts nothing, or with the
\* first start of an interview.
LEMMA LogGoesOn ==
    ASSUME NEW q, NEW n \in Nat, GoodLog(q, n), q # <<>>, NEW m \in Message, NEW k \in Nat,
           n <= k, IsStart(m) => m.interview <= k,
           IsStart(m) => \A i \in 1..Len(q) : IsStart(q[i]) => q[i].interview # m.interview
    PROVE  GoodLog(q \o <<m>>, k) /\ q \o <<m>> # <<>>
<1> DEFINE r == q \o <<m>>
<1>1. q \in Seq(Message) /\ Len(q) \in Nat
  BY DEF GoodLog
<1>2. /\ r \in Seq(Message) /\ Len(r) = Len(q) + 1 /\ r[Len(q) + 1] = m
      /\ \A i \in 1..Len(q) : r[i] = q[i]
  BY <1>1
<1> HIDE DEF r
<1>3. Len(q) >= 1 /\ r # <<>> /\ r[1] = q[1]
  BY <1>1, <1>2
<1>4. \A i \in 1..Len(r) : i \in 1..Len(q) \/ i = Len(q) + 1
  BY <1>1, <1>2
<1>5. \A i \in 1..Len(r) : IsStart(r[i]) => r[i].interview <= k
  BY <1>1, <1>2, <1>4, InterviewNumbers DEF GoodLog
<1>6. ASSUME NEW i \in 1..Len(r), NEW j \in 1..Len(r), IsStart(r[i]), IsStart(r[j]),
             r[i].interview = r[j].interview
      PROVE  i = j
  <2>1. \A h \in 1..Len(q) : IsStart(q[h]) => q[h].interview <= n /\ q[h].interview \in Int
    BY <1>1, InterviewNumbers DEF GoodLog
  <2>2. CASE i \in 1..Len(q) /\ j \in 1..Len(q)
    BY <1>2, <1>6, <2>2 DEF GoodLog
  <2>3. CASE i = Len(q) + 1 /\ j = Len(q) + 1
    BY <2>3
  <2>4. CASE i = Len(q) + 1 /\ j \in 1..Len(q)
    BY <1>2, <1>6, <2>1, <2>4
  <2>5. CASE i \in 1..Len(q) /\ j = Len(q) + 1
    BY <1>2, <1>6, <2>1, <2>5
  <2> QED
    BY <1>4, <2>2, <2>3, <2>4, <2>5
<1>7. GoodLog(r, k)
  BY <1>2, <1>3, <1>5, <1>6 DEF GoodLog
<1> QED
  BY <1>3, <1>7 DEF r

\* Only the replay starts an interview, and that one.
StartsNothing(q) == \A i \in 1..Len(q) : ~IsStart(q[i])

\* A log goes on with any messages that start nothing.
LEMMA LogGoesOnQuietly ==
    ASSUME NEW q, NEW n \in Nat, GoodLog(q, n), q # <<>>, NEW p \in Seq(Message),
           StartsNothing(p)
    PROVE  GoodLog(q \o p, n) /\ q \o p # <<>>
<1> DEFINE r == q \o p
<1>1. q \in Seq(Message) /\ Len(q) \in Nat /\ Len(p) \in Nat
  BY DEF GoodLog
<1>2. /\ r \in Seq(Message) /\ Len(r) = Len(q) + Len(p)
      /\ \A i \in 1..Len(q) : r[i] = q[i]
      /\ \A i \in 1..Len(r) : i \notin 1..Len(q) => i - Len(q) \in 1..Len(p) /\ r[i] = p[i - Len(q)]
  BY <1>1
<1> HIDE DEF r
<1>3. Len(q) >= 1 /\ r # <<>> /\ r[1] = q[1]
  BY <1>1, <1>2
<1>4. \A i \in 1..Len(r) : IsStart(r[i]) => i \in 1..Len(q) /\ r[i] = q[i]
  BY <1>2 DEF StartsNothing
<1>5. GoodLog(r, n)
  BY <1>2, <1>3, <1>4 DEF GoodLog
<1> QED
  BY <1>3, <1>5 DEF r

Begun == used.interviews

\* Every log is good; a socket that has not opened has none; between opening
\* and the handshake nothing is written, and nothing else happens; after it an open
\* socket has a log; and what is queued starts nothing.
OrderInv ==
    /\ \A t \in Socket : GoodLog(socket[t].sent, Begun)
    /\ \A t \in Socket : socket[t].client = "connecting" => socket[t].sent = <<>>
    /\ client.opening # {} =>
          /\ client.opening = {client.ws} /\ client.ws \in Socket
          /\ socket[client.ws].client = "open" /\ socket[client.ws].sent = <<>>
    /\ client.connected /\ socket[client.ws].client = "open" /\ client.opening = {} =>
          socket[client.ws].sent # <<>>
    /\ StartsNothing(client.pending)
    /\ client.desired <= Begun

ByPassInv == ClientInv /\ (Bypassed => OrderInv)

\* The first state: nothing has been written.
LEMMA InitOrder == Init => OrderInv
<1> SUFFICES ASSUME Init PROVE OrderInv
  OBVIOUS
<1>1. \A t \in Socket : socket[t] = NotInUse
  BY DEF Init
<1>2. \A t \in Socket : GoodLog(socket[t].sent, Begun) /\ socket[t].client = "closed"
  BY <1>1, FreshTypes, EmptyLog
<1> QED
  BY <1>2 DEF Init, OrderInv, StartsNothing, Begun, NoInterview

\* What is quiet: no log but goes on, or ends, and none begins.
Quiet ==
    /\ client.opening = {} /\ client'.opening = {}
    /\ \A t \in Socket :
          /\ socket'[t].sent \in {socket[t].sent, <<>>}
          /\ socket'[t].client = "connecting" => socket'[t].sent = <<>>
    /\ client'.connected /\ socket'[client'.ws].client = "open" =>
          /\ client.connected /\ client.ws \in Socket /\ client'.ws = client.ws
          /\ socket[client.ws].client = "open" /\ socket'[client.ws].sent = socket[client.ws].sent
    /\ client'.pending \in {client.pending, <<>>}
    /\ client'.desired <= used'.interviews
    /\ used.interviews <= used'.interviews

\* A quiet step keeps the order.
LEMMA QuietKeeps ==
    ASSUME ClientInv, OrderInv, Quiet, ClientInv'
    PROVE  OrderInv'
<1>1. Begun \in Nat /\ Begun' \in Nat /\ Begun <= Begun'
  BY ClientAssumption DEF ClientInv, ClientTypeOK, Begun, Quiet
<1>2. \A t \in Socket : GoodLog(socket'[t].sent, Begun')
  <2>1. \A t \in Socket : GoodLog(socket[t].sent, Begun')
    BY <1>1, LaterLog DEF OrderInv
  <2> QED
    BY <2>1, EmptyLog DEF Quiet
<1>3. StartsNothing(client'.pending)
  BY DEF Quiet, OrderInv, StartsNothing
<1>4. client'.connected /\ socket'[client'.ws].client = "open" => socket'[client'.ws].sent # <<>>
  BY DEF Quiet, OrderInv
<1> QED
  BY <1>2, <1>3, <1>4 DEF Quiet, OrderInv, Begun

\* Writing a message on a connection that has begun keeps the order.
LEMMA WritingKeeps ==
    ASSUME ClientInv, OrderInv, ClientInv', client.opening = {}, client'.opening = {},
           client.connected, client.ws # NoSocket, client'.ws = client.ws,
           NEW m \in Message, socket' = Write(client.ws, <<m>>),
           \/ ~IsStart(m) /\ Begun' = Begun
           \/ m.interview = Begun + 1 /\ Begun' = Begun + 1,
           client'.pending = client.pending, client'.desired <= Begun'
    PROVE  OrderInv'
<1> DEFINE ws == client.ws
<1>1. /\ Begun \in Nat /\ Begun' \in Nat /\ Begun <= Begun'
      /\ socket \in [Socket -> SocketRecord] /\ ws \in Socket
  BY ClientAssumption DEF ClientInv, ClientTypeOK, Client, Begun, Socket, NoSocket
<1>2. \A t \in Socket : GoodLog(socket[t].sent, Begun')
  BY <1>1, LaterLog DEF OrderInv
<1>3. CASE socket[ws].client = "open"
  <2> DEFINE x == socket[ws]
             y == [x EXCEPT !.sent = x.sent \o <<m>>]
  <2>1. socket' = [socket EXCEPT ![ws] = y]
    BY <1>3 DEF Write
  <2>2. GoodLog(x.sent, Begun) /\ x.sent # <<>>
    BY <1>1, <1>3 DEF OrderInv
  <2>3. GoodLog(x.sent \o <<m>>, Begun') /\ x.sent \o <<m>> # <<>>
    <3> DEFINE q == x.sent
    <3> HIDE DEF q
    <3>1. GoodLog(q, Begun) /\ q # <<>>
      BY <2>2 DEF q
    <3>2. IsStart(m) => m.interview = Begun + 1 /\ Begun' = Begun + 1
      OBVIOUS
    <3>3. \A i \in 1..Len(q) : IsStart(q[i]) => q[i].interview <= Begun /\ q[i].interview \in Int
      BY <3>1, InterviewNumbers DEF GoodLog
    <3>4. GoodLog(q \o <<m>>, Begun') /\ q \o <<m>> # <<>>
      BY <1>1, <3>1, <3>2, <3>3, LogGoesOn
    <3> QED
      BY <3>4 DEF q
  <2>4. y.sent = x.sent \o <<m>> /\ y.client = "open"
    <3>1. x \in SocketRecord /\ x.client = "open"
      BY <1>1, <1>3
    <3> HIDE DEF x
    <3> QED
      BY <3>1 DEF SocketRecord
  <2> HIDE DEF y
  <2>5. socket'[ws] = y /\ \A t \in Socket : t # ws => socket'[t] = socket[t]
    BY <1>1, <2>1
  <2>6. \A t \in Socket : GoodLog(socket'[t].sent, Begun')
    BY <1>2, <2>3, <2>4, <2>5
  <2>7. \A t \in Socket : socket'[t].client = "connecting" => socket'[t].sent = <<>>
    BY <2>4, <2>5 DEF OrderInv
  <2>8. socket'[client'.ws].sent # <<>>
    BY <2>3, <2>4, <2>5
  <2> QED
    BY <2>6, <2>7, <2>8 DEF OrderInv
<1>4. CASE socket[ws].client # "open"
  <2>1. UNCHANGED socket
    BY <1>4 DEF Write
  <2> QED
    BY <1>2, <1>4, <2>1 DEF OrderInv
<1> QED
  BY <1>3, <1>4

\* So does queueing one that starts nothing.
LEMMA QueueingKeeps ==
    ASSUME ClientInv, OrderInv, client.opening = {}, client'.opening = {},
           client'.ws = client.ws, client'.connected = client.connected, UNCHANGED socket,
           NEW m \in Message, ~IsStart(m), client'.pending = Append(client.pending, m),
           client'.desired <= Begun, Begun' = Begun
    PROVE  OrderInv'
<1>1. client.pending \in Seq(Message)
  BY DEF ClientInv, ClientTypeOK, Client
<1>2. StartsNothing(client'.pending)
  BY <1>1 DEF OrderInv, StartsNothing
<1> QED
  BY <1>2 DEF OrderInv

\* Opening a socket is quiet.
LEMMA OpeningIsQuiet ==
    ASSUME ClientInv, OrderInv, client.opening = {}, NEW new \in Client, Open(new),
           new.ws = client.ws, new.connected = client.connected,
           new.opening = client.opening, new.pending = client.pending,
           ~(client.connected /\ client.ws = NoSocket), new.desired <= used'.interviews,
           used.interviews <= used'.interviews
    PROVE  Quiet
<1>1. client.ws \in {NoSocket} \cup Socket /\ socket \in [Socket -> SocketRecord]
  BY ClientAssumption DEF ClientInv, ClientTypeOK, Client, Socket, NoSocket
<1>2. CASE new.disposed \/ new.ws # NoSocket
  <2>1. client' = new /\ UNCHANGED socket
    BY <1>2 DEF Open
  <2> QED
    BY <1>1, <2>1 DEF Quiet, OrderInv
<1>3. CASE ~(new.disposed \/ new.ws # NoSocket)
  <2>1. PICK s \in Socket : client' = [new EXCEPT !.ws = s] /\ socket' = [socket EXCEPT ![s] = Fresh]
    BY <1>3 DEF Open, Unoccupied
  <2>2. /\ client'.connected = new.connected /\ client'.opening = new.opening
        /\ client'.pending = new.pending /\ client'.desired = new.desired
    BY <2>1 DEF Client
  <2>3. socket'[s] = Fresh /\ \A t \in Socket : t # s => socket'[t] = socket[t]
    BY <1>1, <2>1
  <2>4. ~client'.connected
    BY <1>3, <2>2
  <2> QED
    BY <2>2, <2>3, <2>4, FreshTypes DEF Quiet, OrderInv
<1> QED
  BY <1>2, <1>3

\* Sending a message that starts nothing, what is wanted being no newer.
LEMMA SendingKeeps ==
    ASSUME ClientInv, OrderInv, ClientInv', client.opening = {}, NEW new \in Client,
           NEW m \in Message, ~IsStart(m), Send(new, m), new.ws = client.ws,
           new.connected = client.connected, new.opening = client.opening,
           new.pending = client.pending, new.desired <= Begun, Begun' = Begun
    PROVE  OrderInv'
<1>1. CASE new.connected /\ new.ws # NoSocket
  <2>1. client' = new /\ socket' = Write(client.ws, <<m>>)
    BY <1>1 DEF Send
  <2>2. /\ client'.opening = {} /\ client'.ws = client.ws /\ client.connected
        /\ client.ws # NoSocket /\ client'.pending = client.pending
        /\ client'.desired <= Begun'
    BY <1>1, <2>1
  <2> QED
    BY <2>1, <2>2, WritingKeeps
<1>2. CASE ~(new.connected /\ new.ws # NoSocket)
  <2>1. client' = [new EXCEPT !.pending = Append(new.pending, m)] /\ UNCHANGED socket
    BY <1>2 DEF Send
  <2>2. /\ client'.ws = client.ws /\ client'.connected = client.connected
        /\ client'.opening = {} /\ client'.pending = Append(client.pending, m)
        /\ client'.desired <= Begun
    BY <2>1 DEF Client
  <2> QED
    BY <2>1, <2>2, QueueingKeeps
<1> QED
  BY <1>1, <1>2

\* The kinds of messages.
LEMMA Kinds ==
    \A n : /\ Of("start_session", n).interview = n
           /\ ~IsStart(Of("stop_session", n)) /\ ~IsStart(Of("text_question", n))
           /\ ~IsStart(Of("auth", n)) /\ ~IsStart(AutoOn(n))
           /\ \A b \in BOOLEAN : ~IsStart([Of("set_auto_generate", n) EXCEPT !.on = b])
BY DEF Of, AutoOn, IsStart

\* Starting an interview starts a new one.
LEMMA StartKeepsOrder ==
    ASSUME ClientInv, OrderInv, ClientInv', client.opening = {}, StartInterview
    PROVE  OrderInv'
<1> DEFINE n == used.interviews + 1
           new == [client EXCEPT !.attempts = 0, !.desired = n]
<1>1. /\ n \in 0..MaxInterviews /\ used'.interviews = n /\ used.interviews <= n
      /\ client \in Client
  BY ClientAssumption DEF StartInterview, Interview, ClientInv, ClientTypeOK
<1>2. IF client.connected /\ client.ws # NoSocket
      THEN client' = new /\ socket' = Write(client.ws, <<Of("start_session", n)>>)
      ELSE Open(new)
  BY DEF StartInterview
<1>3. Of("start_session", n) \in Message /\ Of("start_session", n).interview = Begun + 1
      /\ Begun' = Begun + 1
  BY <1>1, MessageTypes, Kinds DEF Begun
<1>4. ~(client.connected /\ client.ws = NoSocket)
  BY DEF ClientInv, OneConnection
<1> HIDE DEF n
<1>5. /\ new \in Client /\ new.ws = client.ws /\ new.connected = client.connected
      /\ new.opening = client.opening /\ new.pending = client.pending /\ new.desired = n
  <2>1. 0 \in 0..MaxAttempts
    BY ClientAssumption
  <2> QED
    BY <1>1, <2>1 DEF Client
<1> HIDE DEF new
<1>6. CASE client.connected /\ client.ws # NoSocket
  <2>1. client' = new /\ socket' = Write(client.ws, <<Of("start_session", n)>>)
    BY <1>2, <1>6
  <2>2. client'.desired <= Begun'
    BY <1>1, <1>5, <2>1 DEF Begun
  <2> QED
    BY <1>3, <1>5, <1>6, <2>1, <2>2, WritingKeeps
<1>7. CASE ~(client.connected /\ client.ws # NoSocket)
  <2>1. Open(new)
    BY <1>2, <1>7
  <2>2. new.desired <= used'.interviews
    BY <1>1, <1>5
  <2>3. Quiet
    BY <1>1, <1>4, <1>5, <2>1, <2>2, OpeningIsQuiet
  <2> QED
    BY <2>3, QuietKeeps
<1> QED
  BY <1>6, <1>7

\* A command is sent in its place.
LEMMA CommandsKeepOrder ==
    ASSUME ClientInv, OrderInv, ClientInv', client.opening = {},
           StopInterview \/ (\E enabled \in BOOLEAN : SetAutoGenerate(enabled)) \/ SubmitText
    PROVE  OrderInv'
<1>1. client \in Client /\ used.interviews \in 0..MaxInterviews
  BY DEF ClientInv, ClientTypeOK
<1>2. ASSUME Command PROVE Begun' = Begun
  BY <1>2 DEF Command, Begun, ClientInv, ClientTypeOK
<1>3. CASE StopInterview
  <2> DEFINE new == [client EXCEPT !.desired = NoInterview, !.auto = FALSE]
  <2>1. NoInterview \in 0..MaxInterviews /\ NoInterview <= Begun
    BY <1>1, ClientAssumption DEF NoInterview, Begun
  <2>2. /\ new \in Client /\ new.ws = client.ws /\ new.connected = client.connected
        /\ new.opening = client.opening /\ new.pending = client.pending
        /\ new.desired = NoInterview
    BY <1>1, <2>1 DEF Client
  <2>3. Send(new, Of("stop_session", used.interviews)) /\ Command
    BY <1>3 DEF StopInterview
  <2> HIDE DEF new
  <2>4. Of("stop_session", used.interviews) \in Message /\ ~IsStart(Of("stop_session", used.interviews))
    BY <1>1, MessageTypes, Kinds
  <2> QED
    BY <1>2, <2>1, <2>2, <2>3, <2>4, SendingKeeps
<1>4. ASSUME NEW enabled \in BOOLEAN, SetAutoGenerate(enabled) PROVE OrderInv'
  <2> DEFINE new == [client EXCEPT !.auto = enabled]
             m == [Of("set_auto_generate", used.interviews) EXCEPT !.on = enabled]
  <2>1. /\ new \in Client /\ new.ws = client.ws /\ new.connected = client.connected
        /\ new.opening = client.opening /\ new.pending = client.pending
        /\ new.desired = client.desired
    BY <1>1 DEF Client
  <2>2. Send(new, m) /\ Command
    BY <1>4 DEF SetAutoGenerate
  <2>3. m \in Message /\ ~IsStart(m)
    BY <1>1, MessageTypes, Kinds
  <2> HIDE DEF new, m
  <2>4. new.desired <= Begun
    BY <2>1 DEF OrderInv
  <2> QED
    BY <1>2, <2>1, <2>2, <2>3, <2>4, SendingKeeps
<1>5. CASE SubmitText
  <2>1. Of("text_question", used.interviews) \in Message /\ ~IsStart(Of("text_question", used.interviews))
    BY <1>1, MessageTypes, Kinds
  <2>2. Send(client, Of("text_question", used.interviews)) /\ Command
    BY <1>5 DEF SubmitText
  <2>3. client.desired <= Begun
    BY DEF OrderInv
  <2> QED
    BY <1>1, <1>2, <2>1, <2>2, <2>3, SendingKeeps
<1> QED
  BY <1>3, <1>4, <1>5

\* A log begins with auth.
LEMMA AuthLog ==
    ASSUME NEW a \in Message, a.type = "auth", NEW n \in Nat
    PROVE  GoodLog(<<a>>, n) /\ <<a>> # <<>> /\ StartsNothing(<<a>>)
<1> DEFINE q == <<a>>
<1>1. q \in Seq(Message) /\ Len(q) = 1 /\ q[1] = a /\ q # <<>>
  OBVIOUS
<1> HIDE DEF q
<1>2. \A i \in 1..Len(q) : i = 1 /\ ~IsStart(q[i])
  BY <1>1 DEF IsStart
<1>3. GoodLog(q, n) /\ q # <<>> /\ StartsNothing(q)
  BY <1>1, <1>2 DEF GoodLog, StartsNothing
<1> QED
  BY <1>3 DEF q

\* The handshake: auth, the start of what is wanted, and what was queued.
LEMMA HandshakeKeepsOrder ==
    ASSUME ClientInv, OrderInv, ClientInv', NEW s \in Socket, TokenReady(s)
    PROVE  OrderInv'
<1> DEFINE ws == client.ws
           a == Of("auth", NoInterview)
           r == <<a>> \o Replay
           ms == <<a>> \o Replay \o client.pending
           done == [client EXCEPT !.opening = client.opening \ {s}]
<1>1. /\ client.opening = {ws} /\ s = ws /\ ws \in Socket
      /\ socket[ws].client = "open" /\ socket[ws].sent = <<>>
  BY DEF TokenReady, OrderInv
<1>2. client' = [done EXCEPT !.pending = <<>>] /\ socket' = Write(ws, ms)
  BY <1>1 DEF TokenReady
<1>3. /\ client \in Client /\ client.pending \in Seq(Message)
      /\ client.desired \in 0..MaxInterviews /\ used.interviews \in Nat /\ ws # NoSocket
      /\ socket \in [Socket -> SocketRecord]
  BY <1>1, ClientAssumption DEF ClientInv, ClientTypeOK, Client, Socket, NoSocket
<1>4. client'.ws = ws /\ client'.opening = {} /\ client'.pending = <<>>
      /\ client'.desired = client.desired /\ Begun' = Begun
  <2>1. <<>> \in Seq(Message)
    OBVIOUS
  <2> QED
    BY <1>1, <1>2, <1>3, <2>1 DEF Client, TokenReady, Begun
<1>5. a \in Message /\ a.type = "auth" /\ ~IsStart(a)
  <2>1. NoInterview \in 0..MaxInterviews
    BY ClientAssumption DEF NoInterview
  <2> QED
    BY <2>1, MessageTypes DEF Of, IsStart
<1>6. GoodLog(r, Begun) /\ r # <<>>
  <2> HIDE DEF a
  <2>0. Begun \in Nat
    BY <1>3 DEF Begun
  <2>1. GoodLog(<<a>>, Begun) /\ <<a>> # <<>> /\ StartsNothing(<<a>>)
    BY <1>5, <2>0, AuthLog
  <2>2. CASE client.desired = NoInterview
    <3>1. r = <<a>>
      BY <1>5, <2>2 DEF Replay
    <3> QED
      BY <2>1, <3>1
  <2>3. CASE client.desired # NoInterview
    <3> DEFINE b == Of("start_session", client.desired)
               c == AutoOn(client.desired)
               auto == IF client.auto THEN <<c>> ELSE <<>>
    <3>1. b \in Message /\ c \in Message /\ ~IsStart(c) /\ b.interview <= Begun
      BY <1>3, MessageTypes, Kinds DEF OrderInv
    <3>2. Replay = <<b>> \o auto
      BY <2>3 DEF Replay
    <3> HIDE DEF b, c
    <3>3. auto \in Seq(Message) /\ StartsNothing(auto)
      BY <3>1 DEF StartsNothing
    <3> HIDE DEF auto
    <3>4. GoodLog(<<a>> \o <<b>>, Begun) /\ <<a>> \o <<b>> # <<>>
      <4> DEFINE q == <<a>>
      <4> HIDE DEF q
      <4>1. GoodLog(q, Begun) /\ q # <<>> /\ StartsNothing(q)
        BY <2>1 DEF q
      <4>2. GoodLog(q \o <<b>>, Begun) /\ q \o <<b>> # <<>>
        BY <2>0, <3>1, <4>1, LogGoesOn DEF StartsNothing
      <4> QED
        BY <4>2 DEF q
    <3>5. GoodLog((<<a>> \o <<b>>) \o auto, Begun) /\ (<<a>> \o <<b>>) \o auto # <<>>
      BY <2>0, <3>3, <3>4, LogGoesOnQuietly
    <3>6. (<<a>> \o <<b>>) \o auto = <<a>> \o (<<b>> \o auto)
      BY <1>5, <3>1, <3>3, ConcatAssociative
    <3> QED
      BY <3>2, <3>5, <3>6
  <2> QED
    BY <2>2, <2>3
<1>7. GoodLog(ms, Begun) /\ ms # <<>>
  <2> HIDE DEF r
  <2>1. StartsNothing(client.pending)
    BY DEF OrderInv
  <2>2. GoodLog(r \o client.pending, Begun) /\ r \o client.pending # <<>>
    BY <1>3, <1>6, <2>1, LogGoesOnQuietly DEF Begun
  <2> QED
    BY <2>2 DEF r
<1> HIDE DEF a, r, ms, done
<1>8. socket'[ws].sent = ms /\ socket'[ws].client = "open"
      /\ \A t \in Socket : t # ws => socket'[t] = socket[t]
  <2> DEFINE x == socket[ws]
             y == [x EXCEPT !.sent = x.sent \o ms]
  <2>1. socket' = [socket EXCEPT ![ws] = y]
    BY <1>1, <1>2, <1>3 DEF Write
  <2>2. x \in SocketRecord /\ x.sent = <<>> /\ x.client = "open"
    BY <1>1, <1>3
  <2> HIDE DEF x
  <2>3. y.sent = x.sent \o ms /\ y.client = x.client
    BY <2>2 DEF SocketRecord
  <2>4. <<>> \o ms = ms
    BY <1>7 DEF GoodLog
  <2> HIDE DEF y
  <2> QED
    BY <1>1, <1>3, <2>1, <2>2, <2>3, <2>4
<1>9. StartsNothing(client'.pending)
  BY <1>4 DEF StartsNothing
<1> QED
  BY <1>4, <1>7, <1>8, <1>9 DEF OrderInv

\* What a step may make of one socket and be quiet.
Calm(t) ==
    /\ socket'[t].sent \in {socket[t].sent, <<>>}
    /\ socket'[t].client = "connecting" => socket'[t].sent = <<>>
    /\ socket'[t].client = "open" => socket[t].client = "open" /\ socket'[t].sent = socket[t].sent

\* Steps that leave the client as it was, and calm sockets, are quiet.
LEMMA CalmIsQuiet ==
    ASSUME ClientInv, OrderInv, ClientInv', client.opening = {}, \A t \in Socket : Calm(t),
           client'.opening = {}, client'.pending \in {client.pending, <<>>},
           client'.desired = client.desired, used'.interviews = used.interviews,
           client'.connected => client.connected /\ client'.ws = client.ws
    PROVE  Quiet
<1>1. used.interviews \in Nat /\ client.desired <= used.interviews
  BY ClientAssumption DEF ClientInv, ClientTypeOK, OrderInv, Begun
<1>2. client.connected => client.ws \in Socket
  BY ClientAssumption DEF ClientInv, ClientTypeOK, Client, OneConnection, Socket, NoSocket
<1> QED
  BY <1>1, <1>2 DEF Quiet, Calm

\* A step of one socket, the client being as it was, is quiet if it is calm there.
LEMMA OneCalm ==
    ASSUME ClientInv, OrderInv, ClientInv', client.opening = {}, UNCHANGED client,
           used'.interviews = used.interviews, NEW s \in Socket, NEW y,
           socket' = [socket EXCEPT ![s] = y],
           y.sent \in {socket[s].sent, <<>>},
           y.client = "connecting" => y.sent = <<>>,
           y.client = "open" => socket[s].client = "open" /\ y.sent = socket[s].sent
    PROVE  Quiet
<1>1. socket \in [Socket -> SocketRecord]
  BY DEF ClientInv, ClientTypeOK
<1>2. socket'[s] = y /\ \A t \in Socket : t # s => socket'[t] = socket[t]
  BY <1>1
<1>3. \A t \in Socket : Calm(t)
  BY <1>2 DEF Calm, OrderInv
<1> QED
  BY <1>3, CalmIsQuiet

\* A socket closed by the client keeps its log or none.
LEMMA ClosingIsCalm ==
    ASSUME NEW x \in SocketRecord
    PROVE  Closing(x).sent \in {x.sent, <<>>} /\ Closing(x).client = "closed"
<1>1. CASE x.server = "closed"
  <2>1. Closing(x) = NotInUse
    BY <1>1 DEF Closing
  <2> QED
    BY <2>1, FreshTypes
<1>2. CASE x.server # "closed"
  BY <1>2 DEF Closing, SocketRecord
<1> QED
  BY <1>1, <1>2

\* The steps that write nothing and open nothing are quiet.
LEMMA CalmSteps ==
    ASSUME ClientInv, OrderInv, ClientInv', client.opening = {}, NEW s \in Socket,
           \/ ClientHearsEnd(s) \/ Handle(s) \/ CreditsExhausted(s)
           \/ ServerSeesClose(s) \/ Break(s)
    PROVE  Quiet
<1> DEFINE x == socket[s]
<1>1. x \in SocketRecord /\ UNCHANGED client
  BY DEF ClientInv, ClientTypeOK, ClientHearsEnd, Handle, CreditsExhausted, ServerSeesClose, Break
<1>2. used'.interviews = used.interviews
  BY DEF ClientInv, ClientTypeOK, ClientHearsEnd, Handle, CreditsExhausted, ServerSeesClose, Break
<1>3. CASE ClientHearsEnd(s)
  <2> DEFINE y == [x EXCEPT !.ended = FALSE]
  <2>1. socket' = [socket EXCEPT ![s] = y] /\ x.client = "open"
    BY <1>3 DEF ClientHearsEnd
  <2>2. y.sent = x.sent /\ y.client = x.client
    BY <1>1 DEF SocketRecord
  <2> HIDE DEF y
  <2> QED
    BY <1>1, <1>2, <2>1, <2>2, OneCalm
<1>4. CASE Handle(s)
  <2> DEFINE m == x.sent[x.handled + 1]
             h == Handled(x, m)
             y == [h EXCEPT !.handled = h.handled + 1]
  <2>1. socket' = [socket EXCEPT ![s] = y] /\ x.handled < Len(x.sent)
    BY <1>4 DEF Handle
  <2> HIDE DEF x
  <2>2. x.sent \in Seq(Message) /\ x.handled \in Nat
    BY <1>1 DEF SocketRecord
  <2>3. m \in Message
    BY <2>1, <2>2
  <2>4. h \in SocketRecord /\ h.sent = x.sent /\ h.client = x.client
    BY <1>1, <2>3, HandledType
  <2> HIDE DEF h
  <2>5. y.sent = x.sent /\ y.client = x.client
    BY <2>4 DEF SocketRecord
  <2> HIDE DEF y
  <2>6. x.client = "connecting" => x.sent = <<>>
    BY DEF OrderInv, x
  <2> QED
    BY <1>1, <1>2, <2>1, <2>5, <2>6, OneCalm DEF x
<1>5. CASE CreditsExhausted(s)
  <2> DEFINE b == x.client = "open"
             y == [x EXCEPT !.finalizing = TRUE, !.server = "closing", !.ended = b]
  <2>1. socket' = [socket EXCEPT ![s] = y]
    BY <1>5 DEF CreditsExhausted, Finalized
  <2> HIDE DEF b, x
  <2>2. y.sent = x.sent /\ y.client = x.client
    BY <1>1 DEF SocketRecord
  <2> HIDE DEF y
  <2>3. x.client = "connecting" => x.sent = <<>>
    BY DEF OrderInv, x
  <2> QED
    BY <1>1, <1>2, <2>1, <2>2, <2>3, OneCalm DEF x
<1>6. CASE ServerSeesClose(s)
  <2> DEFINE c == x.client
             y == [NotInUse EXCEPT !.client = c]
  <2>1. socket' = [socket EXCEPT ![s] = y] /\ c \in {"broken", "closed"}
    BY <1>6 DEF ServerSeesClose
  <2> HIDE DEF c
  <2>2. y.sent = <<>> /\ y.client = c
    BY FreshTypes DEF SocketRecord
  <2> HIDE DEF y
  <2> QED
    BY <1>1, <1>2, <2>1, <2>2, OneCalm
<1>7. CASE Break(s)
  <2> DEFINE y == [x EXCEPT !.client = "broken", !.ended = FALSE]
  <2>1. socket' = [socket EXCEPT ![s] = y]
    BY <1>7, <1>1 DEF Break, ClientInv, ClientTypeOK
  <2> HIDE DEF x
  <2>2. y.sent = x.sent /\ y.client = "broken"
    BY <1>1 DEF SocketRecord
  <2> HIDE DEF y
  <2> QED
    BY <1>1, <1>2, <2>1, <2>2, OneCalm DEF x
<1> QED
  BY <1>3, <1>4, <1>5, <1>6, <1>7

\* So are the client's steps that write nothing.
LEMMA QuietSteps ==
    ASSUME ClientInv, OrderInv, ClientInv', client.opening = {},
           \/ Dispose \/ RendererHearsEnd \/ TimerFires \/ AccountFails
           \/ \E s \in Socket : SocketCloses(s)
    PROVE  Quiet
<1>a. client \in Client /\ socket \in [Socket -> SocketRecord]
  BY DEF ClientInv, ClientTypeOK
<1>b. client.ws \in {NoSocket} \cup Socket
  BY <1>a, ClientAssumption DEF Client, Socket, NoSocket
<1>c. client.desired <= used.interviews /\ used.interviews \in Nat
  BY ClientAssumption DEF ClientInv, ClientTypeOK, OrderInv, Begun
<1>1. /\ client \in Client /\ socket \in [Socket -> SocketRecord]
      /\ client.ws \in {NoSocket} \cup Socket /\ client.desired <= used.interviews
      /\ used.interviews \in Nat
  BY <1>a, <1>b, <1>c
<1>2. CASE Dispose
  <2>1. <<>> \in Seq(Message) /\ NoSocket \in 0..MaxSockets
    BY ClientAssumption DEF NoSocket
  <2>2. client' = [client EXCEPT !.disposed = TRUE, !.connected = FALSE, !.timer = FALSE,
                                 !.ws = NoSocket, !.pending = <<>>]
        /\ UNCHANGED used
    BY <1>2 DEF Dispose
  <2>3. ~client'.connected /\ client'.pending = <<>> /\ client'.opening = {}
        /\ client'.desired = client.desired
    BY <1>1, <2>1, <2>2 DEF Client
  <2>4. CASE client.ws = NoSocket
    <3>1. UNCHANGED socket
      BY <1>2, <2>4 DEF Dispose
    <3>2. \A t \in Socket : Calm(t)
      BY <3>1 DEF Calm, OrderInv
    <3> QED
      BY <2>2, <2>3, <3>2, CalmIsQuiet
  <2>5. CASE client.ws # NoSocket
    <3> DEFINE ws == client.ws
               y == Closing(socket[ws])
    <3>1. socket' = [socket EXCEPT ![ws] = y] /\ ws \in Socket
      BY <1>1, <1>2, <2>5 DEF Dispose
    <3>2. y.sent \in {socket[ws].sent, <<>>} /\ y.client = "closed"
      BY <1>1, <3>1, ClosingIsCalm
    <3> HIDE DEF y
    <3>3. socket'[ws] = y /\ \A t \in Socket : t # ws => socket'[t] = socket[t]
      BY <1>1, <3>1
    <3>4. \A t \in Socket : Calm(t)
      BY <3>2, <3>3 DEF Calm, OrderInv
    <3> QED
      BY <2>2, <2>3, <3>4, CalmIsQuiet
  <2> QED
    BY <2>4, <2>5
<1>3. CASE RendererHearsEnd \/ AccountFails
  <2>1. UNCHANGED <<client, socket, used>>
    BY <1>3 DEF RendererHearsEnd, AccountFails
  <2>2. \A t \in Socket : Calm(t)
    BY <2>1 DEF Calm, OrderInv
  <2> QED
    BY <2>1, <2>2, CalmIsQuiet
<1>4. CASE TimerFires
  <2> DEFINE new == [client EXCEPT !.timer = FALSE]
  <2>1. /\ new \in Client /\ new.ws = client.ws /\ new.connected = client.connected
        /\ new.opening = client.opening /\ new.pending = client.pending
        /\ new.desired = client.desired
    BY <1>1 DEF Client
  <2>2. Open(new) /\ UNCHANGED used
    BY <1>4 DEF TimerFires
  <2> HIDE DEF new
  <2>3. ~(client.connected /\ client.ws = NoSocket)
    BY DEF ClientInv, OneConnection
  <2> QED
    BY <1>1, <2>1, <2>2, <2>3, OpeningIsQuiet
<1>5. ASSUME NEW s \in Socket, SocketCloses(s) PROVE Quiet
  <2> DEFINE new == [client EXCEPT !.connected = FALSE, !.ws = NoSocket]
  <2>1. \A t \in Socket : socket'[t] \in {socket[t], Closing(socket[t])}
    BY <1>5 DEF SocketCloses
  <2>2. \A t \in Socket : socket'[t].client # "open"
    <3>1. s = client.ws
      BY <1>5 DEF SocketCloses, ClientInv, OneConnection
    <3>2. \A t \in Socket : t # s => socket[t].client = "closed"
      BY <3>1 DEF ClientInv, OneConnection
    <3>3. socket'[s] = Closing(socket[s])
      BY <1>5 DEF SocketCloses
    <3>4. Closing(socket[s]).client = "closed" /\ \A t \in Socket : Closing(socket[t]).client = "closed"
      BY <1>1, ClosingIsCalm
    <3> QED
      BY <2>1, <3>2, <3>3, <3>4
  <2>3. \A t \in Socket : Calm(t)
    <3>1. \A t \in Socket : Closing(socket[t]).sent \in {socket[t].sent, <<>>}
                            /\ Closing(socket[t]).client = "closed"
      BY <1>1, ClosingIsCalm
    <3> QED
      BY <2>1, <2>2, <3>1 DEF Calm, OrderInv
  <2>4. new \in Client /\ ~new.connected /\ new.pending = client.pending
        /\ new.opening = client.opening /\ new.desired = client.desired
    <3>1. NoSocket \in 0..MaxSockets
      BY ClientAssumption DEF NoSocket
    <3> QED
      BY <1>1, <3>1 DEF Client
  <2>5. client' = (IF client.disposed THEN new ELSE ScheduleReconnect(new)) /\ UNCHANGED used
    BY <1>5 DEF SocketCloses
  <2> HIDE DEF new
  <2>6. ~client'.connected /\ client'.pending = client.pending /\ client'.opening = {}
        /\ client'.desired = client.desired
    <3>1. client' = new \/ client' = [new EXCEPT !.timer = TRUE, !.attempts = new.attempts + 1]
      BY <2>5 DEF ScheduleReconnect
    <3> QED
      BY <2>4, <3>1 DEF Client
  <2> QED
    BY <2>3, <2>5, <2>6, CalmIsQuiet
<1> QED
  BY <1>2, <1>3, <1>4, <1>5

\* Opening comes before anything is written, and nothing comes before the handshake.
LEMMA OpensKeepsOrder ==
    ASSUME ClientInv, OrderInv, ClientInv', client.opening = {}, NEW s \in Socket, SocketOpens(s)
    PROVE  OrderInv'
<1> DEFINE x == socket[s]
           y == [x EXCEPT !.client = "open", !.server = "open"]
<1>1. /\ client \in Client /\ socket \in [Socket -> SocketRecord] /\ s = client.ws
      /\ x.client = "connecting" /\ x.sent = <<>>
  BY DEF ClientInv, ClientTypeOK, SocketOpens, OneConnection, OrderInv
<1>2. socket' = [socket EXCEPT ![s] = y] /\ UNCHANGED used
  BY <1>1 DEF SocketOpens
<1>3. y.sent = <<>> /\ y.client = "open"
  <2>1. x \in SocketRecord
    BY <1>1
  <2> HIDE DEF x
  <2> QED
    BY <1>1, <2>1 DEF SocketRecord
<1> HIDE DEF y
<1>4. socket'[s] = y /\ \A t \in Socket : t # s => socket'[t] = socket[t]
  BY <1>1, <1>2
<1>5. /\ client'.ws = s /\ client'.opening = {s} /\ client'.pending = client.pending
      /\ client'.desired = client.desired
  <2>1. client' = [client EXCEPT !.connected = TRUE, !.attempts = 0,
                                 !.opening = client.opening \cup {s}]
    BY DEF SocketOpens
  <2> QED
    BY <1>1, <2>1 DEF Client
<1>6. \A t \in Socket : GoodLog(socket'[t].sent, Begun')
  BY <1>2, <1>3, <1>4, EmptyLog DEF OrderInv, Begun
<1> QED
  BY <1>2, <1>3, <1>4, <1>5, <1>6 DEF OrderInv, Begun

\* Nothing takes a user back to a gateway without auth.
LEMMA BypassedBefore == [Next]_vars => (Bypassed' => Bypassed)
<1> SUFFICES ASSUME [Next]_vars PROVE Bypassed' => Bypassed
  OBVIOUS
<1> QED
  BY DEF Bypassed, Next, vars, StartInterview, StopInterview, SubmitText, Command, Dispose,
         SetAutoGenerate, RendererHearsEnd, TimerFires, AccountFails, TokenReady, SocketOpens,
         SocketCloses, ClientHearsEnd, Handle, CreditsExhausted, ServerSeesClose, Break

\* Without auth, every step keeps the order.
LEMMA NextByPassInv == ByPassInv /\ [Next]_vars => ByPassInv'
<1> SUFFICES ASSUME ByPassInv, [Next]_vars PROVE ByPassInv'
  OBVIOUS
<1>1. ClientInv /\ ClientInv'
  BY NextClientInv DEF ByPassInv
<1>2. Bypassed' => Bypassed
  BY BypassedBefore
<1>3. SUFFICES ASSUME Bypassed, OrderInv PROVE OrderInv'
  BY <1>1, <1>2 DEF ByPassInv
<1>4. CASE \E s \in Socket : TokenReady(s)
  BY <1>1, <1>3, <1>4, HandshakeKeepsOrder
<1>5. CASE UNCHANGED vars
  BY <1>3, <1>5 DEF vars, OrderInv, Begun
<1>6. CASE NothingFirst /\ StartInterview
  BY <1>1, <1>3, <1>6, StartKeepsOrder DEF NothingFirst
<1>7. CASE NothingFirst /\ (\/ StopInterview \/ SubmitText
                            \/ \E enabled \in BOOLEAN : SetAutoGenerate(enabled))
  BY <1>1, <1>3, <1>7, CommandsKeepOrder DEF NothingFirst
<1>8. CASE NothingFirst /\ (\/ Dispose \/ RendererHearsEnd \/ TimerFires \/ AccountFails
                            \/ \E s \in Socket : SocketCloses(s))
  BY <1>1, <1>3, <1>8, QuietSteps, QuietKeeps DEF NothingFirst
<1>9. CASE NothingFirst /\ \E s \in Socket : SocketOpens(s)
  BY <1>1, <1>3, <1>9, OpensKeepsOrder DEF NothingFirst
<1>10. CASE NothingFirst /\ \E s \in Socket :
              \/ ClientHearsEnd(s) \/ Handle(s) \/ CreditsExhausted(s)
              \/ ServerSeesClose(s) \/ Break(s)
  BY <1>1, <1>3, <1>10, CalmSteps, QuietKeeps DEF NothingFirst
<1> QED
  BY <1>4, <1>5, <1>6, <1>7, <1>8, <1>9, <1>10 DEF Next

\* The order in the logs is the one the run checks.
LEMMA OrderGivesHandshake == ByPassInv => HandshakeInOrder
<1> SUFFICES ASSUME ByPassInv, Bypassed PROVE AuthComesFirst /\ StartedOncePerConnection
  BY DEF HandshakeInOrder
<1>1. \A t \in Socket : GoodLog(socket[t].sent, Begun)
  BY DEF ByPassInv, OrderInv
<1>2. \A t \in Socket : DOMAIN socket[t].sent = 1..Len(socket[t].sent)
  BY <1>1 DEF GoodLog
<1> QED
  BY <1>1, <1>2 DEF GoodLog, IsStart, AuthComesFirst, StartedOncePerConnection

\* Without auth the handshake is in order on every connection: auth first, and
\* each interview started once, whatever was queued, replayed and lost before
\* (handleOpen and send, backendSessionClient.ts 133-175 and 335-350).
THEOREM HandshakeAlwaysInOrder == Spec => []HandshakeInOrder
<1>1. Init => ByPassInv
  BY InitClientInv, InitOrder DEF ByPassInv
<1>2. ByPassInv /\ [Next]_vars => ByPassInv'
  BY NextByPassInv
<1>3. ByPassInv => HandshakeInOrder
  BY OrderGivesHandshake
<1> QED
  BY <1>1, <1>2, <1>3, PTL DEF Spec

-----------------------------------------------------------------------------
(* Answers nobody asked for, without auth                                   *)

\* A message that switches generation on, and one after which it is off or the
\* session is over
On(m) == m.type = "set_auto_generate" /\ m.on
Off(m) == \/ m.type \in {"start_session", "stop_session"}
          \/ m.type = "set_auto_generate" /\ ~m.on

\* Whoever handles all of q is left with generation off.
Silent(q) == \A i \in 1..Len(q) : On(q[i]) => \E j \in (i + 1)..Len(q) : Off(q[j])

\* The gateway generates by itself because of a message it has handled.
Sounds(x) == \E i \in 1..x.handled :
                On(x.sent[i]) /\ \A j \in (i + 1)..x.handled : ~Off(x.sent[j])

ServerInv(x) ==
    /\ x.session # NoInterview => x.authed
    /\ x.auto => x.session # NoInterview
    /\ x.auto /\ ~x.finalizing => Sounds(x)

\* Nothing is queued on a connection that is there.  While the user has
\* generation switched off, what is queued leaves it off, and so does what an
\* open connection carries once its handshake is done.
SilentInv ==
    /\ client.connected /\ client.opening = {} => client.pending = <<>>
    /\ ~client.auto =>
          /\ Silent(client.pending)
          /\ client.connected /\ client.opening = {} /\ socket[client.ws].client = "open" =>
                Silent(socket[client.ws].sent)

\* One after the other, two runs of messages that leave generation off do so.
LEMMA SilentTogether ==
    ASSUME NEW p \in Seq(Message), NEW q \in Seq(Message), Silent(p), Silent(q)
    PROVE  Silent(p \o q)
<1> DEFINE r == p \o q
<1>1. /\ Len(p) \in Nat /\ Len(q) \in Nat /\ Len(r) = Len(p) + Len(q)
      /\ \A i \in 1..Len(p) : r[i] = p[i]
      /\ \A i \in 1..Len(r) : i \notin 1..Len(p) => i - Len(p) \in 1..Len(q) /\ r[i] = q[i - Len(p)]
  OBVIOUS
<1> HIDE DEF r
<1> SUFFICES ASSUME NEW i \in 1..Len(r), On(r[i])
             PROVE  \E j \in (i + 1)..Len(r) : Off(r[j])
  BY DEF Silent, r
<1>2. CASE i \in 1..Len(p)
  <2>1. PICK j \in (i + 1)..Len(p) : Off(p[j])
    BY <1>1, <1>2 DEF Silent
  <2>2. j \in 1..Len(p) /\ j \in (i + 1)..Len(r)
    BY <1>1, <1>2, <2>1
  <2> QED
    BY <1>1, <2>1, <2>2
<1>3. CASE i \notin 1..Len(p)
  <2> DEFINE h == i - Len(p)
  <2>1. h \in 1..Len(q) /\ i = Len(p) + h
    BY <1>1, <1>3
  <2>2. On(q[h])
    BY <1>1, <1>3
  <2>3. PICK j \in (h + 1)..Len(q) : Off(q[j])
    BY <2>1, <2>2 DEF Silent
  <2>4. /\ j \in 1..Len(q) /\ Len(p) + j \in (i + 1)..Len(r)
        /\ Len(p) + j \in 1..Len(r) /\ Len(p) + j \notin 1..Len(p) /\ (Len(p) + j) - Len(p) = j
    BY <1>1, <2>1, <2>3
  <2>5. r[Len(p) + j] = q[j]
    BY <1>1, <2>4
  <2> QED
    BY <2>3, <2>4, <2>5
<1> QED
  BY <1>2, <1>3

\* One message that does not switch generation on leaves it off.
LEMMA SilentOne ==
    ASSUME NEW m \in Message, ~On(m)
    PROVE  <<m>> \in Seq(Message) /\ Silent(<<m>>) /\ <<>> \in Seq(Message) /\ Silent(<<>>)
<1> DEFINE q == <<m>>
           e == <<>>
<1>1. q \in Seq(Message) /\ Len(q) = 1 /\ q[1] = m /\ e \in Seq(Message) /\ Len(e) = 0
  OBVIOUS
<1> HIDE DEF q, e
<1>2. Silent(q) /\ Silent(e)
  BY <1>1 DEF Silent
<1> QED
  BY <1>1, <1>2 DEF q, e

\* After a message that switches it off, or ends the session, it is off.
LEMMA SilentAfterOff ==
    ASSUME NEW q \in Seq(Message), NEW m \in Message, Off(m)
    PROVE  Silent(q \o <<m>>)
<1> DEFINE r == q \o <<m>>
<1>1. /\ Len(q) \in Nat /\ Len(r) = Len(q) + 1 /\ r[Len(q) + 1] = m
  OBVIOUS
<1> HIDE DEF r
<1>2. ~On(m)
  BY DEF On, Off
<1> SUFFICES ASSUME NEW i \in 1..Len(r), On(r[i])
             PROVE  \E j \in (i + 1)..Len(r) : Off(r[j])
  BY DEF Silent, r
<1>3. Len(q) + 1 \in (i + 1)..Len(r)
  BY <1>1, <1>2
<1> QED
  BY <1>1, <1>3

-----------------------------------------------------------------------------
(* The gateway's end *)

\* What has been handled, and what came of it, is the same.
SameServer(x, y) ==
    /\ y.handled = x.handled /\ y.auto = x.auto /\ y.session = x.session
    /\ y.finalizing = x.finalizing /\ y.authed = x.authed
    /\ \A i \in 1..x.handled : y.sent[i] = x.sent[i]

\* The gateway's end says as much of the same messages.
LEMMA SameServerKeeps ==
    ASSUME NEW x, NEW y, x.handled \in Nat, SameServer(x, y), ServerInv(x)
    PROVE  ServerInv(y)
<1>1. Sounds(x) => Sounds(y)
  <2> SUFFICES ASSUME NEW i \in 1..x.handled, On(x.sent[i]),
                      \A j \in (i + 1)..x.handled : ~Off(x.sent[j])
               PROVE  Sounds(y)
    BY DEF Sounds
  <2>1. \A j \in (i + 1)..x.handled : j \in 1..x.handled
    OBVIOUS
  <2> QED
    BY <2>1 DEF Sounds, SameServer
<1> QED
  BY <1>1 DEF ServerInv, SameServer

\* A gateway's end that is not in use, or new, generates nothing.
LEMMA FreshServers == ServerInv(NotInUse) /\ ServerInv(Fresh)
<1>1. ServerInv(NotInUse)
  BY DEF ServerInv, NotInUse
<1>2. /\ Fresh.session = NotInUse.session /\ Fresh.auto = NotInUse.auto
      /\ Fresh.authed = NotInUse.authed /\ NotInUse.auto = FALSE
      /\ NotInUse.session = NoInterview
  BY DEF Fresh, NotInUse
<1> QED
  BY <1>1, <1>2 DEF ServerInv

\* The client's end closes; the gateway's is as it was, or forgotten.
LEMMA ClosingServer ==
    ASSUME NEW x \in SocketRecord, ServerInv(x)
    PROVE  ServerInv(Closing(x))
<1>1. CASE x.server = "closed"
  BY <1>1, FreshServers DEF Closing
<1>2. CASE x.server # "closed"
  <2> DEFINE y == [x EXCEPT !.client = "closed", !.ended = FALSE]
  <2>1. SameServer(x, y) /\ x.handled \in Nat
    BY DEF SameServer, SocketRecord
  <2>2. Closing(x) = y
    BY <1>2 DEF Closing
  <2> HIDE DEF y
  <2> QED
    BY <2>1, <2>2, SameServerKeeps
<1> QED
  BY <1>1, <1>2

\* Handling a message, no account being refused: a start switches generation
\* off, a setting switches it on or off if there is a session, and a stop ends it.
LEMMA HandledServer ==
    ASSUME Bypassed, NEW x \in SocketRecord, ServerInv(x), x.handled < Len(x.sent),
           NEW m \in Message, m = x.sent[x.handled + 1],
           NEW y, y = [Handled(x, m) EXCEPT !.handled = Handled(x, m).handled + 1]
    PROVE  ServerInv(y)
<1> DEFINE h == Handled(x, m)
<1>1. /\ x.handled \in Nat /\ x.sent \in Seq(Message) /\ x.auto \in BOOLEAN
      /\ x.session \in 0..MaxInterviews /\ x.finalizing \in BOOLEAN
  BY DEF SocketRecord
<1>2. h \in SocketRecord /\ h.sent = x.sent
  BY HandledType
<1>3. y = [h EXCEPT !.handled = h.handled + 1]
  OBVIOUS
<1>4. m.type \in {"auth", "start_session", "set_auto_generate", "text_question", "stop_session"}
      /\ m.on \in BOOLEAN
  BY DEF Message
<1>5. account \notin {"no_token", "no_credit"}
  BY DEF Bypassed
<1>6. /\ h.handled = x.handled
      /\ h.session # NoInterview => h.authed
      /\ h.auto => h.session # NoInterview
      /\ m.type = "start_session" => h.auto = FALSE
      /\ m.type = "set_auto_generate" => h.auto = FALSE \/ (h.auto = m.on /\ h.session # NoInterview)
      /\ m.type = "stop_session" => h.auto = FALSE \/ h.finalizing
      /\ m.type \in {"auth", "text_question"} => h.auto = x.auto /\ h.finalizing = x.finalizing
      /\ x.finalizing => h.finalizing
  <2>1. CASE m.type = "auth"
    <3>1. h = [x EXCEPT !.authed = TRUE]
      BY <1>5, <2>1 DEF Handled
    <3> HIDE DEF h
    <3> QED
      BY <2>1, <3>1 DEF ServerInv, SocketRecord
  <2>2. CASE m.type = "start_session" /\ ~x.authed
    <3>1. h = [x EXCEPT !.server = "closing"]
      BY <1>5, <2>2 DEF Handled, HangUp
    <3> HIDE DEF h
    <3> QED
      BY <1>1, <2>2, <3>1 DEF ServerInv, SocketRecord
  <2>3. CASE m.type = "start_session" /\ x.authed
    <3> DEFINE n == m.interview
    <3>1. h = [x EXCEPT !.session = n, !.auto = FALSE]
      BY <1>5, <2>3 DEF Handled
    <3> HIDE DEF h, n
    <3> QED
      BY <2>3, <3>1 DEF ServerInv, SocketRecord
  <2>4. CASE m.type = "set_auto_generate"
    <3> DEFINE o == m.on
    <3>1. h = IF x.session = NoInterview THEN x ELSE [x EXCEPT !.auto = o]
      BY <2>4 DEF Handled
    <3> HIDE DEF h, o
    <3>2. CASE x.session = NoInterview
      BY <1>1, <2>4, <3>1, <3>2 DEF ServerInv
    <3>3. CASE x.session # NoInterview
      <4>1. /\ h.auto = m.on /\ h.session = x.session /\ h.authed = x.authed
            /\ h.finalizing = x.finalizing /\ h.handled = x.handled
        BY <3>1, <3>3 DEF SocketRecord, o
      <4>2. x.authed
        BY <3>3 DEF ServerInv
      <4> QED
        BY <2>4, <3>3, <4>1, <4>2, Zenon
    <3> QED
      BY <3>2, <3>3
  <2>5. CASE m.type = "text_question"
    BY <2>5 DEF Handled, ServerInv
  <2>6. CASE m.type = "stop_session"
    <3> DEFINE b == x.client = "open"
    <3>1. h = IF x.session = NoInterview \/ x.finalizing THEN x
              ELSE [x EXCEPT !.finalizing = TRUE, !.server = "closing", !.ended = b]
      BY <2>6 DEF Handled, Finalized
    <3> HIDE DEF h, b
    <3>2. CASE x.session = NoInterview \/ x.finalizing
      BY <1>1, <2>6, <3>1, <3>2 DEF ServerInv
    <3>3. CASE ~(x.session = NoInterview \/ x.finalizing)
      <4>1. /\ h.finalizing = TRUE /\ h.session = x.session /\ h.authed = x.authed
            /\ h.auto = x.auto /\ h.handled = x.handled
        BY <3>1, <3>3 DEF SocketRecord
      <4>2. x.authed /\ h.finalizing
        BY <3>3, <4>1 DEF ServerInv
      <4> QED
        BY <2>6, <3>3, <4>1, <4>2, Zenon
    <3> QED
      BY <3>2, <3>3
  <2> QED
    BY <1>4, <2>1, <2>2, <2>3, <2>4, <2>5, <2>6
<1> HIDE DEF h
<1>7. /\ y.sent = x.sent /\ y.handled = x.handled + 1 /\ y.auto = h.auto
      /\ y.session = h.session /\ y.authed = h.authed /\ y.finalizing = h.finalizing
  BY <1>2, <1>3, <1>6 DEF SocketRecord
<1>8. ASSUME y.auto, ~y.finalizing PROVE Sounds(y)
  <2>1. CASE m.type = "set_auto_generate"
    <3>0. m.on
      BY <1>6, <1>7, <1>8, <2>1
    <3>1. On(y.sent[y.handled]) /\ y.handled \in 1..y.handled
      BY <1>1, <1>7, <2>1, <3>0 DEF On
    <3>2. \A j \in (y.handled + 1)..y.handled : ~Off(y.sent[j])
      BY <1>1, <1>7
    <3> QED
      BY <3>1, <3>2 DEF Sounds
  <2>2. CASE m.type \in {"auth", "text_question"}
    <3>1. x.auto /\ ~x.finalizing
      BY <1>6, <1>7, <1>8, <2>2
    <3>2. PICK i \in 1..x.handled :
            On(x.sent[i]) /\ \A j \in (i + 1)..x.handled : ~Off(x.sent[j])
      BY <3>1 DEF ServerInv, Sounds
    <3>3. ~Off(y.sent[y.handled])
      BY <1>7, <2>2 DEF Off
    <3>4. i \in 1..y.handled /\ \A j \in (i + 1)..y.handled : j \in (i + 1)..x.handled \/ j = y.handled
      BY <1>1, <1>7
    <3>5. \A j \in (i + 1)..y.handled : ~Off(y.sent[j])
      BY <1>7, <3>2, <3>3, <3>4
    <3> QED
      BY <1>7, <3>2, <3>4, <3>5 DEF Sounds
  <2>3. m.type # "start_session" /\ m.type # "stop_session"
    BY <1>6, <1>7, <1>8
  <2> QED
    BY <1>4, <2>1, <2>2, <2>3
<1> QED
  BY <1>6, <1>7, <1>8 DEF ServerInv

\* The gateway's ends, whoever is at the other
ServersInv == \A t \in Socket : ServerInv(socket[t])

\* A step of one socket that handles nothing.
LEMMA OneServer ==
    ASSUME ClientInv, ServersInv, NEW s \in Socket, NEW y, ServerInv(y),
           socket' = [socket EXCEPT ![s] = y]
    PROVE  ServersInv'
<1>1. socket \in [Socket -> SocketRecord]
  BY DEF ClientInv, ClientTypeOK
<1>2. socket'[s] = y /\ \A t \in Socket : t # s => socket'[t] = socket[t]
  BY <1>1
<1> QED
  BY <1>2 DEF ServersInv

\* What is written has yet to be handled.
LEMMA WriteServers ==
    ASSUME ClientInv, ServersInv, NEW s \in 0..MaxSockets, NEW ms \in Seq(Message),
           socket' = Write(s, ms)
    PROVE  ServersInv'
<1>1. CASE s # NoSocket /\ socket[s].client = "open"
  <2> DEFINE x == socket[s]
             y == [x EXCEPT !.sent = x.sent \o ms]
  <2>1. s \in Socket /\ socket' = [socket EXCEPT ![s] = y]
    BY <1>1, ClientAssumption DEF Write, Socket, NoSocket
  <2>2. x \in SocketRecord /\ x.handled <= Len(x.sent) /\ ServerInv(x)
    BY <2>1 DEF ClientInv, ClientTypeOK, ServersInv
  <2> HIDE DEF x
  <2>3. x.sent \in Seq(Message) /\ x.handled \in Nat /\ Len(x.sent) \in Nat
    BY <2>2 DEF SocketRecord
  <2>4. \A i \in 1..Len(x.sent) : (x.sent \o ms)[i] = x.sent[i]
    BY <2>3
  <2>5. \A i \in 1..x.handled : i \in 1..Len(x.sent)
    BY <2>2, <2>3
  <2>6. /\ y.sent = x.sent \o ms /\ y.handled = x.handled /\ y.auto = x.auto
        /\ y.session = x.session /\ y.finalizing = x.finalizing /\ y.authed = x.authed
    BY <2>2 DEF SocketRecord
  <2> HIDE DEF y
  <2>7. SameServer(x, y)
    BY <2>4, <2>5, <2>6 DEF SameServer
  <2> QED
    BY <2>1, <2>2, <2>3, <2>7, SameServerKeeps, OneServer
<1>2. CASE ~(s # NoSocket /\ socket[s].client = "open")
  BY <1>2 DEF Write, ServersInv
<1> QED
  BY <1>1, <1>2

\* A socket that is opened is new.
LEMMA OpenServers ==
    ASSUME ClientInv, ServersInv, NEW new, Open(new)
    PROVE  ServersInv'
<1>1. CASE new.disposed \/ new.ws # NoSocket
  BY <1>1 DEF Open, ServersInv
<1>2. CASE ~(new.disposed \/ new.ws # NoSocket)
  <2>1. PICK s \in Socket : socket' = [socket EXCEPT ![s] = Fresh]
    BY <1>2 DEF Open, Unoccupied
  <2> QED
    BY <2>1, FreshServers, OneServer
<1> QED
  BY <1>1, <1>2

\* Whatever is sent is written or queued.
LEMMA SendServers ==
    ASSUME ClientInv, ServersInv, NEW new, new.ws \in 0..MaxSockets, NEW m \in Message,
           Send(new, m)
    PROVE  ServersInv'
<1>1. <<m>> \in Seq(Message)
  OBVIOUS
<1>2. CASE new.connected /\ new.ws # NoSocket
  BY <1>1, <1>2, WriteServers DEF Send
<1>3. CASE ~(new.connected /\ new.ws # NoSocket)
  BY <1>3 DEF Send, ServersInv
<1> QED
  BY <1>2, <1>3

\* What the user does reaches the gateway as messages, if at all.
LEMMA UserServers ==
    ASSUME ClientInv, ServersInv,
           \/ StartInterview \/ StopInterview \/ SubmitText
           \/ \E enabled \in BOOLEAN : SetAutoGenerate(enabled)
    PROVE  ServersInv'
<1>1. /\ client \in Client /\ client.ws \in 0..MaxSockets /\ used.interviews \in 0..MaxInterviews
  BY DEF ClientInv, ClientTypeOK, Client
<1>2. CASE StartInterview
  <2> DEFINE n == used.interviews + 1
             m == Of("start_session", n)
             new == [client EXCEPT !.attempts = 0, !.desired = n]
  <2>1. n \in 0..MaxInterviews
    BY <1>2 DEF StartInterview, Interview
  <2>2. m \in Message
    BY <2>1, MessageTypes
  <2>3. IF client.connected /\ client.ws # NoSocket
        THEN socket' = Write(client.ws, <<m>>) ELSE Open(new)
    BY <1>2 DEF StartInterview
  <2> HIDE DEF m, new
  <2>4. <<m>> \in Seq(Message)
    BY <2>2
  <2> QED
    BY <1>1, <2>3, <2>4, WriteServers, OpenServers
<1>3. CASE StopInterview
  <2> DEFINE new == [client EXCEPT !.desired = NoInterview, !.auto = FALSE]
             m == Of("stop_session", used.interviews)
  <2>1. Send(new, m) /\ m \in Message
    BY <1>1, <1>3, MessageTypes DEF StopInterview
  <2>2. new.ws = client.ws
    BY <1>1 DEF Client
  <2> HIDE DEF new, m
  <2> QED
    BY <1>1, <2>1, <2>2, SendServers
<1>4. ASSUME NEW enabled \in BOOLEAN, SetAutoGenerate(enabled)
      PROVE  ServersInv'
  <2> DEFINE new == [client EXCEPT !.auto = enabled]
             m == [Of("set_auto_generate", used.interviews) EXCEPT !.on = enabled]
  <2>1. Send(new, m) /\ m \in Message
    BY <1>1, <1>4, MessageTypes DEF SetAutoGenerate
  <2>2. new.ws = client.ws
    BY <1>1 DEF Client
  <2> HIDE DEF new, m
  <2> QED
    BY <1>1, <2>1, <2>2, SendServers
<1>5. CASE SubmitText
  <2> DEFINE m == Of("text_question", used.interviews)
  <2>1. Send(client, m) /\ m \in Message
    BY <1>1, <1>5, MessageTypes DEF SubmitText
  <2> HIDE DEF m
  <2> QED
    BY <1>1, <2>1, SendServers
<1> QED
  BY <1>2, <1>3, <1>4, <1>5

\* A connection is accepted.
LEMMA OpensServer ==
    ASSUME ClientInv, ServersInv, NEW s \in Socket, SocketOpens(s)
    PROVE  ServersInv'
<1> DEFINE x == socket[s]
           y == [x EXCEPT !.client = "open", !.server = "open"]
<1>1. /\ socket \in [Socket -> SocketRecord] /\ s = client.ws /\ ServerInv(x)
  BY DEF ClientInv, ClientTypeOK, SocketOpens, OneConnection, ServersInv
<1>2. socket' = [socket EXCEPT ![s] = y]
  BY <1>1 DEF SocketOpens
<1>3. x \in SocketRecord
  BY <1>1
<1> HIDE DEF x
<1>4. SameServer(x, y) /\ x.handled \in Nat
  BY <1>3 DEF SameServer, SocketRecord
<1> HIDE DEF y
<1> QED
  BY <1>1, <1>2, <1>4, SameServerKeeps, OneServer

\* The client's own events reach it as messages, or as a close.
LEMMA ClientServers ==
    ASSUME ClientInv, ServersInv,
           \/ Dispose \/ RendererHearsEnd \/ TimerFires \/ AccountFails
           \/ \E s \in Socket : SocketCloses(s) \/ SocketOpens(s) \/ TokenReady(s)
    PROVE  ServersInv'
<1>1. /\ client \in Client /\ client.ws \in 0..MaxSockets /\ client.pending \in Seq(Message)
      /\ socket \in [Socket -> SocketRecord]
      /\ client.ws \in {NoSocket} \cup Socket
  BY ClientAssumption DEF ClientInv, ClientTypeOK, Client, Socket, NoSocket
<1>2. CASE RendererHearsEnd \/ AccountFails
  BY <1>2 DEF RendererHearsEnd, AccountFails, ServersInv
<1>3. CASE TimerFires
  BY <1>3, OpenServers DEF TimerFires
<1>4. CASE Dispose
  <2>1. CASE client.ws = NoSocket
    BY <1>4, <2>1 DEF Dispose, ServersInv
  <2>2. CASE client.ws # NoSocket
    <3> DEFINE ws == client.ws
               y == Closing(socket[ws])
    <3>1. ws \in Socket /\ socket' = [socket EXCEPT ![ws] = y]
      BY <1>1, <1>4, <2>2 DEF Dispose
    <3>2. ServerInv(y)
      BY <1>1, <3>1, ClosingServer DEF ServersInv
    <3> HIDE DEF y
    <3> QED
      BY <3>1, <3>2, OneServer
  <2> QED
    BY <2>1, <2>2
<1>5. ASSUME NEW s \in Socket, SocketCloses(s) PROVE ServersInv'
  <2>1. \A t \in Socket : socket'[t] \in {socket[t], Closing(socket[t])}
    BY <1>5 DEF SocketCloses
  <2>2. \A t \in Socket : ServerInv(Closing(socket[t]))
    BY <1>1, ClosingServer DEF ServersInv
  <2> QED
    BY <2>1, <2>2 DEF ServersInv
<1>6. ASSUME NEW s \in Socket, SocketOpens(s) PROVE ServersInv'
  BY <1>6, OpensServer
<1>7. ASSUME NEW s \in Socket, TokenReady(s) PROVE ServersInv'
  <2> DEFINE a == Of("auth", NoInterview)
             ms == <<a>> \o Replay \o client.pending
  <2>1. UNCHANGED socket \/ socket' = Write(client.ws, ms)
    BY <1>7, Zenon DEF TokenReady
  <2>2. a \in Message
    <3>1. NoInterview \in 0..MaxInterviews
      BY ClientAssumption DEF NoInterview
    <3> QED
      BY <3>1, MessageTypes
  <2>3. Replay \in Seq(Message)
    BY ReplayType DEF ClientInv
  <2> HIDE DEF a
  <2>4. ms \in Seq(Message)
    BY <1>1, <2>2, <2>3
  <2> HIDE DEF ms
  <2> QED
    BY <1>1, <2>1, <2>4, WriteServers DEF ServersInv
<1> QED
  BY <1>2, <1>3, <1>4, <1>5, <1>6, <1>7

\* The gateway's own steps.
LEMMA GatewayServers ==
    ASSUME ClientInv, ServersInv, Bypassed, NEW s \in Socket,
           \/ ClientHearsEnd(s) \/ Handle(s) \/ CreditsExhausted(s)
           \/ ServerSeesClose(s) \/ Break(s)
    PROVE  ServersInv'
<1> DEFINE x == socket[s]
<1>1. x \in SocketRecord /\ ServerInv(x) /\ socket \in [Socket -> SocketRecord]
  BY DEF ClientInv, ClientTypeOK, ServersInv
<1>2. CASE ClientHearsEnd(s) \/ Break(s)
  <2> DEFINE y1 == [x EXCEPT !.ended = FALSE]
             y2 == [x EXCEPT !.client = "broken", !.ended = FALSE]
  <2>1. \E y \in {y1, y2} : socket' = [socket EXCEPT ![s] = y]
    BY <1>1, <1>2 DEF ClientHearsEnd, Break
  <2> HIDE DEF x
  <2>2. SameServer(x, y1) /\ SameServer(x, y2) /\ x.handled \in Nat
    BY <1>1 DEF SameServer, SocketRecord
  <2> HIDE DEF y1, y2
  <2> QED
    BY <1>1, <2>1, <2>2, SameServerKeeps, OneServer
<1>3. CASE Handle(s)
  <2> DEFINE m == x.sent[x.handled + 1]
             y == [Handled(x, m) EXCEPT !.handled = Handled(x, m).handled + 1]
  <2>1. socket' = [socket EXCEPT ![s] = y] /\ x.handled < Len(x.sent)
    BY <1>3 DEF Handle
  <2> HIDE DEF x
  <2>2. m \in Message
    BY <1>1, <2>1 DEF SocketRecord
  <2>3. ServerInv(y)
    BY <1>1, <2>1, <2>2, HandledServer
  <2> HIDE DEF y
  <2> QED
    BY <2>1, <2>3, OneServer
<1>4. CASE CreditsExhausted(s)
  BY <1>4 DEF CreditsExhausted, Bypassed
<1>5. CASE ServerSeesClose(s)
  <2> DEFINE c == x.client
             y == [NotInUse EXCEPT !.client = c]
  <2>1. socket' = [socket EXCEPT ![s] = y]
    BY <1>5 DEF ServerSeesClose
  <2> HIDE DEF c
  <2>2. y.session = NoInterview /\ y.auto = FALSE
    BY DEF NotInUse
  <2>3. ServerInv(y)
    BY <2>2 DEF ServerInv
  <2> HIDE DEF y
  <2> QED
    BY <2>1, <2>3, OneServer
<1> QED
  BY <1>2, <1>3, <1>4, <1>5

-----------------------------------------------------------------------------
(* The client's end *)

\* A step that writes and queues nothing, and connects nothing.
LEMMA QuietSilent ==
    ASSUME SilentInv, Quiet, client'.auto = client.auto,
           client'.connected => client.connected
    PROVE  SilentInv'
<1>1. Silent(<<>>)
  BY DEF Silent
<1> QED
  BY <1>1 DEF Quiet, SilentInv

\* A command is written or queued: the one that switches generation off comes
\* last, and no other switches it on.
LEMMA SendSilent ==
    ASSUME ClientInv, SilentInv, client.opening = {}, NEW new \in Client,
           new.ws = client.ws, new.connected = client.connected,
           new.opening = client.opening, new.pending = client.pending,
           NEW m \in Message, Send(new, m),
           ~new.auto => Off(m) \/ (~client.auto /\ ~On(m))
    PROVE  SilentInv'
<1>1. /\ client.ws \in 0..MaxSockets /\ client.pending \in Seq(Message)
      /\ socket \in [Socket -> SocketRecord] /\ client.ws \in {NoSocket} \cup Socket
      /\ <<m>> \in Seq(Message)
  BY ClientAssumption DEF ClientInv, ClientTypeOK, Client, Socket, NoSocket
<1>2. ASSUME NEW q \in Seq(Message), ~new.auto, ~client.auto => Silent(q)
      PROVE  Silent(q \o <<m>>)
  <2>1. CASE Off(m)
    BY <2>1, SilentAfterOff
  <2>2. CASE ~client.auto /\ ~On(m)
    BY <1>1, <1>2, <2>2, SilentTogether, SilentOne
  <2> QED
    BY <1>2, <2>1, <2>2
<1>3. CASE new.connected /\ new.ws # NoSocket
  <2>1. client' = new /\ socket' = Write(client.ws, <<m>>)
    BY <1>3 DEF Send
  <2>2. /\ client'.connected /\ client'.opening = {} /\ client'.ws = client.ws
        /\ client'.pending = <<>> /\ client'.auto = new.auto
        /\ client.connected /\ client.ws \in Socket
    BY <1>1, <1>3, <2>1 DEF SilentInv
  <2>3. Silent(<<>>)
    BY DEF Silent
  <2>4. ASSUME ~new.auto, socket'[client.ws].client = "open"
        PROVE  Silent(socket'[client.ws].sent)
    <3> DEFINE q == socket[client.ws].sent
               p == <<m>>
    <3> HIDE DEF p
    <3>1. p \in Seq(Message) /\ socket' = Write(client.ws, p)
      BY <1>1, <2>1 DEF p
    <3> DEFINE s == client.ws
    <3>a. ClientTypeOK /\ s \in 0..MaxSockets /\ s \in Socket /\ s # NoSocket
      BY <1>1, <2>2, ClientAssumption DEF ClientInv, Socket, NoSocket
    <3>b. socket' = Write(s, p)
      BY <3>1
    <3> HIDE DEF s
    <3>c. /\ SocketsGrown
          /\ s # NoSocket /\ socket[s].client = "open" => socket'[s].sent = socket[s].sent \o p
      BY <3>1, <3>a, <3>b, WriteGrows
    <3>d. socket'[s].client = socket[s].client
      BY <3>a, <3>c DEF SocketsGrown, Grown
    <3>e. socket'[s].client = "open"
      BY <2>4 DEF s
    <3>f. socket[s].client = "open" /\ socket'[s].sent = socket[s].sent \o p
      BY <3>a, <3>c, <3>d, <3>e
    <3>2. socket[client.ws].client = "open" /\ socket'[client.ws].sent = q \o p
      BY <3>f DEF s
    <3>3. q \in Seq(Message)
      BY <1>1, <2>2 DEF SocketRecord
    <3>4. ~client.auto => Silent(q)
      BY <2>2, <3>2 DEF SilentInv
    <3> HIDE DEF q
    <3>5. Silent(q \o <<m>>)
      BY <1>2, <2>4, <3>3, <3>4
    <3> QED
      BY <3>2, <3>5 DEF p
  <2> QED
    BY <2>2, <2>3, <2>4 DEF SilentInv
<1>4. CASE ~(new.connected /\ new.ws # NoSocket)
  <2> DEFINE q == client.pending
             r == Append(q, m)
  <2>1. client' = [new EXCEPT !.pending = Append(new.pending, m)]
    BY <1>4 DEF Send
  <2>2. Append(new.pending, m) = r
    OBVIOUS
  <2>3. /\ client'.pending = r /\ client'.auto = new.auto
        /\ client'.connected = client.connected
    BY <2>1, <2>2 DEF Client
  <2>4. ~client.connected
    BY <1>1, <1>4 DEF ClientInv, OneConnection
  <2>5. r = q \o <<m>>
    BY <1>1
  <2>6. ~client.auto => Silent(q)
    BY DEF SilentInv
  <2> HIDE DEF q, r
  <2>7. ~new.auto => Silent(r)
    BY <1>1, <1>2, <2>5, <2>6 DEF q
  <2> QED
    BY <2>3, <2>4, <2>7 DEF SilentInv
<1> QED
  BY <1>3, <1>4

\* What each command is to generation.
LEMMA OnAndOff ==
    \A n : /\ Off(Of("start_session", n)) /\ Off(Of("stop_session", n))
           /\ ~On(Of("text_question", n)) /\ ~On(Of("auth", n)) /\ ~On(Of("start_session", n))
           /\ \A b \in BOOLEAN : ~b => Off([Of("set_auto_generate", n) EXCEPT !.on = b])
BY DEF Of, On, Off

\* The user starts an interview, stops it, changes the setting or asks something.
LEMMA UserSilent ==
    ASSUME ClientInv, OrderInv, SilentInv, client.opening = {},
           \/ StartInterview \/ StopInterview \/ SubmitText
           \/ \E enabled \in BOOLEAN : SetAutoGenerate(enabled)
    PROVE  SilentInv'
<1>1. /\ client \in Client /\ used.interviews \in 0..MaxInterviews
      /\ ~(client.connected /\ client.ws = NoSocket)
  BY DEF ClientInv, ClientTypeOK, OneConnection
<1>2. CASE StartInterview
  <2> DEFINE n == used.interviews + 1
             m == Of("start_session", n)
             new == [client EXCEPT !.attempts = 0, !.desired = n]
  <2>1. n \in 0..MaxInterviews /\ used'.interviews = n /\ used.interviews <= n
    BY <1>1, <1>2, ClientAssumption DEF StartInterview, Interview, ClientInv, ClientTypeOK
  <2>2. m \in Message /\ Off(m)
    BY <2>1, MessageTypes, OnAndOff
  <2>3. /\ new \in Client /\ new.ws = client.ws /\ new.connected = client.connected
        /\ new.opening = client.opening /\ new.pending = client.pending
        /\ new.desired = n /\ new.auto = client.auto
    <3>1. 0 \in 0..MaxAttempts
      BY ClientAssumption
    <3> QED
      BY <1>1, <2>1, <3>1 DEF Client
  <2>4. IF client.connected /\ client.ws # NoSocket
        THEN client' = new /\ socket' = Write(client.ws, <<m>>) ELSE Open(new)
    BY <1>2 DEF StartInterview
  <2> HIDE DEF n, m, new
  <2>5. CASE client.connected /\ client.ws # NoSocket
    <3>1. Send(new, m)
      BY <2>3, <2>4, <2>5 DEF Send
    <3> QED
      BY <2>2, <2>3, <3>1, SendSilent
  <2>6. CASE ~(client.connected /\ client.ws # NoSocket)
    <3>1. Open(new) /\ ~client.connected
      BY <1>1, <2>4, <2>6
    <3>2. new.desired <= used'.interviews
      BY <2>1, <2>3
    <3>3. Quiet
      BY <1>1, <2>1, <2>3, <3>1, <3>2, OpeningIsQuiet
    <3>4. client'.auto = client.auto /\ ~client'.connected
      BY <2>3, <3>1 DEF Open, Client
    <3> QED
      BY <3>3, <3>4, QuietSilent
  <2> QED
    BY <2>5, <2>6
<1>3. CASE StopInterview
  <2> DEFINE new == [client EXCEPT !.desired = NoInterview, !.auto = FALSE]
             m == Of("stop_session", used.interviews)
  <2>1. Send(new, m) /\ m \in Message /\ Off(m)
    BY <1>1, <1>3, MessageTypes, OnAndOff DEF StopInterview
  <2>2. /\ new \in Client /\ new.ws = client.ws /\ new.connected = client.connected
        /\ new.opening = client.opening /\ new.pending = client.pending
    <3>1. NoInterview \in 0..MaxInterviews
      BY ClientAssumption DEF NoInterview
    <3> QED
      BY <1>1, <3>1 DEF Client
  <2> HIDE DEF new, m
  <2> QED
    BY <2>1, <2>2, SendSilent
<1>4. ASSUME NEW enabled \in BOOLEAN, SetAutoGenerate(enabled)
      PROVE  SilentInv'
  <2> DEFINE new == [client EXCEPT !.auto = enabled]
             m == [Of("set_auto_generate", used.interviews) EXCEPT !.on = enabled]
  <2>1. Send(new, m) /\ m \in Message /\ (~enabled => Off(m))
    BY <1>1, <1>4, MessageTypes, OnAndOff DEF SetAutoGenerate
  <2>2. /\ new \in Client /\ new.ws = client.ws /\ new.connected = client.connected
        /\ new.opening = client.opening /\ new.pending = client.pending /\ new.auto = enabled
    BY <1>1 DEF Client
  <2> HIDE DEF new, m
  <2> QED
    BY <2>1, <2>2, SendSilent
<1>5. CASE SubmitText
  <2> DEFINE m == Of("text_question", used.interviews)
  <2>1. Send(client, m) /\ m \in Message /\ ~On(m)
    BY <1>1, <1>5, MessageTypes, OnAndOff DEF SubmitText
  <2> HIDE DEF m
  <2> QED
    BY <1>1, <2>1, SendSilent
<1> QED
  BY <1>2, <1>3, <1>4, <1>5

\* The handshake replays generation only if it is switched on.
LEMMA HandshakeSilent ==
    ASSUME ClientInv, OrderInv, SilentInv, NEW s \in Socket, TokenReady(s)
    PROVE  SilentInv'
<1> DEFINE ws == client.ws
           a == Of("auth", NoInterview)
           b == Of("start_session", client.desired)
           p == client.pending
           ms == <<a>> \o Replay \o p
           done == [client EXCEPT !.opening = client.opening \ {s}]
<1>1. /\ client.opening = {ws} /\ s = ws /\ ws \in Socket
      /\ socket[ws].client = "open" /\ socket[ws].sent = <<>>
  BY DEF TokenReady, OrderInv
<1>2. client' = [done EXCEPT !.pending = <<>>] /\ socket' = Write(ws, ms)
  BY <1>1 DEF TokenReady
<1>3. /\ client \in Client /\ p \in Seq(Message) /\ client.desired \in 0..MaxInterviews
      /\ ws # NoSocket /\ ws \in 0..MaxSockets /\ NoInterview \in 0..MaxInterviews
      /\ Replay \in Seq(Message)
  BY <1>1, ClientAssumption, ReplayType
     DEF ClientInv, ClientTypeOK, Client, Socket, NoSocket, NoInterview
<1>4. client'.ws = ws /\ client'.pending = <<>> /\ client'.auto = client.auto
  BY <1>2, <1>3 DEF Client
<1>5. a \in Message /\ b \in Message /\ ~On(a) /\ ~On(b)
  BY <1>3, MessageTypes, OnAndOff
<1>6. ~client.auto => Replay = <<>> \/ Replay = <<b>>
  <2>1. <<b>> \o <<>> = <<b>>
    BY <1>5
  <2> QED
    BY <2>1 DEF Replay
<1> HIDE DEF a, b, p, done
<1>7. Silent(<<>>)
  BY DEF Silent
<1>8. ms \in Seq(Message)
  BY <1>3, <1>5
<1>9. ~client.auto => Silent(ms)
  <2> SUFFICES ASSUME ~client.auto PROVE Silent(ms)
    OBVIOUS
  <2> DEFINE r == Replay
             h == <<a>>
  <2>1. r \in Seq(Message) /\ Silent(r)
    BY <1>3, <1>5, <1>6, <1>7, SilentOne
  <2>2. h \in Seq(Message) /\ Silent(h)
    BY <1>5, SilentOne
  <2>3. Silent(p)
    BY DEF SilentInv, p
  <2> HIDE DEF r, h
  <2>4. h \o r \in Seq(Message) /\ Silent(h \o r)
    BY <2>1, <2>2, SilentTogether
  <2>5. Silent((h \o r) \o p)
    BY <1>3, <2>3, <2>4, SilentTogether
  <2> QED
    BY <2>5 DEF r, h
<1> HIDE DEF ms
<1>10. socket'[ws].sent = ms
  <2>1. socket'[ws].sent = <<>> \o ms
    BY <1>1, <1>2, <1>3, <1>8, WriteGrows DEF ClientInv
  <2> QED
    BY <1>8, <2>1
<1> QED
  BY <1>4, <1>7, <1>9, <1>10 DEF SilentInv

\* A new connection has its handshake before it.
LEMMA OpensSilent ==
    ASSUME ClientInv, SilentInv, NEW s \in Socket, SocketOpens(s)
    PROVE  SilentInv'
<1>1. client' = [client EXCEPT !.connected = TRUE, !.attempts = 0,
                               !.opening = client.opening \cup {s}]
      /\ client \in Client
  BY DEF SocketOpens, ClientInv, ClientTypeOK
<1>2. client'.pending = client.pending /\ client'.auto = client.auto /\ s \in client'.opening
  BY <1>1 DEF Client
<1> QED
  BY <1>2 DEF SilentInv

\* The setting is the user's: no other step changes it, and none of these connects.
LEMMA SettingKept ==
    ASSUME ClientInv,
           \/ Dispose \/ RendererHearsEnd \/ TimerFires \/ AccountFails
           \/ \E s \in Socket : \/ SocketCloses(s) \/ ClientHearsEnd(s) \/ Handle(s)
                                \/ CreditsExhausted(s) \/ ServerSeesClose(s) \/ Break(s)
    PROVE  client'.auto = client.auto /\ (client'.connected => client.connected)
<1>1. client \in Client
  BY DEF ClientInv, ClientTypeOK
<1>2. CASE Dispose
  BY <1>1, <1>2 DEF Dispose, Client
<1>3. CASE TimerFires
  <2> DEFINE new == [client EXCEPT !.timer = FALSE]
  <2>1. new \in Client /\ new.connected = client.connected /\ new.auto = client.auto
    BY <1>1 DEF Client
  <2>2. Open(new)
    BY <1>3 DEF TimerFires
  <2> HIDE DEF new
  <2> QED
    BY <2>1, <2>2 DEF Open, Client
<1>4. ASSUME NEW s \in Socket, SocketCloses(s)
      PROVE  client'.auto = client.auto /\ (client'.connected => client.connected)
  <2> DEFINE new == [client EXCEPT !.connected = FALSE, !.ws = NoSocket]
  <2>1. new \in Client /\ ~new.connected /\ new.auto = client.auto
    <3>1. NoSocket \in 0..MaxSockets
      BY ClientAssumption DEF NoSocket
    <3> QED
      BY <1>1, <3>1 DEF Client
  <2>2. client' = IF client.disposed THEN new ELSE ScheduleReconnect(new)
    BY <1>4 DEF SocketCloses
  <2> HIDE DEF new
  <2>3. client' = new \/ client' = [new EXCEPT !.timer = TRUE, !.attempts = new.attempts + 1]
    BY <2>2 DEF ScheduleReconnect
  <2> QED
    BY <2>1, <2>3 DEF Client
<1>5. UNCHANGED client => client'.auto = client.auto /\ (client'.connected => client.connected)
  OBVIOUS
<1> QED
  BY <1>2, <1>3, <1>4, <1>5
     DEF RendererHearsEnd, AccountFails, ClientHearsEnd, Handle, CreditsExhausted,
         ServerSeesClose, Break

-----------------------------------------------------------------------------
(* Every step *)

AutoInv == ByPassInv /\ (Bypassed => ServersInv /\ SilentInv)

\* At first there is nothing to generate for.
LEMMA InitAuto == Init => AutoInv
<1> SUFFICES ASSUME Init PROVE AutoInv
  OBVIOUS
<1>1. ServersInv
  BY FreshServers DEF Init, ServersInv
<1>2. Silent(<<>>)
  BY DEF Silent
<1>3. SilentInv
  BY <1>2 DEF Init, SilentInv
<1> QED
  BY <1>1, <1>3, InitClientInv, InitOrder DEF AutoInv, ByPassInv

\* Every step keeps it.
LEMMA NextAuto == AutoInv /\ [Next]_vars => AutoInv'
<1> SUFFICES ASSUME AutoInv, [Next]_vars PROVE AutoInv'
  OBVIOUS
<1>1. ByPassInv' /\ ClientInv /\ ClientInv'
  BY NextByPassInv DEF AutoInv, ByPassInv
<1>2. Bypassed' => Bypassed
  BY BypassedBefore
<1>3. SUFFICES ASSUME Bypassed PROVE ServersInv' /\ SilentInv'
  BY <1>1, <1>2 DEF AutoInv
<1>4. ServersInv /\ SilentInv /\ OrderInv
  BY <1>3 DEF AutoInv, ByPassInv
<1>5. CASE \E s \in Socket : TokenReady(s)
  BY <1>1, <1>4, <1>5, ClientServers, HandshakeSilent
<1>6. CASE UNCHANGED vars
  BY <1>4, <1>6 DEF vars, ServersInv, SilentInv
<1>7. CASE /\ NothingFirst
           /\ \/ StartInterview \/ StopInterview \/ SubmitText
              \/ \E enabled \in BOOLEAN : SetAutoGenerate(enabled)
  BY <1>1, <1>3, <1>4, <1>7, UserServers, UserSilent DEF NothingFirst
<1>8. CASE NothingFirst /\ (\/ Dispose \/ RendererHearsEnd \/ TimerFires \/ AccountFails
                            \/ \E s \in Socket : SocketCloses(s))
  <2>1. Quiet
    BY <1>1, <1>3, <1>4, <1>8, QuietSteps DEF NothingFirst
  <2>2. client'.auto = client.auto /\ (client'.connected => client.connected)
    BY <1>1, <1>8, SettingKept
  <2>3. ServersInv'
    BY <1>1, <1>4, <1>8, ClientServers
  <2> QED
    BY <1>4, <2>1, <2>2, <2>3, QuietSilent
<1>9. CASE NothingFirst /\ \E s \in Socket : SocketOpens(s)
  BY <1>1, <1>4, <1>9, ClientServers, OpensSilent
<1>10. CASE NothingFirst /\ \E s \in Socket :
              \/ ClientHearsEnd(s) \/ Handle(s) \/ CreditsExhausted(s)
              \/ ServerSeesClose(s) \/ Break(s)
  <2>1. Quiet
    BY <1>1, <1>3, <1>4, <1>10, CalmSteps DEF NothingFirst
  <2>2. client'.auto = client.auto /\ (client'.connected => client.connected)
    BY <1>1, <1>10, SettingKept
  <2>3. ServersInv'
    BY <1>1, <1>3, <1>4, <1>10, GatewayServers
  <2> QED
    BY <1>4, <2>1, <2>2, <2>3, QuietSilent
<1> QED
  BY <1>5, <1>6, <1>7, <1>8, <1>9, <1>10 DEF Next

\* A gateway that has handled everything generates because it was told to last,
\* and so the setting is on.
LEMMA AutoWasAsked == AutoInv => NeverAutoUnasked
<1> SUFFICES ASSUME AutoInv, Bypassed, Settled, InterviewRuns, socket[client.ws].auto, ~client.auto
             PROVE  FALSE
  BY DEF NeverAutoUnasked, AutoInv, ByPassInv, ClientInv, ClientTypeOK, Client
<1> DEFINE x == socket[client.ws]
<1>1. client.ws \in Socket /\ ServersInv /\ SilentInv /\ ClientInv
  BY ClientAssumption
     DEF AutoInv, ByPassInv, ClientInv, ClientTypeOK, Client, InterviewRuns, Socket, NoSocket
<1>2. x.handled = Len(x.sent) /\ Silent(x.sent) /\ x.handled \in Nat
  BY <1>1 DEF Settled, SilentInv, ClientInv, ClientTypeOK, SocketRecord
<1>3. Sounds(x)
  BY <1>1 DEF ServersInv, ServerInv, InterviewRuns, Live
<1> HIDE DEF x
<1>4. PICK i \in 1..x.handled :
         On(x.sent[i]) /\ \A j \in (i + 1)..x.handled : ~Off(x.sent[j])
  BY <1>3 DEF Sounds
<1> QED
  BY <1>2, <1>4 DEF Silent

\* NeverAutoUnasked, of backendSessionClient.ts's send, stop, setAutoGenerate and
\* handleOpen without auth: once nothing is in flight the gateway's session
\* generates answers by itself only if the user has that switched on, whatever
\* was queued, replayed, lost or stopped on the way.
THEOREM NeverAutoUnaskedAlways == Spec => []NeverAutoUnasked
<1>1. Init => AutoInv
  BY InitAuto
<1>2. AutoInv /\ [Next]_vars => AutoInv'
  BY NextAuto
<1>3. AutoInv => NeverAutoUnasked
  BY AutoWasAsked
<1> QED
  BY <1>1, <1>2, <1>3, PTL DEF Spec
=============================================================================
