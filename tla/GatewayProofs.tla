------------------------------ MODULE GatewayProofs ------------------------------
(***************************************************************************)
(* What holds of the session gateway for every set of accounts, sessions,  *)
(* connections and concurrent calls, every message, fault and crash: what  *)
(* was proved of the credits service holds under its real caller; and the  *)
(* one finalize of a connection ends its session, with the reason and the  *)
(* amount the client is told; every unit of audio is metered once; and     *)
(* credits exhausted by audio are noticed.                                 *)
(***************************************************************************)
EXTENDS SessionGateway, CreditsProofs

-----------------------------------------------------------------------------
(* The shape of the state, and who belongs to whom *)

\* A session's relay and orchestrator; how many generations are superseded is
\* not bounded here.
OrchestratorShape ==
    [exhausted : BOOLEAN, pending : 0..(MeterAt - 1), relayed : 0..MaxAudio,
     older : Nat, newest : BOOLEAN]

TaskKind == {"none", "meter", "usage", "finalize", "qna", "check_ledger", "check_usage"}

\* A task, whatever balance it has read.
TaskShape(balance) ==
    [kind : TaskKind, conn : Conn \cup {NoConn}, session : Session \cup {NoSession},
     balance : {balance}, voided : BOOLEAN]

GatewayShape ==
    /\ conn \in [Conn -> Connection]
    /\ orch \in [Session -> OrchestratorShape]
    /\ DOMAIN task = Call
    /\ \A k \in Call : task[k] \in TaskShape(task[k].balance)
    /\ owner \in [Session -> Conn \cup {NoConn}]
    /\ told \subseteq Told
    /\ stranded \subseteq Session

\* A connection that died with the process never runs again.
Dead(c) == conn[c].ws = "closed" /\ conn[c].handler = "ready" /\ conn[c].inbox = <<>>

\* A connection in use has a session, one of its own, and the sessions of an
\* unused one are those of a process that died.
ConnectionsOwn ==
    /\ \A s \in Session : owner[s] # NoConn <=> s \in minted
    /\ \A c \in Conn : conn[c].current # NoSession => owner[conn[c].current] = c
    /\ \A s \in Session : owner[s] # NoConn => conn[owner[s]].current # NoSession \/ Dead(owner[s])
    /\ \A c \in Conn : conn[c].handler \in {"check", "create"} => conn[c].account # NoAccount
    /\ \A c \in Conn : conn[c].ending = "relay_close" => conn[c].current # NoSession

\* What runs for a session, in its relay, its orchestrator or a task, runs
\* for the connection that owns it, which still has a session.
Live(s) == owner[s] # NoConn /\ conn[owner[s]].current # NoSession

WorkIsOwned ==
    /\ \A s \in Session : orch[s].pending > 0 \/ orch[s].older > 0 \/ orch[s].newest => Live(s)
    /\ \A k \in Call : task[k].kind # "none" =>
          /\ task[k].session \in Session /\ Live(task[k].session)
          /\ task[k].conn = owner[task[k].session]

\* Only recordUsage and finalize tasks have a call in flight.
CallsHaveTasks ==
    \A k \in Call :
        /\ calls[k].at \in {"usage_get", "usage_upsert"} => task[k].kind \in {"meter", "usage"}
        /\ calls[k].at \in {"session_get", "final_usage_get", "mark", "append"} =>
              task[k].kind = "finalize"

LinkInv == GatewayShape /\ ConnectionsOwn /\ WorkIsOwned /\ CallsHaveTasks

-----------------------------------------------------------------------------
(* finalize, from the call to its answer *)

\* The finalize of a connection is one task, for a session of the connection
\* (the current one if stop_session waits for it), with its reason.
FinalizeIsOne ==
    /\ \A k \in Call : task[k].kind = "finalize" =>
          LET c == task[k].conn
              s == calls[k].session IN
          /\ calls[k].at # "idle" /\ s \in minted /\ owner[s] = c
          /\ conn[c].ending = "settling"
          /\ calls[k].reason = conn[c].reason
          /\ Stopping(c) => s = conn[c].current
    /\ \A j, k \in Call :
          task[j].kind = "finalize" /\ task[k].kind = "finalize" /\ task[j].conn = task[k].conn => j = k

\* No session of a connection ends before its finalize claims it; from then
\* on it has the reason the connection has, or no row.
Unclaimed(s) == sessions[s] = NoRow \/ Claimable(s)

\* What finalize task k, past its claim or before it, finds of its session.
Follows(k) ==
    LET s == calls[k].session IN
    /\ calls[k].at \in {"session_get", "final_usage_get", "mark"} => Unclaimed(s)
    /\ calls[k].at = "final_usage_get" /\ calls[k].row = NoRow => sessions[s] = NoRow
    /\ calls[k].at \in {"append", "returned"} =>
          sessions[s] = NoRow \/ sessions[s].ended = calls[k].reason

ClaimsFollow ==
    /\ \A s \in Session :
          owner[s] # NoConn /\ conn[owner[s]].current # NoSession
             /\ conn[owner[s]].ending \in {"no", "relay_close"} => Unclaimed(s)
    /\ \A k \in Call : task[k].kind = "finalize" => Follows(k)

\* A finalize of s is to come, or under way.
Awaited(s) ==
    LET c == owner[s] IN
    \/ conn[c].ending = "no" /\ conn[c].ws # "closed" /\ conn[c].current = s
    \/ conn[c].ending = "relay_close" /\ conn[c].current = s
    \/ \E k \in Call : task[k].kind = "finalize" /\ calls[k].session = s

NoneForgotten ==
    \A s \in Session : owner[s] # NoConn => Ended(s) \/ s \in stranded \/ Awaited(s)

FinalizeInv == FinalizeIsOne /\ ClaimsFollow /\ NoneForgotten

\* What was told names sessions that were created, and is true.
ToldIsTrue ==
    /\ \A t \in told : t.session \in minted
    /\ SummaryIsTheBill
    /\ ToldReasonIsRecorded

-----------------------------------------------------------------------------
(* The gateway is a caller of the credits service *)

\* What LinkInv and BillInv say of single values.
LEMMA GatewayFacts ==
    ASSUME LinkInv, BillInv
    PROVE  /\ \A c \in Conn : conn[c] \in Connection
           /\ \A s \in Session : orch[s] \in OrchestratorShape
           /\ \A c \in Conn : conn[c].current # NoSession =>
                 conn[c].current \in Session /\ conn[c].current \in minted
           /\ \A s \in Session : Live(s) => s \in minted /\ owner[s] \in Conn
           /\ \A k \in Call : task[k].kind # "none" => task[k].conn \in Conn
           /\ minted \subseteq Session
<1>1. \A c \in Conn : conn[c] \in Connection
  BY DEF LinkInv, GatewayShape
<1>2. \A c \in Conn : conn[c].current # NoSession => conn[c].current \in Session
  BY <1>1 DEF Connection
<1>3. \A c \in Conn : conn[c].current # NoSession => conn[c].current \in minted
  BY <1>2, GatewayAssumption DEF LinkInv, ConnectionsOwn
<1>4. \A s \in Session : Live(s) => s \in minted /\ owner[s] \in Conn
  BY DEF LinkInv, GatewayShape, ConnectionsOwn, Live
<1>5. \A k \in Call : task[k].kind # "none" => task[k].conn \in Conn
  BY <1>4 DEF LinkInv, WorkIsOwned
<1> QED
  BY <1>1, <1>2, <1>3, <1>4, <1>5, TableFacts DEF LinkInv, GatewayShape

\* Metering calls recordUsage for a session.
LEMMA MeterServes ==
    ASSUME NEW c, NEW s \in minted, NEW n \in Nat, NEW tasks, Meter(c, s, n, tasks)
    PROVE  ServiceStep
<1>1. SttUsage(n) \in Usage
  BY DEF SttUsage, Usage
<1> QED
  BY <1>1 DEF Meter, ServiceStep, Called

\* So does a finalize that has samples left.
LEMMA BeginFinalizeServes ==
    ASSUME LinkInv, BillInv, NEW c \in Conn, conn[c].current # NoSession,
           NEW new, NEW reason, NEW orchs, NEW tasks, BeginFinalize(c, new, reason, orchs, tasks)
    PROVE  [ServiceStep]_creditsVars
<1>1. /\ conn[c].current \in minted /\ conn[c].current \in Session
      /\ orch[conn[c].current].pending \in Nat
  BY GatewayFacts, GatewayAssumption DEF OrchestratorShape
<1>2. CASE UNCHANGED creditsVars
  BY <1>2
<1>3. CASE Meter(c, conn[c].current, orch[conn[c].current].pending, tasks)
  BY <1>1, <1>3, MeterServes
<1> QED
  BY <1>2, <1>3 DEF BeginFinalize

\* Every step of the gateway is a step of the credits service under some
\* caller, or leaves the service alone.
LEMMA GatewayServes ==
    ASSUME LinkInv, BillInv, [GatewayNext]_vars
    PROVE  [ServiceStep]_creditsVars
<1> USE DEF ServiceStep
<1>1. ASSUME NEW c \in Conn,
             \/ Connect(c) \/ \E m \in ControlMessage : Receive(c, m)
             \/ HandleAuth(c) \/ HandleStart(c) \/ HandleQuestion(c)
             \/ AuthOk(c) \/ StartChecked(c) \/ AuthFails(c) \/ StartFails(c)
      PROVE  UNCHANGED creditsVars
  BY <1>1 DEF Connect, Receive, HandleAuth, HandleStart, HandleQuestion, AuthOk, StartChecked,
              AuthFails, StartFails
<1>2. ASSUME NEW c \in Conn, Audio(c) PROVE [ServiceStep]_creditsVars
  <2>1. CASE UNCHANGED creditsVars
    BY <2>1
  <2>2. CASE Meter(c, conn[c].current, orch[conn[c].current].pending + 1, task)
    <3>1. /\ conn[c].current \in minted
          /\ orch[conn[c].current].pending + 1 \in Nat
      BY <1>2, GatewayFacts, GatewayAssumption DEF Audio, OrchestratorShape
    <3> QED
      BY <2>2, <3>1, MeterServes
  <2> QED
    BY <1>2, <2>1, <2>2 DEF Audio
<1>3. ASSUME NEW c \in Conn, SocketCloses(c) \/ HandleStop(c) PROVE [ServiceStep]_creditsVars
  BY <1>3, BeginFinalizeServes DEF SocketCloses, HandleStop
<1>4. ASSUME NEW c \in Conn, RelayClosed(c) PROVE ServiceStep
  <2>1. conn[c].current \in minted /\ conn[c].reason \in EndReason
    BY <1>4, GatewayFacts DEF RelayClosed, LinkInv, ConnectionsOwn, Connection
  <2> QED
    BY <1>4, <2>1 DEF RelayClosed, Called
<1>5. ASSUME NEW c \in Conn, StartCreated(c) PROVE ServiceStep
  <2>1. conn[c].account \in Account
    BY <1>5, GatewayFacts DEF StartCreated, LinkInv, ConnectionsOwn, Connection
  <2>2. ModeOf[conn[c].account] \in Mode
    BY <2>1, GatewayAssumption
  <2> QED
    BY <1>5, <2>1, <2>2 DEF StartCreated
<1>6. ASSUME NEW s \in Session, OlderAnswered(s) \/ NewestAnswered(s)
      PROVE  ServiceStep
  <2>1. Live(s)
    BY <1>6 DEF OlderAnswered, NewestAnswered, LinkInv, WorkIsOwned
  <2>2. s \in minted /\ LlmUsage \in Usage
    BY <2>1, GatewayFacts DEF LlmUsage, Usage
  <2> QED
    BY <1>6, <2>2 DEF OlderAnswered, NewestAnswered, Called
<1>7. ASSUME NEW s \in Session, GenerationFails(s) \/ HttpDelete(s)
      PROVE  [ServiceStep]_creditsVars
  BY <1>7 DEF GenerationFails, HttpDelete
<1>8. ASSUME NEW k \in Call,
             \/ FinalizeReturned(k) \/ StopFailed(k) \/ RejectionKills(k)
             \/ MeterReturned(k) \/ UsageReturned(k)
      PROVE  ServiceStep
  BY <1>8 DEF FinalizeReturned, StopFailed, RejectionKills, MeterReturned, UsageReturned
<1>9. ASSUME NEW k \in Call, QnaAppended(k) \/ CheckLedger(k) \/ CheckFails(k)
      PROVE  UNCHANGED creditsVars
  BY <1>9 DEF QnaAppended, CheckLedger, CheckFails
<1>10. ASSUME NEW k \in Call, CheckUsage(k) PROVE [ServiceStep]_creditsVars
  <2>1. task[k].conn \in Conn /\ conn[task[k].conn].current # NoSession
    BY <1>10, GatewayFacts DEF CheckUsage, LinkInv, WorkIsOwned, Live
  <2> QED
    BY <1>10, <2>1, BeginFinalizeServes DEF CheckUsage
<1>11. ASSUME NEW k \in Call, Statement(k) PROVE ServiceStep
  BY <1>11 DEF Statement
<1>12. CASE ProcessCrash
  BY <1>12 DEF ProcessCrash
<1>13. CASE UNCHANGED vars
  BY <1>13 DEF vars
<1> HIDE DEF ServiceStep
<1> QED
  BY <1>1, <1>2, <1>3, <1>4, <1>5, <1>6, <1>7, <1>8, <1>9, <1>10, <1>11, <1>12, <1>13
  DEF GatewayNext, HandlerStep, TaskStep

-----------------------------------------------------------------------------
(* Links are kept: steps that leave who owns what alone *)

\* A connection goes on with x, its session the same.
ConnMoves(c, x) ==
    /\ x \in Connection
    /\ Update(c, x)
    /\ x.current = conn[c].current
    /\ x.handler \in {"check", "create"} => x.account # NoAccount
    /\ x.ending = "relay_close" => x.current # NoSession
    /\ Dead(c) => x.current # NoSession

ConnsKept ==
    /\ conn' \in [Conn -> Connection]
    /\ \A c \in Conn :
          /\ conn'[c].current = conn[c].current
          /\ Dead(c) /\ conn[c].current = NoSession => conn'[c] = conn[c]
          /\ conn'[c].handler \in {"check", "create"} => conn'[c].account # NoAccount
          /\ conn'[c].ending = "relay_close" => conn'[c].current # NoSession

\* Only sessions in use have work in orchs.
WorkOk(orchs) ==
    /\ orchs \in [Session -> OrchestratorShape]
    /\ \A s \in Session : orchs[s].pending > 0 \/ orchs[s].older > 0 \/ orchs[s].newest => Live(s)

\* Tasks are of sessions in use, and those with a call in flight stay.
Owned(t) == t.session \in Session /\ Live(t.session) /\ t.conn = owner[t.session]

TasksOk(tasks) ==
    /\ DOMAIN tasks = Call
    /\ \A k \in Call :
          /\ tasks[k] \in TaskShape(tasks[k].balance)
          /\ tasks[k].kind # "none" => Owned(tasks[k])
          /\ calls[k].at \in AwaitPoint => tasks[k].kind = task[k].kind

\* What holds already.
LEMMA WorkNow ==
    ASSUME LinkInv, BillInv
    PROVE  WorkOk(orch) /\ TasksOk(task)
BY DEF LinkInv, GatewayShape, WorkIsOwned, WorkOk, TasksOk, Owned

\* An empty slot, and one that has been given a task.
LEMMA TaskFacts ==
    /\ NoTask \in TaskShape(NoTask.balance) /\ NoTask.kind = "none"
    /\ \A kind \in TaskKind, c \in Conn, s \in Session :
          LET t == TaskOf(kind, c, s) IN
          t \in TaskShape(t.balance) /\ t.kind = kind /\ t.conn = c /\ t.session = s
BY DEF NoTask, TaskOf, TaskShape, TaskKind

\* A connection that moves on keeps its session, and the others keep all.
LEMMA MovedConns ==
    ASSUME LinkInv, BillInv, NEW c \in Conn, NEW x, ConnMoves(c, x)
    PROVE  /\ ConnsKept
           /\ conn'[c] = x
           /\ \A d \in Conn : d # c => conn'[d] = conn[d]
<1>1. conn \in [Conn -> Connection]
  BY DEF LinkInv, GatewayShape
<1>2. /\ conn'[c] = x /\ conn' \in [Conn -> Connection]
      /\ \A d \in Conn : d # c => conn'[d] = conn[d]
  BY <1>1 DEF ConnMoves, Update
<1>3. \A d \in Conn : /\ conn[d].handler \in {"check", "create"} => conn[d].account # NoAccount
                      /\ conn[d].ending = "relay_close" => conn[d].current # NoSession
  BY DEF LinkInv, ConnectionsOwn
<1> QED
  BY <1>2, <1>3 DEF ConnMoves, ConnsKept

\* No connection moves.
LEMMA SameConns ==
    ASSUME LinkInv, UNCHANGED conn
    PROVE  ConnsKept
BY DEF LinkInv, GatewayShape, ConnectionsOwn, ConnsKept

\* A slot gets a task of a session in use.
LEMMA TaskPut ==
    ASSUME NEW tasks, TasksOk(tasks), NEW k \in Call, NEW t, t \in TaskShape(t.balance),
           t.kind # "none" => Owned(t),
           calls[k].at \in AwaitPoint => t.kind = task[k].kind
    PROVE  TasksOk([tasks EXCEPT ![k] = t])
BY DEF TasksOk

\* A session's relay and orchestrator go on with o.
LEMMA WorkPut ==
    ASSUME NEW orchs, WorkOk(orchs), NEW s \in Session, Live(s), NEW o \in OrchestratorShape
    PROVE  WorkOk([orchs EXCEPT ![s] = o])
BY DEF WorkOk

\* Steps of this kind preserve the links.
LEMMA LinksKept ==
    ASSUME LinkInv, BillInv, ConnsKept, WorkOk(orch'), TasksOk(task'),
           UNCHANGED <<owner, minted>>, told' \subseteq Told, stranded' \subseteq Session,
           CallsHaveTasks'
    PROVE  LinkInv'
<1>1. GatewayShape'
  BY DEF LinkInv, GatewayShape, ConnsKept, WorkOk, TasksOk, TaskShape
<1>2. \A s \in Session : Live(s) => Live(s)'
  BY GatewayFacts DEF Live, ConnsKept
<1>3. ConnectionsOwn'
  <2>1. (\A s \in Session : owner[s] # NoConn <=> s \in minted)'
    BY DEF LinkInv, ConnectionsOwn
  <2>2. (\A c \in Conn : conn[c].current # NoSession => owner[conn[c].current] = c)'
    BY DEF LinkInv, ConnectionsOwn, ConnsKept
  <2>3. (\A s \in Session : owner[s] # NoConn =>
            conn[owner[s]].current # NoSession \/ Dead(owner[s]))'
    <3> SUFFICES ASSUME NEW s \in Session, owner[s] # NoConn
                 PROVE  conn'[owner[s]].current # NoSession \/ Dead(owner[s])'
      BY DEF Dead
    <3>1. owner[s] \in Conn
      BY DEF LinkInv, GatewayShape
    <3>2. conn[owner[s]].current # NoSession \/ Dead(owner[s])
      BY DEF LinkInv, ConnectionsOwn
    <3> QED
      BY <3>1, <3>2 DEF ConnsKept, Dead
  <2> QED
    BY <2>1, <2>2, <2>3 DEF ConnectionsOwn, ConnsKept
<1>4. WorkIsOwned'
  <2>1. (\A s \in Session : orch[s].pending > 0 \/ orch[s].older > 0 \/ orch[s].newest => Live(s))'
    BY <1>2 DEF WorkOk
  <2>2. (\A k \in Call : task[k].kind # "none" =>
            /\ task[k].session \in Session /\ Live(task[k].session)
            /\ task[k].conn = owner[task[k].session])'
    <3> SUFFICES ASSUME NEW k \in Call, task'[k].kind # "none"
                 PROVE  Owned(task[k])'
      BY DEF Owned
    <3>1. Owned(task'[k])
      BY DEF TasksOk
    <3> QED
      BY <3>1, <1>2 DEF Owned, Live
  <2> QED
    BY <2>1, <2>2 DEF WorkIsOwned
<1> QED
  BY <1>1, <1>3, <1>4 DEF LinkInv

\* Calls that are in flight stay with the tasks that wait for them.
LEMMA CallsKept ==
    ASSUME LinkInv, TasksOk(task'),
           \A k \in Call : calls'[k].at \in AwaitPoint => calls'[k].at = calls[k].at
    PROVE  CallsHaveTasks'
<1> SUFFICES ASSUME NEW k \in Call
             PROVE  /\ calls'[k].at \in {"usage_get", "usage_upsert"} => task'[k].kind \in {"meter", "usage"}
                    /\ calls'[k].at \in {"session_get", "final_usage_get", "mark", "append"} =>
                          task'[k].kind = "finalize"
  BY DEF CallsHaveTasks
<1>1. CASE calls'[k].at \in AwaitPoint
  <2>1. calls'[k].at = calls[k].at /\ task'[k].kind = task[k].kind
    BY <1>1 DEF TasksOk
  <2> QED
    BY <2>1 DEF LinkInv, CallsHaveTasks
<1>2. CASE calls'[k].at \notin AwaitPoint
  BY <1>2 DEF AwaitPoint
<1> QED
  BY <1>1, <1>2

\* The commonest case: nothing but tasks, orchestrators and the places of
\* connections change, and no call but one that is over.
LEMMA QuietLinks ==
    ASSUME LinkInv, BillInv, ConnsKept, WorkOk(orch'), TasksOk(task'),
           UNCHANGED <<owner, told, stranded>>,
           UNCHANGED creditsVars \/ \E k \in Call : Settle(k)
    PROVE  LinkInv'
<1>1. \A k \in Call : calls'[k].at \in AwaitPoint => calls'[k].at = calls[k].at
  <2>1. CASE UNCHANGED creditsVars
    BY <2>1 DEF creditsVars
  <2>2. ASSUME NEW k \in Call, Settle(k)
        PROVE  \A j \in Call : calls'[j].at \in AwaitPoint => calls'[j].at = calls[j].at
    <3>1. \A j \in Call : calls'[j] = IF j = k THEN IdleCall ELSE calls[j]
      BY <2>2, TableFacts DEF Settle, Resume
    <3>2. IdleCall.at \notin AwaitPoint
      BY DEF IdleCall, AwaitPoint
    <3> QED
      BY <3>1, <3>2
  <2> QED
    BY <2>1, <2>2
<1>2. minted' = minted
  BY DEF creditsVars, Settle
<1>3. told \subseteq Told /\ stranded \subseteq Session
  BY DEF LinkInv, GatewayShape
<1> QED
  BY <1>1, <1>2, <1>3, CallsKept, LinksKept

\* A call that begins has the task that waits for it.
LEMMA CallBegun ==
    ASSUME LinkInv, BillInv, NEW k \in Call, NEW c, Resume(k, c), TasksOk(task'),
           \/ c.at = "usage_get" /\ task'[k].kind \in {"meter", "usage"}
           \/ c.at = "session_get" /\ task'[k].kind = "finalize"
    PROVE  CallsHaveTasks'
<1>1. calls'[k] = c /\ \A j \in Call : j # k => calls'[j] = calls[j]
  BY TableFacts DEF Resume
<1>2. \A j \in Call : j # k =>
         /\ calls'[j].at \in {"usage_get", "usage_upsert"} => task'[j].kind \in {"meter", "usage"}
         /\ calls'[j].at \in {"session_get", "final_usage_get", "mark", "append"} =>
               task'[j].kind = "finalize"
  BY <1>1 DEF LinkInv, CallsHaveTasks, TasksOk, AwaitPoint
<1> QED
  BY <1>1, <1>2 DEF CallsHaveTasks

\* recordUsage is called by a task of its session.
LEMMA UsageCalled ==
    ASSUME LinkInv, BillInv, NEW k \in Call, NEW s \in Session, NEW d, RecordUsage(k, s, d),
           TasksOk(task'), task'[k].kind \in {"meter", "usage"}
    PROVE  CallsHaveTasks' /\ UNCHANGED <<sessions, minted, ledger>>
<1> DEFINE c == [IdleCall EXCEPT !.at = "usage_get", !.session = s, !.delta = d]
<1>1. c.at = "usage_get" /\ Resume(k, c) /\ UNCHANGED <<sessions, minted, ledger>>
  BY DEF RecordUsage, IdleCall
<1> HIDE DEF c
<1> QED
  BY <1>1, CallBegun

\* A slot without a call in flight may be given a task of a session in use.
LEMMA OwnedPut ==
    ASSUME LinkInv, BillInv, NEW tasks, TasksOk(tasks), NEW k \in Call, calls[k].at \notin AwaitPoint,
           NEW kind \in TaskKind, NEW s \in Session, Live(s)
    PROVE  TasksOk([tasks EXCEPT ![k] = TaskOf(kind, owner[s], s)])
<1> DEFINE t == TaskOf(kind, owner[s], s)
<1>1. owner[s] \in Conn
  BY GatewayFacts
<1>2. t \in TaskShape(t.balance) /\ Owned(t)
  BY <1>1, TaskFacts DEF Owned
<1> HIDE DEF t
<1>3. TasksOk([tasks EXCEPT ![k] = t])
  BY <1>2, TaskPut
<1> QED
  BY <1>3 DEF t

\* A slot without a call in flight may be emptied.
LEMMA EmptyPut ==
    ASSUME NEW tasks, TasksOk(tasks), NEW k \in Call, calls[k].at \notin AwaitPoint
    PROVE  TasksOk([tasks EXCEPT ![k] = NoTask])
BY TaskFacts, TaskPut

\* Metering gives a free slot to a task of the session.
LEMMA MeterLinks ==
    ASSUME LinkInv, BillInv, NEW s \in Session, Live(s), NEW n, NEW tasks, TasksOk(tasks),
           Meter(owner[s], s, n, tasks)
    PROVE  /\ TasksOk(task') /\ CallsHaveTasks' /\ UNCHANGED <<sessions, minted, ledger>>
           /\ \A k \in Call : \/ task'[k] = tasks[k] /\ calls'[k] = calls[k]
                              \/ tasks[k] = NoTask /\ task'[k].kind = "meter"
<1>1. PICK k \in Call : /\ tasks[k] = NoTask
                        /\ RecordUsage(k, s, SttUsage(n))
                        /\ task' = [tasks EXCEPT ![k] = TaskOf("meter", owner[s], s)]
  BY DEF Meter
<1>2. calls[k].at = "idle" /\ calls[k].at \notin AwaitPoint
  BY <1>1 DEF RecordUsage, AwaitPoint
<1>3. TasksOk(task')
  BY <1>1, <1>2, OwnedPut DEF TaskKind
<1>4. /\ task'[k].kind = "meter"
      /\ \A j \in Call : j # k => task'[j] = tasks[j] /\ calls'[j] = calls[j]
  BY <1>1, TaskFacts, GatewayFacts, TableFacts DEF TasksOk, TaskKind, RecordUsage, Resume
<1>5. CallsHaveTasks' /\ UNCHANGED <<sessions, minted, ledger>>
  BY <1>1, <1>3, <1>4, UsageCalled
<1>6. tasks[k] = NoTask
  BY <1>1
<1> QED
  BY <1>3, <1>4, <1>5, <1>6

\* A finalize that begins keeps the links.
LEMMA BeginFinalizeLinks ==
    ASSUME LinkInv, BillInv, NEW c \in Conn, conn[c].current # NoSession,
           NEW new \in Connection, new.current = conn[c].current,
           new.handler \in {"check", "create"} => new.account # NoAccount,
           NEW reason \in EndReason, NEW orchs, WorkOk(orchs), NEW tasks, TasksOk(tasks),
           BeginFinalize(c, new, reason, orchs, tasks), UNCHANGED <<owner, told, stranded>>
    PROVE  LinkInv'
<1> DEFINE s == conn[c].current
           x == [new EXCEPT !.ending = "relay_close", !.reason = reason]
<1>1. s \in Session /\ owner[s] = c /\ Live(s)
  BY GatewayFacts DEF LinkInv, ConnectionsOwn, Live
<1>2. /\ x \in Connection /\ x.current = conn[c].current /\ x.handler = new.handler
      /\ x.account = new.account
  BY DEF Connection
<1>3. ConnMoves(c, x)
  BY <1>2 DEF ConnMoves, BeginFinalize
<1> HIDE DEF x
<1>4. ConnsKept
  BY <1>3, MovedConns
<1>5. WorkOk(orch')
  <2> DEFINE o == [orchs[s] EXCEPT !.pending = 0]
  <2>1. orch' = [orchs EXCEPT ![s] = o]
    BY DEF BeginFinalize
  <2>2. o \in OrchestratorShape
    BY <1>1, GatewayAssumption DEF WorkOk, OrchestratorShape
  <2> HIDE DEF o, s
  <2> QED
    BY <1>1, <2>1, <2>2, WorkPut
<1>6. told \subseteq Told /\ stranded \subseteq Session
  BY DEF LinkInv, GatewayShape
<1>7. CASE task' = tasks /\ UNCHANGED creditsVars
  <2>1. UNCHANGED <<calls, minted>>
    BY <1>7 DEF creditsVars
  <2>2. CallsHaveTasks'
    BY <1>7, <2>1, CallsKept
  <2> QED
    BY <1>4, <1>5, <1>6, <1>7, <2>1, <2>2, LinksKept
<1>8. CASE Meter(c, s, orch[s].pending, tasks)
  <2>1. TasksOk(task') /\ CallsHaveTasks' /\ UNCHANGED minted
    BY <1>1, <1>8, MeterLinks
  <2> QED
    BY <1>4, <1>5, <1>6, <2>1, LinksKept
<1> QED
  BY <1>7, <1>8 DEF BeginFinalize

-----------------------------------------------------------------------------
(* Links are kept: one lemma per action, or per group of alike ones *)

\* Only the connection moves.
LEMMA ConnOnlyLinks ==
    ASSUME LinkInv, BillInv, NEW c \in Conn, NEW x, ConnMoves(c, x),
           UNCHANGED <<orch, task, owner, told, stranded, creditsVars>>
    PROVE  LinkInv'
<1>1. ConnsKept
  BY MovedConns
<1>2. WorkOk(orch') /\ TasksOk(task')
  BY WorkNow
<1> QED
  BY <1>1, <1>2, QuietLinks

\* The server starts to close a socket; that is all.
LEMMA CloseSocketFacts ==
    ASSUME NEW x \in Connection
    PROVE  /\ CloseSocket(x) \in Connection
           /\ CloseSocket(x).ws = IF x.ws = "open" THEN "closing" ELSE x.ws
           /\ CloseSocket(x).current = x.current /\ CloseSocket(x).handler = x.handler
           /\ CloseSocket(x).account = x.account /\ CloseSocket(x).ending = x.ending
           /\ CloseSocket(x).reason = x.reason /\ CloseSocket(x).inbox = x.inbox
BY DEF CloseSocket, Connection

\* A message is taken off the queue; that is all.
LEMMA TakenFacts ==
    ASSUME NEW c \in Conn, conn[c] \in Connection, NEW m, NextIs(c, m)
    PROVE  /\ Taken(c) \in Connection
           /\ Taken(c).ws = conn[c].ws
           /\ Taken(c).current = conn[c].current /\ Taken(c).handler = "ready"
           /\ Taken(c).account = conn[c].account /\ Taken(c).ending = conn[c].ending
           /\ Taken(c).reason = conn[c].reason /\ ~Dead(c)
<1>1. Tail(conn[c].inbox) \in Seq(ControlMessage)
  BY DEF Connection, NextIs
<1> QED
  BY <1>1 DEF Taken, Connection, NextIs, Dead

\* x is how connection c goes on, to the eye of its finalize.
StillIs(c, x) ==
    /\ x.ending = conn[c].ending /\ x.reason = conn[c].reason
    /\ x.ws = "closed" <=> conn[c].ws = "closed"
    /\ x.handler = "stopping" => conn[c].handler = "stopping"

\* Messages and authentication change nothing but the connection, and nothing
\* of its session.
LEMMA ConversationMoves ==
    ASSUME LinkInv, BillInv, NEW c \in Conn,
           \/ Connect(c) \/ \E m \in ControlMessage : Receive(c, m)
           \/ HandleAuth(c) \/ HandleStart(c)
           \/ AuthOk(c) \/ StartChecked(c) \/ AuthFails(c) \/ StartFails(c)
    PROVE  /\ \E x : ConnMoves(c, x) /\ StillIs(c, x)
           /\ UNCHANGED <<orch, task, owner, told, stranded, creditsVars>>
<1>1. /\ conn[c] \in Connection
      /\ conn[c].handler \in {"check", "create"} => conn[c].account # NoAccount
      /\ conn[c].ending = "relay_close" => conn[c].current # NoSession
  BY GatewayFacts DEF LinkInv, ConnectionsOwn
<1>2. UNCHANGED <<orch, task, owner, told, stranded, creditsVars>>
  BY DEF Connect, Receive, HandleAuth, HandleStart, AuthOk, StartChecked, AuthFails, StartFails
<1>3. TokenOf[c] \in Account /\ TokenOf[c] # NoAccount
  BY GatewayAssumption
<1>4. CASE Connect(c)
  <2> DEFINE x == [conn[c] EXCEPT !.ws = "open"]
  <2>1. ConnMoves(c, x) /\ StillIs(c, x)
    BY <1>1, <1>4 DEF Connect, ConnMoves, StillIs, Connection, Dead
  <2> QED
    BY <1>2, <2>1
<1>5. ASSUME NEW m \in ControlMessage, Receive(c, m) PROVE \E x : ConnMoves(c, x) /\ StillIs(c, x)
  <2> DEFINE x == [conn[c] EXCEPT !.sent = @ + 1, !.inbox = Append(@, m)]
  <2>1. x.sent \in 0..MaxMessages /\ x.inbox \in Seq(ControlMessage)
    <3>1. /\ conn[c].sent \in Nat /\ conn[c].sent < MaxMessages
          /\ conn[c].inbox \in Seq(ControlMessage)
      <4>1. conn[c].sent \in 0..MaxMessages /\ conn[c].inbox \in Seq(ControlMessage)
        BY <1>1 DEF Connection
      <4>2. conn[c].sent < MaxMessages
        BY <1>5 DEF Receive
      <4> QED
        BY <4>1, <4>2, GatewayAssumption
    <3>2. x.sent = conn[c].sent + 1 /\ x.inbox = Append(conn[c].inbox, m)
      BY <1>1 DEF Connection
    <3> HIDE DEF x
    <3> QED
      BY <3>1, <3>2, GatewayAssumption
  <2>2. ConnMoves(c, x) /\ StillIs(c, x)
    BY <1>1, <1>5, <2>1 DEF Receive, ConnMoves, StillIs, Connection, Dead
  <2> QED
    BY <2>2
<1>6. CASE HandleAuth(c)
  <2> DEFINE x == [Taken(c) EXCEPT !.handler = "auth"]
  <2>1. ConnMoves(c, x) /\ StillIs(c, x)
    BY <1>1, <1>6, TakenFacts DEF HandleAuth, ConnMoves, StillIs, Connection
  <2> QED
    BY <1>2, <2>1
<1>7. CASE HandleStart(c) /\ conn[c].account = NoAccount
  <2> DEFINE x == CloseSocket(Taken(c))
  <2>1. Taken(c) \in Connection
    BY <1>1, <1>7, TakenFacts DEF HandleStart
  <2>2. ConnMoves(c, x) /\ StillIs(c, x)
    BY <1>1, <1>7, <2>1, TakenFacts, CloseSocketFacts DEF HandleStart, ConnMoves, StillIs
  <2> QED
    BY <1>2, <2>2
<1>8. CASE HandleStart(c) /\ conn[c].account # NoAccount
  <2> DEFINE x == [Taken(c) EXCEPT !.handler = "check"]
  <2>1. ConnMoves(c, x) /\ StillIs(c, x)
    BY <1>1, <1>8, TakenFacts DEF HandleStart, ConnMoves, StillIs, Connection
  <2> QED
    BY <1>2, <2>1
<1>9. CASE AuthOk(c)
  <2> DEFINE x == [conn[c] EXCEPT !.handler = "ready", !.account = TokenOf[c]]
  <2>1. ConnMoves(c, x) /\ StillIs(c, x)
    BY <1>1, <1>3, <1>9 DEF AuthOk, ConnMoves, StillIs, Connection, Dead
  <2> QED
    BY <1>2, <2>1
<1>10. CASE StartChecked(c)
  <2>1. CASE Update(c, [conn[c] EXCEPT !.handler = "create"])
    <3> DEFINE x == [conn[c] EXCEPT !.handler = "create"]
    <3>1. ConnMoves(c, x) /\ StillIs(c, x)
      BY <1>1, <1>10, <2>1 DEF StartChecked, ConnMoves, StillIs, Connection, Dead
    <3> QED
      BY <1>2, <3>1
  <2>2. CASE Update(c, [CloseSocket(conn[c]) EXCEPT !.handler = "ready"])
    <3> DEFINE x == [CloseSocket(conn[c]) EXCEPT !.handler = "ready"]
    <3>1. ConnMoves(c, x) /\ StillIs(c, x)
      BY <1>1, <1>10, <2>2, CloseSocketFacts DEF StartChecked, ConnMoves, StillIs, Connection, Dead
    <3> QED
      BY <1>2, <3>1
  <2> QED
    BY <1>10, <2>1, <2>2 DEF StartChecked
<1>11. CASE AuthFails(c)
  <2>1. PICK a : /\ a \in {conn[c].account, TokenOf[c]}
                 /\ Update(c, [CloseSocket(conn[c]) EXCEPT !.handler = "ready", !.account = a])
    BY <1>11 DEF AuthFails
  <2> DEFINE x == [CloseSocket(conn[c]) EXCEPT !.handler = "ready", !.account = a]
  <2>2. ConnMoves(c, x) /\ StillIs(c, x)
    BY <1>1, <1>3, <1>11, <2>1, CloseSocketFacts DEF AuthFails, ConnMoves, StillIs, Connection, Dead
  <2> QED
    BY <1>2, <2>2
<1>12. CASE StartFails(c)
  <2> DEFINE x == [conn[c] EXCEPT !.handler = "ready"]
  <2>1. ConnMoves(c, x) /\ StillIs(c, x)
    BY <1>1, <1>12 DEF StartFails, ConnMoves, StillIs, Connection, Dead
  <2> QED
    BY <1>2, <2>1
<1> QED
  BY <1>2, <1>4, <1>5, <1>6, <1>7, <1>8, <1>9, <1>10, <1>11, <1>12

\* So they keep the links.
LEMMA ConversationLinks ==
    ASSUME LinkInv, BillInv, NEW c \in Conn,
           \/ Connect(c) \/ \E m \in ControlMessage : Receive(c, m)
           \/ HandleAuth(c) \/ HandleStart(c)
           \/ AuthOk(c) \/ StartChecked(c) \/ AuthFails(c) \/ StartFails(c)
    PROVE  LinkInv'
BY ConversationMoves, ConnOnlyLinks

\* What a relay and an orchestrator are, and what they become.
LEMMA WorkFacts ==
    ASSUME NEW o \in OrchestratorShape
    PROVE  o.pending \in 0..(MeterAt - 1) /\ o.relayed \in 0..MaxAudio /\ o.older \in Nat
BY DEF OrchestratorShape

\* ... so long as the counters stay in their ranges.
LEMMA WorkChanges ==
    ASSUME NEW o \in OrchestratorShape
    PROVE  /\ \A p \in 0..(MeterAt - 1), r \in 0..MaxAudio :
                 [o EXCEPT !.relayed = r, !.pending = p] \in OrchestratorShape
           /\ \A n \in Nat, b \in BOOLEAN :
                 [o EXCEPT !.older = n, !.newest = b] \in OrchestratorShape
           /\ [o EXCEPT !.exhausted = TRUE] \in OrchestratorShape
BY DEF OrchestratorShape

\* A question makes the newest generation of the current session.
LEMMA QuestionLinks ==
    ASSUME LinkInv, BillInv, NEW c \in Conn, HandleQuestion(c)
    PROVE  LinkInv'
<1> DEFINE s == conn[c].current
<1>1. /\ conn[c] \in Connection /\ NextIs(c, "text_question")
      /\ conn[c].ending = "relay_close" => conn[c].current # NoSession
  BY GatewayFacts DEF HandleQuestion, LinkInv, ConnectionsOwn
<1>2. ConnMoves(c, Taken(c))
  BY <1>1, TakenFacts DEF HandleQuestion, ConnMoves
<1>3. ConnsKept
  BY <1>2, MovedConns
<1>4. WorkOk(orch')
  <2>1. CASE orch' = orch
    BY <2>1, WorkNow
  <2>2. CASE s # NoSession /\ orch' # orch
    <3> DEFINE o == [orch[s] EXCEPT !.older = IF orch[s].newest THEN @ + 1 ELSE @,
                                    !.newest = TRUE]
    <3>1. s \in Session /\ Live(s) /\ orch[s] \in OrchestratorShape
      BY <2>2, GatewayFacts DEF LinkInv, ConnectionsOwn, Live
    <3>2. o \in OrchestratorShape
      <4> DEFINE n == IF orch[s].newest THEN orch[s].older + 1 ELSE orch[s].older
      <4>1. n \in Nat
        <5>1. orch[s].older \in Nat
          BY <3>1, WorkFacts
        <5> QED
          BY <5>1
      <4>2. o = [orch[s] EXCEPT !.older = n, !.newest = TRUE]
        OBVIOUS
      <4> HIDE DEF n, s
      <4> QED
        BY <3>1, <4>1, <4>2, WorkChanges
    <3>3. orch' = [orch EXCEPT ![s] = o]
      BY <2>2, <3>1, WorkNow DEF HandleQuestion, WorkOk
    <3> HIDE DEF o, s
    <3> QED
      BY <3>1, <3>2, <3>3, WorkNow, WorkPut
  <2> QED
    BY <2>1, <2>2 DEF HandleQuestion
<1>5. TasksOk(task')
  BY WorkNow DEF HandleQuestion
<1> QED
  BY <1>3, <1>4, <1>5, QuietLinks DEF HandleQuestion

\* A frame of audio is buffered for the current session, or metered.
LEMMA AudioLinks ==
    ASSUME LinkInv, BillInv, NEW c \in Conn, Audio(c)
    PROVE  LinkInv'
<1> DEFINE s == conn[c].current
<1>1. s \in Session /\ owner[s] = c /\ Live(s) /\ orch[s] \in OrchestratorShape
  BY GatewayFacts DEF Audio, LinkInv, ConnectionsOwn, Live
<1>2. ConnsKept /\ WorkOk(orch) /\ TasksOk(task)
  BY SameConns, WorkNow DEF Audio
<1>3. CASE /\ orch[s].pending + 1 < MeterAt
           /\ orch' = [orch EXCEPT ![s] = [orch[s] EXCEPT !.relayed = @ + 1, !.pending = @ + 1]]
           /\ UNCHANGED <<task, creditsVars>>
  <2> DEFINE o == [orch[s] EXCEPT !.relayed = @ + 1, !.pending = @ + 1]
  <2>1. o \in OrchestratorShape
    <3> DEFINE r == orch[s].relayed + 1
               p == orch[s].pending + 1
    <3>1. r \in 0..MaxAudio /\ p \in 0..(MeterAt - 1)
      <4>1. orch[s].pending \in 0..(MeterAt - 1) /\ orch[s].relayed \in 0..MaxAudio
        BY <1>1, WorkFacts
      <4>2. orch[s].relayed < MaxAudio
        BY DEF Audio
      <4> QED
        BY <4>1, <4>2, <1>3, GatewayAssumption
    <3>2. o = [orch[s] EXCEPT !.relayed = r, !.pending = p]
      OBVIOUS
    <3> HIDE DEF r, p
    <3> QED
      BY <1>1, <3>1, <3>2, WorkChanges
  <2> HIDE DEF o
  <2>2. WorkOk(orch')
    BY <1>1, <1>2, <1>3, <2>1, WorkPut DEF o
  <2> QED
    BY <1>2, <1>3, <2>2, QuietLinks DEF Audio
<1>4. CASE /\ orch' = [orch EXCEPT ![s] = [orch[s] EXCEPT !.relayed = @ + 1, !.pending = 0]]
           /\ Meter(c, s, orch[s].pending + 1, task)
  <2> DEFINE o == [orch[s] EXCEPT !.relayed = @ + 1, !.pending = 0]
  <2>1. o \in OrchestratorShape
    <3> DEFINE r == orch[s].relayed + 1
    <3>1. r \in 0..MaxAudio /\ 0 \in 0..(MeterAt - 1)
      <4>1. orch[s].relayed \in 0..MaxAudio
        BY <1>1, WorkFacts
      <4>2. orch[s].relayed < MaxAudio
        BY DEF Audio
      <4> QED
        BY <4>1, <4>2, GatewayAssumption
    <3>2. o = [orch[s] EXCEPT !.relayed = r, !.pending = 0]
      OBVIOUS
    <3> HIDE DEF r
    <3> QED
      BY <1>1, <3>1, <3>2, WorkChanges
  <2> HIDE DEF o
  <2>2. WorkOk(orch')
    BY <1>1, <1>2, <1>4, <2>1, WorkPut DEF o
  <2>3. TasksOk(task') /\ CallsHaveTasks' /\ UNCHANGED minted
    BY <1>1, <1>2, <1>4, MeterLinks
  <2>4. told \subseteq Told /\ stranded \subseteq Session
    BY DEF LinkInv, GatewayShape
  <2> QED
    BY <1>2, <2>2, <2>3, <2>4, LinksKept DEF Audio
<1> QED
  BY <1>3, <1>4 DEF Audio

\* The close event begins the finalize of a session, or only closes.
LEMMA CloseLinks ==
    ASSUME LinkInv, BillInv, NEW c \in Conn, SocketCloses(c)
    PROVE  LinkInv'
<1> DEFINE closed == [conn[c] EXCEPT !.ws = "closed"]
<1>1. /\ conn[c] \in Connection /\ conn[c].ws \in {"open", "closing"}
      /\ conn[c].handler \in {"check", "create"} => conn[c].account # NoAccount
      /\ conn[c].ending = "relay_close" => conn[c].current # NoSession
  BY GatewayFacts DEF SocketCloses, LinkInv, ConnectionsOwn
<1>2. /\ closed \in Connection /\ closed.current = conn[c].current
      /\ closed.handler = conn[c].handler /\ closed.account = conn[c].account
      /\ closed.ending = conn[c].ending
  BY <1>1 DEF Connection
<1>3. WorkOk(orch) /\ TasksOk(task)
  BY WorkNow
<1>4. CASE conn[c].current # NoSession /\ BeginFinalize(c, closed, "disconnected", orch, task)
  <2> HIDE DEF closed
  <2> QED
    BY <1>1, <1>2, <1>3, <1>4, BeginFinalizeLinks DEF SocketCloses, EndReason
<1>5. CASE Update(c, closed) /\ UNCHANGED <<orch, task, creditsVars>>
  <2>1. ConnMoves(c, closed)
    BY <1>1, <1>2, <1>5 DEF ConnMoves, Dead
  <2> HIDE DEF closed
  <2> QED
    BY <1>5, <2>1, ConnOnlyLinks DEF SocketCloses
<1> QED
  BY <1>4, <1>5 DEF SocketCloses

\* stop_session begins it, or does nothing.
LEMMA StopLinks ==
    ASSUME LinkInv, BillInv, NEW c \in Conn, HandleStop(c)
    PROVE  LinkInv'
<1> DEFINE stopping == [Taken(c) EXCEPT !.handler = "stopping"]
<1>1. /\ conn[c] \in Connection /\ NextIs(c, "stop_session")
      /\ conn[c].ending = "relay_close" => conn[c].current # NoSession
  BY GatewayFacts DEF HandleStop, LinkInv, ConnectionsOwn
<1>2. /\ stopping \in Connection /\ stopping.current = conn[c].current
      /\ stopping.handler = "stopping"
  BY <1>1, TakenFacts DEF Connection
<1>3. WorkOk(orch) /\ TasksOk(task)
  BY WorkNow
<1>4. CASE conn[c].current # NoSession /\ BeginFinalize(c, stopping, "user-ended", orch, task)
  <2> HIDE DEF stopping
  <2> QED
    BY <1>2, <1>3, <1>4, BeginFinalizeLinks DEF HandleStop, EndReason
<1>5. CASE Update(c, Taken(c)) /\ UNCHANGED <<orch, task, creditsVars>>
  <2>1. ConnMoves(c, Taken(c))
    BY <1>1, <1>5, TakenFacts DEF ConnMoves
  <2> QED
    BY <1>5, <2>1, ConnOnlyLinks DEF HandleStop
<1> QED
  BY <1>4, <1>5 DEF HandleStop

\* finalizeSession is called by the finalize task of the current session.
LEMMA RelayClosedLinks ==
    ASSUME LinkInv, BillInv, NEW c \in Conn, RelayClosed(c)
    PROVE  LinkInv'
<1> DEFINE s == conn[c].current
           x == [conn[c] EXCEPT !.ending = "settling"]
<1>1. /\ conn[c] \in Connection /\ s \in Session /\ s # NoSession /\ Live(s) /\ owner[s] = c
      /\ conn[c].handler \in {"check", "create"} => conn[c].account # NoAccount
  BY GatewayFacts DEF RelayClosed, LinkInv, ConnectionsOwn, Live
<1>2. ConnMoves(c, x)
  BY <1>1 DEF RelayClosed, ConnMoves, Connection
<1>3. ConnsKept
  BY <1>2, MovedConns
<1>4. PICK k \in Call : /\ task[k] = NoTask
                        /\ FinalizeSession(k, s, conn[c].reason)
                        /\ task' = [task EXCEPT ![k] = TaskOf("finalize", c, s)]
  BY DEF RelayClosed
<1>5. calls[k].at \notin AwaitPoint /\ minted' = minted
  BY <1>4 DEF FinalizeSession, AwaitPoint
<1>6. TasksOk(task')
  BY <1>1, <1>4, <1>5, WorkNow, OwnedPut DEF TaskKind
<1>7. task'[k].kind = "finalize"
  BY <1>1, <1>4, TaskFacts, WorkNow DEF TaskKind, TasksOk
<1>8. CallsHaveTasks'
  <2> DEFINE call == [IdleCall EXCEPT !.at = "session_get", !.session = s,
                                      !.reason = conn[c].reason]
  <2>1. call.at = "session_get" /\ Resume(k, call)
    BY <1>4 DEF FinalizeSession, IdleCall
  <2> HIDE DEF call
  <2> QED
    BY <1>6, <1>7, <2>1, CallBegun
<1>9. WorkOk(orch') /\ told' \subseteq Told /\ stranded' \subseteq Session
  BY WorkNow DEF RelayClosed, LinkInv, GatewayShape
<1> QED
  BY <1>3, <1>5, <1>6, <1>8, <1>9, LinksKept DEF RelayClosed

\* The call of a finalize task is over: its slot is free again.
LEMMA SettledSlot ==
    ASSUME LinkInv, BillInv, NEW k \in Call, Settle(k), task' = [task EXCEPT ![k] = NoTask]
    PROVE  TasksOk(task') /\ CallsHaveTasks' /\ minted' = minted
<1>1. calls[k].at \notin AwaitPoint
  BY DEF Settle, AwaitPoint
<1>2. TasksOk(task')
  BY <1>1, WorkNow, EmptyPut
<1>3. \A j \in Call : calls'[j].at \in AwaitPoint => calls'[j].at = calls[j].at
  <2>1. \A j \in Call : calls'[j] = IF j = k THEN IdleCall ELSE calls[j]
    BY TableFacts DEF Settle, Resume
  <2>2. IdleCall.at \notin AwaitPoint
    BY DEF IdleCall, AwaitPoint
  <2> QED
    BY <2>1, <2>2
<1> QED
  BY <1>2, <1>3, CallsKept DEF Settle

\* finalize tells the client and hangs up.
LEMMA FinalizeReturnedLinks ==
    ASSUME LinkInv, BillInv, NEW k \in Call, FinalizeReturned(k)
    PROVE  LinkInv'
<1> DEFINE c == task[k].conn
           y == CloseSocket(conn[c])
           x == [y EXCEPT !.ending = "done",
                          !.handler = IF Stopping(c) THEN "ready" ELSE conn[c].handler]
<1>1. /\ c \in Conn /\ conn[c] \in Connection
      /\ conn[c].current \in Session /\ conn[c].current # NoSession
      /\ conn[c].handler \in {"check", "create"} => conn[c].account # NoAccount
  BY GatewayFacts DEF FinalizeReturned, LinkInv, WorkIsOwned, ConnectionsOwn, Live
<1>2. y \in Connection /\ y.current = conn[c].current /\ y.account = conn[c].account
  BY <1>1, CloseSocketFacts
<1>3. Update(c, x)
  BY DEF FinalizeReturned
<1>4. /\ x \in Connection /\ x.current = conn[c].current /\ x.account = conn[c].account
      /\ x.ending = "done" /\ x.handler \in {"ready", conn[c].handler}
  <2> HIDE DEF y, c
  <2> QED
    BY <1>1, <1>2 DEF Connection
<1>5. ConnMoves(c, x)
  <2> HIDE DEF x
  <2> QED
    BY <1>1, <1>3, <1>4 DEF ConnMoves
<1>6. ConnsKept
  BY <1>1, <1>5, MovedConns
<1>7. TasksOk(task') /\ CallsHaveTasks' /\ minted' = minted
  BY SettledSlot DEF FinalizeReturned
<1>8. told' \subseteq Told
  <2> DEFINE t == [session |-> calls[k].session, reason |-> conn[c].reason,
                   shown |-> conn[c].current, summary |-> Stopping(c) /\ calls[k].finalized,
                   credits |-> CreditsFor(calls[k].seen)]
  <2>1. /\ calls[k] \in CallRecord /\ calls[k].at # "idle" /\ calls[k].session \in Session
    BY TableFacts DEF FinalizeReturned, BillInv, SettlementInv, CallsWellFormed
  <2>2. CreditsFor(calls[k].seen) \in Nat /\ calls[k].finalized \in BOOLEAN
    BY <2>1, CreditsForType DEF CallRecord
  <2>3. t \in Told
    BY <1>1, <2>1, <2>2 DEF Told, Connection, Stopping
  <2> HIDE DEF t
  <2>4. told' = told \/ told' = told \cup {t}
    BY DEF FinalizeReturned, t
  <2> QED
    BY <2>3, <2>4 DEF LinkInv, GatewayShape
<1>9. WorkOk(orch') /\ stranded' \subseteq Session
  BY WorkNow DEF FinalizeReturned, LinkInv, GatewayShape
<1> QED
  BY <1>6, <1>7, <1>8, <1>9, LinksKept DEF FinalizeReturned

\* A failed stop_session is over.
LEMMA StopFailedLinks ==
    ASSUME LinkInv, BillInv, NEW k \in Call, StopFailed(k)
    PROVE  LinkInv'
<1> DEFINE c == task[k].conn
           x == [conn[c] EXCEPT !.ending = "failed", !.handler = "ready"]
<1>1. c \in Conn /\ conn[c] \in Connection /\ conn[c].current # NoSession
  BY GatewayFacts DEF StopFailed, LinkInv, WorkIsOwned, Live
<1>2. /\ x \in Connection /\ x.current = conn[c].current
      /\ x.ending = "failed" /\ x.handler = "ready"
  BY <1>1 DEF Connection
<1>3. ConnMoves(c, x)
  <2>1. Update(c, x)
    BY DEF StopFailed
  <2> HIDE DEF x
  <2> QED
    BY <1>1, <1>2, <2>1 DEF ConnMoves
<1>4. ConnsKept
  BY <1>1, <1>3, MovedConns
<1>5. TasksOk(task') /\ CallsHaveTasks' /\ minted' = minted
  BY SettledSlot DEF StopFailed
<1>6. calls[k].session \in Session
  BY DEF StopFailed, BillInv, SettlementInv, CallsWellFormed
<1>7. WorkOk(orch') /\ told' \subseteq Told /\ stranded' \subseteq Session
  BY <1>6, WorkNow DEF StopFailed, LinkInv, GatewayShape
<1> QED
  BY <1>4, <1>5, <1>7, LinksKept DEF StopFailed

\* A superseded generation is done: its usage is recorded.
LEMMA OlderLinks ==
    ASSUME LinkInv, BillInv, NEW s \in Session, OlderAnswered(s)
    PROVE  LinkInv'
<1> DEFINE o == [orch[s] EXCEPT !.older = @ - 1]
<1>1. Live(s) /\ orch[s] \in OrchestratorShape /\ orch[s].older > 0
  BY GatewayFacts DEF OlderAnswered, LinkInv, WorkIsOwned
<1>2. o \in OrchestratorShape
  <2> DEFINE n == orch[s].older - 1
  <2>1. n \in Nat
    <3>1. orch[s].older \in Nat
      BY <1>1, WorkFacts
    <3> QED
      BY <1>1, <3>1
  <2>2. o = [orch[s] EXCEPT !.older = n, !.newest = orch[s].newest] /\ orch[s].newest \in BOOLEAN
    BY <1>1 DEF OrchestratorShape
  <2> HIDE DEF n, o
  <2> QED
    BY <1>1, <2>1, <2>2, WorkChanges
<1> HIDE DEF o
<1>3. WorkOk(orch')
  BY <1>1, <1>2, WorkNow, WorkPut DEF OlderAnswered, o
<1>4. PICK k \in Call : /\ task[k] = NoTask
                        /\ RecordUsage(k, s, LlmUsage)
                        /\ task' = [task EXCEPT ![k] = TaskOf("usage", owner[s], s)]
  BY DEF OlderAnswered
<1>5. calls[k].at \notin AwaitPoint
  BY <1>4 DEF RecordUsage, AwaitPoint
<1>6. TasksOk(task')
  BY <1>1, <1>4, <1>5, WorkNow, OwnedPut DEF TaskKind
<1>7. task'[k].kind = "usage"
  BY <1>1, <1>4, TaskFacts, GatewayFacts, WorkNow DEF TaskKind, TasksOk
<1>8. CallsHaveTasks' /\ minted' = minted
  BY <1>4, <1>6, <1>7, UsageCalled
<1>9. ConnsKept /\ told' \subseteq Told /\ stranded' \subseteq Session
  BY SameConns DEF OlderAnswered, LinkInv, GatewayShape
<1> QED
  BY <1>3, <1>6, <1>8, <1>9, LinksKept DEF OlderAnswered

\* The newest one is: its usage is recorded and its answer persisted.
LEMMA NewestLinks ==
    ASSUME LinkInv, BillInv, NEW s \in Session, NewestAnswered(s)
    PROVE  LinkInv'
<1> DEFINE o == [orch[s] EXCEPT !.newest = FALSE]
<1>1. Live(s) /\ orch[s] \in OrchestratorShape
  BY GatewayFacts DEF NewestAnswered, LinkInv, WorkIsOwned
<1>2. o \in OrchestratorShape
  BY <1>1 DEF OrchestratorShape
<1> HIDE DEF o
<1>3. WorkOk(orch')
  BY <1>1, <1>2, WorkNow, WorkPut DEF NewestAnswered, o
<1>4. PICK k \in Call, j \in Call :
         /\ k # j /\ task[k] = NoTask /\ task[j] = NoTask
         /\ RecordUsage(k, s, LlmUsage)
         /\ task' = [task EXCEPT ![k] = TaskOf("usage", owner[s], s),
                                 ![j] = TaskOf("qna", owner[s], s)]
  BY DEF NewestAnswered
<1>5. calls[k].at \notin AwaitPoint /\ calls[j].at \notin AwaitPoint
  <2>1. calls[k].at = "idle" /\ task[j].kind = "none"
    BY <1>4, TaskFacts DEF RecordUsage
  <2>2. ~(calls[j].at \in {"usage_get", "usage_upsert"})
        /\ ~(calls[j].at \in {"session_get", "final_usage_get", "mark", "append"})
    BY <2>1 DEF LinkInv, CallsHaveTasks
  <2> QED
    BY <2>1, <2>2 DEF AwaitPoint
<1> DEFINE tasks == [task EXCEPT ![k] = TaskOf("usage", owner[s], s)]
<1>6. TasksOk(tasks)
  BY <1>1, <1>4, <1>5, WorkNow, OwnedPut DEF TaskKind
<1>7. task' = [tasks EXCEPT ![j] = TaskOf("qna", owner[s], s)]
  BY <1>4
<1>8. tasks[k] = TaskOf("usage", owner[s], s)
  BY <1>4, WorkNow DEF TasksOk
<1> HIDE DEF tasks
<1>9. TasksOk(task')
  BY <1>1, <1>5, <1>6, <1>7, OwnedPut DEF TaskKind
<1>10. task'[k].kind = "usage"
  BY <1>1, <1>4, <1>7, <1>8, <1>6, TaskFacts, GatewayFacts DEF TaskKind, TasksOk
<1>11. CallsHaveTasks' /\ minted' = minted
  BY <1>4, <1>9, <1>10, UsageCalled
<1>12. ConnsKept /\ told' \subseteq Told /\ stranded' \subseteq Session
  BY SameConns DEF NewestAnswered, LinkInv, GatewayShape
<1> QED
  BY <1>3, <1>9, <1>11, <1>12, LinksKept DEF NewestAnswered

\* A generation that fails leaves no task.
LEMMA FailsLinks ==
    ASSUME LinkInv, BillInv, NEW s \in Session, GenerationFails(s)
    PROVE  LinkInv'
<1>1. Live(s) /\ orch[s] \in OrchestratorShape
  BY GatewayFacts DEF GenerationFails, LinkInv, WorkIsOwned
<1>2. WorkOk(orch')
  <2>1. CASE orch' = [orch EXCEPT ![s].newest = FALSE]
    <3> DEFINE o == [orch[s] EXCEPT !.newest = FALSE]
    <3>1. o \in OrchestratorShape
      BY <1>1 DEF OrchestratorShape
    <3> HIDE DEF o
    <3> QED
      BY <1>1, <2>1, <3>1, WorkNow, WorkPut DEF o
  <2>2. CASE orch[s].older > 0 /\ orch' = [orch EXCEPT ![s].older = @ - 1]
    <3> DEFINE o == [orch[s] EXCEPT !.older = @ - 1]
               n == orch[s].older - 1
    <3>1. n \in Nat
      <4>1. orch[s].older \in Nat
        BY <1>1, WorkFacts
      <4> QED
        BY <2>2, <4>1
    <3>2. o = [orch[s] EXCEPT !.older = n, !.newest = orch[s].newest] /\ orch[s].newest \in BOOLEAN
      BY <1>1 DEF OrchestratorShape
    <3> HIDE DEF n, o
    <3>3. o \in OrchestratorShape
      BY <1>1, <3>1, <3>2, WorkChanges
    <3> QED
      BY <1>1, <2>2, <3>3, WorkNow, WorkPut DEF o
  <2> QED
    BY <2>1, <2>2 DEF GenerationFails
<1>3. ConnsKept /\ TasksOk(task')
  BY SameConns, WorkNow DEF GenerationFails
<1> QED
  BY <1>2, <1>3, QuietLinks DEF GenerationFails

\* checkCredits goes on for the same session, or not at all.
LEMMA CheckPut ==
    ASSUME LinkInv, BillInv, NEW k \in Call, task[k].kind # "none", calls[k].at \notin AwaitPoint,
           NEW voided \in BOOLEAN, Check(k, voided)
    PROVE  TasksOk(task')
<1> DEFINE s == task[k].session
           t == [TaskOf("check_ledger", task[k].conn, s) EXCEPT !.voided = voided]
<1>1. s \in Session /\ Live(s) /\ task[k].conn = owner[s] /\ task[k].conn \in Conn
  BY GatewayFacts DEF LinkInv, WorkIsOwned
<1>2. CASE task' = [task EXCEPT ![k] = NoTask]
  BY <1>2, WorkNow, EmptyPut
<1>3. CASE task' = [task EXCEPT ![k] = t]
  <2>1. t \in TaskShape(t.balance) /\ t.kind = "check_ledger" /\ Owned(t)
    <3>1. /\ t.session = s /\ t.conn = task[k].conn /\ t.kind = "check_ledger"
          /\ t \in TaskShape(t.balance)
      BY <1>1 DEF TaskOf, NoTask, TaskShape, TaskKind
    <3> HIDE DEF t
    <3> QED
      BY <1>1, <3>1 DEF Owned
  <2> HIDE DEF t
  <2> QED
    BY <1>3, <2>1, WorkNow, TaskPut
<1> QED
  BY <1>2, <1>3 DEF Check

\* The tasks whose call has answered, and those that wait for no call.
LEMMA ResumedLinks ==
    ASSUME LinkInv, BillInv, NEW k \in Call,
           \/ MeterReturned(k) \/ UsageReturned(k) \/ QnaAppended(k) \/ CheckFails(k)
    PROVE  LinkInv'
<1>1. calls[k].at \notin AwaitPoint
  BY DEF MeterReturned, UsageReturned, QnaAppended, CheckFails, LinkInv, CallsHaveTasks, AwaitPoint
<1>2. TasksOk(task')
  <2>1. CASE task' = [task EXCEPT ![k] = NoTask]
    BY <1>1, <2>1, WorkNow, EmptyPut
  <2>2. ASSUME NEW voided \in BOOLEAN, task[k].kind # "none", Check(k, voided) PROVE TasksOk(task')
    BY <1>1, <2>2, CheckPut
  <2> QED
    BY <2>1, <2>2 DEF MeterReturned, UsageReturned, QnaAppended, CheckFails
<1>3. ConnsKept /\ WorkOk(orch')
  BY SameConns, WorkNow DEF MeterReturned, UsageReturned, QnaAppended, CheckFails
<1>4. UNCHANGED <<owner, told, stranded>> /\ (UNCHANGED creditsVars \/ Settle(k))
  BY DEF MeterReturned, UsageReturned, QnaAppended, CheckFails
<1> QED
  BY <1>2, <1>3, <1>4, QuietLinks

\* The ledger has been read for a check.
LEMMA LedgerLinks ==
    ASSUME LinkInv, BillInv, NEW k \in Call, CheckLedger(k)
    PROVE  LinkInv'
<1> DEFINE b == LedgerBalance(TokenOf[owner[task[k].session]])
           t == [task[k] EXCEPT !.kind = "check_usage", !.balance = b]
<1> HIDE DEF b
<1>1. /\ calls[k].at \notin AwaitPoint /\ task[k].kind = "check_ledger"
      /\ task[k] \in TaskShape(task[k].balance) /\ Owned(task[k])
  BY WorkNow DEF CheckLedger, LinkInv, CallsHaveTasks, AwaitPoint, TasksOk
<1>2. /\ t \in TaskShape(t.balance) /\ t.kind = "check_usage"
      /\ t.session = task[k].session /\ t.conn = task[k].conn
  BY <1>1 DEF TaskShape, TaskKind
<1>3. task' = [task EXCEPT ![k] = t]
  BY <1>1, WorkNow DEF CheckLedger, TasksOk, b
<1> HIDE DEF t
<1>4. TasksOk(task')
  BY <1>1, <1>2, <1>3, WorkNow, TaskPut DEF Owned
<1>5. ConnsKept /\ WorkOk(orch')
  BY SameConns, WorkNow DEF CheckLedger
<1> QED
  BY <1>4, <1>5, QuietLinks DEF CheckLedger

\* The check is made: it may begin a finalize.
LEMMA CheckLinks ==
    ASSUME LinkInv, BillInv, NEW k \in Call, CheckUsage(k)
    PROVE  LinkInv'
<1> DEFINE s == task[k].session
           c == task[k].conn
           done == [task EXCEPT ![k] = NoTask]
           orchs == [orch EXCEPT ![s].exhausted = TRUE]
<1>1. calls[k].at \notin AwaitPoint /\ task[k].kind = "check_usage"
  BY DEF CheckUsage, LinkInv, CallsHaveTasks, AwaitPoint
<1>2. s \in Session /\ Live(s) /\ c = owner[s] /\ c \in Conn /\ conn[c].current # NoSession
  BY <1>1, GatewayFacts DEF LinkInv, WorkIsOwned, Live
<1>3. TasksOk(done)
  BY <1>1, WorkNow, EmptyPut
<1>4. WorkOk(orchs)
  <2> DEFINE o == [orch[s] EXCEPT !.exhausted = TRUE]
  <2>1. o \in OrchestratorShape /\ orchs = [orch EXCEPT ![s] = o]
    BY <1>2, GatewayFacts, WorkChanges DEF o
  <2> HIDE DEF o, orchs, s
  <2> QED
    BY <1>2, <2>1, WorkNow, WorkPut
<1> HIDE DEF done, orchs
<1>5. CASE BeginFinalize(c, conn[c], "credits-exhausted", orchs, done)
  <2>1. conn[c] \in Connection /\ (conn[c].handler \in {"check", "create"} => conn[c].account # NoAccount)
    BY <1>2, GatewayFacts DEF LinkInv, ConnectionsOwn
  <2> QED
    BY <1>2, <1>3, <1>4, <1>5, <2>1, BeginFinalizeLinks DEF CheckUsage, EndReason
<1>6. CASE task' = done /\ orch' \in {orch, orchs} /\ UNCHANGED <<conn, creditsVars>>
  <2>1. ConnsKept /\ TasksOk(task') /\ WorkOk(orch')
    BY <1>3, <1>4, <1>6, SameConns, WorkNow
  <2> QED
    BY <1>6, <2>1, QuietLinks DEF CheckUsage
<1> QED
  BY <1>5, <1>6 DEF CheckUsage, done, orchs

-----------------------------------------------------------------------------
(* Links are kept: calls, deletions, new sessions, and the death of all *)

\* A call that is under way goes on for the same session and reason: through
\* the statements of recordUsage or finalizeSession, to its answer.  Only the
\* claim of finalizeSession changes a row.
CallMoves(k) ==
    LET old == calls[k]
        new == calls'[k]
        s == old.session
    IN
    /\ old.at \in AwaitPoint /\ s \in minted
    /\ new.session = s /\ new.reason = old.reason
    /\ \A j \in Call : j # k => calls'[j] = calls[j]
    /\ minted' = minted
    /\ \/ /\ old.at = "mark" /\ new.at \in {"append", "rejected"}
          /\ Claimable(s) /\ sessions'[s].ended = old.reason
          /\ \A r \in Session : r # s => sessions'[r] = sessions[r]
       \/ /\ sessions' = sessions
          /\ \/ /\ old.at \in {"usage_get", "usage_upsert"}
                /\ new.at \in {"usage_upsert", "returned"}
             \/ /\ old.at = "session_get" /\ new.at = "final_usage_get"
                /\ new.row = sessions[s]
             \/ old.at = "final_usage_get" /\ old.row # NoRow /\ new.at = "mark"
             \/ old.at = "final_usage_get" /\ old.row = NoRow /\ new.at = "returned"
             \/ old.at = "mark" /\ ~Claimable(s) /\ new.at = "returned"
             \/ old.at = "append" /\ new.at = "returned"
             \/ new.at = "rejected"

\* Every statement of a call is such a move.
LEMMA StatementMoves ==
    ASSUME BillInv, NEW k \in Call, CallStep(k) \/ StatementLost(k)
    PROVE  CallMoves(k)
<1>1. calls[k] \in CallRecord /\ calls \in [Call -> CallRecord]
  BY TableFacts
<1>2. calls[k].at \in AwaitPoint
  BY DEF CallStep, UsageGet, UsageStored, UsageRefused, SessionGet, FinalUsageGet, MarkFinalized,
         AlreadyFinalized, AppendDebit, DebitRefused, StatementLost, AwaitPoint
<1>3. calls[k].session \in minted
  BY <1>2 DEF AwaitPoint, BillInv, SettlementInv, RowsAreMinted
<1>4. ASSUME NEW c, Resume(k, c), c.session = calls[k].session, c.reason = calls[k].reason
      PROVE  /\ calls'[k] = c /\ calls'[k].session = calls[k].session
             /\ calls'[k].reason = calls[k].reason
             /\ \A j \in Call : j # k => calls'[j] = calls[j]
  BY <1>1, <1>4 DEF Resume
<1>5. ASSUME NEW at, Resume(k, [calls[k] EXCEPT !.at = at])
      PROVE  /\ calls'[k].at = at /\ calls'[k].session = calls[k].session
             /\ calls'[k].reason = calls[k].reason
             /\ \A j \in Call : j # k => calls'[j] = calls[j]
  <2> DEFINE c == [calls[k] EXCEPT !.at = at]
  <2>1. c.session = calls[k].session /\ c.reason = calls[k].reason /\ c.at = at
    BY <1>1 DEF CallRecord
  <2>2. Resume(k, c)
    BY <1>5
  <2> HIDE DEF c
  <2> QED
    BY <1>4, <2>1, <2>2
<1>6. CASE UsageGet(k)
  <2> DEFINE c == [calls[k] EXCEPT !.at = "usage_upsert", !.seen = usage[calls[k].session]]
  <2>1. c.session = calls[k].session /\ c.reason = calls[k].reason /\ c.at = "usage_upsert"
    BY <1>1 DEF CallRecord
  <2>2. Resume(k, c) /\ calls[k].at = "usage_get" /\ UNCHANGED <<sessions, minted>>
    BY <1>6 DEF UsageGet
  <2> HIDE DEF c
  <2> QED
    BY <1>2, <1>3, <1>4, <2>1, <2>2 DEF CallMoves
<1>7. CASE UsageStored(k) \/ UsageRefused(k)
  <2>1. PICK at \in {"returned", "rejected"} : Resume(k, [calls[k] EXCEPT !.at = at])
    BY <1>7 DEF UsageStored, UsageRefused
  <2>2. calls[k].at = "usage_upsert" /\ UNCHANGED <<sessions, minted>>
    BY <1>7 DEF UsageStored, UsageRefused
  <2> QED
    BY <1>2, <1>3, <1>5, <2>1, <2>2 DEF CallMoves
<1>8. CASE SessionGet(k)
  <2> DEFINE c == [calls[k] EXCEPT !.at = "final_usage_get", !.row = sessions[calls[k].session]]
  <2>1. /\ c.session = calls[k].session /\ c.reason = calls[k].reason
        /\ c.at = "final_usage_get" /\ c.row = sessions[calls[k].session]
    BY <1>1 DEF CallRecord
  <2>2. Resume(k, c) /\ calls[k].at = "session_get" /\ UNCHANGED <<sessions, minted>>
    BY <1>8 DEF SessionGet
  <2> HIDE DEF c
  <2> QED
    BY <1>2, <1>3, <1>4, <2>1, <2>2 DEF CallMoves
<1>9. CASE FinalUsageGet(k)
  <2> DEFINE c == [calls[k] EXCEPT !.seen = usage[calls[k].session],
                                   !.at = IF calls[k].row = NoRow THEN "returned" ELSE "mark"]
  <2>1. /\ c.session = calls[k].session /\ c.reason = calls[k].reason
        /\ c.at = IF calls[k].row = NoRow THEN "returned" ELSE "mark"
    BY <1>1 DEF CallRecord
  <2>2. Resume(k, c) /\ calls[k].at = "final_usage_get" /\ UNCHANGED <<sessions, minted>>
    BY <1>9 DEF FinalUsageGet
  <2> HIDE DEF c
  <2> QED
    BY <1>2, <1>3, <1>4, <2>1, <2>2 DEF CallMoves
<1>10. CASE MarkFinalized(k)
  <2>1. PICK at \in {"append", "rejected"} : Resume(k, [calls[k] EXCEPT !.at = at])
    BY <1>10 DEF MarkFinalized
  <2>2. /\ calls[k].at = "mark" /\ Claimable(calls[k].session) /\ minted' = minted
        /\ \A r \in Session : r # calls[k].session => sessions'[r] = sessions[r]
    BY <1>10, MarkFacts DEF MarkFinalized
  <2>3. sessions'[calls[k].session].ended = calls[k].reason
    <3>1. calls[k].session \in Session /\ sessions[calls[k].session] \in SessionRow
      BY <1>10, TableFacts, MarkFacts DEF Claimable
    <3>2. sessions'[calls[k].session] = [sessions[calls[k].session] EXCEPT !.ended = calls[k].reason]
      BY <1>10, <3>1, TableFacts DEF MarkFinalized
    <3> QED
      BY <3>1, <3>2 DEF SessionRow
  <2> QED
    BY <1>2, <1>3, <1>5, <2>1, <2>2, <2>3 DEF CallMoves
<1>11. CASE AlreadyFinalized(k)
  <2>1. /\ Resume(k, [calls[k] EXCEPT !.at = "returned"]) /\ calls[k].at = "mark"
        /\ ~Claimable(calls[k].session) /\ UNCHANGED <<sessions, minted>>
    BY <1>11 DEF AlreadyFinalized
  <2> QED
    BY <1>2, <1>3, <1>5, <2>1 DEF CallMoves
<1>12. CASE AppendDebit(k)
  <2>1. PICK ok \in Reply :
          Resume(k, [calls[k] EXCEPT !.at = IF ok THEN "returned" ELSE "rejected", !.finalized = ok])
    BY <1>12 DEF AppendDebit
  <2> DEFINE c == [calls[k] EXCEPT !.at = IF ok THEN "returned" ELSE "rejected", !.finalized = ok]
  <2>2. /\ c.session = calls[k].session /\ c.reason = calls[k].reason
        /\ c.at \in {"returned", "rejected"}
    BY <1>1 DEF CallRecord
  <2>3. Resume(k, c) /\ calls[k].at = "append" /\ UNCHANGED <<sessions, minted>>
    BY <1>12, <2>1 DEF AppendDebit
  <2> HIDE DEF c
  <2> QED
    BY <1>2, <1>3, <1>4, <2>2, <2>3 DEF CallMoves
<1>13. CASE DebitRefused(k) \/ StatementLost(k)
  <2>1. Resume(k, [calls[k] EXCEPT !.at = "rejected"]) /\ UNCHANGED <<sessions, minted>>
    BY <1>13 DEF DebitRefused, StatementLost
  <2> QED
    BY <1>2, <1>3, <1>5, <2>1 DEF CallMoves
<1> QED
  BY <1>6, <1>7, <1>8, <1>9, <1>10, <1>11, <1>12, <1>13 DEF CallStep

\* A call that goes on stays with its task.
LEMMA StatementLinks ==
    ASSUME LinkInv, BillInv, NEW k \in Call, Statement(k)
    PROVE  LinkInv'
<1>1. CallMoves(k) /\ UNCHANGED <<conn, orch, task, owner, told, stranded>>
  BY StatementMoves DEF Statement, gatewayVars
<1>2. CallsHaveTasks'
  <2>1. \A j \in Call : j # k => calls'[j] = calls[j]
    BY <1>1 DEF CallMoves
  <2>2. /\ calls[k].at \in {"usage_get", "usage_upsert"} =>
              calls'[k].at \in {"usage_upsert", "returned", "rejected"}
        /\ calls[k].at \in {"session_get", "final_usage_get", "mark", "append"} =>
              calls'[k].at \in {"final_usage_get", "mark", "append", "returned", "rejected"}
        /\ calls[k].at \in AwaitPoint
    BY <1>1 DEF CallMoves
  <2> QED
    BY <1>1, <2>1, <2>2 DEF LinkInv, CallsHaveTasks, AwaitPoint
<1>3. ConnsKept /\ WorkOk(orch') /\ told' \subseteq Told /\ stranded' \subseteq Session
  BY <1>1, SameConns, WorkNow DEF LinkInv, GatewayShape
<1>4. minted' = minted
  BY <1>1 DEF CallMoves
<1> QED
  BY <1>1, <1>2, <1>4 DEF LinkInv, GatewayShape, ConnectionsOwn, Dead, WorkIsOwned, Live

\* A deletion takes a row, and nothing of the gateway.
LEMMA DeleteLinks ==
    ASSUME LinkInv, BillInv, NEW s \in Session, HttpDelete(s)
    PROVE  LinkInv'
BY DEF HttpDelete, DeleteSession, gatewayVars, LinkInv, GatewayShape, ConnectionsOwn, Dead,
       WorkIsOwned, Live, CallsHaveTasks

\* A connection gets a new session; what ran for its sessions runs on.
LEMMA StartLinks ==
    ASSUME LinkInv, BillInv, NEW c \in Conn, StartCreated(c)
    PROVE  LinkInv'
<1>1. /\ conn[c] \in Connection /\ conn \in [Conn -> Connection]
      /\ owner \in [Session -> Conn \cup {NoConn}]
  BY GatewayFacts DEF LinkInv, GatewayShape
<1>2. PICK s \in Session :
         /\ CreateSession(s, conn[c].account, ModeOf[conn[c].account])
         /\ Update(c, [conn[c] EXCEPT !.handler = "ready", !.current = s])
         /\ owner' = [owner EXCEPT ![s] = c]
         /\ stranded' = stranded \cup ((IF WillFinalize(c) THEN {conn[c].current} ELSE {s})
                                          \ {NoSession})
  BY DEF StartCreated
<1>3. s \notin minted /\ minted' = minted \cup {s} /\ calls' = calls /\ s # NoSession
  BY <1>2, CreditsAssumption DEF CreateSession
<1> DEFINE x == [conn[c] EXCEPT !.handler = "ready", !.current = s]
<1>4. /\ x \in Connection /\ x.current = s /\ x.handler = "ready"
      /\ x.ending = conn[c].ending /\ x.ws = conn[c].ws
  BY <1>1 DEF Connection
<1>5. /\ conn'[c] = x /\ conn' \in [Conn -> Connection]
      /\ \A d \in Conn : d # c => conn'[d] = conn[d]
  BY <1>1, <1>2, <1>4 DEF Update
<1> HIDE DEF x
<1>6. owner[s] = NoConn /\ owner'[s] = c /\ \A r \in Session : r # s => owner'[r] = owner[r]
  BY <1>1, <1>2, <1>3 DEF LinkInv, ConnectionsOwn
<1>7. c # NoConn /\ UNCHANGED <<orch, task, told>> /\ ~Dead(c)
  BY GatewayAssumption DEF StartCreated, Dead
<1>8. GatewayShape'
  <2>1. stranded' \subseteq Session
    <3>1. conn[c].current \in Session \cup {NoSession}
      BY <1>1 DEF Connection
    <3> QED
      BY <1>2, <3>1 DEF LinkInv, GatewayShape
  <2>2. owner' \in [Session -> Conn \cup {NoConn}]
    BY <1>1, <1>2
  <2> QED
    BY <1>5, <1>7, <2>1, <2>2 DEF LinkInv, GatewayShape
<1>9. ConnectionsOwn'
  <2>1. (\A r \in Session : owner[r] # NoConn <=> r \in minted)'
    BY <1>3, <1>6, <1>7 DEF LinkInv, ConnectionsOwn
  <2>2. (\A d \in Conn : conn[d].current # NoSession => owner[conn[d].current] = d)'
    <3>1. \A d \in Conn : conn[d].current # NoSession =>
             conn[d].current \in Session /\ conn[d].current # s
      BY <1>3, GatewayFacts
    <3> QED
      BY <1>4, <1>5, <1>6, <3>1 DEF LinkInv, ConnectionsOwn
  <2>3. (\A r \in Session : owner[r] # NoConn => conn[owner[r]].current # NoSession \/ Dead(owner[r]))'
    <3> SUFFICES ASSUME NEW r \in Session, owner'[r] # NoConn
                 PROVE  conn'[owner'[r]].current # NoSession \/ Dead(owner[r])'
      OBVIOUS
    <3>1. CASE owner'[r] = c
      BY <1>3, <1>4, <1>5, <3>1
    <3>2. CASE owner'[r] # c
      <4>1. r # s /\ owner'[r] = owner[r] /\ owner[r] \in Conn
        BY <1>1, <1>6, <3>2
      <4>2. conn[owner[r]].current # NoSession \/ Dead(owner[r])
        BY <4>1 DEF LinkInv, ConnectionsOwn
      <4> QED
        BY <1>5, <3>2, <4>1, <4>2 DEF Dead
    <3> QED
      BY <3>1, <3>2
  <2>4. (\A d \in Conn : conn[d].handler \in {"check", "create"} => conn[d].account # NoAccount)'
    BY <1>4, <1>5 DEF LinkInv, ConnectionsOwn
  <2>5. (\A d \in Conn : conn[d].ending = "relay_close" => conn[d].current # NoSession)'
    BY <1>3, <1>4, <1>5 DEF LinkInv, ConnectionsOwn
  <2> QED
    BY <2>1, <2>2, <2>3, <2>4, <2>5 DEF ConnectionsOwn
<1>10. \A r \in Session : Live(r) => r # s /\ owner'[r] = owner[r] /\ Live(r)'
  <2> SUFFICES ASSUME NEW r \in Session, Live(r)
               PROVE  r # s /\ owner'[r] = owner[r] /\ Live(r)'
    OBVIOUS
  <2>1. r # s /\ owner'[r] = owner[r] /\ owner[r] \in Conn /\ owner[r] # NoConn
    BY <1>3, <1>6, GatewayFacts DEF Live
  <2>2. conn'[owner[r]].current # NoSession
    BY <1>3, <1>4, <1>5, <2>1 DEF Live
  <2> QED
    BY <2>1, <2>2 DEF Live
<1>11. WorkIsOwned'
  <2>1. (\A r \in Session : orch[r].pending > 0 \/ orch[r].older > 0 \/ orch[r].newest => Live(r))'
    BY <1>7, <1>10 DEF LinkInv, WorkIsOwned
  <2>2. (\A k \in Call : task[k].kind # "none" =>
            /\ task[k].session \in Session /\ Live(task[k].session)
            /\ task[k].conn = owner[task[k].session])'
    <3> SUFFICES ASSUME NEW k \in Call, task[k].kind # "none"
                 PROVE  /\ task[k].session \in Session
                        /\ Live(task[k].session)'
                        /\ task[k].conn = owner'[task[k].session]
      BY <1>7 DEF Live
    <3> DEFINE r == task[k].session
    <3>1. r \in Session /\ Live(r) /\ task[k].conn = owner[r]
      BY DEF LinkInv, WorkIsOwned
    <3>2. owner'[r] = owner[r] /\ conn'[owner'[r]].current # NoSession /\ owner'[r] # NoConn
      BY <1>10, <3>1 DEF Live
    <3> QED
      BY <1>7, <3>1, <3>2 DEF Live
  <2> QED
    BY <2>1, <2>2 DEF WorkIsOwned
<1>12. CallsHaveTasks'
  BY <1>3, <1>7 DEF LinkInv, CallsHaveTasks
<1> QED
  BY <1>8, <1>9, <1>11, <1>12 DEF LinkInv

\* An unused connection.
LEMMA NewConnectionFacts ==
    /\ NewConnection \in Connection /\ NewConnection.ws = "new"
    /\ NewConnection.current = NoSession /\ NewConnection.handler = "ready"
    /\ NewConnection.ending = "no" /\ NewConnection.inbox = <<>>
<1>1. 0 \in 0..MaxMessages /\ <<>> \in Seq(ControlMessage)
  BY GatewayAssumption
<1> QED
  BY <1>1 DEF NewConnection, Connection, EndReason

\* What a connection that was in use is after the process died.
LEMMA DeadFacts ==
    LET x == [NewConnection EXCEPT !.ws = "closed"] IN
    /\ x \in Connection /\ x.ws = "closed" /\ x.handler = "ready" /\ x.inbox = <<>>
    /\ x.current = NoSession /\ x.ending = "no"
BY NewConnectionFacts DEF Connection

\* An orchestrator that has nothing to do.
LEMMA NewOrchestratorFacts ==
    /\ NewOrchestrator \in OrchestratorShape
    /\ NewOrchestrator.pending = 0 /\ NewOrchestrator.older = 0 /\ NewOrchestrator.newest = FALSE
BY GatewayAssumption DEF NewOrchestrator, OrchestratorShape

\* Nothing of the gateway survives the process but its history.
LEMMA DiesLinks ==
    ASSUME LinkInv, BillInv, ProcessDies, GatewayDies
    PROVE  LinkInv'
<1> DEFINE x == [NewConnection EXCEPT !.ws = "closed"]
<1>1. /\ \A c \in Conn : conn'[c] = IF conn[c].ws = "new" THEN conn[c] ELSE x
      /\ DOMAIN conn' = Conn
      /\ orch' = [s \in Session |-> NewOrchestrator]
      /\ task' = [k \in Call |-> NoTask]
      /\ UNCHANGED <<owner, told, minted>>
      /\ stranded' = stranded \cup minted
      /\ \A k \in Call : calls'[k].at = "idle"
      /\ conn' = [c \in Conn |-> IF conn[c].ws = "new" THEN conn[c] ELSE x]
  BY DEF GatewayDies, ProcessDies, IdleCall
<1>2. /\ x \in Connection /\ x.ws = "closed" /\ x.handler = "ready" /\ x.inbox = <<>>
      /\ x.current = NoSession /\ x.ending = "no"
  BY DeadFacts
<1> HIDE DEF x
<1>3. \A c \in Conn : conn[c] \in Connection
  BY GatewayFacts
<1>4. GatewayShape'
  <2>1. conn' \in [Conn -> Connection]
    BY <1>1, <1>2, <1>3
  <2>2. orch' \in [Session -> OrchestratorShape]
    BY <1>1, NewOrchestratorFacts
  <2>3. DOMAIN task' = Call /\ \A k \in Call : task'[k] \in TaskShape(task'[k].balance)
    BY <1>1, TaskFacts
  <2>4. stranded' \subseteq Session
    BY <1>1, TableFacts DEF LinkInv, GatewayShape
  <2> QED
    BY <1>1, <2>1, <2>2, <2>3, <2>4 DEF LinkInv, GatewayShape
<1>5. ConnectionsOwn'
  <2>1. (\A s \in Session : owner[s] # NoConn =>
            conn[owner[s]].current # NoSession \/ Dead(owner[s]))'
    <3> SUFFICES ASSUME NEW s \in Session, owner[s] # NoConn
                 PROVE  conn'[owner[s]].current # NoSession \/ Dead(owner[s])'
      BY <1>1 DEF Dead
    <3>1. owner[s] \in Conn /\ (conn[owner[s]].current # NoSession \/ Dead(owner[s]))
      BY DEF LinkInv, GatewayShape, ConnectionsOwn
    <3>2. CASE conn[owner[s]].ws = "new"
      BY <1>1, <3>1, <3>2 DEF Dead
    <3>3. CASE conn[owner[s]].ws # "new"
      <4>1. conn'[owner[s]] = x
        BY <1>1, <3>1, <3>3
      <4> QED
        BY <1>1, <1>2, <4>1 DEF Dead
    <3> QED
      BY <3>2, <3>3
  <2> QED
    BY <1>1, <1>2, <2>1 DEF LinkInv, ConnectionsOwn
<1>6. WorkIsOwned'
  <2>1. \A s \in Session : orch'[s].pending = 0 /\ orch'[s].older = 0 /\ orch'[s].newest = FALSE
    BY <1>1, NewOrchestratorFacts
  <2>2. \A k \in Call : task'[k].kind = "none"
    BY <1>1, TaskFacts
  <2> QED
    BY <2>1, <2>2 DEF WorkIsOwned
<1>7. CallsHaveTasks'
  BY <1>1 DEF CallsHaveTasks
<1> QED
  BY <1>4, <1>5, <1>6, <1>7 DEF LinkInv

\* Every step keeps the links.
LEMMA LinkStepInv ==
    ASSUME LinkInv, BillInv, [GatewayNext]_vars
    PROVE  LinkInv'
<1>1. ASSUME NEW c \in Conn,
             \/ Connect(c) \/ \E m \in ControlMessage : Receive(c, m)
             \/ Audio(c) \/ SocketCloses(c) \/ RelayClosed(c)
             \/ HandlerStep(c) \/ AuthFails(c) \/ StartFails(c)
      PROVE  LinkInv'
  BY <1>1, ConversationLinks, AudioLinks, CloseLinks, RelayClosedLinks, QuestionLinks, StopLinks,
     StartLinks DEF HandlerStep
<1>2. ASSUME NEW s \in Session,
             OlderAnswered(s) \/ NewestAnswered(s) \/ GenerationFails(s) \/ HttpDelete(s)
      PROVE  LinkInv'
  BY <1>2, OlderLinks, NewestLinks, FailsLinks, DeleteLinks
<1>3. ASSUME NEW k \in Call, TaskStep(k) \/ CheckFails(k) \/ Statement(k)
      PROVE  LinkInv'
  <2>1. ASSUME RejectionKills(k) PROVE LinkInv'
    BY <2>1, DiesLinks DEF RejectionKills, UnhandledRejection
  <2> QED
    BY <1>3, <2>1, FinalizeReturnedLinks, StopFailedLinks, ResumedLinks, LedgerLinks, CheckLinks,
       StatementLinks DEF TaskStep
<1>4. CASE ProcessCrash
  BY <1>4, DiesLinks DEF ProcessCrash, Crash
<1>5. CASE UNCHANGED vars
  BY <1>5 DEF vars, gatewayVars, creditsVars, LinkInv, GatewayShape, ConnectionsOwn, Dead,
              WorkIsOwned, Live, CallsHaveTasks
<1> QED
  BY <1>1, <1>2, <1>3, <1>4, <1>5 DEF GatewayNext

\* At first nobody owns anything.
LEMMA LinkInitInv == GatewayInit => LinkInv
<1> SUFFICES ASSUME GatewayInit PROVE LinkInv
  OBVIOUS
<1>1. /\ conn = [c \in Conn |-> NewConnection] /\ orch = [s \in Session |-> NewOrchestrator]
      /\ task = [k \in Call |-> NoTask] /\ owner = [s \in Session |-> NoConn]
      /\ told = {} /\ stranded = {} /\ minted = {} /\ calls = [k \in Call |-> IdleCall]
  BY DEF GatewayInit, CreditsInit
<1>2. /\ NewConnection \in Connection /\ NewConnection.current = NoSession
      /\ NewConnection.handler = "ready" /\ NewConnection.ending = "no"
  BY NewConnectionFacts
<1>3. GatewayShape
  BY <1>1, <1>2, NewOrchestratorFacts, TaskFacts DEF GatewayShape
<1>4. ConnectionsOwn
  BY <1>1, <1>2 DEF ConnectionsOwn
<1>5. WorkIsOwned
  BY <1>1, NewOrchestratorFacts, TaskFacts DEF WorkIsOwned
<1>6. CallsHaveTasks
  BY <1>1 DEF CallsHaveTasks, IdleCall
<1> QED
  BY <1>3, <1>4, <1>5, <1>6 DEF LinkInv

-----------------------------------------------------------------------------
(* What was proved of the service, under the gateway *)

\* The links and the bill hold at all times, and so does what is reported.
LEMMA GatewayAlways == GatewaySpec => [](LinkInv /\ BillInv /\ ReportInv)
<1>1. GatewayInit => LinkInv /\ BillInv /\ ReportInv
  BY LinkInitInv, BillInitInv DEF GatewayInit, CreditsInit, ReportInv, ReportedIsCharged, IdleCall
<1>2. LinkInv /\ BillInv /\ ReportInv /\ [GatewayNext]_vars => (LinkInv /\ BillInv /\ ReportInv)'
  <2> SUFFICES ASSUME LinkInv, BillInv, ReportInv, [GatewayNext]_vars
               PROVE  (LinkInv /\ BillInv /\ ReportInv)'
    OBVIOUS
  <2>1. [ServiceStep]_creditsVars
    BY GatewayServes
  <2> QED
    BY <2>1, LinkStepInv, BillStepInv, ReportStepInv
<1> QED
  BY <1>1, <1>2, PTL DEF GatewaySpec

\* SettledExactlyOnce, of creditsService.ts under its real caller: whichever of
\* stop_session, the close of the socket and exhausted credits finalize a
\* session, in whatever order, it is debited once; a fault or a crash may lose
\* the debit, and nothing else does.
THEOREM GatewaySettlesOnce == GatewaySpec => []SettledExactlyOnce
<1>1. BillInv => SettledExactlyOnce
  BY SettlementInvImplies DEF BillInv
<1> QED
  BY <1>1, GatewayAlways, PTL

\* NeverOvercharged, with the relays and generations of the gateway metering:
\* no debit exceeds what their recordUsage calls recorded for the session.
THEOREM GatewayNeverOvercharges == GatewaySpec => []NeverOvercharged
<1>1. BillInv => NeverOvercharged
  BY DEF BillInv, ChargeInv
<1> QED
  BY <1>1, GatewayAlways, PTL

\* FirstReasonWins, under the gateway: a session that ended keeps its reason
\* when its connection, a later check or a second connection finalizes again.
THEOREM GatewayKeepsReasons == GatewaySpec => FirstReasonWins
<1>1. LinkInv /\ BillInv /\ ReportInv /\ [GatewayNext]_vars =>
         [\A s \in Session : sessions[s] # NoRow /\ ~Claimable(s) =>
             sessions'[s] = sessions[s] \/ sessions'[s] = NoRow]_creditsVars
  BY GatewayServes, StepKeepsReasons
<1> QED
  BY <1>1, GatewayAlways, PTL DEF GatewaySpec, FirstReasonWins

\* ImplementsSettlement, under the gateway: with its connections, relays and
\* generations as the callers, the service still meters, ends and bills each
\* session as Settlement says.
THEOREM GatewayKeepsPromise == GatewaySpec => ImplementsSettlement
<1>1. GatewayInit => Promise!SettlementInit
  BY PromiseInit DEF GatewayInit
<1>2. LinkInv /\ BillInv /\ ReportInv /\ [GatewayNext]_vars =>
         [Promise!SettlementNext]_Promise!settlementVars
  BY GatewayServes, StepImplements
<1> QED
  BY <1>1, <1>2, GatewayAlways, PTL DEF GatewaySpec, ImplementsSettlement, Promise!SettlementSpec

-----------------------------------------------------------------------------
(* The finalize of a connection: steps it does not see *)

\* The finalize of c is as far as it was, or c begins one.
EndingKept(c) ==
    /\ conn'[c].current = conn[c].current
    /\ \/ /\ conn'[c].ending = conn[c].ending /\ conn'[c].reason = conn[c].reason
          /\ conn'[c].handler = "stopping" => conn[c].handler = "stopping"
          /\ conn'[c].ws = "closed" =>
                conn[c].ws = "closed" \/ conn[c].ending # "no" \/ conn[c].current = NoSession
       \/ conn[c].ending = "no" /\ conn'[c].ending = "relay_close"

\* The finalize tasks are the ones there were, and so are their calls.
FinalizesKept(tasks) ==
    \A k \in Call : IF task[k].kind = "finalize"
                    THEN tasks[k] = task[k] /\ calls'[k] = calls[k]
                    ELSE tasks[k].kind # "finalize"

\* A call that stays finds its session as it was, or gone.
LEMMA FollowsKept ==
    ASSUME NEW k \in Call, calls'[k] = calls[k], Follows(k),
           \/ sessions'[calls[k].session] = NoRow
           \/ sessions'[calls[k].session] = sessions[calls[k].session]
    PROVE  Follows(k)'
BY DEF Follows, Unclaimed, Claimable

\* Such steps keep the invariant, a finalize that begins included: it begins
\* where the connection had one to come.
LEMMA UnseenStep ==
    ASSUME LinkInv, BillInv, FinalizeInv, \A c \in Conn : EndingKept(c), FinalizesKept(task'),
           UNCHANGED <<sessions, minted, owner, stranded>>
    PROVE  FinalizeInv'
<1>1. \A k \in Call : task'[k].kind = "finalize" =>
         /\ task[k].kind = "finalize" /\ task'[k] = task[k] /\ calls'[k] = calls[k]
         /\ task[k].conn \in Conn
  BY GatewayFacts DEF FinalizesKept
<1>2. \A k \in Call : task[k].kind = "finalize" => task'[k] = task[k] /\ calls'[k] = calls[k]
  BY DEF FinalizesKept
<1>3. FinalizeIsOne'
  <2>1. ASSUME NEW k \in Call, task'[k].kind = "finalize"
        PROVE  /\ calls'[k].at # "idle" /\ calls'[k].session \in minted'
               /\ owner'[calls'[k].session] = task'[k].conn
               /\ conn'[task'[k].conn].ending = "settling"
               /\ calls'[k].reason = conn'[task'[k].conn].reason
               /\ conn'[task'[k].conn].handler = "stopping" =>
                     calls'[k].session = conn'[task'[k].conn].current
    <3> DEFINE c == task[k].conn
               s == calls[k].session
    <3>1. /\ task'[k] = task[k] /\ calls'[k] = calls[k] /\ c \in Conn
          /\ calls[k].at # "idle" /\ s \in minted /\ owner[s] = c
          /\ conn[c].ending = "settling" /\ calls[k].reason = conn[c].reason
          /\ conn[c].handler = "stopping" => s = conn[c].current
      BY <1>1, <2>1 DEF FinalizeInv, FinalizeIsOne, Stopping
    <3>2. /\ conn'[c].ending = "settling" /\ conn'[c].reason = conn[c].reason
          /\ conn'[c].handler = "stopping" => conn[c].handler = "stopping"
          /\ conn'[c].current = conn[c].current
      BY <3>1 DEF EndingKept
    <3> QED
      BY <3>1, <3>2
  <2>2. \A j, k \in Call : task'[j].kind = "finalize" /\ task'[k].kind = "finalize"
           /\ task'[j].conn = task'[k].conn => j = k
    BY <1>1 DEF FinalizeInv, FinalizeIsOne
  <2> QED
    BY <2>1, <2>2 DEF FinalizeIsOne, Stopping
<1>4. \A s : Unclaimed(s)' <=> Unclaimed(s)
  BY DEF Unclaimed, Claimable
<1>5. ClaimsFollow'
  <2>1. ASSUME NEW s \in Session, owner[s] # NoConn, conn'[owner[s]].current # NoSession,
               conn'[owner[s]].ending \in {"no", "relay_close"}
        PROVE  Unclaimed(s)
    <3>1. owner[s] \in Conn
      BY <2>1 DEF LinkInv, GatewayShape
    <3>2. conn[owner[s]].current # NoSession /\ conn[owner[s]].ending \in {"no", "relay_close"}
      BY <2>1, <3>1 DEF EndingKept
    <3> QED
      BY <2>1, <3>2 DEF FinalizeInv, ClaimsFollow
  <2>2. ASSUME NEW k \in Call, task'[k].kind = "finalize"
        PROVE  Follows(k)'
    <3>1. calls'[k] = calls[k] /\ Follows(k)
      BY <1>1, <2>2 DEF FinalizeInv, ClaimsFollow
    <3> QED
      BY <3>1, FollowsKept
  <2> QED
    BY <1>4, <2>1, <2>2 DEF ClaimsFollow
<1>6. NoneForgotten'
  <2> SUFFICES ASSUME NEW s \in Session, owner[s] # NoConn
               PROVE  Ended(s)' \/ s \in stranded' \/ Awaited(s)'
    BY DEF NoneForgotten
  <2>1. owner[s] \in Conn /\ owner'[s] = owner[s] /\ s # NoSession
    BY CreditsAssumption DEF LinkInv, GatewayShape
  <2>2. CASE Ended(s) \/ s \in stranded
    BY <2>2 DEF Ended, Claimable
  <2>3. CASE Awaited(s)
    <3>1. EndingKept(owner[s])
      BY <2>1
    <3>2. CASE \E k \in Call : task[k].kind = "finalize" /\ calls[k].session = s
      BY <1>2, <3>2 DEF Awaited
    <3>3. CASE conn[owner[s]].ending = "no" /\ conn[owner[s]].ws # "closed"
               /\ conn[owner[s]].current = s
      BY <2>1, <3>1, <3>3 DEF EndingKept, Awaited
    <3>4. CASE conn[owner[s]].ending = "relay_close" /\ conn[owner[s]].current = s
      BY <2>1, <3>1, <3>4 DEF EndingKept, Awaited
    <3> QED
      BY <2>3, <3>2, <3>3, <3>4 DEF Awaited
  <2> QED
    BY <2>2, <2>3 DEF FinalizeInv, NoneForgotten
<1> QED
  BY <1>3, <1>5, <1>6 DEF FinalizeInv

\* Connections that stay as they are.
LEMMA EndingsStay ==
    ASSUME UNCHANGED conn
    PROVE  \A c \in Conn : EndingKept(c)
BY DEF EndingKept

\* A slot of no finalize gets another task, and its call may begin or be over.
LEMMA OtherPut ==
    ASSUME LinkInv, BillInv, NEW k \in Call, task[k].kind # "finalize",
           NEW t, t.kind # "finalize", calls' = calls \/ \E x : Resume(k, x)
    PROVE  FinalizesKept([task EXCEPT ![k] = t])
<1>1. \A j \in Call : j # k => calls'[j] = calls[j]
  BY TableFacts DEF Resume
<1>2. DOMAIN task = Call
  BY DEF LinkInv, GatewayShape
<1> QED
  BY <1>1, <1>2 DEF FinalizesKept

\* No task changes, and no call.
LEMMA TasksStay ==
    ASSUME UNCHANGED <<task, calls>>
    PROVE  FinalizesKept(task')
BY DEF FinalizesKept

\* Metering takes a free slot.
LEMMA MeterUnseen ==
    ASSUME LinkInv, BillInv, NEW s \in Session, Live(s), NEW n, NEW tasks, TasksOk(tasks),
           \A k \in Call : IF task[k].kind = "finalize" THEN tasks[k] = task[k]
                           ELSE tasks[k].kind # "finalize",
           Meter(owner[s], s, n, tasks)
    PROVE  FinalizesKept(task')
<1>1. \A k \in Call : \/ task'[k] = tasks[k] /\ calls'[k] = calls[k]
                      \/ tasks[k] = NoTask /\ task'[k].kind = "meter"
  BY MeterLinks
<1>2. \A k \in Call : tasks[k] = NoTask => task[k].kind # "finalize"
  BY TaskFacts
<1> QED
  BY <1>1, <1>2 DEF FinalizesKept

\* A finalize that begins.
LEMMA BeginUnseen ==
    ASSUME LinkInv, BillInv, FinalizeInv, NEW c \in Conn, conn[c].current # NoSession,
           ~Finalizing(c), NEW new \in Connection, new.current = conn[c].current,
           NEW reason \in EndReason, NEW orchs, NEW tasks, TasksOk(tasks),
           \A k \in Call : IF task[k].kind = "finalize" THEN tasks[k] = task[k]
                           ELSE tasks[k].kind # "finalize",
           BeginFinalize(c, new, reason, orchs, tasks), UNCHANGED <<owner, stranded>>
    PROVE  FinalizeInv'
<1> DEFINE s == conn[c].current
           x == [new EXCEPT !.ending = "relay_close", !.reason = reason]
<1>1. s \in Session /\ owner[s] = c /\ Live(s) /\ conn \in [Conn -> Connection]
  BY GatewayFacts DEF LinkInv, GatewayShape, ConnectionsOwn, Live
<1>2. x.ending = "relay_close" /\ x.current = conn[c].current /\ Update(c, x)
  BY DEF Connection, BeginFinalize
<1> HIDE DEF x
<1>3. conn'[c] = x /\ \A d \in Conn : d # c => conn'[d] = conn[d]
  BY <1>1, <1>2 DEF Update
<1>4. \A d \in Conn : EndingKept(d)
  BY <1>2, <1>3 DEF EndingKept, Finalizing
<1>5. FinalizesKept(task') /\ UNCHANGED <<sessions, minted>>
  <2>1. CASE task' = tasks /\ UNCHANGED creditsVars
    BY <2>1 DEF FinalizesKept, creditsVars
  <2>2. CASE Meter(c, s, orch[s].pending, tasks)
    BY <1>1, <2>2, MeterUnseen, MeterLinks
  <2> QED
    BY <2>1, <2>2 DEF BeginFinalize
<1> QED
  BY <1>4, <1>5, UnseenStep

\* Messages, authentication, questions and audio.
LEMMA ConversationUnseen ==
    ASSUME LinkInv, BillInv, FinalizeInv, NEW c \in Conn,
           \/ Connect(c) \/ \E m \in ControlMessage : Receive(c, m)
           \/ HandleAuth(c) \/ HandleStart(c) \/ HandleQuestion(c) \/ Audio(c)
           \/ AuthOk(c) \/ StartChecked(c) \/ AuthFails(c) \/ StartFails(c)
    PROVE  FinalizeInv'
<1>1. ASSUME NEW x, ConnMoves(c, x), StillIs(c, x) PROVE \A d \in Conn : EndingKept(d)
  BY <1>1, MovedConns DEF ConnMoves, StillIs, EndingKept
<1>2. CASE \/ Connect(c) \/ \E m \in ControlMessage : Receive(c, m)
           \/ HandleAuth(c) \/ HandleStart(c)
           \/ AuthOk(c) \/ StartChecked(c) \/ AuthFails(c) \/ StartFails(c)
  <2>1. /\ \E x : ConnMoves(c, x) /\ StillIs(c, x)
        /\ UNCHANGED <<orch, task, owner, told, stranded, creditsVars>>
    BY <1>2, ConversationMoves
  <2> QED
    BY <1>1, <2>1, TasksStay, UnseenStep DEF creditsVars
<1>3. CASE HandleQuestion(c)
  <2>1. ConnMoves(c, Taken(c)) /\ StillIs(c, Taken(c))
    <3>1. conn[c] \in Connection /\ NextIs(c, "text_question")
          /\ (conn[c].ending = "relay_close" => conn[c].current # NoSession)
      BY <1>3, GatewayFacts DEF HandleQuestion, LinkInv, ConnectionsOwn
    <3> QED
      BY <1>3, <3>1, TakenFacts DEF HandleQuestion, ConnMoves, StillIs
  <2> QED
    BY <1>1, <1>3, <2>1, TasksStay, UnseenStep DEF HandleQuestion, creditsVars
<1>4. CASE Audio(c)
  <2> DEFINE s == conn[c].current
  <2>1. s \in Session /\ owner[s] = c /\ Live(s) /\ TasksOk(task)
    BY <1>4, GatewayFacts, WorkNow DEF Audio, LinkInv, ConnectionsOwn, Live
  <2>2. CASE UNCHANGED <<task, creditsVars>>
    BY <1>4, <2>2, EndingsStay, TasksStay, UnseenStep DEF Audio, creditsVars
  <2>3. CASE Meter(c, s, orch[s].pending + 1, task)
    <3>1. FinalizesKept(task') /\ UNCHANGED <<sessions, minted>>
      BY <2>1, <2>3, MeterUnseen, MeterLinks
    <3> QED
      BY <1>4, <3>1, EndingsStay, UnseenStep DEF Audio
  <2> QED
    BY <1>4, <2>2, <2>3 DEF Audio
<1> QED
  BY <1>2, <1>3, <1>4

\* The socket's close, and stop_session: each begins a finalize, or none.
LEMMA CloseUnseen ==
    ASSUME LinkInv, BillInv, FinalizeInv, NEW c \in Conn, SocketCloses(c) \/ HandleStop(c)
    PROVE  FinalizeInv'
<1>0. conn[c] \in Connection /\ conn \in [Conn -> Connection] /\ TasksOk(task)
  BY GatewayFacts, WorkNow DEF LinkInv, GatewayShape
<1>1. CASE SocketCloses(c)
  <2> DEFINE closed == [conn[c] EXCEPT !.ws = "closed"]
  <2>1. /\ closed \in Connection /\ closed.current = conn[c].current
        /\ closed.handler = conn[c].handler
        /\ closed.ending = conn[c].ending /\ closed.reason = conn[c].reason
    BY <1>0 DEF Connection
  <2>2. CASE ~Finalizing(c) /\ conn[c].current # NoSession
             /\ BeginFinalize(c, closed, "disconnected", orch, task)
    <3> HIDE DEF closed
    <3> QED
      BY <1>0, <1>1, <2>1, <2>2, BeginUnseen DEF SocketCloses, EndReason
  <2>3. CASE (Finalizing(c) \/ conn[c].current = NoSession)
             /\ Update(c, closed) /\ UNCHANGED <<orch, task, creditsVars>>
    <3>1. conn'[c] = closed /\ \A d \in Conn : d # c => conn'[d] = conn[d]
      BY <1>0, <2>3 DEF Update
    <3> HIDE DEF closed
    <3>2. \A d \in Conn : EndingKept(d)
      BY <2>1, <2>3, <3>1 DEF EndingKept, Finalizing
    <3> QED
      BY <1>1, <2>3, <3>2, TasksStay, UnseenStep DEF SocketCloses, creditsVars
  <2> QED
    BY <1>1, <2>2, <2>3 DEF SocketCloses
<1>2. CASE HandleStop(c)
  <2> DEFINE stopping == [Taken(c) EXCEPT !.handler = "stopping"]
  <2>0. NextIs(c, "stop_session")
    BY <1>2 DEF HandleStop
  <2>1. stopping \in Connection /\ stopping.current = conn[c].current
    BY <1>0, <2>0, TakenFacts DEF Connection
  <2>2. CASE ~Finalizing(c) /\ conn[c].current # NoSession
             /\ BeginFinalize(c, stopping, "user-ended", orch, task)
    <3> HIDE DEF stopping
    <3> QED
      BY <1>0, <1>2, <2>1, <2>2, BeginUnseen DEF HandleStop, EndReason
  <2>3. CASE Update(c, Taken(c)) /\ UNCHANGED <<orch, task, creditsVars>>
    <3>1. conn'[c] = Taken(c) /\ \A d \in Conn : d # c => conn'[d] = conn[d]
      BY <1>0, <2>3 DEF Update
    <3>2. \A d \in Conn : EndingKept(d)
      BY <1>0, <2>0, <3>1, TakenFacts DEF EndingKept
    <3> QED
      BY <1>2, <2>3, <3>2, TasksStay, UnseenStep DEF HandleStop, creditsVars
  <2> QED
    BY <1>2, <2>2, <2>3 DEF HandleStop
<1> QED
  BY <1>1, <1>2

\* Generations that end.
LEMMA GenerationUnseen ==
    ASSUME LinkInv, BillInv, FinalizeInv, NEW s \in Session,
           OlderAnswered(s) \/ NewestAnswered(s) \/ GenerationFails(s)
    PROVE  FinalizeInv'
<1>1. Live(s) /\ owner[s] \in Conn /\ DOMAIN task = Call
  BY GatewayFacts DEF OlderAnswered, NewestAnswered, GenerationFails, LinkInv, WorkIsOwned,
                      GatewayShape
<1>2. \A kind \in TaskKind : TaskOf(kind, owner[s], s).kind = kind
  BY <1>1, TaskFacts
<1>3. CASE GenerationFails(s)
  BY <1>3, EndingsStay, TasksStay, UnseenStep DEF GenerationFails, creditsVars
<1>4. CASE OlderAnswered(s)
  <2>1. PICK k \in Call : /\ task[k] = NoTask
                          /\ RecordUsage(k, s, LlmUsage)
                          /\ task' = [task EXCEPT ![k] = TaskOf("usage", owner[s], s)]
    BY <1>4 DEF OlderAnswered
  <2>2. FinalizesKept(task') /\ UNCHANGED <<sessions, minted>>
    BY <1>2, <2>1, OtherPut, TaskFacts DEF RecordUsage, TaskKind
  <2> QED
    BY <1>4, <2>2, EndingsStay, UnseenStep DEF OlderAnswered
<1>5. CASE NewestAnswered(s)
  <2>1. PICK k \in Call, j \in Call :
           /\ k # j /\ task[k] = NoTask /\ task[j] = NoTask
           /\ RecordUsage(k, s, LlmUsage)
           /\ task' = [task EXCEPT ![k] = TaskOf("usage", owner[s], s),
                                   ![j] = TaskOf("qna", owner[s], s)]
    BY <1>5 DEF NewestAnswered
  <2>2. FinalizesKept(task') /\ UNCHANGED <<sessions, minted>>
    <3>1. \A i \in Call : i # k => calls'[i] = calls[i]
      BY <2>1, TableFacts DEF RecordUsage, Resume
    <3>2. /\ task'[k].kind = "usage" /\ task'[j].kind = "qna"
          /\ \A i \in Call : i # k /\ i # j => task'[i] = task[i]
      BY <1>1, <1>2, <2>1 DEF TaskKind
    <3>3. task[k].kind = "none" /\ task[j].kind = "none"
      BY <2>1, TaskFacts
    <3> QED
      BY <2>1, <3>1, <3>2, <3>3 DEF FinalizesKept, RecordUsage
  <2> QED
    BY <1>5, <2>2, EndingsStay, UnseenStep DEF NewestAnswered
<1> QED
  BY <1>3, <1>4, <1>5

\* The task of a check is no finalize.
LEMMA CheckUnseen ==
    ASSUME LinkInv, BillInv, NEW k \in Call, task[k].kind \notin {"none", "finalize"},
           NEW voided \in BOOLEAN, Check(k, voided), calls' = calls \/ \E x : Resume(k, x)
    PROVE  FinalizesKept(task')
<1> DEFINE t == [TaskOf("check_ledger", task[k].conn, task[k].session) EXCEPT !.voided = voided]
<1>1. t.kind = "check_ledger" /\ NoTask.kind = "none"
  BY DEF TaskOf, NoTask
<1>2. task' = [task EXCEPT ![k] = NoTask] \/ task' = [task EXCEPT ![k] = t]
  BY DEF Check
<1> HIDE DEF t
<1> QED
  BY <1>1, <1>2, OtherPut

\* Metering, usage, persisting and checking.
LEMMA TasksUnseen ==
    ASSUME LinkInv, BillInv, FinalizeInv, NEW k \in Call,
           \/ MeterReturned(k) \/ UsageReturned(k) \/ QnaAppended(k)
           \/ CheckLedger(k) \/ CheckFails(k) \/ CheckUsage(k)
    PROVE  FinalizeInv'
<1>0. NoTask.kind = "none"
  BY TaskFacts
<1>1. CASE MeterReturned(k) \/ UsageReturned(k)
  <2>1. /\ \E x : Resume(k, x)
        /\ UNCHANGED <<sessions, minted, owner, stranded, conn>>
        /\ task[k].kind \notin {"none", "finalize"}
    BY <1>1 DEF MeterReturned, UsageReturned, Settle
  <2>2. FinalizesKept(task')
    BY <1>0, <1>1, <2>1, OtherPut, CheckUnseen DEF MeterReturned, UsageReturned
  <2> QED
    BY <2>1, <2>2, EndingsStay, UnseenStep
<1>2. CASE QnaAppended(k) \/ CheckLedger(k) \/ CheckFails(k)
  <2>1. /\ UNCHANGED <<sessions, minted, calls, owner, stranded, conn>>
        /\ task[k].kind \notin {"none", "finalize"}
    BY <1>2 DEF QnaAppended, CheckLedger, CheckFails, creditsVars
  <2>2. FinalizesKept(task')
    <3>1. CASE CheckLedger(k)
      <4>1. /\ task'[k].kind = "check_usage" /\ task[k].kind = "check_ledger"
            /\ \A j \in Call : j # k => task'[j] = task[j]
        <5>1. task[k] \in TaskShape(task[k].balance) /\ DOMAIN task = Call
          BY DEF LinkInv, GatewayShape
        <5> QED
          BY <3>1, <5>1 DEF CheckLedger, TaskShape
      <4> QED
        BY <2>1, <4>1 DEF FinalizesKept
    <3>2. CASE QnaAppended(k) \/ CheckFails(k)
      BY <1>0, <2>1, <3>2, OtherPut, CheckUnseen DEF QnaAppended, CheckFails
    <3> QED
      BY <1>2, <3>1, <3>2
  <2> QED
    BY <2>1, <2>2, EndingsStay, UnseenStep
<1>3. CASE CheckUsage(k)
  <2> DEFINE s == task[k].session
             c == task[k].conn
             done == [task EXCEPT ![k] = NoTask]
             orchs == [orch EXCEPT ![s].exhausted = TRUE]
  <2>1. /\ calls[k].at \notin AwaitPoint /\ task[k].kind = "check_usage" /\ DOMAIN task = Call
        /\ UNCHANGED <<owner, stranded>>
    BY <1>3 DEF CheckUsage, LinkInv, CallsHaveTasks, AwaitPoint, GatewayShape
  <2>2. s \in Session /\ c \in Conn /\ conn[c] \in Connection /\ conn[c].current # NoSession
    BY <2>1, GatewayFacts DEF LinkInv, WorkIsOwned, Live
  <2>3. TasksOk(done)
    BY <2>1, WorkNow, EmptyPut
  <2>4. \A j \in Call : IF task[j].kind = "finalize" THEN done[j] = task[j]
                        ELSE done[j].kind # "finalize"
    BY <1>0, <2>1
  <2> HIDE DEF done, orchs
  <2>5. CASE ~Finalizing(c) /\ BeginFinalize(c, conn[c], "credits-exhausted", orchs, done)
    BY <2>1, <2>2, <2>3, <2>4, <2>5, BeginUnseen DEF EndReason
  <2>6. CASE task' = done /\ UNCHANGED <<conn, creditsVars>>
    <3>1. FinalizesKept(task')
      BY <2>4, <2>6 DEF FinalizesKept, creditsVars
    <3> QED
      BY <2>1, <2>6, <3>1, EndingsStay, UnseenStep DEF creditsVars
  <2> QED
    BY <1>3, <2>5, <2>6 DEF CheckUsage, done, orchs
<1> QED
  BY <1>1, <1>2, <1>3

-----------------------------------------------------------------------------
(* The finalize of a connection: the steps it takes, and those that end or  *)
(* delete a session under it                                                *)

\* A finalize task, at whatever point it is.
LEMMA FinalizeFacts ==
    ASSUME LinkInv, BillInv, FinalizeInv, NEW k \in Call, task[k].kind = "finalize"
    PROVE  LET c == task[k].conn
               s == calls[k].session IN
           /\ c \in Conn /\ conn[c] \in Connection /\ s \in Session /\ s \in minted
           /\ owner[s] = c /\ conn[c].ending = "settling" /\ calls[k].reason = conn[c].reason
           /\ calls[k].reason \in EndReason
           /\ conn[c].handler = "stopping" => s = conn[c].current
           /\ \A j \in Call : task[j].kind = "finalize" /\ j # k =>
                 task[j].conn \in Conn /\ task[j].conn # c
                 /\ calls[j].session # s /\ calls[j].session \in Session
<1>1. /\ task[k].conn \in Conn /\ conn[task[k].conn] \in Connection
      /\ calls[k].session \in minted /\ minted \subseteq Session
  BY GatewayFacts DEF FinalizeInv, FinalizeIsOne
<1>2. calls[k].reason \in EndReason
  BY TableFacts DEF CallRecord
<1>3. \A j \in Call : task[j].kind = "finalize" /\ j # k =>
         task[j].conn \in Conn /\ task[j].conn # task[k].conn
         /\ calls[j].session # calls[k].session /\ calls[j].session \in Session
  BY <1>1, GatewayFacts DEF FinalizeInv, FinalizeIsOne
<1> QED
  BY <1>1, <1>2, <1>3 DEF FinalizeInv, FinalizeIsOne, Stopping

\* The sessions of c that are not its finalize's need none.
LEMMA OthersNeedNone ==
    ASSUME LinkInv, BillInv, FinalizeInv, NEW k \in Call, task[k].kind = "finalize",
           NEW r \in Session, r # calls[k].session, owner[r] = task[k].conn
    PROVE  Ended(r) \/ r \in stranded
<1>1. /\ task[k].conn \in Conn /\ conn[task[k].conn].ending = "settling"
      /\ owner[r] # NoConn
  BY FinalizeFacts, GatewayAssumption
<1>2. ASSUME NEW j \in Call, task[j].kind = "finalize", calls[j].session = r PROVE FALSE
  <2>1. task[j].conn = owner[r]
    BY <1>2 DEF FinalizeInv, FinalizeIsOne
  <2> QED
    BY <1>2, <2>1, FinalizeFacts
<1>3. ~Awaited(r)
  BY <1>1, <1>2 DEF Awaited
<1> QED
  BY <1>1, <1>3 DEF FinalizeInv, NoneForgotten

\* A finalize task is over, its session ended or stranded.
LEMMA FinalizeOver ==
    ASSUME LinkInv, BillInv, FinalizeInv, NEW k \in Call, task[k].kind = "finalize",
           Settle(k), task' = [task EXCEPT ![k] = NoTask], UNCHANGED owner,
           NEW x, Update(task[k].conn, x), x.ending \in {"done", "failed"},
           Ended(calls[k].session) \/ calls[k].session \in stranded', stranded \subseteq stranded'
    PROVE  FinalizeInv'
<1> DEFINE c == task[k].conn
           s == calls[k].session
<1>1. /\ c \in Conn /\ s \in Session /\ owner[s] = c
      /\ \A j \in Call : task[j].kind = "finalize" /\ j # k =>
            task[j].conn \in Conn /\ task[j].conn # c /\ calls[j].session # s
  BY FinalizeFacts
<1>2. /\ conn'[c] = x /\ \A d \in Conn : d # c => conn'[d] = conn[d]
  BY <1>1 DEF Update, LinkInv, GatewayShape
<1>3. /\ \A j \in Call : j # k => calls'[j] = calls[j] /\ task'[j] = task[j]
      /\ task'[k].kind = "none"
      /\ UNCHANGED <<sessions, minted>>
  BY TableFacts, TaskFacts DEF Settle, Resume, LinkInv, GatewayShape
<1>4. FinalizeIsOne'
  BY <1>1, <1>2, <1>3 DEF FinalizeInv, FinalizeIsOne, Stopping
<1>5. ClaimsFollow'
  <2>1. ASSUME NEW r \in Session, owner[r] # NoConn, conn'[owner[r]].current # NoSession,
               conn'[owner[r]].ending \in {"no", "relay_close"}
        PROVE  Unclaimed(r)
    <3>1. owner[r] \in Conn /\ owner[r] # c
      BY <1>2, <2>1 DEF LinkInv, GatewayShape
    <3> QED
      BY <1>2, <2>1, <3>1 DEF FinalizeInv, ClaimsFollow
  <2>2. \A r : Unclaimed(r)' <=> Unclaimed(r)
    BY <1>3 DEF Unclaimed, Claimable
  <2>3. ASSUME NEW j \in Call, task'[j].kind = "finalize"
        PROVE  Follows(j)'
    <3>1. j # k /\ task[j].kind = "finalize" /\ calls'[j] = calls[j] /\ sessions' = sessions
      BY <1>3, <2>3
    <3> QED
      BY <3>1, FollowsKept DEF FinalizeInv, ClaimsFollow
  <2> QED
    BY <2>1, <2>2, <2>3 DEF ClaimsFollow
<1>6. NoneForgotten'
  <2> SUFFICES ASSUME NEW r \in Session, owner[r] # NoConn
               PROVE  Ended(r)' \/ r \in stranded' \/ Awaited(r)'
    BY DEF NoneForgotten
  <2>1. Ended(r)' <=> Ended(r)
    BY <1>3 DEF Ended, Claimable
  <2>2. CASE owner[r] = c
    BY <2>1, <2>2, OthersNeedNone
  <2>3. CASE owner[r] # c
    <3>1. owner[r] \in Conn /\ conn'[owner[r]] = conn[owner[r]] /\ owner'[r] = owner[r]
      BY <1>2, <2>3 DEF LinkInv, GatewayShape
    <3>2. ASSUME NEW j \in Call, task[j].kind = "finalize", calls[j].session = r
          PROVE  task'[j].kind = "finalize" /\ calls'[j].session = r
      BY <1>1, <1>3, <2>3, <3>2
    <3>3. Awaited(r) => Awaited(r)'
      BY <3>1, <3>2 DEF Awaited
    <3> QED
      BY <2>1, <3>3 DEF FinalizeInv, NoneForgotten
  <2> QED
    BY <2>2, <2>3
<1> QED
  BY <1>4, <1>5, <1>6 DEF FinalizeInv

\* A call that has returned left its session ended, or found it gone.
LEMMA ReturnedEnded ==
    ASSUME LinkInv, BillInv, FinalizeInv, NEW k \in Call, task[k].kind = "finalize",
           calls[k].at \in {"append", "returned"}
    PROVE  Ended(calls[k].session)
<1>1. calls[k].reason # NotEnded
  BY FinalizeFacts DEF EndReason, NotEnded
<1> QED
  BY <1>1 DEF FinalizeInv, ClaimsFollow, Follows, Ended, Claimable

\* finalize and a failed stop_session end a finalize.
LEMMA FinalizeEnds ==
    ASSUME LinkInv, BillInv, FinalizeInv, NEW k \in Call, FinalizeReturned(k) \/ StopFailed(k)
    PROVE  FinalizeInv'
<1> DEFINE c == task[k].conn
<1>1. task[k].kind = "finalize" /\ c \in Conn /\ conn[c] \in Connection
  BY FinalizeFacts DEF FinalizeReturned, StopFailed
<1>2. CASE FinalizeReturned(k)
  <2> DEFINE y == CloseSocket(conn[c])
             x == [y EXCEPT !.ending = "done",
                            !.handler = IF Stopping(c) THEN "ready" ELSE conn[c].handler]
  <2>1. Update(c, x) /\ x.ending = "done"
    <3>1. y \in Connection
      BY <1>1, CloseSocketFacts
    <3>2. Update(c, x)
      BY <1>2 DEF FinalizeReturned
    <3> HIDE DEF y
    <3> QED
      BY <3>1, <3>2 DEF Connection
  <2>2. Ended(calls[k].session)
    BY <1>1, <1>2, ReturnedEnded DEF FinalizeReturned
  <2> HIDE DEF x
  <2> QED
    BY <1>1, <1>2, <2>1, <2>2, FinalizeOver DEF FinalizeReturned
<1>3. CASE StopFailed(k)
  <2> DEFINE x == [conn[c] EXCEPT !.ending = "failed", !.handler = "ready"]
  <2>1. Update(c, x) /\ x.ending = "failed"
    BY <1>1, <1>3 DEF StopFailed, Connection
  <2> HIDE DEF x
  <2> QED
    BY <1>1, <1>3, <2>1, FinalizeOver DEF StopFailed
<1> QED
  BY <1>2, <1>3

\* finalizeSession is called for the current session, whose finalize was to come.
LEMMA RelayClosedStep ==
    ASSUME LinkInv, BillInv, FinalizeInv, NEW c \in Conn, RelayClosed(c)
    PROVE  FinalizeInv'
<1> DEFINE s == conn[c].current
           x == [conn[c] EXCEPT !.ending = "settling"]
<1>1. /\ conn[c] \in Connection /\ conn \in [Conn -> Connection] /\ DOMAIN task = Call
      /\ conn[c].ending = "relay_close"
      /\ s \in Session /\ s # NoSession /\ s \in minted /\ owner[s] = c
  BY GatewayFacts DEF RelayClosed, LinkInv, GatewayShape, ConnectionsOwn
<1>2. /\ x.ending = "settling" /\ x.reason = conn[c].reason /\ x.current = s
      /\ Update(c, x)
  BY <1>1 DEF Connection, RelayClosed
<1> HIDE DEF x
<1>3. conn'[c] = x /\ \A d \in Conn : d # c => conn'[d] = conn[d]
  BY <1>1, <1>2 DEF Update
<1>4. PICK k \in Call : /\ task[k] = NoTask
                        /\ FinalizeSession(k, s, conn[c].reason)
                        /\ task' = [task EXCEPT ![k] = TaskOf("finalize", c, s)]
  BY DEF RelayClosed
<1>5. /\ task'[k].kind = "finalize" /\ task'[k].conn = c
      /\ \A j \in Call : j # k => task'[j] = task[j] /\ calls'[j] = calls[j]
      /\ calls'[k].at = "session_get" /\ calls'[k].session = s
      /\ calls'[k].reason = conn[c].reason
  <2>1. \A j \in Call : j # k => task'[j] = task[j] /\ calls'[j] = calls[j]
    BY <1>1, <1>4, TableFacts DEF FinalizeSession, Resume
  <2>2. calls'[k] = [IdleCall EXCEPT !.at = "session_get", !.session = s, !.reason = conn[c].reason]
    BY <1>4, TableFacts DEF FinalizeSession, Resume
  <2>3. task'[k] = TaskOf("finalize", c, s)
    BY <1>1, <1>4
  <2> QED
    BY <1>1, <2>1, <2>2, <2>3, TaskFacts DEF IdleCall, TaskKind
<1>6. \A j \in Call : task[j].kind = "finalize" => j # k /\ task[j].conn \in Conn /\ task[j].conn # c
  BY <1>1, <1>4, TaskFacts, FinalizeFacts
<1>7. UNCHANGED <<sessions, minted, owner, stranded>>
  BY <1>4 DEF RelayClosed, FinalizeSession
<1>8. \A j \in Call : j # k /\ task'[j].kind = "finalize" =>
         /\ task[j].kind = "finalize" /\ task'[j] = task[j] /\ calls'[j] = calls[j]
         /\ task[j].conn \in Conn /\ task[j].conn # c
         /\ conn'[task[j].conn] = conn[task[j].conn]
  BY <1>3, <1>5, <1>6
<1>9. FinalizeIsOne'
  <2>1. ASSUME NEW j \in Call, task'[j].kind = "finalize"
        PROVE  /\ calls'[j].at # "idle" /\ calls'[j].session \in minted'
               /\ owner'[calls'[j].session] = task'[j].conn
               /\ conn'[task'[j].conn].ending = "settling"
               /\ calls'[j].reason = conn'[task'[j].conn].reason
               /\ conn'[task'[j].conn].handler = "stopping" =>
                     calls'[j].session = conn'[task'[j].conn].current
    <3>1. CASE j = k
      BY <1>1, <1>2, <1>3, <1>5, <1>7, <3>1
    <3>2. CASE j # k
      BY <1>7, <1>8, <2>1, <3>2 DEF FinalizeInv, FinalizeIsOne, Stopping
    <3> QED
      BY <3>1, <3>2
  <2>2. ASSUME NEW i \in Call, NEW j \in Call,
               task'[i].kind = "finalize", task'[j].kind = "finalize", task'[i].conn = task'[j].conn
        PROVE  i = j
    <3>1. CASE i = k \/ j = k
      BY <1>5, <1>8, <2>2, <3>1
    <3>2. CASE i # k /\ j # k
      BY <1>8, <2>2, <3>2 DEF FinalizeInv, FinalizeIsOne
    <3> QED
      BY <3>1, <3>2
  <2> QED
    BY <2>1, <2>2 DEF FinalizeIsOne, Stopping
<1>10. \A r : Unclaimed(r)' <=> Unclaimed(r)
  BY <1>7 DEF Unclaimed, Claimable
<1>11. ClaimsFollow'
  <2>1. ASSUME NEW r \in Session, owner[r] # NoConn, conn'[owner[r]].current # NoSession,
               conn'[owner[r]].ending \in {"no", "relay_close"}
        PROVE  Unclaimed(r)
    <3>1. owner[r] \in Conn /\ owner[r] # c
      BY <1>2, <1>3, <2>1 DEF LinkInv, GatewayShape
    <3> QED
      BY <1>3, <2>1, <3>1 DEF FinalizeInv, ClaimsFollow
  <2>2. ASSUME NEW j \in Call, task'[j].kind = "finalize"
        PROVE  Follows(j)'
    <3>1. CASE j = k
      <4>1. Unclaimed(s)
        BY <1>1, GatewayAssumption DEF FinalizeInv, ClaimsFollow
      <4> QED
        BY <1>5, <1>10, <3>1, <4>1 DEF Follows
    <3>2. CASE j # k
      BY <1>7, <1>8, <2>2, <3>2, FollowsKept DEF FinalizeInv, ClaimsFollow
    <3> QED
      BY <3>1, <3>2
  <2> QED
    BY <1>7, <1>10, <2>1, <2>2 DEF ClaimsFollow
<1>12. NoneForgotten'
  <2> SUFFICES ASSUME NEW r \in Session, owner[r] # NoConn
               PROVE  Ended(r)' \/ r \in stranded' \/ Awaited(r)'
    BY <1>7 DEF NoneForgotten
  <2>1. owner[r] \in Conn /\ owner'[r] = owner[r]
    BY <1>7 DEF LinkInv, GatewayShape
  <2>2. CASE Ended(r) \/ r \in stranded
    BY <1>7, <2>2 DEF Ended, Claimable
  <2>3. CASE \E j \in Call : task[j].kind = "finalize" /\ calls[j].session = r
    BY <1>5, <1>6, <2>3 DEF Awaited
  <2>4. CASE owner[r] # c /\ Awaited(r)
    <3>1. conn'[owner[r]] = conn[owner[r]]
      BY <1>3, <2>1, <2>4
    <3> QED
      BY <2>1, <2>3, <2>4, <3>1 DEF Awaited
  <2>5. CASE owner[r] = c /\ conn[c].current = r
    BY <1>5, <2>5 DEF Awaited
  <2> QED
    BY <2>2, <2>3, <2>4, <2>5 DEF FinalizeInv, NoneForgotten, Awaited
<1> QED
  BY <1>9, <1>11, <1>12 DEF FinalizeInv

\* A new session's finalize is to come, or it is stranded; so is the one before.
LEMMA StartStep ==
    ASSUME LinkInv, BillInv, FinalizeInv, NEW c \in Conn, StartCreated(c)
    PROVE  FinalizeInv'
<1>1. conn[c] \in Connection /\ conn \in [Conn -> Connection] /\ conn[c].handler = "create"
  BY GatewayFacts DEF StartCreated, LinkInv, GatewayShape
<1>2. PICK s \in Session :
         /\ CreateSession(s, conn[c].account, ModeOf[conn[c].account])
         /\ Update(c, [conn[c] EXCEPT !.handler = "ready", !.current = s])
         /\ owner' = [owner EXCEPT ![s] = c]
         /\ stranded' = stranded \cup ((IF WillFinalize(c) THEN {conn[c].current} ELSE {s})
                                          \ {NoSession})
  BY DEF StartCreated
<1>3. conn[c].account \in Account /\ ModeOf[conn[c].account] \in Mode
  BY <1>1, GatewayAssumption DEF LinkInv, ConnectionsOwn, Connection
<1>4. /\ s \notin minted /\ minted' = minted \cup {s}
      /\ sessions'[s] # NoRow /\ sessions'[s].ended = NotEnded
      /\ \A r \in Session : r # s => sessions'[r] = sessions[r]
      /\ UNCHANGED calls /\ s # NoSession
  BY <1>2, <1>3, CreateFacts, CreditsAssumption DEF CreateSession
<1> DEFINE x == [conn[c] EXCEPT !.handler = "ready", !.current = s]
<1>5. /\ x.current = s /\ x.handler = "ready"
      /\ x.ending = conn[c].ending /\ x.ws = conn[c].ws /\ x.reason = conn[c].reason
  BY <1>1 DEF Connection
<1>6. conn'[c] = x /\ \A d \in Conn : d # c => conn'[d] = conn[d]
  BY <1>1, <1>2 DEF Update
<1> HIDE DEF x
<1>7. /\ owner'[s] = c /\ \A r \in Session : r # s => owner'[r] = owner[r]
      /\ owner \in [Session -> Conn \cup {NoConn}] /\ UNCHANGED task
      /\ minted \subseteq Session
  BY <1>2, GatewayFacts DEF LinkInv, GatewayShape, StartCreated
<1>8. \A k \in Call : task[k].kind = "finalize" =>
         /\ calls[k].session \in Session /\ calls[k].session # s /\ task[k].conn \in Conn
         /\ owner'[calls[k].session] = owner[calls[k].session]
         /\ sessions'[calls[k].session] = sessions[calls[k].session]
  BY <1>4, <1>7, FinalizeFacts
<1>9. FinalizeIsOne'
  <2>1. ASSUME NEW k \in Call, task[k].kind = "finalize"
        PROVE  /\ calls[k].at # "idle" /\ calls[k].session \in minted'
               /\ owner'[calls[k].session] = task[k].conn
               /\ conn'[task[k].conn].ending = "settling"
               /\ calls[k].reason = conn'[task[k].conn].reason
               /\ conn'[task[k].conn].handler = "stopping" =>
                     calls[k].session = conn'[task[k].conn].current
    BY <1>4, <1>5, <1>6, <1>8, <2>1 DEF FinalizeInv, FinalizeIsOne, Stopping
  <2> QED
    BY <1>4, <1>7, <2>1 DEF FinalizeInv, FinalizeIsOne, Stopping
<1>10. ClaimsFollow'
  <2>1. ASSUME NEW r \in Session, owner'[r] # NoConn, conn'[owner'[r]].current # NoSession,
               conn'[owner'[r]].ending \in {"no", "relay_close"}
        PROVE  Unclaimed(r)'
    <3>1. CASE r = s
      BY <1>4, <3>1 DEF Unclaimed, Claimable
    <3>2. CASE r # s
      <4>1. owner'[r] = owner[r] /\ owner[r] \in Conn /\ owner[r] # NoConn
        BY <1>7, <2>1, <3>2
      <4>2. conn[owner[r]].current # NoSession
        <5>1. CASE owner[r] = c
          BY <1>1, <4>1, <5>1 DEF LinkInv, ConnectionsOwn, Dead
        <5>2. CASE owner[r] # c
          BY <1>6, <2>1, <4>1, <5>2
        <5> QED
          BY <5>1, <5>2
      <4>3. conn[owner[r]].ending \in {"no", "relay_close"}
        BY <1>5, <1>6, <2>1, <4>1
      <4>4. Unclaimed(r)
        BY <4>1, <4>2, <4>3 DEF FinalizeInv, ClaimsFollow
      <4> QED
        BY <1>4, <3>2, <4>4 DEF Unclaimed, Claimable
    <3> QED
      BY <3>1, <3>2
  <2>2. ASSUME NEW k \in Call, task[k].kind = "finalize"
        PROVE  Follows(k)'
    BY <1>4, <1>8, <2>2, FollowsKept DEF FinalizeInv, ClaimsFollow
  <2> QED
    BY <1>4, <1>7, <2>1, <2>2 DEF ClaimsFollow
<1>11. NoneForgotten'
  <2> SUFFICES ASSUME NEW r \in Session, owner'[r] # NoConn
               PROVE  Ended(r)' \/ r \in stranded' \/ Awaited(r)'
    BY DEF NoneForgotten
  <2>1. CASE r = s
    <3>1. CASE WillFinalize(c)
      <4>1. conn'[c].current = s /\ (conn'[c].ending = "relay_close"
               \/ (conn'[c].ending = "no" /\ conn'[c].ws # "closed"))
        BY <1>5, <1>6, <3>1 DEF WillFinalize
      <4>2. Awaited(s)'
        BY <1>7, <4>1 DEF Awaited
      <4> QED
        BY <2>1, <4>2
    <3>2. CASE ~WillFinalize(c)
      BY <1>2, <1>4, <2>1, <3>2
    <3> QED
      BY <3>1, <3>2
  <2>2. CASE r # s
    <3>1. owner'[r] = owner[r] /\ owner[r] \in Conn /\ owner[r] # NoConn /\ r # NoSession
      BY <1>7, <2>2, CreditsAssumption
    <3>2. Ended(r)' <=> Ended(r)
      BY <1>4, <2>2 DEF Ended, Claimable
    <3>3. stranded \subseteq stranded'
      BY <1>2
    <3>4. CASE \E k \in Call : task[k].kind = "finalize" /\ calls[k].session = r
      BY <1>4, <1>7, <3>4 DEF Awaited
    <3>5. CASE owner[r] # c /\ Awaited(r)
      <4>1. conn'[owner[r]] = conn[owner[r]]
        BY <1>6, <3>1, <3>5
      <4> QED
        BY <3>1, <3>4, <3>5, <4>1 DEF Awaited
    <3>6. CASE owner[r] = c /\ WillFinalize(c) /\ conn[c].current = r
      BY <1>2, <3>1, <3>6
    <3>7. CASE owner[r] = c /\ Awaited(r)
      BY <3>4, <3>6, <3>7 DEF Awaited, WillFinalize
    <3> QED
      BY <3>1, <3>2, <3>3, <3>5, <3>7 DEF FinalizeInv, NoneForgotten
  <2> QED
    BY <2>1, <2>2
<1> QED
  BY <1>9, <1>10, <1>11 DEF FinalizeInv

\* The death of the process strands all there was.
LEMMA DiesStep ==
    ASSUME LinkInv, BillInv, FinalizeInv, ProcessDies, GatewayDies
    PROVE  FinalizeInv'
<1> DEFINE x == [NewConnection EXCEPT !.ws = "closed"]
<1>1. /\ \A c \in Conn : conn'[c] = IF conn[c].ws = "new" THEN conn[c] ELSE x
      /\ \A k \in Call : task'[k].kind = "none"
      /\ UNCHANGED <<owner, minted, sessions>> /\ stranded' = stranded \cup minted
  BY TaskFacts DEF GatewayDies, ProcessDies
<1>2. x.current = NoSession
  BY DeadFacts
<1> HIDE DEF x
<1>3. FinalizeIsOne'
  BY <1>1 DEF FinalizeIsOne
<1>4. ClaimsFollow'
  <2>1. ASSUME NEW s \in Session, owner[s] # NoConn, conn'[owner[s]].current # NoSession,
               conn'[owner[s]].ending \in {"no", "relay_close"}
        PROVE  Unclaimed(s)
    <3>1. owner[s] \in Conn
      BY <2>1 DEF LinkInv, GatewayShape
    <3>2. conn'[owner[s]] = conn[owner[s]]
      BY <1>1, <1>2, <2>1, <3>1
    <3> QED
      BY <2>1, <3>2 DEF FinalizeInv, ClaimsFollow
  <2>2. \A s : Unclaimed(s)' <=> Unclaimed(s)
    BY <1>1 DEF Unclaimed, Claimable
  <2> QED
    BY <1>1, <2>1, <2>2 DEF ClaimsFollow
<1>5. NoneForgotten'
  BY <1>1 DEF NoneForgotten, LinkInv, ConnectionsOwn
<1> QED
  BY <1>3, <1>4, <1>5 DEF FinalizeInv

\* A session that is deleted needs no finalize, and its finalize finds it gone.
LEMMA DeleteStep ==
    ASSUME LinkInv, BillInv, FinalizeInv, NEW s \in Session, HttpDelete(s)
    PROVE  FinalizeInv'
<1>1. /\ sessions'[s] = NoRow /\ \A r \in Session : r # s => sessions'[r] = sessions[r]
      /\ UNCHANGED <<conn, task, calls, owner, stranded, minted>>
  BY DeleteFacts DEF HttpDelete, DeleteSession, gatewayVars
<1>2. \A r \in Session : /\ Unclaimed(r) => Unclaimed(r)'
                         /\ Ended(r) => Ended(r)'
                         /\ sessions'[r] = NoRow \/ sessions'[r] = sessions[r]
  BY <1>1 DEF Unclaimed, Ended, Claimable
<1>3. \A k \in Call : task[k].kind = "finalize" => calls[k].session \in Session
  BY FinalizeFacts
<1>4. FinalizeIsOne'
  BY <1>1 DEF FinalizeInv, FinalizeIsOne, Stopping
<1>5. ClaimsFollow'
  <2>1. ASSUME NEW r \in Session, owner[r] # NoConn, conn[owner[r]].current # NoSession,
               conn[owner[r]].ending \in {"no", "relay_close"}
        PROVE  Unclaimed(r)'
    BY <1>2, <2>1 DEF FinalizeInv, ClaimsFollow
  <2>2. ASSUME NEW k \in Call, task[k].kind = "finalize"
        PROVE  Follows(k)'
    BY <1>1, <1>2, <1>3, <2>2, FollowsKept DEF FinalizeInv, ClaimsFollow
  <2> QED
    BY <1>1, <2>1, <2>2 DEF ClaimsFollow
<1>6. NoneForgotten'
  BY <1>1, <1>2 DEF FinalizeInv, NoneForgotten, Awaited
<1> QED
  BY <1>4, <1>5, <1>6 DEF FinalizeInv

\* A statement of recordUsage or of finalizeSession.
LEMMA StatementStep ==
    ASSUME LinkInv, BillInv, FinalizeInv, NEW k \in Call, Statement(k)
    PROVE  FinalizeInv'
<1>1. CallMoves(k) /\ UNCHANGED <<conn, task, owner, stranded>>
  BY StatementMoves DEF Statement, gatewayVars
<1>2. \A j \in Call : j # k => calls'[j] = calls[j]
  BY <1>1 DEF CallMoves
<1>3. CASE task[k].kind # "finalize"
  <2>1. calls[k].at \in {"usage_get", "usage_upsert"}
    BY <1>1, <1>3 DEF CallMoves, AwaitPoint, LinkInv, CallsHaveTasks
  <2>2. UNCHANGED <<sessions, minted>>
    BY <1>1, <2>1 DEF CallMoves
  <2>3. FinalizesKept(task')
    BY <1>1, <1>2, <1>3 DEF FinalizesKept
  <2> QED
    BY <1>1, <2>2, <2>3, EndingsStay, UnseenStep
<1>4. CASE task[k].kind = "finalize"
  <2> DEFINE c == task[k].conn
             s == calls[k].session
  <2>1. /\ c \in Conn /\ s \in Session /\ s \in minted /\ owner[s] = c
        /\ conn[c].ending = "settling" /\ calls[k].reason = conn[c].reason
        /\ conn[c].handler = "stopping" => s = conn[c].current
        /\ \A j \in Call : task[j].kind = "finalize" /\ j # k =>
              calls[j].session # s /\ calls[j].session \in Session
    BY <1>4, FinalizeFacts
  <2>2. /\ calls'[k].session = s /\ calls'[k].reason = calls[k].reason /\ minted' = minted
        /\ calls'[k].at # "idle"
        /\ \A r \in Session : r # s => sessions'[r] = sessions[r]
    BY <1>1 DEF CallMoves
  <2>3. FinalizeIsOne'
    <3>1. ASSUME NEW j \in Call, task[j].kind = "finalize"
          PROVE  /\ calls'[j].at # "idle" /\ calls'[j].session \in minted
                 /\ owner[calls'[j].session] = task[j].conn
                 /\ conn[task[j].conn].ending = "settling"
                 /\ calls'[j].reason = conn[task[j].conn].reason
                 /\ conn[task[j].conn].handler = "stopping" =>
                       calls'[j].session = conn[task[j].conn].current
      BY <1>2, <2>1, <2>2, <3>1 DEF FinalizeInv, FinalizeIsOne, Stopping
    <3> QED
      BY <1>1, <2>2, <3>1 DEF FinalizeInv, FinalizeIsOne, Stopping
  <2>4. ClaimsFollow'
    <3>1. ASSUME NEW r \in Session, owner[r] # NoConn, conn[owner[r]].current # NoSession,
                 conn[owner[r]].ending \in {"no", "relay_close"}
          PROVE  Unclaimed(r)'
      <4>1. r # s
        BY <2>1, <3>1
      <4>2. Unclaimed(r)
        BY <3>1 DEF FinalizeInv, ClaimsFollow
      <4> QED
        BY <2>2, <4>1, <4>2 DEF Unclaimed, Claimable
    <3>2. ASSUME NEW j \in Call, task[j].kind = "finalize"
          PROVE  Follows(j)'
      <4>1. CASE j # k
        BY <1>2, <2>1, <2>2, <3>2, <4>1, FollowsKept DEF FinalizeInv, ClaimsFollow
      <4>2. CASE j = k
        <5>1. Follows(k)
          BY <1>4 DEF FinalizeInv, ClaimsFollow
        <5>2. calls[k].at \in {"session_get", "final_usage_get", "mark", "append"}
          BY <1>1, <1>4 DEF CallMoves, AwaitPoint, LinkInv, CallsHaveTasks
        <5>3. CASE sessions' = sessions
          <6>1. calls[k].at = "session_get" =>
                   /\ calls'[k].at \in {"final_usage_get", "rejected"}
                   /\ calls'[k].at = "final_usage_get" => calls'[k].row = sessions[s]
            BY <1>1, <5>3 DEF CallMoves
          <6>2. calls[k].at = "final_usage_get" =>
                   \/ calls'[k].at = "rejected"
                   \/ calls[k].row # NoRow /\ calls'[k].at = "mark"
                   \/ calls[k].row = NoRow /\ calls'[k].at = "returned"
            BY <1>1, <5>3 DEF CallMoves
          <6>3. calls[k].at = "mark" =>
                   \/ calls'[k].at = "rejected"
                   \/ calls'[k].at = "returned" /\ ~Claimable(s)
                   \/ Claimable(s) /\ calls'[k].at = "append" /\ sessions[s].ended = calls[k].reason
            BY <1>1, <5>3 DEF CallMoves
          <6>4. calls[k].at = "append" => calls'[k].at \in {"returned", "rejected"}
            BY <1>1, <5>3 DEF CallMoves
          <6>5. \A r : Unclaimed(r)' <=> Unclaimed(r)
            BY <5>3 DEF Unclaimed, Claimable
          <6> QED
            BY <2>2, <4>2, <5>1, <5>2, <5>3, <6>1, <6>2, <6>3, <6>4, <6>5 DEF Follows, Unclaimed
        <5>4. CASE sessions' # sessions
          <6>1. calls'[k].at \in {"append", "rejected"} /\ sessions'[s].ended = calls[k].reason
            BY <1>1, <5>4 DEF CallMoves
          <6> QED
            BY <2>2, <4>2, <6>1 DEF Follows
        <5> QED
          BY <5>3, <5>4
      <4> QED
        BY <4>1, <4>2
    <3> QED
      BY <1>1, <3>1, <3>2 DEF ClaimsFollow
  <2>5. NoneForgotten'
    <3>1. \A r \in Session : Ended(r) => Ended(r)'
      <4>1. sessions' = sessions \/ Claimable(s)
        BY <1>1 DEF CallMoves
      <4> QED
        BY <2>1, <2>2, <4>1 DEF Ended, Claimable
    <3>2. \A j \in Call : task[j].kind = "finalize" => calls'[j].session = calls[j].session
      BY <1>2, <2>2
    <3> QED
      BY <1>1, <3>1, <3>2 DEF FinalizeInv, NoneForgotten, Awaited
  <2> QED
    BY <2>3, <2>4, <2>5 DEF FinalizeInv
<1> QED
  BY <1>3, <1>4

\* Every step keeps the invariant of finalize.
LEMMA FinalizeStepInv ==
    ASSUME LinkInv, BillInv, FinalizeInv, [GatewayNext]_vars
    PROVE  FinalizeInv'
<1>1. ASSUME NEW c \in Conn,
             \/ Connect(c) \/ \E m \in ControlMessage : Receive(c, m)
             \/ Audio(c) \/ SocketCloses(c) \/ RelayClosed(c)
             \/ HandlerStep(c) \/ AuthFails(c) \/ StartFails(c)
      PROVE  FinalizeInv'
  BY <1>1, ConversationUnseen, CloseUnseen, RelayClosedStep, StartStep DEF HandlerStep
<1>2. ASSUME NEW s \in Session,
             OlderAnswered(s) \/ NewestAnswered(s) \/ GenerationFails(s) \/ HttpDelete(s)
      PROVE  FinalizeInv'
  BY <1>2, GenerationUnseen, DeleteStep
<1>3. ASSUME NEW k \in Call, TaskStep(k) \/ CheckFails(k) \/ Statement(k)
      PROVE  FinalizeInv'
  <2>1. ASSUME RejectionKills(k) PROVE FinalizeInv'
    BY <2>1, DiesStep DEF RejectionKills, UnhandledRejection
  <2> QED
    BY <1>3, <2>1, FinalizeEnds, TasksUnseen, StatementStep DEF TaskStep
<1>4. CASE ProcessCrash
  BY <1>4, DiesStep DEF ProcessCrash, Crash
<1>5. CASE UNCHANGED vars
  BY <1>5, EndingsStay, TasksStay, UnseenStep DEF vars, gatewayVars, creditsVars
<1> QED
  BY <1>1, <1>2, <1>3, <1>4, <1>5 DEF GatewayNext

-----------------------------------------------------------------------------
(* What the client was told *)

\* A uuid stays drawn, and a session that is gone does not come back.
LEMMA GoneStaysGone ==
    ASSUME BillInv, [ServiceStep]_creditsVars
    PROVE  /\ minted \subseteq minted'
           /\ \A r \in minted : sessions[r] = NoRow => sessions'[r] = NoRow
<1>0. minted \subseteq Session
  BY TableFacts
<1>1. ASSUME NEW s \in Session, NEW a \in Account, NEW m \in Mode, CreateSession(s, a, m)
      PROVE  /\ minted \subseteq minted'
             /\ \A r \in minted : sessions[r] = NoRow => sessions'[r] = NoRow
  BY <1>0, <1>1, CreateFacts
<1>2. ASSUME NEW s \in Session, DeleteSession(s)
      PROVE  /\ minted \subseteq minted'
             /\ \A r \in minted : sessions[r] = NoRow => sessions'[r] = NoRow
  BY <1>0, <1>2, DeleteFacts
<1>3. ASSUME NEW k \in Call, UsageStored(k) \/ MarkFinalized(k) \/ AppendDebit(k)
      PROVE  /\ minted \subseteq minted'
             /\ \A r \in minted : sessions[r] = NoRow => sessions'[r] = NoRow
  BY <1>0, <1>3, MarkFacts DEF UsageStored, AppendDebit, Claimable
<1> QED
  BY <1>1, <1>2, <1>3, StepKinds

\* What is true of one message.
TrueOf(t) ==
    /\ t.session \in minted
    /\ t.summary => \E i \in DebitsOf(t.shown) : ledger[i].amount = -t.credits
    /\ sessions[t.session] = NoRow \/ sessions[t.session].ended = t.reason

\* It stays true, whatever happens to the session and the ledger.
LEMMA TruthStays ==
    ASSUME BillInv, [ServiceStep]_creditsVars, NEW t \in Told, TrueOf(t)
    PROVE  TrueOf(t)'
<1>1. t.session \in minted' /\ t.session \in Session /\ t.session \in minted
  BY GoneStaysGone, TableFacts DEF TrueOf
<1>2. ASSUME t.summary
      PROVE  \E i \in DOMAIN ledger' : ledger'[i].debitOf = t.shown
                                       /\ ledger'[i].amount = -t.credits
  <2>1. PICK i \in DOMAIN ledger : ledger[i].debitOf = t.shown /\ ledger[i].amount = -t.credits
    BY <1>2 DEF TrueOf, DebitsOf
  <2>2. EntryKept(i) /\ Len(ledger') >= Len(ledger)
    BY StepKeepsEntries DEF EntriesKept
  <2>3. i \in DOMAIN ledger'
    <3>1. DOMAIN ledger' = 1..Len(ledger') /\ Len(ledger') \in Nat
      BY BillStepInv DEF BillInv, SettlementInv, CreditsTypeOK
    <3> QED
      BY <2>2, <3>1, TableFacts
  <2> QED
    BY <2>1, <2>2, <2>3 DEF EntryKept
<1>3. sessions'[t.session] = NoRow \/ sessions'[t.session].ended = t.reason
  <2>1. CASE sessions[t.session] = NoRow
    BY <1>1, <2>1, GoneStaysGone
  <2>2. CASE sessions[t.session] # NoRow
    <3>1. sessions[t.session].ended = t.reason /\ t.reason # NotEnded
      BY <2>2 DEF TrueOf, Told, EndReason, NotEnded
    <3>2. sessions'[t.session] = sessions[t.session] \/ sessions'[t.session] = NoRow
      BY <1>1, <2>2, <3>1, StepKeepsReasons DEF Claimable
    <3> QED
      BY <3>1, <3>2
  <2> QED
    BY <2>1, <2>2
<1> QED
  BY <1>1, <1>2, <1>3 DEF TrueOf, DebitsOf

\* All that was told is true.
LEMMA ToldIsTrueOf == ToldIsTrue <=> \A t \in told : TrueOf(t)
BY DEF ToldIsTrue, SummaryIsTheBill, ToldReasonIsRecorded, TrueOf

\* Only a finalize that has returned tells the client anything.
LEMMA OnlyFinalizeTells ==
    ASSUME [GatewayNext]_vars
    PROVE  told' = told \/ \E k \in Call : FinalizeReturned(k)
<1>1. ASSUME NEW c \in Conn,
             \/ Connect(c) \/ \E m \in ControlMessage : Receive(c, m)
             \/ Audio(c) \/ SocketCloses(c) \/ RelayClosed(c)
             \/ HandlerStep(c) \/ AuthFails(c) \/ StartFails(c)
      PROVE  told' = told
  BY <1>1 DEF Connect, Receive, Audio, SocketCloses, RelayClosed, HandlerStep, HandleAuth,
              HandleStart, HandleQuestion, HandleStop, AuthOk, StartChecked, StartCreated,
              AuthFails, StartFails
<1>2. ASSUME NEW s \in Session,
             OlderAnswered(s) \/ NewestAnswered(s) \/ GenerationFails(s) \/ HttpDelete(s)
      PROVE  told' = told
  BY <1>2 DEF OlderAnswered, NewestAnswered, GenerationFails, HttpDelete, gatewayVars
<1>3. ASSUME NEW k \in Call,
             \/ StopFailed(k) \/ RejectionKills(k) \/ MeterReturned(k) \/ UsageReturned(k)
             \/ QnaAppended(k) \/ CheckLedger(k) \/ CheckUsage(k) \/ CheckFails(k) \/ Statement(k)
      PROVE  told' = told
  BY <1>3 DEF StopFailed, RejectionKills, GatewayDies, MeterReturned, UsageReturned, QnaAppended,
              CheckLedger, CheckUsage, CheckFails, Statement, gatewayVars
<1>4. CASE ProcessCrash
  BY <1>4 DEF ProcessCrash, GatewayDies
<1>5. CASE UNCHANGED vars
  BY <1>5 DEF vars, gatewayVars
<1> QED
  BY <1>1, <1>2, <1>3, <1>4, <1>5 DEF GatewayNext, TaskStep

\* What it tells is true: the call that answers it has ended the session with
\* its reason, or found it gone; and a summary is of a session it debited.
LEMMA FinalizeTellsTruth ==
    ASSUME LinkInv, BillInv, ReportInv, FinalizeInv, ToldIsTrue,
           NEW k \in Call, FinalizeReturned(k)
    PROVE  ToldIsTrue'
<1> DEFINE c == task[k].conn
           s == calls[k].session
           t == [session |-> s, reason |-> conn[c].reason, shown |-> conn[c].current,
                 summary |-> Stopping(c) /\ calls[k].finalized,
                 credits |-> CreditsFor(calls[k].seen)]
<1>1. /\ task[k].kind = "finalize" /\ calls[k].at = "returned"
      /\ UNCHANGED <<sessions, minted, ledger>> /\ told' \in {told, told \cup {t}}
  BY DEF FinalizeReturned, Settle
<1>2. /\ s \in minted /\ calls[k].reason = conn[c].reason
      /\ Stopping(c) => s = conn[c].current
  BY <1>1, FinalizeFacts DEF Stopping
<1>3. sessions[s] = NoRow \/ sessions[s].ended = calls[k].reason
  BY <1>1 DEF FinalizeInv, ClaimsFollow, Follows
<1>4. calls[k].finalized => \E i \in DebitsOf(s) : ledger[i].amount = -CreditsFor(calls[k].seen)
  BY <1>1 DEF ReportInv, ReportedIsCharged
<1>5. TrueOf(t)
  BY <1>2, <1>3, <1>4 DEF TrueOf
<1> HIDE DEF t
<1>6. \A u \in told' : TrueOf(u)
  BY <1>1, <1>5, ToldIsTrueOf
<1>7. \A u : TrueOf(u)' <=> TrueOf(u)
  BY <1>1 DEF TrueOf, DebitsOf
<1>8. \A u \in told' : TrueOf(u)'
  BY <1>6, <1>7
<1>9. ToldIsTrue' <=> \A u \in told' : TrueOf(u)'
  BY DEF ToldIsTrue, SummaryIsTheBill, ToldReasonIsRecorded, TrueOf
<1> QED
  BY <1>8, <1>9

\* What was told stays true, and what is told is.
LEMMA ToldStepInv ==
    ASSUME LinkInv, BillInv, ReportInv, FinalizeInv, ToldIsTrue, [GatewayNext]_vars
    PROVE  ToldIsTrue'
<1>1. CASE told' = told
  <2>1. told \subseteq Told /\ [ServiceStep]_creditsVars
    BY GatewayServes DEF LinkInv, GatewayShape
  <2>2. \A t \in told' : TrueOf(t)'
    BY <1>1, <2>1, ToldIsTrueOf, TruthStays
  <2>3. ToldIsTrue' <=> \A t \in told' : TrueOf(t)'
    BY DEF ToldIsTrue, SummaryIsTheBill, ToldReasonIsRecorded, TrueOf
  <2> QED
    BY <2>2, <2>3
<1> QED
  BY <1>1, FinalizeTellsTruth, OnlyFinalizeTells

-----------------------------------------------------------------------------
(* The theorems of the gateway *)

\* Nothing is finalized or told at first.
LEMMA FinalizeInitInv == GatewayInit => FinalizeInv /\ ToldIsTrue
<1> SUFFICES ASSUME GatewayInit PROVE FinalizeInv /\ ToldIsTrue
  OBVIOUS
<1>1. (\A k \in Call : task[k].kind = "none") /\ (\A s \in Session : owner[s] = NoConn) /\ told = {}
  BY TaskFacts DEF GatewayInit
<1> QED
  BY <1>1 DEF FinalizeInv, FinalizeIsOne, ClaimsFollow, NoneForgotten, ToldIsTrue,
              SummaryIsTheBill, ToldReasonIsRecorded

\* All the invariants hold at all times.
LEMMA FinalizeAlways == GatewaySpec => [](LinkInv /\ BillInv /\ ReportInv /\ FinalizeInv /\ ToldIsTrue)
<1>1. GatewayInit => FinalizeInv /\ ToldIsTrue
  BY FinalizeInitInv
<1>2. /\ LinkInv /\ BillInv /\ ReportInv /\ FinalizeInv /\ ToldIsTrue
      /\ [GatewayNext]_vars
      => FinalizeInv' /\ ToldIsTrue'
  BY FinalizeStepInv, ToldStepInv
<1> QED
  BY <1>1, <1>2, GatewayAlways, PTL DEF GatewaySpec

\* SessionsEnd, of Connection.finalize and its callers: when nothing of a
\* connection is left to run, every session it created is ended or deleted, but
\* for those the code strands, by name.
THEOREM SessionsAlwaysEnd == GatewaySpec => []SessionsEnd
<1>1. LinkInv /\ BillInv /\ FinalizeInv => SessionsEnd
  <2> SUFFICES ASSUME LinkInv, BillInv, FinalizeInv, NEW s \in Session, owner[s] # NoConn,
                      Quiet(owner[s])
               PROVE  Ended(s) \/ s \in stranded
    BY DEF SessionsEnd
  <2>1. ASSUME NEW k \in Call, task[k].kind = "finalize", calls[k].session = s PROVE FALSE
    <3>1. conn[owner[s]].ending = "settling"
      BY <2>1, FinalizeFacts
    <3> QED
      BY <3>1 DEF Quiet
  <2>2. ~Awaited(s)
    BY <2>1 DEF Awaited, Quiet
  <2> QED
    BY <2>2 DEF FinalizeInv, NoneForgotten
<1> QED
  BY <1>1, FinalizeAlways, PTL

\* SummaryIsTheBill, of the session_summary that finalize sends: the credits it
\* shows are those of the one debit of the session it names.
THEOREM SummariesAreBills == GatewaySpec => []SummaryIsTheBill
<1>1. ToldIsTrue => SummaryIsTheBill
  BY DEF ToldIsTrue
<1> QED
  BY <1>1, FinalizeAlways, PTL

\* ToldReasonIsRecorded, of the session_ended that finalize sends: the reason is
\* the one in the session's row, for as long as there is one.
THEOREM ToldReasonsAreRecorded == GatewaySpec => []ToldReasonIsRecorded
<1>1. ToldIsTrue => ToldReasonIsRecorded
  BY DEF ToldIsTrue
<1> QED
  BY <1>1, FinalizeAlways, PTL

-----------------------------------------------------------------------------
(* Audio is metered once *)

\* The calls that carry usage of s to its record, and what each carries.
Flying(c, s) == c.session = s /\ c.at \in {"usage_get", "usage_upsert"}
InFlight(s) == {k \in Call : Flying(calls[k], s)}
Carried == [k \in Call |-> calls[k].delta.stt]
Part(c, s) == IF Flying(c, s) THEN c.delta.stt ELSE 0

\* What has left the relay and is not recorded.
Due(s) == orch[s].relayed - recorded[s].stt - orch[s].pending

Spared(s) ==
    /\ sessions[s] # NoRow /\ s \notin stranded
    /\ \A k \in Call : calls[k].at = "rejected" => calls[k].session # s

\* What is due is on its way, in one of finitely many calls; and nothing is
\* counted for a session before it is created.
AudioFine(s) ==
    /\ IsFiniteSet(InFlight(s))
    /\ Spared(s) => Due(s) = Total(Carried, InFlight(s))
    /\ s \notin minted => orch[s].relayed = 0 /\ recorded[s].stt = 0

AudioInv == \A s \in Session : AudioFine(s)

\* What is carried and due are numbers.
LEMMA AudioNumbers ==
    ASSUME LinkInv, BillInv
    PROVE  /\ \A k \in Call : calls[k].delta.stt \in Nat /\ Carried[k] = calls[k].delta.stt
           /\ \A s \in Session :
                 /\ Due(s) \in Int /\ recorded[s].stt \in Nat
                 /\ orch[s].relayed \in Nat /\ orch[s].pending \in Nat
                 /\ orch[s].pending < MeterAt
<1>1. \A k \in Call : calls[k].delta.stt \in Nat
  BY TableFacts DEF CallRecord, Usage
<1>2. \A s \in Session : /\ recorded[s].stt \in Nat
                         /\ orch[s].relayed \in Nat /\ orch[s].pending \in Nat
                         /\ orch[s].pending < MeterAt
  BY TableFacts, GatewayFacts, GatewayAssumption DEF OrchestratorShape, Usage
<1>3. \A s \in Session : Due(s) \in Int
  BY <1>2 DEF Due
<1> QED
  BY <1>1, <1>2, <1>3 DEF Carried

\* A call that goes on puts in or takes out what it carries.
LEMMA FlightResumes ==
    ASSUME BillInv, NEW s \in Session, IsFiniteSet(InFlight(s)),
           NEW k \in Call, NEW c \in CallRecord, Resume(k, c)
    PROVE  /\ IsFiniteSet(InFlight(s)')
           /\ Total(Carried', InFlight(s)') =
                 Total(Carried, InFlight(s)) - Part(calls[k], s) + Part(c, s)
<1> DEFINE R == InFlight(s) \ {k}
           f == Carried
           g == Carried'
<1>1. /\ \A j \in Call : calls[j] \in CallRecord
      /\ calls'[k] = c /\ \A j \in Call : j # k => calls'[j] = calls[j]
  BY TableFacts DEF Resume
<1>2. /\ \A j \in Call : f[j] \in Int /\ g[j] \in Int /\ (j # k => f[j] = g[j])
      /\ f[k] = calls[k].delta.stt /\ g[k] = c.delta.stt
  <2>1. \A j \in Call : calls[j].delta.stt \in Int /\ calls'[j].delta.stt \in Int
    BY <1>1 DEF CallRecord, Usage
  <2> QED
    BY <1>1, <2>1 DEF Carried
<1>3. IsFiniteSet(R) /\ R \subseteq Call /\ k \notin R
  BY FS_RemoveElement DEF InFlight
<1>4. /\ InFlight(s) = IF Flying(calls[k], s) THEN R \cup {k} ELSE R
      /\ InFlight(s)' = IF Flying(c, s) THEN R \cup {k} ELSE R
  BY <1>1 DEF InFlight, Flying
<1> HIDE DEF R, f, g
<1>5. /\ IsFiniteSet(R \cup {k}) /\ k \in Call
      /\ \A j \in R \cup {k} : f[j] \in Int /\ g[j] \in Int
      /\ \A j \in R : f[j] \in Int /\ g[j] \in Int /\ f[j] = g[j]
  BY <1>2, <1>3, FS_AddElement
<1>6. Total(f, R \cup {k}) = Total(f, R) + f[k]
  BY <1>3, <1>5, TotalMore
<1>7. Total(g, R \cup {k}) = Total(g, R) + g[k]
  BY <1>3, <1>5, TotalMore
<1>8. Total(f, R) = Total(g, R) /\ Total(f, R) \in Int /\ f[k] \in Int /\ g[k] \in Int
  BY <1>2, <1>3, <1>5, TotalSame, TotalType
<1>9. Total(f, InFlight(s)) = Total(f, R) + Part(calls[k], s)
  BY <1>2, <1>4, <1>6, <1>8 DEF Part
<1>10. Total(g, InFlight(s)') = Total(g, R) + Part(c, s)
  BY <1>2, <1>4, <1>7, <1>8 DEF Part
<1>11. Part(calls[k], s) \in Int /\ Part(c, s) \in Int
  BY <1>2, <1>8 DEF Part
<1>12. Total(g, InFlight(s)') = Total(f, InFlight(s)) - Part(calls[k], s) + Part(c, s)
  BY <1>8, <1>9, <1>10, <1>11
<1> QED
  BY <1>3, <1>4, <1>5, <1>12 DEF f, g

\* A step in which call k goes on with c and what is due changes by what it
\* puts in or takes out.
LEMMA AudioResumes ==
    ASSUME LinkInv, BillInv, NEW s \in Session, AudioFine(s),
           NEW k \in Call, NEW c \in CallRecord, Resume(k, c),
           minted' = minted, sessions'[s] # NoRow => sessions[s] # NoRow,
           stranded \subseteq stranded',
           calls[k].at = "rejected" /\ calls[k].session = s => s \in stranded',
           \/ c.at = "rejected" /\ c.session = s
           \/ sessions'[s] = NoRow
           \/ Due(s)' = Due(s) + Part(c, s) - Part(calls[k], s),
           s \notin minted => orch'[s].relayed = orch[s].relayed /\ recorded'[s] = recorded[s]
    PROVE  AudioFine(s)'
<1>1. /\ IsFiniteSet(InFlight(s)')
      /\ Total(Carried', InFlight(s)') = Total(Carried, InFlight(s)) - Part(calls[k], s) + Part(c, s)
  BY FlightResumes DEF AudioFine
<1>2. calls'[k] = c /\ \A j \in Call : j # k => calls'[j] = calls[j]
  BY TableFacts DEF Resume
<1>3. ASSUME Spared(s)'
      PROVE  Due(s)' = Total(Carried', InFlight(s)')
  <2>1. Spared(s)
    <3>1. \A j \in Call : calls[j].at = "rejected" => calls[j].session # s
      BY <1>2, <1>3 DEF Spared
    <3> QED
      BY <1>3, <3>1 DEF Spared
  <2>2. Due(s)' = Due(s) + Part(c, s) - Part(calls[k], s)
    BY <1>2, <1>3 DEF Spared
  <2>3. Due(s) = Total(Carried, InFlight(s)) /\ Due(s) \in Int
    BY <2>1, AudioNumbers DEF AudioFine
  <2>4. Part(c, s) \in Int /\ Part(calls[k], s) \in Int
    BY TableFacts DEF Part, CallRecord, Usage
  <2> HIDE DEF Part
  <2> QED
    BY <1>1, <2>2, <2>3, <2>4
<1> QED
  BY <1>1, <1>3 DEF AudioFine

\* A step in which no call moves and nothing is due.
LEMMA AudioStays ==
    ASSUME LinkInv, BillInv, AudioInv, UNCHANGED <<calls, recorded, minted>>,
           \A s \in Session :
              /\ sessions'[s] # NoRow => sessions[s] # NoRow
              /\ Due(s)' = Due(s)
              /\ s \notin minted => orch'[s].relayed = orch[s].relayed,
           stranded \subseteq stranded'
    PROVE  AudioInv'
<1> SUFFICES ASSUME NEW s \in Session
             PROVE  AudioFine(s)'
  BY DEF AudioInv
<1>1. InFlight(s)' = InFlight(s) /\ Carried' = Carried
  BY DEF InFlight, Flying, Carried
<1>2. Spared(s)' => Spared(s)
  BY DEF Spared
<1> QED
  BY <1>1, <1>2 DEF AudioInv, AudioFine

\* Neither do relays that relay nothing make anything due.
LEMMA RelaysStay ==
    ASSUME LinkInv, BillInv, AudioInv,
           UNCHANGED <<calls, recorded, minted, sessions, stranded>>,
           \A s \in Session : /\ orch'[s].relayed = orch[s].relayed
                              /\ orch'[s].pending = orch[s].pending
    PROVE  AudioInv'
<1>1. \A s \in Session : Due(s)' = Due(s)
  BY DEF Due
<1> QED
  BY <1>1, AudioStays

\* A new call carries what is new.
LEMMA AudioCalled ==
    ASSUME LinkInv, BillInv, AudioInv, NEW k \in Call, NEW r \in Session, NEW d \in Usage,
           r \in minted, RecordUsage(k, r, d), UNCHANGED stranded,
           \A s \in Session : s # r => orch'[s].relayed = orch[s].relayed
                                        /\ orch'[s].pending = orch[s].pending,
           orch'[r].relayed - orch'[r].pending = orch[r].relayed - orch[r].pending + d.stt,
           orch'[r].relayed \in Nat, orch'[r].pending \in Nat
    PROVE  AudioInv'
<1> SUFFICES ASSUME NEW s \in Session
             PROVE  AudioFine(s)'
  BY DEF AudioInv
<1> DEFINE c == [IdleCall EXCEPT !.at = "usage_get", !.session = r, !.delta = d]
<1>1. /\ c \in CallRecord /\ c.at = "usage_get" /\ c.session = r /\ c.delta = d
      /\ Resume(k, c) /\ calls[k].at = "idle"
      /\ UNCHANGED <<sessions, minted, recorded>>
  BY IdleCallType DEF RecordUsage, CallRecord, AwaitPoint
<1>2. AudioFine(s)
  BY DEF AudioInv
<1> HIDE DEF c
<1>3. Part(calls[k], s) = 0 /\ Part(c, s) = IF s = r THEN d.stt ELSE 0
  BY <1>1 DEF Part, Flying
<1>4. Due(s)' = Due(s) + Part(c, s) - Part(calls[k], s)
  <2>1. recorded[s].stt \in Nat /\ orch[s].relayed \in Nat /\ orch[s].pending \in Nat
    BY AudioNumbers
  <2>4. d.stt \in Nat /\ recorded'[s] = recorded[s]
    BY <1>1 DEF Usage
  <2>2. CASE s = r
    BY <1>3, <2>1, <2>2, <2>4 DEF Due
  <2>3. CASE s # r
    BY <1>3, <2>1, <2>3, <2>4 DEF Due
  <2> QED
    BY <2>2, <2>3
<1>5. s \notin minted => orch'[s].relayed = orch[s].relayed /\ recorded'[s] = recorded[s]
  BY <1>1
<1> QED
  BY <1>1, <1>2, <1>4, <1>5, AudioResumes

\* A call that carries nothing before and after puts in and takes out nothing.
LEMMA AudioAside ==
    ASSUME LinkInv, BillInv, AudioInv, NEW k \in Call, NEW c \in CallRecord, Resume(k, c),
           \A s \in Session : Part(c, s) = Part(calls[k], s) \/ (c.at = "rejected" /\ c.session = s),
           UNCHANGED <<minted, recorded>>,
           stranded \subseteq stranded',
           calls[k].at = "rejected" => calls[k].session \in stranded',
           \A s \in Session : sessions'[s] # NoRow => sessions[s] # NoRow,
           \A s \in Session : /\ orch'[s].relayed = orch[s].relayed
                              /\ orch'[s].pending = orch[s].pending
    PROVE  AudioInv'
<1> SUFFICES ASSUME NEW s \in Session
             PROVE  AudioFine(s)'
  BY DEF AudioInv
<1>1. AudioFine(s)
  BY DEF AudioInv
<1>2. Due(s)' = Due(s) /\ Due(s) \in Int
  BY AudioNumbers DEF Due
<1>3. Part(c, s) \in Int
  BY TableFacts DEF Part, CallRecord, Usage
<1>4. \/ c.at = "rejected" /\ c.session = s
      \/ Due(s)' = Due(s) + Part(c, s) - Part(calls[k], s)
  BY <1>2, <1>3
<1> QED
  BY <1>1, <1>4, AudioResumes

\* A frame is buffered, or all that is buffered is metered.
LEMMA AudioHeard ==
    ASSUME LinkInv, BillInv, AudioInv, NEW c \in Conn, Audio(c)
    PROVE  AudioInv'
<1> DEFINE r == conn[c].current
           o == orch[r]
<1>1. r \in Session /\ r \in minted
  BY GatewayFacts DEF Audio
<1>2. /\ o \in OrchestratorShape /\ orch \in [Session -> OrchestratorShape]
      /\ o.relayed \in Nat /\ o.pending \in Nat
  BY <1>1, GatewayFacts, AudioNumbers DEF LinkInv, GatewayShape
<1>3. UNCHANGED stranded
  BY DEF Audio
<1>4. CASE o.pending + 1 < MeterAt
  <2>1. /\ orch' = [orch EXCEPT ![r] = [o EXCEPT !.relayed = @ + 1, !.pending = @ + 1]]
        /\ UNCHANGED creditsVars
    BY <1>4 DEF Audio
  <2>2. /\ orch'[r].relayed = o.relayed + 1 /\ orch'[r].pending = o.pending + 1
        /\ \A s \in Session : s # r => orch'[s] = orch[s]
    BY <1>1, <1>2, <2>1 DEF OrchestratorShape
  <2>3. UNCHANGED <<calls, recorded, minted, sessions>>
    BY <2>1 DEF creditsVars
  <2>4. \A s \in Session : Due(s)' = Due(s)
    <3> SUFFICES ASSUME NEW s \in Session
                 PROVE  Due(s)' = Due(s)
      OBVIOUS
    <3>1. recorded'[s] = recorded[s] /\ recorded[s].stt \in Int
      BY <2>3, AudioNumbers
    <3>2. CASE s = r
      BY <1>2, <2>2, <3>1, <3>2 DEF Due
    <3>3. CASE s # r
      BY <2>2, <3>1, <3>3 DEF Due
    <3> QED
      BY <3>2, <3>3
  <2>5. \A s \in Session : s \notin minted => orch'[s].relayed = orch[s].relayed
    BY <1>1, <2>2
  <2> HIDE DEF r, o
  <2> QED
    BY <1>3, <2>3, <2>4, <2>5, AudioStays
<1>5. CASE ~(o.pending + 1 < MeterAt)
  <2>1. /\ orch' = [orch EXCEPT ![r] = [o EXCEPT !.relayed = @ + 1, !.pending = 0]]
        /\ Meter(c, r, o.pending + 1, task)
    BY <1>5 DEF Audio
  <2>2. /\ orch'[r].relayed = o.relayed + 1 /\ orch'[r].pending = 0
        /\ \A s \in Session : s # r => orch'[s] = orch[s]
    BY <1>1, <1>2, <2>1 DEF OrchestratorShape
  <2> DEFINE d == SttUsage(o.pending + 1)
  <2>3. PICK k \in Call : RecordUsage(k, r, d)
    BY <2>1 DEF Meter
  <2>4. d \in Usage /\ d.stt = o.pending + 1
    BY <1>2 DEF SttUsage, Usage
  <2>5. /\ orch'[r].relayed - orch'[r].pending = orch[r].relayed - orch[r].pending + d.stt
        /\ orch'[r].relayed \in Nat /\ orch'[r].pending \in Nat
    BY <1>2, <2>2, <2>4
  <2> HIDE DEF r, d, o
  <2> QED
    BY <1>1, <1>3, <2>2, <2>3, <2>4, <2>5, AudioCalled
<1> QED
  BY <1>4, <1>5

\* A relay that is closed meters what it has left.
LEMMA RelayEmptied ==
    ASSUME LinkInv, BillInv, AudioInv, NEW c \in Conn, conn[c].current # NoSession,
           NEW new, NEW reason, NEW tasks, NEW orchs, BeginFinalize(c, new, reason, orchs, tasks),
           orchs \in [Session -> OrchestratorShape],
           \A s \in Session : orchs[s].relayed = orch[s].relayed /\ orchs[s].pending = orch[s].pending,
           UNCHANGED stranded
    PROVE  AudioInv'
<1> DEFINE r == conn[c].current
           n == orch[r].pending
<1>1. r \in Session /\ r \in minted /\ n \in Nat /\ orch[r].relayed \in Nat
  BY GatewayFacts, AudioNumbers
<1>2. /\ orch'[r].pending = 0 /\ orch'[r].relayed = orch[r].relayed
      /\ \A s \in Session : s # r => /\ orch'[s].relayed = orch[s].relayed
                                     /\ orch'[s].pending = orch[s].pending
  <2>1. orch' = [orchs EXCEPT ![r].pending = 0]
    BY DEF BeginFinalize
  <2>2. orchs[r] \in OrchestratorShape
    BY <1>1
  <2> HIDE DEF r
  <2>3. orch'[r] = [orchs[r] EXCEPT !.pending = 0] /\ \A s \in Session : s # r => orch'[s] = orchs[s]
    BY <1>1, <2>1
  <2>4. orch'[r].pending = 0 /\ orch'[r].relayed = orchs[r].relayed
    BY <2>2, <2>3 DEF OrchestratorShape
  <2> QED
    BY <1>1, <2>3, <2>4
<1>3. CASE n = 0 /\ UNCHANGED creditsVars
  <2>1. UNCHANGED <<calls, recorded, minted, sessions>>
    BY <1>3 DEF creditsVars
  <2>2. \A s \in Session : /\ orch'[s].relayed = orch[s].relayed
                           /\ orch'[s].pending = orch[s].pending
    BY <1>2, <1>3
  <2> QED
    BY <2>1, <2>2, RelaysStay
<1>4. CASE Meter(c, r, n, tasks)
  <2> DEFINE d == SttUsage(n)
  <2>1. PICK k \in Call : RecordUsage(k, r, d)
    BY <1>4 DEF Meter
  <2>2. d \in Usage /\ d.stt = n
    BY <1>1 DEF SttUsage, Usage
  <2>3. /\ orch'[r].relayed - orch'[r].pending = orch[r].relayed - orch[r].pending + d.stt
        /\ orch'[r].relayed \in Nat /\ orch'[r].pending \in Nat
    BY <1>1, <1>2, <2>2
  <2> HIDE DEF r, d, n
  <2> QED
    BY <1>1, <1>2, <2>1, <2>2, <2>3, AudioCalled
<1> QED
  BY <1>3, <1>4 DEF BeginFinalize

\* Answers carry no audio.
LEMMA AnswerAudio ==
    ASSUME LinkInv, BillInv, AudioInv, NEW s \in Session, OlderAnswered(s) \/ NewestAnswered(s)
    PROVE  AudioInv'
<1>1. s \in minted
  BY GatewayFacts DEF OlderAnswered, NewestAnswered, LinkInv, WorkIsOwned
<1>2. LlmUsage \in Usage /\ LlmUsage.stt = 0
  BY DEF LlmUsage, Usage
<1>3. PICK k \in Call : RecordUsage(k, s, LlmUsage)
  BY DEF OlderAnswered, NewestAnswered
<1>4. \A r \in Session : /\ orch'[r].relayed = orch[r].relayed
                         /\ orch'[r].pending = orch[r].pending
  <2>1. orch \in [Session -> OrchestratorShape]
    BY DEF LinkInv, GatewayShape
  <2>2. CASE OlderAnswered(s)
    BY <2>1, <2>2 DEF OlderAnswered, OrchestratorShape
  <2>3. CASE NewestAnswered(s)
    BY <2>1, <2>3 DEF NewestAnswered, OrchestratorShape
  <2> QED
    BY <2>2, <2>3
<1>5. UNCHANGED stranded
  BY DEF OlderAnswered, NewestAnswered
<1>6. /\ orch'[s].relayed - orch'[s].pending = orch[s].relayed - orch[s].pending + LlmUsage.stt
      /\ orch'[s].relayed \in Nat /\ orch'[s].pending \in Nat
  BY <1>2, <1>4, AudioNumbers
<1> QED
  BY <1>1, <1>2, <1>3, <1>4, <1>5, <1>6, AudioCalled

\* Statements move what a call carries to the record, or reject it.
LEMMA StatementAudio ==
    ASSUME LinkInv, BillInv, AudioInv, NEW k \in Call, Statement(k)
    PROVE  AudioInv'
<1> DEFINE s == calls[k].session
           Apart(c) == \A r \in Session :
                           Part(c, r) = Part(calls[k], r) \/ (c.at = "rejected" /\ c.session = r)
<1>1. /\ calls[k] \in CallRecord /\ UNCHANGED gatewayVars
      /\ calls[k].at # "idle" => s \in Session
  BY TableFacts DEF Statement, BillInv, SettlementInv, CallsWellFormed
<1>2. /\ stranded' = stranded
      /\ \A r \in Session : /\ orch'[r].relayed = orch[r].relayed
                            /\ orch'[r].pending = orch[r].pending
  BY <1>1 DEF gatewayVars
<1>3. ASSUME NEW c \in CallRecord, Resume(k, c), Apart(c), calls[k].at # "rejected",
             UNCHANGED <<minted, recorded>>,
             \A r \in Session : sessions'[r] # NoRow => sessions[r] # NoRow
      PROVE  AudioInv'
  BY <1>2, <1>3, AudioAside
<1>4. ASSUME UsageStored(k)
      PROVE  AudioInv'
  <2> SUFFICES ASSUME NEW r \in Session
               PROVE  AudioFine(r)'
    BY DEF AudioInv
  <2>1. PICK ok \in Reply : Resume(k, [calls[k] EXCEPT !.at = IF ok THEN "returned" ELSE "rejected"])
    BY <1>4 DEF UsageStored
  <2> DEFINE c == [calls[k] EXCEPT !.at = IF ok THEN "returned" ELSE "rejected"]
             d == calls[k].delta
  <2>2. /\ c \in CallRecord /\ c.session = s /\ c.at \in {"returned", "rejected"}
        /\ Resume(k, c) /\ calls[k].at = "usage_upsert" /\ s \in Session
        /\ UNCHANGED <<minted, sessions>> /\ sessions[s] # NoRow
    BY <1>1, <1>4, <2>1 DEF UsageStored, CallRecord
  <2>3. recorded' = [recorded EXCEPT ![s] = AddUsage(@, d)] /\ d.stt \in Nat
    BY <1>1, <1>4 DEF UsageStored, CallRecord, Usage
  <2> HIDE DEF c, d, s
  <2>4. /\ recorded'[s].stt = recorded[s].stt + d.stt
        /\ \A q \in Session : q # s => recorded'[q] = recorded[q]
    BY <2>2, <2>3, TableFacts DEF AddUsage
  <2>5. Part(c, r) = 0 /\ Part(calls[k], r) = IF r = s THEN d.stt ELSE 0
    BY <2>2 DEF Part, Flying, s, d
  <2>6. Due(r)' = Due(r) + Part(c, r) - Part(calls[k], r)
    <3>1. orch[r].relayed \in Nat /\ orch[r].pending \in Nat /\ recorded[r].stt \in Nat
      BY AudioNumbers
    <3>2. CASE r = s
      BY <1>2, <2>3, <2>4, <2>5, <3>1, <3>2 DEF Due
    <3>3. CASE r # s
      BY <1>2, <2>4, <2>5, <3>1, <3>3 DEF Due
    <3> QED
      BY <3>2, <3>3
  <2>7. s \in minted
    BY <2>2, TableFacts
  <2>8. r \notin minted => orch'[r].relayed = orch[r].relayed /\ recorded'[r] = recorded[r]
    BY <1>2, <2>4, <2>7
  <2>9. calls[k].at # "rejected" /\ AudioFine(r)
    BY <2>2 DEF AudioInv
  <2> QED
    BY <1>2, <2>2, <2>6, <2>8, <2>9, AudioResumes
<1>5. ASSUME UsageGet(k)
      PROVE  AudioInv'
  <2> DEFINE c == [calls[k] EXCEPT !.at = "usage_upsert", !.seen = usage[calls[k].session]]
  <2>1. /\ c \in CallRecord /\ c.session = calls[k].session /\ c.at = "usage_upsert"
        /\ c.delta = calls[k].delta /\ calls[k].at = "usage_get"
    BY <1>1, <1>5 DEF UsageGet, CallRecord, AwaitPoint, BillInv, SettlementInv, CreditsTypeOK
  <2>2. Resume(k, c) /\ UNCHANGED <<minted, recorded, sessions>>
    BY <1>5 DEF UsageGet
  <2> HIDE DEF c
  <2>3. ASSUME NEW r PROVE Part(c, r) = Part(calls[k], r)
    <3>1. Flying(c, r) <=> Flying(calls[k], r)
      BY <2>1 DEF Flying
    <3> QED
      BY <2>1, <3>1 DEF Part, Flying
  <2> QED
    BY <1>3, <2>1, <2>2, <2>3
<1>6. ASSUME NEW c \in CallRecord, Resume(k, c), calls[k].at # "rejected",
             \/ c.at = "rejected" /\ c.session = s
             \/ /\ calls[k].at \notin {"usage_get", "usage_upsert"}
                /\ c.at \notin {"usage_get", "usage_upsert"},
             UNCHANGED <<minted, recorded>>,
             \A r \in Session : sessions'[r] # NoRow => sessions[r] # NoRow
      PROVE  AudioInv'
  <2>1. ASSUME NEW r PROVE Part(c, r) = Part(calls[k], r) \/ (c.at = "rejected" /\ c.session = r)
    <3>1. CASE c.at = "rejected" /\ c.session = s
      <4>1. CASE r = s
        BY <3>1, <4>1
      <4>2. CASE r # s
        <5>1. ~Flying(c, r) /\ ~Flying(calls[k], r)
          BY <3>1, <4>2 DEF Flying
        <5> QED
          BY <5>1 DEF Part, Flying
      <4> QED
        BY <4>1, <4>2
    <3>2. CASE /\ calls[k].at \notin {"usage_get", "usage_upsert"}
               /\ c.at \notin {"usage_get", "usage_upsert"}
      <4>1. ~Flying(c, r) /\ ~Flying(calls[k], r)
        BY <3>2 DEF Flying
      <4> QED
        BY <4>1 DEF Part, Flying
    <3> QED
      BY <1>6, <3>1, <3>2
  <2> QED
    BY <1>3, <1>6, <2>1
<1>7. ASSUME UsageRefused(k) \/ DebitRefused(k) \/ StatementLost(k)
      PROVE  AudioInv'
  <2> DEFINE c == [calls[k] EXCEPT !.at = "rejected"]
  <2>1. c \in CallRecord /\ c.at = "rejected" /\ c.session = calls[k].session
    BY <1>1 DEF CallRecord
  <2>2. /\ Resume(k, c) /\ UNCHANGED <<minted, recorded, sessions>> /\ calls[k].at # "rejected"
    BY <1>7 DEF UsageRefused, DebitRefused, StatementLost, AwaitPoint
  <2> HIDE DEF c
  <2> QED
    BY <1>6, <2>1, <2>2
<1>8. ASSUME SessionGet(k) \/ FinalUsageGet(k) \/ AlreadyFinalized(k) \/ AppendDebit(k)
      PROVE  AudioInv'
  <2>1. /\ UNCHANGED <<minted, recorded, sessions>>
        /\ calls[k].at \in {"session_get", "final_usage_get", "mark", "append"}
    BY <1>8 DEF SessionGet, FinalUsageGet, AlreadyFinalized, AppendDebit
  <2>2. \E c : Resume(k, c) /\ c \in CallRecord /\ c.at \notin {"usage_get", "usage_upsert"}
    <3>1. CASE SessionGet(k)
      <4> DEFINE c == [calls[k] EXCEPT !.at = "final_usage_get", !.row = sessions[s]]
      <4>1. s \in Session /\ sessions[s] \in SessionRow \cup {NoRow}
        BY <1>1, <2>1, TableFacts
      <4>2. /\ c \in CallRecord /\ Resume(k, c)
            /\ c.at \notin {"usage_get", "usage_upsert"}
        BY <1>1, <3>1, <4>1 DEF SessionGet, CallRecord, AwaitPoint
      <4> HIDE DEF c
      <4> QED
        BY <4>2
    <3>2. CASE FinalUsageGet(k)
      <4> DEFINE c == [calls[k] EXCEPT !.seen = usage[s],
                                       !.at = IF calls[k].row = NoRow THEN "returned" ELSE "mark"]
      <4>1. usage[s] \in Usage
        BY <1>1, <2>1 DEF BillInv, SettlementInv, CreditsTypeOK
      <4>2. c \in CallRecord /\ c.at \in {"returned", "mark"}
        BY <1>1, <4>1 DEF CallRecord, AwaitPoint
      <4>3. Resume(k, c)
        BY <3>2 DEF FinalUsageGet
      <4> HIDE DEF c
      <4> QED
        BY <4>2, <4>3
    <3>3. CASE AlreadyFinalized(k)
      BY <1>1, <3>3 DEF AlreadyFinalized, CallRecord
    <3>4. CASE AppendDebit(k)
      <4>1. PICK ok \in Reply : Resume(k, [calls[k] EXCEPT
                                             !.at = IF ok THEN "returned" ELSE "rejected",
                                             !.finalized = ok])
        BY <3>4 DEF AppendDebit
      <4> DEFINE c == [calls[k] EXCEPT !.at = IF ok THEN "returned" ELSE "rejected",
                                       !.finalized = ok]
      <4>2. ok \in BOOLEAN
        BY DEF Reply
      <4>3. c \in CallRecord /\ c.at \in {"returned", "rejected"}
        BY <1>1, <4>2 DEF CallRecord
      <4>4. Resume(k, c)
        BY <4>1
      <4> HIDE DEF c
      <4> QED
        BY <4>3, <4>4
    <3> QED
      BY <1>8, <3>1, <3>2, <3>3, <3>4
  <2> QED
    BY <1>6, <2>1, <2>2
<1>9. ASSUME MarkFinalized(k)
      PROVE  AudioInv'
  <2>1. PICK ok \in Reply : Resume(k, [calls[k] EXCEPT !.at = IF ok THEN "append" ELSE "rejected"])
    BY <1>9 DEF MarkFinalized
  <2> DEFINE c == [calls[k] EXCEPT !.at = IF ok THEN "append" ELSE "rejected"]
  <2>2. /\ c \in CallRecord /\ c.at \in {"append", "rejected"} /\ calls[k].at = "mark"
    BY <1>1, <1>9 DEF MarkFinalized, CallRecord, AwaitPoint
  <2>3. UNCHANGED <<minted, recorded>> /\ \A r \in Session : sessions'[r] # NoRow => sessions[r] # NoRow
    <3>1. /\ UNCHANGED <<minted, recorded>> /\ Claimable(s)
          /\ \A r \in Session : r # s => sessions'[r] = sessions[r]
      BY <1>9, MarkFacts
    <3> QED
      BY <3>1 DEF Claimable
  <2> HIDE DEF c
  <2> QED
    BY <1>6, <2>1, <2>2, <2>3 DEF c
<1> QED
  BY <1>4, <1>5, <1>7, <1>8, <1>9 DEF Statement, CallStep


\* A call that is over carried nothing.
LEMMA SettledAudio ==
    ASSUME LinkInv, BillInv, AudioInv, NEW k \in Call, Settle(k), UNCHANGED orch,
           stranded \subseteq stranded',
           calls[k].at = "rejected" => calls[k].session \in stranded'
    PROVE  AudioInv'
<1>1. IdleCall \in CallRecord /\ IdleCall.at = "idle"
  BY IdleCallType DEF IdleCall
<1>2. /\ calls[k].at \in {"returned", "rejected"} /\ Resume(k, IdleCall)
      /\ UNCHANGED <<minted, recorded, sessions>>
  BY DEF Settle
<1>3. ASSUME NEW s PROVE Part(IdleCall, s) = Part(calls[k], s)
  BY <1>1, <1>2 DEF Part, Flying
<1> QED
  BY <1>1, <1>2, <1>3, AudioAside

\* Neither does one that finalizes.
LEMMA FinalizeAudio ==
    ASSUME LinkInv, BillInv, AudioInv, NEW c \in Conn, RelayClosed(c)
    PROVE  AudioInv'
<1>1. PICK k \in Call : FinalizeSession(k, conn[c].current, conn[c].reason)
  BY DEF RelayClosed
<1> DEFINE call == [IdleCall EXCEPT !.at = "session_get", !.session = conn[c].current,
                                    !.reason = conn[c].reason]
<1>2. /\ conn[c] \in Connection /\ conn[c].current \in Session
  BY GatewayFacts DEF RelayClosed, LinkInv, ConnectionsOwn
<1>3. call \in CallRecord /\ call.at = "session_get"
  BY <1>2, IdleCallType DEF CallRecord, AwaitPoint, Connection
<1>4. /\ Resume(k, call) /\ calls[k].at = "idle" /\ UNCHANGED <<minted, recorded, sessions>>
      /\ UNCHANGED <<orch, stranded>>
  BY <1>1 DEF FinalizeSession, RelayClosed
<1> HIDE DEF call
<1>5. ASSUME NEW s PROVE Part(call, s) = Part(calls[k], s)
  BY <1>3, <1>4 DEF Part, Flying
<1> QED
  BY <1>3, <1>4, <1>5, AudioAside

\* The socket's close and stop_session empty the relay, or leave it alone; so
\* does a check that finds the credits exhausted.
LEMMA EndingAudio ==
    ASSUME LinkInv, BillInv, AudioInv,
           \/ \E c \in Conn : SocketCloses(c) \/ HandleStop(c)
           \/ \E k \in Call : CheckUsage(k)
    PROVE  AudioInv'
<1>1. orch \in [Session -> OrchestratorShape]
  BY DEF LinkInv, GatewayShape
<1>2. ASSUME UNCHANGED <<orch, stranded, creditsVars>>
      PROVE  AudioInv'
  BY <1>2, RelaysStay DEF creditsVars
<1>3. ASSUME NEW c \in Conn, SocketCloses(c)
      PROVE  AudioInv'
  <2>1. UNCHANGED stranded
    BY <1>3 DEF SocketCloses
  <2>2. \/ UNCHANGED <<orch, creditsVars>>
        \/ /\ conn[c].current # NoSession
           /\ BeginFinalize(c, [conn[c] EXCEPT !.ws = "closed"], "disconnected", orch, task)
    BY <1>3 DEF SocketCloses
  <2> QED
    BY <1>1, <1>2, <2>1, <2>2, RelayEmptied
<1>4. ASSUME NEW c \in Conn, HandleStop(c)
      PROVE  AudioInv'
  <2>1. UNCHANGED stranded
    BY <1>4 DEF HandleStop
  <2>2. \/ UNCHANGED <<orch, creditsVars>>
        \/ /\ conn[c].current # NoSession
           /\ BeginFinalize(c, [Taken(c) EXCEPT !.handler = "stopping"], "user-ended", orch, task)
    BY <1>4 DEF HandleStop
  <2> QED
    BY <1>1, <1>2, <2>1, <2>2, RelayEmptied
<1>5. ASSUME NEW k \in Call, CheckUsage(k)
      PROVE  AudioInv'
  <2> DEFINE t == task[k]
             orchs == [orch EXCEPT ![t.session].exhausted = TRUE]
  <2>1. /\ t.session \in Session /\ t.conn \in Conn /\ conn[t.conn].current # NoSession
        /\ UNCHANGED stranded
    BY <1>5, GatewayFacts DEF CheckUsage, LinkInv, WorkIsOwned, Live
  <2>2. /\ orchs \in [Session -> OrchestratorShape]
        /\ \A s \in Session : orchs[s].relayed = orch[s].relayed /\ orchs[s].pending = orch[s].pending
    <3>1. orch[t.session] \in OrchestratorShape
      BY <1>1, <2>1
    <3>2. /\ [orch[t.session] EXCEPT !.exhausted = TRUE] \in OrchestratorShape
          /\ [orch[t.session] EXCEPT !.exhausted = TRUE].relayed = orch[t.session].relayed
          /\ [orch[t.session] EXCEPT !.exhausted = TRUE].pending = orch[t.session].pending
      BY <3>1 DEF OrchestratorShape
    <3> QED
      BY <1>1, <2>1, <3>2
  <2>3. \/ UNCHANGED <<orch, creditsVars>>
        \/ orch' = orchs /\ UNCHANGED creditsVars
        \/ BeginFinalize(t.conn, conn[t.conn], "credits-exhausted", orchs,
                         [task EXCEPT ![k] = NoTask])
    BY <1>5 DEF CheckUsage
  <2> HIDE DEF orchs, t
  <2>4. CASE orch' = orchs /\ UNCHANGED creditsVars
    BY <2>1, <2>2, <2>4, RelaysStay DEF creditsVars
  <2> QED
    BY <1>2, <2>1, <2>2, <2>3, <2>4, RelayEmptied
<1> QED
  BY <1>3, <1>4, <1>5

\* A session starts with nothing relayed, and nothing on its way.
LEMMA StartAudio ==
    ASSUME LinkInv, BillInv, AudioInv, NEW c \in Conn, StartCreated(c)
    PROVE  AudioInv'
<1>1. PICK s \in Session : CreateSession(s, conn[c].account, ModeOf[conn[c].account])
  BY DEF StartCreated
<1>2. /\ s \notin minted /\ minted' = minted \cup {s}
      /\ \A r \in Session : r # s => sessions'[r] = sessions[r]
      /\ UNCHANGED <<calls, recorded, orch>> /\ stranded \subseteq stranded'
  BY <1>1, TableFacts DEF CreateSession, StartCreated
<1>3. \A r \in Session : /\ InFlight(r)' = InFlight(r) /\ Due(r)' = Due(r)
  BY <1>2 DEF InFlight, Flying, Due
<1>4. Carried' = Carried
  BY <1>2 DEF Carried
<1> SUFFICES ASSUME NEW r \in Session
             PROVE  AudioFine(r)'
  BY DEF AudioInv
<1>5. AudioFine(r)
  BY DEF AudioInv
<1>6. CASE r # s
  <2>1. Spared(r)' => Spared(r)
    BY <1>2, <1>6 DEF Spared
  <2> QED
    BY <1>2, <1>3, <1>4, <1>5, <1>6, <2>1 DEF AudioFine
<1>7. CASE r = s
  <2>1. InFlight(s) = {}
    BY <1>2 DEF InFlight, Flying, BillInv, SettlementInv, RowsAreMinted
  <2>2. Total(Carried, {}) = 0
    BY TotalType, FS_EmptySet
  <2>3. orch[s].pending = 0
    <3>1. ~Live(s)
      BY <1>2, GatewayFacts
    <3> QED
      BY <3>1, AudioNumbers DEF LinkInv, WorkIsOwned
  <2>4. Due(s) = 0
    BY <1>2, <1>5, <1>7, <2>3 DEF AudioFine, Due
  <2> QED
    BY <1>2, <1>3, <1>4, <1>5, <1>7, <2>1, <2>2, <2>4 DEF AudioFine
<1> QED
  BY <1>6, <1>7

\* With the process everything on its way is gone, and every session stranded.
LEMMA DiesAudio ==
    ASSUME LinkInv, BillInv, AudioInv, ProcessDies, GatewayDies
    PROVE  AudioInv'
<1>1. /\ \A k \in Call : calls'[k].at = "idle"
      /\ \A s \in Session : orch'[s].relayed = 0
      /\ UNCHANGED <<minted, recorded, sessions>> /\ stranded' = stranded \cup minted
  BY DEF ProcessDies, GatewayDies, IdleCall, NewOrchestrator
<1> SUFFICES ASSUME NEW s \in Session
             PROVE  AudioFine(s)'
  BY DEF AudioInv
<1>2. IsFiniteSet(InFlight(s)')
  <2>1. InFlight(s)' = {}
    BY <1>1 DEF InFlight, Flying
  <2> QED
    BY <2>1, FS_EmptySet
<1>3. ~Spared(s)'
  BY <1>1, TableFacts DEF Spared
<1> QED
  BY <1>1, <1>2, <1>3 DEF AudioInv, AudioFine

\* Every step keeps the account of the audio.
LEMMA AudioStepInv ==
    ASSUME LinkInv, BillInv, AudioInv, [GatewayNext]_vars
    PROVE  AudioInv'
<1>1. ASSUME UNCHANGED <<orch, stranded, creditsVars>>
      PROVE  AudioInv'
  BY <1>1, RelaysStay DEF creditsVars
<1>2. ASSUME NEW c \in Conn,
             \/ Connect(c) \/ \E m \in ControlMessage : Receive(c, m)
             \/ Audio(c) \/ SocketCloses(c) \/ RelayClosed(c)
             \/ HandlerStep(c) \/ AuthFails(c) \/ StartFails(c)
      PROVE  AudioInv'
  <2>1. CASE \/ Connect(c) \/ \E m \in ControlMessage : Receive(c, m)
             \/ HandleAuth(c) \/ HandleStart(c)
             \/ AuthOk(c) \/ StartChecked(c) \/ AuthFails(c) \/ StartFails(c)
    BY <1>1, <2>1, ConversationMoves
  <2>2. CASE HandleQuestion(c)
    <3> DEFINE s == conn[c].current
    <3>1. UNCHANGED <<stranded, creditsVars>>
      BY <2>2 DEF HandleQuestion
    <3>2. \A r \in Session : orch'[r].relayed = orch[r].relayed /\ orch'[r].pending = orch[r].pending
      BY <2>2 DEF HandleQuestion, LinkInv, GatewayShape, OrchestratorShape
    <3> QED
      BY <3>1, <3>2, RelaysStay DEF creditsVars
  <2> QED
    BY <1>2, <2>1, <2>2, AudioHeard, EndingAudio, FinalizeAudio, StartAudio DEF HandlerStep
<1>3. ASSUME NEW s \in Session,
             OlderAnswered(s) \/ NewestAnswered(s) \/ GenerationFails(s) \/ HttpDelete(s)
      PROVE  AudioInv'
  <2>1. CASE GenerationFails(s)
    <3>1. UNCHANGED <<stranded, creditsVars>>
      BY <2>1 DEF GenerationFails
    <3>2. \A r \in Session : orch'[r].relayed = orch[r].relayed /\ orch'[r].pending = orch[r].pending
      BY <2>1 DEF GenerationFails, LinkInv, GatewayShape, OrchestratorShape
    <3> QED
      BY <3>1, <3>2, RelaysStay DEF creditsVars
  <2>2. CASE HttpDelete(s)
    <3>1. /\ UNCHANGED <<calls, recorded, minted, orch, stranded>>
          /\ \A r \in Session : sessions'[r] # NoRow => sessions[r] # NoRow
      BY <2>2, TableFacts DEF HttpDelete, DeleteSession, gatewayVars
    <3>2. \A r \in Session : Due(r)' = Due(r)
      BY <3>1 DEF Due
    <3> QED
      BY <3>1, <3>2, AudioStays
  <2> QED
    BY <1>3, <2>1, <2>2, AnswerAudio
<1>4. ASSUME NEW k \in Call, TaskStep(k) \/ CheckFails(k) \/ Statement(k)
      PROVE  AudioInv'
  <2>1. CASE FinalizeReturned(k) \/ StopFailed(k) \/ MeterReturned(k) \/ UsageReturned(k)
    <3>1. /\ Settle(k) /\ UNCHANGED orch /\ stranded \subseteq stranded'
          /\ calls[k].at = "rejected" => calls[k].session \in stranded'
      BY <2>1 DEF FinalizeReturned, StopFailed, MeterReturned, UsageReturned
    <3> QED
      BY <3>1, SettledAudio
  <2>2. CASE QnaAppended(k) \/ CheckLedger(k) \/ CheckFails(k)
    BY <1>1, <2>2 DEF QnaAppended, CheckLedger, CheckFails
  <2>3. CASE RejectionKills(k)
    BY <2>3, DiesAudio DEF RejectionKills, UnhandledRejection
  <2> QED
    BY <1>4, <2>1, <2>2, <2>3, EndingAudio, StatementAudio DEF TaskStep
<1>5. CASE ProcessCrash
  BY <1>5, DiesAudio DEF ProcessCrash, Crash
<1>6. CASE UNCHANGED vars
  BY <1>1, <1>6 DEF vars, gatewayVars
<1> QED
  BY <1>2, <1>3, <1>4, <1>5, <1>6 DEF GatewayNext

\* At first nothing is relayed.
LEMMA AudioInitInv == GatewayInit => AudioInv
<1> SUFFICES ASSUME GatewayInit, NEW s \in Session
             PROVE  AudioFine(s)
  BY DEF AudioInv
<1>1. /\ \A k \in Call : calls[k].at = "idle"
      /\ orch[s].relayed = 0 /\ recorded[s].stt = 0 /\ sessions[s] = NoRow
  BY DEF GatewayInit, CreditsInit, IdleCall, NewOrchestrator, NoUsage
<1>2. IsFiniteSet(InFlight(s))
  <2>1. InFlight(s) = {}
    BY <1>1 DEF InFlight, Flying
  <2> QED
    BY <2>1, FS_EmptySet
<1> QED
  BY <1>1, <1>2 DEF AudioFine, Spared

\* The units in flight are the total of what the calls carry.
LEMMA InFlightIsTotal ==
    ASSUME LinkInv, BillInv, AudioInv, NEW s \in Session
    PROVE  SttInFlight(s) = Total(Carried, InFlight(s))
<1> DEFINE S == InFlight(s)
           Run(it) == it = [t \in SUBSET S |->
                                IF t = {} THEN 0
                                ELSE calls[CHOOSE y \in t : TRUE].delta.stt
                                       + it[t \ {CHOOSE y \in t : TRUE}]]
           at == CHOOSE it : Run(it)
<1>1. SttInFlight(s) = at[S]
  BY DEF SttInFlight, MapThenSumSet, MapThenFoldSet, InFlight, Flying
<1>2. S \subseteq Call /\ IsFiniteSet(S)
  BY DEF InFlight, AudioInv, AudioFine
<1>3. \A x \in S : Carried[x] \in Int
  BY <1>2, AudioNumbers
<1>4. ASSUME NEW it
      PROVE  Adds(it, Carried, SUBSET S) <=> Run(it)
  <2>1. \A t \in SUBSET S : t # {} =>
           First(t) \in t /\ Carried[First(t)] = calls[First(t)].delta.stt
    BY <1>2 DEF First, Carried
  <2> HIDE DEF S
  <2> QED
    BY <2>1 DEF Adds, First
<1> HIDE DEF S
<1>5. Adds(at, Carried, SUBSET S)
  <2>1. PICK it : Run(it)
    BY CanAdd, <1>2, <1>4
  <2>2. Run(at)
    <3> HIDE DEF Run
    <3> QED
      BY <2>1
  <2> QED
    BY <1>4, <2>2
<1> HIDE DEF at, Run
<1>6. Sums(at, Carried, S)
  BY <1>2, <1>3, <1>5, AnyOrder
<1>7. PICK it : Sums(it, Carried, S) /\ Total(Carried, S) = it[S]
  BY <1>2, <1>3, TotalSums
<1>8. at[S] = it[S]
  BY <1>2, <1>6, <1>7, SumsAgree
<1> QED
  BY <1>1, <1>7, <1>8 DEF S

\* AudioMeteredOnce, of SttRelay.sendAudio, meter and close with recordUsage: every
\* unit of audio a relay sent is in its buffer, in exactly one recordUsage call
\* under way or in the record, whichever frames, flushes and finalizes
\* overlap, unless such a call was rejected.
THEOREM AudioAlwaysMeteredOnce == GatewaySpec => []AudioMeteredOnce
<1>1. LinkInv /\ BillInv /\ AudioInv => AudioMeteredOnce
  <2> SUFFICES ASSUME LinkInv, BillInv, AudioInv, NEW s \in Session, Spared(s)
               PROVE  orch[s].relayed = recorded[s].stt + orch[s].pending + SttInFlight(s)
    BY DEF AudioMeteredOnce, Spared
  <2>1. Due(s) = SttInFlight(s)
    BY InFlightIsTotal DEF AudioInv, AudioFine
  <2> QED
    BY <2>1, AudioNumbers DEF Due
<1>2. LinkInv /\ BillInv /\ AudioInv /\ [GatewayNext]_vars => AudioInv'
  BY AudioStepInv
<1> QED
  BY <1>1, <1>2, AudioInitInv, GatewayAlways, PTL DEF GatewaySpec

-----------------------------------------------------------------------------
(* Exhausted credits are noticed *)

\* A check that will see what s has used by now: its metering call has
\* answered, and it has yet to read the balance, or has read the opening one.
Checking(k, s) ==
    /\ task[k].session = s
    /\ \/ task[k].kind = "meter" /\ calls[k].at \in {"returned", "rejected"}
       \/ task[k].kind = "check_ledger" /\ task[k].voided
       \/ /\ task[k].kind = "check_usage" /\ task[k].voided
          /\ task[k].balance = Opening[TokenOf[owner[s]]]

\* An open enforced session that used nothing but audio, and whose account
\* was charged for no other one.
Alone(s) ==
    /\ owner[s] # NoConn /\ recorded[s].llm = 0 /\ ChargedAlone(s)
    /\ Claimable(s) /\ s \notin stranded /\ Enforced(s)

Spent(s) == Opening[TokenOf[owner[s]]] - CreditsFor(usage[s]) <= 0

Found(s) == orch[s].exhausted \/ Finalizing(owner[s]) \/ \E k \in Call : Checking(k, s)

\* A task that meters waits for a call of its session, and a generation's
\* call carries an answer.
Metering == {"usage_get", "usage_upsert"}

GoodCall(t, x) ==
    x.at \in Metering =>
        /\ t.kind = "meter" => t.session = x.session
        /\ t.kind = "usage" => x.delta.llm > 0

CallsAreOfTasks == \A k \in Call : GoodCall(task[k], calls[k])

\* A connection is of its token's account; about to create an enforced session, it
\* found credit, which is the opening one if the account was never charged.
Paid(c) ==
    /\ conn[c].account \in {NoAccount, TokenOf[c]}
    /\ conn[c].handler = "create" /\ ModeOf[TokenOf[c]] = "enforced"
          /\ (\A i \in DOMAIN ledger : ledger[i].account # TokenOf[c]) =>
       Opening[TokenOf[c]] > 0

\* Nothing is used before a session is created; and a session that has spent
\* its credits by audio alone has been found out, or is about to be.
NoticeInv ==
    /\ CallsAreOfTasks
    /\ \A c \in Conn : Paid(c)
    /\ \A s \in Session : s \notin minted => usage[s] = NoUsage
    /\ \A s \in Session : Alone(s) /\ Spent(s) => Found(s)

\* An account that was never charged has its opening balance.
LEMMA UnchargedBalance ==
    ASSUME BalancesAdd, NEW a \in Account, \A i \in DOMAIN ledger : ledger[i].account # a
    PROVE  LedgerBalance(a) = Opening[a]
<1>1. Counting(a) = {}
  BY DEF Counting
<1>2. Total(Amounts, {}) = 0
  BY TotalType, FS_EmptySet
<1>3. LedgerBalance(a) = Opening[a] + Total(Amounts, Counting(a)) /\ Opening[a] \in Int
  BY CreditsAssumption DEF BalancesAdd
<1> QED
  BY <1>1, <1>2, <1>3

\* The account of a session that is open and was charged alone never was.
LEMMA AloneUncharged ==
    ASSUME BillInv, NEW s \in Session, Claimable(s), ChargedAlone(s)
    PROVE  \A i \in DOMAIN ledger : ledger[i].account # TokenOf[owner[s]]
<1>1. DebitsOf(s) = {}
  BY SettlementInvImplies DEF BillInv, SettledExactlyOnce
<1> QED
  BY <1>1 DEF ChargedAlone, DebitsOf

\* A step leaves the usage of a session alone, resets it with its row, or
\* stores it; and recorded answers stay recorded.
LEMMA UsageMoves ==
    ASSUME BillInv, [ServiceStep]_creditsVars, NEW s \in Session
    PROVE  /\ recorded'[s].llm >= recorded[s].llm /\ recorded[s].llm \in Nat
           /\ \/ usage'[s] = usage[s]
              \/ sessions'[s] = NoRow
              \/ \E k \in Call : UsageStored(k) /\ calls[k].session = s
<1>1. recorded[s] \in Usage /\ recorded[s].llm \in Nat
  BY TableFacts DEF Usage
<1>2. usage \in [Session -> Usage]
  BY DEF BillInv, SettlementInv, CreditsTypeOK
<1>3. ASSUME NEW k \in Call, UsageStored(k)
      PROVE  /\ recorded'[s].llm >= recorded[s].llm
             /\ usage'[s] = usage[s] \/ calls[k].session = s
  <2> DEFINE t == calls[k].session
             d == calls[k].delta
  <2>1. t \in Session /\ d \in Usage /\ d.llm \in Nat
    BY <1>3, TableFacts DEF UsageStored, BillInv, SettlementInv, CallsWellFormed, CallRecord, Usage
  <2>2. /\ recorded' = [recorded EXCEPT ![t] = AddUsage(@, d)]
        /\ usage' = [usage EXCEPT ![t] = Merged(calls[k])]
    BY <1>3 DEF UsageStored
  <2> HIDE DEF t, d
  <2>3. CASE s = t
    <3>1. recorded'[s] = AddUsage(recorded[s], d)
      BY <2>1, <2>2, <2>3, TableFacts
    <3>2. recorded'[s].llm = recorded[s].llm + d.llm
      BY <3>1 DEF AddUsage
    <3> QED
      BY <1>1, <2>1, <2>3, <3>2 DEF t
  <2>4. CASE s # t
    BY <1>1, <1>2, <2>1, <2>2, <2>4, TableFacts
  <2> QED
    BY <2>3, <2>4
<1>4. ASSUME NEW t \in Session, DeleteSession(t)
      PROVE  (usage'[s] = usage[s] \/ sessions'[s] = NoRow) /\ recorded' = recorded
  BY <1>2, <1>4, DeleteFacts DEF DeleteSession
<1>5. ASSUME ~\E k \in Call : UsageStored(k), ~\E t \in Session : DeleteSession(t)
      PROVE  usage' = usage /\ recorded' = recorded
  BY <1>5 DEF ServiceStep, Called, CallStep, RecordUsage, FinalizeSession, UsageGet, UsageRefused,
       SessionGet, FinalUsageGet, AlreadyFinalized, DebitRefused, StatementLost, Settle,
       UnhandledRejection, Crash, ProcessDies, CreateSession, MarkFinalized, AppendDebit, creditsVars
<1> QED
  BY <1>1, <1>3, <1>4, <1>5

\* Who is stranded, whose a session is, and what was found out stay.
GoesOn ==
    /\ stranded \subseteq stranded'
    /\ \A s \in minted : owner'[s] = owner[s]
    /\ \A s \in Session : orch[s].exhausted => orch'[s].exhausted
    /\ \A c \in Conn : Finalizing(c) => Finalizing(c)'

\* A connection goes on with x, its finalize begun if it had.
LEMMA EndingMoves ==
    ASSUME LinkInv, NEW c \in Conn, NEW x, Update(c, x), x.ending = conn[c].ending \/ x.ending # "no"
    PROVE  \A d \in Conn : Finalizing(d) => Finalizing(d)'
<1>1. conn'[c] = x /\ \A d \in Conn : d # c => conn'[d] = conn[d]
  BY DEF LinkInv, GatewayShape, Update
<1> QED
  BY <1>1 DEF Finalizing

\* So does one whose finalize begins now.
LEMMA BeginGoes ==
    ASSUME LinkInv, BillInv, NEW c \in Conn, conn[c].current # NoSession, NEW new \in Connection,
           NEW reason, NEW orchs, NEW tasks, BeginFinalize(c, new, reason, orchs, tasks),
           orchs \in [Session -> OrchestratorShape],
           \A s \in Session : orch[s].exhausted => orchs[s].exhausted,
           UNCHANGED <<owner, stranded>>
    PROVE  GoesOn /\ Finalizing(c)' /\ \A s \in Session : orchs[s].exhausted => orch'[s].exhausted
<1> DEFINE x == [new EXCEPT !.ending = "relay_close", !.reason = reason]
<1>1. Update(c, x) /\ x.ending = "relay_close"
  BY DEF BeginFinalize, Connection
<1> HIDE DEF x
<1>2. \A d \in Conn : Finalizing(d) => Finalizing(d)'
  BY <1>1, EndingMoves
<1>3. Finalizing(c)'
  BY <1>1 DEF LinkInv, GatewayShape, Update, Finalizing
<1>4. \A s \in Session : orchs[s].exhausted => orch'[s].exhausted
  BY DEF BeginFinalize, OrchestratorShape
<1> QED
  BY <1>2, <1>3, <1>4 DEF GoesOn

\* Every step of a living process goes on from what was known.
LEMMA StepsGoOn ==
    ASSUME LinkInv, BillInv, [GatewayNext]_vars
    PROVE  minted \subseteq stranded' \/ GoesOn
<1>1. ASSUME UNCHANGED <<conn, orch, owner, stranded>>
      PROVE  GoesOn
  BY <1>1 DEF GoesOn, Finalizing
<1>2. /\ \A c \in Conn : conn[c] \in Connection
      /\ orch \in [Session -> OrchestratorShape]
  BY GatewayFacts DEF LinkInv, GatewayShape
<1>3. ASSUME NEW c \in Conn, NEW x, Update(c, x), x.ending = conn[c].ending \/ x.ending # "no",
             stranded \subseteq stranded', \A s \in minted : owner'[s] = owner[s],
             \A s \in Session : orch[s].exhausted => orch'[s].exhausted
      PROVE  GoesOn
  <2>1. \A d \in Conn : Finalizing(d) => Finalizing(d)'
    BY <1>3, EndingMoves
  <2> QED
    BY <1>3, <2>1 DEF GoesOn
<1>4. ASSUME NEW c \in Conn,
             \/ Connect(c) \/ \E m \in ControlMessage : Receive(c, m)
             \/ HandleAuth(c) \/ HandleStart(c)
             \/ AuthOk(c) \/ StartChecked(c) \/ AuthFails(c) \/ StartFails(c)
      PROVE  GoesOn
  <2>1. /\ \E x : ConnMoves(c, x) /\ StillIs(c, x)
        /\ UNCHANGED <<orch, owner, stranded>>
    BY <1>4, ConversationMoves
  <2> QED
    BY <1>3, <2>1 DEF ConnMoves, StillIs
<1>5. ASSUME NEW c \in Conn, HandleQuestion(c)
      PROVE  GoesOn
  <2>1. Taken(c).ending = conn[c].ending /\ Update(c, Taken(c)) /\ UNCHANGED <<owner, stranded>>
    BY <1>2, <1>5, TakenFacts DEF HandleQuestion
  <2>2. \A s \in Session : orch[s].exhausted => orch'[s].exhausted
    BY <1>2, <1>5 DEF HandleQuestion, OrchestratorShape
  <2> QED
    BY <1>3, <2>1, <2>2
<1>6. ASSUME NEW c \in Conn, Audio(c)
      PROVE  GoesOn
  <2>1. UNCHANGED <<conn, owner, stranded>>
    BY <1>6 DEF Audio
  <2>2. \A s \in Session : orch[s].exhausted => orch'[s].exhausted
    BY <1>2, <1>6 DEF Audio, OrchestratorShape
  <2> QED
    BY <2>1, <2>2 DEF GoesOn, Finalizing
<1>7. ASSUME NEW c \in Conn, SocketCloses(c)
      PROVE  GoesOn
  <2> DEFINE closed == [conn[c] EXCEPT !.ws = "closed"]
  <2>1. closed \in Connection /\ closed.ending = conn[c].ending
    BY <1>2 DEF Connection
  <2>2. /\ UNCHANGED <<owner, stranded>>
        /\ \/ conn[c].current # NoSession /\ BeginFinalize(c, closed, "disconnected", orch, task)
           \/ Update(c, closed) /\ UNCHANGED orch
    BY <1>7 DEF SocketCloses
  <2> HIDE DEF closed
  <2> QED
    BY <1>2, <1>3, <2>1, <2>2, BeginGoes
<1>8. ASSUME NEW c \in Conn, HandleStop(c)
      PROVE  GoesOn
  <2> DEFINE stopping == [Taken(c) EXCEPT !.handler = "stopping"]
  <2>1. stopping \in Connection /\ Taken(c).ending = conn[c].ending
    BY <1>2, <1>8, TakenFacts DEF HandleStop, Connection
  <2>2. /\ UNCHANGED <<owner, stranded>>
        /\ \/ conn[c].current # NoSession /\ BeginFinalize(c, stopping, "user-ended", orch, task)
           \/ Update(c, Taken(c)) /\ UNCHANGED orch
    BY <1>8 DEF HandleStop
  <2> HIDE DEF stopping
  <2> QED
    BY <1>2, <1>3, <2>1, <2>2, BeginGoes
<1>9. ASSUME NEW c \in Conn, RelayClosed(c)
      PROVE  GoesOn
  <2>1. /\ Update(c, [conn[c] EXCEPT !.ending = "settling"]) /\ UNCHANGED <<orch, owner, stranded>>
        /\ [conn[c] EXCEPT !.ending = "settling"].ending = "settling"
    BY <1>2, <1>9 DEF RelayClosed, Connection
  <2> QED
    BY <1>3, <2>1
<1>10. ASSUME NEW c \in Conn, StartCreated(c)
       PROVE  GoesOn
  <2>1. PICK s \in Session : /\ s \notin minted
                             /\ Update(c, [conn[c] EXCEPT !.handler = "ready", !.current = s])
                             /\ owner' = [owner EXCEPT ![s] = c]
    BY <1>10 DEF StartCreated, CreateSession
  <2> DEFINE x == [conn[c] EXCEPT !.handler = "ready", !.current = s]
  <2>2. Update(c, x) /\ x.ending = conn[c].ending
    BY <1>2, <2>1 DEF Connection
  <2> HIDE DEF x
  <2>3. stranded \subseteq stranded' /\ UNCHANGED orch /\ \A r \in minted : owner'[r] = owner[r]
    BY <1>10, <2>1 DEF StartCreated
  <2> QED
    BY <1>3, <2>2, <2>3
<1>11. ASSUME NEW s \in Session, OlderAnswered(s) \/ NewestAnswered(s) \/ GenerationFails(s)
       PROVE  GoesOn
  <2>1. UNCHANGED <<conn, owner, stranded>>
    BY <1>11 DEF OlderAnswered, NewestAnswered, GenerationFails
  <2>2. \A r \in Session : orch[r].exhausted => orch'[r].exhausted
    BY <1>2, <1>11 DEF OlderAnswered, NewestAnswered, GenerationFails, OrchestratorShape
  <2> QED
    BY <2>1, <2>2 DEF GoesOn, Finalizing
<1>12. ASSUME NEW k \in Call, FinalizeReturned(k)
       PROVE  GoesOn
  <2> DEFINE c == task[k].conn
             y == CloseSocket(conn[c])
             x == [y EXCEPT !.ending = "done",
                            !.handler = IF Stopping(c) THEN "ready" ELSE conn[c].handler]
  <2>1. c \in Conn /\ y \in Connection
    BY <1>2, <1>12, GatewayFacts, CloseSocketFacts DEF FinalizeReturned
  <2>2. x.ending = "done" /\ Update(c, x) /\ UNCHANGED <<orch, owner, stranded>>
    BY <1>12, <2>1 DEF FinalizeReturned, Connection
  <2> HIDE DEF x, y, c
  <2> QED
    BY <1>3, <2>1, <2>2
<1>13. ASSUME NEW k \in Call, StopFailed(k)
       PROVE  GoesOn
  <2> DEFINE c == task[k].conn
             x == [conn[c] EXCEPT !.ending = "failed", !.handler = "ready"]
  <2>1. c \in Conn /\ conn[c] \in Connection
    BY <1>2, <1>13, GatewayFacts DEF StopFailed
  <2>2. /\ x.ending = "failed" /\ Update(c, x) /\ UNCHANGED <<orch, owner>>
        /\ stranded \subseteq stranded'
    BY <1>13, <2>1 DEF StopFailed, Connection
  <2> HIDE DEF x, c
  <2> QED
    BY <1>3, <2>1, <2>2
<1>14. ASSUME NEW k \in Call,
              \/ MeterReturned(k) \/ UsageReturned(k) \/ QnaAppended(k) \/ CheckLedger(k)
              \/ CheckFails(k) \/ Statement(k)
       PROVE  GoesOn
  BY <1>1, <1>14 DEF MeterReturned, UsageReturned, QnaAppended, CheckLedger, CheckFails, Statement,
                     gatewayVars
<1>15. ASSUME NEW k \in Call, CheckUsage(k)
       PROVE  GoesOn
  <2> DEFINE t == task[k]
             orchs == [orch EXCEPT ![t.session].exhausted = TRUE]
             done == [task EXCEPT ![k] = NoTask]
  <2>1. /\ t.session \in Session /\ t.conn \in Conn /\ conn[t.conn].current # NoSession
        /\ conn[t.conn] \in Connection /\ UNCHANGED <<owner, stranded>>
    BY <1>2, <1>15, GatewayFacts DEF CheckUsage, LinkInv, WorkIsOwned, Live
  <2>2. /\ orchs \in [Session -> OrchestratorShape]
        /\ \A s \in Session : orch[s].exhausted => orchs[s].exhausted
    <3>1. /\ [orch[t.session] EXCEPT !.exhausted = TRUE] \in OrchestratorShape
          /\ [orch[t.session] EXCEPT !.exhausted = TRUE].exhausted
      BY <1>2, <2>1 DEF OrchestratorShape
    <3> QED
      BY <1>2, <2>1, <3>1
  <2>3. \/ UNCHANGED <<orch, conn>>
        \/ orch' = orchs /\ UNCHANGED conn
        \/ BeginFinalize(t.conn, conn[t.conn], "credits-exhausted", orchs, done)
    BY <1>15 DEF CheckUsage
  <2> HIDE DEF orchs, done, t
  <2>4. CASE orch' = orchs /\ UNCHANGED conn
    BY <2>1, <2>2, <2>4 DEF GoesOn, Finalizing
  <2> QED
    BY <1>1, <2>1, <2>2, <2>3, <2>4, BeginGoes
<1>16. ASSUME NEW s \in Session, HttpDelete(s)
       PROVE  GoesOn
  BY <1>1, <1>16 DEF HttpDelete, gatewayVars
<1>17. ASSUME GatewayDies
       PROVE  minted \subseteq stranded'
  BY <1>17 DEF GatewayDies
<1>18. CASE UNCHANGED vars
  BY <1>1, <1>18 DEF vars, gatewayVars
<1>19. ASSUME NEW c \in Conn,
              \/ Connect(c) \/ \E m \in ControlMessage : Receive(c, m)
              \/ Audio(c) \/ SocketCloses(c) \/ RelayClosed(c)
              \/ HandlerStep(c) \/ AuthFails(c) \/ StartFails(c)
       PROVE  GoesOn
  BY <1>4, <1>5, <1>6, <1>7, <1>8, <1>9, <1>10, <1>19 DEF HandlerStep
<1>20. ASSUME NEW k \in Call, TaskStep(k) \/ CheckFails(k) \/ Statement(k)
       PROVE  minted \subseteq stranded' \/ GoesOn
  BY <1>12, <1>13, <1>14, <1>15, <1>17, <1>20 DEF TaskStep, RejectionKills
<1> QED
  BY <1>11, <1>16, <1>17, <1>18, <1>19, <1>20 DEF GatewayNext, ProcessCrash

\* What was alone still is one step earlier, and nothing died meanwhile.
LEMMA AloneBefore ==
    ASSUME LinkInv, BillInv, [GatewayNext]_vars, NEW s \in minted, Alone(s)'
    PROVE  Alone(s) /\ GoesOn /\ owner'[s] = owner[s]
<1>1. [ServiceStep]_creditsVars /\ s \in Session
  BY GatewayServes, TableFacts
<1>2. GoesOn /\ owner'[s] = owner[s]
  BY StepsGoOn DEF Alone, GoesOn
<1>3. s \notin stranded /\ owner[s] # NoConn /\ Enforced(s)
  BY <1>2 DEF Alone, GoesOn, Enforced
<1>4. recorded[s].llm = 0
  <2>1. recorded'[s].llm >= recorded[s].llm /\ recorded[s].llm \in Nat
    BY <1>1, UsageMoves
  <2>2. recorded'[s].llm = 0
    BY DEF Alone
  <2> QED
    BY <2>1, <2>2
<1>5. Claimable(s)
  <2>1. sessions[s] = NoRow => sessions'[s] = NoRow
    BY <1>1, GoneStaysGone
  <2>2. sessions[s] # NoRow /\ ~Claimable(s) => sessions'[s] = sessions[s] \/ sessions'[s] = NoRow
    BY <1>1, StepKeepsReasons
  <2> QED
    BY <2>1, <2>2 DEF Alone, Claimable
<1>6. ChargedAlone(s)
  <2> SUFFICES ASSUME NEW i \in DOMAIN ledger, ledger[i].account = TokenOf[owner[s]]
               PROVE  ledger[i].debitOf = s
    BY DEF ChargedAlone
  <2>1. EntryKept(i) /\ Len(ledger') >= Len(ledger)
    BY <1>1, StepKeepsEntries DEF EntriesKept
  <2>2. i \in DOMAIN ledger'
    <3>1. Len(ledger) \in Nat /\ i \in 1..Len(ledger)
      BY TableFacts
    <3>2. ledger' \in Seq(LedgerEntry)
      BY <1>1, BillStepInv DEF BillInv, SettlementInv, CreditsTypeOK
    <3> QED
      BY <2>1, <3>1, <3>2
  <2> QED
    BY <1>2, <2>1, <2>2 DEF Alone, ChargedAlone, EntryKept
<1> QED
  BY <1>2, <1>3, <1>4, <1>5, <1>6 DEF Alone

\* A slot with a task whose call is not in flight is left alone by all steps
\* but those of the task itself.
SlotStays(k) == task'[k] = task[k] /\ calls'[k] = calls[k]

\* A new call takes another slot.
LEMMA OtherSlot ==
    ASSUME BillInv, NEW k \in Call, NEW tasks, NEW j \in Call, tasks[k] = task[k],
           task[k].kind # "none", tasks[j] = NoTask, NEW t, task' = [tasks EXCEPT ![j] = t],
           NEW x, Resume(j, x)
    PROVE  SlotStays(k)
<1>1. j # k
  BY TaskFacts
<1> QED
  BY <1>1, TableFacts DEF SlotStays, Resume

\* Metering does, and so a finalize that begins.
LEMMA BeginSlots ==
    ASSUME BillInv, NEW k \in Call, NEW tasks, tasks[k] = task[k], task[k].kind # "none",
           \/ \E c, s, n : Meter(c, s, n, tasks)
           \/ \E c, new, reason, orchs : BeginFinalize(c, new, reason, orchs, tasks)
    PROVE  SlotStays(k)
<1>1. ASSUME NEW c, NEW s, NEW n, Meter(c, s, n, tasks)
      PROVE  SlotStays(k)
  BY <1>1, OtherSlot DEF Meter, RecordUsage
<1> QED
  BY <1>1 DEF BeginFinalize, creditsVars, SlotStays

LEMMA SlotsStay ==
    ASSUME LinkInv, BillInv, [GatewayNext]_vars, ~GatewayDies, NEW k \in Call,
           task[k].kind # "none", calls[k].at \notin AwaitPoint
    PROVE  \/ SlotStays(k)
           \/ FinalizeReturned(k) \/ StopFailed(k) \/ MeterReturned(k) \/ UsageReturned(k)
           \/ QnaAppended(k) \/ CheckLedger(k) \/ CheckUsage(k) \/ CheckFails(k)
<1>1. UNCHANGED <<task, calls>> => SlotStays(k)
  BY DEF SlotStays
<1>2. DOMAIN task = Call
  BY DEF LinkInv, GatewayShape
<1>3. ASSUME NEW c \in Conn,
             \/ Connect(c) \/ \E m \in ControlMessage : Receive(c, m)
             \/ Audio(c) \/ SocketCloses(c) \/ RelayClosed(c)
             \/ HandlerStep(c) \/ AuthFails(c) \/ StartFails(c)
      PROVE  SlotStays(k)
  <2>1. CASE \/ Connect(c) \/ \E m \in ControlMessage : Receive(c, m)
             \/ HandleAuth(c) \/ HandleStart(c)
             \/ AuthOk(c) \/ StartChecked(c) \/ AuthFails(c) \/ StartFails(c)
    BY <1>1, <2>1, ConversationMoves DEF creditsVars
  <2>2. CASE HandleQuestion(c) \/ StartCreated(c)
    BY <1>1, <2>2 DEF HandleQuestion, StartCreated, CreateSession, creditsVars
  <2>3. CASE Audio(c)
    BY <1>1, <2>3, BeginSlots DEF Audio, creditsVars
  <2>4. CASE SocketCloses(c) \/ HandleStop(c)
    BY <1>1, <2>4, BeginSlots DEF SocketCloses, HandleStop, creditsVars
  <2>5. CASE RelayClosed(c)
    <3>1. PICK j \in Call : /\ task[j] = NoTask
                            /\ FinalizeSession(j, conn[c].current, conn[c].reason)
                            /\ task' = [task EXCEPT ![j] = TaskOf("finalize", c, conn[c].current)]
      BY <2>5 DEF RelayClosed
    <3> QED
      BY <3>1, OtherSlot DEF FinalizeSession
  <2> QED
    BY <1>3, <2>1, <2>2, <2>3, <2>4, <2>5 DEF HandlerStep
<1>4. ASSUME NEW s \in Session, OlderAnswered(s)
      PROVE  SlotStays(k)
  <2>1. PICK j \in Call : /\ task[j] = NoTask /\ RecordUsage(j, s, LlmUsage)
                          /\ task' = [task EXCEPT ![j] = TaskOf("usage", owner[s], s)]
    BY <1>4 DEF OlderAnswered
  <2> QED
    BY <2>1, OtherSlot DEF RecordUsage
<1>5. ASSUME NEW s \in Session, NewestAnswered(s)
      PROVE  SlotStays(k)
  <2>1. PICK j \in Call, i \in Call :
           /\ task[j] = NoTask /\ task[i] = NoTask /\ RecordUsage(j, s, LlmUsage)
           /\ task' = [task EXCEPT ![j] = TaskOf("usage", owner[s], s),
                                   ![i] = TaskOf("qna", owner[s], s)]
    BY <1>5 DEF NewestAnswered
  <2>2. j # k /\ i # k
    BY <2>1, TaskFacts
  <2> QED
    BY <1>2, <2>1, <2>2, TableFacts DEF SlotStays, RecordUsage, Resume
<1>6. ASSUME NEW s \in Session, GenerationFails(s) \/ HttpDelete(s)
      PROVE  SlotStays(k)
  BY <1>1, <1>6 DEF GenerationFails, HttpDelete, DeleteSession, gatewayVars, creditsVars
<1>7. ASSUME NEW j \in Call, Statement(j)
      PROVE  SlotStays(k)
  <2>1. CallMoves(j) /\ UNCHANGED task
    BY <1>7, StatementMoves DEF Statement, gatewayVars
  <2> QED
    BY <2>1 DEF CallMoves, SlotStays
<1>8. ASSUME NEW j \in Call, j # k,
             \/ FinalizeReturned(j) \/ StopFailed(j) \/ MeterReturned(j) \/ UsageReturned(j)
             \/ QnaAppended(j) \/ CheckLedger(j) \/ CheckFails(j)
      PROVE  SlotStays(k)
  <2>1. \E t : task' = [task EXCEPT ![j] = t]
    BY <1>8 DEF FinalizeReturned, StopFailed, MeterReturned, UsageReturned, QnaAppended,
                CheckLedger, CheckFails, Check
  <2>2. calls' = calls \/ Resume(j, IdleCall)
    BY <1>8 DEF FinalizeReturned, StopFailed, MeterReturned, UsageReturned, QnaAppended,
                CheckLedger, CheckFails, Settle, creditsVars
  <2> QED
    BY <1>2, <1>8, <2>1, <2>2, TableFacts DEF SlotStays, Resume
<1>9. ASSUME NEW j \in Call, j # k, CheckUsage(j)
      PROVE  SlotStays(k)
  <2> DEFINE done == [task EXCEPT ![j] = NoTask]
  <2>1. done[k] = task[k]
    BY <1>2, <1>9
  <2>2. \/ task' = done /\ UNCHANGED calls
        \/ \E c, new, reason, orchs : BeginFinalize(c, new, reason, orchs, done)
    BY <1>9 DEF CheckUsage, creditsVars
  <2> HIDE DEF done
  <2> QED
    BY <2>1, <2>2, BeginSlots DEF SlotStays
<1>10. ASSUME NEW j \in Call, TaskStep(j) \/ CheckFails(j) \/ Statement(j), j # k
       PROVE  SlotStays(k)
  BY <1>7, <1>8, <1>9, <1>10 DEF TaskStep, RejectionKills
<1>11. CASE UNCHANGED vars
  BY <1>1, <1>11 DEF vars, gatewayVars, creditsVars
<1> QED
  BY <1>3, <1>4, <1>5, <1>6, <1>7, <1>10, <1>11 DEF GatewayNext, TaskStep, RejectionKills, ProcessCrash

\* A check on its way is still on its way after a step, or finds the credits
\* exhausted.
LEMMA CheckingGoes ==
    ASSUME LinkInv, BillInv, BalancesAdd, [GatewayNext]_vars, NEW s \in minted,
           Alone(s), Alone(s)', Spent(s), GoesOn, NEW k \in Call, Checking(k, s)
    PROVE  Found(s)'
<1>1. /\ s \in Session /\ owner'[s] = owner[s] /\ task[k].kind # "none"
      /\ task[k].session = s /\ task[k].conn = owner[s] /\ owner[s] \in Conn
      /\ task[k].kind \in {"meter", "check_ledger", "check_usage"}
      /\ conn[owner[s]].current # NoSession
      /\ TokenOf[owner[s]] \in Account
  BY TableFacts, GatewayFacts, GatewayAssumption
     DEF GoesOn, Checking, LinkInv, WorkIsOwned, Live
<1>2. calls[k].at \notin AwaitPoint
  BY DEF Checking, LinkInv, CallsHaveTasks, AwaitPoint
<1>3. ~GatewayDies
  BY DEF GatewayDies, Alone
<1>4. CASE SlotStays(k)
  <2>1. Checking(k, s)'
    BY <1>1, <1>4 DEF SlotStays, Checking
  <2> QED
    BY <2>1 DEF Found
<1>5. CASE MeterReturned(k)
  <2>1. Check(k, TRUE) /\ task[k].kind = "meter" /\ UNCHANGED orch
    BY <1>5 DEF MeterReturned
  <2>2. CASE orch[s].exhausted
    BY <2>1, <2>2 DEF Found
  <2>3. CASE ~orch[s].exhausted
    <3> DEFINE t == [TaskOf("check_ledger", task[k].conn, s) EXCEPT !.voided = TRUE]
    <3>1. task'[k] = t
      BY <1>1, <2>1, <2>3 DEF Check, Alone, LinkInv, GatewayShape
    <3>2. t.kind = "check_ledger" /\ t.voided /\ t.session = s
      BY DEF TaskOf, NoTask
    <3> HIDE DEF t
    <3>3. Checking(k, s)'
      BY <3>1, <3>2 DEF Checking
    <3> QED
      BY <3>3 DEF Found
  <2> QED
    BY <2>2, <2>3
<1>6. CASE CheckLedger(k)
  <2> DEFINE b == LedgerBalance(TokenOf[owner[task[k].session]])
             t == [task[k] EXCEPT !.kind = "check_usage", !.balance = b]
  <2>1. b = Opening[TokenOf[owner[s]]]
    BY <1>1, AloneUncharged, UnchargedBalance DEF Alone
  <2> HIDE DEF b
  <2>2. task[k] \in TaskShape(task[k].balance) /\ task[k].voided /\ DOMAIN task = Call
    BY <1>6 DEF Checking, CheckLedger, LinkInv, GatewayShape
  <2>3. /\ t.kind = "check_usage" /\ t.voided /\ t.session = s /\ t.balance = b
    BY <1>1, <2>2 DEF TaskShape
  <2>4. task'[k] = t
    BY <1>6, <2>2 DEF CheckLedger, b
  <2> HIDE DEF t
  <2>5. Checking(k, s)'
    BY <1>1, <2>1, <2>3, <2>4 DEF Checking
  <2> QED
    BY <2>5 DEF Found
<1>7. CASE CheckUsage(k)
  <2> DEFINE orchs == [orch EXCEPT ![task[k].session].exhausted = TRUE]
             done == [task EXCEPT ![k] = NoTask]
  <2>1. task[k].balance = Opening[TokenOf[owner[s]]]
    BY <1>7 DEF Checking, CheckUsage
  <2>2. IsExhausted(LiveBalance(task[k].balance, s, "enforced"), "enforced")
    BY <2>1 DEF IsExhausted, LiveBalance, Spent
  <2>3. /\ orchs \in [Session -> OrchestratorShape] /\ orchs[s].exhausted
        /\ \A r \in Session : orch[r].exhausted => orchs[r].exhausted
    <3>1. orch \in [Session -> OrchestratorShape]
      BY DEF LinkInv, GatewayShape
    <3>2. /\ [orch[s] EXCEPT !.exhausted = TRUE] \in OrchestratorShape
          /\ [orch[s] EXCEPT !.exhausted = TRUE].exhausted
      BY <1>1, <3>1 DEF OrchestratorShape
    <3> QED
      BY <1>1, <3>1, <3>2
  <2>4. \/ orch' = orchs
        \/ BeginFinalize(owner[s], conn[owner[s]], "credits-exhausted", orchs, done)
    BY <1>1, <1>7, <2>2 DEF CheckUsage
  <2>5. conn[owner[s]] \in Connection /\ UNCHANGED <<owner, stranded>>
    BY <1>1, <1>7, GatewayFacts DEF CheckUsage
  <2> HIDE DEF orchs, done
  <2>6. orch'[s].exhausted
    BY <1>1, <2>3, <2>4, <2>5, BeginGoes
  <2> QED
    BY <2>6 DEF Found
<1>8. CASE CheckFails(k)
  BY <1>8 DEF CheckFails, Checking
<1>9. ~(FinalizeReturned(k) \/ StopFailed(k) \/ UsageReturned(k) \/ QnaAppended(k))
  BY <1>1 DEF FinalizeReturned, StopFailed, UsageReturned, QnaAppended
<1> QED
  BY <1>1, <1>2, <1>3, <1>4, <1>5, <1>6, <1>7, <1>8, <1>9, SlotsStay

\* Audio that is stored has a check behind it.
LEMMA StoredIsChecked ==
    ASSUME LinkInv, BillInv, NoticeInv, NEW s \in minted, Alone(s)',
           NEW k \in Call, UsageStored(k), UNCHANGED gatewayVars, calls[k].session = s
    PROVE  Checking(k, s)'
<1>1. /\ s \in Session /\ calls[k] \in CallRecord /\ calls[k].at = "usage_upsert"
      /\ calls[k].delta.llm \in Nat /\ recorded[s].llm \in Nat
  BY TableFacts DEF UsageStored, CallRecord, Usage
<1>2. task[k].kind \in {"meter", "usage"}
  BY <1>1 DEF LinkInv, CallsHaveTasks
<1>3. task[k].kind # "usage"
  <2> SUFFICES ASSUME task[k].kind = "usage"
               PROVE  FALSE
    OBVIOUS
  <2>1. calls[k].delta.llm > 0
    BY <1>1 DEF NoticeInv, CallsAreOfTasks, GoodCall, Metering
  <2>2. recorded'[s] = AddUsage(recorded[s], calls[k].delta)
    BY <1>1, TableFacts DEF UsageStored
  <2>3. recorded'[s].llm = recorded[s].llm + calls[k].delta.llm
    BY <2>2 DEF AddUsage
  <2> QED
    BY <1>1, <2>1, <2>3 DEF Alone
<1>4. task[k].session = s /\ task[k].kind = "meter"
  BY <1>1, <1>2, <1>3 DEF NoticeInv, CallsAreOfTasks, GoodCall, Metering
<1>5. calls'[k].at \in {"returned", "rejected"}
  <2>1. PICK ok \in Reply : Resume(k, [calls[k] EXCEPT !.at = IF ok THEN "returned" ELSE "rejected"])
    BY DEF UsageStored
  <2> QED
    BY <1>1, <2>1, TableFacts DEF Resume, CallRecord
<1> QED
  BY <1>4, <1>5 DEF Checking, gatewayVars

\* Only a statement stores usage, and only a deletion resets it.
LEMMA OnlyStatementsStore ==
    ASSUME LinkInv, BillInv, [GatewayNext]_vars, NEW s \in Session
    PROVE  \/ usage'[s] = usage[s]
           \/ sessions'[s] = NoRow /\ usage'[s] = NoUsage
           \/ \E k \in Call : UsageStored(k) /\ calls[k].session = s /\ UNCHANGED gatewayVars
<1>1. usage \in [Session -> Usage]
  BY DEF BillInv, SettlementInv, CreditsTypeOK
<1>2. ASSUME NEW c \in Conn,
             \/ Connect(c) \/ \E m \in ControlMessage : Receive(c, m)
             \/ Audio(c) \/ SocketCloses(c) \/ RelayClosed(c)
             \/ HandlerStep(c) \/ AuthFails(c) \/ StartFails(c)
      PROVE  usage' = usage
  <2>1. CASE \/ Connect(c) \/ \E m \in ControlMessage : Receive(c, m)
             \/ HandleAuth(c) \/ HandleStart(c)
             \/ AuthOk(c) \/ StartChecked(c) \/ AuthFails(c) \/ StartFails(c)
    BY <2>1, ConversationMoves DEF creditsVars
  <2>2. CASE \/ HandleQuestion(c) \/ StartCreated(c) \/ Audio(c) \/ RelayClosed(c)
             \/ SocketCloses(c) \/ HandleStop(c)
    BY <2>2 DEF HandleQuestion, StartCreated, Audio, RelayClosed, SocketCloses, HandleStop,
                BeginFinalize, Meter, CreateSession, RecordUsage, FinalizeSession, creditsVars
  <2> QED
    BY <1>2, <2>1, <2>2 DEF HandlerStep
<1>3. ASSUME NEW r \in Session, OlderAnswered(r) \/ NewestAnswered(r) \/ GenerationFails(r)
      PROVE  usage' = usage
  BY <1>3 DEF OlderAnswered, NewestAnswered, GenerationFails, RecordUsage, creditsVars
<1>4. ASSUME NEW r \in Session, HttpDelete(r)
      PROVE  usage'[s] = usage[s] \/ (sessions'[s] = NoRow /\ usage'[s] = NoUsage)
  BY <1>1, <1>4, TableFacts DEF HttpDelete, DeleteSession
<1>5. ASSUME NEW k \in Call, TaskStep(k) \/ CheckFails(k)
      PROVE  usage' = usage
  BY <1>5 DEF TaskStep, CheckFails, FinalizeReturned, StopFailed, RejectionKills, MeterReturned,
              UsageReturned, QnaAppended, CheckLedger, CheckUsage, BeginFinalize, Meter,
              RecordUsage, Settle, UnhandledRejection, ProcessDies, creditsVars
<1>6. ASSUME NEW k \in Call, Statement(k)
      PROVE  \/ usage'[s] = usage[s]
             \/ UsageStored(k) /\ calls[k].session = s /\ UNCHANGED gatewayVars
  <2>1. UsageStored(k) \/ usage' = usage
    BY <1>6 DEF Statement, CallStep, UsageGet, UsageRefused, SessionGet, FinalUsageGet,
                MarkFinalized, AlreadyFinalized, AppendDebit, DebitRefused, StatementLost
  <2>2. UsageStored(k) => usage'[s] = usage[s] \/ calls[k].session = s
    BY <1>1 DEF UsageStored
  <2> QED
    BY <1>6, <2>1, <2>2 DEF Statement
<1>7. CASE ProcessCrash \/ UNCHANGED vars
  BY <1>7 DEF ProcessCrash, Crash, ProcessDies, vars, creditsVars
<1> QED
  BY <1>2, <1>3, <1>4, <1>5, <1>6, <1>7 DEF GatewayNext

\* A session that has spent its credits stays found, or becomes so.
LEMMA FoundStays ==
    ASSUME LinkInv, BillInv, BalancesAdd, NoticeInv, [GatewayNext]_vars, NEW s \in minted,
           Alone(s)', Spent(s)'
    PROVE  Found(s)'
<1>1. Alone(s) /\ GoesOn /\ owner'[s] = owner[s] /\ s \in Session
  BY AloneBefore, TableFacts
<1>2. CASE Spent(s)
  <2>1. Found(s)
    BY <1>1, <1>2 DEF NoticeInv
  <2>2. CASE orch[s].exhausted \/ Finalizing(owner[s])
    <3>1. owner[s] \in Conn
      BY <1>1 DEF Alone, LinkInv, GatewayShape
    <3> QED
      BY <1>1, <2>2, <3>1 DEF GoesOn, Found, Finalizing
  <2>3. ASSUME NEW k \in Call, Checking(k, s)
        PROVE  Found(s)'
    BY <1>1, <1>2, <2>3, CheckingGoes
  <2> QED
    BY <2>1, <2>2, <2>3 DEF Found
<1>3. CASE ~Spent(s)
  <2>1. usage'[s] # usage[s] /\ sessions'[s] # NoRow
    BY <1>1, <1>3 DEF Spent, Alone, Claimable, CreditsFor
  <2>2. PICK k \in Call : UsageStored(k) /\ calls[k].session = s /\ UNCHANGED gatewayVars
    BY <1>1, <2>1, OnlyStatementsStore
  <2> QED
    BY <2>2, StoredIsChecked DEF Found
<1> QED
  BY <1>2, <1>3

\* What begins with StartChecked: an account that has never been charged has
\* the opening balance, which was found to be credit.
LEMMA PaidStays ==
    ASSUME LinkInv, BillInv, BalancesAdd, [GatewayNext]_vars, NEW c \in Conn, Paid(c)
    PROVE  Paid(c)'
<1> DEFINE a == TokenOf[c]
           Fresh == \A i \in DOMAIN ledger : ledger[i].account # a
<1>1. /\ conn[c] \in Connection /\ conn \in [Conn -> Connection]
      /\ a \in Account /\ a # NoAccount
      /\ conn[c].handler \in {"check", "create"} => conn[c].account # NoAccount
  BY GatewayFacts, GatewayAssumption DEF LinkInv, GatewayShape, ConnectionsOwn
<1>2. Fresh' => Fresh
  <2> SUFFICES ASSUME Fresh', NEW i \in DOMAIN ledger
               PROVE  ledger[i].account # a
    OBVIOUS
  <2>1. [ServiceStep]_creditsVars
    BY GatewayServes
  <2>2. EntryKept(i) /\ Len(ledger') >= Len(ledger)
    BY <2>1, StepKeepsEntries DEF EntriesKept
  <2>3. i \in DOMAIN ledger'
    <3>1. Len(ledger) \in Nat /\ i \in 1..Len(ledger)
      BY TableFacts
    <3>2. ledger' \in Seq(LedgerEntry)
      BY <2>1, BillStepInv DEF BillInv, SettlementInv, CreditsTypeOK
    <3> QED
      BY <2>2, <3>1, <3>2
  <2> QED
    BY <2>2, <2>3 DEF EntryKept
<1> HIDE DEF Fresh
<1>3. ASSUME conn'[c].account = conn[c].account \/ conn'[c].account \in {NoAccount, a},
             conn'[c].handler = "create" => conn[c].handler = "create"
      PROVE  Paid(c)'
  BY <1>2, <1>3 DEF Paid, Fresh
<1>4. ASSUME NEW d \in Conn, NEW x, Update(d, x),
             d = c => /\ x.account \in {conn[c].account, a, NoAccount}
                      /\ x.handler = "create" => conn[c].handler = "create"
      PROVE  Paid(c)'
  <2>1. conn'[c] = IF c = d THEN x ELSE conn[c]
    BY <1>1, <1>4 DEF Update
  <2> QED
    BY <1>3, <1>4, <2>1
<1>5. ASSUME UNCHANGED conn
      PROVE  Paid(c)'
  BY <1>3, <1>5
<1>6. ASSUME NEW d \in Conn, NEW new \in Connection, NEW reason, NEW orchs, NEW tasks,
             BeginFinalize(d, new, reason, orchs, tasks), new.account = conn[d].account,
             new.handler = "create" => conn[d].handler = "create"
      PROVE  Paid(c)'
  <2> DEFINE x == [new EXCEPT !.ending = "relay_close", !.reason = reason]
  <2>1. Update(d, x) /\ x.account = new.account /\ x.handler = new.handler
    BY <1>6 DEF BeginFinalize, Connection
  <2> HIDE DEF x
  <2> QED
    BY <1>4, <1>6, <2>1
<1>7. ASSUME NEW d \in Conn,
             \/ Connect(d) \/ \E m \in ControlMessage : Receive(d, m)
             \/ HandleAuth(d) \/ HandleStart(d) \/ HandleQuestion(d)
             \/ AuthOk(d) \/ AuthFails(d) \/ StartFails(d) \/ RelayClosed(d) \/ StartCreated(d)
      PROVE  Paid(c)'
  <2>1. conn[d] \in Connection /\ CloseSocket(conn[d]) \in Connection
        /\ CloseSocket(conn[d]).account = conn[d].account
        /\ CloseSocket(conn[d]).handler = conn[d].handler
    BY GatewayFacts, CloseSocketFacts
  <2>2. ASSUME NEW m, NextIs(d, m)
        PROVE  /\ Taken(d) \in Connection /\ Taken(d).account = conn[d].account
               /\ Taken(d).handler = "ready"
               /\ CloseSocket(Taken(d)).account = conn[d].account
               /\ CloseSocket(Taken(d)).handler = "ready"
    BY <2>1, <2>2, TakenFacts, CloseSocketFacts
  <2>3. CASE Connect(d)
    BY <1>4, <2>1, <2>3 DEF Connect, Connection
  <2>4. ASSUME NEW m \in ControlMessage, Receive(d, m) PROVE Paid(c)'
    BY <1>4, <2>1, <2>4 DEF Receive, Connection
  <2>5. CASE HandleAuth(d)
    BY <1>4, <2>1, <2>2, <2>5 DEF HandleAuth, Connection
  <2>6. CASE HandleStart(d)
    <3>1. Update(d, CloseSocket(Taken(d))) \/ Update(d, [Taken(d) EXCEPT !.handler = "check"])
      BY <2>6 DEF HandleStart
    <3>2. NextIs(d, "start_session")
      BY <2>6 DEF HandleStart
    <3>3. /\ [Taken(d) EXCEPT !.handler = "check"].account = conn[d].account
          /\ [Taken(d) EXCEPT !.handler = "check"].handler = "check"
      BY <2>2, <3>2 DEF Connection
    <3> QED
      BY <1>4, <2>2, <3>1, <3>2, <3>3
  <2>7. CASE HandleQuestion(d)
    BY <1>4, <2>1, <2>2, <2>7 DEF HandleQuestion
  <2>8. CASE AuthOk(d)
    BY <1>4, <2>1, <2>8 DEF AuthOk, Connection
  <2>9. CASE AuthFails(d)
    <3>1. PICK b : /\ b \in {conn[d].account, TokenOf[d]}
                   /\ Update(d, [CloseSocket(conn[d]) EXCEPT !.handler = "ready", !.account = b])
      BY <2>9 DEF AuthFails
    <3> QED
      BY <1>4, <2>1, <3>1 DEF Connection
  <2>10. CASE StartFails(d) \/ RelayClosed(d)
    BY <1>4, <2>1, <2>10 DEF StartFails, RelayClosed, Connection
  <2>11. CASE StartCreated(d)
    BY <1>4, <2>1, <2>11 DEF StartCreated, Connection
  <2> QED
    BY <1>7, <2>3, <2>4, <2>5, <2>6, <2>7, <2>8, <2>9, <2>10, <2>11
<1>8. ASSUME NEW d \in Conn, StartChecked(d)
      PROVE  Paid(c)'
  <2>1. /\ conn[d] \in Connection /\ CloseSocket(conn[d]) \in Connection
        /\ CloseSocket(conn[d]).account = conn[d].account
    BY GatewayFacts, CloseSocketFacts
  <2>2. CASE Update(d, [CloseSocket(conn[d]) EXCEPT !.handler = "ready"])
    BY <1>4, <2>1, <2>2 DEF Connection
  <2>3. CASE /\ Update(d, [conn[d] EXCEPT !.handler = "create"])
             /\ PreSessionAuthorized(LedgerBalance(conn[d].account), ModeOf[conn[d].account])
    <3>1. CASE c # d
      BY <1>4, <2>3, <3>1
    <3>2. CASE c = d
      <4>1. conn[c].account = a
        BY <1>1, <1>8, <3>2 DEF StartChecked, Paid
      <4>2. conn'[c].account = a /\ UNCHANGED ledger
        BY <1>1, <1>8, <2>3, <3>2, <4>1 DEF Update, Connection, StartChecked, creditsVars
      <4>3. ModeOf[a] = "enforced" => LedgerBalance(a) > 0
        BY <2>3, <3>2, <4>1 DEF PreSessionAuthorized
      <4>4. Fresh => LedgerBalance(a) = Opening[a]
        BY <1>1, UnchargedBalance DEF Fresh
      <4> QED
        BY <4>2, <4>3, <4>4 DEF Paid, Fresh
    <3> QED
      BY <3>1, <3>2
  <2> QED
    BY <1>8, <2>2, <2>3 DEF StartChecked
<1>9. ASSUME NEW d \in Conn, SocketCloses(d)
      PROVE  Paid(c)'
  <2> DEFINE closed == [conn[d] EXCEPT !.ws = "closed"]
  <2>1. /\ closed \in Connection /\ closed.account = conn[d].account
        /\ closed.handler = conn[d].handler
    BY GatewayFacts DEF Connection
  <2>2. \/ BeginFinalize(d, closed, "disconnected", orch, task)
        \/ Update(d, closed)
    BY <1>9 DEF SocketCloses
  <2> HIDE DEF closed
  <2> QED
    BY <1>4, <1>6, <2>1, <2>2
<1>10. ASSUME NEW d \in Conn, HandleStop(d)
       PROVE  Paid(c)'
  <2> DEFINE stopping == [Taken(d) EXCEPT !.handler = "stopping"]
  <2>1. /\ Taken(d) \in Connection /\ Taken(d).account = conn[d].account
        /\ Taken(d).handler = "ready"
    BY <1>10, GatewayFacts, TakenFacts DEF HandleStop
  <2>2. /\ stopping \in Connection /\ stopping.account = conn[d].account
        /\ stopping.handler = "stopping"
    BY <2>1 DEF Connection
  <2>3. \/ BeginFinalize(d, stopping, "user-ended", orch, task)
        \/ Update(d, Taken(d))
    BY <1>10 DEF HandleStop
  <2> HIDE DEF stopping
  <2> QED
    BY <1>4, <1>6, <2>1, <2>2, <2>3
<1>11. ASSUME NEW k \in Call, TaskStep(k) \/ CheckFails(k) \/ Statement(k)
       PROVE  Paid(c)' \/ GatewayDies
  <2>1. ASSUME FinalizeReturned(k) \/ StopFailed(k) PROVE Paid(c)'
    <3> DEFINE d == task[k].conn
    <3>1. d \in Conn /\ conn[d] \in Connection /\ CloseSocket(conn[d]) \in Connection
          /\ CloseSocket(conn[d]).account = conn[d].account
          /\ CloseSocket(conn[d]).handler = conn[d].handler
      BY <2>1, GatewayFacts, CloseSocketFacts DEF FinalizeReturned, StopFailed
    <3>2. CASE FinalizeReturned(k)
      <4> DEFINE y == CloseSocket(conn[d])
                 x == [y EXCEPT !.ending = "done",
                                !.handler = IF Stopping(d) THEN "ready" ELSE conn[d].handler]
      <4>1. Update(d, x)
        BY <3>2 DEF FinalizeReturned
      <4>2. x.account = conn[d].account /\ x.handler \in {"ready", conn[d].handler}
        BY <3>1 DEF Connection
      <4> HIDE DEF x, d
      <4> QED
        BY <1>4, <3>1, <4>1, <4>2
    <3>3. CASE StopFailed(k)
      <4> DEFINE x == [conn[d] EXCEPT !.ending = "failed", !.handler = "ready"]
      <4>1. Update(d, x) /\ x.account = conn[d].account /\ x.handler = "ready"
        BY <3>1, <3>3 DEF StopFailed, Connection
      <4> HIDE DEF x, d
      <4> QED
        BY <1>4, <3>1, <4>1
    <3> QED
      BY <2>1, <3>2, <3>3
  <2>2. ASSUME \/ MeterReturned(k) \/ UsageReturned(k) \/ QnaAppended(k) \/ CheckLedger(k)
               \/ CheckFails(k) \/ Statement(k)
        PROVE  Paid(c)'
    BY <1>5, <2>2 DEF MeterReturned, UsageReturned, QnaAppended, CheckLedger, CheckFails, Statement,
                      gatewayVars
  <2>3. ASSUME CheckUsage(k) PROVE Paid(c)'
    <3>1. task[k].conn \in Conn /\ conn[task[k].conn] \in Connection
      BY <2>3, GatewayFacts DEF CheckUsage
    <3>2. \/ UNCHANGED conn
          \/ \E orchs, tasks : BeginFinalize(task[k].conn, conn[task[k].conn], "credits-exhausted",
                                             orchs, tasks)
      BY <2>3 DEF CheckUsage
    <3> QED
      BY <1>5, <1>6, <3>1, <3>2
  <2> QED
    BY <1>11, <2>1, <2>2, <2>3 DEF TaskStep, RejectionKills
<1>12. CASE GatewayDies
  <2>1. conn'[c] = IF conn[c].ws = "new" THEN conn[c] ELSE [NewConnection EXCEPT !.ws = "closed"]
    BY <1>12 DEF GatewayDies
  <2>2. [NewConnection EXCEPT !.ws = "closed"].account = NoAccount
        /\ [NewConnection EXCEPT !.ws = "closed"].handler = "ready"
    BY DEF NewConnection
  <2> QED
    BY <1>3, <2>1, <2>2
<1>13. ASSUME NEW d \in Conn, Audio(d) PROVE Paid(c)'
  BY <1>5, <1>13 DEF Audio
<1>14. ASSUME NEW s \in Session,
              OlderAnswered(s) \/ NewestAnswered(s) \/ GenerationFails(s) \/ HttpDelete(s)
       PROVE  Paid(c)'
  BY <1>5, <1>14 DEF OlderAnswered, NewestAnswered, GenerationFails, HttpDelete, gatewayVars
<1>15. CASE UNCHANGED vars
  BY <1>5, <1>15 DEF vars, gatewayVars
<1>16. ASSUME NEW d \in Conn,
              \/ Connect(d) \/ \E m \in ControlMessage : Receive(d, m)
              \/ Audio(d) \/ SocketCloses(d) \/ RelayClosed(d)
              \/ HandlerStep(d) \/ AuthFails(d) \/ StartFails(d)
       PROVE  Paid(c)'
  BY <1>7, <1>8, <1>9, <1>10, <1>13, <1>16 DEF HandlerStep
<1> QED
  BY <1>11, <1>12, <1>14, <1>15, <1>16 DEF GatewayNext, ProcessCrash

\* One slot gets a call x that suits its task; what waits elsewhere stays.
LEMMA CallPut ==
    ASSUME LinkInv, BillInv, CallsAreOfTasks, NEW k \in Call, NEW x, Resume(k, x),
           GoodCall(task'[k], x),
           \A j \in Call : j # k /\ calls[j].at \in Metering => task'[j] = task[j]
    PROVE  CallsAreOfTasks'
<1>1. calls'[k] = x /\ \A j \in Call : j # k => calls'[j] = calls[j]
  BY TableFacts DEF Resume
<1> SUFFICES ASSUME NEW j \in Call
             PROVE  GoodCall(task'[j], calls'[j])
  BY DEF CallsAreOfTasks, GoodCall
<1>2. CASE j = k
  BY <1>1, <1>2
<1>3. CASE j # k
  BY <1>1, <1>3 DEF CallsAreOfTasks, GoodCall
<1> QED
  BY <1>2, <1>3

\* No call moves, and no task that waits for one.
LEMMA CallsWait ==
    ASSUME CallsAreOfTasks, UNCHANGED calls,
           \A j \in Call : calls[j].at \in Metering => task'[j] = task[j]
    PROVE  CallsAreOfTasks'
BY DEF CallsAreOfTasks, GoodCall

\* An idle call, and one that begins.
LEMMA GoodCalls ==
    /\ \A t, s, d : GoodCall(t, IdleCall)
    /\ \A t, s, reason : GoodCall(t, [IdleCall EXCEPT !.at = "session_get", !.session = s,
                                                      !.reason = reason])
    /\ \A c, s, d : LET x == [IdleCall EXCEPT !.at = "usage_get", !.session = s, !.delta = d] IN
          /\ GoodCall(TaskOf("meter", c, s), x)
          /\ d = LlmUsage => GoodCall(TaskOf("usage", c, s), x)
<1>1. \A s, reason : [IdleCall EXCEPT !.at = "session_get", !.session = s,
                                      !.reason = reason].at = "session_get"
  BY DEF IdleCall
<1>2. ASSUME NEW c, NEW s, NEW d
      PROVE  LET x == [IdleCall EXCEPT !.at = "usage_get", !.session = s, !.delta = d] IN
             /\ GoodCall(TaskOf("meter", c, s), x)
             /\ d = LlmUsage => GoodCall(TaskOf("usage", c, s), x)
  <2> DEFINE x == [IdleCall EXCEPT !.at = "usage_get", !.session = s, !.delta = d]
  <2>1. x.session = s /\ x.delta = d
    BY DEF IdleCall
  <2>2. /\ TaskOf("meter", c, s).kind = "meter" /\ TaskOf("meter", c, s).session = s
        /\ TaskOf("usage", c, s).kind = "usage"
    BY DEF TaskOf, NoTask
  <2>3. LlmUsage.llm > 0
    BY DEF LlmUsage
  <2> HIDE DEF x
  <2>4. GoodCall(TaskOf("meter", c, s), x) /\ (d = LlmUsage => GoodCall(TaskOf("usage", c, s), x))
    BY <2>1, <2>2, <2>3 DEF GoodCall
  <2> QED
    BY <2>4 DEF x
<1>3. IdleCall.at = "idle"
  BY DEF IdleCall
<1> QED
  BY <1>1, <1>2, <1>3 DEF GoodCall, Metering

\* Metering begins in a free slot of tasks, and so may a finalize.
LEMMA MeterGood ==
    ASSUME LinkInv, BillInv, CallsAreOfTasks, NEW tasks, DOMAIN tasks = Call,
           \A j \in Call : calls[j].at \in Metering => tasks[j] = task[j],
           \/ \E c, s, n : Meter(c, s, n, tasks)
           \/ \E c, new, reason, orchs : BeginFinalize(c, new, reason, orchs, tasks)
    PROVE  CallsAreOfTasks'
<1>1. ASSUME NEW c, NEW s, NEW n, Meter(c, s, n, tasks)
      PROVE  CallsAreOfTasks'
  <2>1. PICK k \in Call : /\ RecordUsage(k, s, SttUsage(n))
                          /\ task' = [tasks EXCEPT ![k] = TaskOf("meter", c, s)]
    BY <1>1 DEF Meter
  <2>2. /\ task'[k] = TaskOf("meter", c, s)
        /\ \A j \in Call : j # k /\ calls[j].at \in Metering => task'[j] = task[j]
    BY <2>1
  <2> DEFINE x == [IdleCall EXCEPT !.at = "usage_get", !.session = s, !.delta = SttUsage(n)]
  <2>3. Resume(k, x) /\ GoodCall(TaskOf("meter", c, s), x)
    BY <2>1, GoodCalls DEF RecordUsage
  <2> HIDE DEF x
  <2> QED
    BY <2>2, <2>3, CallPut
<1>2. CASE UNCHANGED calls /\ task' = tasks
  BY <1>2, CallsWait
<1> QED
  BY <1>1, <1>2 DEF BeginFinalize, creditsVars

\* A statement takes a call on; only the first read leaves it metering.
LEMMA StatementGood ==
    ASSUME LinkInv, BillInv, CallsAreOfTasks, NEW k \in Call, Statement(k)
    PROVE  CallsAreOfTasks'
<1>1. calls[k] \in CallRecord /\ task' = task
  BY TableFacts DEF Statement, gatewayVars
<1>2. CASE UsageGet(k)
  <2> DEFINE x == [calls[k] EXCEPT !.at = "usage_upsert", !.seen = usage[calls[k].session]]
  <2>1. x.session = calls[k].session /\ x.delta = calls[k].delta
    BY <1>1 DEF CallRecord
  <2>2. Resume(k, x) /\ calls[k].at = "usage_get"
    BY <1>2 DEF UsageGet
  <2> HIDE DEF x
  <2>3. GoodCall(task[k], x)
    BY <2>1, <2>2 DEF CallsAreOfTasks, GoodCall, Metering
  <2> QED
    BY <1>1, <2>2, <2>3, CallPut
<1>3. ASSUME NEW x, Resume(k, x), x.at \notin Metering
      PROVE  CallsAreOfTasks'
  BY <1>1, <1>3, CallPut DEF GoodCall
<1>4. ASSUME NEW at, at \notin Metering, Resume(k, [calls[k] EXCEPT !.at = at])
      PROVE  CallsAreOfTasks'
  <2> DEFINE x == [calls[k] EXCEPT !.at = at]
  <2>1. x.at = at
    BY <1>1 DEF CallRecord
  <2> QED
    BY <1>3, <1>4, <2>1
<1>5. CASE UsageStored(k) \/ MarkFinalized(k)
  <2>1. PICK at \in {"returned", "rejected", "append"} : Resume(k, [calls[k] EXCEPT !.at = at])
    BY <1>5 DEF UsageStored, MarkFinalized
  <2> QED
    BY <1>4, <2>1 DEF Metering
<1>6. CASE UsageRefused(k) \/ AlreadyFinalized(k) \/ DebitRefused(k) \/ StatementLost(k)
  <2>1. PICK at \in {"returned", "rejected"} : Resume(k, [calls[k] EXCEPT !.at = at])
    BY <1>6 DEF UsageRefused, AlreadyFinalized, DebitRefused, StatementLost
  <2> QED
    BY <1>4, <2>1 DEF Metering
<1>7. CASE SessionGet(k)
  <2> DEFINE x == [calls[k] EXCEPT !.at = "final_usage_get", !.row = sessions[calls[k].session]]
  <2>1. x.at \notin Metering
    BY <1>1 DEF CallRecord, Metering
  <2> QED
    BY <1>3, <1>7, <2>1 DEF SessionGet
<1>8. CASE FinalUsageGet(k)
  <2> DEFINE x == [calls[k] EXCEPT !.seen = usage[calls[k].session],
                                   !.at = IF calls[k].row = NoRow THEN "returned" ELSE "mark"]
  <2>1. x.at \notin Metering
    BY <1>1 DEF CallRecord, Metering
  <2> QED
    BY <1>3, <1>8, <2>1 DEF FinalUsageGet
<1>9. CASE AppendDebit(k)
  <2>1. PICK ok \in Reply :
          Resume(k, [calls[k] EXCEPT !.at = IF ok THEN "returned" ELSE "rejected", !.finalized = ok])
    BY <1>9 DEF AppendDebit
  <2> DEFINE x == [calls[k] EXCEPT !.at = IF ok THEN "returned" ELSE "rejected", !.finalized = ok]
  <2>2. x.at \notin Metering
    BY <1>1 DEF CallRecord, Metering
  <2> QED
    BY <1>3, <2>1, <2>2
<1> QED
  BY <1>2, <1>5, <1>6, <1>7, <1>8, <1>9 DEF Statement, CallStep

\* Every step keeps calls and tasks together.
LEMMA CallsStepInv ==
    ASSUME LinkInv, BillInv, CallsAreOfTasks, [GatewayNext]_vars
    PROVE  CallsAreOfTasks'
<1>1. ASSUME UNCHANGED <<task, calls>>
      PROVE  CallsAreOfTasks'
  BY <1>1, CallsWait
<1>2. DOMAIN task = Call /\ \A j \in Call : calls[j].at \in Metering =>
         task[j].kind \in {"meter", "usage"}
  BY DEF LinkInv, GatewayShape, CallsHaveTasks, Metering
<1>3. ASSUME NEW c \in Conn,
             \/ Connect(c) \/ \E m \in ControlMessage : Receive(c, m)
             \/ Audio(c) \/ SocketCloses(c) \/ RelayClosed(c)
             \/ HandlerStep(c) \/ AuthFails(c) \/ StartFails(c)
      PROVE  CallsAreOfTasks'
  <2>1. CASE \/ Connect(c) \/ \E m \in ControlMessage : Receive(c, m)
             \/ HandleAuth(c) \/ HandleStart(c)
             \/ AuthOk(c) \/ StartChecked(c) \/ AuthFails(c) \/ StartFails(c)
    BY <1>1, <2>1, ConversationMoves DEF creditsVars
  <2>2. CASE HandleQuestion(c) \/ StartCreated(c)
    BY <1>1, <2>2 DEF HandleQuestion, StartCreated, CreateSession, creditsVars
  <2>3. CASE Audio(c)
    BY <1>1, <1>2, <2>3, MeterGood DEF Audio, creditsVars
  <2>4. CASE SocketCloses(c) \/ HandleStop(c)
    BY <1>1, <1>2, <2>4, MeterGood DEF SocketCloses, HandleStop, creditsVars
  <2>5. CASE RelayClosed(c)
    <3>1. PICK j \in Call : /\ task[j] = NoTask
                            /\ FinalizeSession(j, conn[c].current, conn[c].reason)
                            /\ task' = [task EXCEPT ![j] = TaskOf("finalize", c, conn[c].current)]
      BY <2>5 DEF RelayClosed
    <3> DEFINE x == [IdleCall EXCEPT !.at = "session_get", !.session = conn[c].current,
                                     !.reason = conn[c].reason]
    <3>2. Resume(j, x) /\ GoodCall(task'[j], x)
      BY <3>1, GoodCalls DEF FinalizeSession
    <3> HIDE DEF x
    <3> QED
      BY <1>2, <3>1, <3>2, CallPut
  <2> QED
    BY <1>3, <2>1, <2>2, <2>3, <2>4, <2>5 DEF HandlerStep
<1>4. ASSUME NEW s \in Session, OlderAnswered(s) \/ NewestAnswered(s)
      PROVE  CallsAreOfTasks'
  <2>1. PICK k \in Call, i \in Call :
           /\ task[k] = NoTask /\ task[i] = NoTask /\ RecordUsage(k, s, LlmUsage)
           /\ task'[k] = TaskOf("usage", owner[s], s)
           /\ \A j \in Call : j # k /\ j # i => task'[j] = task[j]
    <3>1. CASE OlderAnswered(s)
      BY <1>2, <3>1 DEF OlderAnswered
    <3>2. CASE NewestAnswered(s)
      BY <1>2, <3>2 DEF NewestAnswered
    <3> QED
      BY <1>4, <3>1, <3>2
  <2>2. \A j \in Call : calls[j].at \in Metering => j # k /\ j # i
    BY <1>2, <2>1, TaskFacts
  <2> DEFINE x == [IdleCall EXCEPT !.at = "usage_get", !.session = s, !.delta = LlmUsage]
  <2>3. Resume(k, x) /\ GoodCall(TaskOf("usage", owner[s], s), x)
    BY <2>1, GoodCalls DEF RecordUsage
  <2> HIDE DEF x
  <2> QED
    BY <2>1, <2>2, <2>3, CallPut
<1>5. ASSUME NEW s \in Session, GenerationFails(s) \/ HttpDelete(s)
      PROVE  CallsAreOfTasks'
  BY <1>1, <1>5 DEF GenerationFails, HttpDelete, DeleteSession, gatewayVars, creditsVars
<1>6. ASSUME NEW k \in Call,
             FinalizeReturned(k) \/ StopFailed(k) \/ MeterReturned(k) \/ UsageReturned(k)
      PROVE  CallsAreOfTasks'
  <2>1. Resume(k, IdleCall) /\ \E t : task' = [task EXCEPT ![k] = t]
    BY <1>6 DEF FinalizeReturned, StopFailed, MeterReturned, UsageReturned, Check, Settle
  <2> QED
    BY <1>2, <2>1, GoodCalls, CallPut
<1>7. ASSUME NEW k \in Call, QnaAppended(k) \/ CheckLedger(k) \/ CheckFails(k)
      PROVE  CallsAreOfTasks'
  <2>1. /\ task[k].kind \in {"qna", "check_ledger", "check_usage"}
        /\ UNCHANGED calls /\ \E t : task' = [task EXCEPT ![k] = t]
    BY <1>7 DEF QnaAppended, CheckLedger, CheckFails, Check, creditsVars
  <2> QED
    BY <1>2, <2>1, CallsWait
<1>8. ASSUME NEW k \in Call, CheckUsage(k)
      PROVE  CallsAreOfTasks'
  <2> DEFINE done == [task EXCEPT ![k] = NoTask]
  <2>1. /\ DOMAIN done = Call
        /\ \A j \in Call : calls[j].at \in Metering => done[j] = task[j]
    BY <1>2, <1>8 DEF CheckUsage
  <2>2. \/ task' = done /\ UNCHANGED calls
        \/ \E c, new, reason, orchs : BeginFinalize(c, new, reason, orchs, done)
    BY <1>8 DEF CheckUsage, creditsVars
  <2> HIDE DEF done
  <2> QED
    BY <2>1, <2>2, CallsWait, MeterGood
<1>9. CASE GatewayNext /\ ProcessDies
  BY <1>9 DEF ProcessDies, IdleCall, CallsAreOfTasks, GoodCall, Metering
<1>10. CASE UNCHANGED vars
  BY <1>1, <1>10 DEF vars, gatewayVars, creditsVars
<1>11. ASSUME NEW k \in Call, TaskStep(k) \/ CheckFails(k) \/ Statement(k)
       PROVE  CallsAreOfTasks' \/ ProcessDies
  BY <1>6, <1>7, <1>8, <1>11, StatementGood DEF TaskStep, RejectionKills, UnhandledRejection
<1> QED
  BY <1>3, <1>4, <1>5, <1>9, <1>10, <1>11 DEF GatewayNext, ProcessCrash, Crash

\* Nothing is used before its session is created.
LEMMA UnmintedStays ==
    ASSUME LinkInv, BillInv, NoticeInv, [GatewayNext]_vars, NEW s \in Session, s \notin minted'
    PROVE  usage'[s] = NoUsage
<1>1. s \notin minted
  BY GatewayServes, GoneStaysGone
<1>2. usage[s] = NoUsage
  BY <1>1 DEF NoticeInv
<1>3. \A k \in Call : UsageStored(k) => calls[k].session # s
  BY <1>1 DEF UsageStored, BillInv, SettlementInv, RowsAreMinted
<1> QED
  BY <1>2, <1>3, OnlyStatementsStore

\* A new session is not out of credits: its start found some, and nothing was
\* charged to its account.
LEMMA NewIsUnspent ==
    ASSUME LinkInv, BillInv, NoticeInv, NEW c \in Conn, StartCreated(c),
           NEW s \in minted', s \notin minted, Alone(s)'
    PROVE  ~Spent(s)'
<1>1. PICK r \in Session : /\ CreateSession(r, conn[c].account, ModeOf[conn[c].account])
                           /\ owner' = [owner EXCEPT ![r] = c]
  BY DEF StartCreated
<1>2. r = s /\ UNCHANGED <<usage, ledger>> /\ s \in Session
  BY <1>1 DEF CreateSession
<1>3. owner'[s] = c
  BY <1>1, <1>2 DEF LinkInv, GatewayShape
<1>4. usage'[s] = NoUsage
  BY <1>2 DEF NoticeInv
<1>5. \A i \in DOMAIN ledger : ledger[i].account # TokenOf[c]
  BY <1>2, <1>3 DEF Alone, ChargedAlone, BillInv, SettlementInv, RowsAreMinted
<1>6. ModeOf[TokenOf[c]] = "enforced"
  BY <1>3 DEF Alone, Enforced
<1>7. Opening[TokenOf[c]] > 0 /\ Opening[TokenOf[c]] \in Int
  BY <1>5, <1>6, GatewayAssumption, CreditsAssumption DEF NoticeInv, Paid, StartCreated
<1>8. CreditsFor(usage[s])' = 0
  BY <1>4, CreditsAssumption DEF CreditsFor, NoUsage
<1> QED
  BY <1>3, <1>7, <1>8 DEF Spent

\* Only a start mints a session.
LEMMA OnlyStartsMint ==
    ASSUME LinkInv, BillInv, [GatewayNext]_vars, minted' # minted
    PROVE  \E c \in Conn : StartCreated(c)
<1>1. ASSUME NEW c \in Conn,
             \/ Connect(c) \/ \E m \in ControlMessage : Receive(c, m)
             \/ Audio(c) \/ SocketCloses(c) \/ RelayClosed(c)
             \/ HandlerStep(c) \/ AuthFails(c) \/ StartFails(c)
      PROVE  minted' = minted \/ StartCreated(c)
  <2>1. CASE \/ Connect(c) \/ \E m \in ControlMessage : Receive(c, m)
             \/ HandleAuth(c) \/ HandleStart(c)
             \/ AuthOk(c) \/ StartChecked(c) \/ AuthFails(c) \/ StartFails(c)
    BY <2>1, ConversationMoves DEF creditsVars
  <2>2. CASE \/ HandleQuestion(c) \/ Audio(c) \/ RelayClosed(c) \/ SocketCloses(c) \/ HandleStop(c)
    BY <2>2 DEF HandleQuestion, Audio, RelayClosed, SocketCloses, HandleStop, BeginFinalize, Meter,
                RecordUsage, FinalizeSession, creditsVars
  <2> QED
    BY <1>1, <2>1, <2>2 DEF HandlerStep
<1>2. ASSUME NEW s \in Session,
             OlderAnswered(s) \/ NewestAnswered(s) \/ GenerationFails(s) \/ HttpDelete(s)
      PROVE  minted' = minted
  BY <1>2 DEF OlderAnswered, NewestAnswered, GenerationFails, HttpDelete, DeleteSession, RecordUsage,
              creditsVars
<1>3. ASSUME NEW k \in Call, TaskStep(k) \/ CheckFails(k) \/ Statement(k)
      PROVE  minted' = minted
  <2>1. CASE TaskStep(k) \/ CheckFails(k)
    BY <2>1 DEF TaskStep, CheckFails, FinalizeReturned, StopFailed, RejectionKills, MeterReturned,
                UsageReturned, QnaAppended, CheckLedger, CheckUsage, BeginFinalize, Meter,
                RecordUsage, Settle, UnhandledRejection, ProcessDies, creditsVars
  <2>2. CASE Statement(k)
    BY <2>2, StatementMoves DEF Statement, CallMoves
  <2> QED
    BY <1>3, <2>1, <2>2
<1>4. CASE ProcessCrash \/ UNCHANGED vars
  BY <1>4 DEF ProcessCrash, Crash, ProcessDies, vars, creditsVars
<1> QED
  BY <1>1, <1>2, <1>3, <1>4 DEF GatewayNext

\* Every step keeps what was noticed.
LEMMA NoticeStepInv ==
    ASSUME LinkInv, BillInv, BalancesAdd, NoticeInv, [GatewayNext]_vars
    PROVE  NoticeInv'
<1>1. CallsAreOfTasks'
  BY CallsStepInv DEF NoticeInv
<1>2. ASSUME NEW c \in Conn
      PROVE  Paid(c)'
  BY PaidStays DEF NoticeInv
<1>3. ASSUME NEW s \in Session, s \notin minted'
      PROVE  usage'[s] = NoUsage
  BY <1>3, UnmintedStays
<1>4. ASSUME NEW s \in Session, Alone(s)', Spent(s)'
      PROVE  Found(s)'
  <2>1. CASE s \in minted
    BY <1>4, <2>1, FoundStays
  <2>2. CASE s \notin minted
    <3>1. s \in minted'
      BY <1>4, LinkStepInv DEF Alone, LinkInv, ConnectionsOwn
    <3>2. PICK c \in Conn : StartCreated(c)
      BY <2>2, <3>1, OnlyStartsMint
    <3> QED
      BY <1>4, <2>2, <3>1, <3>2, NewIsUnspent
  <2> QED
    BY <2>1, <2>2
<1> QED
  BY <1>1, <1>2, <1>3, <1>4 DEF NoticeInv

\* At first there is no session, and nothing has started.
LEMMA NoticeInitInv == GatewayInit => NoticeInv
<1> SUFFICES ASSUME GatewayInit
             PROVE  NoticeInv
  OBVIOUS
<1>1. CallsAreOfTasks
  BY DEF GatewayInit, CreditsInit, IdleCall, CallsAreOfTasks, GoodCall, Metering
<1>2. \A c \in Conn : Paid(c)
  BY DEF GatewayInit, NewConnection, Paid
<1>3. \A s \in Session : usage[s] = NoUsage /\ ~Alone(s)
  BY DEF GatewayInit, CreditsInit, Alone
<1> QED
  BY <1>1, <1>2, <1>3 DEF NoticeInv

\* AudioExhaustionNoticed, of checkCredits after every recordUsage of a relay:
\* whatever other checks, calls and generations run in between, audio alone
\* does not take an enforced session past its credits without the session
\* being found exhausted and stopped, unless the balance also fell by the
\* settlement of another session.
THEOREM AudioExhaustionAlwaysNoticed == GatewaySpec => []AudioExhaustionNoticed
<1>1. LinkInv /\ BillInv /\ BalancesAdd /\ NoticeInv => AudioExhaustionNoticed
  <2> SUFFICES ASSUME LinkInv, BillInv, BalancesAdd, NoticeInv, NEW s \in Session,
                      owner[s] # NoConn, recorded[s].llm = 0, ChargedAlone(s),
                      Claimable(s), s \notin stranded, Enforced(s), MeteringQuiet(s),
                      LedgerBalance(TokenOf[owner[s]]) - CreditsFor(usage[s]) <= 0
               PROVE  orch[s].exhausted \/ Finalizing(owner[s])
    BY DEF AudioExhaustionNoticed, Noticed
  <2>1. TokenOf[owner[s]] \in Account
    BY GatewayAssumption DEF LinkInv, GatewayShape
  <2>2. LedgerBalance(TokenOf[owner[s]]) = Opening[TokenOf[owner[s]]]
    BY <2>1, AloneUncharged, UnchargedBalance
  <2>3. Found(s)
    BY <2>2 DEF NoticeInv, Alone, Spent
  <2>4. \A k \in Call : ~Checking(k, s)
    BY DEF MeteringQuiet, Checking
  <2> QED
    BY <2>3, <2>4 DEF Found
<1>2. LinkInv /\ BillInv /\ BalancesAdd /\ NoticeInv /\ [GatewayNext]_vars => NoticeInv'
  BY NoticeStepInv
<1> QED
  BY <1>1, <1>2, NoticeInitInv, BalanceIsTotal, GatewayAlways, PTL DEF GatewaySpec
==================================================================================
