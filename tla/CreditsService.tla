---------------------------- MODULE CreditsService ----------------------------
(***************************************************************************)
(* The credits service of the backend and the four tables it reads and     *)
(* writes: sessions, usage_records, credit_ledger and (through deletion)   *)
(* their foreign keys.                                                     *)
(*                                                                         *)
(* recordUsage and finalizeSession are async functions: each awaited       *)
(* repository call is one SQL statement, so each is one action here, and   *)
(* any number of calls may be interleaved at their awaits.  A call runs in *)
(* a slot of the set Call; the slots bound how many are in flight.         *)
(* A statement may be lost before it reaches the database, or its reply    *)
(* may be lost after it took effect: both reject the call.                 *)
(***************************************************************************)
EXTENDS Integers, Sequences, FiniteSets, FiniteSetsExt

CONSTANTS
    Account,    \* account ids
    Session,    \* the uuids sessions.create may draw
    Call,       \* slots for calls of the service that are in flight
    NoSession,  \* the null of credit_ledger.session_id
    NoRow,      \* repos.sessions.get(id) = null
    SttRate,    \* ConversionRate.creditsPerSttMinute
    LlmRate,    \* ConversionRate.creditsPerLlmToken
    Opening,    \* sum of an account's purchase-credit entries
    Delta,      \* the usage increments one recordUsage call may carry
    Trigger,    \* the end reasons a caller finalizes with
    MaxUnits,   \* bound: units of usage recorded for a session
    MaxFaults   \* bound: statements lost, replies lost and process crashes

Mode == {"enforced", "bypassed"}
EndReason == {"user-ended", "credits-exhausted", "disconnected"}
NotEnded == "open"

Usage == [stt : Nat, llm : Nat]
NoUsage == [stt |-> 0, llm |-> 0]
AddUsage(u, v) == [stt |-> u.stt + v.stt, llm |-> u.llm + v.llm]

ASSUME CreditsAssumption ==
    /\ SttRate \in Nat
    /\ LlmRate \in Nat
    /\ Opening \in [Account -> Int]
    /\ Delta \subseteq Usage
    /\ Trigger \subseteq EndReason
    /\ MaxFaults \in Nat
    /\ MaxUnits \in Nat
    /\ NoSession \notin Session
    /\ NoRow \notin [account : Account, enforcement : Mode, ended : EndReason \cup {NotEnded}]

VARIABLES
    sessions,   \* the sessions table
    minted,     \* uuids drawn so far: gen_random_uuid() never repeats one
    usage,      \* the usage_records table (absent reads as zero)
    ledger,     \* the credit_ledger table, in append order
    calls,      \* the calls in flight
    recorded,   \* history: usage whose recordUsage call took effect
    lost,       \* history: sessions whose claimed debit met a fault
    faults      \* faults so far

creditsVars == <<sessions, minted, usage, ledger, calls, recorded, lost, faults>>

SessionRow == [account : Account, enforcement : Mode, ended : EndReason \cup {NotEnded}]
DebitType == {"usage-debit", "non-enforced-debit"}

\* debitOf is history: the session an entry was written for, which the row
\* itself forgets when the session is deleted.
LedgerEntry == [account : Account, type : DebitType, amount : Int,
                sessionId : Session \cup {NoSession}, debitOf : Session]

AwaitPoint == {"usage_get", "usage_upsert",
               "session_get", "final_usage_get", "mark", "append"}

CallRecord == [at : AwaitPoint \cup {"idle", "returned", "rejected"},
               session : Session \cup {NoSession},
               delta : Usage,
               seen : Usage,
               row : SessionRow \cup {NoRow},
               reason : EndReason,
               finalized : BOOLEAN]

IdleCall == [at |-> "idle", session |-> NoSession, delta |-> NoUsage, seen |-> NoUsage,
             row |-> NoRow, reason |-> "disconnected", finalized |-> FALSE]

CreditsTypeOK ==
    /\ sessions \in [Session -> SessionRow \cup {NoRow}]
    /\ minted \in SUBSET Session
    /\ usage \in [Session -> Usage]
    /\ ledger \in Seq(LedgerEntry)
    /\ calls \in [Call -> CallRecord]
    /\ recorded \in [Session -> Usage]
    /\ lost \in SUBSET Session
    /\ faults \in Nat

\* A call in flight is for a session, and one that claims has read its row.
CallsWellFormed ==
    \A k \in Call :
        /\ calls[k].at # "idle" => calls[k].session \in Session
        /\ calls[k].at \in {"mark", "append"} => calls[k].row # NoRow

CreditsInit ==
    /\ sessions = [s \in Session |-> NoRow]
    /\ minted = {}
    /\ usage = [s \in Session |-> NoUsage]
    /\ ledger = <<>>
    /\ calls = [k \in Call |-> IdleCall]
    /\ recorded = [s \in Session |-> NoUsage]
    /\ lost = {}
    /\ faults = 0

-----------------------------------------------------------------------------
(* Credit arithmetic (shared/credits.ts) and the read-only queries.  A      *)
(* caller evaluates them at its own await.                                  *)

CreditsFor(u) == SttRate * u.stt + LlmRate * u.llm

\* Mutant: debits of bypassed sessions count, too.
AffectsBalanceAlways(type) == TRUE

AffectsBalance(type) == type # "non-enforced-debit"

LedgerBalance(a) ==
    LET mine == {i \in DOMAIN ledger : ledger[i].account = a /\ AffectsBalance(ledger[i].type)}
    IN  Opening[a] + MapThenSumSet(LAMBDA i : ledger[i].amount, mine)

PreSessionAuthorized(balance, mode) == mode = "bypassed" \/ balance > 0

\* liveBalance awaits the ledger first and the usage record second: the
\* caller passes the balance it read at the first await.
LiveBalance(balance, s, mode) ==
    IF mode = "bypassed" THEN balance ELSE balance - CreditsFor(usage[s])

\* Mutant: a session may run at a balance of zero.
IsExhaustedBelowZero(live, mode) == mode = "enforced" /\ live < 0

IsExhausted(live, mode) == mode = "enforced" /\ live <= 0

-----------------------------------------------------------------------------
(* Replies: TRUE when the statement's reply arrives, FALSE when the         *)
(* statement took effect but its reply was lost.                            *)

Reply == IF faults < MaxFaults THEN BOOLEAN ELSE {TRUE}
CountFault(ok) == faults' = IF ok THEN faults ELSE faults + 1

\* A call that reads at an await point and goes on to the next one.
Resume(k, next) == calls' = [calls EXCEPT ![k] = next]

-----------------------------------------------------------------------------
(* repos.sessions.create and deleteSession                                  *)

CreateSession(s, a, mode) ==
    /\ s \notin minted
    /\ minted' = minted \cup {s}
    /\ sessions' = [sessions EXCEPT ![s] =
                      [account |-> a, enforcement |-> mode, ended |-> NotEnded]]
    /\ UNCHANGED <<usage, ledger, calls, recorded, lost, faults>>

\* Mutant: deleting a session refunds its debit.
DetachZeroed(entry, s) ==
    IF entry.sessionId = s THEN [entry EXCEPT !.sessionId = NoSession, !.amount = 0] ELSE entry

\* ON DELETE SET NULL of credit_ledger.session_id
Detach(entry, s) ==
    [entry EXCEPT !.sessionId = IF entry.sessionId = s THEN NoSession ELSE entry.sessionId]

\* Mutant: ON DELETE CASCADE on the ledger as well.
DeleteSessionCascading(s) ==
    /\ sessions[s] # NoRow
    /\ sessions' = [sessions EXCEPT ![s] = NoRow]
    /\ usage' = [usage EXCEPT ![s] = NoUsage]
    /\ ledger' = SelectSeq(ledger, LAMBDA entry : entry.sessionId # s)
    /\ UNCHANGED <<minted, calls, recorded, lost, faults>>

\* DELETE FROM sessions: the usage record cascades, the ledger rows stay.
DeleteSession(s) ==
    /\ sessions[s] # NoRow
    /\ sessions' = [sessions EXCEPT ![s] = NoRow]
    /\ usage' = [usage EXCEPT ![s] = NoUsage]
    /\ ledger' = [i \in DOMAIN ledger |-> Detach(ledger[i], s)]
    /\ UNCHANGED <<minted, calls, recorded, lost, faults>>

-----------------------------------------------------------------------------
(* recordUsage: read the record, await, write back the merged one.          *)

RecordUsage(k, s, d) ==
    /\ calls[k].at = "idle"
    /\ Resume(k, [IdleCall EXCEPT !.at = "usage_get", !.session = s, !.delta = d])
    /\ UNCHANGED <<sessions, minted, usage, ledger, recorded, lost, faults>>

UsageGet(k) ==
    /\ calls[k].at = "usage_get"
    /\ Resume(k, [calls[k] EXCEPT !.at = "usage_upsert", !.seen = usage[calls[k].session]])
    /\ UNCHANGED <<sessions, minted, usage, ledger, recorded, lost, faults>>

\* Mutant: the increment is added to the stored value, too.
MergedTwice(c) == AddUsage(usage[c.session], AddUsage(c.delta, c.delta))

Merged(c) == AddUsage(c.seen, c.delta)

UsageStored(k) ==
    LET s == calls[k].session IN
    /\ calls[k].at = "usage_upsert"
    /\ sessions[s] # NoRow
    /\ usage' = [usage EXCEPT ![s] = Merged(calls[k])]
    /\ recorded' = [recorded EXCEPT ![s] = AddUsage(@, calls[k].delta)]
    /\ \E ok \in Reply :
          /\ CountFault(ok)
          /\ Resume(k, [calls[k] EXCEPT !.at = IF ok THEN "returned" ELSE "rejected"])
    /\ UNCHANGED <<sessions, minted, ledger, lost>>

\* usage_records.session_id references a session that was deleted.
UsageRefused(k) ==
    /\ calls[k].at = "usage_upsert"
    /\ sessions[calls[k].session] = NoRow
    /\ Resume(k, [calls[k] EXCEPT !.at = "rejected"])
    /\ UNCHANGED <<sessions, minted, usage, ledger, recorded, lost, faults>>

-----------------------------------------------------------------------------
(* finalizeSession: read session and usage, claim the session, append the   *)
(* debit.                                                                   *)

FinalizeSession(k, s, reason) ==
    /\ calls[k].at = "idle"
    /\ Resume(k, [IdleCall EXCEPT !.at = "session_get", !.session = s, !.reason = reason])
    /\ UNCHANGED <<sessions, minted, usage, ledger, recorded, lost, faults>>

SessionGet(k) ==
    /\ calls[k].at = "session_get"
    /\ Resume(k, [calls[k] EXCEPT !.at = "final_usage_get", !.row = sessions[calls[k].session]])
    /\ UNCHANGED <<sessions, minted, usage, ledger, recorded, lost, faults>>

FinalUsageGet(k) ==
    /\ calls[k].at = "final_usage_get"
    /\ Resume(k, [calls[k] EXCEPT !.seen = usage[calls[k].session],
                                  !.at = IF calls[k].row = NoRow THEN "returned" ELSE "mark"])
    /\ UNCHANGED <<sessions, minted, usage, ledger, recorded, lost, faults>>

\* UPDATE sessions ... WHERE id = $1 AND finalized_at IS NULL
Claimable(s) == sessions[s] # NoRow /\ sessions[s].ended = NotEnded

\* Mutant: the UPDATE forgets finalized_at IS NULL.
MarkFinalizedAgain(k) ==
    LET s == calls[k].session IN
    /\ calls[k].at = "mark"
    /\ sessions[s] # NoRow
    /\ sessions' = [sessions EXCEPT ![s].ended = calls[k].reason]
    /\ Resume(k, [calls[k] EXCEPT !.at = "append"])
    /\ UNCHANGED <<minted, usage, ledger, recorded, lost, faults>>

MarkFinalized(k) ==
    LET s == calls[k].session IN
    /\ calls[k].at = "mark"
    /\ Claimable(s)
    /\ sessions' = [sessions EXCEPT ![s].ended = calls[k].reason]
    /\ \E ok \in Reply :
          /\ CountFault(ok)
          /\ Resume(k, [calls[k] EXCEPT !.at = IF ok THEN "append" ELSE "rejected"])
          /\ lost' = IF ok THEN lost ELSE lost \cup {s}
    /\ UNCHANGED <<minted, usage, ledger, recorded>>

\* Mutant: the call that lost the race reports success.
AlreadyFinalizedReported(k) ==
    /\ calls[k].at = "mark"
    /\ ~Claimable(calls[k].session)
    /\ Resume(k, [calls[k] EXCEPT !.at = "returned", !.finalized = TRUE])
    /\ UNCHANGED <<sessions, minted, usage, ledger, recorded, lost, faults>>

AlreadyFinalized(k) ==
    /\ calls[k].at = "mark"
    /\ ~Claimable(calls[k].session)
    /\ Resume(k, [calls[k] EXCEPT !.at = "returned"])
    /\ UNCHANGED <<sessions, minted, usage, ledger, recorded, lost, faults>>

\* Mutant: a bypassed session is credited.
DebitTypeForPurchase(mode) == IF mode = "enforced" THEN "usage-debit" ELSE "purchase-credit"

DebitTypeFor(mode) == IF mode = "enforced" THEN "usage-debit" ELSE "non-enforced-debit"

DebitEntry(c) ==
    [account |-> c.row.account, type |-> DebitTypeFor(c.row.enforcement),
     amount |-> -CreditsFor(c.seen), sessionId |-> c.session, debitOf |-> c.session]

\* one_debit_per_session: unique (session_id, type) over the debit entries
ViolatesUnique(entry) ==
    \E i \in DOMAIN ledger : /\ ledger[i].sessionId = entry.sessionId
                             /\ ledger[i].type = entry.type

\* Mutant: a session that consumed nothing writes no entry.
InsertDebitIfAny(entry) == IF entry.amount = 0 THEN ledger ELSE Append(ledger, entry)

\* INSERT INTO credit_ledger; a LedgerUniqueViolation is swallowed.
InsertDebit(entry) == IF ViolatesUnique(entry) THEN ledger ELSE Append(ledger, entry)

AppendDebit(k) ==
    /\ calls[k].at = "append"
    /\ sessions[calls[k].session] # NoRow
    /\ ledger' = InsertDebit(DebitEntry(calls[k]))
    /\ \E ok \in Reply :
          /\ CountFault(ok)
          /\ Resume(k, [calls[k] EXCEPT !.at = IF ok THEN "returned" ELSE "rejected",
                                        !.finalized = ok])
    /\ UNCHANGED <<sessions, minted, usage, recorded, lost>>

\* credit_ledger.session_id references a session that was deleted.
DebitRefused(k) ==
    /\ calls[k].at = "append"
    /\ sessions[calls[k].session] = NoRow
    /\ Resume(k, [calls[k] EXCEPT !.at = "rejected"])
    /\ lost' = lost \cup {calls[k].session}
    /\ UNCHANGED <<sessions, minted, usage, ledger, recorded, faults>>

-----------------------------------------------------------------------------
(* How a call ends early, and how its caller takes its outcome.             *)

\* The statement a call awaits never reaches the database.
StatementLost(k) ==
    /\ calls[k].at \in AwaitPoint
    /\ faults < MaxFaults
    /\ faults' = faults + 1
    /\ Resume(k, [calls[k] EXCEPT !.at = "rejected"])
    /\ lost' = IF calls[k].at = "append" THEN lost \cup {calls[k].session} ELSE lost
    /\ UNCHANGED <<sessions, minted, usage, ledger, recorded>>

\* The awaiting caller resumes, and the call is gone.
Settle(k) ==
    /\ calls[k].at \in {"returned", "rejected"}
    /\ Resume(k, IdleCall)
    /\ UNCHANGED <<sessions, minted, usage, ledger, recorded, lost, faults>>

\* The backend process dies; the database survives.
ProcessDies ==
    /\ calls' = [k \in Call |-> IdleCall]
    /\ lost' = lost \cup {s \in Session : \E k \in Call : calls[k].at = "append"
                                                          /\ calls[k].session = s}
    /\ UNCHANGED <<sessions, minted, usage, ledger, recorded>>

Crash ==
    /\ faults < MaxFaults
    /\ faults' = faults + 1
    /\ ProcessDies

\* The caller voided the promise of a call that rejected: nothing in the
\* backend handles unhandledRejection, so node exits.
UnhandledRejection(k) ==
    /\ calls[k].at = "rejected"
    /\ ProcessDies
    /\ UNCHANGED faults

CallStep(k) ==
    \/ UsageGet(k)
    \/ UsageStored(k)
    \/ UsageRefused(k)
    \/ SessionGet(k)
    \/ FinalUsageGet(k)
    \/ MarkFinalized(k)
    \/ AlreadyFinalized(k)
    \/ AppendDebit(k)
    \/ DebitRefused(k)

-----------------------------------------------------------------------------
(* The service under its most general caller: any created session may be   *)
(* metered and finalized, any number of times, at any moment.              *)

Units(u) == u.stt + u.llm

Invoke(k) ==
    \/ \E s \in minted, d \in Delta :
          /\ Units(recorded[s]) + Units(d) <= MaxUnits
          /\ RecordUsage(k, s, d)
    \/ \E s \in minted, r \in Trigger : FinalizeSession(k, s, r)

CreditsNext ==
    \/ \E s \in Session, a \in Account, m \in Mode : CreateSession(s, a, m)
    \/ \E s \in Session : DeleteSession(s)
    \/ \E k \in Call : Invoke(k) \/ CallStep(k) \/ StatementLost(k) \/ Settle(k) \/ UnhandledRejection(k)
    \/ Crash

CreditsSpec == CreditsInit /\ [][CreditsNext]_creditsVars

-----------------------------------------------------------------------------
(* Properties                                                               *)

DebitsOf(s) == {i \in DOMAIN ledger : ledger[i].debitOf = s}

Claiming(s) == \E k \in Call : calls[k].at = "append" /\ calls[k].session = s

\* Two ledger entries are never debits of one session, whatever is retried,
\* raced, deleted or lost (Req 11.1 and 12.7, design Property 2): the row's
\* finalized_at decides who appends.
AtMostOneDebit ==
    \A i, j \in DOMAIN ledger : ledger[i].debitOf = ledger[j].debitOf => i = j

\* A finalized session either has its debit, or a call is about to append
\* it, or a fault hit the call that had claimed it: finalizeSession loses a
\* debit in no other way, and never debits a session it has not claimed.
SettledExactlyOnce ==
    /\ AtMostOneDebit
    /\ \A s \in Session :
          /\ sessions[s] # NoRow /\ ~Claimable(s) =>
                DebitsOf(s) # {} \/ Claiming(s) \/ s \in lost
          /\ Claimable(s) => DebitsOf(s) = {}

\* A call that reports finalized = true reports the amount the ledger holds:
\* the session_summary of the client and the bill agree.
ReportedIsCharged ==
    \A k \in Call : calls[k].at = "returned" /\ calls[k].finalized =>
        \E i \in DebitsOf(calls[k].session) : ledger[i].amount = -CreditsFor(calls[k].seen)

\* No debit exceeds the usage recorded for its session, whichever increments
\* overtook each other: concurrent recordUsage calls may lose an increment
\* but never count one twice.
NeverOvercharged ==
    \A i \in DOMAIN ledger : -ledger[i].amount <= CreditsFor(recorded[ledger[i].debitOf])

\* A balance moves only when an enforced session of that account is settled,
\* and by what that session consumed: sessions of others, bypassed sessions
\* (Property 4), metering and deletion (Property 8) leave it alone.
OnlySettlementMovesBalance ==
    [][\A a \in Account : LedgerBalance(a)' # LedgerBalance(a) =>
          \E k \in Call :
             LET s == calls[k].session IN
             /\ calls[k].at = "append" /\ sessions[s] # NoRow
             /\ sessions[s].account = a /\ sessions[s].enforcement = "enforced"
             /\ LedgerBalance(a)' = LedgerBalance(a) - CreditsFor(calls[k].seen)
      ]_creditsVars

\* Entries are never changed or removed, except that deleting a session
\* clears the reference to it (Req 11.3, Req 20.4).
LedgerAppendOnly ==
    [][/\ Len(ledger') >= Len(ledger)
       /\ \A i \in DOMAIN ledger :
             /\ ledger'[i].amount = ledger[i].amount
             /\ ledger'[i].type = ledger[i].type
             /\ ledger'[i].account = ledger[i].account
             /\ ledger'[i].debitOf = ledger[i].debitOf
             /\ \/ ledger'[i].sessionId = ledger[i].sessionId
                \/ ledger'[i].sessionId = NoSession /\ sessions'[ledger[i].debitOf] = NoRow
      ]_creditsVars

\* A finalized session stays finalized, with the reason of the call that won:
\* a later disconnect never relabels a session the user ended.
FirstReasonWins ==
    [][\A s \in Session :
          sessions[s] # NoRow /\ ~Claimable(s) =>
             sessions'[s] = sessions[s] \/ sessions'[s] = NoRow]_creditsVars

-----------------------------------------------------------------------------
(* What the documents say, and the code does not do: see the README.         *)

\* recordUsage accumulates (creditsService.ts:94): the record equals the sum
\* of the increments whose call took effect.
UsageAccumulates ==
    \A s \in Session : sessions[s] # NoRow => usage[s] = recorded[s]

\* Every finalized session has its debit once the call that claimed it is
\* over (Req 11.1).
FinalizedHasDebit ==
    \A s \in Session :
        sessions[s] # NoRow /\ ~Claimable(s) => DebitsOf(s) # {} \/ Claiming(s)
=============================================================================
