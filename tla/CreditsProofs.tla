----------------------------- MODULE CreditsProofs -----------------------------
(***************************************************************************)
(* What holds of the credits service for every set of accounts, sessions   *)
(* and concurrent calls, every rate and every number of faults: no session *)
(* is settled twice, none is charged more than was recorded for it, an     *)
(* ended session and a ledger entry stay what they are, what is reported   *)
(* is charged, only a settlement moves a balance, and the service          *)
(* implements Settlement.                                                  *)
(*                                                                         *)
(* The step lemmas are about ServiceStep, the service under any caller, so *)
(* that the session gateway, which is one, can use them, too.              *)
(***************************************************************************)
EXTENDS CreditsRefinement, FiniteSetTheorems, WellFoundedInduction, TLAPS

-----------------------------------------------------------------------------
(* The service under any caller *)

\* Some caller calls recordUsage or finalizeSession for a session.
Called(k) ==
    \/ \E s \in minted, d \in Usage : RecordUsage(k, s, d)
    \/ \E s \in minted, r \in EndReason : FinalizeSession(k, s, r)

ServiceStep ==
    \/ \E s \in Session, a \in Account, m \in Mode : CreateSession(s, a, m)
    \/ \E s \in Session : DeleteSession(s)
    \/ \E k \in Call : Called(k) \/ CallStep(k) \/ StatementLost(k) \/ Settle(k) \/ UnhandledRejection(k)
    \/ Crash

\* The callers of CreditsSpec are such callers.
LEMMA NextIsServiceStep == [CreditsNext]_creditsVars => [ServiceStep]_creditsVars
BY CreditsAssumption DEF CreditsNext, Invoke, ServiceStep, Called

-----------------------------------------------------------------------------
(* Credit arithmetic *)

\* Usage is added componentwise and stays usage.
LEMMA AddUsageType ==
    ASSUME NEW u \in Usage, NEW v \in Usage
    PROVE  AddUsage(u, v) \in Usage
BY DEF AddUsage, Usage

\* An unused slot holds a well-formed record.
LEMMA IdleCallType == IdleCall \in CallRecord
BY DEF IdleCall, CallRecord, AwaitPoint, Usage, NoUsage, EndReason

\* Usage converts to a non-negative number of credits (shared/credits.ts).
LEMMA CreditsForType ==
    ASSUME NEW u \in Usage
    PROVE  CreditsFor(u) \in Nat
BY CreditsAssumption DEF CreditsFor, Usage

\* A debit is written for the session of the call that claimed it.
LEMMA DebitEntryType ==
    ASSUME NEW c \in CallRecord, c.session \in Session, c.row # NoRow
    PROVE  DebitEntry(c) \in LedgerEntry
<1>1. c.row \in SessionRow /\ c.seen \in Usage
  BY DEF CallRecord
<1>2. -CreditsFor(c.seen) \in Int
  BY <1>1, CreditsForType
<1>3. DebitTypeFor(c.row.enforcement) \in DebitType
  BY DEF DebitTypeFor, DebitType
<1> QED
  BY <1>1, <1>2, <1>3 DEF DebitEntry, LedgerEntry, SessionRow

-----------------------------------------------------------------------------
(* Type correctness *)

\* A function over 1..n is a sequence of length n.
LEMMA FunctionIsSeq ==
    ASSUME NEW S, NEW n \in Nat, NEW f \in [1..n -> S]
    PROVE  f \in Seq(S) /\ Len(f) = n
OBVIOUS

\* Detaching an entry from a session changes nothing but the reference.
LEMMA DetachEntry ==
    ASSUME NEW e \in LedgerEntry, NEW s \in Session
    PROVE  /\ Detach(e, s) \in LedgerEntry
           /\ Detach(e, s).account = e.account
           /\ Detach(e, s).type = e.type
           /\ Detach(e, s).amount = e.amount
           /\ Detach(e, s).debitOf = e.debitOf
           /\ Detach(e, s).sessionId = IF e.sessionId = s THEN NoSession ELSE e.sessionId
BY DEF Detach, LedgerEntry

\* Detaching the whole ledger from a session keeps its length, too.
LEMMA DetachProperties ==
    ASSUME NEW s \in Session, NEW old \in Seq(LedgerEntry),
           NEW new, new = [i \in DOMAIN old |-> Detach(old[i], s)]
    PROVE  /\ new \in Seq(LedgerEntry)
           /\ Len(new) = Len(old)
           /\ \A i \in 1..Len(old) : new[i] = Detach(old[i], s)
<1>1. DOMAIN old = 1..Len(old) /\ Len(old) \in Nat
  OBVIOUS
<1>2. \A i \in 1..Len(old) : old[i] \in LedgerEntry
  OBVIOUS
<1>3. \A i \in 1..Len(old) : Detach(old[i], s) \in LedgerEntry
  BY <1>2, DetachEntry
<1>4. \A i \in 1..Len(old) : new[i] = Detach(old[i], s)
  BY <1>1
<1>5. new \in [1..Len(old) -> LedgerEntry]
  BY <1>1, <1>3, <1>4
<1>6. QED
  BY <1>1, <1>4, <1>5, FunctionIsSeq

\* The record of a call that moves on is still a call record.
LEMMA ResumeType ==
    ASSUME NEW k \in Call, NEW c \in CallRecord,
           calls \in [Call -> CallRecord], Resume(k, c)
    PROVE  /\ calls' \in [Call -> CallRecord]
           /\ calls'[k] = c
           /\ \A j \in Call \ {k} : calls'[j] = calls[j]
BY DEF Resume

\* An empty database and no calls are well typed.
LEMMA CreditsInitType == CreditsInit => CreditsTypeOK /\ CallsWellFormed
<1> SUFFICES ASSUME CreditsInit PROVE CreditsTypeOK /\ CallsWellFormed
  OBVIOUS
<1>1. CreditsTypeOK
  BY IdleCallType DEF CreditsInit, CreditsTypeOK, NoUsage, Usage, LedgerEntry
<1>2. CallsWellFormed
  BY DEF CreditsInit, CallsWellFormed, IdleCall
<1> QED
  BY <1>1, <1>2

\* The type invariant is inductive: one step per action.
LEMMA CreditsStepType ==
    ASSUME CreditsTypeOK, CallsWellFormed, [ServiceStep]_creditsVars
    PROVE  CreditsTypeOK' /\ CallsWellFormed'
<1>t. /\ sessions \in [Session -> SessionRow \cup {NoRow}]
      /\ minted \in SUBSET Session
      /\ usage \in [Session -> Usage]
      /\ ledger \in Seq(LedgerEntry)
      /\ calls \in [Call -> CallRecord]
      /\ recorded \in [Session -> Usage]
      /\ lost \in SUBSET Session
      /\ faults \in Nat
  BY DEF CreditsTypeOK
<1>w. \A k \in Call : /\ calls[k].at # "idle" => calls[k].session \in Session
                      /\ calls[k].at \in {"mark", "append"} => calls[k].row # NoRow
  BY DEF CallsWellFormed
<1>k. \A k \in Call : calls[k] \in CallRecord
  BY <1>t
<1>stay. ASSUME NEW k \in Call, NEW c \in CallRecord, Resume(k, c),
               c.at # "idle" => c.session \in Session,
               c.at \in {"mark", "append"} => c.row # NoRow
         PROVE  calls' \in [Call -> CallRecord] /\ CallsWellFormed'
  <2>1. /\ calls' \in [Call -> CallRecord]
        /\ calls'[k] = c
        /\ \A j \in Call \ {k} : calls'[j] = calls[j]
    BY <1>t, <1>stay, ResumeType
  <2>2. QED
    BY <2>1, <1>w, <1>stay DEF CallsWellFormed
<1>f. ASSUME NEW ok \in Reply, CountFault(ok) PROVE faults' \in Nat
  BY <1>t, <1>f DEF Reply, CountFault
<1>1. ASSUME NEW s \in Session, NEW a \in Account, NEW m \in Mode, CreateSession(s, a, m)
      PROVE  CreditsTypeOK' /\ CallsWellFormed'
  <2>1. [account |-> a, enforcement |-> m, ended |-> NotEnded] \in SessionRow
    BY DEF SessionRow
  <2>2. CreditsTypeOK'
    BY <1>t, <1>1, <2>1 DEF CreateSession, CreditsTypeOK
  <2>3. CallsWellFormed'
    BY <1>w, <1>1 DEF CreateSession, CallsWellFormed
  <2>4. QED
    BY <2>2, <2>3
<1>2. ASSUME NEW s \in Session, DeleteSession(s)
      PROVE  CreditsTypeOK' /\ CallsWellFormed'
  <2>1. ledger' \in Seq(LedgerEntry)
    BY <1>t, <1>2, DetachProperties DEF DeleteSession
  <2>2. NoUsage \in Usage
    BY DEF NoUsage, Usage
  <2>3. CreditsTypeOK'
    BY <1>t, <1>2, <2>1, <2>2 DEF DeleteSession, CreditsTypeOK
  <2>4. CallsWellFormed'
    BY <1>w, <1>2 DEF DeleteSession, CallsWellFormed
  <2>5. QED
    BY <2>3, <2>4
<1>3. ASSUME NEW k \in Call, Called(k)
      PROVE  CreditsTypeOK' /\ CallsWellFormed'
  <2>1. ASSUME NEW s \in minted, NEW d \in Usage, RecordUsage(k, s, d)
        PROVE  CreditsTypeOK' /\ CallsWellFormed'
    <3>1. s \in Session /\ d \in Usage
      BY <1>t, CreditsAssumption
    <3> DEFINE c == [IdleCall EXCEPT !.at = "usage_get", !.session = s, !.delta = d]
    <3>2. c \in CallRecord /\ c.at = "usage_get" /\ c.session = s
      BY <3>1, IdleCallType DEF CallRecord, AwaitPoint
    <3>3. Resume(k, c)
      BY <2>1 DEF RecordUsage
    <3>4. calls' \in [Call -> CallRecord] /\ CallsWellFormed'
      BY <3>1, <3>2, <3>3, <1>stay
    <3>5. QED
      BY <1>t, <2>1, <3>4 DEF RecordUsage, CreditsTypeOK
  <2>2. ASSUME NEW s \in minted, NEW r \in EndReason, FinalizeSession(k, s, r)
        PROVE  CreditsTypeOK' /\ CallsWellFormed'
    <3>1. s \in Session /\ r \in EndReason
      BY <1>t, CreditsAssumption
    <3> DEFINE c == [IdleCall EXCEPT !.at = "session_get", !.session = s, !.reason = r]
    <3>2. c \in CallRecord /\ c.at = "session_get" /\ c.session = s
      BY <3>1, IdleCallType DEF CallRecord, AwaitPoint
    <3>3. Resume(k, c)
      BY <2>2 DEF FinalizeSession
    <3>4. calls' \in [Call -> CallRecord] /\ CallsWellFormed'
      BY <3>1, <3>2, <3>3, <1>stay
    <3>5. QED
      BY <1>t, <2>2, <3>4 DEF FinalizeSession, CreditsTypeOK
  <2>3. QED
    BY <1>3, <2>1, <2>2 DEF Called
<1>4. ASSUME NEW k \in Call, UsageGet(k)
      PROVE  CreditsTypeOK' /\ CallsWellFormed'
  <2>1. calls[k] \in CallRecord /\ calls[k].session \in Session
    BY <1>k, <1>w, <1>4 DEF UsageGet
  <2> DEFINE c == [calls[k] EXCEPT !.at = "usage_upsert", !.seen = usage[calls[k].session]]
  <2>2. c \in CallRecord /\ c.at = "usage_upsert" /\ c.session = calls[k].session
    BY <2>1, <1>t DEF CallRecord, AwaitPoint
  <2>3. calls' \in [Call -> CallRecord] /\ CallsWellFormed'
    BY <1>4, <2>1, <2>2, <1>stay DEF UsageGet
  <2>4. QED
    BY <1>t, <1>4, <2>3 DEF UsageGet, CreditsTypeOK
<1>5. ASSUME NEW k \in Call, UsageStored(k)
      PROVE  CreditsTypeOK' /\ CallsWellFormed'
  <2>1. calls[k] \in CallRecord /\ calls[k].session \in Session
    BY <1>k, <1>w, <1>5 DEF UsageStored
  <2>2. calls[k].seen \in Usage /\ calls[k].delta \in Usage
    BY <2>1 DEF CallRecord
  <2>3. PICK ok \in Reply :
          /\ CountFault(ok)
          /\ Resume(k, [calls[k] EXCEPT !.at = IF ok THEN "returned" ELSE "rejected"])
    BY <1>5 DEF UsageStored
  <2> DEFINE c == [calls[k] EXCEPT !.at = IF ok THEN "returned" ELSE "rejected"]
  <2>4. c \in CallRecord /\ c.at \in {"returned", "rejected"} /\ c.session = calls[k].session
    BY <2>1 DEF CallRecord, AwaitPoint
  <2>5. calls' \in [Call -> CallRecord] /\ CallsWellFormed'
    BY <2>1, <2>3, <2>4, <1>stay
  <2>6. faults' \in Nat
    BY <2>3, <1>f
  <2>7. usage' \in [Session -> Usage]
    <3>1. Merged(calls[k]) \in Usage
      BY <2>2, AddUsageType DEF Merged
    <3>2. QED
      BY <1>t, <1>5, <3>1 DEF UsageStored
  <2>8. recorded' \in [Session -> Usage]
    <3>1. AddUsage(recorded[calls[k].session], calls[k].delta) \in Usage
      BY <1>t, <2>1, <2>2, AddUsageType
    <3>2. QED
      BY <1>t, <1>5, <3>1 DEF UsageStored
  <2>9. QED
    BY <1>t, <1>5, <2>5, <2>6, <2>7, <2>8 DEF UsageStored, CreditsTypeOK
<1>6. ASSUME NEW k \in Call, UsageRefused(k)
      PROVE  CreditsTypeOK' /\ CallsWellFormed'
  <2>1. calls[k] \in CallRecord /\ calls[k].session \in Session
    BY <1>k, <1>w, <1>6 DEF UsageRefused
  <2> DEFINE c == [calls[k] EXCEPT !.at = "rejected"]
  <2>2. c \in CallRecord /\ c.at = "rejected" /\ c.session = calls[k].session
    BY <2>1 DEF CallRecord
  <2>3. calls' \in [Call -> CallRecord] /\ CallsWellFormed'
    BY <1>6, <2>1, <2>2, <1>stay DEF UsageRefused
  <2>4. QED
    BY <1>t, <1>6, <2>3 DEF UsageRefused, CreditsTypeOK
<1>7. ASSUME NEW k \in Call, SessionGet(k)
      PROVE  CreditsTypeOK' /\ CallsWellFormed'
  <2>1. calls[k] \in CallRecord /\ calls[k].session \in Session
    BY <1>k, <1>w, <1>7 DEF SessionGet
  <2> DEFINE c == [calls[k] EXCEPT !.at = "final_usage_get", !.row = sessions[calls[k].session]]
  <2>2. c \in CallRecord /\ c.at = "final_usage_get" /\ c.session = calls[k].session
    BY <2>1, <1>t DEF CallRecord, AwaitPoint
  <2>3. calls' \in [Call -> CallRecord] /\ CallsWellFormed'
    BY <1>7, <2>1, <2>2, <1>stay DEF SessionGet
  <2>4. QED
    BY <1>t, <1>7, <2>3 DEF SessionGet, CreditsTypeOK
<1>8. ASSUME NEW k \in Call, FinalUsageGet(k)
      PROVE  CreditsTypeOK' /\ CallsWellFormed'
  <2>1. calls[k] \in CallRecord /\ calls[k].session \in Session
    BY <1>k, <1>w, <1>8 DEF FinalUsageGet
  <2> DEFINE c == [calls[k] EXCEPT !.seen = usage[calls[k].session],
                                   !.at = IF calls[k].row = NoRow THEN "returned" ELSE "mark"]
  <2>2. /\ c \in CallRecord /\ c.session = calls[k].session /\ c.row = calls[k].row
        /\ c.at = IF calls[k].row = NoRow THEN "returned" ELSE "mark"
    BY <2>1, <1>t DEF CallRecord, AwaitPoint
  <2>wf. /\ c.at # "idle" => c.session \in Session
         /\ c.at \in {"mark", "append"} => c.row # NoRow
    BY <2>1, <2>2
  <2>resume. Resume(k, c)
    BY <1>8 DEF FinalUsageGet
  <2>3. calls' \in [Call -> CallRecord] /\ CallsWellFormed'
    <3> HIDE DEF c
    <3> QED BY <2>2, <2>wf, <2>resume, <1>stay
  <2>4. QED
    BY <1>t, <1>8, <2>3 DEF FinalUsageGet, CreditsTypeOK
<1>9. ASSUME NEW k \in Call, MarkFinalized(k)
      PROVE  CreditsTypeOK' /\ CallsWellFormed'
  <2>1. calls[k] \in CallRecord /\ calls[k].session \in Session /\ calls[k].row # NoRow
    BY <1>k, <1>w, <1>9 DEF MarkFinalized
  <2>2. PICK ok \in Reply :
          /\ CountFault(ok)
          /\ Resume(k, [calls[k] EXCEPT !.at = IF ok THEN "append" ELSE "rejected"])
          /\ lost' = IF ok THEN lost ELSE lost \cup {calls[k].session}
    BY <1>9 DEF MarkFinalized
  <2> DEFINE c == [calls[k] EXCEPT !.at = IF ok THEN "append" ELSE "rejected"]
  <2>3. c \in CallRecord /\ c.session = calls[k].session /\ c.row = calls[k].row /\ c.at # "idle"
    BY <2>1 DEF CallRecord, AwaitPoint
  <2>4. calls' \in [Call -> CallRecord] /\ CallsWellFormed'
    BY <2>1, <2>2, <2>3, <1>stay
  <2>5. faults' \in Nat
    BY <2>2, <1>f
  <2>6. lost' \in SUBSET Session
    BY <1>t, <2>1, <2>2
  <2>7. sessions' \in [Session -> SessionRow \cup {NoRow}]
    <3>1. sessions[calls[k].session] \in SessionRow
      BY <1>t, <1>9, <2>1 DEF MarkFinalized, Claimable
    <3>2. calls[k].reason \in EndReason
      BY <2>1 DEF CallRecord
    <3>3. [sessions[calls[k].session] EXCEPT !.ended = calls[k].reason] \in SessionRow
      BY <3>1, <3>2 DEF SessionRow
    <3>4. QED
      BY <1>t, <1>9, <3>3 DEF MarkFinalized
  <2>8. QED
    BY <1>t, <1>9, <2>4, <2>5, <2>6, <2>7 DEF MarkFinalized, CreditsTypeOK
<1>10. ASSUME NEW k \in Call, AlreadyFinalized(k)
       PROVE  CreditsTypeOK' /\ CallsWellFormed'
  <2>1. calls[k] \in CallRecord /\ calls[k].session \in Session
    BY <1>k, <1>w, <1>10 DEF AlreadyFinalized
  <2> DEFINE c == [calls[k] EXCEPT !.at = "returned"]
  <2>2. c \in CallRecord /\ c.at = "returned" /\ c.session = calls[k].session
    BY <2>1 DEF CallRecord
  <2>3. calls' \in [Call -> CallRecord] /\ CallsWellFormed'
    BY <1>10, <2>1, <2>2, <1>stay DEF AlreadyFinalized
  <2>4. QED
    BY <1>t, <1>10, <2>3 DEF AlreadyFinalized, CreditsTypeOK
<1>11. ASSUME NEW k \in Call, AppendDebit(k)
       PROVE  CreditsTypeOK' /\ CallsWellFormed'
  <2>1. calls[k] \in CallRecord /\ calls[k].session \in Session /\ calls[k].row # NoRow
    BY <1>k, <1>w, <1>11 DEF AppendDebit
  <2>2. PICK ok \in Reply :
          /\ CountFault(ok)
          /\ Resume(k, [calls[k] EXCEPT !.at = IF ok THEN "returned" ELSE "rejected",
                                        !.finalized = ok])
    BY <1>11 DEF AppendDebit
  <2> DEFINE c == [calls[k] EXCEPT !.at = IF ok THEN "returned" ELSE "rejected", !.finalized = ok]
  <2>3. c \in CallRecord /\ c.session = calls[k].session /\ c.at \in {"returned", "rejected"}
    BY <2>1 DEF CallRecord, Reply
  <2>4. calls' \in [Call -> CallRecord] /\ CallsWellFormed'
    BY <2>1, <2>2, <2>3, <1>stay
  <2>5. faults' \in Nat
    BY <2>2, <1>f
  <2>6. ledger' \in Seq(LedgerEntry)
    BY <1>t, <1>11, <2>1, DebitEntryType DEF AppendDebit, InsertDebit
  <2>7. QED
    BY <1>t, <1>11, <2>4, <2>5, <2>6 DEF AppendDebit, CreditsTypeOK
<1>12. ASSUME NEW k \in Call, DebitRefused(k)
       PROVE  CreditsTypeOK' /\ CallsWellFormed'
  <2>1. calls[k] \in CallRecord /\ calls[k].session \in Session
    BY <1>k, <1>w, <1>12 DEF DebitRefused
  <2> DEFINE c == [calls[k] EXCEPT !.at = "rejected"]
  <2>2. c \in CallRecord /\ c.at = "rejected" /\ c.session = calls[k].session
    BY <2>1 DEF CallRecord
  <2>3. calls' \in [Call -> CallRecord] /\ CallsWellFormed'
    BY <1>12, <2>1, <2>2, <1>stay DEF DebitRefused
  <2>4. QED
    BY <1>t, <1>12, <2>1, <2>3 DEF DebitRefused, CreditsTypeOK
<1>13. ASSUME NEW k \in Call, StatementLost(k)
       PROVE  CreditsTypeOK' /\ CallsWellFormed'
  <2>1. calls[k] \in CallRecord /\ calls[k].session \in Session
    BY <1>k, <1>w, <1>13 DEF StatementLost, AwaitPoint
  <2> DEFINE c == [calls[k] EXCEPT !.at = "rejected"]
  <2>2. c \in CallRecord /\ c.at = "rejected" /\ c.session = calls[k].session
    BY <2>1 DEF CallRecord
  <2>3. calls' \in [Call -> CallRecord] /\ CallsWellFormed'
    BY <1>13, <2>1, <2>2, <1>stay DEF StatementLost
  <2>4. QED
    BY <1>t, <1>13, <2>1, <2>3 DEF StatementLost, CreditsTypeOK
<1>14. ASSUME NEW k \in Call, Settle(k)
       PROVE  CreditsTypeOK' /\ CallsWellFormed'
  <2>1. IdleCall \in CallRecord /\ IdleCall.at = "idle"
    BY IdleCallType DEF IdleCall
  <2>2. calls' \in [Call -> CallRecord] /\ CallsWellFormed'
    BY <1>14, <2>1, <1>stay DEF Settle
  <2>3. QED
    BY <1>t, <1>14, <2>2 DEF Settle, CreditsTypeOK
<1>15. ASSUME ProcessDies, faults' \in Nat
       PROVE  CreditsTypeOK' /\ CallsWellFormed'
  <2>1. calls' \in [Call -> CallRecord] /\ CallsWellFormed'
    BY <1>15, IdleCallType DEF ProcessDies, CallsWellFormed, IdleCall
  <2>2. QED
    BY <1>t, <1>15, <2>1 DEF ProcessDies, CreditsTypeOK
<1>16. ASSUME UNCHANGED creditsVars
       PROVE  CreditsTypeOK' /\ CallsWellFormed'
  BY <1>16, CreditsTypeOK, CallsWellFormed DEF CreditsTypeOK, CallsWellFormed, creditsVars
<1>17. QED
  BY <1>1, <1>2, <1>3, <1>4, <1>5, <1>6, <1>7, <1>8, <1>9, <1>10, <1>11, <1>12, <1>13,
     <1>14, <1>15, <1>16, <1>t, [ServiceStep]_creditsVars
  DEF ServiceStep, CallStep, Crash, UnhandledRejection

\* The tables, the calls in flight and the histories keep their types, and a
\* call that claims a session has read its row, for any accounts, sessions,
\* call slots and rates.
THEOREM CreditsTypeCorrect == CreditsSpec => [](CreditsTypeOK /\ CallsWellFormed)
<1>1. CreditsInit => CreditsTypeOK /\ CallsWellFormed
  BY CreditsInitType
<1>2. CreditsTypeOK /\ CallsWellFormed /\ [ServiceStep]_creditsVars
        => CreditsTypeOK' /\ CallsWellFormed'
  BY CreditsStepType
<1>3. QED
  BY <1>1, <1>2, NextIsServiceStep, PTL DEF CreditsSpec

-----------------------------------------------------------------------------
(* Every session is settled exactly once *)

\* Only drawn uuids have rows and calls, and a ledger row refers to the
\* session it was written for or, after a deletion, to none.
RowsAreMinted ==
    /\ \A s \in Session : sessions[s] # NoRow => s \in minted
    /\ \A k \in Call : calls[k].at # "idle" => calls[k].session \in minted
    /\ \A i \in DOMAIN ledger : /\ ledger[i].debitOf \in minted
                                /\ ledger[i].sessionId \in {ledger[i].debitOf, NoSession}

\* A session has one claim, held by a call about to append or used by an
\* entry, and it can then not be claimed again.
ClaimsAreExclusive ==
    /\ \A k \in Call : calls[k].at = "append" => ~Claimable(calls[k].session)
    /\ \A j, k \in Call :
          calls[j].at = "append" /\ calls[k].at = "append" /\ calls[j].session = calls[k].session => j = k
    /\ \A i \in DOMAIN ledger : ~Claimable(ledger[i].debitOf)
    /\ \A i \in DOMAIN ledger, k \in Call : calls[k].at = "append" => calls[k].session # ledger[i].debitOf

\* An ended session's claim is pending, used, or was met by a fault.
ClaimsAreKept ==
    \A s \in Session : sessions[s] # NoRow /\ ~Claimable(s) =>
        DebitsOf(s) # {} \/ Claiming(s) \/ s \in lost

SettlementInv ==
    /\ CreditsTypeOK
    /\ CallsWellFormed
    /\ RowsAreMinted
    /\ ClaimsAreExclusive
    /\ ClaimsAreKept
    /\ AtMostOneDebit

\* With no rows and no calls nothing is claimed or owed.
LEMMA SettlementInitInv == CreditsInit => SettlementInv
<1> SUFFICES ASSUME CreditsInit PROVE SettlementInv
  OBVIOUS
<1>1. CreditsTypeOK /\ CallsWellFormed
  BY CreditsInitType
<1>2. DOMAIN ledger = {}
  BY DEF CreditsInit
<1>3. \A k \in Call : calls[k].at = "idle"
  BY DEF CreditsInit, IdleCall
<1>4. \A s \in Session : sessions[s] = NoRow
  BY DEF CreditsInit
<1> QED
  BY <1>1, <1>2, <1>3, <1>4
  DEF SettlementInv, RowsAreMinted, ClaimsAreExclusive, ClaimsAreKept, AtMostOneDebit

\* Steps that leave the tables alone, start no claim and drop none without a
\* trace preserve the invariant.
LEMMA QuietStep ==
    ASSUME SettlementInv, CreditsTypeOK', CallsWellFormed',
           UNCHANGED <<sessions, minted, ledger>>,
           lost \subseteq lost',
           \A k \in Call : calls'[k].at # "idle" => calls'[k].session \in minted,
           \A k \in Call : calls'[k].at = "append" => calls'[k] = calls[k],
           \A k \in Call : calls[k].at = "append" =>
              calls'[k] = calls[k] \/ calls[k].session \in lost'
    PROVE  SettlementInv'
<1>1. RowsAreMinted'
  BY DEF SettlementInv, RowsAreMinted
<1>2. ClaimsAreExclusive'
  BY DEF SettlementInv, ClaimsAreExclusive, Claimable
<1>3. ClaimsAreKept'
  <2> SUFFICES ASSUME NEW s \in Session, sessions[s] # NoRow, ~Claimable(s), s \notin lost',
                      DebitsOf(s) = {}
               PROVE  \E k \in Call : calls'[k].at = "append" /\ calls'[k].session = s
    BY DEF ClaimsAreKept, Claimable, DebitsOf, Claiming
  <2>1. PICK k \in Call : calls[k].at = "append" /\ calls[k].session = s
    BY DEF SettlementInv, ClaimsAreKept, Claiming
  <2>2. calls'[k] = calls[k]
    BY <2>1
  <2> QED
    BY <2>1, <2>2
<1>4. AtMostOneDebit'
  BY DEF SettlementInv, AtMostOneDebit
<1> QED
  BY <1>1, <1>2, <1>3, <1>4 DEF SettlementInv

\* A new row is unclaimed, and its uuid was in nobody's hands.
LEMMA CreateSessionStep ==
    ASSUME SettlementInv, CreditsTypeOK', CallsWellFormed',
           NEW s \in Session, NEW a \in Account, NEW m \in Mode, CreateSession(s, a, m)
    PROVE  SettlementInv'
<1>1. /\ sessions \in [Session -> SessionRow \cup {NoRow}]
      /\ \A k \in Call : calls[k].at = "append" => calls[k].session \in minted
  BY DEF SettlementInv, CreditsTypeOK, RowsAreMinted
<1>2. /\ UNCHANGED <<ledger, calls, lost>>
      /\ minted' = minted \cup {s} /\ s \notin minted
      /\ \A r \in Session \ {s} : sessions'[r] = sessions[r]
      /\ sessions'[s] = [account |-> a, enforcement |-> m, ended |-> NotEnded]
  BY <1>1 DEF CreateSession
<1>3. RowsAreMinted'
  BY <1>2 DEF SettlementInv, RowsAreMinted
<1>4. \A r \in minted : r # s
  BY <1>2
<1>5. \A r \in minted : Claimable(r)' <=> Claimable(r)
  <2>1. \A r \in minted : sessions'[r] = sessions[r]
    BY <1>2 DEF SettlementInv, CreditsTypeOK
  <2> QED
    BY <2>1 DEF Claimable
<1>6. ClaimsAreExclusive'
  <2>1. \A k \in Call : calls'[k].at = "append" <=> calls[k].at = "append"
    BY <1>2
  <2> QED
    BY <1>1, <1>2, <1>5, <2>1 DEF SettlementInv, ClaimsAreExclusive, RowsAreMinted
<1>7. ClaimsAreKept'
  <2> SUFFICES ASSUME NEW r \in Session, sessions'[r] # NoRow, ~Claimable(r)'
               PROVE  DebitsOf(r) # {} \/ Claiming(r) \/ r \in lost
    BY <1>2 DEF ClaimsAreKept, DebitsOf, Claiming
  <2>1. CASE r = s
    BY <1>2, <2>1 DEF Claimable, EndReason, NotEnded
  <2>2. CASE r # s
    <3>1. sessions[r] # NoRow /\ ~Claimable(r)
      BY <1>2, <2>2 DEF Claimable
    <3> QED
      BY <3>1 DEF SettlementInv, ClaimsAreKept
  <2> QED
    BY <2>1, <2>2
<1>8. AtMostOneDebit'
  BY <1>2 DEF SettlementInv, AtMostOneDebit
<1> QED
  BY <1>3, <1>6, <1>7, <1>8 DEF SettlementInv

\* Deleting a row leaves no claim on it, and the entries keep their debitOf.
LEMMA DeleteSessionStep ==
    ASSUME SettlementInv, CreditsTypeOK', CallsWellFormed',
           NEW s \in Session, DeleteSession(s)
    PROVE  SettlementInv'
<1>1. sessions \in [Session -> SessionRow \cup {NoRow}] /\ ledger \in Seq(LedgerEntry)
  BY DEF SettlementInv, CreditsTypeOK
<1>2. /\ UNCHANGED <<minted, calls, lost>>
      /\ \A r \in Session \ {s} : sessions'[r] = sessions[r]
      /\ sessions'[s] = NoRow
      /\ ledger' = [i \in DOMAIN ledger |-> Detach(ledger[i], s)]
  BY <1>1 DEF DeleteSession
<1>3. /\ DOMAIN ledger' = DOMAIN ledger
      /\ \A i \in DOMAIN ledger :
            /\ ledger'[i].debitOf = ledger[i].debitOf
            /\ ledger'[i].sessionId \in {ledger[i].sessionId, NoSession}
  <2>1. \A i \in DOMAIN ledger : ledger[i] \in LedgerEntry
    BY <1>1
  <2> QED
    BY <1>2, <2>1, DetachEntry
<1>4. \A r \in Session : ~Claimable(r) => ~Claimable(r)'
  BY <1>2 DEF Claimable
<1>5. RowsAreMinted'
  BY <1>2, <1>3 DEF SettlementInv, RowsAreMinted
<1>6. ClaimsAreExclusive'
  <2>1. \A k \in Call : /\ calls'[k].at = "append" <=> calls[k].at = "append"
                       /\ calls[k].at = "append" => calls[k].session \in Session
    BY <1>2 DEF SettlementInv, CallsWellFormed
  <2>2. \A i \in DOMAIN ledger : ledger[i].debitOf \in Session
    <3>1. \A i \in DOMAIN ledger : ledger[i] \in LedgerEntry
      BY <1>1
    <3> QED
      BY <3>1 DEF LedgerEntry
  <2>3. \A k \in Call : calls[k].at = "append" => ~Claimable(calls[k].session)
    BY DEF SettlementInv, ClaimsAreExclusive
  <2>4. \A i \in DOMAIN ledger' : ledger'[i].debitOf \in Session /\ ~Claimable(ledger'[i].debitOf)
    BY <1>3, <2>2 DEF SettlementInv, ClaimsAreExclusive
  <2>5. (\A k \in Call : calls[k].at = "append" => ~Claimable(calls[k].session))'
    BY <1>2, <1>4, <2>1, <2>3 DEF Claimable
  <2>6. (\A i \in DOMAIN ledger : ~Claimable(ledger[i].debitOf))'
    BY <1>4, <2>4 DEF Claimable
  <2> QED
    BY <1>2, <1>3, <2>1, <2>5, <2>6 DEF SettlementInv, ClaimsAreExclusive
<1>7. ClaimsAreKept'
  <2> SUFFICES ASSUME NEW r \in Session, sessions'[r] # NoRow, ~Claimable(r)'
               PROVE  DebitsOf(r)' # {} \/ Claiming(r)' \/ r \in lost'
    BY DEF ClaimsAreKept
  <2>1. r # s /\ sessions[r] # NoRow /\ ~Claimable(r)
    BY <1>2 DEF Claimable
  <2>2. DebitsOf(r) # {} \/ Claiming(r) \/ r \in lost
    BY <2>1 DEF SettlementInv, ClaimsAreKept
  <2>3. DebitsOf(r)' = DebitsOf(r) /\ (Claiming(r)' <=> Claiming(r)) /\ lost' = lost
    BY <1>2, <1>3 DEF DebitsOf, Claiming
  <2> QED
    BY <2>2, <2>3
<1>8. AtMostOneDebit'
  BY <1>3 DEF SettlementInv, AtMostOneDebit
<1> QED
  BY <1>5, <1>6, <1>7, <1>8 DEF SettlementInv

\* The row decides: the call that closes it is the session's only claim.
LEMMA MarkFinalizedStep ==
    ASSUME SettlementInv, CreditsTypeOK', CallsWellFormed',
           NEW k \in Call, MarkFinalized(k)
    PROVE  SettlementInv'
<1> DEFINE s == calls[k].session
<1>1. /\ calls[k] \in CallRecord /\ s \in Session /\ s \in minted
      /\ calls[k].at = "mark" /\ Claimable(s)
      /\ sessions \in [Session -> SessionRow \cup {NoRow}]
      /\ calls \in [Call -> CallRecord]
      /\ \A i \in DOMAIN ledger : ledger[i].debitOf \in minted
      /\ minted \subseteq Session
  BY DEF SettlementInv, CreditsTypeOK, CallsWellFormed, RowsAreMinted, MarkFinalized
<1>2. PICK ok \in Reply :
        /\ Resume(k, [calls[k] EXCEPT !.at = IF ok THEN "append" ELSE "rejected"])
        /\ lost' = IF ok THEN lost ELSE lost \cup {s}
  BY DEF MarkFinalized
<1>3. /\ calls'[k].at = (IF ok THEN "append" ELSE "rejected") /\ calls'[k].session = s
      /\ \A j \in Call \ {k} : calls'[j] = calls[j]
  BY <1>1, <1>2 DEF Resume, CallRecord
<1>4. /\ UNCHANGED <<minted, ledger>>
      /\ \A r \in Session \ {s} : sessions'[r] = sessions[r]
      /\ sessions'[s] = [sessions[s] EXCEPT !.ended = calls[k].reason]
  BY <1>1 DEF MarkFinalized
<1>5. sessions'[s].ended \in EndReason /\ sessions'[s] # NoRow
  <2>1. sessions[s] \in SessionRow
    BY <1>1 DEF Claimable
  <2>2. calls[k].reason \in EndReason
    BY <1>1 DEF CallRecord
  <2>3. sessions'[s] \in SessionRow
    BY <1>4, <2>1, <2>2 DEF SessionRow
  <2>4. sessions'[s].ended = calls[k].reason
    BY <1>4, <2>1 DEF SessionRow
  <2> QED
    BY <2>2, <2>3, <2>4, CreditsAssumption DEF SessionRow
<1>6. \A r \in Session : r = s \/ ~Claimable(r) => ~Claimable(r)'
  <2>1. sessions'[s].ended # NotEnded
    BY <1>5 DEF EndReason, NotEnded
  <2> QED
    BY <1>4, <2>1 DEF Claimable
<1>7. RowsAreMinted'
  <2>1. \A r \in Session : sessions'[r] # NoRow => r \in minted
    BY <1>1, <1>4 DEF SettlementInv, RowsAreMinted
  <2>2. \A j \in Call : calls'[j].at # "idle" => calls'[j].session \in minted
    BY <1>1, <1>3 DEF SettlementInv, RowsAreMinted
  <2> QED
    BY <1>4, <2>1, <2>2 DEF SettlementInv, RowsAreMinted
<1>8. ClaimsAreExclusive'
  <2>1. \A j \in Call : calls[j].at = "append" =>
           calls[j].session \in Session /\ calls[j].session # s /\ ~Claimable(calls[j].session)
    BY <1>1 DEF SettlementInv, ClaimsAreExclusive, CallsWellFormed
  <2>2. \A j \in Call : calls'[j].at = "append" => calls'[j] = calls[j] \/ j = k
    BY <1>3
  <2>3. \A i \in DOMAIN ledger : /\ ledger[i].debitOf # s /\ ~Claimable(ledger[i].debitOf)
                                /\ ledger[i].debitOf \in Session
    BY <1>1 DEF SettlementInv, ClaimsAreExclusive
  <2>4. (\A j \in Call : calls[j].at = "append" => ~Claimable(calls[j].session))'
    BY <1>1, <1>3, <1>6, <2>1, <2>2 DEF Claimable
  <2>5. (\A i, j \in Call : calls[i].at = "append" /\ calls[j].at = "append"
                              /\ calls[i].session = calls[j].session => i = j)'
    BY <1>3, <2>1, <2>2 DEF SettlementInv, ClaimsAreExclusive
  <2>6. (\A i \in DOMAIN ledger : ~Claimable(ledger[i].debitOf))'
    BY <1>4, <1>6, <2>3 DEF Claimable
  <2>7. (\A i \in DOMAIN ledger, j \in Call :
            calls[j].at = "append" => calls[j].session # ledger[i].debitOf)'
    BY <1>3, <1>4, <2>2, <2>3 DEF SettlementInv, ClaimsAreExclusive
  <2> QED
    BY <2>4, <2>5, <2>6, <2>7 DEF ClaimsAreExclusive
<1>9. ClaimsAreKept'
  <2> SUFFICES ASSUME NEW r \in Session, sessions'[r] # NoRow, ~Claimable(r)',
                      DebitsOf(r) = {}, r \notin lost'
               PROVE  \E j \in Call : calls'[j].at = "append" /\ calls'[j].session = r
    BY <1>4 DEF ClaimsAreKept, DebitsOf, Claiming
  <2>1. CASE r = s
    <3>1. calls'[k].at = "append" /\ calls'[k].session = r
      BY <1>2, <1>3, <2>1
    <3> QED
      BY <3>1
  <2>2. CASE r # s
    <3>1. sessions[r] # NoRow /\ ~Claimable(r) /\ r \notin lost
      BY <1>2, <1>4, <2>2 DEF Claimable
    <3>2. PICK j \in Call : calls[j].at = "append" /\ calls[j].session = r
      BY <3>1 DEF SettlementInv, ClaimsAreKept, Claiming
    <3>3. calls'[j] = calls[j]
      BY <1>1, <1>3, <3>2
    <3> QED
      BY <3>2, <3>3
  <2> QED
    BY <2>1, <2>2
<1>10. AtMostOneDebit'
  BY <1>4 DEF SettlementInv, AtMostOneDebit
<1> QED
  BY <1>7, <1>8, <1>9, <1>10 DEF SettlementInv

\* The unique index never refuses a debit: the claim excludes an earlier one.
LEMMA DebitIsUnique ==
    ASSUME SettlementInv, NEW k \in Call, calls[k].at = "append"
    PROVE  /\ InsertDebit(DebitEntry(calls[k])) = Append(ledger, DebitEntry(calls[k]))
           /\ DebitsOf(calls[k].session) = {}
<1>1. calls[k].session \in Session /\ NoSession \notin Session
  BY CreditsAssumption DEF SettlementInv, CallsWellFormed
<1>2. \A i \in DOMAIN ledger : ledger[i].debitOf # calls[k].session
  BY DEF SettlementInv, ClaimsAreExclusive
<1>3. \A i \in DOMAIN ledger : ledger[i].sessionId # calls[k].session
  BY <1>1, <1>2 DEF SettlementInv, RowsAreMinted
<1>4. ~ViolatesUnique(DebitEntry(calls[k]))
  BY <1>3 DEF ViolatesUnique, DebitEntry
<1> QED
  BY <1>2, <1>4 DEF InsertDebit, DebitsOf

\* The claiming call turns its claim into the session's only entry.
LEMMA AppendDebitStep ==
    ASSUME SettlementInv, CreditsTypeOK', CallsWellFormed',
           NEW k \in Call, AppendDebit(k)
    PROVE  SettlementInv'
<1> DEFINE s == calls[k].session
           e == DebitEntry(calls[k])
           n == Len(ledger)
<1>1. /\ calls[k] \in CallRecord /\ s \in Session /\ s \in minted
      /\ calls[k].at = "append" /\ calls[k].row # NoRow
      /\ sessions \in [Session -> SessionRow \cup {NoRow}]
      /\ calls \in [Call -> CallRecord]
      /\ ledger \in Seq(LedgerEntry)
      /\ ~Claimable(s)
  BY DEF SettlementInv, CreditsTypeOK, CallsWellFormed, RowsAreMinted, ClaimsAreExclusive, AppendDebit
<1>2. PICK ok \in Reply :
        Resume(k, [calls[k] EXCEPT !.at = IF ok THEN "returned" ELSE "rejected", !.finalized = ok])
  BY DEF AppendDebit
<1>3. /\ calls'[k].at \in {"returned", "rejected"} /\ calls'[k].session = s
      /\ \A j \in Call \ {k} : calls'[j] = calls[j]
  BY <1>1, <1>2 DEF Resume, CallRecord
<1>4. UNCHANGED <<sessions, minted, lost>> /\ ledger' = Append(ledger, e) /\ DebitsOf(s) = {}
  BY <1>1, DebitIsUnique DEF AppendDebit
<1>5. e \in LedgerEntry /\ e.debitOf = s /\ e.sessionId = s
  BY <1>1, DebitEntryType DEF DebitEntry
<1>6. /\ n \in Nat /\ DOMAIN ledger = 1..n /\ DOMAIN ledger' = 1..(n + 1)
      /\ \A i \in 1..n : ledger'[i] = ledger[i]
      /\ ledger'[n + 1] = e
  BY <1>1, <1>4, <1>5
<1>7. \A i \in DOMAIN ledger' : \/ (i \in DOMAIN ledger /\ ledger'[i] = ledger[i])
                               \/ (i = n + 1 /\ ledger'[i] = e)
  <2>1. \A i \in 1..(n + 1) : i \in 1..n \/ i = n + 1
    BY <1>6
  <2> HIDE DEF n, e
  <2> QED
    BY <1>6, <2>1
<1>8. RowsAreMinted'
  <2>1. (\A i \in DOMAIN ledger : /\ ledger[i].debitOf \in minted
                                 /\ ledger[i].sessionId \in {ledger[i].debitOf, NoSession})'
    BY <1>1, <1>4, <1>5, <1>7 DEF SettlementInv, RowsAreMinted
  <2>2. (\A j \in Call : calls[j].at # "idle" => calls[j].session \in minted)'
    BY <1>1, <1>3, <1>4 DEF SettlementInv, RowsAreMinted
  <2> QED
    BY <1>4, <2>1, <2>2 DEF SettlementInv, RowsAreMinted
<1>9. ClaimsAreExclusive'
  <2>1. \A j \in Call : calls'[j].at = "append" =>
           /\ j # k /\ calls[j].at = "append" /\ calls'[j].session = calls[j].session
           /\ calls[j].session # s
    BY <1>1, <1>3 DEF SettlementInv, ClaimsAreExclusive
  <2>2. (\A j \in Call : calls[j].at = "append" => ~Claimable(calls[j].session))'
    BY <1>4, <2>1 DEF SettlementInv, ClaimsAreExclusive, Claimable
  <2>3. (\A i, j \in Call : calls[i].at = "append" /\ calls[j].at = "append"
                              /\ calls[i].session = calls[j].session => i = j)'
    BY <2>1 DEF SettlementInv, ClaimsAreExclusive
  <2>4. (\A i \in DOMAIN ledger : ~Claimable(ledger[i].debitOf))'
    BY <1>1, <1>4, <1>5, <1>7 DEF SettlementInv, ClaimsAreExclusive, Claimable
  <2>5. (\A i \in DOMAIN ledger, j \in Call :
            calls[j].at = "append" => calls[j].session # ledger[i].debitOf)'
    BY <1>5, <1>7, <2>1 DEF SettlementInv, ClaimsAreExclusive
  <2> QED
    BY <2>2, <2>3, <2>4, <2>5 DEF ClaimsAreExclusive
<1>10. ClaimsAreKept'
  <2> SUFFICES ASSUME NEW r \in Session, sessions[r] # NoRow, ~Claimable(r), r \notin lost
               PROVE  \/ \E i \in DOMAIN ledger' : ledger'[i].debitOf = r
                      \/ \E j \in Call : calls'[j].at = "append" /\ calls'[j].session = r
    BY <1>4 DEF ClaimsAreKept, DebitsOf, Claiming, Claimable
  <2>1. CASE r = s
    BY <1>5, <1>6, <2>1
  <2>2. CASE \E i \in DOMAIN ledger : ledger[i].debitOf = r
    BY <1>6, <2>2
  <2>3. CASE r # s /\ \E j \in Call : calls[j].at = "append" /\ calls[j].session = r
    BY <1>3, <2>3
  <2> QED
    BY <2>1, <2>2, <2>3 DEF SettlementInv, ClaimsAreKept, DebitsOf, Claiming
<1>11. AtMostOneDebit'
  BY <1>4, <1>5, <1>7 DEF SettlementInv, AtMostOneDebit, DebitsOf
<1> QED
  BY <1>8, <1>9, <1>10, <1>11 DEF SettlementInv

\* A call that moves on without claiming is a quiet step.
LEMMA QuietResume ==
    ASSUME SettlementInv, CreditsTypeOK', CallsWellFormed',
           NEW k \in Call, NEW c, Resume(k, c),
           UNCHANGED <<sessions, minted, ledger>>, lost \subseteq lost',
           c.at # "append",
           c.at # "idle" => c.session \in minted,
           calls[k].at = "append" => calls[k].session \in lost'
    PROVE  SettlementInv'
<1>1. calls \in [Call -> CallRecord]
  BY DEF SettlementInv, CreditsTypeOK
<1>2. calls'[k] = c /\ \A j \in Call \ {k} : calls'[j] = calls[j]
  BY <1>1 DEF Resume
<1>3. \A j \in Call : calls[j].at # "idle" => calls[j].session \in minted
  BY DEF SettlementInv, RowsAreMinted
<1> QED
  BY <1>2, <1>3, QuietStep

\* Every step of the service preserves the invariant: one step per action.
LEMMA SettlementStepInv ==
    ASSUME SettlementInv, [ServiceStep]_creditsVars
    PROVE  SettlementInv'
<1>t. CreditsTypeOK' /\ CallsWellFormed'
  BY CreditsStepType DEF SettlementInv
<1>m. /\ \A k \in Call : calls[k].at # "idle" => calls[k].session \in minted
      /\ \A k \in Call : calls[k] \in CallRecord
      /\ \A k \in Call : calls[k].at # "idle" => calls[k].session \in Session
      /\ calls \in [Call -> CallRecord]
  BY DEF SettlementInv, RowsAreMinted, CreditsTypeOK, CallsWellFormed
<1>idle. IdleCall \in CallRecord /\ IdleCall.at = "idle"
  BY IdleCallType DEF IdleCall
<1>1. ASSUME NEW s \in Session, NEW a \in Account, NEW m \in Mode, CreateSession(s, a, m)
      PROVE  SettlementInv'
  BY <1>1, <1>t, CreateSessionStep
<1>2. ASSUME NEW s \in Session, DeleteSession(s) PROVE SettlementInv'
  BY <1>2, <1>t, DeleteSessionStep
<1>3. ASSUME NEW k \in Call, NEW s \in minted, NEW d \in Usage, RecordUsage(k, s, d)
      PROVE  SettlementInv'
  <2> DEFINE c == [IdleCall EXCEPT !.at = "usage_get", !.session = s, !.delta = d]
  <2>1. c.at = "usage_get" /\ c.session = s
    BY <1>idle DEF CallRecord
  <2>2. Resume(k, c) /\ UNCHANGED <<sessions, minted, ledger, lost>> /\ calls[k].at = "idle"
    BY <1>3 DEF RecordUsage
  <2> HIDE DEF c
  <2> QED
    BY <2>1, <2>2, <1>t, QuietResume
<1>4. ASSUME NEW k \in Call, NEW s \in minted, NEW r \in EndReason, FinalizeSession(k, s, r)
      PROVE  SettlementInv'
  <2> DEFINE c == [IdleCall EXCEPT !.at = "session_get", !.session = s, !.reason = r]
  <2>1. c.at = "session_get" /\ c.session = s
    BY <1>idle DEF CallRecord
  <2>2. Resume(k, c) /\ UNCHANGED <<sessions, minted, ledger, lost>> /\ calls[k].at = "idle"
    BY <1>4 DEF FinalizeSession
  <2> HIDE DEF c
  <2> QED
    BY <2>1, <2>2, <1>t, QuietResume
<1>5. ASSUME NEW k \in Call, UsageGet(k) PROVE SettlementInv'
  <2> DEFINE c == [calls[k] EXCEPT !.at = "usage_upsert", !.seen = usage[calls[k].session]]
  <2>1. c.at = "usage_upsert" /\ c.session = calls[k].session /\ c.session \in minted
    BY <1>5, <1>m DEF UsageGet, CallRecord
  <2>2. Resume(k, c) /\ UNCHANGED <<sessions, minted, ledger, lost>> /\ calls[k].at = "usage_get"
    BY <1>5 DEF UsageGet
  <2> HIDE DEF c
  <2> QED
    BY <2>1, <2>2, <1>t, QuietResume
<1>6. ASSUME NEW k \in Call, UsageStored(k) PROVE SettlementInv'
  <2>1. PICK ok \in Reply : Resume(k, [calls[k] EXCEPT !.at = IF ok THEN "returned" ELSE "rejected"])
    BY <1>6 DEF UsageStored
  <2> DEFINE c == [calls[k] EXCEPT !.at = IF ok THEN "returned" ELSE "rejected"]
  <2>2. c.at \in {"returned", "rejected"} /\ c.session \in minted
    BY <1>6, <1>m DEF UsageStored, CallRecord
  <2>3. Resume(k, c) /\ UNCHANGED <<sessions, minted, ledger, lost>> /\ calls[k].at = "usage_upsert"
    BY <1>6, <2>1 DEF UsageStored
  <2> HIDE DEF c
  <2> QED
    BY <2>2, <2>3, <1>t, QuietResume
<1>7. ASSUME NEW k \in Call, UsageRefused(k) PROVE SettlementInv'
  <2> DEFINE c == [calls[k] EXCEPT !.at = "rejected"]
  <2>1. c.at = "rejected" /\ c.session \in minted
    BY <1>7, <1>m DEF UsageRefused, CallRecord
  <2>2. Resume(k, c) /\ UNCHANGED <<sessions, minted, ledger, lost>> /\ calls[k].at = "usage_upsert"
    BY <1>7 DEF UsageRefused
  <2> HIDE DEF c
  <2> QED
    BY <2>1, <2>2, <1>t, QuietResume
<1>8. ASSUME NEW k \in Call, SessionGet(k) PROVE SettlementInv'
  <2> DEFINE c == [calls[k] EXCEPT !.at = "final_usage_get", !.row = sessions[calls[k].session]]
  <2>1. c.at = "final_usage_get" /\ c.session \in minted
    BY <1>8, <1>m DEF SessionGet, CallRecord
  <2>2. Resume(k, c) /\ UNCHANGED <<sessions, minted, ledger, lost>> /\ calls[k].at = "session_get"
    BY <1>8 DEF SessionGet
  <2> HIDE DEF c
  <2> QED
    BY <2>1, <2>2, <1>t, QuietResume
<1>9. ASSUME NEW k \in Call, FinalUsageGet(k) PROVE SettlementInv'
  <2> DEFINE c == [calls[k] EXCEPT !.seen = usage[calls[k].session],
                                   !.at = IF calls[k].row = NoRow THEN "returned" ELSE "mark"]
  <2>1. c.at \in {"returned", "mark"} /\ c.session \in minted
    BY <1>9, <1>m DEF FinalUsageGet, CallRecord
  <2>2. /\ Resume(k, c) /\ UNCHANGED <<sessions, minted, ledger, lost>>
        /\ calls[k].at = "final_usage_get"
    BY <1>9 DEF FinalUsageGet
  <2> HIDE DEF c
  <2> QED
    BY <2>1, <2>2, <1>t, QuietResume
<1>10. ASSUME NEW k \in Call, AlreadyFinalized(k) PROVE SettlementInv'
  <2> DEFINE c == [calls[k] EXCEPT !.at = "returned"]
  <2>1. c.at = "returned" /\ c.session \in minted
    BY <1>10, <1>m DEF AlreadyFinalized, CallRecord
  <2>2. Resume(k, c) /\ UNCHANGED <<sessions, minted, ledger, lost>> /\ calls[k].at = "mark"
    BY <1>10 DEF AlreadyFinalized
  <2> HIDE DEF c
  <2> QED
    BY <2>1, <2>2, <1>t, QuietResume
<1>11. ASSUME NEW k \in Call, MarkFinalized(k) PROVE SettlementInv'
  BY <1>11, <1>t, MarkFinalizedStep
<1>12. ASSUME NEW k \in Call, AppendDebit(k) PROVE SettlementInv'
  BY <1>12, <1>t, AppendDebitStep
<1>13. ASSUME NEW k \in Call, DebitRefused(k) PROVE SettlementInv'
  <2> DEFINE c == [calls[k] EXCEPT !.at = "rejected"]
  <2>1. c.at = "rejected" /\ c.session \in minted
    BY <1>13, <1>m DEF DebitRefused, CallRecord
  <2>2. /\ Resume(k, c) /\ UNCHANGED <<sessions, minted, ledger>>
        /\ lost' = lost \cup {calls[k].session}
    BY <1>13 DEF DebitRefused
  <2> HIDE DEF c
  <2> QED
    BY <2>1, <2>2, <1>t, QuietResume
<1>14. ASSUME NEW k \in Call, StatementLost(k) PROVE SettlementInv'
  <2> DEFINE c == [calls[k] EXCEPT !.at = "rejected"]
  <2>1. c.at = "rejected" /\ c.session \in minted
    BY <1>14, <1>m DEF StatementLost, CallRecord, AwaitPoint
  <2>2. /\ Resume(k, c) /\ UNCHANGED <<sessions, minted, ledger>>
        /\ lost' = IF calls[k].at = "append" THEN lost \cup {calls[k].session} ELSE lost
    BY <1>14 DEF StatementLost
  <2> HIDE DEF c
  <2> QED
    BY <2>1, <2>2, <1>t, QuietResume
<1>15. ASSUME NEW k \in Call, Settle(k) PROVE SettlementInv'
  <2>1. /\ Resume(k, IdleCall) /\ UNCHANGED <<sessions, minted, ledger, lost>>
        /\ calls[k].at \in {"returned", "rejected"}
    BY <1>15 DEF Settle
  <2> QED
    BY <2>1, <1>idle, <1>t, QuietResume
<1>16. ASSUME ProcessDies PROVE SettlementInv'
  <2>1. UNCHANGED <<sessions, minted, ledger>> /\ lost \subseteq lost'
    BY <1>16 DEF ProcessDies
  <2>2. \A k \in Call : calls'[k].at = "idle"
    BY <1>16, <1>idle DEF ProcessDies
  <2>3. \A k \in Call : calls[k].at = "append" => calls[k].session \in lost'
    BY <1>16, <1>m DEF ProcessDies
  <2> QED
    BY <2>1, <2>2, <2>3, <1>t, QuietStep
<1>17. ASSUME UNCHANGED creditsVars PROVE SettlementInv'
  BY <1>17, <1>t, <1>m, QuietStep DEF creditsVars
<1>18. QED
  BY <1>1, <1>2, <1>3, <1>4, <1>5, <1>6, <1>7, <1>8, <1>9, <1>10, <1>11, <1>12, <1>13,
     <1>14, <1>15, <1>16, <1>17
  DEF ServiceStep, CallStep, Called, Crash, UnhandledRejection

\* The invariant says what was promised of every settlement.
LEMMA SettlementInvImplies == SettlementInv => SettledExactlyOnce
<1> SUFFICES ASSUME SettlementInv PROVE SettledExactlyOnce
  OBVIOUS
<1>1. \A s \in Session : Claimable(s) => DebitsOf(s) = {}
  BY DEF SettlementInv, ClaimsAreExclusive, DebitsOf
<1> QED
  BY <1>1 DEF SettlementInv, ClaimsAreKept, SettledExactlyOnce

\* No session is ever debited twice, and a finalized one loses its debit only
\* to a fault or a deletion: whatever the number of racing finalizeSession
\* calls, retries, crashes and lost statements.
THEOREM SessionsSettledOnce == CreditsSpec => []SettledExactlyOnce
<1>1. CreditsInit => SettlementInv
  BY SettlementInitInv
<1>2. SettlementInv /\ [ServiceStep]_creditsVars => SettlementInv'
  BY SettlementStepInv
<1>3. SettlementInv => SettledExactlyOnce
  BY SettlementInvImplies
<1>4. QED
  BY <1>1, <1>2, <1>3, NextIsServiceStep, PTL DEF CreditsSpec

-----------------------------------------------------------------------------
(* No debit exceeds the usage recorded for its session: what recordUsage    *)
(* and finalizeSession read at one await and use at a later one may be out  *)
(* of date, but recorded usage only grows, so it is never too much.         *)

Within(u, v) == u.stt <= v.stt /\ u.llm <= v.llm

\* The usage record counts no increment twice.
UsageIsRecorded == \A s \in Session : Within(usage[s], recorded[s])

\* What a call read before its await is still covered when it uses it.
SeenIsRecorded ==
    \A k \in Call : calls[k].at \in {"usage_upsert", "mark", "append"} =>
        Within(calls[k].seen, recorded[calls[k].session])

ChargeInv ==
    /\ CreditsTypeOK
    /\ CallsWellFormed
    /\ UsageIsRecorded
    /\ SeenIsRecorded
    /\ NeverOvercharged

-----------------------------------------------------------------------------
(* Credit arithmetic *)

\* A product of naturals grows with its second factor.
LEMMA ProductMonotone ==
    ASSUME NEW a \in Nat, NEW b \in Nat, NEW c \in Nat, b <= c
    PROVE  a * b <= a * c
<1>1. PICK d \in Nat : c = b + d
  <2>1. c - b \in Nat /\ c = b + (c - b)
    OBVIOUS
  <2> QED
    BY <2>1
<1>2. a * c = a * b + a * d
  BY <1>1
<1>3. a * d \in Nat /\ a * b \in Nat
  OBVIOUS
<1> QED
  BY <1>2, <1>3

\* More usage never costs fewer credits (usageToCredits, shared/credits.ts).
LEMMA CreditsForMonotone ==
    ASSUME NEW u \in Usage, NEW v \in Usage, Within(u, v)
    PROVE  CreditsFor(u) <= CreditsFor(v)
<1>1. /\ u.stt \in Nat /\ u.llm \in Nat /\ v.stt \in Nat /\ v.llm \in Nat
      /\ u.stt <= v.stt /\ u.llm <= v.llm
  BY DEF Usage, Within
<1>2. SttRate \in Nat /\ LlmRate \in Nat
  BY CreditsAssumption
<1>3. SttRate * u.stt <= SttRate * v.stt
  BY <1>1, <1>2, ProductMonotone
<1>4. LlmRate * u.llm <= LlmRate * v.llm
  BY <1>1, <1>2, ProductMonotone
<1>5. /\ SttRate * u.stt \in Nat /\ SttRate * v.stt \in Nat
      /\ LlmRate * u.llm \in Nat /\ LlmRate * v.llm \in Nat
  BY <1>1, <1>2
<1> QED
  BY <1>3, <1>4, <1>5 DEF CreditsFor

\* Usage that grew covers what it covered before.
LEMMA WithinTransitive ==
    ASSUME NEW u \in Usage, NEW v \in Usage, NEW w \in Usage, Within(u, v), Within(v, w)
    PROVE  Within(u, w)
BY DEF Within, Usage

\* An increment covers what it is added to.
LEMMA WithinAdded ==
    ASSUME NEW u \in Usage, NEW d \in Usage
    PROVE  Within(u, AddUsage(u, d))
BY DEF Within, Usage, AddUsage

\* The same increment on both sides keeps the order.
LEMMA AddedWithin ==
    ASSUME NEW u \in Usage, NEW v \in Usage, NEW d \in Usage, Within(u, v)
    PROVE  Within(AddUsage(u, d), AddUsage(v, d))
BY DEF Within, Usage, AddUsage

-----------------------------------------------------------------------------
(* The invariant *)

\* Nothing is recorded and nothing charged.
LEMMA ChargeInitInv == CreditsInit => ChargeInv
<1> SUFFICES ASSUME CreditsInit PROVE ChargeInv
  OBVIOUS
<1>1. CreditsTypeOK /\ CallsWellFormed
  BY CreditsInitType
<1>2. UsageIsRecorded
  BY DEF CreditsInit, UsageIsRecorded, Within, NoUsage
<1>3. SeenIsRecorded
  BY DEF CreditsInit, SeenIsRecorded, IdleCall
<1>4. DOMAIN ledger = {}
  BY DEF CreditsInit
<1> QED
  BY <1>1, <1>2, <1>3, <1>4 DEF ChargeInv, NeverOvercharged

\* Steps that leave usage and ledger alone, and read nothing that is used
\* later, preserve the invariant.
LEMMA UnmeteredStep ==
    ASSUME ChargeInv, CreditsTypeOK', CallsWellFormed',
           UNCHANGED <<usage, recorded, ledger>>,
           \A k \in Call : calls'[k].at \in {"usage_upsert", "mark", "append"} =>
              Within(calls'[k].seen, recorded[calls'[k].session])
    PROVE  ChargeInv'
BY DEF ChargeInv, UsageIsRecorded, SeenIsRecorded, NeverOvercharged, CreditsFor, Within

\* A call that moves on with what it has seen is such a step.
LEMMA UnmeteredResume ==
    ASSUME ChargeInv, CreditsTypeOK', CallsWellFormed',
           UNCHANGED <<usage, recorded, ledger>>,
           NEW k \in Call, NEW c, Resume(k, c),
           c.at \in {"usage_upsert", "mark", "append"} =>
              Within(c.seen, recorded[c.session])
    PROVE  ChargeInv'
<1>1. calls \in [Call -> CallRecord]
  BY DEF ChargeInv, CreditsTypeOK
<1>2. calls'[k] = c /\ \A j \in Call \ {k} : calls'[j] = calls[j]
  BY <1>1 DEF Resume
<1>3. \A j \in Call : calls'[j].at \in {"usage_upsert", "mark", "append"} =>
         Within(calls'[j].seen, recorded[calls'[j].session])
  BY <1>2 DEF ChargeInv, SeenIsRecorded
<1> QED
  BY <1>3, UnmeteredStep

\* recordUsage writes back what it saw plus its increment, and both are
\* covered by the usage recorded by then.
LEMMA UsageStoredCharge ==
    ASSUME ChargeInv, CreditsTypeOK', CallsWellFormed', NEW k \in Call, UsageStored(k)
    PROVE  ChargeInv'
<1> DEFINE s == calls[k].session
<1>1. /\ calls[k] \in CallRecord /\ s \in Session /\ calls[k].at = "usage_upsert"
      /\ calls \in [Call -> CallRecord]
      /\ usage \in [Session -> Usage] /\ recorded \in [Session -> Usage]
      /\ ledger \in Seq(LedgerEntry)
      /\ calls[k].seen \in Usage /\ calls[k].delta \in Usage
  BY DEF ChargeInv, CreditsTypeOK, CallsWellFormed, UsageStored, CallRecord
<1>2. /\ usage' = [usage EXCEPT ![s] = AddUsage(calls[k].seen, calls[k].delta)]
      /\ recorded' = [recorded EXCEPT ![s] = AddUsage(recorded[s], calls[k].delta)]
      /\ UNCHANGED ledger
  BY DEF UsageStored, Merged
<1>3. PICK ok \in Reply : Resume(k, [calls[k] EXCEPT !.at = IF ok THEN "returned" ELSE "rejected"])
  BY DEF UsageStored
<1>4. /\ calls'[k].at \in {"returned", "rejected"}
      /\ \A j \in Call \ {k} : calls'[j] = calls[j]
  BY <1>1, <1>3 DEF Resume, CallRecord
<1>5. \A t \in Session : recorded'[t] \in Usage /\ Within(recorded[t], recorded'[t])
  <2> SUFFICES ASSUME NEW t \in Session
               PROVE  recorded'[t] \in Usage /\ Within(recorded[t], recorded'[t])
    OBVIOUS
  <2>1. CASE t = s
    BY <2>1, <1>1, <1>2, WithinAdded, AddUsageType
  <2>2. CASE t # s
    BY <2>2, <1>1, <1>2 DEF Within, Usage
  <2> QED
    BY <2>1, <2>2
<1>6. UsageIsRecorded'
  <2> SUFFICES ASSUME NEW t \in Session PROVE Within(usage'[t], recorded'[t])
    BY DEF UsageIsRecorded, Within
  <2>1. CASE t = s
    <3>1. Within(calls[k].seen, recorded[s])
      BY <1>1 DEF ChargeInv, SeenIsRecorded
    <3>2. Within(AddUsage(calls[k].seen, calls[k].delta), AddUsage(recorded[s], calls[k].delta))
      BY <1>1, <3>1, AddedWithin
    <3> QED
      BY <2>1, <1>1, <1>2, <3>2
  <2>2. CASE t # s
    BY <2>2, <1>1, <1>2 DEF ChargeInv, UsageIsRecorded
  <2> QED
    BY <2>1, <2>2
<1>7. SeenIsRecorded'
  <2> SUFFICES ASSUME NEW j \in Call, calls'[j].at \in {"usage_upsert", "mark", "append"}
               PROVE  Within(calls'[j].seen, recorded'[calls'[j].session])
    BY DEF SeenIsRecorded, Within
  <2>1. j # k /\ calls'[j] = calls[j]
    BY <1>4
  <2>2. calls[j] \in CallRecord /\ calls[j].session \in Session /\ calls[j].seen \in Usage
    BY <2>1, <1>1 DEF ChargeInv, CallsWellFormed, CallRecord
  <2>3. Within(calls[j].seen, recorded[calls[j].session])
    BY <2>1 DEF ChargeInv, SeenIsRecorded
  <2> QED
    BY <2>1, <2>2, <2>3, <1>1, <1>5, WithinTransitive
<1>8. NeverOvercharged'
  <2> SUFFICES ASSUME NEW i \in DOMAIN ledger
               PROVE  -ledger[i].amount <= CreditsFor(recorded'[ledger[i].debitOf])
    BY <1>2 DEF NeverOvercharged, CreditsFor
  <2> DEFINE t == ledger[i].debitOf
  <2>1. t \in Session /\ ledger[i].amount \in Int
    <3>1. ledger[i] \in LedgerEntry
      BY <1>1
    <3> QED
      BY <3>1 DEF LedgerEntry
  <2>2. -ledger[i].amount <= CreditsFor(recorded[t])
    BY DEF ChargeInv, NeverOvercharged
  <2>3. CreditsFor(recorded[t]) <= CreditsFor(recorded'[t])
    BY <2>1, <1>1, <1>5, CreditsForMonotone
  <2>4. CreditsFor(recorded[t]) \in Nat /\ CreditsFor(recorded'[t]) \in Nat
    BY <2>1, <1>1, <1>5, CreditsForType
  <2> HIDE DEF t
  <2> QED
    BY <2>1, <2>2, <2>3, <2>4 DEF t
<1> QED
  BY <1>6, <1>7, <1>8 DEF ChargeInv

\* Deleting a session clears its usage record and changes no amount.
LEMMA DeleteSessionCharge ==
    ASSUME ChargeInv, CreditsTypeOK', CallsWellFormed', NEW s \in Session, DeleteSession(s)
    PROVE  ChargeInv'
<1>1. /\ usage \in [Session -> Usage] /\ recorded \in [Session -> Usage]
      /\ ledger \in Seq(LedgerEntry)
  BY DEF ChargeInv, CreditsTypeOK
<1>2. /\ usage' = [usage EXCEPT ![s] = NoUsage]
      /\ UNCHANGED <<calls, recorded>>
      /\ ledger' = [i \in DOMAIN ledger |-> Detach(ledger[i], s)]
  BY DEF DeleteSession
<1>3. UsageIsRecorded'
  <2> SUFFICES ASSUME NEW t \in Session PROVE Within(usage'[t], recorded[t])
    BY <1>2 DEF UsageIsRecorded, Within
  <2>1. CASE t = s
    BY <2>1, <1>1, <1>2 DEF Within, NoUsage, Usage
  <2>2. CASE t # s
    BY <2>2, <1>1, <1>2 DEF ChargeInv, UsageIsRecorded
  <2> QED
    BY <2>1, <2>2
<1>4. SeenIsRecorded'
  BY <1>2 DEF ChargeInv, SeenIsRecorded, Within
<1>5. NeverOvercharged'
  <2> SUFFICES ASSUME NEW i \in DOMAIN ledger
               PROVE  -ledger'[i].amount <= CreditsFor(recorded[ledger'[i].debitOf])
    BY <1>2 DEF NeverOvercharged, CreditsFor
  <2>1. ledger[i] \in LedgerEntry /\ ledger'[i] = Detach(ledger[i], s)
    BY <1>1, <1>2
  <2>2. ledger'[i].amount = ledger[i].amount /\ ledger'[i].debitOf = ledger[i].debitOf
    BY <2>1, DetachEntry
  <2> QED
    BY <2>2 DEF ChargeInv, NeverOvercharged
<1> QED
  BY <1>3, <1>4, <1>5 DEF ChargeInv

\* The debit is of the usage the claiming call has seen.
LEMMA AppendDebitCharge ==
    ASSUME ChargeInv, CreditsTypeOK', CallsWellFormed', NEW k \in Call, AppendDebit(k)
    PROVE  ChargeInv'
<1> DEFINE e == DebitEntry(calls[k])
<1>1. /\ calls[k] \in CallRecord /\ calls[k].session \in Session /\ calls[k].at = "append"
      /\ calls[k].seen \in Usage
      /\ calls \in [Call -> CallRecord] /\ recorded \in [Session -> Usage]
      /\ ledger \in Seq(LedgerEntry)
  BY DEF ChargeInv, CreditsTypeOK, CallsWellFormed, AppendDebit, CallRecord
<1>2. UNCHANGED <<usage, recorded>> /\ (ledger' = ledger \/ ledger' = Append(ledger, e))
  BY DEF AppendDebit, InsertDebit
<1>3. PICK ok \in Reply :
        Resume(k, [calls[k] EXCEPT !.at = IF ok THEN "returned" ELSE "rejected", !.finalized = ok])
  BY DEF AppendDebit
<1>4. /\ calls'[k].at \in {"returned", "rejected"}
      /\ \A j \in Call \ {k} : calls'[j] = calls[j]
  BY <1>1, <1>3 DEF Resume, CallRecord
<1>5. UsageIsRecorded'
  BY <1>2 DEF ChargeInv, UsageIsRecorded, Within
<1>6. SeenIsRecorded'
  BY <1>2, <1>4 DEF ChargeInv, SeenIsRecorded, Within
<1>7. -e.amount <= CreditsFor(recorded[e.debitOf])
  <2>1. Within(calls[k].seen, recorded[calls[k].session])
    BY <1>1 DEF ChargeInv, SeenIsRecorded
  <2>2. CreditsFor(calls[k].seen) <= CreditsFor(recorded[calls[k].session])
    BY <2>1, <1>1, CreditsForMonotone
  <2>3. CreditsFor(calls[k].seen) \in Nat
    BY <1>1, CreditsForType
  <2>4. e.amount = -CreditsFor(calls[k].seen) /\ e.debitOf = calls[k].session
    BY DEF DebitEntry
  <2> HIDE DEF e
  <2> QED
    BY <2>2, <2>3, <2>4
<1>8. NeverOvercharged'
  <2>1. CASE ledger' = ledger
    BY <2>1, <1>2 DEF ChargeInv, NeverOvercharged, CreditsFor
  <2>2. CASE ledger' = Append(ledger, e)
    <3> SUFFICES ASSUME NEW i \in DOMAIN ledger'
                 PROVE  -ledger'[i].amount <= CreditsFor(recorded[ledger'[i].debitOf])
      BY <1>2 DEF NeverOvercharged, CreditsFor
    <3> HIDE DEF e
    <3>1. (i \in DOMAIN ledger /\ ledger'[i] = ledger[i]) \/ ledger'[i] = e
      BY <2>2, <1>1
    <3>2. CASE i \in DOMAIN ledger /\ ledger'[i] = ledger[i]
      BY <3>2 DEF ChargeInv, NeverOvercharged
    <3>3. CASE ledger'[i] = e
      BY <3>3, <1>7
    <3> QED
      BY <3>1, <3>2, <3>3
  <2> QED
    BY <1>2, <2>1, <2>2
<1> QED
  BY <1>5, <1>6, <1>8 DEF ChargeInv

\* Every step of the service preserves the invariant: one step per action.
LEMMA ChargeStepInv ==
    ASSUME ChargeInv, [ServiceStep]_creditsVars
    PROVE  ChargeInv'
<1>t. CreditsTypeOK' /\ CallsWellFormed'
  BY CreditsStepType DEF ChargeInv
<1>m. /\ \A k \in Call : calls[k] \in CallRecord
      /\ \A k \in Call : calls[k].at # "idle" => calls[k].session \in Session
  BY DEF ChargeInv, CreditsTypeOK, CallsWellFormed
<1>seen. \A k \in Call : calls[k].at \in {"usage_upsert", "mark", "append"} =>
           Within(calls[k].seen, recorded[calls[k].session])
  BY DEF ChargeInv, SeenIsRecorded
<1>idle. IdleCall \in CallRecord /\ IdleCall.at = "idle"
  BY IdleCallType DEF IdleCall
<1>1. ASSUME NEW s \in Session, NEW a \in Account, NEW m \in Mode, CreateSession(s, a, m)
      PROVE  ChargeInv'
  <2>1. UNCHANGED <<usage, recorded, ledger, calls>>
    BY <1>1 DEF CreateSession
  <2> QED
    BY <2>1, <1>t, <1>seen, UnmeteredStep
<1>2. ASSUME NEW s \in Session, DeleteSession(s) PROVE ChargeInv'
  BY <1>2, <1>t, DeleteSessionCharge
<1>3. ASSUME NEW k \in Call, NEW s \in minted, NEW d \in Usage, RecordUsage(k, s, d)
      PROVE  ChargeInv'
  <2> DEFINE c == [IdleCall EXCEPT !.at = "usage_get", !.session = s, !.delta = d]
  <2>1. c.at = "usage_get"
    BY <1>idle DEF CallRecord
  <2>2. Resume(k, c) /\ UNCHANGED <<usage, recorded, ledger>>
    BY <1>3 DEF RecordUsage
  <2> HIDE DEF c
  <2> QED
    BY <2>1, <2>2, <1>t, UnmeteredResume
<1>4. ASSUME NEW k \in Call, NEW s \in minted, NEW r \in EndReason, FinalizeSession(k, s, r)
      PROVE  ChargeInv'
  <2> DEFINE c == [IdleCall EXCEPT !.at = "session_get", !.session = s, !.reason = r]
  <2>1. c.at = "session_get"
    BY <1>idle DEF CallRecord
  <2>2. Resume(k, c) /\ UNCHANGED <<usage, recorded, ledger>>
    BY <1>4 DEF FinalizeSession
  <2> HIDE DEF c
  <2> QED
    BY <2>1, <2>2, <1>t, UnmeteredResume
<1>5. ASSUME NEW k \in Call, UsageGet(k) PROVE ChargeInv'
  <2> DEFINE c == [calls[k] EXCEPT !.at = "usage_upsert", !.seen = usage[calls[k].session]]
  <2>1. c.session = calls[k].session /\ c.seen = usage[c.session] /\ c.session \in Session
    BY <1>5, <1>m DEF UsageGet, CallRecord
  <2>2. Within(c.seen, recorded[c.session])
    BY <2>1 DEF ChargeInv, UsageIsRecorded
  <2>3. Resume(k, c) /\ UNCHANGED <<usage, recorded, ledger>>
    BY <1>5 DEF UsageGet
  <2> HIDE DEF c
  <2> QED
    BY <2>2, <2>3, <1>t, UnmeteredResume
<1>6. ASSUME NEW k \in Call, UsageStored(k) PROVE ChargeInv'
  BY <1>6, <1>t, UsageStoredCharge
<1>7. ASSUME NEW k \in Call, UsageRefused(k) PROVE ChargeInv'
  <2> DEFINE c == [calls[k] EXCEPT !.at = "rejected"]
  <2>1. c.at \in {"rejected"}
    BY <1>7, <1>m DEF UsageRefused, CallRecord
  <2>2. Resume(k, c) /\ UNCHANGED <<usage, recorded, ledger>>
    BY <1>7 DEF UsageRefused
  <2> HIDE DEF c
  <2> QED
    BY <2>1, <2>2, <1>t, UnmeteredResume
<1>8. ASSUME NEW k \in Call, SessionGet(k) PROVE ChargeInv'
  <2> DEFINE c == [calls[k] EXCEPT !.at = "final_usage_get", !.row = sessions[calls[k].session]]
  <2>1. c.at \in {"final_usage_get"}
    BY <1>8, <1>m DEF SessionGet, CallRecord
  <2>2. Resume(k, c) /\ UNCHANGED <<usage, recorded, ledger>>
    BY <1>8 DEF SessionGet
  <2> HIDE DEF c
  <2> QED
    BY <2>1, <2>2, <1>t, UnmeteredResume
<1>9. ASSUME NEW k \in Call, FinalUsageGet(k) PROVE ChargeInv'
  <2> DEFINE c == [calls[k] EXCEPT !.seen = usage[calls[k].session],
                                   !.at = IF calls[k].row = NoRow THEN "returned" ELSE "mark"]
  <2>1. c.session = calls[k].session /\ c.seen = usage[c.session] /\ c.session \in Session
    BY <1>9, <1>m DEF FinalUsageGet, CallRecord
  <2>2. Within(c.seen, recorded[c.session])
    BY <2>1 DEF ChargeInv, UsageIsRecorded
  <2>3. Resume(k, c) /\ UNCHANGED <<usage, recorded, ledger>>
    BY <1>9 DEF FinalUsageGet
  <2> HIDE DEF c
  <2> QED
    BY <2>2, <2>3, <1>t, UnmeteredResume
<1>10. ASSUME NEW k \in Call, AlreadyFinalized(k) PROVE ChargeInv'
  <2> DEFINE c == [calls[k] EXCEPT !.at = "returned"]
  <2>1. c.at \in {"returned"}
    BY <1>10, <1>m DEF AlreadyFinalized, CallRecord
  <2>2. Resume(k, c) /\ UNCHANGED <<usage, recorded, ledger>>
    BY <1>10 DEF AlreadyFinalized
  <2> HIDE DEF c
  <2> QED
    BY <2>1, <2>2, <1>t, UnmeteredResume
<1>11. ASSUME NEW k \in Call, MarkFinalized(k) PROVE ChargeInv'
  <2>1. PICK ok \in Reply : Resume(k, [calls[k] EXCEPT !.at = IF ok THEN "append" ELSE "rejected"])
    BY <1>11 DEF MarkFinalized
  <2> DEFINE c == [calls[k] EXCEPT !.at = IF ok THEN "append" ELSE "rejected"]
  <2>2. c.session = calls[k].session /\ c.seen = calls[k].seen /\ calls[k].at = "mark"
    BY <1>11, <1>m DEF MarkFinalized, CallRecord
  <2>3. Within(c.seen, recorded[c.session])
    BY <2>2, <1>seen
  <2>4. Resume(k, c) /\ UNCHANGED <<usage, recorded, ledger>>
    BY <1>11, <2>1 DEF MarkFinalized
  <2> HIDE DEF c
  <2> QED
    BY <2>3, <2>4, <1>t, UnmeteredResume
<1>12. ASSUME NEW k \in Call, AppendDebit(k) PROVE ChargeInv'
  BY <1>12, <1>t, AppendDebitCharge
<1>13. ASSUME NEW k \in Call, DebitRefused(k) PROVE ChargeInv'
  <2> DEFINE c == [calls[k] EXCEPT !.at = "rejected"]
  <2>1. c.at \in {"rejected"}
    BY <1>13, <1>m DEF DebitRefused, CallRecord
  <2>2. Resume(k, c) /\ UNCHANGED <<usage, recorded, ledger>>
    BY <1>13 DEF DebitRefused
  <2> HIDE DEF c
  <2> QED
    BY <2>1, <2>2, <1>t, UnmeteredResume
<1>14. ASSUME NEW k \in Call, StatementLost(k) PROVE ChargeInv'
  <2> DEFINE c == [calls[k] EXCEPT !.at = "rejected"]
  <2>1. c.at \in {"rejected"}
    BY <1>14, <1>m DEF StatementLost, CallRecord
  <2>2. Resume(k, c) /\ UNCHANGED <<usage, recorded, ledger>>
    BY <1>14 DEF StatementLost
  <2> HIDE DEF c
  <2> QED
    BY <2>1, <2>2, <1>t, UnmeteredResume
<1>15. ASSUME NEW k \in Call, Settle(k) PROVE ChargeInv'
  <2>1. Resume(k, IdleCall) /\ UNCHANGED <<usage, recorded, ledger>>
    BY <1>15 DEF Settle
  <2> QED
    BY <2>1, <1>idle, <1>t, UnmeteredResume
<1>16. ASSUME ProcessDies PROVE ChargeInv'
  <2>1. UNCHANGED <<usage, recorded, ledger>>
    BY <1>16 DEF ProcessDies
  <2>2. \A k \in Call : calls'[k].at = "idle"
    BY <1>16, <1>idle DEF ProcessDies
  <2> QED
    BY <2>1, <2>2, <1>t, UnmeteredStep
<1>17. ASSUME UNCHANGED creditsVars PROVE ChargeInv'
  <2>1. UNCHANGED <<usage, recorded, ledger, calls>>
    BY <1>17 DEF creditsVars
  <2> QED
    BY <2>1, <1>t, <1>seen, UnmeteredStep
<1>18. QED
  BY <1>1, <1>2, <1>3, <1>4, <1>5, <1>6, <1>7, <1>8, <1>9, <1>10, <1>11, <1>12, <1>13,
     <1>14, <1>15, <1>16, <1>17
  DEF ServiceStep, CallStep, Called, Crash, UnhandledRejection

\* No debit exceeds the usage recorded for its session, for any rates and any
\* interleaving of recordUsage and finalizeSession calls: a value read before
\* an await may be stale, but never larger than what was recorded since.
THEOREM NeverOverchargedAlways == CreditsSpec => []NeverOvercharged
<1>1. CreditsInit => ChargeInv
  BY ChargeInitInv
<1>2. ChargeInv /\ [ServiceStep]_creditsVars => ChargeInv'
  BY ChargeStepInv
<1>3. ChargeInv => NeverOvercharged
  BY DEF ChargeInv
<1>4. QED
  BY <1>1, <1>2, <1>3, NextIsServiceStep, PTL DEF CreditsSpec

-----------------------------------------------------------------------------
(* Settlement and charge together                                           *)

BillInv == SettlementInv /\ ChargeInv

\* What BillInv says of the tables.
LEMMA TableFacts ==
    ASSUME BillInv
    PROVE  /\ sessions \in [Session -> SessionRow \cup {NoRow}]
           /\ minted \subseteq Session
           /\ recorded \in [Session -> Usage]
           /\ ledger \in Seq(LedgerEntry)
           /\ calls \in [Call -> CallRecord]
           /\ DOMAIN ledger = 1..Len(ledger) /\ Len(ledger) \in Nat
           /\ \A i \in DOMAIN ledger : ledger[i] \in LedgerEntry
           /\ \A s \in Session : sessions[s] # NoRow => s \in minted
BY DEF BillInv, SettlementInv, CreditsTypeOK, RowsAreMinted

\* No call, row, entry or usage is there that nothing put there.
LEMMA BillInitInv == CreditsInit => BillInv
BY SettlementInitInv, ChargeInitInv DEF BillInv

\* Every step keeps settlement and charge what they were proved to be.
LEMMA BillStepInv == BillInv /\ [ServiceStep]_creditsVars => BillInv'
BY SettlementStepInv, ChargeStepInv DEF BillInv

\* It holds of the service at all times.
LEMMA BillAlways == CreditsSpec => []BillInv
BY BillInitInv, BillStepInv, NextIsServiceStep, PTL DEF CreditsSpec

\* Five actions change the tables; every other step is a read or a reply.
LEMMA StepKinds ==
    ASSUME [ServiceStep]_creditsVars
    PROVE  \/ \E s \in Session, a \in Account, m \in Mode : CreateSession(s, a, m)
           \/ \E s \in Session : DeleteSession(s)
           \/ \E k \in Call : UsageStored(k) \/ MarkFinalized(k) \/ AppendDebit(k)
           \/ UNCHANGED <<sessions, minted, ledger, recorded>>
BY DEF ServiceStep, Called, CallStep, RecordUsage, FinalizeSession, UsageGet, UsageRefused,
       SessionGet, FinalUsageGet, AlreadyFinalized, DebitRefused, StatementLost, Settle,
       UnhandledRejection, Crash, ProcessDies, creditsVars

-----------------------------------------------------------------------------
(* What each of the five does to the tables *)

\* A new row for a new uuid.
LEMMA CreateFacts ==
    ASSUME BillInv, NEW s \in Session, NEW a \in Account, NEW m \in Mode, CreateSession(s, a, m)
    PROVE  /\ s \notin minted /\ minted' = minted \cup {s}
           /\ sessions'[s] # NoRow /\ sessions'[s].ended = NotEnded
           /\ \A r \in Session : r # s => sessions'[r] = sessions[r]
           /\ sessions[s] = NoRow
           /\ UNCHANGED <<ledger, recorded>>
<1>1. sessions'[s] = [account |-> a, enforcement |-> m, ended |-> NotEnded]
  BY TableFacts DEF CreateSession
<1>2. sessions'[s] # NoRow
  BY <1>1, CreditsAssumption
<1> QED
  BY <1>1, <1>2, TableFacts DEF CreateSession

\* A row goes, and with it the references to it.
LEMMA DeleteFacts ==
    ASSUME BillInv, NEW s \in Session, DeleteSession(s)
    PROVE  /\ sessions[s] # NoRow /\ sessions'[s] = NoRow
           /\ \A r \in Session : r # s => sessions'[r] = sessions[r]
           /\ UNCHANGED <<minted, recorded>>
           /\ Len(ledger') = Len(ledger) /\ DOMAIN ledger' = DOMAIN ledger
           /\ \A i \in DOMAIN ledger : ledger'[i] = Detach(ledger[i], s)
<1>1. ledger' = [i \in DOMAIN ledger |-> Detach(ledger[i], s)]
  BY DEF DeleteSession
<1>2. Len(ledger') = Len(ledger) /\ \A i \in 1..Len(ledger) : ledger'[i] = Detach(ledger[i], s)
  BY <1>1, TableFacts, DetachProperties
<1> QED
  BY <1>1, <1>2, TableFacts DEF DeleteSession

\* An open row is ended.
LEMMA MarkFacts ==
    ASSUME BillInv, NEW k \in Call, MarkFinalized(k)
    PROVE  LET s == calls[k].session IN
           /\ s \in Session /\ Claimable(s)
           /\ sessions'[s] # NoRow /\ sessions'[s].ended # NotEnded
           /\ \A r \in Session : r # s => sessions'[r] = sessions[r]
           /\ UNCHANGED <<minted, ledger, recorded>>
<1> DEFINE s == calls[k].session
<1>1. /\ s \in Session /\ Claimable(s) /\ calls[k].reason \in EndReason
      /\ sessions' = [sessions EXCEPT ![s].ended = calls[k].reason]
      /\ UNCHANGED <<minted, ledger, recorded>>
  BY TableFacts DEF MarkFinalized, BillInv, SettlementInv, CallsWellFormed, CallRecord
<1>2. sessions[s] \in SessionRow
  BY <1>1, TableFacts DEF Claimable
<1>3. /\ sessions'[s] = [sessions[s] EXCEPT !.ended = calls[k].reason]
      /\ \A r \in Session : r # s => sessions'[r] = sessions[r]
  BY <1>1, TableFacts
<1>4. sessions'[s] \in SessionRow /\ sessions'[s].ended = calls[k].reason
  BY <1>1, <1>2, <1>3 DEF SessionRow
<1>5. sessions'[s] # NoRow /\ sessions'[s].ended # NotEnded
  BY <1>1, <1>4, CreditsAssumption DEF SessionRow, EndReason, NotEnded
<1> QED
  BY <1>1, <1>3, <1>5

\* A debit is added for an ended session that had none.
LEMMA AppendFacts ==
    ASSUME BillInv, NEW k \in Call, AppendDebit(k)
    PROVE  LET s == calls[k].session
               e == DebitEntry(calls[k])
               n == Len(ledger)
           IN  /\ s \in minted /\ s \in Session /\ sessions[s] # NoRow /\ ~Claimable(s)
               /\ DebitsOf(s) = {}
               /\ e \in LedgerEntry /\ e.debitOf = s /\ e.amount = -CreditsFor(calls[k].seen)
               /\ Len(ledger') = n + 1 /\ DOMAIN ledger' = 1..(n + 1)
               /\ ledger'[n + 1] = e
               /\ \A i \in DOMAIN ledger : i \in DOMAIN ledger' /\ ledger'[i] = ledger[i]
               /\ UNCHANGED <<sessions, minted, recorded>>
<1> DEFINE s == calls[k].session
           e == DebitEntry(calls[k])
           n == Len(ledger)
<1>1. /\ calls[k].at = "append" /\ calls[k] \in CallRecord /\ calls[k].row # NoRow
      /\ s \in Session /\ s \in minted /\ sessions[s] # NoRow /\ ~Claimable(s)
      /\ UNCHANGED <<sessions, minted, recorded>>
  BY TableFacts DEF AppendDebit, BillInv, SettlementInv, CallsWellFormed, RowsAreMinted,
                    ClaimsAreExclusive
<1>2. ledger' = Append(ledger, e) /\ DebitsOf(s) = {}
  BY <1>1, DebitIsUnique DEF AppendDebit, BillInv
<1>3. e \in LedgerEntry /\ e.debitOf = s /\ e.amount = -CreditsFor(calls[k].seen)
  BY <1>1, DebitEntryType DEF DebitEntry
<1> HIDE DEF e
<1>4. /\ Len(ledger') = n + 1 /\ DOMAIN ledger' = 1..(n + 1) /\ ledger'[n + 1] = e
      /\ \A i \in DOMAIN ledger : i \in DOMAIN ledger' /\ ledger'[i] = ledger[i]
  BY <1>2, <1>3, TableFacts
<1> QED
  BY <1>1, <1>2, <1>3, <1>4 DEF e

-----------------------------------------------------------------------------
(* What a step may never do *)

\* No step relabels an ended session.
LEMMA StepKeepsReasons ==
    ASSUME BillInv, [ServiceStep]_creditsVars,
           NEW r \in Session, sessions[r] # NoRow, ~Claimable(r)
    PROVE  sessions'[r] = sessions[r] \/ sessions'[r] = NoRow
<1>1. ASSUME NEW s \in Session, NEW a \in Account, NEW m \in Mode, CreateSession(s, a, m)
      PROVE  sessions'[r] = sessions[r]
  BY <1>1, CreateFacts
<1>2. ASSUME NEW s \in Session, DeleteSession(s)
      PROVE  sessions'[r] = sessions[r] \/ sessions'[r] = NoRow
  BY <1>2, DeleteFacts
<1>3. ASSUME NEW k \in Call, UsageStored(k) \/ MarkFinalized(k) \/ AppendDebit(k)
      PROVE  sessions'[r] = sessions[r]
  BY <1>3, MarkFacts DEF UsageStored, AppendDebit
<1> QED
  BY <1>1, <1>2, <1>3, StepKinds

\* FirstReasonWins, of sessions.markFinalized: a session that has ended keeps the
\* reason of the call that won, whoever finalizes it again.
THEOREM EndedStaysEnded == CreditsSpec => FirstReasonWins
<1>1. BillInv /\ [ServiceStep]_creditsVars =>
        \A s \in Session : sessions[s] # NoRow /\ ~Claimable(s) =>
           sessions'[s] = sessions[s] \/ sessions'[s] = NoRow
  BY StepKeepsReasons
<1>2. CreditsSpec => []BillInv
  BY BillAlways
<1> QED
  BY <1>1, <1>2, NextIsServiceStep, PTL DEF CreditsSpec, FirstReasonWins

\* What stays of entry i, and that all entries stay.
EntryKept(i) ==
    /\ ledger'[i].amount = ledger[i].amount
    /\ ledger'[i].type = ledger[i].type
    /\ ledger'[i].account = ledger[i].account
    /\ ledger'[i].debitOf = ledger[i].debitOf
    /\ \/ ledger'[i].sessionId = ledger[i].sessionId
       \/ ledger'[i].sessionId = NoSession /\ sessions'[ledger[i].debitOf] = NoRow

EntriesKept == Len(ledger') >= Len(ledger) /\ \A i \in DOMAIN ledger : EntryKept(i)

\* No step takes an entry away or changes what it says.
LEMMA StepKeepsEntries ==
    ASSUME BillInv, [ServiceStep]_creditsVars
    PROVE  EntriesKept
<1>1. ledger' = ledger => EntriesKept
  BY TableFacts DEF EntriesKept, EntryKept
<1>2. ASSUME NEW s \in Session, NEW a \in Account, NEW m \in Mode, CreateSession(s, a, m)
      PROVE  EntriesKept
  BY <1>1, <1>2 DEF CreateSession
<1>3. ASSUME NEW s \in Session, DeleteSession(s)
      PROVE  EntriesKept
  <2>1. Len(ledger') >= Len(ledger)
    BY <1>3, TableFacts, DeleteFacts
  <2>2. ASSUME NEW i \in DOMAIN ledger PROVE EntryKept(i)
    <3>1. ledger[i] \in LedgerEntry /\ ledger'[i] = Detach(ledger[i], s)
      BY <1>3, TableFacts, DeleteFacts
    <3>2. ledger[i].sessionId = s => ledger[i].debitOf = s
      BY CreditsAssumption DEF BillInv, SettlementInv, RowsAreMinted
    <3>3. sessions'[s] = NoRow
      BY <1>3, DeleteFacts
    <3> QED
      BY <3>1, <3>2, <3>3, DetachEntry DEF EntryKept
  <2> QED
    BY <2>1, <2>2 DEF EntriesKept
<1>4. ASSUME NEW k \in Call, AppendDebit(k)
      PROVE  EntriesKept
  <2>1. Len(ledger') = Len(ledger) + 1 /\ \A i \in DOMAIN ledger : ledger'[i] = ledger[i]
    BY <1>4, AppendFacts
  <2> QED
    BY <2>1, TableFacts DEF EntriesKept, EntryKept
<1>5. ASSUME NEW k \in Call, UsageStored(k) \/ MarkFinalized(k)
      PROVE  EntriesKept
  BY <1>1, <1>5 DEF UsageStored, MarkFinalized
<1> QED
  BY <1>1, <1>2, <1>3, <1>4, <1>5, StepKinds

\* LedgerAppendOnly, of PgCreditLedger and the foreign key of its table: an entry
\* stays what it is, but for the reference to a session that is deleted.
THEOREM EntriesStay == CreditsSpec => LedgerAppendOnly
<1>1. BillInv /\ [ServiceStep]_creditsVars => EntriesKept
  BY StepKeepsEntries
<1>2. CreditsSpec => []BillInv
  BY BillAlways
<1> QED
  BY <1>1, <1>2, NextIsServiceStep, PTL DEF CreditsSpec, LedgerAppendOnly, EntriesKept, EntryKept

-----------------------------------------------------------------------------
(* What is reported is charged *)

\* Only a call that has returned says finalized, and then the bill says the same.
ReportInv ==
    /\ \A k \in Call : calls[k].finalized => calls[k].at = "returned"
    /\ ReportedIsCharged

\* No step but the appending of a debit makes a call say finalized.
LEMMA OnlyAppendReports ==
    ASSUME BillInv, ReportInv, [ServiceStep]_creditsVars
    PROVE  \/ \E k \in Call : AppendDebit(k)
           \/ \A j \in Call : calls'[j].finalized => calls'[j] = calls[j]
<1> DEFINE Silent == \A j \in Call : calls'[j].finalized => calls'[j] = calls[j]
<1>1. \A k \in Call : calls[k] \in CallRecord
  BY TableFacts
<1>2. IdleCall.finalized = FALSE /\ IdleCall \in CallRecord
  BY IdleCallType DEF IdleCall
<1>3. ASSUME NEW k \in Call, Called(k) PROVE Silent
  <2>1. ASSUME NEW s \in minted, NEW d \in Usage, RecordUsage(k, s, d) PROVE Silent
    BY <1>2, <2>1, TableFacts DEF RecordUsage, Resume, CallRecord
  <2>2. ASSUME NEW s \in minted, NEW r \in EndReason, FinalizeSession(k, s, r) PROVE Silent
    BY <1>2, <2>2, TableFacts DEF FinalizeSession, Resume, CallRecord
  <2> QED
    BY <1>3, <2>1, <2>2 DEF Called
<1>4. ASSUME NEW k \in Call,
             UsageGet(k) \/ UsageStored(k) \/ UsageRefused(k) \/ SessionGet(k) \/ FinalUsageGet(k)
      PROVE  Silent
  <2>1. calls[k].finalized = FALSE
    BY <1>1, <1>4 DEF ReportInv, CallRecord, UsageGet, UsageStored, UsageRefused, SessionGet,
                      FinalUsageGet
  <2>2. CASE UsageGet(k) \/ SessionGet(k) \/ FinalUsageGet(k)
    BY <1>1, <2>1, <2>2, TableFacts DEF UsageGet, SessionGet, FinalUsageGet, Resume, CallRecord
  <2>3. CASE UsageStored(k) \/ UsageRefused(k)
    BY <1>1, <2>1, <2>3, TableFacts DEF UsageStored, UsageRefused, Resume, CallRecord
  <2> QED
    BY <1>4, <2>2, <2>3
<1>5. ASSUME NEW k \in Call,
             MarkFinalized(k) \/ AlreadyFinalized(k) \/ DebitRefused(k) \/ StatementLost(k)
      PROVE  Silent
  <2>1. calls[k].finalized = FALSE
    BY <1>1, <1>5 DEF ReportInv, CallRecord, MarkFinalized, AlreadyFinalized, DebitRefused,
                      StatementLost, AwaitPoint
  <2>2. ASSUME NEW at, Resume(k, [calls[k] EXCEPT !.at = at]) PROVE Silent
    BY <1>1, <2>1, <2>2, TableFacts DEF Resume, CallRecord
  <2>3. \E at : Resume(k, [calls[k] EXCEPT !.at = at])
    BY <1>5 DEF MarkFinalized, AlreadyFinalized, DebitRefused, StatementLost
  <2> QED
    BY <2>2, <2>3
<1>6. ASSUME NEW k \in Call, Settle(k) PROVE Silent
  BY <1>2, <1>6, TableFacts DEF Settle, Resume
<1>7. CASE ProcessDies
  BY <1>2, <1>7 DEF ProcessDies
<1>8. CASE UNCHANGED calls
  BY <1>8
<1> QED
  BY <1>3, <1>4, <1>5, <1>6, <1>7, <1>8
  DEF ServiceStep, CallStep, CreateSession, DeleteSession, Crash, UnhandledRejection, creditsVars

\* The entry a call reports stays, and a new report is of a new entry.
LEMMA ReportStepInv ==
    ASSUME BillInv, ReportInv, [ServiceStep]_creditsVars
    PROVE  ReportInv'
<1> DEFINE Charged(c) == \E i \in DOMAIN ledger : ledger[i].debitOf = c.session
                                                /\ ledger[i].amount = -CreditsFor(c.seen)
           ChargedNext(c) == \E i \in DOMAIN ledger' : ledger'[i].debitOf = c.session
                                                /\ ledger'[i].amount = -CreditsFor(c.seen)
<1>1. DOMAIN ledger \subseteq DOMAIN ledger' /\ \A i \in DOMAIN ledger : EntryKept(i)
  BY StepKeepsEntries, TableFacts, BillStepInv DEF EntriesKept, BillInv, SettlementInv, CreditsTypeOK
<1>2. ASSUME NEW c, Charged(c) PROVE ChargedNext(c)
  BY <1>1, <1>2 DEF EntryKept
<1>3. ASSUME NEW j \in Call, calls[j].finalized
      PROVE  calls[j].at = "returned" /\ Charged(calls[j])
  BY <1>3 DEF ReportInv, ReportedIsCharged, DebitsOf
<1>4. SUFFICES ASSUME NEW j \in Call, calls'[j].finalized
               PROVE  calls'[j].at = "returned" /\ ChargedNext(calls'[j])
  BY DEF ReportInv, ReportedIsCharged, DebitsOf, CreditsFor
<1>5. CASE calls'[j] = calls[j]
  BY <1>2, <1>3, <1>4, <1>5
<1>6. ASSUME NEW k \in Call, AppendDebit(k), calls'[j] # calls[j]
      PROVE  calls'[j].at = "returned" /\ ChargedNext(calls'[j])
  <2>1. PICK ok \in Reply :
          Resume(k, [calls[k] EXCEPT !.at = IF ok THEN "returned" ELSE "rejected", !.finalized = ok])
    BY <1>6 DEF AppendDebit
  <2>2. calls[k] \in CallRecord /\ ok \in BOOLEAN
    BY TableFacts DEF Reply
  <2>3. j = k
    BY <1>6, <2>1, TableFacts DEF Resume
  <2>4. calls'[k] = [calls[k] EXCEPT !.at = IF ok THEN "returned" ELSE "rejected", !.finalized = ok]
    BY <2>1, TableFacts DEF Resume
  <2>5. /\ calls'[k].finalized = ok /\ calls'[k].at = IF ok THEN "returned" ELSE "rejected"
        /\ calls'[k].session = calls[k].session /\ calls'[k].seen = calls[k].seen
    BY <2>2, <2>4 DEF CallRecord
  <2>6. PICK e \in LedgerEntry, n \in DOMAIN ledger' :
          ledger'[n] = e /\ e.debitOf = calls[k].session /\ e.amount = -CreditsFor(calls[k].seen)
    <3>1. Len(ledger) + 1 \in 1..(Len(ledger) + 1)
      BY TableFacts
    <3> QED
      BY <1>6, <3>1, AppendFacts
  <2> QED
    BY <1>4, <2>3, <2>5, <2>6
<1> QED
  BY <1>4, <1>5, <1>6, OnlyAppendReports

\* ReportedIsCharged, of finalizeSession: whoever is told that a session was
\* finalized is told the amount the ledger holds for it.
THEOREM ReportsAreCharged == CreditsSpec => []ReportedIsCharged
<1>1. CreditsInit => ReportInv
  BY DEF CreditsInit, ReportInv, ReportedIsCharged, IdleCall
<1>2. BillInv /\ ReportInv /\ [ServiceStep]_creditsVars => ReportInv'
  BY ReportStepInv
<1>3. CreditsSpec => []BillInv
  BY BillAlways
<1>4. ReportInv => ReportedIsCharged
  BY DEF ReportInv
<1> QED
  BY <1>1, <1>2, <1>3, <1>4, NextIsServiceStep, PTL DEF CreditsSpec

-----------------------------------------------------------------------------
(* The refinement *)

\* A phase is a matter of the uuids drawn and of the row.
LEMMA PhaseKept ==
    ASSUME NEW s \in Session, s \in minted' <=> s \in minted, sessions'[s] = sessions[s]
    PROVE  SessionPhase'[s] = SessionPhase[s]
BY DEF SessionPhase

\* A bill is a matter of the entries for the session and of their amounts.
LEMMA BillKept ==
    ASSUME NEW s \in Session, DebitsOf(s)' = DebitsOf(s),
           \A i \in DebitsOf(s) : ledger'[i].amount = ledger[i].amount
    PROVE  SessionBill'[s] = SessionBill[s]
<1>1. CASE DebitsOf(s) = {}
  BY <1>1 DEF SessionBill
<1>2. CASE DebitsOf(s) # {}
  <2>1. (CHOOSE i \in DebitsOf(s) : TRUE) \in DebitsOf(s)
    BY <1>2
  <2> QED
    BY <1>2, <2>1 DEF SessionBill
<1> QED
  BY <1>1, <1>2

\* While the ledger is as it is, so are the bills.
LEMMA BillsKept ==
    ASSUME UNCHANGED ledger
    PROVE  UNCHANGED SessionBill
<1>1. \A s \in Session : DebitsOf(s)' = DebitsOf(s)
  BY DEF DebitsOf
<1>2. \A s \in Session : SessionBill'[s] = SessionBill[s]
  BY <1>1, BillKept
<1> QED
  BY <1>2 DEF SessionBill

\* While usage is as it is, so are the credits it converts to.
LEMMA MeteredKept ==
    ASSUME UNCHANGED recorded
    PROVE  UNCHANGED CreditsMetered
BY DEF CreditsMetered, CreditsFor

\* At first no session is known.
LEMMA PromiseInit == CreditsInit => Promise!SettlementInit
<1> SUFFICES ASSUME CreditsInit PROVE Promise!SettlementInit
  OBVIOUS
<1>1. \A s \in Session : DebitsOf(s) = {}
  BY DEF CreditsInit, DebitsOf
<1>2. CreditsFor(NoUsage) = 0
  BY CreditsAssumption DEF CreditsFor, NoUsage
<1>3. SessionPhase = [s \in Session |-> "none"]
  BY DEF CreditsInit, SessionPhase
<1>4. CreditsMetered = [s \in Session |-> 0]
  BY <1>2 DEF CreditsInit, CreditsMetered
<1>5. SessionBill = [s \in Session |-> Unbilled]
  BY <1>1 DEF SessionBill
<1> QED
  BY <1>3, <1>4, <1>5 DEF Promise!SettlementInit

\* Creating a session opens it.
LEMMA CreateOpens ==
    ASSUME BillInv, NEW s \in Session, NEW a \in Account, NEW m \in Mode, CreateSession(s, a, m)
    PROVE  Promise!Open(s)
<1>1. SessionPhase[s] = "none" /\ SessionPhase'[s] = "open"
  BY CreateFacts DEF SessionPhase
<1>2. \A r \in Session : r # s => SessionPhase'[r] = SessionPhase[r]
  BY CreateFacts, PhaseKept
<1>3. SessionPhase' = [SessionPhase EXCEPT ![s] = "open"]
  BY <1>1, <1>2 DEF SessionPhase
<1>4. UNCHANGED <<CreditsMetered, SessionBill>>
  BY CreateFacts, BillsKept, MeteredKept
<1> QED
  BY <1>1, <1>3, <1>4 DEF Promise!Open

\* Deleting it is forgetting it, its bill apart.
LEMMA DeleteDeletes ==
    ASSUME BillInv, NEW s \in Session, DeleteSession(s)
    PROVE  Promise!Delete(s)
<1>1. SessionPhase[s] \in {"open", "ended"} /\ SessionPhase'[s] = "deleted"
  BY TableFacts, DeleteFacts DEF SessionPhase
<1>2. \A r \in Session : r # s => SessionPhase'[r] = SessionPhase[r]
  BY DeleteFacts, PhaseKept
<1>3. SessionPhase' = [SessionPhase EXCEPT ![s] = "deleted"]
  BY <1>1, <1>2 DEF SessionPhase
<1>4. \A i \in DOMAIN ledger : ledger'[i].amount = ledger[i].amount
                             /\ ledger'[i].debitOf = ledger[i].debitOf
  BY TableFacts, DeleteFacts, DetachEntry
<1>5. \A r \in Session : DebitsOf(r)' = DebitsOf(r)
  BY <1>4, DeleteFacts DEF DebitsOf
<1>6. \A r \in Session : SessionBill'[r] = SessionBill[r]
  BY <1>4, <1>5, BillKept DEF DebitsOf
<1>7. UNCHANGED <<CreditsMetered, SessionBill>>
  BY <1>6, DeleteFacts, MeteredKept DEF SessionBill
<1> QED
  BY <1>1, <1>3, <1>7 DEF Promise!Delete

\* Marking a session finalized ends it.
LEMMA MarkEnds ==
    ASSUME BillInv, NEW k \in Call, MarkFinalized(k)
    PROVE  calls[k].session \in Session /\ Promise!End(calls[k].session)
<1> DEFINE s == calls[k].session
<1>1. /\ s \in Session /\ Claimable(s)
      /\ sessions'[s] # NoRow /\ sessions'[s].ended # NotEnded
      /\ \A r \in Session : r # s => sessions'[r] = sessions[r]
      /\ UNCHANGED <<minted, ledger, recorded>>
  BY MarkFacts
<1>2. SessionPhase[s] = "open" /\ SessionPhase'[s] = "ended"
  BY <1>1, TableFacts DEF SessionPhase, Claimable
<1>3. \A r \in Session : r # s => SessionPhase'[r] = SessionPhase[r]
  BY <1>1, PhaseKept
<1>4. SessionPhase' = [SessionPhase EXCEPT ![s] = "ended"]
  BY <1>1, <1>2, <1>3 DEF SessionPhase
<1>5. UNCHANGED <<CreditsMetered, SessionBill>>
  BY <1>1, BillsKept, MeteredKept
<1> QED
  BY <1>1, <1>2, <1>4, <1>5 DEF Promise!End

\* Storing usage meters the session, or at a rate of zero does nothing to it.
LEMMA StoreMeters ==
    ASSUME BillInv, NEW k \in Call, UsageStored(k)
    PROVE  \/ calls[k].session \in Session /\ Promise!Meter(calls[k].session)
           \/ UNCHANGED Promise!settlementVars
<1> DEFINE s == calls[k].session
           old == recorded[s]
           new == AddUsage(old, calls[k].delta)
<1>1. /\ s \in Session /\ sessions[s] # NoRow /\ UNCHANGED <<sessions, minted, ledger>>
      /\ recorded' = [recorded EXCEPT ![s] = new]
      /\ old \in Usage /\ calls[k].delta \in Usage
  BY TableFacts DEF UsageStored, BillInv, SettlementInv, CallsWellFormed, CallRecord
<1>2. new \in Usage /\ Within(old, new)
  BY <1>1, AddUsageType, WithinAdded
<1>3. CreditsFor(old) \in Nat /\ CreditsFor(new) \in Nat /\ CreditsFor(old) <= CreditsFor(new)
  BY <1>1, <1>2, CreditsForType, CreditsForMonotone
<1>4. recorded'[s] = new /\ \A r \in Session : r # s => recorded'[r] = recorded[r]
  BY <1>1, TableFacts
<1> HIDE DEF new, old
<1>5. /\ CreditsMetered[s] = CreditsFor(old) /\ CreditsMetered'[s] = CreditsFor(new)
      /\ \A r \in Session : r # s => CreditsMetered'[r] = CreditsMetered[r]
  BY <1>1, <1>4 DEF CreditsMetered, CreditsFor, old
<1>6. SessionPhase[s] \in {"open", "ended"}
  BY <1>1, TableFacts DEF SessionPhase
<1>7. UNCHANGED <<SessionPhase, SessionBill>>
  BY <1>1, BillsKept DEF SessionPhase
<1>8. CreditsMetered' = [CreditsMetered EXCEPT ![s] = CreditsMetered'[s]]
  BY <1>5 DEF CreditsMetered
<1>9. CASE CreditsFor(old) = CreditsFor(new)
  <2>1. UNCHANGED CreditsMetered
    BY <1>5, <1>9 DEF CreditsMetered
  <2> QED
    BY <2>1, <1>7 DEF Promise!settlementVars
<1>10. CASE CreditsFor(old) # CreditsFor(new)
  <2>1. CreditsMetered'[s] \in Nat /\ CreditsMetered'[s] > CreditsMetered[s]
    BY <1>3, <1>5, <1>10
  <2> QED
    BY <2>1, <1>1, <1>6, <1>7, <1>8 DEF Promise!Meter
<1> QED
  BY <1>9, <1>10

\* Appending the debit bills the session, for what had been metered by then.
LEMMA AppendBills ==
    ASSUME BillInv, NEW k \in Call, AppendDebit(k)
    PROVE  calls[k].session \in Session /\ Promise!Bill(calls[k].session)
<1>0. PICK s \in Session : s = calls[k].session
  BY AppendFacts
<1> DEFINE n == Len(ledger)
           b == CreditsFor(calls[k].seen)
<1>1. PICK e \in LedgerEntry :
         /\ s \in minted /\ s \in Session /\ sessions[s] # NoRow /\ ~Claimable(s)
         /\ DebitsOf(s) = {}
         /\ e.debitOf = s /\ e.amount = -b
         /\ DOMAIN ledger' = 1..(n + 1) /\ ledger'[n + 1] = e
         /\ \A i \in DOMAIN ledger : i \in DOMAIN ledger' /\ ledger'[i] = ledger[i]
         /\ UNCHANGED <<sessions, minted, recorded>>
  BY <1>0, AppendFacts
<1>2. b \in Nat /\ b <= CreditsFor(recorded[s])
  <2>1. calls[k].seen \in Usage /\ recorded[s] \in Usage /\ Within(calls[k].seen, recorded[s])
    BY <1>0, TableFacts DEF AppendDebit, BillInv, ChargeInv, SeenIsRecorded, CallRecord
  <2> QED
    BY <2>1, CreditsForType, CreditsForMonotone
<1>3. \A i \in DOMAIN ledger' : i \in DOMAIN ledger \/ i = n + 1
  BY <1>1, TableFacts
<1>4. n + 1 \in DOMAIN ledger' /\ n + 1 \notin DOMAIN ledger
  BY <1>1, TableFacts
<1>5. DebitsOf(s)' = {n + 1}
  BY <1>1, <1>3, <1>4 DEF DebitsOf
<1>6. \A r \in Session : r # s => DebitsOf(r)' = DebitsOf(r)
  BY <1>1, <1>3, <1>4 DEF DebitsOf
<1> HIDE DEF b, n
<1>7. SessionBill[s] = Unbilled
  BY <1>1 DEF SessionBill
<1>8. SessionBill'[s] = b
  <2>1. (CHOOSE i \in DebitsOf(s)' : TRUE) = n + 1 /\ DebitsOf(s)' # {}
    BY <1>5
  <2>2. SessionBill'[s] = -ledger'[n + 1].amount
    BY <2>1, <1>1 DEF SessionBill
  <2> QED
    BY <2>2, <1>1, <1>2
<1>9. \A r \in Session : r # s => SessionBill'[r] = SessionBill[r]
  BY <1>1, <1>6, BillKept DEF DebitsOf
<1>10. SessionBill' = [SessionBill EXCEPT ![s] = b]
  <2>1. DOMAIN SessionBill = Session /\ SessionBill = [r \in Session |-> SessionBill[r]]
    BY DEF SessionBill
  <2>2. SessionBill' = [r \in Session |-> SessionBill'[r]]
    BY DEF SessionBill
  <2> QED
    BY <1>8, <1>9, <2>1, <2>2
<1>11. CreditsMetered[s] = CreditsFor(recorded[s]) /\ CreditsFor(recorded[s]) \in Nat
  BY <1>1, TableFacts, CreditsForType DEF CreditsMetered
<1>12. SessionPhase[s] = "ended"
  BY <1>1 DEF SessionPhase, Claimable
<1>13. UNCHANGED <<SessionPhase, CreditsMetered>>
  BY <1>1, MeteredKept DEF SessionPhase
<1>14. b \in 0..CreditsMetered[s]
  BY <1>2, <1>11
<1> QED
  BY <1>0, <1>7, <1>10, <1>12, <1>13, <1>14 DEF Promise!Bill

\* Every step of the service is a step of the promise, or none.
LEMMA StepImplements ==
    ASSUME BillInv, [ServiceStep]_creditsVars
    PROVE  [Promise!SettlementNext]_Promise!settlementVars
<1>1. ASSUME NEW s \in Session, NEW a \in Account, NEW m \in Mode, CreateSession(s, a, m)
      PROVE  Promise!SettlementNext
  BY <1>1, CreateOpens DEF Promise!SettlementNext
<1>2. ASSUME NEW s \in Session, DeleteSession(s)
      PROVE  Promise!SettlementNext
  BY <1>2, DeleteDeletes DEF Promise!SettlementNext
<1>3. ASSUME NEW k \in Call, UsageStored(k)
      PROVE  [Promise!SettlementNext]_Promise!settlementVars
  BY <1>3, StoreMeters DEF Promise!SettlementNext
<1>4. ASSUME NEW k \in Call, MarkFinalized(k)
      PROVE  Promise!SettlementNext
  BY <1>4, MarkEnds DEF Promise!SettlementNext
<1>5. ASSUME NEW k \in Call, AppendDebit(k)
      PROVE  Promise!SettlementNext
  BY <1>5, AppendBills DEF Promise!SettlementNext
<1>6. CASE UNCHANGED <<sessions, minted, ledger, recorded>>
  BY <1>6, BillsKept, MeteredKept DEF Promise!settlementVars, SessionPhase
<1> QED
  BY <1>1, <1>2, <1>3, <1>4, <1>5, <1>6, StepKinds

\* ImplementsSettlement, of CreditsService: whatever calls overlap, fail or are
\* repeated, each session ends once and is billed at most once, after it ended, for
\* no more than its usage; deleting it neither bills nor refunds it.
THEOREM ServiceKeepsPromise == CreditsSpec => ImplementsSettlement
<1>1. CreditsInit => Promise!SettlementInit
  BY PromiseInit
<1>2. BillInv /\ [ServiceStep]_creditsVars => [Promise!SettlementNext]_Promise!settlementVars
  BY StepImplements
<1>3. CreditsSpec => []BillInv
  BY BillAlways
<1> QED
  BY <1>1, <1>2, <1>3, NextIsServiceStep, PTL DEF CreditsSpec, ImplementsSettlement, Promise!SettlementSpec

-----------------------------------------------------------------------------
(* Induction, over sets of numbers                                          *)

\* A set of naturals with 0 and the successor of each is all of them.
LEMMA AllNaturals ==
    ASSUME NEW S \in SUBSET Nat, 0 \in S, \A n \in S : n + 1 \in S
    PROVE  S = Nat
<1> SUFFICES ASSUME Nat \ S # {}
             PROVE  FALSE
  OBVIOUS
<1> DEFINE T == Nat \ S
           R == OpToRel(<, Nat)
<1>1. IsWellFoundedOn(R, Nat)
  BY NatLessThanWellFounded
<1>2. T \subseteq Nat /\ T # {}
  OBVIOUS
<1>3. \E x \in T : \A y \in T : ~(<<y, x>> \in R)
  <2> HIDE DEF T, R
  <2> QED
    BY WFMin, <1>1, <1>2, Zenon
<1>4. PICK x \in T : \A y \in T : ~(<<y, x>> \in R)
  BY <1>3
<1>5. x \in Nat \ {0}
  OBVIOUS
<1>6. x - 1 \in Nat /\ (x - 1) + 1 = x /\ x - 1 < x
  BY <1>5
<1>7. x - 1 \in S
  <2>1. x - 1 \in T => <<x - 1, x>> \in R
    BY <1>6, <1>5 DEF OpToRel
  <2> QED
    BY <2>1, <1>4, <1>6
<1> QED
  BY <1>7, <1>6

-----------------------------------------------------------------------------
(* Sums over finite sets *)

First(s) == CHOOSE x \in s : TRUE

\* it sums up f over the sets of C, taking one element off at a time.
Adds(it, f, C) ==
    it = [s \in C |-> IF s = {} THEN 0 ELSE f[First(s)] + it[s \ {First(s)}]]

Total(f, S) == (CHOOSE it : Adds(it, f, SUBSET S))[S]

\* A nonempty set has a first element, and is one larger than what is left of it.
LEMMA TakeOff ==
    ASSUME NEW T, IsFiniteSet(T), NEW x \in T
    PROVE  /\ IsFiniteSet(T \ {x})
           /\ Cardinality(T) \in Nat /\ Cardinality(T \ {x}) \in Nat
           /\ Cardinality(T) = Cardinality(T \ {x}) + 1
           /\ First(T) \in T
<1>1. First(T) \in T
  BY DEF First
<1>2. IsFiniteSet(T \ {x}) /\ Cardinality(T \ {x}) = Cardinality(T) - 1
  BY FS_RemoveElement
<1>3. Cardinality(T) \in Nat /\ Cardinality(T \ {x}) \in Nat
  BY <1>2, FS_CardinalityType
<1> QED
  BY <1>1, <1>2, <1>3

\* Whatever f is, it can be summed up over the subsets of a finite set.
LEMMA CanAdd ==
    ASSUME NEW f, NEW S, IsFiniteSet(S)
    PROVE  \E it : Adds(it, f, SUBSET S)
<1> DEFINE UpTo(n) == {T \in SUBSET S : Cardinality(T) <= n}
           Good == {n \in Nat : \E it : Adds(it, f, UpTo(n))}
<1>1. \A T \in SUBSET S : IsFiniteSet(T) /\ Cardinality(T) \in Nat /\ Cardinality(T) <= Cardinality(S)
  BY FS_Subset, FS_CardinalityType
<1>2. \A T \in SUBSET S : Cardinality(T) = 0 <=> T = {}
  BY <1>1, FS_EmptySet
<1>3. 0 \in Good
  <2> DEFINE z == [s \in UpTo(0) |-> 0]
  <2>1. \A s \in UpTo(0) : s = {}
    BY <1>1, <1>2
  <2>2. Adds(z, f, UpTo(0))
    BY <2>1 DEF Adds
  <2> QED
    BY <2>2
<1>4. ASSUME NEW n \in Good
      PROVE  n + 1 \in Good
  <2>1. PICK it : Adds(it, f, UpTo(n))
    OBVIOUS
  <2> DEFINE new == [s \in UpTo(n + 1) |-> IF s = {} THEN 0 ELSE f[First(s)] + it[s \ {First(s)}]]
  <2>2. ASSUME NEW s \in UpTo(n + 1), s # {}
        PROVE  new[s \ {First(s)}] = it[s \ {First(s)}]
    <3> DEFINE r == s \ {First(s)}
    <3>1. First(s) \in s /\ Cardinality(s) = Cardinality(r) + 1 /\ Cardinality(r) \in Nat
      BY <2>2, <1>1, TakeOff DEF First
    <3>2. r \in UpTo(n) /\ r \in UpTo(n + 1)
      BY <3>1, n \in Nat
    <3>3. it[r] = IF r = {} THEN 0 ELSE f[First(r)] + it[r \ {First(r)}]
      BY <2>1, <3>2 DEF Adds
    <3> HIDE DEF r
    <3>4. new[r] = IF r = {} THEN 0 ELSE f[First(r)] + it[r \ {First(r)}]
      BY <3>2
    <3> QED
      BY <3>3, <3>4 DEF r
  <2>3. new = [s \in UpTo(n + 1) |-> IF s = {} THEN 0 ELSE f[First(s)] + new[s \ {First(s)}]]
    BY <2>2
  <2>4. Adds(new, f, UpTo(n + 1))
    <3> HIDE DEF new, UpTo
    <3> QED
      BY <2>3 DEF Adds
  <2> HIDE DEF new, UpTo
  <2> QED
    BY <2>4
<1>5. Cardinality(S) \in Good
  <2> HIDE DEF Good
  <2>1. Good = Nat
    BY <1>3, <1>4, AllNaturals DEF Good
  <2> QED
    BY <2>1, FS_CardinalityType
<1>6. UpTo(Cardinality(S)) = SUBSET S
  BY <1>1
<1> QED
  BY <1>5, <1>6

\* it holds the sum of f over each of the subsets of S, in whatever order they are added up.
Sums(it, f, S) ==
    /\ \A T \in SUBSET S : it[T] \in Int
    /\ it[{}] = 0
    /\ \A T \in SUBSET S : \A x \in T : it[T] = f[x] + it[T \ {x}]

\* The order does not matter.
LEMMA AnyOrder ==
    ASSUME NEW f, NEW S, IsFiniteSet(S), \A x \in S : f[x] \in Int,
           NEW it, Adds(it, f, SUBSET S)
    PROVE  Sums(it, f, S)
<1>1. \A T \in SUBSET S : IsFiniteSet(T) /\ Cardinality(T) \in Nat
  BY FS_Subset, FS_CardinalityType
<1>2. it[{}] = 0
  BY DEF Adds
<1>3. ASSUME NEW T \in SUBSET S, T # {}
      PROVE  First(T) \in T /\ it[T] = f[First(T)] + it[T \ {First(T)}]
  BY <1>3 DEF Adds, First
<1> DEFINE Fine(T) == it[T] \in Int /\ \A x \in T : it[T] = f[x] + it[T \ {x}]
           Good == {n \in Nat : \A T \in SUBSET S : Cardinality(T) <= n => Fine(T)}
<1>4. 0 \in Good
  <2>1. \A T \in SUBSET S : Cardinality(T) <= 0 => T = {}
    BY <1>1, FS_EmptySet
  <2>2. Fine({})
    BY <1>2
  <2> HIDE DEF Fine
  <2> QED
    BY <2>1, <2>2
<1>5. ASSUME NEW n \in Good
      PROVE  n + 1 \in Good
  <2>0. \A T \in SUBSET S : Cardinality(T) <= n => Fine(T)
    OBVIOUS
  <2> SUFFICES ASSUME NEW T \in SUBSET S, Cardinality(T) = n + 1
               PROVE  Fine(T)
    <3> HIDE DEF Fine
    <3>1. \A T \in SUBSET S : Cardinality(T) <= n + 1 => Cardinality(T) <= n \/ Cardinality(T) = n + 1
      BY <1>1, n \in Nat
    <3> QED
      BY <3>1, <2>0, n \in Nat
  <2>1. T # {} /\ n \in Nat
    <3>1. n + 1 # 0
      OBVIOUS
    <3> QED
      BY <3>1, FS_EmptySet
  <2>2. ASSUME NEW x \in T
        PROVE  /\ T \ {x} \in SUBSET S /\ Fine(T \ {x}) /\ f[x] \in Int
               /\ \A y \in T \ {x} : it[(T \ {x}) \ {y}] \in Int
    <3>1. Cardinality(T \ {x}) \in Nat /\ Cardinality(T) = Cardinality(T \ {x}) + 1
      BY <1>1, TakeOff
    <3>2. Cardinality(T \ {x}) <= n
      BY <3>1, <2>1
    <3>3. T \ {x} \in SUBSET S /\ f[x] \in Int
      OBVIOUS
    <3>4. Fine(T \ {x})
      <4> HIDE DEF Fine
      <4> QED
        BY <2>0, <3>2, <3>3
    <3>5. ASSUME NEW y \in T \ {x}
          PROVE  it[(T \ {x}) \ {y}] \in Int
      <4> DEFINE q == T \ {x}
      <4>1. q \in SUBSET S /\ y \in q /\ q \ {y} \in SUBSET S
        OBVIOUS
      <4>2. Cardinality(q \ {y}) \in Nat /\ Cardinality(q) = Cardinality(q \ {y}) + 1
        <5> HIDE DEF q
        <5> QED
          BY <4>1, <1>1, TakeOff
      <4>3. Cardinality(q \ {y}) <= n
        BY <4>2, <3>1, <3>2
      <4> QED
        BY <2>0, <4>1, <4>3
    <3> QED
      BY <3>3, <3>4, <3>5
  <2> DEFINE c == First(T)
  <2>3. c \in T /\ it[T] = f[c] + it[T \ {c}]
    BY <1>3, <2>1
  <2> HIDE DEF c
  <2>4. it[T] \in Int
    BY <2>2, <2>3
  <2>5. ASSUME NEW x \in T
        PROVE  it[T] = f[x] + it[T \ {x}]
    <3>1. CASE x = c
      BY <2>3, <3>1
    <3>2. CASE x # c
      <4> DEFINE r == (T \ {c}) \ {x}
      <4>1. r = (T \ {x}) \ {c} /\ r \in SUBSET S
        OBVIOUS
      <4>2. it[T \ {c}] = f[x] + it[r]
        BY <2>2, <2>3, <3>2
      <4>3. it[T \ {x}] = f[c] + it[r]
        BY <2>2, <2>3, <3>2, <4>1
      <4>4. it[r] \in Int /\ f[x] \in Int /\ f[c] \in Int
        BY <2>2, <2>3, <3>2
      <4> HIDE DEF r
      <4> QED
        BY <4>2, <4>3, <4>4, <2>3
    <3> QED
      BY <3>1, <3>2
  <2> QED
    BY <2>4, <2>5
<1>6. \A T \in SUBSET S : Fine(T)
  <2>1. Good = Nat
    <3> HIDE DEF Good
    <3> QED
      BY <1>4, <1>5, AllNaturals DEF Good
  <2> HIDE DEF Fine
  <2>2. ASSUME NEW T \in SUBSET S
        PROVE  Fine(T)
    <3>1. Cardinality(T) \in Good /\ Cardinality(T) <= Cardinality(T)
      BY <2>1, <1>1
    <3> QED
      BY <3>1
  <2> QED
    BY <2>2
<1> QED
  BY <1>2, <1>6 DEF Sums

\* Two sums of what is the same over a set are the same.
LEMMA SumsAgree ==
    ASSUME NEW S, NEW R, NEW f, NEW g, NEW it, NEW jt, Sums(it, f, S), Sums(jt, g, R),
           NEW T, IsFiniteSet(T), T \subseteq S, T \subseteq R, \A x \in T : f[x] = g[x]
    PROVE  it[T] = jt[T]
<1> DEFINE Good == {n \in Nat : \A U \in SUBSET T : Cardinality(U) = n => it[U] = jt[U]}
<1>1. \A U \in SUBSET T : IsFiniteSet(U) /\ Cardinality(U) \in Nat /\ (Cardinality(U) = 0 => U = {})
  BY FS_Subset, FS_CardinalityType, FS_EmptySet
<1>2. 0 \in Good
  <2>1. it[{}] = jt[{}]
    BY DEF Sums
  <2> QED
    BY <1>1, <2>1
<1>3. ASSUME NEW n \in Good
      PROVE  n + 1 \in Good
  <2> SUFFICES ASSUME NEW U \in SUBSET T, Cardinality(U) = n + 1
               PROVE  it[U] = jt[U]
    OBVIOUS
  <2>1. U # {}
    <3>1. n + 1 # 0
      OBVIOUS
    <3> QED
      BY <3>1, FS_EmptySet
  <2>2. PICK x : x \in U
    BY <2>1
  <2>3. Cardinality(U \ {x}) \in Nat /\ Cardinality(U) = Cardinality(U \ {x}) + 1
    BY <1>1, <2>2, TakeOff
  <2>4. Cardinality(U \ {x}) = n
    BY <2>3
  <2>5. it[U \ {x}] = jt[U \ {x}]
    BY <2>4
  <2>6. it[U] = f[x] + it[U \ {x}] /\ jt[U] = g[x] + jt[U \ {x}] /\ f[x] = g[x]
    BY <2>2 DEF Sums
  <2> QED
    BY <2>5, <2>6
<1>4. Good = Nat
  <2> HIDE DEF Good
  <2> QED
    BY <1>2, <1>3, AllNaturals DEF Good
<1> QED
  BY <1>1, <1>4

\* Total is such a sum.
LEMMA TotalSums ==
    ASSUME NEW f, NEW S, IsFiniteSet(S), \A x \in S : f[x] \in Int
    PROVE  \E it : Sums(it, f, S) /\ Total(f, S) = it[S]
<1> DEFINE it == CHOOSE i : Adds(i, f, SUBSET S)
<1>1. Adds(it, f, SUBSET S)
  BY CanAdd
<1>2. Total(f, S) = it[S]
  BY DEF Total
<1> HIDE DEF it
<1>3. Sums(it, f, S)
  BY <1>1, AnyOrder
<1> QED
  BY <1>2, <1>3

\* A total is a number; of nothing it is 0.
LEMMA TotalType ==
    ASSUME NEW f, NEW S, IsFiniteSet(S), \A x \in S : f[x] \in Int
    PROVE  Total(f, S) \in Int /\ (S = {} => Total(f, S) = 0)
<1>1. PICK it : Sums(it, f, S) /\ Total(f, S) = it[S]
  BY TotalSums
<1> QED
  BY <1>1 DEF Sums

\* What is the same everywhere has the same total.
LEMMA TotalSame ==
    ASSUME NEW f, NEW g, NEW S, IsFiniteSet(S), \A x \in S : f[x] \in Int /\ f[x] = g[x]
    PROVE  Total(f, S) = Total(g, S)
<1>1. PICK it : Sums(it, f, S) /\ Total(f, S) = it[S]
  BY TotalSums
<1>2. PICK jt : Sums(jt, g, S) /\ Total(g, S) = jt[S]
  BY TotalSums
<1>3. it[S] = jt[S]
  BY <1>1, <1>2, SumsAgree
<1> QED
  BY <1>1, <1>2, <1>3

\* One more adds what it has.
LEMMA TotalMore ==
    ASSUME NEW f, NEW S, IsFiniteSet(S), NEW x, x \notin S, \A y \in S \cup {x} : f[y] \in Int
    PROVE  Total(f, S \cup {x}) = Total(f, S) + f[x]
<1> DEFINE R == S \cup {x}
<1>1. IsFiniteSet(R) /\ S \subseteq R /\ R \ {x} = S /\ x \in R /\ \A y \in R : f[y] \in Int
  BY FS_AddElement
<1> HIDE DEF R
<1>2. PICK it : Sums(it, f, R) /\ Total(f, R) = it[R]
  BY <1>1, TotalSums
<1>3. PICK jt : Sums(jt, f, S) /\ Total(f, S) = jt[S]
  BY <1>1, TotalSums
<1>4. it[S] = jt[S]
  BY <1>1, <1>2, <1>3, SumsAgree
<1>5. it[R] = f[x] + it[S] /\ it[S] \in Int /\ f[x] \in Int
  BY <1>1, <1>2 DEF Sums
<1> QED
  BY <1>2, <1>3, <1>4, <1>5 DEF R

-----------------------------------------------------------------------------
(* Balances *)

\* The entries that count for the balance of a, and what each is about.
Counting(a) == {i \in DOMAIN ledger : ledger[i].account = a /\ AffectsBalance(ledger[i].type)}
Amounts == [i \in DOMAIN ledger |-> ledger[i].amount]

BalancesAdd ==
    \A a \in Account :
        /\ IsFiniteSet(Counting(a)) /\ \A i \in Counting(a) : Amounts[i] \in Int
        /\ LedgerBalance(a) = Opening[a] + Total(Amounts, Counting(a))

\* A balance is the total of what counts for it.
LEMMA BalanceIsTotal == BillInv => BalancesAdd
<1> SUFFICES ASSUME BillInv, NEW a \in Account
             PROVE  /\ IsFiniteSet(Counting(a)) /\ \A i \in Counting(a) : Amounts[i] \in Int
                    /\ LedgerBalance(a) = Opening[a] + Total(Amounts, Counting(a))
  BY DEF BalancesAdd
<1> DEFINE S == Counting(a)
           Taken(it) == it = [s \in SUBSET S |->
                                IF s = {} THEN 0
                                ELSE ledger[CHOOSE y \in s : TRUE].amount
                                       + it[s \ {CHOOSE y \in s : TRUE}]]
           at == CHOOSE it : Taken(it)
<1>1. LedgerBalance(a) = Opening[a] + at[S]
  BY DEF LedgerBalance, MapThenSumSet, MapThenFoldSet, Counting
<1>2. S \subseteq DOMAIN ledger /\ IsFiniteSet(S)
  <2>1. S \subseteq 1..Len(ledger) /\ IsFiniteSet(1..Len(ledger))
    BY TableFacts, FS_Interval DEF Counting
  <2> QED
    BY <2>1, FS_Subset, TableFacts
<1>3. \A x \in S : Amounts[x] \in Int
  BY <1>2, TableFacts DEF Amounts, LedgerEntry
<1>4. ASSUME NEW it
      PROVE  Adds(it, Amounts, SUBSET S) <=> Taken(it)
  <2>1. \A s \in SUBSET S : s # {} => First(s) \in s /\ Amounts[First(s)] = ledger[First(s)].amount
    BY <1>2 DEF First, Amounts
  <2> HIDE DEF S
  <2> QED
    BY <2>1 DEF Adds, First
<1> HIDE DEF S
<1>5. Adds(at, Amounts, SUBSET S)
  <2>1. PICK it : Taken(it)
    BY CanAdd, <1>2, <1>4
  <2>2. Taken(at)
    <3> HIDE DEF Taken
    <3> QED
      BY <2>1
  <2> QED
    BY <1>4, <2>2
<1> HIDE DEF at, Taken
<1>6. Sums(at, Amounts, S)
  BY <1>2, <1>3, <1>5, AnyOrder
<1>7. PICK it : Sums(it, Amounts, S) /\ Total(Amounts, S) = it[S]
  BY <1>2, <1>3, TotalSums
<1>8. at[S] = it[S]
  BY <1>2, <1>6, <1>7, SumsAgree
<1> QED
  BY <1>1, <1>2, <1>3, <1>7, <1>8 DEF S

\* Finalizing calls have read the row of their session.
Reading == {"final_usage_get", "mark", "append"}
RowsAreRead ==
    \A k \in Call : calls[k].at \in Reading /\ calls[k].row # NoRow =>
        LET row == sessions[calls[k].session]
        IN  row = NoRow \/ (/\ row.account = calls[k].row.account
                            /\ row.enforcement = calls[k].row.enforcement)

\* No row changes its account or enforcement.
LEMMA RowsKeepOwners ==
    ASSUME BillInv, [ServiceStep]_creditsVars, NEW s \in minted, sessions'[s] # NoRow
    PROVE  /\ sessions[s] # NoRow
           /\ sessions'[s].account = sessions[s].account
           /\ sessions'[s].enforcement = sessions[s].enforcement
<1> DEFINE Kept == /\ sessions[s] # NoRow
                   /\ sessions'[s].account = sessions[s].account
                   /\ sessions'[s].enforcement = sessions[s].enforcement
<1>1. s \in Session /\ (sessions'[s] = sessions[s] => Kept)
  BY TableFacts
<1>2. ASSUME NEW t \in Session, NEW a \in Account, NEW m \in Mode, CreateSession(t, a, m)
      PROVE  Kept
  BY <1>1, <1>2, CreateFacts
<1>3. ASSUME NEW t \in Session, DeleteSession(t)
      PROVE  Kept
  BY <1>1, <1>3, DeleteFacts
<1>4. ASSUME NEW k \in Call, MarkFinalized(k)
      PROVE  Kept
  <2> DEFINE t == calls[k].session
  <2>1. CASE s # t
    BY <1>1, <1>4, <2>1, MarkFacts
  <2>2. CASE s = t
    <3>1. sessions[s] # NoRow /\ sessions[s] \in SessionRow
      BY <1>1, <1>4, <2>2, MarkFacts, TableFacts DEF Claimable
    <3>2. sessions'[s] = [sessions[s] EXCEPT !.ended = calls[k].reason]
      BY <1>1, <1>4, <2>2, TableFacts DEF MarkFinalized
    <3> QED
      BY <3>1, <3>2 DEF SessionRow
  <2> QED
    BY <2>1, <2>2
<1>5. ASSUME NEW k \in Call, UsageStored(k) \/ AppendDebit(k)
      PROVE  Kept
  BY <1>1, <1>5 DEF UsageStored, AppendDebit
<1>6. UNCHANGED <<sessions, minted, ledger, recorded>> => Kept
  BY <1>1
<1> HIDE DEF Kept
<1>7. Kept
  BY <1>2, <1>3, <1>4, <1>5, <1>6, StepKinds
<1> QED
  BY <1>7 DEF Kept

\* A call that finalizes has just read its row, or has the one it had.
LEMMA CallsKeepRows ==
    ASSUME BillInv, [ServiceStep]_creditsVars, NEW j \in Call
    PROVE  \/ calls'[j].at \notin Reading
           \/ calls'[j].row = sessions[calls'[j].session] /\ sessions' = sessions
           \/ /\ calls[j].at \in Reading
              /\ calls'[j].row = calls[j].row /\ calls'[j].session = calls[j].session
<1> DEFINE Same == /\ calls[j].at \in Reading
                   /\ calls'[j].row = calls[j].row /\ calls'[j].session = calls[j].session
           Fresh == calls'[j].row = sessions[calls'[j].session] /\ sessions' = sessions
           Fine == calls'[j].at \notin Reading \/ Fresh \/ Same
<1>1. \A k \in Call : calls[k] \in CallRecord
  BY TableFacts
<1>2. IdleCall.at = "idle" /\ IdleCall \in CallRecord
  BY IdleCallType DEF IdleCall
<1>3. calls'[j] = calls[j] => Fine
  OBVIOUS
<1>4. ASSUME NEW k \in Call, NEW c, Resume(k, c), c.at \notin Reading
      PROVE  Fine
  BY <1>3, <1>4, TableFacts DEF Resume
<1>5. ASSUME NEW k \in Call, Called(k) PROVE Fine
  <2>1. ASSUME NEW s \in minted, NEW d \in Usage, RecordUsage(k, s, d) PROVE Fine
    BY <1>2, <1>4, <2>1 DEF RecordUsage, Reading, CallRecord
  <2>2. ASSUME NEW s \in minted, NEW r \in EndReason, FinalizeSession(k, s, r) PROVE Fine
    BY <1>2, <1>4, <2>2 DEF FinalizeSession, Reading, CallRecord
  <2> QED
    BY <1>5, <2>1, <2>2 DEF Called
<1>6. ASSUME NEW k \in Call, SessionGet(k) PROVE Fine
  <2> DEFINE c == [calls[k] EXCEPT !.at = "final_usage_get", !.row = sessions[calls[k].session]]
  <2>1. Resume(k, c) /\ sessions' = sessions
    BY <1>6 DEF SessionGet
  <2>2. c.row = sessions[c.session]
    BY <1>1 DEF CallRecord
  <2> HIDE DEF c
  <2> QED
    BY <1>3, <2>1, <2>2, TableFacts DEF Resume
<1>7. ASSUME NEW k \in Call, FinalUsageGet(k) \/ MarkFinalized(k) PROVE Fine
  <2>1. \E c : /\ Resume(k, c) /\ c.row = calls[k].row /\ c.session = calls[k].session
               /\ calls[k].at \in Reading
    <3>1. CASE FinalUsageGet(k)
      BY <1>1, <3>1 DEF FinalUsageGet, CallRecord, Reading
    <3>2. CASE MarkFinalized(k)
      BY <1>1, <3>2 DEF MarkFinalized, CallRecord, Reading
    <3> QED
      BY <1>7, <3>1, <3>2
  <2> QED
    BY <1>3, <2>1, TableFacts DEF Resume
<1>8. ASSUME NEW k \in Call,
             UsageGet(k) \/ UsageStored(k) \/ UsageRefused(k) \/ AlreadyFinalized(k)
               \/ DebitRefused(k) \/ StatementLost(k) \/ AppendDebit(k) \/ Settle(k)
      PROVE  Fine
  <2>1. CASE UsageGet(k) \/ UsageStored(k) \/ UsageRefused(k)
    BY <1>1, <1>4, <2>1 DEF UsageGet, UsageStored, UsageRefused, Reading, CallRecord
  <2>2. CASE AlreadyFinalized(k) \/ DebitRefused(k) \/ StatementLost(k)
    BY <1>1, <1>4, <2>2 DEF AlreadyFinalized, DebitRefused, StatementLost, Reading, CallRecord
  <2>3. CASE AppendDebit(k)
    BY <1>1, <1>4, <2>3 DEF AppendDebit, Reading, CallRecord
  <2>4. CASE Settle(k)
    BY <1>2, <1>4, <2>4 DEF Settle, Reading
  <2> QED
    BY <1>8, <2>1, <2>2, <2>3, <2>4
<1>9. CASE ProcessDies
  BY <1>2, <1>9 DEF ProcessDies, Reading
<1>10. ASSUME calls' = calls PROVE Fine
  <2>1. calls'[j] = calls[j]
    BY <1>10
  <2> HIDE DEF Fine
  <2> QED
    BY <1>3, <2>1
<1>11. ASSUME NEW k \in Call,
              Called(k) \/ CallStep(k) \/ StatementLost(k) \/ Settle(k) \/ UnhandledRejection(k)
       PROVE  Fine
  <2>1. UnhandledRejection(k) => ProcessDies
    BY DEF UnhandledRejection
  <2> QED
    BY <1>5, <1>6, <1>7, <1>8, <1>9, <1>11, <2>1 DEF CallStep
<1>12. CASE \/ \E s \in Session, a \in Account, m \in Mode : CreateSession(s, a, m)
            \/ \E s \in Session : DeleteSession(s)
            \/ UNCHANGED creditsVars
  <2>1. calls' = calls
    BY <1>12 DEF CreateSession, DeleteSession, creditsVars
  <2> QED
    BY <1>10, <2>1
<1>13. Crash => ProcessDies
  BY DEF Crash
<1>14. Fine
  BY <1>9, <1>11, <1>12, <1>13 DEF ServiceStep
<1> QED
  BY <1>14 DEF Fine

\* So what they have read stays what the row says.
LEMMA RowsStayRead ==
    ASSUME BillInv, RowsAreRead, BillInv', [ServiceStep]_creditsVars
    PROVE  RowsAreRead'
<1> SUFFICES ASSUME NEW j \in Call, calls'[j].at \in Reading, calls'[j].row # NoRow,
                    sessions'[calls'[j].session] # NoRow
             PROVE  LET row == sessions'[calls'[j].session]
                    IN  row.account = calls'[j].row.account /\ row.enforcement = calls'[j].row.enforcement
  BY DEF RowsAreRead
<1>1. CASE calls'[j].row = sessions[calls'[j].session] /\ sessions' = sessions
  BY <1>1
<1>2. CASE /\ calls[j].at \in Reading
           /\ calls'[j].row = calls[j].row /\ calls'[j].session = calls[j].session
  <2>1. calls[j].session \in minted
    BY <1>2 DEF BillInv, SettlementInv, RowsAreMinted, Reading
  <2> QED
    BY <1>2, <2>1, RowsKeepOwners DEF RowsAreRead
<1> QED
  BY <1>1, <1>2, CallsKeepRows

\* A settlement of a's own session, which was enforced, and by what it consumed.
MovesBalance(a, k) ==
    LET s == calls[k].session IN
    /\ calls[k].at = "append" /\ sessions[s] # NoRow
    /\ sessions[s].account = a /\ sessions[s].enforcement = "enforced"
    /\ LedgerBalance(a)' = LedgerBalance(a) - CreditsFor(calls[k].seen)

\* A ledger that counts the same amounts for a has the same balance.
LEMMA BalanceKept ==
    ASSUME BalancesAdd, BalancesAdd', NEW a \in Account, Counting(a)' = Counting(a),
           \A i \in Counting(a) : Amounts'[i] = Amounts[i]
    PROVE  LedgerBalance(a)' = LedgerBalance(a)
<1>1. /\ IsFiniteSet(Counting(a)) /\ \A i \in Counting(a) : Amounts[i] \in Int
      /\ LedgerBalance(a) = Opening[a] + Total(Amounts, Counting(a))
      /\ LedgerBalance(a)' = Opening[a] + Total(Amounts', Counting(a)')
  BY DEF BalancesAdd
<1>2. Total(Amounts, Counting(a)) = Total(Amounts', Counting(a))
  <2> DEFINE f == Amounts
             g == Amounts'
             S == Counting(a)
  <2>1. IsFiniteSet(S) /\ \A x \in S : f[x] \in Int /\ f[x] = g[x]
    BY <1>1
  <2> HIDE DEF f, g, S
  <2>2. Total(f, S) = Total(g, S)
    BY <2>1, TotalSame
  <2> QED
    BY <2>2 DEF f, g, S
<1> QED
  BY <1>1, <1>2

\* Only the settlement of an enforced session of a moves a's balance.
LEMMA SettlementMovesBalance ==
    ASSUME BillInv, RowsAreRead, BalancesAdd, BalancesAdd', [ServiceStep]_creditsVars,
           NEW a \in Account
    PROVE  LedgerBalance(a)' = LedgerBalance(a) \/ \E k \in Call : MovesBalance(a, k)
<1> DEFINE Stays == LedgerBalance(a)' = LedgerBalance(a)
<1>1. CASE ledger' = ledger
  BY <1>1, BalanceKept DEF Counting, Amounts
<1>2. ASSUME NEW s \in Session, DeleteSession(s)
      PROVE  Stays
  <2>1. /\ DOMAIN ledger' = DOMAIN ledger
        /\ \A i \in DOMAIN ledger : /\ ledger'[i].account = ledger[i].account
                                    /\ ledger'[i].type = ledger[i].type
                                    /\ ledger'[i].amount = ledger[i].amount
    BY <1>2, DeleteFacts, DetachEntry, TableFacts
  <2>2. Counting(a)' = Counting(a) /\ \A i \in Counting(a) : Amounts'[i] = Amounts[i]
    BY <2>1 DEF Counting, Amounts
  <2> QED
    BY <2>2, BalanceKept
<1>3. ASSUME NEW k \in Call, AppendDebit(k)
      PROVE  Stays \/ MovesBalance(a, k)
  <2> DEFINE s == calls[k].session
             e == DebitEntry(calls[k])
             n == Len(ledger) + 1
             S == Counting(a)
  <2>1. /\ s \in Session /\ sessions[s] # NoRow /\ calls[k].at = "append"
        /\ e \in LedgerEntry /\ e.amount = -CreditsFor(calls[k].seen)
        /\ DOMAIN ledger' = 1..n /\ ledger'[n] = e
        /\ DOMAIN ledger = 1..Len(ledger) /\ Len(ledger) \in Nat
        /\ \A i \in DOMAIN ledger : i \in DOMAIN ledger' /\ ledger'[i] = ledger[i]
    BY <1>3, AppendFacts, TableFacts DEF AppendDebit
  <2>2. /\ e.account = sessions[s].account
        /\ AffectsBalance(e.type) => sessions[s].enforcement = "enforced"
    <3>1. calls[k] \in CallRecord /\ calls[k].row # NoRow
      BY <2>1, TableFacts DEF BillInv, SettlementInv, CallsWellFormed
    <3>2. /\ sessions[s].account = calls[k].row.account
          /\ sessions[s].enforcement = calls[k].row.enforcement
      BY <2>1, <3>1 DEF RowsAreRead, Reading
    <3> QED
      BY <3>2 DEF DebitEntry, DebitTypeFor, AffectsBalance
  <2>3. /\ n \notin DOMAIN ledger /\ n \in DOMAIN ledger'
        /\ DOMAIN ledger' = DOMAIN ledger \cup {n}
        /\ \A i \in DOMAIN ledger : Amounts'[i] = Amounts[i]
        /\ Amounts'[n] = e.amount
    BY <2>1 DEF Amounts
  <2> HIDE DEF n, e, s
  <2>4. CASE ~(e.account = a /\ AffectsBalance(e.type))
    <3>1. Counting(a)' = Counting(a) /\ \A i \in Counting(a) : Amounts'[i] = Amounts[i]
      BY <2>1, <2>3, <2>4 DEF Counting
    <3> QED
      BY <3>1, BalanceKept
  <2>5. CASE e.account = a /\ AffectsBalance(e.type)
    <3>1. /\ Counting(a)' = S \cup {n} /\ n \notin S
          /\ \A i \in S : Amounts'[i] = Amounts[i]
      BY <2>1, <2>3, <2>5 DEF Counting
    <3>2. /\ IsFiniteSet(S) /\ \A i \in S : Amounts[i] \in Int
          /\ LedgerBalance(a) = Opening[a] + Total(Amounts, S)
          /\ \A i \in Counting(a)' : Amounts'[i] \in Int
          /\ LedgerBalance(a)' = Opening[a] + Total(Amounts', Counting(a)')
      BY DEF BalancesAdd
    <3> DEFINE f == Amounts
               g == Amounts'
               c == CreditsFor(calls[k].seen)
    <3>3. /\ IsFiniteSet(S) /\ n \notin S
          /\ \A x \in S \cup {n} : g[x] \in Int
          /\ \A x \in S : f[x] \in Int /\ f[x] = g[x]
          /\ g[n] = -c
          /\ Opening[a] \in Int
      BY <2>1, <2>3, <3>1, <3>2, CreditsAssumption
    <3>4. c \in Nat
      BY TableFacts, CreditsForType DEF CallRecord
    <3>5. LedgerBalance(a) = Opening[a] + Total(f, S)
      BY <3>2
    <3>6. LedgerBalance(a)' = Opening[a] + Total(g, S \cup {n})
      BY <3>1, <3>2
    <3> HIDE DEF f, g, S, c
    <3>7. Total(g, S \cup {n}) = Total(g, S) + g[n]
      BY <3>3, TotalMore
    <3>8. Total(f, S) = Total(g, S)
      BY <3>3, TotalSame
    <3>9. Total(f, S) \in Int
      BY <3>3, TotalType
    <3>10. LedgerBalance(a)' = LedgerBalance(a) - c
      BY <3>3, <3>4, <3>5, <3>6, <3>7, <3>8, <3>9
    <3> QED
      BY <2>1, <2>2, <2>5, <3>10 DEF MovesBalance, c, s
  <2> QED
    BY <2>4, <2>5
<1> QED
  BY <1>1, <1>2, <1>3, StepKinds DEF CreateSession, UsageStored, MarkFinalized

\* OnlySettlementMovesBalance, of appendLedger and getBalance: whatever overlaps,
\* is retried, deleted or lost, an account's balance moves only when an enforced
\* session of its own is settled, and by what that session consumed.
THEOREM OnlySettlementsMoveBalances == CreditsSpec => OnlySettlementMovesBalance
<1> DEFINE Inv == BillInv /\ RowsAreRead
           Moves == \A a \in Account : LedgerBalance(a)' # LedgerBalance(a) =>
                       \E k \in Call : MovesBalance(a, k)
<1>1. CreditsInit => RowsAreRead
  <2>1. IdleCall.at = "idle"
    BY DEF IdleCall
  <2> QED
    BY <2>1 DEF CreditsInit, RowsAreRead, Reading
<1>2. CreditsSpec => []BillInv
  BY BillAlways
<1>3. BillInv /\ BillInv' /\ RowsAreRead /\ [ServiceStep]_creditsVars => RowsAreRead'
  BY RowsStayRead
<1>4. BillInv /\ RowsAreRead /\ BalancesAdd /\ BalancesAdd' /\ [ServiceStep]_creditsVars => Moves
  BY SettlementMovesBalance
<1>5. BillInv => BalancesAdd
  BY BalanceIsTotal
<1> QED
  BY <1>1, <1>2, <1>3, <1>4, <1>5, NextIsServiceStep, PTL
  DEF CreditsSpec, OnlySettlementMovesBalance, MovesBalance

=============================================================================
