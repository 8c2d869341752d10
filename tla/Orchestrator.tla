------------------------------ MODULE Orchestrator ------------------------------
(***************************************************************************)
(* The orchestrator of one session: which question is current or pending,  *)
(* the generations in flight, what is persisted and remembered of them,    *)
(* and the answer_complete messages the client gets.  Several generations  *)
(* run at once, and each awaits the provider and then qna.append.  Credits *)
(* are SessionGateway's: here a check may exhaust the session at any time. *)
(* A question is a text; its topics and scope are functions of it.         *)
(***************************************************************************)
EXTENDS Integers, Sequences, FiniteSets, SequencesExt

CONSTANTS
    Question,        \* texts; two spoken questions may be the same text
    NoQuestion,      \* currentQuestion = null
    Screenshot,      \* the placeholder question of a screenshot
    MaxTurns,        \* MAX_HISTORY_TURNS
    MaxGenerations   \* bound: generations started

ASSUME OrchestratorAssumption ==
    /\ Screenshot \in Question
    /\ NoQuestion \notin Question
    /\ MaxTurns \in Nat \ {0}
    /\ MaxGenerations \in Nat

VARIABLES
    currentQuestion,
    hasPending,
    autoGenerate,
    exhausted,
    generationSeq,
    generations,     \* of each generation, by its seq
    history,         \* remembered turns
    rows,            \* the qna_entries table, in commit order
    answers,         \* answer_complete messages, by generation, in order
    alive,           \* FALSE once an unhandled rejection killed the process
    since,           \* history: generationSeq when the current question came
    again            \* history: the generations regenerate started

past == <<since, again>>
vars == <<currentQuestion, hasPending, autoGenerate, exhausted, generationSeq,
          generations, history, rows, answers, alive, past>>

Generation == 1..MaxGenerations

\* A turn names the generation whose answer it holds.
Turn == [question : Question, by : Generation]
Row == [seq : Nat, question : Question, by : Generation]

\* The provider streams, the row's seq is read, the row is inserted, the
\* reply is awaited.
Stage == {"unused", "streaming", "appending", "inserting", "appended", "over"}

GenerationRecord == [at : Stage, question : Question \cup {NoQuestion}, context : Seq(Turn),
                     rowSeq : Nat, voided : BOOLEAN]
Unused == [at |-> "unused", question |-> NoQuestion, context |-> <<>>,
           rowSeq |-> 0, voided |-> FALSE]

OrchestratorTypeOK ==
    /\ currentQuestion \in Question \cup {NoQuestion}
    /\ hasPending \in BOOLEAN
    /\ autoGenerate \in BOOLEAN
    /\ exhausted \in BOOLEAN
    /\ generationSeq \in 0..MaxGenerations
    /\ generations \in [Generation -> GenerationRecord]
    /\ history \in Seq(Turn)
    /\ Len(history) <= MaxTurns
    /\ rows \in Seq(Row)
    /\ answers \in Seq(Generation)
    /\ alive \in BOOLEAN
    /\ since \in 0..generationSeq
    /\ again \subseteq Generation

Init ==
    /\ currentQuestion = NoQuestion
    /\ hasPending = FALSE
    /\ autoGenerate = FALSE
    /\ exhausted = FALSE
    /\ generationSeq = 0
    /\ generations = [g \in Generation |-> Unused]
    /\ history = <<>>
    /\ rows = <<>>
    /\ answers = <<>>
    /\ alive = TRUE
    /\ since = 0
    /\ again = {}

-----------------------------------------------------------------------------
(* generate, up to its first await                                          *)

\* The turns passed as context: the last one is left out if it is for q.
PriorHistory(q) ==
    IF history # <<>> /\ Last(history).question = q THEN Front(history) ELSE history

\* A voided generation is one whose rejection nobody catches.
Generate(q, voided) ==
    /\ generationSeq < MaxGenerations
    /\ generationSeq' = generationSeq + 1
    /\ generations' = [generations EXCEPT ![generationSeq + 1] =
                         [Unused EXCEPT !.at = "streaming", !.question = q,
                                        !.context = PriorHistory(q), !.voided = voided]]

NoGeneration == UNCHANGED <<generationSeq, generations>>

-----------------------------------------------------------------------------
(* What starts a generation                                                 *)

\* A spoken question: the gateway voids the promise.
HandleFinalQuestion(q) ==
    /\ ~exhausted
    /\ currentQuestion' = q
    /\ hasPending' = ~autoGenerate
    /\ IF autoGenerate THEN Generate(q, TRUE) ELSE NoGeneration
    /\ since' = generationSeq
    /\ UNCHANGED <<autoGenerate, exhausted, history, rows, answers, alive, again>>

CanAnswerPending == ~exhausted /\ currentQuestion # NoQuestion /\ hasPending

AnswerPending ==
    /\ CanAnswerPending
    /\ hasPending' = FALSE
    /\ Generate(currentQuestion, FALSE)
    /\ UNCHANGED <<currentQuestion, autoGenerate, exhausted, history, rows, answers, alive,
                   past>>

\* Switching it on answers what is pending, and voids the promise.
SetAutoGenerate(enabled) ==
    /\ autoGenerate' = enabled
    /\ IF enabled /\ CanAnswerPending
       THEN hasPending' = FALSE /\ Generate(currentQuestion, TRUE)
       ELSE NoGeneration /\ UNCHANGED hasPending
    /\ UNCHANGED <<currentQuestion, exhausted, history, rows, answers, alive, past>>

\* Mutant: a typed question leaves the pending flag of the spoken one.
HandleQuestionKeepingPending(q) ==
    /\ ~exhausted
    /\ currentQuestion' = q
    /\ Generate(q, FALSE)
    /\ since' = generationSeq
    /\ UNCHANGED <<hasPending, autoGenerate, exhausted, history, rows, answers, alive, again>>

\* handleQuestion, and handleScreenshot with its placeholder
HandleQuestion(q) ==
    /\ ~exhausted
    /\ currentQuestion' = q
    /\ hasPending' = FALSE
    /\ Generate(q, FALSE)
    /\ since' = generationSeq
    /\ UNCHANGED <<autoGenerate, exhausted, history, rows, answers, alive, again>>

\* A pending question it answers stays pending.
Regenerate ==
    /\ ~exhausted
    /\ currentQuestion # NoQuestion
    /\ Generate(currentQuestion, FALSE)
    /\ again' = again \cup {generationSeq + 1}
    /\ UNCHANGED <<currentQuestion, hasPending, autoGenerate, exhausted, history, rows,
                   answers, alive, since>>

-----------------------------------------------------------------------------
(* generate, from await to await                                            *)

Go(g, stage) == generations' = [generations EXCEPT ![g].at = stage]

\* The provider answers, fails or times out.  Only the newest goes on.
ProviderReturns(g) ==
    /\ generations[g].at = "streaming"
    /\ \/ g = generationSeq /\ Go(g, "appending")
       \/ Go(g, "over")
    /\ UNCHANGED <<currentQuestion, hasPending, autoGenerate, exhausted, generationSeq,
                   history, rows, answers, alive, past>>

\* INSERT ... (SELECT MAX(seq) + 1 ...): the subselect sees what is committed.
NextSeq == Max({0} \cup {rows[i].seq : i \in DOMAIN rows}) + 1

ReadMaxSeq(g) ==
    /\ generations[g].at = "appending"
    /\ generations' = [generations EXCEPT ![g].at = "inserting", ![g].rowSeq = NextSeq]
    /\ UNCHANGED <<currentQuestion, hasPending, autoGenerate, exhausted, generationSeq,
                   history, rows, answers, alive, past>>

\* Mutant: no unique index on (session_id, seq).
SeqTakenNever(n) == FALSE

SeqTaken(n) == \E i \in DOMAIN rows : rows[i].seq = n

InsertRow(g) ==
    LET r == generations[g] IN
    /\ r.at = "inserting"
    /\ ~SeqTaken(r.rowSeq)
    /\ rows' = Append(rows, [seq |-> r.rowSeq, question |-> r.question, by |-> g])
    /\ Go(g, "appended")
    /\ UNCHANGED <<currentQuestion, hasPending, autoGenerate, exhausted, generationSeq,
                   history, answers, alive, past>>

\* UNIQUE (session_id, seq): the promise rejects, and kills if it was voided.
InsertRefused(g) ==
    /\ generations[g].at = "inserting"
    /\ SeqTaken(generations[g].rowSeq)
    /\ Go(g, "over")
    /\ alive' = ~generations[g].voided
    /\ UNCHANGED <<currentQuestion, hasPending, autoGenerate, exhausted, generationSeq,
                   history, rows, answers, past>>

\* Mutant: a regenerated answer becomes a turn of its own.
RecordTurnAppending(turn) ==
    LET all == Append(history, turn)
    IN  IF Len(all) > MaxTurns THEN Tail(all) ELSE all

\* Regenerated turns replace the last one, the oldest are dropped.
RecordTurn(turn) ==
    IF history # <<>> /\ Last(history).question = turn.question
    THEN Append(Front(history), turn)
    ELSE LET all == Append(history, turn)
         IN  IF Len(all) > MaxTurns THEN Tail(all) ELSE all

\* qna.append returned: tell the client and remember, whatever is newest now.
AnswerComplete(g) ==
    /\ generations[g].at = "appended"
    /\ answers' = Append(answers, g)
    /\ history' = RecordTurn([question |-> generations[g].question, by |-> g])
    /\ Go(g, "over")
    /\ UNCHANGED <<currentQuestion, hasPending, autoGenerate, exhausted, generationSeq,
                   rows, alive, past>>

\* checkCredits, after an answer or after metering
Exhaust ==
    /\ ~exhausted
    /\ exhausted' = TRUE
    /\ UNCHANGED <<currentQuestion, hasPending, autoGenerate, generationSeq, generations,
                   history, rows, answers, alive, past>>

-----------------------------------------------------------------------------
Next ==
    /\ alive
    /\ \/ \E q \in Question \ {Screenshot} : HandleFinalQuestion(q)
       \/ \E q \in Question : HandleQuestion(q)
       \/ AnswerPending
       \/ \E enabled \in BOOLEAN : SetAutoGenerate(enabled)
       \/ Regenerate
       \/ \E g \in Generation :
             ProviderReturns(g) \/ ReadMaxSeq(g) \/ InsertRow(g) \/ InsertRefused(g)
                \/ AnswerComplete(g)
       \/ Exhaust

Spec == Init /\ [][Next]_vars

-----------------------------------------------------------------------------
(* Properties                                                               *)

\* What the client was shown is in the transcript, once, under the question
\* that generation was asked, whatever became current meanwhile; and rows are
\* numbered without gaps although inserts overlap.
TranscriptHoldsAnswers ==
    /\ \A i \in DOMAIN answers :
          \E n \in DOMAIN rows : /\ rows[n].by = answers[i]
                                 /\ rows[n].question = generations[answers[i]].question
    /\ \A m, n \in DOMAIN rows : rows[m].by = rows[n].by => m = n
    /\ \A n \in DOMAIN rows : rows[n].seq = n

\* The memory is of answers the client saw: its last turn is the last answer
\* shown, no question fills two turns in a row, and no answer is remembered
\* twice or under another question.
MemoryIsOfShownAnswers ==
    /\ history = <<>> <=> answers = <<>>
    /\ history # <<>> => Last(history).by = Last(answers)
    /\ \A i \in 1..(Len(history) - 1) : history[i].question # history[i + 1].question
    /\ \A i, j \in DOMAIN history : history[i].by = history[j].by => i = j
    /\ \A i \in DOMAIN history : history[i].question = generations[history[i].by].question

\* The generations the current question was handed to since it came, by
\* auto-generate, the Answer button, its switch or being typed.
Takers == {g \in Generation : since < g /\ g <= generationSeq /\ g \notin again}

\* The current question is answered once, whichever of the four gets to it, and
\* until then it is pending: a pending one was handed to no generation, and not
\* while auto-generate would have taken it; one that is not pending was handed to
\* exactly one generation, as its question.  Regenerations are aside: they are
\* of whatever is current.
PendingIsWaiting ==
    IF hasPending
    THEN currentQuestion # NoQuestion /\ ~(autoGenerate /\ ~exhausted) /\ Takers = {}
    ELSE currentQuestion # NoQuestion =>
            \E g \in Generation :
                Takers = {g} /\ generations[g].question = currentQuestion

-----------------------------------------------------------------------------
(* What the documents say, and the code does not do: see the README.         *)

InFlight == {g \in Generation : generations[g].at \notin {"unused", "over"}}

\* What is pending has not been answered (sessionOrchestrator.ts:112, "Manually
\* answer the latest pending finalized question"): regenerate answers it and
\* leaves it pending, for the Answer button or the switch to answer once more.
PendingIsUnanswered == hasPending => since = generationSeq

\* With nothing in flight the answer shown last is the one of the newest request
\* among those answered: a slower, older generation never replaces it
\* (sessionGateway.ts:119, "makes the latest request win").
LatestRequestWins ==
    InFlight = {} => \A i \in DOMAIN answers : answers[i] <= Last(answers)

\* The turn of an earlier answer to the question being regenerated is not among
\* the context of the new generation, so that the model does not repeat itself
\* (sessionOrchestrator.ts:183, "exclude its own (already-recorded) turn").
RegenerateExcludesOwnTurn ==
    \A g, h \in Generation :
        g < h /\ generations[g].question = generations[h].question
            /\ (\A f \in g..h : generations[f].question = generations[h].question) =>
        ~ \E i \in DOMAIN generations[h].context : generations[h].context[i].by = g
=============================================================================
