-------------------------- MODULE OrchestratorProofs --------------------------
(***************************************************************************)
(* The session orchestrator, for every set of questions and any number of  *)
(* overlapping generations: the transcript is of the answers shown, the    *)
(* memory is of the transcript's newest, and the current question is       *)
(* answered once.  And the answer card at the end of its stream: it shows  *)
(* one answer, and does not wait unseen for one that is not coming.        *)
(***************************************************************************)
EXTENDS AnswerStream, SequenceTheorems, TLAPS

-----------------------------------------------------------------------------
(* The transcript *)

Asked == Question \cup {NoQuestion}
RowRecord == [seq : Nat, question : Asked, by : Generation]

\* A generation, as far as the transcript is concerned.
GenerationShape(r) ==
    /\ DOMAIN r = {"at", "question", "context", "rowSeq", "voided"}
    /\ r.at \in Stage
    /\ r.question \in Asked
    /\ r.rowSeq \in Nat

ShapeInv ==
    /\ currentQuestion \in Asked
    /\ generationSeq \in 0..MaxGenerations
    /\ DOMAIN generations = Generation
    /\ \A g \in Generation : GenerationShape(generations[g])
    /\ rows \in Seq(RowRecord)
    /\ answers \in Seq(Generation)

HasRow(g) == \E n \in 1..Len(rows) : rows[n].by = g

\* Rows are numbered in commit order, each of another generation that has got
\* that far.
RowsInv ==
    /\ \A n \in 1..Len(rows) :
          /\ rows[n].seq = n
          /\ generations[rows[n].by].at \in {"appended", "over"}
          /\ rows[n].question = generations[rows[n].by].question
    /\ \A m, n \in 1..Len(rows) : rows[m].by = rows[n].by => m = n

\* A seq that was read is at most one past the rows there are by now.
SeqReadInv ==
    \A g \in Generation :
        generations[g].at = "inserting" => generations[g].rowSeq \in 1..Len(rows) + 1

\* Who has appended, or answered, has a row.
AnsweredInv ==
    /\ \A g \in Generation : generations[g].at = "appended" => HasRow(g)
    /\ \A i \in 1..Len(answers) : HasRow(answers[i]) /\ generations[answers[i]].at = "over"
    /\ \A g \in Generation : g > generationSeq => generations[g].at = "unused"

TranscriptInv == ShapeInv /\ RowsInv /\ SeqReadInv /\ AnsweredInv

\* The seq read is the number of the rows there are, and one.
LEMMA NextSeqIsNext ==
    ASSUME ShapeInv, RowsInv
    PROVE  NextSeq = Len(rows) + 1
<1> DEFINE seqs == {0} \cup {rows[i].seq : i \in DOMAIN rows}
<1>1. Len(rows) \in Nat /\ DOMAIN rows = 1..Len(rows)
  BY DEF ShapeInv
<1>2. seqs = 0..Len(rows)
  <2>1. \A i \in 1..Len(rows) : rows[i].seq = i
    BY DEF RowsInv
  <2> QED
    BY <1>1, <2>1
<1> HIDE DEF seqs
<1>3. Max(seqs) = CHOOSE x \in seqs : \A y \in seqs : x >= y
  BY DEF Max
<1>4. \E x \in seqs : \A y \in seqs : x >= y
  BY <1>1, <1>2
<1>5. Max(seqs) \in seqs /\ \A y \in seqs : Max(seqs) >= y
  BY <1>3, <1>4
<1>6. Max(seqs) = Len(rows)
  BY <1>1, <1>2, <1>5
<1> QED
  BY <1>6 DEF NextSeq, seqs

\* A new generation is one no row and no answer is of.
LEMMA GenerateKeepsTranscript ==
    ASSUME TranscriptInv, NEW q \in Asked, NEW voided, Generate(q, voided),
           currentQuestion' \in Asked, UNCHANGED <<rows, answers>>
    PROVE  TranscriptInv'
<1> DEFINE new == generationSeq + 1
<1>1. /\ generationSeq \in 0..MaxGenerations /\ generationSeq < MaxGenerations
      /\ generationSeq' = new /\ MaxGenerations \in Nat /\ new \in Generation
      /\ DOMAIN generations = Generation
      /\ rows \in Seq(RowRecord) /\ answers \in Seq(Generation)
  BY OrchestratorAssumption DEF TranscriptInv, ShapeInv, Generate, Generation
<1>2. /\ generations' = [generations EXCEPT ![new] =
                            [Unused EXCEPT !.at = "streaming", !.question = q,
                                           !.context = PriorHistory(q), !.voided = voided]]
  BY DEF Generate
<1>3. /\ DOMAIN generations' = Generation
      /\ generations'[new].at = "streaming" /\ generations'[new].question = q
      /\ GenerationShape(generations'[new])
      /\ \A g \in Generation \ {new} : generations'[g] = generations[g]
  BY <1>1, <1>2 DEF Unused, GenerationShape, Stage
<1>4. generations[new].at = "unused"
  BY <1>1 DEF TranscriptInv, AnsweredInv
<1>5. \A n \in 1..Len(rows) : rows[n].by \in Generation /\ rows[n].by # new
  <2> SUFFICES ASSUME NEW n \in 1..Len(rows)
               PROVE  rows[n].by \in Generation /\ rows[n].by # new
    OBVIOUS
  <2>1. rows[n] \in RowRecord
    BY <1>1
  <2>2. generations[rows[n].by].at \in {"appended", "over"}
    BY DEF TranscriptInv, RowsInv
  <2> QED
    BY <2>1, <2>2, <1>4 DEF RowRecord
<1>6. \A i \in 1..Len(answers) : answers[i] \in Generation /\ answers[i] # new
  BY <1>1, <1>4 DEF TranscriptInv, AnsweredInv
<1>7. ShapeInv'
  BY <1>1, <1>3 DEF TranscriptInv, ShapeInv
<1>8. RowsInv'
  BY <1>3, <1>5 DEF TranscriptInv, RowsInv
<1>9. SeqReadInv'
  BY <1>3 DEF TranscriptInv, SeqReadInv
<1>10. AnsweredInv'
  <2>1. ASSUME NEW g \in Generation, (generations[g].at = "appended")'
        PROVE  HasRow(g)'
    BY <1>3, <2>1 DEF TranscriptInv, AnsweredInv, HasRow
  <2>2. ASSUME NEW i \in 1..Len(answers)
        PROVE  HasRow(answers[i])' /\ generations'[answers[i]].at = "over"
    BY <1>3, <1>6 DEF TranscriptInv, AnsweredInv, HasRow
  <2>3. ASSUME NEW g \in Generation, g > new
        PROVE  generations'[g].at = "unused"
    BY <1>1, <1>3, <2>3 DEF TranscriptInv, AnsweredInv, Generation
  <2> QED
    BY <1>1, <2>1, <2>2, <2>3 DEF AnsweredInv, HasRow
<1> QED
  BY <1>7, <1>8, <1>9, <1>10 DEF TranscriptInv

\* Nor is there one, and rows and answers stay as they are.
LEMMA IdleKeepsTranscript ==
    ASSUME TranscriptInv, currentQuestion' \in Asked,
           UNCHANGED <<generationSeq, generations, rows, answers>>
    PROVE  TranscriptInv'
<1>1. ShapeInv'
  BY DEF TranscriptInv, ShapeInv, GenerationShape
<1>2. RowsInv'
  BY DEF TranscriptInv, RowsInv
<1>3. SeqReadInv'
  BY DEF TranscriptInv, SeqReadInv
<1>4. AnsweredInv'
  BY DEF TranscriptInv, AnsweredInv, HasRow
<1> QED
  BY <1>1, <1>2, <1>3, <1>4 DEF TranscriptInv

\* A generation in flight goes on, other than by a row or an answer.
LEMMA StageKeepsTranscript ==
    ASSUME TranscriptInv, NEW g \in Generation,
           generations[g].at \in {"streaming", "appending", "inserting"},
           DOMAIN generations' = Generation,
           \A h \in Generation \ {g} : generations'[h] = generations[h],
           GenerationShape(generations'[g]),
           generations'[g].question = generations[g].question,
           generations'[g].at \in {"appending", "inserting", "over"},
           generations'[g].at = "inserting" => generations'[g].rowSeq \in 1..Len(rows) + 1,
           UNCHANGED <<currentQuestion, generationSeq, rows, answers>>
    PROVE  TranscriptInv'
<1>1. /\ rows \in Seq(RowRecord) /\ answers \in Seq(Generation)
      /\ generationSeq \in Nat
  BY DEF TranscriptInv, ShapeInv
<1>2. ~(g > generationSeq)
  BY DEF TranscriptInv, AnsweredInv
<1>3. \A n \in 1..Len(rows) : rows[n].by \in Generation /\ rows[n].by # g
  <2> SUFFICES ASSUME NEW n \in 1..Len(rows)
               PROVE  rows[n].by \in Generation /\ rows[n].by # g
    OBVIOUS
  <2>1. rows[n] \in RowRecord
    BY <1>1
  <2>2. generations[rows[n].by].at \in {"appended", "over"}
    BY DEF TranscriptInv, RowsInv
  <2> QED
    BY <2>1, <2>2 DEF RowRecord
<1>4. \A i \in 1..Len(answers) : answers[i] \in Generation /\ answers[i] # g
  BY <1>1 DEF TranscriptInv, AnsweredInv
<1>5. ShapeInv'
  BY DEF TranscriptInv, ShapeInv
<1>6. RowsInv'
  BY <1>3 DEF TranscriptInv, RowsInv
<1>7. SeqReadInv'
  BY DEF TranscriptInv, SeqReadInv
<1>8. AnsweredInv'
  BY <1>2, <1>4 DEF TranscriptInv, AnsweredInv, HasRow
<1> QED
  BY <1>5, <1>6, <1>7, <1>8 DEF TranscriptInv

\* A row is inserted under the next number.
LEMMA InsertKeepsTranscript ==
    ASSUME TranscriptInv, NEW g \in Generation, InsertRow(g)
    PROVE  TranscriptInv'
<1> DEFINE r == generations[g]
           row == [seq |-> r.rowSeq, question |-> r.question, by |-> g]
           last == Len(rows) + 1
<1>1. /\ rows \in Seq(RowRecord) /\ answers \in Seq(Generation)
      /\ generationSeq \in Nat /\ DOMAIN generations = Generation
      /\ GenerationShape(r) /\ Len(rows) \in Nat
  BY DEF TranscriptInv, ShapeInv
<1>2. /\ r.at = "inserting" /\ ~SeqTaken(r.rowSeq)
      /\ rows' = Append(rows, row)
      /\ generations' = [generations EXCEPT ![g].at = "appended"]
      /\ UNCHANGED <<currentQuestion, generationSeq, answers>>
  BY DEF InsertRow, Go
<1>3. /\ DOMAIN generations' = Generation
      /\ \A h \in Generation \ {g} : generations'[h] = generations[h]
      /\ GenerationShape(generations'[g]) /\ generations'[g].at = "appended"
      /\ generations'[g].question = r.question
  BY <1>1, <1>2 DEF GenerationShape, Stage
<1>4. row \in RowRecord
  BY <1>1 DEF GenerationShape, RowRecord
<1> HIDE DEF row
<1>5. /\ rows' \in Seq(RowRecord) /\ Len(rows') = last
      /\ \A n \in 1..Len(rows) : rows'[n] = rows[n]
      /\ rows'[last] = row
  BY <1>1, <1>2, <1>4
<1>6. r.rowSeq = last
  <2>1. r.rowSeq \in 1..last
    BY <1>2 DEF TranscriptInv, SeqReadInv
  <2>2. ASSUME r.rowSeq \in 1..Len(rows) PROVE FALSE
    <3>1. rows[r.rowSeq].seq = r.rowSeq
      BY <2>2 DEF TranscriptInv, RowsInv
    <3> QED
      BY <3>1, <2>2, <1>1, <1>2 DEF SeqTaken
  <2> QED
    BY <2>1, <2>2, <1>1
<1>7. row.seq = last /\ row.by = g /\ row.question = r.question
  BY <1>6 DEF row
<1>8. \A n \in 1..Len(rows) : rows[n].by \in Generation /\ rows[n].by # g
  <2> SUFFICES ASSUME NEW n \in 1..Len(rows)
               PROVE  rows[n].by \in Generation /\ rows[n].by # g
    OBVIOUS
  <2>1. rows[n] \in RowRecord
    BY <1>1
  <2>2. generations[rows[n].by].at \in {"appended", "over"}
    BY DEF TranscriptInv, RowsInv
  <2> QED
    BY <2>1, <2>2, <1>2 DEF RowRecord
<1>9. \A i \in 1..Len(answers) : answers[i] \in Generation /\ answers[i] # g
  BY <1>1, <1>2 DEF TranscriptInv, AnsweredInv
<1>10. \A n \in 1..last : n \in 1..Len(rows) \/ n = last
  BY <1>1
<1>11. ShapeInv'
  BY <1>2, <1>3, <1>5 DEF TranscriptInv, ShapeInv
<1>12. RowsInv'
  <2>1. ASSUME NEW n \in 1..last
        PROVE  /\ rows'[n].seq = n
               /\ generations'[rows'[n].by].at \in {"appended", "over"}
               /\ rows'[n].question = generations'[rows'[n].by].question
    <3>1. CASE n \in 1..Len(rows)
      BY <3>1, <1>3, <1>5, <1>8 DEF TranscriptInv, RowsInv
    <3>2. CASE n = last
      BY <3>2, <1>3, <1>5, <1>7
    <3> QED
      BY <3>1, <3>2, <1>10
  <2>2. ASSUME NEW m \in 1..last, NEW n \in 1..last, rows'[m].by = rows'[n].by
        PROVE  m = n
    <3>1. CASE m \in 1..Len(rows) /\ n \in 1..Len(rows)
      BY <3>1, <2>2, <1>5 DEF TranscriptInv, RowsInv
    <3>2. CASE m = last \/ n = last
      BY <3>2, <2>2, <1>5, <1>7, <1>8, <1>10
    <3> QED
      BY <3>1, <3>2, <1>10
  <2> QED
    BY <2>1, <2>2, <1>5 DEF RowsInv
<1>13. SeqReadInv'
  <2> SUFFICES ASSUME NEW h \in Generation, generations'[h].at = "inserting"
               PROVE  generations'[h].rowSeq \in 1..Len(rows') + 1
    BY DEF SeqReadInv
  <2>1. h # g
    BY <1>3
  <2>2. generations[h].rowSeq \in 1..last
    BY <2>1, <1>3 DEF TranscriptInv, SeqReadInv
  <2> QED
    BY <2>1, <2>2, <1>1, <1>3, <1>5
<1>14. \A h \in Generation : HasRow(h) \/ h = g => HasRow(h)'
  BY <1>1, <1>5, <1>7 DEF HasRow
<1>15. AnsweredInv'
  <2>1. ASSUME NEW h \in Generation, generations'[h].at = "appended"
        PROVE  HasRow(h)'
    BY <2>1, <1>3, <1>14 DEF TranscriptInv, AnsweredInv
  <2>2. ASSUME NEW i \in 1..Len(answers)
        PROVE  HasRow(answers[i])' /\ generations'[answers[i]].at = "over"
    <3>1. answers[i] \in Generation /\ answers[i] # g
      BY <1>9
    <3>2. HasRow(answers[i]) /\ generations[answers[i]].at = "over"
      BY DEF TranscriptInv, AnsweredInv
    <3>3. \A h \in Generation : HasRow(h) => HasRow(h)'
      BY <1>14
    <3>4. HasRow(answers[i])'
      BY <3>1, <3>2, <1>2, <1>5 DEF HasRow
    <3> QED
      BY <3>1, <3>2, <3>4, <1>3
  <2>3. ASSUME NEW h \in Generation, h > generationSeq
        PROVE  generations'[h].at = "unused"
    <3>1. generations[h].at = "unused"
      BY <2>3 DEF TranscriptInv, AnsweredInv
    <3> QED
      BY <3>1, <1>2, <1>3
  <2>4. answers' = answers /\ generationSeq' = generationSeq
    BY <1>2
  <2> QED
    BY <2>1, <2>2, <2>3, <2>4 DEF AnsweredInv, HasRow
<1> QED
  BY <1>11, <1>12, <1>13, <1>15 DEF TranscriptInv

\* The answer of a generation that has its row is shown.
LEMMA AnswerKeepsTranscript ==
    ASSUME TranscriptInv, NEW g \in Generation, AnswerComplete(g)
    PROVE  TranscriptInv'
<1> DEFINE last == Len(answers) + 1
<1>1. /\ rows \in Seq(RowRecord) /\ answers \in Seq(Generation)
      /\ generationSeq \in Nat /\ DOMAIN generations = Generation
      /\ GenerationShape(generations[g]) /\ Len(answers) \in Nat
  BY DEF TranscriptInv, ShapeInv
<1>2. /\ generations[g].at = "appended"
      /\ answers' = Append(answers, g)
      /\ generations' = [generations EXCEPT ![g].at = "over"]
      /\ UNCHANGED <<currentQuestion, generationSeq, rows>>
  BY DEF AnswerComplete, Go
<1>3. /\ DOMAIN generations' = Generation
      /\ \A h \in Generation \ {g} : generations'[h] = generations[h]
      /\ GenerationShape(generations'[g]) /\ generations'[g].at = "over"
      /\ generations'[g].question = generations[g].question
  BY <1>1, <1>2 DEF GenerationShape, Stage
<1>4. /\ answers' \in Seq(Generation) /\ Len(answers') = last
      /\ \A i \in 1..Len(answers) : answers'[i] = answers[i]
      /\ answers'[last] = g
  BY <1>1, <1>2
<1>5. ASSUME NEW n \in 1..Len(rows)
      PROVE  rows[n].by \in Generation
  <2>1. rows[n] \in RowRecord
    BY <1>1
  <2> QED
    BY <2>1 DEF RowRecord
<1>6. ShapeInv'
  BY <1>2, <1>3, <1>4 DEF TranscriptInv, ShapeInv
<1>7. RowsInv'
  <2>1. rows' = rows
    BY <1>2
  <2>2. ASSUME NEW n \in 1..Len(rows)
        PROVE  /\ generations'[rows[n].by].at \in {"appended", "over"}
               /\ generations'[rows[n].by].question = generations[rows[n].by].question
    BY <1>3, <1>5 DEF TranscriptInv, RowsInv
  <2> QED
    BY <2>1, <2>2 DEF TranscriptInv, RowsInv
<1>8. SeqReadInv'
  BY <1>2, <1>3 DEF TranscriptInv, SeqReadInv
<1>9. AnsweredInv'
  <2>1. ASSUME NEW h \in Generation, generations'[h].at = "appended"
        PROVE  HasRow(h)
    BY <2>1, <1>3 DEF TranscriptInv, AnsweredInv
  <2>2. ASSUME NEW i \in 1..last
        PROVE  HasRow(answers'[i]) /\ generations'[answers'[i]].at = "over"
    <3>1. CASE i \in 1..Len(answers)
      <4>1. /\ answers'[i] = answers[i] /\ answers[i] \in Generation
            /\ HasRow(answers[i]) /\ generations[answers[i]].at = "over"
        BY <3>1, <1>1, <1>4 DEF TranscriptInv, AnsweredInv
      <4> QED
        BY <4>1, <1>3
    <3>2. CASE i = last
      BY <3>2, <1>2, <1>3, <1>4 DEF TranscriptInv, AnsweredInv
    <3> QED
      BY <3>1, <3>2, <1>1
  <2>3. ASSUME NEW h \in Generation, h > generationSeq
        PROVE  generations'[h].at = "unused"
    <3>1. generations[h].at = "unused"
      BY <2>3 DEF TranscriptInv, AnsweredInv
    <3> QED
      BY <3>1, <1>2, <1>3
  <2>4. rows' = rows /\ generationSeq' = generationSeq
    BY <1>2
  <2> QED
    BY <2>1, <2>2, <2>3, <2>4, <1>4 DEF AnsweredInv, HasRow
<1> QED
  BY <1>6, <1>7, <1>8, <1>9 DEF TranscriptInv

\* Every step keeps the transcript.
LEMMA TranscriptStep ==
    ASSUME TranscriptInv, [Next]_vars
    PROVE  TranscriptInv'
<1>1. /\ currentQuestion \in Asked /\ DOMAIN generations = Generation
      /\ \A g \in Generation : GenerationShape(generations[g])
  BY DEF TranscriptInv, ShapeInv
<1>2. CASE \E q \in Question \ {Screenshot} : HandleFinalQuestion(q)
  <2>1. PICK q \in Question \ {Screenshot} : HandleFinalQuestion(q)
    BY <1>2
  <2>2. currentQuestion' \in Asked /\ q \in Asked /\ rows' = rows /\ answers' = answers
    BY <2>1 DEF HandleFinalQuestion, Asked
  <2>3. CASE Generate(q, TRUE)
    BY <2>2, <2>3, GenerateKeepsTranscript
  <2>4. CASE NoGeneration
    BY <2>2, <2>4, IdleKeepsTranscript DEF NoGeneration
  <2> QED
    BY <2>1, <2>3, <2>4 DEF HandleFinalQuestion
<1>3. CASE \E q \in Question : HandleQuestion(q)
  <2>1. PICK q \in Question : HandleQuestion(q)
    BY <1>3
  <2> QED
    BY <2>1, GenerateKeepsTranscript DEF HandleQuestion, Asked
<1>4. CASE AnswerPending
  BY <1>1, <1>4, GenerateKeepsTranscript DEF AnswerPending
<1>5. CASE \E enabled \in BOOLEAN : SetAutoGenerate(enabled)
  <2>1. PICK enabled \in BOOLEAN : SetAutoGenerate(enabled)
    BY <1>5
  <2>2. currentQuestion' \in Asked /\ rows' = rows /\ answers' = answers
    BY <2>1, <1>1 DEF SetAutoGenerate
  <2>3. CASE Generate(currentQuestion, TRUE)
    BY <2>2, <2>3, <1>1, GenerateKeepsTranscript
  <2>4. CASE NoGeneration
    BY <2>2, <2>4, IdleKeepsTranscript DEF NoGeneration
  <2> QED
    BY <2>1, <2>3, <2>4 DEF SetAutoGenerate
<1>6. CASE Regenerate
  BY <1>1, <1>6, GenerateKeepsTranscript DEF Regenerate
<1>7. ASSUME NEW g \in Generation, ProviderReturns(g)
      PROVE  TranscriptInv'
  <2>1. /\ generations[g].at = "streaming"
        /\ UNCHANGED <<currentQuestion, generationSeq, rows, answers>>
    BY <1>7 DEF ProviderReturns
  <2>2. PICK s \in {"appending", "over"} : generations' = [generations EXCEPT ![g].at = s]
    BY <1>7 DEF ProviderReturns, Go
  <2>3. /\ DOMAIN generations' = Generation
        /\ \A h \in Generation \ {g} : generations'[h] = generations[h]
        /\ GenerationShape(generations'[g])
        /\ generations'[g].question = generations[g].question
        /\ generations'[g].at = s
    BY <2>2, <1>1 DEF GenerationShape, Stage
  <2> QED
    BY <2>1, <2>2, <2>3, StageKeepsTranscript
<1>8. ASSUME NEW g \in Generation, ReadMaxSeq(g)
      PROVE  TranscriptInv'
  <2>1. /\ generations[g].at = "appending"
        /\ UNCHANGED <<currentQuestion, generationSeq, rows, answers>>
    BY <1>8 DEF ReadMaxSeq
  <2>2. NextSeq = Len(rows) + 1 /\ Len(rows) \in Nat
    BY NextSeqIsNext DEF TranscriptInv, ShapeInv
  <2>3. generations' = [generations EXCEPT ![g].at = "inserting", ![g].rowSeq = Len(rows) + 1]
    BY <1>8, <2>2 DEF ReadMaxSeq
  <2>4. /\ DOMAIN generations' = Generation
        /\ \A h \in Generation \ {g} : generations'[h] = generations[h]
        /\ GenerationShape(generations'[g])
        /\ generations'[g].question = generations[g].question
        /\ generations'[g].at = "inserting"
        /\ generations'[g].rowSeq = Len(rows) + 1
    BY <2>2, <2>3, <1>1 DEF GenerationShape, Stage
  <2>5. generations'[g].rowSeq \in 1..Len(rows) + 1
    BY <2>2, <2>4
  <2> QED
    BY <2>1, <2>4, <2>5, StageKeepsTranscript
<1>9. ASSUME NEW g \in Generation, InsertRefused(g)
      PROVE  TranscriptInv'
  <2>1. /\ generations[g].at = "inserting"
        /\ UNCHANGED <<currentQuestion, generationSeq, rows, answers>>
        /\ generations' = [generations EXCEPT ![g].at = "over"]
    BY <1>9 DEF InsertRefused, Go
  <2>2. /\ DOMAIN generations' = Generation
        /\ \A h \in Generation \ {g} : generations'[h] = generations[h]
        /\ GenerationShape(generations'[g])
        /\ generations'[g].question = generations[g].question
        /\ generations'[g].at = "over"
    BY <2>1, <1>1 DEF GenerationShape, Stage
  <2> QED
    BY <2>1, <2>2, StageKeepsTranscript
<1>10. CASE Exhaust
  BY <1>1, <1>10, IdleKeepsTranscript DEF Exhaust
<1>11. CASE UNCHANGED vars
  BY <1>1, <1>11, IdleKeepsTranscript DEF vars
<1> QED
  BY <1>2, <1>3, <1>4, <1>5, <1>6, <1>7, <1>8, <1>9, <1>10, <1>11,
     InsertKeepsTranscript, AnswerKeepsTranscript DEF Next

\* Nothing has begun, nothing is in the transcript.
LEMMA InitTranscript == Init => TranscriptInv
<1> SUFFICES ASSUME Init PROVE TranscriptInv
  OBVIOUS
<1>1. rows = <<>> /\ answers = <<>> /\ Len(rows) = 0 /\ Len(answers) = 0
  BY DEF Init
<1>2. /\ DOMAIN generations = Generation
      /\ \A g \in Generation : generations[g] = Unused
  BY DEF Init
<1>3. GenerationShape(Unused)
  BY DEF GenerationShape, Unused, Stage, Asked
<1>4. ShapeInv
  BY <1>1, <1>2, <1>3, OrchestratorAssumption DEF Init, ShapeInv, Asked
<1> QED
  BY <1>1, <1>2, <1>4 DEF TranscriptInv, RowsInv, SeqReadInv, AnsweredInv, Unused

\* Every answer shown is in the transcript, once and under the question its
\* generation was asked, and rows are numbered without gaps, however many
\* generations overlap.
THEOREM TranscriptAlwaysHoldsAnswers == Spec => []TranscriptHoldsAnswers
<1>1. Init => TranscriptInv
  BY InitTranscript
<1>2. TranscriptInv => TranscriptHoldsAnswers
  <2> SUFFICES ASSUME TranscriptInv PROVE TranscriptHoldsAnswers
    OBVIOUS
  <2>1. DOMAIN rows = 1..Len(rows) /\ DOMAIN answers = 1..Len(answers)
    BY DEF TranscriptInv, ShapeInv
  <2> QED
    BY <2>1 DEF TranscriptInv, RowsInv, AnsweredInv, HasRow, TranscriptHoldsAnswers
<1> QED
  BY <1>1, <1>2, TranscriptStep, PTL DEF Spec

-----------------------------------------------------------------------------
(* The memory *)

TurnRecord == [question : Asked, by : Generation]

\* No question fills two turns in a row.
Alternating(h) == \A i \in 1..Len(h) : i < Len(h) => h[i].question # h[i + 1].question

MemoryInv ==
    /\ history \in Seq(TurnRecord)
    /\ history = <<>> <=> answers = <<>>
    /\ history # <<>> => history[Len(history)].by = answers[Len(answers)]
    /\ Alternating(history)
    /\ \A i, j \in 1..Len(history) : history[i].by = history[j].by => i = j
    /\ \A i \in 1..Len(history) :
          /\ \E k \in 1..Len(answers) : answers[k] = history[i].by
          /\ history[i].question = generations[history[i].by].question

\* new is the end of old, from which d turns were dropped at the beginning and
\* perhaps one at the end, and turn after it.
Remembers(old, turn, new, d) ==
    /\ new \in Seq(TurnRecord)
    /\ Len(new) \in Nat \ {0}
    /\ new[Len(new)] = turn
    /\ \A i \in 1..Len(new) - 1 : i + d \in 1..Len(old) /\ new[i] = old[i + d]
    /\ Len(new) > 1 => old[Len(new) - 1 + d].question # turn.question

\* The first m of a sequence.
LEMMA Beginning ==
    ASSUME NEW S, NEW s, NEW m \in Nat, \A i \in 1..m : s[i] \in S
    PROVE  /\ SubSeq(s, 1, m) \in Seq(S) /\ Len(SubSeq(s, 1, m)) = m
           /\ \A i \in 1..m : SubSeq(s, 1, m)[i] = s[i]
<1>1. /\ SubSeq(s, 1, m) \in Seq(S)
      /\ Len(SubSeq(s, 1, m)) = IF 1 <= m THEN m - 1 + 1 ELSE 0
      /\ \A i \in 1..m - 1 + 1 : SubSeq(s, 1, m)[i] = s[1 + i - 1]
  BY SubSeqProperties
<1>2. (IF 1 <= m THEN m - 1 + 1 ELSE 0) = m /\ m - 1 + 1 = m
  OBVIOUS
<1>3. \A i \in 1..m : 1 + i - 1 = i
  OBVIOUS
<1> QED
  BY <1>1, <1>2, <1>3

\* The turn becomes the last one, after the end of those there were.
LEMMA RecordTurnRemembers ==
    ASSUME history \in Seq(TurnRecord), Alternating(history), NEW turn \in TurnRecord
    PROVE  \E d \in Nat : Remembers(history, turn, RecordTurn(turn), d)
<1> DEFINE n == Len(history)
           all == Append(history, turn)
<1>1. n \in Nat /\ MaxTurns \in Nat \ {0}
  BY OrchestratorAssumption
<1>2. /\ all \in Seq(TurnRecord) /\ Len(all) = n + 1 /\ all[n + 1] = turn
      /\ \A i \in 1..n : all[i] = history[i]
  OBVIOUS
<1>3. CASE history # <<>> /\ Last(history).question = turn.question
  <2> DEFINE new == Append(Front(history), turn)
  <2>1. RecordTurn(turn) = new
    BY <1>3 DEF RecordTurn
  <2>2. n > 0 /\ history[n].question = turn.question
    BY <1>1, <1>3 DEF Last
  <2>3. /\ Front(history) \in Seq(TurnRecord) /\ Len(Front(history)) = n - 1
        /\ \A i \in 1..n - 1 : Front(history)[i] = history[i]
    <3>1. PICK m \in Nat : m = n - 1
      BY <1>1, <2>2
    <3>2. Front(history) = SubSeq(history, 1, m)
      BY <3>1 DEF Front
    <3>3. \A i \in 1..m : history[i] \in TurnRecord
      BY <1>1, <3>1
    <3>4. /\ Front(history) \in Seq(TurnRecord) /\ Len(Front(history)) = m
          /\ \A i \in 1..m : Front(history)[i] = history[i]
      BY <3>2, <3>3, Beginning
    <3> QED
      BY <3>1, <3>4
  <2>4. /\ new \in Seq(TurnRecord) /\ Len(new) = n /\ new[n] = turn
        /\ \A i \in 1..n - 1 : new[i] = history[i]
    BY <1>1, <2>2, <2>3
  <2>5. n > 1 => history[n - 1].question # turn.question
    <3> SUFFICES ASSUME n > 1 PROVE history[n - 1].question # turn.question
      OBVIOUS
    <3>1. n - 1 \in 1..n /\ n - 1 < n /\ (n - 1) + 1 = n
      BY <1>1
    <3> QED
      BY <3>1, <2>2 DEF Alternating
  <2> HIDE DEF new
  <2>6. Remembers(history, turn, new, 0)
    BY <1>1, <2>2, <2>4, <2>5 DEF Remembers
  <2> QED
    BY <2>1, <2>6
<1>4. CASE ~(history # <<>> /\ Last(history).question = turn.question)
  <2>1. RecordTurn(turn) = IF Len(all) > MaxTurns THEN Tail(all) ELSE all
    BY <1>4 DEF RecordTurn
  <2>2. n > 0 => history[n].question # turn.question
    BY <1>1, <1>4 DEF Last
  <2>3. CASE n + 1 > MaxTurns
    <3>1. all # <<>>
      BY <1>1, <1>2
    <3> HIDE DEF all
    <3>2. /\ Tail(all) \in Seq(TurnRecord) /\ Len(Tail(all)) = n
          /\ \A i \in 1..n : Tail(all)[i] = all[i + 1]
      BY <1>1, <1>2, <3>1, HeadTailProperties
    <3>3. n > 0
      BY <1>1, <2>3
    <3>4. Tail(all)[n] = turn
      BY <1>1, <1>2, <3>2, <3>3
    <3>5. ASSUME NEW i \in 1..n - 1
          PROVE  i + 1 \in 1..n /\ Tail(all)[i] = history[i + 1]
      <4>1. i \in 1..n /\ i + 1 \in 1..n
        BY <1>1
      <4> QED
        BY <4>1, <1>2, <3>2
    <3>6. (n - 1) + 1 = n
      BY <1>1
    <3>7. Remembers(history, turn, Tail(all), 1)
      BY <1>1, <2>2, <3>2, <3>3, <3>4, <3>5, <3>6 DEF Remembers
    <3>8. RecordTurn(turn) = Tail(all)
      BY <2>1, <2>3, <1>2
    <3> QED
      BY <3>7, <3>8
  <2>4. CASE ~(n + 1 > MaxTurns)
    <3>1. RecordTurn(turn) = all
      BY <2>1, <2>4, <1>2
    <3> HIDE DEF all
    <3>2. Remembers(history, turn, all, 0)
      BY <1>1, <1>2, <2>2 DEF Remembers
    <3> QED
      BY <3>1, <3>2
  <2> QED
    BY <2>3, <2>4
<1> QED
  BY <1>3, <1>4

\* A generation that has begun keeps its question.
LEMMA QuestionKept ==
    ASSUME TranscriptInv, [Next]_vars, NEW g \in Generation, generations[g].at # "unused"
    PROVE  generations'[g].question = generations[g].question
<1>1. DOMAIN generations = Generation /\ \A h \in Generation : GenerationShape(generations[h])
  BY DEF TranscriptInv, ShapeInv
<1>2. ASSUME NEW q, NEW voided, Generate(q, voided)
      PROVE  generations'[g] = generations[g]
  <2>1. g # generationSeq + 1
    <3>1. ~(g > generationSeq) /\ generationSeq \in Nat /\ g \in Nat
      BY OrchestratorAssumption DEF TranscriptInv, ShapeInv, AnsweredInv, Generation
    <3> QED
      BY <3>1
  <2> QED
    BY <2>1, <1>1, <1>2 DEF Generate
<1>3. ASSUME NoGeneration PROVE generations'[g] = generations[g]
  BY <1>3 DEF NoGeneration
<1>4. ASSUME NEW h \in Generation, NEW stage, Go(h, stage)
      PROVE  generations'[g].question = generations[g].question
  BY <1>4, <1>1 DEF Go, GenerationShape
<1>5. CASE (\E q \in Question \ {Screenshot} : HandleFinalQuestion(q)) \/ AnswerPending
           \/ (\E q \in Question : HandleQuestion(q)) \/ Regenerate
  BY <1>2, <1>3, <1>5 DEF HandleFinalQuestion, AnswerPending, HandleQuestion, Regenerate
<1>6. CASE \E enabled \in BOOLEAN : SetAutoGenerate(enabled)
  BY <1>2, <1>3, <1>6 DEF SetAutoGenerate
<1>7. CASE \E h \in Generation : ProviderReturns(h) \/ InsertRow(h) \/ InsertRefused(h)
                                 \/ AnswerComplete(h)
  BY <1>4, <1>7 DEF ProviderReturns, InsertRow, InsertRefused, AnswerComplete
<1>8. CASE \E h \in Generation : ReadMaxSeq(h)
  BY <1>1, <1>8 DEF ReadMaxSeq, GenerationShape
<1>9. CASE Exhaust \/ UNCHANGED vars
  BY <1>9 DEF Exhaust, vars
<1> QED
  BY <1>5, <1>6, <1>7, <1>8, <1>9 DEF Next

\* An answer shown becomes the last turn of the memory.
LEMMA AnswerKeepsMemory ==
    ASSUME TranscriptInv, MemoryInv, [Next]_vars, NEW g \in Generation, AnswerComplete(g)
    PROVE  MemoryInv'
<1> DEFINE turn == [question |-> generations[g].question, by |-> g]
           new == RecordTurn(turn)
           n == Len(history)
<1>1. /\ answers \in Seq(Generation) /\ Len(answers) \in Nat
      /\ generations[g].question \in Asked
      /\ history \in Seq(TurnRecord) /\ n \in Nat
  BY DEF TranscriptInv, ShapeInv, GenerationShape, MemoryInv
<1>2. generations[g].at = "appended" /\ answers' = Append(answers, g) /\ history' = new
  BY DEF AnswerComplete
<1>3. turn \in TurnRecord /\ turn.by = g /\ turn.question = generations[g].question
  BY <1>1 DEF TurnRecord
<1> HIDE DEF turn
<1>4. PICK d \in Nat : Remembers(history, turn, new, d)
  BY <1>1, <1>3, RecordTurnRemembers DEF MemoryInv
<1> HIDE DEF new
<1>5. /\ new \in Seq(TurnRecord) /\ Len(new) \in Nat \ {0} /\ new[Len(new)] = turn
      /\ \A i \in 1..Len(new) - 1 : i + d \in 1..n /\ new[i] = history[i + d]
      /\ Len(new) > 1 => history[Len(new) - 1 + d].question # turn.question
  BY <1>4 DEF Remembers
<1>6. /\ answers' \in Seq(Generation) /\ Len(answers') = Len(answers) + 1
      /\ \A k \in 1..Len(answers) : answers'[k] = answers[k]
      /\ answers'[Len(answers) + 1] = g
  BY <1>1, <1>2
<1>7. ASSUME NEW i \in 1..n
      PROVE  /\ history[i].by \in Generation /\ history[i].by # g
             /\ generations'[history[i].by].question = generations[history[i].by].question
             /\ \E k \in 1..Len(answers) : answers[k] = history[i].by
             /\ history[i].question = generations[history[i].by].question
  <2>1. history[i] \in TurnRecord
    BY <1>1
  <2>2. /\ \E k \in 1..Len(answers) : answers[k] = history[i].by
        /\ history[i].question = generations[history[i].by].question
    BY DEF MemoryInv
  <2>3. generations[history[i].by].at = "over"
    BY <2>2 DEF TranscriptInv, AnsweredInv
  <2>4. history[i].by \in Generation
    BY <2>1 DEF TurnRecord
  <2> QED
    BY <2>2, <2>3, <2>4, <1>2, QuestionKept
<1>8. generations'[g].question = turn.question
  BY <1>2, <1>3, QuestionKept
<1>9. ASSUME NEW i \in 1..Len(new), i # Len(new)
      PROVE  /\ new[i].by # g /\ i + d \in 1..n /\ new[i] = history[i + d]
             /\ new[i].question = generations'[new[i].by].question
             /\ \E k \in 1..Len(answers) : answers[k] = new[i].by
  <2>1. i \in 1..Len(new) - 1
    BY <1>5, <1>9
  <2>2. i + d \in 1..n /\ new[i] = history[i + d]
    BY <2>1, <1>5
  <2> QED
    BY <2>2, <1>7
<1>10. history' \in Seq(TurnRecord) /\ history' # <<>> /\ answers' # <<>>
       /\ history'[Len(history')].by = answers'[Len(answers')]
  BY <1>1, <1>2, <1>3, <1>5, <1>6
<1>11. Alternating(new)
  <2> SUFFICES ASSUME NEW i \in 1..Len(new), i < Len(new)
               PROVE  new[i].question # new[i + 1].question
    BY DEF Alternating
  <2>1. i + d \in 1..n /\ new[i] = history[i + d]
    BY <1>5, <1>9
  <2>2. CASE i + 1 < Len(new)
    <3>1. i + 1 \in 1..Len(new) /\ i + 1 # Len(new)
      BY <2>2, <1>5
    <3>2. (i + 1) + d \in 1..n /\ new[i + 1] = history[(i + 1) + d]
      BY <3>1, <1>9
    <3>3. (i + 1) + d = (i + d) + 1 /\ i + d < n
      BY <3>2, <1>1
    <3>4. history[i + d].question # history[(i + d) + 1].question
      BY <2>1, <3>3 DEF MemoryInv, Alternating
    <3> QED
      BY <2>1, <3>2, <3>3, <3>4
  <2>3. CASE i + 1 = Len(new)
    <3>1. Len(new) > 1 /\ Len(new) - 1 = i
      BY <2>3, <1>5
    <3>2. history[i + d].question # turn.question
      BY <3>1, <1>5
    <3> QED
      BY <2>1, <2>3, <3>2, <1>5
  <2> QED
    BY <2>2, <2>3, <1>5
<1>12. ASSUME NEW i \in 1..Len(new), NEW j \in 1..Len(new), new[i].by = new[j].by
       PROVE  i = j
  <2>1. CASE i # Len(new) /\ j # Len(new)
    <3>1. /\ i + d \in 1..n /\ new[i] = history[i + d]
          /\ j + d \in 1..n /\ new[j] = history[j + d]
      BY <2>1, <1>9
    <3>2. i + d = j + d
      BY <3>1, <1>12 DEF MemoryInv
    <3> QED
      BY <3>2
  <2>2. CASE i = Len(new) \/ j = Len(new)
    BY <2>2, <1>3, <1>5, <1>9, <1>12
  <2> QED
    BY <2>1, <2>2
<1>13. ASSUME NEW i \in 1..Len(new)
       PROVE  /\ \E k \in 1..Len(answers') : answers'[k] = new[i].by
              /\ new[i].question = generations'[new[i].by].question
  <2>1. CASE i # Len(new)
    <3>1. PICK k \in 1..Len(answers) : answers[k] = new[i].by
      BY <2>1, <1>9
    <3>2. k \in 1..Len(answers') /\ answers'[k] = new[i].by
      BY <3>1, <1>1, <1>6
    <3> QED
      BY <2>1, <3>2, <1>9
  <2>2. CASE i = Len(new)
    <3>1. new[i].by = g /\ Len(answers) + 1 \in 1..Len(answers')
      BY <2>2, <1>1, <1>3, <1>5, <1>6
    <3> QED
      BY <2>2, <3>1, <1>3, <1>5, <1>6, <1>8
  <2> QED
    BY <2>1, <2>2
<1> QED
  BY <1>2, <1>10, <1>11, <1>12, <1>13 DEF MemoryInv

\* The other steps leave the memory and what its turns are of.
LEMMA RestKeepsMemory ==
    ASSUME TranscriptInv, MemoryInv, [Next]_vars, UNCHANGED <<history, answers>>
    PROVE  MemoryInv'
<1>1. history \in Seq(TurnRecord) /\ history' = history /\ answers' = answers
  BY DEF MemoryInv
<1>2. ASSUME NEW i \in 1..Len(history)
      PROVE  history[i].question = generations'[history[i].by].question
  <2>1. history[i] \in TurnRecord
    BY <1>1
  <2>2. /\ \E k \in 1..Len(answers) : answers[k] = history[i].by
        /\ history[i].question = generations[history[i].by].question
    BY DEF MemoryInv
  <2>3. generations[history[i].by].at = "over"
    BY <2>2 DEF TranscriptInv, AnsweredInv
  <2>4. history[i].by \in Generation
    BY <2>1 DEF TurnRecord
  <2> QED
    BY <2>2, <2>3, <2>4, QuestionKept
<1>3. /\ history = <<>> <=> answers = <<>>
      /\ history # <<>> => history[Len(history)].by = answers[Len(answers)]
      /\ Alternating(history)
      /\ \A i, j \in 1..Len(history) : history[i].by = history[j].by => i = j
      /\ \A i \in 1..Len(history) : \E k \in 1..Len(answers) : answers[k] = history[i].by
  BY DEF MemoryInv
<1>4. Alternating(history)'
  BY <1>1, <1>3 DEF Alternating
<1> QED
  BY <1>1, <1>2, <1>3, <1>4 DEF MemoryInv

\* The memory is of the answers shown: the last turn is the last answer, no
\* question fills two turns in a row, and no answer is remembered twice or
\* under another question, for every length of the memory.
THEOREM MemoryAlwaysOfShownAnswers == Spec => []MemoryIsOfShownAnswers
<1>1. Init => TranscriptInv /\ MemoryInv
  <2>1. Init => MemoryInv
    <3> SUFFICES ASSUME Init PROVE MemoryInv
      OBVIOUS
    <3>1. history = <<>> /\ answers = <<>>
      BY DEF Init
    <3> QED
      BY <3>1 DEF MemoryInv, Alternating
  <2> QED
    BY <2>1, InitTranscript
<1>2. TranscriptInv /\ MemoryInv /\ [Next]_vars => (TranscriptInv /\ MemoryInv)'
  <2> SUFFICES ASSUME TranscriptInv, MemoryInv, [Next]_vars
               PROVE  MemoryInv'
    BY TranscriptStep
  <2>1. CASE \E g \in Generation : AnswerComplete(g)
    BY <2>1, AnswerKeepsMemory
  <2>2. CASE ~(\E g \in Generation : AnswerComplete(g))
    <3>1. UNCHANGED <<history, answers>>
      BY <2>2 DEF Next, vars, HandleFinalQuestion, HandleQuestion, AnswerPending,
                  SetAutoGenerate, Regenerate, ProviderReturns, ReadMaxSeq, InsertRow,
                  InsertRefused, Exhaust
    <3> QED
      BY <3>1, RestKeepsMemory
  <2> QED
    BY <2>1, <2>2
<1>3. MemoryInv => MemoryIsOfShownAnswers
  <2> SUFFICES ASSUME MemoryInv PROVE MemoryIsOfShownAnswers
    OBVIOUS
  <2>1. DOMAIN history = 1..Len(history) /\ Len(history) \in Nat
    BY DEF MemoryInv
  <2>2. /\ history = <<>> <=> answers = <<>>
        /\ history # <<>> => Last(history).by = Last(answers)
        /\ \A i, j \in 1..Len(history) : history[i].by = history[j].by => i = j
        /\ \A i \in 1..Len(history) : history[i].question = generations[history[i].by].question
    BY DEF MemoryInv, Last
  <2>3. ASSUME NEW i \in 1..(Len(history) - 1)
        PROVE  history[i].question # history[i + 1].question
    <3>1. i \in 1..Len(history) /\ i < Len(history)
      BY <2>1
    <3> QED
      BY <3>1 DEF MemoryInv, Alternating
  <2> QED
    BY <2>1, <2>2, <2>3 DEF MemoryIsOfShownAnswers
<1> QED
  BY <1>1, <1>2, <1>3, PTL DEF Spec

-----------------------------------------------------------------------------
(* The answer card *)

\* s is the card with the batch after it, q the messages on their way to it, n
\* the newest generation, and gone the generations that are over.  A whole
\* answer comes first, and no part of it beside it or behind it.
WholeFirst(s, q, gone) ==
    \A i \in 1..Len(s) : s[i].whole =>
        /\ i = 1
        /\ s[i].by \in gone
        /\ \A j \in 1..Len(s) : s[j].by = s[i].by => j = i
        /\ \A j \in 1..Len(q) : q[j].kind = "token" => q[j].by # s[i].by

\* Parts, shown and to come, are in the order of their generations.
PartsAscend(s) ==
    \A i, j \in 1..Len(s) : i < j /\ ~s[i].whole /\ ~s[j].whole => s[i].by <= s[j].by

PartsAreOlder(s, q, n) ==
    \A i \in 1..Len(s) : ~s[i].whole =>
        /\ s[i].by <= n
        /\ \A j \in 1..Len(q) : q[j].kind = "token" => s[i].by <= q[j].by

TokensAscend(q, n) ==
    /\ \A i \in 1..Len(q) : q[i].kind = "token" => q[i].by <= n
    /\ \A i, j \in 1..Len(q) :
          i < j /\ q[i].kind = "token" /\ q[j].kind = "token" => q[i].by <= q[j].by

\* No token comes after the completion of its generation.
CompleteIsLast(q, gone) ==
    \A i \in 1..Len(q) : q[i].kind = "complete" =>
        /\ q[i].by \in gone
        /\ \A j \in 1..Len(q) : i < j /\ q[j].kind = "token" => q[j].by # q[i].by

Card(s, q, n, gone) ==
    /\ s \in Seq(Piece)
    /\ q \in Seq(Message)
    /\ WholeFirst(s, q, gone)
    /\ PartsAscend(s)
    /\ PartsAreOlder(s, q, n)
    /\ TokensAscend(q, n)
    /\ CompleteIsLast(q, gone)

\* What a piece and a message are.
LEMMA Numbered ==
    ASSUME NEW s \in Seq(Piece), NEW q \in Seq(Message)
    PROVE  /\ Len(s) \in Nat /\ Len(q) \in Nat
           /\ \A i \in 1..Len(s) : s[i] \in Piece /\ s[i].by \in Nat
           /\ \A i \in 1..Len(q) : q[i] \in Message /\ q[i].by \in Nat
<1>1. \A x \in Piece : x.by \in Nat
  BY OrchestratorAssumption DEF Piece, Generation
<1>2. \A x \in Message : x.by \in Nat
  BY OrchestratorAssumption DEF Message, Generation
<1>3. /\ Len(s) \in Nat /\ \A i \in 1..Len(s) : s[i] \in Piece
      /\ Len(q) \in Nat /\ \A i \in 1..Len(q) : q[i] \in Message
  OBVIOUS
<1> QED
  BY <1>1, <1>2, <1>3

\* t is the end of s, without the first d elements.
EndOf(t, s, d) == \A i \in 1..Len(t) : i + d \in 1..Len(s) /\ t[i] = s[i + d]

\* Pieces and messages are lost at the front while generations go on.
LEMMA CardLoses ==
    ASSUME NEW s, NEW q, NEW n \in Nat, NEW gone, Card(s, q, n, gone),
           NEW t \in Seq(Piece), NEW r \in Seq(Message), NEW d \in Nat, NEW e \in Nat,
           EndOf(t, s, d), EndOf(r, q, e),
           NEW m \in Nat, n <= m, NEW over, gone \subseteq over
    PROVE  Card(t, r, m, over)
<1>1. s \in Seq(Piece) /\ q \in Seq(Message)
  BY DEF Card
<1>2. /\ Len(s) \in Nat /\ Len(q) \in Nat /\ Len(t) \in Nat /\ Len(r) \in Nat
      /\ \A i \in 1..Len(s) : s[i].by \in Nat
      /\ \A i \in 1..Len(q) : q[i].by \in Nat
  BY <1>1, Numbered
<1>3. \A i \in 1..Len(t) : i + d \in 1..Len(s) /\ t[i] = s[i + d]
  BY DEF EndOf
<1>4. \A i \in 1..Len(r) : i + e \in 1..Len(q) /\ r[i] = q[i + e]
  BY DEF EndOf
<1>5. ASSUME NEW i \in 1..Len(t), t[i].whole
      PROVE  /\ i = 1 /\ t[i].by \in over
             /\ \A j \in 1..Len(t) : t[j].by = t[i].by => j = i
             /\ \A j \in 1..Len(r) : r[j].kind = "token" => r[j].by # t[i].by
  <2>1. i + d \in 1..Len(s) /\ s[i + d].whole /\ t[i] = s[i + d]
    BY <1>3, <1>5
  <2>2. /\ i + d = 1 /\ s[i + d].by \in gone
        /\ \A j \in 1..Len(s) : s[j].by = s[i + d].by => j = i + d
        /\ \A j \in 1..Len(q) : q[j].kind = "token" => q[j].by # s[i + d].by
    BY <2>1 DEF Card, WholeFirst
  <2>3. i = 1 /\ d = 0
    BY <1>2, <2>2
  <2>4. \A j \in 1..Len(t) : t[j].by = t[i].by => j = i
    BY <1>2, <1>3, <2>1, <2>2
  <2> QED
    BY <1>4, <2>1, <2>2, <2>3, <2>4
<1>6. ASSUME NEW i \in 1..Len(t), NEW j \in 1..Len(t), i < j, ~t[i].whole, ~t[j].whole
      PROVE  t[i].by <= t[j].by
  <2>1. i + d \in 1..Len(s) /\ j + d \in 1..Len(s) /\ i + d < j + d
    BY <1>2, <1>3, <1>6
  <2> QED
    BY <1>3, <1>6, <2>1 DEF Card, PartsAscend
<1>7. ASSUME NEW i \in 1..Len(t), ~t[i].whole
      PROVE  /\ t[i].by <= m
             /\ \A j \in 1..Len(r) : r[j].kind = "token" => t[i].by <= r[j].by
  <2>1. i + d \in 1..Len(s) /\ t[i] = s[i + d]
    BY <1>3
  <2>2. /\ s[i + d].by <= n
        /\ \A j \in 1..Len(q) : q[j].kind = "token" => s[i + d].by <= q[j].by
    BY <1>7, <2>1 DEF Card, PartsAreOlder
  <2>3. s[i + d].by <= m
    BY <1>2, <2>1, <2>2
  <2> QED
    BY <1>4, <2>1, <2>2, <2>3
<1>8. ASSUME NEW i \in 1..Len(r), r[i].kind = "token"
      PROVE  r[i].by <= m
  <2>1. i + e \in 1..Len(q) /\ r[i] = q[i + e]
    BY <1>4
  <2>2. q[i + e].by <= n
    BY <1>8, <2>1 DEF Card, TokensAscend
  <2>3. q[i + e].by \in Nat
    BY <1>2, <2>1
  <2>4. q[i + e].by <= m
    BY <2>2, <2>3
  <2> QED
    BY <2>1, <2>4
<1>9. ASSUME NEW i \in 1..Len(r), NEW j \in 1..Len(r), i < j,
             r[i].kind = "token", r[j].kind = "token"
      PROVE  r[i].by <= r[j].by
  <2>1. i + e \in 1..Len(q) /\ j + e \in 1..Len(q)
    BY <1>4
  <2>2. i + e < j + e
    BY <1>9
  <2> QED
    BY <1>4, <1>9, <2>1, <2>2 DEF Card, TokensAscend
<1>10. ASSUME NEW i \in 1..Len(r), r[i].kind = "complete"
       PROVE  /\ r[i].by \in over
              /\ \A j \in 1..Len(r) : i < j /\ r[j].kind = "token" => r[j].by # r[i].by
  <2>1. i + e \in 1..Len(q) /\ r[i] = q[i + e]
    BY <1>4
  <2>2. /\ q[i + e].by \in gone
        /\ \A j \in 1..Len(q) : i + e < j /\ q[j].kind = "token" => q[j].by # q[i + e].by
    BY <1>10, <2>1 DEF Card, CompleteIsLast
  <2>3. \A j \in 1..Len(r) : i < j => i + e < j + e
    BY <1>2
  <2> QED
    BY <1>4, <2>1, <2>2, <2>3
<1> QED
  BY <1>5, <1>6, <1>7, <1>8, <1>9, <1>10
     DEF Card, WholeFirst, PartsAscend, PartsAreOlder, TokensAscend, CompleteIsLast

\* A message is sent: a token by the newest generation, which is not over, the
\* completion of one that is, or an error.
LEMMA CardIsSent ==
    ASSUME NEW s, NEW q, NEW n \in Nat, NEW gone, Card(s, q, n, gone), NEW m \in Message,
           m.kind = "token" => m.by = n /\ n \notin gone,
           m.kind = "complete" => m.by \in gone
    PROVE  Card(s, Append(q, m), n, gone)
<1> DEFINE r == Append(q, m)
<1>1. /\ s \in Seq(Piece) /\ q \in Seq(Message) /\ r \in Seq(Message)
      /\ Len(r) = Len(q) + 1 /\ r[Len(q) + 1] = m
      /\ \A i \in 1..Len(q) : r[i] = q[i]
  BY DEF Card
<1> HIDE DEF r
<1>2. /\ Len(s) \in Nat /\ Len(q) \in Nat
      /\ \A i \in 1..Len(s) : s[i].by \in Nat
      /\ \A i \in 1..Len(q) : q[i].by \in Nat
  BY <1>1, Numbered
<1>3. \A i \in 1..Len(r) : i \in 1..Len(q) \/ (i = Len(q) + 1 /\ r[i] = m)
  BY <1>1, <1>2
<1>4. ASSUME NEW i \in 1..Len(s), s[i].whole
      PROVE  /\ i = 1 /\ s[i].by \in gone
             /\ \A j \in 1..Len(s) : s[j].by = s[i].by => j = i
             /\ \A j \in 1..Len(r) : r[j].kind = "token" => r[j].by # s[i].by
  BY <1>1, <1>3, <1>4
     DEF Card, WholeFirst, PartsAscend, PartsAreOlder, TokensAscend, CompleteIsLast
<1>5. \A i, j \in 1..Len(s) : i < j /\ ~s[i].whole /\ ~s[j].whole => s[i].by <= s[j].by
  BY DEF Card, PartsAscend
<1>6. ASSUME NEW i \in 1..Len(s), ~s[i].whole
      PROVE  /\ s[i].by <= n
             /\ \A j \in 1..Len(r) : r[j].kind = "token" => s[i].by <= r[j].by
  BY <1>1, <1>3, <1>6
     DEF Card, WholeFirst, PartsAscend, PartsAreOlder, TokensAscend, CompleteIsLast
<1>7. \A i \in 1..Len(r) : r[i].kind = "token" => r[i].by <= n
  BY <1>1, <1>3
     DEF Card, WholeFirst, PartsAscend, PartsAreOlder, TokensAscend, CompleteIsLast
<1>8. \A i, j \in 1..Len(r) :
         i < j /\ r[i].kind = "token" /\ r[j].kind = "token" => r[i].by <= r[j].by
  BY <1>1, <1>2, <1>3
     DEF Card, WholeFirst, PartsAscend, PartsAreOlder, TokensAscend, CompleteIsLast
<1>9. ASSUME NEW i \in 1..Len(r), r[i].kind = "complete"
      PROVE  /\ r[i].by \in gone
             /\ \A j \in 1..Len(r) : i < j /\ r[j].kind = "token" => r[j].by # r[i].by
  <2>1. CASE i \in 1..Len(q)
    <3>1. r[i] = q[i] /\ q[i].kind = "complete"
      BY <1>1, <1>9, <2>1
    <3>2. /\ q[i].by \in gone
          /\ \A j \in 1..Len(q) : i < j /\ q[j].kind = "token" => q[j].by # q[i].by
      BY <2>1, <3>1 DEF Card, CompleteIsLast
    <3>3. m.kind = "token" => m.by # q[i].by
      BY <3>2
    <3> QED
      BY <1>1, <1>3, <3>1, <3>2, <3>3
  <2>2. CASE i = Len(q) + 1 /\ r[i] = m
    <3>1. \A j \in 1..Len(r) : ~(i < j)
      BY <1>1, <1>2, <2>2
    <3> QED
      BY <1>9, <2>2, <3>1
  <2> QED
    BY <1>3, <2>1, <2>2
<1> QED
  BY <1>1, <1>4, <1>5, <1>6, <1>7, <1>8, <1>9
     DEF Card, WholeFirst, PartsAscend, PartsAreOlder, TokensAscend, CompleteIsLast, r

\* The message that comes first, and what is left.
LEMMA FirstMessage ==
    ASSUME NEW q \in Seq(Message), q # <<>>
    PROVE  /\ Len(q) \in Nat \ {0} /\ Head(q) = q[1] /\ q[1] \in Message
           /\ Tail(q) \in Seq(Message) /\ Len(Tail(q)) = Len(q) - 1
           /\ EndOf(Tail(q), q, 1)
<1>1. Len(q) \in Nat \ {0} /\ Head(q) = q[1] /\ q[1] \in Message
  OBVIOUS
<1>2. /\ Tail(q) \in Seq(Message) /\ Len(Tail(q)) = Len(q) - 1
      /\ \A i \in 1..Len(Tail(q)) : Tail(q)[i] = q[i + 1]
  BY HeadTailProperties
<1> QED
  BY <1>1, <1>2 DEF EndOf

\* The messages behind the first are in order too.
LEMMA CardBehind ==
    ASSUME NEW s, NEW q, NEW n \in Nat, NEW gone, Card(s, q, n, gone), q # <<>>
    PROVE  Card(s, Tail(q), n, gone)
<1>1. s \in Seq(Piece) /\ q \in Seq(Message)
  BY DEF Card
<1>2. EndOf(s, s, 0)
  BY <1>1 DEF EndOf
<1>3. Tail(q) \in Seq(Message) /\ EndOf(Tail(q), q, 1)
  BY <1>1, FirstMessage
<1>4. n <= n /\ gone \subseteq gone /\ 0 \in Nat /\ 1 \in Nat
  OBVIOUS
<1> QED
  BY <1>1, <1>2, <1>3, <1>4, CardLoses

\* A token goes into the batch.
LEMMA CardTakesToken ==
    ASSUME NEW s, NEW q, NEW n \in Nat, NEW gone, Card(s, q, n, gone),
           q # <<>>, Head(q).kind = "token"
    PROVE  Card(Append(s, [by |-> Head(q).by, whole |-> FALSE]), Tail(q), n, gone)
<1> DEFINE p == [by |-> Head(q).by, whole |-> FALSE]
           t == Append(s, p)
           r == Tail(q)
<1>1. /\ s \in Seq(Piece) /\ q \in Seq(Message) /\ r \in Seq(Message)
      /\ Head(q) = q[1] /\ q[1] \in Message /\ Len(q) \in Nat \ {0}
      /\ Len(r) = Len(q) - 1
      /\ \A i \in 1..Len(r) : i + 1 \in 1..Len(q) /\ r[i] = q[i + 1]
  BY FirstMessage DEF Card, EndOf
<1>2. p \in Piece /\ p.by = q[1].by /\ p.whole = FALSE
  BY <1>1 DEF Piece, Message
<1> HIDE DEF p, r
<1>3. /\ t \in Seq(Piece) /\ Len(t) = Len(s) + 1 /\ t[Len(s) + 1] = p
      /\ \A i \in 1..Len(s) : t[i] = s[i]
  BY <1>1, <1>2
<1> HIDE DEF t
<1>4. /\ Len(s) \in Nat
      /\ \A i \in 1..Len(s) : s[i].by \in Nat
      /\ \A i \in 1..Len(q) : q[i].by \in Nat
  BY <1>1, Numbered
<1>5. \A i \in 1..Len(t) : i \in 1..Len(s) \/ (i = Len(s) + 1 /\ t[i] = p)
  BY <1>3, <1>4
<1>6. 1 \in 1..Len(q) /\ q[1].kind = "token"
  BY <1>1
<1>7. ASSUME NEW i \in 1..Len(t), t[i].whole
      PROVE  /\ i = 1 /\ t[i].by \in gone
             /\ \A j \in 1..Len(t) : t[j].by = t[i].by => j = i
             /\ \A j \in 1..Len(r) : r[j].kind = "token" => r[j].by # t[i].by
  <2>1. i \in 1..Len(s) /\ t[i] = s[i]
    BY <1>2, <1>3, <1>5, <1>7
  <2>2. /\ i = 1 /\ s[i].by \in gone
        /\ \A j \in 1..Len(s) : s[j].by = s[i].by => j = i
        /\ \A j \in 1..Len(q) : q[j].kind = "token" => q[j].by # s[i].by
    BY <1>7, <2>1
       DEF Card, WholeFirst, PartsAscend, PartsAreOlder, TokensAscend, CompleteIsLast
  <2> QED
    BY <1>1, <1>2, <1>3, <1>5, <1>6, <2>1, <2>2
<1>8. ASSUME NEW i \in 1..Len(t), NEW j \in 1..Len(t), i < j, ~t[i].whole, ~t[j].whole
      PROVE  t[i].by <= t[j].by
  <2>1. i \in 1..Len(s) /\ t[i] = s[i]
    BY <1>3, <1>4, <1>5, <1>8
  <2>2. CASE j \in 1..Len(s)
    BY <1>3, <1>8, <2>1, <2>2
       DEF Card, WholeFirst, PartsAscend, PartsAreOlder, TokensAscend, CompleteIsLast
  <2>3. CASE t[j] = p
    BY <1>2, <1>6, <1>8, <2>1, <2>3
       DEF Card, WholeFirst, PartsAscend, PartsAreOlder, TokensAscend, CompleteIsLast
  <2> QED
    BY <1>5, <2>2, <2>3
<1>9. ASSUME NEW i \in 1..Len(t), ~t[i].whole
      PROVE  /\ t[i].by <= n
             /\ \A j \in 1..Len(r) : r[j].kind = "token" => t[i].by <= r[j].by
  <2>1. CASE i \in 1..Len(s)
    BY <1>1, <1>3, <1>9, <2>1
       DEF Card, WholeFirst, PartsAscend, PartsAreOlder, TokensAscend, CompleteIsLast
  <2>2. CASE t[i] = p
    <3>1. q[1].by <= n
      BY <1>6
         DEF Card, WholeFirst, PartsAscend, PartsAreOlder, TokensAscend, CompleteIsLast
    <3>2. ASSUME NEW j \in 1..Len(r), r[j].kind = "token" PROVE q[1].by <= r[j].by
      BY <1>1, <1>6, <3>2
         DEF Card, WholeFirst, PartsAscend, PartsAreOlder, TokensAscend, CompleteIsLast
    <3> QED
      BY <1>2, <2>2, <3>1, <3>2
  <2> QED
    BY <1>5, <2>1, <2>2
<1>10. TokensAscend(r, n) /\ CompleteIsLast(r, gone)
  BY CardBehind DEF Card, r
<1> QED
  BY <1>1, <1>3, <1>7, <1>8, <1>9, <1>10
     DEF Card, WholeFirst, PartsAscend, PartsAreOlder, TokensAscend, CompleteIsLast, p, r, t

\* The whole answer takes the place of what is shown.
LEMMA CardTakesWhole ==
    ASSUME NEW s, NEW q, NEW n \in Nat, NEW gone, Card(s, q, n, gone),
           q # <<>>, Head(q).kind = "complete"
    PROVE  Card(<<[by |-> Head(q).by, whole |-> TRUE]>>, Tail(q), n, gone)
<1> DEFINE p == [by |-> Head(q).by, whole |-> TRUE]
           t == <<p>>
           r == Tail(q)
<1>1. /\ q \in Seq(Message) /\ r \in Seq(Message)
      /\ Head(q) = q[1] /\ q[1] \in Message /\ Len(q) \in Nat \ {0}
      /\ Len(r) = Len(q) - 1
      /\ \A i \in 1..Len(r) : i + 1 \in 1..Len(q) /\ r[i] = q[i + 1]
  BY FirstMessage DEF Card, EndOf
<1>2. p \in Piece /\ p.by = q[1].by /\ p.whole = TRUE
  BY <1>1 DEF Piece, Message
<1> HIDE DEF p, r
<1>3. t \in Seq(Piece) /\ Len(t) = 1 /\ t[1] = p
  BY <1>2
<1> HIDE DEF t
<1>4. 1 \in 1..Len(q) /\ q[1].kind = "complete"
  BY <1>1
<1>5. \A i \in 1..Len(t) : i = 1 /\ t[i] = p
  BY <1>3
<1>6. p.by \in gone /\ \A j \in 1..Len(r) : r[j].kind = "token" => r[j].by # p.by
  BY <1>1, <1>2, <1>4
     DEF Card, WholeFirst, PartsAscend, PartsAreOlder, TokensAscend, CompleteIsLast
<1>7. TokensAscend(r, n) /\ CompleteIsLast(r, gone)
  BY CardBehind DEF Card, r
<1> QED
  BY <1>1, <1>2, <1>3, <1>5, <1>6, <1>7
     DEF Card, WholeFirst, PartsAscend, PartsAreOlder, TokensAscend, CompleteIsLast, p, r, t

\* An answer without text leaves nothing.
LEMMA CardIsEmptied ==
    ASSUME NEW s, NEW q, NEW n \in Nat, NEW gone, Card(s, q, n, gone), q # <<>>
    PROVE  Card(<<>>, Tail(q), n, gone)
<1>1. Card(s, Tail(q), n, gone)
  BY CardBehind
<1>2. <<>> \in Seq(Piece) /\ Len(<<>>) = 0
  OBVIOUS
<1> QED
  BY <1>1, <1>2 DEF Card, WholeFirst, PartsAscend, PartsAreOlder

-----------------------------------------------------------------------------
(* The messages, commands and calls of the stream keep their types *)

OverlayRecord ==
    [mounted : BOOLEAN, answered : Question \cup {NoQuestion}, answer : Seq(Piece),
     batch : Seq(Piece), frame : BOOLEAN, generating : BOOLEAN, autoGen : BOOLEAN,
     banner : {NoBanner} \cup 0..MaxGenerations, asked : 0..MaxCommands]

\* A screenshot being taken is a command that was given.
StreamTypes == StreamTypeOK /\ shots <= commands

\* The steps of the stream that are the Overlay's or its messages'
OverlayStep ==
    \/ \E q \in Question \ {Screenshot} : AskText(q)
    \/ AskAgain \/ AskScreenshot \/ ScreenshotTaken \/ ScreenshotFails
    \/ ToggleAuto \/ Collapse \/ Expand \/ Deliver \/ Frame

BackendStep ==
    /\ alive
    /\ \/ \E q \in Question \ {Screenshot} : SpokenQuestion(q)
       \/ HandleCommand
       \/ \E g \in Generation :
             Token(g) \/ ProviderAnswers(g) \/ Persist(g) \/ AbandonedStream(g)
       \/ StreamExhaust

\* The first command, and those behind it.
LEMMA FirstCommand ==
    ASSUME StreamTypeOK, outbox # <<>>
    PROVE  /\ Len(outbox) \in Nat \ {0} /\ Head(outbox) = outbox[1]
           /\ Head(outbox) \in Command
           /\ Tail(outbox) \in Seq(Command) /\ Len(Tail(outbox)) = Len(outbox) - 1
           /\ \A i \in 1..Len(Tail(outbox)) : Tail(outbox)[i] = outbox[i + 1]
<1>1. outbox \in Seq(Command)
  BY DEF StreamTypeOK
<1> QED
  BY <1>1, HeadTailProperties

\* A step of the stream is a step of the orchestrator, or leaves it alone.
LEMMA StreamStepIsStep ==
    ASSUME StreamTypeOK, [StreamNext]_streamVars
    PROVE  [Next]_vars
<1>1. CASE OverlayStep \/ UNCHANGED streamVars
  BY <1>1 DEF OverlayStep, AskText, AskAgain, AskScreenshot, ScreenshotTaken, ScreenshotFails,
              Reply, ToggleAuto, Collapse, Expand, Deliver, Frame, backendVars, streamVars
<1>2. CASE alive /\ \E q \in Question \ {Screenshot} : SpokenQuestion(q)
  BY <1>2 DEF SpokenQuestion, Next
<1>3. CASE alive /\ HandleCommand
  <2> DEFINE c == Head(outbox)
  <2>1. c.question \in Question /\ c.on \in BOOLEAN
    BY <1>3, FirstCommand DEF HandleCommand, Command
  <2>2. Serve(c)
    BY <1>3 DEF HandleCommand
  <2> HIDE DEF c
  <2> QED
    BY <1>3, <2>1, <2>2 DEF Serve, Next
<1>4. CASE alive /\ \E g \in Generation : Token(g) \/ AbandonedStream(g)
  BY <1>4 DEF Token, AbandonedStream
<1>5. CASE alive /\ \E g \in Generation : ProviderAnswers(g) \/ Persist(g)
  BY <1>5 DEF ProviderAnswers, Persist, Next
<1>6. CASE alive /\ StreamExhaust
  BY <1>6 DEF StreamExhaust, Next
<1> QED
  BY <1>1, <1>2, <1>3, <1>4, <1>5, <1>6 DEF StreamNext, OverlayStep

\* A call of generate keeps its type.
LEMMA CallTyped ==
    ASSUME CallsTypeOK, NEW r \in Generation,
           \/ \E image \in BOOLEAN : StartCall(r, image)
           \/ Chunk(r) \/ AbandonedEnds(r)
           \/ \E state \in CallState, outcome \in Outcome : Settles(r, state, outcome)
    PROVE  CallsTypeOK'
<1>1. calls \in [Generation -> Call] /\ calls[r] \in Call /\ MaxChunks \in Nat
  BY StreamAssumption, ProviderAssumption DEF CallsTypeOK
<1>2. ASSUME NEW c \in Call, calls' = [calls EXCEPT ![r] = c], UNCHANGED llm
      PROVE  CallsTypeOK'
  BY <1>1, <1>2, StreamAssumption DEF CallsTypeOK
<1>3. CASE \E image \in BOOLEAN : StartCall(r, image)
  <2>1. PICK image \in BOOLEAN : StartCall(r, image)
    BY <1>3
  <2> DEFINE c == [IdleCall EXCEPT !.at = "racing", !.vision = image]
  <2>2. IdleCall \in Call
    BY <1>1 DEF Call, CallState, Outcome, IdleCall
  <2>3. c \in Call
    BY <2>2 DEF Call, CallState
  <2>4. calls' = [calls EXCEPT ![r] = c] /\ UNCHANGED llm
    BY <2>1, Zenon DEF StartCall
  <2> HIDE DEF c
  <2> QED
    BY <1>2, <2>3, <2>4
<1>4. CASE Chunk(r)
  <2> DEFINE c == [calls[r] EXCEPT !.chunks = @ + 1]
  <2>1. c \in Call
    BY <1>1, <1>4 DEF Call, Chunk
  <2>2. calls' = [calls EXCEPT ![r] = c] /\ UNCHANGED llm
    BY <1>1, <1>4 DEF Chunk
  <2> HIDE DEF c
  <2> QED
    BY <1>2, <2>1, <2>2
<1>5. CASE AbandonedEnds(r)
  <2> DEFINE c == [calls[r] EXCEPT !.at = "ended"]
  <2>1. c \in Call
    BY <1>1, <1>5 DEF Call, CallState
  <2>2. calls' = [calls EXCEPT ![r] = c] /\ UNCHANGED llm
    BY <1>1, <1>5 DEF AbandonedEnds
  <2> HIDE DEF c
  <2> QED
    BY <1>2, <2>1, <2>2
<1>6. CASE \E state \in CallState, outcome \in Outcome : Settles(r, state, outcome)
  <2>1. PICK state \in CallState, outcome \in Outcome : Settles(r, state, outcome)
    BY <1>6
  <2> DEFINE c == [calls[r] EXCEPT !.at = state, !.outcome = outcome]
  <2>2. c \in Call
    BY <1>1 DEF Call
  <2>3. calls' = [calls EXCEPT ![r] = c] /\ UNCHANGED llm
    BY <2>1, Zenon DEF Settles
  <2> HIDE DEF c
  <2> QED
    BY <1>2, <2>2, <2>3
<1> QED
  BY <1>3, <1>4, <1>5, <1>6

\* An answer of the provider is the end of a race.
LEMMA AnswerSettles ==
    ASSUME NEW g \in Generation, ProviderAnswers(g)
    PROVE  \E state \in CallState \ {"racing"}, outcome \in Outcome : Settles(g, state, outcome)
<1>1. StreamEnds(g) \/ StreamThrows(g) \/ TimesOut(g) \/ Unconfigured(g)
  BY DEF ProviderAnswers
<1> QED
  BY <1>1 DEF StreamEnds, StreamThrows, TimesOut, Unconfigured, CallState, Outcome

\* So do all calls when the orchestrator takes a question or a command.
LEMMA StartsTyped ==
    ASSUME CallsTypeOK, NEW image \in BOOLEAN, StartsCall(image),
           generationSeq \in 0..MaxGenerations, [Next]_vars
    PROVE  CallsTypeOK'
<1>1. CASE generationSeq' > generationSeq
  <2>1. generationSeq' = generationSeq + 1 /\ generationSeq < MaxGenerations
    <3>1. CASE \E q, voided : Generate(q, voided)
      BY <3>1 DEF Generate
    <3>2. CASE generationSeq' = generationSeq
      BY <1>1, <3>2
    <3> QED
      BY <3>1, <3>2
         DEF Next, vars, HandleFinalQuestion, HandleQuestion, AnswerPending, SetAutoGenerate,
             Regenerate, NoGeneration, ProviderReturns, ReadMaxSeq, InsertRow, InsertRefused,
             AnswerComplete, Exhaust
  <2>2. generationSeq' \in Generation
    BY <2>1, OrchestratorAssumption DEF Generation
  <2> QED
    BY <1>1, <2>2, CallTyped DEF StartsCall
<1>2. CASE ~(generationSeq' > generationSeq)
  BY <1>2 DEF StartsCall, provVars, CallsTypeOK
<1> QED
  BY <1>1, <1>2

\* What the card shows, and what the next frame will add to it
ShownOf(o) == o.answer \o o.batch

GoodOverlay(o) == o \in OverlayRecord /\ (o.batch # <<>> => o.frame)

\* x shows what o did, but for a beginning.
Loses(x, o) ==
    /\ GoodOverlay(x)
    /\ ShownOf(x) \in Seq(Piece)
    /\ \E d \in Nat : EndOf(ShownOf(x), ShownOf(o), d)

\* Whoever shows the same loses nothing.
LEMMA LosesNothing ==
    ASSUME NEW x, NEW o, GoodOverlay(o), GoodOverlay(x), ShownOf(x) = ShownOf(o)
    PROVE  Loses(x, o)
<1>1. o.answer \in Seq(Piece) /\ o.batch \in Seq(Piece)
  BY DEF GoodOverlay, OverlayRecord
<1>2. ShownOf(o) \in Seq(Piece)
  BY <1>1 DEF ShownOf
<1>3. EndOf(ShownOf(x), ShownOf(o), 0)
  BY <1>2 DEF EndOf
<1> QED
  BY <1>2, <1>3 DEF Loses

\* An empty card shows nothing.
LEMMA EmptyLoses ==
    ASSUME NEW x, NEW o, GoodOverlay(x), x.answer = <<>>, x.batch = <<>>
    PROVE  Loses(x, o)
<1>1. ShownOf(x) = <<>> /\ <<>> \in Seq(Piece) /\ Len(<<>>) = 0
  BY DEF ShownOf
<1>2. EndOf(ShownOf(x), ShownOf(o), 0)
  BY <1>1 DEF EndOf
<1> QED
  BY <1>1, <1>2 DEF Loses

\* Emptying the card leaves the batch.
LEMMA AskingLoses ==
    ASSUME NEW o, GoodOverlay(o)
    PROVE  /\ Loses(Asking(o), o)
           /\ \A q \in Question : Loses([Asking(o) EXCEPT !.answered = q], o)
           /\ o.asked < MaxCommands =>
                Loses([Asking(o) EXCEPT !.answered = Screenshot, !.asked = @ + 1], o)
<1>1. o.answer \in Seq(Piece) /\ o.batch \in Seq(Piece) /\ Len(o.answer) \in Nat
  BY DEF GoodOverlay, OverlayRecord
<1>2. ASSUME NEW x \in OverlayRecord, x.answer = <<>>, x.batch = o.batch, x.frame = o.frame
      PROVE  Loses(x, o)
  <2>1. GoodOverlay(x)
    BY <1>2 DEF GoodOverlay
  <2>2. ShownOf(x) = o.batch
    BY <1>1, <1>2 DEF ShownOf
  <2>3. \A i \in 1..Len(o.batch) : /\ i + Len(o.answer) \in 1..Len(ShownOf(o))
                                   /\ o.batch[i] = ShownOf(o)[i + Len(o.answer)]
    <3>1. /\ Len(ShownOf(o)) = Len(o.answer) + Len(o.batch)
          /\ \A i \in 1..Len(o.answer) + Len(o.batch) :
                ShownOf(o)[i] = IF i <= Len(o.answer) THEN o.answer[i]
                                ELSE o.batch[i - Len(o.answer)]
      BY <1>1, ConcatProperties DEF ShownOf
    <3>2. Len(o.answer) \in Nat /\ Len(o.batch) \in Nat
      BY <1>1
    <3>3. ASSUME NEW i \in 1..Len(o.batch)
          PROVE  /\ i + Len(o.answer) \in 1..Len(o.answer) + Len(o.batch)
                 /\ ~(i + Len(o.answer) <= Len(o.answer))
                 /\ (i + Len(o.answer)) - Len(o.answer) = i
      <4>1. \A a, b \in Nat : \A k \in 1..b :
               k + a \in 1..a + b /\ ~(k + a <= a) /\ (k + a) - a = k
        OBVIOUS
      <4> QED
        BY <3>2, <4>1
    <3>4. ASSUME NEW i \in 1..Len(o.batch)
          PROVE  ShownOf(o)[i + Len(o.answer)] = o.batch[i]
      BY <3>1, <3>3
    <3> QED
      BY <3>1, <3>3, <3>4
  <2>4. EndOf(ShownOf(x), ShownOf(o), Len(o.answer))
    BY <2>2, <2>3 DEF EndOf
  <2> QED
    BY <1>1, <2>1, <2>2, <2>4 DEF Loses
<1>3. <<>> \in Seq(Piece) /\ o \in OverlayRecord
  BY DEF GoodOverlay
<1>4. /\ Asking(o) \in OverlayRecord /\ Asking(o).answer = <<>>
      /\ Asking(o).batch = o.batch /\ Asking(o).frame = o.frame
  BY <1>3 DEF Asking, OverlayRecord
<1>5. ASSUME NEW q \in Question
      PROVE  Loses([Asking(o) EXCEPT !.answered = q], o)
  <2> DEFINE x == [Asking(o) EXCEPT !.answered = q]
  <2>1. x \in OverlayRecord /\ x.answer = <<>> /\ x.batch = o.batch /\ x.frame = o.frame
    BY <1>4 DEF OverlayRecord
  <2> HIDE DEF x
  <2>2. Loses(x, o)
    BY <1>2, <2>1
  <2> QED
    BY <2>2 DEF x
<1>6. ASSUME o.asked < MaxCommands
      PROVE  Loses([Asking(o) EXCEPT !.answered = Screenshot, !.asked = @ + 1], o)
  <2> DEFINE x == [Asking(o) EXCEPT !.answered = Screenshot, !.asked = @ + 1]
  <2>1. Asking(o).asked + 1 \in 0..MaxCommands /\ Screenshot \in Question
    BY <1>3, <1>6, StreamAssumption, OrchestratorAssumption DEF Asking, OverlayRecord
  <2>2. x \in OverlayRecord /\ x.answer = <<>> /\ x.batch = o.batch /\ x.frame = o.frame
    BY <1>4, <2>1 DEF OverlayRecord
  <2> HIDE DEF x
  <2>3. Loses(x, o)
    BY <1>2, <2>2
  <2> QED
    BY <2>3 DEF x
<1> QED
  BY <1>2, <1>4, <1>5, <1>6

\* A frame moves the batch into the card.
LEMMA FrameLoses ==
    ASSUME NEW o, GoodOverlay(o)
    PROVE  Loses([o EXCEPT !.frame = FALSE, !.batch = <<>>, !.answer = @ \o o.batch], o)
<1> DEFINE x == [o EXCEPT !.frame = FALSE, !.batch = <<>>, !.answer = @ \o o.batch]
<1>1. o.answer \in Seq(Piece) /\ o.batch \in Seq(Piece) /\ o \in OverlayRecord
  BY DEF GoodOverlay, OverlayRecord
<1>2. o.answer \o o.batch \in Seq(Piece) /\ <<>> \in Seq(Piece)
  BY <1>1
<1>3. x \in OverlayRecord /\ x.batch = <<>> /\ x.answer = o.answer \o o.batch
  BY <1>1, <1>2 DEF OverlayRecord
<1> HIDE DEF x
<1>4. GoodOverlay(x)
  BY <1>3 DEF GoodOverlay
<1>5. ShownOf(x) = ShownOf(o)
  BY <1>2, <1>3, ConcatEmptySeq DEF ShownOf
<1>6. Loses(x, o)
  BY <1>4, <1>5, LosesNothing
<1> QED
  BY <1>6 DEF x

\* What the other switches of the Overlay do.
LEMMA OthersLose ==
    ASSUME NEW o, GoodOverlay(o)
    PROVE  /\ \A g \in Generation : Loses(OnError(o, g), o)
           /\ \A n \in 0..MaxGenerations : o.asked > 0 =>
                 Loses([[o EXCEPT !.generating = FALSE, !.banner = n] EXCEPT !.asked = @ - 1], o)
           /\ o.asked > 0 => Loses([o EXCEPT !.asked = @ - 1], o)
           /\ Loses([o EXCEPT !.autoGen = ~@], o)
           /\ Loses(FreshOverlay, o)
           /\ Loses([FreshOverlay EXCEPT !.mounted = FALSE], o)
<1>1. ASSUME NEW x \in OverlayRecord, x.answer = o.answer, x.batch = o.batch, x.frame = o.frame
      PROVE  Loses(x, o)
  BY <1>1, LosesNothing DEF ShownOf, GoodOverlay
<1>2. o \in OverlayRecord /\ <<>> \in Seq(Piece)
  BY DEF GoodOverlay
<1>3. ASSUME NEW g \in Generation PROVE Loses(OnError(o, g), o)
  <2>1. g \in 0..MaxGenerations
    BY OrchestratorAssumption DEF Generation
  <2>2. /\ OnError(o, g) \in OverlayRecord /\ OnError(o, g).answer = o.answer
        /\ OnError(o, g).batch = o.batch /\ OnError(o, g).frame = o.frame
    BY <1>2, <2>1 DEF OnError, OverlayRecord
  <2> QED
    BY <1>1, <2>2
<1>8. ASSUME NEW y \in OverlayRecord, y.answer = o.answer, y.batch = o.batch,
             y.frame = o.frame, y.asked > 0
      PROVE  Loses([y EXCEPT !.asked = @ - 1], o)
  <2> DEFINE x == [y EXCEPT !.asked = @ - 1]
  <2>1. y.asked - 1 \in 0..MaxCommands
    BY <1>8, StreamAssumption DEF OverlayRecord
  <2>2. x \in OverlayRecord /\ x.answer = o.answer /\ x.batch = o.batch /\ x.frame = o.frame
    BY <1>8, <2>1 DEF OverlayRecord
  <2> HIDE DEF x
  <2>3. Loses(x, o)
    BY <1>1, <2>2
  <2> QED
    BY <2>3 DEF x
<1>9. ASSUME NEW n \in 0..MaxGenerations, o.asked > 0
      PROVE  Loses([[o EXCEPT !.generating = FALSE, !.banner = n] EXCEPT !.asked = @ - 1], o)
  <2> DEFINE y == [o EXCEPT !.generating = FALSE, !.banner = n]
  <2>1. /\ y \in OverlayRecord /\ y.answer = o.answer /\ y.batch = o.batch
        /\ y.frame = o.frame /\ y.asked = o.asked
    BY <1>2 DEF OverlayRecord
  <2> HIDE DEF y
  <2>2. Loses([y EXCEPT !.asked = @ - 1], o)
    BY <1>8, <1>9, <2>1
  <2> QED
    BY <2>2 DEF y
<1>10. o.asked > 0 => Loses([o EXCEPT !.asked = @ - 1], o)
  BY <1>2, <1>8
<1>4. Loses([o EXCEPT !.autoGen = ~@], o)
  <2> DEFINE x == [o EXCEPT !.autoGen = ~@]
  <2>1. x \in OverlayRecord /\ x.answer = o.answer /\ x.batch = o.batch /\ x.frame = o.frame
    BY <1>2 DEF OverlayRecord
  <2> HIDE DEF x
  <2>2. Loses(x, o)
    BY <1>1, <2>1
  <2> QED
    BY <2>2 DEF x
<1>5. /\ FreshOverlay \in OverlayRecord
      /\ FreshOverlay.answer = <<>> /\ FreshOverlay.batch = <<>>
  BY <1>2, StreamAssumption DEF FreshOverlay, OverlayRecord
<1>6. Loses(FreshOverlay, o)
  BY <1>5, EmptyLoses DEF GoodOverlay
<1>7. Loses([FreshOverlay EXCEPT !.mounted = FALSE], o)
  <2> DEFINE x == [FreshOverlay EXCEPT !.mounted = FALSE]
  <2>1. x \in OverlayRecord /\ x.answer = <<>> /\ x.batch = <<>>
    BY <1>5 DEF OverlayRecord
  <2> HIDE DEF x
  <2>2. Loses(x, o)
    BY <2>1, EmptyLoses DEF GoodOverlay
  <2> QED
    BY <2>2 DEF x
<1> QED
  BY <1>3, <1>4, <1>6, <1>7, <1>9, <1>10

\* Appending to the second of two sequences
LEMMA AppendBehind ==
    ASSUME NEW S, NEW s \in Seq(S), NEW t \in Seq(S), NEW e \in S
    PROVE  s \o Append(t, e) = Append(s \o t, e)
<1>1. s \o t \in Seq(S) /\ <<e>> \in Seq(S)
  OBVIOUS
<1>2. Append(t, e) = t \o <<e>>
  BY AppendIsConcat
<1>3. Append(s \o t, e) = (s \o t) \o <<e>>
  BY <1>1, AppendIsConcat
<1>4. s \o (t \o <<e>>) = (s \o t) \o <<e>>
  BY <1>1, ConcatAssociative
<1> QED
  BY <1>2, <1>3, <1>4

\* A token goes to the end of the batch.
LEMMA TokenShows ==
    ASSUME NEW o, GoodOverlay(o), NEW g \in Generation
    PROVE  /\ GoodOverlay(OnToken(o, g))
           /\ ShownOf(OnToken(o, g)) = Append(ShownOf(o), [by |-> g, whole |-> FALSE])
<1> DEFINE p == [by |-> g, whole |-> FALSE]
           x == OnToken(o, g)
<1>1. o.answer \in Seq(Piece) /\ o.batch \in Seq(Piece) /\ o \in OverlayRecord
  BY DEF GoodOverlay, OverlayRecord
<1>2. p \in Piece
  BY DEF Piece
<1>3. Append(o.batch, p) \in Seq(Piece)
  BY <1>1, <1>2
<1>4. x \in OverlayRecord /\ x.frame = TRUE /\ x.answer = o.answer /\ x.batch = Append(o.batch, p)
  BY <1>1, <1>3 DEF OnToken, OverlayRecord
<1> HIDE DEF p, x
<1>5. o.answer \o Append(o.batch, p) = Append(o.answer \o o.batch, p)
  <2> DEFINE a == o.answer
             b == o.batch
  <2>1. a \in Seq(Piece) /\ b \in Seq(Piece)
    BY <1>1
  <2> HIDE DEF a, b
  <2>2. a \o Append(b, p) = Append(a \o b, p)
    BY <1>2, <2>1, AppendBehind
  <2> QED
    BY <2>2 DEF a, b
<1>6. ShownOf(x) = Append(ShownOf(o), p)
  BY <1>4, <1>5 DEF ShownOf
<1>7. GoodOverlay(x)
  BY <1>4 DEF GoodOverlay
<1> QED
  BY <1>6, <1>7 DEF p, x

\* A whole answer is all that is left.
LEMMA CompleteShows ==
    ASSUME NEW o, GoodOverlay(o), NEW g \in Generation
    PROVE  /\ GoodOverlay(OnComplete(o, g))
           /\ ShownOf(OnComplete(o, g)) = Whole(g)
<1> DEFINE w == Whole(g)
           x == OnComplete(o, g)
<1>1. [by |-> g, whole |-> TRUE] \in Piece /\ o \in OverlayRecord /\ <<>> \in Seq(Piece)
  BY DEF Piece, GoodOverlay
<1>2. w \in Seq(Piece)
  BY <1>1 DEF Whole
<1>3. x = [o EXCEPT !.frame = FALSE, !.batch = <<>>, !.generating = FALSE, !.answer = w]
  BY DEF OnComplete
<1> HIDE DEF w, x
<1>4. x \in OverlayRecord /\ x.answer = w /\ x.batch = <<>>
  BY <1>1, <1>2, <1>3 DEF OverlayRecord
<1>5. ShownOf(x) = w
  BY <1>2, <1>4, ConcatEmptySeq DEF ShownOf
<1>6. GoodOverlay(x)
  BY <1>4 DEF GoodOverlay
<1> QED
  BY <1>5, <1>6 DEF w, x

-----------------------------------------------------------------------------
(* What the backend's steps do to the answers on their way *)

\* Generations that are over, and whether the newest is at it
Over == {g \in Generation : generations[g].at = "over"}
Running(g) == generations[g].at \notin {"unused", "over"}
Comes == generationSeq \in Generation /\ Running(generationSeq)

\* A new generation begins, and the others stay.
Begins ==
    /\ generationSeq \in Nat /\ generationSeq' = generationSeq + 1
    /\ generationSeq' \in Generation
    /\ generations[generationSeq'].at = "unused"
    /\ generations'[generationSeq'].at = "streaming"
    /\ \A g \in Generation \ {generationSeq'} : generations'[g] = generations[g]

\* Only one that streams is raced against the timer, and there is a question
\* once something was generated.
RacingInv ==
    /\ \A g \in Generation : calls[g].at = "racing" => generations[g].at = "streaming"
    /\ currentQuestion = NoQuestion => generationSeq = 0

\* What is known of the orchestrator's variables
LEMMA Shapes ==
    ASSUME TranscriptInv
    PROVE  /\ generationSeq \in Nat /\ generationSeq \in 0..MaxGenerations
           /\ MaxGenerations \in Nat
           /\ DOMAIN generations = Generation
           /\ \A g \in Generation : /\ GenerationShape(generations[g])
                                    /\ generations[g].at # "unused" => g <= generationSeq
           /\ rows \in Seq(RowRecord) /\ Len(rows) \in Nat
<1>1. /\ generationSeq \in 0..MaxGenerations /\ MaxGenerations \in Nat
      /\ DOMAIN generations = Generation
      /\ \A g \in Generation : GenerationShape(generations[g])
      /\ rows \in Seq(RowRecord) /\ Len(rows) \in Nat
  BY OrchestratorAssumption DEF TranscriptInv, ShapeInv
<1>2. \A g \in Generation : g \in Nat
  BY <1>1 DEF Generation
<1>3. \A g \in Generation : g > generationSeq => generations[g].at = "unused"
  BY DEF TranscriptInv, AnsweredInv
<1> QED
  BY <1>1, <1>2, <1>3

\* generate begins a generation.
LEMMA GenerateBegins ==
    ASSUME TranscriptInv, NEW q, NEW voided, Generate(q, voided)
    PROVE  Begins
<1> DEFINE new == generationSeq + 1
           r == [Unused EXCEPT !.at = "streaming", !.question = q,
                               !.context = PriorHistory(q), !.voided = voided]
<1>1. generationSeq \in Nat /\ MaxGenerations \in Nat /\ DOMAIN generations = Generation
  BY Shapes
<1>2. generationSeq' = new /\ new \in Generation
  BY <1>1 DEF Generate, Generation
<1>3. generations' = [generations EXCEPT ![new] = r]
  BY DEF Generate
<1>4. r.at = "streaming"
  BY DEF Unused
<1> HIDE DEF r
<1>5. generations[new].at = "unused"
  <2>1. new > generationSeq
    BY <1>1
  <2> QED
    BY <1>2, <2>1 DEF TranscriptInv, AnsweredInv
<1> QED
  BY <1>1, <1>2, <1>3, <1>4, <1>5 DEF Begins

\* A step begins a generation, or lets the newest be the newest.
LEMMA StepBegins ==
    ASSUME TranscriptInv, [Next]_vars
    PROVE  Begins \/ generationSeq' = generationSeq
<1>1. CASE \E q, voided : Generate(q, voided)
  BY <1>1, GenerateBegins
<1>2. CASE ~ \E q, voided : Generate(q, voided)
  BY <1>2 DEF Next, vars, HandleFinalQuestion, HandleQuestion, AnswerPending, SetAutoGenerate,
             Regenerate, NoGeneration, ProviderReturns, ReadMaxSeq, InsertRow, InsertRefused,
             AnswerComplete, Exhaust
<1> QED
  BY <1>1, <1>2

\* What is over stays as it is, and gets no row any more.
LEMMA OverStays ==
    ASSUME TranscriptInv, [Next]_vars, NEW g \in Generation, generations[g].at = "over"
    PROVE  generations'[g] = generations[g] /\ (HasRow(g)' => HasRow(g))
<1>1. DOMAIN generations = Generation /\ rows \in Seq(RowRecord) /\ Len(rows) \in Nat
  BY Shapes
<1>2. ASSUME NEW q, NEW voided, Generate(q, voided)
      PROVE  generations'[g] = generations[g]
  <2>1. Begins
    BY <1>2, GenerateBegins
  <2> QED
    BY <2>1 DEF Begins
<1>3. ASSUME NoGeneration PROVE generations'[g] = generations[g]
  BY <1>3 DEF NoGeneration
<1>4. ASSUME NEW h \in Generation, generations[h].at # "over", NEW stage, Go(h, stage)
      PROVE  generations'[g] = generations[g]
  BY <1>4, <1>1 DEF Go
<1>5. CASE \/ \E q \in Question \ {Screenshot} : HandleFinalQuestion(q)
           \/ \E q \in Question : HandleQuestion(q)
           \/ AnswerPending \/ Regenerate
           \/ \E enabled \in BOOLEAN : SetAutoGenerate(enabled)
  <2>1. rows' = rows
    BY <1>5 DEF HandleFinalQuestion, HandleQuestion, AnswerPending, Regenerate, SetAutoGenerate
  <2>2. generations'[g] = generations[g]
    BY <1>2, <1>3, <1>5
       DEF HandleFinalQuestion, HandleQuestion, AnswerPending, Regenerate, SetAutoGenerate
  <2> QED
    BY <2>1, <2>2 DEF HasRow
<1>6. CASE \E h \in Generation : ProviderReturns(h) \/ InsertRefused(h) \/ AnswerComplete(h)
  <2>1. rows' = rows
    BY <1>6 DEF ProviderReturns, InsertRefused, AnswerComplete
  <2>2. generations'[g] = generations[g]
    BY <1>4, <1>6 DEF ProviderReturns, InsertRefused, AnswerComplete
  <2> QED
    BY <2>1, <2>2 DEF HasRow
<1>7. CASE \E h \in Generation : ReadMaxSeq(h)
  BY <1>1, <1>7 DEF ReadMaxSeq, HasRow
<1>8. CASE \E h \in Generation : InsertRow(h)
  <2>1. PICK h \in Generation : InsertRow(h)
    BY <1>8
  <2> DEFINE row == [seq |-> generations[h].rowSeq, question |-> generations[h].question,
                     by |-> h]
  <2>2. generations[h].at = "inserting" /\ rows' = Append(rows, row) /\ Go(h, "appended")
    BY <2>1 DEF InsertRow
  <2>3. h # g /\ row.by = h
    BY <2>2
  <2> HIDE DEF row
  <2>4. /\ Len(rows') = Len(rows) + 1 /\ rows'[Len(rows) + 1] = row
        /\ \A n \in 1..Len(rows) : rows'[n] = rows[n]
    BY <1>1, <2>2
  <2>5. HasRow(g)' => HasRow(g)
    BY <1>1, <2>3, <2>4 DEF HasRow
  <2> QED
    BY <1>4, <2>2, <2>5
<1>9. CASE Exhaust \/ UNCHANGED vars
  BY <1>9 DEF Exhaust, vars, HasRow
<1> QED
  BY <1>5, <1>6, <1>7, <1>8, <1>9 DEF Next

\* A refused row, in the words of the proofs
LEMMA RefusedRow ==
    ASSUME TranscriptInv
    PROVE  Refused <=> \E g \in Generation : /\ generations[g].at = "over"
                                             /\ generations[g].rowSeq > 0
                                             /\ ~HasRow(g)
<1>1. DOMAIN rows = 1..Len(rows)
  BY Shapes
<1> QED
  BY <1>1 DEF Refused, HasRow

\* Generations get no younger, and excuses stay.
LEMMA Progress ==
    ASSUME TranscriptInv, [Next]_vars
    PROVE  /\ generationSeq' \in Nat /\ generationSeq <= generationSeq'
           /\ Over \subseteq Over'
           /\ Excused => Excused'
<1>1. TranscriptInv'
  BY TranscriptStep
<1>2. generationSeq \in Nat /\ generationSeq' \in Nat
  BY <1>1, Shapes DEF TranscriptInv, ShapeInv
<1>3. generationSeq <= generationSeq'
  BY <1>2, StepBegins DEF Begins
<1>4. Over \subseteq Over'
  BY OverStays DEF Over
<1>5. ~alive => ~alive'
  BY DEF Next, vars
<1>6. exhausted => exhausted'
  BY DEF Next, vars, HandleFinalQuestion, HandleQuestion, AnswerPending, SetAutoGenerate,
         Regenerate, ProviderReturns, ReadMaxSeq, InsertRow, InsertRefused,
         AnswerComplete, Exhaust
<1>7. Refused => Refused'
  <2> SUFFICES ASSUME Refused PROVE Refused'
    OBVIOUS
  <2>1. PICK g \in Generation : /\ generations[g].at = "over"
                                /\ generations[g].rowSeq > 0 /\ ~HasRow(g)
    BY RefusedRow
  <2>2. generations'[g] = generations[g] /\ ~HasRow(g)'
    BY <2>1, OverStays
  <2>3. rows' \in Seq(RowRecord)
    BY <1>1 DEF TranscriptInv, ShapeInv
  <2>4. ASSUME NEW i \in DOMAIN rows' PROVE rows'[i].by # g
    BY <2>2, <2>3, <2>4 DEF HasRow
  <2> QED
    BY <2>1, <2>2, <2>4 DEF Refused
<1> QED
  BY <1>2, <1>3, <1>4, <1>5, <1>6, <1>7 DEF Excused

\* The message ends its generation, and it decides what becomes of the newest
\* request when n is the newest.
Ends(m) == m.kind \in {"complete", "error"}
Decisive(m, n) == m.kind = "complete" \/ (m.kind = "error" /\ m.by = n)

\* Commands that ask, and those that ask for something new
Asks(q) == \E i \in 1..Len(q) : q[i].kind # "auto"
Requests(q) == \E i \in 1..Len(q) : q[i].kind \in {"text", "screenshot"}

\* A message is sent: a token or an error by the newest generation, or an
\* answer of one that is over.
Sends(m) ==
    /\ inbox' = Append(inbox, m)
    /\ m.kind = "token" => Comes' /\ m.by = generationSeq' /\ m.by \notin Over'
    /\ m.kind = "error" => m.by = generationSeq'
    /\ m.kind = "complete" => m.by \in Over'
    /\ answers' = IF m.kind = "complete" THEN Append(answers, m.by) ELSE answers

\* What a step of the backend sends, and that it loses no answer on its way.
Effects ==
    /\ UNCHANGED <<overlay, shots>>
    /\ UNCHANGED <<inbox, answers>> \/ \E m \in Message : Sends(m)
    /\ Comes => Comes' \/ Excused' \/ \E m \in Message : Ends(m) /\ Sends(m)
    /\ generationSeq' = generationSeq \/ Comes'
    /\ Asks(outbox) => Asks(outbox)' \/ Comes' \/ Excused' \/ generationSeq' = 0
    /\ Requests(outbox) => Requests(outbox)' \/ Comes' \/ Excused'
    /\ RacingInv'

\* A generation that begins is coming.
LEMMA BeginsComes == ASSUME Begins PROVE Comes'
BY DEF Begins, Comes, Running

\* The question is there when the newest generation begins.
LEMMA QuestionThere ==
    ASSUME RacingInv, [Next]_vars
    PROVE  currentQuestion' = NoQuestion => generationSeq' = 0
<1>1. NoQuestion \notin Question
  BY OrchestratorAssumption
<1>2. currentQuestion' = NoQuestion => currentQuestion = NoQuestion
  BY <1>1 DEF Next, vars, HandleFinalQuestion, HandleQuestion, AnswerPending, SetAutoGenerate,
              Regenerate, ProviderReturns, ReadMaxSeq, InsertRow, InsertRefused,
              AnswerComplete, Exhaust
<1>3. currentQuestion' = NoQuestion => generationSeq' = generationSeq
  BY <1>1, <1>2
     DEF Next, vars, HandleFinalQuestion, HandleQuestion, AnswerPending, SetAutoGenerate,
         CanAnswerPending, NoGeneration, Regenerate, ProviderReturns, ReadMaxSeq, InsertRow,
         InsertRefused, AnswerComplete, Exhaust
<1> QED
  BY <1>2, <1>3 DEF RacingInv

\* A step that may begin a generation, with its call
LEMMA StartEffects ==
    ASSUME StreamTypes, TranscriptInv, RacingInv, [Next]_vars, NEW image \in BOOLEAN,
           StartsCall(image), Begins \/ UNCHANGED <<generationSeq, generations>>,
           UNCHANGED <<inbox, answers, shots, overlay>>,
           Asks(outbox) => Asks(outbox)' \/ Begins \/ exhausted' \/ generationSeq' = 0,
           Requests(outbox) => Requests(outbox)' \/ Begins \/ exhausted'
    PROVE  Effects
<1>1. Comes => Comes'
  BY BeginsComes DEF Comes, Running
<1>2. generationSeq' = generationSeq \/ Comes'
  BY BeginsComes
<1>3. \A g \in Generation : calls'[g].at = "racing" => generations'[g].at = "streaming"
  <2>1. DOMAIN calls = Generation
    BY StreamAssumption DEF StreamTypes, StreamTypeOK, CallsTypeOK
  <2>2. CASE Begins
    <3>1. generationSeq' > generationSeq
      BY <2>2 DEF Begins
    <3>2. StartCall(generationSeq', image)
      BY <3>1 DEF StartsCall
    <3>3. \A g \in Generation \ {generationSeq'} : calls'[g] = calls[g]
      BY <2>1, <3>2 DEF StartCall
    <3> QED
      BY <2>2, <3>3 DEF Begins, RacingInv
  <2>3. CASE UNCHANGED <<generationSeq, generations>>
    <3>1. generationSeq \in Nat
      BY Shapes
    <3>2. ~(generationSeq' > generationSeq)
      BY <2>3, <3>1
    <3>3. UNCHANGED calls
      BY <3>2 DEF StartsCall, provVars
    <3> QED
      BY <2>3, <3>3 DEF RacingInv
  <2> QED
    BY <2>2, <2>3
<1>4. RacingInv'
  BY <1>3, QuestionThere DEF RacingInv
<1> QED
  BY <1>1, <1>2, <1>4, BeginsComes DEF Effects, Excused

\* A spoken question
LEMMA SpokenEffects ==
    ASSUME StreamTypes, TranscriptInv, RacingInv, [Next]_vars,
           NEW q \in Question, SpokenQuestion(q)
    PROVE  Effects
<1>1. /\ StartsCall(FALSE) /\ UNCHANGED <<inbox, outbox, answers, shots, overlay>>
      /\ HandleFinalQuestion(q)
  BY DEF SpokenQuestion, uiVars, HandleFinalQuestion
<1>2. Begins \/ UNCHANGED <<generationSeq, generations>>
  BY <1>1, GenerateBegins DEF HandleFinalQuestion, NoGeneration
<1>3. (Asks(outbox) => Asks(outbox)') /\ (Requests(outbox) => Requests(outbox)')
  BY <1>1 DEF Asks, Requests
<1> QED
  BY <1>1, <1>2, <1>3, StartEffects

\* A command: the first one is served, those behind it wait.
LEMMA CommandEffects ==
    ASSUME StreamTypes, TranscriptInv, RacingInv, [Next]_vars, HandleCommand
    PROVE  Effects
<1> DEFINE c == Head(outbox)
<1>1. /\ outbox # <<>> /\ Serve(c) /\ StartsCall(c.kind = "screenshot")
      /\ outbox' = Tail(outbox) /\ UNCHANGED <<inbox, shots, overlay>>
  BY DEF HandleCommand
<1>2. /\ Len(outbox) \in Nat \ {0} /\ c = outbox[1]
      /\ Len(outbox') = Len(outbox) - 1
      /\ \A i \in 1..Len(outbox') : outbox'[i] = outbox[i + 1]
  BY <1>1, FirstCommand DEF StreamTypes
<1> HIDE DEF c
<1>3. ASSUME NEW K, NEW i \in 1..Len(outbox), outbox[i].kind \in K
      PROVE  c.kind \in K \/ \E k \in 1..Len(outbox') : outbox'[k].kind \in K
  <2>1. CASE i = 1
    BY <1>2, <1>3, <2>1
  <2>2. CASE i # 1
    <3>1. i - 1 \in 1..Len(outbox') /\ (i - 1) + 1 = i
      BY <1>2, <2>2
    <3>2. outbox'[i - 1].kind \in K
      BY <1>2, <1>3, <3>1
    <3> QED
      BY <3>1, <3>2
  <2> QED
    BY <2>1, <2>2
<1>4. Asks(outbox) => c.kind # "auto" \/ Asks(outbox)'
  <2>1. \A k \in 1..Len(outbox) : outbox[k].kind \in {"text", "screenshot", "regenerate", "auto"}
    <3>1. outbox \in Seq(Command)
      BY DEF StreamTypes, StreamTypeOK
    <3>2. \A x \in Command : x.kind \in {"text", "screenshot", "regenerate", "auto"}
      BY DEF Command
    <3> QED
      BY <3>1, <3>2
  <2>2. ASSUME NEW i \in 1..Len(outbox), outbox[i].kind # "auto"
        PROVE  c.kind # "auto" \/ Asks(outbox)'
    <3> DEFINE K == {"text", "screenshot", "regenerate"}
    <3>1. outbox[i].kind \in K
      BY <2>1, <2>2
    <3>2. \A k \in K : k # "auto"
      OBVIOUS
    <3> HIDE DEF K
    <3>3. c.kind \in K \/ \E k \in 1..Len(outbox') : outbox'[k].kind \in K
      BY <1>3, <3>1
    <3> QED
      BY <3>2, <3>3 DEF Asks
  <2> QED
    BY <2>2 DEF Asks
<1>5. Requests(outbox) => c.kind \in {"text", "screenshot"} \/ Requests(outbox)'
  BY <1>3 DEF Requests
<1>6. CASE Ignored(c) /\ UNCHANGED vars
  <2>1. UNCHANGED <<generationSeq, generations, answers>>
    BY <1>6 DEF vars
  <2>2. c.kind # "auto" => exhausted' \/ generationSeq' = 0
    BY <1>6 DEF Ignored, vars, RacingInv
  <2>3. c.kind \in {"text", "screenshot"} => exhausted'
    BY <1>6 DEF Ignored, vars
  <2> QED
    BY <1>1, <1>4, <1>5, <2>1, <2>2, <2>3, StartEffects
<1>7. CASE \/ c.kind \in {"text", "screenshot"} /\ HandleQuestion(c.question)
           \/ c.kind = "regenerate" /\ Regenerate
  <2>1. Begins /\ answers' = answers
    BY <1>7, GenerateBegins DEF HandleQuestion, Regenerate
  <2> QED
    BY <1>1, <2>1, StartEffects
<1>8. CASE c.kind = "auto" /\ SetAutoGenerate(c.on)
  <2>1. Begins \/ UNCHANGED <<generationSeq, generations>>
    BY <1>8, GenerateBegins DEF SetAutoGenerate, NoGeneration
  <2>2. answers' = answers
    BY <1>8 DEF SetAutoGenerate
  <2> QED
    BY <1>1, <1>4, <1>5, <1>8, <2>1, <2>2, StartEffects
<1> QED
  BY <1>1, <1>6, <1>7, <1>8 DEF Serve

\* A chunk of the newest generation is sent.
LEMMA TokenEffects ==
    ASSUME StreamTypes, TranscriptInv, RacingInv, [Next]_vars, NEW g \in Generation, Token(g)
    PROVE  Effects
<1>1. /\ Chunk(g) /\ UNCHANGED vars /\ UNCHANGED <<outbox, shots, overlay>>
      /\ IF Newest(g) THEN Send("token", g) ELSE UNCHANGED inbox
  BY DEF Token, uiVars
<1>2. UNCHANGED <<generationSeq, generations, alive, exhausted, currentQuestion, answers>>
  BY <1>1 DEF vars
<1>3. calls[g].at = "racing" /\ generations[g].at = "streaming"
  BY <1>1 DEF Chunk, Streams, RacingInv
<1>4. \A h \in Generation : calls'[h].at = calls[h].at
  <2>1. calls \in [Generation -> Call]
    BY StreamAssumption DEF StreamTypes, StreamTypeOK, CallsTypeOK
  <2> QED
    BY <1>1, <2>1 DEF Chunk, Call
<1>5. RacingInv'
  BY <1>2, <1>4 DEF RacingInv
<1>6. UNCHANGED <<inbox, answers>> \/ \E m \in Message : Sends(m)
  <2>1. CASE Newest(g)
    <3> DEFINE m == [kind |-> "token", by |-> g]
    <3>1. m \in Message /\ inbox' = Append(inbox, m) /\ m.kind = "token" /\ m.by = g
      BY <1>1, <2>1 DEF Send, Message
    <3> HIDE DEF m
    <3>2. Comes' /\ g = generationSeq' /\ g \notin Over'
      BY <1>2, <1>3, <2>1 DEF Newest, Comes, Running, Over
    <3> QED
      BY <1>2, <3>1, <3>2 DEF Sends
  <2>2. CASE ~Newest(g)
    BY <1>1, <1>2, <2>2
  <2> QED
    BY <2>1, <2>2
<1>7. /\ Comes => Comes'
      /\ Asks(outbox) => Asks(outbox)'
      /\ Requests(outbox) => Requests(outbox)'
  BY <1>1, <1>2 DEF Comes, Running, Asks, Requests
<1> QED
  BY <1>1, <1>2, <1>5, <1>6, <1>7 DEF Effects

\* The provider returns: only the newest goes on, and if it fails it is told.
LEMMA ProviderEffects ==
    ASSUME StreamTypes, TranscriptInv, RacingInv, [Next]_vars, NEW g \in Generation,
           ProviderAnswers(g)
    PROVE  Effects
<1>1. /\ ProviderReturns(g) /\ UNCHANGED <<outbox, shots, overlay>>
      /\ (generations'[g].at = "appending") = (calls'[g].outcome = "ok" /\ Newest(g))
      /\ IF Newest(g) /\ calls'[g].outcome # "ok" THEN Send("error", g) ELSE UNCHANGED inbox
  BY DEF ProviderAnswers, uiVars
<1>2. PICK stage \in {"appending", "over"} : Go(g, stage)
  BY <1>1 DEF ProviderReturns
<1>3. /\ UNCHANGED <<generationSeq, currentQuestion, answers>>
      /\ generations[g].at = "streaming"
  BY <1>1 DEF ProviderReturns
<1>4. /\ generations'[g].at = stage
      /\ \A h \in Generation \ {g} : generations'[h] = generations[h]
  BY <1>2, Shapes DEF Go, GenerationShape
<1>5. RacingInv'
  <2>1. PICK state \in CallState \ {"racing"}, outcome \in Outcome : Settles(g, state, outcome)
    BY AnswerSettles
  <2>2. calls \in [Generation -> Call]
    BY StreamAssumption DEF StreamTypes, StreamTypeOK, CallsTypeOK
  <2>3. /\ calls'[g].at # "racing"
        /\ \A h \in Generation \ {g} : calls'[h] = calls[h]
    BY <2>1, <2>2 DEF Settles, Call
  <2> QED
    BY <1>3, <1>4, <2>3 DEF RacingInv
<1> DEFINE m == [kind |-> "error", by |-> g]
<1>6. m \in Message /\ m.kind = "error" /\ m.by = g
  BY DEF Message
<1>7. Send("error", g) => inbox' = Append(inbox, m)
  BY DEF Send
<1> HIDE DEF m
<1>8. inbox' = inbox \/ Sends(m)
  BY <1>1, <1>3, <1>6, <1>7 DEF Sends, Newest
<1>9. Comes => Comes' \/ Sends(m)
  <2> SUFFICES ASSUME Comes PROVE Comes' \/ Sends(m)
    OBVIOUS
  <2>1. CASE ~Newest(g)
    BY <1>3, <1>4, <2>1 DEF Newest, Comes, Running
  <2>2. CASE Newest(g) /\ stage = "appending"
    BY <1>3, <1>4, <2>2 DEF Newest, Comes, Running
  <2>3. CASE Newest(g) /\ stage = "over"
    <3>1. calls'[g].outcome # "ok"
      BY <1>1, <1>4, <2>3
    <3> QED
      BY <1>1, <1>3, <1>6, <1>7, <2>3, <3>1 DEF Sends, Newest
  <2> QED
    BY <2>1, <2>2, <2>3
<1>10. (Asks(outbox) => Asks(outbox)') /\ (Requests(outbox) => Requests(outbox)')
  BY <1>1 DEF Asks, Requests
<1> QED
  BY <1>1, <1>3, <1>5, <1>6, <1>8, <1>9, <1>10 DEF Effects, Ends

\* Persisting: a refused row is an excuse, and a complete answer is told.
LEMMA PersistEffects ==
    ASSUME StreamTypes, TranscriptInv, RacingInv, [Next]_vars, NEW g \in Generation, Persist(g)
    PROVE  Effects
<1>1. /\ UNCHANGED provVars /\ UNCHANGED <<outbox, shots, overlay>>
      /\ \/ (ReadMaxSeq(g) \/ InsertRow(g) \/ InsertRefused(g)) /\ UNCHANGED inbox
         \/ AnswerComplete(g) /\ Send("complete", g)
  BY DEF Persist, uiVars
<1>2. /\ UNCHANGED <<generationSeq, currentQuestion>>
      /\ generations[g].at \in {"appending", "inserting", "appended"}
  BY <1>1 DEF ReadMaxSeq, InsertRow, InsertRefused, AnswerComplete
<1>3. \A h \in Generation \ {g} : generations'[h] = generations[h]
  BY <1>1, Shapes DEF ReadMaxSeq, InsertRow, InsertRefused, AnswerComplete, Go
<1>4. RacingInv'
  BY <1>1, <1>2, <1>3 DEF RacingInv, provVars
<1>5. (Asks(outbox) => Asks(outbox)') /\ (Requests(outbox) => Requests(outbox)')
  BY <1>1 DEF Asks, Requests
<1>6. ASSUME generations'[g].at # "over" PROVE Comes => Comes'
  <2>1. generations'[g].at # "unused"
    BY <1>1, <1>6, Shapes
       DEF ReadMaxSeq, InsertRow, InsertRefused, AnswerComplete, Go, GenerationShape
  <2> QED
    BY <1>2, <1>3, <1>6, <2>1 DEF Comes, Running
<1>7. CASE (ReadMaxSeq(g) \/ InsertRow(g)) /\ UNCHANGED inbox
  <2>1. generations'[g].at # "over"
    BY <1>7, Shapes DEF ReadMaxSeq, InsertRow, Go, GenerationShape
  <2>2. answers' = answers
    BY <1>7 DEF ReadMaxSeq, InsertRow
  <2> QED
    BY <1>1, <1>2, <1>4, <1>5, <1>6, <1>7, <2>1, <2>2 DEF Effects
<1>8. CASE InsertRefused(g) /\ UNCHANGED inbox
  <2>1. /\ generations[g].at = "inserting" /\ generations'[g].at = "over"
        /\ generations'[g].rowSeq = generations[g].rowSeq /\ rows' = rows
    BY <1>8, Shapes DEF InsertRefused, Go, GenerationShape
  <2>2. generations[g].rowSeq > 0
    BY <2>1, Shapes DEF TranscriptInv, SeqReadInv
  <2>3. ~HasRow(g)
    BY <2>1 DEF TranscriptInv, RowsInv, HasRow
  <2>4. Refused'
    BY <2>1, <2>2, <2>3, Shapes DEF Refused, HasRow
  <2>5. answers' = answers
    BY <1>8 DEF InsertRefused
  <2> QED
    BY <1>1, <1>2, <1>4, <1>5, <1>8, <2>4, <2>5 DEF Effects, Excused
<1>9. CASE AnswerComplete(g) /\ Send("complete", g)
  <2> DEFINE m == [kind |-> "complete", by |-> g]
  <2>1. m \in Message /\ m.kind = "complete" /\ m.by = g /\ inbox' = Append(inbox, m)
    BY <1>9 DEF Message, Send
  <2> HIDE DEF m
  <2>2. generations'[g].at = "over"
    BY <1>9, Shapes DEF AnswerComplete, Go, GenerationShape
  <2>3. m.by \in Over' /\ answers' = Append(answers, m.by)
    BY <1>9, <2>1, <2>2 DEF Over, AnswerComplete
  <2>4. Sends(m) /\ Ends(m)
    BY <2>1, <2>3 DEF Sends, Ends
  <2> QED
    BY <1>1, <1>2, <1>4, <1>5, <2>1, <2>4 DEF Effects
<1> QED
  BY <1>1, <1>7, <1>8, <1>9

\* Every step of the backend
LEMMA BackendEffects ==
    ASSUME StreamTypes, TranscriptInv, RacingInv, [Next]_vars, BackendStep
    PROVE  Effects
<1>1. CASE \E q \in Question \ {Screenshot} : SpokenQuestion(q)
  BY <1>1, SpokenEffects
<1>2. CASE HandleCommand
  BY <1>2, CommandEffects
<1>3. CASE \E g \in Generation : Token(g) \/ ProviderAnswers(g) \/ Persist(g)
  BY <1>3, TokenEffects, ProviderEffects, PersistEffects
<1>4. CASE StreamExhaust
  <2>1. /\ UNCHANGED <<generationSeq, generations, currentQuestion, calls, inbox, outbox,
                       answers, shots, overlay>>
    BY <1>4 DEF StreamExhaust, Exhaust, provVars, uiVars
  <2> QED
    BY <2>1 DEF Effects, RacingInv, Comes, Running, Asks, Requests
<1>5. CASE \E g \in Generation : AbandonedStream(g)
  <2>1. PICK g \in Generation : AbandonedStream(g)
    BY <1>5
  <2>2. UNCHANGED <<generationSeq, generations, currentQuestion, answers, inbox, outbox, shots,
                    overlay>>
    BY <2>1 DEF AbandonedStream, vars, uiVars
  <2>3. calls \in [Generation -> Call]
    BY StreamAssumption DEF StreamTypes, StreamTypeOK, CallsTypeOK
  <2>4. \A h \in Generation : calls'[h].at = "racing" => calls[h].at = "racing"
    BY <2>1, <2>3 DEF AbandonedStream, AbandonedEnds, Call
  <2>5. RacingInv'
    BY <2>2, <2>4 DEF RacingInv
  <2> QED
    BY <2>2, <2>5 DEF Effects, Comes, Running, Asks, Requests
<1> QED
  BY <1>1, <1>2, <1>3, <1>4, <1>5 DEF BackendStep

\* What is over gets no chunk any more.
LEMMA ChunksStay ==
    ASSUME StreamTypes, TranscriptInv, RacingInv, BackendStep, NEW g \in Over
    PROVE  calls'[g].chunks = calls[g].chunks
<1>1. /\ calls \in [Generation -> Call] /\ g \in Generation /\ generations[g].at = "over"
      /\ calls[g].at # "racing"
  BY StreamAssumption DEF StreamTypes, StreamTypeOK, CallsTypeOK, Over, RacingInv
<1>2. ASSUME NEW image, StartsCall(image), Begins \/ generationSeq' = generationSeq
      PROVE  calls'[g].chunks = calls[g].chunks
  <2>1. CASE generationSeq' > generationSeq
    <3>1. generationSeq \in Nat
      BY Shapes
    <3>2. Begins
      BY <1>2, <2>1, <3>1
    <3>3. g # generationSeq'
      BY <1>1, <3>2 DEF Begins
    <3> QED
      BY <1>1, <1>2, <2>1, <3>3 DEF StartsCall, StartCall
  <2>2. CASE ~(generationSeq' > generationSeq)
    BY <1>2, <2>2 DEF StartsCall, provVars
  <2> QED
    BY <2>1, <2>2
<1>3. CASE \E q \in Question \ {Screenshot} : SpokenQuestion(q)
  BY <1>2, <1>3, GenerateBegins DEF SpokenQuestion, HandleFinalQuestion, NoGeneration
<1>4. CASE HandleCommand
  <2>1. Begins \/ generationSeq' = generationSeq
    BY <1>4, GenerateBegins
       DEF HandleCommand, Serve, vars, HandleQuestion, Regenerate, SetAutoGenerate, NoGeneration
  <2> QED
    BY <1>2, <1>4, <2>1 DEF HandleCommand
<1>5. ASSUME NEW h \in Generation, Token(h)
      PROVE  calls'[g].chunks = calls[g].chunks
  <2>1. calls[h].at = "racing" /\ calls' = [calls EXCEPT ![h].chunks = @ + 1]
    BY <1>5 DEF Token, Chunk, Streams
  <2> QED
    BY <1>1, <2>1
<1>6. ASSUME NEW h \in Generation, ProviderAnswers(h)
      PROVE  calls'[g].chunks = calls[g].chunks
  <2>1. calls[h].at = "racing" /\ \E c : calls' = [calls EXCEPT ![h] = c]
    BY <1>6, AnswerSettles DEF Settles
  <2> QED
    BY <1>1, <2>1
<1>7. ASSUME NEW h \in Generation, AbandonedStream(h)
      PROVE  calls'[g].chunks = calls[g].chunks
  BY <1>1, <1>7 DEF AbandonedStream, AbandonedEnds, Call
<1>8. CASE StreamExhaust \/ \E h \in Generation : Persist(h)
  BY <1>8 DEF StreamExhaust, Persist, provVars
<1> QED
  BY <1>3, <1>4, <1>5, <1>6, <1>7, <1>8 DEF BackendStep

\* An answer without text that was the last one stays so until the next.
LEMMA LastStays ==
    ASSUME StreamTypes, TranscriptInv, RacingInv, BackendStep, LastIsEmpty, answers' = answers
    PROVE  LastIsEmpty'
<1>1. answers \in Seq(Generation) /\ answers # <<>> /\ Last(answers) = answers[Len(answers)]
  BY DEF TranscriptInv, ShapeInv, LastIsEmpty, Last
<1>2. Len(answers) \in 1..Len(answers)
  BY <1>1
<1>3. Last(answers) \in Over
  BY <1>1, <1>2 DEF TranscriptInv, AnsweredInv, Over
<1> QED
  BY <1>3, ChunksStay DEF LastIsEmpty

-----------------------------------------------------------------------------
(* What the Overlay shows, and what it waits for *)

CardInv == Card(ShownOf(overlay), inbox, generationSeq, Over)

Decides(q, n) == \E i \in 1..Len(q) : Decisive(q[i], n)

\* Every message is of a generation there is, and unless something comes or the
\* session cannot answer, one that decides is among those behind it.
OnTheWay ==
    \A i \in 1..Len(inbox) :
        /\ inbox[i].by <= generationSeq
        /\ Excused \/ Comes \/ \E j \in i..Len(inbox) : Decisive(inbox[j], generationSeq)

\* The last answer on its way is the last there is.
LastIsTold ==
    \A i \in 1..Len(inbox) : inbox[i].kind = "complete" =>
        /\ answers # <<>>
        /\ \/ inbox[i].by = Last(answers)
           \/ \E j \in 1..Len(inbox) : i < j /\ inbox[j].kind = "complete"

\* The Overlay is owed what it asked for, and may hope for what comes.
Owed == overlay.asked > 0 \/ Asks(outbox)
Hope == Excused \/ Comes \/ Decides(inbox, generationSeq) \/ Owed \/ generationSeq = 0

\* Who generates hopes; a card that shows waiting hopes, has text in its batch,
\* or shows what became of the newest request; and before there is any
\* generation a card is there because something new was asked for, or failed.
Waits ==
    /\ overlay.mounted /\ overlay.generating => Hope
    /\ ShowsWaiting => Hope \/ overlay.batch # <<>> \/ FailureShown \/ LastIsEmpty
    /\ overlay.mounted /\ HasAnswerPanel /\ generationSeq = 0 =>
          Excused \/ FailureShown \/ overlay.asked > 0 \/ Requests(outbox)

WaitInv == OnTheWay /\ LastIsTold /\ Waits

\* Appending a message
LEMMA Appended ==
    ASSUME NEW q \in Seq(Message), NEW m \in Message
    PROVE  /\ Append(q, m) \in Seq(Message) /\ Len(q) \in Nat
           /\ Len(Append(q, m)) = Len(q) + 1 /\ Append(q, m)[Len(q) + 1] = m
           /\ \A i \in 1..Len(q) : Append(q, m)[i] = q[i]
           /\ \A i \in 1..Len(q) + 1 : i \in 1..Len(q) \/ i = Len(q) + 1
<1>1. /\ Append(q, m) \in Seq(Message) /\ Len(q) \in Nat
      /\ Len(Append(q, m)) = Len(q) + 1 /\ Append(q, m)[Len(q) + 1] = m
      /\ \A i \in 1..Len(q) : Append(q, m)[i] = q[i]
  OBVIOUS
<1>2. \A n \in Nat : \A i \in 1..n + 1 : i \in 1..n \/ i = n + 1
  OBVIOUS
<1> QED
  BY <1>1, <1>2

\* The backend's steps leave the card in order.
LEMMA EffectsKeepCard ==
    ASSUME TranscriptInv, [Next]_vars, CardInv, Effects
    PROVE  CardInv'
<1> DEFINE s == ShownOf(overlay)
<1>1. s \in Seq(Piece) /\ inbox \in Seq(Message) /\ Card(s, inbox, generationSeq, Over)
  BY DEF CardInv, Card
<1>2. ShownOf(overlay)' = s
  BY DEF Effects, ShownOf
<1>3. EndOf(s, s, 0) /\ EndOf(inbox, inbox, 0)
  BY <1>1 DEF EndOf
<1> HIDE DEF s
<1>4. Card(s, inbox, generationSeq', Over')
  <2>1. generationSeq \in Nat /\ 0 \in Nat
    BY Shapes
  <2> QED
    BY <1>1, <1>3, <2>1, Progress, CardLoses
<1>5. CASE inbox' = inbox
  BY <1>2, <1>4, <1>5 DEF CardInv
<1>6. CASE inbox' # inbox
  <2>1. PICK m \in Message : /\ inbox' = Append(inbox, m)
                             /\ m.kind = "token" => m.by = generationSeq' /\ m.by \notin Over'
                             /\ m.kind = "complete" => m.by \in Over'
    BY <1>6 DEF Effects, Sends
  <2>2. generationSeq' \in Nat
    BY Progress
  <2>3. Card(s, Append(inbox, m), generationSeq', Over')
    BY <1>4, <2>1, <2>2, CardIsSent
  <2> QED
    BY <1>2, <2>1, <2>3 DEF CardInv
<1> QED
  BY <1>5, <1>6

\* They leave nobody waiting for nothing.
LEMMA EffectsKeepWait ==
    ASSUME StreamTypes, TranscriptInv, [Next]_vars, WaitInv, Effects,
           LastIsEmpty /\ answers' = answers => LastIsEmpty'
    PROVE  WaitInv'
<1>1. /\ inbox \in Seq(Message) /\ Len(inbox) \in Nat /\ UNCHANGED <<overlay, shots>>
      /\ \A i \in 1..Len(inbox) : inbox[i].by \in Nat
  BY Numbered DEF StreamTypes, StreamTypeOK, Effects
<1>2. /\ generationSeq \in Nat /\ generationSeq' \in Nat /\ generationSeq <= generationSeq'
      /\ Excused => Excused'
      /\ answers \in Seq(Generation)
  BY Shapes, Progress DEF TranscriptInv, ShapeInv
<1>3. \A i \in 1..Len(inbox) : i \in 1..Len(inbox') /\ inbox'[i] = inbox[i]
  <2>1. CASE inbox' = inbox
    BY <2>1
  <2>2. CASE inbox' # inbox
    <3>1. PICK m \in Message : inbox' = Append(inbox, m)
      BY <2>2 DEF Effects, Sends
    <3> QED
      BY <1>1, <3>1, Appended
  <2> QED
    BY <2>1, <2>2
<1>4. \A m : Decisive(m, generationSeq) => Decisive(m, generationSeq') \/ Comes'
  BY DEF Decisive, Effects
<1>5. ASSUME NEW m \in Message, Sends(m)
      PROVE  /\ Len(inbox') = Len(inbox) + 1 /\ inbox'[Len(inbox) + 1] = m
             /\ Len(inbox) + 1 \in 1..Len(inbox')
             /\ \A i \in 1..Len(inbox') : i \in 1..Len(inbox) \/ i = Len(inbox) + 1
             /\ m.by <= generationSeq'
             /\ m.kind = "token" \/ Decisive(m, generationSeq')
  <2>1. /\ Len(inbox') = Len(inbox) + 1 /\ inbox'[Len(inbox) + 1] = m
        /\ \A i \in 1..Len(inbox) + 1 : i \in 1..Len(inbox) \/ i = Len(inbox) + 1
    BY <1>1, <1>5, Appended DEF Sends
  <2>2. Len(inbox) + 1 \in 1..Len(inbox')
    BY <1>1, <2>1
  <2>3. m.kind \in {"token", "complete", "error"} /\ m.by \in Generation /\ m.by \in Nat
    BY OrchestratorAssumption DEF Message, Generation
  <2>4. m.by \in Over' => m.by <= generationSeq'
    <3>1. TranscriptInv'
      BY TranscriptStep
    <3>2. m.by > generationSeq' => generations'[m.by].at = "unused"
      BY <2>3, <3>1 DEF TranscriptInv, AnsweredInv
    <3> QED
      BY <1>2, <2>3, <3>2 DEF Over
  <2>5. m.by <= generationSeq'
    BY <1>2, <1>5, <2>3, <2>4 DEF Sends
  <2>6. m.kind = "token" \/ Decisive(m, generationSeq')
    BY <1>5, <2>3 DEF Sends, Decisive
  <2> QED
    BY <2>1, <2>2, <2>5, <2>6
<1>6. ASSUME Comes, ~Comes', ~Excused'
      PROVE  /\ Len(inbox) + 1 \in 1..Len(inbox')
             /\ Decisive(inbox'[Len(inbox) + 1], generationSeq')
  <2>1. PICK m \in Message : Ends(m) /\ Sends(m)
    BY <1>6 DEF Effects
  <2> QED
    BY <1>5, <2>1 DEF Ends
<1>7. OnTheWay'
  <2>1. ASSUME NEW i \in 1..Len(inbox)
        PROVE  /\ inbox'[i].by <= generationSeq'
               /\ \/ Excused' \/ Comes'
                  \/ \E j \in i..Len(inbox') : Decisive(inbox'[j], generationSeq')
    <3>1. inbox[i].by <= generationSeq /\ inbox[i].by \in Nat
      BY <1>1 DEF WaitInv, OnTheWay
    <3>2. inbox'[i].by <= generationSeq'
      BY <1>2, <1>3, <3>1
    <3>3. CASE Comes
      <4>1. \A k \in 1..Len(inbox') : k >= i => k \in i..Len(inbox')
        BY <1>1
      <4>2. Len(inbox) + 1 >= i
        BY <1>1
      <4> QED
        BY <1>6, <3>2, <3>3, <4>1, <4>2
    <3>4. CASE \E j \in i..Len(inbox) : Decisive(inbox[j], generationSeq)
      <4>1. PICK j \in i..Len(inbox) : Decisive(inbox[j], generationSeq)
        BY <3>4
      <4>2. j \in 1..Len(inbox) /\ j >= i
        BY <1>1
      <4>3. inbox'[j] = inbox[j] /\ j \in 1..Len(inbox')
        BY <1>3, <4>2
      <4>4. j \in i..Len(inbox')
        BY <4>2, <4>3
      <4> QED
        BY <1>4, <3>2, <4>1, <4>3, <4>4
    <3> QED
      BY <1>2, <3>2, <3>3, <3>4 DEF WaitInv, OnTheWay
  <2>2. CASE inbox' = inbox
    BY <2>1, <2>2 DEF OnTheWay
  <2>3. CASE inbox' # inbox
    <3>1. PICK m \in Message : Sends(m)
      BY <2>3 DEF Effects
    <3>2. m.kind = "token" => Comes'
      BY <3>1 DEF Sends
    <3>3. Len(inbox) + 1 \in (Len(inbox) + 1)..Len(inbox')
      BY <1>1, <1>5, <3>1
    <3>4. /\ inbox'[Len(inbox) + 1].by <= generationSeq'
          /\ \/ Excused' \/ Comes'
             \/ \E j \in (Len(inbox) + 1)..Len(inbox') : Decisive(inbox'[j], generationSeq')
      BY <1>5, <3>1, <3>2, <3>3
    <3>5. \A i \in 1..Len(inbox') : i \in 1..Len(inbox) \/ i = Len(inbox) + 1
      BY <1>5, <3>1
    <3> QED
      BY <2>1, <3>4, <3>5 DEF OnTheWay
  <2> QED
    BY <2>2, <2>3
<1>8. LastIsTold'
  <2>1. CASE UNCHANGED <<inbox, answers>>
    BY <2>1 DEF WaitInv, LastIsTold
  <2>2. CASE \E m \in Message : Sends(m)
    <3>1. PICK m \in Message : Sends(m)
      BY <2>2
    <3>2. /\ Len(inbox') = Len(inbox) + 1 /\ inbox'[Len(inbox) + 1] = m
          /\ Len(inbox) + 1 \in 1..Len(inbox')
          /\ \A i \in 1..Len(inbox') : i \in 1..Len(inbox) \/ i = Len(inbox) + 1
      BY <1>5, <3>1
    <3>3. CASE m.kind = "complete"
      <4>1. answers' = Append(answers, m.by) /\ m.by \in Generation
        BY <3>1, <3>3 DEF Sends, Message
      <4>2. answers' # <<>> /\ Last(answers') = m.by
        <5>1. /\ Len(answers') = Len(answers) + 1 /\ Len(answers) \in Nat
              /\ answers'[Len(answers) + 1] = m.by
          BY <1>2, <4>1
        <5> QED
          BY <5>1 DEF Last
      <4>3. \A i \in 1..Len(inbox) : i < Len(inbox) + 1
        BY <1>1
      <4> QED
        BY <3>2, <3>3, <4>2, <4>3 DEF LastIsTold
    <3>4. CASE m.kind # "complete"
      <4>1. answers' = answers
        BY <3>1, <3>4 DEF Sends
      <4>2. ASSUME NEW i \in 1..Len(inbox'), inbox'[i].kind = "complete"
            PROVE  /\ answers' # <<>>
                   /\ \/ inbox'[i].by = Last(answers')
                      \/ \E j \in 1..Len(inbox') : i < j /\ inbox'[j].kind = "complete"
        <5>1. i \in 1..Len(inbox) /\ inbox'[i] = inbox[i]
          BY <1>3, <3>2, <3>4, <4>2
        <5>2. /\ answers # <<>>
              /\ \/ inbox[i].by = Last(answers)
                 \/ \E j \in 1..Len(inbox) : i < j /\ inbox[j].kind = "complete"
          BY <4>2, <5>1 DEF WaitInv, LastIsTold
        <5> QED
          BY <1>3, <4>1, <5>1, <5>2
      <4> QED
        BY <4>2 DEF LastIsTold
    <3> QED
      BY <3>3, <3>4
  <2> QED
    BY <2>1, <2>2 DEF Effects
<1>9. Comes' => generationSeq' # 0
  BY OrchestratorAssumption DEF Comes, Generation
<1>10. generationSeq = 0 => generationSeq' = 0 \/ Comes'
  BY DEF Effects
<1>11. Hope => Hope'
  <2>1. CASE Comes
    BY <1>6, <2>1 DEF Hope, Decides
  <2>2. CASE Decides(inbox, generationSeq)
    BY <1>3, <1>4, <2>2 DEF Hope, Decides
  <2>3. CASE Owed
    BY <1>1, <2>3 DEF Owed, Effects, Hope
  <2>4. CASE Excused \/ generationSeq = 0
    BY <1>2, <1>10, <2>4 DEF Hope
  <2> QED
    BY <2>1, <2>2, <2>3, <2>4 DEF Hope
<1>12. FailureShown => FailureShown' \/ Hope'
  BY <1>1 DEF FailureShown, Effects, Hope
<1>13. LastIsEmpty => LastIsEmpty' \/ Hope'
  <2>1. CASE answers' = answers
    BY <2>1
  <2>2. CASE answers' # answers
    <3>1. PICK m \in Message : Sends(m)
      BY <2>2 DEF Effects
    <3>2. m.kind = "complete"
      BY <2>2, <3>1 DEF Sends
    <3>3. Decides(inbox', generationSeq')
      BY <1>5, <3>1, <3>2 DEF Decides
    <3> QED
      BY <3>3 DEF Hope
  <2> QED
    BY <2>1, <2>2
<1>14. UNCHANGED <<ShowsWaiting, HasAnswerPanel>>
  BY <1>1 DEF ShowsWaiting, HasAnswerPanel
<1>15. overlay'.mounted /\ HasAnswerPanel' /\ generationSeq' = 0 =>
          Excused' \/ FailureShown' \/ overlay'.asked > 0 \/ Requests(outbox)'
  <2> SUFFICES ASSUME overlay'.mounted, HasAnswerPanel', generationSeq' = 0
               PROVE  Excused' \/ FailureShown' \/ overlay'.asked > 0 \/ Requests(outbox)'
    OBVIOUS
  <2>1. generationSeq = 0 /\ ~Comes'
    BY <1>2, <1>9
  <2>2. Excused \/ FailureShown \/ overlay.asked > 0 \/ Requests(outbox)
    BY <1>1, <1>14, <2>1 DEF WaitInv, Waits
  <2>3. FailureShown => FailureShown'
    BY <1>1, <2>1 DEF FailureShown
  <2>4. Requests(outbox) => Requests(outbox)' \/ Excused'
    BY <2>1 DEF Effects
  <2> QED
    BY <1>1, <1>2, <2>2, <2>3, <2>4
<1>16. Waits'
  <2>1. overlay'.mounted /\ overlay'.generating => Hope'
    BY <1>1, <1>11 DEF WaitInv, Waits
  <2>2. ShowsWaiting' => Hope' \/ overlay'.batch # <<>> \/ FailureShown' \/ LastIsEmpty'
    BY <1>1, <1>11, <1>12, <1>13, <1>14 DEF WaitInv, Waits
  <2> QED
    BY <1>15, <2>1, <2>2 DEF Waits
<1> QED
  BY <1>7, <1>8, <1>16 DEF WaitInv

\* Commands are appended, and what was asked stays asked.
LEMMA AskedStays ==
    ASSUME StreamTypeOK, NEW c \in Command, outbox' = Append(outbox, c)
    PROVE  /\ outbox' \in Seq(Command)
           /\ Asks(outbox) => Asks(outbox)'
           /\ Requests(outbox) => Requests(outbox)'
           /\ c.kind # "auto" => Asks(outbox)'
           /\ c.kind \in {"text", "screenshot"} => Requests(outbox)'
<1>1. outbox \in Seq(Command)
  BY DEF StreamTypeOK
<1>2. /\ outbox' \in Seq(Command) /\ Len(outbox) \in Nat
      /\ Len(outbox') = Len(outbox) + 1 /\ outbox'[Len(outbox) + 1] = c
      /\ \A i \in 1..Len(outbox) : i \in 1..Len(outbox') /\ outbox'[i] = outbox[i]
  BY <1>1
<1>3. Len(outbox) + 1 \in 1..Len(outbox')
  BY <1>2
<1> QED
  BY <1>2, <1>3 DEF Asks, Requests

\* What the Overlay's own steps do: nothing new is shown, and who waits has
\* asked, was told of a failure, or waited before and is still owed what it was.
Patient ==
    /\ overlay'.mounted /\ overlay'.generating =>
          \/ Owed'
          \/ overlay.mounted /\ overlay.generating /\ (Owed => Owed')
    /\ ShowsWaiting' =>
          \/ Owed' \/ FailureShown'
          \/ /\ ShowsWaiting /\ (Owed => Owed') /\ (FailureShown => FailureShown')
             /\ overlay.batch # <<>> => overlay'.batch # <<>>
    /\ overlay'.mounted /\ HasAnswerPanel' =>
          \/ overlay'.asked > 0 \/ Requests(outbox)' \/ FailureShown'
          \/ /\ overlay.mounted /\ (HasAnswerPanel \/ overlay.batch # <<>>)
             /\ overlay'.banner = overlay.banner
             /\ overlay'.asked = overlay.asked /\ (Requests(outbox) => Requests(outbox)')

Quietly ==
    /\ UNCHANGED <<vars, provVars, inbox>>
    /\ Loses(overlay', overlay)
    /\ Patient

\* A button that asks for something new is owed it.
LEMMA RequestingQuietly ==
    ASSUME UNCHANGED backendVars, Loses(overlay', overlay),
           overlay'.asked > 0 \/ Requests(outbox)'
    PROVE  Quietly
<1>1. Requests(outbox)' => Asks(outbox)'
  BY DEF Requests, Asks
<1>2. Owed'
  BY <1>1 DEF Owed
<1>3. Patient
  BY <1>2 DEF Patient
<1> QED
  BY <1>3 DEF Quietly, backendVars

\* Who changes nothing but the switch waits as before.
LEMMA WaitingOn ==
    ASSUME UNCHANGED <<overlay.mounted, overlay.generating, overlay.answered, overlay.answer,
                       overlay.batch, overlay.banner, overlay.asked, generationSeq>>,
           Asks(outbox) => Asks(outbox)', Requests(outbox) => Requests(outbox)'
    PROVE  Patient
<1>1. /\ UNCHANGED <<ShowsWaiting, HasAnswerPanel, FailureShown>>
      /\ Owed => Owed'
  BY DEF ShowsWaiting, HasAnswerPanel, FailureShown, Owed
<1> QED
  BY <1>1 DEF Patient

\* The commands the buttons send are commands.
LEMMA Commands ==
    \A q \in Question, on \in BOOLEAN : \A kind \in {"text", "screenshot", "regenerate", "auto"} :
        Command1(kind, q, on) \in Command /\ Command1(kind, q, on).kind = kind
BY DEF Command1, Command

\* Every step of the Overlay but those that hear a message
LEMMA OverlayQuietly ==
    ASSUME StreamTypes, TranscriptInv, GoodOverlay(overlay), OverlayStep, ~Deliver
    PROVE  Quietly
<1>1. Screenshot \in Question
  BY OrchestratorAssumption
<1>2. /\ shots \in Nat /\ commands \in Nat /\ shots <= commands /\ MaxCommands \in Nat
      /\ overlay.asked \in Nat /\ overlay.asked <= shots
      /\ generationSeq \in 0..MaxGenerations /\ overlay \in OverlayRecord
  BY StreamAssumption, Shapes DEF StreamTypes, StreamTypeOK, GoodOverlay, OverlayRecord
<1>3. ASSUME NEW q \in Question, AskText(q) PROVE Quietly
  <2>1. /\ overlay' = [Asking(overlay) EXCEPT !.answered = q]
        /\ outbox' = Append(outbox, Command1("text", q, FALSE))
        /\ UNCHANGED backendVars
    BY <1>3 DEF AskText
  <2>2. Loses(overlay', overlay)
    BY <2>1, AskingLoses
  <2>3. Command1("text", q, FALSE) \in Command /\ Command1("text", q, FALSE).kind = "text"
    BY Commands
  <2>4. Requests(outbox)'
    BY <2>1, <2>3, AskedStays DEF StreamTypes
  <2> QED
    BY <2>1, <2>2, <2>4, RequestingQuietly
<1>4. ASSUME AskAgain PROVE Quietly
  <2>1. /\ overlay' = Asking(overlay) /\ overlay.mounted /\ HasAnswerPanel
        /\ outbox' = Append(outbox, Command1("regenerate", Screenshot, FALSE))
        /\ UNCHANGED backendVars
    BY <1>4 DEF AskAgain, Give
  <2>2. Loses(overlay', overlay)
    BY <2>1, AskingLoses
  <2>3. /\ Command1("regenerate", Screenshot, FALSE) \in Command
        /\ Command1("regenerate", Screenshot, FALSE).kind # "auto"
    BY <1>1, Commands
  <2>4. Asks(outbox)' /\ (Requests(outbox) => Requests(outbox)')
    BY <2>1, <2>3, AskedStays DEF StreamTypes
  <2>5. overlay'.banner = overlay.banner /\ overlay'.asked = overlay.asked
    BY <1>2, <2>1 DEF Asking, OverlayRecord
  <2>6. Owed'
    BY <2>4 DEF Owed
  <2>7. Patient
    BY <2>1, <2>4, <2>5, <2>6 DEF Patient
  <2> QED
    BY <2>1, <2>2, <2>7 DEF Quietly, backendVars
<1>5. ASSUME AskScreenshot PROVE Quietly
  <2>1. /\ overlay' = [Asking(overlay) EXCEPT !.answered = Screenshot, !.asked = @ + 1]
        /\ commands < MaxCommands /\ UNCHANGED backendVars
    BY <1>5 DEF AskScreenshot, Give
  <2>2. overlay.asked < MaxCommands
    BY <1>2, <2>1
  <2>3. Loses(overlay', overlay)
    BY <2>1, <2>2, AskingLoses
  <2>4. overlay'.asked = overlay.asked + 1
    BY <1>2, <2>1 DEF Asking, OverlayRecord
  <2>5. overlay'.asked > 0
    BY <1>2, <2>4
  <2> QED
    BY <2>1, <2>3, <2>5, RequestingQuietly
<1>6. ASSUME ScreenshotTaken PROVE Quietly
  <2>1. /\ outbox' = Append(outbox, Command1("screenshot", Screenshot, FALSE))
        /\ UNCHANGED backendVars
        /\ \/ overlay.asked > 0 /\ overlay' = [overlay EXCEPT !.asked = @ - 1]
           \/ UNCHANGED overlay
    BY <1>6 DEF ScreenshotTaken, Reply
  <2>2. /\ Command1("screenshot", Screenshot, FALSE) \in Command
        /\ Command1("screenshot", Screenshot, FALSE).kind = "screenshot"
    BY <1>1, Commands
  <2>3. Requests(outbox)'
    BY <2>1, <2>2, AskedStays DEF StreamTypes
  <2>4. Loses(overlay', overlay)
    BY <2>1, LosesNothing, OthersLose
  <2> QED
    BY <2>1, <2>3, <2>4, RequestingQuietly
<1>7. ASSUME ScreenshotFails PROVE Quietly
  <2> DEFINE y == [overlay EXCEPT !.generating = FALSE, !.banner = generationSeq]
  <2>1. /\ UNCHANGED backendVars /\ UNCHANGED outbox
        /\ \/ overlay.asked > 0 /\ overlay' = [y EXCEPT !.asked = @ - 1]
           \/ UNCHANGED overlay
    BY <1>7 DEF ScreenshotFails, Reply
  <2>2. generationSeq' = generationSeq
    BY <2>1 DEF backendVars, vars
  <2>3. (Asks(outbox) => Asks(outbox)') /\ (Requests(outbox) => Requests(outbox)')
    BY <2>1 DEF Asks, Requests
  <2>4. CASE overlay.asked > 0 /\ overlay' = [y EXCEPT !.asked = @ - 1]
    <3>1. Loses(overlay', overlay)
      BY <1>2, <2>4, OthersLose
    <3>2. ~overlay'.generating /\ overlay'.banner = generationSeq
      BY <1>2, <2>4 DEF OverlayRecord
    <3>3. FailureShown'
      BY <2>2, <3>2 DEF FailureShown
    <3>4. Patient
      BY <3>2, <3>3 DEF Patient
    <3> QED
      BY <2>1, <3>1, <3>4 DEF Quietly, backendVars
  <2>5. CASE UNCHANGED overlay
    <3>1. Loses(overlay', overlay)
      BY <2>5, LosesNothing
    <3>2. Patient
      BY <2>2, <2>3, <2>5, WaitingOn
    <3> QED
      BY <2>1, <3>1, <3>2 DEF Quietly, backendVars
  <2> QED
    BY <2>1, <2>4, <2>5
<1>8. ASSUME ToggleAuto PROVE Quietly
  <2>1. /\ overlay' = [overlay EXCEPT !.autoGen = ~@]
        /\ outbox' = Append(outbox, Command1("auto", Screenshot, ~overlay.autoGen))
        /\ UNCHANGED backendVars
    BY <1>8 DEF ToggleAuto
  <2>2. Loses(overlay', overlay)
    BY <2>1, OthersLose
  <2>3. UNCHANGED <<overlay.mounted, overlay.generating, overlay.answered, overlay.answer,
                    overlay.batch, overlay.banner, overlay.asked, generationSeq>>
    BY <1>2, <2>1 DEF OverlayRecord, backendVars, vars
  <2>4. Command1("auto", Screenshot, ~overlay.autoGen) \in Command
    BY <1>1, Commands
  <2>5. (Asks(outbox) => Asks(outbox)') /\ (Requests(outbox) => Requests(outbox)')
    BY <2>1, <2>4, AskedStays DEF StreamTypes
  <2>6. Patient
    BY <2>3, <2>5, WaitingOn
  <2> QED
    BY <2>1, <2>2, <2>6 DEF Quietly, backendVars
<1>9. ASSUME Collapse \/ Expand PROVE Quietly
  <2>1. /\ overlay' = FreshOverlay \/ overlay' = [FreshOverlay EXCEPT !.mounted = FALSE]
        /\ UNCHANGED backendVars
    BY <1>9 DEF Collapse, Expand
  <2>2. Loses(overlay', overlay)
    BY <2>1, OthersLose
  <2>3. ~overlay'.generating /\ overlay'.answer = <<>> /\ overlay'.answered = NoQuestion
    BY <2>1 DEF FreshOverlay
  <2>4. ~HasAnswerPanel' /\ ~ShowsWaiting'
    BY <2>3 DEF HasAnswerPanel, ShowsWaiting
  <2>5. Patient
    BY <2>3, <2>4 DEF Patient
  <2> QED
    BY <2>1, <2>2, <2>5 DEF Quietly, backendVars
<1>10. ASSUME Frame PROVE Quietly
  <2> DEFINE text == overlay.answer \o overlay.batch
  <2>1. /\ overlay' = [overlay EXCEPT !.frame = FALSE, !.batch = <<>>,
                                      !.answer = @ \o overlay.batch]
        /\ UNCHANGED backendVars /\ UNCHANGED outbox
    BY <1>10 DEF Frame
  <2>2. Loses(overlay', overlay)
    BY <2>1, FrameLoses, Zenon
  <2>3. overlay.answer \in Seq(Piece) /\ overlay.batch \in Seq(Piece)
    BY <1>2 DEF OverlayRecord
  <2>4. /\ overlay'.answer = text
        /\ UNCHANGED <<overlay.mounted, overlay.generating, overlay.answered, overlay.banner,
                       overlay.asked, generationSeq>>
    BY <1>2, <2>1 DEF OverlayRecord, backendVars, vars
  <2>5. text = <<>> <=> overlay.answer = <<>> /\ overlay.batch = <<>>
    BY <2>3
  <2> HIDE DEF text
  <2>6. (Owed => Owed') /\ (FailureShown => FailureShown') /\ UNCHANGED Requests(outbox)
    BY <2>1, <2>4 DEF Owed, Asks, Requests, FailureShown
  <2>7. ShowsWaiting' => ShowsWaiting /\ overlay.batch = <<>>
    BY <2>4, <2>5 DEF ShowsWaiting, HasAnswerPanel
  <2>8. HasAnswerPanel' => HasAnswerPanel \/ overlay.batch # <<>>
    BY <2>4, <2>5 DEF HasAnswerPanel
  <2>9. Patient
    BY <2>4, <2>6, <2>7, <2>8 DEF Patient
  <2> QED
    BY <2>1, <2>2, <2>9 DEF Quietly, backendVars
<1> QED
  BY <1>3, <1>4, <1>5, <1>6, <1>7, <1>8, <1>9, <1>10 DEF OverlayStep

\* Before there is a generation nothing is shown.
LEMMA NothingShown ==
    ASSUME TranscriptInv, CardInv, GoodOverlay(overlay), generationSeq = 0
    PROVE  overlay.batch = <<>>
<1> DEFINE s == ShownOf(overlay)
<1>1. s \in Seq(Piece) /\ WholeFirst(s, inbox, Over) /\ PartsAreOlder(s, inbox, 0)
  BY DEF CardInv, Card
<1>2. overlay.answer \in Seq(Piece) /\ overlay.batch \in Seq(Piece)
  BY DEF GoodOverlay, OverlayRecord
<1>3. Over = {}
  BY DEF TranscriptInv, AnsweredInv, Over, Generation
<1>4. ASSUME NEW i \in 1..Len(s) PROVE FALSE
  <2>1. s[i] \in Piece
    BY <1>1
  <2>2. s[i].by \in Nat /\ s[i].by > 0
    BY <2>1, OrchestratorAssumption DEF Piece, Generation
  <2>3. CASE s[i].whole
    BY <1>1, <1>3, <2>3 DEF WholeFirst
  <2>4. CASE ~s[i].whole
    BY <1>1, <2>2, <2>4 DEF PartsAreOlder
  <2> QED
    BY <2>3, <2>4
<1>5. Len(s) = Len(overlay.answer) + Len(overlay.batch)
  BY <1>2, ConcatProperties DEF ShownOf
<1>6. Len(s) \in Nat /\ Len(overlay.answer) \in Nat /\ Len(overlay.batch) \in Nat
  BY <1>1, <1>2
<1> HIDE DEF s
<1>7. ~(Len(s) >= 1)
  <2>1. Len(s) >= 1 => 1 \in 1..Len(s)
    BY <1>6
  <2> QED
    BY <1>4, <2>1
<1>8. Len(overlay.batch) = 0
  <2>1. \A a, b, c \in Nat : a = b + c /\ ~(a >= 1) => c = 0
    OBVIOUS
  <2> QED
    BY <1>5, <1>6, <1>7, <2>1
<1> QED
  BY <1>2, <1>8, EmptySeq

\* Such steps leave the card in order and nobody waiting for nothing.
LEMMA QuietlyKeeps ==
    ASSUME TranscriptInv, CardInv, WaitInv, RacingInv, GoodOverlay(overlay), Quietly
    PROVE  CardInv' /\ WaitInv' /\ RacingInv' /\ GoodOverlay(overlay)'
<1>1. UNCHANGED <<generationSeq, generations, inbox, calls, currentQuestion, exhausted, alive, rows,
                  answers>>
  BY DEF Quietly, vars, provVars
<1>2. Over' = Over /\ Excused' = Excused /\ Comes' = Comes /\ LastIsEmpty' = LastIsEmpty
  BY <1>1 DEF Over, Excused, Refused, Comes, Running, LastIsEmpty
<1>3. RacingInv'
  BY <1>1 DEF RacingInv
<1>4. CardInv'
  <2>1. inbox \in Seq(Message) /\ Card(ShownOf(overlay), inbox, generationSeq, Over)
    BY DEF CardInv, Card
  <2>2. EndOf(inbox, inbox, 0) /\ generationSeq \in Nat /\ generationSeq <= generationSeq
        /\ Over \subseteq Over /\ 0 \in Nat
    BY <2>1, Shapes DEF EndOf
  <2>3. ShownOf(overlay') \in Seq(Piece) /\ ShownOf(overlay)' = ShownOf(overlay')
    BY DEF Quietly, Loses, ShownOf
  <2>4. PICK d \in Nat : EndOf(ShownOf(overlay'), ShownOf(overlay), d)
    BY DEF Quietly, Loses
  <2>5. Card(ShownOf(overlay'), inbox, generationSeq, Over)
    BY <2>1, <2>2, <2>3, <2>4, CardLoses
  <2> QED
    BY <1>1, <1>2, <2>3, <2>5 DEF CardInv
<1>5. OnTheWay' /\ LastIsTold'
  BY <1>1, <1>2 DEF WaitInv, OnTheWay, LastIsTold
<1>6. Patient /\ Waits
  BY DEF Quietly, WaitInv
<1>7. /\ Owed' => Hope'
      /\ Hope /\ (Owed => Owed') => Hope'
  BY <1>1, <1>2 DEF Hope, Decides
<1>8. overlay'.mounted /\ overlay'.generating => Hope'
  BY <1>6, <1>7 DEF Patient, Waits
<1>9. ShowsWaiting' => Hope' \/ overlay'.batch # <<>> \/ FailureShown' \/ LastIsEmpty'
  BY <1>2, <1>6, <1>7 DEF Patient, Waits
<1>10. overlay'.mounted /\ HasAnswerPanel' /\ generationSeq' = 0 =>
          Excused' \/ FailureShown' \/ overlay'.asked > 0 \/ Requests(outbox)'
  <2> SUFFICES ASSUME overlay'.mounted, HasAnswerPanel', generationSeq' = 0,
                      ~(overlay'.asked > 0), ~Requests(outbox)', ~FailureShown'
               PROVE  Excused'
    OBVIOUS
  <2>1. /\ overlay.mounted /\ (HasAnswerPanel \/ overlay.batch # <<>>)
        /\ overlay'.banner = overlay.banner
        /\ overlay'.asked = overlay.asked /\ ~Requests(outbox)
    BY <1>6 DEF Patient
  <2>2. generationSeq = 0 /\ overlay.batch = <<>>
    BY <1>1, NothingShown
  <2>3. ~FailureShown
    BY <1>1, <2>1 DEF FailureShown
  <2> QED
    BY <1>2, <1>6, <2>1, <2>2, <2>3 DEF Waits
<1>11. GoodOverlay(overlay)'
  BY DEF Quietly, Loses, GoodOverlay
<1> QED
  BY <1>3, <1>4, <1>5, <1>8, <1>9, <1>10, <1>11 DEF WaitInv, Waits

\* A message is delivered: a token into the batch, a whole answer in place of
\* its parts, an error beside them; or nobody listens.
LEMMA DeliverKeeps ==
    ASSUME StreamTypes, GoodOverlay(overlay), TranscriptInv, CardInv, WaitInv, RacingInv, Deliver
    PROVE  CardInv' /\ WaitInv' /\ RacingInv' /\ GoodOverlay(overlay)'
<1> DEFINE m == Head(inbox)
           s == ShownOf(overlay)
<1>1. /\ inbox # <<>> /\ inbox' = Tail(inbox)
      /\ UNCHANGED <<vars, provVars, outbox, shots>>
      /\ ~overlay.mounted => overlay' = overlay
      /\ overlay.mounted /\ m.kind = "token" => overlay' = OnToken(overlay, m.by)
      /\ overlay.mounted /\ m.kind = "complete" => overlay' = OnComplete(overlay, m.by)
      /\ overlay.mounted /\ m.kind = "error" => overlay' = OnError(overlay, m.by)
  BY DEF Deliver
<1>2. /\ inbox \in Seq(Message) /\ Len(inbox) \in Nat \ {0} /\ m = inbox[1] /\ m \in Message
      /\ inbox' \in Seq(Message) /\ Len(inbox') = Len(inbox) - 1
      /\ EndOf(inbox', inbox, 1)
  BY <1>1, FirstMessage DEF StreamTypes, StreamTypeOK
<1>3. m.kind \in {"token", "complete", "error"} /\ m.by \in Generation
  BY <1>2 DEF Message
<1>4. UNCHANGED <<generationSeq, generations, calls, currentQuestion, exhausted, alive, rows,
                  answers>>
  BY <1>1 DEF vars, provVars
<1>5. /\ Over' = Over /\ Excused' = Excused /\ Comes' = Comes /\ LastIsEmpty' = LastIsEmpty
      /\ Asks(outbox)' = Asks(outbox)
  BY <1>1, <1>4 DEF Over, Excused, Refused, Comes, Running, LastIsEmpty, Asks
<1>6. RacingInv'
  BY <1>4 DEF RacingInv
<1>7. s \in Seq(Piece) /\ Card(s, inbox, generationSeq, Over) /\ generationSeq \in Nat
  BY Shapes DEF CardInv, Card
<1>8. Card(s, inbox', generationSeq, Over)
  BY <1>1, <1>7, CardBehind
<1>9. ShownOf(overlay)' = ShownOf(overlay')
  BY DEF ShownOf
<1>10. CardInv' /\ GoodOverlay(overlay')
  <2>1. CASE ~overlay.mounted
    BY <1>1, <1>4, <1>5, <1>8, <2>1 DEF CardInv
  <2>2. CASE overlay.mounted /\ m.kind = "token"
    <3>1. overlay' = OnToken(overlay, m.by)
      BY <1>1, <2>2
    <3>2. GoodOverlay(overlay') /\ ShownOf(overlay') = Append(s, [by |-> m.by, whole |-> FALSE])
      BY <1>3, <3>1, TokenShows
    <3>3. Card(Append(s, [by |-> m.by, whole |-> FALSE]), Tail(inbox), generationSeq, Over)
      BY <1>1, <1>7, <2>2, CardTakesToken
    <3> QED
      BY <1>1, <1>4, <1>5, <1>9, <3>2, <3>3 DEF CardInv
  <2>3. CASE overlay.mounted /\ m.kind = "complete"
    <3>1. overlay' = OnComplete(overlay, m.by)
      BY <1>1, <2>3
    <3>2. GoodOverlay(overlay') /\ ShownOf(overlay') = Whole(m.by)
      BY <1>3, <3>1, CompleteShows
    <3>3. Card(<<[by |-> m.by, whole |-> TRUE]>>, Tail(inbox), generationSeq, Over)
      BY <1>1, <1>7, <2>3, CardTakesWhole
    <3>4. Card(<<>>, Tail(inbox), generationSeq, Over)
      BY <1>1, <1>7, CardIsEmptied
    <3>5. Card(Whole(m.by), Tail(inbox), generationSeq, Over)
      BY <3>3, <3>4 DEF Whole
    <3> QED
      BY <1>1, <1>4, <1>5, <1>9, <3>2, <3>5 DEF CardInv
  <2>4. CASE overlay.mounted /\ m.kind = "error"
    <3>1. overlay' = OnError(overlay, m.by)
      BY <1>1, <2>4
    <3>2. GoodOverlay(overlay')
      BY <1>3, <3>1, OthersLose DEF Loses
    <3>3. ShownOf(overlay') = s
      BY <3>1 DEF OnError, ShownOf, GoodOverlay, OverlayRecord
    <3> QED
      BY <1>4, <1>5, <1>8, <1>9, <3>2, <3>3 DEF CardInv
  <2> QED
    BY <1>3, <2>1, <2>2, <2>3, <2>4
<1> HIDE DEF m, s
<1>11. \A i \in 1..Len(inbox') : i + 1 \in 1..Len(inbox) /\ inbox'[i] = inbox[i + 1]
  BY <1>2 DEF EndOf
<1>12. ASSUME NEW j \in 1..Len(inbox), j # 1
       PROVE  j - 1 \in 1..Len(inbox') /\ inbox'[j - 1] = inbox[j]
  <2>1. j - 1 \in 1..Len(inbox') /\ (j - 1) + 1 = j
    BY <1>2, <1>12
  <2> QED
    BY <1>11, <2>1
<1>13. OnTheWay'
  <2> SUFFICES ASSUME NEW i \in 1..Len(inbox')
               PROVE  /\ inbox'[i].by <= generationSeq'
                      /\ \/ Excused' \/ Comes'
                         \/ \E j \in i..Len(inbox') : Decisive(inbox'[j], generationSeq')
    BY DEF OnTheWay
  <2>1. i + 1 \in 1..Len(inbox) /\ inbox'[i] = inbox[i + 1]
    BY <1>11
  <2>2. /\ inbox[i + 1].by <= generationSeq
        /\ \/ Excused \/ Comes
           \/ \E j \in (i + 1)..Len(inbox) : Decisive(inbox[j], generationSeq)
    BY <2>1 DEF WaitInv, OnTheWay
  <2>3. ASSUME NEW j \in (i + 1)..Len(inbox), Decisive(inbox[j], generationSeq)
        PROVE  \E k \in i..Len(inbox') : Decisive(inbox'[k], generationSeq')
    <3>1. j \in 1..Len(inbox) /\ j # 1
      BY <1>2
    <3>2. j - 1 \in i..Len(inbox')
      BY <1>2
    <3> QED
      BY <1>4, <1>12, <2>3, <3>1, <3>2
  <2> QED
    BY <1>4, <1>5, <2>1, <2>2, <2>3
<1>14. LastIsTold'
  <2> SUFFICES ASSUME NEW i \in 1..Len(inbox'), inbox'[i].kind = "complete"
               PROVE  /\ answers' # <<>>
                      /\ \/ inbox'[i].by = Last(answers')
                         \/ \E j \in 1..Len(inbox') : i < j /\ inbox'[j].kind = "complete"
    BY DEF LastIsTold
  <2>1. i + 1 \in 1..Len(inbox) /\ inbox'[i] = inbox[i + 1]
    BY <1>11
  <2>2. /\ answers # <<>>
        /\ \/ inbox[i + 1].by = Last(answers)
           \/ \E j \in 1..Len(inbox) : i + 1 < j /\ inbox[j].kind = "complete"
    BY <2>1 DEF WaitInv, LastIsTold
  <2>3. ASSUME NEW j \in 1..Len(inbox), i + 1 < j, inbox[j].kind = "complete"
        PROVE  \E k \in 1..Len(inbox') : i < k /\ inbox'[k].kind = "complete"
    <3>1. j # 1 /\ i < j - 1
      BY <2>3
    <3> QED
      BY <1>12, <2>3, <3>1
  <2> QED
    BY <1>4, <2>1, <2>2, <2>3
<1>15. 1 \in 1..Len(inbox)
  BY <1>2
<1>16. generationSeq' # 0
  <2>1. m.by <= generationSeq
    BY <1>2, <1>15 DEF WaitInv, OnTheWay
  <2> QED
    BY <1>3, <1>4, <1>7, <2>1 DEF Generation
<1>17. ASSUME NEW j \in 1..Len(inbox), j # 1, Decisive(inbox[j], generationSeq) PROVE Hope'
  BY <1>4, <1>12, <1>17 DEF Hope, Decides
<1>18. ~Decisive(m, generationSeq) => Hope'
  <2>1. Excused \/ Comes \/ \E j \in 1..Len(inbox) : Decisive(inbox[j], generationSeq)
    BY <1>15 DEF WaitInv, OnTheWay
  <2>2. Excused \/ Comes => Hope'
    BY <1>5 DEF Hope
  <2> QED
    BY <1>2, <1>17, <2>1, <2>2
<1>19. /\ overlay'.mounted /\ overlay'.generating => Hope'
       /\ ShowsWaiting' => Hope' \/ overlay'.batch # <<>> \/ FailureShown' \/ LastIsEmpty'
  <2>1. CASE ~overlay.mounted
    BY <1>1, <2>1 DEF ShowsWaiting
  <2>2. CASE overlay.mounted /\ m.kind = "token"
    <3>1. ~Decisive(m, generationSeq)
      BY <2>2 DEF Decisive
    <3> QED
      BY <1>18, <3>1
  <2>3. CASE overlay.mounted /\ m.kind = "error"
    <3>1. ~overlay'.generating /\ overlay'.banner = m.by
      BY <1>1, <2>3 DEF OnError, GoodOverlay, OverlayRecord
    <3>2. Decisive(m, generationSeq) => FailureShown'
      BY <1>4, <2>3, <3>1 DEF Decisive, FailureShown
    <3> QED
      BY <1>18, <3>1, <3>2
  <2>4. CASE overlay.mounted /\ m.kind = "complete"
    <3>1. ~overlay'.generating /\ overlay'.answer = Whole(m.by)
      BY <1>1, <2>4 DEF OnComplete, GoodOverlay, OverlayRecord
    <3>2. Whole(m.by) = <<>> => calls[m.by].chunks = 0
      BY DEF Whole
    <3>3. /\ answers # <<>>
          /\ \/ m.by = Last(answers)
             \/ \E j \in 1..Len(inbox) : 1 < j /\ inbox[j].kind = "complete"
      BY <1>2, <1>15, <2>4 DEF WaitInv, LastIsTold
    <3>4. ASSUME NEW j \in 1..Len(inbox), 1 < j, inbox[j].kind = "complete" PROVE Hope'
      BY <1>17, <3>4 DEF Decisive
    <3>5. m.by = Last(answers) /\ calls[m.by].chunks = 0 => LastIsEmpty'
      BY <1>5, <3>3 DEF LastIsEmpty
    <3> QED
      BY <3>1, <3>2, <3>3, <3>4, <3>5 DEF ShowsWaiting
  <2> QED
    BY <1>3, <2>1, <2>2, <2>3, <2>4
<1>20. WaitInv'
  BY <1>13, <1>14, <1>16, <1>19 DEF WaitInv, Waits
<1> QED
  BY <1>6, <1>10, <1>20 DEF GoodOverlay

-----------------------------------------------------------------------------
(* Every step *)

\* The backend's calls and the messages between it and the Overlay keep their
\* types.
LEMMA BackendTyped ==
    ASSUME StreamTypes, TranscriptInv, [Next]_vars, Effects, BackendStep
    PROVE  StreamTypes'
<1>1. /\ CallsTypeOK /\ inbox \in Seq(Message) /\ outbox \in Seq(Command)
      /\ shots \in 0..MaxCommands /\ commands \in 0..MaxCommands /\ shots <= commands
      /\ GoodOverlay(overlay) /\ overlay.asked <= shots /\ generationSeq \in 0..MaxGenerations
  BY Shapes DEF StreamTypes, StreamTypeOK, GoodOverlay, OverlayRecord
<1>2. CallsTypeOK'
  <2>1. CASE \E q \in Question \ {Screenshot} : SpokenQuestion(q)
    BY <1>1, <2>1, StartsTyped DEF SpokenQuestion
  <2>2. CASE HandleCommand
    BY <1>1, <2>2, StartsTyped DEF HandleCommand
  <2>3. CASE \E g \in Generation : Token(g) \/ AbandonedStream(g)
    BY <1>1, <2>3, CallTyped DEF Token, AbandonedStream
  <2>4. CASE \E g \in Generation : ProviderAnswers(g)
    BY <1>1, <2>4, CallTyped, AnswerSettles
  <2>5. CASE (\E g \in Generation : Persist(g)) \/ StreamExhaust
    BY <1>1, <2>5 DEF Persist, StreamExhaust, provVars, CallsTypeOK
  <2> QED
    BY <2>1, <2>2, <2>3, <2>4, <2>5 DEF BackendStep
<1>3. inbox' \in Seq(Message)
  <2>1. inbox' = inbox \/ \E m \in Message : inbox' = Append(inbox, m)
    BY DEF Effects, Sends
  <2> QED
    BY <1>1, <2>1, Appended
<1>4. /\ outbox' \in Seq(Command) /\ commands' = commands
      /\ UNCHANGED <<shots, overlay>>
  <2>1. CASE HandleCommand
    BY <1>1, <2>1, FirstCommand DEF HandleCommand, StreamTypes
  <2>2. CASE ~HandleCommand
    BY <1>1, <2>2 DEF BackendStep, SpokenQuestion, Token, ProviderAnswers, Persist,
                      AbandonedStream, StreamExhaust, uiVars
  <2> QED
    BY <2>1, <2>2
<1> QED
  BY <1>1, <1>2, <1>3, <1>4 DEF StreamTypes, StreamTypeOK, GoodOverlay, OverlayRecord

\* And so they do at the Overlay's steps.
LEMMA OverlayTyped ==
    ASSUME StreamTypes, OverlayStep, GoodOverlay(overlay)'
    PROVE  StreamTypes'
<1>1. /\ CallsTypeOK /\ inbox \in Seq(Message) /\ outbox \in Seq(Command)
      /\ shots \in 0..MaxCommands /\ commands \in 0..MaxCommands /\ shots <= commands
      /\ MaxCommands \in Nat /\ Screenshot \in Question
      /\ overlay.autoGen \in BOOLEAN /\ overlay \in OverlayRecord
      /\ overlay.asked \in Nat /\ overlay.asked <= shots
  BY StreamAssumption, OrchestratorAssumption DEF StreamTypes, StreamTypeOK, OverlayRecord
<1>2. CallsTypeOK'
  BY <1>1 DEF OverlayStep, AskText, AskAgain, AskScreenshot, ScreenshotTaken, ScreenshotFails,
              ToggleAuto, Collapse, Expand, Deliver, Frame, backendVars, provVars, CallsTypeOK
<1>3. inbox' \in Seq(Message)
  <2>1. CASE Deliver
    BY <1>1, <2>1, FirstMessage DEF Deliver
  <2>2. CASE ~Deliver
    BY <1>1, <2>2 DEF OverlayStep, AskText, AskAgain, AskScreenshot, ScreenshotTaken,
              ScreenshotFails, ToggleAuto, Collapse, Expand, Frame, backendVars
  <2> QED
    BY <2>1, <2>2
<1>4. outbox' \in Seq(Command)
  <2>1. outbox' = outbox \/ \E c \in Command : outbox' = Append(outbox, c)
    <3>1. \A kind \in {"text", "screenshot", "regenerate", "auto"} :
             /\ \A q \in Question : Command1(kind, q, FALSE) \in Command
             /\ Command1(kind, Screenshot, ~overlay.autoGen) \in Command
      BY <1>1, Commands
    <3> QED
      BY <1>1, <3>1 DEF OverlayStep, AskText, AskAgain, AskScreenshot, ScreenshotTaken,
              ScreenshotFails, ToggleAuto, Collapse, Expand, Deliver, Frame
  <2> QED
    BY <1>1, <2>1, AskedStays DEF StreamTypes
<1>5. /\ shots' \in 0..MaxCommands /\ commands' \in 0..MaxCommands /\ shots' <= commands'
      /\ overlay'.asked <= shots'
  <2>1. CASE (\E q \in Question \ {Screenshot} : AskText(q)) \/ AskAgain \/ ToggleAuto
    <3>1. shots' = shots /\ commands' = commands + 1 /\ commands < MaxCommands
      BY <2>1 DEF AskText, AskAgain, ToggleAuto, Give
    <3>2. overlay'.asked = overlay.asked
      BY <1>1, <2>1 DEF AskText, AskAgain, ToggleAuto, Asking, OverlayRecord
    <3> QED
      BY <1>1, <3>1, <3>2
  <2>2. CASE Collapse \/ Expand
    <3>1. shots' = shots /\ (commands' = commands \/ (commands' = commands + 1 /\ commands < MaxCommands))
      BY <2>2 DEF Collapse, Expand, Give
    <3>2. overlay'.asked = 0
      BY <2>2 DEF Collapse, Expand, FreshOverlay
    <3> QED
      BY <1>1, <3>1, <3>2
  <2>3. CASE AskScreenshot
    <3>1. shots' = shots + 1 /\ commands' = commands + 1 /\ commands < MaxCommands
      BY <2>3 DEF AskScreenshot, Give
    <3>2. overlay'.asked = overlay.asked + 1
      BY <1>1, <2>3 DEF AskScreenshot, Asking, OverlayRecord
    <3> QED
      BY <1>1, <3>1, <3>2
  <2>4. CASE ScreenshotTaken \/ ScreenshotFails
    <3>1. shots' = shots - 1 /\ commands' = commands /\ shots > 0
      BY <2>4 DEF ScreenshotTaken, ScreenshotFails, Reply
    <3>2. \/ overlay'.asked = overlay.asked - 1
          \/ overlay.asked < shots /\ overlay'.asked = overlay.asked
      BY <1>1, <2>4 DEF ScreenshotTaken, ScreenshotFails, Reply, OverlayRecord
    <3> QED
      BY <1>1, <3>1, <3>2
  <2>5. CASE Deliver \/ Frame
    <3>1. shots' = shots /\ commands' = commands
      BY <2>5 DEF Deliver, Frame
    <3>2. overlay'.asked = overlay.asked
      <4>1. CASE Frame
        BY <1>1, <4>1 DEF Frame, OverlayRecord
      <4>2. CASE Deliver
        <5>1. inbox # <<>> /\ Head(inbox).kind \in {"token", "complete", "error"}
          BY <1>1, <4>2, FirstMessage DEF Deliver, Message
        <5> QED
          BY <1>1, <4>2, <5>1 DEF Deliver, OnToken, OnComplete, OnError, OverlayRecord
      <4> QED
        BY <2>5, <4>1, <4>2
    <3> QED
      BY <1>1, <3>1, <3>2
  <2> QED
    BY <2>1, <2>2, <2>3, <2>4, <2>5 DEF OverlayStep
<1>6. overlay' \in OverlayRecord /\ (overlay'.batch # <<>> => overlay'.frame)
  BY DEF GoodOverlay
<1> QED
  BY <1>2, <1>3, <1>4, <1>5, <1>6 DEF StreamTypes, StreamTypeOK, OverlayRecord

StreamInv == StreamTypes /\ TranscriptInv /\ RacingInv /\ CardInv /\ WaitInv

\* Before anything is asked
LEMMA InitStream == StreamInit => StreamInv
<1> SUFFICES ASSUME StreamInit PROVE StreamInv
  OBVIOUS
<1>1. Init /\ CallsInit /\ inbox = <<>> /\ outbox = <<>> /\ shots = 0 /\ commands = 0
      /\ overlay = FreshOverlay
  BY DEF StreamInit
<1>2. TranscriptInv
  BY <1>1, InitTranscript
<1>3. /\ generationSeq = 0 /\ \A r \in Request : calls[r].at = "idle"
      /\ \A g \in Generation : generations[g].at = "unused"
  BY <1>1 DEF Init, Unused, CallsInit, IdleCall
<1>4. RacingInv
  BY <1>3, StreamAssumption DEF RacingInv
<1>5. GoodOverlay(FreshOverlay) /\ ShownOf(FreshOverlay) = <<>> /\ ~FreshOverlay.generating
  <2>1. <<>> \in Seq(Piece) /\ 0 \in 0..MaxCommands
    BY StreamAssumption
  <2> QED
    BY <2>1 DEF FreshOverlay, GoodOverlay, OverlayRecord, ShownOf
<1>6. StreamTypes
  <2>1. CallsTypeOK
    BY <1>1, ProviderAssumption DEF CallsInit, CallsTypeOK, Call, CallState, Outcome, IdleCall
  <2>2. <<>> \in Seq(Message) /\ <<>> \in Seq(Command)
    OBVIOUS
  <2>3. FreshOverlay.asked = 0
    BY DEF FreshOverlay
  <2> QED
    BY <1>1, <1>5, <2>1, <2>2, <2>3, StreamAssumption
       DEF StreamTypes, StreamTypeOK, GoodOverlay, OverlayRecord
<1>7. CardInv
  <2>1. Len(<<>>) = 0 /\ <<>> \in Seq(Piece) /\ <<>> \in Seq(Message)
    OBVIOUS
  <2> QED
    BY <1>1, <1>5, <2>1
       DEF CardInv, Card, WholeFirst, PartsAscend, PartsAreOlder, TokensAscend, CompleteIsLast
<1>8. WaitInv
  <2>1. ~ShowsWaiting /\ ~HasAnswerPanel
    BY <1>1 DEF FreshOverlay, ShowsWaiting, HasAnswerPanel
  <2>2. Len(inbox) = 0
    BY <1>1
  <2> QED
    BY <1>1, <1>5, <2>1, <2>2 DEF WaitInv, OnTheWay, LastIsTold, Waits
<1> QED
  BY <1>2, <1>4, <1>6, <1>7, <1>8 DEF StreamInv

\* Every step keeps it.
LEMMA NextStream == StreamInv /\ [StreamNext]_streamVars => StreamInv'
<1> SUFFICES ASSUME StreamInv, [StreamNext]_streamVars PROVE StreamInv'
  OBVIOUS
<1>1. StreamTypes /\ TranscriptInv /\ RacingInv /\ CardInv /\ WaitInv
  BY DEF StreamInv
<1>2. [Next]_vars
  BY <1>1, StreamStepIsStep DEF StreamTypes
<1>3. TranscriptInv' /\ GoodOverlay(overlay)
  BY <1>1, <1>2, TranscriptStep DEF StreamTypes, StreamTypeOK, GoodOverlay, OverlayRecord
<1>4. CASE BackendStep
  <2>1. Effects
    BY <1>1, <1>2, <1>4, BackendEffects
  <2>2. RacingInv'
    BY <2>1 DEF Effects
  <2>3. LastIsEmpty /\ answers' = answers => LastIsEmpty'
    BY <1>1, <1>4, LastStays
  <2>4. StreamTypes' /\ CardInv' /\ WaitInv'
    BY <1>1, <1>2, <1>4, <2>1, <2>3, BackendTyped, EffectsKeepCard, EffectsKeepWait
  <2> QED
    BY <1>3, <2>2, <2>4 DEF StreamInv
<1>5. CASE OverlayStep
  <2>1. CardInv' /\ WaitInv' /\ RacingInv' /\ GoodOverlay(overlay)'
    BY <1>1, <1>3, <1>5, OverlayQuietly, QuietlyKeeps, DeliverKeeps
  <2> QED
    BY <1>1, <1>3, <1>5, <2>1, OverlayTyped DEF StreamInv
<1>6. CASE UNCHANGED streamVars
  <2>1. /\ UNCHANGED <<currentQuestion, exhausted, generationSeq, generations, rows, alive, answers>>
        /\ UNCHANGED <<llm, calls, inbox, outbox, shots, commands, overlay>>
    BY <1>6 DEF streamVars, vars
  <2>2. StreamTypes' /\ RacingInv' /\ CardInv'
    BY <1>1, <2>1
       DEF StreamTypes, StreamTypeOK, CallsTypeOK, RacingInv, CardInv, ShownOf, Over
  <2>3. /\ UNCHANGED <<Excused, Comes, HasAnswerPanel, ShowsWaiting, FailureShown, LastIsEmpty>>
        /\ UNCHANGED <<Owed, Requests(outbox), Decides(inbox, generationSeq)>>
    BY <2>1
       DEF Excused, Refused, Comes, Running, HasAnswerPanel, ShowsWaiting, FailureShown,
           LastIsEmpty, Owed, Asks, Requests, Decides
  <2>4. WaitInv'
    BY <1>1, <2>1, <2>3 DEF WaitInv, OnTheWay, LastIsTold, Waits, Hope
  <2> QED
    BY <1>3, <2>2, <2>4 DEF StreamInv
<1> QED
  BY <1>4, <1>5, <1>6 DEF StreamNext, BackendStep, OverlayStep

\* The messages, the calls and the Overlay keep their types, and no batch waits
\* without a frame (Overlay.tsx's useState and useRef calls).
THEOREM StreamTypeCorrect == StreamSpec => []StreamTypeOK
<1>1. StreamInv => StreamTypeOK
  BY DEF StreamInv, StreamTypes
<1> QED
  BY <1>1, InitStream, NextStream, PTL DEF StreamSpec

\* The stream, provider, messages and Overlay in it, is the orchestrator to
\* whoever looks at the session only (sessionOrchestrator.ts), so that what is
\* proved of that holds here.
THEOREM StreamIsOrchestrator == StreamSpec => Spec
<1>1. StreamInit => Init
  BY DEF StreamInit
<1>2. StreamInv /\ [StreamNext]_streamVars => [Next]_vars
  BY StreamStepIsStep DEF StreamInv, StreamTypes
<1> QED
  BY <1>1, <1>2, InitStream, NextStream, PTL DEF StreamSpec, Spec

\* The answer card shows one answer, whole or in the order of its parts, however
\* tokens, frames, completion, errors and the user's buttons interleave
\* (sessionOrchestrator.ts's check of the seq, Overlay.tsx's batch of tokens).
THEOREM CardAlwaysShowsOneAnswer == StreamSpec => []CardShowsOneAnswer
<1>1. StreamInv => CardShowsOneAnswer
  <2> SUFFICES ASSUME StreamInv PROVE CardShowsOneAnswer
    OBVIOUS
  <2> DEFINE s == ShownOf(overlay)
  <2>1. s \in Seq(Piece) /\ WholeFirst(s, inbox, Over) /\ PartsAscend(s)
    BY DEF StreamInv, CardInv, Card
  <2>2. overlay.answer \o overlay.batch = s
    BY DEF ShownOf
  <2> HIDE DEF s
  <2>3. DOMAIN s = 1..Len(s)
    BY <2>1
  <2>4. NeverShownTwice
    BY <2>1, <2>2, <2>3 DEF NeverShownTwice, WholeFirst
  <2>5. PartsInOrder
    BY <2>1, <2>2, <2>3 DEF PartsInOrder, PartsAscend
  <2> QED
    BY <2>4, <2>5 DEF CardShowsOneAnswer
<1> QED
  BY <1>1, InitStream, NextStream, PTL DEF StreamSpec

\* The card does not wait unseen for an answer that is not coming: whatever was
\* superseded, timed out, refused or ignored, at rest it shows "Generating
\* answer..." (Overlay.tsx:487-508) only if the session cannot answer, the banner
\* tells of the newest request's failure, or the answer had no text; and it shows
\* an answer as being streamed only if the session cannot answer, or nothing was
\* ever generated and the failed screenshot is told of.
THEOREM AlwaysWaitsForAnAnswer == StreamSpec => []WaitsForAnAnswer
<1>1. StreamInv => WaitsForAnAnswer
  <2> SUFFICES ASSUME StreamInv, AtRest
               PROVE  /\ ShowsWaiting => Excused \/ FailureShown \/ LastIsEmpty
                      /\ overlay.mounted /\ overlay.generating =>
                            Excused \/ (generationSeq = 0 /\ FailureShown)
    BY DEF WaitsForAnAnswer
  <2>1. Waits
    BY DEF StreamInv, WaitInv
  <2>2. ~Comes
    BY DEF AtRest, InFlight, Comes, Running
  <2>3. Len(inbox) = 0 /\ Len(outbox) = 0 /\ shots = 0 /\ overlay.batch = <<>>
    BY DEF AtRest, StreamInv, StreamTypes, StreamTypeOK
  <2>4. ~Requests(outbox) /\ ~Asks(outbox) /\ ~Decides(inbox, generationSeq)
    BY <2>3 DEF Requests, Asks, Decides
  <2>5. ~(overlay.asked > 0)
    BY <2>3 DEF StreamInv, StreamTypes, StreamTypeOK
  <2>6. Hope => Excused \/ generationSeq = 0
    BY <2>2, <2>4, <2>5 DEF Hope, Owed
  <2>7. overlay.mounted /\ HasAnswerPanel /\ generationSeq = 0 => Excused \/ FailureShown
    BY <2>1, <2>4, <2>5 DEF Waits
  <2>8. overlay.generating => HasAnswerPanel
    BY DEF HasAnswerPanel
  <2>9. ShowsWaiting => overlay.mounted /\ HasAnswerPanel
    BY DEF ShowsWaiting
  <2> QED
    BY <2>1, <2>3, <2>6, <2>7, <2>8, <2>9 DEF Waits
<1> QED
  BY <1>1, InitStream, NextStream, PTL DEF StreamSpec

-----------------------------------------------------------------------------
(* The pending question *)

PendingInv ==
    /\ {hasPending, autoGenerate, exhausted} \subseteq BOOLEAN
    /\ since \in Nat /\ since <= generationSeq
    /\ again \subseteq 1..generationSeq
    /\ PendingIsWaiting

\* A generation that begins is of the question it was begun for.
LEMMA GenerateAsks ==
    ASSUME TranscriptInv, NEW q, NEW voided, Generate(q, voided)
    PROVE  /\ Begins
           /\ generations'[generationSeq'].question = q
<1> DEFINE r == [Unused EXCEPT !.at = "streaming", !.question = q,
                               !.context = PriorHistory(q), !.voided = voided]
<1>1. Begins
  BY GenerateBegins
<1>2. generations' = [generations EXCEPT ![generationSeq + 1] = r]
  BY DEF Generate
<1>3. r.question = q
  BY DEF Unused
<1> HIDE DEF r
<1>4. generationSeq' = generationSeq + 1 /\ generationSeq' \in DOMAIN generations
  BY <1>1, Shapes DEF Begins
<1> QED
  BY <1>1, <1>2, <1>3, <1>4

\* Generations keep their question.
LEMMA QuestionStays ==
    ASSUME TranscriptInv, [Next]_vars, NEW g \in Generation, g <= generationSeq
    PROVE  generations'[g].question = generations[g].question
<1>1. DOMAIN generations = Generation /\ GenerationShape(generations[g]) /\ generationSeq \in Nat
  BY Shapes
<1>2. ASSUME Begins PROVE generations'[g].question = generations[g].question
  BY <1>1, <1>2 DEF Begins, Generation
<1>3. ASSUME NEW h \in Generation, NEW stage, Go(h, stage)
      PROVE  generations'[g].question = generations[g].question
  BY <1>1, <1>3, Shapes DEF Go, GenerationShape
<1>4. CASE \E h \in Generation : ReadMaxSeq(h)
  <2>1. PICK h \in Generation : ReadMaxSeq(h)
    BY <1>4
  <2>2. generations' = [generations EXCEPT ![h].at = "inserting", ![h].rowSeq = NextSeq]
    BY <2>1 DEF ReadMaxSeq
  <2> QED
    BY <1>1, <2>2, Shapes DEF GenerationShape
<1>5. CASE \E h \in Generation :
             ProviderReturns(h) \/ InsertRow(h) \/ InsertRefused(h) \/ AnswerComplete(h)
  BY <1>3, <1>5 DEF ProviderReturns, InsertRow, InsertRefused, AnswerComplete
<1>6. CASE \E q, voided : Generate(q, voided)
  BY <1>2, <1>6, GenerateBegins
<1>7. CASE UNCHANGED generations
  BY <1>7
<1> QED
  BY <1>4, <1>5, <1>6, <1>7
     DEF Next, vars, HandleFinalQuestion, HandleQuestion, AnswerPending, SetAutoGenerate,
         Regenerate, NoGeneration, Exhaust

\* Who takes the question when a generation begins: it does, beside those who
\* had, or alone if the question has just come, or not at all if it is a
\* regeneration.
LEMMA TakersBegin ==
    ASSUME TranscriptInv, PendingInv, Begins
    PROVE  /\ since' = since /\ again' = again => Takers' = Takers \cup {generationSeq'}
           /\ since' = generationSeq /\ again' = again => Takers' = {generationSeq'}
           /\ since' = since /\ again' = again \cup {generationSeq'} => Takers' = Takers
<1>1. /\ generationSeq \in Nat /\ generationSeq' = generationSeq + 1
      /\ generationSeq' \in Generation
      /\ since \in Nat /\ since <= generationSeq /\ again \subseteq 1..generationSeq
  BY DEF Begins, PendingInv
<1>2. generationSeq' \notin again
  BY <1>1
<1>3. \A g \in Generation : g \in Nat
  BY OrchestratorAssumption DEF Generation
<1>4. \A g \in Generation : g <= generationSeq' <=> g <= generationSeq \/ g = generationSeq'
  BY <1>1, <1>3
<1>5. since < generationSeq' /\ generationSeq < generationSeq'
  BY <1>1
<1>6. \A g \in Generation : ~(generationSeq < g /\ g <= generationSeq)
  BY <1>1, <1>3
<1>7. ASSUME since' = since, again' = again PROVE Takers' = Takers \cup {generationSeq'}
  BY <1>1, <1>2, <1>4, <1>5, <1>7 DEF Takers
<1>8. ASSUME since' = generationSeq, again' = again PROVE Takers' = {generationSeq'}
  BY <1>1, <1>2, <1>4, <1>5, <1>6, <1>8 DEF Takers
<1>9. ASSUME since' = since, again' = again \cup {generationSeq'} PROVE Takers' = Takers
  <2>1. ASSUME NEW g \in Generation PROVE g \in Takers' <=> g \in Takers
    <3>1. CASE g = generationSeq'
      BY <1>1, <1>5, <1>9, <3>1 DEF Takers
    <3>2. CASE g # generationSeq'
      BY <1>4, <1>9, <3>2 DEF Takers
    <3> QED
      BY <3>1, <3>2
  <2>2. Takers \subseteq Generation /\ Takers' \subseteq Generation
    BY DEF Takers
  <2> QED
    BY <2>1, <2>2
<1> QED
  BY <1>7, <1>8, <1>9

\* The bounds of the history variables
LEMMA PastStep ==
    ASSUME TranscriptInv, PendingInv, [Next]_vars
    PROVE  /\ since' \in Nat /\ since' <= generationSeq'
           /\ again' \subseteq 1..generationSeq'
<1>1. /\ generationSeq \in Nat /\ generationSeq' \in Nat /\ generationSeq <= generationSeq'
      /\ since \in Nat /\ since <= generationSeq /\ again \subseteq 1..generationSeq
  BY Shapes, Progress DEF PendingInv
<1>2. 1..generationSeq \subseteq 1..generationSeq'
  BY <1>1
<1>3. since' = since \/ since' = generationSeq
  BY DEF Next, vars, past, HandleFinalQuestion, HandleQuestion, AnswerPending, SetAutoGenerate,
         Regenerate, ProviderReturns, ReadMaxSeq, InsertRow, InsertRefused, AnswerComplete,
         Exhaust
<1>4. CASE Regenerate
  <2>1. again' = again \cup {generationSeq + 1} /\ generationSeq' = generationSeq + 1
    BY <1>4 DEF Regenerate, Generate
  <2>2. generationSeq + 1 \in 1..generationSeq'
    BY <1>1, <2>1
  <2> QED
    BY <1>1, <1>2, <1>3, <2>1, <2>2
<1>5. CASE ~Regenerate
  <2>1. again' = again
    BY <1>5
       DEF Next, vars, past, HandleFinalQuestion, HandleQuestion, AnswerPending,
           SetAutoGenerate, ProviderReturns, ReadMaxSeq, InsertRow, InsertRefused,
           AnswerComplete, Exhaust
  <2> QED
    BY <1>1, <1>2, <1>3, <2>1
<1> QED
  BY <1>4, <1>5

\* Every step leaves what is pending to nobody, and what was taken to its taker.
LEMMA PendingStep ==
    ASSUME TranscriptInv, PendingInv, [Next]_vars
    PROVE  PendingInv'
<1>1. /\ hasPending \in BOOLEAN /\ autoGenerate \in BOOLEAN /\ exhausted \in BOOLEAN
      /\ generationSeq \in Nat
  BY Shapes DEF PendingInv
<1>2. NoQuestion \notin Question
  BY OrchestratorAssumption
<1> DEFINE Bools == {hasPending, autoGenerate, exhausted} \subseteq BOOLEAN
<1>3. \* a question came, and was handed to a generation
      ASSUME NEW q \in Question, NEW voided, Generate(q, voided),
             currentQuestion' = q, hasPending' = FALSE, since' = generationSeq, again' = again
      PROVE  PendingIsWaiting'
  <2>1. Begins /\ generations'[generationSeq'].question = q
    BY <1>3, GenerateAsks
  <2>2. Takers' = {generationSeq'} /\ generationSeq' \in Generation
    BY <1>3, <2>1, TakersBegin DEF Begins
  <2> QED
    BY <1>3, <2>1, <2>2 DEF PendingIsWaiting
<1>4. \* what was pending was handed to a generation
      ASSUME NEW voided, Generate(currentQuestion, voided), hasPending,
             currentQuestion' = currentQuestion, hasPending' = FALSE, UNCHANGED past
      PROVE  PendingIsWaiting'
  <2>1. Begins /\ generations'[generationSeq'].question = currentQuestion
    BY <1>4, GenerateAsks
  <2>2. Takers = {}
    BY <1>4 DEF PendingInv, PendingIsWaiting
  <2>3. Takers' = {generationSeq'} /\ generationSeq' \in Generation
    BY <1>4, <2>1, <2>2, TakersBegin DEF Begins, past
  <2> QED
    BY <1>4, <2>1, <2>3 DEF PendingIsWaiting
<1>5. \* nothing was handed to anybody
      ASSUME UNCHANGED <<currentQuestion, hasPending>>, Takers' = Takers,
             hasPending => ~(autoGenerate' /\ ~exhausted')
      PROVE  PendingIsWaiting'
  <2>1. ASSUME NEW g \in Generation, Takers = {g}
        PROVE  generations'[g].question = generations[g].question
    <3>1. g <= generationSeq
      BY <2>1 DEF Takers
    <3> QED
      BY <3>1, QuestionStays
  <2> QED
    BY <1>5, <2>1 DEF PendingInv, PendingIsWaiting
<1>6. hasPending => ~(autoGenerate /\ ~exhausted)
  BY DEF PendingInv, PendingIsWaiting
<1>7. PendingIsWaiting' /\ Bools'
  <2>1. CASE \E q \in Question \ {Screenshot} : HandleFinalQuestion(q)
    <3>1. PICK q \in Question \ {Screenshot} : HandleFinalQuestion(q)
      BY <2>1
    <3>2. /\ currentQuestion' = q /\ hasPending' = ~autoGenerate /\ since' = generationSeq
          /\ UNCHANGED <<autoGenerate, exhausted, again>>
      BY <3>1 DEF HandleFinalQuestion
    <3>3. CASE autoGenerate
      <4>1. Generate(q, TRUE) /\ hasPending' = FALSE
        BY <3>1, <3>2, <3>3 DEF HandleFinalQuestion
      <4> QED
        BY <1>1, <1>3, <3>2, <4>1
    <3>4. CASE ~autoGenerate
      <4>1. generationSeq' = generationSeq
        BY <3>1, <3>4 DEF HandleFinalQuestion, NoGeneration
      <4>2. Takers' = {}
        <5>1. \A g \in Generation : ~(generationSeq < g /\ g <= generationSeq)
          BY <1>1, OrchestratorAssumption DEF Generation
        <5> QED
          BY <3>2, <4>1, <5>1 DEF Takers
      <4> QED
        BY <1>1, <1>2, <3>2, <3>4, <4>2 DEF PendingIsWaiting
    <3> QED
      BY <1>1, <3>3, <3>4
  <2>2. CASE \E q \in Question : HandleQuestion(q)
    BY <1>1, <1>3, <2>2 DEF HandleQuestion
  <2>3. CASE AnswerPending
    BY <1>1, <1>4, <2>3 DEF AnswerPending, CanAnswerPending
  <2>4. CASE \E enabled \in BOOLEAN : SetAutoGenerate(enabled)
    <3>1. PICK enabled \in BOOLEAN : SetAutoGenerate(enabled)
      BY <2>4
    <3>2. autoGenerate' = enabled /\ UNCHANGED <<currentQuestion, exhausted, past>>
      BY <3>1 DEF SetAutoGenerate
    <3>3. CASE enabled /\ CanAnswerPending
      <4>1. hasPending' = FALSE /\ Generate(currentQuestion, TRUE) /\ hasPending
        BY <3>1, <3>3 DEF SetAutoGenerate, CanAnswerPending
      <4> QED
        BY <1>1, <1>4, <3>2, <4>1
    <3>4. CASE ~(enabled /\ CanAnswerPending)
      <4>1. hasPending' = hasPending /\ generationSeq' = generationSeq
        BY <3>1, <3>4 DEF SetAutoGenerate, NoGeneration
      <4>2. hasPending => currentQuestion # NoQuestion
        BY DEF PendingInv, PendingIsWaiting
      <4>3. hasPending => ~(enabled /\ ~exhausted)
        BY <3>4, <4>2 DEF CanAnswerPending
      <4>4. Takers' = Takers
        BY <3>2, <4>1 DEF Takers, past
      <4> QED
        BY <1>1, <1>5, <3>2, <4>1, <4>3, <4>4
    <3> QED
      BY <3>3, <3>4
  <2>5. CASE Regenerate
    <3>1. /\ UNCHANGED <<currentQuestion, hasPending, autoGenerate, exhausted, since>>
          /\ Generate(currentQuestion, FALSE) /\ again' = again \cup {generationSeq + 1}
      BY <2>5 DEF Regenerate
    <3>2. Begins
      BY <3>1, GenerateBegins
    <3>3. Takers' = Takers
      BY <3>1, <3>2, TakersBegin DEF Begins
    <3> QED
      BY <1>1, <1>5, <1>6, <3>1, <3>3
  <2>6. CASE \E g \in Generation :
               ProviderReturns(g) \/ ReadMaxSeq(g) \/ InsertRow(g) \/ InsertRefused(g)
                  \/ AnswerComplete(g)
    <3>1. UNCHANGED <<currentQuestion, hasPending, autoGenerate, exhausted, generationSeq, past>>
      BY <2>6 DEF ProviderReturns, ReadMaxSeq, InsertRow, InsertRefused, AnswerComplete
    <3>2. Takers' = Takers
      BY <3>1 DEF Takers, past
    <3> QED
      BY <1>1, <1>5, <1>6, <3>1, <3>2
  <2>7. CASE Exhaust
    <3>1. /\ UNCHANGED <<currentQuestion, hasPending, autoGenerate, generationSeq, past>>
          /\ exhausted' = TRUE
      BY <2>7 DEF Exhaust
    <3>2. Takers' = Takers
      BY <3>1 DEF Takers, past
    <3> QED
      BY <1>1, <1>5, <3>1, <3>2
  <2>8. CASE UNCHANGED vars
    <3>1. UNCHANGED <<currentQuestion, hasPending, autoGenerate, exhausted, generationSeq, past>>
      BY <2>8 DEF vars
    <3>2. Takers' = Takers
      BY <3>1 DEF Takers, past
    <3> QED
      BY <1>1, <1>5, <1>6, <3>1, <3>2
  <2> QED
    BY <2>1, <2>2, <2>3, <2>4, <2>5, <2>6, <2>7, <2>8 DEF Next
<1> QED
  BY <1>7, PastStep DEF PendingInv

\* The current question is answered once: a pending one was handed to no
\* generation since it came, and one that is not pending to exactly one, as its
\* question (hasPending of sessionOrchestrator.ts), in every order of speech,
\* switches, the Answer button, typed questions, regenerations and exhaustion.
THEOREM PendingAlwaysWaits == Spec => []PendingIsWaiting
<1>1. Init => TranscriptInv /\ PendingInv
  <2> SUFFICES ASSUME Init PROVE TranscriptInv /\ PendingInv
    OBVIOUS
  <2>1. TranscriptInv
    BY InitTranscript
  <2>2. /\ hasPending = FALSE /\ autoGenerate = FALSE /\ exhausted = FALSE
        /\ currentQuestion = NoQuestion /\ generationSeq = 0 /\ since = 0 /\ again = {}
    BY DEF Init
  <2>3. PendingIsWaiting
    BY <2>2 DEF PendingIsWaiting
  <2>4. 0 \in Nat /\ 0 <= 0 /\ {} \subseteq 1..0
    OBVIOUS
  <2>5. {hasPending, autoGenerate, exhausted} \subseteq BOOLEAN
    BY <2>2
  <2> QED
    BY <2>1, <2>2, <2>3, <2>4, <2>5 DEF PendingInv
<1>2. TranscriptInv /\ PendingInv /\ [Next]_vars => (TranscriptInv /\ PendingInv)'
  BY TranscriptStep, PendingStep
<1>3. PendingInv => PendingIsWaiting
  BY DEF PendingInv
<1> QED
  BY <1>1, <1>2, <1>3, PTL DEF Spec
=============================================================================
