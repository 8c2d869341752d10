------------------------------ MODULE AnswerStream ------------------------------
(***************************************************************************)
(* An answer on its way to the candidate: the Overlay's buttons, the       *)
(* commands they send, the orchestrator and the provider that serve them,  *)
(* and the token, complete and error messages that come back and are       *)
(* batched into the answer card.  Both directions are FIFO (one WebSocket, *)
(* one IPC channel each way); lost connections are SessionClient's.  The   *)
(* Overlay is unmounted while the window is a pill, and mounted anew.      *)
(***************************************************************************)
EXTENDS Orchestrator, LlmProvider

CONSTANT MaxCommands   \* bound: commands the user gives

\* Each generation of the orchestrator is a call of generate.
ASSUME StreamAssumption == MaxCommands \in Nat /\ Request = Generation

VARIABLES
    inbox,           \* messages to the renderer, in order
    outbox,          \* commands to the orchestrator, in order
    shots,           \* screenshots being taken by the main process
    commands,        \* bound: commands given so far
    overlay          \* the state and refs of the mounted Overlay

streamVars == <<vars, llm, calls, inbox, outbox, shots, commands, overlay>>
provVars == <<llm, calls>>
uiVars == <<outbox, shots, commands, overlay>>

Message == [kind : {"token", "complete", "error"}, by : Generation]
Command == [kind : {"text", "screenshot", "regenerate", "auto"}, question : Question, on : BOOLEAN]

\* Text in the answer card: a part of a generation's answer, or the whole.
Piece == [by : Generation, whole : BOOLEAN]

\* The failure the banner told of last: of a generation, or of a screenshot,
\* which is named by the newest generation there was.  Notices of the relay or the
\* credits, which may take its place, are left out.
NoBanner == -1

\* A mounted Overlay, as its useState and useRef calls make it, and the
\* screenshots it asked for and whose outcome it awaits.
FreshOverlay ==
    [mounted |-> TRUE, answered |-> NoQuestion, answer |-> <<>>, batch |-> <<>>,
     frame |-> FALSE, generating |-> FALSE, autoGen |-> FALSE, banner |-> NoBanner,
     asked |-> 0]

StreamTypeOK ==
    /\ CallsTypeOK
    /\ inbox \in Seq(Message)
    /\ outbox \in Seq(Command)
    /\ shots \in 0..MaxCommands
    /\ commands \in 0..MaxCommands
    /\ overlay \in [mounted : BOOLEAN, answered : Question \cup {NoQuestion},
                    answer : Seq(Piece), batch : Seq(Piece), frame : BOOLEAN,
                    generating : BOOLEAN, autoGen : BOOLEAN,
                    banner : {NoBanner} \cup 0..MaxGenerations, asked : 0..MaxCommands]
    /\ overlay.batch # <<>> => overlay.frame
    /\ overlay.asked <= shots

StreamInit ==
    /\ Init
    /\ CallsInit
    /\ inbox = <<>>
    /\ outbox = <<>>
    /\ shots = 0
    /\ commands = 0
    /\ overlay = FreshOverlay

-----------------------------------------------------------------------------
(* The backend                                                              *)

Send(kind, g) == inbox' = Append(inbox, [kind |-> kind, by |-> g])

\* What a step of the orchestrator does to the provider: a generation it
\* starts is a call, with the image if it comes from handleScreenshot.
StartsCall(image) ==
    IF generationSeq' > generationSeq THEN StartCall(generationSeq', image)
    ELSE UNCHANGED provVars

\* A question finalized by the STT relay
SpokenQuestion(q) ==
    /\ HandleFinalQuestion(q)
    /\ StartsCall(FALSE)
    /\ UNCHANGED <<inbox, uiVars>>

\* What a command comes to: nothing for an exhausted session, and nothing for
\* a regenerate without a question.
Ignored(c) ==
    /\ c.kind # "auto"
    /\ exhausted \/ (c.kind = "regenerate" /\ currentQuestion = NoQuestion)

Serve(c) ==
    \/ Ignored(c) /\ UNCHANGED vars
    \/ c.kind \in {"text", "screenshot"} /\ HandleQuestion(c.question)
    \/ c.kind = "regenerate" /\ Regenerate
    \/ c.kind = "auto" /\ SetAutoGenerate(c.on)

\* handleControl takes the commands one by one
HandleCommand ==
    /\ outbox # <<>>
    /\ Serve(Head(outbox))
    /\ StartsCall(Head(outbox).kind = "screenshot")
    /\ outbox' = Tail(outbox)
    /\ UNCHANGED <<inbox, shots, commands, overlay>>

\* seq = this.generationSeq
Newest(g) == g = generationSeq

\* onToken: a chunk of a superseded generation is dropped.
Token(g) ==
    /\ Chunk(g)
    /\ IF Newest(g) THEN Send("token", g) ELSE UNCHANGED inbox
    /\ UNCHANGED <<vars, uiVars>>

\* generate of the provider returns: an answer is on its way to the table, an
\* error to the client, and what is superseded is dropped.
ProviderAnswers(g) ==
    /\ StreamEnds(g) \/ StreamThrows(g) \/ TimesOut(g) \/ Unconfigured(g)
    /\ ProviderReturns(g)
    /\ (generations'[g].at = "appending") = (calls'[g].outcome = "ok" /\ Newest(g))
    /\ IF Newest(g) /\ calls'[g].outcome # "ok" THEN Send("error", g) ELSE UNCHANGED inbox
    /\ UNCHANGED uiVars

\* qna.append of the generation, and answer_complete
Persist(g) ==
    /\ \/ (ReadMaxSeq(g) \/ InsertRow(g) \/ InsertRefused(g)) /\ UNCHANGED inbox
       \/ AnswerComplete(g) /\ Send("complete", g)
    /\ UNCHANGED <<provVars, uiVars>>

StreamExhaust == Exhaust /\ UNCHANGED <<provVars, inbox, uiVars>>

AbandonedStream(g) == AbandonedEnds(g) /\ UNCHANGED <<vars, inbox, uiVars>>

-----------------------------------------------------------------------------
(* The Overlay: what the user does                                          *)

backendVars == <<vars, provVars, inbox>>

Command1(kind, q, on) == [kind |-> kind, question |-> q, on |-> on]

Give ==
    /\ overlay.mounted
    /\ commands < MaxCommands
    /\ commands' = commands + 1

\* Each button empties the card and shows it as generating; the batch of
\* tokens waiting for the next frame stays.
Asking(o) == [o EXCEPT !.answer = <<>>, !.generating = TRUE]

\* answerQuestion and onChatSend
AskText(q) ==
    /\ Give
    /\ overlay' = [Asking(overlay) EXCEPT !.answered = q]
    /\ outbox' = Append(outbox, Command1("text", q, FALSE))
    /\ UNCHANGED <<backendVars, shots>>

\* onRegenerate: the button is on the answer card.
HasAnswerPanel ==
    overlay.answer # <<>> \/ overlay.generating \/ overlay.answered # NoQuestion

AskAgain ==
    /\ Give
    /\ HasAnswerPanel
    /\ overlay' = Asking(overlay)
    /\ outbox' = Append(outbox, Command1("regenerate", Screenshot, FALSE))
    /\ UNCHANGED <<backendVars, shots>>

\* onScreenshot asks the main process for the image, which takes a while.
AskScreenshot ==
    /\ Give
    /\ overlay' = [Asking(overlay) EXCEPT !.answered = Screenshot, !.asked = @ + 1]
    /\ shots' = shots + 1
    /\ UNCHANGED <<backendVars, outbox>>

\* The outcome is for the Overlay that asked, which sets its own state: after a
\* collapse nobody sees it.
Reply(o, shown) ==
    /\ shots > 0
    /\ shots' = shots - 1
    /\ \/ o.asked > 0 /\ overlay' = [shown EXCEPT !.asked = @ - 1]
       \/ o.asked < shots /\ UNCHANGED overlay

ScreenshotTaken ==
    /\ Reply(overlay, overlay)
    /\ outbox' = Append(outbox, Command1("screenshot", Screenshot, FALSE))
    /\ UNCHANGED <<backendVars, commands>>

ScreenshotFails ==
    /\ Reply(overlay, [overlay EXCEPT !.generating = FALSE, !.banner = generationSeq])
    /\ UNCHANGED <<backendVars, outbox, commands>>

\* toggleAuto flips what the Overlay shows.
ToggleAuto ==
    /\ Give
    /\ overlay' = [overlay EXCEPT !.autoGen = ~@]
    /\ outbox' = Append(outbox, Command1("auto", Screenshot, ~overlay.autoGen))
    /\ UNCHANGED <<backendVars, shots>>

\* The pill takes the Overlay's place, and its state is gone.
Collapse ==
    /\ Give
    /\ overlay' = [FreshOverlay EXCEPT !.mounted = FALSE]
    /\ UNCHANGED <<backendVars, outbox, shots>>

Expand ==
    /\ ~overlay.mounted
    /\ overlay' = FreshOverlay
    /\ UNCHANGED <<backendVars, outbox, shots, commands>>

-----------------------------------------------------------------------------
(* The Overlay: what it is told                                             *)

\* IPC_EVT_ANSWER_TOKEN: into the batch, and a frame is asked for.
OnToken(o, g) ==
    [o EXCEPT !.generating = TRUE, !.frame = TRUE,
              !.batch = Append(@, [by |-> g, whole |-> FALSE])]

\* A stream that ends without a chunk is an answer without text.
Whole(g) == IF calls[g].chunks = 0 THEN <<>> ELSE <<[by |-> g, whole |-> TRUE]>>

\* Mutant: the frame that was asked for is left to run.
OnCompleteKeepingBatch(o, g) == [o EXCEPT !.generating = FALSE, !.answer = Whole(g)]

\* IPC_EVT_ANSWER_COMPLETE: the whole answer takes the place of its parts.
OnComplete(o, g) ==
    [o EXCEPT !.frame = FALSE, !.batch = <<>>, !.generating = FALSE, !.answer = Whole(g)]

\* Mutant: the error is not told.
OnErrorUntold(o, g) == [o EXCEPT !.generating = FALSE]

\* IPC_EVT_ANSWER_ERROR: the parts stay, and so does an empty card.
OnError(o, g) == [o EXCEPT !.generating = FALSE, !.banner = g]

\* Without a mounted Overlay nobody listens.
Deliver ==
    /\ inbox # <<>>
    /\ inbox' = Tail(inbox)
    /\ LET m == Head(inbox)
           told == CASE m.kind = "token" -> OnToken(overlay, m.by)
                     [] m.kind = "complete" -> OnComplete(overlay, m.by)
                     [] m.kind = "error" -> OnError(overlay, m.by)
       IN  overlay' = IF overlay.mounted THEN told ELSE overlay
    /\ UNCHANGED <<vars, provVars, outbox, shots, commands>>

\* requestAnimationFrame: the batch is added to the card.
Frame ==
    /\ overlay.frame
    /\ overlay' = [overlay EXCEPT !.frame = FALSE, !.batch = <<>>,
                                  !.answer = @ \o overlay.batch]
    /\ UNCHANGED <<backendVars, outbox, shots, commands>>

-----------------------------------------------------------------------------
StreamNext ==
    \/ /\ alive
       /\ \/ \E q \in Question \ {Screenshot} : SpokenQuestion(q)
          \/ HandleCommand
          \/ \E g \in Generation :
                Token(g) \/ ProviderAnswers(g) \/ Persist(g) \/ AbandonedStream(g)
          \/ StreamExhaust
    \/ \E q \in Question \ {Screenshot} : AskText(q)
    \/ AskAgain
    \/ AskScreenshot
    \/ ScreenshotTaken
    \/ ScreenshotFails
    \/ ToggleAuto
    \/ Collapse
    \/ Expand
    \/ Deliver
    \/ Frame

StreamSpec == StreamInit /\ [][StreamNext]_streamVars

-----------------------------------------------------------------------------
(* Properties                                                               *)

\* Nothing is on its way between the Overlay and the orchestrator, nor to the card.
AtRest ==
    /\ InFlight = {}
    /\ inbox = <<>>
    /\ outbox = <<>>
    /\ shots = 0
    /\ ~overlay.frame

\* A row of the transcript was refused, and its generation gave up silently.
Refused ==
    \E g \in Generation : /\ generations[g].at = "over"
                          /\ generations[g].rowSeq > 0
                          /\ g \notin {rows[i].by : i \in DOMAIN rows}

\* The card never shows a part of an answer beside the whole of it, however
\* tokens, frames, completion and the user's buttons interleave: no token
\* comes after the completion of its generation, and none is left to a frame.
NeverShownTwice ==
    LET shown == overlay.answer \o overlay.batch
    IN  \A i, j \in DOMAIN shown :
            shown[i].whole /\ shown[i].by = shown[j].by => i = j

\* A superseded answer is never mixed into a later one: once text of a later
\* generation is in the card or the batch, only its completion can bring an
\* earlier one back.
PartsInOrder ==
    LET shown == overlay.answer \o overlay.batch
    IN  \A i, j \in DOMAIN shown :
            i < j /\ ~shown[i].whole /\ ~shown[j].whole => shown[i].by <= shown[j].by

\* What the card shows is one answer, whole or in the order of its parts.
CardShowsOneAnswer == NeverShownTwice /\ PartsInOrder

\* The session cannot answer: the process died, the credits are used up, or a
\* row was refused.
Excused == ~alive \/ exhausted \/ Refused

\* The card shows "Generating answer...": it is there and has no text.
ShowsWaiting == overlay.mounted /\ HasAnswerPanel /\ overlay.answer = <<>>

\* The newest request failed, and the banner told so.
FailureShown == overlay.banner = generationSeq

\* The answer shown last has no text.
LastIsEmpty == answers # <<>> /\ calls[Last(answers)].chunks = 0

\* The card does not wait unseen for an answer that is not coming.  At rest it
\* shows "Generating answer..." only if the session cannot answer, the newest
\* request failed and the banner told of that very failure, or the answer was
\* empty; and it shows an answer as still being streamed only if the session
\* cannot answer, or nothing was generated and the failed screenshot is told of.
WaitsForAnAnswer ==
    AtRest =>
        /\ ShowsWaiting => Excused \/ FailureShown \/ LastIsEmpty
        /\ overlay.mounted /\ overlay.generating => Excused \/ (generationSeq = 0 /\ FailureShown)

-----------------------------------------------------------------------------
(* What the documents say, and the code does not do: see the README.         *)

\* An answer that failed leaves no placeholder behind (design.md:516 of
\* it-interview-assistant, "A pending answer placeholder is cleared in the
\* Overlay_UI"): at rest the card shows "Generating answer..." at most in a session
\* that cannot answer.  It is cleared by the first text only, so that it stays
\* after an error before the first token, a failed screenshot and an empty answer.
PlaceholderCleared == AtRest /\ ShowsWaiting => Excused

\* Expanding brings back the screen that was collapsed (App.tsx:38, Req 8.3):
\* at rest the Auto Generate box shows what the orchestrator does.
AutoGenerateShown ==
    AtRest /\ overlay.mounted /\ alive => overlay.autoGen = autoGenerate

\* The question above an answer is the one it answers (Overlay.tsx:57, "the Q
\* the answer is for").
AnswerUnderItsQuestion ==
    AtRest /\ overlay.mounted =>
        \A i \in DOMAIN overlay.answer : overlay.answer[i].whole =>
            generations[overlay.answer[i].by].question = overlay.answered

\* A screenshot is answered from its image, again when it is regenerated
\* (requirements.md:130, "a new answer for that Question").
ScreenshotsAreSeen ==
    \A g \in Generation :
        generations[g].question = Screenshot => calls[g].vision
=============================================================================
