----------------------------- MODULE TurnPipeline -----------------------------
(***************************************************************************)
(* The turn-taking core of one live call: transcripts come in, at most one  *)
(* response at a time is generated, synthesized, gated and played, and a    *)
(* caller who speaks over it makes the session drop it.                     *)
(*                                                                          *)
(* The session is one asyncio event loop, so a handler is atomic from one   *)
(* real suspension to the next; the actions below are those segments.  The  *)
(* processes are the transcript listener, the LLM turn tasks, the           *)
(* synthesizer listener, the output loop, the regeneration timer and the    *)
(* carrier, which echoes one mark per frame it has played.                  *)
(*                                                                          *)
(* A response is known by its sequence id.  Texts, turn ids, latencies and  *)
(* clocks are abstracted away; a time window is a flag that may close.      *)
(***************************************************************************)
EXTENDS Integers, Sequences

CONSTANTS MaxSeq,       \* bound: sequence ids handed out in one behaviour
          RegenSettle,  \* regen_settle_can_fire(): finals may land in the window
          EagerTurns,   \* the transcriber emits eager_end_of_turn
          ToolCalls,    \* the agent has API tools
          BargeInOff    \* number_of_words_for_interruption is 0

ASSUME ConstantsAssumption ==
    /\ MaxSeq \in Nat \ {0}
    /\ RegenSettle \in BOOLEAN /\ EagerTurns \in BOOLEAN /\ ToolCalls \in BOOLEAN
    /\ BargeInOff \in BOOLEAN

Ids == 1..MaxSeq
NoSeq == 0
System == -1                       \* the id of system prompts, never invalidated
Chunk == [seq: Ids, kind: {"audio", "end"}]
NoChunk == [seq |-> NoSeq, kind |-> "none"]
Mark == [seq: Ids, kind: {"pre", "post", "final"}]

VARIABLES
    calleeSpeaking, sequenceIds, currSeq, utteranceRecent,   \* InterruptionManager
    gen, spoke, llmTask, eagerTask, functionCallInFlight,    \* LLM turn tasks
    eagerSeq,                                                \* eager_meta_info's id
    responseInPipeline, awaitingFirstAudio, audioFlushed,    \* pipeline flags
    history, eagerSnapshot,                                  \* conversation history
    staged, committed, sentAudio, blocked,                   \* staged assistant rows
    synthQueue, outputQueue, held, sending,                  \* audio on its way out
    marks, audioPlaying,                                     \* mark ledger, input flag
    listener, current, settlePayload, eagerOpen              \* listener, regen timer

imVars == <<calleeSpeaking, sequenceIds, currSeq, utteranceRecent>>
genVars == <<gen, spoke, llmTask, eagerTask, functionCallInFlight, eagerSeq>>
flagVars == <<responseInPipeline, awaitingFirstAudio, audioFlushed>>
historyVars == <<history, eagerSnapshot>>
stagedVars == <<staged, committed, sentAudio, blocked>>
outVars == <<synthQueue, outputQueue, held, sending>>
carrierVars == <<marks, audioPlaying>>
listenerVars == <<listener, current, settlePayload, eagerOpen>>
vars == <<imVars, genVars, flagVars, historyVars, stagedVars, outVars,
          carrierVars, listenerVars>>

GenStates == {"none", "running", "tool", "followup", "done", "unflushed", "cancelled"}
LiveStates == {"running", "tool", "followup"}
ListenerStates == {"idle", "route", "clearOutput", "clearSynth"}
\* What the turn logic reads of conversation_history: whether its last row is the
\* caller's, and whether it has rows beyond the system prompt and the welcome.
History == [last: {"user", "agent"}, long: BOOLEAN]
NoSnapshot == [last |-> "none", long |-> FALSE]
UserRow == [last |-> "user", long |-> TRUE]
AgentRow == [last |-> "agent", long |-> TRUE]

TypeIM ==
    /\ calleeSpeaking \in BOOLEAN /\ utteranceRecent \in BOOLEAN
    /\ sequenceIds \in SUBSET (Ids \cup {System}) /\ System \in sequenceIds
    /\ currSeq \in 0..MaxSeq
TypeGen ==
    /\ gen \in [Ids -> GenStates] /\ spoke \in SUBSET Ids
    /\ llmTask \in Ids \cup {NoSeq} /\ eagerTask \in Ids \cup {NoSeq}
    /\ functionCallInFlight \in BOOLEAN /\ eagerSeq \in Ids \cup {NoSeq}
TypeFlags ==
    /\ responseInPipeline \in BOOLEAN /\ awaitingFirstAudio \in BOOLEAN
    /\ audioFlushed \in BOOLEAN
TypeHistory == history \in History /\ eagerSnapshot \in History \cup {NoSnapshot}
TypeStaged ==
    /\ staged \in SUBSET Ids /\ committed \in SUBSET Ids
    /\ sentAudio \in SUBSET Ids /\ blocked \in SUBSET Ids
TypeOut ==
    /\ synthQueue \in Seq(Chunk) /\ outputQueue \in Seq(Chunk)
    /\ held \in Chunk \cup {NoChunk} /\ sending \in BOOLEAN
TypeCarrier == marks \in Seq(Mark) /\ audioPlaying \in BOOLEAN
TypeListener ==
    /\ listener \in ListenerStates /\ current \in Ids \cup {NoSeq}
    /\ settlePayload \in Ids \cup {NoSeq} /\ eagerOpen \in BOOLEAN

TypeOK ==
    /\ TypeIM /\ TypeGen /\ TypeFlags /\ TypeHistory
    /\ TypeStaged /\ TypeOut /\ TypeCarrier /\ TypeListener

\* The call has been greeted: the system prompt and the welcome are in history.
Init ==
    /\ calleeSpeaking = FALSE /\ sequenceIds = {System} /\ currSeq = 0
    /\ utteranceRecent = FALSE
    /\ gen = [s \in Ids |-> "none"] /\ spoke = {}
    /\ llmTask = NoSeq /\ eagerTask = NoSeq /\ functionCallInFlight = FALSE
    /\ eagerSeq = NoSeq
    /\ responseInPipeline = FALSE /\ awaitingFirstAudio = FALSE
    /\ audioFlushed = TRUE
    /\ history = [last |-> "agent", long |-> FALSE] /\ eagerSnapshot = NoSnapshot
    /\ staged = {} /\ committed = {} /\ sentAudio = {} /\ blocked = {}
    /\ synthQueue = <<>> /\ outputQueue = <<>> /\ held = NoChunk /\ sending = FALSE
    /\ marks = <<>> /\ audioPlaying = FALSE
    /\ listener = "idle" /\ current = NoSeq /\ settlePayload = NoSeq
    /\ eagerOpen = FALSE

-------------------------------------------------------------------------------
(* Shared predicates.                                                       *)

Live(s) == s \in Ids /\ gen[s] \in LiveStates
Armed == settlePayload # NoSeq

\* has_pending_responses_excluding(s); NoSeq excludes nothing.
PendingExcluding(s) == sequenceIds \ {System, s} # {}

\* has_interruptible_mark_activity: pre-marks alone are not activity.
PendingMarks == \E i \in 1..Len(marks) : marks[i].kind # "pre"

\* inflight_response_activity, as any(activity.values())
InflightActivity(s) ==
    responseInPipeline \/ audioPlaying \/ PendingMarks \/ PendingExcluding(s)
        \/ Live(llmTask)

\* invalidate_pending_responses: only the id of system prompts stays valid.
InvalidatedAll == {}
InvalidatedNone == sequenceIds
Invalidated == {System}

\* revalidate_sequence_id
RevalidateLost(ids, s) == ids
Revalidate(ids, s) == ids \cup {s}

\* get_audio_send_status
AudioSendStatus(s) ==
    IF s \notin sequenceIds THEN "BLOCK"
    ELSE IF calleeSpeaking \/ (history.long /\ utteranceRecent) THEN "WAIT"
    ELSE "SEND"

\* Cancelling turn tasks: a live one stops at its suspension, and a tool call or
\* its follow-up leaves function_call_in_flight through the finally.
Cancelled(g, S) ==
    [s \in Ids |-> IF s \in S /\ g[s] \in LiveStates THEN "cancelled" ELSE g[s]]
InFlightAfter(S) ==
    functionCallInFlight /\ \A s \in S \cap Ids : gen[s] \notin {"tool", "followup"}

\* commit_staged_assistant_history
CommitStaged(s) ==
    IF s \in staged \ committed
    THEN /\ staged' = staged \ {s}
         /\ committed' = committed \cup {s}
         /\ history' = AgentRow
    ELSE UNCHANGED <<staged, committed, history>>

StageAndCommit(s) ==
    /\ staged' = staged \ {s}
    /\ committed' = committed \cup {s}
    /\ history' = AgentRow

\* stage_assistant_history, with its rescue commit when SEND already passed.
StageAssistant(s) ==
    IF s \in (sentAudio \ blocked) \ committed
    THEN /\ staged' = staged \ {s}
         /\ committed' = committed \cup {s}
         /\ history' = AgentRow
    ELSE staged' = staged \cup {s} /\ UNCHANGED <<committed, history>>

\* _synthesize for one text of response s: to the synthesizer, or dropped as stale.
Synthesize(s, kind) ==
    IF s \in sequenceIds
    THEN /\ synthQueue' = Append(synthQueue, [seq |-> s, kind |-> kind])
         /\ awaitingFirstAudio' = TRUE
         /\ UNCHANGED responseInPipeline
    ELSE /\ responseInPipeline' = FALSE /\ awaitingFirstAudio' = FALSE
         /\ UNCHANGED synthQueue

\* kickoff_llm_generation for response s; ids, g and st are the valid ids, the
\* generations and the staged rows at that point of the calling handler.
Kickoff(s, ids, g, st) ==
    LET stale == {t \in Ids : t = llmTask /\ g[t] \in LiveStates}
    IN /\ sequenceIds' = Revalidate(IF stale = {} THEN ids ELSE Invalidated, s)
       /\ staged' = IF stale = {} THEN st ELSE {}
       /\ gen' = [Cancelled(g, stale) EXCEPT ![s] = "running"]
       /\ llmTask' = s
       /\ responseInPipeline' = TRUE

\* get_next_sequence_id: a new id, valid at once where it is used below.
NextSeqStuck == IF currSeq = 0 THEN 1 ELSE currSeq
NextSeq == currSeq + 1
Allocate == currSeq < MaxSeq /\ currSeq' = NextSeq

-------------------------------------------------------------------------------
(* The transcript listener.  It handles one message at a time; a handler that  *)
(* suspends leaves `listener` at the suspension.                              *)

StartCleanupArmed(s) ==
    /\ listener' = "clearOutput" /\ current' = s
    /\ UNCHANGED settlePayload

\* The first statements of cleanup_downstream_tasks, up to its first suspension.
\* s is the turn to route once the cleanup is over, NoSeq for an interim.
StartCleanup(s) ==
    /\ settlePayload' = NoSeq
    /\ listener' = "clearOutput" /\ current' = s

\* A long interim while a response plays or is on its way: barge-in.
InterimBargeIn ==
    /\ listener = "idle" /\ ~functionCallInFlight /\ ~BargeInOff
    /\ audioPlaying \/ responseInPipeline
    /\ calleeSpeaking' = TRUE
    /\ sequenceIds' = Invalidated
    /\ audioPlaying' = FALSE
    /\ StartCleanup(NoSeq)
    /\ UNCHANGED <<currSeq, utteranceRecent, genVars, flagVars, historyVars,
                   stagedVars, outVars, marks, eagerOpen>>

\* A long interim within the grace period of a turn whose answer is pending.  With
\* barge-in switched off this branch also takes what would have been a barge-in.
InterimContinuation ==
    /\ listener = "idle" /\ ~functionCallInFlight
    /\ ~audioPlaying /\ (responseInPipeline => BargeInOff)
    /\ PendingExcluding(NoSeq) /\ utteranceRecent /\ history.long
    /\ calleeSpeaking' = TRUE /\ utteranceRecent' = FALSE
    /\ StartCleanup(NoSeq)
    /\ UNCHANGED <<sequenceIds, currSeq, genVars, flagVars, historyVars, stagedVars,
                   outVars, carrierVars, eagerOpen>>

\* Any other interim marks the caller as speaking; over playing audio it is too short
\* and ignored, unless barge-in is switched off.
InterimSpeaking ==
    /\ listener = "idle" /\ ~functionCallInFlight /\ (audioPlaying => BargeInOff)
    /\ ~calleeSpeaking /\ calleeSpeaking' = TRUE
    /\ UNCHANGED <<sequenceIds, currSeq, utteranceRecent, genVars, flagVars,
                   historyVars, stagedVars, outVars, carrierVars, listenerVars>>

\* eager_end_of_turn: a speculative generation and the turn's user row.  The
\* transcriber sends at most one per caller turn, while the caller speaks.
EagerEndOfTurn ==
    /\ EagerTurns /\ listener = "idle" /\ calleeSpeaking /\ ~eagerOpen
    /\ ~audioPlaying /\ ~responseInPipeline /\ ~Armed
    /\ Allocate
    /\ sequenceIds' = sequenceIds \cup {NextSeq}
    /\ gen' = [gen EXCEPT ![NextSeq] = "running"]
    /\ eagerTask' = NextSeq /\ eagerSeq' = NextSeq
    /\ eagerSnapshot' = history
    /\ history' = UserRow
    /\ eagerOpen' = TRUE
    /\ UNCHANGED <<calleeSpeaking, utteranceRecent, spoke, llmTask,
                   functionCallInFlight, flagVars, stagedVars, outVars, carrierVars,
                   listener, current, settlePayload>>

\* turn_resumed: the speculative task is cancelled and history cut back.
TurnResumed ==
    /\ listener = "idle" /\ eagerOpen /\ eagerOpen' = FALSE
    /\ IF eagerTask # NoSeq
       THEN /\ gen' = Cancelled(gen, {eagerTask})
            /\ functionCallInFlight' = InFlightAfter({eagerTask})
            /\ eagerTask' = NoSeq /\ eagerSeq' = NoSeq
            /\ history' = IF eagerSnapshot = NoSnapshot THEN history ELSE eagerSnapshot
       ELSE UNCHANGED <<gen, functionCallInFlight, eagerTask, eagerSeq, history>>
    /\ UNCHANGED <<imVars, spoke, llmTask, flagVars, eagerSnapshot, stagedVars,
                   outVars, carrierVars, listener, current, settlePayload>>

\* A final that is dropped: too short over playing audio, or a tool call runs.
FinalIgnored ==
    /\ listener = "idle"
    /\ audioPlaying \/ functionCallInFlight
    /\ calleeSpeaking \/ eagerOpen
    /\ calleeSpeaking' = FALSE /\ eagerOpen' = FALSE
    /\ UNCHANGED <<sequenceIds, currSeq, utteranceRecent, genVars, flagVars,
                   historyVars, stagedVars, outVars, carrierVars, listener, current,
                   settlePayload>>

\* A final that is to be handled: neither dropped nor the confirmation of a
\* speculative turn.
FinalHeard ==
    /\ listener = "idle" /\ ~functionCallInFlight
    /\ ~(eagerOpen /\ eagerTask # NoSeq)

\* Its handler up to the one suspension it has: maybe_update_tts_language configures
\* a synthesizer for the language the transcriber detected.  No transcriber with
\* speculative turns detects languages, so there a final is routed at once.
FinalTranscript ==
    /\ ~EagerTurns /\ FinalHeard /\ currSeq < MaxSeq
    /\ calleeSpeaking' = FALSE /\ utteranceRecent' = TRUE
    /\ listener' = "route" /\ eagerOpen' = FALSE
    /\ UNCHANGED <<sequenceIds, currSeq, genVars, flagVars, historyVars, stagedVars,
                   outVars, carrierVars, current, settlePayload>>

\* A final that confirms the speculative turn: its task becomes the turn's task.
\* The branch that drops the speculative reply for an armed settle window is not
\* reached: the transcriber with eager turns has no settle window
\* (REGEN_SETTLE_EXCLUDED_TRANSCRIBERS).
FinalEager ==
    LET stale == {t \in Ids : t = llmTask /\ Live(t)}
    IN /\ listener = "idle" /\ ~functionCallInFlight
       /\ eagerOpen /\ eagerTask # NoSeq /\ eagerOpen' = FALSE
       /\ calleeSpeaking' = FALSE /\ utteranceRecent' = TRUE
       /\ sequenceIds' = Revalidate(IF stale = {} THEN sequenceIds ELSE Invalidated, eagerSeq)
       /\ gen' = Cancelled(gen, stale)
       /\ functionCallInFlight' = InFlightAfter(stale)
       /\ responseInPipeline' = TRUE
       /\ llmTask' = eagerTask /\ eagerTask' = NoSeq
       /\ eagerSeq' = NoSeq /\ eagerSnapshot' = NoSnapshot
       /\ UNCHANGED <<currSeq, spoke, awaitingFirstAudio, audioFlushed, history, stagedVars,
                      outVars, carrierVars, listener, current, settlePayload>>

\* speech_ended: an utterance end with no new transcript.
SpeechEnded ==
    /\ listener = "idle" /\ calleeSpeaking /\ calleeSpeaking' = FALSE
    /\ UNCHANGED <<sequenceIds, currSeq, utteranceRecent, genVars, flagVars,
                   historyVars, stagedVars, outVars, carrierVars, listenerVars>>

\* The router's turn: after the suspension, or at once where there is none.  The
\* final gets its sequence id here; the bound leaves one to a tool call in flight.
AtRouter ==
    /\ listener = "route" \/ (EagerTurns /\ FinalHeard)
    /\ Allocate /\ (functionCallInFlight => NextSeq < MaxSeq)
    /\ calleeSpeaking' = FALSE
    /\ utteranceRecent' = (utteranceRecent \/ listener = "idle")
    /\ eagerOpen' = FALSE

\* A re-delivered final: its id is allocated and retired at once.
FinalDuplicate ==
    /\ AtRouter /\ history.last = "user"
    /\ listener' = "idle"
    /\ UNCHANGED <<sequenceIds, genVars, flagVars, historyVars, stagedVars, outVars,
                   carrierVars, current, settlePayload>>

\* A final with nothing in flight is answered at once.
RouteTranscript ==
    /\ AtRouter /\ ~InflightActivity(NextSeq) /\ ~Armed
    /\ history' = UserRow
    /\ Kickoff(NextSeq, sequenceIds \cup {NextSeq}, gen, staged)
    /\ listener' = "idle"
    /\ UNCHANGED <<spoke, eagerTask, eagerSeq, functionCallInFlight, awaitingFirstAudio,
                   audioFlushed, eagerSnapshot, committed, sentAudio, blocked, outVars,
                   carrierVars, current, settlePayload>>

\* The same over a response in flight: pop_and_merge_user takes the caller's last
\* row out of history, which may leave only the welcome; then the cleanup starts.
\* An open settle window alone would merge without a cleanup, but the id of the
\* owed turn is valid and counts as a response in flight.
RouteOverlapped ==
    /\ AtRouter /\ InflightActivity(NextSeq)
    /\ sequenceIds' = sequenceIds \cup {NextSeq}
    /\ history' \in IF history.last = "user"
                    THEN [last: {"agent"}, long: BOOLEAN] ELSE {history}
    /\ StartCleanup(NextSeq)
    /\ UNCHANGED <<genVars, flagVars, eagerSnapshot, stagedVars, outVars, carrierVars>>

\* output.handle_interruption: the clear is sent and the mark ledger emptied.
OutputCleared ==
    /\ listener = "clearOutput" /\ listener' = "clearSynth"
    /\ marks' = <<>>
    /\ UNCHANGED <<imVars, genVars, flagVars, historyVars, stagedVars, outVars,
                   audioPlaying, current, settlePayload, eagerOpen>>

\* sync_history keeps history, removes an assistant turn nobody heard, or adds one
\* that was heard before it was committed.
SyncHistory ==
    {history} \cup (IF sentAudio = {} \/ ~history.long THEN {} ELSE {UserRow, AgentRow})

\* The tasks the cleanup cancels, and what cancelling the output loop discards.
CleanupForgetsLLM == {eagerTask}
CleanupCancels == {llmTask, eagerTask}
OutputKeepsFrame == outputQueue' = <<>> /\ UNCHANGED <<held, sending>>
OutputRestarts == outputQueue' = <<>> /\ held' = NoChunk /\ sending' = FALSE

\* The rest of cleanup_downstream_tasks, then the rest of its caller: an interim
\* is done, an overlapped final goes on with its own turn.  A synthesizer that
\* cannot cancel keeps what it was given.
CleanupFinish ==
    LET g == Cancelled(gen, CleanupCancels)
    IN /\ listener = "clearSynth" /\ listener' = "idle" /\ current' = NoSeq
       /\ synthQueue' \in {synthQueue, <<>>}
       /\ OutputRestarts
       /\ functionCallInFlight' = InFlightAfter(CleanupCancels)
       /\ eagerTask' = NoSeq /\ eagerSeq' = NoSeq
       /\ eagerSnapshot' = IF eagerTask = NoSeq THEN eagerSnapshot ELSE NoSnapshot
       /\ awaitingFirstAudio' = FALSE /\ audioFlushed' = TRUE
       /\ history' \in IF current = NoSeq THEN SyncHistory ELSE {UserRow}
       /\ \/ /\ current # NoSeq /\ ~RegenSettle
             /\ Kickoff(current, Invalidated, g, {})
             /\ UNCHANGED settlePayload
          \/ /\ current = NoSeq \/ RegenSettle
             /\ sequenceIds' = IF current = NoSeq THEN Invalidated
                               ELSE Revalidate(Invalidated, current)
             /\ staged' = {} /\ gen' = g /\ llmTask' = NoSeq
             /\ responseInPipeline' = FALSE
             /\ settlePayload' = current
       /\ UNCHANGED <<calleeSpeaking, currSeq, utteranceRecent, spoke, committed,
                      sentAudio, blocked, carrierVars, eagerOpen>>

-------------------------------------------------------------------------------
(* The regeneration timer and the LLM turn tasks.                           *)

\* regen_after_settle: the window elapsed, the merged turn is answered.
SettleFire ==
    /\ Armed /\ settlePayload' = NoSeq
    /\ Kickoff(settlePayload, sequenceIds, gen, staged)
    /\ functionCallInFlight' = InFlightAfter({llmTask})
    /\ UNCHANGED <<calleeSpeaking, currSeq, utteranceRecent, spoke, eagerTask, eagerSeq,
                   awaitingFirstAudio, audioFlushed, historyVars, committed, sentAudio,
                   blocked, outVars, carrierVars, listener, current, eagerOpen>>

\* A text chunk of the response goes to the synthesizer (handle_llm_output).
GenText(s) ==
    /\ gen[s] \in {"running", "followup"} /\ s \notin spoke
    /\ spoke' = spoke \cup {s}
    /\ audioFlushed' = FALSE
    /\ Synthesize(s, "audio")
    /\ UNCHANGED <<imVars, gen, llmTask, eagerTask, eagerSeq, functionCallInFlight, historyVars,
                   stagedVars, outputQueue, held, sending, carrierVars, listenerVars>>

\* run_llm_task returns: llm_task is reset whichever task ends.
TaskEnds(s, outcome) ==
    /\ gen' = [gen EXCEPT ![s] = outcome]
    /\ llmTask' = NoSeq
    /\ functionCallInFlight' = (functionCallInFlight /\ gen[s] # "followup")

\* The stream ends.  Its last buffer carries the end marker; an empty one is
\* forwarded only while the turn's audio is not flushed.
GenFinish(s) ==
    /\ gen[s] \in {"running", "followup"} /\ s \in spoke
    /\ StageAssistant(s)
    /\ \/ /\ Synthesize(s, "end") /\ audioFlushed' = FALSE
          /\ TaskEnds(s, "done")
       \/ /\ audioFlushed /\ TaskEnds(s, "unflushed")
          /\ UNCHANGED <<synthQueue, flagVars>>
    /\ UNCHANGED <<imVars, spoke, eagerTask, eagerSeq, eagerSnapshot, sentAudio, blocked,
                   outputQueue, held, sending, carrierVars, listenerVars>>

\* do_llm_generation's last guard: a silent turn frees the pipeline itself.
SilentTurnKeeps == UNCHANGED responseInPipeline
SilentTurnFrees == responseInPipeline' = FALSE

\* The model returned no text: the turn stays silent and frees the pipeline.  Its
\* end marker still goes out when an earlier turn's audio is not flushed.
GenEmpty(s) ==
    /\ gen[s] \in {"running", "followup"} /\ s \notin spoke
    /\ TaskEnds(s, "done")
    /\ SilentTurnFrees
    /\ IF ~audioFlushed /\ s \in sequenceIds
       THEN /\ synthQueue' = Append(synthQueue, [seq |-> s, kind |-> "end"])
            /\ awaitingFirstAudio' = TRUE
       ELSE awaitingFirstAudio' = FALSE /\ UNCHANGED synthQueue
    /\ UNCHANGED <<imVars, spoke, eagerTask, eagerSeq, audioFlushed, historyVars, stagedVars,
                   outputQueue, held, sending, carrierVars, listenerVars>>

\* The model calls a tool; text spoken before it is ended and staged first.
GenTool(s) ==
    /\ ToolCalls /\ gen[s] \in {"running", "followup"} /\ currSeq < MaxSeq
    /\ gen' = [gen EXCEPT ![s] = "tool"]
    /\ functionCallInFlight' = TRUE
    /\ IF s \in spoke
       THEN /\ StageAssistant(s)
            /\ Synthesize(s, "end") /\ audioFlushed' = FALSE
       ELSE UNCHANGED <<staged, committed, history, synthQueue, flagVars>>
    /\ UNCHANGED <<imVars, spoke, llmTask, eagerTask, eagerSeq, eagerSnapshot, sentAudio,
                   blocked, outputQueue, held, sending, carrierVars, listenerVars>>

\* The tool answers: its rows join history and a follow-up response is generated,
\* under an id of its own, inside the same task.
ToolResult(s) ==
    /\ gen[s] = "tool" /\ Allocate
    /\ sequenceIds' = sequenceIds \cup {NextSeq}
    /\ gen' = [gen EXCEPT ![s] = "done", ![NextSeq] = "followup"]
    /\ llmTask' = IF llmTask = s THEN NextSeq ELSE llmTask
    /\ eagerTask' = IF eagerTask = s THEN NextSeq ELSE eagerTask
    /\ history' = AgentRow
    /\ UNCHANGED <<calleeSpeaking, utteranceRecent, spoke, functionCallInFlight, eagerSeq,
                   flagVars, eagerSnapshot, stagedVars, outVars, carrierVars,
                   listenerVars>>

-------------------------------------------------------------------------------
(* The synthesizer listener, the output loop and the carrier.               *)

\* __listen_synthesizer: one message of the synthesizer is queued for output, or
\* skipped when its response is no longer valid.
SynthYield ==
    /\ synthQueue # <<>> /\ synthQueue' = Tail(synthQueue)
    /\ LET c == Head(synthQueue) IN
       IF c.seq \in sequenceIds
       THEN /\ outputQueue' = Append(outputQueue, c)
            /\ UNCHANGED <<audioFlushed, audioPlaying>>
       ELSE /\ audioFlushed' = (audioFlushed \/ c.kind = "end")
            /\ audioPlaying' = (audioPlaying /\ c.kind # "end")
            /\ UNCHANGED outputQueue
    /\ UNCHANGED <<imVars, genVars, responseInPipeline, awaitingFirstAudio, historyVars,
                   stagedVars, held, sending, marks, listenerVars>>

\* process_output_loop: the next frame is taken and faces the gate.
OutputTake ==
    /\ held = NoChunk /\ outputQueue # <<>>
    /\ held' = Head(outputQueue) /\ outputQueue' = Tail(outputQueue)
    /\ UNCHANGED <<imVars, genVars, flagVars, historyVars, stagedVars, synthQueue,
                   sending, carrierVars, listenerVars>>

\* SEND, up to the suspension in output.handle.
OutputSend ==
    /\ held # NoChunk /\ ~sending /\ AudioSendStatus(held.seq) = "SEND"
    /\ sentAudio' = sentAudio \cup {held.seq}
    /\ CommitStaged(held.seq)
    /\ audioPlaying' = TRUE
    /\ responseInPipeline' = FALSE /\ awaitingFirstAudio' = FALSE
    /\ sending' = TRUE
    /\ UNCHANGED <<imVars, genVars, audioFlushed, eagerSnapshot, blocked, synthQueue,
                   outputQueue, held, marks, listenerVars>>

\* output.handle returns: the frame and its marks are with the carrier, and the
\* last frame of a response retires it.
OutputHandled ==
    /\ sending /\ sending' = FALSE /\ held' = NoChunk
    /\ IF held.kind = "audio"
       THEN /\ marks' = marks \o <<[seq |-> held.seq, kind |-> "pre"],
                                   [seq |-> held.seq, kind |-> "post"]>>
            /\ UNCHANGED <<audioFlushed, sequenceIds>>
       ELSE /\ marks' = Append(marks, [seq |-> held.seq, kind |-> "final"])
            /\ audioFlushed' = TRUE
            /\ sequenceIds' = sequenceIds \ {held.seq}
    /\ UNCHANGED <<calleeSpeaking, currSeq, utteranceRecent, genVars,
                   responseInPipeline, awaitingFirstAudio, historyVars, stagedVars,
                   synthQueue, outputQueue, audioPlaying, listenerVars>>

\* BLOCK: the frame is discarded; an end frame still passes its final mark.
OutputBlock ==
    /\ held # NoChunk /\ ~sending /\ AudioSendStatus(held.seq) = "BLOCK"
    /\ blocked' = blocked \cup {held.seq} /\ staged' = staged \ {held.seq}
    /\ held' = NoChunk
    /\ IF held.kind = "end"
       THEN /\ marks' = Append(marks, [seq |-> held.seq, kind |-> "final"])
            /\ audioFlushed' = TRUE
            /\ responseInPipeline' = FALSE /\ awaitingFirstAudio' = FALSE
       ELSE UNCHANGED <<marks, flagVars>>
    /\ UNCHANGED <<imVars, genVars, historyVars, committed, sentAudio, synthQueue,
                   outputQueue, sending, audioPlaying, listenerVars>>

\* WAIT with a caller who went silent without a final: the gate is released.
StuckGateRelease ==
    /\ held # NoChunk /\ ~sending /\ AudioSendStatus(held.seq) = "WAIT"
    /\ calleeSpeaking /\ calleeSpeaking' = FALSE
    /\ UNCHANGED <<sequenceIds, currSeq, utteranceRecent, genVars, flagVars,
                   historyVars, stagedVars, outVars, carrierVars, listenerVars>>

\* The carrier echoes its oldest mark (process_mark_message).
AckMark ==
    /\ marks # <<>> /\ marks' = Tail(marks)
    /\ audioPlaying' = CASE Head(marks).kind = "pre" -> TRUE
                         [] Head(marks).kind = "final" -> FALSE
                         [] OTHER -> audioPlaying
    /\ UNCHANGED <<imVars, genVars, flagVars, historyVars, stagedVars, outVars,
                   listenerVars>>

\* The clock leaves the grace period after the caller's last final.
GraceExpires ==
    /\ utteranceRecent /\ utteranceRecent' = FALSE
    /\ UNCHANGED <<calleeSpeaking, sequenceIds, currSeq, genVars, flagVars, historyVars,
                   stagedVars, outVars, carrierVars, listenerVars>>

-------------------------------------------------------------------------------
Transcriber ==
    \/ InterimBargeIn \/ InterimContinuation \/ InterimSpeaking \/ EagerEndOfTurn
    \/ TurnResumed \/ FinalIgnored \/ FinalTranscript \/ FinalEager \/ SpeechEnded

Router == FinalDuplicate \/ RouteTranscript \/ RouteOverlapped
Cleanup == OutputCleared \/ CleanupFinish

LLMTask == \E s \in Ids : GenText(s) \/ GenFinish(s) \/ GenEmpty(s) \/ GenTool(s) \/ ToolResult(s)

OutputLoop == OutputTake \/ OutputSend \/ OutputHandled \/ OutputBlock

Next ==
    \/ Transcriber \/ Router \/ Cleanup \/ SettleFire \/ LLMTask \/ SynthYield
    \/ OutputLoop \/ StuckGateRelease \/ AckMark \/ GraceExpires

Spec == Init /\ [][Next]_vars

\* Fairness: the event loop runs every task that can run, every provider call
\* returns (the stream readers time out) and clocks advance.  Nothing is assumed
\* of the caller, of the transcriber or of the carrier's echoes.
Fairness ==
    /\ WF_vars(listener # "idle" /\ (Router \/ Cleanup))
    /\ WF_vars(SettleFire) /\ WF_vars(SynthYield) /\ WF_vars(OutputLoop)
    /\ WF_vars(StuckGateRelease) /\ WF_vars(GraceExpires)
    /\ \A s \in Ids : WF_vars(GenText(s) \/ GenFinish(s) \/ GenEmpty(s) \/ GenTool(s)
                                \/ ToolResult(s))
FairSpec == Spec /\ Fairness

-------------------------------------------------------------------------------
(* Properties.                                                              *)

\* An assistant row reaches history only if a frame of that response was approved
\* for sending, and leaves the staging area when it does: the commit may come from
\* the output loop or, late, from the generation that stages the row.
CommittedWereSent == committed \subseteq sentAudio /\ staged \cap committed = {}

\* A generation that was cancelled leaves no valid id behind, so the audio it had
\* already sent to the synthesizer is skipped or blocked.
CancelledSilenced == \A s \in Ids : gen[s] = "cancelled" => s \notin sequenceIds

\* No turn task runs that llm_task does not name: a later turn can always cancel
\* it, and two responses are never generated concurrently.
OneLiveGeneration == \A s \in Ids : Live(s) => s = llmTask

\* While a regeneration is owed, its id is valid, the caller's merged turn is the
\* last row of history and no generation competes with it.
OwedTurnReady ==
    Armed => /\ settlePayload \in sequenceIds
             /\ history.last = "user"
             /\ \A s \in Ids : ~Live(s)

\* Outside a cleanup, the frame being handed to the carrier belongs to a response
\* that is still valid.
FrameOnWireValid == sending /\ listener = "idle" => held.seq \in sequenceIds

\* Outside a cleanup, the generation llm_task names is not muted: its id is valid,
\* so its text is synthesized and its audio passes the gate.
LiveGenerationAudible ==
    listener = "idle" /\ llmTask # NoSeq /\ gen[llmTask] \in {"running", "followup"}
        => llmTask \in sequenceIds

\* An id that was invalidated or retired becomes valid again only if nothing was
\* generated under it: a dropped response never speaks again.
NoResurrection ==
    [][\A s \in Ids : s \in sequenceIds' \ sequenceIds => gen[s] = "none"]_vars

\* _pipeline_busy, which gates every silence-recovery branch of the watchdog.
PipelineBusy == responseInPipeline \/ awaitingFirstAudio

\* A busy pipeline becomes idle unless the caller speaks: no order of final, barge-in,
\* tool call, empty reply and cleanup leaves the busy flags set for good.
PipelineDrains == PipelineBusy ~> (~PipelineBusy \/ calleeSpeaking)

\* Every response that sent text also sends its end marker to the synthesizer, as
\* handle_llm_output intends when it forwards an empty last buffer.
NoUnflushedTurn == \A s \in Ids : gen[s] # "unflushed"

\* A running tool call is not cancelled by a caller who speaks, as the listener
\* intends when it defers interims and finals while one is in flight.
ToolCallCompletes == [][\A s \in Ids : gen[s] = "tool" => gen'[s] # "cancelled"]_vars
===============================================================================
