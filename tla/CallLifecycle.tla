---------------------------- MODULE CallLifecycle -----------------------------
(***************************************************************************)
(* How one call ends.  Four tasks of the session can decide or carry out    *)
(* the hangup: the LLM turn task (the end_call tool, the completion check,  *)
(* an LLM error), the completion watchdog (caps, silence, the goodbye's     *)
(* grace), the transcript listener (a transcriber failure) and the observer *)
(* of the goodbye's final mark.  They share the hangup and teardown flags   *)
(* of CallLifecycle, and a barge-in cleanup that was under way when the     *)
(* hangup was decided may cancel the LLM task at any of its suspensions.    *)
(*                                                                          *)
(* step[p] is where task p is suspended; one action is one segment of a     *)
(* handler between suspensions.  Clocks are flags that may turn.            *)
(***************************************************************************)
EXTENDS Naturals

VARIABLES
    hangupTriggered, hangupTriggeredAt, hangupProcessing, hangupMessageQueued,
    conversationEnded, endInProgress, endCallInProgress, endedByAssistant,
    isWeb, hangupMessage,       \* is_web_based_call, a goodbye is configured
    capReached,                 \* the call is longer than call_terminate
    step,                       \* where each task is suspended
    ender, endStep, webTimeout, \* the task that tears the call down, and where it is
    goodbye, hangupSent,        \* the goodbye's audio, output.hangup_sent()
    goodbyeRows, stops,         \* goodbye rows in history, stop_handler calls
    run                         \* TaskManager.run

hangupFlags == <<hangupTriggered, hangupTriggeredAt, hangupProcessing, hangupMessageQueued>>
endFlags == <<conversationEnded, endInProgress, endedByAssistant>>
config == <<isWeb, hangupMessage>>
teardown == <<ender, endStep, webTimeout>>
outcome == <<goodbyeRows, stops>>
audio == <<goodbye, hangupSent>>
vars == <<hangupFlags, endFlags, endCallInProgress, config, capReached, step, teardown,
          outcome, audio, run>>

Task == {"llm", "watchdog", "listener", "observer"}
Steps == {"none", "turn", "endCall", "endCallWait", "hangupWait", "hangupCleanup",
          "ending", "watching", "injecting", "idle", "cleanup", "over"}

TypeOK ==
    /\ hangupTriggered \in BOOLEAN /\ hangupTriggeredAt \in BOOLEAN
    /\ hangupProcessing \in BOOLEAN /\ hangupMessageQueued \in BOOLEAN
    /\ conversationEnded \in BOOLEAN /\ endInProgress \in BOOLEAN
    /\ endCallInProgress \in BOOLEAN /\ endedByAssistant \in BOOLEAN
    /\ isWeb \in BOOLEAN /\ hangupMessage \in BOOLEAN /\ capReached \in BOOLEAN
    /\ step \in [Task -> Steps]
    /\ ender \in Task \cup {"none"}
    /\ endStep \in {"none", "wait", "poll", "stop", "done", "lost"}
    /\ webTimeout \in BOOLEAN
    /\ goodbye \in {"none", "synth", "sent", "played", "dropped"}
    /\ hangupSent \in BOOLEAN
    /\ goodbyeRows \in 0..1 /\ stops \in 0..1
    /\ run \in {"running", "draining", "over"}

\* A greeted call: the welcome has been transmitted.
Init ==
    /\ hangupTriggered = FALSE /\ hangupTriggeredAt = FALSE
    /\ hangupProcessing = FALSE /\ hangupMessageQueued = FALSE
    /\ conversationEnded = FALSE /\ endInProgress = FALSE
    /\ endCallInProgress = FALSE /\ endedByAssistant = FALSE
    /\ isWeb \in BOOLEAN /\ hangupMessage \in BOOLEAN /\ capReached = FALSE
    /\ step = [llm |-> "none", watchdog |-> "watching", listener |-> "idle",
               observer |-> "none"]
    /\ ender = "none" /\ endStep = "none" /\ webTimeout = FALSE
    /\ goodbye = "none" /\ hangupSent = FALSE
    /\ goodbyeRows = 0 /\ stops = 0
    /\ run = "running"

-------------------------------------------------------------------------------
ShouldIgnoreTranscriberInput == hangupTriggered \/ endCallInProgress

\* The listener waits for the next message of a transcriber that is still on.
Listening == step["listener"] = "idle" /\ endStep # "done" /\ ~ShouldIgnoreTranscriberInput

\* Where a task goes when it returns from the hangup or the teardown: the watchdog
\* breaks out of its loop and a failed listener ends.
Return(p) == IF p = "llm" THEN "none" ELSE "over"

\* The watchdog awaits the silence prompt's turn and resumes when it is over.
Resume(st) ==
    IF st["llm"] = "none" /\ st["watchdog"] = "injecting"
    THEN [st EXCEPT !["watchdog"] = "watching"] ELSE st

Goes(st, p, s) == Resume([st EXCEPT ![p] = s])

\* llm_task.cancel(), once teardown no longer hides the reference: a task that is
\* tearing the call down loses the teardown.
CancelLLM(st) ==
    IF ender = "llm" /\ endStep = "stop" THEN st ELSE Goes(st, "llm", "none")
TeardownLost == ender = "llm" /\ endStep \in {"wait", "poll"}

EndUnguarded(p, web) ==
    /\ endInProgress' = TRUE /\ ender' = p /\ endStep' = "wait" /\ webTimeout' = web
    /\ step' = Goes(step, p, "ending")

\* process_end_of_conversation in task p, up to its first suspension.
ProcessEndOfConversation(p, web) ==
    IF endInProgress \/ conversationEnded
    THEN /\ step' = Goes(step, p, Return(p))
         /\ UNCHANGED <<endInProgress, teardown>>
    ELSE /\ endInProgress' = TRUE /\ ender' = p /\ endStep' = "wait" /\ webTimeout' = web
         /\ step' = Goes(step, p, "ending")

HangupUnguarded(p, message) ==
    IF conversationEnded
    THEN /\ step' = Goes(step, p, Return(p))
         /\ UNCHANGED <<hangupFlags, endInProgress, teardown>>
    ELSE /\ hangupProcessing' = TRUE /\ hangupTriggered' = TRUE
         /\ hangupMessageQueued' = message
         /\ IF message
            THEN /\ step' = Goes(step, p, "hangupWait")
                 /\ UNCHANGED <<hangupTriggeredAt, endInProgress, teardown>>
            ELSE hangupTriggeredAt' = TRUE /\ ProcessEndOfConversation(p, FALSE)

\* process_call_hangup in task p, up to its first suspension.
ProcessCallHangup(p, message) ==
    IF hangupProcessing \/ conversationEnded
    THEN /\ step' = Goes(step, p, Return(p))
         /\ UNCHANGED <<hangupFlags, endInProgress, teardown>>
    ELSE /\ hangupProcessing' = TRUE /\ hangupTriggered' = TRUE
         /\ hangupMessageQueued' = message
         /\ IF message
            THEN /\ step' = Goes(step, p, "hangupWait")
                 /\ UNCHANGED <<hangupTriggeredAt, endInProgress, teardown>>
            ELSE hangupTriggeredAt' = TRUE /\ ProcessEndOfConversation(p, FALSE)

-------------------------------------------------------------------------------
(* The conversation, as far as it bears on the hangup.                      *)

\* A final with nothing in flight starts an LLM turn task.
TurnStarts ==
    /\ Listening /\ step["llm"] = "none"
    /\ step' = [step EXCEPT !["llm"] = "turn"]
    /\ UNCHANGED <<hangupFlags, endFlags, endCallInProgress, config, capReached, teardown,
                   outcome, audio, run>>

TurnEnds ==
    /\ step["llm"] = "turn"
    /\ step' = Goes(step, "llm", "none")
    /\ UNCHANGED <<hangupFlags, endFlags, endCallInProgress, config, capReached, teardown,
                   outcome, audio, run>>

\* The caller speaks over the agent: cleanup_downstream_tasks, up to its first
\* suspension.
BargeIn ==
    /\ Listening
    /\ step' = [step EXCEPT !["listener"] = "cleanup"]
    /\ UNCHANGED <<hangupFlags, endFlags, endCallInProgress, config, capReached, teardown,
                   outcome, audio, run>>

\* The rest of the cleanup: what plays is cleared, the LLM task is cancelled, and an
\* overlapped final starts its own turn (skipped once a hangup is triggered).  A
\* goodbye that reached the synthesizer or the carrier meanwhile may be lost.
BargeInCleaned ==
    LET st == [CancelLLM(step) EXCEPT !["listener"] = "idle"]
    IN /\ step["listener"] = "cleanup"
       /\ \/ step' = st
          \/ /\ ~hangupTriggered /\ ~conversationEnded
             /\ step' = [st EXCEPT !["llm"] = "turn"]
       /\ endStep' = IF TeardownLost THEN "lost" ELSE endStep
       /\ goodbye' \in IF goodbye \in {"synth", "sent"} THEN {goodbye, "dropped"}
                       ELSE {goodbye}
       /\ UNCHANGED <<hangupFlags, endFlags, endCallInProgress, config, capReached, ender,
                      webTimeout, outcome, hangupSent, run>>

\* The active transcriber fails (end_call_on_component_error in the listener).
TranscriberFails ==
    /\ step["listener"] = "idle"
    /\ ProcessEndOfConversation("listener", FALSE)
    /\ UNCHANGED <<hangupFlags, conversationEnded, endedByAssistant, endCallInProgress,
                   config, capReached, outcome, audio, run>>

\* The caller hangs up, or the transcriber idles out: its socket is closed.
CallerLeaves ==
    /\ step["listener"] = "idle"
    /\ step' = [step EXCEPT !["listener"] = "over"]
    /\ UNCHANGED <<hangupFlags, endFlags, endCallInProgress, config, capReached, teardown,
                   outcome, audio, run>>

\* The LLM leg fails (end_call_on_component_error in the turn task).
LLMFails ==
    /\ step["llm"] = "turn"
    /\ ProcessEndOfConversation("llm", FALSE)
    /\ UNCHANGED <<hangupFlags, conversationEnded, endedByAssistant, endCallInProgress,
                   config, capReached, outcome, audio, run>>

-------------------------------------------------------------------------------
(* The hangup is decided and actuated.                                      *)

\* The completion check of a finished turn says the conversation is over.
LLMPromptedHangup ==
    /\ step["llm"] = "turn" /\ ~hangupTriggered /\ ~conversationEnded
    /\ ProcessCallHangup("llm", hangupMessage)
    /\ UNCHANGED <<conversationEnded, endedByAssistant, endCallInProgress, config,
                   capReached, outcome, audio, run>>

\* The end_call tool fires.  Its goodbye was streamed with the call, or is generated
\* now; enter_hangup_state locks the hangup once it is on its way.
EndCallTool ==
    /\ step["llm"] = "turn" /\ ~conversationEnded
    /\ endCallInProgress' = TRUE
    /\ \/ /\ step' = [step EXCEPT !["llm"] = "endCall"]
          /\ UNCHANGED hangupTriggered
       \/ /\ step' = [step EXCEPT !["llm"] = "endCallWait"]
          /\ hangupTriggered' = TRUE
    /\ UNCHANGED <<hangupTriggeredAt, hangupProcessing, hangupMessageQueued, endFlags,
                   config, capReached, teardown, outcome, audio, run>>

EndCallGoodbye ==
    /\ step["llm"] = "endCall"
    /\ step' = [step EXCEPT !["llm"] = "endCallWait"]
    /\ hangupTriggered' = TRUE
    /\ UNCHANGED <<hangupTriggeredAt, hangupProcessing, hangupMessageQueued, endFlags,
                   endCallInProgress, config, capReached, teardown, outcome, audio, run>>

\* The tool's goodbye has played (or its wait timed out): no configured message any
\* more, hang up.
EndCallActuates ==
    /\ step["llm"] = "endCallWait"
    /\ hangupMessage' = FALSE
    /\ ProcessCallHangup("llm", FALSE)
    /\ UNCHANGED <<conversationEnded, endedByAssistant, endCallInProgress, isWeb,
                   capReached, outcome, audio, run>>

\* process_call_hangup past its wait: its own cleanup starts.
HangupWaited(p) ==
    /\ step[p] = "hangupWait"
    /\ step' = [step EXCEPT ![p] = "hangupCleanup"]
    /\ UNCHANGED <<hangupFlags, endFlags, endCallInProgress, config, capReached, teardown,
                   outcome, audio, run>>

\* The cleanup ends: llm_task is cancelled (in the turn task itself that takes effect
\* only after it returned) and the goodbye is synthesized; the grace starts.
HangupSynthesizes(p) ==
    /\ step[p] = "hangupCleanup"
    /\ step' = Goes(CancelLLM(step), p, Return(p))
    /\ endStep' = IF TeardownLost THEN "lost" ELSE endStep
    /\ goodbye' = IF conversationEnded THEN goodbye ELSE "synth"
    /\ hangupTriggeredAt' = TRUE
    /\ UNCHANGED <<hangupTriggered, hangupProcessing, hangupMessageQueued, endFlags,
                   endCallInProgress, config, capReached, ender, webTimeout, outcome,
                   hangupSent, run>>

-------------------------------------------------------------------------------
(* The goodbye's audio and the observer of its final mark.                  *)

\* The output loop sends the goodbye whatever the audio gate says.
GoodbyeSent ==
    /\ goodbye = "synth" /\ ~conversationEnded /\ goodbye' = "sent"
    /\ UNCHANGED <<hangupFlags, endFlags, endCallInProgress, config, capReached, step,
                   teardown, outcome, hangupSent, run>>

\* The carrier echoes the goodbye's final mark.
GoodbyePlayed ==
    /\ run # "over" /\ goodbye = "sent" /\ goodbye' = "played"
    /\ UNCHANGED <<hangupFlags, endFlags, endCallInProgress, config, capReached, step,
                   teardown, outcome, hangupSent, run>>

AgentHangupObserver ==
    /\ goodbye = "played" /\ step["observer"] = "none"
    /\ hangupSent' = TRUE
    /\ ProcessEndOfConversation("observer", FALSE)
    /\ UNCHANGED <<hangupFlags, conversationEnded, endedByAssistant, endCallInProgress,
                   config, capReached, outcome, goodbye, run>>

-------------------------------------------------------------------------------
(* process_end_of_conversation, past its guard.                             *)

EndWaited ==
    /\ run # "over" /\ endStep = "wait" /\ endStep' = "poll"
    /\ UNCHANGED <<hangupFlags, endFlags, endCallInProgress, config, capReached, step,
                   ender, webTimeout, outcome, audio, run>>

\* The queued goodbye is given up only when hangup_sent says it was played or is not
\* coming.
GoodbyeUnqueued == TRUE
GoodbyeDone == ~(hangupTriggered /\ hangupMessageQueued) \/ hangupSent

\* Tearing down inside llm_task drops the reference instead of cancelling itself.
CancelsItself == Goes(step, "llm", "none")
CancelsOthers == IF ender = "llm" THEN step ELSE Goes(step, "llm", "none")

\* The goodbye enters history, the call is over, the LLM task is cancelled, output is
\* closed and stop_handler called.
EndCloses ==
    /\ run # "over" /\ endStep = "poll" /\ GoodbyeDone
    /\ goodbyeRows' = goodbyeRows + (IF hangupMessageQueued /\ ~webTimeout THEN 1 ELSE 0)
    /\ conversationEnded' = TRUE /\ endedByAssistant' = TRUE
    /\ step' = CancelsOthers
    /\ stops' = stops + 1
    /\ endStep' = IF ender = "llm" /\ step'["llm"] = "none" THEN "lost" ELSE "stop"
    /\ UNCHANGED <<hangupFlags, endInProgress, endCallInProgress, config, capReached, ender,
                   webTimeout, audio, run>>

\* stop_handler returned, the transcriber is told to close (toggle_connection).
TranscriberLeftOn == "stop"
TranscriberToggled == "done"
EndStopped ==
    /\ run # "over" /\ endStep = "stop" /\ endStep' = TranscriberToggled
    /\ step' = Goes(step, ender, Return(ender))
    /\ UNCHANGED <<hangupFlags, endFlags, endCallInProgress, config, capReached, ender,
                   webTimeout, outcome, audio, run>>

\* Its closing message ends the listener.
TranscriberStopped ==
    /\ endStep = "done" /\ step["listener"] = "idle"
    /\ step' = [step EXCEPT !["listener"] = "over"]
    /\ UNCHANGED <<hangupFlags, endFlags, endCallInProgress, config, capReached, teardown,
                   outcome, audio, run>>

-------------------------------------------------------------------------------
(* check_for_completion: one tick of the watchdog takes the first branch that  *)
(* applies.                                                                   *)

Watching == step["watchdog"] = "watching"

CapElapses ==
    /\ run # "over" /\ ~capReached /\ capReached' = TRUE
    /\ UNCHANGED <<hangupFlags, endFlags, endCallInProgress, config, step, teardown,
                   outcome, audio, run>>

WatchdogWebCap ==
    /\ Watching /\ capReached /\ isWeb
    /\ ProcessEndOfConversation("watchdog", TRUE)
    /\ UNCHANGED <<hangupFlags, conversationEnded, endedByAssistant, endCallInProgress,
                   config, capReached, outcome, audio, run>>

WatchdogTelephonyCap ==
    /\ Watching /\ capReached /\ ~isWeb
    /\ ProcessCallHangup("watchdog", hangupMessage)
    /\ UNCHANGED <<conversationEnded, endedByAssistant, endCallInProgress, config,
                   capReached, outcome, audio, run>>

WatchdogSeesEnd ==
    /\ Watching /\ ~capReached /\ hangupTriggered /\ conversationEnded
    /\ step' = [step EXCEPT !["watchdog"] = "over"]
    /\ UNCHANGED <<hangupFlags, endFlags, endCallInProgress, config, capReached, teardown,
                   outcome, audio, run>>

\* The grace of the goodbye's mark is over: it is written off and the call torn down.
WaitsForMark == hangupSent
WritesOffMark == TRUE
WatchdogForcesEnd ==
    /\ Watching /\ ~capReached /\ hangupTriggered /\ ~conversationEnded
    /\ hangupTriggeredAt
    /\ hangupSent' = WritesOffMark
    /\ ProcessEndOfConversation("watchdog", FALSE)
    /\ UNCHANGED <<hangupFlags, conversationEnded, endedByAssistant, endCallInProgress,
                   config, capReached, outcome, goodbye, run>>

\* Both sides were silent for too long, or nothing makes progress (the stall).
WatchdogInactivity ==
    /\ Watching /\ ~capReached /\ ~hangupTriggered
    /\ ProcessCallHangup("watchdog", hangupMessage)
    /\ UNCHANGED <<conversationEnded, endedByAssistant, endCallInProgress, config,
                   capReached, outcome, audio, run>>

\* The caller is silent: the model is prompted, and the watchdog awaits its turn.
WatchdogSilencePrompt ==
    /\ Watching /\ ~capReached /\ ~hangupTriggered /\ step["llm"] = "none"
    /\ ~conversationEnded
    /\ step' = [step EXCEPT !["llm"] = "turn", !["watchdog"] = "injecting"]
    /\ UNCHANGED <<hangupFlags, endFlags, endCallInProgress, config, capReached, teardown,
                   outcome, audio, run>>

-------------------------------------------------------------------------------
(* TaskManager.run.                                                         *)

\* The listener ended, so gather returns: a goodbye in flight is awaited first.
RunGathered ==
    /\ run = "running" /\ step["listener"] = "over"
    /\ run' = "draining"
    /\ UNCHANGED <<hangupFlags, endFlags, endCallInProgress, config, capReached, step,
                   teardown, outcome, audio>>

\* The finally of run: every task is cancelled.
RunOver ==
    /\ run = "draining" /\ run' = "over"
    /\ conversationEnded' = TRUE
    /\ step' = [p \in Task |-> "over"]
    /\ UNCHANGED <<hangupFlags, endInProgress, endedByAssistant, endCallInProgress, config,
                   capReached, teardown, outcome, audio>>

-------------------------------------------------------------------------------
Turns == TurnStarts \/ TurnEnds \/ BargeIn \/ BargeInCleaned
Failures == TranscriberFails \/ CallerLeaves \/ LLMFails
Hangup ==
    \/ LLMPromptedHangup \/ EndCallTool \/ EndCallGoodbye \/ EndCallActuates
    \/ \E p \in {"llm", "watchdog"} : HangupWaited(p) \/ HangupSynthesizes(p)
Goodbye == GoodbyeSent \/ GoodbyePlayed \/ AgentHangupObserver
Teardown == EndWaited \/ EndCloses \/ EndStopped \/ TranscriberStopped
Watchdog ==
    \/ CapElapses \/ WatchdogWebCap \/ WatchdogTelephonyCap \/ WatchdogSeesEnd
    \/ WatchdogForcesEnd \/ WatchdogInactivity \/ WatchdogSilencePrompt

Next ==
    Turns \/ Failures \/ Hangup \/ Goodbye \/ Teardown \/ Watchdog \/ RunGathered \/ RunOver

Spec == Init /\ [][Next]_vars

\* Fairness: suspended tasks resume, provider calls return, waits time out, the
\* synthesizer renders what it was given and the watchdog ticks.  A caller whose
\* transcripts are ignored counts as silent, so the inactivity branch is reached.
\* Nothing is assumed of the caller or of the carrier's echo.
Fairness ==
    /\ WF_vars(BargeInCleaned) /\ WF_vars(EndCallGoodbye) /\ WF_vars(EndCallActuates)
    /\ WF_vars(TurnEnds \/ LLMPromptedHangup \/ EndCallTool \/ LLMFails)
    /\ \A p \in {"llm", "watchdog"} : WF_vars(HangupWaited(p) \/ HangupSynthesizes(p))
    /\ WF_vars(GoodbyeSent) /\ WF_vars(AgentHangupObserver)
    /\ WF_vars(EndWaited) /\ WF_vars(EndCloses) /\ WF_vars(EndStopped)
    /\ WF_vars(TranscriberStopped)
    /\ WF_vars(WatchdogWebCap \/ WatchdogTelephonyCap \/ WatchdogSeesEnd
                 \/ WatchdogForcesEnd)
    /\ WF_vars(ShouldIgnoreTranscriberInput /\ WatchdogInactivity)
    /\ WF_vars(RunGathered) /\ WF_vars(RunOver)
FairSpec == Spec /\ Fairness

-------------------------------------------------------------------------------
(* Properties.                                                              *)

\* Whoever asks for the end of the call, the input is stopped and the goodbye logged
\* by one teardown only: a task that entered it is the only one past its guard.
OneTeardown ==
    \A p, q \in Task : step[p] = "ending" /\ step[q] = "ending" => p = q

\* A goodbye that was queued is not cut off: the assistant ends the call only after
\* the goodbye's mark came back or the watchdog wrote it off, even when the teardown
\* was started by a failure before the goodbye was queued.
GoodbyeNotCut == endedByAssistant /\ hangupMessageQueued => hangupSent

\* Once the call is marked as ended by the assistant, the task that tears it down is
\* not cancelled under it, so stop_handler and the transcriber's stop are reached.
TeardownSurvives == endedByAssistant => endStep # "lost"

\* The goodbye is synthesized at most once in a call.
OneGoodbye == [][goodbye' = "synth" => goodbye \in {"none", "synth"}]_vars

\* A hangup whose grace has started is enforced while the watchdog watches: the call
\* ends although the carrier never echoes the goodbye, unless the duration cap takes
\* the watchdog away or the teardown's task was cancelled.
GoodbyeGraceEnforced ==
    hangupTriggeredAt /\ Watching ~> conversationEnded \/ capReached \/ endStep = "lost"

\* A call the assistant ended is wound up: run() returns.
EndedCallIsWoundUp == endedByAssistant ~> run = "over"

\* Once the end_call tool has fired, the disconnect runs.
EndCallDisconnects == endCallInProgress ~> conversationEnded

\* A hangup whose goodbye was queued ends the call within the mark event timeout, even
\* if the goodbye's mark is never received.
HangupForced == hangupTriggeredAt ~> conversationEnded \/ endStep = "lost"

\* The session as CallPromise sees it.
Stage == CASE run = "over" -> "over"
           [] run # "over" /\ conversationEnded -> "ended"
           [] run # "over" /\ ~conversationEnded /\ (hangupTriggered \/ endInProgress) -> "hanging"
           [] OTHER -> "talking"
Promise == INSTANCE CallPromise WITH
    Tasks <- Task, Nobody <- "none",
    stage <- Stage, owner <- IF conversationEnded \/ run = "over" THEN "none" ELSE ender

\* The call ends as every call does: one task carries out the teardown, no decided
\* hangup is undone, and the ended call is closed (process_end_of_conversation and
\* the finally block of run).
EndsAsPromised == Promise!Spec
===============================================================================
