------------------------- MODULE CallLifecycleProofs -------------------------
(***************************************************************************)
(* The end of a call, proved: one teardown, one goodbye that is not cut,    *)
(* a teardown that survives, and the safety part of the refinement of       *)
(* CallPromise.                                                             *)
(***************************************************************************)
EXTENDS CallLifecycle, TLAPS

-------------------------------------------------------------------------------
(* The inductive invariant.                                                 *)

\* A task inside the teardown is the ender, and the teardown is where it says:
\* either its task is in it or it was lost, done, or the session is over.
Owned ==
    /\ endInProgress <=> ender # "none"
    /\ ender = "none" <=> endStep = "none"
    /\ \A p \in Task : step[p] = "ending" => p = ender /\ endStep \in {"wait", "poll", "stop"}
    /\ endStep \in {"wait", "poll", "stop"} /\ run # "over" => step[ender] = "ending"

\* What has happened by the time the teardown closes the call.
Closed ==
    /\ endStep \notin {"stop", "done"} => stops = 0 /\ goodbyeRows = 0 /\ ~endedByAssistant
    /\ conversationEnded /\ run # "over" => endStep \in {"stop", "done"}
    /\ endStep \in {"stop", "done"} \/ run = "over" => conversationEnded

\* One hangup, and one goodbye in it: before the goodbye is synthesized nothing of
\* it exists, and only one task is on its way to synthesize it.
OneHangup ==
    /\ hangupMessageQueued => hangupTriggered /\ hangupProcessing
    /\ ~hangupProcessing => goodbye = "none"
    /\ \A p \in Task : step[p] \in {"hangupWait", "hangupCleanup"} =>
         /\ hangupProcessing /\ goodbye = "none"
         /\ \A q \in Task : step[q] \in {"hangupWait", "hangupCleanup"} => p = q

CInv == TypeOK /\ Owned /\ Closed /\ GoodbyeNotCut /\ OneHangup

-------------------------------------------------------------------------------
(* What moving one task does to the others.                                 *)

\* Goes moves task p; the watchdog may resume, and nobody else moves.
LEMMA GoesMoves ==
    ASSUME NEW st \in [Task -> Steps], NEW p \in Task, NEW s \in Steps \ {"injecting"}
    PROVE  /\ Goes(st, p, s) \in [Task -> Steps]
           /\ Goes(st, p, s)[p] = s
           /\ \A q \in Task \ {p} : \/ Goes(st, p, s)[q] = st[q]
                                    \/ q = "watchdog" /\ st[q] = "injecting"
                                       /\ Goes(st, p, s)[q] = "watching"
BY DEF Goes, Resume, Task, Steps

\* llm_task.cancel() moves the LLM task only, to "none" or not at all.
LEMMA CancelMoves ==
    ASSUME NEW st \in [Task -> Steps]
    PROVE  /\ CancelLLM(st) \in [Task -> Steps]
           /\ \A q \in Task \ {"llm"} : \/ CancelLLM(st)[q] = st[q]
                                        \/ q = "watchdog" /\ st[q] = "injecting"
                                           /\ CancelLLM(st)[q] = "watching"
           /\ IF ender = "llm" /\ endStep = "stop" THEN CancelLLM(st) = st
              ELSE CancelLLM(st)["llm"] = "none"
<1>1. CASE ender = "llm" /\ endStep = "stop"
  BY <1>1 DEF CancelLLM
<1>2. CASE ~(ender = "llm" /\ endStep = "stop")
  <2>1. CancelLLM(st) = Goes(st, "llm", "none")
    BY <1>2 DEF CancelLLM
  <2>2. "llm" \in Task /\ "none" \in Steps \ {"injecting"}
    BY DEF Task, Steps
  <2>3. QED
    BY <1>2, <2>1, <2>2, GoesMoves
<1>3. QED
  BY <1>1, <1>2

-------------------------------------------------------------------------------
(* The shared segments of the handlers.                                     *)

\* process_end_of_conversation keeps the teardown owned by one task.
LEMMA EndOwned ==
    ASSUME TypeOK, Owned, Closed, NEW p \in Task, NEW web \in BOOLEAN, step[p] # "ending",
           ProcessEndOfConversation(p, web),
           UNCHANGED <<conversationEnded, endedByAssistant, outcome, run>>
    PROVE  /\ step' \in [Task -> Steps] /\ endInProgress' \in BOOLEAN /\ webTimeout' \in BOOLEAN
           /\ ender' \in Task \cup {"none"}
           /\ endStep' \in {"none", "wait", "poll", "stop", "done", "lost"}
           /\ Owned' /\ Closed'
<1>1. CASE endInProgress \/ conversationEnded
  <2>1. step' = Goes(step, p, Return(p)) /\ UNCHANGED <<endInProgress, ender, endStep, webTimeout>>
    BY <1>1 DEF ProcessEndOfConversation, teardown
  <2>2. Return(p) \in {"none", "over"}
    BY DEF Return
  <2>3. step' \in [Task -> Steps] /\ step'[p] \in {"none", "over"}
        /\ \A q \in Task \ {p} : step'[q] = step[q] \/ (step[q] = "injecting" /\ step'[q] = "watching")
    BY <2>1, <2>2, GoesMoves DEF TypeOK, Steps
  <2>4. QED
    BY <2>1, <2>3 DEF TypeOK, Owned, Closed, outcome
<1>2. CASE ~endInProgress /\ ~conversationEnded
  <2>1. /\ endInProgress' = TRUE /\ ender' = p /\ endStep' = "wait" /\ webTimeout' = web
        /\ step' = Goes(step, p, "ending")
    BY <1>2 DEF ProcessEndOfConversation
  <2>2. step' \in [Task -> Steps] /\ step'[p] = "ending"
        /\ \A q \in Task \ {p} : step'[q] = step[q] \/ (step[q] = "injecting" /\ step'[q] = "watching")
    BY <2>1, GoesMoves DEF TypeOK, Steps
  <2>3. \A q \in Task : step[q] # "ending"
    BY <1>2 DEF Owned, Task
  <2>4. QED
    BY <1>2, <2>1, <2>2, <2>3 DEF TypeOK, Owned, Closed, outcome, Task
<1>3. QED
  BY <1>1, <1>2

\* process_call_hangup keeps that and one hangup with one goodbye.
LEMMA HangupOwned ==
    ASSUME CInv, NEW p \in Task, NEW message \in BOOLEAN, step[p] # "ending",
           ProcessCallHangup(p, message),
           UNCHANGED <<conversationEnded, endedByAssistant, outcome, audio, run>>
    PROVE  /\ step' \in [Task -> Steps] /\ endInProgress' \in BOOLEAN /\ webTimeout' \in BOOLEAN
           /\ hangupTriggered' \in BOOLEAN /\ hangupTriggeredAt' \in BOOLEAN
           /\ hangupProcessing' \in BOOLEAN /\ hangupMessageQueued' \in BOOLEAN
           /\ ender' \in Task \cup {"none"}
           /\ endStep' \in {"none", "wait", "poll", "stop", "done", "lost"}
           /\ Owned' /\ Closed' /\ GoodbyeNotCut' /\ OneHangup'
<1> USE DEF CInv
<1>a. Return(p) \in {"none", "over"}
  BY DEF Return
<1>1. CASE hangupProcessing \/ conversationEnded
  <2>1. /\ step' = Goes(step, p, Return(p))
        /\ UNCHANGED <<hangupTriggered, hangupTriggeredAt, hangupProcessing, hangupMessageQueued,
                       endInProgress, ender, endStep, webTimeout>>
    BY <1>1 DEF ProcessCallHangup, teardown, hangupFlags
  <2>2. step' \in [Task -> Steps] /\ step'[p] \in {"none", "over"}
        /\ \A q \in Task \ {p} : step'[q] = step[q] \/ (step[q] = "injecting" /\ step'[q] = "watching")
    BY <2>1, <1>a, GoesMoves DEF TypeOK, Steps
  <2>3. Owned' /\ Closed'
    BY <2>1, <2>2 DEF TypeOK, Owned, Closed, outcome
  <2>4. GoodbyeNotCut' /\ OneHangup'
    BY <2>1, <2>2 DEF GoodbyeNotCut, OneHangup, audio
  <2>5. QED
    BY <2>1, <2>2, <2>3, <2>4 DEF TypeOK
<1>2. CASE ~hangupProcessing /\ ~conversationEnded
  <2>1. /\ hangupProcessing' = TRUE /\ hangupTriggered' = TRUE /\ hangupMessageQueued' = message
        /\ hangupTriggeredAt' \in BOOLEAN
    BY <1>2 DEF ProcessCallHangup, TypeOK
  <2>2. \A q \in Task : step[q] \notin {"hangupWait", "hangupCleanup"}
    BY <1>2 DEF OneHangup
  <2>3. GoodbyeNotCut'
    BY <1>2 DEF GoodbyeNotCut, Closed
  <2>4. CASE message
    <3>1. step' = Goes(step, p, "hangupWait") /\ UNCHANGED <<endInProgress, ender, endStep, webTimeout>>
      BY <1>2, <2>4 DEF ProcessCallHangup, teardown
    <3>2. step' \in [Task -> Steps] /\ step'[p] = "hangupWait"
          /\ \A q \in Task \ {p} : step'[q] = step[q] \/ (step[q] = "injecting" /\ step'[q] = "watching")
      BY <3>1, GoesMoves DEF TypeOK, Steps
    <3>3. Owned' /\ Closed'
      BY <3>1, <3>2 DEF TypeOK, Owned, Closed, outcome
    <3>4. OneHangup'
      BY <1>2, <2>1, <2>2, <3>2 DEF OneHangup, audio
    <3>5. QED
      BY <2>1, <2>3, <3>1, <3>2, <3>3, <3>4 DEF TypeOK
  <2>5. CASE ~message
    <3>1. ProcessEndOfConversation(p, FALSE)
      BY <1>2, <2>5 DEF ProcessCallHangup
    <3>2. /\ step' \in [Task -> Steps] /\ endInProgress' \in BOOLEAN /\ webTimeout' \in BOOLEAN
          /\ ender' \in Task \cup {"none"}
          /\ endStep' \in {"none", "wait", "poll", "stop", "done", "lost"}
          /\ Owned' /\ Closed'
      BY <3>1, EndOwned
    <3>3. step' = Goes(step, p, "ending") \/ step' = Goes(step, p, Return(p))
      BY <3>1 DEF ProcessEndOfConversation
    <3>4. step'[p] \in {"ending", "none", "over"}
          /\ \A q \in Task \ {p} : step'[q] = step[q] \/ (step[q] = "injecting" /\ step'[q] = "watching")
      BY <3>3, <1>a, GoesMoves DEF TypeOK, Steps
    <3>5. OneHangup'
      BY <1>2, <2>1, <2>2, <3>4 DEF OneHangup, audio
    <3>6. QED
      BY <2>1, <2>3, <3>2, <3>5
  <2>6. QED
    BY <2>4, <2>5
<1>3. QED
  BY <1>1, <1>2

-------------------------------------------------------------------------------
(* Steps, by what they do to the tasks.                                     *)

Early == {"ending", "hangupWait", "hangupCleanup"}

\* Tasks that neither hang up nor tear down may move as they like.
LEMMA MoveKeeps ==
    ASSUME CInv, step' \in [Task -> Steps],
           \A q \in Task : step'[q] # step[q] => step[q] # "ending" /\ step'[q] \notin Early,
           hangupTriggered' \in BOOLEAN, hangupTriggered => hangupTriggered',
           endCallInProgress' \in BOOLEAN,
           UNCHANGED <<hangupTriggeredAt, hangupProcessing, hangupMessageQueued, endFlags, config,
                       capReached, teardown, outcome, audio, run>>
    PROVE  CInv'
<1> USE DEF CInv, endFlags, config, teardown, outcome, audio
<1>1. TypeOK'
  BY DEF TypeOK
<1>2. Owned' /\ Closed'
  BY DEF TypeOK, Owned, Closed, Early
<1>3. GoodbyeNotCut' /\ OneHangup'
  BY DEF GoodbyeNotCut, OneHangup, Early
<1>4. QED
  BY <1>1, <1>2, <1>3

\* process_end_of_conversation, called where the hangup itself does not change.
LEMMA EndKeeps ==
    ASSUME CInv, NEW p \in Task, NEW web \in BOOLEAN, step[p] \notin Early,
           ProcessEndOfConversation(p, web), hangupSent' \in BOOLEAN, hangupSent => hangupSent',
           UNCHANGED <<hangupFlags, conversationEnded, endedByAssistant, endCallInProgress,
                       config, capReached, outcome, goodbye, run>>
    PROVE  CInv'
<1> USE DEF CInv, hangupFlags, config, outcome
<1>1. /\ step' \in [Task -> Steps] /\ endInProgress' \in BOOLEAN /\ webTimeout' \in BOOLEAN
      /\ ender' \in Task \cup {"none"}
      /\ endStep' \in {"none", "wait", "poll", "stop", "done", "lost"}
      /\ Owned' /\ Closed'
  BY EndOwned DEF Early
<1>2. Return(p) \in {"none", "over"}
  BY DEF Return
<1>3. step' = Goes(step, p, "ending") \/ step' = Goes(step, p, Return(p))
  BY DEF ProcessEndOfConversation
<1>4. step'[p] \in {"ending", "none", "over"}
      /\ \A q \in Task \ {p} : step'[q] = step[q] \/ (step[q] = "injecting" /\ step'[q] = "watching")
  BY <1>2, <1>3, GoesMoves DEF TypeOK, Steps
<1>5. GoodbyeNotCut' /\ OneHangup'
  BY <1>4 DEF GoodbyeNotCut, OneHangup, TypeOK
<1>6. TypeOK'
  BY <1>1 DEF TypeOK
<1>7. QED
  BY <1>1, <1>5, <1>6

\* process_call_hangup, likewise.
LEMMA HangupKeeps ==
    ASSUME CInv, NEW p \in Task, NEW message \in BOOLEAN, step[p] # "ending",
           ProcessCallHangup(p, message), hangupMessage' \in BOOLEAN,
           UNCHANGED <<conversationEnded, endedByAssistant, endCallInProgress, isWeb,
                       capReached, outcome, audio, run>>
    PROVE  CInv'
<1>1. /\ step' \in [Task -> Steps] /\ endInProgress' \in BOOLEAN /\ webTimeout' \in BOOLEAN
      /\ hangupTriggered' \in BOOLEAN /\ hangupTriggeredAt' \in BOOLEAN
      /\ hangupProcessing' \in BOOLEAN /\ hangupMessageQueued' \in BOOLEAN
      /\ ender' \in Task \cup {"none"}
      /\ endStep' \in {"none", "wait", "poll", "stop", "done", "lost"}
      /\ Owned' /\ Closed' /\ GoodbyeNotCut' /\ OneHangup'
  BY HangupOwned
<1>2. TypeOK'
  BY <1>1 DEF CInv, TypeOK, outcome, audio
<1>3. QED
  BY <1>1, <1>2 DEF CInv

\* Cancelling the LLM task, with the loss of its teardown, keeps the ownership.
LEMMA CancelKeeps ==
    ASSUME CInv, NEW st \in [Task -> Steps],
           endStep' = IF TeardownLost THEN "lost" ELSE endStep,
           st["llm"] \in {"none", "turn", CancelLLM(step)["llm"]},
           ender = "llm" /\ endStep = "stop" => st["llm"] = CancelLLM(step)["llm"],
           \A q \in Task \ {"llm"} : st[q] = CancelLLM(step)[q]
             \/ (step[q] # "ending" /\ st[q] \notin Early),
           step' = st,
           UNCHANGED <<endFlags, ender, webTimeout, outcome, run>>
    PROVE  endStep' \in {"none", "wait", "poll", "stop", "done", "lost"} /\ Owned' /\ Closed'
<1> USE DEF CInv, endFlags, outcome
<1>1. \A q \in Task \ {"llm"} : CancelLLM(step)[q] = step[q]
                  \/ (step[q] = "injecting" /\ CancelLLM(step)[q] = "watching")
  BY CancelMoves DEF TypeOK
<1>2. \A q \in Task \ {"llm"} : step'[q] = step[q] \/ (step[q] # "ending" /\ step'[q] \notin Early)
  BY <1>1 DEF Early
<1>3. IF ender = "llm" /\ endStep = "stop" THEN step'["llm"] = step["llm"]
      ELSE step'["llm"] \in {"none", "turn"}
  BY CancelMoves DEF TypeOK
<1>4. endStep' \in {"none", "wait", "poll", "stop", "done", "lost"}
  BY DEF TypeOK, TeardownLost
<1>5. Owned'
  <2>1. CASE ender = "llm" /\ endStep \in {"wait", "poll"}
    BY <1>2, <1>3, <2>1 DEF Owned, TeardownLost, Early, Task, TypeOK
  <2>2. CASE ~(ender = "llm" /\ endStep \in {"wait", "poll"})
    <3>1. endStep' = endStep
      BY <2>2 DEF TeardownLost
    <3>2. QED
      BY <1>2, <1>3, <2>2, <3>1 DEF Owned, Early, Task, TypeOK
  <2>3. QED
    BY <2>1, <2>2
<1>6. Closed'
  BY DEF Closed, TeardownLost, TypeOK
<1>7. QED
  BY <1>4, <1>5, <1>6

-------------------------------------------------------------------------------
(* Every action keeps the invariant.                                        *)

\* Turns and barge-ins (run_llm_task, cleanup_downstream_tasks).
LEMMA TurnsKeep == CInv /\ Turns => CInv'
<1> SUFFICES ASSUME CInv, Turns PROVE CInv'
  OBVIOUS
<1>t. step \in [Task -> Steps] /\ hangupTriggered \in BOOLEAN /\ endCallInProgress \in BOOLEAN
      /\ "llm" \in Task /\ "listener" \in Task
  BY DEF CInv, TypeOK, Task
<1> USE DEF hangupFlags
<1>1. CASE TurnStarts
  BY <1>1, <1>t, MoveKeeps DEF TurnStarts, Steps, Early
<1>2. CASE TurnEnds
  <2>1. step' = Goes(step, "llm", "none") /\ "none" \in Steps \ {"injecting"}
    BY <1>2 DEF TurnEnds, Steps
  <2>2. /\ step' \in [Task -> Steps] /\ step["llm"] = "turn" /\ step'["llm"] = "none"
        /\ \A q \in Task \ {"llm"} : step'[q] = step[q]
                                     \/ (step[q] = "injecting" /\ step'[q] = "watching")
    BY <1>2, <1>t, <2>1, GoesMoves DEF TurnEnds
  <2>3. \A q \in Task : step'[q] # step[q] => step[q] # "ending" /\ step'[q] \notin Early
    BY <2>2 DEF Early
  <2>4. QED
    BY <1>2, <1>t, <2>2, <2>3, MoveKeeps DEF TurnEnds
<1>3. CASE BargeIn
  BY <1>3, <1>t, MoveKeeps DEF BargeIn, Listening, Steps, Early
<1>4. CASE BargeInCleaned
  <2> DEFINE st == [CancelLLM(step) EXCEPT !["listener"] = "idle"]
  <2>1. CancelLLM(step) \in [Task -> Steps] /\ st \in [Task -> Steps]
    BY <1>t, CancelMoves DEF Steps
  <2>2. step' = st \/ (~conversationEnded /\ step' = [st EXCEPT !["llm"] = "turn"])
    BY <1>4 DEF BargeInCleaned
  <2>3. step' \in [Task -> Steps] /\ \A q \in Task \ {"llm", "listener"} : step'[q] = CancelLLM(step)[q]
    BY <1>t, <2>1, <2>2 DEF Steps
  <2>4. step'["listener"] = "idle" /\ step["listener"] = "cleanup"
    BY <1>4, <1>t, <2>1, <2>2 DEF BargeInCleaned
  <2>5. step'["llm"] = CancelLLM(step)["llm"] \/ (~conversationEnded /\ step'["llm"] = "turn")
    BY <1>t, <2>1, <2>2
  <2>6. endStep = "stop" => conversationEnded
    BY DEF CInv, Closed
  <2>7. endStep' = (IF TeardownLost THEN "lost" ELSE endStep)
        /\ UNCHANGED <<endFlags, ender, webTimeout, outcome, run>>
    BY <1>4 DEF BargeInCleaned
  <2>8. endStep' \in {"none", "wait", "poll", "stop", "done", "lost"} /\ Owned' /\ Closed'
    BY <2>3, <2>4, <2>5, <2>6, <2>7, CancelKeeps DEF Early
  <2>9. goodbye' \in {"none", "synth", "sent", "played", "dropped"} /\ (goodbye = "none" => goodbye' = "none")
    BY <1>4 DEF BargeInCleaned, CInv, TypeOK
  <2>10. UNCHANGED <<hangupTriggered, hangupTriggeredAt, hangupProcessing, hangupMessageQueued,
                     endCallInProgress, isWeb, hangupMessage, capReached, hangupSent>>
    BY <1>4 DEF BargeInCleaned, config
  <2>11. GoodbyeNotCut'
    BY <2>7, <2>10 DEF CInv, GoodbyeNotCut, endFlags
  <2>12. \A q \in Task : step'[q] \in {"hangupWait", "hangupCleanup"} => step[q] = step'[q]
    BY <1>t, <2>3, <2>4, <2>5, CancelMoves
  <2>13. OneHangup'
    BY <2>9, <2>10, <2>12 DEF CInv, OneHangup
  <2>14. TypeOK'
    BY <2>3, <2>7, <2>8, <2>9, <2>10 DEF CInv, TypeOK, endFlags, outcome
  <2>15. QED
    BY <2>8, <2>11, <2>13, <2>14 DEF CInv
<1>5. QED
  BY <1>1, <1>2, <1>3, <1>4 DEF Turns

\* A failing transcriber or LLM, a caller who leaves.
LEMMA FailuresKeep == CInv /\ Failures => CInv'
<1> SUFFICES ASSUME CInv, Failures PROVE CInv'
  OBVIOUS
<1>t. step \in [Task -> Steps] /\ hangupTriggered \in BOOLEAN /\ endCallInProgress \in BOOLEAN
      /\ "llm" \in Task /\ "listener" \in Task /\ hangupSent \in BOOLEAN
  BY DEF CInv, TypeOK, Task
<1> USE DEF audio
<1>1. CASE TranscriberFails
  BY <1>1, <1>t, EndKeeps DEF TranscriberFails, Early
<1>2. CASE CallerLeaves
  BY <1>2, <1>t, MoveKeeps DEF CallerLeaves, Steps, Early, hangupFlags
<1>3. CASE LLMFails
  BY <1>3, <1>t, EndKeeps DEF LLMFails, Early
<1>4. QED
  BY <1>1, <1>2, <1>3 DEF Failures

\* The completion check, end_call and process_call_hangup past its waits.
LEMMA HangupsKeep == CInv /\ Hangup => CInv'
<1> SUFFICES ASSUME CInv, Hangup PROVE CInv'
  OBVIOUS
<1>t. step \in [Task -> Steps] /\ hangupTriggered \in BOOLEAN /\ endCallInProgress \in BOOLEAN
      /\ "llm" \in Task /\ "watchdog" \in Task /\ hangupMessage \in BOOLEAN
  BY DEF CInv, TypeOK, Task
<1>1. CASE LLMPromptedHangup
  BY <1>1, <1>t, HangupKeeps DEF LLMPromptedHangup, config
<1>2. CASE EndCallTool
  BY <1>2, <1>t, MoveKeeps DEF EndCallTool, Steps, Early
<1>3. CASE EndCallGoodbye
  BY <1>3, <1>t, MoveKeeps DEF EndCallGoodbye, Steps, Early
<1>4. CASE EndCallActuates
  BY <1>4, <1>t, HangupKeeps DEF EndCallActuates
<1>5. ASSUME NEW p \in {"llm", "watchdog"}, HangupWaited(p) PROVE CInv'
  <2>1. /\ step' \in [Task -> Steps] /\ step[p] = "hangupWait" /\ step'[p] = "hangupCleanup"
        /\ \A q \in Task \ {p} : step'[q] = step[q]
    BY <1>5, <1>t DEF HangupWaited, Steps
  <2>2. UNCHANGED <<hangupFlags, endFlags, endCallInProgress, config, capReached, teardown,
                    outcome, audio, run>>
    BY <1>5 DEF HangupWaited
  <2> USE DEF hangupFlags, endFlags, config, teardown, outcome, audio
  <2>3. TypeOK' /\ GoodbyeNotCut'
    BY <2>1, <2>2 DEF CInv, TypeOK, GoodbyeNotCut
  <2>4. Owned' /\ Closed'
    BY <1>t, <2>1, <2>2 DEF CInv, TypeOK, Owned, Closed
  <2>5. OneHangup'
    BY <1>t, <2>1, <2>2 DEF CInv, OneHangup
  <2>6. QED
    BY <2>3, <2>4, <2>5 DEF CInv
<1>6. ASSUME NEW p \in {"llm", "watchdog"}, HangupSynthesizes(p) PROVE CInv'
  <2>a. p \in Task /\ Return(p) \in {"none", "over"} /\ (p = "llm" => Return(p) = "none")
    BY <1>t DEF Return
  <2>b. Return(p) \in Steps \ {"injecting"}
    BY <2>a DEF Steps
  <2>1. /\ step[p] = "hangupCleanup" /\ step' = Goes(CancelLLM(step), p, Return(p))
        /\ endStep' = (IF TeardownLost THEN "lost" ELSE endStep)
        /\ goodbye' = (IF conversationEnded THEN goodbye ELSE "synth") /\ hangupTriggeredAt' = TRUE
        /\ UNCHANGED <<hangupTriggered, hangupProcessing, hangupMessageQueued, endFlags,
                       endCallInProgress, config, capReached, ender, webTimeout, outcome,
                       hangupSent, run>>
    BY <1>6 DEF HangupSynthesizes
  <2>2. CancelLLM(step) \in [Task -> Steps]
    BY <1>t, CancelMoves
  <2>3. /\ step' \in [Task -> Steps] /\ step'[p] = Return(p)
        /\ \A q \in Task \ {p} : step'[q] = CancelLLM(step)[q]
             \/ (CancelLLM(step)[q] = "injecting" /\ step'[q] = "watching")
    BY <2>a, <2>b, <2>1, <2>2, GoesMoves
  <2>4. p = "llm" => ~(ender = "llm" /\ endStep = "stop") \/ run = "over"
    BY <2>1 DEF CInv, Owned
  <2>5. \A q \in Task \ {"llm"} : CancelLLM(step)[q] = step[q]
             \/ (step[q] = "injecting" /\ CancelLLM(step)[q] = "watching")
    BY <1>t, CancelMoves
  <2>6. IF ender = "llm" /\ endStep = "stop" THEN CancelLLM(step)["llm"] = step["llm"]
        ELSE CancelLLM(step)["llm"] = "none"
    BY <1>t, CancelMoves
  <2>7. \A q \in Task : step'[q] \in Early => step'[q] = step[q] /\ q # p
    BY <2>a, <2>3, <2>5, <2>6 DEF Early
  <2>8. \A q \in Task : step[q] = "ending" => step'[q] = "ending" \/ (q = "llm" /\ endStep # "stop")
    BY <2>1, <2>3, <2>5, <2>6 DEF CInv, Owned
  <2>9. endStep' \in {"none", "wait", "poll", "stop", "done", "lost"} /\ Closed'
    BY <2>1 DEF CInv, TypeOK, Closed, TeardownLost, endFlags, outcome
  <2>10. Owned'
    <3>1. CASE TeardownLost
      <4>1. \A q \in Task : step'[q] # "ending"
        BY <3>1, <2>1, <2>3, <2>6, <2>7 DEF CInv, Owned, TeardownLost, Early
      <4>2. QED
        BY <3>1, <4>1, <2>1 DEF CInv, Owned, TeardownLost, endFlags
    <3>2. CASE ~TeardownLost
      <4>1. endStep' = endStep
        BY <3>2, <2>1
      <4>2. endStep \in {"wait", "poll", "stop"} /\ run # "over" => step'[ender] = "ending"
        BY <3>2, <2>8 DEF CInv, Owned, TeardownLost, TypeOK
      <4>3. QED
        BY <2>1, <2>7, <4>1, <4>2 DEF CInv, Owned, Early, endFlags
    <3>3. QED
      BY <3>1, <3>2
  <2>11. OneHangup'
    BY <2>a, <2>1, <2>7 DEF CInv, OneHangup, Early
  <2>12. TypeOK' /\ GoodbyeNotCut'
    BY <2>1, <2>3, <2>9 DEF CInv, TypeOK, GoodbyeNotCut, endFlags, config, outcome
  <2>13. QED
    BY <2>9, <2>10, <2>11, <2>12 DEF CInv
<1>7. QED
  BY <1>1, <1>2, <1>3, <1>4, <1>5, <1>6 DEF Hangup

\* The goodbye on its way to the carrier and its final mark.
LEMMA GoodbyesKeep == CInv /\ Goodbye => CInv'
<1> SUFFICES ASSUME CInv, Goodbye PROVE CInv'
  OBVIOUS
<1>1. CASE GoodbyeSent \/ GoodbyePlayed
  <2>1. /\ goodbye # "none" /\ goodbye' \in {"sent", "played"}
        /\ UNCHANGED <<hangupFlags, endFlags, endCallInProgress, config, capReached, step,
                       teardown, outcome, hangupSent, run>>
    BY <1>1 DEF GoodbyeSent, GoodbyePlayed
  <2>2. TypeOK' /\ GoodbyeNotCut'
    BY <2>1 DEF CInv, TypeOK, GoodbyeNotCut, hangupFlags, endFlags, config, teardown, outcome
  <2>3. Owned' /\ Closed'
    BY <2>1 DEF CInv, Owned, Closed, endFlags, teardown, outcome
  <2>4. OneHangup'
    BY <2>1 DEF CInv, OneHangup, hangupFlags
  <2>5. QED
    BY <2>2, <2>3, <2>4 DEF CInv
<1>2. CASE AgentHangupObserver
  <2>1. "observer" \in Task /\ step["observer"] \notin Early
    BY <1>2 DEF AgentHangupObserver, Task, Early
  <2>2. QED
    BY <1>2, <2>1, EndKeeps DEF AgentHangupObserver
<1>3. QED
  BY <1>1, <1>2 DEF Goodbye

\* process_end_of_conversation past its guard.
LEMMA TeardownKeeps == CInv /\ Teardown => CInv'
<1> SUFFICES ASSUME CInv, Teardown PROVE CInv'
  OBVIOUS
<1>t. step \in [Task -> Steps] /\ hangupTriggered \in BOOLEAN /\ endCallInProgress \in BOOLEAN
      /\ "llm" \in Task /\ "listener" \in Task
  BY DEF CInv, TypeOK, Task
<1>1. CASE EndWaited
  <2>1. /\ run # "over" /\ endStep = "wait" /\ endStep' = "poll"
        /\ UNCHANGED <<hangupFlags, endFlags, endCallInProgress, config, capReached, step,
                       ender, webTimeout, outcome, audio, run>>
    BY <1>1 DEF EndWaited
  <2>2. TypeOK' /\ GoodbyeNotCut'
    BY <2>1 DEF CInv, TypeOK, GoodbyeNotCut, hangupFlags, endFlags, config, outcome, audio
  <2>3. Owned' /\ Closed'
    BY <2>1 DEF CInv, Owned, Closed, endFlags, outcome
  <2>4. OneHangup'
    BY <2>1 DEF CInv, OneHangup, hangupFlags, audio
  <2>5. QED
    BY <2>2, <2>3, <2>4 DEF CInv
<1>2. CASE EndCloses
  <2>1. /\ run # "over" /\ endStep = "poll" /\ GoodbyeDone
        /\ conversationEnded' = TRUE /\ endedByAssistant' = TRUE /\ step' = CancelsOthers
        /\ goodbyeRows' = goodbyeRows + (IF hangupMessageQueued /\ ~webTimeout THEN 1 ELSE 0)
        /\ stops' = stops + 1
        /\ endStep' = (IF ender = "llm" /\ step'["llm"] = "none" THEN "lost" ELSE "stop")
        /\ UNCHANGED <<hangupFlags, endInProgress, endCallInProgress, config, capReached, ender,
                       webTimeout, audio, run>>
    BY <1>2 DEF EndCloses
  <2>2. ender \in Task /\ step[ender] = "ending"
    BY <2>1 DEF CInv, Owned, TypeOK
  <2>3. /\ step' \in [Task -> Steps]
        /\ IF ender = "llm" THEN step' = step
           ELSE /\ step'["llm"] = "none"
                /\ \A q \in Task \ {"llm"} : step'[q] = step[q]
                                             \/ (step[q] = "injecting" /\ step'[q] = "watching")
    <3>1. CASE ender = "llm"
      BY <2>1, <3>1, <1>t DEF CancelsOthers
    <3>2. CASE ender # "llm"
      <4>1. step' = Goes(step, "llm", "none") /\ "none" \in Steps \ {"injecting"}
        BY <2>1, <3>2 DEF CancelsOthers, Steps
      <4>2. QED
        BY <1>t, <3>2, <4>1, GoesMoves
    <3>3. QED
      BY <3>1, <3>2
  <2>4. endStep' = "stop"
    BY <2>1, <2>2, <2>3
  <2>5. stops' = 1 /\ goodbyeRows' \in 0..1
    BY <2>1 DEF CInv, Closed
  <2>6. \A q \in Task : step'[q] \in Early => step'[q] = step[q]
    BY <2>3 DEF Early
  <2>7. Owned'
    BY <2>1, <2>2, <2>3, <2>4, <2>6 DEF CInv, Owned, Early
  <2>8. Closed' /\ GoodbyeNotCut'
    BY <2>1, <2>4 DEF CInv, Closed, GoodbyeNotCut, GoodbyeDone, OneHangup, hangupFlags, audio
  <2>9. OneHangup'
    BY <2>1, <2>6 DEF CInv, OneHangup, Early, hangupFlags, audio
  <2>10. TypeOK'
    BY <2>1, <2>3, <2>4, <2>5 DEF CInv, TypeOK, hangupFlags, config, audio
  <2>11. QED
    BY <2>7, <2>8, <2>9, <2>10 DEF CInv
<1>3. CASE EndStopped
  <2>1. /\ run # "over" /\ endStep = "stop" /\ endStep' = "done"
        /\ step' = Goes(step, ender, Return(ender))
        /\ UNCHANGED <<hangupFlags, endFlags, endCallInProgress, config, capReached, ender,
                       webTimeout, outcome, audio, run>>
    BY <1>3 DEF EndStopped, TranscriberToggled
  <2>2. ender \in Task /\ step[ender] = "ending"
    BY <2>1 DEF CInv, Owned, TypeOK
  <2>3. Return(ender) \in {"none", "over"}
    BY DEF Return
  <2>4. /\ step' \in [Task -> Steps] /\ step'[ender] \in {"none", "over"}
        /\ \A q \in Task \ {ender} : step'[q] = step[q]
                                     \/ (step[q] = "injecting" /\ step'[q] = "watching")
    BY <1>t, <2>1, <2>2, <2>3, GoesMoves DEF Steps
  <2>5. \A q \in Task : step'[q] \in Early => step'[q] = step[q] /\ q # ender
    BY <2>4 DEF Early
  <2>6. \A q \in Task : step'[q] # "ending"
    BY <2>5 DEF CInv, Owned, Early
  <2>7. Owned' /\ Closed'
    BY <2>1, <2>6 DEF CInv, Owned, Closed, endFlags, outcome
  <2>8. OneHangup'
    BY <2>1, <2>5 DEF CInv, OneHangup, Early, hangupFlags, audio
  <2>9. TypeOK' /\ GoodbyeNotCut'
    BY <2>1, <2>4 DEF CInv, TypeOK, GoodbyeNotCut, hangupFlags, endFlags, config, outcome, audio
  <2>10. QED
    BY <2>7, <2>8, <2>9 DEF CInv
<1>4. CASE TranscriberStopped
  BY <1>4, <1>t, MoveKeeps DEF TranscriberStopped, Steps, Early, hangupFlags
<1>5. QED
  BY <1>1, <1>2, <1>3, <1>4 DEF Teardown

\* check_for_completion.
LEMMA WatchdogKeeps == CInv /\ Watchdog => CInv'
<1> SUFFICES ASSUME CInv, Watchdog PROVE CInv'
  OBVIOUS
<1>t. step \in [Task -> Steps] /\ hangupTriggered \in BOOLEAN /\ endCallInProgress \in BOOLEAN
      /\ "llm" \in Task /\ "watchdog" \in Task /\ hangupMessage \in BOOLEAN /\ hangupSent \in BOOLEAN
  BY DEF CInv, TypeOK, Task
<1>w. Watching => step["watchdog"] \notin Early
  BY DEF Watching, Early
<1>e. Watching => step["watchdog"] # "ending"
  BY DEF Watching
<1>1. CASE CapElapses
  <2>1. /\ capReached' = TRUE
        /\ UNCHANGED <<hangupFlags, endFlags, endCallInProgress, config, step, teardown,
                       outcome, audio, run>>
    BY <1>1 DEF CapElapses
  <2>2. TypeOK' /\ GoodbyeNotCut'
    BY <2>1 DEF CInv, TypeOK, GoodbyeNotCut, hangupFlags, endFlags, config, teardown, outcome, audio
  <2>3. Owned' /\ Closed'
    BY <2>1 DEF CInv, Owned, Closed, endFlags, teardown, outcome
  <2>4. OneHangup'
    BY <2>1 DEF CInv, OneHangup, hangupFlags, audio
  <2>5. QED
    BY <2>2, <2>3, <2>4 DEF CInv
<1>2. CASE WatchdogWebCap
  BY <1>2, <1>t, <1>w, EndKeeps DEF WatchdogWebCap, audio
<1>3. CASE WatchdogTelephonyCap
  BY <1>3, <1>t, <1>e, HangupKeeps DEF WatchdogTelephonyCap, config
<1>4. CASE WatchdogSeesEnd
  BY <1>4, <1>t, MoveKeeps DEF WatchdogSeesEnd, Watching, Steps, Early, hangupFlags
<1>5. CASE WatchdogForcesEnd
  BY <1>5, <1>t, <1>w, EndKeeps DEF WatchdogForcesEnd, WritesOffMark
<1>6. CASE WatchdogInactivity
  BY <1>6, <1>t, <1>e, HangupKeeps DEF WatchdogInactivity, config
<1>7. CASE WatchdogSilencePrompt
  BY <1>7, <1>t, MoveKeeps DEF WatchdogSilencePrompt, Watching, Steps, Early, hangupFlags
<1>8. QED
  BY <1>1, <1>2, <1>3, <1>4, <1>5, <1>6, <1>7 DEF Watchdog

\* The end of run().
LEMMA RunKeeps == CInv /\ (RunGathered \/ RunOver) => CInv'
<1> SUFFICES ASSUME CInv, RunGathered \/ RunOver PROVE CInv'
  OBVIOUS
<1> USE DEF hangupFlags, endFlags, config, teardown, outcome, audio
<1>1. CASE RunGathered
  <2>1. TypeOK' /\ GoodbyeNotCut' /\ OneHangup'
    BY <1>1 DEF RunGathered, CInv, TypeOK, GoodbyeNotCut, OneHangup
  <2>2. Owned' /\ Closed'
    BY <1>1 DEF RunGathered, CInv, Owned, Closed
  <2>3. QED
    BY <2>1, <2>2 DEF CInv
<1>2. CASE RunOver
  <2>1. step' \in [Task -> Steps] /\ \A q \in Task : step'[q] = "over"
    BY <1>2 DEF RunOver, Steps
  <2>2. TypeOK' /\ GoodbyeNotCut' /\ OneHangup'
    BY <1>2, <2>1 DEF RunOver, CInv, TypeOK, GoodbyeNotCut, OneHangup
  <2>3. Owned' /\ Closed'
    BY <1>2, <2>1 DEF RunOver, CInv, Owned, Closed
  <2>4. QED
    BY <2>2, <2>3 DEF CInv
<1>3. QED
  BY <1>1, <1>2

-------------------------------------------------------------------------------
(* The invariant and what follows from it.                                  *)

\* A greeted call satisfies the invariant.
LEMMA InitInvariant == Init => CInv
<1> SUFFICES ASSUME Init PROVE CInv
  OBVIOUS
<1>1. /\ step["llm"] = "none" /\ step["watchdog"] = "watching" /\ step["listener"] = "idle"
      /\ step["observer"] = "none" /\ step \in [Task -> Steps]
  BY DEF Init, Task, Steps
<1>2. \A q \in Task : step[q] \notin Early
  BY <1>1 DEF Task, Early
<1>3. TypeOK
  <2>1. /\ hangupTriggered = FALSE /\ hangupTriggeredAt = FALSE
        /\ hangupProcessing = FALSE /\ hangupMessageQueued = FALSE
        /\ conversationEnded = FALSE /\ endInProgress = FALSE
        /\ endCallInProgress = FALSE /\ endedByAssistant = FALSE
        /\ isWeb \in BOOLEAN /\ hangupMessage \in BOOLEAN /\ capReached = FALSE
        /\ ender = "none" /\ endStep = "none" /\ webTimeout = FALSE
        /\ goodbye = "none" /\ hangupSent = FALSE /\ goodbyeRows = 0 /\ stops = 0
        /\ run = "running"
    BY DEF Init
  <2>2. goodbyeRows \in 0..1 /\ stops \in 0..1 /\ ender \in Task \cup {"none"}
    BY <2>1
  <2>3. QED
    BY <1>1, <2>1, <2>2, Zenon DEF TypeOK
<1>4. Owned /\ Closed /\ GoodbyeNotCut /\ OneHangup
  BY <1>2 DEF Init, Owned, Closed, GoodbyeNotCut, OneHangup, Early
<1>5. QED
  BY <1>3, <1>4 DEF CInv

\* Every step keeps the invariant.
LEMMA StepInvariant == CInv /\ [Next]_vars => CInv'
<1> SUFFICES ASSUME CInv, [Next]_vars PROVE CInv'
  OBVIOUS
<1>1. CASE UNCHANGED vars
  BY <1>1 DEF vars, hangupFlags, endFlags, config, teardown, outcome, audio, CInv, TypeOK, Owned,
     Closed, GoodbyeNotCut, OneHangup
<1>2. QED
  BY <1>1, TurnsKeep, FailuresKeep, HangupsKeep, GoodbyesKeep, TeardownKeeps, WatchdogKeeps,
     RunKeeps, Zenon DEF Next

\* The invariant holds in every behaviour (all handlers of lifecycle/hangup.py).
THEOREM CallInvariant == Spec => []CInv
BY InitInvariant, StepInvariant, PTL DEF Spec

\* Every variable of the call's end keeps its type; in particular the input is
\* stopped at most once and the goodbye logged at most once
\* (process_end_of_conversation).
THEOREM CallTypeCorrect == Spec => []TypeOK
BY CallInvariant, PTL DEF CInv

\* Whoever asks for the end of the call, one task only is past the guard of
\* process_end_of_conversation.
THEOREM OneTeardownHolds == Spec => []OneTeardown
<1>1. CInv => OneTeardown
  BY Zenon DEF CInv, Owned, OneTeardown
<1>2. QED
  BY <1>1, CallInvariant, PTL

\* A queued goodbye is not cut off by the teardown (the poll of hangup_sent in
\* process_end_of_conversation).
THEOREM GoodbyeNotCutHolds == Spec => []GoodbyeNotCut
BY CallInvariant, PTL DEF CInv

\* Once the assistant has ended the call, its teardown is not cancelled under it
\* (cleanup_downstream_tasks against process_end_of_conversation).
THEOREM TeardownSurvivesHolds == Spec => []TeardownSurvives
<1>1. CInv => TeardownSurvives
  BY DEF CInv, Closed, TeardownSurvives
<1>2. QED
  BY <1>1, CallInvariant, PTL

\* The goodbye is synthesized at most once (process_call_hangup).
THEOREM OneGoodbyeHolds == Spec => OneGoodbye
<1>1. CInv /\ [Next]_vars => [goodbye' = "synth" => goodbye \in {"none", "synth"}]_vars
  <2> SUFFICES ASSUME CInv, Next, goodbye' = "synth" PROVE goodbye \in {"none", "synth"}
    BY Zenon
  <2>0. CASE goodbye' = goodbye
    BY <2>0
  <2>1. CASE BargeInCleaned
    BY <2>1 DEF BargeInCleaned
  <2>2. ASSUME NEW p \in {"llm", "watchdog"}, HangupSynthesizes(p)
        PROVE  goodbye \in {"none", "synth"}
    BY <2>2 DEF HangupSynthesizes, CInv, OneHangup, Task
  <2>3. CASE GoodbyeSent \/ GoodbyePlayed
    BY <2>3 DEF GoodbyeSent, GoodbyePlayed
  <2> USE DEF audio
  <2>4. CASE TurnStarts \/ TurnEnds \/ BargeIn \/ Failures
    BY <2>0, <2>4, Zenon DEF TurnStarts, TurnEnds, BargeIn, Failures, TranscriberFails, CallerLeaves,
       LLMFails
  <2>5. CASE LLMPromptedHangup \/ EndCallTool \/ EndCallGoodbye \/ EndCallActuates
    BY <2>0, <2>5, Zenon DEF LLMPromptedHangup, EndCallTool, EndCallGoodbye, EndCallActuates
  <2>6. ASSUME NEW p \in {"llm", "watchdog"}, HangupWaited(p) PROVE goodbye \in {"none", "synth"}
    BY <2>0, <2>6, Zenon DEF HangupWaited
  <2>7. CASE AgentHangupObserver \/ Teardown
    BY <2>0, <2>7, Zenon DEF AgentHangupObserver, Teardown, EndWaited, EndCloses, EndStopped,
       TranscriberStopped
  <2>8. CASE Watchdog
    BY <2>0, <2>8, Zenon DEF Watchdog, CapElapses, WatchdogWebCap, WatchdogTelephonyCap,
       WatchdogSeesEnd, WatchdogForcesEnd, WatchdogInactivity, WatchdogSilencePrompt
  <2>9. CASE RunGathered \/ RunOver
    BY <2>0, <2>9, Zenon DEF RunGathered, RunOver
  <2>10. QED
    BY <2>1, <2>2, <2>3, <2>4, <2>5, <2>6, <2>7, <2>8, <2>9, Zenon DEF Next, Turns, Hangup, Goodbye
<1>2. QED
  BY <1>1, CallInvariant, PTL DEF Spec, OneGoodbye

-------------------------------------------------------------------------------
(* The call keeps the promise of CallPromise, but for its liveness.         *)

\* What a step may do to the flags that CallPromise sees.
Forward ==
    /\ run = "over" => run' = "over"
    /\ run' # run => run' \in {"draining", "over"}
    /\ conversationEnded => conversationEnded'
    /\ conversationEnded' # conversationEnded => run' = "over" \/ (ender # "none" /\ ender' = ender)
    /\ hangupTriggered => hangupTriggered'
    /\ endInProgress => endInProgress' /\ ender' = ender
    /\ ender' # ender => ender = "none" /\ ender' \in Task /\ ~conversationEnded /\ ~conversationEnded'

\* No step takes back what the call has decided.
LEMMA StepForward == CInv /\ [Next]_vars => Forward
<1> SUFFICES ASSUME CInv, [Next]_vars PROVE Forward
  OBVIOUS
<1> USE DEF hangupFlags, endFlags, teardown
<1>0. CASE UNCHANGED <<run, conversationEnded, endInProgress, ender>> /\ (hangupTriggered => hangupTriggered')
  BY <1>0 DEF Forward
<1>e. ASSUME NEW p \in Task, NEW web \in BOOLEAN, ProcessEndOfConversation(p, web),
             UNCHANGED <<run, conversationEnded>>, hangupTriggered => hangupTriggered'
      PROVE  Forward
  BY <1>e DEF ProcessEndOfConversation, Forward, CInv, Owned, Task
<1>h. ASSUME NEW p \in Task, NEW message \in BOOLEAN, ProcessCallHangup(p, message),
             UNCHANGED <<run, conversationEnded>>
      PROVE  Forward
  BY <1>0, <1>e, <1>h DEF ProcessCallHangup
<1>t. "llm" \in Task /\ "watchdog" \in Task /\ "listener" \in Task /\ "observer" \in Task
  BY DEF Task
<1>m. hangupMessage \in BOOLEAN
  BY DEF CInv, TypeOK
<1>1. CASE TurnStarts \/ TurnEnds \/ BargeIn \/ BargeInCleaned \/ CallerLeaves
  BY <1>0, <1>1, Zenon DEF TurnStarts, TurnEnds, BargeIn, BargeInCleaned, CallerLeaves
<1>2. CASE TranscriberFails \/ LLMFails \/ AgentHangupObserver
  <2>1. PICK p \in Task : ProcessEndOfConversation(p, FALSE)
    BY <1>t, <1>2, Zenon DEF TranscriberFails, LLMFails, AgentHangupObserver
  <2>2. UNCHANGED <<run, conversationEnded>> /\ hangupTriggered' = hangupTriggered
    BY <1>2, Zenon DEF TranscriberFails, LLMFails, AgentHangupObserver
  <2>3. QED
    BY <1>e, <2>1, <2>2
<1>3. CASE LLMPromptedHangup \/ EndCallActuates
  BY <1>h, <1>t, <1>m, <1>3 DEF LLMPromptedHangup, EndCallActuates
<1>4. CASE EndCallTool \/ EndCallGoodbye
  BY <1>0, <1>4 DEF EndCallTool, EndCallGoodbye
<1>5. ASSUME NEW p \in {"llm", "watchdog"}, HangupWaited(p) \/ HangupSynthesizes(p) PROVE Forward
  BY <1>0, <1>5, Zenon DEF HangupWaited, HangupSynthesizes
<1>6. CASE GoodbyeSent \/ GoodbyePlayed \/ EndWaited \/ EndStopped \/ TranscriberStopped
  BY <1>0, <1>6, Zenon DEF GoodbyeSent, GoodbyePlayed, EndWaited, EndStopped, TranscriberStopped
<1>7. CASE EndCloses
  BY <1>7 DEF EndCloses, Forward, CInv, Owned
<1>8. CASE CapElapses \/ WatchdogSeesEnd \/ WatchdogSilencePrompt
  BY <1>0, <1>8, Zenon DEF CapElapses, WatchdogSeesEnd, WatchdogSilencePrompt
<1>9. CASE WatchdogWebCap \/ WatchdogForcesEnd
  <2>1. PICK web \in BOOLEAN : ProcessEndOfConversation("watchdog", web)
    BY <1>9, Zenon DEF WatchdogWebCap, WatchdogForcesEnd
  <2>2. UNCHANGED <<run, conversationEnded>> /\ hangupTriggered' = hangupTriggered
    BY <1>9, Zenon DEF WatchdogWebCap, WatchdogForcesEnd
  <2>3. QED
    BY <1>e, <1>t, <2>1, <2>2
<1>10. CASE WatchdogTelephonyCap \/ WatchdogInactivity
  BY <1>h, <1>t, <1>m, <1>10 DEF WatchdogTelephonyCap, WatchdogInactivity
<1>11. CASE RunGathered \/ RunOver
  BY <1>11 DEF RunGathered, RunOver, Forward, CInv, TypeOK
<1>12. CASE UNCHANGED vars
  BY <1>0, <1>12 DEF vars
<1>13. QED
  BY <1>1, <1>2, <1>3, <1>4, <1>5, <1>6, <1>7, <1>8, <1>9, <1>10, <1>11, <1>12, Zenon
     DEF Next, Turns, Failures, Hangup, Goodbye, Teardown, Watchdog

\* The call is a call of CallPromise: its initial state maps to an initial state and
\* every step to a step or a stutter (process_call_hangup, process_end_of_conversation
\* and the finally of run).
THEOREM CallKeepsPromise == Spec => Promise!Init /\ [][Promise!Next]_(Promise!promise)
<1>1. Init => Promise!Init
  BY DEF Init, Promise!Init, Stage
<1>2. CInv /\ CInv' /\ Forward => [Promise!Next]_(Promise!promise)
  <2> SUFFICES ASSUME CInv, CInv', Forward PROVE Promise!Next \/ UNCHANGED Promise!promise
    OBVIOUS
  <2> USE DEF Stage, Promise!Next, Promise!promise, Promise!Decide, Promise!Claim, Promise!End,
          Promise!Lost, Promise!Finish, Promise!Abandon
  <2>t. /\ run \in {"running", "draining", "over"} /\ conversationEnded \in BOOLEAN
        /\ ender \in Task \cup {"none"} /\ endInProgress \in BOOLEAN /\ hangupTriggered \in BOOLEAN
        /\ (endInProgress <=> ender # "none") /\ "none" \notin Task
    BY DEF CInv, TypeOK, Owned, Task
  <2>1. CASE run = "over"
    BY <2>1 DEF Forward
  <2>2. CASE run # "over" /\ run' = "over"
    BY <2>2, <2>t DEF Forward
  <2>3. CASE run # "over" /\ run' # "over" /\ conversationEnded
    BY <2>3 DEF Forward
  <2>4. CASE run # "over" /\ run' # "over" /\ ~conversationEnded /\ conversationEnded'
    BY <2>4, <2>t DEF Forward
  <2>p. /\ endInProgress' \in BOOLEAN /\ hangupTriggered' \in BOOLEAN
        /\ (endInProgress' <=> ender' # "none")
    BY DEF CInv, TypeOK, Owned
  <2>5. CASE run # "over" /\ run' # "over" /\ ~conversationEnded /\ ~conversationEnded'
    <3>1. CASE ender' # ender
      BY <2>5, <2>t, <2>p, <3>1 DEF Forward
    <3>2. CASE ender' = ender
      BY <2>5, <2>t, <2>p, <3>2 DEF Forward
    <3>3. QED
      BY <3>1, <3>2
  <2>6. QED
    BY <2>1, <2>2, <2>3, <2>4, <2>5
<1>3. QED
  BY <1>1, <1>2, StepForward, StepInvariant, CallInvariant, PTL DEF Spec
===============================================================================
