--------------------------- MODULE TurnSafetyProofs ---------------------------
(***************************************************************************)
(* The safety of turn taking, for any number of ids, with and without       *)
(* settle window and tools.  The running response is audible in every       *)
(* session; the other results are about sessions without speculative turns  *)
(* (no transcriber that emits eager_end_of_turn).                           *)
(***************************************************************************)
EXTENDS TurnPipelineProofs

-------------------------------------------------------------------------------
(* The inductive invariant, on top of IInv.                                 *)

Cleaning == listener \in {"clearOutput", "clearSynth"}
Speaking == {"running", "followup"}

\* An end frame on its way belongs to a response that is no longer generated.
Closed(g, q) == \A i \in 1..Len(q) : q[i].kind = "end" => g[q[i].seq] \notin Open
Ends ==
    /\ Closed(gen, synthQueue) /\ Closed(gen, outputQueue)
    /\ held.kind = "end" => gen[held.seq] \notin Open

\* Where speculative turns live: finals are routed without a suspension, and no
\* regeneration is owed while a speculative task is kept.
Speculation ==
    /\ listener = "route" => ~EagerTurns
    /\ ~EagerTurns => eagerTask = NoSeq /\ ~eagerOpen
    /\ Armed => eagerTask = NoSeq

\* The two tasks the session can name, llm_task and eager_llm_task, are audible
\* unless a cleanup is under way that will cancel both.
Heard(t) == t # NoSeq /\ gen[t] \in Speaking => t \in sequenceIds
Audible == ~Cleaning => Heard(llmTask) /\ Heard(eagerTask)

\* A speculative task that can still be confirmed speaks under the id it was given,
\* unless a tool call moved it on while another turn's task runs; then the call is
\* still in flight and the final that would confirm it is dropped.
MovedOn == eagerTask # eagerSeq \/ gen[eagerTask] = "tool"
OwnId ==
    eagerOpen /\ eagerTask # NoSeq /\ Live(llmTask) /\ MovedOn => functionCallInFlight

\* The tasks the session names were started.
Named == \A t \in {llmTask, eagerTask} : t # NoSeq => gen[t] # "none"

AInv == IInv /\ Ends /\ Speculation /\ Named /\ OwnId /\ Audible

\* Nothing of the speculative machinery is in use.
NoSpeculation == ~EagerTurns /\ eagerTask = NoSeq /\ ~eagerOpen

\* The two facts about turn tasks that every other one rests on.
OneTask == CancelledSilenced /\ OneLiveGeneration

\* A regeneration is owed only outside a cleanup, with an empty staging area.
Owed ==
    /\ OwedTurnReady
    /\ Armed => staged = {} /\ ~Cleaning

\* The frame on the wire is valid unless a cleanup is under way that will drop it.
OnWire == sending /\ ~Cleaning => held.seq \in sequenceIds

SInv == IInv /\ NoSpeculation /\ OneTask /\ Ends /\ Owed /\ OnWire

-------------------------------------------------------------------------------
(* Steps, reduced to what they do to the valid ids and the turn tasks.      *)

\* Speculation stays off.
LEMMA NoSpeculationStep == NoSpeculation /\ [Next]_vars => NoSpeculation'
<1> SUFFICES ASSUME NoSpeculation, [Next]_vars PROVE NoSpeculation'
  OBVIOUS
<1> USE DEF genVars, listenerVars
<1>0. CASE UNCHANGED <<eagerTask, eagerOpen>>
  BY <1>0, Zenon DEF NoSpeculation
<1>1. CASE EagerEndOfTurn \/ TurnResumed \/ FinalEager
  BY <1>1, Zenon DEF EagerEndOfTurn, TurnResumed, FinalEager, NoSpeculation
<1>2. CASE InterimBargeIn \/ InterimContinuation \/ InterimSpeaking \/ FinalIgnored
             \/ FinalDuplicate \/ FinalTranscript \/ SpeechEnded
  BY <1>2 DEF InterimBargeIn, InterimContinuation, InterimSpeaking, FinalIgnored,
     FinalDuplicate, FinalTranscript, SpeechEnded, StartCleanup, AtRouter, NoSpeculation
<1>3. CASE RouteTranscript \/ RouteOverlapped \/ OutputCleared \/ CleanupFinish \/ SettleFire
  BY <1>3 DEF RouteTranscript, RouteOverlapped, OutputCleared, CleanupFinish, SettleFire,
     StartCleanup, AtRouter, NoSpeculation
<1>4. ASSUME NEW s \in Ids, GenText(s) \/ GenFinish(s) \/ GenEmpty(s) \/ GenTool(s)
      PROVE  NoSpeculation'
  BY <1>0, <1>4, Zenon DEF GenText, GenFinish, GenEmpty, GenTool
<1>5. ASSUME NEW s \in Ids, ToolResult(s) PROVE NoSpeculation'
  BY <1>5, ValueTypes, Zenon DEF ToolResult, NoSpeculation
<1>6. CASE SynthYield \/ OutputLoop \/ StuckGateRelease \/ AckMark \/ GraceExpires
  BY <1>0, <1>6, Zenon DEF SynthYield, OutputLoop, OutputTake, OutputSend, OutputHandled, OutputBlock,
     StuckGateRelease, AckMark, GraceExpires
<1>7. CASE UNCHANGED vars
  BY <1>0, <1>7, Zenon DEF vars
<1>8. QED
  BY <1>1, <1>2, <1>3, <1>4, <1>5, <1>6, <1>7, Zenon
     DEF Next, Transcriber, Router, Cleanup, LLMTask

\* kickoff_llm_generation over tables g, ids and st in which llm_task is the only
\* running task leaves its own task as the only one, with a valid id.
LEMMA KickoffOne ==
    ASSUME NEW s \in Ids, NEW g \in [Ids -> GenStates], NEW ids, NEW st,
           Kickoff(s, ids, g, st),
           \A t \in Ids : g[t] \in LiveStates => t = llmTask,
           \A t \in Ids : g[t] = "cancelled" => t \notin ids
    PROVE  OneTask' /\ llmTask' = s /\ s \in sequenceIds' /\ gen'[s] = "running"
<1> DEFINE stale == {t \in Ids : t = llmTask /\ g[t] \in LiveStates}
<1>1. gen' = [Cancelled(g, stale) EXCEPT ![s] = "running"]
  BY DEF Kickoff
<1>2. sequenceIds' = (IF stale = {} THEN ids ELSE {System}) \cup {s} /\ llmTask' = s
  BY DEF Kickoff, Revalidate, Invalidated
<1>3. Cancelled(g, stale) \in [Ids -> GenStates]
  BY CancelledType
<1>4. gen'[s] = "running" /\ \A t \in Ids \ {s} : gen'[t] = Cancelled(g, stale)[t]
  BY <1>1, <1>3
<1>5. \A t \in Ids \ {s} : gen'[t] \notin LiveStates
  BY <1>4 DEF Cancelled, LiveStates
<1>6. \A t \in Ids \ {s} : gen'[t] = "cancelled" => g[t] = "cancelled" \/ t \in stale
  BY <1>4 DEF Cancelled
<1>7. \A t \in Ids \ {s} : gen'[t] = "cancelled" => t \notin sequenceIds'
  BY <1>2, <1>6, ValueTypes
<1>8. QED
  BY <1>2, <1>4, <1>5, <1>7 DEF OneTask, CancelledSilenced, OneLiveGeneration, Live, LiveStates

\* Without a running llm_task, kickoff_llm_generation drops no id and no row.
LEMMA KickoffKeeps ==
    ASSUME NEW s \in Ids, NEW ids, NEW st, NEW g, Kickoff(s, ids, g, st),
           \A t \in Ids : t = llmTask => g[t] \notin LiveStates
    PROVE  sequenceIds' = ids \cup {s} /\ staged' = st
BY DEF Kickoff, Revalidate

\* OneTask survives a step that leaves the tasks alone and revives no cancelled id.
LEMMA OneTaskKept ==
    ASSUME OneTask, gen' = gen, llmTask' = llmTask,
           \A t \in Ids : t \in sequenceIds' => t \in sequenceIds \/ gen[t] # "cancelled"
    PROVE  OneTask'
BY DEF OneTask, CancelledSilenced, OneLiveGeneration, Live

\* OneTask survives the end of the running task, s.
LEMMA OneTaskEnds ==
    ASSUME TypeOK, OneTask, NEW s \in Ids, NEW outcome \in {"done", "unflushed"},
           gen[s] \in LiveStates, TaskEnds(s, outcome), sequenceIds' = sequenceIds
    PROVE  OneTask'
BY DEF TypeOK, TypeGen, OneTask, CancelledSilenced, OneLiveGeneration, Live, TaskEnds, LiveStates

\* Every step keeps one running task and silences what it cancels.
LEMMA OneTaskStep == IInv /\ NoSpeculation /\ OneTask /\ [Next]_vars => OneTask'
<1> SUFFICES ASSUME IInv, NoSpeculation, OneTask, [Next]_vars PROVE OneTask'
  OBVIOUS
<1> USE DEF imVars, genVars
<1>t. gen \in [Ids -> GenStates]
  BY DEF IInv, TypeOK, TypeGen
<1>l. /\ \A t \in Ids : gen[t] \in LiveStates => t = llmTask
      /\ \A t \in Ids : gen[t] = "cancelled" => t \notin sequenceIds
  BY DEF OneTask, CancelledSilenced, OneLiveGeneration, Live
<1>1. CASE UNCHANGED <<gen, llmTask, sequenceIds>>
  BY <1>1, OneTaskKept, Zenon
<1>2. CASE InterimBargeIn
  BY <1>2, ValueTypes, OneTaskKept DEF InterimBargeIn, Invalidated
<1>3. CASE RouteOverlapped
  <2>1. gen[NextSeq] = "none"
    BY <1>3, NextUnused DEF RouteOverlapped, AtRouter, IInv
  <2>2. QED
    BY <1>3, <2>1, OneTaskKept DEF RouteOverlapped
<1>4. CASE EagerEndOfTurn \/ TurnResumed \/ FinalEager
  BY <1>4, Zenon DEF EagerEndOfTurn, TurnResumed, FinalEager, NoSpeculation
<1>5. CASE RouteTranscript
  <2>1. NextSeq \in Ids /\ gen[NextSeq] = "none"
    BY <1>5, NextUnused DEF RouteTranscript, AtRouter, IInv
  <2>2. Kickoff(NextSeq, sequenceIds \cup {NextSeq}, gen, staged)
    BY <1>5, Zenon DEF RouteTranscript
  <2>3. \A t \in Ids : gen[t] = "cancelled" => t \notin sequenceIds \cup {NextSeq}
    BY <1>l, <2>1
  <2>4. QED
    BY <1>t, <1>l, <2>1, <2>2, <2>3, KickoffOne, Zenon
<1>6. CASE CleanupFinish
  <2> DEFINE g == Cancelled(gen, CleanupCancels)
  <2>1. g \in [Ids -> GenStates]
    BY <1>t, CancelledType
  <2>2. \A t \in Ids : g[t] \notin LiveStates
    BY <1>l DEF Cancelled, CleanupCancels, LiveStates
  <2>3. CASE current # NoSeq /\ Kickoff(current, Invalidated, g, {})
    <3>1. current \in Ids
      BY <2>3 DEF IInv, TypeOK, TypeListener
    <3>2. \A t \in Ids : t \notin Invalidated
      BY ValueTypes DEF Invalidated
    <3>3. QED
      BY <2>1, <2>2, <2>3, <3>1, <3>2, KickoffOne, Zenon
  <2>4. CASE /\ gen' = g /\ llmTask' = NoSeq
             /\ sequenceIds' = IF current = NoSeq THEN Invalidated
                               ELSE Revalidate(Invalidated, current)
    <3>1. \A t \in Ids : t \in sequenceIds' => t = current
      BY <2>4, ValueTypes DEF Invalidated, Revalidate
    <3>2. current # NoSeq => gen[current] = "none" /\ current \in Ids
      BY DEF IInv, Fresh, Unused, TypeOK, TypeListener
    <3>3. current # NoSeq => g[current] = "none"
      BY <1>t, <3>2, CancelledFacts DEF LiveStates
    <3>4. QED
      BY <2>2, <2>4, <3>1, <3>3, ValueTypes
         DEF OneTask, CancelledSilenced, OneLiveGeneration, Live
  <2>5. QED
    BY <1>6, <2>3, <2>4, Zenon DEF CleanupFinish
<1>7. CASE SettleFire
  <2>1. settlePayload \in Ids
    BY <1>7 DEF IInv, TypeOK, TypeListener, SettleFire, Armed
  <2>2. Kickoff(settlePayload, sequenceIds, gen, staged)
    BY <1>7, Zenon DEF SettleFire
  <2>3. QED
    BY <1>t, <1>l, <2>1, <2>2, KickoffOne, Zenon
<1>8. ASSUME NEW s \in Ids, GenFinish(s) \/ GenEmpty(s) PROVE OneTask'
  <2>1. gen[s] \in LiveStates /\ sequenceIds' = sequenceIds
    BY <1>8 DEF GenFinish, GenEmpty, LiveStates
  <2>2. TaskEnds(s, "done") \/ TaskEnds(s, "unflushed")
    BY <1>8, Zenon DEF GenFinish, GenEmpty
  <2>3. QED
    BY <2>1, <2>2, OneTaskEnds DEF IInv
<1>9. ASSUME NEW s \in Ids, GenTool(s) PROVE OneTask'
  BY <1>9, <1>t, <1>l DEF GenTool, OneTask, CancelledSilenced, OneLiveGeneration, Live, LiveStates
<1>10. ASSUME NEW s \in Ids, ToolResult(s) PROVE OneTask'
  <2>1. NextSeq \in Ids /\ gen[NextSeq] = "none"
    BY <1>10, AllocateType DEF ToolResult, IInv, TypeOK, TypeIM, Fresh, NextSeq
  <2>2. gen[s] = "tool" /\ s = llmTask /\ llmTask' = NextSeq
    BY <1>10, <1>l DEF ToolResult, LiveStates
  <2>3. \A t \in Ids : gen'[t] = IF t = NextSeq THEN "followup" ELSE IF t = s THEN "done" ELSE gen[t]
    BY <1>10, <1>t, <2>1, <2>2 DEF ToolResult
  <2>4. sequenceIds' = sequenceIds \cup {NextSeq}
    BY <1>10, Zenon DEF ToolResult
  <2>5. QED
    BY <1>l, <2>2, <2>3, <2>4
       DEF OneTask, CancelledSilenced, OneLiveGeneration, Live, LiveStates
<1>11. CASE OutputHandled
  BY <1>11, OneTaskKept DEF OutputHandled
<1>12. ASSUME NEW s \in Ids, GenText(s) PROVE OneTask'
  BY <1>1, <1>12, Zenon DEF GenText
<1>13. CASE InterimContinuation \/ InterimSpeaking \/ FinalIgnored \/ FinalDuplicate
              \/ FinalTranscript \/ SpeechEnded \/ OutputCleared
  BY <1>1, <1>13, Zenon DEF InterimContinuation, InterimSpeaking, FinalIgnored, FinalDuplicate,
     FinalTranscript, SpeechEnded, OutputCleared
<1>14. CASE SynthYield \/ OutputTake \/ OutputSend \/ OutputBlock \/ StuckGateRelease
              \/ AckMark \/ GraceExpires
  BY <1>1, <1>14, Zenon DEF SynthYield, OutputTake, OutputSend, OutputBlock, StuckGateRelease,
     AckMark, GraceExpires
<1>15. CASE UNCHANGED vars
  BY <1>1, <1>15, Zenon DEF vars
<1>16. QED
  BY <1>2, <1>3, <1>4, <1>5, <1>6, <1>7, <1>8, <1>9, <1>10, <1>11, <1>12, <1>13, <1>14, <1>15,
     Zenon DEF Next, Transcriber, Router, Cleanup, LLMTask, OutputLoop

-------------------------------------------------------------------------------
(* Frames on their way out.                                                 *)

\* Closed is kept when generations close, and by the operations on queues.
LEMMA ClosedKept ==
    ASSUME NEW g, NEW h, NEW q \in Seq(Chunk), Closed(g, q),
           \A t \in Ids : h[t] \in Open => g[t] \in Open
    PROVE  Closed(h, q)
<1>1. \A i \in 1..Len(q) : q[i] \in Chunk
  OBVIOUS
<1>2. \A c \in Chunk : c.seq \in Ids
  BY DEF Chunk
<1>3. QED
  BY <1>1, <1>2 DEF Closed

LEMMA ClosedQueues ==
    ASSUME NEW g, NEW q \in Seq(Chunk), Closed(g, q)
    PROVE  /\ \A c \in Chunk : (c.kind = "end" => g[c.seq] \notin Open) => Closed(g, Append(q, c))
           /\ q # <<>> => /\ Closed(g, Tail(q)) /\ Head(q) \in Chunk
                          /\ Head(q).kind = "end" => g[Head(q).seq] \notin Open
<1>1. ASSUME NEW c \in Chunk, c.kind = "end" => g[c.seq] \notin Open
      PROVE  Closed(g, Append(q, c))
  BY <1>1 DEF Closed
<1>2. ASSUME q # <<>>
      PROVE  /\ Closed(g, Tail(q)) /\ Head(q) \in Chunk
             /\ Head(q).kind = "end" => g[Head(q).seq] \notin Open
  <2>1. Closed(g, Tail(q))
    BY <1>2 DEF Closed
  <2>2. Head(q) = q[1] /\ 1 \in 1..Len(q)
    BY <1>2
  <2>3. QED
    BY <1>2, <2>1, <2>2 DEF Closed
<1>3. QED
  BY <1>1, <1>2

\* Nothing is closed about an empty queue or an empty hand.
LEMMA ClosedEmpty == (\A g : Closed(g, <<>>)) /\ NoChunk.kind # "end"
BY DEF Closed, NoChunk

\* _synthesize queues an end marker only for a generation that has closed.
LEMMA EndsSynthesize ==
    ASSUME NEW s \in Ids, NEW kind \in {"audio", "end"}, NEW q \in Seq(Chunk),
           Closed(gen', q), kind = "end" => gen'[s] \notin Open
    PROVE  Closed(gen', Append(q, [seq |-> s, kind |-> kind]))
<1>1. [seq |-> s, kind |-> kind] \in Chunk
  BY DEF Chunk
<1>2. QED
  BY <1>1, ClosedQueues

\* Every step keeps end frames to generations that are over.
LEMMA EndsStep == IInv /\ Ends /\ [Next]_vars => Ends'
<1> SUFFICES ASSUME IInv, Ends, [Next]_vars PROVE Ends'
  OBVIOUS
<1> USE DEF outVars, genVars
<1>t. /\ gen \in [Ids -> GenStates] /\ synthQueue \in Seq(Chunk) /\ outputQueue \in Seq(Chunk)
      /\ held \in Chunk \cup {NoChunk}
  BY DEF IInv, TypeOK, TypeGen, TypeOut
<1>o. \A t \in Ids : gen'[t] \in Open => gen[t] \in Open
  BY OpenStep DEF IInv
<1>c. /\ Closed(gen', synthQueue) /\ Closed(gen', outputQueue)
      /\ held.kind = "end" => gen'[held.seq] \notin Open
  <2>1. Closed(gen', synthQueue) /\ Closed(gen', outputQueue)
    BY <1>t, <1>o, ClosedKept DEF Ends
  <2>2. held.kind = "end" => held.seq \in Ids
    BY <1>t DEF Chunk, NoChunk
  <2>3. QED
    BY <1>o, <2>1, <2>2 DEF Ends
<1>1. CASE UNCHANGED <<synthQueue, outputQueue, held>>
  BY <1>1, <1>c, Zenon DEF Ends
<1>2. CASE /\ UNCHANGED <<outputQueue, held>>
           /\ \/ UNCHANGED synthQueue
              \/ \E s \in Ids, kind \in {"audio", "end"} :
                    /\ synthQueue' = Append(synthQueue, [seq |-> s, kind |-> kind])
                    /\ kind = "end" => gen'[s] \notin Open
  <2>1. Closed(gen', synthQueue')
    BY <1>2, <1>c, <1>t, EndsSynthesize, Zenon
  <2>2. QED
    BY <1>2, <1>c, <2>1, Zenon DEF Ends
<1>3. ASSUME NEW s \in Ids, GenText(s) PROVE Ends'
  BY <1>2, <1>3, Zenon DEF GenText, Synthesize
<1>4. ASSUME NEW s \in Ids, GenFinish(s) \/ GenEmpty(s) \/ GenTool(s) PROVE Ends'
  <2>1. gen'[s] \notin Open
    BY <1>4, <1>t DEF GenFinish, GenEmpty, GenTool, TaskEnds, Open
  <2>2. /\ UNCHANGED <<outputQueue, held>>
        /\ \/ UNCHANGED synthQueue
           \/ synthQueue' = Append(synthQueue, [seq |-> s, kind |-> "end"])
    BY <1>4 DEF GenFinish, GenEmpty, GenTool, Synthesize
  <2>3. QED
    BY <1>2, <2>1, <2>2
<1>5. CASE SynthYield
  <2>1. /\ synthQueue # <<>> /\ synthQueue' = Tail(synthQueue)
        /\ outputQueue' \in {outputQueue, Append(outputQueue, Head(synthQueue))}
        /\ held' = held
    BY <1>5 DEF SynthYield
  <2>2. /\ Closed(gen', Tail(synthQueue)) /\ Head(synthQueue) \in Chunk
        /\ Head(synthQueue).kind = "end" => gen'[Head(synthQueue).seq] \notin Open
    BY <1>c, <1>t, <2>1, ClosedQueues
  <2>3. Closed(gen', outputQueue')
    BY <1>c, <1>t, <2>1, <2>2, ClosedQueues
  <2>4. QED
    BY <1>c, <2>1, <2>2, <2>3 DEF Ends
<1>6. CASE OutputTake
  <2>1. /\ outputQueue # <<>> /\ outputQueue' = Tail(outputQueue)
        /\ held' = Head(outputQueue) /\ synthQueue' = synthQueue
    BY <1>6, Zenon DEF OutputTake
  <2>2. /\ Closed(gen', Tail(outputQueue))
        /\ Head(outputQueue).kind = "end" => gen'[Head(outputQueue).seq] \notin Open
    BY <1>c, <1>t, <2>1, ClosedQueues
  <2>3. QED
    BY <1>c, <2>1, <2>2 DEF Ends
<1>7. CASE OutputHandled \/ OutputBlock
  <2>1. UNCHANGED <<synthQueue, outputQueue>> /\ held' = NoChunk
    BY <1>7 DEF OutputHandled, OutputBlock
  <2>2. QED
    BY <1>c, <2>1, ClosedEmpty DEF Ends
<1>8. CASE CleanupFinish
  <2>1. synthQueue' \in {synthQueue, <<>>} /\ outputQueue' = <<>> /\ held' = NoChunk
    BY <1>8, Zenon DEF CleanupFinish, OutputRestarts
  <2>2. QED
    BY <1>c, <2>1, ClosedEmpty DEF Ends
<1>9. CASE Transcriber
  BY <1>1, <1>9, Zenon DEF Transcriber, InterimBargeIn, InterimContinuation, InterimSpeaking,
     EagerEndOfTurn, TurnResumed, FinalIgnored, FinalTranscript, FinalEager, SpeechEnded
<1>10. CASE FinalDuplicate \/ RouteTranscript \/ RouteOverlapped \/ OutputCleared \/ SettleFire
  BY <1>1, <1>10, Zenon DEF FinalDuplicate, RouteTranscript, RouteOverlapped, OutputCleared,
     SettleFire
<1>11. CASE OutputSend \/ StuckGateRelease \/ AckMark \/ GraceExpires
  BY <1>1, <1>11, Zenon DEF OutputSend, StuckGateRelease, AckMark, GraceExpires
<1>12. ASSUME NEW s \in Ids, ToolResult(s) PROVE Ends'
  BY <1>1, <1>12, Zenon DEF ToolResult
<1>13. CASE UNCHANGED vars
  BY <1>1, <1>13, Zenon DEF vars
<1>14. QED
  BY <1>3, <1>4, <1>5, <1>6, <1>7, <1>8, <1>9, <1>10, <1>11, <1>12, <1>13, Zenon
     DEF Next, Router, Cleanup, LLMTask, OutputLoop

-------------------------------------------------------------------------------
(* The turn that is owed.                                                   *)

\* A frame that retires its response retires no turn that is still owed.
LEMMA RetiresOther ==
    ASSUME IInv, Ends, OutputHandled, NEW s, gen[s] \in Open
    PROVE  s \in sequenceIds => s \in sequenceIds'
<1>1. held \in Chunk
  BY DEF OutputHandled, IInv, Links, TypeOK, TypeOut
<1>2. held.kind \in {"audio", "end"}
  BY <1>1 DEF Chunk
<1>3. CASE held.kind = "audio"
  BY <1>3 DEF OutputHandled
<1>4. CASE held.kind = "end"
  <2>1. gen[held.seq] \notin Open
    BY <1>4 DEF Ends
  <2>2. sequenceIds' = sequenceIds \ {held.seq}
    BY <1>4 DEF OutputHandled
  <2>3. QED
    BY <2>1, <2>2
<1>5. QED
  BY <1>2, <1>3, <1>4

\* Owed holds when no turn is owed, and while one stays owed undisturbed.
LEMMA OwedOff == settlePayload' = NoSeq => Owed'
BY DEF Owed, OwedTurnReady, Armed

LEMMA OwedKept ==
    ASSUME Owed, settlePayload' = settlePayload,
           Armed => /\ settlePayload \in sequenceIds' /\ history' = history
                    /\ staged' \subseteq staged /\ ~Cleaning'
                    /\ \A s \in Ids : gen'[s] \in LiveStates => gen[s] \in LiveStates
    PROVE  Owed'
BY DEF Owed, OwedTurnReady, Armed, Live

\* Every step keeps an owed turn answerable.
LEMMA OwedStep == IInv /\ NoSpeculation /\ OneTask /\ Ends /\ Owed /\ [Next]_vars => Owed'
<1> SUFFICES ASSUME IInv, NoSpeculation, OneTask, Ends, Owed, [Next]_vars PROVE Owed'
  OBVIOUS
<1> USE DEF imVars, genVars, listenerVars, historyVars, stagedVars
<1>t. gen \in [Ids -> GenStates]
  BY DEF IInv, TypeOK, TypeGen
<1>a. Armed => /\ settlePayload \in sequenceIds /\ settlePayload \in Ids
               /\ gen[settlePayload] = "none" /\ staged = {} /\ ~Cleaning
               /\ \A s \in Ids : gen[s] \notin LiveStates
  BY DEF Owed, OwedTurnReady, Armed, Live, IInv, Fresh, Unused, TypeOK, TypeListener
<1>1. CASE UNCHANGED <<settlePayload, sequenceIds, history, staged, gen, listener>>
  BY <1>1, <1>a, OwedKept DEF Cleaning
<1>2. CASE ~Armed /\ settlePayload' = settlePayload
  BY <1>2, OwedOff DEF Armed
<1>3. CASE InterimBargeIn \/ InterimContinuation \/ RouteOverlapped \/ SettleFire
  BY <1>3, OwedOff, Zenon DEF InterimBargeIn, InterimContinuation, RouteOverlapped, SettleFire,
     StartCleanup
<1>4. CASE FinalTranscript \/ FinalDuplicate
  <2>1. UNCHANGED <<settlePayload, sequenceIds, history, staged, gen>>
    BY <1>4, Zenon DEF FinalTranscript, FinalDuplicate
  <2>2. ~Cleaning'
    BY <1>4 DEF FinalTranscript, FinalDuplicate, Cleaning
  <2>3. QED
    BY <1>a, <2>1, <2>2, OwedKept
<1>5. CASE EagerEndOfTurn \/ TurnResumed \/ FinalEager
  BY <1>5, Zenon DEF EagerEndOfTurn, TurnResumed, FinalEager, NoSpeculation
<1>6. CASE RouteTranscript
  BY <1>2, <1>6, Zenon DEF RouteTranscript
<1>7. CASE OutputCleared
  <2>1. Cleaning
    BY <1>7 DEF OutputCleared, Cleaning
  <2>2. QED
    BY <1>2, <1>7, <1>a, <2>1, Zenon DEF OutputCleared
<1>8. CASE CleanupFinish
  <2>1. Cleaning /\ ~Armed
    BY <1>8, <1>a DEF CleanupFinish, Cleaning
  <2>2. CASE settlePayload' = settlePayload
    BY <1>2, <2>1, <2>2
  <2>3. CASE settlePayload' = current /\ current = NoSeq
    BY <2>3, OwedOff
  <2>4. CASE /\ current # NoSeq /\ settlePayload' = current /\ staged' = {}
             /\ gen' = Cancelled(gen, CleanupCancels)
             /\ sequenceIds' = Revalidate(Invalidated, current)
    <3>1. history'.last = "user"
      BY <1>8, <2>4 DEF CleanupFinish, UserRow
    <3>2. \A s \in Ids : gen'[s] \notin LiveStates
      BY <2>4 DEF OneTask, OneLiveGeneration, Live, Cancelled, CleanupCancels, LiveStates
    <3>3. current \in sequenceIds' /\ ~Cleaning'
      BY <1>8, <2>4 DEF Revalidate, CleanupFinish, Cleaning
    <3>4. QED
      BY <2>4, <3>1, <3>2, <3>3 DEF Owed, OwedTurnReady, Armed, Live
  <2>5. QED
    BY <1>8, <2>2, <2>3, <2>4, Zenon DEF CleanupFinish
<1>9. ASSUME NEW s \in Ids,
             GenText(s) \/ GenFinish(s) \/ GenEmpty(s) \/ GenTool(s) \/ ToolResult(s)
      PROVE  Owed'
  <2>1. gen[s] \in LiveStates
    BY <1>9 DEF GenText, GenFinish, GenEmpty, GenTool, ToolResult, LiveStates
  <2>2. settlePayload' = settlePayload
    BY <1>9, Zenon DEF GenText, GenFinish, GenEmpty, GenTool, ToolResult
  <2>3. QED
    BY <1>2, <1>a, <2>1, <2>2
<1>10. CASE OutputSend
  <2>1. UNCHANGED <<settlePayload, sequenceIds, gen, listener>> /\ CommitStaged(held.seq)
    BY <1>10, Zenon DEF OutputSend
  <2>2. Armed => UNCHANGED <<staged, history>>
    BY <1>a, <2>1 DEF CommitStaged
  <2>3. QED
    BY <1>a, <2>1, <2>2, OwedKept DEF Cleaning
<1>11. CASE OutputHandled
  <2>1. UNCHANGED <<settlePayload, history, staged, gen, listener>>
    BY <1>11, Zenon DEF OutputHandled
  <2>2. Armed => settlePayload \in sequenceIds'
    BY <1>11, <1>a, RetiresOther DEF Open
  <2>3. QED
    BY <1>a, <2>1, <2>2, OwedKept DEF Cleaning
<1>12. CASE OutputBlock
  <2>1. /\ UNCHANGED <<settlePayload, sequenceIds, history, gen, listener>>
        /\ staged' \subseteq staged
    BY <1>12, Zenon DEF OutputBlock
  <2>2. QED
    BY <1>a, <2>1, OwedKept DEF Cleaning
<1>13. CASE InterimSpeaking \/ FinalIgnored \/ SpeechEnded
  BY <1>1, <1>13, Zenon DEF InterimSpeaking, FinalIgnored, SpeechEnded
<1>14. CASE SynthYield \/ OutputTake \/ StuckGateRelease \/ AckMark \/ GraceExpires
  BY <1>1, <1>14, Zenon DEF SynthYield, OutputTake, StuckGateRelease, AckMark, GraceExpires
<1>15. CASE UNCHANGED vars
  BY <1>1, <1>15, Zenon DEF vars
<1>16. QED
  BY <1>3, <1>4, <1>5, <1>6, <1>7, <1>8, <1>9, <1>10, <1>11, <1>12, <1>13, <1>14, <1>15, Zenon
     DEF Next, Transcriber, Router, Cleanup, LLMTask, OutputLoop

\* While a turn is owed, the router always finds a response in flight: a final that
\* lands in the window goes through the cleanup (the case RouteOverlapped covers).
LEMMA OwedCountsAsInflight == SInv /\ Armed => InflightActivity(NextSeq)
<1> SUFFICES ASSUME SInv, Armed PROVE InflightActivity(NextSeq)
  OBVIOUS
<1>1. settlePayload \in sequenceIds /\ settlePayload \in Ids
  BY DEF SInv, Owed, OwedTurnReady, Armed, IInv, TypeOK, TypeListener
<1>2. settlePayload # NextSeq
  BY <1>1, ConstantsAssumption DEF SInv, IInv, Armed, Fresh, Unused, TypeOK, TypeIM, NextSeq, Ids
<1>3. settlePayload \in sequenceIds \ {System, NextSeq}
  BY <1>1, <1>2, ValueTypes
<1>4. QED
  BY <1>3 DEF InflightActivity, PendingExcluding

-------------------------------------------------------------------------------
(* The response that speaks and the frame on the wire.                      *)

\* Every step keeps speculative turns where they belong.
LEMMA SpeculationStep == IInv /\ Speculation /\ [Next]_vars => Speculation'
<1> SUFFICES ASSUME IInv, Speculation, [Next]_vars PROVE Speculation'
  OBVIOUS
<1> USE DEF genVars, listenerVars
<1>1. CASE UNCHANGED <<listener, eagerTask, eagerOpen, settlePayload>>
  BY <1>1, Zenon DEF Speculation, Armed
<1>2. CASE InterimBargeIn \/ InterimContinuation \/ FinalIgnored \/ FinalTranscript
  BY <1>2 DEF InterimBargeIn, InterimContinuation, FinalIgnored, FinalTranscript, StartCleanup,
     Speculation, Armed
<1>3. CASE EagerEndOfTurn \/ TurnResumed \/ FinalEager
  BY <1>3 DEF EagerEndOfTurn, TurnResumed, FinalEager, Speculation, Armed
<1>4. CASE FinalDuplicate \/ RouteTranscript \/ RouteOverlapped
  BY <1>4 DEF FinalDuplicate, RouteTranscript, RouteOverlapped, AtRouter, StartCleanup,
     Speculation, Armed
<1>5. CASE OutputCleared \/ CleanupFinish \/ SettleFire
  BY <1>5 DEF OutputCleared, CleanupFinish, SettleFire, Speculation, Armed
<1>6. ASSUME NEW s \in Ids, GenText(s) \/ GenFinish(s) \/ GenEmpty(s) \/ GenTool(s)
      PROVE  Speculation'
  BY <1>1, <1>6, Zenon DEF GenText, GenFinish, GenEmpty, GenTool
<1>7. ASSUME NEW s \in Ids, ToolResult(s) PROVE Speculation'
  <2>1. UNCHANGED <<listener, eagerOpen, settlePayload>>
    BY <1>7, Zenon DEF ToolResult
  <2>2. eagerTask = NoSeq => eagerTask' = NoSeq
    BY <1>7, ValueTypes DEF ToolResult
  <2>3. QED
    BY <2>1, <2>2 DEF Speculation, Armed
<1>8. CASE InterimSpeaking \/ SpeechEnded \/ SynthYield \/ OutputLoop \/ StuckGateRelease
             \/ AckMark \/ GraceExpires
  BY <1>1, <1>8, Zenon DEF InterimSpeaking, SpeechEnded, SynthYield, OutputLoop, OutputTake,
     OutputSend, OutputHandled, OutputBlock, StuckGateRelease, AckMark, GraceExpires
<1>9. CASE UNCHANGED vars
  BY <1>1, <1>9, Zenon DEF vars
<1>10. QED
  BY <1>2, <1>3, <1>4, <1>5, <1>6, <1>7, <1>8, <1>9, Zenon
     DEF Next, Transcriber, Router, Cleanup, LLMTask

\* Audible survives a step that names no new task, starts none and takes no id from a
\* running one.
LEMMA AudibleKept ==
    ASSUME TypeOK, Audible, Cleaning => Cleaning',
           llmTask' \in {llmTask, NoSeq}, eagerTask' \in {eagerTask, NoSeq},
           \A t \in Ids : gen'[t] \in Speaking
               => gen[t] \in Speaking /\ (t \in sequenceIds => t \in sequenceIds')
    PROVE  Audible'
<1>1. llmTask \in Ids \cup {NoSeq} /\ eagerTask \in Ids \cup {NoSeq}
  BY DEF TypeOK, TypeGen
<1>2. QED
  BY <1>1 DEF Audible, Heard

\* Confirming a speculative turn leaves it audible: its id is revalidated if another
\* turn's task had to be cancelled, and it is still the id the task speaks under.
LEMMA ConfirmedAudible == AInv /\ FinalEager => Audible'
<1> SUFFICES ASSUME AInv, FinalEager PROVE Audible'
  OBVIOUS
<1> DEFINE stale == {t \in Ids : t = llmTask /\ Live(t)}
<1>1. /\ gen' = Cancelled(gen, stale) /\ llmTask' = eagerTask /\ eagerTask' = NoSeq
      /\ sequenceIds' = Revalidate(IF stale = {} THEN sequenceIds ELSE Invalidated, eagerSeq)
  BY Zenon DEF FinalEager
<1>2. eagerTask \in Ids /\ ~Cleaning
  BY DEF FinalEager, AInv, IInv, TypeOK, TypeGen, Cleaning
<1>3. gen'[eagerTask] \in Speaking => gen[eagerTask] \in Speaking
  BY <1>1, <1>2, CancelledFacts DEF AInv, IInv, TypeOK, TypeGen, Speaking
<1>4. CASE stale = {}
  BY <1>1, <1>2, <1>3, <1>4 DEF AInv, Audible, Heard, Revalidate
<1>5. CASE stale # {}
  <2>1. Live(llmTask) /\ eagerOpen /\ eagerTask # NoSeq /\ ~functionCallInFlight
    BY <1>5 DEF FinalEager
  <2>2. eagerTask = eagerSeq
    BY <2>1 DEF AInv, OwnId, MovedOn
  <2>3. eagerTask \in sequenceIds'
    BY <1>1, <2>2 DEF Revalidate
  <2>4. QED
    BY <1>1, <2>3 DEF Audible, Heard
<1>6. QED
  BY <1>4, <1>5

\* Every step keeps the running responses audible.
LEMMA AudibleStep == AInv /\ [Next]_vars => Audible'
<1> SUFFICES ASSUME AInv, [Next]_vars PROVE Audible'
  OBVIOUS
<1> USE DEF imVars, genVars, listenerVars
<1>i. IInv /\ TypeOK /\ Fresh /\ Ends /\ Audible
  BY DEF AInv, IInv
<1>t. gen \in [Ids -> GenStates] /\ llmTask \in Ids \cup {NoSeq} /\ eagerTask \in Ids \cup {NoSeq}
  BY <1>i DEF TypeOK, TypeGen
<1>1. CASE UNCHANGED <<llmTask, eagerTask, gen, sequenceIds, listener>>
  BY <1>1, <1>i, AudibleKept DEF Cleaning
<1>2. CASE InterimBargeIn \/ InterimContinuation \/ RouteOverlapped \/ OutputCleared
  <2>1. Cleaning'
    BY <1>2 DEF InterimBargeIn, InterimContinuation, RouteOverlapped, OutputCleared,
       StartCleanup, Cleaning
  <2>2. QED
    BY <2>1 DEF Audible
<1>3. CASE EagerEndOfTurn
  <2>1. NextSeq \in Ids /\ ~Cleaning
    BY <1>3, <1>i, NextUnused DEF EagerEndOfTurn, Cleaning
  <2>2. /\ eagerTask' = NextSeq /\ llmTask' = llmTask
        /\ sequenceIds' = sequenceIds \cup {NextSeq}
        /\ gen' = [gen EXCEPT ![NextSeq] = "running"]
    BY <1>3, Zenon DEF EagerEndOfTurn
  <2>3. QED
    BY <1>i, <1>t, <2>1, <2>2 DEF Audible, Heard
<1>4. CASE TurnResumed
  <2>1. /\ UNCHANGED <<llmTask, sequenceIds, listener>> /\ eagerTask' \in {eagerTask, NoSeq}
        /\ gen' \in {gen, Cancelled(gen, {eagerTask})}
    BY <1>4, Zenon DEF TurnResumed
  <2>2. \A t \in Ids : gen'[t] \in Speaking => gen[t] \in Speaking
    BY <1>t, <2>1, CancelledFacts DEF Speaking
  <2>3. QED
    BY <1>i, <2>1, <2>2, AudibleKept DEF Cleaning
<1>5. CASE FinalIgnored \/ FinalTranscript \/ FinalDuplicate
  <2>1. UNCHANGED <<llmTask, eagerTask, gen, sequenceIds>>
    BY <1>5, Zenon DEF FinalIgnored, FinalTranscript, FinalDuplicate
  <2>2. ~Cleaning
    BY <1>5 DEF FinalIgnored, FinalTranscript, FinalDuplicate, AtRouter, FinalHeard, Cleaning
  <2>3. QED
    BY <1>i, <2>1, <2>2, AudibleKept
<1>6. CASE FinalEager
  BY <1>6, ConfirmedAudible
<1>7. CASE RouteTranscript
  <2>1. NextSeq \in Ids /\ Kickoff(NextSeq, sequenceIds \cup {NextSeq}, gen, staged)
    BY <1>7, <1>i, NextUnused DEF RouteTranscript, AtRouter
  <2>2. \A t \in Ids : t = llmTask => gen[t] \notin LiveStates
    BY <1>7 DEF RouteTranscript, InflightActivity, Live
  <2>3. sequenceIds \cup {NextSeq} \subseteq sequenceIds'
    BY <2>1, <2>2, KickoffKeeps
  <2>4. llmTask' = NextSeq /\ eagerTask' = eagerTask /\ ~Cleaning
    BY <1>7, <2>1 DEF RouteTranscript, AtRouter, FinalHeard, Cleaning, Kickoff
  <2>5. \A t \in Ids \ {NextSeq} : gen'[t] \in Speaking => gen[t] \in Speaking
    BY <1>t, <2>1, KickoffFacts DEF Speaking
  <2>6. QED
    BY <1>i, <1>t, <2>3, <2>4, <2>5 DEF Audible, Heard
<1>8. CASE CleanupFinish
  <2>1. eagerTask' = NoSeq
    BY <1>8, Zenon DEF CleanupFinish
  <2>2. llmTask' = NoSeq \/ llmTask' \in sequenceIds'
    BY <1>8 DEF CleanupFinish, Kickoff, Revalidate
  <2>3. QED
    BY <2>1, <2>2 DEF Audible, Heard
<1>9. CASE SettleFire
  <2>1. eagerTask' = NoSeq
    BY <1>9 DEF SettleFire, AInv, Speculation
  <2>2. llmTask' \in sequenceIds'
    BY <1>9 DEF SettleFire, Kickoff, Revalidate
  <2>3. QED
    BY <2>1, <2>2 DEF Audible, Heard
<1>10. ASSUME NEW s \in Ids, GenFinish(s) \/ GenEmpty(s) \/ GenTool(s) PROVE Audible'
  <2>1. UNCHANGED <<eagerTask, sequenceIds, listener>> /\ llmTask' \in {llmTask, NoSeq}
    BY <1>10, Zenon DEF GenFinish, GenEmpty, GenTool, TaskEnds
  <2>2. \A t \in Ids : gen'[t] \in Speaking => gen[t] \in Speaking
    BY <1>10, <1>t DEF GenFinish, GenEmpty, GenTool, TaskEnds, Speaking
  <2>3. QED
    BY <1>i, <2>1, <2>2, AudibleKept DEF Cleaning
<1>11. ASSUME NEW s \in Ids, ToolResult(s) PROVE Audible'
  <2>1. NextSeq \in Ids
    BY <1>11, <1>i, NextUnused DEF ToolResult
  <2>2. \A t \in Ids \ {NextSeq} : gen'[t] \in Speaking => gen[t] \in Speaking
    BY <1>11, <1>t, <2>1 DEF ToolResult, Speaking
  <2>3. /\ sequenceIds' = sequenceIds \cup {NextSeq} /\ listener' = listener
        /\ llmTask' \in {llmTask, NextSeq} /\ eagerTask' \in {eagerTask, NextSeq}
    BY <1>11, Zenon DEF ToolResult
  <2>4. QED
    BY <1>i, <1>t, <2>2, <2>3 DEF Audible, Heard, Cleaning
<1>12. CASE OutputHandled
  <2>1. UNCHANGED <<llmTask, eagerTask, gen, listener>>
    BY <1>12, Zenon DEF OutputHandled
  <2>2. \A t \in Ids : gen[t] \in Speaking => (t \in sequenceIds => t \in sequenceIds')
    BY <1>12, <1>i, RetiresOther DEF Speaking, Open
  <2>3. QED
    BY <1>i, <2>1, <2>2, AudibleKept DEF Cleaning
<1>13. ASSUME NEW s \in Ids, GenText(s) PROVE Audible'
  BY <1>1, <1>13, Zenon DEF GenText
<1>14. CASE InterimSpeaking \/ SpeechEnded \/ SynthYield \/ OutputTake \/ OutputSend
              \/ OutputBlock \/ StuckGateRelease \/ AckMark \/ GraceExpires
  BY <1>1, <1>14, Zenon DEF InterimSpeaking, SpeechEnded, SynthYield, OutputTake, OutputSend,
     OutputBlock, StuckGateRelease, AckMark, GraceExpires
<1>15. CASE UNCHANGED vars
  BY <1>1, <1>15, Zenon DEF vars
<1>16. QED
  BY <1>2, <1>3, <1>4, <1>5, <1>6, <1>7, <1>8, <1>9, <1>10, <1>11, <1>12, <1>13, <1>14, <1>15,
     Zenon DEF Next, Transcriber, Router, Cleanup, LLMTask, OutputLoop

\* A task that was started stays started.
LEMMA StartedStep ==
    TypeOK /\ [Next]_vars => \A t \in Ids : gen[t] # "none" => gen'[t] # "none"
<1> SUFFICES ASSUME TypeOK, [Next]_vars
             PROVE  \A t \in Ids : gen[t] # "none" => gen'[t] # "none"
  OBVIOUS
<1> USE DEF genVars
<1>t. gen \in [Ids -> GenStates]
  BY DEF TypeOK, TypeGen
<1>1. CASE gen' = gen
  BY <1>1
<1>2. CASE EagerEndOfTurn
  BY <1>2, <1>t DEF EagerEndOfTurn
<1>3. CASE TurnResumed \/ FinalEager
  BY <1>3, <1>t, CancelledFacts DEF TurnResumed, FinalEager
<1>4. ASSUME NEW s \in Ids, NEW g \in [Ids -> GenStates], NEW ids, NEW st, Kickoff(s, ids, g, st),
             \A t \in Ids : gen[t] # "none" => g[t] # "none"
      PROVE  \A t \in Ids : gen[t] # "none" => gen'[t] # "none"
  BY <1>4, KickoffFacts
<1>5. CASE RouteTranscript
  <2>1. NextSeq \in Ids
    BY <1>5, RouterType, Zenon DEF RouteTranscript
  <2>2. QED
    BY <1>4, <1>5, <1>t, <2>1, Zenon DEF RouteTranscript
<1>6. CASE CleanupFinish
  <2> DEFINE g == Cancelled(gen, CleanupCancels)
  <2>1. g \in [Ids -> GenStates] /\ \A t \in Ids : gen[t] # "none" => g[t] # "none"
    BY <1>t, CancelledType, CancelledFacts
  <2>2. CASE gen' = g
    BY <2>1, <2>2
  <2>3. CASE current # NoSeq /\ Kickoff(current, Invalidated, g, {})
    <3>1. current \in Ids
      BY <2>3 DEF TypeOK, TypeListener
    <3>2. QED
      BY <1>4, <2>1, <2>3, <3>1, Zenon
  <2>4. QED
    BY <1>6, <2>2, <2>3, Zenon DEF CleanupFinish
<1>7. CASE SettleFire
  <2>1. settlePayload \in Ids
    BY <1>7 DEF TypeOK, TypeListener, SettleFire, Armed
  <2>2. QED
    BY <1>4, <1>7, <1>t, <2>1, Zenon DEF SettleFire
<1>8. ASSUME NEW s \in Ids, GenFinish(s) \/ GenEmpty(s) \/ GenTool(s) \/ ToolResult(s)
      PROVE  \A t \in Ids : gen[t] # "none" => gen'[t] # "none"
  BY <1>8, <1>t DEF GenFinish, GenEmpty, GenTool, ToolResult, TaskEnds
<1>9. ASSUME NEW s \in Ids, GenText(s) PROVE gen' = gen
  BY <1>9, Zenon DEF GenText
<1>10. CASE InterimBargeIn \/ InterimContinuation \/ InterimSpeaking \/ FinalIgnored
              \/ FinalTranscript \/ SpeechEnded \/ FinalDuplicate \/ RouteOverlapped
              \/ OutputCleared
  BY <1>1, <1>10, Zenon DEF InterimBargeIn, InterimContinuation, InterimSpeaking, FinalIgnored,
     FinalTranscript, SpeechEnded, FinalDuplicate, RouteOverlapped, OutputCleared
<1>11. CASE SynthYield \/ OutputLoop \/ StuckGateRelease \/ AckMark \/ GraceExpires
  BY <1>1, <1>11, Zenon DEF SynthYield, OutputLoop, OutputTake, OutputSend, OutputHandled,
     OutputBlock, StuckGateRelease, AckMark, GraceExpires
<1>12. CASE UNCHANGED vars
  BY <1>1, <1>12, Zenon DEF vars
<1>13. QED
  BY <1>1, <1>2, <1>3, <1>5, <1>6, <1>7, <1>8, <1>9, <1>10, <1>11, <1>12, Zenon
     DEF Next, Transcriber, Router, Cleanup, LLMTask

\* Every step keeps the named tasks started.
LEMMA NamedStep == IInv /\ Named /\ [Next]_vars => Named'
<1> SUFFICES ASSUME IInv, Named, [Next]_vars PROVE Named'
  OBVIOUS
<1> USE DEF genVars
<1>i. TypeOK /\ Fresh
  BY DEF IInv
<1>t. gen \in [Ids -> GenStates] /\ llmTask \in Ids \cup {NoSeq} /\ eagerTask \in Ids \cup {NoSeq}
  BY <1>i DEF TypeOK, TypeGen
<1>s. \A t \in Ids : gen[t] # "none" => gen'[t] # "none"
  BY <1>i, StartedStep
<1>1. CASE llmTask' \in {llmTask, eagerTask, NoSeq} /\ eagerTask' \in {eagerTask, NoSeq}
  BY <1>1, <1>t, <1>s DEF Named
<1>2. CASE gen'[llmTask'] # "none" /\ eagerTask' \in {eagerTask, NoSeq}
  BY <1>2, <1>t, <1>s DEF Named
<1>3. CASE EagerEndOfTurn
  <2>1. NextSeq \in Ids
    BY <1>3, <1>i, NextUnused DEF EagerEndOfTurn
  <2>2. gen'[NextSeq] = "running" /\ eagerTask' = NextSeq /\ llmTask' = llmTask
    BY <1>3, <1>t, <2>1 DEF EagerEndOfTurn
  <2>3. QED
    BY <1>t, <1>s, <2>2 DEF Named
<1>4. CASE RouteTranscript
  <2>1. NextSeq \in Ids /\ Kickoff(NextSeq, sequenceIds \cup {NextSeq}, gen, staged)
    BY <1>4, <1>i, NextUnused DEF RouteTranscript, AtRouter
  <2>2. gen'[NextSeq] = "running" /\ llmTask' = NextSeq
    BY <1>t, <2>1, KickoffFacts DEF Kickoff
  <2>3. QED
    BY <1>2, <1>4, <2>2 DEF RouteTranscript
<1>5. CASE CleanupFinish
  <2> DEFINE g == Cancelled(gen, CleanupCancels)
  <2>1. eagerTask' = NoSeq
    BY <1>5, Zenon DEF CleanupFinish
  <2>2. CASE llmTask' = NoSeq
    BY <1>1, <2>1, <2>2
  <2>3. CASE current # NoSeq /\ Kickoff(current, Invalidated, g, {})
    <3>1. current \in Ids /\ g \in [Ids -> GenStates]
      BY <1>i, <1>t, <2>3, CancelledType DEF TypeOK, TypeListener
    <3>2. gen'[current] = "running" /\ llmTask' = current
      BY <2>3, <3>1, KickoffFacts DEF Kickoff
    <3>3. QED
      BY <1>2, <2>1, <3>2
  <2>4. QED
    BY <1>5, <2>2, <2>3, Zenon DEF CleanupFinish
<1>6. CASE SettleFire
  <2>1. settlePayload \in Ids /\ Kickoff(settlePayload, sequenceIds, gen, staged)
    BY <1>6, <1>i DEF TypeOK, TypeListener, SettleFire, Armed
  <2>2. gen'[settlePayload] = "running" /\ llmTask' = settlePayload
    BY <1>t, <2>1, KickoffFacts DEF Kickoff
  <2>3. QED
    BY <1>2, <1>6, <2>2 DEF SettleFire
<1>7. ASSUME NEW s \in Ids, ToolResult(s) PROVE Named'
  <2>1. NextSeq \in Ids
    BY <1>7, <1>i, NextUnused DEF ToolResult
  <2>2. gen'[NextSeq] = "followup"
    BY <1>7, <1>t, <2>1 DEF ToolResult
  <2>3. llmTask' \in {llmTask, NextSeq} /\ eagerTask' \in {eagerTask, NextSeq}
    BY <1>7, Zenon DEF ToolResult
  <2>4. QED
    BY <1>t, <1>s, <2>2, <2>3 DEF Named
<1>8. ASSUME NEW s \in Ids, GenText(s) \/ GenFinish(s) \/ GenEmpty(s) \/ GenTool(s)
      PROVE  Named'
  BY <1>1, <1>8, Zenon DEF GenText, GenFinish, GenEmpty, GenTool, TaskEnds
<1>9. CASE TurnResumed \/ FinalEager
  BY <1>1, <1>9, Zenon DEF TurnResumed, FinalEager
<1>10. CASE InterimBargeIn \/ InterimContinuation \/ InterimSpeaking \/ FinalIgnored
              \/ FinalTranscript \/ SpeechEnded \/ FinalDuplicate \/ RouteOverlapped
              \/ OutputCleared
  BY <1>1, <1>10, Zenon DEF InterimBargeIn, InterimContinuation, InterimSpeaking, FinalIgnored,
     FinalTranscript, SpeechEnded, FinalDuplicate, RouteOverlapped, OutputCleared
<1>11. CASE SynthYield \/ OutputLoop \/ StuckGateRelease \/ AckMark \/ GraceExpires
  BY <1>1, <1>11, Zenon DEF SynthYield, OutputLoop, OutputTake, OutputSend, OutputHandled,
     OutputBlock, StuckGateRelease, AckMark, GraceExpires
<1>12. CASE UNCHANGED vars
  BY <1>1, <1>12, Zenon DEF vars
<1>13. QED
  BY <1>3, <1>4, <1>5, <1>6, <1>7, <1>8, <1>9, <1>10, <1>11, <1>12, Zenon
     DEF Next, Transcriber, Router, Cleanup, LLMTask

\* Every step keeps a confirmable speculative task under its own id: while it waits, no
\* other turn starts, and the end of any task resets llm_task.
LEMMA OwnIdStep == AInv /\ [Next]_vars => OwnId'
<1> SUFFICES ASSUME AInv, [Next]_vars PROVE OwnId'
  OBVIOUS
<1> USE DEF genVars, listenerVars
<1>i. IInv /\ TypeOK /\ Fresh /\ OwnId /\ Named /\ Speculation
  BY DEF AInv, IInv
<1>t. gen \in [Ids -> GenStates] /\ llmTask \in Ids \cup {NoSeq} /\ eagerTask \in Ids \cup {NoSeq}
  BY <1>i DEF TypeOK, TypeGen
<1>1. CASE UNCHANGED <<eagerOpen, eagerTask, eagerSeq, llmTask, gen, functionCallInFlight>>
  BY <1>1, <1>i DEF OwnId, MovedOn, Live
<1>2. CASE ~eagerOpen' \/ eagerTask' = NoSeq \/ llmTask' = NoSeq
  BY <1>2, ValueTypes DEF OwnId, Live
<1>3. CASE EagerEndOfTurn
  <2>1. NextSeq \in Ids
    BY <1>3, <1>i, NextUnused DEF EagerEndOfTurn
  <2>2. eagerTask' = NextSeq /\ eagerSeq' = NextSeq /\ gen'[NextSeq] = "running"
    BY <1>3, <1>t, <2>1 DEF EagerEndOfTurn
  <2>3. QED
    BY <2>2 DEF OwnId, MovedOn
<1>4. CASE TurnResumed \/ FinalIgnored \/ FinalTranscript \/ FinalEager
  BY <1>2, <1>4, Zenon DEF TurnResumed, FinalIgnored, FinalTranscript, FinalEager
<1>5. CASE FinalDuplicate \/ RouteTranscript \/ RouteOverlapped
  BY <1>2, <1>5, Zenon DEF FinalDuplicate, RouteTranscript, RouteOverlapped, AtRouter
<1>6. CASE CleanupFinish
  BY <1>2, <1>6, Zenon DEF CleanupFinish
<1>7. CASE SettleFire
  BY <1>2, <1>7, <1>i DEF SettleFire, Speculation
<1>8. ASSUME NEW s \in Ids, GenFinish(s) \/ GenEmpty(s) PROVE OwnId'
  BY <1>2, <1>8, Zenon DEF GenFinish, GenEmpty, TaskEnds
<1>9. ASSUME NEW s \in Ids, GenTool(s) PROVE OwnId'
  BY <1>9, Zenon DEF GenTool, OwnId
<1>10. ASSUME NEW s \in Ids, ToolResult(s) PROVE OwnId'
  <2>1. NextSeq \in Ids /\ gen[NextSeq] = "none" /\ gen[s] = "tool" /\ s # NoSeq
    BY <1>10, <1>i, NextUnused, ValueTypes DEF ToolResult
  <2>2. llmTask # NextSeq /\ eagerTask # NextSeq
    BY <1>i, <1>t, <2>1, ValueTypes DEF Named
  <2>3. /\ UNCHANGED <<eagerOpen, eagerSeq, functionCallInFlight>>
        /\ llmTask' = (IF llmTask = s THEN NextSeq ELSE llmTask)
        /\ eagerTask' = (IF eagerTask = s THEN NextSeq ELSE eagerTask)
    BY <1>10, Zenon DEF ToolResult
  <2>4. \A t \in Ids : t # s /\ t # NextSeq => gen'[t] = gen[t]
    BY <1>10, <1>t DEF ToolResult
  <2>5. Live(llmTask)' => Live(llmTask)
    BY <1>t, <2>1, <2>2, <2>3, <2>4 DEF Live, LiveStates
  <2>6. eagerTask' # NoSeq /\ MovedOn' => eagerTask # NoSeq /\ MovedOn
    BY <1>t, <2>1, <2>2, <2>3, <2>4 DEF MovedOn
  <2>7. QED
    BY <1>i, <2>3, <2>5, <2>6 DEF OwnId
<1>11. ASSUME NEW s \in Ids, GenText(s) PROVE OwnId'
  BY <1>1, <1>11, Zenon DEF GenText
<1>12. CASE InterimBargeIn \/ InterimContinuation \/ InterimSpeaking \/ SpeechEnded
              \/ OutputCleared
  BY <1>1, <1>12, Zenon DEF InterimBargeIn, InterimContinuation, InterimSpeaking, SpeechEnded,
     OutputCleared
<1>13. CASE SynthYield \/ OutputLoop \/ StuckGateRelease \/ AckMark \/ GraceExpires
  BY <1>1, <1>13, Zenon DEF SynthYield, OutputLoop, OutputTake, OutputSend, OutputHandled,
     OutputBlock, StuckGateRelease, AckMark, GraceExpires
<1>14. CASE UNCHANGED vars
  BY <1>1, <1>14, Zenon DEF vars
<1>15. QED
  BY <1>3, <1>4, <1>5, <1>6, <1>7, <1>8, <1>9, <1>10, <1>11, <1>12, <1>13, <1>14, Zenon
     DEF Next, Transcriber, Router, Cleanup, LLMTask

LEMMA OnWireKept ==
    ASSUME OnWire, sending' => sending /\ held' = held, Cleaning => Cleaning',
           ~Cleaning' => sequenceIds \subseteq sequenceIds'
    PROVE  OnWire'
BY DEF OnWire

\* Every step keeps the frame on the wire valid: what invalidates it starts a cleanup,
\* and the cleanup takes the frame away.
LEMMA OnWireStep ==
    IInv /\ NoSpeculation /\ OneTask /\ Owed /\ OnWire /\ [Next]_vars => OnWire'
<1> SUFFICES ASSUME IInv, NoSpeculation, OneTask, Owed, OnWire, [Next]_vars PROVE OnWire'
  OBVIOUS
<1> USE DEF imVars, outVars, listenerVars
<1>1. CASE UNCHANGED <<sending, held, sequenceIds, listener>>
  BY <1>1, OnWireKept DEF Cleaning
<1>2. CASE ~sending'
  BY <1>2 DEF OnWire
<1>3. CASE InterimBargeIn \/ InterimContinuation \/ RouteOverlapped \/ OutputCleared
  <2>1. Cleaning'
    BY <1>3 DEF InterimBargeIn, InterimContinuation, RouteOverlapped, OutputCleared,
       StartCleanup, Cleaning
  <2>2. QED
    BY <2>1 DEF OnWire
<1>4. CASE FinalTranscript \/ FinalDuplicate
  <2>1. UNCHANGED <<sending, held, sequenceIds>>
    BY <1>4, Zenon DEF FinalTranscript, FinalDuplicate
  <2>2. ~Cleaning
    BY <1>4 DEF FinalTranscript, FinalDuplicate, AtRouter, FinalHeard, Cleaning
  <2>3. QED
    BY <2>1, <2>2, OnWireKept
<1>5. CASE EagerEndOfTurn \/ TurnResumed \/ FinalEager
  BY <1>5, Zenon DEF EagerEndOfTurn, TurnResumed, FinalEager, NoSpeculation
<1>6. CASE RouteTranscript
  <2>1. NextSeq \in Ids /\ Kickoff(NextSeq, sequenceIds \cup {NextSeq}, gen, staged)
    BY <1>6, RouterType, Zenon DEF RouteTranscript, IInv
  <2>2. \A t \in Ids : t = llmTask => gen[t] \notin LiveStates
    BY <1>6 DEF RouteTranscript, InflightActivity, Live
  <2>3. sequenceIds \subseteq sequenceIds'
    BY <2>1, <2>2, KickoffKeeps
  <2>4. UNCHANGED <<sending, held>> /\ ~Cleaning
    BY <1>6 DEF RouteTranscript, AtRouter, FinalHeard, Cleaning
  <2>5. QED
    BY <2>3, <2>4, OnWireKept
<1>7. CASE SettleFire
  <2>1. settlePayload \in Ids /\ Kickoff(settlePayload, sequenceIds, gen, staged)
    BY <1>7 DEF IInv, TypeOK, TypeListener, SettleFire, Armed
  <2>2. \A t \in Ids : t = llmTask => gen[t] \notin LiveStates
    BY <1>7 DEF SettleFire, Owed, OwedTurnReady, Live
  <2>3. sequenceIds' = sequenceIds \cup {settlePayload}
    BY <2>1, <2>2, KickoffKeeps
  <2>4. UNCHANGED <<sending, held, listener>>
    BY <1>7, Zenon DEF SettleFire
  <2>5. QED
    BY <2>3, <2>4, OnWireKept DEF Cleaning
<1>8. CASE CleanupFinish \/ OutputHandled
  BY <1>2, <1>8, Zenon DEF CleanupFinish, OutputRestarts, OutputHandled
<1>9. CASE OutputTake
  <2>1. held = NoChunk /\ sending' = sending
    BY <1>9, Zenon DEF OutputTake
  <2>2. QED
    BY <1>2, <2>1 DEF IInv, Links
<1>10. CASE OutputSend
  <2>1. held.seq \in sequenceIds
    BY <1>10 DEF OutputSend, AudioSendStatus
  <2>2. UNCHANGED <<held, sequenceIds>>
    BY <1>10, Zenon DEF OutputSend
  <2>3. QED
    BY <2>1, <2>2 DEF OnWire
<1>11. CASE OutputBlock
  BY <1>2, <1>11, Zenon DEF OutputBlock
<1>12. ASSUME NEW s \in Ids, GenText(s) \/ GenFinish(s) \/ GenEmpty(s) \/ GenTool(s)
       PROVE  OnWire'
  BY <1>1, <1>12, Zenon DEF GenText, GenFinish, GenEmpty, GenTool
<1>13. ASSUME NEW s \in Ids, ToolResult(s) PROVE OnWire'
  <2>1. UNCHANGED <<sending, held, listener>> /\ sequenceIds \subseteq sequenceIds'
    BY <1>13 DEF ToolResult
  <2>2. QED
    BY <2>1, OnWireKept DEF Cleaning
<1>14. CASE InterimSpeaking \/ FinalIgnored \/ SpeechEnded
  BY <1>1, <1>14, Zenon DEF InterimSpeaking, FinalIgnored, SpeechEnded
<1>15. CASE SynthYield \/ StuckGateRelease \/ AckMark \/ GraceExpires
  BY <1>1, <1>15, Zenon DEF SynthYield, StuckGateRelease, AckMark, GraceExpires
<1>16. CASE UNCHANGED vars
  BY <1>1, <1>16, Zenon DEF vars
<1>17. QED
  BY <1>3, <1>4, <1>5, <1>6, <1>7, <1>8, <1>9, <1>10, <1>11, <1>12, <1>13, <1>14, <1>15, <1>16,
     Zenon DEF Next, Transcriber, Router, Cleanup, LLMTask, OutputLoop

-------------------------------------------------------------------------------
(* The theorems.                                                            *)

\* The invariant holds in every session without speculative turns.
LEMMA SafetyInvariant == Spec /\ ~EagerTurns => []SInv
<1>1. Init /\ ~EagerTurns => NoSpeculation /\ OneTask /\ Ends /\ Owed /\ OnWire
  <2> SUFFICES ASSUME Init, ~EagerTurns
               PROVE  NoSpeculation /\ OneTask /\ Ends /\ Owed /\ OnWire
    OBVIOUS
  <2>1. NoSpeculation
    BY DEF Init, NoSpeculation
  <2>2. OneTask
    BY DEF Init, OneTask, CancelledSilenced, OneLiveGeneration, Live, LiveStates
  <2>3. Ends
    BY ClosedEmpty DEF Init, Ends
  <2>4. Owed /\ OnWire
    BY DEF Init, Owed, OwedTurnReady, Armed, OnWire
  <2>5. QED
    BY <2>1, <2>2, <2>3, <2>4
<1>2. IInv /\ NoSpeculation /\ OneTask /\ Ends /\ Owed /\ OnWire /\ [Next]_vars
        => (NoSpeculation /\ OneTask /\ Ends /\ Owed /\ OnWire)'
  BY NoSpeculationStep, OneTaskStep, EndsStep, OwedStep, OnWireStep, Zenon
<1>3. SInv <=> IInv /\ (NoSpeculation /\ OneTask /\ Ends /\ Owed /\ OnWire)
  BY DEF SInv
<1>4. QED
  BY <1>1, <1>2, <1>3, InvariantHolds, PTL DEF Spec

\* However turns overlap, a generation that was cancelled leaves no valid id, so what
\* it already sent to the synthesizer is dropped (kickoff_llm_generation,
\* cleanup_downstream_tasks).
THEOREM CancelledSilencedHolds == Spec /\ ~EagerTurns => []CancelledSilenced
<1>1. SInv => CancelledSilenced
  BY DEF SInv, OneTask
<1>2. QED
  BY <1>1, SafetyInvariant, PTL

\* At most one response is generated at a time, and llm_task names it, so that a
\* later turn or a cleanup can cancel it.
THEOREM OneLiveGenerationHolds == Spec /\ ~EagerTurns => []OneLiveGeneration
<1>1. SInv => OneLiveGeneration
  BY DEF SInv, OneTask
<1>2. QED
  BY <1>1, SafetyInvariant, PTL

\* A turn that waits for its settle window can be answered when it fires: its id is
\* valid, its words are the last row of history and nothing else is generated
\* (arm_regen_settle, regen_after_settle).
THEOREM OwedTurnReadyHolds == Spec /\ ~EagerTurns => []OwedTurnReady
<1>1. SInv => OwedTurnReady
  BY DEF SInv, Owed
<1>2. QED
  BY <1>1, SafetyInvariant, PTL

\* The frame process_output_loop is handing to the carrier is valid, except while a
\* cleanup is under way.
THEOREM FrameOnWireValidHolds == Spec /\ ~EagerTurns => []FrameOnWireValid
<1>1. SInv => FrameOnWireValid
  BY DEF SInv, OnWire, Cleaning, FrameOnWireValid
<1>2. QED
  BY <1>1, SafetyInvariant, PTL

\* The invariant behind audibility holds in every session.
LEMMA AudibleInvariant == Spec => []AInv
<1>1. Init => Ends /\ Speculation /\ Named /\ OwnId /\ Audible
  <2> SUFFICES ASSUME Init PROVE Ends /\ Speculation /\ Named /\ OwnId /\ Audible
    OBVIOUS
  <2>1. Ends
    BY ClosedEmpty DEF Init, Ends
  <2>2. QED
    BY <2>1 DEF Init, Speculation, Armed, Named, OwnId, Audible, Heard
<1>2. IInv /\ (Ends /\ Speculation /\ Named /\ OwnId /\ Audible) /\ [Next]_vars
        => (Ends /\ Speculation /\ Named /\ OwnId /\ Audible)'
  BY EndsStep, SpeculationStep, NamedStep, OwnIdStep, AudibleStep, Zenon DEF AInv
<1>3. AInv <=> IInv /\ (Ends /\ Speculation /\ Named /\ OwnId /\ Audible)
  BY DEF AInv
<1>4. QED
  BY <1>1, <1>2, <1>3, InvariantHolds, PTL DEF Spec

\* The response being generated is never muted, except while a cleanup is under way,
\* in sessions with and without speculative turns: no cleanup, retirement, kickoff or
\* confirmation takes its id (revalidate_sequence_id).
THEOREM LiveGenerationAudibleHolds == Spec => []LiveGenerationAudible
<1>1. AInv => LiveGenerationAudible
  BY DEF AInv, Audible, Heard, Cleaning, Speaking, LiveGenerationAudible
<1>2. QED
  BY <1>1, AudibleInvariant, PTL

\* A step makes an id valid only if nothing was generated under it.
LEMMA ValidatedWereUnused ==
    ASSUME IInv, NoSpeculation, [Next]_vars, NEW s \in Ids, s \in sequenceIds' \ sequenceIds
    PROVE  gen[s] = "none"
<1> USE DEF imVars
<1>t. gen \in [Ids -> GenStates]
  BY DEF IInv, TypeOK, TypeGen
<1>1. CASE sequenceIds' = sequenceIds
  BY <1>1
<1>2. CASE Allocate /\ sequenceIds' = sequenceIds \cup {NextSeq}
  BY <1>2, NextUnused DEF IInv
<1>3. CASE sequenceIds' \subseteq sequenceIds \cup {System, current}
  BY <1>3, ValueTypes DEF IInv, Fresh, Unused
<1>4. CASE InterimBargeIn \/ OutputHandled
  <2>1. sequenceIds' \subseteq sequenceIds \cup {System}
    BY <1>4 DEF InterimBargeIn, OutputHandled, Invalidated
  <2>2. QED
    BY <1>3, <2>1
<1>5. CASE RouteOverlapped
  BY <1>2, <1>5, Zenon DEF RouteOverlapped, AtRouter
<1>6. CASE EagerEndOfTurn \/ TurnResumed \/ FinalEager
  BY <1>6, Zenon DEF EagerEndOfTurn, TurnResumed, FinalEager, NoSpeculation
<1>7. CASE RouteTranscript
  <2>1. Allocate /\ sequenceIds' \subseteq sequenceIds \cup {System, NextSeq}
    BY <1>7 DEF RouteTranscript, AtRouter, Kickoff, Revalidate, Invalidated
  <2>2. QED
    BY <2>1, NextUnused, ValueTypes DEF IInv
<1>8. CASE CleanupFinish
  <2>1. sequenceIds' \subseteq {System, current}
    BY <1>8 DEF CleanupFinish, Kickoff, Revalidate, Invalidated
  <2>2. QED
    BY <1>3, <2>1
<1>9. CASE SettleFire
  <2>1. sequenceIds' \subseteq sequenceIds \cup {System, settlePayload}
    BY <1>9 DEF SettleFire, Kickoff, Revalidate, Invalidated
  <2>2. QED
    BY <2>1, ValueTypes DEF IInv, Fresh, Unused
<1>10. ASSUME NEW r \in Ids, ToolResult(r) PROVE gen[s] = "none"
  BY <1>2, <1>10, Zenon DEF ToolResult
<1>11. ASSUME NEW r \in Ids, GenText(r) \/ GenFinish(r) \/ GenEmpty(r) \/ GenTool(r)
       PROVE  gen[s] = "none"
  BY <1>1, <1>11, Zenon DEF GenText, GenFinish, GenEmpty, GenTool
<1>12. CASE InterimContinuation \/ InterimSpeaking \/ FinalIgnored \/ FinalDuplicate
              \/ FinalTranscript \/ SpeechEnded \/ OutputCleared
  BY <1>1, <1>12, Zenon DEF InterimContinuation, InterimSpeaking, FinalIgnored, FinalDuplicate,
     FinalTranscript, SpeechEnded, OutputCleared
<1>13. CASE SynthYield \/ OutputTake \/ OutputSend \/ OutputBlock \/ StuckGateRelease
              \/ AckMark \/ GraceExpires
  BY <1>1, <1>13, Zenon DEF SynthYield, OutputTake, OutputSend, OutputBlock, StuckGateRelease,
     AckMark, GraceExpires
<1>14. CASE UNCHANGED vars
  BY <1>1, <1>14, Zenon DEF vars
<1>15. QED
  BY <1>4, <1>5, <1>6, <1>7, <1>8, <1>9, <1>10, <1>11, <1>12, <1>13, <1>14, Zenon
     DEF Next, Transcriber, Router, Cleanup, LLMTask, OutputLoop

\* A dropped or retired response never speaks again: its id is not revalidated
\* (revalidate_sequence_id, get_next_sequence_id).
THEOREM NoResurrectionHolds == Spec /\ ~EagerTurns => NoResurrection
<1>1. SInv /\ [Next]_vars
        => [\A s \in Ids : s \in sequenceIds' \ sequenceIds => gen[s] = "none"]_vars
  BY ValidatedWereUnused DEF SInv
<1>2. QED
  BY <1>1, SafetyInvariant, PTL DEF Spec, NoResurrection
===============================================================================
