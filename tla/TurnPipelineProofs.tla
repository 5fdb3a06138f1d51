-------------------------- MODULE TurnPipelineProofs --------------------------
(***************************************************************************)
(* Machine-checked proofs about TurnPipeline, for every value of its        *)
(* constants unless a theorem says otherwise.                               *)
(***************************************************************************)
EXTENDS TurnPipeline, TLAPS

-------------------------------------------------------------------------------
(* The inductive invariant.                                                 *)

\* A speculative task has the id its turn was opened with, and a suspended send its
\* frame.
Links ==
    /\ eagerTask # NoSeq => eagerSeq # NoSeq
    /\ sending => held # NoChunk

\* An id that was not handed out, or whose turn is still owed, is unused.
Unused(s) == s # NoSeq => s <= currSeq /\ gen[s] = "none"
Fresh ==
    /\ \A s \in Ids : s > currSeq => gen[s] = "none"
    /\ Unused(current) /\ Unused(settlePayload)
    /\ current # NoSeq => current # settlePayload

\* A response that may still be generated has no assistant row, staged or committed.
NoEarlyRow == \A s \in Ids : gen[s] \in {"none", "running", "followup"} => s \notin staged \cup committed

IInv == TypeOK /\ Links /\ Fresh /\ NoEarlyRow /\ CommittedWereSent

-------------------------------------------------------------------------------
(* Types.                                                                   *)

\* Each group of variables keeps its type when it is left alone.
LEMMA TypeUnchanged ==
    /\ TypeIM /\ UNCHANGED imVars => TypeIM'
    /\ TypeGen /\ UNCHANGED genVars => TypeGen'
    /\ TypeFlags /\ UNCHANGED flagVars => TypeFlags'
    /\ TypeHistory /\ UNCHANGED historyVars => TypeHistory'
    /\ TypeStaged /\ UNCHANGED stagedVars => TypeStaged'
    /\ TypeOut /\ UNCHANGED outVars => TypeOut'
    /\ TypeCarrier /\ UNCHANGED carrierVars => TypeCarrier'
    /\ TypeListener /\ UNCHANGED listenerVars => TypeListener'
<1>1. TypeIM /\ UNCHANGED imVars => TypeIM'
  BY Zenon DEF TypeIM, imVars
<1>2. TypeGen /\ UNCHANGED genVars => TypeGen'
  BY Zenon DEF TypeGen, genVars
<1>3. TypeFlags /\ UNCHANGED flagVars => TypeFlags'
  BY Zenon DEF TypeFlags, flagVars
<1>4. TypeHistory /\ UNCHANGED historyVars => TypeHistory'
  BY Zenon DEF TypeHistory, historyVars
<1>5. TypeStaged /\ UNCHANGED stagedVars => TypeStaged'
  BY Zenon DEF TypeStaged, stagedVars
<1>6. TypeOut /\ UNCHANGED outVars => TypeOut'
  BY Zenon DEF TypeOut, outVars
<1>7. TypeCarrier /\ UNCHANGED carrierVars => TypeCarrier'
  BY Zenon DEF TypeCarrier, carrierVars
<1>8. TypeListener /\ UNCHANGED listenerVars => TypeListener'
  BY Zenon DEF TypeListener, listenerVars
<1>9. QED
  BY <1>1, <1>2, <1>3, <1>4, <1>5, <1>6, <1>7, <1>8

\* Cancelling tasks keeps the shape of the generation table (task.cancel()).
LEMMA CancelledType ==
    ASSUME NEW g \in [Ids -> GenStates], NEW S
    PROVE  Cancelled(g, S) \in [Ids -> GenStates]
BY DEF Cancelled, GenStates

\* get_next_sequence_id hands out an id of the range.
LEMMA AllocateType ==
    ASSUME TypeIM, Allocate
    PROVE  NextSeq \in Ids /\ currSeq' \in 0..MaxSeq /\ currSeq' = NextSeq
BY ConstantsAssumption DEF TypeIM, Allocate, NextSeq, Ids

\* The values the handlers write are of their types.
LEMMA ValueTypes ==
    /\ UserRow \in History /\ AgentRow \in History /\ NoSeq \notin Ids /\ System \notin Ids
    /\ "idle" \in ListenerStates /\ "route" \in ListenerStates
    /\ "clearOutput" \in ListenerStates /\ "clearSynth" \in ListenerStates
    /\ Invalidated \in SUBSET (Ids \cup {System}) /\ System \in Invalidated
    /\ TRUE \in BOOLEAN /\ FALSE \in BOOLEAN
BY DEF UserRow, AgentRow, History, NoSeq, Ids, ListenerStates, Invalidated, System

\* function_call_in_flight stays a flag when tasks are cancelled.
LEMMA InFlightType == \A S : InFlightAfter(S) \in BOOLEAN
BY Zenon DEF InFlightAfter

\* Adding a handed-out id to the valid ones, or dropping one, keeps their type.
LEMMA IdsType ==
    ASSUME NEW ids \in SUBSET (Ids \cup {System}), System \in ids, NEW s \in Ids
    PROVE  /\ ids \cup {s} \in SUBSET (Ids \cup {System}) /\ System \in ids \cup {s}
           /\ ids \ {s} \in SUBSET (Ids \cup {System}) /\ System \in ids \ {s}
           /\ Revalidate(ids, s) \in SUBSET (Ids \cup {System})
           /\ System \in Revalidate(ids, s)
BY ValueTypes DEF Revalidate

\* kickoff_llm_generation keeps every table it writes well typed.
LEMMA KickoffType ==
    ASSUME NEW s \in Ids, NEW g \in [Ids -> GenStates], NEW st \in SUBSET Ids,
           NEW ids \in SUBSET (Ids \cup {System}), System \in ids,
           Kickoff(s, ids, g, st)
    PROVE  /\ sequenceIds' \in SUBSET (Ids \cup {System}) /\ System \in sequenceIds'
           /\ staged' \in SUBSET Ids /\ gen' \in [Ids -> GenStates]
           /\ llmTask' \in Ids \cup {NoSeq} /\ responseInPipeline' \in BOOLEAN
<1> DEFINE stale == {t \in Ids : t = llmTask /\ g[t] \in LiveStates}
<1>1. Cancelled(g, stale) \in [Ids -> GenStates]
  BY CancelledType
<1>2. gen' = [Cancelled(g, stale) EXCEPT ![s] = "running"]
  BY DEF Kickoff
<1>3. gen' \in [Ids -> GenStates]
  BY <1>1, <1>2 DEF GenStates
<1>4. QED
  BY <1>3 DEF Kickoff, Revalidate, Invalidated, System

\* The queues of audio are sequences of chunks, the mark ledger one of marks.
LEMMA SeqType ==
    ASSUME NEW T, NEW q \in Seq(T)
    PROVE  /\ \A x \in T : Append(q, x) \in Seq(T)
           /\ q # <<>> => Head(q) \in T /\ Tail(q) \in Seq(T)
           /\ <<>> \in Seq(T)
OBVIOUS

\* _synthesize keeps its queue and its flags well typed.
LEMMA SynthesizeType ==
    ASSUME TypeOut, TypeFlags, NEW s \in Ids, NEW kind \in {"audio", "end"},
           Synthesize(s, kind)
    PROVE  /\ synthQueue' \in Seq(Chunk)
           /\ responseInPipeline' \in BOOLEAN /\ awaitingFirstAudio' \in BOOLEAN
<1>1. [seq |-> s, kind |-> kind] \in Chunk
  BY DEF Chunk
<1>2. Append(synthQueue, [seq |-> s, kind |-> kind]) \in Seq(Chunk)
  BY <1>1, SeqType DEF TypeOut
<1>3. QED
  BY <1>2, ValueTypes, Zenon DEF TypeOut, TypeFlags, Synthesize

\* Staging and committing assistant rows keeps the tables well typed.
LEMMA StagingType ==
    ASSUME TypeStaged, TypeHistory, NEW s \in Ids, StageAssistant(s) \/ CommitStaged(s)
    PROVE  /\ staged' \in SUBSET Ids /\ committed' \in SUBSET Ids /\ history' \in History
<1>1. staged \ {s} \in SUBSET Ids /\ staged \cup {s} \in SUBSET Ids
        /\ committed \cup {s} \in SUBSET Ids
  BY DEF TypeStaged
<1>2. QED
  BY <1>1, ValueTypes, Zenon DEF TypeStaged, TypeHistory, StageAssistant, CommitStaged

-------------------------------------------------------------------------------
(* Type correctness: one lemma per process.                                 *)

\* The transcript listener's first segments keep the types.
LEMMA TypeTranscriber == TypeOK /\ Links /\ Transcriber => TypeOK'
<1> SUFFICES ASSUME TypeOK, Links, Transcriber PROVE TypeOK'
  OBVIOUS
<1>1. CASE InterimBargeIn
  <2>1. TypeIM' /\ TypeCarrier' /\ TypeListener'
    BY <1>1, ValueTypes, Zenon DEF TypeOK, TypeIM, TypeCarrier, TypeListener, InterimBargeIn,
       StartCleanup
  <2>2. QED
    BY <1>1, <2>1, TypeUnchanged, Zenon DEF TypeOK, InterimBargeIn
<1>2. CASE InterimContinuation
  <2>1. TypeIM' /\ TypeListener'
    BY <1>2, ValueTypes, Zenon DEF TypeOK, TypeIM, TypeListener, InterimContinuation, StartCleanup
  <2>2. QED
    BY <1>2, <2>1, TypeUnchanged, Zenon DEF TypeOK, InterimContinuation
<1>3. CASE InterimSpeaking
  <2>1. TypeIM'
    BY <1>3, ValueTypes, Zenon DEF TypeOK, TypeIM, InterimSpeaking
  <2>2. QED
    BY <1>3, <2>1, TypeUnchanged, Zenon DEF TypeOK, InterimSpeaking
<1>4. CASE EagerEndOfTurn
  <2>1. NextSeq \in Ids /\ currSeq' \in 0..MaxSeq
    BY <1>4, AllocateType DEF TypeOK, EagerEndOfTurn
  <2>2. gen' \in [Ids -> GenStates]
    BY <1>4, <2>1 DEF TypeOK, TypeGen, EagerEndOfTurn, GenStates
  <2>3. TypeIM'
    BY <1>4, <2>1, IdsType, Zenon DEF TypeOK, TypeIM, EagerEndOfTurn
  <2>4. TypeGen' /\ TypeHistory' /\ TypeListener'
    BY <1>4, <2>1, <2>2, ValueTypes, Zenon DEF TypeOK, TypeGen, TypeHistory, TypeListener,
       EagerEndOfTurn
  <2>5. QED
    BY <1>4, <2>3, <2>4, TypeUnchanged, Zenon DEF TypeOK, EagerEndOfTurn
<1>5. CASE TurnResumed
  <2>1. Cancelled(gen, {eagerTask}) \in [Ids -> GenStates]
    BY CancelledType DEF TypeOK, TypeGen
  <2>2. TypeGen'
    BY <1>5, <2>1, InFlightType, ValueTypes, Zenon DEF TypeOK, TypeGen, TurnResumed
  <2>3. TypeHistory' /\ TypeListener'
    BY <1>5, ValueTypes, Zenon DEF TypeOK, TypeHistory, TypeListener, TurnResumed
  <2>4. QED
    BY <1>5, <2>2, <2>3, TypeUnchanged, Zenon DEF TypeOK, TurnResumed
<1>6. CASE FinalIgnored
  <2>1. TypeIM' /\ TypeListener'
    BY <1>6, ValueTypes, Zenon DEF TypeOK, TypeIM, TypeListener, FinalIgnored
  <2>2. QED
    BY <1>6, <2>1, TypeUnchanged, Zenon DEF TypeOK, FinalIgnored
<1>7. CASE FinalTranscript
  <2>1. TypeIM' /\ TypeListener'
    BY <1>7, ValueTypes, Zenon DEF TypeOK, TypeIM, TypeListener, FinalTranscript
  <2>2. QED
    BY <1>7, <2>1, TypeUnchanged, Zenon DEF TypeOK, FinalTranscript
<1>8. CASE FinalEager
  <2> DEFINE stale == {t \in Ids : t = llmTask /\ Live(t)}
  <2>1. eagerSeq \in Ids
    BY <1>8, Zenon DEF TypeOK, TypeGen, Links, FinalEager
  <2>2. Cancelled(gen, stale) \in [Ids -> GenStates]
    BY CancelledType DEF TypeOK, TypeGen
  <2>3. TypeIM'
    <3>1. sequenceIds' = Revalidate(IF stale = {} THEN sequenceIds ELSE Invalidated, eagerSeq)
      BY <1>8, Zenon DEF FinalEager
    <3>2. sequenceIds' \in SUBSET (Ids \cup {System}) /\ System \in sequenceIds'
      BY <2>1, <3>1, IdsType, ValueTypes DEF TypeOK, TypeIM
    <3>3. QED
      BY <1>8, <3>2, ValueTypes, Zenon DEF TypeOK, TypeIM, FinalEager
  <2>4. TypeGen'
    BY <1>8, <2>2, InFlightType, ValueTypes, Zenon DEF TypeOK, TypeGen, FinalEager
  <2>5. TypeFlags' /\ TypeHistory' /\ TypeListener'
    BY <1>8, ValueTypes, Zenon DEF TypeOK, TypeFlags, TypeHistory, TypeListener, FinalEager
  <2>6. QED
    BY <1>8, <2>3, <2>4, <2>5, TypeUnchanged, Zenon DEF TypeOK, FinalEager
<1>9. CASE SpeechEnded
  <2>1. TypeIM'
    BY <1>9, ValueTypes, Zenon DEF TypeOK, TypeIM, SpeechEnded
  <2>2. QED
    BY <1>9, <2>1, TypeUnchanged, Zenon DEF TypeOK, SpeechEnded
<1>10. QED
  BY <1>1, <1>2, <1>3, <1>4, <1>5, <1>6, <1>7, <1>8, <1>9 DEF Transcriber

\* The router hands the final an id of its own and ends the caller's speech.
LEMMA RouterType ==
    ASSUME TypeOK, AtRouter
    PROVE  /\ NextSeq \in Ids /\ NextSeq # NoSeq /\ currSeq' \in 0..MaxSeq
           /\ calleeSpeaking' \in BOOLEAN /\ utteranceRecent' \in BOOLEAN
           /\ eagerOpen' \in BOOLEAN
<1>1. NextSeq \in Ids /\ currSeq' \in 0..MaxSeq
  BY AllocateType DEF TypeOK, AtRouter
<1>2. utteranceRecent' \in BOOLEAN
  BY Zenon DEF AtRouter
<1>3. QED
  BY <1>1, <1>2, ValueTypes, Zenon DEF AtRouter

\* Routing a final and cleaning up keep the types.
LEMMA TypeRouting == TypeOK /\ Links /\ (Router \/ Cleanup) => TypeOK'
<1> SUFFICES ASSUME TypeOK, Links, Router \/ Cleanup PROVE TypeOK'
  OBVIOUS
<1>1. CASE FinalDuplicate
  <2>1. TypeIM' /\ TypeListener'
    BY <1>1, RouterType, ValueTypes, Zenon DEF TypeOK, TypeIM, TypeListener, FinalDuplicate,
       AtRouter
  <2>2. QED
    BY <1>1, <2>1, TypeUnchanged, Zenon DEF TypeOK, FinalDuplicate
<1>2. CASE RouteTranscript
  <2>1. NextSeq \in Ids /\ AtRouter
    BY <1>2, RouterType, Zenon DEF RouteTranscript
  <2>2. sequenceIds \cup {NextSeq} \in SUBSET (Ids \cup {System})
          /\ System \in sequenceIds \cup {NextSeq}
    BY <2>1, IdsType DEF TypeOK, TypeIM
  <2>3. /\ sequenceIds' \in SUBSET (Ids \cup {System}) /\ System \in sequenceIds'
        /\ staged' \in SUBSET Ids /\ gen' \in [Ids -> GenStates]
        /\ llmTask' \in Ids \cup {NoSeq} /\ responseInPipeline' \in BOOLEAN
    BY <1>2, <2>1, <2>2, KickoffType, Zenon DEF TypeOK, TypeGen, TypeStaged, RouteTranscript
  <2>4. TypeIM' /\ TypeGen' /\ TypeFlags'
    BY <1>2, <2>1, <2>3, RouterType, Zenon DEF TypeOK, TypeIM, TypeGen, TypeFlags,
       RouteTranscript
  <2>5. TypeHistory' /\ TypeStaged' /\ TypeListener'
    BY <1>2, <2>1, <2>3, RouterType, ValueTypes, Zenon DEF TypeOK, TypeHistory, TypeStaged,
       TypeListener, RouteTranscript
  <2>6. QED
    BY <1>2, <2>4, <2>5, TypeUnchanged, Zenon DEF TypeOK, RouteTranscript
<1>3. CASE RouteOverlapped
  <2>1. NextSeq \in Ids /\ AtRouter
    BY <1>3, RouterType, Zenon DEF RouteOverlapped
  <2>2. history' \in History
    BY <1>3 DEF TypeOK, TypeHistory, History, RouteOverlapped
  <2>3. TypeIM'
    BY <1>3, <2>1, RouterType, IdsType, Zenon DEF TypeOK, TypeIM, RouteOverlapped
  <2>4. TypeHistory' /\ TypeListener'
    BY <1>3, <2>1, <2>2, RouterType, ValueTypes, Zenon DEF TypeOK, TypeHistory, TypeListener,
       RouteOverlapped, StartCleanup
  <2>5. QED
    BY <1>3, <2>3, <2>4, TypeUnchanged, Zenon DEF TypeOK, RouteOverlapped
<1>4. CASE OutputCleared
  <2>1. <<>> \in Seq(Mark)
    BY SeqType DEF TypeOK, TypeCarrier
  <2>2. TypeCarrier' /\ TypeListener'
    BY <1>4, <2>1, ValueTypes, Zenon DEF TypeOK, TypeCarrier, TypeListener, OutputCleared
  <2>3. QED
    BY <1>4, <2>2, TypeUnchanged, Zenon DEF TypeOK, OutputCleared
<1>5. CASE CleanupFinish
  <2> DEFINE g == Cancelled(gen, CleanupCancels)
  <2>1. g \in [Ids -> GenStates]
    BY CancelledType DEF TypeOK, TypeGen
  <2>2. /\ sequenceIds' \in SUBSET (Ids \cup {System}) /\ System \in sequenceIds'
        /\ staged' \in SUBSET Ids /\ gen' \in [Ids -> GenStates]
        /\ llmTask' \in Ids \cup {NoSeq} /\ responseInPipeline' \in BOOLEAN
    <3>1. CASE current # NoSeq /\ Kickoff(current, Invalidated, g, {})
      <4>1. current \in Ids /\ {} \in SUBSET Ids
        BY <3>1 DEF TypeOK, TypeListener
      <4>2. QED
        BY <2>1, <3>1, <4>1, KickoffType, ValueTypes, Zenon
    <3>2. CASE /\ sequenceIds' = IF current = NoSeq THEN Invalidated
                                 ELSE Revalidate(Invalidated, current)
               /\ staged' = {} /\ gen' = g /\ llmTask' = NoSeq
               /\ responseInPipeline' = FALSE
      <4>1. sequenceIds' \in SUBSET (Ids \cup {System}) /\ System \in sequenceIds'
        BY <3>2, IdsType, ValueTypes DEF TypeOK, TypeListener
      <4>2. QED
        BY <2>1, <3>2, <4>1, ValueTypes
    <3>3. QED
      BY <1>5, <3>1, <3>2, Zenon DEF CleanupFinish
  <2>3. history' \in History
    BY <1>5, ValueTypes DEF TypeOK, TypeHistory, CleanupFinish, SyncHistory
  <2>4. synthQueue' \in Seq(Chunk) /\ outputQueue' \in Seq(Chunk)
    <3>1. outputQueue' = <<>> /\ synthQueue' \in {synthQueue, <<>>}
      BY <1>5, Zenon DEF CleanupFinish, OutputRestarts
    <3>2. synthQueue \in Seq(Chunk) /\ <<>> \in Seq(Chunk)
      BY Zenon, SeqType DEF TypeOK, TypeOut
    <3>3. QED
      BY <3>1, <3>2, Zenon
  <2>5. TypeIM' /\ TypeStaged'
    BY <1>5, <2>2, Zenon DEF TypeOK, TypeIM, TypeStaged, CleanupFinish
  <2>6. TypeGen'
    BY <1>5, <2>2, InFlightType, ValueTypes, Zenon DEF TypeOK, TypeGen, CleanupFinish
  <2>7. TypeFlags'
    BY <1>5, <2>2, ValueTypes, Zenon DEF TypeOK, TypeFlags, CleanupFinish
  <2>8. TypeHistory'
    BY <1>5, <2>3, Zenon DEF TypeOK, TypeHistory, CleanupFinish
  <2>9. TypeOut'
    <3>1. held' = NoChunk /\ sending' = FALSE
      BY <1>5, Zenon DEF CleanupFinish, OutputRestarts
    <3>2. QED
      BY <2>4, <3>1, ValueTypes, Zenon DEF TypeOut
  <2>10. TypeListener'
    <3>1. listener' = "idle" /\ current' = NoSeq /\ eagerOpen' = eagerOpen
            /\ settlePayload' \in {settlePayload, current}
      BY <1>5 DEF CleanupFinish, listenerVars
    <3>2. QED
      BY <3>1, ValueTypes DEF TypeOK, TypeListener
  <2>11. QED
    BY <1>5, <2>5, <2>6, <2>7, <2>8, <2>9, <2>10, TypeUnchanged, Zenon DEF TypeOK, CleanupFinish
<1>6. QED
  BY <1>1, <1>2, <1>3, <1>4, <1>5 DEF Router, Cleanup

\* The regeneration timer and the turn tasks keep the types.
LEMMA TypeGeneration == TypeOK /\ Links /\ (SettleFire \/ LLMTask) => TypeOK'
<1> SUFFICES ASSUME TypeOK, Links, SettleFire \/ LLMTask PROVE TypeOK'
  OBVIOUS
<1>1. CASE SettleFire
  <2>1. settlePayload \in Ids
    BY <1>1, Zenon DEF TypeOK, TypeListener, Armed, SettleFire
  <2>2. /\ sequenceIds' \in SUBSET (Ids \cup {System}) /\ System \in sequenceIds'
        /\ staged' \in SUBSET Ids /\ gen' \in [Ids -> GenStates]
        /\ llmTask' \in Ids \cup {NoSeq} /\ responseInPipeline' \in BOOLEAN
    BY <1>1, <2>1, KickoffType, Zenon DEF TypeOK, TypeIM, TypeGen, TypeStaged, SettleFire
  <2>3. TypeIM' /\ TypeFlags' /\ TypeStaged'
    BY <1>1, <2>2, Zenon DEF TypeOK, TypeIM, TypeFlags, TypeStaged, SettleFire
  <2>4. TypeGen' /\ TypeListener'
    BY <1>1, <2>2, InFlightType, ValueTypes, Zenon DEF TypeOK, TypeGen, TypeListener, SettleFire
  <2>5. QED
    BY <1>1, <2>3, <2>4, TypeUnchanged, Zenon DEF TypeOK, SettleFire
<1>2. ASSUME NEW s \in Ids, GenText(s) PROVE TypeOK'
  <2>1. TypeOut' /\ TypeFlags'
    <3>1. /\ synthQueue' \in Seq(Chunk)
          /\ responseInPipeline' \in BOOLEAN /\ awaitingFirstAudio' \in BOOLEAN
      BY <1>2, SynthesizeType DEF TypeOK, GenText
    <3>2. QED
      BY <1>2, <3>1, ValueTypes, Zenon DEF TypeOK, TypeOut, TypeFlags, GenText
  <2>2. TypeGen'
    <3>1. spoke \cup {s} \in SUBSET Ids
      BY DEF TypeOK, TypeGen
    <3>2. QED
      BY <1>2, <3>1, Zenon DEF TypeOK, TypeGen, GenText
  <2>3. QED
    BY <1>2, <2>1, <2>2, TypeUnchanged, Zenon DEF TypeOK, GenText
<1>3. ASSUME NEW s \in Ids, GenFinish(s) PROVE TypeOK'
  <2>1. /\ staged' \in SUBSET Ids /\ committed' \in SUBSET Ids /\ history' \in History
    BY <1>3, StagingType DEF TypeOK, GenFinish
  <2>2. TypeStaged' /\ TypeHistory'
    BY <1>3, <2>1, Zenon DEF TypeOK, TypeStaged, TypeHistory, GenFinish
  <2>3. TypeOut' /\ TypeFlags'
    <3>1. CASE Synthesize(s, "end") /\ audioFlushed' = FALSE
      <4>1. /\ synthQueue' \in Seq(Chunk)
            /\ responseInPipeline' \in BOOLEAN /\ awaitingFirstAudio' \in BOOLEAN
        BY <3>1, SynthesizeType DEF TypeOK
      <4>2. QED
        BY <1>3, <3>1, <4>1, ValueTypes, Zenon DEF TypeOK, TypeOut, TypeFlags, GenFinish
    <3>2. CASE UNCHANGED <<synthQueue, flagVars>>
      BY <1>3, <3>2, Zenon DEF TypeOK, TypeOut, TypeFlags, flagVars, GenFinish
    <3>3. QED
      BY <1>3, <3>1, <3>2, Zenon DEF GenFinish
  <2>4. TypeGen'
    <3>1. TaskEnds(s, "done") \/ TaskEnds(s, "unflushed")
      BY <1>3, Zenon DEF GenFinish
    <3>2. gen' \in [Ids -> GenStates]
      BY <3>1 DEF TypeOK, TypeGen, TaskEnds, GenStates
    <3>3. functionCallInFlight' \in BOOLEAN
      BY <3>1, Zenon DEF TaskEnds
    <3>4. QED
      BY <1>3, <3>1, <3>2, <3>3, Zenon DEF TypeOK, TypeGen, TaskEnds, GenFinish
  <2>5. QED
    BY <1>3, <2>2, <2>3, <2>4, TypeUnchanged, Zenon DEF TypeOK, GenFinish
<1>4. ASSUME NEW s \in Ids, GenEmpty(s) PROVE TypeOK'
  <2>1. TypeGen'
    <3>1. gen' \in [Ids -> GenStates]
      BY <1>4 DEF TypeOK, TypeGen, TaskEnds, GenStates, GenEmpty
    <3>2. functionCallInFlight' \in BOOLEAN
      BY <1>4, Zenon DEF TaskEnds, GenEmpty
    <3>3. QED
      BY <1>4, <3>1, <3>2, Zenon DEF TypeOK, TypeGen, TaskEnds, GenEmpty
  <2>2. Append(synthQueue, [seq |-> s, kind |-> "end"]) \in Seq(Chunk)
    BY SeqType DEF TypeOK, TypeOut, Chunk
  <2>3. TypeOut' /\ TypeFlags'
    BY <1>4, <2>2, ValueTypes, Zenon DEF TypeOK, TypeOut, TypeFlags, GenEmpty, SilentTurnFrees
  <2>4. QED
    BY <1>4, <2>1, <2>3, TypeUnchanged, Zenon DEF TypeOK, GenEmpty
<1>5. ASSUME NEW s \in Ids, GenTool(s) PROVE TypeOK'
  <2>1. TypeGen'
    <3>1. gen' \in [Ids -> GenStates]
      BY <1>5 DEF TypeOK, TypeGen, GenStates, GenTool
    <3>2. QED
      BY <1>5, <3>1, ValueTypes, Zenon DEF TypeOK, TypeGen, GenTool
  <2>2. TypeOut' /\ TypeFlags' /\ TypeStaged' /\ TypeHistory'
    <3>1. CASE s \in spoke
      <4>1. StageAssistant(s) /\ Synthesize(s, "end") /\ audioFlushed' = FALSE
        BY <1>5, <3>1, Zenon DEF GenTool
      <4>2. /\ synthQueue' \in Seq(Chunk)
            /\ responseInPipeline' \in BOOLEAN /\ awaitingFirstAudio' \in BOOLEAN
        BY <4>1, SynthesizeType DEF TypeOK
      <4>3. /\ staged' \in SUBSET Ids /\ committed' \in SUBSET Ids /\ history' \in History
        BY <4>1, StagingType DEF TypeOK
      <4>4. QED
        BY <1>5, <4>1, <4>2, <4>3, ValueTypes, Zenon DEF TypeOK, TypeOut, TypeFlags, TypeStaged,
           TypeHistory, GenTool
    <3>2. CASE s \notin spoke
      BY <1>5, <3>2, Zenon DEF TypeOK, TypeOut, TypeFlags, TypeStaged, TypeHistory, flagVars,
         GenTool
    <3>3. QED
      BY <3>1, <3>2
  <2>3. QED
    BY <1>5, <2>1, <2>2, TypeUnchanged, Zenon DEF TypeOK, GenTool
<1>6. ASSUME NEW s \in Ids, ToolResult(s) PROVE TypeOK'
  <2>1. NextSeq \in Ids /\ currSeq' \in 0..MaxSeq
    BY <1>6, AllocateType DEF TypeOK, ToolResult
  <2>2. gen' \in [Ids -> GenStates]
    BY <1>6, <2>1 DEF TypeOK, TypeGen, ToolResult, GenStates
  <2>3. TypeIM'
    BY <1>6, <2>1, IdsType, Zenon DEF TypeOK, TypeIM, ToolResult
  <2>4. TypeGen' /\ TypeHistory'
    BY <1>6, <2>1, <2>2, ValueTypes, Zenon DEF TypeOK, TypeGen, TypeHistory, ToolResult
  <2>5. QED
    BY <1>6, <2>3, <2>4, TypeUnchanged, Zenon DEF TypeOK, ToolResult
<1>7. QED
  BY <1>1, <1>2, <1>3, <1>4, <1>5, <1>6 DEF LLMTask

\* The synthesizer listener, the output loop, the carrier and the clock keep the types.
LEMMA TypeOutput ==
    TypeOK /\ Links /\ (SynthYield \/ OutputLoop \/ StuckGateRelease \/ AckMark \/ GraceExpires)
        => TypeOK'
<1> SUFFICES ASSUME TypeOK, Links,
                    SynthYield \/ OutputLoop \/ StuckGateRelease \/ AckMark \/ GraceExpires
             PROVE  TypeOK'
  OBVIOUS
<1>1. CASE SynthYield
  <2>1. Head(synthQueue) \in Chunk /\ Tail(synthQueue) \in Seq(Chunk)
    BY <1>1, SeqType DEF TypeOK, TypeOut, SynthYield
  <2>2. Append(outputQueue, Head(synthQueue)) \in Seq(Chunk)
    BY <2>1, SeqType DEF TypeOK, TypeOut
  <2>3. TypeOut'
    BY <1>1, <2>1, <2>2, Zenon DEF TypeOK, TypeOut, SynthYield
  <2>4. audioFlushed' \in BOOLEAN /\ audioPlaying' \in BOOLEAN
    BY <1>1, Zenon DEF TypeOK, TypeFlags, TypeCarrier, SynthYield
  <2>5. TypeFlags' /\ TypeCarrier'
    BY <1>1, <2>4, Zenon DEF TypeOK, TypeFlags, TypeCarrier, SynthYield
  <2>6. QED
    BY <1>1, <2>3, <2>5, TypeUnchanged, Zenon DEF TypeOK, SynthYield
<1>2. CASE OutputTake
  <2>1. Head(outputQueue) \in Chunk /\ Tail(outputQueue) \in Seq(Chunk)
    BY <1>2, SeqType DEF TypeOK, TypeOut, OutputTake
  <2>2. TypeOut'
    BY <1>2, <2>1, Zenon DEF TypeOK, TypeOut, OutputTake
  <2>3. QED
    BY <1>2, <2>2, TypeUnchanged, Zenon DEF TypeOK, OutputTake
<1>3. CASE OutputSend
  <2>1. held.seq \in Ids
    BY <1>3 DEF TypeOK, TypeOut, Chunk, OutputSend
  <2>2. /\ staged' \in SUBSET Ids /\ committed' \in SUBSET Ids /\ history' \in History
    BY <1>3, <2>1, StagingType DEF TypeOK, OutputSend
  <2>3. sentAudio \cup {held.seq} \in SUBSET Ids
    BY <2>1 DEF TypeOK, TypeStaged
  <2>4. TypeStaged' /\ TypeHistory'
    BY <1>3, <2>2, <2>3, Zenon DEF TypeOK, TypeStaged, TypeHistory, OutputSend
  <2>5. TypeFlags' /\ TypeOut' /\ TypeCarrier'
    BY <1>3, ValueTypes, Zenon DEF TypeOK, TypeFlags, TypeOut, TypeCarrier, OutputSend
  <2>6. QED
    BY <1>3, <2>4, <2>5, TypeUnchanged, Zenon DEF TypeOK, OutputSend
<1>4. CASE OutputHandled
  <2>1. held.seq \in Ids
    BY <1>4 DEF TypeOK, TypeOut, Links, Chunk, OutputHandled
  <2>2. marks' \in Seq(Mark)
    <3> DEFINE m(k) == [seq |-> held.seq, kind |-> k]
    <3>1. m("pre") \in Mark /\ m("post") \in Mark /\ m("final") \in Mark
      BY <2>1 DEF Mark
    <3>2. marks \in Seq(Mark)
      BY DEF TypeOK, TypeCarrier
    <3>3. Append(marks, m("final")) \in Seq(Mark)
      BY <3>1, <3>2, SeqType
    <3>4. marks \o <<m("pre"), m("post")>> \in Seq(Mark)
      BY <3>1, <3>2
    <3>5. QED
      BY <1>4, <3>3, <3>4, Zenon DEF OutputHandled
  <2>3. sequenceIds' \in SUBSET (Ids \cup {System}) /\ System \in sequenceIds'
    BY <1>4, <2>1, ValueTypes DEF TypeOK, TypeIM, OutputHandled
  <2>4. TypeIM' /\ TypeCarrier'
    BY <1>4, <2>2, <2>3, Zenon DEF TypeOK, TypeIM, TypeCarrier, OutputHandled
  <2>5. TypeFlags' /\ TypeOut'
    BY <1>4, ValueTypes, Zenon DEF TypeOK, TypeFlags, TypeOut, OutputHandled
  <2>6. QED
    BY <1>4, <2>4, <2>5, TypeUnchanged, Zenon DEF TypeOK, OutputHandled
<1>5. CASE OutputBlock
  <2>1. held.seq \in Ids
    BY <1>5 DEF TypeOK, TypeOut, Chunk, OutputBlock
  <2>2. Append(marks, [seq |-> held.seq, kind |-> "final"]) \in Seq(Mark)
    BY <2>1, SeqType DEF TypeOK, TypeCarrier, Mark
  <2>3. blocked \cup {held.seq} \in SUBSET Ids /\ staged \ {held.seq} \in SUBSET Ids
    BY <2>1 DEF TypeOK, TypeStaged
  <2>4. TypeStaged' /\ TypeCarrier'
    BY <1>5, <2>2, <2>3, Zenon DEF TypeOK, TypeStaged, TypeCarrier, OutputBlock
  <2>5. TypeFlags' /\ TypeOut'
    BY <1>5, ValueTypes, Zenon DEF TypeOK, TypeFlags, TypeOut, flagVars, OutputBlock
  <2>6. QED
    BY <1>5, <2>4, <2>5, TypeUnchanged, Zenon DEF TypeOK, OutputBlock
<1>6. CASE StuckGateRelease
  <2>1. TypeIM'
    BY <1>6, ValueTypes, Zenon DEF TypeOK, TypeIM, StuckGateRelease
  <2>2. QED
    BY <1>6, <2>1, TypeUnchanged, Zenon DEF TypeOK, StuckGateRelease
<1>7. CASE AckMark
  <2>1. Tail(marks) \in Seq(Mark)
    BY <1>7, SeqType DEF TypeOK, TypeCarrier, AckMark
  <2>2. audioPlaying' \in BOOLEAN
    BY <1>7 DEF TypeOK, TypeCarrier, AckMark
  <2>3. TypeCarrier'
    BY <1>7, <2>1, <2>2, Zenon DEF TypeOK, TypeCarrier, AckMark
  <2>4. QED
    BY <1>7, <2>3, TypeUnchanged, Zenon DEF TypeOK, AckMark
<1>8. CASE GraceExpires
  <2>1. TypeIM'
    BY <1>8, ValueTypes, Zenon DEF TypeOK, TypeIM, GraceExpires
  <2>2. QED
    BY <1>8, <2>1, TypeUnchanged, Zenon DEF TypeOK, GraceExpires
<1>9. QED
  BY <1>1, <1>2, <1>3, <1>4, <1>5, <1>6, <1>7, <1>8 DEF OutputLoop

\* A step that leaves everything alone keeps the types.
LEMMA TypeStutter == TypeOK /\ UNCHANGED vars => TypeOK'
BY TypeUnchanged, Zenon DEF TypeOK, vars

-------------------------------------------------------------------------------
(* Suspended handlers find what they left.                                  *)

\* No step of another task takes away what a suspended handler goes on with.
LEMMA LinksStep == TypeOK /\ Links /\ [Next]_vars => Links'
<1> SUFFICES ASSUME TypeOK, Links, [Next]_vars PROVE Links'
  OBVIOUS
<1> USE DEF Links, genVars, outVars, listenerVars
<1>1. CASE InterimBargeIn \/ InterimContinuation \/ InterimSpeaking
  <2>1. CASE InterimBargeIn
    BY <2>1, Zenon DEF InterimBargeIn, StartCleanup
  <2>2. CASE InterimContinuation
    BY <2>2, Zenon DEF InterimContinuation, StartCleanup
  <2>3. CASE InterimSpeaking
    BY <2>3, Zenon DEF InterimSpeaking
  <2>4. QED
    BY <1>1, <2>1, <2>2, <2>3
<1>2. CASE EagerEndOfTurn
  <2>1. NextSeq # NoSeq
    BY <1>2, AllocateType, ValueTypes DEF TypeOK, EagerEndOfTurn
  <2>2. QED
    BY <1>2, <2>1, Zenon DEF EagerEndOfTurn
<1>3. CASE TurnResumed
  BY <1>3, Zenon DEF TurnResumed
<1>4. CASE FinalIgnored \/ FinalDuplicate \/ SpeechEnded
  <2>1. CASE FinalIgnored
    BY <2>1, Zenon DEF FinalIgnored
  <2>2. CASE FinalDuplicate
    BY <2>2, Zenon DEF FinalDuplicate
  <2>3. CASE SpeechEnded
    BY <2>3, Zenon DEF SpeechEnded
  <2>4. QED
    BY <1>4, <2>1, <2>2, <2>3
<1>5. CASE FinalTranscript
  BY <1>5, Zenon DEF FinalTranscript
<1>6. CASE FinalEager
  BY <1>6, Zenon DEF FinalEager
<1>7. CASE RouteTranscript \/ OutputCleared
  <2>1. CASE RouteTranscript
    BY <2>1, Zenon DEF RouteTranscript
  <2>2. CASE OutputCleared
    BY <2>2, Zenon DEF OutputCleared
  <2>3. QED
    BY <1>7, <2>1, <2>2
<1>8. CASE RouteOverlapped
  BY <1>8, Zenon DEF RouteOverlapped, StartCleanup
<1>9. CASE CleanupFinish
  <2>1. listener' = "idle" /\ eagerTask' = NoSeq /\ sending' = FALSE
    BY <1>9, Zenon DEF CleanupFinish, OutputRestarts
  <2>2. QED
    BY <2>1, Zenon
<1>10. CASE SettleFire
  BY <1>10, Zenon DEF SettleFire
<1>11. ASSUME NEW s \in Ids, GenText(s) \/ GenFinish(s) \/ GenEmpty(s) \/ GenTool(s)
       PROVE  Links'
  <2>1. UNCHANGED <<listener, current, eagerSeq, eagerTask, sending, held>>
    BY <1>11, Zenon DEF GenText, GenFinish, GenEmpty, GenTool
  <2>2. QED
    BY <2>1, Zenon
<1>12. ASSUME NEW s \in Ids, ToolResult(s) PROVE Links'
  <2>1. s # NoSeq
    BY ValueTypes
  <2>2. QED
    BY <1>12, <2>1, Zenon DEF ToolResult
<1>13. CASE SynthYield \/ StuckGateRelease \/ AckMark \/ GraceExpires
  <2>1. CASE SynthYield
    BY <2>1, Zenon DEF SynthYield
  <2>2. CASE StuckGateRelease
    BY <2>2, Zenon DEF StuckGateRelease
  <2>3. CASE AckMark
    BY <2>3, Zenon DEF AckMark
  <2>4. CASE GraceExpires
    BY <2>4, Zenon DEF GraceExpires
  <2>5. QED
    BY <1>13, <2>1, <2>2, <2>3, <2>4
<1>14. CASE OutputTake
  <2>1. Head(outputQueue) # NoChunk
    <3>1. Head(outputQueue) \in Chunk
      BY <1>14, SeqType DEF TypeOK, TypeOut, OutputTake
    <3>2. NoChunk.kind = "none" /\ \A c \in Chunk : c.kind # "none"
      BY DEF Chunk, NoChunk
    <3>3. QED
      BY <3>1, <3>2
  <2>2. QED
    BY <1>14, <2>1, Zenon DEF OutputTake
<1>15. CASE OutputSend \/ OutputHandled \/ OutputBlock
  <2>1. CASE OutputSend
    BY <2>1, Zenon DEF OutputSend
  <2>2. CASE OutputHandled
    BY <2>2, Zenon DEF OutputHandled
  <2>3. CASE OutputBlock
    BY <2>3, Zenon DEF OutputBlock
  <2>4. QED
    BY <1>15, <2>1, <2>2, <2>3
<1>16. CASE UNCHANGED vars
  BY <1>16, Zenon DEF vars
<1>17. QED
  BY <1>1, <1>2, <1>3, <1>4, <1>5, <1>6, <1>7, <1>8, <1>9, <1>10, <1>11, <1>12,
     <1>13, <1>14, <1>15, <1>16, Zenon
     DEF Next, Transcriber, Router, Cleanup, LLMTask, OutputLoop

\* Init gives every variable its type.
LEMMA InitType == Init => TypeOK /\ Links
<1> SUFFICES ASSUME Init PROVE TypeOK /\ Links
  OBVIOUS
<1>1. TypeIM
  <2>1. 0 \in 0..MaxSeq
    BY ConstantsAssumption
  <2>2. QED
    BY <2>1, Zenon DEF Init, TypeIM
<1>2. TypeGen
  BY DEF Init, TypeGen, GenStates
<1>3. TypeFlags /\ TypeHistory
  BY DEF Init, TypeFlags, TypeHistory, History
<1>4. TypeStaged /\ TypeListener
  BY ValueTypes, Zenon DEF Init, TypeStaged, TypeListener
<1>5. TypeOut /\ TypeCarrier
  <2>1. <<>> \in Seq(Chunk) /\ <<>> \in Seq(Mark)
    OBVIOUS
  <2>2. QED
    BY <2>1, Zenon DEF Init, TypeOut, TypeCarrier
<1>6. Links
  BY Zenon DEF Init, Links, NoSeq
<1>7. QED
  BY <1>1, <1>2, <1>3, <1>4, <1>5, <1>6 DEF TypeOK

\* Every step keeps the types and what the suspended handlers rely on.
LEMMA TypeStep == TypeOK /\ Links /\ [Next]_vars => TypeOK' /\ Links'
BY TypeTranscriber, TypeRouting, TypeGeneration, TypeOutput, TypeStutter, LinksStep,
   Zenon DEF Next

\* Type correctness of the whole turn pipeline, whatever the number of ids, with or
\* without settle window, speculative turns and tools.
THEOREM TypeCorrect == Spec => []TypeOK
<1>1. Init => TypeOK /\ Links
  BY InitType
<1>2. (TypeOK /\ Links) /\ [Next]_vars => (TypeOK /\ Links)'
  BY TypeStep
<1>3. QED
  BY <1>1, <1>2, PTL DEF Spec

-------------------------------------------------------------------------------
(* Ids are used once: a turn that is owed has not been generated.           *)

\* Cancelling changes only tasks that run.
LEMMA CancelledFacts ==
    ASSUME NEW g \in [Ids -> GenStates], NEW S, NEW t \in Ids
    PROVE  \/ Cancelled(g, S)[t] = g[t]
           \/ Cancelled(g, S)[t] = "cancelled" /\ g[t] \in LiveStates
BY DEF Cancelled

\* kickoff_llm_generation starts s, cancels at most a running task, stages nothing.
LEMMA KickoffFacts ==
    ASSUME NEW s \in Ids, NEW g \in [Ids -> GenStates], NEW ids, NEW st,
           Kickoff(s, ids, g, st)
    PROVE  /\ gen'[s] = "running" /\ staged' \subseteq st
           /\ \A t \in Ids \ {s} : \/ gen'[t] = g[t]
                                   \/ gen'[t] = "cancelled" /\ g[t] \in LiveStates
<1> DEFINE stale == {t \in Ids : t = llmTask /\ g[t] \in LiveStates}
<1>1. gen' = [Cancelled(g, stale) EXCEPT ![s] = "running"]
  BY DEF Kickoff
<1>2. Cancelled(g, stale) \in [Ids -> GenStates]
  BY CancelledType
<1>3. staged' \subseteq st
  BY DEF Kickoff
<1>4. QED
  BY <1>1, <1>2, <1>3, CancelledFacts

\* Fresh survives a step that hands out no id and starts no generation.
LEMMA FreshKept ==
    ASSUME Fresh, currSeq' = currSeq, current' \in {current, NoSeq},
           settlePayload' \in {settlePayload, NoSeq},
           \A t \in Ids : gen[t] = "none" => gen'[t] = "none", TypeOK
    PROVE  Fresh'
BY DEF Fresh, Unused, TypeOK, TypeListener

\* Fresh survives handing out an id that nothing uses.
LEMMA FreshAllocated ==
    ASSUME Fresh, TypeOK, Allocate, UNCHANGED <<current, settlePayload>>,
           \A t \in Ids : t # NextSeq /\ gen[t] = "none" => gen'[t] = "none"
    PROVE  Fresh'
BY ConstantsAssumption DEF Fresh, Unused, TypeOK, TypeListener, TypeIM, Allocate, NextSeq, Ids

\* get_next_sequence_id hands out an id under which nothing was generated.
LEMMA NextUnused ==
    ASSUME TypeOK, Fresh, Allocate
    PROVE  NextSeq \in Ids /\ NextSeq # NoSeq /\ gen[NextSeq] = "none"
BY AllocateType, ValueTypes DEF TypeOK, TypeIM, Fresh, NextSeq

\* Every step keeps ids fresh.
LEMMA FreshStep == TypeOK /\ Links /\ Fresh /\ [Next]_vars => Fresh'
<1> SUFFICES ASSUME TypeOK, Links, Fresh, [Next]_vars PROVE Fresh'
  OBVIOUS
<1> USE DEF imVars, genVars, listenerVars
<1>t. gen \in [Ids -> GenStates]
  BY DEF TypeOK, TypeGen
<1>1. CASE UNCHANGED <<gen, currSeq, current, settlePayload>>
  BY <1>1, FreshKept, Zenon
<1>2. CASE InterimBargeIn
  BY <1>2, FreshKept, Zenon DEF InterimBargeIn, StartCleanup
<1>3. CASE InterimContinuation
  BY <1>3, FreshKept, Zenon DEF InterimContinuation, StartCleanup
<1>4. CASE EagerEndOfTurn
  <2>1. \A t \in Ids : t # NextSeq => gen'[t] = gen[t]
    BY <1>4, <1>t DEF EagerEndOfTurn
  <2>2. QED
    BY <1>4, <2>1, FreshAllocated, Zenon DEF EagerEndOfTurn
<1>5. CASE TurnResumed
  <2>1. \A t \in Ids : gen[t] = "none" => gen'[t] = "none"
    BY <1>5, <1>t, CancelledFacts DEF TurnResumed, LiveStates
  <2>2. QED
    BY <1>5, <2>1, FreshKept, Zenon DEF TurnResumed
<1>6. CASE FinalDuplicate
  BY <1>6, FreshAllocated, Zenon DEF FinalDuplicate, AtRouter
<1>7. CASE FinalEager
  <2>1. \A t \in Ids : gen[t] = "none" => gen'[t] = "none"
    BY <1>7, <1>t, CancelledFacts DEF FinalEager, LiveStates
  <2>2. QED
    BY <1>7, <2>1, FreshKept, Zenon DEF FinalEager
<1>8. CASE RouteTranscript
  <2>1. NextSeq \in Ids
    BY <1>8, RouterType, Zenon DEF RouteTranscript
  <2>2. \A t \in Ids : t # NextSeq /\ gen[t] = "none" => gen'[t] = "none"
    BY <1>8, <1>t, <2>1, KickoffFacts DEF RouteTranscript, LiveStates
  <2>3. QED
    BY <1>8, <2>2, FreshAllocated, Zenon DEF RouteTranscript, AtRouter
<1>9. CASE RouteOverlapped
  <2>1. Allocate /\ gen' = gen /\ current' = NextSeq /\ settlePayload' = NoSeq
    BY <1>9, Zenon DEF RouteOverlapped, StartCleanup, AtRouter
  <2>2. QED
    BY <2>1, ConstantsAssumption DEF Fresh, Unused, TypeOK, TypeIM, Allocate, NextSeq, Ids, NoSeq
<1>10. CASE CleanupFinish
  <2> DEFINE g == Cancelled(gen, CleanupCancels)
  <2>1. g \in [Ids -> GenStates] /\ \A t \in Ids : gen[t] = "none" => g[t] = "none"
    BY <1>t, CancelledType, CancelledFacts DEF LiveStates
  <2>2. current' = NoSeq /\ currSeq' = currSeq
    BY <1>10, Zenon DEF CleanupFinish
  <2>3. CASE current # NoSeq /\ Kickoff(current, Invalidated, g, {}) /\ UNCHANGED settlePayload
    <3>1. current \in Ids
      BY <2>3 DEF TypeOK, TypeListener
    <3>2. \A t \in Ids \ {current} : gen[t] = "none" => gen'[t] = "none"
      BY <2>1, <2>3, <3>1, KickoffFacts DEF LiveStates
    <3>3. QED
      BY <2>2, <2>3, <3>1, <3>2, ConstantsAssumption DEF TypeOK, TypeIM, TypeListener, Fresh,
         Unused, Ids, NoSeq
  <2>4. CASE gen' = g /\ settlePayload' = current
    BY <2>1, <2>2, <2>4 DEF TypeOK, TypeListener, Fresh, Unused, NoSeq
  <2>5. QED
    BY <1>10, <2>3, <2>4, Zenon DEF CleanupFinish
<1>11. CASE SettleFire
  <2>1. settlePayload \in Ids
    BY <1>11 DEF TypeOK, TypeListener, SettleFire, Armed
  <2>2. \A t \in Ids \ {settlePayload} : gen[t] = "none" => gen'[t] = "none"
    BY <1>11, <1>t, <2>1, KickoffFacts DEF SettleFire, LiveStates
  <2>3. QED
    BY <1>11, <2>1, <2>2, ConstantsAssumption DEF TypeOK, TypeIM, TypeListener, Fresh, Unused,
       SettleFire, Ids, NoSeq
<1>12. ASSUME NEW s \in Ids, GenFinish(s) \/ GenEmpty(s) \/ GenTool(s) PROVE Fresh'
  <2>1. gen[s] # "none" /\ \A t \in Ids : t # s => gen'[t] = gen[t]
    BY <1>12, <1>t DEF GenFinish, GenEmpty, GenTool, TaskEnds
  <2>2. UNCHANGED <<currSeq, current, settlePayload>>
    BY <1>12, Zenon DEF GenFinish, GenEmpty, GenTool
  <2>3. QED
    BY <2>1, <2>2, FreshKept, Zenon
<1>13. ASSUME NEW s \in Ids, ToolResult(s) PROVE Fresh'
  <2>1. \A t \in Ids : t # NextSeq /\ gen[t] = "none" => gen'[t] = "none"
    BY <1>13, <1>t DEF ToolResult
  <2>2. QED
    BY <1>13, <2>1, FreshAllocated, Zenon DEF ToolResult
<1>14. ASSUME NEW s \in Ids, GenText(s) PROVE Fresh'
  BY <1>14, <1>1, Zenon DEF GenText
<1>15. CASE InterimSpeaking \/ FinalIgnored \/ FinalTranscript \/ SpeechEnded \/ OutputCleared
  BY <1>15, <1>1, Zenon DEF InterimSpeaking, FinalIgnored, FinalTranscript, SpeechEnded,
     OutputCleared
<1>16. CASE SynthYield \/ OutputLoop \/ StuckGateRelease \/ AckMark \/ GraceExpires
  BY <1>16, <1>1, Zenon DEF SynthYield, OutputLoop, OutputTake, OutputSend, OutputHandled,
     OutputBlock, StuckGateRelease, AckMark, GraceExpires
<1>17. CASE UNCHANGED vars
  BY <1>17, <1>1, Zenon DEF vars
<1>18. QED
  BY <1>2, <1>3, <1>4, <1>5, <1>6, <1>7, <1>8, <1>9, <1>10, <1>11, <1>12,
     <1>13, <1>14, <1>15, <1>16, <1>17, Zenon DEF Next, Transcriber, Router, Cleanup, LLMTask

-------------------------------------------------------------------------------
(* Only what was sent is remembered as said.                                *)

Rows == NoEarlyRow /\ CommittedWereSent
Open == {"none", "running", "followup"}

\* A generation that is over is never opened again: ids are started once.
LEMMA OpenStep ==
    TypeOK /\ Links /\ Fresh /\ [Next]_vars => \A t \in Ids : gen'[t] \in Open => gen[t] \in Open
<1> SUFFICES ASSUME TypeOK, Links, Fresh, [Next]_vars
             PROVE  \A t \in Ids : gen'[t] \in Open => gen[t] \in Open
  OBVIOUS
<1> USE DEF genVars
<1>t. gen \in [Ids -> GenStates]
  BY DEF TypeOK, TypeGen
<1>1. CASE gen' = gen
  BY <1>1
<1>2. CASE EagerEndOfTurn
  <2>1. NextSeq \in Ids /\ gen[NextSeq] = "none"
    BY <1>2, NextUnused DEF EagerEndOfTurn
  <2>2. QED
    BY <1>2, <1>t, <2>1 DEF EagerEndOfTurn, Open
<1>3. CASE TurnResumed
  BY <1>3, <1>t, CancelledFacts DEF TurnResumed, Open
<1>4. CASE FinalEager
  BY <1>4, <1>t, CancelledFacts DEF FinalEager, Open
<1>5. CASE RouteTranscript
  <2>1. NextSeq \in Ids /\ gen[NextSeq] = "none"
    BY <1>5, NextUnused DEF RouteTranscript, AtRouter
  <2>2. QED
    BY <1>5, <1>t, <2>1, KickoffFacts DEF RouteTranscript, Open
<1>6. CASE CleanupFinish
  <2> DEFINE g == Cancelled(gen, CleanupCancels)
  <2>1. g \in [Ids -> GenStates] /\ \A t \in Ids : g[t] \in Open => gen[t] \in Open
    BY <1>t, CancelledType, CancelledFacts DEF Open
  <2>2. CASE current # NoSeq /\ Kickoff(current, Invalidated, g, {})
    <3>1. current \in Ids /\ gen[current] = "none"
      BY <2>2 DEF TypeOK, TypeListener, Fresh, Unused
    <3>2. QED
      BY <2>1, <2>2, <3>1, KickoffFacts DEF Open
  <2>3. CASE gen' = g
    BY <2>1, <2>3
  <2>4. QED
    BY <1>6, <2>2, <2>3, Zenon DEF CleanupFinish
<1>7. CASE SettleFire
  <2>1. settlePayload \in Ids /\ gen[settlePayload] = "none"
    BY <1>7 DEF TypeOK, TypeListener, Fresh, Unused, SettleFire, Armed
  <2>2. QED
    BY <1>7, <1>t, <2>1, KickoffFacts DEF SettleFire, Open
<1>8. ASSUME NEW s \in Ids, GenFinish(s) \/ GenEmpty(s) \/ GenTool(s)
      PROVE  \A t \in Ids : gen'[t] \in Open => gen[t] \in Open
  BY <1>8, <1>t DEF GenFinish, GenEmpty, GenTool, TaskEnds, Open
<1>9. ASSUME NEW s \in Ids, ToolResult(s)
      PROVE  \A t \in Ids : gen'[t] \in Open => gen[t] \in Open
  <2>1. NextSeq \in Ids /\ gen[NextSeq] = "none"
    BY <1>9, NextUnused DEF ToolResult
  <2>2. QED
    BY <1>9, <1>t, <2>1 DEF ToolResult, Open
<1>10. ASSUME NEW s \in Ids, GenText(s) PROVE gen' = gen
  BY <1>10, Zenon DEF GenText
<1>11. CASE InterimBargeIn \/ InterimContinuation \/ InterimSpeaking \/ FinalIgnored
              \/ FinalDuplicate \/ FinalTranscript \/ SpeechEnded
  BY <1>11, <1>1, Zenon DEF InterimBargeIn, InterimContinuation, InterimSpeaking, FinalIgnored,
     FinalDuplicate, FinalTranscript, SpeechEnded
<1>12. CASE RouteOverlapped \/ OutputCleared \/ SynthYield \/ OutputLoop \/ StuckGateRelease
              \/ AckMark \/ GraceExpires
  BY <1>12, <1>1, Zenon DEF RouteOverlapped, OutputCleared, SynthYield, OutputLoop, OutputTake,
     OutputSend, OutputHandled, OutputBlock, StuckGateRelease, AckMark, GraceExpires
<1>13. CASE UNCHANGED vars
  BY <1>13, <1>1, Zenon DEF vars
<1>14. QED
  BY <1>1, <1>2, <1>3, <1>4, <1>5, <1>6, <1>7, <1>8, <1>9, <1>10, <1>11, <1>12, <1>13, Zenon
     DEF Next, Transcriber, Router, Cleanup, LLMTask

\* Rows survive a step that stages and commits nothing and opens no generation.
LEMMA RowsKept ==
    ASSUME Rows, sentAudio \subseteq sentAudio', committed' = committed, staged' \subseteq staged,
           \A t \in Ids : gen'[t] \in Open => gen[t] \in Open
    PROVE  Rows'
BY DEF Rows, NoEarlyRow, CommittedWereSent, Open

\* stage_assistant_history stages a row once, when its generation closes, and its
\* rescue commit is for a response that has passed the gate.
LEMMA RowsStaged ==
    ASSUME Rows, NEW s \in Ids, StageAssistant(s), sentAudio' = sentAudio,
           gen[s] \in Open, gen'[s] \notin Open, \A t \in Ids : t # s => gen'[t] = gen[t]
    PROVE  Rows'
BY DEF Rows, NoEarlyRow, CommittedWereSent, Open, StageAssistant

\* commit_staged_assistant_history commits what is staged, once its frame is sent.
LEMMA RowsCommitted ==
    ASSUME Rows, NEW s \in Ids, CommitStaged(s), sentAudio' = sentAudio \cup {s}, gen' = gen
    PROVE  Rows'
BY DEF Rows, NoEarlyRow, CommittedWereSent, CommitStaged

\* Every step keeps the rows of history to what was sent.
LEMMA RowsStep == TypeOK /\ Links /\ Fresh /\ Rows /\ [Next]_vars => Rows'
<1> SUFFICES ASSUME TypeOK, Links, Fresh, Rows, [Next]_vars PROVE Rows'
  OBVIOUS
<1> USE DEF genVars, stagedVars
<1>t. gen \in [Ids -> GenStates]
  BY DEF TypeOK, TypeGen
<1>o. \A t \in Ids : gen'[t] \in Open => gen[t] \in Open
  BY OpenStep
<1>1. CASE staged' \subseteq staged /\ UNCHANGED <<committed, sentAudio>>
  BY <1>1, <1>o, RowsKept, Zenon
<1>2. CASE RouteTranscript
  <2>1. NextSeq \in Ids
    BY <1>2, RouterType, Zenon DEF RouteTranscript
  <2>2. QED
    BY <1>1, <1>2, <1>t, <2>1, KickoffFacts, Zenon DEF RouteTranscript
<1>3. CASE CleanupFinish
  <2> DEFINE g == Cancelled(gen, CleanupCancels)
  <2>1. current # NoSeq => current \in Ids
    BY DEF TypeOK, TypeListener
  <2>2. g \in [Ids -> GenStates]
    BY <1>t, CancelledType
  <2>3. CASE current # NoSeq /\ Kickoff(current, Invalidated, g, {})
    <3>1. staged' \subseteq {}
      BY <2>1, <2>2, <2>3, KickoffFacts
    <3>2. QED
      BY <1>1, <1>3, <3>1, Zenon DEF CleanupFinish
  <2>4. CASE staged' = {}
    BY <1>1, <1>3, <2>4, Zenon DEF CleanupFinish
  <2>5. QED
    BY <1>3, <2>3, <2>4, Zenon DEF CleanupFinish
<1>4. CASE SettleFire
  <2>1. settlePayload \in Ids
    BY <1>4 DEF TypeOK, TypeListener, SettleFire, Armed
  <2>2. QED
    BY <1>1, <1>4, <1>t, <2>1, KickoffFacts, Zenon DEF SettleFire
<1>5. ASSUME NEW s \in Ids, GenFinish(s) PROVE Rows'
  <2>1. gen[s] \in Open /\ gen'[s] \notin Open /\ \A t \in Ids : t # s => gen'[t] = gen[t]
    BY <1>5, <1>t DEF GenFinish, TaskEnds, Open
  <2>2. QED
    BY <1>5, <2>1, RowsStaged, Zenon DEF GenFinish
<1>6. ASSUME NEW s \in Ids, GenTool(s) PROVE Rows'
  <2>1. gen[s] \in Open /\ gen'[s] \notin Open /\ \A t \in Ids : t # s => gen'[t] = gen[t]
    BY <1>6, <1>t DEF GenTool, Open
  <2>2. CASE s \in spoke
    BY <1>6, <2>1, <2>2, RowsStaged, Zenon DEF GenTool
  <2>3. CASE s \notin spoke
    BY <1>1, <1>6, <2>3, Zenon DEF GenTool
  <2>4. QED
    BY <2>2, <2>3
<1>7. ASSUME NEW s \in Ids, GenEmpty(s) \/ ToolResult(s) \/ GenText(s) PROVE Rows'
  BY <1>1, <1>7, Zenon DEF GenEmpty, ToolResult, GenText
<1>8. CASE OutputSend
  <2>1. held.seq \in Ids
    BY <1>8 DEF TypeOK, TypeOut, Chunk, OutputSend
  <2>2. QED
    BY <1>8, <2>1, RowsCommitted, Zenon DEF OutputSend
<1>9. CASE OutputBlock
  BY <1>1, <1>9, Zenon DEF OutputBlock
<1>10. CASE Transcriber \/ FinalDuplicate \/ RouteOverlapped \/ OutputCleared
  BY <1>1, <1>10, Zenon DEF Transcriber, InterimBargeIn, InterimContinuation, InterimSpeaking,
     EagerEndOfTurn, TurnResumed, FinalIgnored, FinalDuplicate, FinalTranscript, FinalEager,
     SpeechEnded, RouteOverlapped, OutputCleared
<1>11. CASE SynthYield \/ OutputTake \/ OutputHandled \/ StuckGateRelease \/ AckMark
              \/ GraceExpires
  BY <1>1, <1>11, Zenon DEF SynthYield, OutputTake, OutputHandled, StuckGateRelease, AckMark,
     GraceExpires
<1>12. CASE UNCHANGED vars
  BY <1>1, <1>12, Zenon DEF vars
<1>13. QED
  BY <1>2, <1>3, <1>4, <1>5, <1>6, <1>7, <1>8, <1>9, <1>10, <1>11, <1>12, Zenon
     DEF Next, Router, Cleanup, LLMTask, OutputLoop

\* The invariant holds at the start and every step keeps it.
LEMMA InvariantHolds == Spec => []IInv
<1>1. Init => IInv
  <2>1. ASSUME Init PROVE Fresh /\ Rows
    BY <2>1 DEF Init, Fresh, Unused, Rows, NoEarlyRow, CommittedWereSent
  <2>2. QED
    BY <2>1, InitType, Zenon DEF IInv, Rows
<1>2. IInv /\ [Next]_vars => IInv'
  BY TypeStep, FreshStep, RowsStep, Zenon DEF IInv, Rows
<1>3. QED
  BY <1>1, <1>2, PTL DEF Spec

\* Whatever the interleaving of generation, output gate, barge-in, cleanup and
\* speculative turns, an assistant row in history is one whose audio passed the
\* gate (commit_staged_assistant_history and stage_assistant_history's rescue).
THEOREM CommittedWereSentHolds == Spec => []CommittedWereSent
<1>1. IInv => CommittedWereSent
  BY DEF IInv
<1>2. QED
  BY <1>1, InvariantHolds, PTL

===============================================================================
