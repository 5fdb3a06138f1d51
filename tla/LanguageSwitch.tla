--------------------------- MODULE LanguageSwitch ---------------------------
(***************************************************************************)
(* Switching the language of a multilingual call: the transcriber pool and *)
(* the synthesizer pool, each with an active label behind a lock, the      *)
(* decision tasks that move both, the playback gate that holds a reply     *)
(* while its decision is open, and the listener that reconnects a closed   *)
(* transcriber or ends the call.                                           *)
(*                                                                         *)
(* Three flows exist (composition.py): "judge" (a Switch LLM decides once  *)
(* per turn, under language_switch_lock), "dead" (a judge without          *)
(* credentials, plus the switch_language tool) and "legacy" (the tool and  *)
(* the detector's heuristic, no lock).                                     *)
(*                                                                         *)
(* Locks are asyncio.Lock: first come first served, so a lock is the       *)
(* sequence of its holder followed by the tasks that wait for it.  An      *)
(* action runs from one suspension point (await) of a task to the next.    *)
(***************************************************************************)
EXTENDS Naturals, Sequences, FiniteSets

CONSTANTS TrLabels,       \* labels of the transcriber pool
          SyLabels,       \* labels of the synthesizer pool
          Tags,           \* languages the detector may recognize
          Other,          \* no language: not a label of a pool
          Start,          \* the label both pools start with
          Scenarios,      \* the calls that the instance explores
          Tasks,          \* slots for the decisions and switches in flight
          MaxReconnects,  \* _MAX_RECONNECTS_PER_CALL
          Debounce,       \* _LID_DEBOUNCE_COUNT
          MaxSeq          \* bound: sequence ids of a call

Labels == TrLabels \cup SyLabels
Listener == "listener"

\* The agent's two pools are configured with the same active label.  Otherwise
\* they are independent: either may have languages the other lacks.
ASSUME LabelsAssumption == Start \in TrLabels \cap SyLabels
ASSUME TasksAssumption == Listener \notin Tasks
ASSUME BoundsAssumption ==
  /\ MaxReconnects \in Nat /\ MaxSeq \in Nat /\ Debounce \in Nat \ {0}
\* A scenario bounds the user turns, the detector's segments, the calls of
\* the switch_language tool and the connections that providers drop; mode is
\* LID_MODE, which in "shadow" keeps the heuristic from switching.
ASSUME ScenariosAssumption ==
  Scenarios \subseteq [flow : {"judge", "dead", "legacy"}, mode : {"shadow", "active"},
                       turns : 0..MaxSeq, segments : Nat, tools : Nat, drops : Nat]

VARIABLES
  call,       \* the scenario: which flow this call runs, and its bounds
  language,   \* TaskManager.language
  trActive,   \* TranscriberPool.active_label
  syActive,   \* SynthesizerPool.active_label
  up,         \* transcribers whose transcription_task is running
  eosQ,       \* transcribers with the end-of-stream packet in their input queue
  callEnded,  \* TranscriberPool.call_ended
  notices,    \* transcriber_connection_closed messages the listener has not read
  reconnects, \* active_reconnect_count
  listener,   \* where the transcript listener is
  trQ,        \* TranscriberPool.switch_lock
  syQ,        \* SynthesizerPool._switch_lock
  langQ,      \* language_switch_lock
  pc,         \* where each task is suspended
  job,        \* each task's local variables
  buf,        \* the languages tagged in the detector's undrained buffer
  lid,        \* the legacy heuristic's debounce and cooldown state
  gate,       \* lid_playback_gate
  rep,        \* the replies of the call, by sequence id
  fcall,      \* function_call_in_flight
  hangup,     \* a hangup, end_call or transfer is under way
  heard,      \* segments heard, for the bound
  tools,      \* tool calls, for the bound
  drops       \* connections dropped, for the bound

pools == <<language, trActive, syActive>>
conns == <<up, eosQ, callEnded, notices, reconnects, listener, drops>>
audio == <<gate, rep, fcall>>
vars  == <<call, pools, conns, trQ, syQ, langQ, pc, job, buf, lid, audio, hangup, heard, tools>>

NoGate == [seq |-> 0, task |-> Listener, expired |-> FALSE, decided |-> FALSE]
NoJob  == [kind |-> "none", spawned |-> Start, target |-> Start, seq |-> 0, held |-> 0]
Pcs == {"free", "wait", "lock", "settle", "decide", "cut", "cutAudible", "gap", "tr",
        "reconn", "sy", "cancel", "speak", "follow"}

TypeOK ==
  /\ call \in Scenarios
  /\ language \in Labels /\ trActive \in TrLabels /\ syActive \in SyLabels
  /\ up \subseteq TrLabels /\ eosQ \subseteq TrLabels
  /\ callEnded \in BOOLEAN /\ hangup \in BOOLEAN /\ fcall \in BOOLEAN
  /\ notices \in Nat /\ reconnects \in 0..MaxReconnects
  /\ listener \in {"run", "lock", "reconn", "done"}
  /\ trQ \in Seq(Tasks \cup {Listener}) /\ syQ \in Seq(Tasks) /\ langQ \in Seq(Tasks)
  /\ pc \in [Tasks -> Pcs]
  /\ job \in [Tasks -> [kind : {"none", "turn", "idle", "parallel", "tool", "lid"}, spawned : Labels,
                        target : Labels, seq : 0..MaxSeq, held : 0..MaxSeq]]
  /\ buf \subseteq Tags
  /\ lid \in [lang : Labels \cup {Other}, count : 0..Debounce, cooling : BOOLEAN]
  /\ gate \in [seq : 0..MaxSeq, task : Tasks \cup {Listener},
               expired : BOOLEAN, decided : BOOLEAN]
  /\ rep \in [1..MaxSeq -> {"none", "pending", "playing", "over"}]
  /\ heard \in Nat /\ tools \in Nat /\ drops \in Nat

Init ==
  /\ call \in Scenarios
  /\ language = Start /\ trActive = Start /\ syActive = Start
  /\ up = TrLabels /\ eosQ = {} /\ callEnded = FALSE
  /\ notices = 0 /\ reconnects = 0 /\ listener = "run" /\ drops = 0
  /\ trQ = <<>> /\ syQ = <<>> /\ langQ = <<>>
  /\ pc = [t \in Tasks |-> "free"] /\ job = [t \in Tasks |-> NoJob]
  /\ buf = {} /\ heard = 0 /\ tools = 0 /\ lid = [lang |-> Other, count |-> 0, cooling |-> FALSE]
  /\ gate = NoGate /\ rep = [s \in 1..MaxSeq |-> "none"]
  /\ fcall = FALSE /\ hangup = FALSE

------------------------------------------------------------------------------
(* Shared pieces *)

Judged == call.flow # "legacy"
Holds(q, t) == q # <<>> /\ Head(q) = t
\* A new task takes any free slot; slots are interchangeable.
Fresh(t) == pc[t] = "free" /\ t = CHOOSE u \in Tasks : pc[u] = "free"
Go(t, where) == pc' = [pc EXCEPT ![t] = where]

Unheard == {s \in 1..MaxSeq : rep[s] = "none"}
NextSeq == CHOOSE s \in Unheard : \A r \in Unheard : s <= r
InFlight == {s \in 1..MaxSeq : rep[s] \in {"pending", "playing"}}
Truncated == [s \in 1..MaxSeq |-> IF s \in InFlight THEN "over" ELSE rep[s]]

\* The languages in the buffer that a switch could go to.
Foreign == buf \ {language}
Mismatch == Foreign \cap TrLabels \cap SyLabels # {}

\* arm_lid_playback_gate: turns without a sequence id are never gated.
Armed(s, t) == IF s = 0 THEN gate ELSE [seq |-> s, task |-> t, expired |-> FALSE, decided |-> FALSE]
\* The decision task of the gate has finished.
Decided(t) == IF gate.task = t THEN [gate EXCEPT !.decided = TRUE] ELSE gate
\* Mutant: the gate ignores that its decision ended and its backstop.
GateHoldsUndecided(s) == gate.seq = s /\ ~hangup

\* lid_playback_gate_holds: each reason to open is tested when the output loop polls.
GateHolds(s) == gate.seq = s /\ ~hangup /\ ~gate.decided /\ ~gate.expired

\* Mutant: an early return keeps language_switch_lock.
LeaveLocked(t) ==
  /\ Go(t, "free") /\ langQ' = langQ
  /\ job' = [job EXCEPT ![t] = NoJob]

\* The task returns; language_switch_lock goes to the next waiter.
Leave(t) ==
  /\ Go(t, "free")
  /\ langQ' = IF Holds(langQ, t) THEN Tail(langQ) ELSE langQ
  /\ job' = [job EXCEPT ![t] = NoJob]

Return(t) == Leave(t) /\ gate' = Decided(t)

------------------------------------------------------------------------------
(* The two pools and switch_language *)

\* switch_language starts: the task asks for the transcriber pool's lock.
Enter(t) == Go(t, "tr") /\ trQ' = Append(trQ, t)

\* The transcriber has flipped; the same task goes straight on to the voice.
ToVoice(t) == Go(t, "sy") /\ trQ' = Tail(trQ) /\ syQ' = Append(syQ, t)

\* Mutant: switch() does not look whether the standby dropped.
TrSwitchBlind(t) ==
  /\ pc[t] = "tr" /\ Holds(trQ, t)
  /\ IF job[t].target \in TrLabels
     THEN trActive' = job[t].target /\ ToVoice(t) /\ UNCHANGED <<langQ, job, gate>>
     ELSE trQ' = Tail(trQ) /\ Return(t) /\ UNCHANGED <<trActive, syQ>>
  /\ UNCHANGED <<call, language, syActive, conns, buf, lid, rep, fcall, hangup, heard, tools>>

\* TranscriberPool.switch under its lock, up to the reconnect it may await.
TrSwitch(t) ==
  /\ pc[t] = "tr" /\ Holds(trQ, t)
  /\ LET label == job[t].target IN
     \/ /\ label = trActive                              \* already active: no-op
        /\ ToVoice(t) /\ UNCHANGED <<trActive, langQ, job, gate>>
     \/ /\ label \notin TrLabels                         \* ValueError
        /\ trQ' = Tail(trQ) /\ Return(t)
        /\ UNCHANGED <<trActive, syQ>>
     \/ /\ label \in TrLabels \ up /\ label # trActive /\ ~callEnded
        /\ Go(t, "reconn") /\ UNCHANGED <<trActive, trQ, syQ, langQ, job, gate>>
     \/ /\ label \in TrLabels /\ label # trActive /\ (label \in up \/ callEnded)
        /\ trActive' = label /\ ToVoice(t) /\ UNCHANGED <<langQ, job, gate>>
  /\ UNCHANGED <<call, language, syActive, conns, buf, lid, rep, fcall, hangup, heard, tools>>

\* The awaited run() returns.  It never raises: a provider that cannot
\* connect reports a closed connection instead.
TrReconnected(t) ==
  /\ pc[t] = "reconn"
  /\ \/ up' = up \cup {job[t].target} /\ notices' = notices
     \/ drops < call.drops /\ notices' = notices + 1 /\ up' = up
  /\ drops' = IF up' = up THEN drops + 1 ELSE drops
  /\ trActive' = job[t].target /\ ToVoice(t)
  /\ UNCHANGED <<call, language, syActive, eosQ, callEnded, reconnects, listener, langQ, job,
                 buf, lid, audio, hangup, heard, tools>>

\* switch_language returns: both pools have the label, so the session takes
\* it.  A judge's decision goes on to speak; a tool call drops the detector
\* buffer, which still holds the speech of the old language.
Applied(t) ==
  /\ language' = job[t].target /\ syQ' = Tail(syQ)
  /\ IF job[t].kind \in {"turn", "idle"}
     THEN Go(t, "speak") /\ UNCHANGED <<langQ, job, gate>>
     ELSE Return(t)
  /\ buf' = IF job[t].kind = "tool" /\ Judged THEN {} ELSE buf

\* switch_language raises on a language without a voice.  The caller catches it:
\* the recognizer has switched, voice and session stay as they are.
Voiceless(t) == syQ' = Tail(syQ) /\ Return(t) /\ UNCHANGED <<language, buf>>

\* Mutant: the synthesizer pool has no lock, so switches finish in any order.
SySwitchUnlocked(t) ==
  /\ pc[t] = "sy"
  /\ IF job[t].target = syActive
     THEN Applied(t)
     ELSE IF job[t].target \notin SyLabels THEN Voiceless(t)
     ELSE Go(t, "cancel") /\ UNCHANGED <<language, syQ, langQ, job, buf, gate>>
  /\ UNCHANGED <<call, trActive, syActive, conns, trQ, lid, rep, fcall, hangup, heard, tools>>

\* SynthesizerPool.switch under its lock, up to the cancellation it awaits.
SySwitch(t) ==
  /\ pc[t] = "sy" /\ Holds(syQ, t)
  /\ LET label == job[t].target IN
     \/ label = syActive /\ Applied(t)                    \* already active: no-op
     \/ label \notin SyLabels /\ Voiceless(t)             \* ValueError
     \/ /\ label \in SyLabels /\ label # syActive
        /\ Go(t, "cancel") /\ UNCHANGED <<language, syQ, langQ, job, buf, gate>>
  /\ UNCHANGED <<call, trActive, syActive, conns, trQ, lid, rep, fcall, hangup, heard, tools>>

\* The old generate task is gone: the label flips and a new task starts.
SyCancelled(t) ==
  /\ pc[t] = "cancel"
  /\ syActive' = job[t].target /\ Applied(t)
  /\ UNCHANGED <<call, trActive, conns, trQ, lid, rep, fcall, hangup, heard, tools>>

------------------------------------------------------------------------------
(* Decisions of the judge: handle_language_switch and run_language_switch *)

\* A user turn completes.  Its reply starts at once, a decision is spawned
\* beside it, and the reply's audio is gated when the detector already
\* tagged the turn as another language with enough speech.
Turn(t) ==
  /\ Judged /\ listener = "run" /\ ~hangup
  /\ Fresh(t) /\ Unheard # {} /\ NextSeq <= call.turns
  /\ Go(t, "lock") /\ langQ' = Append(langQ, t)
  /\ job' = [job EXCEPT ![t] = [NoJob EXCEPT !.kind = "turn", !.spawned = language,
                                             !.seq = NextSeq]]
  /\ rep' = [Truncated EXCEPT ![NextSeq] = "pending"]
  /\ \E substantive \in BOOLEAN :
       gate' = IF Mismatch /\ substantive THEN Armed(NextSeq, t) ELSE gate
  /\ UNCHANGED <<call, pools, conns, trQ, syQ, buf, lid, fcall, hangup, heard, tools>>

\* lid_idle_watcher: speech in another language went idle and no turn of the
\* locked transcriber drained it.
WatcherFires(t) ==
  /\ Judged /\ listener # "done" /\ ~hangup
  /\ \A u \in Tasks : job[u].kind # "idle"
  /\ Fresh(t) /\ Foreign # {}
  /\ Go(t, "lock") /\ langQ' = Append(langQ, t)
  /\ job' = [job EXCEPT ![t] = [NoJob EXCEPT !.kind = "idle", !.spawned = language]]
  /\ UNCHANGED <<call, pools, conns, trQ, syQ, buf, lid, audio, hangup, heard, tools>>

\* Mutant: no stale-decision guard.
BeginStaleDecision(t) ==
  /\ pc[t] = "lock" /\ Holds(langQ, t) /\ job[t].kind # "tool"
  /\ IF hangup THEN Return(t) ELSE Go(t, "settle") /\ UNCHANGED <<langQ, job, gate>>
  /\ UNCHANGED <<call, pools, conns, trQ, syQ, buf, lid, rep, fcall, hangup, heard, tools>>

\* The decision has the lock.  It is dropped when the call is ending, or when
\* the language changed since it was spawned: its transcript then came from
\* another recognizer.  The detector buffer is kept.
BeginDecision(t) ==
  /\ pc[t] = "lock" /\ Holds(langQ, t) /\ job[t].kind # "tool"
  /\ IF hangup \/ job[t].spawned # language
     THEN Return(t)
     ELSE Go(t, "settle") /\ UNCHANGED <<langQ, job, gate>>
  /\ UNCHANGED <<call, pools, conns, trQ, syQ, buf, lid, rep, fcall, hangup, heard, tools>>

\* The buffer is drained and the judge is asked.  A gate whose decision has
\* finished is released; the late arm may then gate this turn.
Drain(t) ==
  /\ pc[t] = "settle"
  /\ LET open == IF gate.decided THEN NoGate ELSE gate IN
     IF buf = {}
     THEN Return(t)
     ELSE /\ Go(t, "decide") /\ UNCHANGED <<langQ, job>>
          /\ \E substantive \in BOOLEAN :
               gate' = IF open = NoGate /\ Mismatch /\ substantive
                       THEN (IF job[t].seq = 0 THEN NoGate ELSE Armed(job[t].seq, t)) ELSE open
  /\ buf' = {}
  /\ UNCHANGED <<call, pools, conns, trQ, syQ, lid, rep, fcall, hangup, heard, tools>>

\* No switch: the judge timed out or failed, wants to stay, the call is
\* ending, or one of the gates on its verdict refused.
Stay(t) ==
  /\ pc[t] = "decide"
  /\ Return(t)
  /\ UNCHANGED <<call, pools, conns, trQ, syQ, buf, lid, rep, fcall, hangup, heard, tools>>

\* Mutant: the gate is released with the verdict, before the truncation.
AcceptReleasing(t, label) ==
  /\ pc[t] = "decide" /\ call.flow = "judge" /\ ~hangup
  /\ label \in TrLabels \cap SyLabels /\ label # language
  /\ job' = [job EXCEPT ![t].target = label, ![t].held = gate.seq,
                        ![t].kind = IF fcall THEN "parallel" ELSE @]
  /\ IF ~fcall /\ InFlight # {} THEN Go(t, "cut") /\ UNCHANGED trQ ELSE Enter(t)
  /\ gate' = NoGate
  /\ UNCHANGED <<call, pools, conns, syQ, langQ, buf, lid, rep, fcall, hangup, heard, tools>>

\* A verdict every gate lets through.  A reply in flight is truncated first,
\* unless a function call is running: then the switch goes on beside it.
\* The gate stays closed until the truncation has invalidated its reply.
Accept(t, label) ==
  /\ pc[t] = "decide" /\ call.flow = "judge" /\ ~hangup
  /\ label \in TrLabels \cap SyLabels /\ label # language
  /\ LET alone == ~fcall /\ InFlight # {} IN
     /\ job' = [job EXCEPT ![t].target = label, ![t].held = gate.seq,
                           ![t].kind = IF fcall THEN "parallel" ELSE @]
     /\ IF alone
        THEN /\ Go(t, IF \E s \in InFlight : rep[s] = "playing" THEN "cutAudible" ELSE "cut")
             /\ UNCHANGED <<trQ, gate>>
        ELSE Enter(t) /\ gate' = NoGate
  /\ UNCHANGED <<call, pools, conns, syQ, langQ, buf, lid, rep, fcall, hangup, heard, tools>>

\* cleanup_downstream_tasks returns: every reply in flight is invalid.
Truncate(t) ==
  /\ pc[t] \in {"cut", "cutAudible"}
  /\ rep' = Truncated /\ gate' = NoGate
  /\ IF pc[t] = "cutAudible" THEN Go(t, "gap") /\ UNCHANGED trQ ELSE Enter(t)
  /\ UNCHANGED <<call, pools, conns, syQ, langQ, job, buf, lid, fcall, hangup, heard, tools>>

\* The silence between the two voices is over.
GapOver(t) ==
  /\ pc[t] = "gap"
  /\ IF hangup \/ job[t].target = language
     THEN Leave(t) /\ UNCHANGED trQ
     ELSE Enter(t) /\ UNCHANGED <<langQ, job>>
  /\ gate' = IF hangup THEN Decided(t) ELSE NoGate
  /\ UNCHANGED <<call, pools, conns, syQ, buf, lid, rep, fcall, hangup, heard, tools>>

\* The handoff line and the speculative reply have been awaited: the
\* speculation is spoken (on the sequence id that is always valid), or a
\* follow-up is prepared and generated after the lock is released.
Speak(t) ==
  /\ pc[t] = "speak"
  /\ \/ Return(t)
     \/ ~hangup /\ Go(t, "follow") /\ langQ' = Tail(langQ) /\ UNCHANGED <<job, gate>>
  /\ UNCHANGED <<call, pools, conns, trQ, syQ, buf, lid, rep, fcall, hangup, heard, tools>>

\* generate_switch_followup: a fresh sequence id, revalidated.
Follow(t) ==
  /\ pc[t] = "follow" /\ Return(t)
  /\ rep' = IF Unheard = {} THEN rep ELSE [rep EXCEPT ![NextSeq] = "pending"]
  /\ UNCHANGED <<call, pools, conns, trQ, syQ, buf, lid, fcall, hangup, heard, tools>>

------------------------------------------------------------------------------
(* The switch_language tool and the legacy heuristic *)

\* The main LLM calls the tool with one of the labels of either pool; it
\* first waits for the current message to play out.
ToolCall(t, label) ==
  /\ call.flow \in {"dead", "legacy"} /\ listener # "done" /\ ~hangup
  /\ tools < call.tools /\ tools' = tools + 1
  /\ Fresh(t) /\ label \in Labels \ {language}
  /\ Go(t, "wait")
  /\ job' = [job EXCEPT ![t] = [NoJob EXCEPT !.kind = "tool", !.spawned = language,
                                             !.target = label]]
  /\ UNCHANGED <<call, pools, conns, trQ, syQ, langQ, buf, lid, audio, hangup, heard>>

\* Only the flow with a judge serializes the tool with the decisions.
ToolReady(t) ==
  /\ pc[t] = "wait"
  /\ IF Judged
     THEN Go(t, "lock") /\ langQ' = Append(langQ, t) /\ UNCHANGED trQ
     ELSE Enter(t) /\ UNCHANGED langQ
  /\ UNCHANGED <<call, pools, conns, syQ, job, buf, lid, audio, hangup, heard, tools>>

ToolLocked(t) ==
  /\ pc[t] = "lock" /\ Holds(langQ, t) /\ job[t].kind = "tool"
  /\ IF job[t].target = language
     THEN Leave(t) /\ UNCHANGED trQ
     ELSE Enter(t) /\ UNCHANGED <<langQ, job>>
  /\ UNCHANGED <<call, pools, conns, syQ, buf, lid, audio, hangup, heard, tools>>

\* _handle_lid_signal, a confident detection of a supported language: the
\* active language clears the debounce; during the cooldown nothing counts;
\* otherwise the detections are counted and the last one calls
\* switch_language, without a look at the session's language (in shadow mode
\* it only starts the cooldown).
LidSignal(t, label) ==
  /\ call.flow = "legacy" /\ listener # "done" /\ label \in TrLabels
  /\ Fresh(t)
  /\ LET count == IF label = lid.lang THEN lid.count + 1 ELSE 1 IN
     \/ /\ label = trActive /\ lid.count > 0
        /\ lid' = [lid EXCEPT !.lang = Other, !.count = 0]
        /\ UNCHANGED <<pc, job, trQ>>
     \/ /\ label # trActive /\ ~lid.cooling /\ count < Debounce
        /\ lid' = [lid EXCEPT !.lang = label, !.count = count]
        /\ UNCHANGED <<pc, job, trQ>>
     \/ /\ label # trActive /\ ~lid.cooling /\ count >= Debounce
        /\ lid' = [lang |-> Other, count |-> 0, cooling |-> TRUE]
        /\ IF call.mode = "shadow"
           THEN UNCHANGED <<pc, job, trQ>>
           ELSE /\ job' = [job EXCEPT ![t] = [NoJob EXCEPT !.kind = "lid", !.spawned = language,
                                                           !.target = label]]
                /\ Enter(t)
  /\ UNCHANGED <<call, pools, conns, syQ, langQ, buf, audio, hangup, heard, tools>>

CooldownOver ==
  /\ lid.cooling /\ lid' = [lid EXCEPT !.cooling = FALSE]
  /\ UNCHANGED <<call, pools, conns, trQ, syQ, langQ, pc, job, buf, audio, hangup, heard, tools>>

------------------------------------------------------------------------------
(* Connections and the listener *)

\* The carrier's stop event puts the end-of-stream packet on the shared queue
\* and the router hands it to the transcriber that is active at that moment.
Eos ==
  /\ ~callEnded /\ listener # "done"
  /\ callEnded' = TRUE /\ eosQ' = eosQ \cup {trActive}
  /\ UNCHANGED <<call, pools, up, notices, reconnects, listener, drops, trQ, syQ, langQ,
                 pc, job, buf, lid, audio, hangup, heard, tools>>

\* A transcriber reads the packet, closes its socket and says so.
TranscriberEos(l) ==
  /\ l \in eosQ \cap up
  /\ eosQ' = eosQ \ {l} /\ up' = up \ {l} /\ notices' = notices + 1
  /\ UNCHANGED <<call, pools, callEnded, reconnects, listener, drops, trQ, syQ, langQ,
                 pc, job, buf, lid, audio, hangup, heard, tools>>

\* A provider drops a connection, active or standby.
Drop(l) ==
  /\ l \in up /\ drops < call.drops
  /\ up' = up \ {l} /\ notices' = notices + 1 /\ drops' = drops + 1
  /\ UNCHANGED <<call, pools, eosQ, callEnded, reconnects, listener, trQ, syQ, langQ,
                 pc, job, buf, lid, audio, hangup, heard, tools>>

\* The listener reads a transcriber_connection_closed message, which does not
\* say which transcriber it is about.
ListenerClosed ==
  /\ listener = "run" /\ notices > 0 /\ notices' = notices - 1
  /\ IF trActive \in up
     THEN UNCHANGED <<listener, trQ>>                    \* a standby closed
     ELSE IF hangup
          THEN listener' = "done" /\ UNCHANGED trQ
          ELSE listener' = "lock" /\ trQ' = Append(trQ, Listener)
  /\ UNCHANGED <<call, pools, up, eosQ, callEnded, reconnects, drops, syQ, langQ,
                 pc, job, buf, lid, audio, hangup, heard, tools>>

\* Mutant: the reconnect cap is off by one.
ListenerLockedOnceMore ==
  /\ listener = "lock" /\ Holds(trQ, Listener)
  /\ IF callEnded \/ reconnects > MaxReconnects
     THEN listener' = "done" /\ trQ' = Tail(trQ)
     ELSE listener' = "reconn" /\ UNCHANGED trQ
  /\ UNCHANGED <<call, pools, up, eosQ, callEnded, notices, reconnects, drops, syQ, langQ,
                 pc, job, buf, lid, audio, hangup, heard, tools>>

\* reconnect_active under the lock, up to the run() it awaits.
ListenerLocked ==
  /\ listener = "lock" /\ Holds(trQ, Listener)
  /\ IF callEnded \/ reconnects >= MaxReconnects
     THEN listener' = "done" /\ trQ' = Tail(trQ)
     ELSE listener' = "reconn" /\ UNCHANGED trQ
  /\ UNCHANGED <<call, pools, up, eosQ, callEnded, notices, reconnects, drops, syQ, langQ,
                 pc, job, buf, lid, audio, hangup, heard, tools>>

ListenerReconnected ==
  /\ listener = "reconn" /\ listener' = "run" /\ trQ' = Tail(trQ)
  /\ reconnects' = reconnects + 1
  /\ \/ up' = up \cup {trActive} /\ notices' = notices /\ drops' = drops
     \/ drops < call.drops /\ up' = up /\ notices' = notices + 1 /\ drops' = drops + 1
  /\ UNCHANGED <<call, pools, eosQ, callEnded, syQ, langQ, pc, job, buf, lid, audio, hangup, heard, tools>>

------------------------------------------------------------------------------
(* The output loop and the rest of the session *)

\* The output loop polls the gate and sends the reply when it does not hold.
Play(s) ==
  /\ rep[s] = "pending" /\ ~GateHolds(s)
  /\ rep' = [rep EXCEPT ![s] = "playing"]
  /\ gate' = IF gate.seq = s THEN NoGate ELSE gate
  /\ UNCHANGED <<call, pools, conns, trQ, syQ, langQ, pc, job, buf, lid, fcall, hangup, heard, tools>>

PlayedOut(s) ==
  /\ rep[s] = "playing" /\ rep' = [rep EXCEPT ![s] = "over"]
  /\ UNCHANGED <<call, pools, conns, trQ, syQ, langQ, pc, job, buf, lid, gate, fcall, hangup, heard, tools>>

\* The wall-clock backstop of the gate.
GateExpires ==
  /\ gate.seq # 0 /\ ~gate.expired /\ gate' = [gate EXCEPT !.expired = TRUE]
  /\ UNCHANGED <<call, pools, conns, trQ, syQ, langQ, pc, job, buf, lid, rep, fcall, hangup, heard, tools>>

\* The unbiased detector recognizes a segment.
Hear(l) ==
  /\ Judged /\ listener # "done" /\ heard < call.segments
  /\ buf' = buf \cup {l} /\ heard' = heard + 1
  /\ UNCHANGED <<call, pools, conns, trQ, syQ, langQ, pc, job, lid, audio, hangup, tools>>

\* A tool other than switch_language starts or ends.
FunctionCall ==
  /\ call.flow = "judge" /\ fcall' = ~fcall
  /\ UNCHANGED <<call, pools, conns, trQ, syQ, langQ, pc, job, buf, lid, gate, rep, hangup, heard, tools>>

\* A hangup, end_call or transfer begins.
Hangup ==
  /\ ~hangup /\ hangup' = TRUE
  /\ UNCHANGED <<call, pools, conns, trQ, syQ, langQ, pc, job, buf, lid, audio, heard, tools>>

------------------------------------------------------------------------------

\* One step of a task that is past its start.
TaskStep(t) ==
  \/ TrSwitch(t) \/ TrReconnected(t) \/ SySwitch(t) \/ SyCancelled(t)
  \/ BeginDecision(t) \/ Drain(t) \/ Stay(t) \/ Truncate(t) \/ GapOver(t)
  \/ Speak(t) \/ Follow(t) \/ ToolReady(t) \/ ToolLocked(t)

ListenerStep == ListenerClosed \/ ListenerLocked \/ ListenerReconnected

Next ==
  \/ \E t \in Tasks : TaskStep(t) \/ \E l \in TrLabels : Accept(t, l)
  \/ \E t \in Tasks : Turn(t) \/ WatcherFires(t) \/ \E l \in Labels : ToolCall(t, l) \/ LidSignal(t, l)
  \/ CooldownOver
  \/ Eos \/ \E l \in TrLabels : TranscriberEos(l) \/ Drop(l)
  \/ ListenerStep
  \/ \E s \in 1..MaxSeq : Play(s) \/ PlayedOut(s)
  \/ GateExpires \/ FunctionCall \/ Hangup
  \/ \E l \in Tags : Hear(l)

\* The event loop runs every ready task, sockets answer or time out, and
\* timers fire.  What callers, providers and models start is not assumed.
Fairness ==
  /\ \A t \in Tasks : WF_vars(TaskStep(t))
  /\ WF_vars(ListenerStep) /\ WF_vars(\E t \in Tasks : WatcherFires(t)) /\ WF_vars(GateExpires)
  /\ \A l \in TrLabels : WF_vars(TranscriberEos(l))
  /\ \A s \in 1..MaxSeq : WF_vars(Play(s) \/ PlayedOut(s))

Spec == Init /\ [][Next]_vars /\ Fairness

------------------------------------------------------------------------------
(* Properties *)

\* Ears and mouth: whenever no task is between the two pools, voice and session
\* are on the same language, and so is the recognizer, unless it was sent to a
\* language that has no voice; the judge never sends it there (the serial order
\* in switch_language, the two locks and the judge's check of the voice pool;
\* concurrent switches included).
PoolsAgree ==
  syQ = <<>> =>
    /\ syActive = language
    /\ trActive # language => trActive \notin SyLabels /\ call.flow # "judge"

\* What TranscriberPool says of the heuristic's switch: recognizer and voice
\* flip together, none without the other (_handle_lid_signal, "atomically").
FlipsTogether == syQ = <<>> => trActive = syActive

\* A call is never deaf without knowing: while the listener runs and the
\* active transcriber is down, a close message is still to be read or a
\* reconnect is under way (switch() reconnects a standby that dropped).
DeafIsNoticed ==
  listener = "run" /\ ~callEnded /\ trActive \notin up => notices > 0

\* Nobody waits in a circle.  Going from a waiting task (or the listener) to
\* the one that has the lock it asks for, and once more from there, ends at
\* one that asks for no lock in use: locks are taken in the order session,
\* transcriber pool, voice pool, each pool's is given back before the next
\* pool's is asked for, and none is left behind by a task that returned.
At(x) == IF x # Listener THEN pc[x]
         ELSE IF listener = "lock" THEN "tr"
         ELSE IF listener = "reconn" THEN "reconn" ELSE "free"
Ahead(x) == CASE At(x) = "lock" -> Head(langQ) [] At(x) = "tr" -> Head(trQ)
              [] At(x) = "sy" -> Head(syQ)     [] OTHER -> x
NoLockCycle ==
  \A x \in Tasks \cup {Listener} : At(x) # "free" =>
    LET last == Ahead(Ahead(x)) IN At(last) # "free" /\ Ahead(last) = last

\* A switch is decided on the evidence of the language it leaves: when the
\* judge's decision moves the session, nothing else has moved it since the
\* turn was captured (the stale-decision guard and language_switch_lock).
AppliedOnOwnEvidence ==
  [][\A t \in Tasks :
       (pc[t] \in {"sy", "cancel"} /\ pc'[t] = "speak") => job[t].spawned = language]_vars

\* A gated reply stays silent while the switch that was decided against it
\* truncates it: it can be played only if the hold expired or the call ends.
HeldUntilInvalid ==
  [][\A t \in Tasks, s \in 1..MaxSeq :
       (pc[t] \in {"cut", "cutAudible"} /\ job[t].held = s
          /\ rep[s] = "pending" /\ rep'[s] = "playing")
       => gate.expired \/ hangup]_vars

\* The gate never wedges the output loop: a reply that waits for it is
\* played or truncated in the end.
ReplyResolved ==
  \A s \in 1..MaxSeq : (rep[s] = "pending") ~> (rep[s] # "pending")

\* The stuck-language deadlock is broken: speech in another language that no
\* turn drained is put to a decision, unless the call is ending.
StuckLanguageRecovers ==
  (Foreign # {}) ~> (Foreign = {} \/ hangup \/ listener = "done")
=============================================================================
