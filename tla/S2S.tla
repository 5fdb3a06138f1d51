-------------------------------- MODULE S2S --------------------------------
(***************************************************************************)
(* A speech-to-speech call (session/s2s_runner.py): one realtime model     *)
(* session replaces transcriber, LLM and synthesizer.  Modelled are the    *)
(* run loop, the reader of provider events, the ingest loop, the pacer and *)
(* the output loop, the tool tasks, typed input, the watchdog's goodbye    *)
(* and the hangup that follows it, over the two providers of s2s/providers *)
(* ("openai" and "gemini").                                                *)
(*                                                                         *)
(* The provider itself is external: it owns `active`, the response it is   *)
(* generating, and writes events to `wire`, which the reader consumes in   *)
(* order.  An action runs from one suspension point of a task to the next. *)
(***************************************************************************)
EXTENDS Naturals, Sequences

CONSTANTS Calls,        \* tool calls the model can make
          Kind,         \* what each of them is: "end", "api" or "transfer"
          Scenarios,    \* the calls that the instance explores
          MaxAttempts,  \* MAX_RECONNECT_ATTEMPTS
          MaxWire       \* bound: provider events in flight

ASSUME CallsAssumption == Kind \in [Calls -> {"end", "api", "transfer"}]
ASSUME BoundsAssumption ==
  MaxAttempts \in Nat /\ MaxWire \in Nat
\* A scenario fixes provider, leg and greeting, the tool calls the model may make and the
\* audio deltas of a response; and how often the provider's turn detection
\* starts a reply, the caller speaks up, types or leaves, the connection
\* drops and the watchdog gives up.
Limits == [replies : Nat, speech : Nat, typed : Nat, drops : Nat, leaves : Nat, silences : Nat]
ASSUME ScenariosAssumption ==
  Scenarios \subseteq [provider : {"openai", "gemini"}, carrier : BOOLEAN, greets : BOOLEAN,
                       calls : SUBSET Calls, audio : Nat, may : Limits]

VARIABLES
  call,      \* the scenario
  run,       \* where _run_s2s_conversation is
  ended,     \* conversation_ended
  hangup,    \* _hangup_processing and hangup_triggered
  closing,   \* the task that is inside process_end_of_conversation
  armed,     \* _s2s_hangup_after_response
  timers,    \* _s2s_hangup_if_goodbye_never_comes tasks that sleep
  watch,     \* the watchdog: on, goodbye (in trigger_response), off or crashed
  ingest,    \* _s2s_audio_ingest_loop is running
  transfer,  \* has_transfer
  posts,     \* transfer webhooks sent
  sock,      \* the provider's socket: open, dead (closed, not noticed) or none
  active,    \* the response the provider is generating, 0 for none
  purpose,   \* what each response was created for, in order of creation
  said,      \* audio deltas of the active response
  wire,      \* events the provider sent and the reader has not read
  ready,     \* _response_done_event (OpenAI)
  reader,    \* where _s2s_event_loop is suspended
  cur,       \* the response whose audio the reader handled last
  attempts,  \* reconnects without traffic in between
  buf,       \* _s2s_pacer_buf, as the responses its pieces belong to
  outQ,      \* buffered_output_queue
  tool,      \* where each tool task is suspended
  revoked,   \* calls the provider cancelled and the reader was told about
  typed,     \* the typed-chat or keypad turn waits for the provider
  late,      \* a response was asked for while a turn was active or its end not yet read
  cut,       \* the last response that a barge-in silenced
  left       \* what remains of the scenario's bounds

session == <<call, run, ended, hangup, closing, armed, timers, watch>>
caller  == <<ingest, transfer, posts, typed>>
server  == <<sock, active, purpose, said, wire, late>>
reading == <<ready, reader, cur, attempts>>
output  == <<buf, outQ, cut>>
tools   == <<tool, revoked>>
vars == <<session, caller, server, reading, output, tools, left>>

Purposes == {"reply", "welcome", "filler", "answer", "goodbye"}
Event(e, r) == [e |-> e, r |-> r]
ToolEvent(e, c) == [e |-> e, c |-> c]
ProviderEvents ==
  [e : {"created", "audio", "done", "speech", "rejected", "fatal", "closed"}, r : Nat]
    \cup [e : {"call", "revoke"}, c : Calls]
OutPackets == [k : {"audio", "end"}, r : Nat]
OpenAI == call.provider = "openai"

TypeOK ==
  /\ call \in Scenarios /\ run \in {"connect", "greet", "live", "done"}
  /\ ended \in BOOLEAN /\ hangup \in BOOLEAN /\ armed \in BOOLEAN /\ ingest \in BOOLEAN
  /\ closing \in {"nobody", "reader", "timer", "watch"}
  /\ timers \in Nat /\ watch \in {"on", "goodbye", "off", "crashed"}
  /\ transfer \in BOOLEAN /\ posts \in Nat /\ late \in BOOLEAN
  /\ sock \in {"open", "dead", "none"} /\ active \in 0..Len(purpose)
  /\ purpose \in Seq(Purposes) /\ said \in 0..call.audio
  /\ wire \in Seq(ProviderEvents) /\ ready \in BOOLEAN
  /\ reader \in {"read", "encode", "clear", "finish", "sleep", "reconnect", "out"}
  /\ cur \in 0..Len(purpose) /\ cut \in 0..Len(purpose) /\ attempts \in 0..MaxAttempts
  /\ buf \in Seq(Nat) /\ outQ \in Seq(OutPackets)
  /\ tool \in [Calls -> {"none", "start", "fill", "call", "commit", "sent", "over"}]
  /\ revoked \subseteq Calls /\ typed \in BOOLEAN
  /\ left \in Limits

Init ==
  /\ call \in Scenarios /\ run = "connect"
  /\ ended = FALSE /\ hangup = FALSE /\ closing = "nobody" /\ armed = FALSE /\ timers = 0
  /\ watch = "off" /\ ingest = FALSE /\ transfer = FALSE /\ posts = 0
  /\ sock = "none" /\ active = 0 /\ purpose = <<>> /\ said = 0 /\ wire = <<>> /\ late = FALSE
  /\ ready = TRUE /\ reader = "out" /\ cur = 0 /\ attempts = 0
  /\ buf = <<>> /\ outQ = <<>> /\ cut = 0
  /\ tool = [c \in Calls |-> "none"] /\ revoked = {} /\ typed = FALSE
  /\ left = call.may

------------------------------------------------------------------------------
(* The provider: what it generates and sends *)

\* A new response begins; OpenAI announces it.
Begin(p, before) ==
  /\ purpose' = Append(purpose, p) /\ active' = Len(purpose) + 1 /\ said' = 0
  /\ wire' = before \o (IF OpenAI THEN <<Event("created", Len(purpose) + 1)>> ELSE <<>>)

\* An event of this kind is on its way to the reader.
Unread(e) == \E i \in DOMAIN wire : wire[i].e = e

\* A client message that asks for a response, on an open socket, after
\* _wait_for_response_done: Gemini never waits, OpenAI's wait may time out.
\* OpenAI rejects the message while a response is active.  Gemini breaks off what it is
\* saying, except that a tool response lets the turn that called it go on.
Create(p) ==
  /\ sock = "open"
  /\ IF active = 0 THEN Begin(p, wire)
     ELSE IF OpenAI
          THEN wire' = Append(wire, Event("rejected", 0)) /\ UNCHANGED <<active, purpose, said>>
     ELSE IF p \in {"answer", "goodbye"}
          THEN purpose' = [purpose EXCEPT ![active] = p] /\ UNCHANGED <<active, said, wire>>
     ELSE Begin(p, Append(wire, Event("speech", 0)))
  /\ late' = (late \/ (OpenAI /\ (~ready \/ active # 0 \/ Unread("done"))))
  /\ UNCHANGED sock

\* _send: a missing socket swallows the message, a closed one raises.
Swallowed == sock = "none" /\ UNCHANGED server
Raises == sock = "dead" /\ UNCHANGED server

\* What it sends once the call has ended is never handled.
Talking == sock = "open" /\ Len(wire) < MaxWire /\ ~ended

\* One of the scenario's x less.
Spend(x) == left[x] > 0 /\ left' = [left EXCEPT ![x] = @ - 1]

ProviderReply ==
  /\ Talking /\ active = 0 /\ Spend("replies")
  /\ Begin("reply", wire)
  /\ UNCHANGED <<session, caller, sock, late, reading, output, tools>>

ProviderAudio ==
  /\ Talking /\ active # 0 /\ said < call.audio /\ said' = said + 1
  /\ wire' = Append(wire, Event("audio", active))
  /\ UNCHANGED <<session, caller, sock, active, purpose, late, reading, output, tools, left>>

ProviderDone ==
  /\ Talking /\ active # 0
  /\ wire' = Append(wire, Event("done", active)) /\ active' = 0
  /\ UNCHANGED <<session, caller, sock, purpose, said, late, reading, output, tools, left>>

\* The caller speaks up.  Both providers stop generating; Gemini reports it
\* only when it was generating, and never completes the turn.
CallerSpeaks ==
  /\ Talking /\ Spend("speech")
  /\ (OpenAI \/ active # 0)
  /\ wire' = wire \o <<Event("speech", 0)>>
                  \o (IF OpenAI /\ active # 0 THEN <<Event("done", active)>> ELSE <<>>)
  /\ active' = 0
  /\ UNCHANGED <<session, caller, sock, purpose, said, late, reading, output, tools>>

ProviderCalls(c) ==
  /\ Talking /\ active # 0 /\ c \in call.calls /\ tool[c] = "none"
  /\ ~\E i \in DOMAIN wire : wire[i] = ToolEvent("call", c)
  /\ wire' = Append(wire, ToolEvent("call", c))
  /\ UNCHANGED <<session, caller, sock, active, purpose, said, late, reading, output, tools, left>>

\* Gemini withdraws a call it made.
ProviderRevokes(c) ==
  /\ Talking /\ ~OpenAI /\ tool[c] \notin {"none", "over"} /\ c \notin revoked
  /\ ~\E i \in DOMAIN wire : wire[i] = ToolEvent("revoke", c)
  /\ wire' = Append(wire, ToolEvent("revoke", c))
  /\ UNCHANGED <<session, caller, sock, active, purpose, said, late, reading, output, tools, left>>

\* The connection closes, or the provider reports an error it cannot recover.
ProviderFails ==
  /\ Talking /\ Spend("drops")
  /\ active' = 0
  /\ \/ sock' = "dead" /\ wire' = Append(wire, Event("closed", 0))
     \/ sock' = sock /\ wire' = Append(wire, Event("fatal", 0))
  /\ UNCHANGED <<session, caller, purpose, said, late, reading, output, tools>>

------------------------------------------------------------------------------
(* _run_s2s_conversation *)

Connect ==
  /\ run = "connect"
  /\ \/ run' = "greet" /\ sock' = "open"
     \/ run' = "done" /\ UNCHANGED sock                    \* connect() raised
  /\ UNCHANGED <<call, ended, hangup, closing, armed, timers, watch, caller, active, purpose,
                 said, wire, late, reading, output, tools, left>>

\* The greeting is asked for once the carrier's stream id is there, or left
\* out; then the loops start.  Asking raises when the socket closed meanwhile.
Greet ==
  /\ run = "greet"
  /\ \/ call.greets /\ Create("welcome") /\ run' = "live"
     \/ ~call.greets /\ UNCHANGED server /\ run' = "live"
     \/ call.greets /\ Raises /\ run' = "done"
  /\ IF run' = "live"
     THEN reader' = "read" /\ ingest' = TRUE /\ watch' = "on"
     ELSE UNCHANGED <<reader, ingest, watch>>
  /\ UNCHANGED <<call, ended, hangup, closing, armed, timers, transfer, posts, typed,
                 ready, cur, attempts, output, tools, left>>

\* Mutant: the run loop waits for both of its loops.
CloseWhenBothStop ==
  /\ run = "live" /\ reader = "out" /\ ~ingest
  /\ run' = "done" /\ ended' = TRUE
  /\ reader' = "out" /\ ingest' = FALSE /\ sock' = "none" /\ timers' = 0 /\ typed' = FALSE
  /\ tool' = [c \in Calls |-> IF tool[c] = "none" THEN "none" ELSE "over"]
  /\ closing' = IF closing \in {"reader", "timer"} THEN "nobody" ELSE closing
  /\ UNCHANGED <<call, hangup, armed, watch, transfer, posts, active, purpose, said, wire,
                 late, ready, cur, attempts, output, revoked, left>>

\* Either loop finishing ends the call: the finally block publishes the end
\* and cancels the loops and every tracked task, a hangup inside them too.
Close ==
  /\ run = "live" /\ (reader = "out" \/ ~ingest)
  /\ run' = "done" /\ ended' = TRUE
  /\ reader' = "out" /\ ingest' = FALSE /\ sock' = "none" /\ timers' = 0 /\ typed' = FALSE
  /\ tool' = [c \in Calls |-> IF tool[c] = "none" THEN "none" ELSE "over"]
  /\ closing' = IF closing \in {"reader", "timer"} THEN "nobody" ELSE closing
  /\ UNCHANGED <<call, hangup, armed, watch, transfer, posts, active, purpose, said, wire,
                 late, ready, cur, attempts, output, revoked, left>>

------------------------------------------------------------------------------
(* Ingest: caller audio to the model *)

\* The end-of-stream packet of a caller who hung up.
IngestEos ==
  /\ ingest /\ ~ended /\ Spend("leaves") /\ ended' = TRUE /\ ingest' = FALSE
  /\ UNCHANGED <<call, run, hangup, closing, armed, timers, watch, transfer, posts, typed,
                 server, reading, output, tools>>

\* Audio that is not ignored meets a closed socket: send_audio raises and the
\* call ends.  Gemini drops audio while it resumes.  (Within the welcome gate
\* audio is dropped; the gate is a time window, so it only delays this.)
IngestFails ==
  /\ ingest /\ sock = "dead" /\ ~transfer /\ ~hangup
  /\ (OpenAI \/ reader # "reconnect")
  /\ ended' = TRUE /\ ingest' = FALSE
  /\ UNCHANGED <<call, run, hangup, closing, armed, timers, watch, transfer, posts, typed,
                 server, reading, output, tools, left>>

\* The queue read times out every second to see whether the call ended.
IngestStops ==
  /\ ingest /\ ended /\ ingest' = FALSE
  /\ UNCHANGED <<session, transfer, posts, typed, server, reading, output, tools, left>>

------------------------------------------------------------------------------
(* The hangup *)

\* Mutant: no _hangup_processing guard.
HangUpAgain(w) ==
  /\ hangup' = TRUE
  /\ closing' = IF ended THEN closing ELSE w

\* process_end_of_conversation by task w, unless it runs or ran already.
Claims(w) == IF ended \/ closing # "nobody" THEN closing ELSE w

\* process_call_hangup by task w: once, and not when the call has ended.
HangUp(w) ==
  /\ hangup' = TRUE
  /\ closing' = IF hangup THEN closing ELSE Claims(w)

\* The wait for the current message is over.
Teardown ==
  /\ closing # "nobody"
  /\ ended' = TRUE /\ closing' = "nobody"
  /\ UNCHANGED <<call, run, hangup, armed, timers, watch, caller, server, reading, output, tools, left>>

\* _s2s_hangup_if_goodbye_never_comes wakes up.
TimerFires ==
  /\ timers > 0 /\ timers' = timers - 1
  /\ IF armed /\ ~ended
     THEN armed' = FALSE /\ HangUp("timer")
     ELSE UNCHANGED <<armed, hangup, closing>>
  /\ UNCHANGED <<call, run, ended, watch, caller, server, reading, output, tools, left>>

\* The watchdog gives up: _hangup_after_goodbye on a silent call, or on a phone
\* call that is too long even though a hangup is under way.  Without a
\* configured message it hangs up at once.
WatchdogHangsUp ==
  /\ watch = "on" /\ run = "live" /\ (call.carrier \/ ~hangup) /\ Spend("silences")
  /\ \/ armed' = TRUE /\ watch' = "goodbye" /\ UNCHANGED <<hangup, closing>>
     \/ armed' = armed /\ watch' = "off" /\ HangUp("watch")
  /\ UNCHANGED <<call, run, ended, timers, caller, server, reading, output, tools>>

\* A web call that is too long is torn down without a goodbye.
WatchdogEndsWebCall ==
  /\ watch = "on" /\ run = "live" /\ ~call.carrier /\ Spend("silences")
  /\ watch' = "off" /\ closing' = Claims("watch")
  /\ UNCHANGED <<call, run, ended, hangup, armed, timers, caller, server, reading, output, tools>>

\* It asks a silent caller "are you still there".  When the socket is closed
\* asking raises, and nobody watches the call any more.
WatchdogChecks ==
  /\ watch = "on" /\ run = "live" /\ Spend("silences")
  /\ \/ (Create("filler") \/ Swallowed) /\ UNCHANGED watch
     \/ Raises /\ watch' = "off"
  /\ UNCHANGED <<call, run, ended, hangup, closing, armed, timers, caller, reading, output, tools>>

\* The goodbye's trigger_response returns and the timer starts, or it raises and takes
\* the watchdog with it.
WatchdogAsked ==
  /\ watch = "goodbye"
  /\ \/ (Create("goodbye") \/ Swallowed) /\ watch' = "off" /\ timers' = timers + 1
     \/ Raises /\ watch' = "crashed" /\ UNCHANGED timers
  /\ UNCHANGED <<call, run, ended, hangup, closing, armed, caller, reading, output, tools, left>>

------------------------------------------------------------------------------
(* The reader: _s2s_event_loop over receive_events *)

Pop == wire' = Tail(wire)
Reads(e) == reader = "read" /\ wire # <<>> /\ Head(wire).e = e /\ ~ended
Traffic == attempts' = 0

\* A loop that sees the end of the call breaks at the next event.
ReadAfterEnd ==
  /\ reader = "read" /\ wire # <<>> /\ ended /\ reader' = "out"
  /\ UNCHANGED <<session, caller, server, ready, cur, attempts, output, tools, left>>

\* response.created is not handed on, so it does not count as traffic.
ReadCreated ==
  /\ Reads("created") /\ Pop /\ ready' = FALSE
  /\ UNCHANGED <<session, caller, sock, active, purpose, said, late, reader, cur, attempts, output,
                 tools, left>>

\* A rejected request frees the turn.
ReadRejected ==
  /\ Reads("rejected") /\ Pop /\ Traffic /\ ready' = TRUE
  /\ UNCHANGED <<session, caller, sock, active, purpose, said, late, reader, cur, output, tools, left>>

\* AudioDelta: encoded on a thread, then paced (carrier) or queued (browser).
ReadAudio ==
  /\ Reads("audio") /\ Pop /\ Traffic /\ reader' = "encode" /\ cur' = Head(wire).r
  /\ UNCHANGED <<session, caller, sock, active, purpose, said, late, ready, output, tools, left>>

Encoded ==
  /\ reader = "encode" /\ reader' = "read"
  /\ IF call.carrier
     THEN buf' = Append(buf, cur) /\ UNCHANGED outQ
     ELSE outQ' = Append(outQ, [k |-> "audio", r |-> cur]) /\ UNCHANGED buf
  /\ UNCHANGED <<session, caller, server, ready, cur, attempts, cut, tools, left>>

\* Everything that was paced, as packets.
Packets(pieces) == [i \in DOMAIN pieces |-> [k |-> "audio", r |-> pieces[i]]]

\* Mutant: the remainder is left to the pacer.
ReadDoneUnflushed ==
  /\ Reads("done") /\ Pop /\ Traffic /\ ready' = TRUE
  /\ outQ' = Append(outQ, [k |-> "end", r |-> Head(wire).r]) /\ buf' = buf
  /\ IF armed
     THEN armed' = FALSE /\ HangUp("reader") /\ reader' = IF closing' = "reader" THEN "finish" ELSE "read"
     ELSE UNCHANGED <<armed, hangup, closing, reader>>
  /\ UNCHANGED <<call, run, ended, timers, watch, caller, sock, active, purpose, said, late, cur,
                 cut, tools, left>>

\* ResponseDone: the paced remainder first, then the end of the stream; an
\* armed hangup happens now.
ReadDone ==
  /\ Reads("done") /\ Pop /\ Traffic /\ ready' = TRUE
  /\ outQ' = outQ \o Packets(buf) \o <<[k |-> "end", r |-> Head(wire).r]>> /\ buf' = <<>>
  /\ IF armed
     THEN armed' = FALSE /\ HangUp("reader") /\ reader' = IF closing' = "reader" THEN "finish" ELSE "read"
     ELSE UNCHANGED <<armed, hangup, closing, reader>>
  /\ UNCHANGED <<call, run, ended, timers, watch, caller, sock, active, purpose, said, late, cur,
                 cut, tools, left>>

\* process_call_hangup returned to the reader.
Finished ==
  /\ reader = "finish" /\ closing # "reader" /\ reader' = "read"
  /\ UNCHANGED <<session, caller, server, ready, cur, attempts, output, tools, left>>

\* _s2s_agent_has_floor estimates what the caller still hears: TRUE at most
\* once audio was handled since the last barge-in.
MayHaveFloor == cur # cut

\* Interrupted: a barge-in only if the agent has the floor, outside the welcome
\* gate.
ReadSpeech ==
  /\ Reads("speech") /\ Pop /\ Traffic
  /\ \/ MayHaveFloor /\ reader' = "clear"
     \/ UNCHANGED reader
  /\ UNCHANGED <<session, caller, sock, active, purpose, said, late, ready, cur, output, tools, left>>

\* Mutant: only the queue is emptied.
ClearedQueueOnly ==
  /\ reader = "clear" /\ reader' = "read"
  /\ outQ' = <<>> /\ buf' = buf /\ cut' = cur
  /\ UNCHANGED <<session, caller, server, ready, cur, attempts, tools, left>>

\* The carrier took the clear; queue and pacer are emptied.
Cleared ==
  /\ reader = "clear" /\ reader' = "read"
  /\ outQ' = <<>> /\ buf' = <<>> /\ cut' = cur
  /\ UNCHANGED <<session, caller, server, ready, cur, attempts, tools, left>>

ReadCall ==
  /\ Reads("call") /\ Pop /\ Traffic
  /\ tool' = [tool EXCEPT ![Head(wire).c] = "start"]
  /\ UNCHANGED <<session, caller, sock, active, purpose, said, late, ready, reader, cur, output,
                 revoked, left>>

\* Mutant: the task goes on.
ReadRevokeOnly ==
  /\ Reads("revoke") /\ Pop /\ Traffic
  /\ tool' = tool /\ revoked' = revoked \cup {Head(wire).c}
  /\ UNCHANGED <<session, caller, sock, active, purpose, said, late, ready, reader, cur, output, left>>

\* FunctionCallCancelled: the task is cancelled wherever it is suspended.
ReadRevoke ==
  /\ Reads("revoke") /\ Pop /\ Traffic
  /\ tool' = [tool EXCEPT ![Head(wire).c] = "over"] /\ revoked' = revoked \cup {Head(wire).c}
  /\ UNCHANGED <<session, caller, sock, active, purpose, said, late, ready, reader, cur, output, left>>

\* A fatal error raises out of the loop.
ReadFatal ==
  /\ Reads("fatal") /\ Pop /\ reader' = "out"
  /\ UNCHANGED <<session, caller, sock, active, purpose, said, late, ready, cur, attempts, output,
                 tools, left>>

\* Mutant: one attempt too many.
ReadClosedOnceMore ==
  /\ Reads("closed") /\ Pop
  /\ \/ /\ attempts <= MaxAttempts /\ attempts' = attempts + 1
        /\ reader' = IF attempts > 0 THEN "sleep" ELSE "reconnect"
     \/ (attempts > MaxAttempts \/ ~OpenAI) /\ reader' = "out" /\ UNCHANGED attempts
  /\ sock' = IF OpenAI /\ reader' = "reconnect" THEN "none" ELSE sock
  /\ UNCHANGED <<session, caller, active, purpose, said, late, ready, cur, output, tools, left>>

\* The connection closed: resume it, after a pause when the last attempt
\* brought no traffic, and give up after MaxAttempts or when Gemini has no
\* resumption handle.
ReadClosed ==
  /\ Reads("closed") /\ Pop
  /\ \/ /\ attempts < MaxAttempts /\ attempts' = attempts + 1
        /\ reader' = IF attempts > 0 THEN "sleep" ELSE "reconnect"
     \/ (attempts = MaxAttempts \/ ~OpenAI) /\ reader' = "out" /\ UNCHANGED attempts
  /\ sock' = IF OpenAI /\ reader' = "reconnect" THEN "none" ELSE sock
  /\ UNCHANGED <<session, caller, active, purpose, said, late, ready, cur, output, tools, left>>

Rested ==
  /\ reader = "sleep" /\ reader' = "reconnect" /\ sock' = IF OpenAI THEN "none" ELSE sock
  /\ UNCHANGED <<session, caller, active, purpose, said, wire, late, ready, cur, attempts, output,
                 tools, left>>

\* The response that was lost leaves _response_done_event as it was.
Reconnected ==
  /\ reader = "reconnect"
  /\ \/ reader' = "read" /\ sock' = "open"
     \/ left.drops > 0 /\ reader' = "out" /\ UNCHANGED sock
  /\ UNCHANGED <<session, caller, active, purpose, said, wire, late, ready, cur, attempts, output,
                 tools, left>>

------------------------------------------------------------------------------
(* Pacer and output loop *)

\* A tick moves full frames once the buffer was primed; a remainder may stay.
PacerTick ==
  /\ run = "live" /\ ~ended /\ buf # <<>>
  /\ \E n \in 1..Len(buf) :
       outQ' = outQ \o Packets(SubSeq(buf, 1, n)) /\ buf' = SubSeq(buf, n + 1, Len(buf))
  /\ UNCHANGED <<session, caller, server, reading, cut, tools, left>>

\* The output loop sends the next packet.
Sent ==
  /\ run = "live" /\ ~ended /\ outQ # <<>> /\ outQ' = Tail(outQ)
  /\ UNCHANGED <<session, caller, server, reading, buf, cut, tools, left>>

------------------------------------------------------------------------------
(* Tool tasks: _s2s_execute_tool *)

Step(c, where) == tool' = [tool EXCEPT ![c] = where]

\* Mutant: has_transfer is set but not looked at.
ToolStartsTransfer(c) ==
  /\ tool[c] = "start"
  /\ \/ Kind[c] = "end" /\ Step(c, "commit") /\ UNCHANGED transfer
     \/ /\ Kind[c] # "end" /\ transfer' = (transfer \/ Kind[c] = "transfer")
        /\ Step(c, "fill") \/ Step(c, "call")
  /\ UNCHANGED <<session, ingest, posts, typed, server, reading, output, revoked, left>>

\* end_call goes straight to its result; a transfer is made once; other
\* tools may speak a filler first.
ToolStarts(c) ==
  /\ tool[c] = "start"
  /\ \/ (Kind[c] = "end" \/ (Kind[c] = "transfer" /\ transfer)) /\ Step(c, "commit")
        /\ UNCHANGED transfer
     \/ /\ Kind[c] = "api" \/ (Kind[c] = "transfer" /\ ~transfer)
        /\ transfer' = (transfer \/ Kind[c] = "transfer")
        /\ Step(c, "fill") \/ Step(c, "call")
  /\ UNCHANGED <<session, ingest, posts, typed, server, reading, output, revoked, left>>

\* The filler is asked for; a closed socket fails the task.
ToolFiller(c) ==
  /\ tool[c] = "fill"
  /\ \/ (Create("filler") \/ Swallowed) /\ Step(c, "call")
     \/ Raises /\ Step(c, "over")
  /\ UNCHANGED <<session, caller, reading, output, revoked, left>>

\* The HTTP request ran.
ToolCalled(c) ==
  /\ tool[c] = "call" /\ Step(c, "commit")
  /\ posts' = IF Kind[c] = "transfer" THEN posts + 1 ELSE posts
  /\ UNCHANGED <<session, ingest, transfer, typed, server, reading, output, revoked, left>>

\* Mutant: the hangup is armed before the commit instead of after it.
ToolCommitsArmed(c) ==
  /\ tool[c] = "commit"
  /\ \/ Kind[c] = "end" /\ ~armed /\ armed' = TRUE /\ UNCHANGED <<server, tool>>
     \/ /\ Kind[c] # "end" \/ armed
        /\ (Create(IF Kind[c] = "end" THEN "goodbye" ELSE "answer") \/ Swallowed) /\ Step(c, "sent")
        /\ UNCHANGED armed
  /\ UNCHANGED <<call, run, ended, hangup, closing, timers, watch, caller, reading, output, revoked,
                 left>>

\* send_function_result and commit_function_results.
ToolCommits(c) ==
  /\ tool[c] = "commit"
  /\ \/ (Create(IF Kind[c] = "end" THEN "goodbye" ELSE "answer") \/ Swallowed) /\ Step(c, "sent")
     \/ Raises /\ Step(c, "over")
  /\ UNCHANGED <<session, caller, reading, output, revoked, left>>

\* Mutant: no timer behind the armed hangup.
ToolEndsUntimed(c) ==
  /\ tool[c] = "sent" /\ Step(c, "over")
  /\ armed' = (armed \/ Kind[c] = "end")
  /\ UNCHANGED <<call, run, ended, hangup, closing, timers, watch, caller, server, reading, output,
                 revoked, left>>

\* The commit returned; end_call arms the hangup.
ToolEnds(c) ==
  /\ tool[c] = "sent" /\ Step(c, "over")
  /\ IF Kind[c] = "end"
     THEN armed' = TRUE /\ timers' = timers + 1
     ELSE UNCHANGED <<armed, timers>>
  /\ UNCHANGED <<call, run, ended, hangup, closing, watch, caller, server, reading, output, revoked,
                 left>>

------------------------------------------------------------------------------
(* Typed chat and keypad digits *)

\* send_text cancels the active response first, and when there is none the
\* provider answers response_cancel_not_active; send_dtmf cancels nothing.
Types ==
  /\ run = "live" /\ ~ended /\ ~typed /\ Spend("typed")
  /\ typed' = TRUE
  /\ \/ /\ Talking /\ OpenAI /\ active # 0
        /\ wire' = Append(wire, Event("done", active)) /\ active' = 0
     \/ /\ Talking /\ OpenAI /\ active = 0
        /\ wire' = Append(wire, Event("rejected", 0)) /\ UNCHANGED active
     \/ UNCHANGED <<wire, active>>
  /\ UNCHANGED <<session, ingest, transfer, posts, sock, purpose, said, late, reading,
                 output, tools>>

\* A failure only drops the turn.
TypedSent ==
  /\ typed /\ typed' = FALSE
  /\ Create("reply") \/ Swallowed \/ Raises
  /\ UNCHANGED <<session, ingest, transfer, posts, reading, output, tools, left>>

------------------------------------------------------------------------------

ReaderStep ==
  \/ ReadAfterEnd \/ ReadCreated \/ ReadRejected \/ ReadAudio \/ Encoded \/ ReadDone \/ Finished
  \/ ReadSpeech \/ Cleared \/ ReadCall \/ ReadRevoke \/ ReadFatal \/ ReadClosed \/ Rested
  \/ Reconnected

ToolStep(c) == ToolStarts(c) \/ ToolFiller(c) \/ ToolCalled(c) \/ ToolCommits(c) \/ ToolEnds(c)

Environment ==
  \/ ProviderReply \/ ProviderAudio \/ ProviderDone \/ CallerSpeaks \/ ProviderFails
  \/ \E c \in Calls : ProviderCalls(c) \/ ProviderRevokes(c)
  \/ IngestEos \/ IngestFails \/ Types
  \/ WatchdogHangsUp \/ WatchdogEndsWebCall \/ WatchdogChecks

Next ==
  \/ Connect \/ Greet \/ Close \/ IngestStops \/ Teardown \/ TimerFires \/ WatchdogAsked
  \/ ReaderStep \/ PacerTick \/ Sent \/ TypedSent
  \/ \E c \in Calls : ToolStep(c)
  \/ Environment

\* Every ready task runs; sockets answer, time out or close; sleeps end.
Fairness ==
  /\ WF_vars(Close) /\ WF_vars(IngestStops) /\ WF_vars(Teardown) /\ WF_vars(TimerFires)
  /\ WF_vars(WatchdogAsked) /\ WF_vars(ReaderStep) /\ \A c \in Calls : WF_vars(ToolStep(c))

Spec == Init /\ [][Next]_vars /\ Fairness

------------------------------------------------------------------------------
(* Properties *)

\* The end-of-stream packet, whose mark tells the hangup that the audio was
\* heard, never overtakes audio of its own response (turn-end flush).
EndIsLast ==
  \A i \in DOMAIN outQ : outQ[i].k = "end" =>
    /\ \A j \in (i + 1)..Len(outQ) : outQ[j].k = "audio" => outQ[j].r # outQ[i].r
    /\ \A j \in DOMAIN buf : buf[j] # outQ[i].r

\* What a barge-in silenced is not played later: neither the queue nor the
\* pacer holds audio of that response or an older one.
BargeInSilences ==
  /\ \A i \in DOMAIN outQ : outQ[i].k = "audio" => outQ[i].r > cut
  /\ \A i \in DOMAIN buf : buf[i] > cut

\* A call is handed over once, however often the model asks for it.
TransferredOnce == posts <= 1

\* A result is never sent for a call the provider has withdrawn.
RevokedNotAnswered ==
  [][\A c \in Calls : (tool[c] = "commit" /\ tool'[c] = "sent") => c \notin revoked]_vars

\* end_call lets the goodbye finish: with OpenAI the turn whose completion
\* hangs up is not one from before the goodbye, as long as every request for a response
\* waited for the turn before it, the connection held and the watchdog had
\* not armed the hangup itself.
GoodbyeFirst ==
  [][(closing # "reader" /\ closing' = "reader" /\ OpenAI /\ ~late
        /\ left.drops = call.may.drops /\ watch = "on")
     => \E r \in 1..Head(wire).r : purpose[r] = "goodbye"]_vars

\* An armed hangup ends the call even if the goodbye never comes, unless the
\* watchdog that armed it died asking for the goodbye.
ArmedCallEnds == armed ~> (ended \/ watch = "crashed")

\* The run loop never outlives the call, even when the provider goes quiet.
EndedCallCloses == (ended /\ run = "live") ~> (run = "done")

\* The session as CallPromise sees it.
Over == ended \/ run = "done"
Deciding == armed \/ hangup \/ closing # "nobody"
Stage == CASE run = "done" -> "over"
           [] run # "done" /\ ended -> "ended"
           [] ~Over /\ Deciding -> "hanging"
           [] ~Over /\ ~Deciding -> "talking"
Promise == INSTANCE CallPromise WITH
  Tasks <- {"reader", "timer", "watch"}, Nobody <- "nobody",
  stage <- Stage, owner <- IF Over THEN "nobody" ELSE closing

\* A speech-to-speech call ends as every call does: one task hangs up, no
\* decided hangup is undone, and the ended call is closed (_hangup_processing,
\* the finally block of _run_s2s_conversation).
EndsAsPromised == Promise!Spec
=============================================================================
