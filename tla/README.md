# A TLA+ development of the voice session

`src/voiceai` is a platform for telephone and web voice agents.  Its own core is
the live session in `modules/voice/session` (driven by `agent_manager/task_manager.py`):
one asyncio event loop per call in which a transcriber, an LLM, a synthesizer and a
carrier run concurrently and share several dozen flags; a realtime speech-to-speech model
can replace the first three.  Around it, `modules/tools` keeps the credentials that
the agents' tools use, which concurrent requests read and rewrite.  This directory models
both in TLA+, checks them with TLC on small instances and proves most of their safety properties
with TLAPS for every value of the constants.

| file | what it is |
|---|---|
| `TurnPipeline.tla` | turn taking: transcript listener, LLM turn tasks, synthesizer listener, output loop, marks, staged history, settle window, speculative turns, tool calls |
| `CallLifecycle.tla` | how a call ends: hangup, goodbye, teardown, watchdog, end_call, `run()` |
| `CallPromise.tla` | abstract: what every session promises about the end of a call |
| `LanguageSwitch.tla` | the transcriber and synthesizer pools, the decisions that switch them, the playback gate, reconnects |
| `S2S.tla` | a speech-to-speech call: run loop, provider events, ingest, pacer, tool tasks, goodbye |
| `ToolCredentials.tla` | credentials of a tool provider: connect, login, refresh, revoke, policy, and the executor's cached resolution |
| `MCLanguageSwitch.tla`, `MCS2S.tla`, `MCToolCredentials.tla` | the scenarios that TLC explores |
| `TurnPipelineProofs.tla` | TLAPS: types and committed history of `TurnPipeline`, all sessions |
| `TurnSafetyProofs.tla` | TLAPS: its other safety properties, sessions without speculative turns |
| `CallLifecycleProofs.tla`, `LanguageSwitchProofs.tla`, `S2SProofs.tla`, `ToolCredentialsProofs.tla` | TLAPS: invariants, action properties and the safety part of the refinements |
| `TurnPipeline.cfg`, `TurnPipelineEager.cfg`, `CallLifecycle.cfg`, `LanguageSwitch.cfg`, `S2S.cfg`, `ToolCredentials.cfg` | runs that pass |
| `EndMarkerLost.cfg`, `ToolCallCancelled.cfg`, `EagerReplyStuck.cfg`, `EndCallLost.cfg`, `GoodbyeMarkLost.cfg`, `HalfSwitch.cfg`, `EnforceShared.cfg`, `SuspensionUndone.cfg` | runs in which the code contradicts one of its own comments or documents |
| `PROJECT.json` | definition-to-source map, runs, mutants, findings, hazards, theorems |

## 1. Inventory

Paths are relative to `src/voiceai/`; `V/` is `modules/voice/session/`.

| component | state | operations | what makes it correct |
|---|---|---|---|
| transcript listener and routing (`V/turn/transcript_listener/`) | speaking flag, settle window and payload, speculative task and snapshot | interim, eager end of turn, turn resumed, final, speech ended; routing; kickoff of a turn; regeneration after the settle window | one generation at a time; an owed turn can be answered; the current turn is never muted |
| interruption manager (`V/interruption.py`) | valid sequence ids, last id, speaking flag, grace window | next id, invalidate, revalidate, retire, audio gate | an invalidated response does not speak again |
| LLM generation and tools (`V/turn/generation.py`, `function_calls.py`, `meta_info.py`) | `llm_task`, `function_call_in_flight`, `response_in_pipeline`, `_turn_audio_flushed` | stream text, end, empty reply, tool call with follow-up, end_call, completion check | the busy flags are cleared on every path; a tool call is not cut; each stream is ended |
| synthesizer listener, output loop (`task_manager.py`, `V/turn/output_loop.py`) | synthesizer and output queues, the frame in hand, audio sets | queue or skip, SEND / BLOCK / WAIT, marks, retire | only valid frames go to the carrier; only sent text is committed |
| history and sync (`V/turn/history_sync.py`, `helpers/conversation_history.py`) | history rows, staged assistant rows | stage, commit, drop, sync, cleanup | history holds what was said |
| carrier I/O and mark ledger (`modules/voice/io/`, `helpers/mark_event_meta_data.py`) | pending marks, is-audio-playing, hangup_sent | send, clear, echo | playback state follows the carrier |
| call lifecycle (`V/lifecycle/hangup.py`) | hangup and teardown flags | hangup, teardown, completion watchdog | one goodbye, one teardown, the call ends |
| run loop (`task_manager.py`) | gathered tasks | gather, drain, finally | a call that was ended is wound up |
| language switching, LID gate (`V/language/`) | session language, decision tasks, `language_switch_lock`, playback gate, detector buffer, debounce | judge per turn, idle watcher, `switch_language` tool, detector heuristic, gate hold and release | recognizer, voice and session on one language (a language without a voice can part them: finding 7); a decision acts on evidence of the language it leaves; a held reply is resolved |
| transcriber pool and ASR (`modules/voice/asr/`) | active label, running connections, lock, close notices, reconnect count | switch, reconnect of standby and active, end of stream | a deaf call notices it |
| synthesizers (`modules/voice/tts/`) | pool: active label, lock; each: text queue, connection | pool switch; push, receive, interrupt | the pool is in `LanguageSwitch`; one synthesizer is a FIFO in `TurnPipeline` |
| s2s runner (`V/s2s_runner.py`) | armed hangup, timers, pacer buffer, output queue, tool tasks, transfer flag | connect, greet, read events, pace, barge in, execute tools, type, hang up | an end packet is last; silenced audio stays silent; one transfer; an armed call ends |
| s2s providers (`modules/voice/s2s/providers/`) | socket, active response, `_response_done_event`, reconnect attempts | receive with resume, ask for a response, cancel, send results | requests wait for the turn before; attempts are bounded |
| tools and credentials (`modules/tools/`) | credential rows, org policy, header cache, tool `auth_ref` | connect, register, login, refresh, revoke, policy, link, execute with retry | a retry uses the stored secret; nothing but a reconnect or a refresh that read the row before its suspension makes it active again (the second contradicts the documents: finding 8); policy after rows; revoked secrets go out of use |
| welcome, voicemail, browser leg, DTMF | own small state | | not modelled (section 5) |
| auth, wallet, executions, automation | documents and caches | CRUD, rotation, top-up, ticking | not modelled (section 5) |
| catalog, numbers, knowledge, ..., providers, platform, core | documents, network clients | CRUD, wiring | not modelled: no protocol of their own |

The components share one session object.  The listener calls the cleanup, which cancels
the turn task and the output loop; the turn task pushes text into the synthesizer;
the synthesizer listener fills the output queue; the output loop consults the
interruption manager, commits history and sends frames and marks; the carrier's echoes
reach the input handler, which keeps the playing flag that the listener reads.  The
watchdog, the observer of the goodbye's mark and the turn task all call the hangup and
the teardown.  A language switch truncates the reply in flight through the same cleanup
and holds the next one at the output loop's gate.  The speech-to-speech runner shares
hangup and watchdog with the other pipeline: both implement `CallPromise`.

What is hard: a handler is atomic only between its real suspensions, and the state it
read before one may be gone after it (the cleanup suspends twice, while everything else
goes on); messages of a dropped response arrive after its successor has started; timers
(settle window, grace, mark timeout, silence) race events; tasks cancel each other, and
sometimes themselves; a lost echo must not keep a call open; two locks taken one after the
other must leave both pools alike; a credential row is written back as a whole from a copy that may be old.  `PROJECT.json` lists each
such place at its line under `hazards`, with the properties that would notice.

## 2. The models

### TurnPipeline

One action is one segment of a handler between two suspensions at which other tasks
really run.  A response is its sequence id; a response's audio is one audio frame and one
end frame.  `listener` is the suspension the transcript listener is at (`route`:
`maybe_update_tts_language`, before the final has an id; `clearOutput`, `clearSynth`: the two awaits of the cleanup).  `gen[s]` is the state of the task that
generates response `s`.  `sending` is the output loop inside `output.handle`.  The map in
`PROJECT.json` gives the lines of every definition.

Abstractions and their reasons:

* History is what the turn logic reads of it: whose row is last and whether there is
  more than system prompt and welcome.  `sync_history` may keep, remove or add an
  assistant row (`SyncHistory`), because what was heard is not modelled.
* Clocks are flags: the grace window (`utteranceRecent`) and the settle window (`Armed`)
  may close at any time.  `should_delay_output` and the loop's backoff only delay a step.
* `_synthesize` is part of the `handle_llm_output` step; the push to the synthesizer
  does not suspend (`tts/stream.py` 161-186).
* `OutputBlock` contains the await of `handle` for the final mark of a blocked response.
* `wait_for_current_message` before a tool runs may time out, so `ToolResult` may happen at
  any time after `GenTool`.
* The follow-up of a tool call has an id of its own and runs in the same task.
  Numerically larger ids therefore need not be spoken later.
* `BargeInOff` stands for `number_of_words_for_interruption` = 0, with which an interim
  never interrupts.  Tool calls may follow from a tool's follow-up, up to `MaxSeq` ids.
* The branch of kickoff that keeps a running task of the same ASR turn is not reached
  through the router and is left out.
* Only one transcriber family sends eager turns, and `REGEN_SETTLE_EXCLUDED_TRANSCRIBERS`
  (`constants.py:58`) switches the settle window off for it, so `EagerTurns` with
  `RegenSettle` is not an instance of the system; the configurations use one or the other.
  The transcriber sends at most one eager end per caller turn.
* A final suspends on its way to the router only where the transcriber detected a language and the
  synthesizer takes one (`maybe_update_tts_language`): detection is Sarvam's, eager turns are Deepgram
  Flux's, so with `EagerTurns` a final is routed, or confirms its speculative turn, in one step.  The
  other awaits on that way (`collect_transcript`, the health report) do not suspend.
* The welcome, voicemail checks, hangup, language detection and browser leg are
  left out of this module.  The initial state is a greeted call.

### CallLifecycle

`step[p]` is where each of the four tasks (turn task, watchdog, listener, observer of the
goodbye's mark) is suspended, and `endStep` where `process_end_of_conversation` is.
`isWeb` and `hangupMessage` are chosen initially.  A barge-in is reduced to its effect on
the hangup: a cleanup that, when it resumes, cancels the turn task and may lose a
goodbye on its way out.  Left out: the "are you still there" message, backchannels, call
transfer, the speech-to-speech branch, the welcome's timeouts; turns that start after the
end of the call are not tracked.  A task in the last await of the teardown (`stop`) when `run()` ends is
cancelled with the rest; by then the session is over, so nothing is lost.  The synthesizer listener, the
output loop and voicemail call the same guarded teardown and are not further tasks here.  The `except` of the
poll for the goodbye's mark is left out, since what it polls is a plain getter.  A cancel of the turn task issued by itself takes effect only after it
returned, because nothing after it suspends.

### CallPromise

`stage` (talking, hanging, ended, over) and `owner`, the task that carries out the hangup.
A decided hangup is not undone, at most one task owns it, an ended call is closed.  Both
pipelines map their flags to it in `Stage` and `Promise` and check `EndsAsPromised ==
Promise!Spec`: in `CallLifecycle` the owner is the task inside
`process_end_of_conversation`; in `S2S` the one that `_hangup_processing` let in (reader,
timer or watchdog).

### LanguageSwitch

A lock is the sequence of its holder and its waiters (asyncio locks are fair).  `pc[t]` is the
await at which decision task `t` is suspended and `job[t]` its local variables.  The flow
is chosen initially: `judge` (a Switch LLM decides once per turn under
`language_switch_lock`), `dead` (a judge without credentials, plus the tool), `legacy` (the tool and the
detector's heuristic, which take no lock of the session).  `up` holds the transcribers whose task runs;
The labels of the two pools are independent, apart from the one the call starts in.  The judge offers only
labels that have a voice; the tool and the heuristic reach any, so `SySwitch` has the `ValueError` of a
label without a voice, which every caller catches (`Voiceless`).  In shadow mode the heuristic only logs.  `notices` counts the close messages, which do not say whom they are about.  The gate holds one
sequence id for one task, with a wall-clock backstop.

What the judge weighs (confidence, dwell, agreement of transcripts) is its verdict, which
is nondeterministic, and so is whether a turn has enough speech for the gate.  Handoff
lines, telemetry, keepalive audio and provider protocols are left out; a reply is one step from
pending to playing.

### S2S

The provider is external: it owns the response being generated and writes events to
`wire`, which the reader consumes in order.  OpenAI announces and completes every response, and
rejects a request while one is active; Gemini breaks off what it is saying, never completes
an interrupted turn and may withdraw tool calls.  A socket is open, closed without notice
(`dead`: writes raise) or absent (`none`: `_send` swallows).  `buf` is the pacer's buffer and `outQ` the
output queue, as the responses their pieces belong to.  `_s2s_agent_has_floor` is an estimate from a clock,
so it may be true whenever audio was handled since the last barge-in, and never otherwise.
`cut` and `late` record what the properties speak of.  The watchdog may hang up a silent or too long call, tear
down a too long web call without a goodbye, or ask whether the caller is there, which raises on a closed
socket and ends the watchdog.  The loops for typed text and for keys are one.  Left out: transcripts, usage and
metrics, session settings, audio formats, the clock of the welcome gate (it only delays).

### ToolCredentials

The credentials of one provider in one organisation.  A request is suspended at every access to the
store, to the cache and to another server; `pc` says where.  A store write replaces the
whole row (`MotorRepository.insert`), so a request keeps in `seen` what it read.  A
secret is the number of its issue.  The cache fails open: every read may miss, every write and
delete may be lost; the store may fail, and the process may stop, between the writes of a
policy change.  A tool may be executed any number of times (`Repeats`).  The third policy,
`shared_with_override`, bars the same bindings as `user_choice` (`policy_allows_binding`) and is folded into it.  `calm` records that nobody else wrote a row since a request's last look, which is
the condition under which two of the properties are promised.  Left out: encryption, the catalogue, tool
schemas, payloads, audit rows.

### Fairness

The event loop runs every task that can run; every provider call returns because its
reader has a timeout; timers fire.  That is weak fairness of each task's steps:

* `TurnPipeline`, `CallLifecycle`: each task.  `WatchdogInactivity` is fair only while transcripts are
  ignored (a caller who is not listened to counts as silent), which presupposes
  `hang_conversation_after` > 0.
* `LanguageSwitch`: each decision task, the listener, the idle watcher (a poll loop), the
  gate's backstop, a transcriber that has its end-of-stream packet, the output loop.
  Verdicts other than staying, drops, turns and hangups are not assumed.
* `S2S`: run loop, ingest (its queue read times out every second), teardown (its wait is bounded), timers,
  the watchdog's request, reader, tool tasks.  Nothing is assumed of provider or caller.
* `ToolCredentials`: each request's steps (HTTP and store timeouts) and the expiry of a cached entry (`setex`).

Nothing is assumed of the caller, the transcriber or the carrier's echoes.

## 3. Runs

| run | instance | distinct states | shows |
|---|---|---|---|
| `turns` | 3 ids, settle window, tools | 354,857 | all safety properties of turn taking and `PipelineDrains` |
| `turns_eager` | 2 ids, speculative turns, tools, no settle window | 171,327 | audibility with speculative turns |
| `call_lifecycle` | no constants | 6,537 | hangup, teardown, `CallPromise` |
| `language_switch` | 4 labels, 2 tasks, 2 ids, 7 scenarios | 407,718 | concurrent switches, drops, gate |
| `s2s` | 4 tool calls, 14 scenarios, both providers | 214,951 | pacing, barge-in, tools, reconnects, goodbye, `CallPromise` |
| `tool_credentials` | 2 users, 3 ids, 11 scenarios of 3 requests, repeated executions | 24,511 | retry, suspension, policy, revocation |
| `tool_call_cancelled` | 2 ids | violated | a barge-in can cancel a tool call |
| `end_call_lost` | | violated | `end_call` can be cancelled inside the teardown |
| `goodbye_mark_lost` | | violated | a hangup of the watchdog's own is not forced |
| `enforce_shared_ignored` | 1 scenario of 3 requests | violated | a private credential wins under `enforce_shared` |
| `half_switch` | heuristic only, 1 label without a voice | violated | recognizer and voice can be left on different languages |
| `suspension_undone` | 1 scenario of 2 requests | violated | a refresh can undo a suspension |

Two further instances of `TurnPipeline` are kept beside these, not in `PROJECT.json`; TLC finds their property
violated, as findings 1 and 3 say: `EndMarkerLost.cfg` (`NoUnflushedTurn`, 2 ids: the end marker of a response can be
dropped) and `EagerReplyStuck.cfg` (`PipelineDrains`, 2 ids and speculative turns: the pipeline can stay busy).

Bounds of the turn pipeline: `MaxSeq` is the only one.  Three ids let a response, the turn that overlaps it and
a tool follow-up or a third turn coexist: the interactions are between the response being dropped, the
one that replaces it and one that arrives during the cleanup.  Two are enough for the
speculative runs (the response in flight and the speculative one).  The runs have `BargeInOff` = FALSE; the
theorems hold for both values.  Queues and marks are
bounded because each id yields two frames.

The other three modules take a set of `Scenarios`, chosen initially: each says which events
may meet in a call and how often, in place of one large product of all of them.

* `language_switch`: two tasks contend for each lock; two ids are the held reply and its
  successor; one reconnect is allowed so that the cap is reached by two drops; the debounce
  counts to two; `mr` is a recognizer without a voice, `ta` a voice without a recognizer, `xx` a language without either.
* `s2s`: `MaxAttempts` 2 makes the third drop the last one; `MaxWire` 3 lets speech, the end of a
  turn and the next turn's start be in flight together; two audio pieces let a response be cut
  in its middle; two transfer calls race for one handover.
* `tool_credentials`: one private and one shared row plus a free id; two requests race and a third
  observes them or interferes with both.

`CHECK_DEADLOCK FALSE`: a call may fall silent, a session that is over stops, and requests end.

Properties of `turns`:

* `CommittedWereSent` — an assistant row reaches history only if one of its frames passed
  the gate, whichever of output loop and generation comes last.
* `CancelledSilenced`, `OneLiveGeneration` — a cancelled response leaves no valid id;
  every running task is the one `llm_task` names.
* `OwedTurnReady` — while a regeneration is owed its id is valid, the caller's row is last
  and nothing competes with it.
* `FrameOnWireValid` — outside a cleanup, the frame in `output.handle` is valid.
* `LiveGenerationAudible` — outside a cleanup, the running response is not muted.
* `NoResurrection` — an id that was dropped is valid again only if nothing was generated
  under it.
* `PipelineDrains` — a busy pipeline becomes idle unless the caller speaks.

With speculative turns `OneLiveGeneration`, `CancelledSilenced`, `NoResurrection` and
`PipelineDrains` do not hold: a task that ends resets `llm_task` whichever it is, and
`turn_resumed` does not retire the id it cancels.  Only the last contradicts a comment of
the code and is a finding; `FrameOnWireValid` fails with three ids in that mode, so it is not checked there.

Properties of `call_lifecycle`: `OneTeardown`, `GoodbyeNotCut`, `TeardownSurvives`,
`OneGoodbye` (safety); `GoodbyeGraceEnforced`, `EndedCallIsWoundUp` (liveness);
`EndsAsPromised` (refinement).

Properties of `language_switch`:

* `PoolsAgree` — with no task between the two pools, voice and session are on one language, although
  the pools have separate locks, and so is the recognizer, unless it was sent to a language that has no
  voice.  With a judge that never happens.  `FlipsTogether`, what the code says of the heuristic's switch, has no
  such exception and is violated (`half_switch`).
* `DeafIsNoticed` — while the active transcriber is down, a close message is still to be read or a
  reconnect is under way, also after a switch to a standby that had dropped.
* `NoLockCycle` — who waits for a lock is, at most two holders further on, behind a task that waits
  for nobody: no circle over the three locks, and no lock kept by a task that returned.
* `AppliedOnOwnEvidence` — a decision that waited behind another switch is not applied.
* `HeldUntilInvalid` — a reply that is held for a decision is not played while that decision truncates it.
* `ReplyResolved`, `StuckLanguageRecovers` — a held reply is played or dropped in the end;
  foreign speech that no turn drains is decided on in the end.

Properties of `s2s`:

* `EndIsLast`, `BargeInSilences` — queue and pacer keep the order of a response and
  its end, and hold nothing that was silenced.
* `TransferredOnce`, `RevokedNotAnswered` — one handover; no result for a withdrawn call.
* `GoodbyeFirst` — the completed turn that hangs up is not older than the goodbye.  With OpenAI
  only, and only while each request waited for the turn before it, the connection held
  and the watchdog had not armed the hangup.  TLC finds the turn before the goodbye hanging up
  when any of these exceptions is dropped (during a reconnect, for instance, `_send` swallows the request
  for the goodbye and `end_call` still arms the hangup).
* `ArmedCallEnds`, `EndedCallCloses`, `EndsAsPromised`.  `ArmedCallEnds` excepts a watchdog
  that died because the socket was closed when it asked for the goodbye.

Properties of `tool_credentials`:

* `RetryIsFresh`, `PolicyNotAheadOfRows` — the retry after a refused secret carries the stored one; when
  `enforce_shared` takes effect no private row is active.  Both under `calm`, where concurrent
  writers really break them.
* `RestoredByReconnectOrStaleRefresh` — what makes a row active that was suspended, pending or revoked: a
  connect, a login, or the write of a refresh that read it while it was active.  A refresh that starts after the
  suspension, a registration and a policy change do not.  `OnlyReconnectRestores`, what the documents
  say, leaves out the refresh and is violated (`suspension_undone`).
* `RevokedAgesOut` — executions repeat without end, and a live credential is cached and sent again and
  again; one whose row is gone for good is in the end neither cached nor sent (`OutOfUse`), although
  revocation does not clear the cache.

Each property has a mutant of the model (operators such as `RevalidateLost` or
`CancelsItself`, next to the definition they change) under which TLC finds it violated.

### Findings

1. `_turn_audio_flushed` belongs to the call, not to a response: a late end of stream of
   an interrupted response makes the next response's bare end marker look unnecessary.
2. `function_call_in_flight` is tested before the cleanup suspends: a tool call that starts
   meanwhile is cancelled, although its side effect may have happened.
3. A speculative reply that is over before its turn is confirmed leaves
   `response_in_pipeline` set when it is adopted.
4. A barge-in cleanup under way when `end_call` fires cancels the teardown and leaves
   `_end_of_conversation_in_progress` set.
5. The watchdog leaves its loop after queueing a goodbye itself, so nobody applies the mark
   timeout to that goodbye.
6. `resolve_credential` never reads the organisation's policy: under `enforce_shared` it prefers a
   private row that a login, begun before the policy changed, wrote afterwards, while
   `modules/tools/CONTRACT.md` excepts `enforce_shared` from that preference.
7. `switch_language` flips the recognizer and then the voice.  For a language that only the transcriber
   pool has, the voice's switch raises and the caller logs it: the call goes on half-switched, while the
   comment in `asr/pool.py` has both "flip atomically".  The judge checks for a voice first; the heuristic and the
   `switch_language` tool do not.
8. `refresh_credential` saves the row it read before it awaited the token endpoint: a private row that
   `set_policy` suspended meanwhile is active again, while `set_policy` says "explicit reconnect required".

## 4. Proofs

All theorems hold for every value of the constants, from the assumptions named in the modules
only: at least one id and flags that are flags (`ConstantsAssumption`); a start language that both pools have
(`LabelsAssumption`, all that is assumed of the labels); tasks and bounds that make sense (`TasksAssumption`,
`BoundsAssumption`); scenarios and
requests of the right shape (`ScenariosAssumption`, `RequestsAssumption`, `CallsAssumption`, ...).  Each
has the form `Spec => []Inv` or `Spec => [][A]_vars`, from an
inductive invariant that implies the property, or the step condition of the action.

### TurnPipeline

For every session (`TurnPipelineProofs`):

* `TypeCorrect == Spec => []TypeOK`, with `Links` (a speculative task has the id its turn was
  opened with, a suspended send its frame).
* `CommittedWereSentHolds == Spec => []CommittedWereSent`.  The property is not inductive:
  a generation that stages its row after the first frame passed commits it at once, so
  no row may exist before.  `NoEarlyRow` says that a response that is unused or still
  generating has no row, and it needs `Fresh`: an id that is owed, or was not handed
  out, was never generated under, so no id is started twice (`OpenStep`).

* `LiveGenerationAudibleHolds == Spec => []LiveGenerationAudible` (`TurnSafetyProofs`).  With speculative turns two
  tasks run at once and either may be `llm_task`: a speculative task that ends resets a reference
  that is not its own.  `AInv` says what survives: outside a cleanup, whichever task `llm_task` or
  `eager_llm_task` names is heard (`Audible`).  That rests on four facts: the tasks the two
  references name were started (`Named`); finals are routed without a suspension in such a
  session, and no regeneration is owed while a speculative task is kept (`Speculation`); a
  speculative task that can still be confirmed speaks under the id it was given, unless a tool
  call moved it on while another turn's task runs, and then the call is still in flight and the
  confirming final is dropped (`OwnId`); end frames belong to generations that are over
  (`Ends`), so retiring an id mutes none of them.

For sessions without speculative turns, `Spec /\ ~EagerTurns` (`TurnSafetyProofs`):
`CancelledSilenced`, `OneLiveGeneration`, `OwedTurnReady`, `FrameOnWireValid` as
invariants and `NoResurrection` as an action property.  The
invariant `SInv` adds to the above, in the order in which each part needs the earlier ones:

1. `OneTask`: the only running task is the one `llm_task` names and cancelled ids are
   invalid.  Every kickoff cancels what it replaces and invalidates before it revalidates
   its own id (`KickoffOne`).
2. `Ends`: an end frame in a queue or in hand belongs to a generation that is over, so
   retiring its id mutes nobody who speaks and no owed turn (`RetiresOther`).
3. `Owed`: a turn is owed only outside a cleanup, with nothing staged and nothing running,
   so no commit can append a row behind the caller's.
4. `OnWire`: outside a cleanup, the frame on the wire is valid; what invalidates it starts a
   cleanup, which ends it.

`OwedCountsAsInflight` proves that a final which lands in an open settle window always
finds a response in flight.  The router's branch that merges such a final without a
cleanup (`router.py:96` with no activity) therefore never runs, and the model leaves it out.

### CallLifecycle

`CInv` adds to the types, for `OneTeardown`, `GoodbyeNotCut`, `TeardownSurvives` and `OneGoodbye`:
`Owned` (a task inside the teardown is its owner, and the teardown is where its step says),
`Closed` (what has happened when the call is marked as ended) and `OneHangup` (before the goodbye is
synthesized nothing of it exists and one task is on its way there).  `CallKeepsPromise`: initial states and steps are
those of `CallPromise`, or stutters.

### LanguageSwitch

`LInv` holds the properties and what they lean on:

1. `LocksHeld`: a task that awaits a reconnect or a cancellation has its pool's lock.
2. `InLine`: the tasks between the pools stand in the queue of the second lock, each once, and
   the last of them carries the label the first pool is on.  This is what makes two separate
   locks enough for `PoolsAgree`: the queue is joined in the step that leaves the first lock.  A label without
   a voice leaves the queue with the voice as it was, and no judge's task carries one.
3. `OneDecides`: in the flows with a judge, a task past `language_switch_lock` holds it and was
   spawned in the session's language: `AppliedOnOwnEvidence`.
4. `GateKept`, `GivenOut`: a gate with an open decision belongs to a decision that has not
   reached the pools, and stays on the reply it found held while that is truncated: `HeldUntilInvalid`.

`NoLockCycleHolds` (`LanguageLockProofs`) rests on `LockLines == Spec => []QInv`: the line of each lock is exactly the
tasks at the places that ask for it or have it, each once.  Each step of a task is shown to
join a line at its end, to leave it as its first or to let it be, according to the place it comes from and the
one it goes to (`Shifts`).  The first of the pools' lines then waits for nothing, and the
first of `language_switch_lock` waits for a pool's at most.

### S2S

`SInv`: `InOrder` (the events on the wire are in the order of the responses; a completed turn, or
one the caller spoke over, is followed only by newer audio) and `Playable` (queue and pacer hold audio newer than
the last barge-in and than the turns whose end is queued before it) carry `EndIsLast` and
`BargeInSilences`: neither is inductive, since both depend on what is still to be read.  `Asked` (a call is
announced once, and has no task once it is withdrawn) and `HandsOver` (`has_transfer` is set before the
first transfer leaves, so there is no second) carry `RevokedNotAnswered` and `TransferredOnce`; the steps
of the hangup alone give `S2SKeepsPromise`, the safety part of the refinement.

`GoodbyeFirstHolds` (`S2SGoodbyeProofs`) needs, on top of `SInv`, `ArmedBehind`: once `end_call` has sent its
result, and from then on while the hangup is armed, there is a goodbye such that every completed turn still
to be read is that one or a later one (`Farewell`).  It starts to hold because a request in order finds no active turn and no
unread completion, and lasts because only the newest response can complete.  That the request is
really sent is `Connected`: a connection that never dropped is open as long as tool tasks run.

### ToolCredentials

`KInv`: `Issued` (no row or copy has a secret that was not issued), `Picked`, `Attempts`, `InHand` (in
calm, a retry holds the stored secret) and `StillToSuspend` (in calm, every row a policy
change bars is still on its list) give `RetryIsFresh` and `PolicyNotAheadOfRows`;
`RestoredByReconnectOrStaleRefresh` needs only the types and `Picked`.

### Model-checked only

Liveness is out of the prover's reach: `PipelineDrains`, `GoodbyeGraceEnforced`,
`EndedCallIsWoundUp`, `ReplyResolved`, `StuckLanguageRecovers`, `ArmedCallEnds`,
`EndedCallCloses`, `RevokedAgesOut`, and the fairness of `CallPromise` in `EndsAsPromised`.  Every invariant and
every action property of the passing runs has a theorem.  `NoLockCycle` is deadlock freedom as far as
it can be said without `ENABLED`; that the tasks then do move is left to the liveness runs.

## 5. Not modelled

The models cover the parts of the repository that have a protocol: tasks, messages or requests
that interleave over shared state.  They stand for about 6,300 of its 94,000
lines.  Most of the rest is CRUD over a document store, dependency wiring (`core/container.py`), HTTP routes
and schemas, provider clients, configuration, prompts and wording, audio conversion, reports and
metrics: code with no state that outlives a call of it, where a model would repeat the
code and a property would restate it.

Not modelled although it has state:

* Welcome message, voicemail detection, browser leg, DTMF and typed input of the
  telephone pipeline: further inputs to the turn pipeline.  The models start from a
  greeted call.
* The metadata queue of one synthesizer (`tts/stream.py`), matched with audio by position:
  `TurnPipeline` has it as a FIFO whose frames carry their id, so a mismatch within one synthesizer is not visible.
* Wallet top-ups, refresh rotation and tickets of `auth`, the campaign engine of `automation` and
  the progression of simulated calls.
* Graph agents: routing between nodes happens inside one turn task, as part of generation.
* Provider protocols (ASR, TTS, LLM) below connect, close, send and receive.

Within the modelled components, `PROJECT.json` says under each what is left out.

## 6. Plan

1. The synthesizer's text queue as a refinement of the FIFO in `TurnPipeline`; the wallet
   (balance against ledger under concurrent top-ups); auth sessions (refresh rotation,
   tickets); the welcome and voicemail phase before a greeted call.
2. An abstract turn-taking service (each caller turn answered by at most one response, spoken
   or dropped) that `TurnPipeline` implements.
3. Theorems: the refinement of that service.
