-------------------------- MODULE S2SGoodbyeProofs --------------------------
(***************************************************************************)
(* The end of a speech-to-speech call, proved: with OpenAI the turn whose   *)
(* completion hangs up after end_call is the goodbye or a later one.        *)
(***************************************************************************)
EXTENDS S2SProofs

-------------------------------------------------------------------------------
(* The inductive invariant.                                                 *)

\* What is on its way to the reader.
EventsOn(w) == {w[i] : i \in 1..Len(w)}

\* The connection has not dropped, and will not have dropped later if it has now.
Unbroken == left.drops = call.may.drops
DropsCount == left.drops <= call.may.drops

\* The reader and the tool tasks live while _run_s2s_conversation runs them; before that
\* nobody watches the call and nothing armed its hangup.
Started ==
    /\ run \in {"connect", "greet"} => ~armed /\ watch # "on"
    /\ reader # "out" => run = "live"
    /\ \A c \in Calls : tool[c] \notin {"none", "over"} => run = "live"

\* A connection that never dropped is open until the run loop closes it, and the reader
\* does not resume it.
Open == (run \in {"greet", "live"} => sock = "open") /\ reader \notin {"sleep", "reconnect"}
Connected == Unbroken => Open

\* Nor does a lost connection await it.
Unclosed == Unbroken => \A ev \in EventsOn(wire) : ev.e # "closed"

\* A goodbye was asked for, and every turn whose completion is still to be read is that
\* one or a later one.
Farewell(w, p) ==
    \E g \in 1..Len(p) :
      p[g] = "goodbye" /\ \A ev \in EventsOn(w) : ev.e = "done" => g <= ev.r

\* Every response was asked for after the turn before it, on a connection that held, and
\* the watchdog still listens.
Orderly == OpenAI /\ ~late /\ Unbroken /\ watch = "on"

\* end_call has armed the hangup or is about to.
Leaving == armed \/ \E c \in Calls : Kind[c] = "end" /\ tool[c] = "sent"

\* It does so behind its goodbye.
ArmedBehind == Orderly /\ Leaving => Farewell(wire, purpose)

GInv == DropsCount /\ Started /\ Connected /\ Unclosed /\ ArmedBehind

-------------------------------------------------------------------------------
(* Events on the wire.                                                      *)

\* An event is added.
LEMMA EventsAppend ==
    ASSUME NEW w \in Seq(ProviderEvents), NEW ev \in ProviderEvents
    PROVE  EventsOn(Append(w, ev)) = EventsOn(w) \cup {ev}
<1> DEFINE v == Append(w, ev)
<1>1. /\ \A i \in 1..Len(w) : v[i] = w[i]
      /\ v[Len(w) + 1] = ev /\ Len(v) = Len(w) + 1 /\ Len(w) \in Nat
  OBVIOUS
<1> HIDE DEF v
<1>2. ASSUME NEW i \in 1..Len(v) PROVE v[i] \in EventsOn(w) \cup {ev}
  <2>1. CASE i = Len(w) + 1
    BY <1>1, <2>1
  <2>2. CASE i # Len(w) + 1
    <3>1. i \in 1..Len(w) /\ v[i] = w[i]
      BY <1>1, <2>2
    <3>2. QED
      BY <3>1 DEF EventsOn
  <2>3. QED
    BY <2>1, <2>2
<1>3. ASSUME NEW i \in 1..Len(w) PROVE w[i] \in EventsOn(v)
  <2>1. i \in 1..Len(v) /\ v[i] = w[i]
    BY <1>1
  <2>2. QED
    BY <2>1 DEF EventsOn
<1>4. ev \in EventsOn(v)
  <2>1. Len(w) + 1 \in 1..Len(v) /\ v[Len(w) + 1] = ev
    BY <1>1
  <2>2. QED
    BY <2>1 DEF EventsOn
<1>5. QED
  BY <1>2, <1>3, <1>4 DEF EventsOn, v

\* The first event is read.
LEMMA EventsTail ==
    ASSUME NEW w \in Seq(ProviderEvents), w # <<>>
    PROVE  EventsOn(Tail(w)) \subseteq EventsOn(w) /\ Head(w) \in EventsOn(w)
<1> DEFINE v == Tail(w)
<1>1. /\ Head(w) = w[1] /\ 1 \in 1..Len(w)
      /\ \A i \in 1..Len(v) : v[i] = w[i + 1] /\ i + 1 \in 1..Len(w)
  OBVIOUS
<1> HIDE DEF v
<1>2. QED
  BY <1>1 DEF EventsOn, v

\* Asking for a response adds no completed turn and no lost connection; asked for in
\* order, it begins a response when no completed turn is left to be read.
LEMMA CreateEvents ==
    ASSUME SInv, NEW p, Create(p)
    PROVE  /\ \A ev \in EventsOn(wire') : ev \in EventsOn(wire) \/ ev.e \notin {"done", "closed"}
           /\ OpenAI => purpose' = purpose \/ purpose' = Append(purpose, p)
           /\ OpenAI /\ ~late' => /\ purpose' = Append(purpose, p)
                                  /\ \A ev \in EventsOn(wire) : ev.e # "done"
           /\ late => late'
<1>0. /\ wire \in Seq(ProviderEvents) /\ DOMAIN wire = 1..Len(wire) /\ Len(purpose) \in Nat
      /\ late \in BOOLEAN
  BY DEF SInv, TypeOK
<1> DEFINE created == Event("created", Len(purpose) + 1)
<1> DEFINE rejected == Event("rejected", 0)
<1> DEFINE speech == Event("speech", 0)
<1>1. /\ created \in ProviderEvents /\ created.e = "created"
      /\ rejected \in ProviderEvents /\ rejected.e = "rejected"
      /\ speech \in ProviderEvents /\ speech.e = "speech"
  BY <1>0, EventTypes
<1>2. OpenAI => \/ wire' = Append(wire, created) /\ purpose' = Append(purpose, p) /\ active = 0
                \/ wire' = Append(wire, rejected) /\ purpose' = purpose /\ active # 0
  <2>1. wire \o <<created>> = Append(wire, created)
    BY <1>0, <1>1
  <2>2. QED
    BY <2>1 DEF Create, Begin
<1>3. ~OpenAI => wire' = wire \/ wire' = Append(wire, speech)
  <2>1. wire \o <<>> = wire /\ Append(wire, speech) \o <<>> = Append(wire, speech)
    BY <1>0, <1>1
  <2>2. QED
    BY <2>1 DEF Create, Begin
<1> HIDE DEF created, rejected, speech
<1>4. \A ev \in {created, rejected, speech} : EventsOn(Append(wire, ev)) = EventsOn(wire) \cup {ev}
  BY <1>0, <1>1, EventsAppend
<1>5. ASSUME NEW ev \in EventsOn(wire') PROVE ev \in EventsOn(wire) \/ ev.e \notin {"done", "closed"}
  BY <1>1, <1>2, <1>3, <1>4
<1>6. late' = (late \/ (OpenAI /\ (~ready \/ active # 0 \/ Unread("done"))))
  BY DEF Create
<1>7. ~Unread("done") => \A ev \in EventsOn(wire) : ev.e # "done"
  BY <1>0 DEF Unread, EventsOn
<1>8. QED
  BY <1>0, <1>2, <1>5, <1>6, <1>7

-------------------------------------------------------------------------------
(* The goodbye stays ahead.                                                 *)

\* Later events and later responses leave the goodbye in front: a turn that completes now
\* is the newest one.
LEMMA FarewellKept ==
    ASSUME SInv, NEW v, NEW q, Farewell(wire, purpose),
           q = purpose \/ \E p : q = Append(purpose, p),
           \A ev \in EventsOn(v) : ev \in EventsOn(wire) \/ (ev.e = "done" => ev.r = Len(purpose))
    PROVE  Farewell(v, q)
<1>1. PICK g \in 1..Len(purpose) :
        purpose[g] = "goodbye" /\ \A ev \in EventsOn(wire) : ev.e = "done" => g <= ev.r
  BY DEF Farewell
<1>2. purpose \in Seq(Purposes)
  BY DEF SInv, TypeOK
<1>3. g \in 1..Len(q) /\ q[g] = "goodbye"
  BY <1>1, <1>2
<1>4. \A ev \in EventsOn(v) : ev.e = "done" => g <= ev.r
  BY <1>1
<1>5. QED
  BY <1>3, <1>4 DEF Farewell

\* A goodbye that is asked for when no completed turn is left to be read is in front.
LEMMA FarewellAsked ==
    ASSUME SInv, NEW v, \A ev \in EventsOn(v) : ev.e # "done"
    PROVE  Farewell(v, Append(purpose, "goodbye"))
<1>1. purpose \in Seq(Purposes)
  BY DEF SInv, TypeOK
<1>2. /\ Len(purpose) + 1 \in 1..Len(Append(purpose, "goodbye"))
      /\ Append(purpose, "goodbye")[Len(purpose) + 1] = "goodbye"
  BY <1>1
<1>3. QED
  BY <1>2 DEF Farewell

-------------------------------------------------------------------------------
(* What a step does.                                                        *)

\* What a step may do to the wire, the responses and the hangup while calls are made in
\* order; the greeting and a committed result do more.
Mild ==
    /\ late => late'
    /\ watch' = "on" => watch = "on" /\ (Leaving' => Leaving)
    /\ OpenAI => purpose' = purpose \/ \E p : purpose' = Append(purpose, p)

\* What every step does: a completed turn is the newest one, and a connection that closes
\* is a drop.
Sound ==
    /\ call' = call /\ left'.drops <= left.drops
    /\ \A ev \in EventsOn(wire') :
         \/ ev \in EventsOn(wire)
         \/ /\ ev.e = "done" => ev.r = Len(purpose)
            /\ ev.e = "closed" => left'.drops < left.drops

\* A step that does no more keeps the goodbye in front.
LEMMA MildKeeps ==
    ASSUME SInv, GInv, SInv', Sound
    PROVE  DropsCount' /\ (Unbroken' => Unbroken) /\ Unclosed' /\ (Mild => ArmedBehind')
<1>1. left \in Limits /\ left' \in Limits /\ call \in Scenarios /\ call' = call /\ late \in BOOLEAN
  BY DEF SInv, TypeOK, Sound
<1>2. left.drops \in Nat /\ left'.drops \in Nat
  BY <1>1 DEF Limits
<1>3. call.may.drops \in Nat
  BY <1>1, ScenariosAssumption DEF Limits
<1>4. DropsCount' /\ (Unbroken' => Unbroken /\ left'.drops = left.drops)
  BY <1>1, <1>2, <1>3 DEF GInv, DropsCount, Unbroken, Sound
<1>5. Unclosed'
  BY <1>2, <1>4 DEF GInv, Unclosed, Sound
<1>6. ASSUME Mild, Orderly', Leaving' PROVE Farewell(wire', purpose')
  <2>1. Orderly /\ Leaving
    BY <1>1, <1>4, <1>6 DEF Orderly, Mild, OpenAI
  <2>2. Farewell(wire, purpose)
    BY <2>1 DEF GInv, ArmedBehind
  <2>3. OpenAI
    BY <2>1 DEF Orderly
  <2>4. QED
    BY <1>6, <2>2, <2>3, FarewellKept DEF Mild, Sound
<1>7. QED
  BY <1>4, <1>5, <1>6 DEF ArmedBehind

\* A step of either kind, of a session in order.
Calm == Sound /\ Started' /\ (Unbroken /\ left'.drops = left.drops => Open')

\* The facts that the steps below share.
LEMMA Shared ==
    ASSUME SInv, GInv
    PROVE  /\ \A ev \in ProviderEvents : EventsOn(Append(wire, ev)) = EventsOn(wire) \cup {ev}
           /\ wire # <<>> => EventsOn(Tail(wire)) \subseteq EventsOn(wire) /\ Head(wire) \in EventsOn(wire)
           /\ active \in {0, Len(purpose)} /\ active \in Nat /\ Len(purpose) \in Nat
           /\ left \in Limits /\ left.drops \in Nat /\ left.drops \leq call.may.drops
           /\ Unbroken => Open /\ \A ev \in EventsOn(wire) : ev.e # "closed"
           /\ tool \in [Calls -> Places] /\ late \in BOOLEAN /\ armed \in BOOLEAN
<1>1. /\ wire \in Seq(ProviderEvents) /\ Len(purpose) \in Nat /\ active \in 0..Len(purpose)
      /\ left \in Limits /\ tool \in [Calls -> Places] /\ late \in BOOLEAN /\ armed \in BOOLEAN
  BY DEF SInv, TypeOK, Places
<1>2. left.drops \in Nat
  BY <1>1 DEF Limits
<1>3. active \in {0, Len(purpose)}
  BY DEF SInv, InOrder
<1>4. QED
  BY <1>1, <1>2, <1>3, EventsAppend, EventsTail DEF GInv, DropsCount, Connected, Unclosed

\* Steps that leave the wire alone.
LEMMA StillSteps ==
    ASSUME SInv, GInv,
           \/ IngestStops \/ Teardown \/ TimerFires \/ PacerTick \/ Sent \/ ReadAfterEnd \/ Encoded \/ Finished \/ Cleared
           \/ IngestEos \/ IngestFails \/ WatchdogHangsUp \/ WatchdogEndsWebCall \/ Connect \/ Close \/ Rested \/ Reconnected
    PROVE  Calm /\ Mild
<1> USE Shared DEF session, caller, server, reading, output, tools, Calm, Sound, Mild, Started, Open, Leaving
<1>s. Started
  BY DEF GInv
<1>1. CASE IngestStops
  BY <1>s, <1>1 DEF IngestStops
<1>2. CASE Teardown
  BY <1>s, <1>2 DEF Teardown
<1>3. CASE TimerFires
  BY <1>s, <1>3 DEF TimerFires, HangUp
<1>4. CASE PacerTick
  BY <1>s, <1>4 DEF PacerTick
<1>5. CASE Sent
  BY <1>s, <1>5 DEF Sent
<1>6. CASE ReadAfterEnd
  BY <1>s, <1>6 DEF ReadAfterEnd
<1>7. CASE Encoded
  BY <1>s, <1>7 DEF Encoded
<1>8. CASE Finished
  BY <1>s, <1>8 DEF Finished
<1>9. CASE Cleared
  BY <1>s, <1>9 DEF Cleared
<1>10. CASE IngestEos
  BY <1>s, <1>10 DEF IngestEos, Spend
<1>11. CASE IngestFails
  BY <1>s, <1>11 DEF IngestFails
<1>12. CASE WatchdogHangsUp \/ WatchdogEndsWebCall
  <2>1. left'.drops = left.drops
    BY <1>12 DEF WatchdogHangsUp, WatchdogEndsWebCall, Spend, Limits
  <2>2. watch' # "on"
    BY <1>12 DEF WatchdogHangsUp, WatchdogEndsWebCall
  <2>3. Started'
    BY <1>s, <1>12 DEF WatchdogHangsUp, WatchdogEndsWebCall, Spend
  <2>4. Open => Open'
    BY <1>12 DEF WatchdogHangsUp, WatchdogEndsWebCall
  <2>5. Sound
    BY <1>12, <2>1 DEF WatchdogHangsUp, WatchdogEndsWebCall
  <2>6. Mild
    BY <1>12, <2>2 DEF WatchdogHangsUp, WatchdogEndsWebCall
  <2>7. QED
    BY <2>1, <2>3, <2>4, <2>5, <2>6
<1>13. CASE Connect
  BY <1>s, <1>13 DEF Connect
<1>14. CASE Close
  BY <1>s, <1>14 DEF Close
<1>15. CASE Rested
  BY <1>s, <1>15 DEF Rested
<1>16. CASE Reconnected
  BY <1>s, <1>16 DEF Reconnected
<1>17. QED
  BY <1>1, <1>2, <1>3, <1>4, <1>5, <1>6, <1>7, <1>8, <1>9, <1>10, <1>11, <1>12, <1>13, <1>14, <1>15, <1>16

\* Steps that read an event.
LEMMA ReadSteps ==
    ASSUME SInv, GInv,
           \/ ReadCreated \/ ReadRejected \/ ReadAudio \/ ReadDone \/ ReadSpeech \/ ReadCall
           \/ ReadRevoke \/ ReadFatal \/ ReadClosed
    PROVE  Calm /\ Mild
<1> USE Shared DEF session, caller, server, reading, output, tools, Calm, Sound, Mild, Started, Open, Leaving
<1>s. Started
  BY DEF GInv
<1>1. CASE ReadCreated
  BY <1>s, <1>1 DEF ReadCreated, Reads, Pop
<1>2. CASE ReadRejected
  BY <1>s, <1>2 DEF ReadRejected, Reads, Pop
<1>3. CASE ReadAudio
  BY <1>s, <1>3 DEF ReadAudio, Reads, Pop
<1>4. CASE ReadDone
  BY <1>s, <1>4 DEF ReadDone, Reads, Pop, HangUp
<1>5. CASE ReadSpeech
  BY <1>s, <1>5 DEF ReadSpeech, Reads, Pop
<1>6. CASE ReadCall
  BY <1>s, <1>6 DEF ReadCall, Reads, Pop
<1>7. CASE ReadRevoke
  BY <1>s, <1>7 DEF ReadRevoke, Reads, Pop
<1>8. CASE ReadFatal
  BY <1>s, <1>8 DEF ReadFatal, Reads, Pop
<1>9. CASE ReadClosed
  BY <1>s, <1>9 DEF ReadClosed, Reads, Pop
<1>10. QED
  BY <1>1, <1>2, <1>3, <1>4, <1>5, <1>6, <1>7, <1>8, <1>9

\* Steps of the provider and of typed input: what completes is the newest response.
LEMMA ProviderSteps ==
    ASSUME SInv, GInv,
           \/ ProviderReply \/ ProviderAudio \/ ProviderDone \/ CallerSpeaks \/ ProviderFails \/ Types
    PROVE  Calm /\ Mild
<1> USE Shared DEF session, caller, server, reading, output, tools
<1>s. Started /\ wire \in Seq(ProviderEvents)
  BY DEF GInv, SInv, TypeOK
<1> DEFINE Adds(ev) == \/ ev \in EventsOn(wire)
                       \/ /\ ev.e = "done" => ev.r = Len(purpose)
                          /\ ev.e = "closed" => left'.drops < left.drops
<1>1. /\ call' = call /\ run' = run /\ reader' = reader /\ tool' = tool /\ armed' = armed
      /\ watch' = watch /\ late' = late
  BY DEF ProviderReply, ProviderAudio, ProviderDone, CallerSpeaks, ProviderFails, Types
<1>2. purpose' = purpose \/ purpose' = Append(purpose, "reply")
  BY DEF ProviderReply, ProviderAudio, ProviderDone, CallerSpeaks, ProviderFails, Types, Begin
<1>3. ProviderFails \/ sock' = sock
  BY DEF ProviderReply, ProviderAudio, ProviderDone, CallerSpeaks, Types
<1>4. /\ left'.drops \leq left.drops /\ (ProviderFails => left'.drops < left.drops)
  <2>1. left' = left \/ \E x \in {"replies", "speech", "typed", "drops"} : left' = [left EXCEPT ![x] = @ - 1]
    BY DEF ProviderReply, ProviderAudio, ProviderDone, CallerSpeaks, ProviderFails, Types, Spend
  <2>2. ProviderFails => left' = [left EXCEPT !["drops"] = @ - 1]
    BY DEF ProviderFails, Spend
  <2>3. QED
    BY <2>1, <2>2 DEF Limits
<1>5. \A ev \in EventsOn(wire') : Adds(ev)
  <2> DEFINE done == Event("done", active)
  <2> DEFINE speech == Event("speech", 0)
  <2>0. /\ done \in ProviderEvents /\ done.e = "done" /\ done.r = active
        /\ speech \in ProviderEvents /\ speech.e = "speech"
    BY EventTypes
  <2>d. active # 0 => EventsOn(Append(wire, done)) = EventsOn(wire) \cup {done} /\ done.r = Len(purpose)
    BY <2>0
  <2>1. CASE ProviderReply
    <3>1. /\ Event("created", Len(purpose) + 1) \in ProviderEvents
          /\ Event("created", Len(purpose) + 1).e = "created"
      BY EventTypes
    <3>2. wire' = wire \/ wire' = Append(wire, Event("created", Len(purpose) + 1))
      <4>1. /\ wire \o <<Event("created", Len(purpose) + 1)>> = Append(wire, Event("created", Len(purpose) + 1))
            /\ wire \o <<>> = wire
        BY <1>s, <3>1
      <4>2. QED
        BY <2>1, <4>1 DEF ProviderReply, Begin
    <3>3. QED
      BY <3>1, <3>2
  <2>2. CASE ProviderAudio
    <3>1. Event("audio", active) \in ProviderEvents /\ Event("audio", active).e = "audio"
      BY EventTypes
    <3>2. QED
      BY <2>2, <3>1 DEF ProviderAudio
  <2>3. CASE ProviderDone
    BY <2>0, <2>3, <2>d DEF ProviderDone
  <2>4. CASE CallerSpeaks
    <3> DEFINE v == Append(wire, speech)
    <3>1. v \in Seq(ProviderEvents) /\ EventsOn(v) = EventsOn(wire) \cup {speech}
      BY <1>s, <2>0
    <3>2. EventsOn(Append(v, done)) = EventsOn(wire) \cup {speech, done}
      <4>1. EventsOn(Append(v, done)) = EventsOn(v) \cup {done}
        <5> HIDE Shared DEF v, done
        <5>1. QED
          BY <2>0, <3>1, EventsAppend
      <4> HIDE Shared DEF v, done, speech
      <4>2. QED
        BY <3>1, <4>1
    <3>3. wire \o <<speech>> = v /\ v \o <<done>> = Append(v, done) /\ v \o <<>> = v
      BY <1>s, <2>0, <3>1
    <3>4. wire' = v \/ (active # 0 /\ wire' = Append(v, done))
      BY <2>4, <3>3 DEF CallerSpeaks
    <3> HIDE DEF v, done, speech
    <3>5. QED
      BY <2>0, <2>d, <3>1, <3>2, <3>4
  <2>5. CASE ProviderFails
    <3>1. /\ Event("closed", 0) \in ProviderEvents /\ Event("closed", 0).e = "closed"
          /\ Event("fatal", 0) \in ProviderEvents /\ Event("fatal", 0).e = "fatal"
      BY EventTypes
    <3>2. QED
      <4>1. \/ EventsOn(wire') = EventsOn(wire) \cup {Event("closed", 0)}
            \/ EventsOn(wire') = EventsOn(wire) \cup {Event("fatal", 0)}
        BY <2>5, <3>1 DEF ProviderFails
      <4>2. QED
        BY <1>4, <2>5, <3>1, <4>1
  <2>6. CASE Types
    <3>1. Event("rejected", 0) \in ProviderEvents /\ Event("rejected", 0).e = "rejected"
      BY EventTypes
    <3>2. EventsOn(Append(wire, Event("rejected", 0))) = EventsOn(wire) \cup {Event("rejected", 0)}
      BY <1>s, <3>1, EventsAppend
    <3>3. \/ wire' = wire \/ wire' = Append(wire, Event("rejected", 0))
          \/ active # 0 /\ wire' = Append(wire, done)
      BY <2>6 DEF Types
    <3> HIDE DEF done
    <3>4. QED
      BY <2>0, <2>d, <3>1, <3>2, <3>3
  <2>7. QED
    BY <2>1, <2>2, <2>3, <2>4, <2>5, <2>6
<1>6. Sound
  BY <1>1, <1>4, <1>5 DEF Sound
<1>7. Mild
  BY <1>1, <1>2 DEF Mild, Leaving
<1>8. Started'
  BY <1>1, <1>s DEF Started
<1>9. Unbroken /\ left'.drops = left.drops => Open'
  BY <1>1, <1>3, <1>4 DEF Open
<1>10. QED
  BY <1>6, <1>7, <1>8, <1>9 DEF Calm

\* Requests for a response, other than the greeting and a tool's result.
LEMMA RequestSteps ==
    ASSUME SInv, GInv, WatchdogAsked \/ WatchdogChecks \/ TypedSent \/ \E c \in Calls : ToolFiller(c)
    PROVE  Calm /\ Mild
<1> USE Shared DEF session, caller, server, reading, output, tools
<1>s. Started
  BY DEF GInv
<1>1. UNCHANGED server \/ \E p : Create(p)
  BY DEF WatchdogAsked, WatchdogChecks, TypedSent, ToolFiller, Swallowed, Raises
<1>2. /\ call' = call /\ run' = run /\ reader' = reader /\ armed' = armed
      /\ watch' = "on" => watch = "on"
  BY DEF WatchdogAsked, WatchdogChecks, TypedSent, ToolFiller
<1>l. left'.drops = left.drops
  BY DEF WatchdogAsked, WatchdogChecks, TypedSent, ToolFiller, Spend, Limits
<1>3. sock' = sock
  BY <1>1 DEF Create
<1>4. \/ tool' = tool
      \/ \E c \in Calls : tool[c] = "fill" /\ \E p \in {"call", "over"} : tool' = [tool EXCEPT ![c] = p]
  BY DEF WatchdogAsked, WatchdogChecks, TypedSent, ToolFiller, Step
<1>5. Sound
  BY <1>1, <1>2, <1>l, CreateEvents DEF Sound
<1>6. Mild
  <2>1. /\ late => late'
        /\ OpenAI => purpose' = purpose \/ \E p : purpose' = Append(purpose, p)
    BY <1>1, CreateEvents
  <2>2. Leaving' => Leaving
    BY <1>2, <1>4 DEF Leaving
  <2>3. QED
    BY <1>2, <1>l, <2>1, <2>2 DEF Mild
<1>7. Started'
  BY <1>2, <1>4, <1>s DEF Started
<1>8. QED
  BY <1>2, <1>3, <1>5, <1>6, <1>7, <1>l DEF Calm, Open

\* Other steps of a tool call.
LEMMA ToolSteps ==
    ASSUME SInv, GInv, NEW c \in Calls,
           ToolStarts(c) \/ ToolCalled(c) \/ ToolEnds(c) \/ ProviderCalls(c) \/ ProviderRevokes(c)
    PROVE  Calm /\ Mild
<1> USE Shared DEF session, caller, server, reading, output, tools
<1>s. Started
  BY DEF GInv
<1>1. CASE ToolStarts(c)
  BY <1>s, <1>1 DEF ToolStarts, Step, Calm, Sound, Mild, Started, Open, Leaving
<1>2. CASE ToolCalled(c)
  BY <1>s, <1>2 DEF ToolCalled, Step, Calm, Sound, Mild, Started, Open, Leaving
<1>3. CASE ToolEnds(c)
  BY <1>s, <1>3 DEF ToolEnds, Step, Calm, Sound, Mild, Started, Open, Leaving
<1>4. CASE ProviderCalls(c)
  <2>1. ToolEvent("call", c) \in ProviderEvents /\ ToolEvent("call", c).e = "call"
    BY EventTypes
  <2>2. QED
    BY <1>s, <1>4, <2>1 DEF ProviderCalls, Calm, Sound, Mild, Started, Open, Leaving
<1>5. CASE ProviderRevokes(c)
  <2>1. ToolEvent("revoke", c) \in ProviderEvents /\ ToolEvent("revoke", c).e = "revoke"
    BY EventTypes
  <2>2. QED
    BY <1>s, <1>5, <2>1 DEF ProviderRevokes, Calm, Sound, Mild, Started, Open, Leaving
<1>6. QED
  BY <1>1, <1>2, <1>3, <1>4, <1>5

\* The greeting starts the loops; nothing has armed the hangup by then.
LEMMA GreetStep ==
    ASSUME SInv, GInv, Greet
    PROVE  Calm /\ ArmedBehind'
<1> USE Shared DEF session, caller, server, reading, output, tools
<1>s. Started
  BY DEF GInv
<1>1. UNCHANGED server \/ \E p : Create(p)
  BY DEF Greet, Raises
<1>2. call' = call /\ left' = left /\ armed' = armed /\ tool' = tool /\ run = "greet"
  BY DEF Greet
<1>3. Sound
  BY <1>1, <1>2, CreateEvents DEF Sound
<1>4. ~Leaving'
  BY <1>2, <1>s DEF Leaving, Started
<1>5. /\ run' \in {"live", "done"} /\ (reader' # reader => reader' = "read" /\ run' = "live")
      /\ sock' = sock
  BY DEF Greet, Create, Raises
<1>6. Started'
  BY <1>2, <1>5, <1>s DEF Started
<1>7. QED
  BY <1>2, <1>3, <1>4, <1>5, <1>6 DEF Calm, Open, ArmedBehind

\* end_call's result asks for the goodbye, and no completed turn is left to be read.
LEMMA CommitStep ==
    ASSUME SInv, SInv', GInv, NEW c \in Calls, ToolCommits(c)
    PROVE  Calm /\ ArmedBehind'
<1> USE Shared DEF session, caller, server, reading, output, tools
<1>s. Started
  BY DEF GInv
<1> DEFINE p == IF Kind[c] = "end" THEN "goodbye" ELSE "answer"
<1>1. /\ call' = call /\ left' = left /\ armed' = armed /\ run' = run /\ reader' = reader
      /\ watch' = watch /\ tool[c] = "commit"
  BY DEF ToolCommits
<1>2. \/ Create(p) /\ tool' = [tool EXCEPT ![c] = "sent"]
      \/ Swallowed /\ tool' = [tool EXCEPT ![c] = "sent"]
      \/ UNCHANGED server /\ tool' = [tool EXCEPT ![c] = "over"]
  BY DEF ToolCommits, Raises, Step
<1> HIDE DEF p
<1>3. Sound
  BY <1>1, <1>2, CreateEvents DEF Sound, Swallowed
<1>4. sock' = sock
  BY <1>2 DEF Create, Swallowed
<1>5. Started'
  BY <1>1, <1>2, <1>s DEF Started
<1>6. ASSUME Orderly', Leaving' PROVE Farewell(wire', purpose')
  <2>1. OpenAI /\ ~late' /\ Unbroken /\ watch = "on"
    BY <1>1, <1>6 DEF Orderly, OpenAI, Unbroken
  <2>2. ~late
    BY <1>2, <2>1, CreateEvents DEF Swallowed
  <2>3. sock = "open"
    BY <1>1, <1>s, <2>1 DEF Started, Open
  <2>4. CASE Leaving
    <3>1. Farewell(wire, purpose)
      BY <2>1, <2>2, <2>4 DEF GInv, ArmedBehind, Orderly
    <3>2. purpose' = purpose \/ \E q : purpose' = Append(purpose, q)
      BY <1>2, <2>1, CreateEvents DEF Swallowed
    <3>3. \A ev \in EventsOn(wire') : ev \in EventsOn(wire) \/ ev.e # "done"
      BY <1>2, CreateEvents DEF Swallowed
    <3>4. QED
      BY <3>1, <3>2, <3>3, FarewellKept
  <2>5. CASE ~Leaving
    <3>1. Kind[c] = "end" /\ tool' = [tool EXCEPT ![c] = "sent"]
      BY <1>1, <1>2, <1>6, <2>5 DEF Leaving
    <3>2. Create("goodbye")
      <4>1. tool'[c] = "sent"
        BY <3>1
      <4>2. Create(p)
        BY <1>2, <2>3, <4>1 DEF Swallowed
      <4>3. QED
        BY <3>1, <4>2 DEF p
    <3>3. /\ purpose' = Append(purpose, "goodbye")
          /\ \A ev \in EventsOn(wire') : ev.e # "done"
      BY <2>1, <3>2, CreateEvents
    <3>4. QED
      BY <3>3, FarewellAsked
  <2>6. QED
    BY <2>4, <2>5
<1>7. QED
  BY <1>1, <1>3, <1>4, <1>5, <1>6 DEF Calm, Open, ArmedBehind

-------------------------------------------------------------------------------
(* The specification.                                                       *)

\* The invariant holds when the session is set up.
LEMMA InitGoodbye == Init => GInv
<1> SUFFICES ASSUME Init PROVE GInv
  OBVIOUS
<1>1. left.drops = call.may.drops /\ left.drops \in Nat
  BY ScenariosAssumption DEF Init, Limits
<1>2. EventsOn(wire) = {}
  BY DEF Init, EventsOn
<1>3. QED
  BY <1>1, <1>2 DEF Init, GInv, DropsCount, Started, Connected, Open, Unclosed, ArmedBehind, Leaving

\* Every step keeps it.
LEMMA StepGoodbye == SInv /\ SInv' /\ GInv /\ [Next]_vars => GInv'
<1> SUFFICES ASSUME SInv, SInv', GInv, [Next]_vars PROVE GInv'
  OBVIOUS
<1>1. Calm /\ (Mild \/ ArmedBehind')
  <2>1. CASE ReaderStep
    BY <2>1, StillSteps, ReadSteps DEF ReaderStep
  <2>2. ASSUME NEW c \in Calls, ToolStep(c) PROVE Calm /\ (Mild \/ ArmedBehind')
    BY <2>2, ToolSteps, RequestSteps, CommitStep DEF ToolStep
  <2>3. CASE Environment
    BY <2>3, ProviderSteps, ToolSteps, StillSteps, RequestSteps DEF Environment
  <2>4. CASE Connect \/ Close \/ IngestStops \/ Teardown \/ TimerFires \/ PacerTick \/ Sent
    BY <2>4, StillSteps
  <2>5. CASE Greet \/ WatchdogAsked \/ TypedSent
    BY <2>5, GreetStep, RequestSteps
  <2>6. CASE UNCHANGED vars
    <3>1. left.drops \in Nat
      BY Shared
    <3>2. QED
      BY <2>6, <3>1 DEF vars, session, caller, server, reading, output, tools, Calm, Sound, Mild, Started, Open,
         Leaving, GInv, Connected
  <2>7. QED
    BY <2>1, <2>2, <2>3, <2>4, <2>5, <2>6 DEF Next
<1>2. DropsCount' /\ (Unbroken' => Unbroken) /\ Unclosed' /\ (Mild => ArmedBehind')
  BY <1>1, MildKeeps DEF Calm
<1>3. Started' /\ (Unbroken /\ left'.drops = left.drops => Open')
  BY <1>1 DEF Calm
<1>4. Connected'
  <2>1. Unbroken' => Unbroken /\ left'.drops = left.drops
    BY <1>1, <1>2 DEF Calm, Sound, Unbroken
  <2>2. QED
    BY <1>3, <2>1 DEF Connected
<1>5. QED
  BY <1>1, <1>2, <1>3, <1>4 DEF GInv

\* The goodbye stays in front of the hangup it armed (end_call in _s2s_execute_tool).
THEOREM GoodbyeInvariant == Spec => []GInv
<1>1. QED
  BY S2SInvariant, InitGoodbye, StepGoodbye, PTL DEF Spec

\* With OpenAI the turn whose completion hangs up after end_call is the goodbye or a later
\* one, whatever else the provider completes, the caller says or types and the other tools
\* ask for, as long as every request for a response waited for the turn before it, the
\* connection held and the watchdog had not armed the hangup itself (ResponseDone in
\* _s2s_event_loop, _wait_for_response_done).
THEOREM GoodbyeFirstHolds == Spec => GoodbyeFirst
<1> DEFINE First == (closing # "reader" /\ closing' = "reader" /\ OpenAI /\ ~late
                       /\ left.drops = call.may.drops /\ watch = "on")
                    => \E r \in 1..Head(wire).r : purpose[r] = "goodbye"
<1>1. SInv /\ GInv /\ [Next]_vars => [First]_vars
  <2> SUFFICES ASSUME SInv, GInv, Next, closing # "reader", closing' = "reader", Orderly
               PROVE  \E r \in 1..Head(wire).r : purpose[r] = "goodbye"
    BY DEF Orderly, Unbroken
  <2>1. ReadDone /\ armed
    <3> USE DEF session, caller, server, reading, output, tools, HangUp, Claims
    <3>1. CASE ReaderStep
      <4>1. armed \in BOOLEAN
        BY DEF SInv, TypeOK
      <4>2. CASE ReadDone
        BY <4>1, <4>2 DEF ReadDone
      <4>3. QED
        BY <3>1, <4>2 DEF ReaderStep, ReadAfterEnd, ReadCreated, ReadRejected, ReadAudio, Encoded, Finished,
           ReadSpeech, Cleared, ReadCall, ReadRevoke, ReadFatal, ReadClosed, Rested, Reconnected
    <3>2. ASSUME NEW c \in Calls, ToolStep(c) PROVE FALSE
      BY <3>2 DEF ToolStep, ToolStarts, ToolFiller, ToolCalled, ToolCommits, ToolEnds
    <3>3. CASE Environment
      BY <3>3 DEF Environment, ProviderReply, ProviderAudio, ProviderDone, CallerSpeaks, ProviderFails,
         ProviderCalls, ProviderRevokes, IngestEos, IngestFails, WatchdogHangsUp, WatchdogEndsWebCall,
         WatchdogChecks, Types
    <3>4. ASSUME \/ Connect \/ Greet \/ Close \/ IngestStops \/ Teardown \/ TimerFires \/ WatchdogAsked
                 \/ PacerTick \/ Sent \/ TypedSent
          PROVE  FALSE
      BY <3>4 DEF Connect, Greet, Close, IngestStops, Teardown, TimerFires, WatchdogAsked, PacerTick, Sent, TypedSent
    <3>5. QED
      BY <3>1, <3>2, <3>3, <3>4 DEF Next
  <2>2. PICK g \in 1..Len(purpose) :
          purpose[g] = "goodbye" /\ \A ev \in EventsOn(wire) : ev.e = "done" => g <= ev.r
    BY <2>1 DEF GInv, ArmedBehind, Leaving, Farewell
  <2>3. Head(wire) \in EventsOn(wire) /\ Head(wire).e = "done"
    BY <2>1, Shared DEF ReadDone, Reads
  <2>4. g <= Head(wire).r /\ Head(wire).r \in Nat
    <3>1. Head(wire) \in ProviderEvents
      BY <2>1 DEF SInv, TypeOK, ReadDone, Reads
    <3>2. QED
      BY <2>2, <2>3, <3>1, EventFields
  <2>5. QED
    BY <2>2, <2>4
<1>2. QED
  BY <1>1, S2SInvariant, GoodbyeInvariant, PTL DEF GoodbyeFirst, Spec
=============================================================================
