------------------------------ MODULE S2SProofs ------------------------------
(***************************************************************************)
(* A speech-to-speech call, proved: what a barge-in silenced stays silent,  *)
(* the end of a turn stays behind its audio, a call is handed over once, a  *)
(* withdrawn tool call is not answered, and the call ends as CallPromise    *)
(* says (its safety part).                                                  *)
(***************************************************************************)
EXTENDS S2S, TLAPS

-------------------------------------------------------------------------------
(* The inductive invariant.                                                 *)

\* Response r is newer than everything in the first n events of w: not older than audio,
\* and really newer than a completed turn or than what came before the caller spoke,
\* the audio in hand (of response c) included.
After(r, w, n, c) ==
    \A i \in 1..n :
      /\ w[i].e = "audio" => w[i].r <= r
      /\ w[i].e = "done" => w[i].r < r
      /\ w[i].e = "speech" => /\ c < r
                              /\ \A k \in 1..n : k < i /\ w[k].e = "audio" => w[k].r < r

\* Response r is newer than what was handled: the audio in hand (and strictly so
\* while the reader rd carries out a barge-in), the last barge-in x, and the turns d whose end is queued.
Beyond(r, c, x, rd, d) ==
    /\ c <= r /\ x < r /\ (rd = "clear" => c < r)
    /\ \A e \in d : e < r

\* The provider's events come in the order of its responses, of which a is generated now
\* (0 for none) and n have been created.
InOrder(w, a, n, c, x, rd, d) ==
    /\ a \in {0, n}
    /\ \A j \in 1..Len(w) : w[j].e \in {"audio", "done"} => w[j].r <= n
    /\ \A j \in 1..Len(w) : w[j].e = "audio" =>
         After(w[j].r, w, j - 1, c) /\ Beyond(w[j].r, c, x, rd, d)
    /\ a # 0 => After(a, w, Len(w), c) /\ Beyond(a, c, x, rd, d)
    /\ \A e \in d : e <= n

\* Turns whose end-of-stream packet is queued.
Ends(q) == {q[i].r : i \in {j \in 1..Len(q) : q[j].k = "end"}}

\* Queue q and pacer b hold audio that is newer than the last barge-in and than the
\* turns that ended before it; so is the audio in hand while it is encoded.
Playable(q, b, c, x, rd) ==
    /\ \A i \in 1..Len(q) : q[i].k = "audio" =>
         /\ x < q[i].r
         /\ \A j \in 1..Len(q) : j < i /\ q[j].k = "end" => q[j].r < q[i].r
    /\ \A i \in 1..Len(b) : x < b[i] /\ \A e \in Ends(q) : e < b[i]
    /\ rd = "encode" => x < c /\ \A e \in Ends(q) : e < c

\* A call is announced once, before its task starts; it is withdrawn while its
\* task is there, and a withdrawn call has no task.
Asked(w, tl, rv) ==
    /\ \A i, j \in 1..Len(w) :
         w[i].e = "call" /\ w[j].e = "call" /\ w[i].c = w[j].c => i = j
    /\ \A i \in 1..Len(w) : w[i].e = "call" => tl[w[i].c] = "none"
    /\ \A i \in 1..Len(w) : w[i].e = "revoke" => tl[w[i].c] # "none"
    /\ \A c \in rv : tl[c] = "over"

\* Transfers that are on their way to the webhook.
Dialling(tl) == {c \in Calls : Kind[c] = "transfer" /\ tl[c] \in {"fill", "call"}}

\* has_transfer is set from the first of them on, and there is no second.
HandsOver(tl, tr, n) ==
    /\ n <= 1
    /\ ~tr => n = 0 /\ Dialling(tl) = {}
    /\ n = 1 => Dialling(tl) = {}
    /\ \A c, d \in Dialling(tl) : c = d

SInv ==
    /\ TypeOK
    /\ InOrder(wire, active, Len(purpose), cur, cut, reader, Ends(outQ))
    /\ Playable(outQ, buf, cur, cut, reader)
    /\ Asked(wire, tool, revoked)
    /\ HandsOver(tool, transfer, posts)

-------------------------------------------------------------------------------
(* Events in order.                                                         *)

\* What an event carries.
LEMMA EventFields ==
    ASSUME NEW ev \in ProviderEvents
    PROVE  /\ ev.e \notin {"call", "revoke"} => ev.r \in Nat
           /\ ev.e \in {"call", "revoke"} => ev.c \in Calls
           /\ \A c \in Calls : ev.e = "call" /\ ev.c = c => ev = ToolEvent("call", c)
           /\ \A c \in Calls : ev.e = "revoke" /\ ev.c = c => ev = ToolEvent("revoke", c)
BY DEF ProviderEvents, ToolEvent

\* Events the provider and the reader use.
LEMMA EventTypes ==
    /\ \A e \in {"created", "audio", "done", "speech", "rejected", "fatal", "closed"}, r \in Nat :
         Event(e, r) \in ProviderEvents /\ Event(e, r).e = e /\ Event(e, r).r = r
    /\ \A e \in {"call", "revoke"}, c \in Calls :
         ToolEvent(e, c) \in ProviderEvents /\ ToolEvent(e, c).e = e /\ ToolEvent(e, c).c = c
BY DEF Event, ToolEvent, ProviderEvents

\* A longer wire has the same beginning.
LEMMA AfterPrefix ==
    ASSUME NEW w \in Seq(ProviderEvents), NEW ev \in ProviderEvents, NEW r, NEW c,
           NEW n \in 0..Len(w), After(r, w, n, c)
    PROVE  After(r, Append(w, ev), n, c)
<1>1. \A i \in 1..n : Append(w, ev)[i] = w[i]
  OBVIOUS
<1>2. QED
  BY <1>1 DEF After

\* An event that is no turn end and no speech is not newer than what follows.
LEMMA AfterMild ==
    ASSUME NEW w \in Seq(ProviderEvents), NEW ev \in ProviderEvents, NEW r \in Nat, NEW c \in Nat,
           After(r, w, Len(w), c), ev.e \notin {"done", "speech"}, ev.e = "audio" => ev.r <= r
    PROVE  After(r, Append(w, ev), Len(w) + 1, c)
<1> DEFINE v == Append(w, ev)
<1>1. /\ \A i \in 1..Len(w) : v[i] = w[i]
      /\ v[Len(w) + 1] = ev
  OBVIOUS
<1> HIDE DEF v
<1>l. Len(w) \in Nat
  OBVIOUS
<1>2. ASSUME NEW i \in 1..(Len(w) + 1)
      PROVE  /\ v[i].e = "audio" => v[i].r <= r
             /\ v[i].e = "done" => v[i].r < r
             /\ v[i].e = "speech" => /\ c < r
                                     /\ \A k \in 1..(Len(w) + 1) : k < i /\ v[k].e = "audio" => v[k].r < r
  <2>1. CASE i = Len(w) + 1
    BY <1>1, <2>1
  <2>2. CASE i # Len(w) + 1
    <3>1. i \in 1..Len(w) /\ v[i] = w[i]
      BY <1>1, <1>l, <2>2
    <3>2. \A k \in 1..(Len(w) + 1) : k < i => k \in 1..Len(w) /\ v[k] = w[k]
      BY <1>1, <1>l, <3>1
    <3>3. QED
      BY <3>1, <3>2 DEF After
  <2>3. QED
    BY <2>1, <2>2
<1>3. QED
  BY <1>2 DEF After, v

\* The provider adds an event that is no audio; if the turn goes on, none that ends it.
LEMMA OrderAppend ==
    ASSUME NEW w \in Seq(ProviderEvents), NEW ev \in ProviderEvents, NEW n \in Nat, NEW a, NEW c \in Nat,
           NEW x, NEW rd, NEW d, InOrder(w, a, n, c, x, rd, d),
           ev.e # "audio", ev.e = "done" => ev.r <= n,
           NEW b \in {0, a}, b # 0 => ev.e \notin {"done", "speech"}
    PROVE  InOrder(Append(w, ev), b, n, c, x, rd, d)
<1> DEFINE v == Append(w, ev)
<1>1. /\ \A i \in 1..Len(w) : v[i] = w[i]
      /\ v[Len(w) + 1] = ev /\ Len(v) = Len(w) + 1 /\ Len(w) \in Nat
  OBVIOUS
<1>p. \A r : \A j \in 0..Len(w) : After(r, w, j, c) => After(r, v, j, c)
  BY AfterPrefix
<1>m. ASSUME b # 0 PROVE After(b, v, Len(v), c)
  <2>1. b = a /\ a = n /\ After(b, w, Len(w), c)
    BY <1>m DEF InOrder
  <2>2. After(b, v, Len(w) + 1, c)
    BY <1>m, <2>1, AfterMild
  <2>3. QED
    BY <1>1, <2>2
<1> HIDE DEF v
<1>2. \A j \in 1..Len(v) : v[j].e \in {"audio", "done"} => v[j].r <= n
  BY <1>1 DEF InOrder
<1>3. ASSUME NEW j \in 1..Len(v), v[j].e = "audio"
      PROVE  After(v[j].r, v, j - 1, c) /\ Beyond(v[j].r, c, x, rd, d)
  <2>1. j \in 1..Len(w) /\ v[j] = w[j] /\ j - 1 \in 0..Len(w)
    BY <1>1, <1>3
  <2>2. QED
    BY <1>3, <1>p, <2>1 DEF InOrder
<1>4. b # 0 => After(b, v, Len(v), c) /\ Beyond(b, c, x, rd, d)
  BY <1>m DEF InOrder
<1>5. QED
  BY <1>2, <1>3, <1>4 DEF InOrder, v

\* The provider adds audio of the response it is generating.
LEMMA OrderAudio ==
    ASSUME NEW w \in Seq(ProviderEvents), NEW n \in Nat, NEW a \in Nat, NEW c \in Nat,
           NEW x, NEW rd, NEW d, InOrder(w, a, n, c, x, rd, d), a # 0
    PROVE  InOrder(Append(w, Event("audio", a)), a, n, c, x, rd, d)
<1> DEFINE ev == Event("audio", a)
<1> DEFINE v == Append(w, ev)
<1>0. ev \in ProviderEvents /\ ev.e = "audio" /\ ev.r = a
  BY EventTypes
<1> HIDE DEF ev
<1>1. /\ \A i \in 1..Len(w) : v[i] = w[i]
      /\ v[Len(w) + 1] = ev /\ Len(v) = Len(w) + 1 /\ Len(w) \in Nat
  BY <1>0
<1>p. \A r : \A j \in 0..Len(w) : After(r, w, j, c) => After(r, v, j, c)
  BY <1>0, AfterPrefix
<1>m. After(a, v, Len(w) + 1, c)
  BY <1>0, AfterMild DEF InOrder
<1> HIDE DEF v
<1>2. \A j \in 1..Len(v) : v[j].e \in {"audio", "done"} => v[j].r <= n
  BY <1>0, <1>1 DEF InOrder
<1>3. ASSUME NEW j \in 1..Len(v), v[j].e = "audio"
      PROVE  After(v[j].r, v, j - 1, c) /\ Beyond(v[j].r, c, x, rd, d)
  <2>1. CASE j = Len(w) + 1
    <3>1. After(a, v, Len(w), c)
      BY <1>1, <1>p DEF InOrder
    <3>2. v[j].r = a /\ j - 1 = Len(w)
      BY <1>0, <1>1, <2>1
    <3>3. QED
      BY <3>1, <3>2 DEF InOrder
  <2>2. CASE j # Len(w) + 1
    <3>1. j \in 1..Len(w) /\ v[j] = w[j] /\ j - 1 \in 0..Len(w)
      BY <1>1, <2>2
    <3>2. QED
      BY <1>3, <1>p, <3>1 DEF InOrder
  <2>3. QED
    BY <2>1, <2>2
<1>4. After(a, v, Len(v), c) /\ Beyond(a, c, x, rd, d)
  BY <1>1, <1>m DEF InOrder
<1>5. QED
  BY <1>2, <1>3, <1>4 DEF InOrder, v, ev

\* The provider breaks off.
LEMMA OrderStop ==
    ASSUME NEW w, NEW n, NEW a, NEW c, NEW x, NEW rd, NEW d, InOrder(w, a, n, c, x, rd, d)
    PROVE  InOrder(w, 0, n, c, x, rd, d)
BY DEF InOrder

\* A new response is newer than all before.
LEMMA OrderBegin ==
    ASSUME NEW w \in Seq(ProviderEvents), NEW n \in Nat, NEW a, NEW c \in 0..n, NEW x \in 0..n,
           NEW rd, NEW d \in SUBSET Nat, InOrder(w, a, n, c, x, rd, d)
    PROVE  InOrder(w, n + 1, n + 1, c, x, rd, d)
<1>1. \A j \in 1..Len(w) : w[j].e \in {"audio", "done"} => w[j].r <= n /\ w[j].r \in Nat
  <2>1. \A j \in 1..Len(w) : w[j] \in ProviderEvents
    OBVIOUS
  <2>2. QED
    BY <2>1, EventFields DEF InOrder
<1>2. After(n + 1, w, Len(w), c)
  BY <1>1 DEF After
<1>3. Beyond(n + 1, c, x, rd, d)
  BY DEF InOrder, Beyond
<1>4. \A j \in 1..Len(w) : w[j].e \in {"audio", "done"} => w[j].r <= n + 1
  BY <1>1
<1>5. \A e \in d : e <= n + 1
  BY DEF InOrder
<1>6. QED
  BY <1>2, <1>3, <1>4, <1>5 DEF InOrder

\* Reading an event leaves the order of the others.
LEMMA AfterTail ==
    ASSUME NEW w \in Seq(ProviderEvents), w # <<>>, NEW r, NEW c, NEW n \in 1..Len(w),
           After(r, w, n, c)
    PROVE  /\ After(r, Tail(w), n - 1, c)
           /\ Head(w).e = "audio" => Head(w).r <= r
           /\ Head(w).e = "done" => Head(w).r < r
           /\ Head(w).e = "speech" => c < r
           /\ Head(w).e = "audio" =>
                \A i \in 1..(n - 1) : Tail(w)[i].e = "speech" => Head(w).r < r
<1> DEFINE v == Tail(w)
<1>1. /\ Head(w) = w[1] /\ Len(v) = Len(w) - 1 /\ Len(w) \in Nat
      /\ \A i \in 1..(Len(w) - 1) : v[i] = w[i + 1]
  OBVIOUS
<1> HIDE DEF v
<1>2. 1 \in 1..n /\ \A i \in 1..(n - 1) : i + 1 \in 1..n /\ v[i] = w[i + 1]
  BY <1>1
<1>3. /\ Head(w).e = "audio" => Head(w).r <= r
      /\ Head(w).e = "done" => Head(w).r < r
      /\ Head(w).e = "speech" => c < r
  BY <1>1, <1>2 DEF After
<1>4. ASSUME NEW i \in 1..(n - 1)
      PROVE  /\ v[i].e = "audio" => v[i].r <= r
             /\ v[i].e = "done" => v[i].r < r
             /\ v[i].e = "speech" => /\ c < r /\ (Head(w).e = "audio" => Head(w).r < r)
                                     /\ \A k \in 1..(n - 1) : k < i /\ v[k].e = "audio" => v[k].r < r
  <2>1. i + 1 \in 1..n /\ v[i] = w[i + 1] /\ 1 < i + 1
    BY <1>2
  <2>2. ASSUME NEW k \in 1..(n - 1), k < i, v[i].e = "speech", v[k].e = "audio" PROVE v[k].r < r
    <3>1. k + 1 \in 1..n /\ v[k] = w[k + 1] /\ k + 1 < i + 1
      BY <1>2, <2>2
    <3>2. QED
      BY <2>1, <2>2, <3>1 DEF After
  <2>3. QED
    BY <1>1, <1>2, <2>1, <2>2 DEF After
<1>5. QED
  BY <1>3, <1>4 DEF After, v

\* A reader that takes audio has a later response in hand, if any.
LEMMA AfterHand ==
    ASSUME NEW w, NEW r, NEW c, NEW n, NEW h, After(r, w, n, c),
           \A i \in 1..n : w[i].e = "speech" => h < r
    PROVE  After(r, w, n, h)
BY DEF After

\* An event is read: audio comes in hand, speech may start a barge-in, a
\* completed turn queues its end.
LEMMA OrderRead ==
    ASSUME NEW w \in Seq(ProviderEvents), w # <<>>, NEW n \in Nat, NEW a, NEW c, NEW x, NEW rd,
           NEW d, InOrder(w, a, n, c, x, rd, d), NEW next
    PROVE  /\ InOrder(Tail(w), a, n, c, x, rd, d)
           /\ Head(w).e = "audio" /\ next # "clear" => InOrder(Tail(w), a, n, Head(w).r, x, next, d)
           /\ Head(w).e = "audio" => Beyond(Head(w).r, c, x, rd, d) /\ Head(w).r <= n
           /\ Head(w).e = "speech" => InOrder(Tail(w), a, n, c, x, next, d)
           /\ Head(w).e = "done" => InOrder(Tail(w), a, n, c, x, rd, d \cup {Head(w).r})
<1> DEFINE v == Tail(w)
<1>1. /\ Head(w) = w[1] /\ Len(v) = Len(w) - 1 /\ Len(w) \in Nat /\ Len(w) \in 1..Len(w)
      /\ \A i \in 1..Len(v) : v[i] = w[i + 1] /\ i + 1 \in 1..Len(w)
  OBVIOUS
<1>t. \A r : \A m \in 1..Len(w) : After(r, w, m, c) =>
        /\ After(r, v, m - 1, c)
        /\ Head(w).e = "audio" => Head(w).r <= r /\ After(r, v, m - 1, Head(w).r)
        /\ Head(w).e = "done" => Head(w).r < r
        /\ Head(w).e = "speech" => c < r
  BY AfterTail, AfterHand
<1> HIDE DEF v
<1>2. /\ \A j \in 1..Len(v) : v[j].e \in {"audio", "done"} => v[j].r <= n
      /\ Head(w).e \in {"audio", "done"} => Head(w).r <= n
  BY <1>1 DEF InOrder
<1>3. ASSUME NEW j \in 1..Len(v), v[j].e = "audio"
      PROVE  /\ After(v[j].r, v, j - 1, c) /\ Beyond(v[j].r, c, x, rd, d)
             /\ Head(w).e = "audio" => Head(w).r <= v[j].r /\ After(v[j].r, v, j - 1, Head(w).r)
             /\ Head(w).e = "done" => Head(w).r < v[j].r
             /\ Head(w).e = "speech" => c < v[j].r
  <2>1. j + 1 \in 1..Len(w) /\ v[j] = w[j + 1] /\ (j + 1) - 1 = j /\ j \in 1..Len(w)
    BY <1>1
  <2>2. After(v[j].r, w, j, c) /\ Beyond(v[j].r, c, x, rd, d)
    BY <1>3, <2>1 DEF InOrder
  <2>3. QED
    BY <1>t, <2>1, <2>2
<1>4. ASSUME a # 0
      PROVE  /\ After(a, v, Len(v), c) /\ Beyond(a, c, x, rd, d)
             /\ Head(w).e = "audio" => Head(w).r <= a /\ After(a, v, Len(v), Head(w).r)
             /\ Head(w).e = "done" => Head(w).r < a
             /\ Head(w).e = "speech" => c < a
  <2>1. After(a, w, Len(w), c) /\ Beyond(a, c, x, rd, d)
    BY <1>4 DEF InOrder
  <2>2. QED
    BY <1>1, <1>t, <2>1
<1>5. InOrder(v, a, n, c, x, rd, d)
  BY <1>2, <1>3, <1>4 DEF InOrder
<1>6. ASSUME Head(w).e = "audio"
      PROVE  /\ next # "clear" => InOrder(v, a, n, Head(w).r, x, next, d)
             /\ Beyond(Head(w).r, c, x, rd, d) /\ Head(w).r <= n
  <2>1. Beyond(w[1].r, c, x, rd, d)
    BY <1>1, <1>6 DEF InOrder
  <2>2. \A j \in 1..Len(v) : v[j].e = "audio" =>
          After(v[j].r, v, j - 1, Head(w).r) /\ (next # "clear" => Beyond(v[j].r, Head(w).r, x, next, d))
    BY <1>3, <1>6 DEF Beyond
  <2>3. a # 0 => After(a, v, Len(v), Head(w).r) /\ (next # "clear" => Beyond(a, Head(w).r, x, next, d))
    BY <1>4, <1>6 DEF Beyond
  <2>4. QED
    BY <1>1, <1>2, <1>6, <2>1, <2>2, <2>3 DEF InOrder
<1>7. ASSUME Head(w).e = "speech" PROVE InOrder(v, a, n, c, x, next, d)
  BY <1>2, <1>3, <1>4, <1>7 DEF InOrder, Beyond
<1>8. ASSUME Head(w).e = "done" PROVE InOrder(v, a, n, c, x, rd, d \cup {Head(w).r})
  <2>1. \A j \in 1..Len(v) : v[j].e = "audio" => Beyond(v[j].r, c, x, rd, d \cup {Head(w).r})
    BY <1>3, <1>8 DEF Beyond
  <2>2. a # 0 => Beyond(a, c, x, rd, d \cup {Head(w).r})
    BY <1>4, <1>8 DEF Beyond
  <2>3. QED
    BY <1>2, <1>3, <1>4, <1>8, <2>1, <2>2 DEF InOrder
<1>9. QED
  BY <1>5, <1>6, <1>7, <1>8 DEF v

\* The barge-in that was being carried out is the last one now, and nothing is queued.
LEMMA OrderCleared ==
    ASSUME NEW w, NEW a, NEW n, NEW c, NEW x, NEW d, InOrder(w, a, n, c, x, "clear", d), NEW next, next # "clear"
    PROVE  InOrder(w, a, n, c, c, next, {})
BY DEF InOrder, Beyond

\* Fewer ends in the queue, or no barge-in under way, ask less.
LEMMA OrderLess ==
    ASSUME NEW w, NEW a, NEW n, NEW c, NEW x, NEW rd, NEW d, InOrder(w, a, n, c, x, rd, d),
           NEW f \in SUBSET d, NEW next, next = rd \/ next # "clear"
    PROVE  InOrder(w, a, n, c, x, next, f)
BY DEF InOrder, Beyond

-------------------------------------------------------------------------------
(* Queue and pacer.                                                         *)

\* The packets of the paced pieces.
LEMMA PacketsType ==
    ASSUME NEW p \in Seq(Nat)
    PROVE  /\ Packets(p) \in Seq(OutPackets) /\ Len(Packets(p)) = Len(p)
           /\ \A i \in 1..Len(p) : Packets(p)[i].k = "audio" /\ Packets(p)[i].r = p[i]
<1>1. DOMAIN p = 1..Len(p) /\ Len(p) \in Nat /\ \A i \in 1..Len(p) : p[i] \in Nat
  OBVIOUS
<1>2. Packets(p) = [i \in 1..Len(p) |-> [k |-> "audio", r |-> p[i]]]
  BY <1>1 DEF Packets
<1>3. \A i \in 1..Len(p) : Packets(p)[i].k = "audio" /\ Packets(p)[i].r = p[i]
  BY <1>1, <1>2
<1>4. Packets(p) \in [1..Len(p) -> OutPackets]
  BY <1>1, <1>2 DEF OutPackets
<1>5. Packets(p) \in Seq(OutPackets) /\ Len(Packets(p)) = Len(p)
  BY <1>1, <1>4
<1>6. QED
  BY <1>3, <1>5, Zenon

\* Two queues, one behind the other.
LEMMA Behind ==
    ASSUME NEW q \in Seq(OutPackets), NEW s \in Seq(OutPackets)
    PROVE  /\ q \o s \in Seq(OutPackets) /\ Len(q \o s) = Len(q) + Len(s)
           /\ Len(q) \in Nat /\ Len(s) \in Nat
           /\ \A i \in 1..Len(q) : (q \o s)[i] = q[i]
           /\ \A i \in 1..Len(q \o s) : i > Len(q) =>
                i - Len(q) \in 1..Len(s) /\ (q \o s)[i] = s[i - Len(q)]
OBVIOUS

\* Audio that is newer than the barge-in and the ends in the queue may follow them.
LEMMA PlayAudio ==
    ASSUME NEW q \in Seq(OutPackets), NEW p \in Seq(Nat), NEW x,
           \A i \in 1..Len(q) : q[i].k = "audio" =>
             x < q[i].r /\ \A j \in 1..Len(q) : j < i /\ q[j].k = "end" => q[j].r < q[i].r,
           \A i \in 1..Len(p) : x < p[i] /\ \A e \in Ends(q) : e < p[i]
    PROVE  /\ q \o Packets(p) \in Seq(OutPackets)
           /\ Ends(q \o Packets(p)) \subseteq Ends(q)
           /\ \A i \in 1..Len(q \o Packets(p)) : (q \o Packets(p))[i].k = "audio" =>
                /\ x < (q \o Packets(p))[i].r
                /\ \A j \in 1..Len(q \o Packets(p)) : j < i /\ (q \o Packets(p))[j].k = "end"
                     => (q \o Packets(p))[j].r < (q \o Packets(p))[i].r
<1> DEFINE pk == Packets(p)
           v == q \o pk
<1>1. /\ pk \in Seq(OutPackets) /\ Len(pk) = Len(p)
      /\ \A i \in 1..Len(p) : pk[i].k = "audio" /\ pk[i].r = p[i]
  BY PacketsType
<1> HIDE DEF pk
<1>2. /\ v \in Seq(OutPackets) /\ Len(v) = Len(q) + Len(p)
      /\ \A i \in 1..Len(q) : v[i] = q[i]
      /\ \A i \in 1..Len(v) : i > Len(q) => i - Len(q) \in 1..Len(p) /\ v[i] = pk[i - Len(q)]
      /\ Len(q) \in Nat /\ Len(p) \in Nat
  BY <1>1, Behind
<1> HIDE DEF v
<1>3. \A i \in 1..Len(v) : \/ i \in 1..Len(q) /\ v[i] = q[i]
                           \/ /\ i > Len(q) /\ v[i].k = "audio"
                              /\ x < v[i].r /\ \A e \in Ends(q) : e < v[i].r
  <2>1. ASSUME NEW i \in 1..Len(v), i > Len(q)
        PROVE  v[i].k = "audio" /\ x < v[i].r /\ \A e \in Ends(q) : e < v[i].r
    <3>1. i - Len(q) \in 1..Len(p) /\ v[i] = pk[i - Len(q)]
      BY <1>2, <2>1
    <3>2. v[i].k = "audio" /\ v[i].r = p[i - Len(q)]
      BY <1>1, <3>1
    <3>3. QED
      BY <3>1, <3>2
  <2>2. QED
    BY <1>2, <2>1
<1>4. ASSUME NEW j \in 1..Len(v), v[j].k = "end" PROVE v[j].r \in Ends(q)
  <2>1. j \in 1..Len(q) /\ v[j] = q[j]
    BY <1>3, <1>4
  <2>2. QED
    BY <1>4, <2>1 DEF Ends
<1>5. Ends(v) \subseteq Ends(q)
  BY <1>4 DEF Ends
<1>6. ASSUME NEW i \in 1..Len(v), v[i].k = "audio"
      PROVE  /\ x < v[i].r
             /\ \A j \in 1..Len(v) : j < i /\ v[j].k = "end" => v[j].r < v[i].r
  <2>1. CASE i > Len(q)
    BY <1>3, <1>4, <2>1
  <2>2. CASE ~(i > Len(q))
    <3>1. i \in 1..Len(q) /\ v[i] = q[i]
      BY <1>3, <2>2
    <3>2. \A j \in 1..Len(v) : j < i => j \in 1..Len(q) /\ v[j] = q[j]
      BY <1>2, <3>1
    <3>3. QED
      BY <1>6, <3>1, <3>2
  <2>3. QED
    BY <2>1, <2>2
<1>7. QED
  BY <1>2, <1>5, <1>6 DEF v, pk

\* The reader queues audio, or paces it.
LEMMA PlayEncoded ==
    ASSUME NEW q \in Seq(OutPackets), NEW b \in Seq(Nat), NEW c \in Nat, NEW x,
           Playable(q, b, c, x, "encode"), NEW next, next # "encode"
    PROVE  /\ Playable(q, Append(b, c), c, x, next)
           /\ Playable(Append(q, [k |-> "audio", r |-> c]), b, c, x, next)
           /\ Append(q, [k |-> "audio", r |-> c]) \in Seq(OutPackets)
           /\ Ends(Append(q, [k |-> "audio", r |-> c])) \subseteq Ends(q)
<1> DEFINE p == <<c>>
<1>1. p \in Seq(Nat) /\ Len(p) = 1 /\ p[1] = c
  OBVIOUS
<1>2. \A i \in 1..Len(p) : x < p[i] /\ \A e \in Ends(q) : e < p[i]
  BY <1>1 DEF Playable
<1>3. q \o Packets(p) = Append(q, [k |-> "audio", r |-> c])
  <2>1. Packets(p) = <<[k |-> "audio", r |-> c]>>
    BY DEF Packets
  <2>2. [k |-> "audio", r |-> c] \in OutPackets
    BY DEF OutPackets
  <2> DEFINE pkt == [k |-> "audio", r |-> c]
  <2>3. pkt \in OutPackets => q \o <<pkt>> = Append(q, pkt)
    <3> HIDE DEF pkt
    <3>1. QED
      OBVIOUS
  <2>4. QED
    BY <2>1, <2>2, <2>3
<1> HIDE DEF p
<1>4. /\ q \o Packets(p) \in Seq(OutPackets)
      /\ Ends(q \o Packets(p)) \subseteq Ends(q)
      /\ \A i \in 1..Len(q \o Packets(p)) : (q \o Packets(p))[i].k = "audio" =>
           /\ x < (q \o Packets(p))[i].r
           /\ \A j \in 1..Len(q \o Packets(p)) : j < i /\ (q \o Packets(p))[j].k = "end"
                => (q \o Packets(p))[j].r < (q \o Packets(p))[i].r
  BY <1>1, <1>2, PlayAudio DEF Playable
<1>5. Playable(q \o Packets(p), b, c, x, next)
  BY <1>4 DEF Playable
<1>6. Playable(q, Append(b, c), c, x, next)
  <2>1. \A i \in 1..Len(Append(b, c)) : Append(b, c)[i] = c \/ (i \in 1..Len(b) /\ Append(b, c)[i] = b[i])
    OBVIOUS
  <2>2. QED
    BY <2>1 DEF Playable
<1>7. QED
  BY <1>3, <1>4, <1>5, <1>6

\* A completed turn: all of the pacer, then the end of the stream.
LEMMA PlayDone ==
    ASSUME NEW q \in Seq(OutPackets), NEW b \in Seq(Nat), NEW c, NEW x, NEW r \in Nat, NEW rd,
           Playable(q, b, c, x, rd), NEW next, next # "encode"
    PROVE  /\ q \o Packets(b) \o <<[k |-> "end", r |-> r]>> \in Seq(OutPackets)
           /\ Ends(q \o Packets(b) \o <<[k |-> "end", r |-> r]>>) \subseteq Ends(q) \cup {r}
           /\ Playable(q \o Packets(b) \o <<[k |-> "end", r |-> r]>>, <<>>, c, x, next)
<1> DEFINE u == q \o Packets(b)
           pkt == [k |-> "end", r |-> r]
           v == Append(u, pkt)
<1>1. /\ u \in Seq(OutPackets)
      /\ Ends(u) \subseteq Ends(q)
      /\ \A i \in 1..Len(u) : u[i].k = "audio" =>
           /\ x < u[i].r
           /\ \A j \in 1..Len(u) : j < i /\ u[j].k = "end" => u[j].r < u[i].r
  BY PlayAudio DEF Playable
<1>2. pkt \in OutPackets /\ pkt.k = "end" /\ pkt.r = r
  BY DEF OutPackets
<1> HIDE DEF u, pkt
<1>3. /\ u \o <<pkt>> = v /\ v \in Seq(OutPackets) /\ Len(v) = Len(u) + 1 /\ Len(u) \in Nat
      /\ \A i \in 1..Len(u) : v[i] = u[i]
      /\ v[Len(u) + 1] = pkt
  BY <1>1, <1>2
<1> HIDE DEF v
<1>4. Ends(v) \subseteq Ends(u) \cup {r}
  <2>1. \A j \in 1..Len(v) : v[j].r = r \/ (j \in 1..Len(u) /\ v[j] = u[j])
    BY <1>2, <1>3
  <2>2. QED
    BY <2>1 DEF Ends
<1>5. ASSUME NEW i \in 1..Len(v), v[i].k = "audio"
      PROVE  x < v[i].r /\ \A j \in 1..Len(v) : j < i /\ v[j].k = "end" => v[j].r < v[i].r
  <2>1. i \in 1..Len(u) /\ v[i] = u[i]
    BY <1>2, <1>3, <1>5
  <2>2. \A j \in 1..Len(v) : j < i => j \in 1..Len(u) /\ v[j] = u[j]
    BY <1>3, <2>1
  <2>3. QED
    BY <1>1, <1>5, <2>1, <2>2
<1>6. Playable(v, <<>>, c, x, next)
  BY <1>5 DEF Playable
<1>7. QED
  BY <1>1, <1>3, <1>4, <1>6 DEF u, v, pkt

\* A tick of the pacer.
LEMMA PlayTick ==
    ASSUME NEW q \in Seq(OutPackets), NEW b \in Seq(Nat), NEW c, NEW x, NEW rd, NEW n \in 1..Len(b),
           Playable(q, b, c, x, rd)
    PROVE  /\ q \o Packets(SubSeq(b, 1, n)) \in Seq(OutPackets)
           /\ SubSeq(b, n + 1, Len(b)) \in Seq(Nat)
           /\ Ends(q \o Packets(SubSeq(b, 1, n))) \subseteq Ends(q)
           /\ Playable(q \o Packets(SubSeq(b, 1, n)), SubSeq(b, n + 1, Len(b)), c, x, rd)
<1> DEFINE p == SubSeq(b, 1, n)
           s == SubSeq(b, n + 1, Len(b))
<1>1. /\ p \in Seq(Nat) /\ \A i \in 1..Len(p) : i \in 1..Len(b) /\ p[i] = b[i]
      /\ s \in Seq(Nat) /\ \A i \in 1..Len(s) : i + n \in 1..Len(b) /\ s[i] = b[i + n]
  OBVIOUS
<1> HIDE DEF p, s
<1>2. /\ \A i \in 1..Len(p) : x < p[i] /\ \A e \in Ends(q) : e < p[i]
      /\ \A i \in 1..Len(s) : x < s[i] /\ \A e \in Ends(q) : e < s[i]
  BY <1>1 DEF Playable
<1>3. /\ q \o Packets(p) \in Seq(OutPackets)
      /\ Ends(q \o Packets(p)) \subseteq Ends(q)
      /\ \A i \in 1..Len(q \o Packets(p)) : (q \o Packets(p))[i].k = "audio" =>
           /\ x < (q \o Packets(p))[i].r
           /\ \A j \in 1..Len(q \o Packets(p)) : j < i /\ (q \o Packets(p))[j].k = "end"
                => (q \o Packets(p))[j].r < (q \o Packets(p))[i].r
  BY <1>1, <1>2, PlayAudio DEF Playable
<1>4. Playable(q \o Packets(p), s, c, x, rd)
  BY <1>2, <1>3 DEF Playable
<1>5. QED
  BY <1>1, <1>3, <1>4 DEF p, s

\* The output loop takes a packet.
LEMMA PlaySent ==
    ASSUME NEW q \in Seq(OutPackets), q # <<>>, NEW b, NEW c, NEW x, NEW rd, Playable(q, b, c, x, rd)
    PROVE  /\ Tail(q) \in Seq(OutPackets) /\ Ends(Tail(q)) \subseteq Ends(q)
           /\ Playable(Tail(q), b, c, x, rd)
<1> DEFINE v == Tail(q)
<1>1. /\ v \in Seq(OutPackets)
      /\ \A i \in 1..Len(v) : i + 1 \in 1..Len(q) /\ v[i] = q[i + 1]
  OBVIOUS
<1> HIDE DEF v
<1>2. Ends(v) \subseteq Ends(q)
  BY <1>1 DEF Ends
<1>3. ASSUME NEW i \in 1..Len(v), v[i].k = "audio"
      PROVE  x < v[i].r /\ \A j \in 1..Len(v) : j < i /\ v[j].k = "end" => v[j].r < v[i].r
  <2>1. \A j \in 1..Len(v) : j < i => j + 1 < i + 1
    BY <1>1
  <2>2. QED
    BY <1>1, <1>3, <2>1 DEF Playable
<1>4. QED
  BY <1>1, <1>2, <1>3 DEF Playable, v

\* New audio comes in hand.
LEMMA PlayHand ==
    ASSUME NEW q, NEW b, NEW c, NEW x, NEW rd, NEW h, NEW next, Playable(q, b, c, x, rd)
    PROVE  /\ Beyond(h, c, x, rd, Ends(q)) => Playable(q, b, h, x, next)
           /\ next # "encode" => Playable(q, b, c, x, next)
BY DEF Playable, Beyond

\* Nothing is queued: nothing to say.
LEMMA PlayNothing ==
    ASSUME NEW c, NEW x, NEW next, next # "encode"
    PROVE  Playable(<<>>, <<>>, c, x, next) /\ Ends(<<>>) = {}
BY DEF Playable, Ends

-------------------------------------------------------------------------------
(* Tool calls.                                                              *)

Places == {"none", "start", "fill", "call", "commit", "sent", "over"}

\* The provider sends something else, a new call, or withdraws one that has a task.
LEMMA AskedMore ==
    ASSUME NEW w \in Seq(ProviderEvents), NEW ev \in ProviderEvents, NEW tl, NEW rv, Asked(w, tl, rv),
           ev.e = "call" => tl[ev.c] = "none" /\ \A i \in 1..Len(w) : w[i].e = "call" => w[i].c # ev.c,
           ev.e = "revoke" => tl[ev.c] # "none"
    PROVE  Asked(Append(w, ev), tl, rv)
<1> DEFINE v == Append(w, ev)
<1>1. /\ \A i \in 1..Len(w) : v[i] = w[i]
      /\ v[Len(w) + 1] = ev
      /\ \A i \in 1..Len(v) : i \in 1..Len(w) \/ i = Len(w) + 1
  OBVIOUS
<1> HIDE DEF v
<1>2. \A i, j \in 1..Len(v) : v[i].e = "call" /\ v[j].e = "call" /\ v[i].c = v[j].c => i = j
  BY <1>1 DEF Asked
<1>3. \A i \in 1..Len(v) : /\ v[i].e = "call" => tl[v[i].c] = "none"
                           /\ v[i].e = "revoke" => tl[v[i].c] # "none"
  BY <1>1 DEF Asked
<1>4. QED
  BY <1>2, <1>3 DEF Asked, v

\* The reader takes an event: a call starts a task, a withdrawal ends it.
LEMMA AskedRead ==
    ASSUME NEW w \in Seq(ProviderEvents), w # <<>>, NEW tl \in [Calls -> Places], NEW rv, Asked(w, tl, rv)
    PROVE  /\ Asked(Tail(w), tl, rv)
           /\ Head(w).e = "call" => Asked(Tail(w), [tl EXCEPT ![Head(w).c] = "start"], rv)
           /\ Head(w).e = "revoke" =>
                Asked(Tail(w), [tl EXCEPT ![Head(w).c] = "over"], rv \cup {Head(w).c})
<1> DEFINE v == Tail(w)
           c == Head(w).c
<1>1. /\ Head(w) = w[1] /\ 1 \in 1..Len(w)
      /\ \A i \in 1..Len(v) : i + 1 \in 1..Len(w) /\ v[i] = w[i + 1] /\ i + 1 # 1 /\ v[i] \in ProviderEvents
      /\ \A i, j \in 1..Len(v) : i + 1 = j + 1 => i = j
  OBVIOUS
<1>c. \A i \in 1..Len(v) : v[i].e \in {"call", "revoke"} => v[i].c \in Calls
  BY <1>1, EventFields
<1>d. Head(w).e \in {"call", "revoke"} => c \in Calls
  <2>1. Head(w) \in ProviderEvents
    OBVIOUS
  <2>2. QED
    BY <2>1, EventFields
<1> HIDE DEF v
<1>2. /\ \A i, j \in 1..Len(v) : v[i].e = "call" /\ v[j].e = "call" /\ v[i].c = v[j].c => i = j
      /\ \A i \in 1..Len(v) : v[i].e = "call" => tl[v[i].c] = "none"
      /\ \A i \in 1..Len(v) : v[i].e = "revoke" => tl[v[i].c] # "none"
      /\ \A b \in rv : tl[b] = "over"
  <2>1. ASSUME NEW i \in 1..Len(v), NEW j \in 1..Len(v), v[i].e = "call", v[j].e = "call", v[i].c = v[j].c
        PROVE  i = j
    <3>1. i + 1 = j + 1
      BY <1>1, <2>1 DEF Asked
    <3>2. QED
      BY <1>1, <3>1
  <2>2. QED
    BY <1>1, <2>1 DEF Asked
<1>3. ASSUME Head(w).e = "call" PROVE Asked(v, [tl EXCEPT ![c] = "start"], rv)
  <2>1. c \in Calls /\ tl[c] = "none" /\ \A i \in 1..Len(v) : v[i].e = "call" => v[i].c # c
    BY <1>1, <1>3, <1>d DEF Asked
  <2> HIDE DEF c
  <2>2. \A b : b # c => [tl EXCEPT ![c] = "start"][b] = tl[b]
    OBVIOUS
  <2>3. [tl EXCEPT ![c] = "start"][c] = "start"
    BY <2>1
  <2>4. \A b \in rv : b # c
    BY <1>2, <2>1
  <2>5. QED
    BY <1>2, <2>1, <2>2, <2>3, <2>4 DEF Asked
<1>4. ASSUME Head(w).e = "revoke" PROVE Asked(v, [tl EXCEPT ![c] = "over"], rv \cup {c})
  <2>1. c \in Calls /\ tl[c] # "none" /\ \A i \in 1..Len(v) : v[i].e = "call" => v[i].c # c
    BY <1>1, <1>2, <1>4, <1>d DEF Asked
  <2> HIDE DEF c
  <2>2. \A b : b # c => [tl EXCEPT ![c] = "over"][b] = tl[b]
    OBVIOUS
  <2>3. [tl EXCEPT ![c] = "over"][c] = "over"
    BY <2>1
  <2>4. QED
    BY <1>2, <2>1, <2>2, <2>3 DEF Asked
<1>5. Asked(v, tl, rv)
  BY <1>2 DEF Asked
<1>6. QED
  BY <1>3, <1>4, <1>5 DEF v, c

\* A task moves on.
LEMMA AskedMoves ==
    ASSUME NEW w, NEW tl \in [Calls -> Places], NEW rv, Asked(w, tl, rv), NEW c \in Calls,
           tl[c] \notin {"none", "over"}, NEW p \in Places, p # "none"
    PROVE  Asked(w, [tl EXCEPT ![c] = p], rv)
<1> DEFINE new == [tl EXCEPT ![c] = p]
<1>1. (\A b : b # c => new[b] = tl[b]) /\ new[c] = p
  OBVIOUS
<1> HIDE DEF new
<1>2. \A b \in rv : b # c
  BY DEF Asked
<1>3. /\ \A i \in 1..Len(w) : w[i].e = "call" => new[w[i].c] = "none"
      /\ \A i \in 1..Len(w) : w[i].e = "revoke" => new[w[i].c] # "none"
      /\ \A b \in rv : new[b] = "over"
  BY <1>1, <1>2 DEF Asked
<1>4. QED
  BY <1>3 DEF Asked, new

\* A task that is not on its way to the webhook, or has just got there.
LEMMA HandsMove ==
    ASSUME NEW tl \in [Calls -> Places], NEW tr, NEW n \in Nat, HandsOver(tl, tr, n), NEW c \in Calls,
           NEW p \in Places,
           \/ p \notin {"fill", "call"}
           \/ Kind[c] # "transfer"
           \/ tl[c] \in {"fill", "call"}
    PROVE  HandsOver([tl EXCEPT ![c] = p], tr, n)
<1>1. Dialling([tl EXCEPT ![c] = p]) \subseteq Dialling(tl)
  BY DEF Dialling
<1>2. QED
  BY <1>1 DEF HandsOver

-------------------------------------------------------------------------------
(* Steps: types.                                                            *)

\* A bound of the scenario is used up.
LEMMA SpendType ==
    ASSUME NEW x \in {"replies", "speech", "typed", "drops", "leaves", "silences"}, left \in Limits, Spend(x)
    PROVE  left' \in Limits
<1> USE DEF Spend, Limits
<1>1. CASE x = "replies"  BY <1>1
<1>2. CASE x = "speech"   BY <1>2
<1>3. CASE x = "typed"    BY <1>3
<1>4. CASE x = "drops"    BY <1>4
<1>5. CASE x = "leaves"   BY <1>5
<1>6. CASE x = "silences" BY <1>6
<1>7. QED
  BY <1>1, <1>2, <1>3, <1>4, <1>5, <1>6

\* How a message that asks for a response, or the provider on its own, may change what the
\* provider does and what is on the wire: nothing, or a rejection; or a new response,
\* after speech that broke off the last one, and announced or not.
Asks ==
    \/ /\ active' = active /\ Len(purpose') = Len(purpose) /\ said' = said
       /\ wire' = wire \/ wire' = Append(wire, Event("rejected", 0))
    \/ /\ active' = Len(purpose) + 1 /\ Len(purpose') = Len(purpose) + 1 /\ said' = 0
       /\ \/ wire' = wire
          \/ wire' = Append(wire, Event("speech", 0))
          \/ wire' = Append(wire, Event("created", Len(purpose) + 1))

\* Begin is one of them.
LEMMA BeginAsks ==
    ASSUME TypeOK, NEW p \in Purposes, Begin(p, wire) \/ (~OpenAI /\ Begin(p, Append(wire, Event("speech", 0))))
    PROVE  purpose' \in Seq(Purposes) /\ Asks
<1>1. /\ purpose' = Append(purpose, p) /\ active' = Len(purpose) + 1 /\ said' = 0
  BY DEF Begin
<1>2. purpose' \in Seq(Purposes) /\ Len(purpose') = Len(purpose) + 1 /\ Len(purpose) + 1 \in Nat
  BY <1>1 DEF TypeOK
<1> DEFINE ev == Event("created", Len(purpose) + 1)
           sp == Event("speech", 0)
<1>3. ev \in ProviderEvents /\ sp \in ProviderEvents /\ wire \in Seq(ProviderEvents)
  BY <1>2, EventTypes DEF TypeOK
<1>4. \/ wire' = wire \o <<ev>> \/ wire' = wire \o <<>> \/ wire' = Append(wire, sp) \o <<>>
  BY DEF Begin
<1> HIDE DEF ev, sp
<1>5. /\ wire \o <<ev>> = Append(wire, ev) /\ wire \o <<>> = wire
      /\ Append(wire, sp) \o <<>> = Append(wire, sp)
  BY <1>3
<1>6. QED
  BY <1>1, <1>2, <1>4, <1>5 DEF Asks, ev, sp

\* So is every message that asks for a response.
LEMMA CreateAsks ==
    ASSUME TypeOK, NEW p \in Purposes, Create(p)
    PROVE  purpose' \in Seq(Purposes) /\ Asks /\ sock' = sock /\ late' \in BOOLEAN
<1>1. sock' = sock /\ late' \in BOOLEAN
  BY DEF Create, TypeOK
<1>2. CASE active = 0 /\ Begin(p, wire)
  BY <1>1, <1>2, BeginAsks
<1>3. CASE active # 0 /\ OpenAI /\ wire' = Append(wire, Event("rejected", 0))
             /\ UNCHANGED <<active, purpose, said>>
  BY <1>1, <1>3 DEF Asks, TypeOK
<1>4. CASE active # 0 /\ ~OpenAI /\ purpose' = [purpose EXCEPT ![active] = p] /\ UNCHANGED <<active, said, wire>>
  <2>1. purpose \in Seq(Purposes) /\ active \in 1..Len(purpose)
    BY <1>4 DEF TypeOK
  <2>2. purpose' \in Seq(Purposes) /\ Len(purpose') = Len(purpose)
    BY <1>4, <2>1
  <2>3. QED
    BY <1>1, <1>4, <2>2 DEF Asks
<1>5. CASE ~OpenAI /\ Begin(p, Append(wire, Event("speech", 0)))
  BY <1>1, <1>5, BeginAsks
<1>6. QED
  BY <1>2, <1>3, <1>4, <1>5 DEF Create

\* The types that such a step keeps.
LEMMA AsksType ==
    ASSUME TypeOK, purpose' \in Seq(Purposes), Asks, UNCHANGED call
    PROVE  /\ active' \in 0..Len(purpose') /\ said' \in 0..call'.audio /\ wire' \in Seq(ProviderEvents)
           /\ \A r \in 0..Len(purpose) : r \in 0..Len(purpose')
<1>1. Event("rejected", 0) \in ProviderEvents /\ Event("speech", 0) \in ProviderEvents
  BY EventTypes
<1>2. Len(purpose) \in Nat /\ Event("created", Len(purpose) + 1) \in ProviderEvents
  <2>1. Len(purpose) + 1 \in Nat /\ Len(purpose) \in Nat
    BY DEF TypeOK
  <2>2. QED
    BY <2>1, EventTypes
<1>0. wire \in Seq(ProviderEvents) /\ active \in 0..Len(purpose) /\ said \in 0..call.audio
  BY DEF TypeOK
<1> DEFINE a == Append(wire, Event("rejected", 0))
           b == Append(wire, Event("speech", 0))
           c == Append(wire, Event("created", Len(purpose) + 1))
<1>3. a \in Seq(ProviderEvents) /\ b \in Seq(ProviderEvents) /\ c \in Seq(ProviderEvents)
  BY <1>0, <1>1, <1>2
<1>4. wire' \in {wire, a, b, c}
  BY DEF Asks
<1> HIDE DEF a, b, c
<1>5. wire' \in Seq(ProviderEvents)
  BY <1>0, <1>3, <1>4
<1>6. call.audio \in Nat
  BY ScenariosAssumption DEF TypeOK
<1>7. \/ active' = active /\ Len(purpose') = Len(purpose) /\ said' = said
      \/ active' = Len(purpose) + 1 /\ Len(purpose') = Len(purpose) + 1 /\ said' = 0
  BY DEF Asks
<1>8. QED
  BY <1>0, <1>2, <1>5, <1>6, <1>7

-------------------------------------------------------------------------------
(* Steps: the order of events, queue, pacer, tool calls and hangup.         *)

\* Ends are numbers of responses.
LEMMA EndsType ==
    ASSUME NEW q \in Seq(OutPackets)
    PROVE  Ends(q) \in SUBSET Nat
<1>1. \A i \in 1..Len(q) : q[i] \in OutPackets
  OBVIOUS
<1>2. QED
  BY <1>1 DEF Ends, OutPackets

\* A request for a response keeps the order of the events, and asks for no tool.
LEMMA AsksKeeps ==
    ASSUME SInv, Asks, NEW next, next = reader \/ next # "clear"
    PROVE  /\ InOrder(wire', active', Len(purpose'), cur, cut, next, Ends(outQ))
           /\ Asked(wire', tool, revoked)
<1> DEFINE n == Len(purpose)
           rj == Event("rejected", 0)
           sp == Event("speech", 0)
           cr == Event("created", n + 1)
<1>1. /\ wire \in Seq(ProviderEvents) /\ n \in Nat /\ n + 1 \in Nat /\ cur \in 0..n /\ cut \in 0..n
      /\ Ends(outQ) \in SUBSET Nat /\ active \in Nat /\ cur \in Nat
  BY EndsType DEF SInv, TypeOK
<1>2. /\ rj \in ProviderEvents /\ rj.e = "rejected" /\ sp \in ProviderEvents /\ sp.e = "speech"
      /\ cr \in ProviderEvents /\ cr.e = "created"
  BY <1>1, EventTypes
<1>3. InOrder(wire, active, n, cur, cut, next, Ends(outQ)) /\ Asked(wire, tool, revoked)
  BY OrderLess DEF SInv
<1> HIDE DEF rj, sp, cr
<1>4. Asked(Append(wire, rj), tool, revoked) /\ Asked(Append(wire, sp), tool, revoked)
      /\ Asked(Append(wire, cr), tool, revoked)
  BY <1>1, <1>2, <1>3, AskedMore
<1>5. InOrder(Append(wire, rj), active, n, cur, cut, next, Ends(outQ))
  BY <1>1, <1>2, <1>3, OrderAppend
<1>6. InOrder(wire, n + 1, n + 1, cur, cut, next, Ends(outQ))
  BY <1>1, <1>3, OrderBegin
<1>7. InOrder(Append(wire, cr), n + 1, n + 1, cur, cut, next, Ends(outQ))
  BY <1>1, <1>2, <1>6, OrderAppend
<1>8. InOrder(Append(wire, sp), n + 1, n + 1, cur, cut, next, Ends(outQ))
  <2>1. Append(wire, sp) \in Seq(ProviderEvents)
    BY <1>1, <1>2
  <2>2. InOrder(Append(wire, sp), 0, n, cur, cut, next, Ends(outQ))
    BY <1>1, <1>2, <1>3, OrderAppend
  <2>3. QED
    BY <1>1, <2>1, <2>2, OrderBegin
<1>9. CASE active' = active /\ Len(purpose') = n /\ (wire' = wire \/ wire' = Append(wire, rj))
  BY <1>3, <1>4, <1>5, <1>9
<1>10. CASE /\ active' = n + 1 /\ Len(purpose') = n + 1
            /\ wire' = wire \/ wire' = Append(wire, sp) \/ wire' = Append(wire, cr)
  BY <1>3, <1>4, <1>6, <1>7, <1>8, <1>10
<1>11. QED
  BY <1>9, <1>10 DEF Asks, rj, sp, cr

\* The provider starts a reply.
LEMMA ProviderReplyKeeps ==
    ASSUME SInv, ProviderReply
    PROVE  SInv'
<1> USE DEF session, caller, server, reading, output, tools
<1>a. purpose' \in Seq(Purposes) /\ Asks
  <2>1. "reply" \in Purposes
    BY DEF Purposes
  <2>2. QED
    BY <2>1, BeginAsks DEF SInv, ProviderReply
<1>b. /\ active' \in 0..Len(purpose') /\ said' \in 0..call'.audio /\ wire' \in Seq(ProviderEvents)
      /\ \A r \in 0..Len(purpose) : r \in 0..Len(purpose')
  BY <1>a, AsksType DEF SInv, ProviderReply
<1>c. /\ InOrder(wire', active', Len(purpose'), cur, cut, reader, Ends(outQ))
      /\ Asked(wire', tool, revoked)
  BY <1>a, AsksKeeps
<1>l. left' \in Limits
  BY SpendType DEF SInv, TypeOK, ProviderReply
<1>1. TypeOK'
  BY <1>a, <1>b, <1>l DEF SInv, TypeOK, ProviderReply
<1>2. InOrder(wire', active', Len(purpose'), cur', cut', reader', Ends(outQ'))
  BY <1>c DEF ProviderReply
<1>3. Playable(outQ', buf', cur', cut', reader')
  BY DEF SInv, ProviderReply, Spend
<1>4. Asked(wire', tool', revoked')
  BY <1>c DEF ProviderReply
<1>5. HandsOver(tool', transfer', posts')
  BY DEF SInv, ProviderReply, Spend
<1>6. QED
  BY <1>1, <1>2, <1>3, <1>4, <1>5 DEF SInv

\* It sends audio.
LEMMA ProviderAudioKeeps ==
    ASSUME SInv, ProviderAudio
    PROVE  SInv'
<1> USE DEF session, caller, server, reading, output, tools
<1>w. /\ wire \in Seq(ProviderEvents) /\ active \in Nat /\ Len(purpose) \in Nat /\ cur \in Nat
      /\ active <= Len(purpose)
  BY DEF SInv, TypeOK

<1>v. Event("audio", active) \in ProviderEvents /\ Event("audio", active).e = "audio"
  BY <1>w, EventTypes
<1>s. said + 1 \in 0..call.audio
  BY ScenariosAssumption DEF SInv, TypeOK, ProviderAudio
<1>1. TypeOK'
  BY <1>w, <1>v, <1>s DEF SInv, TypeOK, ProviderAudio
<1>2. InOrder(wire', active', Len(purpose'), cur', cut', reader', Ends(outQ'))
  BY <1>w, OrderAudio DEF SInv, ProviderAudio
<1>3. Playable(outQ', buf', cur', cut', reader')
  BY DEF SInv, ProviderAudio, Talking
<1>4. Asked(wire', tool', revoked')
  BY <1>w, <1>v, AskedMore DEF SInv, ProviderAudio
<1>5. HandsOver(tool', transfer', posts')
  BY DEF SInv, ProviderAudio, Talking
<1>6. QED
  BY <1>1, <1>2, <1>3, <1>4, <1>5 DEF SInv

\* It completes the turn.
LEMMA ProviderDoneKeeps ==
    ASSUME SInv, ProviderDone
    PROVE  SInv'
<1> USE DEF session, caller, server, reading, output, tools
<1>w. /\ wire \in Seq(ProviderEvents) /\ active \in Nat /\ Len(purpose) \in Nat /\ cur \in Nat
      /\ active <= Len(purpose)
  BY DEF SInv, TypeOK

<1>v. /\ Event("done", active) \in ProviderEvents /\ Event("done", active).e = "done"
      /\ Event("done", active).r = active
  BY <1>w, EventTypes
<1>1. TypeOK'
  BY <1>w, <1>v DEF SInv, TypeOK, ProviderDone
<1>2. InOrder(wire', active', Len(purpose'), cur', cut', reader', Ends(outQ'))
  BY <1>w, <1>v, OrderAppend DEF SInv, ProviderDone
<1>3. Playable(outQ', buf', cur', cut', reader')
  BY DEF SInv, ProviderDone, Talking
<1>4. Asked(wire', tool', revoked')
  BY <1>w, <1>v, AskedMore DEF SInv, ProviderDone
<1>5. HandsOver(tool', transfer', posts')
  BY DEF SInv, ProviderDone, Talking
<1>6. QED
  BY <1>1, <1>2, <1>3, <1>4, <1>5 DEF SInv

\* The caller speaks up.
LEMMA CallerSpeaksKeeps ==
    ASSUME SInv, CallerSpeaks
    PROVE  SInv'
<1> USE DEF session, caller, server, reading, output, tools
<1>w. /\ wire \in Seq(ProviderEvents) /\ active \in Nat /\ Len(purpose) \in Nat /\ cur \in Nat
      /\ active <= Len(purpose)
  BY DEF SInv, TypeOK

<1>v. /\ Event("done", active) \in ProviderEvents /\ Event("done", active).e = "done"
      /\ Event("done", active).r = active
      /\ Event("speech", 0) \in ProviderEvents /\ Event("speech", 0).e = "speech"
  BY <1>w, EventTypes
<1> DEFINE sp == Event("speech", 0)
           dn == Event("done", active)
<1>e. \/ wire' = wire \o <<sp>> \o <<>>
      \/ wire' = wire \o <<sp>> \o <<dn>>
  BY DEF CallerSpeaks
<1> HIDE DEF sp, dn
<1>f. /\ wire \o <<sp>> \o <<>> = Append(wire, sp)
      /\ wire \o <<sp>> \o <<dn>> = Append(Append(wire, sp), dn)
      /\ Append(wire, sp) \in Seq(ProviderEvents)
      /\ Append(Append(wire, sp), dn) \in Seq(ProviderEvents)
  BY <1>w, <1>v DEF sp, dn
<1>g. /\ Asked(Append(wire, sp), tool, revoked)
      /\ InOrder(Append(wire, sp), 0, Len(purpose), cur, cut, reader, Ends(outQ))
  BY <1>w, <1>v, AskedMore, OrderAppend DEF SInv, sp
<1>h. /\ Asked(Append(Append(wire, sp), dn), tool, revoked)
      /\ InOrder(Append(Append(wire, sp), dn), 0, Len(purpose), cur, cut, reader, Ends(outQ))
  BY <1>w, <1>v, <1>f, <1>g, AskedMore, OrderAppend DEF dn
<1>i. wire' = Append(wire, sp) \/ wire' = Append(Append(wire, sp), dn)
  BY <1>e, <1>f
<1>l. left' \in Limits
  BY SpendType DEF SInv, TypeOK, CallerSpeaks
<1>j. wire' \in Seq(ProviderEvents)
  BY <1>f, <1>i
<1>1. TypeOK'
  BY <1>w, <1>j, <1>l DEF SInv, TypeOK, CallerSpeaks
<1>2. InOrder(wire', active', Len(purpose'), cur', cut', reader', Ends(outQ'))
  BY <1>g, <1>h, <1>i DEF CallerSpeaks
<1>3. Playable(outQ', buf', cur', cut', reader')
  BY DEF SInv, CallerSpeaks, Talking, Spend
<1>4. Asked(wire', tool', revoked')
  BY <1>g, <1>h, <1>i DEF CallerSpeaks
<1>5. HandsOver(tool', transfer', posts')
  BY DEF SInv, CallerSpeaks, Talking, Spend
<1>6. QED
  BY <1>1, <1>2, <1>3, <1>4, <1>5 DEF SInv

\* The connection closes, or fails for good.
LEMMA ProviderFailsKeeps ==
    ASSUME SInv, ProviderFails
    PROVE  SInv'
<1> USE DEF session, caller, server, reading, output, tools
<1>w. /\ wire \in Seq(ProviderEvents) /\ active \in Nat /\ Len(purpose) \in Nat /\ cur \in Nat
      /\ active <= Len(purpose)
  BY DEF SInv, TypeOK

<1>v. /\ Event("closed", 0) \in ProviderEvents /\ Event("closed", 0).e = "closed"
      /\ Event("fatal", 0) \in ProviderEvents /\ Event("fatal", 0).e = "fatal"
  BY EventTypes
<1>i. wire' = Append(wire, Event("closed", 0)) \/ wire' = Append(wire, Event("fatal", 0))
  BY DEF ProviderFails
<1>t. sock' \in {"open", "dead", "none"}
  BY DEF SInv, TypeOK, ProviderFails
<1>l. left' \in Limits
  BY SpendType DEF SInv, TypeOK, ProviderFails
<1>u. wire' \in Seq(ProviderEvents)
  BY <1>w, <1>v, <1>i
<1>1. TypeOK'
  BY <1>w, <1>u, <1>t, <1>l DEF SInv, TypeOK, ProviderFails
<1>2. InOrder(wire', active', Len(purpose'), cur', cut', reader', Ends(outQ'))
  <2>1. /\ InOrder(Append(wire, Event("closed", 0)), 0, Len(purpose), cur, cut, reader, Ends(outQ))
        /\ InOrder(Append(wire, Event("fatal", 0)), 0, Len(purpose), cur, cut, reader, Ends(outQ))
    BY <1>w, <1>v, OrderAppend DEF SInv
  <2>2. QED
    BY <1>i, <2>1 DEF ProviderFails
<1>3. Playable(outQ', buf', cur', cut', reader')
  BY DEF SInv, ProviderFails, Talking, Spend
<1>4. Asked(wire', tool', revoked')
  <2>1. /\ Asked(Append(wire, Event("closed", 0)), tool, revoked)
        /\ Asked(Append(wire, Event("fatal", 0)), tool, revoked)
    BY <1>w, <1>v, AskedMore DEF SInv
  <2>2. QED
    BY <1>i, <2>1 DEF ProviderFails
<1>5. HandsOver(tool', transfer', posts')
  BY DEF SInv, ProviderFails, Talking, Spend
<1>6. QED
  BY <1>1, <1>2, <1>3, <1>4, <1>5 DEF SInv

\* It calls a tool.
LEMMA ProviderCallsKeeps ==
    ASSUME SInv, NEW c \in Calls, ProviderCalls(c)
    PROVE  SInv'
<1> USE DEF session, caller, server, reading, output, tools
<1>w. /\ wire \in Seq(ProviderEvents) /\ active \in Nat /\ Len(purpose) \in Nat /\ cur \in Nat
      /\ active <= Len(purpose)
  BY DEF SInv, TypeOK

<1> DEFINE ev == ToolEvent("call", c)
<1>v. ev \in ProviderEvents /\ ev.e = "call" /\ ev.c = c /\ wire' = Append(wire, ev)
  BY EventTypes DEF ProviderCalls
<1>u. \A i \in 1..Len(wire) : wire[i].e = "call" => wire[i].c # c
  <2>1. \A i \in 1..Len(wire) : wire[i] # ev /\ wire[i] \in ProviderEvents
    BY <1>w DEF ProviderCalls
  <2>2. QED
    BY <2>1, EventFields
<1> HIDE DEF ev
<1>1. TypeOK'
  BY <1>w, <1>v DEF SInv, TypeOK, ProviderCalls
<1>2. InOrder(wire', active', Len(purpose'), cur', cut', reader', Ends(outQ'))
  BY <1>w, <1>v, OrderAppend DEF SInv, ProviderCalls
<1>3. Playable(outQ', buf', cur', cut', reader')
  BY DEF SInv, ProviderCalls, Talking
<1>4. Asked(wire', tool', revoked')
  BY <1>w, <1>v, <1>u, AskedMore DEF SInv, ProviderCalls
<1>5. HandsOver(tool', transfer', posts')
  BY DEF SInv, ProviderCalls, Talking
<1>6. QED
  BY <1>1, <1>2, <1>3, <1>4, <1>5 DEF SInv

\* It withdraws a call.
LEMMA ProviderRevokesKeeps ==
    ASSUME SInv, NEW c \in Calls, ProviderRevokes(c)
    PROVE  SInv'
<1> USE DEF session, caller, server, reading, output, tools
<1>w. /\ wire \in Seq(ProviderEvents) /\ active \in Nat /\ Len(purpose) \in Nat /\ cur \in Nat
      /\ active <= Len(purpose)
  BY DEF SInv, TypeOK

<1> DEFINE ev == ToolEvent("revoke", c)
<1>v. ev \in ProviderEvents /\ ev.e = "revoke" /\ ev.c = c /\ wire' = Append(wire, ev)
  BY EventTypes DEF ProviderRevokes
<1> HIDE DEF ev
<1>1. TypeOK'
  BY <1>w, <1>v DEF SInv, TypeOK, ProviderRevokes
<1>2. InOrder(wire', active', Len(purpose'), cur', cut', reader', Ends(outQ'))
  BY <1>w, <1>v, OrderAppend DEF SInv, ProviderRevokes
<1>3. Playable(outQ', buf', cur', cut', reader')
  BY DEF SInv, ProviderRevokes, Talking
<1>4. Asked(wire', tool', revoked')
  BY <1>w, <1>v, AskedMore DEF SInv, ProviderRevokes
<1>5. HandsOver(tool', transfer', posts')
  BY DEF SInv, ProviderRevokes, Talking
<1>6. QED
  BY <1>1, <1>2, <1>3, <1>4, <1>5 DEF SInv

\* The session connects, or fails to.
LEMMA ConnectKeeps ==
    ASSUME SInv, Connect
    PROVE  SInv'
<1> USE DEF session, caller, server, reading, output, tools
<1>1. TypeOK'
  BY DEF SInv, TypeOK, Connect
<1>2. InOrder(wire', active', Len(purpose'), cur', cut', reader', Ends(outQ'))
  BY DEF SInv, Connect
<1>3. Playable(outQ', buf', cur', cut', reader')
  BY DEF SInv, Connect
<1>4. Asked(wire', tool', revoked')
  BY DEF SInv, Connect
<1>5. HandsOver(tool', transfer', posts')
  BY DEF SInv, Connect
<1>6. QED
  BY <1>1, <1>2, <1>3, <1>4, <1>5 DEF SInv

\* The greeting, and the loops start.
LEMMA GreetKeeps ==
    ASSUME SInv, Greet
    PROVE  SInv'
<1> USE DEF session, caller, server, reading, output, tools
<1>p. reader' = reader \/ reader' = "read"
  BY DEF Greet
<1>a. \/ purpose' \in Seq(Purposes) /\ Asks /\ sock' = sock /\ late' \in BOOLEAN
      \/ UNCHANGED server
  <2>1. "welcome" \in Purposes
    BY DEF Purposes
  <2>2. QED
    BY <2>1, CreateAsks DEF SInv, Greet, Raises
<1>b. /\ active' \in 0..Len(purpose') /\ said' \in 0..call'.audio /\ wire' \in Seq(ProviderEvents)
      /\ purpose' \in Seq(Purposes) /\ sock' \in {"open", "dead", "none"} /\ late' \in BOOLEAN
      /\ \A r \in 0..Len(purpose) : r \in 0..Len(purpose')
  <2>1. CASE UNCHANGED server
    BY <2>1 DEF SInv, TypeOK, Greet
  <2>2. CASE purpose' \in Seq(Purposes) /\ Asks /\ sock' = sock /\ late' \in BOOLEAN
    BY <2>2, AsksType DEF SInv, TypeOK, Greet
  <2>3. QED
    BY <1>a, <2>1, <2>2
<1>c. /\ InOrder(wire', active', Len(purpose'), cur, cut, reader', Ends(outQ))
      /\ Asked(wire', tool, revoked)
  <2>1. CASE UNCHANGED server
    BY <1>p, <2>1, OrderLess DEF SInv
  <2>2. CASE Asks
    BY <1>p, <2>2, AsksKeeps
  <2>3. QED
    BY <1>a, <2>1, <2>2
<1>d. run' \in {"live", "done"} /\ ingest' \in BOOLEAN /\ watch' \in {"on", "goodbye", "off", "crashed"}
  BY DEF SInv, TypeOK, Greet
<1>1. TypeOK'
  BY <1>p, <1>b, <1>d DEF SInv, TypeOK, Greet
<1>2. InOrder(wire', active', Len(purpose'), cur', cut', reader', Ends(outQ'))
  BY <1>c DEF Greet
<1>3. Playable(outQ', buf', cur', cut', reader')
  BY <1>p, PlayHand DEF SInv, Greet
<1>4. Asked(wire', tool', revoked')
  BY <1>c DEF Greet
<1>5. HandsOver(tool', transfer', posts')
  BY DEF SInv, Greet, Raises
<1>6. QED
  BY <1>1, <1>2, <1>3, <1>4, <1>5 DEF SInv

\* The session is closed.
LEMMA CloseKeeps ==
    ASSUME SInv, Close
    PROVE  SInv'
<1> USE DEF session, caller, server, reading, output, tools
<1>t. /\ tool' \in [Calls -> Places] /\ \A c \in Calls : tool'[c] \in {"none", "over"}
      /\ \A c \in Calls : tool'[c] = "none" <=> tool[c] = "none"
  BY DEF SInv, TypeOK, Places, Close
<1>c. /\ closing' \in {"nobody", "reader", "timer", "watch"}
      /\ closing' # "nobody" => closing # "nobody"
  BY DEF SInv, TypeOK, Close
<1>1. TypeOK'
  BY <1>t, <1>c DEF SInv, TypeOK, Places, Close
<1>2. InOrder(wire', active', Len(purpose'), cur', cut', reader', Ends(outQ'))
  BY OrderLess DEF SInv, Close
<1>3. Playable(outQ', buf', cur', cut', reader')
  BY PlayHand DEF SInv, Close
<1>4. Asked(wire', tool', revoked')
  <2>1. \A i \in 1..Len(wire) : wire[i] \in ProviderEvents
    BY DEF SInv, TypeOK
  <2>2. \A i \in 1..Len(wire) : wire[i].e \in {"call", "revoke"} => wire[i].c \in Calls
    BY <2>1, EventFields
  <2>3. revoked \subseteq Calls
    BY DEF SInv, TypeOK
  <2>4. \A b \in revoked : tool'[b] = "over"
    BY <1>t, <2>3 DEF SInv, Asked
  <2>5. QED
    BY <1>t, <2>2, <2>4 DEF SInv, Asked, Close
<1>5. HandsOver(tool', transfer', posts')
  <2>1. Dialling(tool') = {}
    BY <1>t DEF Dialling
  <2>2. QED
    BY <2>1 DEF SInv, HandsOver, Close
<1>6. QED
  BY <1>1, <1>2, <1>3, <1>4, <1>5 DEF SInv

\* The caller left.
LEMMA IngestEosKeeps ==
    ASSUME SInv, IngestEos
    PROVE  SInv'
<1> USE DEF session, caller, server, reading, output, tools
<1>l. left' \in Limits
  BY SpendType DEF SInv, TypeOK, IngestEos
<1>1. TypeOK'
  <2>1. ended' \in BOOLEAN /\ ingest' \in BOOLEAN
    BY DEF IngestEos
  <2>2. QED
    BY <2>1, <1>l DEF SInv, TypeOK, IngestEos
<1>2. InOrder(wire', active', Len(purpose'), cur', cut', reader', Ends(outQ'))
  BY DEF SInv, IngestEos, Spend
<1>3. Playable(outQ', buf', cur', cut', reader')
  BY DEF SInv, IngestEos, Spend
<1>4. Asked(wire', tool', revoked')
  BY DEF SInv, IngestEos, Spend
<1>5. HandsOver(tool', transfer', posts')
  BY DEF SInv, IngestEos, Spend
<1>6. QED
  BY <1>1, <1>2, <1>3, <1>4, <1>5 DEF SInv

\* Caller audio meets a closed socket.
LEMMA IngestFailsKeeps ==
    ASSUME SInv, IngestFails
    PROVE  SInv'
<1> USE DEF session, caller, server, reading, output, tools
<1>1. TypeOK'
  <2>1. ended' \in BOOLEAN /\ ingest' \in BOOLEAN
    BY DEF IngestFails
  <2>2. QED
    BY <2>1 DEF SInv, TypeOK, IngestFails
<1>2. InOrder(wire', active', Len(purpose'), cur', cut', reader', Ends(outQ'))
  BY DEF SInv, IngestFails
<1>3. Playable(outQ', buf', cur', cut', reader')
  BY DEF SInv, IngestFails
<1>4. Asked(wire', tool', revoked')
  BY DEF SInv, IngestFails
<1>5. HandsOver(tool', transfer', posts')
  BY DEF SInv, IngestFails
<1>6. QED
  BY <1>1, <1>2, <1>3, <1>4, <1>5 DEF SInv

\* The ingest loop sees the end.
LEMMA IngestStopsKeeps ==
    ASSUME SInv, IngestStops
    PROVE  SInv'
<1> USE DEF session, caller, server, reading, output, tools
<1>1. TypeOK'
  <2>1. ingest' \in BOOLEAN
    BY DEF IngestStops
  <2>2. QED
    BY <2>1 DEF SInv, TypeOK, IngestStops
<1>2. InOrder(wire', active', Len(purpose'), cur', cut', reader', Ends(outQ'))
  BY DEF SInv, IngestStops
<1>3. Playable(outQ', buf', cur', cut', reader')
  BY DEF SInv, IngestStops
<1>4. Asked(wire', tool', revoked')
  BY DEF SInv, IngestStops
<1>5. HandsOver(tool', transfer', posts')
  BY DEF SInv, IngestStops
<1>6. QED
  BY <1>1, <1>2, <1>3, <1>4, <1>5 DEF SInv

\* The hangup ends the call.
LEMMA TeardownKeeps ==
    ASSUME SInv, Teardown
    PROVE  SInv'
<1> USE DEF session, caller, server, reading, output, tools
<1>1. TypeOK'
  BY DEF SInv, TypeOK, Teardown
<1>2. InOrder(wire', active', Len(purpose'), cur', cut', reader', Ends(outQ'))
  BY DEF SInv, Teardown
<1>3. Playable(outQ', buf', cur', cut', reader')
  BY DEF SInv, Teardown
<1>4. Asked(wire', tool', revoked')
  BY DEF SInv, Teardown
<1>5. HandsOver(tool', transfer', posts')
  BY DEF SInv, Teardown
<1>6. QED
  BY <1>1, <1>2, <1>3, <1>4, <1>5 DEF SInv

\* The goodbye timer wakes up.
LEMMA TimerFiresKeeps ==
    ASSUME SInv, TimerFires
    PROVE  SInv'
<1> USE DEF session, caller, server, reading, output, tools
<1>1. TypeOK'
  <2>1. timers' \in Nat
    BY DEF SInv, TypeOK, TimerFires
  <2>2. closing' \in {"nobody", "reader", "timer", "watch"}
    BY DEF SInv, TypeOK, TimerFires, HangUp, Claims
  <2>3. armed' \in BOOLEAN /\ hangup' \in BOOLEAN
    BY DEF SInv, TypeOK, TimerFires, HangUp, Claims
  <2>4. QED
    BY <2>1, <2>2, <2>3 DEF SInv, TypeOK, TimerFires
<1>2. InOrder(wire', active', Len(purpose'), cur', cut', reader', Ends(outQ'))
  BY DEF SInv, TimerFires, HangUp
<1>3. Playable(outQ', buf', cur', cut', reader')
  BY DEF SInv, TimerFires, HangUp
<1>4. Asked(wire', tool', revoked')
  BY DEF SInv, TimerFires, HangUp
<1>5. HandsOver(tool', transfer', posts')
  BY DEF SInv, TimerFires, HangUp
<1>6. QED
  BY <1>1, <1>2, <1>3, <1>4, <1>5 DEF SInv

\* The watchdog gives up.
LEMMA WatchdogHangsUpKeeps ==
    ASSUME SInv, WatchdogHangsUp
    PROVE  SInv'
<1> USE DEF session, caller, server, reading, output, tools
<1>l. left' \in Limits
  BY SpendType DEF SInv, TypeOK, WatchdogHangsUp
<1>1. TypeOK'
  <2>1. closing' \in {"nobody", "reader", "timer", "watch"} /\ armed' \in BOOLEAN /\ hangup' \in BOOLEAN
        /\ watch' \in {"on", "goodbye", "off", "crashed"}
    BY DEF SInv, TypeOK, WatchdogHangsUp, HangUp, Claims
  <2>2. QED
    BY <1>l, <2>1 DEF SInv, TypeOK, WatchdogHangsUp
<1>2. InOrder(wire', active', Len(purpose'), cur', cut', reader', Ends(outQ'))
  BY DEF SInv, WatchdogHangsUp, HangUp, Spend
<1>3. Playable(outQ', buf', cur', cut', reader')
  BY DEF SInv, WatchdogHangsUp, HangUp, Spend
<1>4. Asked(wire', tool', revoked')
  BY DEF SInv, WatchdogHangsUp, HangUp, Spend
<1>5. HandsOver(tool', transfer', posts')
  BY DEF SInv, WatchdogHangsUp, HangUp, Spend
<1>6. QED
  BY <1>1, <1>2, <1>3, <1>4, <1>5 DEF SInv

\* The watchdog ends a web call.
LEMMA WatchdogEndsWebCallKeeps ==
    ASSUME SInv, WatchdogEndsWebCall
    PROVE  SInv'
<1> USE DEF session, caller, server, reading, output, tools
<1>l. left' \in Limits
  BY SpendType DEF SInv, TypeOK, WatchdogEndsWebCall
<1>1. TypeOK'
  <2>1. closing' \in {"nobody", "reader", "timer", "watch"} /\ armed' \in BOOLEAN /\ hangup' \in BOOLEAN
        /\ watch' \in {"on", "goodbye", "off", "crashed"}
    BY DEF SInv, TypeOK, WatchdogEndsWebCall, Claims
  <2>2. QED
    BY <1>l, <2>1 DEF SInv, TypeOK, WatchdogEndsWebCall
<1>2. InOrder(wire', active', Len(purpose'), cur', cut', reader', Ends(outQ'))
  BY DEF SInv, WatchdogEndsWebCall, Claims, Spend
<1>3. Playable(outQ', buf', cur', cut', reader')
  BY DEF SInv, WatchdogEndsWebCall, Claims, Spend
<1>4. Asked(wire', tool', revoked')
  BY DEF SInv, WatchdogEndsWebCall, Claims, Spend
<1>5. HandsOver(tool', transfer', posts')
  BY DEF SInv, WatchdogEndsWebCall, Claims, Spend
<1>6. QED
  BY <1>1, <1>2, <1>3, <1>4, <1>5 DEF SInv

\* The watchdog asks for the goodbye.
LEMMA WatchdogAskedKeeps ==
    ASSUME SInv, WatchdogAsked
    PROVE  SInv'
<1> USE DEF session, caller, server, reading, output, tools
<1>a. \/ purpose' \in Seq(Purposes) /\ Asks /\ sock' = sock /\ late' \in BOOLEAN
      \/ UNCHANGED server
  <2>1. "goodbye" \in Purposes
    BY DEF Purposes
  <2>2. QED
    BY <2>1, CreateAsks DEF SInv, WatchdogAsked, Swallowed, Raises
<1>b. /\ active' \in 0..Len(purpose') /\ said' \in 0..call'.audio /\ wire' \in Seq(ProviderEvents)
      /\ purpose' \in Seq(Purposes) /\ sock' \in {"open", "dead", "none"} /\ late' \in BOOLEAN
      /\ \A r \in 0..Len(purpose) : r \in 0..Len(purpose')
  <2>1. CASE UNCHANGED server
    BY <2>1 DEF SInv, TypeOK, WatchdogAsked
  <2>2. CASE purpose' \in Seq(Purposes) /\ Asks /\ sock' = sock /\ late' \in BOOLEAN
    BY <2>2, AsksType DEF SInv, TypeOK, WatchdogAsked
  <2>3. QED
    BY <1>a, <2>1, <2>2
<1>c. /\ InOrder(wire', active', Len(purpose'), cur, cut, reader, Ends(outQ))
      /\ Asked(wire', tool, revoked)
  <2>1. CASE UNCHANGED server
    BY <2>1 DEF SInv
  <2>2. CASE Asks
    BY <2>2, AsksKeeps
  <2>3. QED
    BY <1>a, <2>1, <2>2
<1>d. timers' \in Nat /\ watch' \in {"off", "crashed"}
  BY DEF SInv, TypeOK, WatchdogAsked
<1>1. TypeOK'
  BY <1>b, <1>d DEF SInv, TypeOK, WatchdogAsked
<1>2. InOrder(wire', active', Len(purpose'), cur', cut', reader', Ends(outQ'))
  BY <1>c DEF WatchdogAsked
<1>3. Playable(outQ', buf', cur', cut', reader')
  BY DEF SInv, WatchdogAsked
<1>4. Asked(wire', tool', revoked')
  BY <1>c DEF WatchdogAsked
<1>5. HandsOver(tool', transfer', posts')
  BY DEF SInv, WatchdogAsked
<1>6. QED
  BY <1>1, <1>2, <1>3, <1>4, <1>5 DEF SInv

\* The watchdog asks whether the caller is still there.
LEMMA WatchdogChecksKeeps ==
    ASSUME SInv, WatchdogChecks
    PROVE  SInv'
<1> USE DEF session, caller, server, reading, output, tools
<1>a. \/ purpose' \in Seq(Purposes) /\ Asks /\ sock' = sock /\ late' \in BOOLEAN
      \/ UNCHANGED server
  <2>1. "filler" \in Purposes
    BY DEF Purposes
  <2>2. QED
    BY <2>1, CreateAsks DEF SInv, WatchdogChecks, Swallowed, Raises
<1>b. /\ active' \in 0..Len(purpose') /\ said' \in 0..call'.audio /\ wire' \in Seq(ProviderEvents)
      /\ purpose' \in Seq(Purposes) /\ sock' \in {"open", "dead", "none"} /\ late' \in BOOLEAN
      /\ \A r \in 0..Len(purpose) : r \in 0..Len(purpose')
  <2>1. CASE UNCHANGED server
    BY <2>1 DEF SInv, TypeOK, WatchdogChecks
  <2>2. CASE purpose' \in Seq(Purposes) /\ Asks /\ sock' = sock /\ late' \in BOOLEAN
    BY <2>2, AsksType DEF SInv, TypeOK, WatchdogChecks
  <2>3. QED
    BY <1>a, <2>1, <2>2
<1>c. /\ InOrder(wire', active', Len(purpose'), cur, cut, reader, Ends(outQ))
      /\ Asked(wire', tool, revoked)
  <2>1. CASE UNCHANGED server
    BY <2>1 DEF SInv
  <2>2. CASE Asks
    BY <2>2, AsksKeeps
  <2>3. QED
    BY <1>a, <2>1, <2>2
<1>d. left' \in Limits /\ watch' \in {"on", "off"}
  BY SpendType DEF SInv, TypeOK, WatchdogChecks
<1>1. TypeOK'
  BY <1>b, <1>d DEF SInv, TypeOK, WatchdogChecks
<1>2. InOrder(wire', active', Len(purpose'), cur', cut', reader', Ends(outQ'))
  BY <1>c DEF WatchdogChecks
<1>3. Playable(outQ', buf', cur', cut', reader')
  BY DEF SInv, WatchdogChecks
<1>4. Asked(wire', tool', revoked')
  BY <1>c DEF WatchdogChecks
<1>5. HandsOver(tool', transfer', posts')
  BY DEF SInv, WatchdogChecks
<1>6. QED
  BY <1>1, <1>2, <1>3, <1>4, <1>5 DEF SInv

\* Typed input is sent.
LEMMA TypedSentKeeps ==
    ASSUME SInv, TypedSent
    PROVE  SInv'
<1> USE DEF session, caller, server, reading, output, tools
<1>a. \/ purpose' \in Seq(Purposes) /\ Asks /\ sock' = sock /\ late' \in BOOLEAN
      \/ UNCHANGED server
  <2>1. "reply" \in Purposes
    BY DEF Purposes
  <2>2. QED
    BY <2>1, CreateAsks DEF SInv, TypedSent, Swallowed, Raises
<1>b. /\ active' \in 0..Len(purpose') /\ said' \in 0..call'.audio /\ wire' \in Seq(ProviderEvents)
      /\ purpose' \in Seq(Purposes) /\ sock' \in {"open", "dead", "none"} /\ late' \in BOOLEAN
      /\ \A r \in 0..Len(purpose) : r \in 0..Len(purpose')
  <2>1. CASE UNCHANGED server
    BY <2>1 DEF SInv, TypeOK, TypedSent
  <2>2. CASE purpose' \in Seq(Purposes) /\ Asks /\ sock' = sock /\ late' \in BOOLEAN
    BY <2>2, AsksType DEF SInv, TypeOK, TypedSent
  <2>3. QED
    BY <1>a, <2>1, <2>2
<1>c. /\ InOrder(wire', active', Len(purpose'), cur, cut, reader, Ends(outQ))
      /\ Asked(wire', tool, revoked)
  <2>1. CASE UNCHANGED server
    BY <2>1 DEF SInv
  <2>2. CASE Asks
    BY <2>2, AsksKeeps
  <2>3. QED
    BY <1>a, <2>1, <2>2
<1>1. TypeOK'
  <2>1. typed' \in BOOLEAN
    BY DEF TypedSent
  <2>2. QED
    BY <2>1, <1>b DEF SInv, TypeOK, TypedSent
<1>2. InOrder(wire', active', Len(purpose'), cur', cut', reader', Ends(outQ'))
  BY <1>c DEF TypedSent
<1>3. Playable(outQ', buf', cur', cut', reader')
  BY DEF SInv, TypedSent
<1>4. Asked(wire', tool', revoked')
  BY <1>c DEF TypedSent
<1>5. HandsOver(tool', transfer', posts')
  BY DEF SInv, TypedSent
<1>6. QED
  BY <1>1, <1>2, <1>3, <1>4, <1>5 DEF SInv

\* A tool task asks for a filler.
LEMMA ToolFillerKeeps ==
    ASSUME SInv, NEW c \in Calls, ToolFiller(c)
    PROVE  SInv'
<1> USE DEF session, caller, server, reading, output, tools
<1>a. \/ purpose' \in Seq(Purposes) /\ Asks /\ sock' = sock /\ late' \in BOOLEAN
      \/ UNCHANGED server
  <2>1. "filler" \in Purposes
    BY DEF Purposes
  <2>2. QED
    BY <2>1, CreateAsks DEF SInv, ToolFiller, Swallowed, Raises
<1>b. /\ active' \in 0..Len(purpose') /\ said' \in 0..call'.audio /\ wire' \in Seq(ProviderEvents)
      /\ purpose' \in Seq(Purposes) /\ sock' \in {"open", "dead", "none"} /\ late' \in BOOLEAN
      /\ \A r \in 0..Len(purpose) : r \in 0..Len(purpose')
  <2>1. CASE UNCHANGED server
    BY <2>1 DEF SInv, TypeOK, ToolFiller
  <2>2. CASE purpose' \in Seq(Purposes) /\ Asks /\ sock' = sock /\ late' \in BOOLEAN
    BY <2>2, AsksType DEF SInv, TypeOK, ToolFiller
  <2>3. QED
    BY <1>a, <2>1, <2>2
<1>c. /\ InOrder(wire', active', Len(purpose'), cur, cut, reader, Ends(outQ))
      /\ Asked(wire', tool, revoked)
  <2>1. CASE UNCHANGED server
    BY <2>1 DEF SInv
  <2>2. CASE Asks
    BY <2>2, AsksKeeps
  <2>3. QED
    BY <1>a, <2>1, <2>2
<1>d. \E p \in {"call", "over"} : tool' = [tool EXCEPT ![c] = p]
  BY DEF ToolFiller, Step
<1>e. tool \in [Calls -> Places]
  BY DEF SInv, TypeOK, Places
<1>f. tool' \in [Calls -> {"none", "start", "fill", "call", "commit", "sent", "over"}]
  BY <1>d, <1>e DEF Places
<1>1. TypeOK'
  BY <1>b, <1>f DEF SInv, TypeOK, ToolFiller
<1>2. InOrder(wire', active', Len(purpose'), cur', cut', reader', Ends(outQ'))
  BY <1>c DEF ToolFiller
<1>3. Playable(outQ', buf', cur', cut', reader')
  BY DEF SInv, ToolFiller
<1>4. Asked(wire', tool', revoked')
  <2>1. PICK p \in {"call", "over"} : tool' = [tool EXCEPT ![c] = p]
    BY <1>d
  <2>2. tool[c] = "fill" /\ p \in Places /\ p # "none"
    BY DEF ToolFiller, Places
  <2>3. Asked(wire', [tool EXCEPT ![c] = p], revoked)
    BY <1>c, <1>e, <2>2, AskedMoves
  <2>4. QED
    BY <2>1, <2>3 DEF ToolFiller
<1>5. HandsOver(tool', transfer', posts')
  <2>1. PICK p \in {"call", "over"} : tool' = [tool EXCEPT ![c] = p]
    BY <1>d
  <2>2. tool[c] = "fill" /\ p \in Places /\ posts \in Nat
    BY DEF ToolFiller, Places, SInv, TypeOK
  <2>3. HandsOver([tool EXCEPT ![c] = p], transfer, posts)
    BY <1>e, <2>2, HandsMove DEF SInv
  <2>4. QED
    BY <2>1, <2>3 DEF ToolFiller
<1>6. QED
  BY <1>1, <1>2, <1>3, <1>4, <1>5 DEF SInv

\* A tool task sends its result.
LEMMA ToolCommitsKeeps ==
    ASSUME SInv, NEW c \in Calls, ToolCommits(c)
    PROVE  SInv'
<1> USE DEF session, caller, server, reading, output, tools
<1>a. \/ purpose' \in Seq(Purposes) /\ Asks /\ sock' = sock /\ late' \in BOOLEAN
      \/ UNCHANGED server
  <2>1. "answer" \in Purposes /\ "goodbye" \in Purposes
    BY DEF Purposes
  <2>2. QED
    BY <2>1, CreateAsks DEF SInv, ToolCommits, Swallowed, Raises
<1>b. /\ active' \in 0..Len(purpose') /\ said' \in 0..call'.audio /\ wire' \in Seq(ProviderEvents)
      /\ purpose' \in Seq(Purposes) /\ sock' \in {"open", "dead", "none"} /\ late' \in BOOLEAN
      /\ \A r \in 0..Len(purpose) : r \in 0..Len(purpose')
  <2>1. CASE UNCHANGED server
    BY <2>1 DEF SInv, TypeOK, ToolCommits
  <2>2. CASE purpose' \in Seq(Purposes) /\ Asks /\ sock' = sock /\ late' \in BOOLEAN
    BY <2>2, AsksType DEF SInv, TypeOK, ToolCommits
  <2>3. QED
    BY <1>a, <2>1, <2>2
<1>c. /\ InOrder(wire', active', Len(purpose'), cur, cut, reader, Ends(outQ))
      /\ Asked(wire', tool, revoked)
  <2>1. CASE UNCHANGED server
    BY <2>1 DEF SInv
  <2>2. CASE Asks
    BY <2>2, AsksKeeps
  <2>3. QED
    BY <1>a, <2>1, <2>2
<1>d. \E p \in {"sent", "over"} : tool' = [tool EXCEPT ![c] = p]
  BY DEF ToolCommits, Step
<1>e. tool \in [Calls -> Places]
  BY DEF SInv, TypeOK, Places
<1>f. tool' \in [Calls -> {"none", "start", "fill", "call", "commit", "sent", "over"}]
  BY <1>d, <1>e DEF Places
<1>1. TypeOK'
  BY <1>b, <1>f DEF SInv, TypeOK, ToolCommits
<1>2. InOrder(wire', active', Len(purpose'), cur', cut', reader', Ends(outQ'))
  BY <1>c DEF ToolCommits
<1>3. Playable(outQ', buf', cur', cut', reader')
  BY DEF SInv, ToolCommits
<1>4. Asked(wire', tool', revoked')
  <2>1. PICK p \in {"sent", "over"} : tool' = [tool EXCEPT ![c] = p]
    BY <1>d
  <2>2. tool[c] = "commit" /\ p \in Places /\ p # "none"
    BY DEF ToolCommits, Places
  <2>3. Asked(wire', [tool EXCEPT ![c] = p], revoked)
    BY <1>c, <1>e, <2>2, AskedMoves
  <2>4. QED
    BY <2>1, <2>3 DEF ToolCommits
<1>5. HandsOver(tool', transfer', posts')
  <2>1. PICK p \in {"sent", "over"} : tool' = [tool EXCEPT ![c] = p]
    BY <1>d
  <2>2. p \in Places /\ p \notin {"fill", "call"} /\ posts \in Nat
    BY DEF Places, SInv, TypeOK
  <2>3. HandsOver([tool EXCEPT ![c] = p], transfer, posts)
    BY <1>e, <2>2, HandsMove DEF SInv
  <2>4. QED
    BY <2>1, <2>3 DEF ToolCommits
<1>6. QED
  BY <1>1, <1>2, <1>3, <1>4, <1>5 DEF SInv

\* Typed input cancels the turn, or finds none to cancel, or does not try.
LEMMA TypesKeeps ==
    ASSUME SInv, Types
    PROVE  SInv'
<1> USE DEF session, caller, server, reading, output, tools
<1>w. /\ wire \in Seq(ProviderEvents) /\ active \in Nat /\ Len(purpose) \in Nat /\ cur \in Nat
      /\ active <= Len(purpose)
  BY DEF SInv, TypeOK

<1>v. /\ Event("done", active) \in ProviderEvents /\ Event("done", active).e = "done"
      /\ Event("done", active).r = active
  BY <1>w, EventTypes
<1>r. Event("rejected", 0) \in ProviderEvents /\ Event("rejected", 0).e = "rejected"
  BY EventTypes
<1>i. \/ wire' = Append(wire, Event("done", active)) /\ active' = 0
      \/ wire' = Append(wire, Event("rejected", 0)) /\ active' = active
      \/ wire' = wire /\ active' = active
  BY DEF Types
<1>u. wire' \in Seq(ProviderEvents)
  BY <1>w, <1>v, <1>r, <1>i
<1>l. left' \in Limits
  BY SpendType DEF SInv, TypeOK, Types
<1>1. TypeOK'
  <2>1. typed' \in BOOLEAN
    BY DEF Types
  <2>2. active' \in 0..Len(purpose)
    BY <1>w, <1>i
  <2>3. QED
    BY <1>u, <1>l, <2>1, <2>2 DEF SInv, TypeOK, Types
<1>2. InOrder(wire', active', Len(purpose'), cur', cut', reader', Ends(outQ'))
  <2>1. InOrder(Append(wire, Event("done", active)), 0, Len(purpose), cur, cut, reader, Ends(outQ))
    BY <1>w, <1>v, OrderAppend DEF SInv
  <2>2. InOrder(Append(wire, Event("rejected", 0)), active, Len(purpose), cur, cut, reader, Ends(outQ))
    BY <1>w, <1>r, OrderAppend DEF SInv
  <2>3. QED
    BY <1>i, <2>1, <2>2 DEF SInv, Types
<1>3. Playable(outQ', buf', cur', cut', reader')
  BY DEF SInv, Types, Talking, Spend
<1>4. Asked(wire', tool', revoked')
  <2>1. Asked(Append(wire, Event("done", active)), tool, revoked)
    BY <1>w, <1>v, AskedMore DEF SInv
  <2>2. Asked(Append(wire, Event("rejected", 0)), tool, revoked)
    BY <1>w, <1>r, AskedMore DEF SInv
  <2>3. QED
    BY <1>i, <2>1, <2>2 DEF SInv, Types
<1>5. HandsOver(tool', transfer', posts')
  BY DEF SInv, Types, Talking, Spend
<1>6. QED
  BY <1>1, <1>2, <1>3, <1>4, <1>5 DEF SInv

\* The pacer moves frames to the queue.
LEMMA PacerTickKeeps ==
    ASSUME SInv, PacerTick
    PROVE  SInv'
<1> USE DEF session, caller, server, reading, output, tools
<1>q. /\ outQ \in Seq(OutPackets) /\ buf \in Seq(Nat) /\ cur \in Nat /\ wire \in Seq(ProviderEvents)
      /\ Len(purpose) \in Nat
  BY DEF SInv, TypeOK

<1>n. PICK n \in 1..Len(buf) :
        outQ' = outQ \o Packets(SubSeq(buf, 1, n)) /\ buf' = SubSeq(buf, n + 1, Len(buf))
  BY DEF PacerTick
<1>p. /\ outQ' \in Seq(OutPackets) /\ buf' \in Seq(Nat) /\ Ends(outQ') \subseteq Ends(outQ)
      /\ Playable(outQ', buf', cur, cut, reader)
  BY <1>q, <1>n, PlayTick DEF SInv
<1>u. UNCHANGED <<session, caller, server, reading, cut, tools, left>>
  BY DEF PacerTick
<1>1. TypeOK'
  BY <1>p, <1>u DEF SInv, TypeOK
<1>2. InOrder(wire', active', Len(purpose'), cur', cut', reader', Ends(outQ'))
  BY <1>p, OrderLess DEF SInv, PacerTick
<1>3. Playable(outQ', buf', cur', cut', reader')
  BY <1>p DEF PacerTick
<1>4. Asked(wire', tool', revoked')
  BY DEF SInv, PacerTick
<1>5. HandsOver(tool', transfer', posts')
  BY DEF SInv, PacerTick
<1>6. QED
  BY <1>1, <1>2, <1>3, <1>4, <1>5 DEF SInv

\* The output loop sends a packet.
LEMMA SentKeeps ==
    ASSUME SInv, Sent
    PROVE  SInv'
<1> USE DEF session, caller, server, reading, output, tools
<1>q. /\ outQ \in Seq(OutPackets) /\ buf \in Seq(Nat) /\ cur \in Nat /\ wire \in Seq(ProviderEvents)
      /\ Len(purpose) \in Nat
  BY DEF SInv, TypeOK

<1>p. /\ outQ' \in Seq(OutPackets) /\ Ends(outQ') \subseteq Ends(outQ)
      /\ Playable(outQ', buf, cur, cut, reader)
  BY <1>q, PlaySent DEF SInv, Sent
<1>1. TypeOK'
  BY <1>p DEF SInv, TypeOK, Sent
<1>2. InOrder(wire', active', Len(purpose'), cur', cut', reader', Ends(outQ'))
  BY <1>p, OrderLess DEF SInv, Sent
<1>3. Playable(outQ', buf', cur', cut', reader')
  BY <1>p DEF Sent
<1>4. Asked(wire', tool', revoked')
  BY DEF SInv, Sent
<1>5. HandsOver(tool', transfer', posts')
  BY DEF SInv, Sent
<1>6. QED
  BY <1>1, <1>2, <1>3, <1>4, <1>5 DEF SInv

\* The reader sees the end of the call.
LEMMA ReadAfterEndKeeps ==
    ASSUME SInv, ReadAfterEnd
    PROVE  SInv'
<1> USE DEF session, caller, server, reading, output, tools
<1>r. reader' \in {"read", "reconnect", "out"}
  BY DEF ReadAfterEnd, SInv, TypeOK
<1>1. TypeOK'
  BY <1>r DEF SInv, TypeOK, ReadAfterEnd
<1>2. InOrder(wire', active', Len(purpose'), cur', cut', reader', Ends(outQ'))
  BY <1>r, OrderLess DEF SInv, ReadAfterEnd
<1>3. Playable(outQ', buf', cur', cut', reader')
  BY <1>r, PlayHand DEF SInv, ReadAfterEnd
<1>4. Asked(wire', tool', revoked')
  BY DEF SInv, ReadAfterEnd
<1>5. HandsOver(tool', transfer', posts')
  BY DEF SInv, ReadAfterEnd
<1>6. QED
  BY <1>1, <1>2, <1>3, <1>4, <1>5 DEF SInv

\* The hangup returned to the reader.
LEMMA FinishedKeeps ==
    ASSUME SInv, Finished
    PROVE  SInv'
<1> USE DEF session, caller, server, reading, output, tools
<1>r. reader' \in {"read", "reconnect", "out"}
  BY DEF Finished, SInv, TypeOK
<1>1. TypeOK'
  BY <1>r DEF SInv, TypeOK, Finished
<1>2. InOrder(wire', active', Len(purpose'), cur', cut', reader', Ends(outQ'))
  BY <1>r, OrderLess DEF SInv, Finished
<1>3. Playable(outQ', buf', cur', cut', reader')
  BY <1>r, PlayHand DEF SInv, Finished
<1>4. Asked(wire', tool', revoked')
  BY DEF SInv, Finished
<1>5. HandsOver(tool', transfer', posts')
  BY DEF SInv, Finished
<1>6. QED
  BY <1>1, <1>2, <1>3, <1>4, <1>5 DEF SInv

\* The pause before a reconnect is over.
LEMMA RestedKeeps ==
    ASSUME SInv, Rested
    PROVE  SInv'
<1> USE DEF session, caller, server, reading, output, tools
<1>r. reader' \in {"read", "reconnect", "out"} /\ sock' \in {"open", "dead", "none"}
  BY DEF Rested, SInv, TypeOK
<1>1. TypeOK'
  BY <1>r DEF SInv, TypeOK, Rested
<1>2. InOrder(wire', active', Len(purpose'), cur', cut', reader', Ends(outQ'))
  BY <1>r, OrderLess DEF SInv, Rested
<1>3. Playable(outQ', buf', cur', cut', reader')
  BY <1>r, PlayHand DEF SInv, Rested
<1>4. Asked(wire', tool', revoked')
  BY DEF SInv, Rested
<1>5. HandsOver(tool', transfer', posts')
  BY DEF SInv, Rested
<1>6. QED
  BY <1>1, <1>2, <1>3, <1>4, <1>5 DEF SInv

\* The reconnect succeeded or failed.
LEMMA ReconnectedKeeps ==
    ASSUME SInv, Reconnected
    PROVE  SInv'
<1> USE DEF session, caller, server, reading, output, tools
<1>r. reader' \in {"read", "reconnect", "out"} /\ sock' \in {"open", "dead", "none"}
  BY DEF Reconnected, SInv, TypeOK
<1>1. TypeOK'
  BY <1>r DEF SInv, TypeOK, Reconnected
<1>2. InOrder(wire', active', Len(purpose'), cur', cut', reader', Ends(outQ'))
  BY <1>r, OrderLess DEF SInv, Reconnected
<1>3. Playable(outQ', buf', cur', cut', reader')
  BY <1>r, PlayHand DEF SInv, Reconnected
<1>4. Asked(wire', tool', revoked')
  BY DEF SInv, Reconnected
<1>5. HandsOver(tool', transfer', posts')
  BY DEF SInv, Reconnected
<1>6. QED
  BY <1>1, <1>2, <1>3, <1>4, <1>5 DEF SInv

\* A response was announced.
LEMMA ReadCreatedKeeps ==
    ASSUME SInv, ReadCreated
    PROVE  SInv'
<1> USE DEF session, caller, server, reading, output, tools
<1>q. /\ outQ \in Seq(OutPackets) /\ buf \in Seq(Nat) /\ cur \in Nat /\ wire \in Seq(ProviderEvents)
      /\ Len(purpose) \in Nat /\ wire # <<>> /\ wire' = Tail(wire) /\ tool \in [Calls -> Places]
  BY DEF SInv, TypeOK, Places, Reads, Pop, ReadCreated
<1>w. wire' \in Seq(ProviderEvents) /\ Head(wire) \in ProviderEvents
  BY <1>q
<1>o. InOrder(wire', active, Len(purpose), cur, cut, reader, Ends(outQ)) /\ Asked(wire', tool, revoked)
  BY <1>q, OrderRead, AskedRead DEF SInv

<1>t. ready' \in BOOLEAN
  BY DEF ReadCreated
<1>n. attempts' \in 0..MaxAttempts
  BY DEF SInv, TypeOK, ReadCreated
<1>1. TypeOK'
  BY <1>w, <1>t, <1>n DEF SInv, TypeOK, ReadCreated
<1>2. InOrder(wire', active', Len(purpose'), cur', cut', reader', Ends(outQ'))
  BY <1>o DEF ReadCreated
<1>3. Playable(outQ', buf', cur', cut', reader')
  BY DEF SInv, ReadCreated
<1>4. Asked(wire', tool', revoked')
  BY <1>o DEF ReadCreated
<1>5. HandsOver(tool', transfer', posts')
  BY DEF SInv, ReadCreated
<1>6. QED
  BY <1>1, <1>2, <1>3, <1>4, <1>5 DEF SInv

\* A request was rejected.
LEMMA ReadRejectedKeeps ==
    ASSUME SInv, ReadRejected
    PROVE  SInv'
<1> USE DEF session, caller, server, reading, output, tools
<1>q. /\ outQ \in Seq(OutPackets) /\ buf \in Seq(Nat) /\ cur \in Nat /\ wire \in Seq(ProviderEvents)
      /\ Len(purpose) \in Nat /\ wire # <<>> /\ wire' = Tail(wire) /\ tool \in [Calls -> Places]
  BY DEF SInv, TypeOK, Places, Reads, Pop, ReadRejected
<1>w. wire' \in Seq(ProviderEvents) /\ Head(wire) \in ProviderEvents
  BY <1>q
<1>o. InOrder(wire', active, Len(purpose), cur, cut, reader, Ends(outQ)) /\ Asked(wire', tool, revoked)
  BY <1>q, OrderRead, AskedRead DEF SInv

<1>t. ready' \in BOOLEAN
  BY DEF ReadRejected
<1>n. attempts' \in 0..MaxAttempts
  BY BoundsAssumption DEF ReadRejected, Traffic
<1>1. TypeOK'
  BY <1>w, <1>t, <1>n DEF SInv, TypeOK, ReadRejected
<1>2. InOrder(wire', active', Len(purpose'), cur', cut', reader', Ends(outQ'))
  BY <1>o DEF ReadRejected
<1>3. Playable(outQ', buf', cur', cut', reader')
  BY DEF SInv, ReadRejected, Traffic
<1>4. Asked(wire', tool', revoked')
  BY <1>o DEF ReadRejected
<1>5. HandsOver(tool', transfer', posts')
  BY DEF SInv, ReadRejected, Traffic
<1>6. QED
  BY <1>1, <1>2, <1>3, <1>4, <1>5 DEF SInv

\* An error that ends the reader.
LEMMA ReadFatalKeeps ==
    ASSUME SInv, ReadFatal
    PROVE  SInv'
<1> USE DEF session, caller, server, reading, output, tools
<1>q. /\ outQ \in Seq(OutPackets) /\ buf \in Seq(Nat) /\ cur \in Nat /\ wire \in Seq(ProviderEvents)
      /\ Len(purpose) \in Nat /\ wire # <<>> /\ wire' = Tail(wire) /\ tool \in [Calls -> Places]
  BY DEF SInv, TypeOK, Places, Reads, Pop, ReadFatal
<1>w. wire' \in Seq(ProviderEvents) /\ Head(wire) \in ProviderEvents
  BY <1>q
<1>o. InOrder(wire', active, Len(purpose), cur, cut, reader, Ends(outQ)) /\ Asked(wire', tool, revoked)
  BY <1>q, OrderRead, AskedRead DEF SInv
<1>1. TypeOK'
  BY <1>w DEF SInv, TypeOK, ReadFatal
<1>2. InOrder(wire', active', Len(purpose'), cur', cut', reader', Ends(outQ'))
  BY <1>o, OrderLess DEF ReadFatal
<1>3. Playable(outQ', buf', cur', cut', reader')
  BY PlayHand DEF SInv, ReadFatal
<1>4. Asked(wire', tool', revoked')
  BY <1>o DEF ReadFatal
<1>5. HandsOver(tool', transfer', posts')
  BY DEF SInv, ReadFatal
<1>6. QED
  BY <1>1, <1>2, <1>3, <1>4, <1>5 DEF SInv

\* The connection closed.
LEMMA ReadClosedKeeps ==
    ASSUME SInv, ReadClosed
    PROVE  SInv'
<1> USE DEF session, caller, server, reading, output, tools
<1>q. /\ outQ \in Seq(OutPackets) /\ buf \in Seq(Nat) /\ cur \in Nat /\ wire \in Seq(ProviderEvents)
      /\ Len(purpose) \in Nat /\ wire # <<>> /\ wire' = Tail(wire) /\ tool \in [Calls -> Places]
  BY DEF SInv, TypeOK, Places, Reads, Pop, ReadClosed
<1>w. wire' \in Seq(ProviderEvents) /\ Head(wire) \in ProviderEvents
  BY <1>q
<1>o. InOrder(wire', active, Len(purpose), cur, cut, reader, Ends(outQ)) /\ Asked(wire', tool, revoked)
  BY <1>q, OrderRead, AskedRead DEF SInv

<1>r. reader' \in {"sleep", "reconnect", "out"}
  BY DEF ReadClosed
<1>n. attempts' \in 0..MaxAttempts
  BY BoundsAssumption DEF ReadClosed, SInv, TypeOK
<1>s. sock' \in {"open", "dead", "none"}
  BY DEF ReadClosed, SInv, TypeOK
<1>1. TypeOK'
  BY <1>w, <1>r, <1>n, <1>s DEF SInv, TypeOK, ReadClosed
<1>2. InOrder(wire', active', Len(purpose'), cur', cut', reader', Ends(outQ'))
  BY <1>o, <1>r, OrderLess DEF ReadClosed
<1>3. Playable(outQ', buf', cur', cut', reader')
  BY <1>r, PlayHand DEF SInv, ReadClosed
<1>4. Asked(wire', tool', revoked')
  BY <1>o DEF ReadClosed
<1>5. HandsOver(tool', transfer', posts')
  BY DEF SInv, ReadClosed
<1>6. QED
  BY <1>1, <1>2, <1>3, <1>4, <1>5 DEF SInv

\* The caller speaks: a barge-in, or not.
LEMMA ReadSpeechKeeps ==
    ASSUME SInv, ReadSpeech
    PROVE  SInv'
<1> USE DEF session, caller, server, reading, output, tools
<1>q. /\ outQ \in Seq(OutPackets) /\ buf \in Seq(Nat) /\ cur \in Nat /\ wire \in Seq(ProviderEvents)
      /\ Len(purpose) \in Nat /\ wire # <<>> /\ wire' = Tail(wire) /\ tool \in [Calls -> Places]
  BY DEF SInv, TypeOK, Places, Reads, Pop, ReadSpeech
<1>w. wire' \in Seq(ProviderEvents) /\ Head(wire) \in ProviderEvents
  BY <1>q
<1>o. InOrder(wire', active, Len(purpose), cur, cut, reader, Ends(outQ)) /\ Asked(wire', tool, revoked)
  BY <1>q, OrderRead, AskedRead DEF SInv

<1>r. reader = "read" /\ reader' \in {"clear", "read"} /\ Head(wire).e = "speech"
  BY DEF ReadSpeech, Reads
<1>n. attempts' \in 0..MaxAttempts
  BY BoundsAssumption DEF ReadSpeech, Traffic
<1>i. InOrder(wire', active, Len(purpose), cur, cut, reader', Ends(outQ))
  BY <1>q, <1>r, OrderRead DEF SInv
<1>1. TypeOK'
  BY <1>w, <1>r, <1>n DEF SInv, TypeOK, ReadSpeech
<1>2. InOrder(wire', active', Len(purpose'), cur', cut', reader', Ends(outQ'))
  BY <1>i DEF ReadSpeech
<1>3. Playable(outQ', buf', cur', cut', reader')
  BY <1>r, PlayHand DEF SInv, ReadSpeech
<1>4. Asked(wire', tool', revoked')
  BY <1>o DEF ReadSpeech
<1>5. HandsOver(tool', transfer', posts')
  BY DEF SInv, ReadSpeech
<1>6. QED
  BY <1>1, <1>2, <1>3, <1>4, <1>5 DEF SInv

\* The barge-in is carried out.
LEMMA ClearedKeeps ==
    ASSUME SInv, Cleared
    PROVE  SInv'
<1> USE DEF session, caller, server, reading, output, tools
<1>1. TypeOK'
  <2>1. outQ' \in Seq(OutPackets) /\ buf' \in Seq(Nat)
    BY DEF Cleared
  <2>2. QED
    BY <2>1 DEF SInv, TypeOK, Cleared
<1>2. InOrder(wire', active', Len(purpose'), cur', cut', reader', Ends(outQ'))
  <2>1. InOrder(wire, active, Len(purpose), cur, cur, reader', {})
    BY OrderCleared DEF SInv, Cleared
  <2>2. Ends(outQ') = {}
    BY DEF Ends, Cleared
  <2>3. QED
    BY <2>1, <2>2 DEF Cleared
<1>3. Playable(outQ', buf', cur', cut', reader')
  BY PlayNothing DEF Cleared
<1>4. Asked(wire', tool', revoked')
  BY DEF SInv, Cleared
<1>5. HandsOver(tool', transfer', posts')
  BY DEF SInv, Cleared
<1>6. QED
  BY <1>1, <1>2, <1>3, <1>4, <1>5 DEF SInv

\* Audio comes in hand.
LEMMA ReadAudioKeeps ==
    ASSUME SInv, ReadAudio
    PROVE  SInv'
<1> USE DEF session, caller, server, reading, output, tools
<1>q. /\ outQ \in Seq(OutPackets) /\ buf \in Seq(Nat) /\ cur \in Nat /\ wire \in Seq(ProviderEvents)
      /\ Len(purpose) \in Nat /\ wire # <<>> /\ wire' = Tail(wire) /\ tool \in [Calls -> Places]
  BY DEF SInv, TypeOK, Places, Reads, Pop, ReadAudio
<1>w. wire' \in Seq(ProviderEvents) /\ Head(wire) \in ProviderEvents
  BY <1>q
<1>o. InOrder(wire', active, Len(purpose), cur, cut, reader, Ends(outQ)) /\ Asked(wire', tool, revoked)
  BY <1>q, OrderRead, AskedRead DEF SInv

<1>r. reader = "read" /\ reader' = "encode" /\ Head(wire).e = "audio" /\ cur' = Head(wire).r
  BY DEF ReadAudio, Reads
<1>n. attempts' \in 0..MaxAttempts
  BY BoundsAssumption DEF ReadAudio, Traffic
<1>i. /\ InOrder(wire', active, Len(purpose), cur', cut, reader', Ends(outQ))
      /\ Beyond(cur', cur, cut, reader, Ends(outQ)) /\ cur' <= Len(purpose)
  BY <1>q, <1>r, OrderRead DEF SInv
<1>c. cur' \in 0..Len(purpose)
  <2>1. cur' \in Nat
    BY <1>w, <1>r, EventFields
  <2>2. QED
    BY <1>q, <1>i, <2>1
<1>1. TypeOK'
  BY <1>w, <1>r, <1>n, <1>c DEF SInv, TypeOK, ReadAudio
<1>2. InOrder(wire', active', Len(purpose'), cur', cut', reader', Ends(outQ'))
  BY <1>i DEF ReadAudio
<1>3. Playable(outQ', buf', cur', cut', reader')
  BY <1>i, <1>r, PlayHand DEF SInv, ReadAudio
<1>4. Asked(wire', tool', revoked')
  BY <1>o DEF ReadAudio
<1>5. HandsOver(tool', transfer', posts')
  BY DEF SInv, ReadAudio
<1>6. QED
  BY <1>1, <1>2, <1>3, <1>4, <1>5 DEF SInv

\* Audio is paced or queued.
LEMMA EncodedKeeps ==
    ASSUME SInv, Encoded
    PROVE  SInv'
<1> USE DEF session, caller, server, reading, output, tools
<1>q. /\ outQ \in Seq(OutPackets) /\ buf \in Seq(Nat) /\ cur \in Nat /\ wire \in Seq(ProviderEvents)
      /\ Len(purpose) \in Nat
  BY DEF SInv, TypeOK

<1>p. /\ outQ' \in Seq(OutPackets) /\ buf' \in Seq(Nat) /\ Ends(outQ') \subseteq Ends(outQ)
      /\ Playable(outQ', buf', cur, cut, reader')
  <2>1. /\ Playable(outQ, Append(buf, cur), cur, cut, "read")
        /\ Playable(Append(outQ, [k |-> "audio", r |-> cur]), buf, cur, cut, "read")
        /\ Append(outQ, [k |-> "audio", r |-> cur]) \in Seq(OutPackets)
        /\ Ends(Append(outQ, [k |-> "audio", r |-> cur])) \subseteq Ends(outQ)
    BY <1>q, PlayEncoded DEF SInv, Encoded
  <2>2. CASE call.carrier
    <3>1. buf' = Append(buf, cur) /\ outQ' = outQ /\ reader' = "read"
      BY <2>2 DEF Encoded
    <3>2. buf' \in Seq(Nat)
      BY <1>q, <3>1
    <3>3. QED
      BY <1>q, <2>1, <3>1, <3>2
  <2>3. CASE ~call.carrier
    BY <1>q, <2>1, <2>3 DEF Encoded
  <2>4. QED
    BY <2>2, <2>3
<1>1. TypeOK'
  BY <1>p DEF SInv, TypeOK, Encoded
<1>2. InOrder(wire', active', Len(purpose'), cur', cut', reader', Ends(outQ'))
  BY <1>p, OrderLess DEF SInv, Encoded
<1>3. Playable(outQ', buf', cur', cut', reader')
  BY <1>p DEF Encoded
<1>4. Asked(wire', tool', revoked')
  BY DEF SInv, Encoded
<1>5. HandsOver(tool', transfer', posts')
  BY DEF SInv, Encoded
<1>6. QED
  BY <1>1, <1>2, <1>3, <1>4, <1>5 DEF SInv

\* A turn is complete.
LEMMA ReadDoneKeeps ==
    ASSUME SInv, ReadDone
    PROVE  SInv'
<1> USE DEF session, caller, server, reading, output, tools
<1>q. /\ outQ \in Seq(OutPackets) /\ buf \in Seq(Nat) /\ cur \in Nat /\ wire \in Seq(ProviderEvents)
      /\ Len(purpose) \in Nat /\ wire # <<>> /\ wire' = Tail(wire) /\ tool \in [Calls -> Places]
  BY DEF SInv, TypeOK, Places, Reads, Pop, ReadDone
<1>w. wire' \in Seq(ProviderEvents) /\ Head(wire) \in ProviderEvents
  BY <1>q
<1>o. InOrder(wire', active, Len(purpose), cur, cut, reader, Ends(outQ)) /\ Asked(wire', tool, revoked)
  BY <1>q, OrderRead, AskedRead DEF SInv

<1>r. reader = "read" /\ reader' \in {"finish", "read"} /\ Head(wire).e = "done"
  BY DEF ReadDone, Reads
<1>n. attempts' \in 0..MaxAttempts
  BY BoundsAssumption DEF ReadDone, Traffic
<1>h. Head(wire).r \in Nat
  BY <1>w, <1>r, EventFields
<1>p. /\ outQ' \in Seq(OutPackets) /\ buf' \in Seq(Nat) /\ Ends(outQ') \subseteq Ends(outQ) \cup {Head(wire).r}
      /\ Playable(outQ', buf', cur, cut, reader')
  <2>1. buf' \in Seq(Nat)
    BY DEF ReadDone
  <2>2. QED
    BY <1>q, <1>h, <1>r, <2>1, PlayDone DEF SInv, ReadDone
<1>i. InOrder(wire', active, Len(purpose), cur, cut, reader', Ends(outQ'))
  <2>1. InOrder(wire', active, Len(purpose), cur, cut, reader, Ends(outQ) \cup {Head(wire).r})
    BY <1>q, <1>r, OrderRead DEF SInv
  <2>2. QED
    BY <1>p, <1>r, <2>1, OrderLess
<1>b. /\ closing' \in {"nobody", "reader", "timer", "watch"}
      /\ closing' # "nobody" => closing # "nobody" \/ hangup'
      /\ hangup => hangup'
  BY DEF ReadDone, HangUp, Claims, SInv, TypeOK
<1>d. ready' \in BOOLEAN /\ armed' \in BOOLEAN /\ hangup' \in BOOLEAN
  BY DEF ReadDone, HangUp, Claims, SInv, TypeOK
<1>1. TypeOK'
  BY <1>w, <1>r, <1>n, <1>p, <1>b, <1>d DEF SInv, TypeOK, ReadDone
<1>2. InOrder(wire', active', Len(purpose'), cur', cut', reader', Ends(outQ'))
  BY <1>i DEF ReadDone
<1>3. Playable(outQ', buf', cur', cut', reader')
  BY <1>p DEF ReadDone
<1>4. Asked(wire', tool', revoked')
  BY <1>o DEF ReadDone
<1>5. HandsOver(tool', transfer', posts')
  BY DEF SInv, ReadDone
<1>6. QED
  BY <1>1, <1>2, <1>3, <1>4, <1>5 DEF SInv

\* A tool task starts.
LEMMA ReadCallKeeps ==
    ASSUME SInv, ReadCall
    PROVE  SInv'
<1> USE DEF session, caller, server, reading, output, tools
<1>q. /\ outQ \in Seq(OutPackets) /\ buf \in Seq(Nat) /\ cur \in Nat /\ wire \in Seq(ProviderEvents)
      /\ Len(purpose) \in Nat /\ wire # <<>> /\ wire' = Tail(wire) /\ tool \in [Calls -> Places]
  BY DEF SInv, TypeOK, Places, Reads, Pop, ReadCall
<1>w. wire' \in Seq(ProviderEvents) /\ Head(wire) \in ProviderEvents
  BY <1>q
<1>o. InOrder(wire', active, Len(purpose), cur, cut, reader, Ends(outQ)) /\ Asked(wire', tool, revoked)
  BY <1>q, OrderRead, AskedRead DEF SInv

<1>r. Head(wire).e = "call" /\ Head(wire).c \in Calls
  BY <1>w, EventFields DEF ReadCall, Reads
<1>n. attempts' \in 0..MaxAttempts
  BY BoundsAssumption DEF ReadCall, Traffic
<1>t. tool' = [tool EXCEPT ![Head(wire).c] = "start"] /\ tool' \in [Calls -> Places]
  BY <1>q, <1>r DEF ReadCall, Places
<1>1. TypeOK'
  BY <1>w, <1>n, <1>t DEF SInv, TypeOK, ReadCall, Places
<1>2. InOrder(wire', active', Len(purpose'), cur', cut', reader', Ends(outQ'))
  BY <1>o DEF ReadCall
<1>3. Playable(outQ', buf', cur', cut', reader')
  BY DEF SInv, ReadCall
<1>4. Asked(wire', tool', revoked')
  BY <1>q, <1>r, <1>t, AskedRead DEF SInv, ReadCall
<1>5. HandsOver(tool', transfer', posts')
  <2>1. posts \in Nat /\ "start" \in Places
    BY DEF SInv, TypeOK, Places
  <2>2. HandsOver([tool EXCEPT ![Head(wire).c] = "start"], transfer, posts)
    BY <1>q, <1>r, <2>1, HandsMove DEF SInv
  <2>3. QED
    BY <1>t, <2>2 DEF ReadCall
<1>6. QED
  BY <1>1, <1>2, <1>3, <1>4, <1>5 DEF SInv

\* A tool task is cancelled.
LEMMA ReadRevokeKeeps ==
    ASSUME SInv, ReadRevoke
    PROVE  SInv'
<1> USE DEF session, caller, server, reading, output, tools
<1>q. /\ outQ \in Seq(OutPackets) /\ buf \in Seq(Nat) /\ cur \in Nat /\ wire \in Seq(ProviderEvents)
      /\ Len(purpose) \in Nat /\ wire # <<>> /\ wire' = Tail(wire) /\ tool \in [Calls -> Places]
  BY DEF SInv, TypeOK, Places, Reads, Pop, ReadRevoke
<1>w. wire' \in Seq(ProviderEvents) /\ Head(wire) \in ProviderEvents
  BY <1>q
<1>o. InOrder(wire', active, Len(purpose), cur, cut, reader, Ends(outQ)) /\ Asked(wire', tool, revoked)
  BY <1>q, OrderRead, AskedRead DEF SInv

<1>r. Head(wire).e = "revoke" /\ Head(wire).c \in Calls
  BY <1>w, EventFields DEF ReadRevoke, Reads
<1>n. attempts' \in 0..MaxAttempts
  BY BoundsAssumption DEF ReadRevoke, Traffic
<1>t. /\ tool' = [tool EXCEPT ![Head(wire).c] = "over"] /\ tool' \in [Calls -> Places]
      /\ revoked' = revoked \cup {Head(wire).c} /\ revoked' \subseteq Calls
  BY <1>q, <1>r DEF ReadRevoke, Places, SInv, TypeOK
<1>1. TypeOK'
  BY <1>w, <1>n, <1>t DEF SInv, TypeOK, ReadRevoke, Places
<1>2. InOrder(wire', active', Len(purpose'), cur', cut', reader', Ends(outQ'))
  BY <1>o DEF ReadRevoke
<1>3. Playable(outQ', buf', cur', cut', reader')
  BY DEF SInv, ReadRevoke
<1>4. Asked(wire', tool', revoked')
  <2>1. Asked(Tail(wire), [tool EXCEPT ![Head(wire).c] = "over"], revoked \cup {Head(wire).c})
    BY <1>q, <1>r, AskedRead DEF SInv
  <2>2. QED
    BY <1>q, <1>t, <2>1
<1>5. HandsOver(tool', transfer', posts')
  <2>1. posts \in Nat /\ "over" \in Places
    BY DEF SInv, TypeOK, Places
  <2>2. HandsOver([tool EXCEPT ![Head(wire).c] = "over"], transfer, posts)
    BY <1>q, <1>r, <2>1, HandsMove DEF SInv
  <2>3. QED
    BY <1>t, <2>2 DEF ReadRevoke
<1>6. QED
  BY <1>1, <1>2, <1>3, <1>4, <1>5 DEF SInv

\* A tool task starts.
LEMMA ToolStartsKeeps ==
    ASSUME SInv, NEW c \in Calls, ToolStarts(c)
    PROVE  SInv'
<1> USE DEF session, caller, server, reading, output, tools
<1>d. \E p \in {"commit", "fill", "call"} : tool' = [tool EXCEPT ![c] = p]
  BY DEF ToolStarts, Step
<1>e. tool \in [Calls -> Places]
  BY DEF SInv, TypeOK, Places
<1>f. tool' \in [Calls -> {"none", "start", "fill", "call", "commit", "sent", "over"}]
  BY <1>d, <1>e DEF Places

<1>n. posts \in Nat /\ tool[c] = "start"
  BY DEF SInv, TypeOK, ToolStarts
<1>1. TypeOK'
  <2>1. transfer' \in BOOLEAN
    BY DEF ToolStarts, SInv, TypeOK
  <2>2. QED
    BY <1>f, <2>1 DEF SInv, TypeOK, ToolStarts
<1>2. InOrder(wire', active', Len(purpose'), cur', cut', reader', Ends(outQ'))
  BY DEF SInv, ToolStarts, Step
<1>3. Playable(outQ', buf', cur', cut', reader')
  BY DEF SInv, ToolStarts, Step
<1>4. Asked(wire', tool', revoked')
  <2>1. PICK p \in {"commit", "fill", "call"} : tool' = [tool EXCEPT ![c] = p]
    BY <1>d
  <2>2. tool[c] \notin {"none", "over"} /\ p \in Places /\ p # "none"
    BY DEF ToolStarts, Places
  <2>3. Asked(wire, [tool EXCEPT ![c] = p], revoked)
    BY <1>e, <2>2, AskedMoves DEF SInv
  <2>4. QED
    BY <2>1, <2>3 DEF ToolStarts
<1>5. HandsOver(tool', transfer', posts')
  <2>1. PICK p \in {"commit", "fill", "call"} : tool' = [tool EXCEPT ![c] = p]
    BY <1>d
  <2>2. CASE p = "commit" /\ transfer' = transfer
    BY <1>e, <1>n, <2>1, <2>2, HandsMove DEF SInv, ToolStarts, Places
  <2>3. CASE Kind[c] # "transfer" /\ transfer' = transfer
    BY <1>e, <1>n, <2>1, <2>3, HandsMove DEF SInv, ToolStarts, Places
  <2>4. CASE Kind[c] = "transfer" /\ ~transfer /\ transfer' = TRUE
    <3>1. posts = 0 /\ Dialling(tool) = {}
      BY <2>4 DEF SInv, HandsOver
    <3>2. \A b \in Calls \ {c} : tool'[b] = tool[b]
      BY <1>e, <2>1
    <3>3. \A b \in Dialling(tool') : b = c
      BY <3>1, <3>2 DEF Dialling
    <3>4. posts' = 0
      BY <3>1 DEF ToolStarts
    <3>5. QED
      BY <2>4, <3>3, <3>4 DEF HandsOver
  <2>5. \/ p = "commit" /\ transfer' = transfer
        \/ Kind[c] # "transfer" /\ transfer' = transfer
        \/ Kind[c] = "transfer" /\ ~transfer /\ transfer' = TRUE
    <3>1. CASE (Kind[c] = "end" \/ (Kind[c] = "transfer" /\ transfer)) /\ Step(c, "commit") /\ UNCHANGED transfer
      <4>1. p = "commit"
        BY <1>e, <2>1, <3>1 DEF Step
      <4>2. QED
        BY <3>1, <4>1
    <3>2. CASE /\ Kind[c] = "api" \/ (Kind[c] = "transfer" /\ ~transfer)
               /\ transfer' = (transfer \/ Kind[c] = "transfer")
      BY <3>2 DEF SInv, TypeOK
    <3>3. QED
      BY <3>1, <3>2 DEF ToolStarts
  <2>6. QED
    BY <2>2, <2>3, <2>4, <2>5
<1>6. QED
  BY <1>1, <1>2, <1>3, <1>4, <1>5 DEF SInv

\* The request of a tool ran.
LEMMA ToolCalledKeeps ==
    ASSUME SInv, NEW c \in Calls, ToolCalled(c)
    PROVE  SInv'
<1> USE DEF session, caller, server, reading, output, tools
<1>d. \E p \in {"commit"} : tool' = [tool EXCEPT ![c] = p]
  BY DEF ToolCalled, Step
<1>e. tool \in [Calls -> Places]
  BY DEF SInv, TypeOK, Places
<1>f. tool' \in [Calls -> {"none", "start", "fill", "call", "commit", "sent", "over"}]
  BY <1>d, <1>e DEF Places

<1>n. /\ posts \in Nat /\ tool[c] = "call" /\ tool' = [tool EXCEPT ![c] = "commit"] /\ "commit" \in Places
      /\ posts' = IF Kind[c] = "transfer" THEN posts + 1 ELSE posts
  BY DEF SInv, TypeOK, ToolCalled, Step, Places
<1>m. posts' \in Nat
  BY <1>n
<1>1. TypeOK'
  BY <1>f, <1>m DEF SInv, TypeOK, ToolCalled
<1>2. InOrder(wire', active', Len(purpose'), cur', cut', reader', Ends(outQ'))
  BY DEF SInv, ToolCalled, Step
<1>3. Playable(outQ', buf', cur', cut', reader')
  BY DEF SInv, ToolCalled, Step
<1>4. Asked(wire', tool', revoked')
  <2>1. PICK p \in {"commit"} : tool' = [tool EXCEPT ![c] = p]
    BY <1>d
  <2>2. tool[c] \notin {"none", "over"} /\ p \in Places /\ p # "none"
    BY DEF ToolCalled, Places
  <2>3. Asked(wire, [tool EXCEPT ![c] = p], revoked)
    BY <1>e, <2>2, AskedMoves DEF SInv
  <2>4. QED
    BY <2>1, <2>3 DEF ToolCalled
<1>5. HandsOver(tool', transfer', posts')
  <2>1. HandsOver(tool', transfer, posts)
    BY <1>e, <1>n, HandsMove DEF SInv
  <2>2. CASE Kind[c] # "transfer"
    BY <1>n, <2>1, <2>2 DEF ToolCalled
  <2>3. CASE Kind[c] = "transfer"
    <3>1. c \in Dialling(tool)
      BY <1>n, <2>3 DEF Dialling
    <3>2. transfer /\ posts = 0 /\ Dialling(tool) = {c}
      BY <1>n, <3>1 DEF SInv, TypeOK, HandsOver
    <3>3. \A b \in Calls : b # c => tool'[b] = tool[b]
      BY <1>e, <1>n
    <3>4. tool'[c] = "commit"
      BY <1>e, <1>n
    <3>5. Dialling(tool') = {}
      BY <3>2, <3>3, <3>4 DEF Dialling
    <3>6. posts' = 1 /\ transfer'
      BY <1>n, <2>3, <3>2 DEF ToolCalled
    <3>7. QED
      BY <3>5, <3>6 DEF HandsOver
  <2>4. QED
    BY <2>2, <2>3
<1>6. QED
  BY <1>1, <1>2, <1>3, <1>4, <1>5 DEF SInv

\* A tool task ends; end_call arms the hangup.
LEMMA ToolEndsKeeps ==
    ASSUME SInv, NEW c \in Calls, ToolEnds(c)
    PROVE  SInv'
<1> USE DEF session, caller, server, reading, output, tools
<1>d. \E p \in {"over"} : tool' = [tool EXCEPT ![c] = p]
  BY DEF ToolEnds, Step
<1>e. tool \in [Calls -> Places]
  BY DEF SInv, TypeOK, Places
<1>f. tool' \in [Calls -> {"none", "start", "fill", "call", "commit", "sent", "over"}]
  BY <1>d, <1>e DEF Places

<1>n. posts \in Nat /\ tool[c] = "sent" /\ "over" \in Places /\ tool' = [tool EXCEPT ![c] = "over"]
  BY DEF SInv, TypeOK, ToolEnds, Step, Places
<1>m. timers' \in Nat
  BY DEF SInv, TypeOK, ToolEnds
<1>o. armed' \in BOOLEAN
  BY DEF SInv, TypeOK, ToolEnds
<1>1. TypeOK'
  BY <1>f, <1>m, <1>o DEF SInv, TypeOK, ToolEnds
<1>2. InOrder(wire', active', Len(purpose'), cur', cut', reader', Ends(outQ'))
  BY DEF SInv, ToolEnds, Step
<1>3. Playable(outQ', buf', cur', cut', reader')
  BY DEF SInv, ToolEnds, Step
<1>4. Asked(wire', tool', revoked')
  <2>1. PICK p \in {"over"} : tool' = [tool EXCEPT ![c] = p]
    BY <1>d
  <2>2. tool[c] \notin {"none", "over"} /\ p \in Places /\ p # "none"
    BY DEF ToolEnds, Places
  <2>3. Asked(wire, [tool EXCEPT ![c] = p], revoked)
    BY <1>e, <2>2, AskedMoves DEF SInv
  <2>4. QED
    BY <2>1, <2>3 DEF ToolEnds
<1>5. HandsOver(tool', transfer', posts')
  BY <1>e, <1>n, HandsMove DEF SInv, ToolEnds
<1>6. QED
  BY <1>1, <1>2, <1>3, <1>4, <1>5 DEF SInv

-------------------------------------------------------------------------------
(* The specification.                                                       *)

\* The invariant holds when the session is set up.
LEMMA InitInvariant == Init => SInv
<1> SUFFICES ASSUME Init PROVE SInv
  OBVIOUS
<1>1. Len(purpose) = 0 /\ Len(wire) = 0 /\ Len(outQ) = 0 /\ Len(buf) = 0
  BY DEF Init
<1>2. call.audio \in Nat /\ left \in Limits
  BY ScenariosAssumption DEF Init
<1>3. TypeOK
  <2>1. tool \in [Calls -> {"none", "start", "fill", "call", "commit", "sent", "over"}]
    BY DEF Init
  <2>2. /\ wire \in Seq(ProviderEvents) /\ outQ \in Seq(OutPackets) /\ buf \in Seq(Nat)
        /\ purpose \in Seq(Purposes)
    BY DEF Init
  <2>3. /\ ended \in BOOLEAN /\ hangup \in BOOLEAN /\ armed \in BOOLEAN /\ ingest \in BOOLEAN
        /\ transfer \in BOOLEAN /\ late \in BOOLEAN /\ ready \in BOOLEAN /\ typed \in BOOLEAN
    BY DEF Init
  <2>4. /\ timers \in Nat /\ posts \in Nat /\ active \in 0..Len(purpose) /\ said \in 0..call.audio
        /\ cur \in 0..Len(purpose) /\ cut \in 0..Len(purpose) /\ attempts \in 0..MaxAttempts
    BY <1>1, <1>2, BoundsAssumption DEF Init
  <2>5. QED
    BY <1>2, <2>1, <2>2, <2>3, <2>4 DEF Init, TypeOK
<1>4. InOrder(wire, active, Len(purpose), cur, cut, reader, Ends(outQ))
  BY <1>1 DEF Init, InOrder, Ends
<1>5. Playable(outQ, buf, cur, cut, reader)
  BY <1>1 DEF Init, Playable
<1>6. Asked(wire, tool, revoked)
  BY <1>1 DEF Init, Asked
<1>7. HandsOver(tool, transfer, posts)
  <2>1. Dialling(tool) = {}
    BY DEF Init, Dialling
  <2>2. QED
    BY <2>1 DEF Init, HandsOver
<1>8. QED
  BY <1>3, <1>4, <1>5, <1>6, <1>7 DEF SInv

\* Every step keeps the invariant.
LEMMA StepInvariant == SInv /\ [Next]_vars => SInv'
<1> SUFFICES ASSUME SInv, [Next]_vars PROVE SInv'
  OBVIOUS
<1>1. CASE ReaderStep
  BY <1>1, ReadAfterEndKeeps, ReadCreatedKeeps, ReadRejectedKeeps, ReadAudioKeeps,
     EncodedKeeps, ReadDoneKeeps, FinishedKeeps, ReadSpeechKeeps, ClearedKeeps, ReadCallKeeps,
     ReadRevokeKeeps, ReadFatalKeeps, ReadClosedKeeps, RestedKeeps, ReconnectedKeeps DEF ReaderStep
<1>2. ASSUME NEW c \in Calls, ToolStep(c) PROVE SInv'
  BY <1>2, ToolStartsKeeps, ToolFillerKeeps, ToolCalledKeeps, ToolCommitsKeeps, ToolEndsKeeps DEF ToolStep
<1>3. CASE Environment
  BY <1>3, ProviderReplyKeeps, ProviderAudioKeeps, ProviderDoneKeeps, CallerSpeaksKeeps,
     ProviderFailsKeeps, IngestEosKeeps, IngestFailsKeeps, WatchdogHangsUpKeeps, WatchdogEndsWebCallKeeps,
     WatchdogChecksKeeps, TypesKeeps,
     ProviderCallsKeeps, ProviderRevokesKeeps
     DEF Environment
<1>4. CASE Connect \/ Greet \/ Close \/ IngestStops \/ Teardown \/ TimerFires \/ WatchdogAsked \/ PacerTick \/ Sent \/
   TypedSent
  BY <1>4, ConnectKeeps, GreetKeeps, CloseKeeps, IngestStopsKeeps, TeardownKeeps,
     TimerFiresKeeps, WatchdogAskedKeeps, PacerTickKeeps, SentKeeps, TypedSentKeeps
<1>5. CASE UNCHANGED vars
  <2> USE <1>5 DEF vars, session, caller, server, reading, output, tools
  <2>1. TypeOK'
    BY DEF SInv, TypeOK
  <2>2. QED
    BY <2>1 DEF SInv
<1>6. QED
  BY <1>1, <1>2, <1>3, <1>4, <1>5 DEF Next

\* The invariant of a speech-to-speech call (_s2s_event_loop, the pacer, the tool tasks
\* and process_call_hangup).
THEOREM S2SInvariant == Spec => []SInv
<1>1. QED
  BY InitInvariant, StepInvariant, PTL DEF Spec

\* Every variable keeps its type; the reader never makes more than MAX_RECONNECT_ATTEMPTS
\* attempts in a row (receive_events of the providers).
THEOREM S2STypeCorrect == Spec => []TypeOK
<1>1. SInv => TypeOK
  BY DEF SInv
<1>2. QED
  BY <1>1, S2SInvariant, PTL

\* The end-of-stream packet never overtakes audio of its own response, for any number of
\* responses and any pacing (ResponseDone in _s2s_event_loop).
THEOREM EndIsLastHolds == Spec => []EndIsLast
<1>1. SInv => EndIsLast
  <2> SUFFICES ASSUME SInv, NEW i \in DOMAIN outQ, outQ[i].k = "end"
               PROVE  /\ \A j \in (i + 1)..Len(outQ) : outQ[j].k = "audio" => outQ[j].r # outQ[i].r
                      /\ \A j \in DOMAIN buf : buf[j] # outQ[i].r
    BY DEF EndIsLast
  <2>1. /\ outQ \in Seq(OutPackets) /\ buf \in Seq(Nat) /\ DOMAIN outQ = 1..Len(outQ)
        /\ DOMAIN buf = 1..Len(buf) /\ Len(outQ) \in Nat
    BY DEF SInv, TypeOK
  <2>2. \A j \in 1..Len(outQ) : outQ[j].r \in Nat
    <3>1. \A j \in 1..Len(outQ) : outQ[j] \in OutPackets
      BY <2>1
    <3>2. QED
      BY <3>1 DEF OutPackets
  <2>3. ASSUME NEW j \in (i + 1)..Len(outQ), outQ[j].k = "audio" PROVE outQ[j].r # outQ[i].r
    <3>1. i \in 1..Len(outQ) /\ j \in 1..Len(outQ) /\ i < j
      BY <2>1
    <3>2. outQ[i].r < outQ[j].r
      BY <2>3, <3>1 DEF SInv, Playable
    <3>3. QED
      BY <2>2, <3>1, <3>2
  <2>4. ASSUME NEW j \in DOMAIN buf PROVE buf[j] # outQ[i].r
    <3>1. outQ[i].r \in Ends(outQ) /\ j \in 1..Len(buf) /\ i \in 1..Len(outQ)
      BY <2>1 DEF Ends
    <3>2. outQ[i].r < buf[j]
      BY <3>1 DEF SInv, Playable
    <3>3. buf[j] \in Nat
      BY <2>1, <3>1
    <3>4. QED
      BY <2>2, <3>1, <3>2, <3>3
  <2>5. QED
    BY <2>3, <2>4
<1>2. QED
  BY <1>1, S2SInvariant, PTL

\* What a barge-in silenced is never played later, for any order of audio, speech and
\* completed turns on the wire (Interrupted in _s2s_event_loop).
THEOREM BargeInSilencesHolds == Spec => []BargeInSilences
<1>1. SInv => BargeInSilences
  <2> SUFFICES ASSUME SInv PROVE BargeInSilences
    OBVIOUS
  <2>1. /\ DOMAIN outQ = 1..Len(outQ) /\ DOMAIN buf = 1..Len(buf)
        /\ outQ \in Seq(OutPackets) /\ buf \in Seq(Nat) /\ cut \in Nat
    BY DEF SInv, TypeOK
  <2>2. /\ \A i \in 1..Len(outQ) : outQ[i].k = "audio" => cut < outQ[i].r
        /\ \A i \in 1..Len(buf) : cut < buf[i]
    BY DEF SInv, Playable
  <2>3. \A i \in 1..Len(outQ) : outQ[i].r \in Nat
    <3>1. \A j \in 1..Len(outQ) : outQ[j] \in OutPackets
      BY <2>1
    <3>2. QED
      BY <3>1 DEF OutPackets
  <2>4. \A i \in 1..Len(buf) : buf[i] \in Nat
    BY <2>1
  <2>5. QED
    BY <2>1, <2>2, <2>3, <2>4 DEF BargeInSilences
<1>2. QED
  BY <1>1, S2SInvariant, PTL

\* However often the model asks for a transfer, one webhook is sent (has_transfer in
\* _s2s_execute_tool).
THEOREM TransferredOnceHolds == Spec => []TransferredOnce
<1>1. SInv => TransferredOnce
  BY DEF SInv, HandsOver, TransferredOnce
<1>2. QED
  BY <1>1, S2SInvariant, PTL

\* No result is sent for a call that the provider withdrew (FunctionCallCancelled cancels
\* the task, and the call is not announced again).
THEOREM RevokedNotAnsweredHolds == Spec => RevokedNotAnswered
<1>1. SInv => \A c \in Calls : (tool[c] = "commit" /\ tool'[c] = "sent") => c \notin revoked
  BY DEF SInv, Asked
<1>2. QED
  BY <1>1, S2SInvariant, PTL DEF RevokedNotAnswered

\* What a step may do to the end of the call.
Onward ==
    /\ run = "done" => run' = "done"
    /\ ended => ended'
    /\ Deciding => Deciding' \/ ended'
    /\ ended' \/ closing' = closing \/ closing = "nobody"

\* Every step goes that way: the hangup is taken by one task and not given back.
LEMMA StepOnward == SInv /\ [Next]_vars => Onward
<1> SUFFICES ASSUME SInv, [Next]_vars PROVE Onward
  OBVIOUS
<1> USE DEF session, caller, server, reading, output, tools, Onward, Deciding, HangUp, Claims
<1>t. armed \in BOOLEAN /\ hangup \in BOOLEAN /\ ended \in BOOLEAN
  BY DEF SInv, TypeOK
<1>1. CASE Connect
  BY <1>t, <1>1 DEF Connect
<1>2. CASE Greet
  BY <1>t, <1>2 DEF Greet
<1>3. CASE Close
  BY <1>t, <1>3 DEF Close
<1>4. CASE IngestStops
  BY <1>t, <1>4 DEF IngestStops
<1>5. CASE Teardown
  BY <1>t, <1>5 DEF Teardown
<1>6. CASE TimerFires
  BY <1>t, <1>6 DEF TimerFires
<1>7. CASE WatchdogAsked
  BY <1>t, <1>7 DEF WatchdogAsked
<1>8. CASE PacerTick
  BY <1>t, <1>8 DEF PacerTick
<1>9. CASE Sent
  BY <1>t, <1>9 DEF Sent
<1>10. CASE TypedSent
  BY <1>t, <1>10 DEF TypedSent
<1>11. CASE ReadAfterEnd
  BY <1>t, <1>11 DEF ReadAfterEnd
<1>12. CASE ReadCreated
  BY <1>t, <1>12 DEF ReadCreated
<1>13. CASE ReadRejected
  BY <1>t, <1>13 DEF ReadRejected
<1>14. CASE ReadAudio
  BY <1>t, <1>14 DEF ReadAudio
<1>15. CASE Encoded
  BY <1>t, <1>15 DEF Encoded
<1>16. CASE ReadDone
  BY <1>t, <1>16 DEF ReadDone, Reads
<1>17. CASE Finished
  BY <1>t, <1>17 DEF Finished
<1>18. CASE ReadSpeech
  BY <1>t, <1>18 DEF ReadSpeech
<1>19. CASE Cleared
  BY <1>t, <1>19 DEF Cleared
<1>20. CASE ReadCall
  BY <1>t, <1>20 DEF ReadCall
<1>21. CASE ReadRevoke
  BY <1>t, <1>21 DEF ReadRevoke
<1>22. CASE ReadFatal
  BY <1>t, <1>22 DEF ReadFatal
<1>23. CASE ReadClosed
  BY <1>t, <1>23 DEF ReadClosed
<1>24. CASE Rested
  BY <1>t, <1>24 DEF Rested
<1>25. CASE Reconnected
  BY <1>t, <1>25 DEF Reconnected
<1>26. CASE ProviderReply
  BY <1>t, <1>26 DEF ProviderReply
<1>27. CASE ProviderAudio
  BY <1>t, <1>27 DEF ProviderAudio
<1>28. CASE ProviderDone
  BY <1>t, <1>28 DEF ProviderDone
<1>29. CASE CallerSpeaks
  BY <1>t, <1>29 DEF CallerSpeaks
<1>30. CASE ProviderFails
  BY <1>t, <1>30 DEF ProviderFails
<1>31. CASE IngestEos
  BY <1>t, <1>31 DEF IngestEos
<1>32. CASE IngestFails
  BY <1>t, <1>32 DEF IngestFails
<1>33. CASE WatchdogHangsUp \/ WatchdogEndsWebCall \/ WatchdogChecks
  BY <1>t, <1>33 DEF WatchdogHangsUp, WatchdogEndsWebCall, WatchdogChecks
<1>34. CASE Types
  BY <1>t, <1>34 DEF Types
<1>35. ASSUME NEW c \in Calls, ToolStarts(c) PROVE Onward
  BY <1>t, <1>35 DEF ToolStarts
<1>36. ASSUME NEW c \in Calls, ToolFiller(c) PROVE Onward
  BY <1>t, <1>36 DEF ToolFiller
<1>37. ASSUME NEW c \in Calls, ToolCalled(c) PROVE Onward
  BY <1>t, <1>37 DEF ToolCalled
<1>38. ASSUME NEW c \in Calls, ToolCommits(c) PROVE Onward
  BY <1>t, <1>38 DEF ToolCommits
<1>39. ASSUME NEW c \in Calls, ToolEnds(c) PROVE Onward
  BY <1>t, <1>39 DEF ToolEnds
<1>40. ASSUME NEW c \in Calls, ProviderCalls(c) PROVE Onward
  BY <1>t, <1>40 DEF ProviderCalls
<1>41. ASSUME NEW c \in Calls, ProviderRevokes(c) PROVE Onward
  BY <1>t, <1>41 DEF ProviderRevokes
<1>42. CASE UNCHANGED vars
  BY <1>t, <1>42 DEF vars
<1>43. QED
  BY <1>1, <1>2, <1>3, <1>4, <1>5, <1>6, <1>7, <1>8, <1>9, <1>10, <1>11, <1>12, <1>13, <1>14,
     <1>15, <1>16, <1>17, <1>18, <1>19, <1>20, <1>21, <1>22, <1>23, <1>24, <1>25, <1>26,
     <1>27, <1>28, <1>29, <1>30, <1>31, <1>32, <1>33, <1>34, <1>35, <1>36, <1>37, <1>38,
     <1>39, <1>40, <1>41, <1>42
     DEF Next, ReaderStep, ToolStep, Environment

\* A speech-to-speech call is a call of CallPromise: its initial state maps to an initial
\* state and every step to a step or a stutter (_hangup_processing and the finally block of
\* _run_s2s_conversation).
THEOREM S2SKeepsPromise == Spec => Promise!Init /\ [][Promise!Next]_(Promise!promise)
<1>1. Init => Promise!Init
  BY DEF Init, Promise!Init, Stage, Over, Deciding
<1>2. SInv /\ SInv' /\ Onward => [Promise!Next]_(Promise!promise)
  <2> SUFFICES ASSUME SInv, SInv', Onward PROVE Promise!Next \/ UNCHANGED Promise!promise
    OBVIOUS
  <2> USE DEF Stage, Over, Deciding, Promise!Next, Promise!promise, Promise!Decide, Promise!Claim, Promise!End,
          Promise!Lost, Promise!Finish, Promise!Abandon
  <2>t. /\ ended \in BOOLEAN /\ armed \in BOOLEAN /\ hangup \in BOOLEAN
        /\ closing \in {"nobody", "reader", "timer", "watch"}
    BY DEF SInv, TypeOK
  <2>p. /\ ended' \in BOOLEAN /\ armed' \in BOOLEAN /\ hangup' \in BOOLEAN
        /\ closing' \in {"nobody", "reader", "timer", "watch"}
    BY DEF SInv, TypeOK
  <2>1. CASE run = "done"
    BY <2>1 DEF Onward
  <2>2. CASE run # "done" /\ run' = "done"
    BY <2>2, <2>t DEF Onward
  <2>3. CASE run # "done" /\ run' # "done" /\ ended
    BY <2>3 DEF Onward
  <2>4. CASE run # "done" /\ run' # "done" /\ ~ended /\ ended'
    BY <2>4, <2>t DEF Onward
  <2>5. CASE run # "done" /\ run' # "done" /\ ~ended /\ ~ended'
    <3>1. CASE closing' # closing
      BY <2>5, <2>t, <2>p, <3>1 DEF Onward
    <3>2. CASE closing' = closing
      BY <2>5, <2>t, <2>p, <3>2 DEF Onward
    <3>3. QED
      BY <3>1, <3>2
  <2>6. QED
    BY <2>1, <2>2, <2>3, <2>4, <2>5
<1>3. QED
  BY <1>1, <1>2, StepOnward, StepInvariant, S2SInvariant, PTL DEF Spec
=============================================================================
