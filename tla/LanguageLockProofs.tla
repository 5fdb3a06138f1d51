------------------------- MODULE LanguageLockProofs -------------------------
(***************************************************************************)
(* The three locks of a language switch, proved for any number of tasks:    *)
(* the line of a lock is exactly the tasks that ask for it or have it, so   *)
(* nobody waits in a circle and no lock is left behind.                     *)
(***************************************************************************)
EXTENDS LanguageSwitchProofs

-------------------------------------------------------------------------------
(* The inductive invariant.                                                 *)

\* The line q of a lock is the members of S, each once.
Line(q, S) ==
    /\ \A i \in 1..Len(q) : q[i] \in S
    /\ \A x \in S : \E i \in 1..Len(q) : q[i] = x
    /\ \A i, j \in 1..Len(q) : q[i] = q[j] => i = j

\* A task asks for a lock at the first of these places and has it at the others.
AtLang == {"lock"} \cup Critical
AtTr == {"tr", "reconn"}
AtSy == {"sy", "cancel"}

LangLine == {t \in Tasks : Judged /\ pc[t] \in AtLang}
TrLine == {t \in Tasks : pc[t] \in AtTr} \cup {x \in {Listener} : listener \in {"lock", "reconn"}}
SyLine == {t \in Tasks : pc[t] \in AtSy}

QInv ==
    /\ Line(langQ, LangLine) /\ Line(trQ, TrLine) /\ Line(syQ, SyLine)
    /\ \A t \in Tasks : pc[t] = "lock" => Judged

-------------------------------------------------------------------------------
(* Lines.                                                                   *)

\* A task joins the end of a line it is not in.
LEMMA LineJoins ==
    ASSUME NEW T, NEW q \in Seq(T), NEW S, NEW x \in T, Line(q, S), x \notin S
    PROVE  Line(Append(q, x), S \cup {x})
<1> DEFINE v == Append(q, x)
<1>1. /\ \A i \in 1..Len(q) : v[i] = q[i]
      /\ v[Len(q) + 1] = x /\ Len(v) = Len(q) + 1 /\ Len(q) \in Nat
  OBVIOUS
<1> HIDE DEF v
<1>2. \A i \in 1..Len(v) : \/ i = Len(q) + 1 /\ v[i] = x
                           \/ i \in 1..Len(q) /\ v[i] = q[i] /\ v[i] \in S
  BY <1>1 DEF Line
<1>3. \A y \in S \cup {x} : \E i \in 1..Len(v) : v[i] = y
  <2>1. ASSUME NEW y \in S PROVE \E i \in 1..Len(v) : v[i] = y
    <3>1. PICK i \in 1..Len(q) : q[i] = y
      BY DEF Line
    <3>2. i \in 1..Len(v) /\ v[i] = y
      BY <1>1, <3>1
    <3>3. QED
      BY <3>2
  <2>2. Len(q) + 1 \in 1..Len(v) /\ v[Len(q) + 1] = x
    BY <1>1
  <2>3. QED
    BY <2>1, <2>2
<1>4. \A i, j \in 1..Len(v) : v[i] = v[j] => i = j
  BY <1>2 DEF Line
<1>5. QED
  BY <1>2, <1>3, <1>4 DEF Line, v

\* The first of a line leaves it.
LEMMA LineLeaves ==
    ASSUME NEW T, NEW q \in Seq(T), NEW S, NEW x, Line(q, S), Holds(q, x)
    PROVE  Line(Tail(q), S \ {x})
<1> DEFINE v == Tail(q)
<1>1. /\ q[1] = x /\ Len(v) = Len(q) - 1 /\ Len(q) \in Nat /\ 1 \in 1..Len(q)
      /\ \A i \in 1..Len(v) : v[i] = q[i + 1] /\ i + 1 \in 1..Len(q) /\ i + 1 # 1
  BY DEF Holds
<1> HIDE DEF v
<1>2. \A i \in 1..Len(v) : v[i] \in S \ {x}
  BY <1>1 DEF Line
<1>3. ASSUME NEW y \in S \ {x} PROVE \E i \in 1..Len(v) : v[i] = y
  <2>1. PICK j \in 1..Len(q) : q[j] = y
    BY DEF Line
  <2>2. j - 1 \in 1..Len(v) /\ (j - 1) + 1 = j
    BY <1>1, <2>1
  <2>3. v[j - 1] = y
    BY <1>1, <2>1, <2>2
  <2>4. QED
    BY <2>2, <2>3
<1>4. \A i, j \in 1..Len(v) : v[i] = v[j] => i = j
  <2>1. SUFFICES ASSUME NEW i \in 1..Len(v), NEW j \in 1..Len(v), v[i] = v[j] PROVE i = j
    OBVIOUS
  <2>2. i + 1 \in 1..Len(q) /\ j + 1 \in 1..Len(q) /\ q[i + 1] = q[j + 1]
    BY <1>1, <2>1
  <2>3. i + 1 = j + 1
    BY <2>2 DEF Line
  <2>4. QED
    BY <2>3
<1>5. QED
  BY <1>2, <1>3, <1>4 DEF Line, v

\* Who is first in a line is in it, and a line of somebody has a first.
LEMMA LineHead ==
    ASSUME NEW T, NEW q \in Seq(T), NEW S, Line(q, S)
    PROVE  /\ \A x : Holds(q, x) => x \in S
           /\ S # {} => q # <<>> /\ Head(q) \in S /\ Holds(q, Head(q))
<1>1. q # <<>> => q[1] = Head(q) /\ 1 \in 1..Len(q)
  OBVIOUS
<1>2. S # {} => q # <<>>
  BY DEF Line
<1>3. QED
  BY <1>1, <1>2 DEF Line, Holds

\* What task t does to the line q of a lock when it was among those who ask for it or
\* have it, or not, and now is, or not: it joins, leaves as the first, or lets it be.
Follows(q, next, t, was, now) ==
    /\ (was <=> now) => next = q
    /\ ~was /\ now => next = Append(q, t)
    /\ was /\ ~now => Holds(q, t) /\ next = Tail(q)

LEMMA LineFollows ==
    ASSUME NEW T, NEW q \in Seq(T), NEW S, NEW R, NEW next, NEW t \in T, Line(q, S),
           \A x : x # t => (x \in S <=> x \in R), Follows(q, next, t, t \in S, t \in R)
    PROVE  Line(next, R)
<1>1. CASE t \in S <=> t \in R
  <2>1. R = S /\ next = q
    BY <1>1 DEF Follows
  <2>2. QED
    BY <2>1
<1>2. CASE t \notin S /\ t \in R
  <2>1. R = S \cup {t} /\ next = Append(q, t)
    BY <1>2 DEF Follows
  <2>2. QED
    BY <1>2, <2>1, LineJoins
<1>3. CASE t \in S /\ t \notin R
  <2>1. R = S \ {t} /\ next = Tail(q) /\ Holds(q, t)
    BY <1>3 DEF Follows
  <2>2. QED
    BY <2>1, LineLeaves
<1>4. QED
  BY <1>1, <1>2, <1>3

-------------------------------------------------------------------------------
(* Steps.                                                                   *)

\* Task t goes to place b and to the lines of the locks that b is about.
Shifts(t, b) ==
    /\ pc' = [pc EXCEPT ![t] = b] /\ call' = call /\ listener' = listener
    /\ Follows(langQ, langQ', t, Judged /\ pc[t] \in AtLang, Judged /\ b \in AtLang)
    /\ Follows(trQ, trQ', t, pc[t] \in AtTr, b \in AtTr)
    /\ Follows(syQ, syQ', t, pc[t] \in AtSy, b \in AtSy)
    /\ b = "lock" => Judged

\* A step of this kind keeps the lines.
LEMMA ShiftKeeps ==
    ASSUME LInv, QInv, NEW t \in Tasks, NEW b \in Pcs, Shifts(t, b)
    PROVE  QInv'
<1>1. /\ pc \in [Tasks -> Pcs] /\ trQ \in Seq(Tasks \cup {Listener}) /\ syQ \in Seq(Tasks)
      /\ langQ \in Seq(Tasks)
  BY DEF LInv, TypeOK
<1>2. /\ pc'[t] = b /\ \A u \in Tasks : u # t => pc'[u] = pc[u]
  BY <1>1 DEF Shifts
<1>3. Judged' = Judged
  BY DEF Shifts, Judged
<1>4. t # Listener
  BY TasksAssumption
<1>5. Line(langQ', LangLine')
  <2>1. /\ \A x : x # t => (x \in LangLine <=> x \in LangLine')
        /\ t \in LangLine <=> (Judged /\ pc[t] \in AtLang)
        /\ t \in LangLine' <=> (Judged /\ b \in AtLang)
    BY <1>2, <1>3 DEF LangLine
  <2>2. Follows(langQ, langQ', t, t \in LangLine, t \in LangLine')
    BY <2>1 DEF Shifts, Follows
  <2>3. QED
    BY <1>1, <2>1, <2>2, LineFollows DEF QInv
<1>6. Line(trQ', TrLine')
  <2>1. /\ \A x : x # t => (x \in TrLine <=> x \in TrLine')
        /\ t \in TrLine <=> pc[t] \in AtTr
        /\ t \in TrLine' <=> b \in AtTr
    BY <1>2, <1>4 DEF TrLine, Shifts
  <2>2. Follows(trQ, trQ', t, t \in TrLine, t \in TrLine')
    BY <2>1 DEF Shifts, Follows
  <2>3. t \in Tasks \cup {Listener}
    OBVIOUS
  <2>4. QED
    BY <1>1, <2>1, <2>2, <2>3, LineFollows DEF QInv
<1>7. Line(syQ', SyLine')
  <2>1. /\ \A x : x # t => (x \in SyLine <=> x \in SyLine')
        /\ t \in SyLine <=> pc[t] \in AtSy
        /\ t \in SyLine' <=> b \in AtSy
    BY <1>2 DEF SyLine
  <2>2. Follows(syQ, syQ', t, t \in SyLine, t \in SyLine')
    BY <2>1 DEF Shifts, Follows
  <2>3. QED
    BY <1>1, <2>1, <2>2, LineFollows DEF QInv
<1>8. \A u \in Tasks : pc'[u] = "lock" => Judged'
  BY <1>2, <1>3 DEF QInv, Shifts
<1>9. QED
  BY <1>5, <1>6, <1>7, <1>8 DEF QInv

\* What a task has at the place where it is.
LEMMA Place ==
    ASSUME LInv, QInv, NEW t \in Tasks
    PROVE  /\ pc[t] \in Pcs
           /\ Judged /\ pc[t] \in Critical => Holds(langQ, t)
           /\ Holds(langQ, t) => Judged /\ pc[t] \in AtLang
           /\ pc[t] = "reconn" => Holds(trQ, t)
           /\ pc[t] = "cancel" => Holds(syQ, t)
           /\ pc[t] \in {"lock", "settle", "decide", "cut", "cutAudible", "gap", "speak"} => Judged
           /\ job[t].kind \in {"turn", "idle"} => Judged
<1>1. langQ \in Seq(Tasks) /\ pc[t] \in Pcs
  BY DEF LInv, TypeOK
<1>2. Holds(langQ, t) => t \in LangLine
  BY <1>1, LineHead DEF QInv
<1>3. QED
  BY <1>1, <1>2 DEF LangLine, LInv, OneDecides, LocksHeld, QInv

\* A task returns.
LEMMA LeaveShifts ==
    ASSUME LInv, QInv, NEW t \in Tasks, Leave(t), call' = call, listener' = listener,
           pc[t] \notin AtSy, syQ' = syQ, pc[t] = "lock" => Holds(langQ, t),
           Follows(trQ, trQ', t, pc[t] \in AtTr, FALSE)
    PROVE  Shifts(t, "free")
<1>1. pc' = [pc EXCEPT ![t] = "free"]
  BY DEF Leave, Go
<1>2. Follows(langQ, langQ', t, Judged /\ pc[t] \in AtLang, Judged /\ "free" \in AtLang)
  <2>1. Judged /\ pc[t] \in AtLang <=> Holds(langQ, t)
    BY Place DEF AtLang
  <2>2. QED
    BY <2>1 DEF Leave, Follows, AtLang, Critical
<1>3. QED
  BY <1>1, <1>2 DEF Shifts, Follows, AtTr, AtSy

\* Steps of the pools' switches.
LEMMA PoolSteps ==
    ASSUME LInv, QInv, NEW t \in Tasks, TrSwitch(t) \/ TrReconnected(t) \/ SySwitch(t) \/ SyCancelled(t)
    PROVE  \E b \in Pcs : Shifts(t, b)
<1> USE DEF pools, conns, audio
<1>1. /\ "free" \in Pcs /\ "sy" \in Pcs /\ "reconn" \in Pcs /\ "cancel" \in Pcs /\ "speak" \in Pcs
  BY DEF Pcs
<1>2. CASE TrSwitch(t)
  <2>1. CASE Return(t)
    <3>1. pc \in [Tasks -> Pcs] /\ pc'[t] = "free"
      BY <2>1 DEF LInv, TypeOK, Return, Leave, Go
    <3>2. ~ToVoice(t) /\ ~Go(t, "reconn")
      BY <3>1 DEF ToVoice, Go
    <3>3. trQ' = Tail(trQ) /\ Holds(trQ, t) /\ syQ' = syQ /\ pc[t] = "tr"
      BY <1>2, <3>2 DEF TrSwitch
    <3>4. QED
      BY <1>1, <1>2, <2>1, <3>3, LeaveShifts DEF TrSwitch, Return, Follows, AtTr, AtSy
  <2>2. CASE ToVoice(t) /\ langQ' = langQ
    <3>1. Shifts(t, "sy")
      BY <1>2, <2>2 DEF TrSwitch, ToVoice, Go, Shifts, Follows, AtLang, AtTr, AtSy, Critical
    <3>2. QED
      BY <1>1, <3>1
  <2>3. CASE Go(t, "reconn") /\ UNCHANGED <<trQ, syQ, langQ>>
    <3>1. Shifts(t, "reconn")
      BY <1>2, <2>3 DEF TrSwitch, Go, Shifts, Follows, AtLang, AtTr, AtSy, Critical
    <3>2. QED
      BY <1>1, <3>1
  <2>4. QED
    BY <1>2, <2>1, <2>2, <2>3 DEF TrSwitch
<1>3. CASE TrReconnected(t)
  <2>1. Shifts(t, "sy")
    BY <1>3, Place DEF TrReconnected, ToVoice, Go, Shifts, Follows, AtLang, AtTr, AtSy, Critical
  <2>2. QED
    BY <1>1, <2>1
<1>4. ASSUME Applied(t), pc[t] \in AtSy, Holds(syQ, t), call' = call, listener' = listener, trQ' = trQ
      PROVE  \E b \in Pcs : Shifts(t, b)
  <2>1. CASE Go(t, "speak") /\ langQ' = langQ
    <3>1. Shifts(t, "speak")
      BY <1>4, <2>1 DEF Applied, Go, Shifts, Follows, AtLang, AtTr, AtSy, Critical
    <3>2. QED
      BY <1>1, <3>1
  <2>2. CASE Leave(t)
    <3>1. Judged /\ pc[t] \in AtLang <=> Holds(langQ, t)
      BY <1>4, Place DEF AtLang, AtSy, Critical
    <3>2. Shifts(t, "free")
      BY <1>4, <2>2, <3>1 DEF Applied, Leave, Go, Shifts, Follows, AtLang, AtTr, AtSy, Critical
    <3>3. QED
      BY <1>1, <3>2
  <2>3. QED
    BY <1>4, <2>1, <2>2 DEF Applied, Return
<1>5. CASE SySwitch(t)
  <2>1. CASE Applied(t)
    BY <1>4, <1>5, <2>1 DEF SySwitch, AtSy
  <2>v. CASE Voiceless(t)
    <3>0. Leave(t) /\ syQ' = Tail(syQ) /\ pc[t] = "sy" /\ Holds(syQ, t)
          /\ UNCHANGED <<call, trQ, listener>>
      BY <1>5, <2>v DEF SySwitch, Voiceless, Return, conns
    <3>1. Judged /\ pc[t] \in AtLang <=> Holds(langQ, t)
      BY <3>0, Place DEF AtLang, AtSy, Critical
    <3>2. Shifts(t, "free")
      BY <3>0, <3>1 DEF Leave, Go, Shifts, Follows, AtLang, AtTr, AtSy, Critical
    <3>3. QED
      BY <1>1, <3>2
  <2>2. CASE Go(t, "cancel") /\ UNCHANGED <<langQ, syQ>>
    <3>1. Shifts(t, "cancel")
      BY <1>5, <2>2 DEF SySwitch, Go, Shifts, Follows, AtLang, AtTr, AtSy, Critical
    <3>2. QED
      BY <1>1, <3>1
  <2>3. QED
    BY <1>5, <2>1, <2>v, <2>2 DEF SySwitch
<1>6. CASE SyCancelled(t)
  BY <1>4, <1>6, Place DEF SyCancelled, AtSy
<1>7. QED
  BY <1>2, <1>3, <1>5, <1>6

\* Every place.
LEMMA Places ==
    /\ "free" \in Pcs /\ "wait" \in Pcs /\ "lock" \in Pcs /\ "settle" \in Pcs /\ "decide" \in Pcs
    /\ "cut" \in Pcs /\ "cutAudible" \in Pcs /\ "gap" \in Pcs /\ "tr" \in Pcs /\ "follow" \in Pcs
BY DEF Pcs

\* A task asks for the transcriber pool's lock.
LEMMA EnterShifts ==
    ASSUME LInv, QInv, NEW t \in Tasks, Enter(t), call' = call, listener' = listener,
           pc[t] \notin AtTr \cup AtSy, syQ' = syQ, langQ' = langQ, Judged <=> Judged /\ pc[t] \in AtLang
    PROVE  \E b \in Pcs : Shifts(t, b)
<1>1. Shifts(t, "tr")
  BY DEF Enter, Go, Shifts, Follows, AtLang, AtTr, AtSy, Critical
<1>2. QED
  BY <1>1, Places

\* A task that is about none of the three locks goes to another such place, or stays
\* inside language_switch_lock.
LEMMA GoShifts ==
    ASSUME LInv, QInv, NEW t \in Tasks, NEW b \in Pcs, Go(t, b), call' = call, listener' = listener,
           UNCHANGED <<trQ, syQ, langQ>>, pc[t] \notin AtTr \cup AtSy, b \notin AtTr \cup AtSy \cup {"lock"},
           pc[t] \in AtLang <=> b \in AtLang
    PROVE  Shifts(t, b)
BY DEF Go, Shifts, Follows

\* Steps of a decision.
LEMMA DecisionSteps ==
    ASSUME LInv, QInv, NEW t \in Tasks,
           \/ BeginDecision(t) \/ Drain(t) \/ Stay(t) \/ Truncate(t) \/ GapOver(t) \/ Speak(t) \/ Follow(t)
           \/ \E l \in TrLabels : Accept(t, l)
    PROVE  \E b \in Pcs : Shifts(t, b)
<1> USE DEF pools, conns, audio
<1>l. ASSUME Leave(t), call' = call, listener' = listener, UNCHANGED <<trQ, syQ>>,
             pc[t] \notin AtTr \cup AtSy, pc[t] = "lock" => Holds(langQ, t)
      PROVE  \E b \in Pcs : Shifts(t, b)
  <2>1. Follows(trQ, trQ', t, pc[t] \in AtTr, FALSE)
    BY <1>l DEF Follows
  <2>2. QED
    BY <1>l, <2>1, LeaveShifts, Places
<1>1. CASE BeginDecision(t)
  <2>1. CASE Return(t)
    BY <1>1, <1>l, <2>1 DEF BeginDecision, Return, AtTr, AtSy
  <2>2. CASE Go(t, "settle") /\ langQ' = langQ
    BY <1>1, <2>2, GoShifts, Places DEF BeginDecision, AtLang, AtTr, AtSy, Critical
  <2>3. QED
    BY <1>1, <2>1, <2>2 DEF BeginDecision
<1>2. CASE Drain(t)
  <2>1. CASE Return(t)
    BY <1>2, <1>l, <2>1 DEF Drain, Return, AtTr, AtSy
  <2>2. CASE Go(t, "decide") /\ langQ' = langQ
    BY <1>2, <2>2, GoShifts, Places DEF Drain, AtLang, AtTr, AtSy, Critical
  <2>3. QED
    BY <1>2, <2>1, <2>2 DEF Drain
<1>3. CASE Stay(t)
  BY <1>3, <1>l DEF Stay, Return, AtTr, AtSy
<1>e. ASSUME Enter(t), call' = call, listener' = listener, UNCHANGED <<syQ, langQ>>,
             pc[t] \in {"decide", "cut", "cutAudible", "gap"}
      PROVE  \E b \in Pcs : Shifts(t, b)
  BY <1>e, EnterShifts DEF AtLang, AtTr, AtSy, Critical
<1>4. CASE Truncate(t)
  <2>1. CASE Go(t, "gap") /\ trQ' = trQ
    BY <1>4, <2>1, GoShifts, Places DEF Truncate, AtLang, AtTr, AtSy, Critical
  <2>2. CASE Enter(t)
    BY <1>4, <1>e, <2>2 DEF Truncate
  <2>3. QED
    BY <1>4, <2>1, <2>2 DEF Truncate
<1>5. CASE GapOver(t)
  <2>1. CASE Leave(t) /\ trQ' = trQ
    BY <1>5, <1>l, <2>1 DEF GapOver, AtTr, AtSy
  <2>2. CASE Enter(t) /\ langQ' = langQ
    BY <1>5, <1>e, <2>2 DEF GapOver
  <2>3. QED
    BY <1>5, <2>1, <2>2 DEF GapOver
<1>6. CASE Speak(t)
  <2>1. CASE Return(t)
    BY <1>6, <1>l, <2>1 DEF Speak, Return, AtTr, AtSy
  <2>2. CASE Go(t, "follow") /\ langQ' = Tail(langQ)
    <3>1. Judged /\ Holds(langQ, t)
      BY <1>6, Place DEF Speak, Critical
    <3>2. Shifts(t, "follow")
      BY <1>6, <2>2, <3>1 DEF Speak, Go, Shifts, Follows, AtLang, AtTr, AtSy, Critical
    <3>3. QED
      BY <3>2, Places
  <2>3. QED
    BY <1>6, <2>1, <2>2 DEF Speak
<1>7. CASE Follow(t)
  BY <1>7, <1>l DEF Follow, Return, AtTr, AtSy
<1>8. ASSUME NEW l \in TrLabels, Accept(t, l) PROVE \E b \in Pcs : Shifts(t, b)
  <2>1. CASE Enter(t)
    BY <1>8, <1>e, <2>1 DEF Accept
  <2>2. ASSUME NEW b \in {"cut", "cutAudible"}, Go(t, b), trQ' = trQ PROVE Shifts(t, b)
    BY <1>8, <2>2, GoShifts, Places DEF Accept, AtLang, AtTr, AtSy, Critical
  <2>3. QED
    BY <1>8, <2>1, <2>2, Places DEF Accept
<1>9. QED
  BY <1>1, <1>2, <1>3, <1>4, <1>5, <1>6, <1>7, <1>8

\* Steps of the switch_language tool, and tasks that start.
LEMMA StartSteps ==
    ASSUME LInv, QInv, NEW t \in Tasks,
           \/ ToolReady(t) \/ ToolLocked(t) \/ Turn(t) \/ WatcherFires(t)
           \/ \E l \in Labels : ToolCall(t, l) \/ (LidSignal(t, l) /\ pc' # pc)
    PROVE  \E b \in Pcs : Shifts(t, b)
<1> USE DEF pools, conns, audio
<1>j. ASSUME Judged, Go(t, "lock"), langQ' = Append(langQ, t), call' = call, listener' = listener,
             UNCHANGED <<trQ, syQ>>, pc[t] \in {"free", "wait"}
      PROVE  \E b \in Pcs : Shifts(t, b)
  <2>1. Shifts(t, "lock")
    BY <1>j DEF Go, Shifts, Follows, AtLang, AtTr, AtSy, Critical
  <2>2. QED
    BY <2>1, Places
<1>1. CASE ToolReady(t)
  <2>1. CASE Judged
    BY <1>1, <1>j, <2>1 DEF ToolReady
  <2>2. CASE ~Judged
    BY <1>1, <2>2, EnterShifts DEF ToolReady, AtTr, AtSy
  <2>3. QED
    BY <2>1, <2>2
<1>2. CASE ToolLocked(t)
  <2>1. CASE Leave(t) /\ trQ' = trQ
    <3>1. Follows(trQ, trQ', t, pc[t] \in AtTr, FALSE)
      BY <1>2, <2>1 DEF ToolLocked, Follows, AtTr
    <3>2. QED
      BY <1>2, <2>1, <3>1, LeaveShifts, Places DEF ToolLocked, AtSy
  <2>2. CASE Enter(t) /\ langQ' = langQ
    BY <1>2, <2>2, EnterShifts DEF ToolLocked, AtLang, AtTr, AtSy
  <2>3. QED
    BY <1>2, <2>1, <2>2 DEF ToolLocked
<1>3. CASE Turn(t)
  BY <1>3, <1>j DEF Turn, Fresh
<1>4. CASE WatcherFires(t)
  BY <1>4, <1>j DEF WatcherFires, Fresh
<1>5. ASSUME NEW l \in Labels, ToolCall(t, l) PROVE \E b \in Pcs : Shifts(t, b)
  <2>1. Shifts(t, "wait")
    BY <1>5, GoShifts, Places DEF ToolCall, Fresh, AtLang, AtTr, AtSy, Critical
  <2>2. QED
    BY <2>1, Places
<1>6. ASSUME NEW l \in Labels, LidSignal(t, l), pc' # pc PROVE \E b \in Pcs : Shifts(t, b)
  <2>1. ~Judged /\ Enter(t) /\ pc[t] = "free"
    BY <1>6 DEF LidSignal, Fresh, Judged
  <2>2. QED
    BY <1>6, <2>1, EnterShifts DEF LidSignal, AtTr, AtSy
<1>7. QED
  BY <1>1, <1>2, <1>3, <1>4, <1>5, <1>6

\* The listener asks for the transcriber pool's lock, has it, and gives it back.
LEMMA ListenerSteps ==
    ASSUME LInv, QInv, ListenerStep
    PROVE  QInv'
<1> USE DEF pools, conns, audio
<1>1. pc' = pc /\ call' = call /\ UNCHANGED <<syQ, langQ>>
  BY DEF ListenerStep, ListenerClosed, ListenerLocked, ListenerReconnected
<1>2. Line(langQ', LangLine') /\ Line(syQ', SyLine') /\ \A t \in Tasks : pc'[t] = "lock" => Judged'
  BY <1>1 DEF QInv, LangLine, SyLine, Judged
<1>3. Listener \notin Tasks
  BY TasksAssumption
<1>4. /\ \A x : x # Listener => (x \in TrLine <=> x \in TrLine')
      /\ Listener \in TrLine <=> listener \in {"lock", "reconn"}
      /\ Listener \in TrLine' <=> listener' \in {"lock", "reconn"}
  BY <1>1, <1>3 DEF TrLine
<1>5. Follows(trQ, trQ', Listener, Listener \in TrLine, Listener \in TrLine')
  <2>1. listener = "reconn" => Holds(trQ, Listener)
    BY DEF LInv, LocksHeld
  <2>2. QED
    BY <1>4, <2>1 DEF ListenerStep, ListenerClosed, ListenerLocked, ListenerReconnected, Follows
<1>6. trQ \in Seq(Tasks \cup {Listener}) /\ Listener \in Tasks \cup {Listener}
  BY DEF LInv, TypeOK
<1>7. Line(trQ', TrLine')
  BY <1>4, <1>5, <1>6, LineFollows DEF QInv
<1>8. QED
  BY <1>2, <1>7 DEF QInv

\* Steps that concern neither tasks nor locks.
LEMMA OtherSteps ==
    ASSUME LInv, QInv,
           \/ CooldownOver \/ Eos \/ \E l \in TrLabels : TranscriberEos(l) \/ Drop(l)
           \/ \E s \in 1..MaxSeq : Play(s) \/ PlayedOut(s)
           \/ GateExpires \/ FunctionCall \/ Hangup \/ \E l \in Tags : Hear(l)
           \/ \E t \in Tasks, l \in Labels : LidSignal(t, l) /\ pc' = pc
           \/ UNCHANGED vars
    PROVE  QInv'
<1> USE DEF pools, conns, audio
<1>1. /\ UNCHANGED <<pc, call, listener, langQ, syQ>>
  BY DEF CooldownOver, Eos, TranscriberEos, Drop, Play, PlayedOut, GateExpires, FunctionCall, Hangup,
     Hear, LidSignal, vars
<1>2. trQ' = trQ
  <2>1. ASSUME NEW t \in Tasks, NEW l \in Labels, LidSignal(t, l), pc' = pc PROVE trQ' = trQ
    <3>1. pc \in [Tasks -> Pcs] /\ pc[t] = "free"
      BY <2>1 DEF LInv, TypeOK, LidSignal, Fresh
    <3>2. ~Enter(t)
      BY <2>1, <3>1 DEF Enter, Go
    <3>3. QED
      BY <2>1, <3>2 DEF LidSignal
  <2>2. QED
    BY <2>1 DEF CooldownOver, Eos, TranscriberEos, Drop, Play, PlayedOut, GateExpires, FunctionCall, Hangup,
       Hear, vars
<1>3. QED
  BY <1>1, <1>2 DEF QInv, LangLine, TrLine, SyLine, Judged

-------------------------------------------------------------------------------
(* The specification.                                                       *)

\* No lock is in use when the call starts.
LEMMA LocksStartFree == Init => QInv
<1> SUFFICES ASSUME Init PROVE QInv
  OBVIOUS
<1>1. LangLine = {} /\ TrLine = {} /\ SyLine = {}
  BY DEF Init, LangLine, TrLine, SyLine, AtLang, AtTr, AtSy, Critical
<1>2. Len(langQ) = 0 /\ Len(trQ) = 0 /\ Len(syQ) = 0
  BY DEF Init
<1>3. QED
  BY <1>1, <1>2 DEF QInv, Line, Init

\* Every step keeps the lines.
LEMMA LocksKept == LInv /\ QInv /\ [Next]_vars => QInv'
<1> SUFFICES ASSUME LInv, QInv, [Next]_vars PROVE QInv'
  OBVIOUS
<1>1. ASSUME NEW t \in Tasks, TaskStep(t) \/ \E l \in TrLabels : Accept(t, l) PROVE QInv'
  BY <1>1, PoolSteps, DecisionSteps, StartSteps, ShiftKeeps DEF TaskStep
<1>2. ASSUME NEW t \in Tasks,
             Turn(t) \/ WatcherFires(t) \/ \E l \in Labels : ToolCall(t, l) \/ LidSignal(t, l)
      PROVE  QInv'
  BY <1>2, StartSteps, ShiftKeeps, OtherSteps
<1>3. QED
  BY <1>1, <1>2, ListenerSteps, OtherSteps DEF Next

\* The line of each lock is exactly the tasks that ask for it or have it, each once
\* (asyncio.Lock in TranscriberPool.switch, SynthesizerPool.switch and run_language_switch).
THEOREM LockLines == Spec => []QInv
<1>1. QED
  BY SwitchInvariant, LocksStartFree, LocksKept, PTL DEF Spec

\* Nobody waits in a circle and no lock is left behind, for any number of decisions, tool
\* calls and reconnects in flight (language_switch_lock and the locks of the two pools).
THEOREM NoLockCycleHolds == Spec => []NoLockCycle
<1>1. LInv /\ QInv => NoLockCycle
  <2> SUFFICES ASSUME LInv, QInv, NEW x \in Tasks \cup {Listener}, At(x) # "free"
               PROVE  /\ At(Ahead(Ahead(x))) # "free"
                      /\ Ahead(Ahead(Ahead(x))) = Ahead(Ahead(x))
    BY DEF NoLockCycle
  <2>1. /\ trQ \in Seq(Tasks \cup {Listener}) /\ syQ \in Seq(Tasks) /\ langQ \in Seq(Tasks)
    BY DEF LInv, TypeOK
  <2>2. Listener \notin Tasks
    BY TasksAssumption
  <2>3. TrLine # {} => Head(trQ) \in TrLine
    BY <2>1, LineHead DEF QInv
  <2>4. SyLine # {} => Head(syQ) \in SyLine
    BY <2>1, LineHead DEF QInv
  <2>5. LangLine # {} => Head(langQ) \in LangLine
    BY <2>1, LineHead DEF QInv
  <2>6. \A y \in TrLine : At(y) \in AtTr
    BY <2>2 DEF TrLine, AtTr, At
  <2>7. \A y \in SyLine : At(y) \in AtSy
    BY <2>2 DEF SyLine, AtSy, At
  <2>8. \A y \in LangLine : At(y) \in AtLang
    BY <2>2 DEF LangLine, At
  <2>t. ASSUME NEW y \in Tasks \cup {Listener}, At(y) = "tr"
        PROVE  Ahead(y) = Head(trQ) /\ At(Head(trQ)) # "free" /\ Ahead(Head(trQ)) = Head(trQ)
    <3>1. y \in TrLine
      BY <2>t, <2>2 DEF At, TrLine, AtTr
    <3>2. At(Head(trQ)) \in {"tr", "reconn"}
      BY <2>3, <2>6, <3>1 DEF AtTr
    <3>3. QED
      BY <2>t, <3>2 DEF Ahead
  <2>s. ASSUME NEW y \in Tasks \cup {Listener}, At(y) = "sy"
        PROVE  Ahead(y) = Head(syQ) /\ At(Head(syQ)) # "free" /\ Ahead(Head(syQ)) = Head(syQ)
    <3>1. y \in SyLine
      BY <2>s, <2>2 DEF At, SyLine, AtSy
    <3>2. At(Head(syQ)) \in {"sy", "cancel"}
      BY <2>4, <2>7, <3>1 DEF AtSy
    <3>3. QED
      BY <2>s, <3>2 DEF Ahead
  <2>n. ASSUME NEW y, At(y) \notin {"lock", "tr", "sy"} PROVE Ahead(y) = y
    BY <2>n DEF Ahead
  <2>9. ASSUME NEW y \in Tasks \cup {Listener}, At(y) \notin {"lock", "free"}
        PROVE  At(Ahead(y)) # "free" /\ Ahead(Ahead(y)) = Ahead(y)
    BY <2>9, <2>t, <2>s, <2>n
  <2>10. CASE At(x) = "lock"
    <3>1. x \in LangLine
      BY <2>10, <2>2 DEF At, QInv, LangLine, AtLang
    <3>2. Head(langQ) \in Tasks /\ At(Head(langQ)) \in AtLang /\ Ahead(x) = Head(langQ)
      BY <2>5, <2>8, <2>10, <3>1 DEF LangLine, Ahead
    <3>3. CASE At(Head(langQ)) = "lock"
      <4>1. Ahead(Head(langQ)) = Head(langQ)
        BY <3>3 DEF Ahead
      <4>2. QED
        BY <3>2, <3>3, <4>1
    <3>4. CASE At(Head(langQ)) # "lock"
      <4>1. At(Head(langQ)) # "free"
        BY <3>2 DEF AtLang, Critical
      <4>2. QED
        BY <2>9, <3>2, <3>4, <4>1
    <3>5. QED
      BY <3>3, <3>4
  <2>11. CASE At(x) # "lock"
    <3>1. At(Ahead(x)) # "free" /\ Ahead(Ahead(x)) = Ahead(x)
      BY <2>9, <2>11
    <3>2. QED
      BY <3>1
  <2>12. QED
    BY <2>10, <2>11
<1>2. QED
  BY <1>1, SwitchInvariant, LockLines, PTL
=============================================================================
