------------------------ MODULE LanguageSwitchProofs ------------------------
(***************************************************************************)
(* Language switching, proved for any labels, any number of decisions and  *)
(* tool calls in flight and any bounds: types, that ears and mouth agree,   *)
(* that a call is never deaf without knowing, that decisions are applied on *)
(* their own evidence, and that a gated reply is held until it is invalid.  *)
(***************************************************************************)
EXTENDS LanguageSwitch, SequenceTheorems, WellFoundedInduction, TLAPS

-------------------------------------------------------------------------------
(* The inductive invariant.                                                 *)

Switching == {"cut", "cutAudible", "gap", "tr", "reconn", "sy", "cancel"}

\* A task that awaits a reconnect or a cancellation has the lock of its pool, on a
\* label that pool has; with a judge there is no tool and its verdicts are on labels
\* with a voice; the listener reconnects below its cap.
LocksHeld ==
    /\ \A t \in Tasks : pc[t] = "reconn" => Holds(trQ, t)
    /\ \A t \in Tasks : pc[t] = "cancel" => Holds(syQ, t) /\ job[t].target \in SyLabels
    /\ \A t \in Tasks : pc[t] \in {"reconn", "sy", "cancel"} => job[t].target \in TrLabels
    /\ \A t \in Tasks : call.flow = "judge" /\ pc[t] \in Switching => job[t].target \in SyLabels
    /\ \A t \in Tasks : call.flow = "judge" /\ pc[t] \in {"wait", "lock"} => job[t].kind # "tool"
    /\ listener = "reconn" => Holds(trQ, Listener) /\ reconnects < MaxReconnects

\* The tasks between the two pools stand in line for the voice, each once, and the last
\* of them has the label the recognizer is on; the session follows the voice.
InLine ==
    /\ syActive = language
    /\ \A i \in 1..Len(syQ) : pc[syQ[i]] \in {"sy", "cancel"}
    /\ \A i, j \in 1..Len(syQ) : syQ[i] = syQ[j] => i = j
    /\ syQ # <<>> => job[syQ[Len(syQ)]].target = trActive

Critical == {"settle", "decide", "cut", "cutAudible", "gap", "tr", "reconn", "sy", "cancel", "speak"}

\* Decisions exist only in the flows with a judge; there, every task between taking
\* language_switch_lock and its return has it, and a decision on its way to the pools
\* was spawned in the language of the session.
OneDecides ==
    /\ \A t \in Tasks : Judged /\ pc[t] \in Critical => Holds(langQ, t)
    /\ \A t \in Tasks : job[t].kind \in {"turn", "idle", "parallel"} => Judged
    /\ \A t \in Tasks : pc[t] \in {"settle", "decide", "cut", "cutAudible", "gap", "speak"}
                          => job[t].kind \in {"turn", "idle"}
    /\ \A t \in Tasks : /\ pc[t] = "wait" => job[t].kind = "tool"
                        /\ pc[t] = "lock" => job[t].kind \in {"turn", "idle", "tool"}
    /\ \A t \in Tasks : job[t].kind \in {"turn", "idle", "parallel"} /\ pc[t] \in Critical \ {"speak"}
                          => job[t].spawned = language

\* A gate whose decision is open belongs to a decision that has not reached the pools;
\* a decision with a verdict in sight has not been overtaken by the gate's release,
\* and while it truncates, the gate is on the reply it found held.
GateKept ==
    /\ \A t \in Tasks : gate.task = t /\ ~gate.decided
                          => pc[t] \in {"lock", "settle", "decide", "cut", "cutAudible"}
                             /\ job[t].kind \in {"turn", "idle"}
    /\ \A t \in Tasks : pc[t] \in {"decide", "cut", "cutAudible"} => ~gate.decided
    /\ \A t \in Tasks, s \in 1..MaxSeq :
         pc[t] \in {"cut", "cutAudible"} /\ job[t].held = s /\ rep[s] = "pending" => gate.seq = s

\* Sequence ids in use were given out.
GivenOut ==
    /\ \A t \in Tasks, s \in 1..MaxSeq : job[t].seq = s \/ job[t].held = s => rep[s] # "none"
    /\ \A s \in 1..MaxSeq : gate.seq = s => rep[s] # "none"

LInv == TypeOK /\ LocksHeld /\ InLine /\ PoolsAgree /\ OneDecides /\ DeafIsNoticed /\ GateKept
        /\ GivenOut

-------------------------------------------------------------------------------
(* Locks and sequence ids.                                                  *)

\* A task that joins the line of a lock does not change its holder.
LEMMA Joins ==
    ASSUME NEW S, NEW q \in Seq(S), NEW e \in S
    PROVE  /\ Append(q, e) \in Seq(S) /\ Append(q, e) # <<>>
           /\ \A x : Holds(q, x) => Holds(Append(q, e), x)
<1>1. Append(q, e) \in Seq(S) /\ Append(q, e) # <<>>
  BY AppendProperties
<1>2. q # <<>> => Head(Append(q, e)) = Head(q)
  BY HeadTailAppend
<1>3. QED
  BY <1>1, <1>2 DEF Holds

\* The holder of a lock leaves the line.
LEMMA Leaves ==
    ASSUME NEW S, NEW q \in Seq(S), NEW e, Holds(q, e)
    PROVE  Tail(q) \in Seq(S) /\ \A x : Holds(q, x) => x = e
BY DEF Holds

\* The next sequence id is one of the call's, not given out so far.
LEMMA NextSeqIsNew ==
    ASSUME TypeOK, Unheard # {}
    PROVE  NextSeq \in 1..MaxSeq /\ rep[NextSeq] = "none"
<1>1. Unheard \subseteq Nat
  BY DEF Unheard
<1>2. \E s \in Unheard : \A r \in Unheard : ~(<<r, s>> \in OpToRel(<, Nat))
  BY <1>1, NatLessThanWellFounded, WFMin
<1>3. \E s \in Unheard : \A r \in Unheard : s <= r
  <2>1. PICK s \in Unheard : \A r \in Unheard : ~(<<r, s>> \in OpToRel(<, Nat))
    BY <1>2
  <2>2. ASSUME NEW r \in Unheard PROVE s <= r
    <3>1. r \in Nat /\ s \in Nat /\ ~(<<r, s>> \in {ss \in Nat \X Nat : ss[1] < ss[2]})
      BY <1>1, <2>1 DEF OpToRel
    <3>2. ~(r < s)
      BY <3>1
    <3>3. QED
      BY <3>1, <3>2
  <2>3. QED
    BY <2>2
<1>4. NextSeq \in Unheard
  BY <1>3 DEF NextSeq
<1>5. QED
  BY <1>4 DEF Unheard

-------------------------------------------------------------------------------
(* What a step of one task leaves alone.                                    *)

Jobs == [kind : {"none", "turn", "idle", "parallel", "tool", "lid"}, spawned : Labels,
         target : Labels, seq : 0..MaxSeq, held : 0..MaxSeq]
Gates == [seq : 0..MaxSeq, task : Tasks \cup {Listener}, expired : BOOLEAN, decided : BOOLEAN]
Replies == [1..MaxSeq -> {"none", "pending", "playing", "over"}]

\* Nobody but t moves, works on a job or loses a lock.
OnlyMoves(t) ==
    /\ pc' \in [Tasks -> Pcs] /\ job' \in [Tasks -> Jobs]
    /\ \A u \in Tasks \ {t} : pc'[u] = pc[u] /\ job'[u] = job[u]
    /\ \A x : x # t => /\ Holds(trQ, x) => Holds(trQ', x)
                       /\ Holds(syQ, x) => Holds(syQ', x)
                       /\ Holds(langQ, x) => Holds(langQ', x)

\* Replies only go on, and a gate that a decision found held stays on its reply,
\* unless t has language_switch_lock.
OnlyGateOf(t) ==
    /\ rep' \in Replies /\ gate' \in Gates
    /\ \A s \in 1..MaxSeq : rep[s] # "none" => rep'[s] # "none"
    /\ \A s \in 1..MaxSeq : rep[s] # "none" /\ rep'[s] = "pending"
                              => rep[s] = "pending" /\ (gate'.seq = gate.seq \/ Holds(langQ, t))
    /\ \A s \in 1..MaxSeq : gate'.seq = s => gate.seq = s \/ rep'[s] # "none"
    /\ \A u \in Tasks \ {t} : gate'.task = u /\ ~gate'.decided => gate.task = u /\ ~gate.decided
    /\ gate'.decided => gate.decided \/ Holds(langQ, t)

\* The locks and evidence of task t after its step.
LocksOf(t) ==
    /\ pc'[t] = "reconn" => Holds(trQ', t)
    /\ pc'[t] = "cancel" => Holds(syQ', t) /\ job'[t].target \in SyLabels
    /\ pc'[t] \in {"reconn", "sy", "cancel"} => job'[t].target \in TrLabels
    /\ call.flow = "judge" /\ pc'[t] \in Switching => job'[t].target \in SyLabels
    /\ call.flow = "judge" /\ pc'[t] \in {"wait", "lock"} => job'[t].kind # "tool"
    /\ Judged /\ pc'[t] \in Critical => Holds(langQ', t)
    /\ job'[t].kind \in {"turn", "idle", "parallel"} => Judged
    /\ pc'[t] \in {"settle", "decide", "cut", "cutAudible", "gap", "speak"}
         => job'[t].kind \in {"turn", "idle"}
    /\ pc'[t] = "wait" => job'[t].kind = "tool"
    /\ pc'[t] = "lock" => job'[t].kind \in {"turn", "idle", "tool"}
    /\ job'[t].kind \in {"turn", "idle", "parallel"} /\ pc'[t] \in Critical \ {"speak"}
         => job'[t].spawned = language'

\* The gate as far as it concerns task t after its step.
GateOf(t) ==
    /\ gate'.task = t /\ ~gate'.decided
         => pc'[t] \in {"lock", "settle", "decide", "cut", "cutAudible"}
            /\ job'[t].kind \in {"turn", "idle"}
    /\ pc'[t] \in {"decide", "cut", "cutAudible"} => ~gate'.decided
    /\ \A s \in 1..MaxSeq :
         /\ pc'[t] \in {"cut", "cutAudible"} /\ job'[t].held = s /\ rep'[s] = "pending"
              => gate'.seq = s
         /\ job'[t].seq = s \/ job'[t].held = s => rep'[s] # "none"

\* A step of t that is in order for t is in order for everybody.
LEMMA OthersKeep ==
    ASSUME LInv, NEW t \in Tasks, OnlyMoves(t), OnlyGateOf(t), LocksOf(t), GateOf(t),
           UNCHANGED <<call, listener, reconnects>>,
           language' = language \/ (Judged => Holds(langQ, t))
    PROVE  LocksHeld' /\ OneDecides' /\ GateKept' /\ GivenOut'
<1> USE DEF LInv
<1>0. t # Listener /\ Judged' = Judged
  BY TasksAssumption DEF Judged
<1>h. \A u \in Tasks \ {t} : Holds(langQ, u) => ~Holds(langQ, t)
  BY DEF Holds
<1>1. LocksHeld'
  BY <1>0 DEF LocksHeld, OnlyMoves, LocksOf
<1>2. OneDecides'
  <2>1. ASSUME NEW u \in Tasks, Judged, pc'[u] \in Critical PROVE Holds(langQ', u)
    BY <2>1 DEF OneDecides, OnlyMoves, LocksOf
  <2>2. ASSUME NEW u \in Tasks, job'[u].kind \in {"turn", "idle", "parallel"} PROVE Judged
    BY <2>2 DEF OneDecides, OnlyMoves, LocksOf
  <2>3. ASSUME NEW u \in Tasks, pc'[u] \in {"settle", "decide", "cut", "cutAudible", "gap", "speak"}
        PROVE  job'[u].kind \in {"turn", "idle"}
    BY <2>3 DEF OneDecides, OnlyMoves, LocksOf
  <2>k. ASSUME NEW u \in Tasks
        PROVE  /\ pc'[u] = "wait" => job'[u].kind = "tool"
               /\ pc'[u] = "lock" => job'[u].kind \in {"turn", "idle", "tool"}
    BY DEF OneDecides, OnlyMoves, LocksOf
  <2>4. ASSUME NEW u \in Tasks, job'[u].kind \in {"turn", "idle", "parallel"},
               pc'[u] \in Critical \ {"speak"}
        PROVE  job'[u].spawned = language'
    <3>1. CASE u = t
      BY <2>4, <3>1 DEF LocksOf
    <3>2. CASE u # t
      <4>1. pc'[u] = pc[u] /\ job'[u] = job[u]
        BY <3>2 DEF OnlyMoves
      <4>2. Judged /\ Holds(langQ, u)
        BY <2>4, <4>1 DEF OneDecides
      <4>3. language' = language
        BY <1>h, <3>2, <4>2
      <4>4. QED
        BY <2>4, <4>1, <4>3 DEF OneDecides
    <3>3. QED
      BY <3>1, <3>2
  <2>5. QED
    BY <1>0, <2>1, <2>2, <2>3, <2>k, <2>4 DEF OneDecides
<1>3. GateKept'
  <2>1. ASSUME NEW u \in Tasks, gate'.task = u, ~gate'.decided
        PROVE  pc'[u] \in {"lock", "settle", "decide", "cut", "cutAudible"}
               /\ job'[u].kind \in {"turn", "idle"}
    BY <2>1 DEF GateKept, OnlyMoves, OnlyGateOf, GateOf
  <2>2. ASSUME NEW u \in Tasks, u # t, pc'[u] \in {"decide", "cut", "cutAudible"}
        PROVE  ~gate'.decided /\ ~Holds(langQ, t) /\ pc[u] = pc'[u] /\ job[u] = job'[u]
    <3>1. pc'[u] = pc[u] /\ job'[u] = job[u]
      BY <2>2 DEF OnlyMoves
    <3>2. Judged /\ Holds(langQ, u)
      BY <2>2, <3>1 DEF OneDecides, Critical
    <3>3. ~gate.decided
      BY <2>2, <3>1 DEF GateKept
    <3>4. QED
      BY <1>h, <2>2, <3>1, <3>2, <3>3 DEF OnlyGateOf
  <2>3. ASSUME NEW u \in Tasks, NEW s \in 1..MaxSeq, pc'[u] \in {"cut", "cutAudible"},
               job'[u].held = s, rep'[s] = "pending"
        PROVE  gate'.seq = s
    <3>1. CASE u = t
      BY <2>3, <3>1 DEF GateOf
    <3>2. CASE u # t
      <4>1. ~Holds(langQ, t) /\ pc[u] = pc'[u] /\ job[u] = job'[u]
        BY <2>2, <2>3, <3>2
      <4>2. rep[s] # "none"
        BY <2>3, <4>1 DEF GivenOut
      <4>3. rep[s] = "pending" /\ gate'.seq = gate.seq
        BY <2>3, <4>1, <4>2 DEF OnlyGateOf
      <4>4. QED
        BY <2>3, <4>1, <4>3 DEF GateKept
    <3>3. QED
      BY <3>1, <3>2
  <2>4. \A u \in Tasks : pc'[u] \in {"decide", "cut", "cutAudible"} => ~gate'.decided
    BY <2>2 DEF GateOf
  <2>5. QED
    BY <2>1, <2>3, <2>4 DEF GateKept
<1>4. GivenOut'
  BY DEF GivenOut, OnlyMoves, OnlyGateOf, GateOf
<1>5. QED
  BY <1>1, <1>2, <1>3, <1>4

\* A step that does not touch the pools, by a task that is not between them.
LEMMA AsideKeeps ==
    ASSUME LInv, NEW t \in Tasks, OnlyMoves(t), pc[t] \notin {"sy", "cancel"},
           UNCHANGED <<call, pools, conns, syQ>>
    PROVE  InLine' /\ PoolsAgree' /\ DeafIsNoticed'
<1> USE DEF LInv, pools, conns
<1>1. InLine'
  <2>0. syQ \in Seq(Tasks)
    BY DEF TypeOK
  <2>1. ASSUME NEW i \in 1..Len(syQ) PROVE syQ[i] \in Tasks /\ syQ[i] # t
    <3>1. pc[syQ[i]] \in {"sy", "cancel"}
      BY DEF InLine
    <3>2. QED
      BY <2>0, <3>1
  <2>2. \A i \in 1..Len(syQ) : pc'[syQ[i]] = pc[syQ[i]] /\ job'[syQ[i]] = job[syQ[i]]
    BY <2>1 DEF OnlyMoves
  <2>3. \A i \in 1..Len(syQ') : pc'[syQ'[i]] \in {"sy", "cancel"}
    BY <2>2 DEF InLine
  <2>4. \A i, j \in 1..Len(syQ') : syQ'[i] = syQ'[j] => i = j
    BY DEF InLine
  <2>5. syQ' # <<>> => job'[syQ'[Len(syQ')]].target = trActive'
    <3>1. CASE syQ = <<>>
      BY <3>1
    <3>2. CASE syQ # <<>>
      <4>1. Len(syQ) \in 1..Len(syQ)
        BY <2>0, <3>2
      <4>2. job'[syQ[Len(syQ)]] = job[syQ[Len(syQ)]]
        BY <2>2, <4>1
      <4>3. job[syQ[Len(syQ)]].target = trActive
        BY <3>2 DEF InLine
      <4>4. QED
        BY <4>2, <4>3
    <3>3. QED
      BY <3>1, <3>2
  <2>6. QED
    BY <2>3, <2>4, <2>5 DEF InLine
<1>2. PoolsAgree' /\ DeafIsNoticed'
  BY DEF PoolsAgree, DeafIsNoticed
<1>3. QED
  BY <1>1, <1>2

-------------------------------------------------------------------------------
(* Pieces of a step.                                                        *)

\* Task t moves.
LEMMA Moves ==
    ASSUME TypeOK, NEW t \in Tasks, NEW w \in Pcs, Go(t, w)
    PROVE  pc' \in [Tasks -> Pcs] /\ pc'[t] = w /\ \A u \in Tasks \ {t} : pc'[u] = pc[u]
BY DEF TypeOK, Go

\* The empty job and the open gate are well-formed.
LEMMA Nothing ==
    /\ NoJob \in Jobs /\ NoGate \in Gates /\ "free" \in Pcs /\ MaxSeq \in Nat
    /\ NoGate.seq = 0 /\ NoGate.task = Listener /\ ~NoGate.decided
BY LabelsAssumption, BoundsAssumption DEF NoJob, NoGate, Jobs, Gates, Labels, Pcs

\* The task has returned.
Gone(t) ==
    /\ pc' \in [Tasks -> Pcs] /\ pc'[t] = "free" /\ \A u \in Tasks \ {t} : pc'[u] = pc[u]
    /\ job' \in [Tasks -> Jobs] /\ job'[t] = NoJob /\ \A u \in Tasks \ {t} : job'[u] = job[u]
    /\ langQ' \in Seq(Tasks) /\ \A x : x # t /\ Holds(langQ, x) => Holds(langQ', x)

\* A task that leaves hands on language_switch_lock.
LEMMA LeaveGone == ASSUME TypeOK, NEW t \in Tasks, Leave(t) PROVE Gone(t)
<1>1. pc' \in [Tasks -> Pcs] /\ pc'[t] = "free" /\ \A u \in Tasks \ {t} : pc'[u] = pc[u]
  BY Moves, Nothing DEF Leave
<1>2. job' \in [Tasks -> Jobs] /\ job'[t] = NoJob /\ \A u \in Tasks \ {t} : job'[u] = job[u]
  BY Nothing DEF Leave, TypeOK, Jobs
<1>3. langQ' = IF Holds(langQ, t) THEN Tail(langQ) ELSE langQ
  BY DEF Leave
<1>4. langQ \in Seq(Tasks)
  BY DEF TypeOK
<1>5. langQ' \in Seq(Tasks) /\ \A x : x # t /\ Holds(langQ, x) => Holds(langQ', x)
  BY <1>3, <1>4, Leaves
<1>6. QED
  BY <1>1, <1>2, <1>5 DEF Gone

\* Its gate is decided.
LEMMA DecidedGate ==
    ASSUME TypeOK, NEW t \in Tasks
    PROVE  /\ Decided(t) \in Gates /\ Decided(t).seq = gate.seq /\ Decided(t).task = gate.task
           /\ (Decided(t).decided <=> gate.decided \/ gate.task = t)
<1>1. gate \in Gates
  BY DEF TypeOK, Gates
<1>2. CASE gate.task = t
  BY <1>1, <1>2 DEF Decided, Gates
<1>3. CASE gate.task # t
  BY <1>1, <1>3 DEF Decided, Gates
<1>4. QED
  BY <1>2, <1>3

\* Replies that go on: none is asked for anew.
OnlyEnd == /\ rep' \in Replies
           /\ \A s \in 1..MaxSeq : /\ rep[s] # "none" => rep'[s] # "none"
                                   /\ rep[s] # "none" /\ rep'[s] = "pending" => rep[s] = "pending"

\* A task returns.  Unless it has no open gate, it has language_switch_lock.
LEMMA ReturnKeeps ==
    ASSUME LInv, NEW t \in Tasks, Gone(t), gate' = Decided(t), OnlyEnd,
           gate.task = t /\ ~gate.decided => Holds(langQ, t),
           \A x : x # t /\ Holds(trQ, x) => Holds(trQ', x),
           \A x : x # t /\ Holds(syQ, x) => Holds(syQ', x),
           UNCHANGED <<call, listener, reconnects>>,
           language' = language \/ (Judged => Holds(langQ, t))
    PROVE  OnlyMoves(t) /\ LocksHeld' /\ OneDecides' /\ GateKept' /\ GivenOut'
<1>1. OnlyMoves(t)
  BY DEF OnlyMoves, Gone
<1>2. /\ gate' \in Gates /\ gate'.seq = gate.seq /\ gate'.task = gate.task
      /\ (gate'.decided <=> gate.decided \/ gate.task = t)
  BY DecidedGate DEF LInv
<1>3. OnlyGateOf(t)
  BY <1>2 DEF OnlyGateOf, OnlyEnd
<1>4. LocksOf(t)
  BY DEF LocksOf, Gone, NoJob, Critical, Switching
<1>5. GateOf(t)
  BY <1>2 DEF GateOf, Gone, NoJob
<1>6. QED
  BY <1>1, <1>3, <1>4, <1>5, OthersKeep

\* Inside the critical section, an open gate comes with the lock.
LEMMA GateHasLock ==
    ASSUME LInv, NEW t \in Tasks,
           pc[t] \in Critical \cup {"follow", "free", "wait"} \/ Holds(langQ, t)
    PROVE  gate.task = t /\ ~gate.decided => Holds(langQ, t)
BY DEF LInv, GateKept, OneDecides, Critical

\* A task goes on to the transcriber pool.
LEMMA EnterKeeps ==
    ASSUME LInv, NEW t \in Tasks, Enter(t), job' \in [Tasks -> Jobs],
           \A u \in Tasks \ {t} : job'[u] = job[u],
           \/ gate' = gate /\ (gate.task = t => gate.decided)
           \/ gate' = NoGate /\ Holds(langQ, t),
           OnlyEnd, UNCHANGED <<call, pools, conns, syQ, langQ>>, Judged => Holds(langQ, t),
           job'[t].kind \in {"turn", "idle", "parallel"} => Judged /\ job'[t].spawned = language,
           call.flow = "judge" => job'[t].target \in SyLabels,
           \A s \in 1..MaxSeq : job'[t].seq = s \/ job'[t].held = s => rep'[s] # "none"
    PROVE  /\ OnlyMoves(t) /\ trQ' \in Seq(Tasks \cup {Listener}) /\ gate' \in Gates
           /\ LocksHeld' /\ OneDecides' /\ GateKept' /\ GivenOut'
<1> USE DEF pools, conns
<1>1. pc' \in [Tasks -> Pcs] /\ pc'[t] = "tr" /\ \A u \in Tasks \ {t} : pc'[u] = pc[u]
  BY Moves DEF Enter, Pcs, LInv
<1>2. trQ \in Seq(Tasks \cup {Listener}) /\ gate \in Gates
  BY DEF LInv, TypeOK, Gates
<1>3. trQ' \in Seq(Tasks \cup {Listener}) /\ \A x : Holds(trQ, x) => Holds(trQ', x)
  BY <1>2, Joins DEF Enter
<1>4. OnlyMoves(t)
  BY <1>1, <1>3 DEF OnlyMoves
<1>5. gate' \in Gates /\ (gate' = NoGate => gate'.seq = 0 /\ gate'.task = Listener /\ ~gate'.decided)
  BY <1>2, Nothing
<1>6. OnlyGateOf(t)
  BY <1>5, TasksAssumption DEF OnlyGateOf, OnlyEnd
<1>7. LocksOf(t)
  BY <1>1 DEF LocksOf, Critical, Switching
<1>8. GateOf(t)
  BY <1>1, <1>5, TasksAssumption DEF GateOf
<1>9. QED
  BY <1>3, <1>4, <1>5, <1>6, <1>7, <1>8, OthersKeep

-------------------------------------------------------------------------------
(* The pools.                                                               *)

\* The recognizer is on the label of t, and t stands in line for the voice.
LEMMA VoiceKeeps ==
    ASSUME LInv, NEW t \in Tasks, pc[t] \in {"tr", "reconn"}, Holds(trQ, t), ToVoice(t),
           trActive' = job[t].target, job[t].target \in TrLabels,
           UNCHANGED <<call, language, syActive, langQ, job, gate, rep, listener, reconnects>>
    PROVE  /\ pc' \in [Tasks -> Pcs] /\ trQ' \in Seq(Tasks \cup {Listener}) /\ syQ' \in Seq(Tasks)
           /\ LocksHeld' /\ OneDecides' /\ GateKept' /\ GivenOut' /\ InLine' /\ PoolsAgree'
<1>1. pc' \in [Tasks -> Pcs] /\ pc'[t] = "sy" /\ \A u \in Tasks \ {t} : pc'[u] = pc[u]
  BY Moves DEF ToVoice, Pcs, LInv
<1>t. trQ \in Seq(Tasks \cup {Listener}) /\ syQ \in Seq(Tasks) /\ job \in [Tasks -> Jobs]
      /\ gate \in Gates /\ rep \in Replies
  BY DEF LInv, TypeOK, Jobs, Gates, Replies
<1>2. trQ' \in Seq(Tasks \cup {Listener}) /\ \A x : Holds(trQ, x) => x = t
  BY <1>t, Leaves DEF ToVoice
<1>3. syQ' \in Seq(Tasks) /\ syQ' # <<>> /\ \A x : Holds(syQ, x) => Holds(syQ', x)
  BY <1>t, Joins DEF ToVoice
<1>4. OnlyMoves(t)
  BY <1>1, <1>t, <1>2, <1>3 DEF OnlyMoves
<1>5. OnlyGateOf(t)
  BY <1>t DEF OnlyGateOf
<1>6. LocksOf(t)
  BY <1>1 DEF LocksOf, LInv, OneDecides, Critical, LocksHeld, Switching
<1>7. GateOf(t)
  BY <1>1 DEF GateOf, LInv, GateKept, GivenOut
<1>8. LocksHeld' /\ OneDecides' /\ GateKept' /\ GivenOut'
  BY <1>4, <1>5, <1>6, <1>7, OthersKeep
<1>9. InLine'
  <2>1. /\ Len(syQ') = Len(syQ) + 1 /\ syQ'[Len(syQ) + 1] = t
        /\ \A i \in 1..Len(syQ) : syQ'[i] = syQ[i]
    BY <1>t, AppendProperties DEF ToVoice
  <2>2. Len(syQ) \in Nat /\ \A i \in 1..Len(syQ) : syQ[i] \in Tasks /\ syQ[i] # t
    BY <1>t DEF LInv, InLine
  <2>3. \A i \in 1..Len(syQ') : i \in 1..Len(syQ) \/ i = Len(syQ) + 1
    BY <2>1, <2>2
  <2>4. \A i \in 1..Len(syQ') : pc'[syQ'[i]] \in {"sy", "cancel"}
    BY <1>1, <2>1, <2>2, <2>3 DEF LInv, InLine
  <2>5. \A i, j \in 1..Len(syQ') : syQ'[i] = syQ'[j] => i = j
    BY <2>1, <2>2, <2>3 DEF LInv, InLine
  <2>6. QED
    BY <2>1, <2>4, <2>5 DEF LInv, InLine
<1>10. PoolsAgree'
  BY <1>3 DEF PoolsAgree
<1>11. QED
  BY <1>1, <1>2, <1>3, <1>8, <1>9, <1>10

\* TranscriberPool.switch.
LEMMA TrSwitchKeeps ==
    ASSUME LInv, NEW t \in Tasks, TrSwitch(t)
    PROVE  LInv'
<1> USE DEF pools, conns, audio
<1>t. /\ trQ \in Seq(Tasks \cup {Listener}) /\ syQ \in Seq(Tasks) /\ job \in [Tasks -> Jobs]
      /\ gate \in Gates /\ rep \in Replies /\ trActive \in TrLabels
  BY DEF LInv, TypeOK, Jobs, Gates, Replies
<1>p. /\ pc[t] = "tr" /\ Holds(trQ, t)
      /\ UNCHANGED <<call, language, syActive, conns, buf, lid, rep, fcall, hangup, heard, tools>>
  BY DEF TrSwitch
<1>1. CASE ToVoice(t) /\ trActive' = job[t].target /\ job[t].target \in TrLabels
             /\ (trActive' = trActive \/ trActive' \in up \/ callEnded) /\ UNCHANGED <<langQ, job, gate>>
  <2>1. /\ pc' \in [Tasks -> Pcs] /\ trQ' \in Seq(Tasks \cup {Listener}) /\ syQ' \in Seq(Tasks)
        /\ LocksHeld' /\ OneDecides' /\ GateKept' /\ GivenOut' /\ InLine' /\ PoolsAgree'
    BY <1>1, <1>p, VoiceKeeps
  <2>2. TypeOK'
    BY <1>1, <1>p, <2>1 DEF LInv, TypeOK
  <2>3. DeafIsNoticed'
    BY <1>1, <1>p DEF LInv, DeafIsNoticed
  <2>4. QED
    BY <2>1, <2>2, <2>3 DEF LInv
<1>2. CASE trQ' = Tail(trQ) /\ Return(t) /\ UNCHANGED <<trActive, syQ>>
  <2>1. trQ' \in Seq(Tasks \cup {Listener}) /\ \A x : Holds(trQ, x) => x = t
    BY <1>2, <1>p, <1>t, Leaves
  <2>2. Gone(t) /\ gate' = Decided(t) /\ gate' \in Gates
    BY <1>2, LeaveGone, DecidedGate DEF Return, LInv
  <2>3. OnlyMoves(t) /\ LocksHeld' /\ OneDecides' /\ GateKept' /\ GivenOut'
    <3>1. OnlyEnd
      BY <1>p, <1>t DEF OnlyEnd
    <3>2. gate.task = t /\ ~gate.decided => Holds(langQ, t)
      BY <1>p, GateHasLock DEF Critical
    <3>3. QED
      BY <1>2, <1>p, <2>1, <2>2, <3>1, <3>2, ReturnKeeps
  <2>4. InLine' /\ PoolsAgree' /\ DeafIsNoticed'
    BY <1>2, <1>p, <2>3, AsideKeeps
  <2>5. TypeOK'
    BY <1>2, <1>p, <2>1, <2>2 DEF LInv, TypeOK, Gone, Jobs, Gates
  <2>6. QED
    BY <2>3, <2>4, <2>5 DEF LInv
<1>3. CASE Go(t, "reconn") /\ job[t].target \in TrLabels /\ UNCHANGED <<trActive, trQ, syQ, langQ, job, gate>>
  <2>1. pc' \in [Tasks -> Pcs] /\ pc'[t] = "reconn" /\ \A u \in Tasks \ {t} : pc'[u] = pc[u]
    BY <1>3, Moves DEF Pcs, LInv
  <2>2. OnlyMoves(t)
    BY <1>3, <1>t, <2>1 DEF OnlyMoves
  <2>3. OnlyGateOf(t)
    BY <1>3, <1>p, <1>t DEF OnlyGateOf
  <2>4. LocksOf(t)
    BY <1>3, <1>p, <2>1 DEF LocksOf, LInv, OneDecides, Critical, LocksHeld, Switching
  <2>5. GateOf(t)
    BY <1>3, <1>p, <2>1 DEF GateOf, LInv, GateKept, GivenOut
  <2>6. LocksHeld' /\ OneDecides' /\ GateKept' /\ GivenOut'
    BY <1>p, <2>2, <2>3, <2>4, <2>5, OthersKeep
  <2>7. InLine' /\ PoolsAgree' /\ DeafIsNoticed'
    BY <1>3, <1>p, <2>2, AsideKeeps
  <2>8. TypeOK'
    BY <1>3, <1>p, <2>1 DEF LInv, TypeOK
  <2>9. QED
    BY <2>6, <2>7, <2>8 DEF LInv
<1>4. QED
  BY <1>1, <1>2, <1>3, <1>t DEF TrSwitch

\* The reconnect of a standby, or the report that it failed.
LEMMA TrReconnectedKeeps ==
    ASSUME LInv, NEW t \in Tasks, TrReconnected(t)
    PROVE  LInv'
<1> USE DEF pools, conns, audio
<1>1. /\ pc[t] = "reconn" /\ trActive' = job[t].target /\ ToVoice(t)
      /\ UNCHANGED <<call, language, syActive, eosQ, callEnded, reconnects, listener, langQ, job,
                     buf, lid, gate, rep, fcall, hangup, heard, tools>>
  BY DEF TrReconnected
<1>2. Holds(trQ, t) /\ job[t].target \in TrLabels
  BY <1>1 DEF LInv, LocksHeld
<1>3. /\ pc' \in [Tasks -> Pcs] /\ trQ' \in Seq(Tasks \cup {Listener}) /\ syQ' \in Seq(Tasks)
      /\ LocksHeld' /\ OneDecides' /\ GateKept' /\ GivenOut' /\ InLine' /\ PoolsAgree'
  BY <1>1, <1>2, VoiceKeeps
<1>4. \/ up' = up \cup {job[t].target} /\ notices' = notices
      \/ up' = up /\ notices' = notices + 1
  BY DEF TrReconnected
<1>5. notices \in Nat /\ drops' \in Nat
  BY DEF LInv, TypeOK, TrReconnected
<1>u. up' \subseteq TrLabels /\ notices' \in Nat
  BY <1>2, <1>4, <1>5 DEF LInv, TypeOK
<1>6. TypeOK'
  BY <1>1, <1>2, <1>3, <1>5, <1>u, SMTT(40) DEF LInv, TypeOK
<1>7. DeafIsNoticed'
  BY <1>1, <1>4, <1>5 DEF DeafIsNoticed
<1>8. QED
  BY <1>3, <1>6, <1>7 DEF LInv

\* The first in line for the voice leaves it, and the session follows the voice; if
\* nobody is left, the recognizer is on the label of the one that left.
LEMMA LineMoves ==
    ASSUME LInv, NEW t \in Tasks, Holds(syQ, t), OnlyMoves(t), syQ' = Tail(syQ),
           trActive' = trActive, syActive' = language'
    PROVE  InLine' /\ (syQ' = <<>> => job[t].target = trActive)
<1>t. syQ \in Seq(Tasks)
  BY DEF LInv, TypeOK
<1>2. syQ' \in Seq(Tasks)
  BY <1>t, Leaves
<1>5. /\ Len(syQ) \in Nat /\ Len(syQ) >= 1 /\ Len(syQ') = Len(syQ) - 1 /\ syQ[1] = t
      /\ \A i \in 1..Len(syQ') : syQ'[i] = syQ[i + 1]
  BY <1>t, HeadTailProperties DEF Holds
<1>6. \A i \in 1..Len(syQ') : i + 1 \in 1..Len(syQ) /\ syQ'[i] \in Tasks /\ syQ'[i] # t
  <2> SUFFICES ASSUME NEW i \in 1..Len(syQ')
               PROVE  i + 1 \in 1..Len(syQ) /\ syQ'[i] \in Tasks /\ syQ'[i] # t
    OBVIOUS
  <2>1. i + 1 \in 1..Len(syQ) /\ i + 1 # 1 /\ 1 \in 1..Len(syQ)
    BY <1>5
  <2>2. syQ[i + 1] # syQ[1]
    BY <2>1 DEF LInv, InLine
  <2>3. QED
    BY <1>t, <1>5, <2>1, <2>2
<1>7. InLine'
  <2>1. \A i \in 1..Len(syQ') : pc'[syQ'[i]] \in {"sy", "cancel"}
    <3> SUFFICES ASSUME NEW i \in 1..Len(syQ') PROVE pc'[syQ'[i]] \in {"sy", "cancel"}
      OBVIOUS
    <3>1. pc[syQ[i + 1]] \in {"sy", "cancel"}
      BY <1>6 DEF LInv, InLine
    <3>2. pc'[syQ'[i]] = pc[syQ'[i]] /\ syQ'[i] = syQ[i + 1]
      BY <1>5, <1>6 DEF OnlyMoves
    <3>3. QED
      BY <3>1, <3>2
  <2>2. \A i, j \in 1..Len(syQ') : syQ'[i] = syQ'[j] => i = j
    <3> SUFFICES ASSUME NEW i \in 1..Len(syQ'), NEW j \in 1..Len(syQ'), syQ'[i] = syQ'[j]
                 PROVE  i = j
      OBVIOUS
    <3>1. syQ[i + 1] = syQ[j + 1]
      BY <1>5
    <3>2. i + 1 = j + 1
      BY <1>6, <3>1 DEF LInv, InLine
    <3>3. QED
      BY <3>2
  <2>3. ASSUME syQ' # <<>> PROVE job'[syQ'[Len(syQ')]].target = trActive'
    <3>1. Len(syQ') \in 1..Len(syQ') /\ Len(syQ') + 1 = Len(syQ)
      BY <1>2, <1>5, <2>3
    <3>2. syQ'[Len(syQ')] = syQ[Len(syQ)] /\ syQ[Len(syQ)] \in Tasks \ {t}
      BY <1>5, <1>6, <3>1
    <3>3. syQ # <<>>
      BY <1>5
    <3>4. QED
      BY <3>2, <3>3 DEF LInv, InLine, OnlyMoves
  <2>4. QED
    BY <2>1, <2>2, <2>3 DEF InLine
<1>8. ASSUME syQ' = <<>> PROVE job[t].target = trActive
  <2>1. Len(syQ') = 0
    <3>1. Len(syQ') = Len(<<>>)
      BY <1>8, Zenon
    <3>2. Len(<<>>) = 0
      BY EmptySeq
    <3>3. QED
      BY <3>1, <3>2, Zenon
  <2>b. syQ # <<>>
    BY DEF Holds
  <2>a. Len(syQ) = 1
    BY <1>5, <2>1
  <2>2. QED
    BY <1>5, <2>a, <2>b DEF LInv, InLine
<1>9. QED
  BY <1>7, <1>8

\* The voice is on the label of t as well, which leaves the line: the session takes the
\* label, and if nobody is left in line, ears and mouth agree.
LEMMA AppliedKeeps ==
    ASSUME LInv, NEW t \in Tasks, pc[t] \in {"sy", "cancel"}, Holds(syQ, t), Applied(t),
           syActive' = job[t].target,
           UNCHANGED <<call, trActive, trQ, rep, listener, reconnects, up, notices, callEnded>>
    PROVE  /\ pc' \in [Tasks -> Pcs] /\ job' \in [Tasks -> Jobs] /\ gate' \in Gates
           /\ syQ' \in Seq(Tasks) /\ langQ' \in Seq(Tasks) /\ language' \in TrLabels
           /\ LocksHeld' /\ OneDecides' /\ GateKept' /\ GivenOut' /\ InLine' /\ PoolsAgree'
           /\ DeafIsNoticed'
<1>t. syQ \in Seq(Tasks) /\ job \in [Tasks -> Jobs] /\ gate \in Gates /\ rep \in Replies
      /\ langQ \in Seq(Tasks)
  BY DEF LInv, TypeOK, Jobs, Gates, Replies
<1>1. syQ' = Tail(syQ) /\ language' = job[t].target /\ job[t].target \in TrLabels
  BY DEF Applied, LInv, LocksHeld
<1>2. syQ' \in Seq(Tasks) /\ \A x : Holds(syQ, x) => x = t
  BY <1>t, <1>1, Leaves
<1>3. Judged => Holds(langQ, t)
  BY DEF LInv, OneDecides, Critical
<1>4. /\ OnlyMoves(t) /\ pc'[t] \in {"speak", "free"} /\ gate' \in Gates /\ langQ' \in Seq(Tasks)
      /\ LocksHeld' /\ OneDecides' /\ GateKept' /\ GivenOut'
  <2>1. CASE job[t].kind \in {"turn", "idle"}
    <3>1. Go(t, "speak") /\ UNCHANGED <<langQ, job, gate>>
      BY <2>1 DEF Applied
    <3>2. pc' \in [Tasks -> Pcs] /\ pc'[t] = "speak" /\ \A u \in Tasks \ {t} : pc'[u] = pc[u]
      BY <3>1, Moves DEF Pcs, LInv
    <3>3. OnlyMoves(t)
      BY <1>t, <1>2, <3>1, <3>2 DEF OnlyMoves
    <3>4. OnlyGateOf(t)
      BY <1>t, <3>1 DEF OnlyGateOf
    <3>5. LocksOf(t)
      BY <1>3, <2>1, <3>1, <3>2 DEF LocksOf, LInv, OneDecides, Critical, Switching
    <3>6. GateOf(t)
      BY <3>1, <3>2 DEF GateOf, LInv, GateKept, GivenOut
    <3>7. QED
      BY <1>t, <1>3, <3>1, <3>2, <3>3, <3>4, <3>5, <3>6, OthersKeep
  <2>2. CASE job[t].kind \notin {"turn", "idle"}
    <3>1. Return(t)
      BY <2>2 DEF Applied
    <3>2. Gone(t) /\ gate' = Decided(t) /\ gate' \in Gates
      BY <3>1, LeaveGone, DecidedGate DEF Return, LInv
    <3>3. OnlyEnd
      BY <1>t DEF OnlyEnd
    <3>4. gate.task = t /\ ~gate.decided => Holds(langQ, t)
      BY GateHasLock DEF Critical
    <3>5. OnlyMoves(t) /\ LocksHeld' /\ OneDecides' /\ GateKept' /\ GivenOut'
      BY <1>2, <1>3, <3>2, <3>3, <3>4, ReturnKeeps
    <3>6. QED
      BY <3>2, <3>5 DEF Gone
  <2>3. QED
    BY <2>1, <2>2
<1>5. InLine' /\ (syQ' = <<>> => job[t].target = trActive)
  BY <1>1, <1>4, LineMoves
<1>6. PoolsAgree'
  BY <1>1, <1>5 DEF PoolsAgree
<1>7. DeafIsNoticed'
  BY DEF LInv, DeafIsNoticed
<1>8. QED
  BY <1>1, <1>2, <1>4, <1>5, <1>6, <1>7 DEF OnlyMoves

\* The label has no voice: t leaves the line and returns; the recognizer may be left on
\* that label, which is never one of the judge's.
LEMMA VoicelessKeeps ==
    ASSUME LInv, NEW t \in Tasks, pc[t] = "sy", Holds(syQ, t), Voiceless(t),
           job[t].target \notin SyLabels,
           UNCHANGED <<call, trActive, syActive, trQ, rep, listener, reconnects, up, notices,
                       callEnded>>
    PROVE  /\ pc' \in [Tasks -> Pcs] /\ job' \in [Tasks -> Jobs] /\ gate' \in Gates
           /\ syQ' \in Seq(Tasks) /\ langQ' \in Seq(Tasks) /\ language' = language
           /\ LocksHeld' /\ OneDecides' /\ GateKept' /\ GivenOut' /\ InLine' /\ PoolsAgree'
           /\ DeafIsNoticed'
<1>t. syQ \in Seq(Tasks) /\ gate \in Gates /\ rep \in Replies
  BY DEF LInv, TypeOK, Gates, Replies
<1>1. syQ' = Tail(syQ) /\ language' = language /\ Return(t)
  BY DEF Voiceless
<1>2. syQ' \in Seq(Tasks) /\ \A x : Holds(syQ, x) => x = t
  BY <1>t, <1>1, Leaves
<1>3. Gone(t) /\ gate' = Decided(t) /\ gate' \in Gates
  BY <1>1, LeaveGone, DecidedGate DEF Return, LInv
<1>4. OnlyMoves(t) /\ LocksHeld' /\ OneDecides' /\ GateKept' /\ GivenOut'
  <2>1. OnlyEnd
    BY <1>t DEF OnlyEnd
  <2>2. gate.task = t /\ ~gate.decided => Holds(langQ, t)
    BY GateHasLock DEF Critical
  <2>3. QED
    BY <1>1, <1>2, <1>3, <2>1, <2>2, ReturnKeeps
<1>5. InLine' /\ (syQ' = <<>> => job[t].target = trActive)
  <2>1. syActive' = language'
    BY <1>1 DEF LInv, InLine
  <2>2. QED
    BY <1>1, <1>4, <2>1, LineMoves
<1>6. PoolsAgree'
  <2>1. call.flow # "judge"
    BY DEF LInv, LocksHeld, Switching
  <2>2. syActive' = language'
    BY <1>5 DEF InLine
  <2>3. QED
    BY <1>5, <2>1, <2>2 DEF PoolsAgree
<1>7. DeafIsNoticed'
  BY DEF LInv, DeafIsNoticed
<1>8. QED
  BY <1>1, <1>2, <1>3, <1>4, <1>5, <1>6, <1>7 DEF OnlyMoves, Gone

\* SynthesizerPool.switch: the label is active, or has no voice, or the old task is
\* cancelled.
LEMMA SySwitchKeeps ==
    ASSUME LInv, NEW t \in Tasks, SySwitch(t)
    PROVE  LInv'
<1> USE DEF pools, conns, audio
<1>p. /\ pc[t] = "sy" /\ Holds(syQ, t)
      /\ UNCHANGED <<call, trActive, syActive, conns, trQ, lid, rep, fcall, hangup, heard, tools>>
  BY DEF SySwitch
<1>t. syQ \in Seq(Tasks) /\ job \in [Tasks -> Jobs] /\ gate \in Gates /\ rep \in Replies
  BY DEF LInv, TypeOK, Jobs, Gates, Replies
<1>1. CASE job[t].target = syActive
  <2>0. job[t].target \in SyLabels
    BY <1>1 DEF LInv, TypeOK
  <2>1. Applied(t) /\ syActive' = job[t].target
    BY <1>1, <1>p, <2>0 DEF SySwitch
  <2>2. /\ pc' \in [Tasks -> Pcs] /\ job' \in [Tasks -> Jobs] /\ gate' \in Gates
        /\ syQ' \in Seq(Tasks) /\ langQ' \in Seq(Tasks) /\ language' \in TrLabels
        /\ LocksHeld' /\ OneDecides' /\ GateKept' /\ GivenOut' /\ InLine' /\ PoolsAgree'
        /\ DeafIsNoticed'
    BY <1>p, <2>1, AppliedKeeps
  <2>3. buf' \subseteq Tags
    BY <2>1 DEF Applied, LInv, TypeOK
  <2>4. TypeOK'
    BY <1>p, <2>2, <2>3 DEF LInv, TypeOK, Jobs, Gates, Labels
  <2>5. QED
    BY <2>2, <2>4 DEF LInv
<1>2. CASE job[t].target \in SyLabels /\ job[t].target # syActive
  <2>0. Go(t, "cancel") /\ UNCHANGED <<language, syQ, langQ, job, buf, gate>>
    BY <1>2 DEF SySwitch
  <2>1. pc' \in [Tasks -> Pcs] /\ pc'[t] = "cancel" /\ \A u \in Tasks \ {t} : pc'[u] = pc[u]
    BY <2>0, Moves DEF Pcs, LInv
  <2>2. OnlyMoves(t)
    BY <1>p, <1>t, <2>0, <2>1 DEF OnlyMoves
  <2>3. OnlyGateOf(t)
    BY <1>p, <1>t, <2>0 DEF OnlyGateOf
  <2>4. LocksOf(t)
    BY <1>p, <1>2, <2>0, <2>1 DEF LocksOf, LInv, OneDecides, LocksHeld, Critical, Switching
  <2>5. GateOf(t)
    BY <1>p, <2>0, <2>1 DEF GateOf, LInv, GateKept, GivenOut
  <2>6. LocksHeld' /\ OneDecides' /\ GateKept' /\ GivenOut'
    BY <1>p, <2>0, <2>2, <2>3, <2>4, <2>5, OthersKeep
  <2>7. InLine' /\ PoolsAgree' /\ DeafIsNoticed'
    <3>1. \A u \in Tasks : pc[u] \in {"sy", "cancel"} => pc'[u] \in {"sy", "cancel"}
      BY <2>1
    <3>2. \A i \in 1..Len(syQ) : syQ[i] \in Tasks
      BY <1>t
    <3>3. QED
      BY <1>p, <2>0, <3>1, <3>2 DEF LInv, InLine, PoolsAgree, DeafIsNoticed
  <2>8. TypeOK'
    BY <1>p, <2>0, <2>1 DEF LInv, TypeOK
  <2>9. QED
    BY <2>6, <2>7, <2>8 DEF LInv
<1>3. CASE job[t].target \notin SyLabels
  <2>0. job[t].target # syActive
    BY <1>3 DEF LInv, TypeOK
  <2>1. Voiceless(t)
    BY <1>3, <2>0 DEF SySwitch
  <2>2. /\ pc' \in [Tasks -> Pcs] /\ job' \in [Tasks -> Jobs] /\ gate' \in Gates
        /\ syQ' \in Seq(Tasks) /\ langQ' \in Seq(Tasks) /\ language' = language
        /\ LocksHeld' /\ OneDecides' /\ GateKept' /\ GivenOut' /\ InLine' /\ PoolsAgree'
        /\ DeafIsNoticed'
    BY <1>p, <1>3, <2>1, VoicelessKeeps
  <2>3. TypeOK'
    BY <1>p, <2>1, <2>2 DEF Voiceless, LInv, TypeOK, Jobs, Gates
  <2>4. QED
    BY <2>2, <2>3 DEF LInv
<1>4. QED
  BY <1>1, <1>2, <1>3

\* The old generate task is gone and the voice flips.
LEMMA SyCancelledKeeps ==
    ASSUME LInv, NEW t \in Tasks, SyCancelled(t)
    PROVE  LInv'
<1> USE DEF pools, conns, audio
<1>p. /\ pc[t] = "cancel" /\ syActive' = job[t].target /\ Applied(t)
      /\ UNCHANGED <<call, trActive, conns, trQ, lid, rep, fcall, hangup, heard, tools>>
  BY DEF SyCancelled
<1>1. Holds(syQ, t) /\ job[t].target \in TrLabels \cap SyLabels
  BY <1>p DEF LInv, LocksHeld
<1>2. /\ pc' \in [Tasks -> Pcs] /\ job' \in [Tasks -> Jobs] /\ gate' \in Gates
      /\ syQ' \in Seq(Tasks) /\ langQ' \in Seq(Tasks) /\ language' \in TrLabels
      /\ LocksHeld' /\ OneDecides' /\ GateKept' /\ GivenOut' /\ InLine' /\ PoolsAgree'
      /\ DeafIsNoticed'
  BY <1>p, <1>1, AppliedKeeps
<1>3. buf' \subseteq Tags
  BY <1>p DEF Applied, LInv, TypeOK
<1>4. TypeOK'
  BY <1>p, <1>1, <1>2, <1>3 DEF LInv, TypeOK, Jobs, Gates, Labels
<1>5. QED
  BY <1>2, <1>4 DEF LInv

-------------------------------------------------------------------------------
(* Decisions, tools and the heuristic.                                      *)

\* The variables that a step beside the pools may change have their types.
AsideTypes ==
    /\ trQ' \in Seq(Tasks \cup {Listener}) /\ langQ' \in Seq(Tasks) /\ buf' \subseteq Tags
    /\ lid' \in [lang : Labels \cup {Other}, count : 0..Debounce, cooling : BOOLEAN]
    /\ gate' \in Gates /\ rep' \in Replies /\ tools' \in Nat
    /\ UNCHANGED <<call, pools, conns, syQ, fcall, hangup, heard>>

\* A step beside the pools that is in order for its task keeps the invariant.
LEMMA BesideKeeps ==
    ASSUME LInv, NEW t \in Tasks, OnlyMoves(t), pc[t] \notin {"sy", "cancel"}, AsideTypes,
           LocksHeld' /\ OneDecides' /\ GateKept' /\ GivenOut'
    PROVE  LInv'
<1> USE DEF pools, conns
<1>1. InLine' /\ PoolsAgree' /\ DeafIsNoticed'
  BY AsideKeeps DEF AsideTypes
<1>2. TypeOK'
  BY DEF LInv, TypeOK, AsideTypes, OnlyMoves, Jobs, Gates, Replies
<1>3. QED
  BY <1>1, <1>2 DEF LInv

\* A task returns that is not between the pools.
LEMMA ReturnsBeside ==
    ASSUME LInv, NEW t \in Tasks, Return(t), pc[t] \notin {"sy", "cancel"}, OnlyEnd,
           pc[t] \in Critical \cup {"follow"} \/ Holds(langQ, t), buf' \subseteq Tags,
           UNCHANGED <<call, pools, conns, trQ, syQ, lid, fcall, hangup, heard, tools>>
    PROVE  LInv'
<1> USE DEF pools, conns
<1>1. Gone(t) /\ gate' = Decided(t) /\ gate' \in Gates
  BY LeaveGone, DecidedGate DEF Return, LInv
<1>2. gate.task = t /\ ~gate.decided => Holds(langQ, t)
  BY GateHasLock
<1>3. OnlyMoves(t) /\ LocksHeld' /\ OneDecides' /\ GateKept' /\ GivenOut'
  BY <1>1, <1>2, ReturnKeeps
<1>4. AsideTypes
  BY <1>1 DEF AsideTypes, OnlyEnd, Gone, LInv, TypeOK
<1>5. QED
  BY <1>3, <1>4, BesideKeeps

\* A decision begins, asks, stays, or speaks.
LEMMA DecisionKeeps ==
    ASSUME LInv, NEW t \in Tasks, BeginDecision(t) \/ Stay(t) \/ Speak(t) \/ Follow(t)
    PROVE  LInv'
<1> USE DEF pools, conns, audio
<1>t. /\ job \in [Tasks -> Jobs] /\ gate \in Gates /\ rep \in Replies /\ buf \subseteq Tags
      /\ trQ \in Seq(Tasks \cup {Listener}) /\ langQ \in Seq(Tasks) /\ tools \in Nat
      /\ lid \in [lang : Labels \cup {Other}, count : 0..Debounce, cooling : BOOLEAN]
  BY DEF LInv, TypeOK, Jobs, Gates, Replies
<1>e. rep' = rep => OnlyEnd
  BY <1>t DEF OnlyEnd
<1>1. CASE BeginDecision(t)
  <2>0. /\ pc[t] = "lock" /\ Holds(langQ, t) /\ job[t].kind # "tool"
        /\ UNCHANGED <<call, pools, conns, trQ, syQ, buf, lid, rep, fcall, hangup, heard, tools>>
    BY <1>1 DEF BeginDecision
  <2>1. CASE hangup \/ job[t].spawned # language
    <3>1. Return(t)
      BY <1>1, <2>1 DEF BeginDecision
    <3>2. QED
      BY <1>t, <1>e, <2>0, <3>1, ReturnsBeside
  <2>2. CASE ~(hangup \/ job[t].spawned # language)
    <3>0. Go(t, "settle") /\ UNCHANGED <<langQ, job, gate>> /\ job[t].spawned = language
      BY <1>1, <2>2 DEF BeginDecision
    <3>1. pc' \in [Tasks -> Pcs] /\ pc'[t] = "settle" /\ \A u \in Tasks \ {t} : pc'[u] = pc[u]
      BY <3>0, Moves DEF Pcs, LInv
    <3>2. OnlyMoves(t) /\ OnlyGateOf(t) /\ AsideTypes
      BY <1>t, <2>0, <3>0, <3>1 DEF OnlyMoves, OnlyGateOf, AsideTypes
    <3>k. job[t].kind \in {"turn", "idle"}
      BY <2>0 DEF LInv, OneDecides
    <3>3. LocksOf(t)
      BY <2>0, <3>0, <3>1, <3>k DEF LocksOf, LInv, OneDecides, Critical, Switching
    <3>4. GateOf(t)
      BY <2>0, <3>0, <3>1 DEF GateOf, LInv, GateKept, GivenOut
    <3>5. LocksHeld' /\ OneDecides' /\ GateKept' /\ GivenOut'
      BY <2>0, <3>2, <3>3, <3>4, OthersKeep
    <3>6. QED
      BY <2>0, <3>2, <3>5, BesideKeeps
  <2>3. QED
    BY <2>1, <2>2
<1>2. CASE Stay(t)
  BY <1>2, <1>t, <1>e, ReturnsBeside DEF Stay, Critical
<1>3. CASE Speak(t)
  <2>0. /\ pc[t] = "speak"
        /\ UNCHANGED <<call, pools, conns, trQ, syQ, buf, lid, rep, fcall, hangup, heard, tools>>
    BY <1>3 DEF Speak
  <2>1. CASE Return(t)
    BY <1>t, <1>e, <2>0, <2>1, ReturnsBeside DEF Critical
  <2>2. CASE Go(t, "follow") /\ langQ' = Tail(langQ) /\ UNCHANGED <<job, gate>>
    <3>1. pc' \in [Tasks -> Pcs] /\ pc'[t] = "follow" /\ \A u \in Tasks \ {t} : pc'[u] = pc[u]
      BY <2>2, Moves DEF Pcs, LInv
    <3>2. Holds(langQ, t)
      BY <2>0 DEF LInv, OneDecides, Critical
    <3>3. langQ' \in Seq(Tasks) /\ \A x : Holds(langQ, x) => x = t
      BY <1>t, <2>2, <3>2, Leaves
    <3>4. OnlyMoves(t) /\ OnlyGateOf(t) /\ AsideTypes
      BY <1>t, <2>0, <2>2, <3>1, <3>3 DEF OnlyMoves, OnlyGateOf, AsideTypes
    <3>5. LocksOf(t)
      BY <2>0, <2>2, <3>1 DEF LocksOf, LInv, OneDecides, Critical, Switching
    <3>6. GateOf(t)
      BY <2>0, <2>2, <3>1 DEF GateOf, LInv, GateKept, GivenOut
    <3>7. LocksHeld' /\ OneDecides' /\ GateKept' /\ GivenOut'
      BY <2>0, <3>4, <3>5, <3>6, OthersKeep
    <3>8. QED
      BY <2>0, <3>4, <3>7, BesideKeeps
  <2>3. QED
    BY <1>3, <2>1, <2>2 DEF Speak
<1>4. CASE Follow(t)
  <2>1. OnlyEnd
    <3>1. CASE Unheard = {}
      BY <1>4, <1>e, <3>1 DEF Follow
    <3>2. CASE Unheard # {}
      <4>1. NextSeq \in 1..MaxSeq /\ rep[NextSeq] = "none"
        BY <3>2, NextSeqIsNew DEF LInv
      <4>2. rep' = [rep EXCEPT ![NextSeq] = "pending"]
        BY <1>4, <3>2 DEF Follow
      <4>3. QED
        BY <1>t, <4>1, <4>2 DEF OnlyEnd, Replies
    <3>3. QED
      BY <3>1, <3>2
  <2>2. QED
    BY <1>4, <1>t, <2>1, ReturnsBeside DEF Follow
<1>5. QED
  BY <1>1, <1>2, <1>3, <1>4

\* A task leaves whose gate is not open any more.
LEMMA GoneBeside ==
    ASSUME LInv, NEW t \in Tasks, Gone(t), OnlyGateOf(t), pc[t] \notin {"sy", "cancel"},
           gate'.task = t => gate'.decided, buf' \subseteq Tags,
           UNCHANGED <<call, pools, conns, trQ, syQ, lid, fcall, hangup, heard, tools>>
    PROVE  LInv'
<1> USE DEF pools, conns
<1>1. OnlyMoves(t)
  BY DEF OnlyMoves, Gone
<1>2. LocksOf(t)
  BY DEF LocksOf, Gone, NoJob, Critical, Switching
<1>3. GateOf(t)
  BY DEF GateOf, Gone, NoJob
<1>4. LocksHeld' /\ OneDecides' /\ GateKept' /\ GivenOut'
  BY <1>1, <1>2, <1>3, OthersKeep
<1>5. AsideTypes
  BY DEF AsideTypes, OnlyGateOf, Gone, LInv, TypeOK
<1>6. QED
  BY <1>1, <1>4, <1>5, BesideKeeps

\* A task goes on, beside the pools.
LEMMA GoesBeside ==
    ASSUME LInv, NEW t \in Tasks, NEW w \in Pcs, Go(t, w), pc[t] \notin {"sy", "cancel"},
           job' \in [Tasks -> Jobs], \A u \in Tasks \ {t} : job'[u] = job[u],
           langQ' = langQ \/ langQ' = Append(langQ, t),
           OnlyGateOf(t), pc'[t] = w => LocksOf(t) /\ GateOf(t),
           buf' \subseteq Tags, tools' \in Nat,
           UNCHANGED <<call, pools, conns, trQ, syQ, lid, fcall, hangup, heard>>
    PROVE  LInv'
<1> USE DEF pools, conns
<1>1. pc' \in [Tasks -> Pcs] /\ pc'[t] = w /\ \A u \in Tasks \ {t} : pc'[u] = pc[u]
  BY Moves DEF LInv
<1>2. langQ \in Seq(Tasks)
  BY DEF LInv, TypeOK
<1>3. langQ' \in Seq(Tasks) /\ \A x : Holds(langQ, x) => Holds(langQ', x)
  BY <1>2, Joins
<1>4. OnlyMoves(t)
  BY <1>1, <1>3 DEF OnlyMoves
<1>5. LocksHeld' /\ OneDecides' /\ GateKept' /\ GivenOut'
  BY <1>1, <1>4, OthersKeep
<1>6. AsideTypes
  BY <1>3 DEF AsideTypes, OnlyGateOf, LInv, TypeOK
<1>7. QED
  BY <1>4, <1>5, <1>6, BesideKeeps

\* A task goes on to the pools, the rest as it was.
LEMMA EntersBeside ==
    ASSUME LInv, NEW t \in Tasks, Enter(t), pc[t] \notin {"sy", "cancel"}, job' \in [Tasks -> Jobs],
           \A u \in Tasks \ {t} : job'[u] = job[u],
           \/ gate' = gate /\ (gate.task = t => gate.decided)
           \/ gate' = NoGate /\ Holds(langQ, t),
           OnlyEnd, UNCHANGED <<call, pools, conns, syQ, langQ>>, Judged => Holds(langQ, t),
           job'[t].kind \in {"turn", "idle", "parallel"} => Judged /\ job'[t].spawned = language,
           call.flow = "judge" => job'[t].target \in SyLabels,
           \A s \in 1..MaxSeq : job'[t].seq = s \/ job'[t].held = s => rep'[s] # "none",
           lid' \in [lang : Labels \cup {Other}, count : 0..Debounce, cooling : BOOLEAN],
           UNCHANGED <<buf, fcall, hangup, heard, tools>>
    PROVE  LInv'
<1> USE DEF pools, conns
<1>1. /\ OnlyMoves(t) /\ trQ' \in Seq(Tasks \cup {Listener}) /\ gate' \in Gates
      /\ LocksHeld' /\ OneDecides' /\ GateKept' /\ GivenOut'
  BY EnterKeeps
<1>2. AsideTypes
  BY <1>1 DEF AsideTypes, OnlyEnd, LInv, TypeOK
<1>3. QED
  BY <1>1, <1>2, BesideKeeps

\* A decision inside the critical section has the lock, and its own evidence.
LEMMA DecisionHasLock ==
    ASSUME LInv, NEW t \in Tasks, pc[t] \in {"settle", "decide", "cut", "cutAudible", "gap"}
    PROVE  /\ Judged /\ Holds(langQ, t) /\ job[t].kind \in {"turn", "idle"}
           /\ job[t].spawned = language
BY DEF LInv, OneDecides, Critical

\* The buffer is drained.
LEMMA DrainKeeps ==
    ASSUME LInv, NEW t \in Tasks, Drain(t)
    PROVE  LInv'
<1> USE DEF pools, conns, audio
<1>t. job \in [Tasks -> Jobs] /\ gate \in Gates /\ rep \in Replies /\ buf \subseteq Tags /\ tools \in Nat
  BY DEF LInv, TypeOK, Jobs, Gates, Replies
<1>0. /\ pc[t] = "settle" /\ buf' = {}
      /\ UNCHANGED <<call, pools, conns, trQ, syQ, lid, rep, fcall, hangup, heard, tools>>
  BY DEF Drain
<1>l. Judged /\ Holds(langQ, t) /\ job[t].kind \in {"turn", "idle"} /\ job[t].spawned = language
  BY <1>0, DecisionHasLock
<1>1. CASE Return(t)
  <2>1. OnlyEnd
    BY <1>0, <1>t DEF OnlyEnd
  <2>2. QED
    BY <1>0, <1>1, <1>l, <2>1, ReturnsBeside
<1>2. CASE ~Return(t)
  <2>1. Go(t, "decide") /\ UNCHANGED <<langQ, job>>
    BY <1>2 DEF Drain
  <2>2. \/ gate' = gate /\ ~gate.decided
        \/ gate' = NoGate
        \/ gate' = [seq |-> job[t].seq, task |-> t, expired |-> FALSE, decided |-> FALSE]
    BY <1>2 DEF Drain, Armed
  <2>3. /\ gate' \in Gates /\ ~gate'.decided
        /\ gate'.seq \in {0, gate.seq, job[t].seq}
        /\ gate'.task = Listener \/ gate'.task = t \/ gate' = gate
    <3>1. job[t].seq \in 0..MaxSeq
      BY <1>t DEF Jobs
    <3>2. CASE gate' = gate /\ ~gate.decided
      BY <1>t, <3>2
    <3>3. CASE gate' = NoGate
      BY <3>3, Nothing
    <3>4. CASE gate' = [seq |-> job[t].seq, task |-> t, expired |-> FALSE, decided |-> FALSE]
      BY <3>1, <3>4 DEF Gates
    <3>5. QED
      BY <2>2, <3>2, <3>3, <3>4
  <2>4. OnlyGateOf(t)
    BY <1>0, <1>l, <1>t, <2>3, TasksAssumption DEF OnlyGateOf, LInv, GivenOut
  <2>5. pc'[t] = "decide" => LocksOf(t) /\ GateOf(t)
    BY <1>0, <1>l, <2>1, <2>3 DEF LocksOf, GateOf, LInv, GivenOut, Critical, Switching
  <2>6. "decide" \in Pcs /\ buf' \subseteq Tags
    BY <1>0 DEF Pcs
  <2>7. QED
    BY <1>0, <1>t, <2>1, <2>4, <2>5, <2>6, GoesBeside
<1>3. QED
  BY <1>1, <1>2

\* A verdict goes through: the reply in flight is cut, or the pools are next.
LEMMA AcceptKeeps ==
    ASSUME LInv, NEW t \in Tasks, NEW l \in TrLabels, Accept(t, l)
    PROVE  LInv'
<1> USE DEF pools, conns, audio
<1>t. job \in [Tasks -> Jobs] /\ gate \in Gates /\ rep \in Replies /\ buf \subseteq Tags /\ tools \in Nat
  BY DEF LInv, TypeOK, Jobs, Gates, Replies
<1>0. /\ pc[t] = "decide"
      /\ job' = [job EXCEPT ![t].target = l, ![t].held = gate.seq,
                            ![t].kind = IF fcall THEN "parallel" ELSE @]
      /\ UNCHANGED <<call, pools, conns, syQ, langQ, buf, lid, rep, fcall, hangup, heard, tools>>
  BY DEF Accept
<1>l. Judged /\ Holds(langQ, t) /\ job[t].kind \in {"turn", "idle"} /\ job[t].spawned = language
  BY <1>0, DecisionHasLock
<1>j. /\ job' \in [Tasks -> Jobs] /\ \A u \in Tasks \ {t} : job'[u] = job[u]
      /\ job'[t].held = gate.seq /\ job'[t].seq = job[t].seq /\ job'[t].spawned = language
      /\ job'[t].target \in SyLabels
      /\ job'[t].kind = (IF fcall THEN "parallel" ELSE job[t].kind)
  <2>1. job[t] \in Jobs /\ l \in Labels /\ l \in SyLabels /\ gate.seq \in 0..MaxSeq
    BY <1>t DEF Gates, Labels, Accept
  <2> DEFINE k == IF fcall THEN "parallel" ELSE job[t].kind
             j == [job[t] EXCEPT !.target = l, !.held = gate.seq, !.kind = k]
  <2>2. k \in {"turn", "idle", "parallel"}
    BY <1>l
  <2> HIDE DEF k
  <2>3. j \in Jobs /\ j.held = gate.seq /\ j.seq = job[t].seq /\ j.spawned = job[t].spawned /\ j.kind = k
        /\ j.target = l
    BY <2>1, <2>2 DEF Jobs
  <2> HIDE DEF j
  <2>4. job' = [job EXCEPT ![t] = j]
    BY <1>0, <1>t DEF j, k
  <2>5. QED
    BY <1>l, <1>t, <2>1, <2>3, <2>4 DEF k
<1>1. CASE ~fcall /\ InFlight # {}
  <2>1. PICK w \in {"cut", "cutAudible"} : Go(t, w) /\ UNCHANGED <<trQ, gate>>
    BY <1>1 DEF Accept
  <2>2. OnlyGateOf(t)
    BY <1>0, <1>t, <2>1 DEF OnlyGateOf
  <2>3. pc'[t] = w => LocksOf(t)
    BY <1>0, <1>1, <1>j, <1>l DEF LocksOf, Critical, Switching
  <2>4. pc'[t] = w => GateOf(t)
    BY <1>0, <1>1, <1>j, <1>l, <2>1 DEF GateOf, LInv, GateKept, GivenOut
  <2>5. w \in Pcs
    BY DEF Pcs
  <2>6. QED
    BY <1>0, <1>t, <1>j, <2>1, <2>2, <2>3, <2>4, <2>5, GoesBeside
<1>2. CASE ~(~fcall /\ InFlight # {})
  <2>1. Enter(t) /\ gate' = NoGate
    BY <1>2 DEF Accept
  <2>2. OnlyEnd
    BY <1>0, <1>t DEF OnlyEnd
  <2>3. lid' \in [lang : Labels \cup {Other}, count : 0..Debounce, cooling : BOOLEAN]
    BY <1>0 DEF LInv, TypeOK
  <2>4. \A s \in 1..MaxSeq : job'[t].seq = s \/ job'[t].held = s => rep'[s] # "none"
    BY <1>0, <1>j DEF LInv, GivenOut
  <2>5. QED
    BY <1>0, <1>l, <1>j, <2>1, <2>2, <2>3, <2>4, EntersBeside
<1>3. QED
  BY <1>1, <1>2

\* Truncated replies only end.
LEMMA TruncatedEnds ==
    ASSUME LInv, rep' = Truncated
    PROVE  OnlyEnd /\ \A s \in 1..MaxSeq : rep'[s] # "pending"
BY DEF LInv, TypeOK, Truncated, InFlight, OnlyEnd, Replies

\* The replies in flight are invalid, and the silence between the voices.
LEMMA TruncateKeeps ==
    ASSUME LInv, NEW t \in Tasks, Truncate(t) \/ GapOver(t)
    PROVE  LInv'
<1> USE DEF pools, conns, audio
<1>t. /\ job \in [Tasks -> Jobs] /\ gate \in Gates /\ rep \in Replies /\ buf \subseteq Tags /\ tools \in Nat
      /\ lid \in [lang : Labels \cup {Other}, count : 0..Debounce, cooling : BOOLEAN]
  BY DEF LInv, TypeOK, Jobs, Gates, Replies
<1>g. \A s \in 1..MaxSeq : job[t].seq = s \/ job[t].held = s => rep[s] # "none"
  BY DEF LInv, GivenOut
<1>v. call.flow = "judge" /\ pc[t] \in {"cut", "cutAudible", "gap"} => job[t].target \in SyLabels
  BY DEF LInv, LocksHeld, Switching
<1>1. CASE Truncate(t)
  <2>0. /\ pc[t] \in {"cut", "cutAudible"} /\ rep' = Truncated /\ gate' = NoGate
        /\ UNCHANGED <<call, pools, conns, syQ, langQ, job, buf, lid, fcall, hangup, heard, tools>>
    BY <1>1 DEF Truncate
  <2>l. Judged /\ Holds(langQ, t) /\ job[t].kind \in {"turn", "idle"} /\ job[t].spawned = language
    BY <2>0, DecisionHasLock
  <2>e. OnlyEnd /\ \A s \in 1..MaxSeq : rep'[s] # "pending"
    BY <2>0, TruncatedEnds
  <2>1. CASE Go(t, "gap") /\ UNCHANGED trQ
    <3>1. OnlyGateOf(t)
      BY <2>0, <2>l, <2>e, Nothing, TasksAssumption DEF OnlyGateOf, OnlyEnd
    <3>2. pc'[t] = "gap" => LocksOf(t) /\ GateOf(t)
      BY <1>g, <1>v, <2>0, <2>l, <2>e, Nothing, TasksAssumption DEF LocksOf, GateOf, OnlyEnd, Critical, Switching
    <3>3. "gap" \in Pcs
      BY DEF Pcs
    <3>4. QED
      BY <1>t, <2>0, <2>1, <3>1, <3>2, <3>3, GoesBeside
  <2>2. CASE Enter(t)
    <3>1. \A s \in 1..MaxSeq : job'[t].seq = s \/ job'[t].held = s => rep'[s] # "none"
      BY <1>g, <2>0, <2>e DEF OnlyEnd
    <3>2. QED
      BY <1>t, <1>v, <2>0, <2>l, <2>e, <2>2, <3>1, EntersBeside
  <2>3. QED
    BY <1>1, <2>1, <2>2 DEF Truncate
<1>2. CASE GapOver(t)
  <2>0. /\ pc[t] = "gap" /\ gate' = (IF hangup THEN Decided(t) ELSE NoGate)
        /\ UNCHANGED <<call, pools, conns, syQ, buf, lid, rep, fcall, hangup, heard, tools>>
    BY <1>2 DEF GapOver
  <2>l. Judged /\ Holds(langQ, t) /\ job[t].kind \in {"turn", "idle"} /\ job[t].spawned = language
    BY <2>0, DecisionHasLock
  <2>e. OnlyEnd
    BY <1>t, <2>0 DEF OnlyEnd
  <2>1. CASE hangup \/ job[t].target = language
    <3>1. Leave(t) /\ UNCHANGED trQ
      BY <1>2, <2>1 DEF GapOver
    <3>2. Gone(t)
      BY <3>1, LeaveGone DEF LInv
    <3>3. /\ gate' \in Gates /\ gate'.task \in {gate.task, Listener} /\ (gate'.task = t => gate'.decided)
          /\ gate'.seq \in {0, gate.seq} /\ (gate'.task # Listener /\ ~gate'.decided => ~gate.decided)
      <4>1. CASE hangup
        BY <2>0, <4>1, DecidedGate DEF LInv
      <4>2. CASE ~hangup
        BY <2>0, <4>2, Nothing, TasksAssumption
      <4>3. QED
        BY <4>1, <4>2
    <3>4. OnlyGateOf(t)
      BY <1>t, <2>0, <2>l, <3>3, TasksAssumption DEF OnlyGateOf
    <3>5. QED
      BY <1>t, <2>0, <3>1, <3>2, <3>3, <3>4, GoneBeside
  <2>2. CASE ~(hangup \/ job[t].target = language)
    <3>1. Enter(t) /\ UNCHANGED <<langQ, job>> /\ gate' = NoGate
      BY <1>2, <2>0, <2>2 DEF GapOver
    <3>2. QED
      BY <1>g, <1>t, <1>v, <2>0, <2>l, <2>e, <3>1, EntersBeside
  <2>3. QED
    BY <2>1, <2>2
<1>3. QED
  BY <1>1, <1>2

\* A task that starts takes a free slot.
LEMMA FreshIsFree ==
    ASSUME LInv, NEW t \in Tasks, Fresh(t)
    PROVE  pc[t] = "free" /\ (gate.task = t => gate.decided)
BY DEF LInv, GateKept, Fresh

\* A user turn completes, and its decision waits for the lock.
LEMMA TurnKeeps ==
    ASSUME LInv, NEW t \in Tasks, Turn(t)
    PROVE  LInv'
<1> USE DEF pools, conns, audio
<1>t. /\ job \in [Tasks -> Jobs] /\ gate \in Gates /\ rep \in Replies /\ buf \subseteq Tags
      /\ tools \in Nat /\ language \in Labels
  BY DEF LInv, TypeOK, Jobs, Gates, Replies
<1>0. /\ Judged /\ Go(t, "lock") /\ langQ' = Append(langQ, t)
      /\ rep' = [Truncated EXCEPT ![NextSeq] = "pending"]
      /\ gate' \in {gate, Armed(NextSeq, t)}
      /\ UNCHANGED <<call, pools, conns, trQ, syQ, buf, lid, fcall, hangup, heard, tools>>
  BY DEF Turn
<1>f. pc[t] = "free" /\ (gate.task = t => gate.decided)
  BY FreshIsFree DEF Turn
<1>n. NextSeq \in 1..MaxSeq /\ rep[NextSeq] = "none"
  BY NextSeqIsNew DEF Turn, LInv
<1>m. PICK n \in 0..MaxSeq : n = NextSeq /\ n # 0
  BY <1>n, Nothing
<1> DEFINE j == [NoJob EXCEPT !.kind = "turn", !.spawned = language, !.seq = n]
<1>1. j \in Jobs /\ j.kind = "turn" /\ j.seq = n /\ j.held = 0
  BY <1>t, Nothing DEF Jobs, NoJob
<1>2. job' = [job EXCEPT ![t] = j]
  BY <1>m DEF Turn
<1> HIDE DEF j
<1>3. job' \in [Tasks -> Jobs] /\ job'[t] = j /\ \A u \in Tasks \ {t} : job'[u] = job[u]
  BY <1>t, <1>1, <1>2
<1>4. /\ rep' \in Replies /\ rep'[NextSeq] = "pending"
      /\ \A s \in 1..MaxSeq : /\ rep'[s] = "pending" => s = NextSeq
                              /\ rep[s] # "none" => rep'[s] # "none"
  BY <1>t, <1>0, <1>n DEF Replies, Truncated, InFlight
<1>5. /\ gate' \in Gates
      /\ gate' = gate \/ (gate'.seq = NextSeq /\ gate'.task = t /\ ~gate'.decided)
  <2>1. CASE gate' = gate
    BY <1>t, <2>1
  <2>2. CASE gate' = Armed(NextSeq, t)
    <3>1. gate' = [seq |-> n, task |-> t, expired |-> FALSE, decided |-> FALSE]
      BY <1>m, <2>2 DEF Armed
    <3>2. QED
      BY <1>m, <3>1 DEF Gates
  <2>3. QED
    BY <1>0, <2>1, <2>2
<1>6. OnlyGateOf(t)
  BY <1>n, <1>4, <1>5, TasksAssumption DEF OnlyGateOf
<1>7. pc'[t] = "lock" => LocksOf(t)
  BY <1>0, <1>1, <1>3 DEF LocksOf, Critical, Switching
<1>8. pc'[t] = "lock" => GateOf(t)
  BY <1>f, <1>m, <1>1, <1>3, <1>4, <1>5 DEF GateOf
<1>9. "lock" \in Pcs
  BY DEF Pcs
<1>10. QED
  BY <1>t, <1>0, <1>f, <1>3, <1>6, <1>7, <1>8, <1>9, GoesBeside

\* lid_idle_watcher and the switch_language tool start a task.
LEMMA StartsKeep ==
    ASSUME LInv, NEW t \in Tasks, WatcherFires(t) \/ \E l \in Labels : ToolCall(t, l)
    PROVE  LInv'
<1> USE DEF pools, conns, audio
<1>t. /\ job \in [Tasks -> Jobs] /\ gate \in Gates /\ rep \in Replies /\ buf \subseteq Tags
      /\ tools \in Nat /\ language \in Labels
  BY DEF LInv, TypeOK, Jobs, Gates, Replies
<1>f. pc[t] = "free" /\ (gate.task = t => gate.decided)
  BY FreshIsFree DEF WatcherFires, ToolCall
<1>w. "lock" \in Pcs /\ "wait" \in Pcs
  BY DEF Pcs
<1>1. CASE WatcherFires(t)
  <2>0. /\ Judged /\ Go(t, "lock") /\ langQ' = Append(langQ, t)
        /\ UNCHANGED <<call, pools, conns, trQ, syQ, buf, lid, audio, hangup, heard, tools>>
    BY <1>1 DEF WatcherFires
  <2> DEFINE j == [NoJob EXCEPT !.kind = "idle", !.spawned = language]
  <2>1. j \in Jobs /\ j.kind = "idle" /\ j.seq = 0 /\ j.held = 0
    BY <1>t, Nothing DEF Jobs, NoJob
  <2>2. job' = [job EXCEPT ![t] = j]
    BY <1>1 DEF WatcherFires
  <2> HIDE DEF j
  <2>3. job' \in [Tasks -> Jobs] /\ job'[t] = j /\ \A u \in Tasks \ {t} : job'[u] = job[u]
    BY <1>t, <2>1, <2>2
  <2>4. OnlyGateOf(t)
    BY <1>t, <2>0 DEF OnlyGateOf
  <2>5. pc'[t] = "lock" => LocksOf(t) /\ GateOf(t)
    BY <1>f, <2>0, <2>1, <2>3 DEF LocksOf, GateOf, Critical, Switching
  <2>6. QED
    BY <1>t, <1>f, <1>w, <2>0, <2>3, <2>4, <2>5, GoesBeside
<1>2. CASE \E l \in Labels : ToolCall(t, l)
  <2>p. PICK l \in Labels : ToolCall(t, l)
    BY <1>2
  <2>0. /\ Go(t, "wait") /\ tools' = tools + 1 /\ call.flow # "judge"
        /\ UNCHANGED <<call, pools, conns, trQ, syQ, langQ, buf, lid, audio, hangup, heard>>
    BY <2>p DEF ToolCall
  <2> DEFINE j == [NoJob EXCEPT !.kind = "tool", !.spawned = language, !.target = l]
  <2>1. j \in Jobs /\ j.kind = "tool" /\ j.seq = 0 /\ j.held = 0
    BY <1>t, Nothing DEF Jobs, NoJob
  <2>2. job' = [job EXCEPT ![t] = j]
    BY <2>p DEF ToolCall
  <2> HIDE DEF j
  <2>3. job' \in [Tasks -> Jobs] /\ job'[t] = j /\ \A u \in Tasks \ {t} : job'[u] = job[u]
    BY <1>t, <2>1, <2>2
  <2>4. OnlyGateOf(t)
    BY <1>t, <2>0 DEF OnlyGateOf
  <2>5. pc'[t] = "wait" => LocksOf(t) /\ GateOf(t)
    BY <1>f, <2>0, <2>1, <2>3 DEF LocksOf, GateOf, Critical, Switching
  <2>6. QED
    BY <1>t, <1>f, <1>w, <2>0, <2>3, <2>4, <2>5, GoesBeside
<1>3. QED
  BY <1>1, <1>2

\* The tool has waited, and has the lock if there is a judge.
LEMMA ToolKeeps ==
    ASSUME LInv, NEW t \in Tasks, ToolReady(t) \/ ToolLocked(t)
    PROVE  LInv'
<1> USE DEF pools, conns, audio
<1>t. /\ job \in [Tasks -> Jobs] /\ gate \in Gates /\ rep \in Replies /\ buf \subseteq Tags
      /\ tools \in Nat
      /\ lid \in [lang : Labels \cup {Other}, count : 0..Debounce, cooling : BOOLEAN]
  BY DEF LInv, TypeOK, Jobs, Gates, Replies
<1>0. /\ pc[t] \in {"wait", "lock"} /\ job[t].kind = "tool" /\ (pc[t] = "lock" => Holds(langQ, t))
      /\ UNCHANGED <<call, pools, conns, syQ, buf, lid, audio, hangup, heard, tools>>
  BY DEF LInv, OneDecides, ToolReady, ToolLocked
<1>v. call.flow # "judge"
  BY <1>0 DEF LInv, LocksHeld
<1>g. /\ gate.task = t => gate.decided
      /\ \A s \in 1..MaxSeq : job[t].seq = s \/ job[t].held = s => rep[s] # "none"
  BY <1>0 DEF LInv, GateKept, GivenOut
<1>e. OnlyEnd /\ OnlyGateOf(t)
  BY <1>0, <1>t DEF OnlyEnd, OnlyGateOf
<1>1. CASE Go(t, "lock") /\ langQ' = Append(langQ, t) /\ UNCHANGED <<trQ, job>> /\ pc[t] = "wait"
  <2>1. pc'[t] = "lock" => LocksOf(t) /\ GateOf(t)
    BY <1>0, <1>1, <1>g, <1>v DEF LocksOf, GateOf, Critical, Switching
  <2>2. "lock" \in Pcs
    BY DEF Pcs
  <2>3. QED
    BY <1>0, <1>1, <1>t, <1>e, <2>1, <2>2, GoesBeside
<1>2. CASE Enter(t) /\ UNCHANGED <<langQ, job>> /\ (Judged => Holds(langQ, t))
  BY <1>0, <1>2, <1>t, <1>v, <1>e, <1>g, EntersBeside
<1>3. CASE Leave(t) /\ UNCHANGED trQ
  <2>1. Gone(t)
    BY <1>3, LeaveGone DEF LInv
  <2>2. QED
    BY <1>0, <1>3, <1>t, <1>e, <1>g, <2>1, GoneBeside
<1>4. QED
  BY <1>0, <1>1, <1>2, <1>3 DEF ToolReady, ToolLocked

\* The legacy heuristic counts a detection, or switches.
LEMMA LidSignalKeeps ==
    ASSUME LInv, NEW t \in Tasks, NEW l \in Labels, LidSignal(t, l)
    PROVE  LInv'
<1> USE DEF pools, conns, audio
<1>t. /\ job \in [Tasks -> Jobs] /\ gate \in Gates /\ rep \in Replies /\ language \in Labels
      /\ lid \in [lang : Labels \cup {Other}, count : 0..Debounce, cooling : BOOLEAN]
      /\ Debounce \in Nat \ {0}
  BY BoundsAssumption DEF LInv, TypeOK, Jobs, Gates, Replies
<1>f. pc[t] = "free" /\ (gate.task = t => gate.decided)
  BY FreshIsFree DEF LidSignal
<1>0. ~Judged /\ UNCHANGED <<call, pools, conns, syQ, langQ, buf, audio, hangup, heard, tools>>
  BY DEF LidSignal, Judged
<1>1. CASE UNCHANGED <<pc, job, trQ>>
  <2>1. lid' \in [lang : Labels \cup {Other}, count : 0..Debounce, cooling : BOOLEAN]
    <3>0. Debounce \in Nat /\ 0 \in 0..Debounce
      BY <1>t
    <3>1. lid.count + 1 \in Nat
      BY <1>t
    <3>2. \/ lid' = [lid EXCEPT !.lang = Other, !.count = 0]
          \/ \E n \in Nat : n < Debounce /\ lid' = [lid EXCEPT !.lang = l, !.count = n]
          \/ lid' = [lang |-> Other, count |-> 0, cooling |-> TRUE]
      BY <3>1 DEF LidSignal
    <3>3. CASE lid' = [lid EXCEPT !.lang = Other, !.count = 0]
      BY <1>t, <3>0, <3>3
    <3>4. CASE \E n \in Nat : n < Debounce /\ lid' = [lid EXCEPT !.lang = l, !.count = n]
      <4>1. PICK n \in 0..Debounce : lid' = [lid EXCEPT !.lang = l, !.count = n]
        <5>1. PICK n \in Nat : n < Debounce /\ lid' = [lid EXCEPT !.lang = l, !.count = n]
          BY <3>4
        <5>2. n \in 0..Debounce
          BY <3>0, <5>1
        <5>3. QED
          BY <5>1, <5>2
      <4>2. QED
        BY <1>t, <4>1
    <3>5. CASE lid' = [lang |-> Other, count |-> 0, cooling |-> TRUE]
      BY <1>t, <3>5
    <3>6. QED
      BY <3>2, <3>3, <3>4, <3>5
  <2>2. TypeOK'
    BY <1>0, <1>1, <2>1 DEF LInv, TypeOK
  <2>3. LocksHeld' /\ InLine' /\ PoolsAgree' /\ DeafIsNoticed'
    BY <1>0, <1>1 DEF LInv, LocksHeld, InLine, PoolsAgree, DeafIsNoticed, Holds
  <2>4. OneDecides' /\ GateKept' /\ GivenOut'
    BY <1>0, <1>1 DEF LInv, OneDecides, GateKept, GivenOut, Holds, Judged
  <2>5. QED
    BY <2>2, <2>3, <2>4 DEF LInv
<1>2. CASE ~UNCHANGED <<pc, job, trQ>>
  <2> DEFINE j == [NoJob EXCEPT !.kind = "lid", !.spawned = language, !.target = l]
  <2>1. j \in Jobs /\ j.kind = "lid" /\ j.seq = 0 /\ j.held = 0
    BY <1>t, Nothing DEF Jobs, NoJob
  <2>2. Enter(t) /\ job' = [job EXCEPT ![t] = j] /\ lid' = [lang |-> Other, count |-> 0, cooling |-> TRUE]
    BY <1>2 DEF LidSignal
  <2> HIDE DEF j
  <2>3. job' \in [Tasks -> Jobs] /\ job'[t] = j /\ \A u \in Tasks \ {t} : job'[u] = job[u]
    BY <1>t, <2>1, <2>2
  <2>4. OnlyEnd /\ lid' \in [lang : Labels \cup {Other}, count : 0..Debounce, cooling : BOOLEAN]
    BY <1>0, <1>t, <2>2 DEF OnlyEnd
  <2>5. QED
    BY <1>0, <1>f, <2>1, <2>2, <2>3, <2>4, EntersBeside DEF Judged
<1>3. QED
  BY <1>1, <1>2

-------------------------------------------------------------------------------
(* Connections, the listener, the output loop and the rest of the session.  *)

\* A step that no task takes.
LEMMA QuietKeeps ==
    ASSUME LInv, TypeOK', LocksHeld', DeafIsNoticed',
           UNCHANGED <<call, pools, syQ, langQ, pc, job, rep>>,
           gate'.seq = gate.seq, gate'.task = gate.task, gate'.decided = gate.decided
    PROVE  LInv'
<1> USE DEF LInv, pools
<1>1. InLine' /\ PoolsAgree'
  BY DEF InLine, PoolsAgree
<1>2. OneDecides'
  BY DEF OneDecides, Holds, Judged
<1>3. GateKept' /\ GivenOut'
  BY DEF GateKept, GivenOut
<1>4. QED
  BY <1>1, <1>2, <1>3

\* Timers, the detector, other tools and the hangup.
LEMMA TimersKeep ==
    ASSUME LInv, \/ CooldownOver \/ GateExpires \/ FunctionCall \/ Hangup
                 \/ \E l \in Tags : Hear(l)
    PROVE  LInv'
<1> USE DEF pools, conns, audio
<1>1. UNCHANGED <<call, pools, conns, trQ, syQ, langQ, pc, job, rep>>
  BY DEF CooldownOver, GateExpires, FunctionCall, Hangup, Hear
<1>2. LocksHeld' /\ DeafIsNoticed'
  BY <1>1 DEF LInv, LocksHeld, DeafIsNoticed, Holds
<1>3. CASE GateExpires
  <2>1. gate \in Gates
    BY DEF LInv, TypeOK, Gates
  <2>2. /\ gate' \in Gates /\ gate'.seq = gate.seq /\ gate'.task = gate.task
        /\ gate'.decided = gate.decided
    BY <1>3, <2>1 DEF GateExpires, Gates
  <2>3. TypeOK'
    BY <1>3, <2>2 DEF GateExpires, LInv, TypeOK, Gates
  <2>4. QED
    BY <1>1, <1>2, <2>2, <2>3, QuietKeeps
<1>4. CASE CooldownOver \/ FunctionCall \/ Hangup \/ \E l \in Tags : Hear(l)
  <2>1. TypeOK'
    <3>1. CASE CooldownOver
      BY <3>1 DEF CooldownOver, LInv, TypeOK
    <3>2. CASE FunctionCall \/ Hangup
      BY <3>2 DEF FunctionCall, Hangup, LInv, TypeOK
    <3>3. CASE \E l \in Tags : Hear(l)
      BY <3>3 DEF Hear, LInv, TypeOK
    <3>4. QED
      BY <1>4, <3>1, <3>2, <3>3
  <2>2. gate' = gate
    BY <1>4 DEF CooldownOver, FunctionCall, Hangup, Hear
  <2>3. QED
    BY <1>1, <1>2, <2>1, <2>2, QuietKeeps
<1>5. QED
  BY <1>3, <1>4

\* The end of the stream and dropped connections: a transcriber that goes down says so.
LEMMA ConnectionsKeep ==
    ASSUME LInv, Eos \/ \E l \in TrLabels : TranscriberEos(l) \/ Drop(l)
    PROVE  LInv'
<1> USE DEF pools, conns, audio
<1>t. notices \in Nat
  BY DEF LInv, TypeOK
<1>1. UNCHANGED <<call, pools, listener, reconnects, trQ, syQ, langQ, pc, job, gate, rep>>
  BY DEF Eos, TranscriberEos, Drop
<1>2. LocksHeld'
  BY <1>1 DEF LInv, LocksHeld, Holds
<1>3. TypeOK' /\ DeafIsNoticed'
  <2>1. CASE Eos
    BY <2>1 DEF Eos, LInv, TypeOK, DeafIsNoticed
  <2>2. CASE \E l \in TrLabels : TranscriberEos(l)
    BY <1>t, <2>2 DEF TranscriberEos, LInv, TypeOK, DeafIsNoticed
  <2>3. CASE \E l \in TrLabels : Drop(l)
    BY <1>t, <2>3 DEF Drop, LInv, TypeOK, DeafIsNoticed
  <2>4. QED
    BY <2>1, <2>2, <2>3
<1>4. QED
  BY <1>1, <1>2, <1>3, QuietKeeps

\* The listener reads a close message, waits for the lock, reconnects or stops.
LEMMA ListenerKeeps ==
    ASSUME LInv, ListenerStep
    PROVE  LInv'
<1> USE DEF pools, conns, audio
<1>t. /\ trQ \in Seq(Tasks \cup {Listener}) /\ notices \in Nat /\ drops \in Nat
      /\ reconnects \in 0..MaxReconnects /\ MaxReconnects \in Nat /\ trActive \in TrLabels
      /\ up \subseteq TrLabels
  BY BoundsAssumption DEF LInv, TypeOK
<1>1. UNCHANGED <<call, pools, syQ, langQ, pc, job, gate, rep, eosQ, callEnded, buf, lid, fcall,
                  hangup, heard, tools>>
  BY DEF ListenerStep, ListenerClosed, ListenerLocked, ListenerReconnected
<1>j. \A t \in Tasks : t # Listener
  BY TasksAssumption
<1>2. CASE ListenerClosed
  <2>1. listener = "run" /\ notices > 0 /\ notices' = notices - 1 /\ UNCHANGED <<up, reconnects, drops>>
    BY <1>2 DEF ListenerClosed
  <2>2. \/ trActive \in up /\ UNCHANGED <<listener, trQ>>
        \/ listener' = "done" /\ UNCHANGED trQ
        \/ listener' = "lock" /\ trQ' = Append(trQ, Listener)
    BY <1>2 DEF ListenerClosed
  <2>3. trQ' \in Seq(Tasks \cup {Listener}) /\ \A x : Holds(trQ, x) => Holds(trQ', x)
    BY <1>t, <2>2, Joins
  <2>4. notices' \in Nat /\ listener' \in {"run", "lock", "reconn", "done"}
    BY <1>t, <2>1, <2>2
  <2>5. TypeOK'
    BY <1>1, <2>1, <2>3, <2>4 DEF LInv, TypeOK
  <2>6. LocksHeld'
    BY <1>1, <2>1, <2>2, <2>3 DEF LInv, LocksHeld, Holds
  <2>7. DeafIsNoticed'
    BY <1>1, <2>1, <2>2 DEF DeafIsNoticed
  <2>8. QED
    BY <1>1, <2>5, <2>6, <2>7, QuietKeeps
<1>3. CASE ListenerLocked
  <2>1. listener = "lock" /\ Holds(trQ, Listener) /\ UNCHANGED <<up, notices, reconnects, drops>>
    BY <1>3 DEF ListenerLocked
  <2>2. \/ listener' = "done" /\ trQ' = Tail(trQ)
        \/ listener' = "reconn" /\ trQ' = trQ /\ ~(reconnects >= MaxReconnects)
    BY <1>3 DEF ListenerLocked
  <2>3. trQ' \in Seq(Tasks \cup {Listener}) /\ \A x : Holds(trQ, x) => x = Listener
    BY <1>t, <2>1, <2>2, Leaves
  <2>4. TypeOK'
    BY <1>1, <2>1, <2>2, <2>3 DEF LInv, TypeOK
  <2>5. \A t \in Tasks : pc[t] # "reconn"
    BY <1>j, <2>3 DEF LInv, LocksHeld
  <2>6. LocksHeld'
    BY <1>1, <1>t, <2>1, <2>2, <2>5 DEF LInv, LocksHeld, Holds
  <2>7. DeafIsNoticed'
    BY <2>2 DEF DeafIsNoticed
  <2>8. QED
    BY <1>1, <2>4, <2>6, <2>7, QuietKeeps
<1>4. CASE ListenerReconnected
  <2>1. listener = "reconn" /\ listener' = "run" /\ trQ' = Tail(trQ) /\ reconnects' = reconnects + 1
    BY <1>4 DEF ListenerReconnected
  <2>2. \/ up' = up \cup {trActive} /\ notices' = notices /\ drops' = drops
        \/ up' = up /\ notices' = notices + 1 /\ drops' = drops + 1
    BY <1>4 DEF ListenerReconnected
  <2>3. Holds(trQ, Listener) /\ reconnects < MaxReconnects
    BY <2>1 DEF LInv, LocksHeld
  <2>4. trQ' \in Seq(Tasks \cup {Listener}) /\ \A x : Holds(trQ, x) => x = Listener
    BY <1>t, <2>1, <2>3, Leaves
  <2>5. /\ reconnects' \in 0..MaxReconnects /\ notices' \in Nat /\ drops' \in Nat
        /\ up' \subseteq TrLabels
    BY <1>t, <2>1, <2>2, <2>3
  <2>6. TypeOK'
    BY <1>1, <2>1, <2>4, <2>5 DEF LInv, TypeOK
  <2>7. \A t \in Tasks : pc[t] # "reconn"
    BY <1>j, <2>4 DEF LInv, LocksHeld
  <2>8. LocksHeld'
    BY <1>1, <2>1, <2>7 DEF LInv, LocksHeld, Holds
  <2>9. DeafIsNoticed'
    BY <1>1, <1>t, <2>2 DEF DeafIsNoticed
  <2>10. QED
    BY <1>1, <2>6, <2>8, <2>9, QuietKeeps
<1>5. QED
  BY <1>2, <1>3, <1>4 DEF ListenerStep

\* The output loop sends a reply, and a reply ends.
LEMMA OutputKeeps ==
    ASSUME LInv, NEW s \in 1..MaxSeq, Play(s) \/ PlayedOut(s)
    PROVE  LInv'
<1> USE DEF pools, conns, audio
<1>t. gate \in Gates /\ rep \in Replies
  BY DEF LInv, TypeOK, Gates, Replies
<1>1. /\ UNCHANGED <<call, pools, conns, trQ, syQ, langQ, pc, job, buf, lid, fcall, hangup, heard, tools>>
      /\ rep[s] # "none" /\ \E v \in {"playing", "over"} : rep' = [rep EXCEPT ![s] = v]
      /\ gate' = gate \/ (gate' = NoGate /\ gate.seq = s)
  BY DEF Play, PlayedOut
<1>2. /\ rep' \in Replies /\ rep'[s] \notin {"none", "pending"}
      /\ \A r \in 1..MaxSeq \ {s} : rep'[r] = rep[r]
  BY <1>t, <1>1 DEF Replies
<1>3. gate' \in Gates
  BY <1>t, <1>1, Nothing
<1>4. TypeOK'
  BY <1>1, <1>2, <1>3 DEF LInv, TypeOK, Gates, Replies
<1>5. LocksHeld' /\ InLine' /\ PoolsAgree' /\ DeafIsNoticed'
  BY <1>1 DEF LInv, LocksHeld, InLine, PoolsAgree, DeafIsNoticed, Holds
<1>6. OneDecides'
  BY <1>1 DEF LInv, OneDecides, Holds, Judged
<1>7. GateKept'
  BY <1>1, <1>2, Nothing, TasksAssumption DEF LInv, GateKept
<1>8. GivenOut'
  BY <1>1, <1>2, Nothing DEF LInv, GivenOut
<1>9. QED
  BY <1>4, <1>5, <1>6, <1>7, <1>8 DEF LInv

-------------------------------------------------------------------------------
(* Which step it was.                                                       *)

\* Only a decision that has moved both pools goes on to speak.
LEMMA OnlyAppliedSpeaks ==
    ASSUME TypeOK, Next, NEW t \in Tasks, pc[t] # "speak", pc'[t] = "speak"
    PROVE  job[t].kind \in {"turn", "idle"}
<1>t. pc \in [Tasks -> Pcs]
  BY DEF TypeOK
<1>0. \A u \in Tasks : \A w : pc' = [pc EXCEPT ![u] = w] => u = t /\ w = "speak"
  BY <1>t
<1>1. ASSUME NEW u \in Tasks, TaskStep(u) \/ \E l \in TrLabels : Accept(u, l)
      PROVE  job[t].kind \in {"turn", "idle"}
  <2>1. CASE TrSwitch(u) \/ TrReconnected(u)
    BY <1>0, <2>1 DEF TrSwitch, TrReconnected, ToVoice, Return, Leave, Go
  <2>2. CASE SySwitch(u)
    BY <1>0, <2>2 DEF SySwitch, Applied, Voiceless, Return, Leave, Go
  <2>3. CASE SyCancelled(u)
    BY <1>0, <2>3 DEF SyCancelled, Applied, Return, Leave, Go
  <2>4. CASE BeginDecision(u) \/ Drain(u) \/ Stay(u)
    BY <1>0, <2>4 DEF BeginDecision, Drain, Stay, Return, Leave, Go
  <2>5. CASE Truncate(u) \/ GapOver(u)
    BY <1>0, <2>5 DEF Truncate, GapOver, Enter, Leave, Go
  <2>6. CASE Speak(u) \/ Follow(u)
    BY <1>0, <2>6 DEF Speak, Follow, Return, Leave, Go
  <2>7. CASE ToolReady(u) \/ ToolLocked(u)
    BY <1>0, <2>7 DEF ToolReady, ToolLocked, Enter, Leave, Go
  <2>8. CASE \E l \in TrLabels : Accept(u, l)
    <3>1. \E w \in {"cut", "cutAudible", "tr"} : Go(u, w)
      BY <2>8, Zenon DEF Accept, Enter
    <3>2. QED
      BY <1>0, <3>1 DEF Go
  <2>9. QED
    BY <1>1, <2>1, <2>2, <2>3, <2>4, <2>5, <2>6, <2>7, <2>8 DEF TaskStep
<1>2. ASSUME NEW u \in Tasks,
             Turn(u) \/ WatcherFires(u) \/ \E l \in Labels : ToolCall(u, l) \/ LidSignal(u, l)
      PROVE  job[t].kind \in {"turn", "idle"}
  <2>1. pc' = pc \/ \E w \in {"lock", "wait", "tr"} : Go(u, w)
    BY <1>2, Zenon DEF Turn, WatcherFires, ToolCall, LidSignal, Enter
  <2>2. QED
    BY <1>0, <2>1 DEF Go
<1>3. ASSUME \/ CooldownOver \/ Eos \/ \E l \in TrLabels : TranscriberEos(l) \/ Drop(l)
             \/ ListenerStep \/ \E s \in 1..MaxSeq : Play(s) \/ PlayedOut(s)
             \/ GateExpires \/ FunctionCall \/ Hangup \/ \E l \in Tags : Hear(l)
      PROVE  FALSE
  BY <1>3, Zenon DEF CooldownOver, Eos, TranscriberEos, Drop, ListenerStep, ListenerClosed,
     ListenerLocked, ListenerReconnected, Play, PlayedOut, GateExpires, FunctionCall, Hangup, Hear
<1>4. QED
  BY <1>1, <1>2, <1>3 DEF Next

\* Only the output loop plays a reply, and not while the gate holds it.
LEMMA OnlyPlayPlays ==
    ASSUME TypeOK, Next, NEW s \in 1..MaxSeq, rep[s] = "pending", rep'[s] = "playing"
    PROVE  ~GateHolds(s)
<1>t. rep \in Replies
  BY DEF TypeOK, Replies
<1>0. rep' # rep
  OBVIOUS
<1>1. ASSUME NEW u \in Tasks, TaskStep(u) \/ \E l \in TrLabels : Accept(u, l)
      PROVE  FALSE
  <2>1. CASE Truncate(u)
    BY <1>t, <2>1 DEF Truncate, Truncated, InFlight
  <2>2. CASE Follow(u)
    <3>1. rep' = rep \/ rep' = [rep EXCEPT ![NextSeq] = "pending"]
      BY <2>2 DEF Follow
    <3>2. QED
      BY <1>t, <3>1 DEF Replies
  <2>3. CASE TrSwitch(u) \/ TrReconnected(u) \/ SySwitch(u) \/ SyCancelled(u) \/ BeginDecision(u)
    BY <1>0, <2>3, Zenon DEF TrSwitch, TrReconnected, SySwitch, SyCancelled, BeginDecision, audio
  <2>4. CASE Drain(u) \/ Stay(u) \/ GapOver(u) \/ Speak(u) \/ ToolReady(u) \/ ToolLocked(u)
             \/ \E l \in TrLabels : Accept(u, l)
    BY <1>0, <2>4, Zenon DEF Drain, Stay, GapOver, Speak, ToolReady, ToolLocked, Accept, audio
  <2>5. QED
    BY <1>1, <2>1, <2>2, <2>3, <2>4 DEF TaskStep
<1>2. ASSUME NEW u \in Tasks,
             Turn(u) \/ WatcherFires(u) \/ \E l \in Labels : ToolCall(u, l) \/ LidSignal(u, l)
      PROVE  FALSE
  <2>1. CASE Turn(u)
    <3>1. rep' = [Truncated EXCEPT ![NextSeq] = "pending"]
      BY <2>1 DEF Turn
    <3>2. Truncated \in Replies /\ Truncated[s] = "over"
      BY <1>t DEF Truncated, InFlight, Replies
    <3>3. QED
      BY <3>1, <3>2 DEF Replies
  <2>2. CASE ~Turn(u)
    BY <1>0, <1>2, <2>2, Zenon DEF WatcherFires, ToolCall, LidSignal, audio
  <2>3. QED
    BY <2>1, <2>2
<1>3. ASSUME NEW r \in 1..MaxSeq, Play(r) \/ PlayedOut(r)
      PROVE  ~GateHolds(s)
  BY <1>3, <1>t DEF Play, PlayedOut, Replies
<1>4. ASSUME \/ CooldownOver \/ Eos \/ \E l \in TrLabels : TranscriberEos(l) \/ Drop(l)
             \/ ListenerStep \/ GateExpires \/ FunctionCall \/ Hangup \/ \E l \in Tags : Hear(l)
      PROVE  FALSE
  BY <1>0, <1>4, Zenon DEF CooldownOver, Eos, TranscriberEos, Drop, ListenerStep, ListenerClosed,
     ListenerLocked, ListenerReconnected, GateExpires, FunctionCall, Hangup, Hear, audio
<1>5. QED
  BY <1>1, <1>2, <1>3, <1>4 DEF Next

-------------------------------------------------------------------------------
(* The theorems.                                                            *)

\* Every step keeps the invariant.
LEMMA EveryStepKeeps == LInv /\ [Next]_vars => LInv'
<1> SUFFICES ASSUME LInv, [Next]_vars PROVE LInv'
  OBVIOUS
<1>1. CASE UNCHANGED vars
  <2>1. TypeOK' /\ LocksHeld' /\ DeafIsNoticed'
    BY <1>1 DEF vars, pools, conns, audio, LInv, TypeOK, LocksHeld, DeafIsNoticed, Holds
  <2>2. QED
    BY <1>1, <2>1, QuietKeeps DEF vars, pools, conns, audio
<1>2. CASE \E t \in Tasks : TaskStep(t) \/ \E l \in TrLabels : Accept(t, l)
  BY <1>2, TrSwitchKeeps, TrReconnectedKeeps, SySwitchKeeps, SyCancelledKeeps, DecisionKeeps,
     DrainKeeps, AcceptKeeps, TruncateKeeps, ToolKeeps, Zenon DEF TaskStep
<1>3. CASE \E t \in Tasks : Turn(t) \/ WatcherFires(t) \/ \E l \in Labels : ToolCall(t, l) \/ LidSignal(t, l)
  BY <1>3, TurnKeeps, StartsKeep, LidSignalKeeps, Zenon
<1>4. CASE \/ CooldownOver \/ Eos \/ \E l \in TrLabels : TranscriberEos(l) \/ Drop(l)
           \/ ListenerStep \/ \E s \in 1..MaxSeq : Play(s) \/ PlayedOut(s)
           \/ GateExpires \/ FunctionCall \/ Hangup \/ \E l \in Tags : Hear(l)
  BY <1>4, TimersKeep, ConnectionsKeep, ListenerKeeps, OutputKeeps, Zenon
<1>5. QED
  BY <1>1, <1>2, <1>3, <1>4 DEF Next

\* A call starts in one language, with nobody in line.
LEMMA StartsWell == Init => LInv
<1> SUFFICES ASSUME Init PROVE LInv
  OBVIOUS
<1>1. /\ call \in Scenarios /\ language = Start /\ trActive = Start /\ syActive = Start
      /\ up = TrLabels /\ eosQ = {} /\ callEnded = FALSE /\ notices = 0 /\ reconnects = 0
      /\ listener = "run" /\ drops = 0 /\ trQ = <<>> /\ syQ = <<>> /\ langQ = <<>>
      /\ pc = [t \in Tasks |-> "free"] /\ job = [t \in Tasks |-> NoJob] /\ buf = {} /\ heard = 0
      /\ tools = 0 /\ lid = [lang |-> Other, count |-> 0, cooling |-> FALSE] /\ gate = NoGate
      /\ rep = [s \in 1..MaxSeq |-> "none"] /\ fcall = FALSE /\ hangup = FALSE
  BY DEF Init
<1>2. /\ Start \in TrLabels /\ Start \in SyLabels /\ Start \in Labels
      /\ MaxReconnects \in Nat /\ Debounce \in Nat
  BY LabelsAssumption, BoundsAssumption DEF Labels
<1>3. pc \in [Tasks -> Pcs] /\ job \in [Tasks -> Jobs] /\ gate \in Gates
  BY <1>1, Nothing
<1>4. /\ lid \in [lang : Labels \cup {Other}, count : 0..Debounce, cooling : BOOLEAN]
      /\ trQ \in Seq(Tasks \cup {Listener}) /\ syQ \in Seq(Tasks) /\ langQ \in Seq(Tasks)
      /\ reconnects \in 0..MaxReconnects
  BY <1>1, <1>2
<1>5. TypeOK
  BY <1>1, <1>2, <1>3, <1>4 DEF TypeOK, Jobs, Gates
<1>6. LocksHeld /\ InLine /\ PoolsAgree /\ DeafIsNoticed
  BY <1>1, <1>2 DEF LocksHeld, InLine, PoolsAgree, DeafIsNoticed, Switching
<1>7. OneDecides
  BY <1>1 DEF OneDecides, NoJob, Critical
<1>8. GateKept
  BY <1>1, Nothing, TasksAssumption DEF GateKept
<1>9. GivenOut
  BY <1>1, Nothing DEF GivenOut, NoJob
<1>10. QED
  BY <1>5, <1>6, <1>7, <1>8, <1>9 DEF LInv

\* The inductive invariant of language switching.
THEOREM SwitchInvariant == Spec => []LInv
<1>1. Init => LInv
  BY StartsWell
<1>2. LInv /\ [Next]_vars => LInv'
  BY EveryStepKeeps
<1>3. QED
  BY <1>1, <1>2, PTL DEF Spec

\* Pools, locks, tasks, gate and replies keep their types.
THEOREM SwitchTypeCorrect == Spec => []TypeOK
<1>1. LInv => TypeOK
  BY DEF LInv
<1>2. QED
  BY <1>1, SwitchInvariant, PTL

\* Whenever no task is between the two pools, voice and session are on one language, and the
\* recognizer too unless it was sent to a language without a voice, which the judge never does,
\* however many switches run at once (switch_language, SynthesizerPool.switch and the two locks).
THEOREM PoolsAgreeHolds == Spec => []PoolsAgree
<1>1. LInv => PoolsAgree
  BY DEF LInv
<1>2. QED
  BY <1>1, SwitchInvariant, PTL

\* While the listener runs and the active transcriber is down, a close message is still
\* to be read (switch(), reconnect_active).
THEOREM DeafIsNoticedHolds == Spec => []DeafIsNoticed
<1>1. LInv => DeafIsNoticed
  BY DEF LInv
<1>2. QED
  BY <1>1, SwitchInvariant, PTL

\* A decision of the judge moves the session only if nothing else has moved it since its
\* turn was captured (the stale-decision guard and language_switch_lock).
THEOREM AppliedOnOwnEvidenceHolds == Spec => AppliedOnOwnEvidence
<1> DEFINE A == \A t \in Tasks :
                  (pc[t] \in {"sy", "cancel"} /\ pc'[t] = "speak") => job[t].spawned = language
<1>1. ASSUME LInv, [Next]_vars PROVE [A]_vars
  <2> SUFFICES ASSUME Next, NEW t \in Tasks, pc[t] \in {"sy", "cancel"}, pc'[t] = "speak"
               PROVE  job[t].spawned = language
    BY <1>1
  <2>1. job[t].kind \in {"turn", "idle"}
    BY <1>1, OnlyAppliedSpeaks DEF LInv
  <2>2. QED
    BY <1>1, <2>1 DEF LInv, OneDecides, Critical
<1>2. QED
  BY <1>1, SwitchInvariant, PTL DEF Spec, AppliedOnOwnEvidence

\* A reply that was held when the switch was decided against it is played before its
\* truncation only if the hold expired or the call ends (lid_playback_gate_holds).
THEOREM HeldUntilInvalidHolds == Spec => HeldUntilInvalid
<1> DEFINE A == \A t \in Tasks, s \in 1..MaxSeq :
                  (pc[t] \in {"cut", "cutAudible"} /\ job[t].held = s
                     /\ rep[s] = "pending" /\ rep'[s] = "playing")
                  => gate.expired \/ hangup
<1>1. ASSUME LInv, [Next]_vars PROVE [A]_vars
  <2> SUFFICES ASSUME Next, NEW t \in Tasks, NEW s \in 1..MaxSeq, pc[t] \in {"cut", "cutAudible"},
                      job[t].held = s, rep[s] = "pending", rep'[s] = "playing"
               PROVE  gate.expired \/ hangup
    BY <1>1
  <2>1. gate.seq = s /\ ~gate.decided
    BY <1>1 DEF LInv, GateKept
  <2>2. ~GateHolds(s)
    BY <1>1, OnlyPlayPlays DEF LInv
  <2>3. QED
    BY <2>1, <2>2 DEF GateHolds
<1>2. QED
  BY <1>1, SwitchInvariant, PTL DEF Spec, HeldUntilInvalid
=============================================================================
