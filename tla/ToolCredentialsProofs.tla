------------------------ MODULE ToolCredentialsProofs ------------------------
(***************************************************************************)
(* The credentials of a provider, proved for any users, rows and requests   *)
(* that meet: types, the fresh retry, what brings a suspended row back, and *)
(* the order of policy and rows.                                            *)
(***************************************************************************)
EXTENDS ToolCredentials, FiniteSetTheorems, TLAPS

-------------------------------------------------------------------------------
(* The inductive invariant.                                                 *)

\* Every secret in a row, or in a row as some request read it, was issued.
Issued ==
    /\ \A i \in Ids : rows[i].ver <= minted
    /\ \A r \in Requests, i \in Ids : seen[r][i].ver <= minted

\* A request that works on a row has picked one.
Picked ==
    \A r \in Requests :
      /\ r.op \in Exec /\ pc[r] \in {"load", "write", "call", "invalidate"} => pick[r] \in Ids
      /\ r.op = "refresh" /\ pc[r] \in {"exchange", "save"} => pick[r] \in Ids
      /\ r.op = "revoke" /\ pc[r] = "delete" => pick[r] \in Ids

\* An execution makes two attempts at most.
Attempts ==
    \A r \in Requests : r.op \in Exec =>
      /\ pc[r] = "start" => tries[r] = 0
      /\ pc[r] = "call" => tries[r] <= 1

\* A retry in calm has the secret of the row in hand.
InHand ==
    \A r \in Requests :
      r.op \in Exec /\ tries[r] = 1 /\ pc[r] \in {"write", "call"} /\ r \in calm
        => ver[r] = rows[pick[r]].ver

\* A policy change in calm has still to suspend every row it bars.
StillToSuspend ==
    \A r \in Requests, i \in Ids :
      r.op = "policy" /\ r.want = "enforce_shared" /\ pc[r] = "suspend" /\ r \in calm /\ Barred(i)
        => i \in todo[r]

KInv == TypeOK /\ Issued /\ Picked /\ Attempts /\ InHand /\ StillToSuspend

-------------------------------------------------------------------------------
(* Pieces of a step.                                                        *)

Pcs == {"start", "register", "handshake", "exchange", "lookup", "save", "sync", "delete", "suspend",
        "link", "load", "write", "call", "invalidate", "done"}

\* A request moves, and nobody else.
LEMMA GoesMoves ==
    ASSUME TypeOK, NEW r \in Requests, NEW w \in Pcs, Goes(r, w)
    PROVE  pc' \in [Requests -> Pcs] /\ pc'[r] = w /\ \A q \in Requests \ {r} : pc'[q] = pc[q]
BY DEF TypeOK, Goes, Pcs

\* insert writes one row and ends the calm of everybody else.
LEMMA StoreWrites ==
    ASSUME TypeOK, NEW r \in Requests, NEW i \in Ids, NEW row \in Row, Store(r, i, row)
    PROVE  /\ rows' \in [Ids -> Row] /\ rows'[i] = row /\ \A j \in Ids \ {i} : rows'[j] = rows[j]
           /\ calm' \subseteq reqs /\ \A q \in Requests : q \in calm' => q = r /\ r \in calm
BY DEF TypeOK, Store

\* A request that neither executes nor changes the policy goes on, on a row it has
\* picked if it needs one.
LEMMA MoveKeeps ==
    ASSUME KInv, NEW r \in Requests, NEW w \in Pcs, Goes(r, w), r.op \notin Exec,
           r.op = "policy" => w # "suspend",
           r.op = "refresh" /\ w \in {"exchange", "save"} => pick'[r] \in Ids,
           r.op = "revoke" /\ w = "delete" => pick'[r] \in Ids,
           pick' \in [Requests -> Ids \cup {NoId}], \A q \in Requests \ {r} : pick'[q] = pick[q],
           seen' = seen \/ (seen' \in [Requests -> [Ids -> Row]] /\ seen'[r] = rows
                            /\ \A q \in Requests \ {r} : seen'[q] = seen[q]),
           policy' \in {"user_choice", "enforce_shared"}, ref' \in Ids \cup {NoId},
           UNCHANGED <<reqs, rows, minted, cache, todo, ver, tries, calm>>
    PROVE  KInv'
<1> USE DEF KInv
<1>1. pc' \in [Requests -> Pcs] /\ pc'[r] = w /\ \A q \in Requests \ {r} : pc'[q] = pc[q]
  BY GoesMoves
<1>2. TypeOK'
  BY <1>1 DEF TypeOK, Pcs
<1>3. Issued'
  BY DEF Issued
<1>4. Picked' /\ Attempts'
  BY <1>1 DEF Picked, Attempts, Exec
<1>5. InHand'
  BY <1>1 DEF InHand
<1>6. StillToSuspend'
  BY <1>1 DEF StillToSuspend, Barred, Live
<1>7. QED
  BY <1>2, <1>3, <1>4, <1>5, <1>6

\* A request that neither executes nor changes the policy writes a row.
LEMMA WriteKeeps ==
    ASSUME KInv, NEW r \in Requests, NEW w \in Pcs, Goes(r, w), r.op \notin Exec, r.op # "policy",
           w \notin {"exchange", "save", "delete"},
           NEW i \in Ids, NEW row \in Row, Store(r, i, row), row.ver <= minted',
           minted' \in {minted, minted + 1}, UNCHANGED <<reqs, policy, ref, cache, local>>
    PROVE  KInv'
<1> USE DEF KInv, local
<1>1. pc' \in [Requests -> Pcs] /\ pc'[r] = w /\ \A q \in Requests \ {r} : pc'[q] = pc[q]
  BY GoesMoves
<1>2. /\ rows' \in [Ids -> Row] /\ rows'[i] = row /\ \A j \in Ids \ {i} : rows'[j] = rows[j]
      /\ calm' \subseteq reqs /\ \A q \in Requests : q \in calm' => q = r /\ r \in calm
  BY StoreWrites
<1>m. minted \in Nat /\ minted' \in Nat /\ minted <= minted'
  BY DEF TypeOK
<1>c. cache \in [Ids -> 0..minted] /\ ver \in [Requests -> 0..minted]
  BY DEF TypeOK
<1>3. cache' \in [Ids -> 0..minted'] /\ ver' \in [Requests -> 0..minted']
  BY <1>c, <1>m
<1>4. TypeOK'
  BY <1>1, <1>2, <1>3, <1>m DEF TypeOK, Pcs
<1>5. Issued'
  <2>1. \A j \in Ids : rows[j].ver \in Nat /\ \A q \in Requests : seen[q][j].ver \in Nat
    BY DEF TypeOK, Row
  <2>2. row.ver \in Nat
    BY DEF Row
  <2>3. QED
    BY <1>2, <1>m, <2>1, <2>2 DEF Issued
<1>6. Picked' /\ Attempts'
  BY <1>1 DEF Picked, Attempts, Exec
<1>7. InHand'
  BY <1>2 DEF InHand
<1>8. StillToSuspend'
  BY <1>2 DEF StillToSuspend
<1>9. QED
  BY <1>4, <1>5, <1>6, <1>7, <1>8

-------------------------------------------------------------------------------
(* The steps of a request.                                                  *)

\* Steps that change nothing but where the request is.
LEMMA WaitsKeep ==
    ASSUME KInv, NEW r \in Requests,
           \/ ConnectStarts(r) \/ Registers(r) \/ LoginStarts(r) \/ Callback(r) \/ Exchanged(r)
           \/ PolicyCrashes(r) \/ Links(r)
    PROVE  KInv'
<1> USE DEF store, local
<1>t. pick \in [Requests -> Ids \cup {NoId}] /\ policy \in {"user_choice", "enforce_shared"}
      /\ ref \in Ids \cup {NoId}
  BY DEF KInv, TypeOK
<1>1. CASE ConnectStarts(r)
  <2>1. PICK w \in {"done", "register", "lookup"} : Goes(r, w)
    BY <1>1 DEF ConnectStarts
  <2>2. r.op \in {"connect", "dcr"}
    BY <1>1 DEF ConnectStarts, At
  <2>3. w \in Pcs /\ w \notin {"exchange", "save", "delete", "suspend"}
    BY DEF Pcs
  <2>4. QED
    BY <1>1, <1>t, <2>1, <2>2, <2>3, MoveKeeps DEF ConnectStarts, Exec
<1>2. CASE Registers(r)
  <2>1. PICK w \in {"done", "lookup"} : Goes(r, w)
    BY <1>2 DEF Registers
  <2>2. r.op = "dcr"
    BY <1>2 DEF Registers, At
  <2>3. w \in Pcs /\ w \notin {"exchange", "save", "delete", "suspend"}
    BY DEF Pcs
  <2>4. QED
    BY <1>2, <1>t, <2>1, <2>2, <2>3, MoveKeeps DEF Registers, Exec
<1>3. CASE LoginStarts(r)
  <2>1. Goes(r, "handshake") /\ r.op = "login" /\ "handshake" \in Pcs
    BY <1>3 DEF LoginStarts, At, Pcs
  <2>2. QED
    BY <1>3, <1>t, <2>1, MoveKeeps DEF LoginStarts, Exec
<1>4. CASE Callback(r)
  <2>1. PICK w \in {"done", "exchange"} : Goes(r, w)
    BY <1>4 DEF Callback
  <2>2. r.op = "login"
    BY <1>4 DEF Callback, At
  <2>3. w \in Pcs
    BY DEF Pcs
  <2>4. QED
    BY <1>4, <1>t, <2>1, <2>2, <2>3, MoveKeeps DEF Callback, Exec
<1>5. CASE Exchanged(r)
  <2>1. PICK w \in {"done", "save", "lookup"} : Goes(r, w)
    BY <1>5 DEF Exchanged
  <2>2. r.op \in {"login", "refresh"} /\ (r.op = "refresh" => pick[r] \in Ids)
    BY <1>5 DEF Exchanged, At, KInv, Picked
  <2>3. w \in Pcs /\ w \notin {"delete", "suspend"}
    BY DEF Pcs
  <2>4. QED
    BY <1>5, <1>t, <2>1, <2>2, <2>3, MoveKeeps DEF Exchanged, Exec
<1>6. CASE PolicyCrashes(r)
  <2>1. Goes(r, "done") /\ r.op = "policy" /\ "done" \in Pcs
    BY <1>6 DEF PolicyCrashes, At, Pcs
  <2>2. QED
    BY <1>6, <1>t, <2>1, MoveKeeps DEF PolicyCrashes, Exec
<1>7. CASE Links(r)
  <2>1. Goes(r, "done") /\ r.op = "link" /\ "done" \in Pcs
    BY <1>7 DEF Links, At, Pcs
  <2>2. QED
    BY <1>7, <1>t, <2>1, MoveKeeps DEF Links, Exec
<1>8. QED
  BY <1>1, <1>2, <1>3, <1>4, <1>5, <1>6, <1>7

\* Steps that pick a row, sync the tools or save the policy.
LEMMA PicksKeep ==
    ASSUME KInv, NEW r \in Requests,
           \/ LooksUp(r) \/ Syncs(r) \/ RefreshReads(r) \/ RevokeReads(r) \/ PolicySaved(r)
           \/ Resolves(r)
    PROVE  KInv'
<1> USE DEF store, local
<1>t. pick \in [Requests -> Ids \cup {NoId}] /\ policy \in {"user_choice", "enforce_shared"}
      /\ ref \in Ids \cup {NoId} /\ seen \in [Requests -> [Ids -> Row]] /\ rows \in [Ids -> Row]
  BY DEF KInv, TypeOK
<1>p. \A i \in Ids \cup {NoId} : pick' = [pick EXCEPT ![r] = i]
        => /\ pick' \in [Requests -> Ids \cup {NoId}] /\ pick'[r] = i
           /\ \A q \in Requests \ {r} : pick'[q] = pick[q]
  BY <1>t
<1>1. CASE LooksUp(r)
  <2>1. Goes(r, "save") /\ r.op \in {"connect", "dcr", "login"} /\ "save" \in Pcs
    BY <1>1 DEF LooksUp, At, Pcs
  <2>2. PICK i \in Ids \cup {NoId} : pick' = [pick EXCEPT ![r] = i]
    BY <1>1 DEF LooksUp
  <2>3. UNCHANGED <<reqs, rows, policy, ref, minted, cache, seen, todo, ver, tries, calm>>
    BY <1>1 DEF LooksUp
  <2>4. QED
    BY <1>t, <1>p, <2>1, <2>2, <2>3, MoveKeeps DEF Exec
<1>2. CASE Syncs(r)
  <2>1. Goes(r, "done") /\ r.op = "login" /\ "done" \in Pcs
    BY <1>2 DEF Syncs, At, Pcs
  <2>2. ref' \in Ids \cup {NoId}
    BY <1>2, <1>t DEF Syncs
  <2>3. UNCHANGED <<reqs, rows, policy, minted, cache, pick, seen, todo, ver, tries, calm>>
    BY <1>2 DEF Syncs
  <2>4. QED
    BY <1>t, <2>1, <2>2, <2>3, MoveKeeps DEF Exec
<1>3. CASE RefreshReads(r)
  <2>1. r.op = "refresh" /\ UNCHANGED <<reqs, rows, policy, ref, minted, cache, todo, ver, tries, calm>>
    BY <1>3 DEF RefreshReads, At
  <2>2. PICK i \in Ids : \/ /\ Goes(r, "exchange") /\ pick' = [pick EXCEPT ![r] = i]
                            /\ seen' = [seen EXCEPT ![r] = rows]
                         \/ Goes(r, "done") /\ UNCHANGED <<pick, seen>>
    BY <1>3 DEF RefreshReads
  <2>3. CASE Goes(r, "exchange") /\ pick' = [pick EXCEPT ![r] = i] /\ seen' = [seen EXCEPT ![r] = rows]
    <3>1. /\ seen' \in [Requests -> [Ids -> Row]] /\ seen'[r] = rows
          /\ \A q \in Requests \ {r} : seen'[q] = seen[q]
      BY <2>3, <1>t
    <3>2. "exchange" \in Pcs
      BY DEF Pcs
    <3>3. /\ pick' \in [Requests -> Ids \cup {NoId}] /\ pick'[r] \in Ids
          /\ \A q \in Requests \ {r} : pick'[q] = pick[q]
      BY <2>3, <1>p
    <3>4. QED
      BY <1>t, <2>1, <2>3, <3>1, <3>2, <3>3, MoveKeeps DEF Exec
  <2>4. CASE Goes(r, "done") /\ UNCHANGED <<pick, seen>>
    <3>1. "done" \in Pcs
      BY DEF Pcs
    <3>2. QED
      BY <1>t, <2>1, <2>4, <3>1, MoveKeeps DEF Exec
  <2>5. QED
    BY <2>2, <2>3, <2>4
<1>4. CASE RevokeReads(r)
  <2>1. r.op = "revoke" /\ UNCHANGED <<reqs, rows, policy, ref, minted, cache, seen, todo, ver, tries, calm>>
    BY <1>4 DEF RevokeReads, At
  <2>2. PICK i \in Ids : \/ Goes(r, "delete") /\ pick' = [pick EXCEPT ![r] = i]
                         \/ Goes(r, "done") /\ UNCHANGED pick
    BY <1>4 DEF RevokeReads
  <2>3. "delete" \in Pcs /\ "done" \in Pcs
    BY DEF Pcs
  <2>4. CASE Goes(r, "delete") /\ pick' = [pick EXCEPT ![r] = i]
    BY <1>t, <1>p, <2>1, <2>3, <2>4, MoveKeeps DEF Exec
  <2>5. CASE Goes(r, "done") /\ UNCHANGED pick
    BY <1>t, <2>1, <2>3, <2>5, MoveKeeps DEF Exec
  <2>6. QED
    BY <2>2, <2>4, <2>5
<1>5. CASE PolicySaved(r)
  <2>1. Goes(r, "done") /\ r.op = "policy" /\ "done" \in Pcs /\ policy' = r.want
    BY <1>5 DEF PolicySaved, At, Pcs
  <2>2. policy' \in {"user_choice", "enforce_shared"}
    BY <2>1, RequestsAssumption
  <2>3. UNCHANGED <<reqs, rows, ref, minted, cache, pick, seen, todo, ver, tries, calm>>
    BY <1>5 DEF PolicySaved
  <2>4. QED
    BY <1>t, <2>1, <2>2, <2>3, MoveKeeps DEF Exec
<1>6. CASE Resolves(r)
  <2>1. r.op = "link" /\ UNCHANGED <<reqs, rows, policy, ref, minted, cache, seen, todo, ver, tries, calm>>
    BY <1>6 DEF Resolves, At
  <2>2. \/ Goes(r, "done") /\ UNCHANGED pick
        \/ Goes(r, "link") /\ \E i \in Ids : pick' = [pick EXCEPT ![r] = i]
    BY <1>6 DEF Resolves, Resolvable
  <2>3. "link" \in Pcs /\ "done" \in Pcs
    BY DEF Pcs
  <2>4. CASE Goes(r, "done") /\ UNCHANGED pick
    BY <1>t, <2>1, <2>3, <2>4, MoveKeeps DEF Exec
  <2>5. CASE Goes(r, "link") /\ \E i \in Ids : pick' = [pick EXCEPT ![r] = i]
    BY <1>t, <1>p, <2>1, <2>3, <2>5, MoveKeeps DEF Exec
  <2>6. QED
    BY <2>2, <2>4, <2>5
<1>7. QED
  BY <1>1, <1>2, <1>3, <1>4, <1>5, <1>6

\* A row with another secret is a row.
LEMMA NewSecret ==
    ASSUME NEW row \in Row, NEW v \in Nat
    PROVE  [row EXCEPT !.ver = v] \in Row /\ [row EXCEPT !.ver = v].ver = v
BY DEF Row

\* A row that is replaced, refreshed or revoked.
LEMMA WritesKeep ==
    ASSUME KInv, NEW r \in Requests, Saves(r) \/ RefreshSaves(r) \/ RevokeDeletes(r)
    PROVE  KInv'
<1>t. /\ minted \in Nat /\ rows \in [Ids -> Row] /\ seen \in [Requests -> [Ids -> Row]]
      /\ pick \in [Requests -> Ids \cup {NoId}] /\ policy \in {"user_choice", "enforce_shared"}
      /\ ref \in Ids \cup {NoId}
  BY DEF KInv, TypeOK
<1>1. CASE Saves(r)
  <2>1. r.op \in {"connect", "dcr", "login"} /\ minted' = minted + 1
        /\ UNCHANGED <<reqs, policy, ref, cache, local>>
    BY <1>1 DEF Saves, At
  <2>2. PICK w \in {"sync", "done"} : Goes(r, w)
    BY <1>1 DEF Saves
  <2>3. w \in Pcs /\ w \notin {"exchange", "save", "delete"}
    BY DEF Pcs
  <2> DEFINE row == [live |-> TRUE, binding |-> r.want, user |-> Owner(r), ver |-> minted + 1,
                     status |-> IF r.op = "dcr" THEN "pending" ELSE "active"]
  <2>4. PICK i \in Ids : Store(r, i, row)
    BY <1>1 DEF Saves
  <2>5. row \in Row /\ row.ver = minted + 1
    <3>1. r.want \in {"shared", "private"} /\ r.user \in Users
      BY <2>1, RequestsAssumption
    <3>2. Owner(r) \in Users \cup {Nobody}
      BY <3>1 DEF Owner
    <3>3. QED
      BY <1>t, <3>1, <3>2 DEF Row, Status
  <2> HIDE DEF row
  <2>6. row.ver <= minted'
    BY <1>t, <2>1, <2>5
  <2>7. QED
    BY <2>1, <2>2, <2>3, <2>4, <2>5, <2>6, WriteKeeps DEF Exec
<1>2. CASE RefreshSaves(r)
  <2>1. r.op = "refresh" /\ pc[r] = "save" /\ minted' = minted + 1 /\ Goes(r, "done")
        /\ UNCHANGED <<reqs, policy, ref, cache, local>>
    BY <1>2 DEF RefreshSaves, At
  <2>2. pick[r] \in Ids
    BY <2>1 DEF KInv, Picked
  <2> DEFINE row == [seen[r][pick[r]] EXCEPT !.ver = minted + 1]
  <2>3. Store(r, pick[r], row)
    BY <1>2 DEF RefreshSaves
  <2>4. row \in Row /\ row.ver = minted + 1
    <3>1. seen[r][pick[r]] \in Row /\ minted + 1 \in Nat
      BY <1>t, <2>2
    <3>2. QED
      BY <3>1, NewSecret
  <2> HIDE DEF row
  <2>5. row.ver <= minted' /\ "done" \in Pcs
    BY <1>t, <2>1, <2>4 DEF Pcs
  <2>6. QED
    BY <2>1, <2>2, <2>3, <2>4, <2>5, WriteKeeps DEF Exec
<1>3. CASE RevokeDeletes(r)
  <2>1. r.op = "revoke" /\ pc[r] = "delete" /\ Goes(r, "done") /\ "done" \in Pcs
        /\ UNCHANGED <<reqs, policy, ref, minted, cache, local>>
    BY <1>3 DEF RevokeDeletes, At, Pcs
  <2>2. pick[r] \in Ids
    BY <2>1 DEF KInv, Picked
  <2>3. CASE Live(pick[r])
    <3> DEFINE row == [rows[pick[r]] EXCEPT !.live = FALSE]
    <3>1. Store(r, pick[r], row)
      BY <1>3, <2>3 DEF RevokeDeletes
    <3>2. row \in Row /\ row.ver = rows[pick[r]].ver
      <4>1. rows[pick[r]] \in Row
        BY <1>t, <2>2
      <4>2. QED
        BY <4>1 DEF Row
    <3> HIDE DEF row
    <3>3. row.ver <= minted'
      BY <2>1, <2>2, <3>2 DEF KInv, Issued
    <3>4. QED
      BY <2>1, <2>2, <3>1, <3>2, <3>3, WriteKeeps DEF Exec
  <2>4. CASE ~Live(pick[r])
    <3>1. UNCHANGED <<rows, calm>>
      BY <1>3, <2>4 DEF RevokeDeletes
    <3>2. QED
      BY <1>t, <2>1, <3>1, MoveKeeps DEF Exec, local
  <2>5. QED
    BY <2>3, <2>4
<1>4. QED
  BY <1>1, <1>2, <1>3

\* set_policy lists the rows it has to suspend.
LEMMA PolicyListsKeeps ==
    ASSUME KInv, NEW r \in reqs, PolicyLists(r)
    PROVE  KInv'
<1> USE DEF KInv, store
<1>r. r \in Requests /\ r.op = "policy"
  BY DEF TypeOK, PolicyLists, At
<1>1. pc' \in [Requests -> Pcs] /\ pc'[r] = "suspend" /\ \A q \in Requests \ {r} : pc'[q] = pc[q]
  BY <1>r, GoesMoves DEF PolicyLists, Pcs
<1>2. /\ seen' \in [Requests -> [Ids -> Row]] /\ seen'[r] = rows
      /\ \A q \in Requests \ {r} : seen'[q] = seen[q]
  BY <1>r DEF PolicyLists, TypeOK
<1>3. /\ todo' \in [Requests -> SUBSET Ids]
      /\ todo'[r] = IF r.want = "enforce_shared" THEN {i \in Ids : Barred(i)} ELSE {}
      /\ \A q \in Requests \ {r} : todo'[q] = todo[q]
  BY <1>r DEF PolicyLists, TypeOK
<1>4. calm' = calm \cup {r} /\ UNCHANGED <<reqs, rows, policy, ref, minted, cache, pick, ver, tries>>
  BY DEF PolicyLists
<1>5. TypeOK'
  BY <1>1, <1>2, <1>3, <1>4 DEF TypeOK, Pcs
<1>6. Issued'
  BY <1>2, <1>4 DEF Issued
<1>7. Picked' /\ Attempts'
  BY <1>r, <1>1, <1>4 DEF Picked, Attempts, Exec
<1>8. InHand'
  BY <1>r, <1>1, <1>4 DEF InHand, Exec
<1>9. StillToSuspend'
  <2>1. \A i \in Ids : Barred(i)' = Barred(i)
    BY <1>4 DEF Barred, Live
  <2>2. QED
    BY <1>r, <1>1, <1>3, <1>4, <2>1 DEF StillToSuspend
<1>10. QED
  BY <1>5, <1>6, <1>7, <1>8, <1>9

\* set_policy suspends one of them.
LEMMA SuspendsKeeps ==
    ASSUME KInv, NEW r \in reqs, Suspends(r)
    PROVE  KInv'
<1> USE DEF KInv
<1>r. r \in Requests /\ r.op = "policy"
  BY DEF TypeOK, Suspends, At
<1>t. /\ minted \in Nat /\ rows \in [Ids -> Row] /\ seen \in [Requests -> [Ids -> Row]]
      /\ todo \in [Requests -> SUBSET Ids]
  BY DEF TypeOK
<1>1. PICK i \in todo[r] : /\ Store(r, i, [seen[r][i] EXCEPT !.status = "suspended"])
                           /\ todo' = [todo EXCEPT ![r] = @ \ {i}]
  BY DEF Suspends
<1>2. UNCHANGED <<reqs, policy, ref, minted, cache, pc, pick, seen, ver, tries>>
  BY DEF Suspends
<1>i. i \in Ids /\ seen[r][i] \in Row
  BY <1>r, <1>t
<1> DEFINE row == [seen[r][i] EXCEPT !.status = "suspended"]
<1>3. row \in Row /\ row.status = "suspended" /\ row.ver = seen[r][i].ver
  BY <1>i DEF Row, Status
<1>s. Store(r, i, row)
  BY <1>1
<1> HIDE DEF row
<1>4. /\ rows' \in [Ids -> Row] /\ rows'[i] = row /\ \A j \in Ids \ {i} : rows'[j] = rows[j]
      /\ calm' \subseteq reqs /\ \A q \in Requests : q \in calm' => q = r /\ r \in calm
  BY <1>r, <1>i, <1>3, <1>s, StoreWrites
<1>5. /\ todo' \in [Requests -> SUBSET Ids] /\ todo'[r] = todo[r] \ {i}
      /\ \A q \in Requests \ {r} : todo'[q] = todo[q]
  BY <1>r, <1>t, <1>1
<1>6. TypeOK'
  BY <1>2, <1>4, <1>5 DEF TypeOK
<1>7. Issued'
  BY <1>r, <1>i, <1>2, <1>3, <1>4 DEF Issued
<1>8. Picked' /\ Attempts'
  BY <1>2 DEF Picked, Attempts
<1>9. InHand'
  BY <1>r, <1>4 DEF InHand, Exec
<1>10. StillToSuspend'
  <2> SUFFICES ASSUME NEW q \in Requests, NEW j \in Ids, q.op = "policy",
                      q.want = "enforce_shared", pc'[q] = "suspend", q \in calm', Barred(j)'
               PROVE  j \in todo'[q]
    BY DEF StillToSuspend
  <2>1. q = r /\ r \in calm
    BY <1>4
  <2>2. j # i
    BY <1>3, <1>4 DEF Barred
  <2>3. Barred(j)
    BY <1>4, <2>2 DEF Barred, Live
  <2>4. j \in todo[r]
    BY <1>2, <2>1, <2>3 DEF StillToSuspend
  <2>5. QED
    BY <1>5, <2>1, <2>2, <2>4
<1>11. QED
  BY <1>6, <1>7, <1>8, <1>9, <1>10

\* A step of an execution that leaves the rows, and what the others do, alone.
LEMMA ExecutionKeeps ==
    ASSUME KInv, NEW r \in reqs, NEW w \in Pcs, Goes(r, w), r.op \in Exec, w # "start",
           cache' \in [Ids -> 0..minted], calm' \subseteq calm \cup {r}, calm \subseteq calm',
           pick' \in [Requests -> Ids \cup {NoId}], pick'[r] \in Ids,
           \A q \in Requests \ {r} : pick'[q] = pick[q],
           ver' \in [Requests -> 0..minted], \A q \in Requests \ {r} : ver'[q] = ver[q],
           tries' \in [Requests -> 0..2], \A q \in Requests \ {r} : tries'[q] = tries[q],
           w = "call" => tries'[r] <= 1,
           tries'[r] = 1 /\ w \in {"write", "call"} /\ r \in calm' => ver'[r] = rows[pick'[r]].ver,
           UNCHANGED <<reqs, store, seen, todo>>
    PROVE  KInv'
<1> USE DEF KInv, store
<1>r. r \in Requests
  BY DEF TypeOK
<1>1. pc' \in [Requests -> Pcs] /\ pc'[r] = w /\ \A q \in Requests \ {r} : pc'[q] = pc[q]
  BY <1>r, GoesMoves
<1>2. TypeOK'
  BY <1>1 DEF TypeOK, Pcs
<1>3. Issued'
  BY DEF Issued
<1>4. Picked'
  BY <1>1 DEF Picked, Exec
<1>5. Attempts'
  BY <1>1 DEF Attempts
<1>6. InHand'
  <2> SUFFICES ASSUME NEW q \in Requests, q.op \in Exec, tries'[q] = 1, pc'[q] \in {"write", "call"},
                      q \in calm'
               PROVE  ver'[q] = rows[pick'[q]].ver
    BY DEF InHand
  <2>1. CASE q = r
    BY <1>1, <2>1
  <2>2. CASE q # r
    BY <1>1, <2>2 DEF InHand
  <2>3. QED
    BY <2>1, <2>2
<1>7. StillToSuspend'
  <2>1. \A i \in Ids : Barred(i)' = Barred(i)
    BY DEF Barred, Live
  <2>2. QED
    BY <1>1, <2>1 DEF StillToSuspend, Exec
<1>8. QED
  BY <1>2, <1>3, <1>4, <1>5, <1>6, <1>7

\* resolve_auth: the cache, or the store and then the cache.
LEMMA ResolvesKeep ==
    ASSUME KInv, NEW r \in reqs, ReadsCache(r) \/ Loads(r) \/ Writes(r)
    PROVE  KInv'
<1> USE DEF store, local
<1>t. /\ r \in Requests /\ minted \in Nat /\ rows \in [Ids -> Row] /\ cache \in [Ids -> 0..minted]
      /\ pick \in [Requests -> Ids \cup {NoId}] /\ ver \in [Requests -> 0..minted]
      /\ tries \in [Requests -> 0..2] /\ ref \in Ids \cup {NoId}
  BY DEF KInv, TypeOK
<1>1. CASE ReadsCache(r)
  <2>1. /\ r.op \in Exec /\ pc[r] = "start" /\ ref \in Ids /\ pick' = [pick EXCEPT ![r] = ref]
        /\ UNCHANGED <<reqs, store, cache, seen, todo, tries, calm>>
    BY <1>1, <1>t DEF ReadsCache, At
  <2>2. PICK w \in {"call", "load"} :
          Goes(r, w) /\ (ver' = [ver EXCEPT ![r] = cache[ref]] \/ ver' = ver)
    BY <1>1 DEF ReadsCache
  <2>3. w \in Pcs /\ w # "start"
    BY DEF Pcs
  <2>4. tries[r] = 0
    BY <1>t, <2>1 DEF KInv, Attempts
  <2>5. /\ pick' \in [Requests -> Ids \cup {NoId}] /\ pick'[r] \in Ids
        /\ \A q \in Requests \ {r} : pick'[q] = pick[q]
    BY <1>t, <2>1
  <2>6. ver' \in [Requests -> 0..minted] /\ \A q \in Requests \ {r} : ver'[q] = ver[q]
    BY <1>t, <2>1, <2>2
  <2>7. QED
    BY <1>t, <2>1, <2>2, <2>3, <2>4, <2>5, <2>6, ExecutionKeeps
<1>2. CASE Loads(r)
  <2>1. /\ r.op \in Exec /\ pc[r] = "load"
        /\ UNCHANGED <<reqs, store, cache, pick, seen, todo, tries, calm>>
    BY <1>2 DEF Loads, LoadsStored, At
  <2>2. pick[r] \in Ids
    BY <1>t, <2>1 DEF KInv, Picked
  <2>3. rows[pick[r]].ver \in 0..minted
    <3>1. rows[pick[r]].ver \in Nat
      BY <1>t, <2>2 DEF Row
    <3>2. rows[pick[r]].ver <= minted
      BY <2>2 DEF KInv, Issued
    <3>3. QED
      BY <1>t, <3>1, <3>2
  <2>4. \/ Goes(r, "write") /\ ver' = [ver EXCEPT ![r] = rows[pick[r]].ver]
        \/ Goes(r, "done") /\ ver' = ver
    BY <1>2 DEF Loads, LoadsStored
  <2>5. "write" \in Pcs /\ "done" \in Pcs
    BY DEF Pcs
  <2>6. CASE Goes(r, "write") /\ ver' = [ver EXCEPT ![r] = rows[pick[r]].ver]
    <3>1. /\ ver' \in [Requests -> 0..minted] /\ ver'[r] = rows[pick[r]].ver
          /\ \A q \in Requests \ {r} : ver'[q] = ver[q]
      BY <1>t, <2>3, <2>6
    <3>2. QED
      BY <1>t, <2>1, <2>2, <2>5, <2>6, <3>1, ExecutionKeeps
  <2>7. CASE Goes(r, "done") /\ ver' = ver
    BY <1>t, <2>1, <2>2, <2>5, <2>7, ExecutionKeeps
  <2>8. QED
    BY <2>4, <2>6, <2>7
<1>3. CASE Writes(r)
  <2>1. r.op \in Exec /\ pc[r] = "write" /\ UNCHANGED <<reqs, store, local, calm>>
    BY <1>3 DEF Writes, At
  <2>2. pick[r] \in Ids
    BY <1>t, <2>1 DEF KInv, Picked
  <2>3. cache' \in [Ids -> 0..minted]
    BY <1>3, <1>t, <2>2 DEF Writes
  <2>4. PICK w \in {"call", "done"} : Goes(r, w) /\ (w = "call" => tries[r] < 2)
    BY <1>3 DEF Writes
  <2>5. w \in Pcs /\ w # "start" /\ w # "write"
    BY DEF Pcs
  <2>6. w = "call" => tries[r] <= 1
    BY <1>t, <2>4
  <2>7. tries[r] = 1 /\ r \in calm => ver[r] = rows[pick[r]].ver
    BY <1>t, <2>1 DEF KInv, InHand
  <2>8. QED
    BY <1>t, <2>1, <2>2, <2>3, <2>4, <2>5, <2>6, <2>7, ExecutionKeeps
<1>4. QED
  BY <1>1, <1>2, <1>3

\* The call upstream, and the retry it may ask for.
LEMMA CallsKeep ==
    ASSUME KInv, NEW r \in reqs, Calls(r) \/ Invalidates(r)
    PROVE  KInv'
<1> USE DEF store, local
<1>t. /\ r \in Requests /\ minted \in Nat /\ rows \in [Ids -> Row] /\ cache \in [Ids -> 0..minted]
      /\ pick \in [Requests -> Ids \cup {NoId}] /\ ver \in [Requests -> 0..minted]
      /\ tries \in [Requests -> 0..2]
  BY DEF KInv, TypeOK
<1>1. CASE Calls(r)
  <2>1. /\ r.op \in Exec /\ pc[r] = "call" /\ tries' = [tries EXCEPT ![r] = @ + 1]
        /\ UNCHANGED <<reqs, store, cache, pick, seen, todo, ver>>
    BY <1>1 DEF Calls, At
  <2>2. pick[r] \in Ids /\ tries[r] <= 1
    BY <1>t, <2>1 DEF KInv, Picked, Attempts
  <2>3. tries' \in [Requests -> 0..2] /\ \A q \in Requests \ {r} : tries'[q] = tries[q]
    BY <1>t, <2>1, <2>2
  <2>4. PICK w \in {"done", "invalidate"} : Goes(r, w) /\ (calm' = calm \/ calm' = calm \cup {r})
    BY <1>1 DEF Calls
  <2>5. w \in Pcs /\ w \notin {"start", "write", "call"}
    BY DEF Pcs
  <2>6. QED
    BY <1>t, <2>1, <2>2, <2>3, <2>4, <2>5, ExecutionKeeps
<1>2. CASE Invalidates(r)
  <2>1. /\ r.op \in Exec /\ pc[r] = "invalidate" /\ Goes(r, "load") /\ "load" \in Pcs
        /\ UNCHANGED <<reqs, store, local, calm>>
    BY <1>2 DEF Invalidates, At, Pcs
  <2>2. pick[r] \in Ids
    BY <1>t, <2>1 DEF KInv, Picked
  <2>3. cache' \in [Ids -> 0..minted]
    BY <1>2, <1>t, <2>2 DEF Invalidates
  <2>4. QED
    BY <1>t, <2>1, <2>2, <2>3, ExecutionKeeps
<1>3. QED
  BY <1>1, <1>2

\* An execution that is over starts again with nothing in hand.
LEMMA RepeatsKeeps ==
    ASSUME KInv, NEW r \in reqs, Repeats(r)
    PROVE  KInv'
<1> USE DEF KInv, store
<1>1. /\ r \in Requests /\ r.op \in Exec /\ Goes(r, "start") /\ "start" \in Pcs
      /\ UNCHANGED <<reqs, store, cache, seen, todo>> /\ calm' = calm \ {r}
  BY DEF TypeOK, Repeats, At, Pcs
<1>2. pc' \in [Requests -> Pcs] /\ pc'[r] = "start" /\ \A q \in Requests \ {r} : pc'[q] = pc[q]
  BY <1>1, GoesMoves
<1>3. /\ pick' \in [Requests -> Ids \cup {NoId}] /\ \A q \in Requests \ {r} : pick'[q] = pick[q]
      /\ ver' \in [Requests -> 0..minted] /\ \A q \in Requests \ {r} : ver'[q] = ver[q]
      /\ tries' \in [Requests -> 0..2] /\ tries'[r] = 0
      /\ \A q \in Requests \ {r} : tries'[q] = tries[q]
  BY <1>1 DEF Repeats, TypeOK
<1>4. TypeOK'
  BY <1>1, <1>2, <1>3 DEF TypeOK, Pcs
<1>5. Issued' /\ Picked'
  BY <1>1, <1>2, <1>3 DEF Issued, Picked, Exec
<1>6. Attempts' /\ InHand'
  BY <1>1, <1>2, <1>3 DEF Attempts, InHand
<1>7. StillToSuspend'
  BY <1>1, <1>2 DEF StillToSuspend, Barred, Live
<1>8. QED
  BY <1>4, <1>5, <1>6, <1>7

\* A cached entry ages out.
LEMMA ExpiresKeeps ==
    ASSUME KInv, NEW i \in Ids, Expires(i)
    PROVE  KInv'
<1> USE DEF KInv, store, local
<1>1. cache' \in [Ids -> 0..minted] /\ UNCHANGED <<reqs, store, pc, local, calm>>
  BY DEF Expires, TypeOK
<1>2. TypeOK'
  BY <1>1 DEF TypeOK
<1>3. Issued' /\ Picked' /\ Attempts' /\ InHand'
  BY <1>1 DEF Issued, Picked, Attempts, InHand
<1>4. StillToSuspend'
  BY <1>1 DEF StillToSuspend, Barred, Live
<1>5. QED
  BY <1>2, <1>3, <1>4

\* Requests find rows whose secrets were issued, and nobody has looked yet.
LEMMA StartsWell == Init => KInv
<1> SUFFICES ASSUME Init PROVE KInv
  OBVIOUS
<1>1. PICK s \in Scenarios : reqs = s.reqs /\ rows = s.rows
  BY DEF Init
<1>2. /\ reqs \subseteq Requests /\ rows \in [Ids -> Row]
      /\ \A i \in Ids : rows[i].ver <= Cardinality(Ids)
  BY <1>1, ScenariosAssumption
<1>3. minted = Cardinality(Ids) /\ minted \in Nat
  BY ScenariosAssumption, FS_CardinalityType DEF Init
<1>4. /\ policy = "user_choice" /\ cache = [i \in Ids |-> 0]
      /\ pc = [r \in Requests |-> "start"] /\ pick = [r \in Requests |-> NoId]
      /\ seen = [r \in Requests |-> rows] /\ todo = [r \in Requests |-> {}]
      /\ ver = [r \in Requests |-> 0] /\ tries = [r \in Requests |-> 0] /\ calm = {}
  BY DEF Init
<1>5. ref \in Ids \cup {NoId}
  BY DEF Init
<1>6. TypeOK
  BY <1>2, <1>3, <1>4, <1>5 DEF TypeOK
<1>7. Issued /\ Picked /\ Attempts /\ InHand /\ StillToSuspend
  BY <1>2, <1>3, <1>4 DEF Issued, Picked, Attempts, InHand, StillToSuspend
<1>8. QED
  BY <1>6, <1>7 DEF KInv

\* Every step keeps the invariant.
LEMMA EveryStepKeeps == KInv /\ [Next]_vars => KInv'
<1> SUFFICES ASSUME KInv, [Next]_vars PROVE KInv'
  OBVIOUS
<1>1. CASE UNCHANGED vars
  BY <1>1 DEF vars, store, local, KInv, TypeOK, Issued, Picked, Attempts, InHand, StillToSuspend,
              Barred, Live
<1>2. CASE \E r \in reqs : Step(r)
  <2>1. PICK r \in reqs : Step(r)
    BY <1>2
  <2>2. r \in Requests
    BY DEF KInv, TypeOK
  <2>3. QED
    BY <2>1, <2>2, WaitsKeep, PicksKeep, WritesKeep, PolicyListsKeeps, SuspendsKeeps, ResolvesKeep,
       CallsKeep, Zenon DEF Step
<1>3. CASE \E i \in Ids : Expires(i)
  BY <1>3, ExpiresKeeps
<1>4. CASE \E r \in reqs : Repeats(r)
  BY <1>4, RepeatsKeeps
<1>5. QED
  BY <1>1, <1>2, <1>3, <1>4 DEF Next

-------------------------------------------------------------------------------
(* The theorems.                                                            *)

\* The inductive invariant of the credential store and the executor.
THEOREM CredentialInvariant == Spec => []KInv
<1>1. Init => KInv
  BY StartsWell
<1>2. KInv /\ [Next]_vars => KInv'
  BY EveryStepKeeps
<1>3. QED
  BY <1>1, <1>2, PTL DEF Spec

\* The state of the store, the cache and every request keeps its type.
THEOREM CredentialsTypeCorrect == Spec => []TypeOK
<1>1. KInv => TypeOK
  BY DEF KInv
<1>2. QED
  BY <1>1, CredentialInvariant, PTL

\* Only the call upstream counts an attempt.
LEMMA OnlyCallsCount ==
    ASSUME KInv, NEW q \in reqs, Step(q), NEW r \in reqs, tries'[r] # tries[r]
    PROVE  Calls(q) /\ q = r
<1> USE DEF store, local
<1>1. Calls(q)
  <2>1. SUFFICES ASSUME ~Calls(q) PROVE tries' = tries
    BY <2>1
  <2>2. QED
    BY <2>1, Zenon DEF Step, ConnectStarts, Registers, LoginStarts, Callback, Exchanged, LooksUp, Saves,
          Syncs, RefreshReads, RefreshSaves, RevokeReads, RevokeDeletes, PolicyLists, Suspends,
          PolicySaved, PolicyCrashes, Resolves, Links, ReadsCache, Loads, LoadsStored, Writes, Invalidates
<1>2. q \in Requests /\ r \in Requests /\ tries \in [Requests -> 0..2]
  BY DEF KInv, TypeOK
<1>3. QED
  BY <1>1, <1>2 DEF Calls

\* Only set_policy's last step changes the policy.
LEMMA OnlyPolicySaves ==
    ASSUME NEW q \in reqs, Step(q), policy' # policy
    PROVE  PolicySaved(q)
BY Zenon DEF store, Step, ConnectStarts, Registers, LoginStarts, Callback, Exchanged, LooksUp, Saves,
      Syncs, RefreshReads, RefreshSaves, RevokeReads, RevokeDeletes, PolicyLists, Suspends,
      PolicyCrashes, Resolves, Links, ReadsCache, Loads, LoadsStored, Writes, Calls, Invalidates

\* Rows are written by a connect or a login, a refresh, a revocation or a suspension.
LEMMA OnlyWritersWrite ==
    ASSUME NEW q \in reqs, Step(q), rows' # rows
    PROVE  Saves(q) \/ RefreshSaves(q) \/ RevokeDeletes(q) \/ Suspends(q)
BY Zenon DEF store, Step, ConnectStarts, Registers, LoginStarts, Callback, Exchanged, LooksUp,
      Syncs, RefreshReads, RevokeReads, PolicyLists, PolicySaved,
      PolicyCrashes, Resolves, Links, ReadsCache, Loads, LoadsStored, Writes, Calls, Invalidates

\* The one retry after a refused secret carries the secret that the store
\* holds, unless the row was rewritten after the refusal (_call_with_auth_retry).
THEOREM RetryIsFreshHolds == Spec => RetryIsFresh
<1> DEFINE A == \A r \in reqs : (tries[r] = 1 /\ tries'[r] = 2 /\ r \in calm)
                  => ver[r] = rows[pick[r]].ver
<1>1. ASSUME KInv, [Next]_vars PROVE [A]_vars
  <2> SUFFICES ASSUME Next, NEW r \in reqs, tries[r] = 1, tries'[r] = 2, r \in calm
               PROVE  ver[r] = rows[pick[r]].ver
    BY <1>1
  <2>0. \A q \in reqs : ~Repeats(q)
    BY <1>1 DEF Repeats, KInv, TypeOK
  <2>1. PICK q \in reqs : Step(q)
    BY <2>0 DEF Next, Expires, local
  <2>2. Calls(r)
    BY <1>1, <2>1, OnlyCallsCount
  <2>3. r \in Requests /\ r.op \in Exec /\ pc[r] = "call"
    BY <1>1, <2>2 DEF Calls, At, KInv, TypeOK
  <2>4. QED
    BY <1>1, <2>3 DEF KInv, InHand
<1>2. QED
  BY <1>1, CredentialInvariant, PTL DEF Spec, RetryIsFresh

\* A row that is suspended, pending or revoked becomes active by a connect or a
\* login, or else by a refresh that read it while it was active and so is older
\* than the suspension; nothing else restores one (set_policy, refresh_credential).
THEOREM RestoredByReconnectOrStaleRefreshHolds == Spec => RestoredByReconnectOrStaleRefresh
<1> DEFINE Restored(i) == rows[i].ver # 0 /\ ~(Live(i) /\ rows[i].status = "active")
                          /\ rows'[i].live /\ rows'[i].status = "active"
           ByReconnect == \E r \in reqs :
                            /\ pc[r] = "save" /\ pc'[r] # "save"
                            /\ \/ r.op \in {"connect", "login"}
                               \/ r.op = "refresh" /\ seen[r][pick[r]].status = "active"
           A == \A i \in Ids : Restored(i) => ByReconnect
<1>1. ASSUME KInv, [Next]_vars PROVE [A]_vars
  <2> SUFFICES ASSUME Next, NEW i \in Ids, Restored(i)
               PROVE  ByReconnect
    BY <1>1
  <2>0. rows' # rows
    BY DEF Live
  <2>1. PICK q \in reqs : Step(q)
    BY <2>0 DEF Next, Repeats, Expires, store
  <2>2. Saves(q) \/ RefreshSaves(q) \/ RevokeDeletes(q) \/ Suspends(q)
    BY <2>0, <2>1, OnlyWritersWrite
  <2>t. q \in Requests /\ pc \in [Requests -> Pcs] /\ rows \in [Ids -> Row]
        /\ seen \in [Requests -> [Ids -> Row]] /\ todo \in [Requests -> SUBSET Ids]
    BY <1>1 DEF KInv, TypeOK, Pcs
  <2>3. \A j \in Ids : \A row : Store(q, j, row) => j = i /\ rows'[i] = row
    BY <2>t DEF Store, Live
  <2>4. CASE Saves(q)
    <3>1. pc[q] = "save" /\ q.op \in {"connect", "dcr", "login"} /\ pc'[q] # "save"
      BY <2>4, <2>t DEF Saves, At, Goes
    <3>2. q.op # "dcr"
      <4>1. SUFFICES ASSUME q.op = "dcr" PROVE FALSE
        OBVIOUS
      <4>2. PICK j \in Ids : Store(q, j, [live |-> TRUE, binding |-> q.want, user |-> Owner(q),
                                          ver |-> minted + 1, status |-> "pending"])
        BY <2>4, <4>1 DEF Saves
      <4>3. rows'[i].status = "pending"
        BY <2>3, <4>2
      <4>4. QED
        BY <4>3
    <3>3. QED
      BY <3>1, <3>2
  <2>5. CASE RefreshSaves(q)
    <3>1. pc[q] = "save" /\ q.op = "refresh" /\ pc'[q] = "done"
      BY <2>5, <2>t DEF RefreshSaves, At, Goes
    <3>2. pick[q] \in Ids
      BY <1>1, <2>t, <3>1 DEF KInv, Picked
    <3>3. rows'[i] = [seen[q][pick[q]] EXCEPT !.ver = minted + 1]
      BY <2>3, <2>5, <3>2 DEF RefreshSaves
    <3>4. seen[q][pick[q]] \in Row
      BY <2>t, <3>2
    <3>5. rows'[i].status = seen[q][pick[q]].status
      BY <3>3, <3>4 DEF Row
    <3>6. QED
      BY <3>1, <3>5
  <2>6. CASE RevokeDeletes(q)
    <3>1. pc[q] = "delete" /\ q.op = "revoke"
      BY <2>6 DEF RevokeDeletes, At
    <3>2. pick[q] \in Ids
      BY <1>1, <2>t, <3>1 DEF KInv, Picked
    <3>3. rows'[i] = [rows[pick[q]] EXCEPT !.live = FALSE]
      BY <2>0, <2>3, <2>6, <3>2 DEF RevokeDeletes
    <3>4. rows[pick[q]] \in Row
      BY <2>t, <3>2
    <3>5. ~rows'[i].live
      BY <3>3, <3>4 DEF Row
    <3>6. QED
      BY <3>5
  <2>7. CASE Suspends(q)
    <3>1. PICK j \in todo[q] : Store(q, j, [seen[q][j] EXCEPT !.status = "suspended"])
      BY <2>7 DEF Suspends
    <3>2. j \in Ids /\ seen[q][j] \in Row
      BY <2>t
    <3>3. rows'[i] = [seen[q][j] EXCEPT !.status = "suspended"]
      BY <2>3, <3>1, <3>2
    <3>4. rows'[i].status = "suspended"
      BY <3>2, <3>3 DEF Row
    <3>5. QED
      BY <3>4
  <2>8. QED
    BY <2>2, <2>4, <2>5, <2>6, <2>7
<1>2. QED
  BY <1>1, CredentialInvariant, PTL DEF Spec, RestoredByReconnectOrStaleRefresh

\* When enforce_shared takes effect no private row is active, unless another
\* request wrote one since the rows were listed (set_policy).
THEOREM PolicyNotAheadOfRowsHolds == Spec => PolicyNotAheadOfRows
<1> DEFINE A == \A r \in reqs :
                  (policy # "enforce_shared" /\ policy' = "enforce_shared" /\ pc[r] # pc'[r]
                     /\ r \in calm)
                  => \A i \in Ids : ~Barred(i)
<1>1. ASSUME KInv, [Next]_vars PROVE [A]_vars
  <2> SUFFICES ASSUME Next, NEW r \in reqs, policy # "enforce_shared", policy' = "enforce_shared",
                      pc[r] # pc'[r], r \in calm, NEW i \in Ids, Barred(i)
               PROVE  FALSE
    BY <1>1
  <2>1. PICK q \in reqs : Step(q)
    BY DEF Next, Repeats, Expires, store
  <2>2. PolicySaved(q)
    BY <2>1, OnlyPolicySaves
  <2>3. r \in Requests /\ q \in Requests /\ pc \in [Requests -> Pcs]
    BY <1>1 DEF KInv, TypeOK, Pcs
  <2>4. r = q
    BY <2>2, <2>3 DEF PolicySaved, Goes
  <2>5. r.op = "policy" /\ r.want = "enforce_shared" /\ pc[r] = "suspend" /\ todo[r] = {}
    BY <2>2, <2>4 DEF PolicySaved, At
  <2>6. QED
    BY <1>1, <2>3, <2>5 DEF KInv, StillToSuspend
<1>2. QED
  BY <1>1, CredentialInvariant, PTL DEF Spec, PolicyNotAheadOfRows
===============================================================================
