-------------------------- MODULE ToolCredentials --------------------------
(***************************************************************************)
(* The credentials of one tool provider in one organisation                *)
(* (modules/tools): connecting, OAuth login and refresh, dynamic client    *)
(* registration, revocation, the org policy that bars private credentials, *)
(* links, and the executor that turns a tool's auth_ref into headers       *)
(* through a cache.                                                        *)
(*                                                                         *)
(* Requests run concurrently; a request is suspended at every access to    *)
(* the store, to the cache and to another server, and `pc` says at which.  *)
(* A stored row is replaced as a whole (MotorRepository.insert), so what a *)
(* request read before it writes is part of the state.                     *)
(***************************************************************************)
EXTENDS Naturals, FiniteSets

CONSTANTS Users,      \* members of the organisation
          Nobody,     \* the owner of a shared row
          Ids,        \* storage ids
          Requests,   \* requests: what they do (op), for whom (user) and what they want
          Scenarios   \* sets of requests that meet, with the rows they find

Ops == {"connect", "dcr", "login", "refresh", "revoke", "policy", "link", "http", "mcp"}
Status == {"active", "pending", "suspended"}
Row == [live : BOOLEAN, binding : {"shared", "private"}, user : Users \cup {Nobody},
        status : Status, ver : Nat]

ASSUME RequestsAssumption ==
  /\ Requests \subseteq [op : Ops, user : Users, want : {"shared", "private", "enforce_shared",
                                                         "user_choice", "any"}]
  /\ \A r \in Requests :
       /\ r.op \in {"connect", "dcr", "login"} => r.want \in {"shared", "private"}
       /\ r.op = "policy" => r.want \in {"enforce_shared", "user_choice"}
\* The secrets of the rows a scenario starts with are among the first that
\* were issued, one per id.
ASSUME ScenariosAssumption ==
  /\ IsFiniteSet(Ids)
  /\ Scenarios \subseteq [reqs : SUBSET Requests, rows : [Ids -> Row]]
  /\ \A s \in Scenarios, i \in Ids : s.rows[i].ver <= Cardinality(Ids)
ASSUME NobodyAssumption == Nobody \notin Users

NoId == "none"
ASSUME IdsAssumption == NoId \notin Ids

VARIABLES
  reqs,     \* the requests of this scenario
  rows,     \* partner_credentials; a row that was never written has ver = 0
  policy,   \* binding_policy of the org
  cache,    \* cached headers, as the version of the secret they carry; 0 for none
  ref,      \* auth_ref of the provider's tools, NoId before a sync
  minted,   \* secrets issued so far
  pc,       \* where each request is suspended
  pick,     \* the row it works on
  seen,     \* the rows as it read them
  todo,     \* rows a policy change has still to suspend
  ver,      \* the secret an execution has in hand
  tries,    \* its attempts
  calm      \* requests since whose last look no other request wrote a row

store == <<rows, policy, ref, minted>>
local == <<pick, seen, todo, ver, tries>>
vars == <<reqs, store, cache, pc, local, calm>>

TypeOK ==
  /\ reqs \subseteq Requests /\ rows \in [Ids -> Row]
  /\ policy \in {"user_choice", "enforce_shared"}
  /\ cache \in [Ids -> 0..minted] /\ ref \in Ids \cup {NoId} /\ minted \in Nat
  /\ pc \in [Requests -> {"start", "register", "handshake", "exchange", "lookup", "save", "sync",
                          "delete", "suspend", "link", "load", "write", "call", "invalidate",
                          "done"}]
  /\ pick \in [Requests -> Ids \cup {NoId}] /\ seen \in [Requests -> [Ids -> Row]]
  /\ todo \in [Requests -> SUBSET Ids] /\ ver \in [Requests -> 0..minted]
  /\ tries \in [Requests -> 0..2] /\ calm \subseteq reqs

Init ==
  /\ \E s \in Scenarios : reqs = s.reqs /\ rows = s.rows
  /\ policy = "user_choice" /\ cache = [i \in Ids |-> 0]
  /\ ref \in IF \E i \in Ids : rows[i].live THEN {i \in Ids : rows[i].live} ELSE {NoId}
  /\ minted = Cardinality(Ids)
  /\ pc = [r \in Requests |-> "start"] /\ pick = [r \in Requests |-> NoId]
  /\ seen = [r \in Requests |-> rows] /\ todo = [r \in Requests |-> {}]
  /\ ver = [r \in Requests |-> 0] /\ tries = [r \in Requests |-> 0] /\ calm = {}

------------------------------------------------------------------------------

At(r, op, where) == r.op \in op /\ pc[r] = where
Goes(r, where) == pc' = [pc EXCEPT ![r] = where]

Live(i) == rows[i].live
Owner(r) == IF r.want = "private" THEN r.user ELSE Nobody

\* credential_visible_to on the execution path.
MayUse(r, i) == Live(i) /\ rows[i].user \in {r.user, Nobody}

\* insert with an id replaces the document, a soft-deleted one too.
Store(r, i, row) ==
  /\ rows' = [rows EXCEPT ![i] = row]
  /\ calm' = calm \cap {r}

------------------------------------------------------------------------------
(* connect_credential, dcr_register, OAuth login *)

\* policy_allows_binding
Permitted(binding) == binding = "shared" \/ policy # "enforce_shared"

ConnectStarts(r) ==
  /\ At(r, {"connect", "dcr"}, "start")
  /\ Goes(r, IF ~Permitted(r.want) THEN "done" ELSE IF r.op = "dcr" THEN "register" ELSE "lookup")
  /\ UNCHANGED <<reqs, store, cache, local, calm>>

\* The issuer answers, or not.
Registers(r) ==
  /\ At(r, {"dcr"}, "register")
  /\ Goes(r, "lookup") \/ Goes(r, "done")
  /\ UNCHANGED <<reqs, store, cache, local, calm>>

\* build_authorize_url stores the handshake; it does not read the policy.
LoginStarts(r) ==
  /\ At(r, {"login"}, "start") /\ Goes(r, "handshake")
  /\ UNCHANGED <<reqs, store, cache, local, calm>>

\* The browser comes back and consumes the state, or the state expires.
Callback(r) ==
  /\ At(r, {"login"}, "handshake")
  /\ Goes(r, "exchange") \/ Goes(r, "done")
  /\ UNCHANGED <<reqs, store, cache, local, calm>>

\* The token endpoint answers with a token set, or refuses.
Exchanged(r) ==
  /\ At(r, {"login", "refresh"}, "exchange")
  /\ Goes(r, IF r.op = "login" THEN "lookup" ELSE "save") \/ Goes(r, "done")
  /\ UNCHANGED <<reqs, store, cache, local, calm>>

\* _replace_same_quad: a row with the same natural key.
SameQuad(r) == {i \in Ids : Live(i) /\ rows[i].binding = r.want /\ rows[i].user = Owner(r)}

LooksUp(r) ==
  /\ At(r, {"connect", "dcr", "login"}, "lookup") /\ Goes(r, "save")
  /\ \E i \in Ids \cup {NoId} :
       /\ IF SameQuad(r) = {} THEN i = NoId ELSE i \in SameQuad(r)
       /\ pick' = [pick EXCEPT ![r] = i]
  /\ UNCHANGED <<reqs, store, cache, seen, todo, ver, tries, calm>>

\* The new row replaces the one that was found, or gets an id of its own.
Saves(r) ==
  /\ At(r, {"connect", "dcr", "login"}, "save")
  /\ \E i \in Ids :
       /\ IF pick[r] = NoId THEN rows[i].ver = 0 ELSE i = pick[r]
       /\ Store(r, i, [live |-> TRUE, binding |-> r.want, user |-> Owner(r), ver |-> minted + 1,
                       status |-> IF r.op = "dcr" THEN "pending" ELSE "active"])
  /\ minted' = minted + 1
  /\ Goes(r, IF r.op = "login" THEN "sync" ELSE "done")
  /\ UNCHANGED <<reqs, policy, ref, cache, local>>

\* A login syncs the provider's tools to a row of this provider; a failure is
\* only logged.
Syncs(r) ==
  /\ At(r, {"login"}, "sync") /\ Goes(r, "done")
  /\ \/ \E i \in Ids : Live(i) /\ ref' = i
     \/ UNCHANGED ref
  /\ UNCHANGED <<reqs, rows, policy, minted, cache, local, calm>>

------------------------------------------------------------------------------
(* refresh_credential and revoke_credential *)

\* Only a row with a refresh token, of this user or shared.
RefreshReads(r) ==
  /\ At(r, {"refresh"}, "start")
  /\ \E i \in Ids :
       IF MayUse(r, i) /\ rows[i].status # "pending"
       THEN Goes(r, "exchange") /\ pick' = [pick EXCEPT ![r] = i] /\ seen' = [seen EXCEPT ![r] = rows]
       ELSE Goes(r, "done") /\ UNCHANGED <<pick, seen>>
  /\ UNCHANGED <<reqs, store, cache, todo, ver, tries, calm>>

\* Mutant: a refreshed row is active.
RefreshActivates(r) ==
  /\ At(r, {"refresh"}, "save") /\ Goes(r, "done")
  /\ Store(r, pick[r], [seen[r][pick[r]] EXCEPT !.ver = minted + 1, !.status = "active"])
  /\ minted' = minted + 1
  /\ UNCHANGED <<reqs, policy, ref, cache, local>>

\* The row as it was read, with the new tokens.
RefreshSaves(r) ==
  /\ At(r, {"refresh"}, "save") /\ Goes(r, "done")
  /\ Store(r, pick[r], [seen[r][pick[r]] EXCEPT !.ver = minted + 1])
  /\ minted' = minted + 1
  /\ UNCHANGED <<reqs, policy, ref, cache, local>>

RevokeReads(r) ==
  /\ At(r, {"revoke"}, "start")
  /\ \E i \in Ids :
       IF Live(i)
       THEN Goes(r, "delete") /\ pick' = [pick EXCEPT ![r] = i]
       ELSE Goes(r, "done") /\ UNCHANGED pick
  /\ UNCHANGED <<reqs, store, cache, seen, todo, ver, tries, calm>>

\* soft_delete of a row that is still there; the cache is left to its TTL.
RevokeDeletes(r) ==
  /\ At(r, {"revoke"}, "delete") /\ Goes(r, "done")
  /\ IF Live(pick[r])
     THEN Store(r, pick[r], [rows[pick[r]] EXCEPT !.live = FALSE])
     ELSE UNCHANGED <<rows, calm>>
  /\ UNCHANGED <<reqs, policy, ref, minted, cache, local>>

------------------------------------------------------------------------------
(* set_policy *)

Barred(i) == Live(i) /\ rows[i].binding = "private" /\ rows[i].status = "active"

\* Mutant: only the caller's own rows are listed.
PolicyListsOwn(r) ==
  /\ At(r, {"policy"}, "start") /\ Goes(r, "suspend")
  /\ seen' = [seen EXCEPT ![r] = rows] /\ calm' = calm \cup {r}
  /\ todo' = [todo EXCEPT ![r] = IF r.want = "enforce_shared"
                                 THEN {i \in Ids : Barred(i) /\ MayUse(r, i)} ELSE {}]
  /\ UNCHANGED <<reqs, store, cache, pick, ver, tries>>

\* Turning enforce_shared on lists the private rows to suspend.
PolicyLists(r) ==
  /\ At(r, {"policy"}, "start") /\ Goes(r, "suspend")
  /\ seen' = [seen EXCEPT ![r] = rows] /\ calm' = calm \cup {r}
  /\ todo' = [todo EXCEPT ![r] = IF r.want = "enforce_shared" THEN {i \in Ids : Barred(i)} ELSE {}]
  /\ UNCHANGED <<reqs, store, cache, pick, ver, tries>>

\* One row, as it was listed.
Suspends(r) ==
  /\ At(r, {"policy"}, "suspend")
  /\ \E i \in todo[r] :
       /\ Store(r, i, [seen[r][i] EXCEPT !.status = "suspended"])
       /\ todo' = [todo EXCEPT ![r] = @ \ {i}]
  /\ UNCHANGED <<reqs, policy, ref, minted, cache, pc, pick, seen, ver, tries>>

\* The rows first, then the policy.
PolicySaved(r) ==
  /\ At(r, {"policy"}, "suspend") /\ todo[r] = {} /\ Goes(r, "done")
  /\ policy' = r.want
  /\ UNCHANGED <<reqs, rows, ref, minted, cache, local, calm>>

\* A store error, or the end of the process, between two writes.
PolicyCrashes(r) ==
  /\ At(r, {"policy"}, "suspend") /\ Goes(r, "done")
  /\ UNCHANGED <<reqs, store, cache, local, calm>>

------------------------------------------------------------------------------
(* resolve_credential and link_integration *)

\* A private row of the user before a shared one; suspended rows never; the
\* policy is not consulted.
Resolvable(r) ==
  LET usable  == {i \in Ids : MayUse(r, i) /\ rows[i].status # "suspended"}
      private == {i \in usable : rows[i].binding = "private"}
  IN  IF private # {} THEN private ELSE usable

Resolves(r) ==
  /\ At(r, {"link"}, "start")
  /\ IF Resolvable(r) = {}
     THEN Goes(r, "done") /\ UNCHANGED pick
     ELSE Goes(r, "link") /\ \E i \in Resolvable(r) : pick' = [pick EXCEPT ![r] = i]
  /\ UNCHANGED <<reqs, store, cache, seen, todo, ver, tries, calm>>

\* The link names provider and agent, not the credential.
Links(r) ==
  /\ At(r, {"link"}, "link") /\ Goes(r, "done")
  /\ UNCHANGED <<reqs, store, cache, local, calm>>

------------------------------------------------------------------------------
(* ToolExecutor and ToolAuthResolver *)

Exec == {"http", "mcp"}

\* resolve_auth, cache first; an outage of the cache is a miss.  Tools without
\* an auth_ref touch neither cache nor store.
ReadsCache(r) ==
  /\ At(r, Exec, "start") /\ ref # NoId /\ pick' = [pick EXCEPT ![r] = ref]
  /\ \/ cache[ref] # 0 /\ Goes(r, "call") /\ ver' = [ver EXCEPT ![r] = cache[ref]]
     \/ Goes(r, "load") /\ UNCHANGED ver
  /\ UNCHANGED <<reqs, store, cache, seen, todo, tries, calm>>

\* The store's row, or a refusal: a call is never made without its secret.
LoadsStored(r) ==
  /\ At(r, Exec, "load")
  /\ IF Live(pick[r]) /\ rows[pick[r]].status # "pending"
     THEN Goes(r, "write") /\ ver' = [ver EXCEPT ![r] = rows[pick[r]].ver]
     ELSE Goes(r, "done") /\ UNCHANGED ver
  /\ UNCHANGED <<reqs, store, cache, pick, seen, todo, tries, calm>>

\* Mutant: force_refresh is ignored.
LoadsCached(r) ==
  \/ /\ At(r, Exec, "load") /\ cache[pick[r]] # 0
     /\ Goes(r, "write") /\ ver' = [ver EXCEPT ![r] = cache[pick[r]]]
     /\ UNCHANGED <<reqs, store, cache, pick, seen, todo, tries, calm>>
  \/ LoadsStored(r)

\* Mutant: revoked rows are served.
LoadsRevoked(r) ==
  /\ At(r, Exec, "load")
  /\ IF rows[pick[r]].ver # 0 /\ rows[pick[r]].status # "pending"
     THEN Goes(r, "write") /\ ver' = [ver EXCEPT ![r] = rows[pick[r]].ver]
     ELSE Goes(r, "done") /\ UNCHANGED ver
  /\ UNCHANGED <<reqs, store, cache, pick, seen, todo, tries, calm>>

Loads(r) == LoadsStored(r)

\* Mutant: the attempts are counted from the retry.
WritesOnceMore(r) ==
  /\ At(r, Exec, "write") /\ cache' = [cache EXCEPT ![pick[r]] = ver[r]]
  /\ Goes(r, IF tries[r] < 3 THEN "call" ELSE "done")
  /\ UNCHANGED <<reqs, store, local, calm>>

\* The write-through, which an outage loses.  A failed MCP call reloads even
\* after its last attempt.
Writes(r) ==
  /\ At(r, Exec, "write")
  /\ \/ cache' = [cache EXCEPT ![pick[r]] = ver[r]]
     \/ UNCHANGED cache
  /\ Goes(r, IF tries[r] < 2 THEN "call" ELSE "done")
  /\ UNCHANGED <<reqs, store, local, calm>>

\* The upstream answers, or refuses the secret: one retry.
Calls(r) ==
  /\ At(r, Exec, "call") /\ tries' = [tries EXCEPT ![r] = @ + 1]
  /\ \/ Goes(r, "done") /\ UNCHANGED calm
     \/ (tries[r] = 0 \/ r.op = "mcp") /\ Goes(r, "invalidate") /\ calm' = calm \cup {r}
  /\ UNCHANGED <<reqs, store, cache, pick, seen, todo, ver>>

\* invalidate_credential_cache, fail-open; then force_refresh.
Invalidates(r) ==
  /\ At(r, Exec, "invalidate") /\ Goes(r, "load")
  /\ \/ cache' = [cache EXCEPT ![pick[r]] = 0]
     \/ UNCHANGED cache
  /\ UNCHANGED <<reqs, store, local, calm>>

\* The agent runs the tool again: an execution keeps nothing of the last one.
Repeats(r) ==
  /\ At(r, Exec, "done") /\ Goes(r, "start")
  /\ pick' = [pick EXCEPT ![r] = NoId] /\ ver' = [ver EXCEPT ![r] = 0]
  /\ tries' = [tries EXCEPT ![r] = 0] /\ calm' = calm \ {r}
  /\ UNCHANGED <<reqs, store, cache, seen, todo>>

\* The TTL of setex.
Expires(i) ==
  /\ cache[i] # 0 /\ cache' = [cache EXCEPT ![i] = 0]
  /\ UNCHANGED <<reqs, store, pc, local, calm>>

------------------------------------------------------------------------------

Step(r) ==
  \/ ConnectStarts(r) \/ Registers(r) \/ LoginStarts(r) \/ Callback(r) \/ Exchanged(r)
  \/ LooksUp(r) \/ Saves(r) \/ Syncs(r)
  \/ RefreshReads(r) \/ RefreshSaves(r) \/ RevokeReads(r) \/ RevokeDeletes(r)
  \/ PolicyLists(r) \/ Suspends(r) \/ PolicySaved(r) \/ PolicyCrashes(r)
  \/ Resolves(r) \/ Links(r)
  \/ ReadsCache(r) \/ Loads(r) \/ Writes(r) \/ Calls(r) \/ Invalidates(r)

Next ==
  \/ \E r \in reqs : Step(r) \/ Repeats(r)
  \/ \E i \in Ids : Expires(i)

\* Every access is bounded by a timeout, and cached entries age.  Whether a tool
\* runs again is up to the agent.
Fairness ==
  /\ \A r \in Requests : WF_vars(r \in reqs /\ Step(r))
  /\ \A i \in Ids : WF_vars(Expires(i))

Spec == Init /\ [][Next]_vars /\ Fairness

------------------------------------------------------------------------------
(* Properties *)

\* The one retry after a refused secret carries the secret that the store
\* holds, whatever other executions put into the cache meanwhile, unless the
\* row was rewritten after the refusal (_call_with_auth_retry, force_refresh).
RetryIsFresh ==
  [][\A r \in reqs : (tries[r] = 1 /\ tries'[r] = 2 /\ r \in calm)
       => ver[r] = rows[pick[r]].ver]_vars

\* What set_policy and CONTRACT.md say: a suspended row becomes active only by
\* connect_credential or a login ("explicit reconnect required").
OnlyReconnectRestores ==
  [][\A i \in Ids :
       (rows[i].status = "suspended" /\ rows'[i].status = "active")
       => \E r \in reqs : r.op \in {"connect", "login"} /\ pc[r] = "save" /\ pc'[r] # "save"]_vars

\* What is true of it: a row that is suspended, pending or revoked becomes active
\* by connect_credential or a login, or else by a refresh that is older than the
\* suspension: it read the row while it was active, and its write brings that
\* row back.  A refresh that starts later restores nothing, nor does a
\* registration or a policy change (refresh_credential, set_policy, dcr_register).
RestoredByReconnectOrStaleRefresh ==
  [][\A i \in Ids :
       (rows[i].ver # 0 /\ ~(Live(i) /\ rows[i].status = "active")
          /\ rows'[i].live /\ rows'[i].status = "active")
       => \E r \in reqs : /\ pc[r] = "save" /\ pc'[r] # "save"
                          /\ \/ r.op \in {"connect", "login"}
                             \/ r.op = "refresh" /\ seen[r][pick[r]].status = "active"]_vars

\* The policy is never ahead of the rows: when enforce_shared takes effect, no
\* private row is active, unless another request wrote one since the rows were
\* listed (set_policy, "suspend-rows, save-policy, audit").
PolicyNotAheadOfRows ==
  [][\A r \in reqs :
       (policy # "enforce_shared" /\ policy' = "enforce_shared" /\ pc[r] # pc'[r] /\ r \in calm)
       => \A i \in Ids : ~Barred(i)]_vars

\* A revoked credential goes out of use, although revocation does not clear the
\* cache, slower executions may still write the secret there and tools run again
\* and again: once the row is gone for good, its secret is in the end neither
\* cached nor sent (revoke_credential, resolve_auth, the TTL of setex).
OutOfUse(i) == cache[i] = 0 /\ \A r \in reqs : pick[r] = i => pc[r] # "call"
RevokedAgesOut == \A i \in Ids : <>[](~Live(i)) => <>[]OutOfUse(i)

\* What CONTRACT.md promises of resolution: a private credential is preferred
\* except under enforce_shared (resolve_credential).
EnforceSharedWins ==
  [][\A r \in reqs : (r.op = "link" /\ pc[r] = "start" /\ pc'[r] = "link"
                        /\ policy = "enforce_shared")
       => rows[pick'[r]].binding = "shared"]_vars
=============================================================================
