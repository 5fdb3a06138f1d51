------------------------- MODULE MCToolCredentials -------------------------
(* Instances of ToolCredentials for TLC: two users, three ids. *)
EXTENDS ToolCredentials

CONSTANTS u1, u2, i1, i2, i3

Req(op, user, want) == [op |-> op, user |-> user, want |-> want]

Unwritten == [live |-> FALSE, binding |-> "shared", user |-> Nobody, status |-> "active", ver |-> 0]
PrivateRow(u, status) ==
  [live |-> TRUE, binding |-> "private", user |-> u, status |-> status, ver |-> 1]
SharedRow == [live |-> TRUE, binding |-> "shared", user |-> Nobody, status |-> "active", ver |-> 2]

NoRows == [i \in Ids |-> Unwritten]
OneRow(row) == [NoRows EXCEPT ![i1] = row]
TwoRows(row) == [OneRow(row) EXCEPT ![i2] = SharedRow]

Connect == Req("connect", u1, "private")
Share == Req("connect", u2, "shared")
Dcr == Req("dcr", u1, "shared")
Login == Req("login", u1, "private")
Refresh == Req("refresh", u1, "any")
RefreshOther == Req("refresh", u2, "any")
Revoke == Req("revoke", u2, "any")
RevokeToo == Req("revoke", u1, "any")
Enforce == Req("policy", u2, "enforce_shared")
Relax == Req("policy", u2, "user_choice")
Link == Req("link", u1, "any")
Http == Req("http", u1, "any")
Http2 == Req("http", u2, "any")
Mcp == Req("mcp", u1, "any")

MCRequests == {Connect, Share, Dcr, Login, Refresh, RefreshOther, Revoke, RevokeToo, Enforce,
               Relax, Link, Http, Http2, Mcp}

\* Which requests meet, and the rows they find.
MCScenarios ==
  {[reqs |-> q, rows |-> TwoRows(PrivateRow(u1, "active"))] :
     q \in {{Enforce, Refresh, RefreshOther}, {Enforce, Relax, Connect}, {Enforce, Login, Link},
            {Revoke, Refresh, Http}, {Http, Http2, Refresh}, {Revoke, Mcp, Http2},
            {Mcp, Share, Refresh}, {Revoke, RevokeToo, Share}}}
  \cup {[reqs |-> {Connect, Refresh, Enforce}, rows |-> OneRow(PrivateRow(u1, "suspended"))],
        [reqs |-> {Dcr, Share, Link}, rows |-> OneRow(PrivateRow(u1, "active"))],
        [reqs |-> {Login, Connect, Link}, rows |-> NoRows]}

\* A refresh that began before enforce_shared ends after it.
LateRefresh == {[reqs |-> {Enforce, Refresh}, rows |-> OneRow(PrivateRow(u1, "active"))]}

\* A login that began before enforce_shared ends after it.
LateLogin == {[reqs |-> {Enforce, Login, Link}, rows |-> NoRows]}
=============================================================================
