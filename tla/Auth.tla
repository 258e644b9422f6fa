-------------------------------- MODULE Auth ---------------------------------
(***************************************************************************)
(* The gate in front of the API: loopbackOnly (api/handler.go), then the   *)
(* bootstrap token or a browser session (api/auth.go).  Browsers log in    *)
(* with the token of the dashboard's URL, keep the cookie they are given   *)
(* and use it; the session map is pruned by logins and by requests that    *)
(* come too late; a restart of the controller forgets it.                  *)
(*                                                                         *)
(* Each of newSession and validSession runs under Auth.mu and is one step. *)
(***************************************************************************)
EXTENDS Naturals

CONSTANTS
    Browsers,
    Sessions,   \* session values, 32 random bytes each
    Tokens,     \* bootstrap tokens, "empty" when authentication is off
    TTL,        \* life of a session, twelve hours
    Horizon     \* bound: the clock stops here

ASSUME TTLAssumption == TTL \in Nat \ {0} /\ Horizon \in Nat
ASSUME AbsentAssumption == "absent" \notin Sessions \cup Tokens

VARIABLES
    now,        \* the clock
    token,      \* Auth.bootstrapToken
    sessions,   \* Auth.sessions: the expiry of a session, 0 when there is none
    replies,    \* answers to logins that the browser has not received
    jar,        \* each browser's cookie and when the browser drops it
    issued,     \* history: the expiry of each session this process issued, or 0
    spent,      \* history: session values used so far
    lastLogin   \* history: when the last session was issued

vars == <<now, token, sessions, replies, jar, issued, spent, lastLogin>>

NoCookie == [session |-> "absent", dies |-> 0]

\* What the gate looks at: the Host header is a loopback name, the method
\* changes state, the bearer token, the cookie, and whether the Origin header
\* is the loopback origin the request was sent to.
Requests == [loopback: BOOLEAN, write: BOOLEAN, bearer: Tokens \cup {"absent"},
             cookie: Sessions \cup {"absent"}, origin: BOOLEAN]

Enabled == token # "empty"

validBearer(value) == value # "absent" /\ value = token

\* Mutant of validSession: a session is good until it is pruned.
validSessionUnpruned(value) == value # "absent" /\ sessions[value] # 0

validSession(value) == value # "absent" /\ sessions[value] > now

\* The outcome of loopbackOnly and Wrap for a request that is not a login.
Gate(q) ==
    IF ~q.loopback THEN "invalid_host"
    ELSE IF ~Enabled \/ validBearer(q.bearer) THEN "admitted"
    ELSE IF ~validSession(q.cookie) THEN "authentication_required"
    ELSE IF q.write /\ ~q.origin THEN "invalid_origin"
    ELSE "admitted"

-----------------------------------------------------------------------------
Init ==
    /\ now = 0
    /\ token \in Tokens
    /\ sessions = [s \in Sessions |-> 0]
    /\ issued = [s \in Sessions |-> 0]
    /\ replies = {} /\ spent = {} /\ lastLogin = 0
    /\ jar = [b \in Browsers |-> NoCookie]

\* Mutant of Prune: sessions that still run go as well.
PruneAll(map) == [s \in Sessions |-> IF map[s] <= now + 1 THEN 0 ELSE map[s]]

\* Mutant of Prune: nothing goes.
PruneNone(map) == map

\* Mutant of Prune: what is left of each session's life is stored.
PruneRemaining(map) == [s \in Sessions |-> map[s] - now]

\* The loop of newSession: what expired before now is deleted.
Prune(map) == [s \in Sessions |-> IF map[s] < now THEN 0 ELSE map[s]]

\* exchange: the login of a browser that sent the loopback origin and the
\* token.  Any other login is refused and changes nothing.
exchange(b, given, s) ==
    /\ Enabled /\ given = token
    /\ s \in Sessions \ spent
    /\ sessions' = Prune([sessions EXCEPT ![s] = now + TTL])
    /\ issued' = [issued EXCEPT ![s] = now + TTL]
    /\ spent' = spent \cup {s}
    /\ lastLogin' = now
    /\ replies' = replies \cup {[browser |-> b, session |-> s]}
    /\ UNCHANGED <<now, token, jar>>

\* Mutant of MaxAge: the cookie lives an hour.
MaxAgeShort == 1

\* The life of the cookie, a constant of its own in the code.
MaxAge == TTL

\* The browser receives the cookie; its life starts now.
Receive(r) ==
    /\ r \in replies
    /\ replies' = replies \ {r}
    /\ jar' = [jar EXCEPT ![r.browser] = [session |-> r.session, dies |-> now + MaxAge]]
    /\ UNCHANGED <<now, token, sessions, issued, spent, lastLogin>>

Lose(r) ==
    /\ r \in replies
    /\ replies' = replies \ {r}
    /\ UNCHANGED <<now, token, sessions, jar, issued, spent, lastLogin>>

\* A browser uses its cookie.  A session that is not valid is deleted, and
\* nothing else changes, whatever the gate answers.
Use(b) ==
    /\ jar[b] # NoCookie /\ Enabled
    /\ sessions' = IF validSession(jar[b].session) THEN sessions
                   ELSE [sessions EXCEPT ![jar[b].session] = 0]
    /\ UNCHANGED <<now, token, replies, jar, issued, spent, lastLogin>>

\* The clock goes on, and browsers drop cookies that have come to their end.
Tick ==
    /\ now < Horizon
    /\ now' = now + 1
    /\ jar' = [b \in Browsers |-> IF jar[b].dies <= now + 1 THEN NoCookie ELSE jar[b]]
    /\ UNCHANGED <<token, sessions, replies, issued, spent, lastLogin>>

\* The controller restarts, after a reinstallation with another token.
Restart ==
    /\ token' \in Tokens
    /\ sessions' = [s \in Sessions |-> 0]
    /\ issued' = [s \in Sessions |-> 0]
    /\ UNCHANGED <<now, replies, jar, spent, lastLogin>>

Next ==
    \/ \E b \in Browsers, given \in Tokens, s \in Sessions : exchange(b, given, s)
    \/ \E r \in replies : Receive(r) \/ Lose(r)
    \/ \E b \in Browsers : Use(b)
    \/ Tick \/ Restart

Spec == Init /\ [][Next]_vars

-----------------------------------------------------------------------------
(* Properties                                                              *)

TypeOK ==
    /\ now \in Nat /\ lastLogin \in Nat
    /\ token \in Tokens
    /\ sessions \in [Sessions -> Nat] /\ issued \in [Sessions -> Nat]
    /\ replies \subseteq [browser: Browsers, session: Sessions]
    /\ jar \in [Browsers -> [session: Sessions \cup {"absent"}, dies: Nat]]
    /\ spent \subseteq Sessions

\* The gate admits what the documentation allows and nothing else: a loopback
\* Host header, and the bootstrap token or a session that this process issued
\* less than its life ago, with the loopback Origin for changes.  However many
\* logins and late requests have pruned the map, a session neither dies early
\* nor lives on (docs/architecture.md, "Trust boundary").
AdmissionPolicy ==
    \A q \in Requests :
        Gate(q) = "admitted" <=>
            /\ q.loopback
            /\ \/ token = "empty"
               \/ q.bearer = token
               \/ /\ q.cookie \in Sessions /\ issued[q.cookie] > now
                  /\ q.write => q.origin

\* The session map holds nothing that had expired at the last login, so logins
\* that nobody uses do not pile up (auth.go, newSession).
SessionsPruned == \A s \in Sessions : sessions[s] # 0 => sessions[s] >= lastLogin

\* A browser does not drop the cookie of a session that the server would still
\* accept, however long the answer to the login took: the two twelve-hour
\* constants of auth.go agree.
CookieOutlives ==
    \A b \in Browsers : jar[b] # NoCookie => issued[jar[b].session] <= jar[b].dies

-----------------------------------------------------------------------------
(* The inductive invariant behind them                                     *)

\* The map agrees with what was issued, as long as it matters; nothing is issued
\* twice; no session runs for longer than TTL from now.
IndInv ==
    /\ \A s \in Sessions :
         /\ sessions[s] \in {0, issued[s]}
         /\ issued[s] > now => sessions[s] = issued[s]
         /\ issued[s] # 0 => s \in spent
         /\ issued[s] <= now + TTL
    /\ \A r \in replies : r.session \in spent
    /\ \A b \in Browsers : jar[b] = NoCookie \/ jar[b].session \in spent
    /\ lastLogin <= now
    /\ SessionsPruned /\ CookieOutlives
=============================================================================
