------------------------------- MODULE Tokens -------------------------------
(***************************************************************************)
(* The access tokens of the service (internal/service): the interceptor    *)
(* that every API request passes, and the end of the OAuth2 device flow,   *)
(* which gives a user a token.                                             *)
(*                                                                         *)
(* A token is an entry of the map svc.tokens that points to a tokenInfo;   *)
(* the interceptor keeps the pointer after it has given up the lock, so    *)
(* the info of a token outlives its entry: infos holds those of all tokens *)
(* ever given out.  Each action is one section under svc.mu, or the one    *)
(* unlocked read of ExpiresAt.  (That read races with the write of another *)
(* request; both values have a monotonic clock reading, After compares     *)
(* only that 64-bit word, and it is the old one or the new one.)           *)
(***************************************************************************)
EXTENDS Integers

CONSTANTS
    Users,          \* user names
    StaticUsers,    \* those of the configuration: users and admin_token
    StaticToken,    \* their tokens
    TokenStrings,   \* all tokens; a generated one was never seen before
    TTL,            \* Config.GetTokenTTL
    Requests,       \* goroutines that serve API requests
    Logins,         \* goroutines that serve the token endpoint
    OneAtATime,     \* do clients wait for an answer before they use the same
                    \* token again?
    MaxTime, MaxRestarts

ASSUME TokensAssumption ==
    /\ StaticUsers \subseteq Users
    /\ StaticToken \in [StaticUsers -> TokenStrings]
    /\ \A u, v \in StaticUsers : StaticToken[u] = StaticToken[v] => u = v
    /\ TTL \in Nat
    /\ OneAtATime \in BOOLEAN
    /\ MaxTime \in Nat
    /\ MaxRestarts \in Nat

VARIABLES
    tokens,     \* the tokens that have an entry in svc.tokens
    users,      \* svc.users: the token of a user
    infos,      \* the tokenInfo of each token, [user, expires]
    now,
    requests,   \* the requests being served: [token, stage]
    logins,     \* the logins about to hand out a token: [user, token, at]
    used,       \* when each token was last accepted or given out
    restarts

vars == <<tokens, users, infos, now, requests, logins, used, restarts>>

Static == {StaticToken[u] : u \in StaticUsers}
Never == 0  \* the zero time

\* f with k mapped to v, and f without k.
With(f, k, v) == [x \in DOMAIN f \cup {k} |-> IF x = k THEN v ELSE f[x]]
Without(f, k) == [x \in DOMAIN f \ {k} |-> f[x]]

TypeOK ==
    /\ tokens \cup Static \subseteq DOMAIN infos
    /\ DOMAIN infos \subseteq TokenStrings
    /\ \A t \in DOMAIN infos : infos[t] \in [user: Users, expires: Nat]
    /\ DOMAIN users \subseteq Users
    /\ \A u \in DOMAIN users : users[u] \in DOMAIN infos
    /\ now \in Nat \ {0}
    /\ DOMAIN requests \subseteq Requests
    /\ \A r \in DOMAIN requests :
           requests[r] \in [token: DOMAIN infos,
                            stage: {"lookup", "check", "remove", "slide"}]
    /\ DOMAIN logins \subseteq Logins
    /\ \A l \in DOMAIN logins :
           logins[l] \in [user: Users, token: TokenStrings, at: Nat \ {0}]
    /\ DOMAIN used = DOMAIN infos
    /\ \A t \in DOMAIN used : used[t] \in Nat
    /\ restarts \in 0 .. MaxRestarts

\* New: the maps hold the configured users, whose tokens never expire.
Init ==
    /\ tokens = Static
    /\ users = StaticToken
    /\ infos = [t \in Static |->
                   [user |-> CHOOSE u \in StaticUsers : StaticToken[u] = t,
                    expires |-> Never]]
    /\ now = 1
    /\ requests = [r \in {} |-> {}]
    /\ logins = [l \in {} |-> {}]
    /\ used = [t \in Static |-> 0]
    /\ restarts = 0

Tick ==
    /\ now < MaxTime
    /\ now' = now + 1
    /\ UNCHANGED <<tokens, users, infos, requests, logins, used, restarts>>

-----------------------------------------------------------------------------
(***************************************************************************)
(* The interceptor.                                                        *)
(***************************************************************************)

At(r, stage) == r \in DOMAIN requests /\ requests[r].stage = stage
Token(r) == requests[r].token

Goto(r, stage) == requests' = [requests EXCEPT ![r].stage = stage]

\* The interceptor refuses the request, or passes it on to its handler.
Reject(r) == requests' = Without(requests, r) /\ UNCHANGED used
Accept(r) ==
    /\ requests' = Without(requests, r)
    /\ used' = [used EXCEPT ![Token(r)] = now]

\* A client sends a token it was given, some time ago.
Arrive(r) ==
    /\ r \notin DOMAIN requests
    /\ \E t \in DOMAIN infos :
           /\ OneAtATime => \A q \in DOMAIN requests : Token(q) # t
           /\ requests' = With(requests, r, [token |-> t, stage |-> "lookup"])
    /\ UNCHANGED <<tokens, users, infos, now, logins, used, restarts>>

Lookup(r) ==
    /\ At(r, "lookup")
    /\ IF Token(r) \in tokens THEN Goto(r, "check") /\ UNCHANGED used
       ELSE Reject(r)
    /\ UNCHANGED <<tokens, users, infos, now, logins, restarts>>

\* Slip: the zero time of a static token is a time like any other.
IsExpiredZero(t) == now > infos[t].expires

\* Slip: the last instant of a token is one too late.
IsExpiredEarly(t) == infos[t].expires # Never /\ now >= infos[t].expires

IsExpired(t) == infos[t].expires # Never /\ now > infos[t].expires

\* No lock is held: the info is read through the pointer.
Check(r) ==
    /\ At(r, "check")
    /\ IF IsExpired(Token(r)) THEN Goto(r, "remove") /\ UNCHANGED used
       ELSE IF infos[Token(r)].expires = Never THEN Accept(r)
       ELSE Goto(r, "slide") /\ UNCHANGED used
    /\ UNCHANGED <<tokens, users, infos, now, logins, restarts>>

\* The expired token is removed, whatever became of it since the check.
Remove(r) ==
    /\ At(r, "remove")
    /\ tokens' = tokens \ {Token(r)}
    /\ Reject(r)
    /\ UNCHANGED <<users, infos, now, logins, restarts>>

\* Slip: the token is put back into the map.
SlideStores(r) ==
    /\ At(r, "slide")
    /\ infos' = [infos EXCEPT ![Token(r)].expires = now + TTL]
    /\ tokens' = tokens \cup {Token(r)}
    /\ Accept(r)
    /\ UNCHANGED <<users, now, logins, restarts>>

Slide(r) ==
    /\ At(r, "slide")
    /\ infos' = [infos EXCEPT ![Token(r)].expires = now + TTL]
    /\ Accept(r)
    /\ UNCHANGED <<tokens, users, now, logins, restarts>>

-----------------------------------------------------------------------------
(***************************************************************************)
(* The token endpoint.                                                     *)
(***************************************************************************)

\* The provider has named the user; a token and its end, the TTL from now, are
\* computed, and the lock is still to be taken.
Grant(l) ==
    /\ l \notin DOMAIN logins
    /\ \E u \in Users, t \in TokenStrings \ (DOMAIN infos \cup Static) :
           /\ \A k \in DOMAIN logins : logins[k].token # t
           /\ logins' = With(logins, l,
                            [user |-> u, token |-> t, at |-> now])
    /\ UNCHANGED <<tokens, users, infos, now, requests, used, restarts>>

\* Slip: the user gets the token, and the token no info.
SwapUserOnly(l) ==
    /\ l \in DOMAIN logins
    /\ users' = With(users, logins[l].user, logins[l].token)
    /\ logins' = Without(logins, l)
    /\ UNCHANGED <<tokens, infos, now, requests, used, restarts>>

\* The token replaces the one the user has, if any.
Swap(l) ==
    /\ l \in DOMAIN logins
    /\ LET u == logins[l].user
           t == logins[l].token IN
       /\ tokens' = (tokens \ {users[v] : v \in {u} \cap DOMAIN users}) \cup {t}
       /\ users' = With(users, u, t)
       /\ infos' = With(infos, t, [user |-> u, expires |-> logins[l].at + TTL])
       /\ used' = With(used, t, logins[l].at)
    /\ logins' = Without(logins, l)
    /\ UNCHANGED <<now, requests, restarts>>

\* Both maps live in memory only; requests and logins die with the process.
Restart ==
    /\ restarts < MaxRestarts
    /\ restarts' = restarts + 1
    /\ tokens' = Static
    /\ users' = StaticToken
    /\ requests' = [r \in {} |-> {}]
    /\ logins' = [l \in {} |-> {}]
    /\ UNCHANGED <<infos, now, used>>

Next ==
    \/ Tick
    \/ \E r \in Requests :
           Arrive(r) \/ Lookup(r) \/ Check(r) \/ Remove(r) \/ Slide(r)
    \/ \E l \in Logins : Grant(l) \/ Swap(l)
    \/ Restart

Spec == Init /\ [][Next]_vars

-----------------------------------------------------------------------------
(***************************************************************************)
(* Properties.                                                             *)
(***************************************************************************)

\* A user has one token that works, the one of the last login ("Re-login:
\* Replaces the old token with a new one"): the maps tokens and users, which
\* the interceptor and the logins change by different rules, agree.
OneTokenPerUser == \A t \in tokens : users[infos[t].user] = t

\* A configured token works until its user logs in, however long it is unused
\* and whatever happens to other tokens ("Static tokens: Never expire").
StaticLives ==
    \A u \in StaticUsers : users[u] = StaticToken[u] => StaticToken[u] \in tokens

\* A token that was accepted or given out no longer than the TTL ago works,
\* unless its user got another one since ("Each API call extends the token's
\* lifetime").
UsedLives ==
    \A u \in DOMAIN users :
        now <= used[users[u]] + TTL => users[u] \in tokens
=============================================================================
