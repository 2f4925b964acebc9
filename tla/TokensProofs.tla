---------------------------- MODULE TokensProofs ----------------------------
(***************************************************************************)
(* What module Tokens guarantees for any users, TTL, number of requests    *)
(* and restarts.  The invariant ties the three things that the code keeps  *)
(* in step by hand: the two maps, the infos behind them, and what a        *)
(* request or login has read and will act on after it gave up the lock.    *)
(***************************************************************************)
EXTENDS Tokens, TLAPS

\* Every user's token is that user's, and the configured users have one.
UsersOK ==
    /\ StaticUsers \subseteq DOMAIN users
    /\ \A u \in DOMAIN users : infos[users[u]].user = u
    /\ \A t \in tokens : infos[t].user \in DOMAIN users

\* Configured tokens, and no others, never expire; the others end the TTL
\* after their last use.
InfosOK ==
    \A t \in DOMAIN infos :
        IF t \in Static THEN infos[t].expires = Never
        ELSE infos[t].expires > 0 /\ infos[t].expires = used[t] + TTL

\* A login hands out a token nobody has.
LoginsOK ==
    \A l \in DOMAIN logins :
        /\ logins[l].token \notin DOMAIN infos
        /\ \A k \in DOMAIN logins : logins[k].token = logins[l].token => k = l

\* What a request will do to its token is done to no configured token.
RequestsOK ==
    \A r \in DOMAIN requests :
        requests[r].stage \in {"remove", "slide"} => Token(r) \notin Static

\* With one request at a time for each token, nothing happened to the token
\* since the request looked at it, but for a login.
AloneOK ==
    OneAtATime =>
        /\ \A q, r \in DOMAIN requests : Token(q) = Token(r) => q = r
        /\ \A r \in DOMAIN requests :
               /\ requests[r].stage = "remove" => infos[Token(r)].expires < now
               /\ requests[r].stage \in {"check", "slide"} =>
                      \/ Token(r) \in tokens
                      \/ /\ infos[Token(r)].user \in DOMAIN users
                         /\ users[infos[Token(r)].user] # Token(r)
        /\ \A u \in DOMAIN users :
               \/ users[u] \in tokens
               \/ infos[users[u]].expires < now

\* The infos of configured tokens are still those of the configuration.
StaticInfos == \A u \in StaticUsers : infos[StaticToken[u]].user = u

Held ==
    /\ TypeOK /\ UsersOK /\ InfosOK /\ LoginsOK /\ RequestsOK /\ AloneOK
    /\ OneTokenPerUser /\ StaticLives /\ StaticInfos

-----------------------------------------------------------------------------
(***************************************************************************)
(* Type correctness.                                                       *)
(***************************************************************************)

LEMMA InitType == Init => TypeOK
<1> SUFFICES ASSUME Init PROVE TypeOK
  OBVIOUS
<1>1. Static \subseteq TokenStrings /\ \A u \in StaticUsers : StaticToken[u] \in Static
  BY TokensAssumption DEF Static
<1>2. \A t \in Static :
          (CHOOSE u \in StaticUsers : StaticToken[u] = t) \in Users
  BY TokensAssumption DEF Static
<1> QED
  BY <1>1, <1>2, TokensAssumption DEF Init, TypeOK, Never

LEMMA NextType == TypeOK /\ [Next]_vars => TypeOK'
<1> SUFFICES ASSUME TypeOK, [Next]_vars PROVE TypeOK'
  OBVIOUS
<1> USE TokensAssumption
<1>1. CASE Tick
  BY <1>1 DEF Tick, TypeOK
<1>2. ASSUME NEW r \in Requests, Arrive(r) PROVE TypeOK'
  BY <1>2 DEF Arrive, With, TypeOK
<1>3. ASSUME NEW r \in Requests, Lookup(r) PROVE TypeOK'
  <2>1. CASE Token(r) \in tokens
    BY <1>3, <2>1 DEF Lookup, At, Goto, TypeOK
  <2>2. CASE Token(r) \notin tokens
    BY <1>3, <2>2 DEF Lookup, At, Reject, Without, TypeOK
  <2> QED
    BY <2>1, <2>2
<1>4. ASSUME NEW r \in Requests, Check(r) PROVE TypeOK'
  <2>1. CASE requests' = Without(requests, r)
    BY <1>4, <2>1 DEF Check, At, Goto, Reject, Accept, Token, Without, TypeOK
  <2>2. CASE Goto(r, "remove") /\ UNCHANGED used
    BY <1>4, <2>2 DEF Check, At, Goto, TypeOK
  <2>3. CASE Goto(r, "slide") /\ UNCHANGED used
    BY <1>4, <2>3 DEF Check, At, Goto, TypeOK
  <2> QED
    BY <1>4, <2>1, <2>2, <2>3 DEF Check, Accept
<1>5. ASSUME NEW r \in Requests, Remove(r) PROVE TypeOK'
  BY <1>5 DEF Remove, At, Reject, Without, TypeOK
<1>6. ASSUME NEW r \in Requests, Slide(r) PROVE TypeOK'
  <2>1. /\ Token(r) \in DOMAIN infos
        /\ DOMAIN infos' = DOMAIN infos
        /\ \A t \in DOMAIN infos : infos'[t] \in [user: Users, expires: Nat]
    BY <1>6 DEF Slide, At, Token, TypeOK
  <2>2. DOMAIN used' = DOMAIN used /\ \A t \in DOMAIN used : used'[t] \in Nat
    BY <1>6 DEF Slide, Accept, TypeOK
  <2>3. requests' = Without(requests, r)
    BY <1>6 DEF Slide, Accept
  <2> QED
    BY <1>6, <2>1, <2>2, <2>3 DEF Slide, Without, TypeOK
<1>7. ASSUME NEW l \in Logins, Grant(l) PROVE TypeOK'
  BY <1>7 DEF Grant, With, TypeOK
<1>8. ASSUME NEW l \in Logins, Swap(l) PROVE TypeOK'
  <2>1. DOMAIN infos' = DOMAIN infos \cup {logins[l].token}
    BY <1>8 DEF Swap, With
  <2>2. \A t \in DOMAIN infos' : infos'[t] \in [user: Users, expires: Nat]
    BY <1>8 DEF Swap, With, TypeOK
  <2> QED
    BY <1>8, <2>1, <2>2 DEF Swap, With, Without, TypeOK
<1>9. CASE Restart
  BY <1>9 DEF Restart, Static, TypeOK
<1>10. CASE UNCHANGED vars
  BY <1>10 DEF vars, TypeOK
<1> QED
  BY <1>1, <1>2, <1>3, <1>4, <1>5, <1>6, <1>7, <1>8, <1>9, <1>10 DEF Next
-----------------------------------------------------------------------------
(***************************************************************************)
(* The inductive invariant.                                                *)
(***************************************************************************)

\* The initial infos are those of the configured users.
LEMMA InitHeld == Init => Held
<1> SUFFICES ASSUME Init PROVE Held
  OBVIOUS
<1> USE TokensAssumption
<1>1. TypeOK
  BY InitType
<1>2. \A u \in StaticUsers :
          (CHOOSE v \in StaticUsers : StaticToken[v] = StaticToken[u]) = u
  OBVIOUS
<1>3. \A u \in StaticUsers :
          StaticToken[u] \in Static /\ infos[StaticToken[u]].user = u
  BY <1>2 DEF Init, Static
<1>4. StaticLives
  BY <1>3 DEF Init, StaticLives
<1>5. UsersOK
  <2>1. \A u \in DOMAIN users : infos[users[u]].user = u
    BY <1>3 DEF Init
  <2>2. \A t \in tokens : infos[t].user \in DOMAIN users
    BY <1>3 DEF Init, Static
  <2>3. StaticUsers \subseteq DOMAIN users
    BY DEF Init
  <2> QED
    BY <2>1, <2>2, <2>3 DEF UsersOK
<1>6. OneTokenPerUser
  BY <1>3 DEF Init, OneTokenPerUser, Static
<1>7. InfosOK /\ LoginsOK /\ RequestsOK
  BY DEF Init, InfosOK, LoginsOK, RequestsOK
<1>8. AloneOK
  BY <1>3 DEF Init, AloneOK
<1>9. StaticInfos
  BY <1>3 DEF StaticInfos
<1> QED
  BY <1>1, <1>4, <1>5, <1>6, <1>7, <1>8, <1>9 DEF Held

\* Time only makes ends pass.
LEMMA TickHeld == Held /\ TypeOK' /\ Tick => Held'
BY DEF Held, TypeOK, Tick, UsersOK, InfosOK, LoginsOK, RequestsOK, AloneOK,
       OneTokenPerUser, StaticLives, StaticInfos, Token

LEMMA ArriveHeld ==
    ASSUME Held, TypeOK', NEW r \in Requests, Arrive(r)
    PROVE  Held'
<1>1. PICK t \in DOMAIN infos :
          /\ OneAtATime => \A q \in DOMAIN requests : Token(q) # t
          /\ requests' = With(requests, r, [token |-> t, stage |-> "lookup"])
  BY DEF Arrive
<1>2. /\ DOMAIN requests' = DOMAIN requests \cup {r}
      /\ r \notin DOMAIN requests
      /\ requests'[r] = [token |-> t, stage |-> "lookup"]
      /\ \A q \in DOMAIN requests : requests'[q] = requests[q]
  BY <1>1 DEF Arrive, With
<1>3. UNCHANGED <<tokens, users, infos, now, logins, used>>
  BY DEF Arrive
<1>4. AloneOK'
  BY <1>1, <1>2, <1>3 DEF Held, AloneOK, Token
<1>5. RequestsOK'
  BY <1>2, <1>3 DEF Held, RequestsOK, Token
<1> QED
  BY <1>3, <1>4, <1>5 DEF Held, UsersOK, InfosOK, LoginsOK, OneTokenPerUser, StaticLives, StaticInfos

\* A step that moves a request on, or ends it, and touches no map.
LEMMA MoveHeld ==
    ASSUME Held, TypeOK', NEW r \in DOMAIN requests,
           UNCHANGED <<tokens, users, infos, now, logins>>,
           \/ requests' = Without(requests, r)
           \/ /\ DOMAIN requests' = DOMAIN requests
              /\ \A q \in DOMAIN requests : q # r => requests'[q] = requests[q]
              /\ requests'[r].token = Token(r)
              /\ \/ requests'[r].stage = "check" /\ Token(r) \in tokens
                 \/ /\ requests[r].stage = "check"
                    /\ Token(r) \notin Static
                    /\ \/ requests'[r].stage = "remove" /\ infos[Token(r)].expires < now
                       \/ requests'[r].stage = "slide",
           \A t \in DOMAIN infos \ Static : used'[t] = used[t]
    PROVE  Held'
<1>1. InfosOK'
  BY DEF Held, InfosOK, Never
<1>2. RequestsOK' /\ AloneOK'
  <2>1. CASE requests' = Without(requests, r)
    BY <2>1 DEF Held, RequestsOK, AloneOK, Token, Without
  <2>2. CASE requests' # Without(requests, r)
    <3>1. \A q \in DOMAIN requests : requests'[q].token = requests[q].token
      BY <2>2 DEF Token
    <3>2. RequestsOK'
      BY <2>2, <3>1 DEF Held, RequestsOK, Token
    <3>3. AloneOK'
      BY <2>2, <3>1 DEF Held, AloneOK, Token
    <3> QED
      BY <3>2, <3>3
  <2> QED
    BY <2>1, <2>2
<1> QED
  BY <1>1, <1>2 DEF Held, UsersOK, LoginsOK, OneTokenPerUser, StaticLives, StaticInfos

LEMMA LookupHeld ==
    ASSUME Held, TypeOK', NEW r \in Requests, Lookup(r)
    PROVE  Held'
<1>1. r \in DOMAIN requests /\ UNCHANGED <<tokens, users, infos, now, logins>>
      /\ UNCHANGED used
  BY DEF Lookup, At, Reject
<1>2. CASE Token(r) \in tokens
  <2>1. /\ requests' = [requests EXCEPT ![r].stage = "check"]
        /\ requests[r] \in [token: DOMAIN infos,
                            stage: {"lookup", "check", "remove", "slide"}]
    BY <1>1, <1>2 DEF Lookup, Goto, Held, TypeOK
  <2>2. /\ DOMAIN requests' = DOMAIN requests
        /\ \A q \in DOMAIN requests : q # r => requests'[q] = requests[q]
        /\ requests'[r].token = Token(r)
        /\ requests'[r].stage = "check"
    BY <1>1, <2>1 DEF Token
  <2> QED
    BY <1>1, <1>2, <2>2, MoveHeld
<1>3. CASE Token(r) \notin tokens
  BY <1>1, <1>3, MoveHeld DEF Lookup, Reject
<1> QED
  BY <1>2, <1>3

LEMMA CheckHeld ==
    ASSUME Held, TypeOK', NEW r \in Requests, Check(r)
    PROVE  Held'
<1>1. /\ r \in DOMAIN requests /\ requests[r].stage = "check"
      /\ UNCHANGED <<tokens, users, infos, now, logins>>
  BY DEF Check, At
<1>2. /\ requests[r] \in [token: DOMAIN infos,
                          stage: {"lookup", "check", "remove", "slide"}]
      /\ Token(r) \in DOMAIN infos
      /\ infos[Token(r)].expires \in Nat /\ now \in Nat
  BY <1>1 DEF Held, TypeOK, Token
<1>3. Token(r) \in Static <=> infos[Token(r)].expires = Never
  BY <1>2 DEF Held, InfosOK, Never
<1>4. ASSUME NEW s, requests' = [requests EXCEPT ![r].stage = s]
      PROVE  /\ DOMAIN requests' = DOMAIN requests
             /\ \A q \in DOMAIN requests : q # r => requests'[q] = requests[q]
             /\ requests'[r].token = Token(r)
             /\ requests'[r].stage = s
  BY <1>1, <1>2, <1>4 DEF Token
<1>5. CASE IsExpired(Token(r))
  <2>1. infos[Token(r)].expires < now /\ Token(r) \notin Static
    BY <1>2, <1>3, <1>5 DEF IsExpired
  <2>2. requests' = [requests EXCEPT ![r].stage = "remove"] /\ UNCHANGED used
    BY <1>5 DEF Check, Goto
  <2> QED
    BY <1>1, <1>4, <2>1, <2>2, MoveHeld
<1>6. CASE ~IsExpired(Token(r)) /\ infos[Token(r)].expires = Never
  <2>1. requests' = Without(requests, r)
    BY <1>6 DEF Check, Accept
  <2>2. \A t \in DOMAIN infos \ Static : used'[t] = used[t]
    BY <1>3, <1>6 DEF Check, Accept, Held, TypeOK
  <2> QED
    BY <1>1, <2>1, <2>2, MoveHeld
<1>7. CASE ~IsExpired(Token(r)) /\ infos[Token(r)].expires # Never
  <2>1. requests' = [requests EXCEPT ![r].stage = "slide"] /\ UNCHANGED used
    BY <1>7 DEF Check, Goto
  <2> QED
    BY <1>1, <1>3, <1>4, <1>7, <2>1, MoveHeld
<1> QED
  BY <1>5, <1>6, <1>7

LEMMA RemoveHeld ==
    ASSUME Held, TypeOK', NEW r \in Requests, Remove(r)
    PROVE  Held'
<1>1. /\ r \in DOMAIN requests /\ requests[r].stage = "remove"
      /\ tokens' = tokens \ {Token(r)}
      /\ requests' = Without(requests, r)
      /\ UNCHANGED <<users, infos, now, logins, used>>
  BY DEF Remove, At, Reject
<1>2. /\ DOMAIN requests' = DOMAIN requests \ {r}
      /\ \A q \in DOMAIN requests' : requests'[q] = requests[q]
  BY <1>1 DEF Without
<1>3. Token(r) \notin Static
  BY <1>1 DEF Held, RequestsOK
<1>4. AloneOK'
  BY <1>1, <1>2 DEF Held, AloneOK, Token
<1>5. StaticLives'
  BY <1>1, <1>3 DEF Held, StaticLives, Static
<1>6. RequestsOK'
  BY <1>1, <1>2 DEF Held, RequestsOK, Token
<1> QED
  BY <1>1, <1>4, <1>5, <1>6 DEF Held, UsersOK, InfosOK, LoginsOK, OneTokenPerUser, StaticInfos

LEMMA SlideHeld ==
    ASSUME Held, TypeOK', NEW r \in Requests, Slide(r)
    PROVE  Held'
<1> DEFINE t == Token(r)
<1>1. /\ r \in DOMAIN requests /\ requests[r].stage = "slide"
      /\ t \in DOMAIN infos /\ t \notin Static
      /\ now \in Nat \ {0} /\ TTL \in Nat
  BY TokensAssumption DEF Slide, At, Held, TypeOK, Token, RequestsOK
<1>2. /\ DOMAIN infos' = DOMAIN infos
      /\ infos'[t].expires = now + TTL
      /\ \A s \in DOMAIN infos : infos'[s].user = infos[s].user
      /\ \A s \in DOMAIN infos : s # t => infos'[s] = infos[s]
  BY <1>1 DEF Slide, Held, TypeOK
<1>3. /\ used'[t] = now
      /\ \A s \in DOMAIN infos : s # t => used'[s] = used[s]
  BY <1>1 DEF Slide, Accept, Held, TypeOK
<1>4. /\ DOMAIN requests' = DOMAIN requests \ {r}
      /\ \A q \in DOMAIN requests' : requests'[q] = requests[q]
  BY DEF Slide, Accept, Without
<1>5. UNCHANGED <<tokens, users, now, logins>>
  BY DEF Slide
<1>6. \A q \in DOMAIN requests : requests[q].token \in DOMAIN infos
  BY DEF Held, TypeOK
<1>7. \A u \in DOMAIN users : users[u] \in DOMAIN infos /\ infos[users[u]].user = u
  BY DEF Held, TypeOK, UsersOK
<1>8. OneAtATime => /\ \A q \in DOMAIN requests' : requests[q].token # t
                    /\ t \in tokens \/ users[infos[t].user] # t
  BY <1>1, <1>4 DEF Held, AloneOK, Token
<1> HIDE DEF t
<1>9. InfosOK'
  BY <1>1, <1>2, <1>3 DEF Held, InfosOK
<1>10. UsersOK' /\ OneTokenPerUser'
  BY <1>2, <1>5, <1>7 DEF Held, TypeOK, UsersOK, OneTokenPerUser
<1>11. AloneOK'
  <2> SUFFICES ASSUME OneAtATime PROVE AloneOK'
    BY DEF AloneOK
  <2>1. \A q \in DOMAIN requests' : /\ requests'[q] = requests[q]
                                    /\ infos'[requests[q].token] = infos[requests[q].token]
    BY <1>2, <1>4, <1>6, <1>8
  <2>2. \A u \in DOMAIN users : users[u] = t => t \in tokens
    BY <1>7, <1>8
  <2>3. \A u \in DOMAIN users : users[u] \in tokens \/ infos'[users[u]].expires < now
    BY <1>2, <1>7, <2>2 DEF Held, AloneOK
  <2> QED
    BY <1>4, <1>5, <2>1, <2>3 DEF Held, AloneOK, Token
<1>12. RequestsOK' /\ LoginsOK' /\ StaticLives'
  BY <1>2, <1>4, <1>5 DEF Held, RequestsOK, LoginsOK, StaticLives, Token
<1>13. StaticInfos'
  BY <1>2 DEF Held, TypeOK, StaticInfos, Static
<1> QED
  BY <1>9, <1>10, <1>11, <1>12, <1>13 DEF Held

LEMMA GrantHeld ==
    ASSUME Held, TypeOK', NEW l \in Logins, Grant(l)
    PROVE  Held'
<1>1. PICK u \in Users, t \in TokenStrings \ (DOMAIN infos \cup Static) :
          /\ \A k \in DOMAIN logins : logins[k].token # t
          /\ logins' = With(logins, l, [user |-> u, token |-> t, at |-> now])
  BY DEF Grant
<1>2. /\ DOMAIN logins' = DOMAIN logins \cup {l}
      /\ l \notin DOMAIN logins
      /\ logins'[l].token = t
      /\ \A k \in DOMAIN logins : logins'[k] = logins[k]
  BY <1>1 DEF Grant, With
<1>3. UNCHANGED <<tokens, users, infos, now, requests, used>>
  BY DEF Grant
<1>4. LoginsOK'
  BY <1>1, <1>2, <1>3 DEF Held, LoginsOK
<1> QED
  BY <1>3, <1>4 DEF Held, UsersOK, InfosOK, RequestsOK, AloneOK, OneTokenPerUser,
                    StaticLives, StaticInfos, Token

LEMMA SwapHeld ==
    ASSUME Held, TypeOK', NEW l \in Logins, Swap(l)
    PROVE  Held'
<1> DEFINE u == logins[l].user
           t == logins[l].token
<1>1. /\ l \in DOMAIN logins /\ u \in Users /\ t \notin DOMAIN infos
      /\ logins[l].at \in Nat \ {0} /\ TTL \in Nat
      /\ DOMAIN used = DOMAIN infos
      /\ \A k \in DOMAIN logins : logins[k].token = t => k = l
  BY TokensAssumption DEF Swap, Held, TypeOK, LoginsOK
<1>2. /\ tokens' = (tokens \ {users[v] : v \in {u} \cap DOMAIN users}) \cup {t}
      /\ DOMAIN users' = DOMAIN users \cup {u}
      /\ users'[u] = t
      /\ \A v \in DOMAIN users : v # u => users'[v] = users[v]
  BY DEF Swap, With
<1>3. /\ DOMAIN infos' = DOMAIN infos \cup {t}
      /\ infos'[t] = [user |-> u, expires |-> logins[l].at + TTL]
      /\ \A s \in DOMAIN infos : infos'[s] = infos[s]
      /\ used'[t] = logins[l].at
      /\ \A s \in DOMAIN infos : used'[s] = used[s]
  BY <1>1 DEF Swap, With
<1>4. /\ DOMAIN logins' = DOMAIN logins \ {l}
      /\ \A k \in DOMAIN logins' : logins'[k] = logins[k]
  BY DEF Swap, Without
<1>5. now' = now /\ requests' = requests
  BY DEF Swap
<1>6. \A v \in DOMAIN users : users[v] \in DOMAIN infos /\ infos[users[v]].user = v
  BY DEF Held, TypeOK, UsersOK
<1>7. \A q \in DOMAIN requests : requests[q].token \in DOMAIN infos
  BY DEF Held, TypeOK
<1>8. Static \subseteq DOMAIN infos /\ tokens \subseteq DOMAIN infos
  BY DEF Held, TypeOK
<1>9. \A k \in DOMAIN logins : logins[k].token \notin DOMAIN infos
  BY DEF Held, LoginsOK
<1>10. \A s \in tokens : infos[s].user \in DOMAIN users /\ users[infos[s].user] = s
  BY DEF Held, UsersOK, OneTokenPerUser
<1>11. \A s \in tokens' \ {t} : s \in tokens /\ infos[s].user # u
  BY <1>2, <1>10
<1> HIDE DEF u, t
<1>12. UsersOK'
  <2>1. StaticUsers \subseteq DOMAIN users'
    BY <1>2 DEF Held, UsersOK
  <2>2. \A v \in DOMAIN users' : infos'[users'[v]].user = v
    BY <1>2, <1>3, <1>6
  <2>3. \A s \in tokens' : infos'[s].user \in DOMAIN users'
    BY <1>2, <1>3, <1>8, <1>10, <1>11
  <2> QED
    BY <2>1, <2>2, <2>3 DEF UsersOK
<1>13. InfosOK'
  BY <1>1, <1>3, <1>8 DEF Held, InfosOK, Never
<1>14. LoginsOK'
  BY <1>1, <1>3, <1>4, <1>9 DEF Held, LoginsOK
<1>15. RequestsOK'
  BY <1>5 DEF Held, RequestsOK, Token
<1>16. \A v \in DOMAIN users : v # u /\ users[v] \in tokens => users[v] \in tokens'
  BY <1>2, <1>6
<1>17. AloneOK'
  <2>0. ASSUME OneAtATime, NEW q \in DOMAIN requests,
               requests[q].stage \in {"check", "slide"}
        PROVE  \/ requests[q].token \in tokens
               \/ /\ infos[requests[q].token].user \in DOMAIN users
                  /\ users[infos[requests[q].token].user] # requests[q].token
    BY <2>0 DEF Held, AloneOK, Token
  <2> SUFFICES ASSUME OneAtATime PROVE AloneOK'
    BY DEF AloneOK
  <2>1. \A v \in DOMAIN users' : users'[v] \in tokens' \/ infos'[users'[v]].expires < now
    BY <1>2, <1>3, <1>6, <1>16 DEF Held, AloneOK
  <2>2. ASSUME NEW q \in DOMAIN requests, requests[q].stage \in {"check", "slide"}
        PROVE  \/ requests[q].token \in tokens'
               \/ /\ infos'[requests[q].token].user \in DOMAIN users'
                  /\ users'[infos'[requests[q].token].user] # requests[q].token
    <3> DEFINE s == requests[q].token
    <3>1. s \in DOMAIN infos /\ s # t /\ infos'[s] = infos[s]
      BY <1>1, <1>3, <1>7
    <3>2. s \in tokens \/ (infos[s].user \in DOMAIN users /\ users[infos[s].user] # s)
      BY <2>0, <2>2
    <3>3. CASE infos[s].user = u
      BY <1>2, <3>1, <3>3
    <3>4. CASE infos[s].user # u /\ s \in tokens
      <4>1. users[infos[s].user] = s /\ infos[s].user \in DOMAIN users
        BY <1>10, <3>4
      <4> QED
        BY <1>16, <3>4, <4>1
    <3>5. CASE infos[s].user # u /\ s \notin tokens
      BY <1>2, <3>1, <3>2, <3>5
    <3> QED
      BY <3>3, <3>4, <3>5
  <2> QED
    BY <1>3, <1>5, <1>7, <2>1, <2>2 DEF Held, AloneOK, Token
<1>18. OneTokenPerUser'
  <2> SUFFICES ASSUME NEW s \in tokens' PROVE users'[infos'[s].user] = s
    BY DEF OneTokenPerUser
  <2>1. CASE s = t
    BY <1>2, <1>3, <2>1
  <2>2. CASE s # t
    <3>1. s \in tokens /\ infos[s].user # u /\ infos'[s] = infos[s]
      BY <1>3, <1>8, <1>11, <2>2
    <3>2. users[infos[s].user] = s
      BY <1>10, <3>1
    <3> QED
      BY <1>2, <1>10, <3>1, <3>2
  <2> QED
    BY <2>1, <2>2
<1>19. StaticLives'
  <2>1. ASSUME NEW v \in StaticUsers, users'[v] = StaticToken[v]
        PROVE  StaticToken[v] \in tokens'
    <3>1. v \in DOMAIN users /\ StaticToken[v] \in DOMAIN infos
      BY <1>8 DEF Held, UsersOK, Static
    <3>2. v # u
      BY <1>1, <1>2, <2>1, <3>1 DEF t
    <3> QED
      BY <1>2, <1>16, <2>1, <3>1, <3>2 DEF Held, StaticLives
  <2> QED
    BY <2>1 DEF StaticLives
<1>20. StaticInfos'
  BY <1>3, <1>8 DEF Held, StaticInfos, Static
<1> QED
  BY <1>12, <1>13, <1>14, <1>15, <1>17, <1>18, <1>19, <1>20 DEF Held

LEMMA RestartHeld == Held /\ TypeOK' /\ Restart => Held'
<1> SUFFICES ASSUME Held, TypeOK', Restart PROVE Held'
  OBVIOUS
<1> USE TokensAssumption
<1>1. UNCHANGED <<infos, now, used>> /\ tokens' = Static /\ users' = StaticToken
      /\ DOMAIN requests' = {} /\ DOMAIN logins' = {}
  BY DEF Restart
<1>2. \A u \in StaticUsers :
          /\ StaticToken[u] \in Static
          /\ infos[StaticToken[u]].user = u
  BY DEF Static, Held, StaticInfos
<1>3. UsersOK'
  BY <1>1, <1>2 DEF UsersOK, Static
<1>4. OneTokenPerUser' /\ StaticLives'
  BY <1>1, <1>2 DEF OneTokenPerUser, StaticLives, Static
<1>5. InfosOK' /\ LoginsOK' /\ RequestsOK'
  BY <1>1 DEF Held, InfosOK, LoginsOK, RequestsOK
<1>6. AloneOK'
  BY <1>1, <1>2 DEF AloneOK
<1>7. StaticInfos'
  BY <1>1 DEF Held, StaticInfos
<1> QED
  BY <1>3, <1>4, <1>5, <1>6, <1>7 DEF Held

\* The invariant holds in every reachable state.
THEOREM MapsAgree == Spec => []Held
<1>1. Held /\ [Next]_vars => Held'
  <2> SUFFICES ASSUME Held, [Next]_vars PROVE Held'
    OBVIOUS
  <2>1. TypeOK'
    BY NextType DEF Held
  <2>2. CASE UNCHANGED vars
    BY <2>1, <2>2 DEF vars, Held, UsersOK, InfosOK, LoginsOK, RequestsOK, AloneOK,
                      OneTokenPerUser, StaticLives, StaticInfos, Token
  <2> QED
    BY <2>1, <2>2, TickHeld, ArriveHeld, LookupHeld, CheckHeld, RemoveHeld, SlideHeld,
       GrantHeld, SwapHeld, RestartHeld DEF Next
<1> QED
  BY <1>1, InitHeld, PTL DEF Spec

-----------------------------------------------------------------------------

\* All variables keep their shape: no request or login ever acts on a token
\* that has no info.
THEOREM TokensTyped == Spec => []TypeOK
BY MapsAgree, PTL DEF Held

\* The maps tokens and users agree: every token that works is its user's
\* last one.
THEOREM OneTokenForEachUser == Spec => []OneTokenPerUser
BY MapsAgree, PTL DEF Held

\* No request, whatever it read before, removes a configured token.
THEOREM StaticTokensLive == Spec => []StaticLives
BY MapsAgree, PTL DEF Held

\* If no token is used by two requests at once, a token works for the TTL
\* after each use.
THEOREM UsedTokensLive ==
    ASSUME OneAtATime
    PROVE  Spec => []UsedLives
<1>1. Held => UsedLives
  <2> SUFFICES ASSUME Held, NEW u \in DOMAIN users,
                      now <= used[users[u]] + TTL, users[u] \notin tokens
               PROVE  FALSE
    BY DEF UsedLives
  <2>1. /\ users[u] \in DOMAIN infos
        /\ infos[users[u]].expires < now
        /\ infos[users[u]].user = u
        /\ used[users[u]] \in Nat /\ TTL \in Nat /\ now \in Nat
    BY TokensAssumption DEF Held, TypeOK, UsersOK, AloneOK
  <2>2. CASE users[u] \notin Static
    BY <2>1, <2>2 DEF Held, InfosOK
  <2>3. CASE users[u] \in Static
    <3>1. PICK v \in StaticUsers : StaticToken[v] = users[u]
      BY <2>3 DEF Static
    <3>2. v = u
      BY <2>1, <3>1 DEF Held, StaticInfos
    <3> QED
      BY <3>1, <3>2 DEF Held, StaticLives
  <2> QED
    BY <2>2, <2>3
<1> QED
  BY <1>1, MapsAgree, PTL
=============================================================================
