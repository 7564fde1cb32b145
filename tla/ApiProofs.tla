------------------------------- MODULE ApiProofs ------------------------------
(***************************************************************************)
(* Theorems about the HTTP server: the middleware that lets requests in    *)
(* (Auth), and what the handlers behind it do (Api).  The two models share *)
(* no state; each has its inductive invariant, and its theorems are about  *)
(* its own specification.                                                  *)
(*                                                                         *)
(* Auth, for any secrets, any configurations, any browsers and any number  *)
(* of reloads: an answer is right for a secret that was in force during    *)
(* the request, and a browser keeps its cookie for as long as the server   *)
(* honours the token in it.  The middleware reads the secret without a     *)
(* lock, so a reload may store another one between two steps of a request: *)
(* the invariant says at each step what the request remembers and which of *)
(* it has been true.                                                       *)
(*                                                                         *)
(* Api, for any requests, jobs and connections, and a device that answers  *)
(* or not: a command belongs to the request or to the job's goroutine that *)
(* waits for it, and to nobody later, since an instance's number is not    *)
(* used again.                                                             *)
(***************************************************************************)
EXTENDS Auth, Api, FiniteSetTheorems, TLAPS

-----------------------------------------------------------------------------
(* Secrets and sessions. *)

Keys == Secrets \cup {NoSecret}

StepNames == {"controller", "device", "http", "ttl"}

SentToken == Tokens \cup {NoCookie}

Credentials == [header : Keys, bearer : SentToken, cookie : SentToken, marked : BOOLEAN]

\* Authenticates, at a given time.
Alive(token, key, time) == token # NoCookie /\ token.key = key /\ time < 2 * token.exp

AuthenticatesAt(cred, key, time) ==
  \/ cred.header = key
  \/ Alive(cred.bearer, key, time)
  \/ cred.marked /\ Alive(cred.cookie, key, time)

APIRequests ==
  [pc : {"handler", "authenticate", "passed", "refused"}, cred : Credentials, key : Keys,
   known : SUBSET Keys, since : Nat]

Passed(v) ==
  \E key \in v.known :
    \/ key = NoSecret
    \/ v.cred.header = key
    \/ \E t \in SentTokens(v.cred) : t.key = key /\ v.since < 2 * t.exp

\* A request to the API: the secret it was given when it asked for one was in force.
RequestOK(v, time, inForce) ==
  /\ v \in APIRequests
  /\ v.since <= time
  /\ inForce \in v.known
  /\ v.pc = "authenticate" => v.key \in v.known \ {NoSecret}
  /\ v.pc = "passed" => Passed(v)
  /\ v.pc = "refused" => \E key \in v.known \ {NoSecret} : ~ AuthenticatesAt(v.cred, key, time)

Logins ==
  [pc : {"login", "check", "ttl", "mint", "not enabled", "invalid secret"}, given : Keys,
   ttl : Nat, known : SUBSET Keys]

\* A login: the secret that was right at its check was in force.
LoginOK(v, inForce) ==
  /\ v \in Logins
  /\ inForce \in v.known
  /\ v.pc \in {"ttl", "mint"} => v.given \in v.known
  /\ v.pc = "not enabled" => NoSecret \in v.known
  /\ v.pc = "invalid secret" => \E key \in v.known : key = NoSecret \/ key # v.given

Sessions ==
  [pc : {"logged in"}, given : Keys, known : SUBSET Keys,
   cookie : [token : Tokens, maxAge : Nat], at : Nat]

\* The answer to a login, under way: Max-Age counts from when the token was made.
SessionOK(v, time, inForce) ==
  /\ v \in Sessions
  /\ v.at <= time
  /\ inForce \in v.known
  /\ v.given \in v.known
  /\ v.cookie.maxAge + v.at - 2 * v.cookie.token.exp \in -1..1

VisitOK(v, time, inForce) ==
  v = Idle \/ RequestOK(v, time, inForce) \/ LoginOK(v, inForce) \/ SessionOK(v, time, inForce)

\* What a browser has kept.
JarOK(j) ==
  j # NoCookie =>
    /\ j.token \in Tokens
    /\ j.until \in Int
    /\ j.until # NoEnd => j.until - j.delay - 2 * j.token.exp \in -1..1

OfBrowsers(f) == f = [b \in Browsers |-> f[b]]

VisitsOK == OfBrowsers(visit) /\ \A b \in Browsers : VisitOK(visit[b], now, InForce)

JarsOK == OfBrowsers(jar) /\ \A b \in Browsers : JarOK(jar[b])

\* The parts of App.reload that are still to come.
ReloadTyped == reload \in [to : AuthConfigs, left : Seq(StepNames)]

AuthInv == AuthTypeOK /\ ReloadTyped /\ VisitsOK /\ JarsOK

-----------------------------------------------------------------------------
(* Times. *)

LEMMA SecondsNat == ASSUME NEW t \in Nat PROVE Seconds(t) \in Nat
  BY DEF Seconds

\* int(ttl.Seconds()) seconds after the token was made are its expiry, up to one half second.
LEMMA CookieAligned ==
  ASSUME NEW t \in Nat, NEW ttl \in Nat
  PROVE  2 * Seconds(ttl) + t - 2 * Seconds(t + ttl) \in -1..1
  BY DEF Seconds

LEMMA AuthenticatesNow ==
  ASSUME NEW cred, NEW key
  PROVE  Authenticates(cred, key) <=> AuthenticatesAt(cred, key, now)
  BY DEF Authenticates, AuthenticatesAt, VerifyToken, Alive

\* A token does not come alive again.
LEMMA StaysRefused ==
  ASSUME NEW cred \in Credentials, NEW key, NEW t \in Nat, NEW u \in Nat, t <= u,
         ~ AuthenticatesAt(cred, key, t)
  PROVE  ~ AuthenticatesAt(cred, key, u)
<1>1. ASSUME NEW token \in SentToken, Alive(token, key, u)
      PROVE  Alive(token, key, t)
  <2>1. token \in Tokens
    BY <1>1 DEF Alive, SentToken
  <2>2. token.exp \in Nat
    BY <2>1 DEF Tokens
  <2> QED BY <1>1, <2>2 DEF Alive
<1>2. cred.bearer \in SentToken /\ cred.cookie \in SentToken
  BY DEF Credentials
<1> QED BY <1>1, <1>2 DEF AuthenticatesAt

-----------------------------------------------------------------------------
(* A visit while something else happens. *)

\* While time passes a visit stays as it is.
LEMMA TimePasses ==
  ASSUME NEW v, NEW s, NEW t \in Nat, NEW u \in Nat, t <= u, VisitOK(v, t, s)
  PROVE  VisitOK(v, u, s)
<1>1. CASE v = Idle
  BY <1>1 DEF VisitOK
<1>2. CASE RequestOK(v, t, s)
  <2>1. v.since \in Nat /\ v.cred \in Credentials
    BY <1>2 DEF RequestOK, APIRequests
  <2>2. v.since <= u
    BY <1>2, <2>1 DEF RequestOK
  <2>3. ASSUME v.pc = "refused"
        PROVE  \E key \in v.known \ {NoSecret} : ~ AuthenticatesAt(v.cred, key, u)
    <3>1. PICK key \in v.known \ {NoSecret} : ~ AuthenticatesAt(v.cred, key, t)
      BY <1>2, <2>3 DEF RequestOK
    <3>2. ~ AuthenticatesAt(v.cred, key, u)
      BY <3>1, <2>1, StaysRefused
    <3> QED BY <3>1, <3>2
  <2>4. RequestOK(v, u, s)
    BY <1>2, <2>2, <2>3 DEF RequestOK
  <2> QED BY <2>4 DEF VisitOK
<1>3. CASE LoginOK(v, s)
  BY <1>3 DEF VisitOK
<1>4. CASE SessionOK(v, t, s)
  <2>1. v.at \in Nat
    BY <1>4 DEF SessionOK, Sessions
  <2>2. SessionOK(v, u, s)
    BY <1>4, <2>1 DEF SessionOK
  <2> QED BY <2>2 DEF VisitOK
<1> QED BY <1>1, <1>2, <1>3, <1>4 DEF VisitOK

\* A new secret adds to what was in force during the visit.
LEMMA SecretChanges ==
  ASSUME NEW v, NEW s, NEW t, NEW key \in Keys, VisitOK(v, t, s), v # Idle
  PROVE  VisitOK([v EXCEPT !.known = @ \cup {key}], t, key)
<1> DEFINE w == [v EXCEPT !.known = @ \cup {key}]
<1>1. CASE RequestOK(v, t, s)
  <2>1. v \in APIRequests
    BY <1>1 DEF RequestOK
  <2>2. /\ w \in APIRequests
        /\ w.pc = v.pc /\ w.cred = v.cred /\ w.key = v.key /\ w.since = v.since
        /\ w.known = v.known \cup {key}
    BY <2>1 DEF APIRequests
  <2>3. Passed(v) => Passed(w)
    BY <2>2 DEF Passed
  <2>4. RequestOK(w, t, key)
    BY <1>1, <2>2, <2>3 DEF RequestOK
  <2> QED BY <2>4 DEF VisitOK
<1>2. CASE LoginOK(v, s)
  <2>1. v \in Logins
    BY <1>2 DEF LoginOK
  <2>2. /\ w \in Logins
        /\ w.pc = v.pc /\ w.given = v.given
        /\ w.known = v.known \cup {key}
    BY <2>1 DEF Logins
  <2>3. LoginOK(w, key)
    BY <1>2, <2>2 DEF LoginOK
  <2> QED BY <2>3 DEF VisitOK
<1>3. CASE SessionOK(v, t, s)
  <2>1. v \in Sessions
    BY <1>3 DEF SessionOK
  <2>2. /\ w \in Sessions
        /\ w.cookie = v.cookie /\ w.at = v.at /\ w.given = v.given
        /\ w.known = v.known \cup {key}
    BY <2>1 DEF Sessions
  <2>3. SessionOK(w, t, key)
    BY <1>3, <2>2 DEF SessionOK
  <2> QED BY <2>3 DEF VisitOK
<1> QED BY <1>1, <1>2, <1>3 DEF VisitOK

-----------------------------------------------------------------------------
(* A step of a visit. *)

LEMMA CurrentTypes ==
  ASSUME AuthInv
  PROVE  InForce \in Keys /\ now \in Nat /\ SessionTTL \in Nat
<1>1. secret["http"] \in Keys
  BY DEF AuthInv, AuthTypeOK, Keys, Listeners
<1>2. now \in Nat
  BY AuthAssumption DEF AuthInv, AuthTypeOK
<1>3. SessionTTL \in Nat
  BY AuthAssumption DEF AuthInv, AuthTypeOK, SessionTTL
<1> QED BY <1>1, <1>2, <1>3 DEF InForce

\* A step of one browser keeps the invariant when what it leaves behind is in order.
LEMMA VisitKeeps ==
  ASSUME AuthInv, NEW b \in Browsers, NEW next, Visit(b, next),
         VisitOK(next, now, InForce),
         jar' = jar \/ \E j : JarOK(j) /\ jar' = [jar EXCEPT ![b] = j]
  PROVE  AuthInv'
<1>1. /\ visit' = [visit EXCEPT ![b] = next]
      /\ UNCHANGED <<secret, sessionTTL, reload, reloads, now>>
  BY DEF Visit
<1>2. OfBrowsers(visit) /\ \A x \in Browsers : VisitOK(visit[x], now, InForce)
  BY DEF AuthInv, VisitsOK
<1>3. /\ OfBrowsers(visit')
      /\ \A x \in Browsers : visit'[x] = IF x = b THEN next ELSE visit[x]
  BY <1>1, <1>2 DEF OfBrowsers
<1>4. now' = now /\ InForce' = InForce
  BY <1>1 DEF InForce
<1>5. \A x \in Browsers : VisitOK(visit'[x], now', InForce')
  BY <1>2, <1>3, <1>4
<1>6. VisitsOK'
  BY <1>3, <1>5 DEF VisitsOK
<1>7. OfBrowsers(jar) /\ \A x \in Browsers : JarOK(jar[x])
  BY DEF AuthInv, JarsOK
<1>8. JarsOK'
  <2>1. CASE jar' = jar
    BY <1>7, <2>1 DEF JarsOK
  <2>2. ASSUME NEW j, JarOK(j), jar' = [jar EXCEPT ![b] = j]
        PROVE  JarsOK'
    <3>1. /\ OfBrowsers(jar')
          /\ \A x \in Browsers : jar'[x] = IF x = b THEN j ELSE jar[x]
      BY <1>7, <2>2 DEF OfBrowsers
    <3>2. \A x \in Browsers : JarOK(jar'[x])
      BY <1>7, <2>2, <3>1
    <3> QED BY <3>1, <3>2 DEF JarsOK
  <2> QED BY <2>1, <2>2
<1>9. \A x \in Browsers : jar'[x] # NoCookie => jar'[x].token \in Tokens
  BY <1>8 DEF JarsOK, JarOK
<1>10. AuthTypeOK'
  BY <1>1, <1>9 DEF AuthInv, AuthTypeOK
<1>11. ReloadTyped'
  BY <1>1 DEF AuthInv, ReloadTyped
<1> QED BY <1>6, <1>8, <1>10, <1>11 DEF AuthInv

\* The browser sends a token, or none.
LEMMA CookieSent ==
  ASSUME AuthInv, NEW b \in Browsers
  PROVE  CookieOf(b) \in SentToken
  BY DEF AuthInv, JarsOK, JarOK, CookieOf, SentToken

LEMMA ArriveKeeps ==
  ASSUME AuthInv, NEW b \in Browsers, NEW cred \in Credentials, Arrive(b, cred)
  PROVE  AuthInv'
<1> DEFINE next == [pc |-> "handler", cred |-> cred, key |-> NoSecret, known |-> {InForce},
                    since |-> now]
<1>1. Visit(b, next) /\ jar' = jar
  BY DEF Arrive
<1>2. InForce \in Keys /\ now \in Nat
  BY CurrentTypes
<1>3. next \in APIRequests
  BY <1>2 DEF APIRequests, Keys
<1>4. RequestOK(next, now, InForce)
  BY <1>2, <1>3 DEF RequestOK
<1>5. VisitOK(next, now, InForce)
  BY <1>4 DEF VisitOK
<1> HIDE DEF next
<1> QED BY <1>1, <1>5, VisitKeeps

LEMMA AskKeeps ==
  ASSUME AuthInv, NEW b \in Browsers, Ask(b)
  PROVE  AuthInv'
<1>1. CookieOf(b) \in SentToken /\ NoCookie \in SentToken /\ NoSecret \in Keys
  BY CookieSent DEF SentToken, Keys
<1>2. ASSUME NEW s \in Secrets, Arrive(b, [NoCredential EXCEPT !.header = s])
      PROVE  AuthInv'
  <2>1. [NoCredential EXCEPT !.header = s] \in Credentials
    BY <1>1 DEF NoCredential, Credentials, Keys
  <2> QED BY <1>2, <2>1, ArriveKeeps
<1>3. CASE Arrive(b, [NoCredential EXCEPT !.bearer = CookieOf(b)])
  <2>1. [NoCredential EXCEPT !.bearer = CookieOf(b)] \in Credentials
    BY <1>1 DEF NoCredential, Credentials
  <2> QED BY <1>3, <2>1, ArriveKeeps
<1>4. ASSUME NEW marked \in BOOLEAN,
             Arrive(b, [NoCredential EXCEPT !.cookie = CookieOf(b), !.marked = marked])
      PROVE  AuthInv'
  <2>1. [NoCredential EXCEPT !.cookie = CookieOf(b), !.marked = marked] \in Credentials
    BY <1>1 DEF NoCredential, Credentials
  <2> QED BY <1>4, <2>1, ArriveKeeps
<1> QED BY <1>2, <1>3, <1>4 DEF Ask

\* What the invariant says of a visit that is at a given step.
LEMMA AtRequest ==
  ASSUME AuthInv, NEW b \in Browsers, visit[b].pc \in {"handler", "authenticate"}
  PROVE  RequestOK(visit[b], now, InForce) /\ visit[b] \in APIRequests
<1>1. VisitOK(visit[b], now, InForce)
  BY DEF AuthInv, VisitsOK
<1>2. visit[b] # Idle
  BY DEF Idle
<1>3. ~ LoginOK(visit[b], InForce)
  BY DEF LoginOK, Logins
<1>4. ~ SessionOK(visit[b], now, InForce)
  BY DEF SessionOK, Sessions
<1> QED BY <1>1, <1>2, <1>3, <1>4 DEF VisitOK, RequestOK

LEMMA AtLogin ==
  ASSUME AuthInv, NEW b \in Browsers, visit[b].pc \in {"login", "check", "ttl", "mint"}
  PROVE  LoginOK(visit[b], InForce) /\ visit[b] \in Logins
<1>1. VisitOK(visit[b], now, InForce)
  BY DEF AuthInv, VisitsOK
<1>2. visit[b] # Idle
  BY DEF Idle
<1>3. ~ RequestOK(visit[b], now, InForce)
  BY DEF RequestOK, APIRequests
<1>4. ~ SessionOK(visit[b], now, InForce)
  BY DEF SessionOK, Sessions
<1> QED BY <1>1, <1>2, <1>3, <1>4 DEF VisitOK, LoginOK

\* A request is answered.
LEMMA AnsweredKeeps ==
  ASSUME AuthInv, NEW b \in Browsers, NEW answer \in {"passed", "refused"},
         visit[b].pc \in {"handler", "authenticate"},
         answer = "passed" => Passed(visit[b]),
         answer = "refused" => \E key \in visit[b].known \ {NoSecret} :
                                 ~ AuthenticatesAt(visit[b].cred, key, now),
         Answered(b, answer), jar' = jar
  PROVE  AuthInv'
<1> DEFINE v == visit[b]
           next == [v EXCEPT !.pc = answer, !.key = NoSecret]
<1>1. RequestOK(v, now, InForce) /\ v \in APIRequests
  BY AtRequest
<1>2. /\ next \in APIRequests
      /\ next.pc = answer /\ next.cred = v.cred /\ next.known = v.known /\ next.since = v.since
  BY <1>1 DEF APIRequests, Keys
<1>3. Passed(v) => Passed(next)
  BY <1>2 DEF Passed
<1>4. RequestOK(next, now, InForce)
  BY <1>1, <1>2, <1>3 DEF RequestOK
<1>5. VisitOK(next, now, InForce)
  BY <1>4 DEF VisitOK
<1>6. Visit(b, next)
  BY DEF Answered
<1> HIDE DEF next
<1> QED BY <1>5, <1>6, VisitKeeps

LEMMA LoadSecretKeeps ==
  ASSUME AuthInv, NEW b \in Browsers, LoadSecret(b)
  PROVE  AuthInv'
<1> DEFINE v == visit[b]
<1>1. v.pc = "handler" /\ jar' = jar
  BY DEF LoadSecret
<1>2. RequestOK(v, now, InForce) /\ v \in APIRequests
  BY <1>1, AtRequest
<1>3. CASE InForce = NoSecret
  <2>1. Passed(v)
    BY <1>2, <1>3 DEF Passed, RequestOK
  <2>2. Answered(b, "passed")
    BY <1>3 DEF LoadSecret
  <2> QED BY <1>1, <2>1, <2>2, AnsweredKeeps
<1>4. CASE InForce # NoSecret
  <2> DEFINE next == [v EXCEPT !.pc = "authenticate", !.key = InForce]
  <2>1. Visit(b, next)
    BY <1>4 DEF LoadSecret
  <2>2. InForce \in Keys
    BY CurrentTypes
  <2>3. /\ next \in APIRequests
        /\ next.pc = "authenticate" /\ next.key = InForce
        /\ next.known = v.known /\ next.since = v.since
    BY <1>2, <2>2 DEF APIRequests
  <2>4. RequestOK(next, now, InForce)
    BY <1>2, <1>4, <2>3 DEF RequestOK
  <2>5. VisitOK(next, now, InForce)
    BY <2>4 DEF VisitOK
  <2> HIDE DEF next
  <2> QED BY <1>1, <2>1, <2>5, VisitKeeps
<1> QED BY <1>3, <1>4

\* The token that let a request pass was alive when the request came.
LEMMA AuthenticateKeeps ==
  ASSUME AuthInv, NEW b \in Browsers, Authenticate(b)
  PROVE  AuthInv'
<1> DEFINE v == visit[b]
<1>1. v.pc = "authenticate" /\ jar' = jar
  BY DEF Authenticate
<1>2. RequestOK(v, now, InForce) /\ v \in APIRequests
  BY <1>1, AtRequest
<1>3. v.key \in v.known \ {NoSecret}
  BY <1>1, <1>2 DEF RequestOK
<1>4. CASE Authenticates(v.cred, v.key)
  <2>1. v.since \in Nat /\ v.since <= now /\ now \in Nat /\ v.cred \in Credentials
    BY <1>2, CurrentTypes DEF RequestOK, APIRequests
  <2>2. ASSUME NEW t \in SentToken, Alive(t, v.key, now)
        PROVE  t.key = v.key /\ v.since < 2 * t.exp /\ t # NoCookie
    <3>1. t \in Tokens
      BY <2>2 DEF Alive, SentToken
    <3>2. t.exp \in Nat
      BY <3>1 DEF Tokens
    <3> QED BY <2>1, <2>2, <3>2 DEF Alive
  <2>3. v.cred.bearer \in SentToken /\ v.cred.cookie \in SentToken
    BY <2>1 DEF Credentials
  <2>4. AuthenticatesAt(v.cred, v.key, now)
    BY <1>4, AuthenticatesNow
  <2>5. v.cred.header = v.key => Passed(v)
    BY <1>3 DEF Passed
  <2>6. ASSUME Alive(v.cred.bearer, v.key, now) PROVE Passed(v)
    <3>1. v.cred.bearer \in SentTokens(v.cred)
      BY <2>2, <2>3, <2>6 DEF SentTokens
    <3>2. v.cred.bearer.key = v.key /\ v.since < 2 * v.cred.bearer.exp
      BY <2>2, <2>3, <2>6
    <3> QED BY <1>3, <3>1, <3>2 DEF Passed
  <2>7. ASSUME v.cred.marked, Alive(v.cred.cookie, v.key, now) PROVE Passed(v)
    <3>1. v.cred.cookie \in SentTokens(v.cred)
      BY <2>2, <2>3, <2>7 DEF SentTokens
    <3>2. v.cred.cookie.key = v.key /\ v.since < 2 * v.cred.cookie.exp
      BY <2>2, <2>3, <2>7
    <3> QED BY <1>3, <3>1, <3>2 DEF Passed
  <2>8. Passed(v)
    BY <2>4, <2>5, <2>6, <2>7 DEF AuthenticatesAt
  <2>9. Answered(b, "passed")
    BY <1>4 DEF Authenticate
  <2> QED BY <1>1, <2>8, <2>9, AnsweredKeeps
<1>5. CASE ~ Authenticates(v.cred, v.key)
  <2>1. ~ AuthenticatesAt(v.cred, v.key, now)
    BY <1>5, AuthenticatesNow
  <2>2. Answered(b, "refused")
    BY <1>5 DEF Authenticate
  <2> QED BY <1>1, <1>3, <2>1, <2>2, AnsweredKeeps
<1> QED BY <1>4, <1>5

-----------------------------------------------------------------------------
(* A step of a login. *)

LEMMA LoginAnsweredKeeps ==
  ASSUME AuthInv, NEW b \in Browsers, NEW answer \in {"not enabled", "invalid secret"},
         visit[b].pc \in {"login", "check"},
         answer = "not enabled" => InForce = NoSecret,
         answer = "invalid secret" => InForce = NoSecret \/ visit[b].given # InForce,
         LoginAnswered(b, answer), jar' = jar
  PROVE  AuthInv'
<1> DEFINE v == visit[b]
           next == [v EXCEPT !.pc = answer, !.ttl = 0]
<1>1. LoginOK(v, InForce) /\ v \in Logins
  BY AtLogin
<1>2. /\ next \in Logins
      /\ next.pc = answer /\ next.given = v.given /\ next.known = v.known
  BY <1>1 DEF Logins
<1>3. LoginOK(next, InForce)
  BY <1>1, <1>2 DEF LoginOK
<1>4. VisitOK(next, now, InForce)
  BY <1>3 DEF VisitOK
<1>5. Visit(b, next)
  BY DEF LoginAnswered
<1> HIDE DEF next
<1> QED BY <1>4, <1>5, VisitKeeps

LEMMA BeginLoginKeeps ==
  ASSUME AuthInv, NEW b \in Browsers, NEW given \in Keys, BeginLogin(b, given)
  PROVE  AuthInv'
<1> DEFINE next == [pc |-> "login", given |-> given, ttl |-> 0, known |-> {InForce}]
<1>1. Visit(b, next) /\ jar' = jar
  BY DEF BeginLogin
<1>2. InForce \in Keys
  BY CurrentTypes
<1>3. LoginOK(next, InForce)
  BY <1>2 DEF LoginOK, Logins
<1>4. VisitOK(next, now, InForce)
  BY <1>3 DEF VisitOK
<1> HIDE DEF next
<1> QED BY <1>1, <1>4, VisitKeeps

LEMMA EnabledKeeps ==
  ASSUME AuthInv, NEW b \in Browsers, Enabled(b)
  PROVE  AuthInv'
<1> DEFINE v == visit[b]
<1>1. v.pc = "login" /\ jar' = jar
  BY DEF Enabled
<1>2. LoginOK(v, InForce) /\ v \in Logins
  BY <1>1, AtLogin
<1>3. CASE InForce = NoSecret
  BY <1>1, <1>3, LoginAnsweredKeeps DEF Enabled
<1>4. CASE InForce # NoSecret
  <2> DEFINE next == [v EXCEPT !.pc = "check"]
  <2>1. Visit(b, next)
    BY <1>4 DEF Enabled
  <2>2. next \in Logins /\ next.pc = "check" /\ next.known = v.known
    BY <1>2 DEF Logins
  <2>3. LoginOK(next, InForce)
    BY <1>2, <2>2 DEF LoginOK
  <2>4. VisitOK(next, now, InForce)
    BY <2>3 DEF VisitOK
  <2> HIDE DEF next
  <2> QED BY <1>1, <2>1, <2>4, VisitKeeps
<1> QED BY <1>3, <1>4

LEMMA CheckSecretKeeps ==
  ASSUME AuthInv, NEW b \in Browsers, CheckSecret(b)
  PROVE  AuthInv'
<1> DEFINE v == visit[b]
<1>1. v.pc = "check" /\ jar' = jar
  BY DEF CheckSecret
<1>2. LoginOK(v, InForce) /\ v \in Logins
  BY <1>1, AtLogin
<1>3. CASE InForce # NoSecret /\ v.given = InForce
  <2> DEFINE next == [v EXCEPT !.pc = "ttl"]
  <2>1. Visit(b, next)
    BY <1>3 DEF CheckSecret
  <2>2. next \in Logins /\ next.pc = "ttl" /\ next.given = v.given /\ next.known = v.known
    BY <1>2 DEF Logins
  <2>3. LoginOK(next, InForce)
    BY <1>2, <1>3, <2>2 DEF LoginOK
  <2>4. VisitOK(next, now, InForce)
    BY <2>3 DEF VisitOK
  <2> HIDE DEF next
  <2> QED BY <1>1, <2>1, <2>4, VisitKeeps
<1>4. CASE ~ (InForce # NoSecret /\ v.given = InForce)
  <2>1. LoginAnswered(b, "invalid secret")
    BY <1>4 DEF CheckSecret
  <2> QED BY <1>1, <1>4, <2>1, LoginAnsweredKeeps
<1> QED BY <1>3, <1>4

LEMMA LoadTTLKeeps ==
  ASSUME AuthInv, NEW b \in Browsers, LoadTTL(b)
  PROVE  AuthInv'
<1> DEFINE v == visit[b]
           next == [v EXCEPT !.pc = "mint", !.ttl = SessionTTL]
<1>1. v.pc = "ttl" /\ jar' = jar /\ Visit(b, next)
  BY DEF LoadTTL
<1>2. LoginOK(v, InForce) /\ v \in Logins
  BY <1>1, AtLogin
<1>3. SessionTTL \in Nat
  BY CurrentTypes
<1>4. next \in Logins /\ next.pc = "mint" /\ next.given = v.given /\ next.known = v.known
  BY <1>2, <1>3 DEF Logins
<1>5. LoginOK(next, InForce)
  BY <1>1, <1>2, <1>4 DEF LoginOK
<1>6. VisitOK(next, now, InForce)
  BY <1>5 DEF VisitOK
<1> HIDE DEF next
<1> QED BY <1>1, <1>6, VisitKeeps

\* The token and the cookie it comes in end together.
LEMMA MintSessionKeeps ==
  ASSUME AuthInv, NEW b \in Browsers, MintSession(b)
  PROVE  AuthInv'
<1> DEFINE v == visit[b]
           next == [pc |-> "logged in", given |-> v.given, known |-> v.known,
                    cookie |-> Cookie(v), at |-> now]
<1>1. v.pc = "mint" /\ jar' = jar /\ Visit(b, next)
  BY DEF MintSession
<1>2. LoginOK(v, InForce) /\ v \in Logins
  BY <1>1, AtLogin
<1>3. v.ttl \in Nat /\ v.given \in Keys /\ v.known \in SUBSET Keys
  BY <1>2 DEF Logins
<1>4. InForce \in Keys /\ now \in Nat
  BY CurrentTypes
<1>5. Seconds(now + v.ttl) \in Nat /\ Seconds(v.ttl) \in Nat
  BY <1>3, <1>4, SecondsNat
<1>6. /\ Cookie(v) \in [token : Tokens, maxAge : Nat]
      /\ Cookie(v).maxAge = 2 * Seconds(v.ttl)
      /\ Cookie(v).token.exp = Seconds(now + v.ttl)
  BY <1>4, <1>5 DEF Cookie, SessionCookie, MintToken, Tokens, Keys
<1>7. Cookie(v).maxAge + now - 2 * Cookie(v).token.exp \in -1..1
  BY <1>3, <1>4, <1>6, CookieAligned
<1>8. next \in Sessions
  BY <1>3, <1>4, <1>6 DEF Sessions
<1>9. v.given \in v.known /\ InForce \in v.known
  BY <1>1, <1>2 DEF LoginOK
<1>10. next.cookie = Cookie(v) /\ next.at = now /\ next.given = v.given /\ next.known = v.known
  OBVIOUS
<1> HIDE DEF next
<1>11. SessionOK(next, now, InForce)
  BY <1>4, <1>7, <1>8, <1>9, <1>10 DEF SessionOK
<1>12. VisitOK(next, now, InForce)
  BY <1>11 DEF VisitOK
<1> QED BY <1>1, <1>12, VisitKeeps

\* The browser counts Max-Age from when the cookie comes.
LEMMA LeaveKeeps ==
  ASSUME AuthInv, NEW b \in Browsers, Leave(b)
  PROVE  AuthInv'
<1> DEFINE v == visit[b]
<1>1. Visit(b, Idle) /\ VisitOK(Idle, now, InForce)
  BY DEF Leave, VisitOK
<1>2. CASE v.pc = "logged in"
  <2>1. VisitOK(v, now, InForce)
    BY DEF AuthInv, VisitsOK
  <2>2. v # Idle
    <3>1. Idle.pc # "logged in"
      BY DEF Idle
    <3> QED BY <1>2, <3>1
  <2>11. ~ RequestOK(v, now, InForce)
    BY <1>2 DEF RequestOK, APIRequests
  <2>12. ~ LoginOK(v, InForce)
    BY <1>2 DEF LoginOK, Logins
  <2>3. SessionOK(v, now, InForce)
    BY <2>1, <2>2, <2>11, <2>12 DEF VisitOK
  <2>4. /\ v.cookie.token \in Tokens /\ v.cookie.maxAge \in Nat /\ v.at \in Nat
        /\ v.cookie.maxAge + v.at - 2 * v.cookie.token.exp \in -1..1
    BY <2>3 DEF SessionOK, Sessions
  <2>5. v.cookie.token.exp \in Nat /\ now \in Nat
    BY <2>4, CurrentTypes DEF Tokens
  <2>6. /\ Stored(v).token = v.cookie.token
        /\ Stored(v).delay = now - v.at
        /\ Stored(v).until = IF v.cookie.maxAge = 0 THEN NoEnd ELSE now + v.cookie.maxAge
    BY DEF Stored
  <2>7. Stored(v).until \in Int
    BY <2>4, <2>5, <2>6 DEF NoEnd
  <2>8. Stored(v).until # NoEnd =>
          Stored(v).until - Stored(v).delay - 2 * Stored(v).token.exp \in -1..1
    BY <2>4, <2>5, <2>6
  <2>9. JarOK(Stored(v))
    BY <2>4, <2>6, <2>7, <2>8 DEF JarOK
  <2>10. jar' = [jar EXCEPT ![b] = Stored(v)]
    BY <1>2 DEF Leave
  <2> QED BY <1>1, <2>9, <2>10, VisitKeeps
<1>3. CASE v.pc # "logged in"
  BY <1>1, <1>3, VisitKeeps DEF Leave
<1> QED BY <1>2, <1>3

LEMMA LogoutKeeps ==
  ASSUME AuthInv, NEW b \in Browsers, Logout(b)
  PROVE  AuthInv'
<1>1. Visit(b, Idle) /\ VisitOK(Idle, now, InForce)
  BY DEF Logout, VisitOK
<1>2. JarOK(NoCookie) /\ jar' = [jar EXCEPT ![b] = NoCookie]
  BY DEF Logout, JarOK
<1> QED BY <1>1, <1>2, VisitKeeps

LEMMA VisitsKeep ==
  ASSUME AuthInv, Visits
  PROVE  AuthInv'
<1>1. PICK b \in Browsers :
        \/ Ask(b) \/ LoadSecret(b) \/ Authenticate(b)
        \/ \E given \in Secrets \cup {NoSecret} : BeginLogin(b, given)
        \/ Enabled(b) \/ CheckSecret(b) \/ LoadTTL(b) \/ MintSession(b)
        \/ Leave(b) \/ Logout(b)
  BY DEF Visits
<1>2. CASE Ask(b)
  BY <1>2, AskKeeps
<1>3. CASE LoadSecret(b)
  BY <1>3, LoadSecretKeeps
<1>4. CASE Authenticate(b)
  BY <1>4, AuthenticateKeeps
<1>5. CASE \E given \in Secrets \cup {NoSecret} : BeginLogin(b, given)
  BY <1>5, BeginLoginKeeps DEF Keys
<1>6. CASE Enabled(b)
  BY <1>6, EnabledKeeps
<1>7. CASE CheckSecret(b)
  BY <1>7, CheckSecretKeeps
<1>8. CASE LoadTTL(b)
  BY <1>8, LoadTTLKeeps
<1>9. CASE MintSession(b)
  BY <1>9, MintSessionKeeps
<1>10. CASE Leave(b)
  BY <1>10, LeaveKeeps
<1>11. CASE Logout(b)
  BY <1>11, LogoutKeeps
<1> QED BY <1>1, <1>2, <1>3, <1>4, <1>5, <1>6, <1>7, <1>8, <1>9, <1>10, <1>11

-----------------------------------------------------------------------------
(* Reloads, and time. *)

LEMMA BeginReloadKeeps ==
  ASSUME AuthInv, NEW c \in AuthConfigs, BeginReload(c)
  PROVE  AuthInv'
<1>1. /\ reload' = [to |-> c, left |-> Steps]
      /\ reloads < MaxReloads /\ reloads' = reloads + 1
      /\ UNCHANGED <<secret, sessionTTL, now, jar, visit>>
  BY DEF BeginReload
<1>2. Steps \in Seq(StepNames)
  BY DEF Steps, StepNames
<1>3. ReloadTyped'
  BY <1>1, <1>2 DEF ReloadTyped
<1>4. reload'.to \in AuthConfigs
  BY <1>1
<1>5. reloads' \in 0..MaxReloads
  BY <1>1, AuthAssumption DEF AuthInv, AuthTypeOK
<1>6. AuthTypeOK'
  BY <1>1, <1>4, <1>5 DEF AuthInv, AuthTypeOK
<1>7. VisitsOK'
  BY <1>1 DEF AuthInv, VisitsOK, InForce
<1>8. JarsOK'
  BY <1>1 DEF AuthInv, JarsOK
<1> QED BY <1>3, <1>6, <1>7, <1>8 DEF AuthInv

\* A new secret, for one listener.
LEMMA SetSecretKeeps ==
  ASSUME AuthInv, NEW listener \in Listeners, SetSecret(listener)
  PROVE  VisitsOK' \/ now' # now
<1> SUFFICES ASSUME now' = now PROVE VisitsOK'
  OBVIOUS
<1> DEFINE key == reload.to.secret[listener]
<1>1. /\ secret' = [secret EXCEPT ![listener] = key]
      /\ visit' = [b \in Browsers |->
           IF listener = "http" /\ visit[b] # Idle
           THEN [visit[b] EXCEPT !.known = @ \cup {key}] ELSE visit[b]]
  BY DEF SetSecret
<1>2. secret \in [Listeners -> Keys] /\ reload.to \in AuthConfigs
  BY DEF AuthInv, AuthTypeOK, Keys
<1>3. key \in Keys
  BY <1>2, AuthAssumption DEF Keys
<1>4. \A b \in Browsers : VisitOK(visit[b], now, InForce)
  BY DEF AuthInv, VisitsOK
<1>5. OfBrowsers(visit')
  BY <1>1 DEF OfBrowsers
<1> HIDE DEF key
<1>6. ASSUME NEW b \in Browsers PROVE VisitOK(visit'[b], now', InForce')
  <2>1. CASE listener = "http"
    <3>1. InForce' = key
      BY <1>1, <1>2, <2>1 DEF InForce, Listeners
    <3>2. CASE visit[b] = Idle
      BY <1>1, <3>2 DEF VisitOK
    <3>3. CASE visit[b] # Idle
      <4>1. visit'[b] = [visit[b] EXCEPT !.known = @ \cup {key}]
        BY <1>1, <2>1, <3>3
      <4>2. VisitOK([visit[b] EXCEPT !.known = @ \cup {key}], now, key)
        BY <1>3, <1>4, <3>3, SecretChanges
      <4> QED BY <3>1, <4>1, <4>2
    <3> QED BY <3>2, <3>3
  <2>2. CASE listener # "http"
    <3>1. InForce' = InForce
      BY <1>1, <1>2, <2>2 DEF InForce, Listeners
    <3>2. visit'[b] = visit[b]
      BY <1>1, <2>2
    <3> QED BY <1>4, <3>1, <3>2
  <2> QED BY <2>1, <2>2
<1> QED BY <1>5, <1>6 DEF VisitsOK

LEMMA ApplyNextKeeps ==
  ASSUME AuthInv, ApplyNext
  PROVE  AuthInv'
<1>1. /\ reload.left # <<>>
      /\ reload' = [reload EXCEPT !.left = Tail(@)]
      /\ UNCHANGED <<reloads, now, jar>>
  BY DEF ApplyNext
<1>2. reload.left \in Seq(StepNames) /\ reload.to \in AuthConfigs
  BY DEF AuthInv, ReloadTyped
<1>3. Head(reload.left) \in StepNames /\ Tail(reload.left) \in Seq(StepNames)
  BY <1>1, <1>2
<1>4. ReloadTyped' /\ reload'.to = reload.to
  BY <1>1, <1>3 DEF AuthInv, ReloadTyped
<1>5. JarsOK'
  BY <1>1 DEF AuthInv, JarsOK
<1>6. /\ VisitsOK'
      /\ secret' \in [Listeners -> Keys]
      /\ sessionTTL' \in Nat
  <2>1. CASE Head(reload.left) = "ttl"
    <3>1. sessionTTL' = reload.to.ttl /\ UNCHANGED <<secret, visit>>
      BY <2>1 DEF ApplyNext, SetSessionTTL
    <3>2. VisitsOK'
      BY <1>1, <3>1 DEF AuthInv, VisitsOK, InForce
    <3>3. sessionTTL' \in Nat
      BY <1>2, <3>1, AuthAssumption
    <3> QED BY <3>1, <3>2, <3>3 DEF AuthInv, AuthTypeOK, Keys
  <2>2. CASE Head(reload.left) # "ttl"
    <3> DEFINE listener == Head(reload.left)
    <3>1. listener \in Listeners
      BY <1>3, <2>2 DEF StepNames, Listeners
    <3>2. SetSecret(listener)
      BY <2>2 DEF ApplyNext
    <3>3. VisitsOK'
      BY <1>1, <3>1, <3>2, SetSecretKeeps
    <3>4. reload.to.secret[listener] \in Keys
      BY <1>2, <3>1, AuthAssumption DEF Keys
    <3>5. secret' \in [Listeners -> Keys] /\ sessionTTL' \in Nat
      BY <3>2, <3>4 DEF SetSecret, AuthInv, AuthTypeOK, Keys
    <3> QED BY <3>3, <3>5
  <2> QED BY <2>1, <2>2
<1>7. AuthTypeOK'
  BY <1>1, <1>2, <1>4, <1>6 DEF AuthInv, AuthTypeOK, Keys
<1> QED BY <1>4, <1>5, <1>6, <1>7 DEF AuthInv

LEMMA TickKeeps ==
  ASSUME AuthInv, Tick
  PROVE  AuthInv'
<1>1. /\ now < MaxNow /\ now' = now + 1
      /\ UNCHANGED <<secret, sessionTTL, reload, reloads, jar, visit>>
  BY DEF Tick
<1>2. now \in Nat /\ now' \in Nat /\ now <= now' /\ now' \in 0..MaxNow
  BY <1>1, AuthAssumption DEF AuthInv, AuthTypeOK
<1>3. \A b \in Browsers : VisitOK(visit[b], now, InForce)
  BY DEF AuthInv, VisitsOK
<1>4. \A b \in Browsers : VisitOK(visit[b], now', InForce)
  BY <1>2, <1>3, TimePasses
<1>5. VisitsOK'
  BY <1>1, <1>4 DEF AuthInv, VisitsOK, InForce
<1>6. AuthTypeOK'
  BY <1>1, <1>2 DEF AuthInv, AuthTypeOK
<1>7. ReloadTyped' /\ JarsOK'
  BY <1>1 DEF AuthInv, ReloadTyped, JarsOK
<1> QED BY <1>5, <1>6, <1>7 DEF AuthInv

-----------------------------------------------------------------------------
(* The invariant, and what follows from it. *)

LEMMA AuthInvInit == AuthInit => AuthInv
<1> SUFFICES ASSUME AuthInit PROVE AuthInv
  OBVIOUS
<1>1. PICK c \in AuthConfigs :
        secret = c.secret /\ sessionTTL = c.ttl /\ reload = [to |-> c, left |-> <<>>]
  BY DEF AuthInit
<1>2. /\ reloads = 0 /\ now = 0
      /\ jar = [b \in Browsers |-> NoCookie]
      /\ visit = [b \in Browsers |-> Idle]
  BY DEF AuthInit
<1>3. JarsOK
  BY <1>2 DEF JarsOK, OfBrowsers, JarOK
<1>4. VisitsOK
  BY <1>2 DEF VisitsOK, OfBrowsers, VisitOK
<1>5. ReloadTyped
  BY <1>1 DEF ReloadTyped
<1>6. AuthTypeOK
  BY <1>1, <1>2, AuthAssumption DEF AuthTypeOK
<1> QED BY <1>3, <1>4, <1>5, <1>6 DEF AuthInv

LEMMA AuthInvStep == AuthInv /\ [AuthNext]_authVars => AuthInv'
<1> SUFFICES ASSUME AuthInv, [AuthNext]_authVars PROVE AuthInv'
  OBVIOUS
<1>1. CASE ApplyNext
  BY <1>1, ApplyNextKeeps
<1>2. ASSUME NEW c \in AuthConfigs, BeginReload(c) PROVE AuthInv'
  BY <1>2, BeginReloadKeeps
<1>3. CASE Visits
  BY <1>3, VisitsKeep
<1>4. CASE Tick
  BY <1>4, TickKeeps
<1>5. CASE UNCHANGED authVars
  BY <1>5 DEF authVars, AuthInv, AuthTypeOK, ReloadTyped, VisitsOK, JarsOK, InForce
<1> QED BY <1>1, <1>2, <1>3, <1>4, <1>5 DEF AuthNext, Reloads

LEMMA AuthInvVerdicts == AuthInv => VerdictsCurrent
<1> SUFFICES ASSUME AuthInv, NEW b \in Browsers
             PROVE  LET v == visit[b] IN
                    /\ v.pc = "passed" => Passed(v)
                    /\ v.pc = "refused" =>
                         \E key \in v.known \ {NoSecret} : ~ Authenticates(v.cred, key)
                    /\ v.pc = "not enabled" => NoSecret \in v.known
                    /\ v.pc = "invalid secret" => \E key \in v.known : key = NoSecret \/ key # v.given
                    /\ v.pc = "logged in" => v.given \in v.known
  BY DEF AuthInv, VerdictsCurrent, Passed
<1> DEFINE v == visit[b]
<1>1. VisitOK(v, now, InForce)
  BY DEF AuthInv, VisitsOK
<1>2. CASE v = Idle
  BY <1>2 DEF Idle
<1>3. CASE RequestOK(v, now, InForce)
  BY <1>3, AuthenticatesNow DEF RequestOK, APIRequests
<1>4. CASE LoginOK(v, InForce)
  BY <1>4 DEF LoginOK, Logins
<1>5. CASE SessionOK(v, now, InForce)
  BY <1>5 DEF SessionOK, Sessions
<1> QED BY <1>1, <1>2, <1>3, <1>4, <1>5 DEF VisitOK

LEMMA AuthInvCookies == AuthInv => CookieMirrorsToken
  BY DEF AuthInv, JarsOK, JarOK, CookieMirrorsToken

\* What requests, logins and browsers remember has its type and was true when they learnt
\* it, at every step of middleware.go and session_handlers.go.
THEOREM AuthCorrect == AuthSpec => []AuthInv
<1> QED BY AuthInvInit, AuthInvStep, PTL DEF AuthSpec

\* The answer of the middleware and of a login is right for some secret there was during
\* the request, however a reload changes the secrets between its steps (middleware.go:41,
\* middleware.go:75, session_handlers.go:58).
THEOREM AnswersAreCurrent == AuthSpec => []VerdictsCurrent
<1> QED BY AuthCorrect, AuthInvVerdicts, PTL

\* A browser's cookie and the token in it end within half a second of each other, counted
\* from when the token was made, also when the lifetime is reloaded during the login
\* (session_handlers.go:87, session_handlers.go:99).
THEOREM CookiesEndWithTokens == AuthSpec => []CookieMirrorsToken
<1> QED BY AuthCorrect, AuthInvCookies, PTL

-----------------------------------------------------------------------------
(* Commands, jobs and their counters. *)

\* A command is under way.
Underway(x) == call[x].pc \in {"called", "executing"}

\* A command succeeds when the device said so; before it ends there is no reply.
CallStates(n) ==
  [pc : {"idle", "called", "executing", "succeeded", "failed"}, conn : 0..n,
   reply : {"none", "ok", "refused", "undecodable"}]

CallsSane ==
  /\ call \in [Callers -> CallStates(connected)]
  /\ \A x \in Callers :
       /\ call[x].pc = "succeeded" <=> call[x].reply = "ok"
       /\ call[x].pc = "idle" \/ Underway(x) => call[x].reply = "none"

DeviceTyped ==
  /\ known \in BOOLEAN
  /\ connected \in 0..MaxConns /\ conn \in 0..connected
  /\ starting \subseteq 1..connected
  /\ canRunCommands \subseteq 1..connected
  /\ closing \subseteq 1..connected

HTTPStatuses == {0, 200, 400, 404, 500}

\* A request waits for its command, and has none when it runs jobs; what it says in the end
\* is what the device said.
RequestStates(n) ==
  [pc : {"new", "command", "logcat", "asking", "starting", "answered"},
   job : JobIDs \cup {NoJob}, asks : 0..MaxAsks, conn : 0..n,
   status : HTTPStatuses]

RequestsInOrder ==
  /\ request \in [Requests -> RequestStates(connected)]
  /\ \A r \in Requests :
       /\ request[r].pc \in {"new", "asking", "starting"} => call[r].pc = "idle"
       /\ request[r].pc = "answered" => ~ Underway(r)
       /\ request[r].pc = "answered" /\ call[r].pc # "idle" =>
            (request[r].status = 200 <=> call[r].reply = "ok")
       /\ request[r].pc = "starting" => request[r].asks > 0

\* Numbers that are not given out have no command; a command under way has its goroutine,
\* whose instance is not listed from when it was cleared until it completes.
JobsInOrder ==
  /\ StartedWhileRunning
  /\ cleared \cap Listed = {}
  /\ \A id \in IDs :
       /\ id > jobInstanceID => call[id].pc = "idle"
       /\ Underway(id) => id \in goroutines
  /\ \A id \in goroutines : call[id].pc # "idle"
  /\ \A id \in Listed :
       /\ jobInstancesByID[id] = "succeeded" => call[id].reply = "ok"
       /\ jobInstancesByID[id] = "failed" => call[id].reply # "ok"

Executing == {x \in Callers : call[x].pc \in {"executing"}}
Fine == {x \in Callers : call[x].reply \in {"ok", "undecodable"}}

\* The counters count.
CountersTrue ==
  /\ executed \in Nat /\ errors \in Nat /\ successes \in Nat
  /\ executed = errors + successes + Cardinality(Executing)
  /\ successes = Cardinality(Fine)

\* The device ids of the requests to run a job that were asked about, and those that a
\* request will not name any more.
Asked ==
  {p \in Requests \X (1..MaxAsks) : request[p[1]].pc # "new" /\ p[2] > request[p[1]].asks}

\* One number for each of them at most.
NumbersBounded == jobInstanceID <= Cardinality(Asked)

\* The inductive invariant.
ApiInv ==
  /\ DeviceTyped /\ CallsSane /\ RequestsInOrder /\ JobsInOrder /\ CountersTrue
  /\ NumbersBounded

-----------------------------------------------------------------------------
(* What the invariant says of one part is kept by steps of the others. *)

LEMMA ApiConstants ==
  /\ MaxConns \in Nat /\ MaxAsks \in Nat /\ MaxInstances \in Nat
  /\ IsFiniteSet(Requests \X (1..MaxAsks))
  /\ MaxInstances = Cardinality(Requests \X (1..MaxAsks))
  /\ IsFiniteSet(Callers)
  /\ Requests \cap IDs = {}
<1>1. IsFiniteSet(1..MaxAsks) /\ Cardinality(1..MaxAsks) = MaxAsks
  BY FS_Interval, ApiAssumption
<1>2. /\ IsFiniteSet(Requests \X (1..MaxAsks))
      /\ Cardinality(Requests \X (1..MaxAsks)) = Cardinality(Requests) * MaxAsks
  BY <1>1, FS_Product, ApiAssumption
<1>3. MaxInstances \in Nat
  BY JobsAssumption
<1>4. IsFiniteSet(IDs)
  BY <1>3, FS_Interval DEF IDs
<1>5. IsFiniteSet(Callers)
  BY <1>4, FS_Union, ApiAssumption DEF Callers
<1> QED BY <1>2, <1>3, <1>5, ApiAssumption DEF IDs

\* There are no more numbers than device ids in requests.
LEMMA AskedFacts ==
  /\ IsFiniteSet(Asked)
  /\ Cardinality(Asked) \in Nat
  /\ Cardinality(Asked) <= MaxInstances
  /\ IsFiniteSet(Asked') /\ Cardinality(Asked') \in Nat
<1>1. /\ Asked \in SUBSET (Requests \X (1..MaxAsks))
      /\ Asked' \in SUBSET (Requests \X (1..MaxAsks))
  BY DEF Asked
<1> QED BY <1>1, ApiConstants, FS_Subset, FS_CardinalityType

LEMMA JobFacts ==
  ASSUME JobsInOrder
  PROVE  /\ jobInstanceID \in Nat /\ jobInstanceID <= MaxInstances
         /\ Listed \subseteq 1..jobInstanceID /\ Listed \subseteq IDs
         /\ goroutines \subseteq 1..jobInstanceID /\ goroutines \subseteq IDs
<1>1. jobInstanceID \in 0..MaxInstances /\ MaxInstances \in Nat
  BY ApiConstants DEF JobsInOrder, StartedWhileRunning, JTypeOK
<1>2. Listed \subseteq 1..jobInstanceID /\ goroutines \subseteq 1..jobInstanceID
  BY DEF JobsInOrder, StartedWhileRunning, JTypeOK
<1>3. 1..jobInstanceID \subseteq IDs
  BY <1>1 DEF IDs
<1> QED BY <1>1, <1>2, <1>3

\* The commands of jobs stay as they are.
LEMMA JobsUndisturbed ==
  ASSUME JobsInOrder, UNCHANGED jVars, \A id \in IDs : call'[id] = call[id]
  PROVE  JobsInOrder'
<1>1. Listed \subseteq IDs /\ goroutines \subseteq IDs
  BY JobFacts
<1>2. /\ jobsByID' = jobsByID /\ jobInstanceID' = jobInstanceID
      /\ jobInstancesByID' = jobInstancesByID
      /\ goroutines' = goroutines /\ cleared' = cleared
  BY DEF jVars
<1>3. Listed' = Listed
  BY <1>2 DEF Listed
<1>4. StartedWhileRunning'
  BY <1>2, <1>3 DEF JobsInOrder, StartedWhileRunning, JTypeOK
<1>5. \A id \in IDs : Underway(id)' <=> Underway(id)
  BY DEF Underway
<1> QED BY <1>1, <1>2, <1>3, <1>4, <1>5 DEF JobsInOrder

\* The commands of requests stay as they are.
LEMMA RequestsUndisturbed ==
  ASSUME RequestsInOrder, UNCHANGED request, connected \in Nat, connected' \in Nat,
         connected <= connected', \A r \in Requests : call'[r] = call[r]
  PROVE  RequestsInOrder'
<1>1. 0..connected \subseteq 0..connected'
  OBVIOUS
<1>2. request' \in [Requests -> RequestStates(connected')]
  BY <1>1 DEF RequestsInOrder, RequestStates
<1>3. \A r \in Requests : Underway(r)' <=> Underway(r)
  BY DEF Underway
<1> QED BY <1>2, <1>3 DEF RequestsInOrder

LEMMA CallsUndisturbed ==
  ASSUME CallsSane, UNCHANGED call, connected \in Nat, connected' \in Nat,
         connected <= connected'
  PROVE  CallsSane'
<1>1. 0..connected \subseteq 0..connected'
  OBVIOUS
<1>2. call' \in [Callers -> CallStates(connected')]
  BY <1>1 DEF CallsSane, CallStates
<1>3. \A x \in Callers : Underway(x)' <=> Underway(x)
  BY DEF Underway
<1> QED BY <1>2, <1>3 DEF CallsSane

LEMMA CountersUndisturbed ==
  ASSUME CountersTrue, UNCHANGED commandVars
  PROVE  CountersTrue'
  BY DEF CountersTrue, commandVars, Executing, Fine

LEMMA NumbersUndisturbed ==
  ASSUME NumbersBounded, UNCHANGED <<request, jobInstanceID>>
  PROVE  NumbersBounded'
  BY DEF NumbersBounded, Asked

LEMMA DeviceFacts ==
  ASSUME DeviceTyped
  PROVE  connected \in Nat /\ conn \in 0..connected
  BY ApiConstants DEF DeviceTyped

-----------------------------------------------------------------------------
(* Numbers. *)

\* What was asked about stays so: a request starts to ask once, and asks for less and less.
LEMMA AskedGrowsAt ==
  ASSUME RequestsInOrder, NEW r \in Requests,
         request'[r].asks \in Nat, request'[r].pc # "new",
         request[r].pc # "new" => request'[r].asks <= request[r].asks,
         \A x \in Requests : x # r => request'[x] = request[x]
  PROVE  Asked \subseteq Asked'
<1>2. request[r].asks \in Nat
  BY ApiConstants DEF RequestsInOrder, RequestStates
<1>3. ASSUME NEW p \in Asked PROVE p \in Asked'
  <2>1. p \in Requests \X (1..MaxAsks) /\ request[p[1]].pc # "new" /\ p[2] > request[p[1]].asks
    BY DEF Asked
  <2>2. p[1] \in Requests /\ p[2] \in Nat
    BY <2>1, ApiConstants
  <2>3. request'[p[1]].pc # "new" /\ p[2] > request'[p[1]].asks
    BY <1>2, <2>1, <2>2
  <2> QED BY <2>1, <2>3 DEF Asked
<1> QED BY <1>3

LEMMA AskedGrows ==
  ASSUME RequestsInOrder, NEW r \in Requests, NEW v,
         v.asks \in Nat, v.pc # "new",
         request[r].pc # "new" => v.asks <= request[r].asks,
         request' = [request EXCEPT ![r] = v]
  PROVE  Asked \subseteq Asked'
<1>1. request'[r] = v /\ \A x \in Requests : x # r => request'[x] = request[x]
  BY DEF RequestsInOrder
<1>2. /\ request'[r].asks \in Nat /\ request'[r].pc # "new"
      /\ request[r].pc # "new" => request'[r].asks <= request[r].asks
  BY <1>1
<1> QED BY <1>1, <1>2, AskedGrowsAt

LEMMA NumbersKept ==
  ASSUME RequestsInOrder, NumbersBounded, jobInstanceID \in Nat, UNCHANGED jobInstanceID,
         Asked \subseteq Asked'
  PROVE  NumbersBounded'
<1>1. /\ IsFiniteSet(Asked') /\ Cardinality(Asked') \in Nat
      /\ Cardinality(Asked) \in Nat
  BY AskedFacts
<1>2. Cardinality(Asked) <= Cardinality(Asked')
  BY <1>1, FS_Subset
<1> QED BY <1>1, <1>2 DEF NumbersBounded

\* A request that still asks finds a number for its instance.
LEMMA NumberFits ==
  ASSUME RequestsInOrder, NumbersBounded, jobInstanceID \in Nat, NEW r \in Requests,
         request[r].pc \in {"asking", "starting"}, request[r].asks > 0
  PROVE  jobInstanceID + 1 <= MaxInstances
<1> DEFINE p == <<r, request[r].asks>>
<1>1. request[r].asks \in 1..MaxAsks
  BY ApiConstants DEF RequestsInOrder, RequestStates
<1>2. p \notin Asked /\ p \in Requests \X (1..MaxAsks)
  BY <1>1 DEF Asked
<1>3. Asked \cup {p} \in SUBSET (Requests \X (1..MaxAsks))
  BY <1>2 DEF Asked
<1>4. Cardinality(Asked \cup {p}) <= MaxInstances
  BY <1>3, ApiConstants, FS_Subset
<1>5. Cardinality(Asked \cup {p}) = Cardinality(Asked) + 1
  BY <1>2, AskedFacts, FS_AddElement
<1>6. Cardinality(Asked) \in Nat /\ jobInstanceID <= Cardinality(Asked) /\ MaxInstances \in Nat
  BY AskedFacts, ApiConstants DEF NumbersBounded
<1> HIDE DEF p
<1> QED BY <1>4, <1>5, <1>6

\* It uses one up.
LEMMA NumberUsed ==
  ASSUME RequestsInOrder, NumbersBounded, jobInstanceID \in Nat, NEW r \in Requests,
         request[r].asks > 0, Asked \subseteq Asked',
         request'[r].asks < request[r].asks, request'[r].pc # "new",
         jobInstanceID' = jobInstanceID + 1
  PROVE  NumbersBounded'
<1> DEFINE p == <<r, request[r].asks>>
<1>1. request[r].asks \in 1..MaxAsks /\ request[r].asks \in Nat
  BY ApiConstants DEF RequestsInOrder, RequestStates
<1>2. p \notin Asked /\ p \in Requests \X (1..MaxAsks)
  BY <1>1 DEF Asked
<1>5. p \in Asked'
  BY <1>1, <1>2 DEF Asked
<1>6. IsFiniteSet(Asked') /\ Cardinality(Asked') \in Nat
  BY AskedFacts
<1>7. Cardinality(Asked \cup {p}) <= Cardinality(Asked')
  BY <1>5, <1>6, FS_Subset
<1>8. Cardinality(Asked \cup {p}) = Cardinality(Asked) + 1 /\ Cardinality(Asked) \in Nat
  BY <1>2, AskedFacts, FS_AddElement
<1>9. Cardinality(Asked \cup {p}) \in Nat
  BY <1>8
<1> QED BY <1>6, <1>7, <1>8, <1>9 DEF NumbersBounded

-----------------------------------------------------------------------------
(* The job manager. *)

\* The next number is not used.
LEMMA NextIDFacts ==
  ASSUME JobsInOrder, jobInstanceID + 1 <= MaxInstances
  PROVE  /\ NextID \in IDs /\ NextID = jobInstanceID + 1
         /\ NextID \notin Listed /\ NextID \notin goroutines /\ NextID \notin cleared
         /\ call[NextID].pc = "idle"
<1>1. NextID = jobInstanceID + 1 /\ jobInstanceID \in Nat
  BY JobFacts DEF NextID
<1>2. NextID \in IDs
  BY <1>1, ApiConstants DEF IDs
<1>3. NextID \notin 1..jobInstanceID
  BY <1>1
<1>4. cleared \subseteq goroutines
  BY DEF JobsInOrder, StartedWhileRunning, JTypeOK
<1>5. call[NextID].pc = "idle"
  BY <1>1, <1>2 DEF JobsInOrder
<1> QED BY <1>1, <1>2, <1>3, <1>4, <1>5, JobFacts

\* Putting an instance into the map, taking some out of it.
LEMMA PutFacts ==
  ASSUME NEW id, NEW status, jobInstancesByID' = Put(id, status)
  PROVE  /\ Listed' = Listed \cup {id}
         /\ \A i \in Listed' : jobInstancesByID'[i] = IF i = id THEN status ELSE jobInstancesByID[i]
  BY DEF Put, Listed

LEMMA WithoutFacts ==
  ASSUME NEW ids, jobInstancesByID' = Without(ids)
  PROVE  /\ Listed' = Listed \ ids
         /\ \A i \in Listed' : jobInstancesByID'[i] = jobInstancesByID[i]
  BY DEF Without, Listed

LEMMA AddFailedKeeps ==
  ASSUME CallsSane, JobsInOrder, jobInstanceID + 1 <= MaxInstances,
         AddFailedJobInstance, UNCHANGED call
  PROVE  JobsInOrder'
<1>1. /\ jobInstanceID' = NextID /\ jobInstancesByID' = Put(NextID, "failed")
      /\ jobsByID' = jobsByID /\ goroutines' = goroutines /\ cleared' = cleared
  BY DEF AddFailedJobInstance
<1>2. /\ NextID \in IDs /\ NextID = jobInstanceID + 1
      /\ NextID \notin Listed /\ NextID \notin goroutines /\ NextID \notin cleared
      /\ call[NextID].pc = "idle"
  BY NextIDFacts
<1>3. /\ Listed' = Listed \cup {NextID}
      /\ \A i \in Listed' : jobInstancesByID'[i] = IF i = NextID THEN "failed" ELSE jobInstancesByID[i]
  BY <1>1, PutFacts
<1>4. /\ jobInstanceID \in Nat
      /\ Listed \subseteq 1..jobInstanceID
      /\ goroutines \subseteq 1..jobInstanceID
  BY JobFacts
<1>5. /\ jobInstanceID' \in 0..MaxInstances
      /\ 1..jobInstanceID \subseteq 1..jobInstanceID'
      /\ NextID \in 1..jobInstanceID'
  BY <1>1, <1>2, <1>4, ApiConstants DEF IDs
<1>6. JTypeOK'
  BY <1>1, <1>3, <1>4, <1>5 DEF JTypeOK, JobsInOrder, StartedWhileRunning, Statuses
<1>7. StartedWhileRunning'
  BY <1>1, <1>2, <1>3, <1>6 DEF JobsInOrder, StartedWhileRunning
<1>8. \A x \in IDs : Underway(x)' <=> Underway(x)
  BY DEF Underway
<1>9. call[NextID].reply # "ok"
  BY <1>2 DEF CallsSane, Callers, Underway
<1>10. \A id \in IDs : /\ id > jobInstanceID' => call'[id].pc = "idle"
                       /\ Underway(id)' => id \in goroutines'
  BY <1>1, <1>2, <1>4, <1>8 DEF JobsInOrder, IDs
<1>11. \A id \in Listed' : /\ jobInstancesByID'[id] = "succeeded" => call'[id].reply = "ok"
                           /\ jobInstancesByID'[id] = "failed" => call'[id].reply # "ok"
  BY <1>3, <1>9 DEF JobsInOrder
<1> QED BY <1>1, <1>2, <1>3, <1>7, <1>10, <1>11 DEF JobsInOrder

\* A command of its own begins with an instance that is kept.
LEMMA RunJobKeeps ==
  ASSUME JobsInOrder, jobInstanceID + 1 <= MaxInstances,
         call \in [Callers -> CallStates(connected)],
         NEW job, RunJob(job), NEW c,
         IF NextID \in goroutines' THEN CallOn(NextID, c) ELSE UNCHANGED call
  PROVE  JobsInOrder'
<1>1. /\ jobInstanceID' = NextID /\ jobsByID' = jobsByID /\ cleared' = cleared
      /\ IF job \in jobsByID
         THEN /\ jobInstancesByID' = Put(NextID, "started")
              /\ goroutines' = goroutines \cup {NextID}
         ELSE UNCHANGED <<jobInstancesByID, goroutines>>
  BY DEF RunJob
<1>2. /\ NextID \in IDs /\ NextID = jobInstanceID + 1
      /\ NextID \notin Listed /\ NextID \notin goroutines /\ NextID \notin cleared
      /\ call[NextID].pc = "idle"
  BY NextIDFacts
<1>4. /\ jobInstanceID \in Nat
      /\ Listed \subseteq 1..jobInstanceID
      /\ goroutines \subseteq 1..jobInstanceID
  BY JobFacts
<1>5. /\ jobInstanceID' \in 0..MaxInstances
      /\ 1..jobInstanceID \subseteq 1..jobInstanceID'
      /\ NextID \in 1..jobInstanceID'
  BY <1>1, <1>2, <1>4, ApiConstants DEF IDs
<1>6. CASE job \in jobsByID
  <2>1. /\ Listed' = Listed \cup {NextID}
        /\ \A i \in Listed' : jobInstancesByID'[i] =
             IF i = NextID THEN "started" ELSE jobInstancesByID[i]
    BY <1>1, <1>6, PutFacts
  <2>2. goroutines' = goroutines \cup {NextID}
    BY <1>1, <1>6
  <2>3. \A x \in Callers : call'[x] = IF x = NextID THEN [pc |-> "called", conn |-> c, reply |-> "none"]
                                    ELSE call[x]
    BY <2>2 DEF CallOn
  <2>4. NextID \in Callers /\ IDs \subseteq Callers
    BY <1>2 DEF Callers
  <2>5. JTypeOK'
    BY <1>1, <1>4, <1>5, <2>1, <2>2 DEF JTypeOK, JobsInOrder, StartedWhileRunning, Statuses
  <2>6. StartedWhileRunning'
    BY <1>1, <1>2, <2>1, <2>2, <2>5 DEF JobsInOrder, StartedWhileRunning
  <2>7. \A id \in IDs : /\ id > jobInstanceID' => call'[id].pc = "idle"
                        /\ Underway(id)' => id \in goroutines'
    BY <1>1, <1>2, <1>4, <2>2, <2>3, <2>4 DEF JobsInOrder, IDs, Underway
  <2>8. \A id \in goroutines' : call'[id].pc # "idle"
    BY <2>2, <2>3, <2>4, JobFacts DEF JobsInOrder
  <2>9. \A id \in Listed' : /\ jobInstancesByID'[id] = "succeeded" => call'[id].reply = "ok"
                            /\ jobInstancesByID'[id] = "failed" => call'[id].reply # "ok"
    BY <1>2, <2>1, <2>3, <2>4, JobFacts DEF JobsInOrder
  <2>10. cleared' \cap Listed' = {}
    BY <1>1, <1>2, <2>1 DEF JobsInOrder
  <2> QED BY <2>6, <2>7, <2>8, <2>9, <2>10 DEF JobsInOrder
<1>7. CASE job \notin jobsByID
  <2>1. jobInstancesByID' = jobInstancesByID /\ goroutines' = goroutines
    BY <1>1, <1>7
  <2>2. call' = call /\ Listed' = Listed
    BY <1>2, <2>1 DEF Listed
  <2>3. JTypeOK'
    BY <1>1, <1>4, <1>5, <2>1, <2>2 DEF JTypeOK, JobsInOrder, StartedWhileRunning
  <2>4. StartedWhileRunning'
    BY <1>1, <2>1, <2>2, <2>3 DEF JobsInOrder, StartedWhileRunning
  <2>5. \A id \in IDs : /\ id > jobInstanceID' => call'[id].pc = "idle"
                        /\ Underway(id)' => id \in goroutines'
    BY <1>1, <1>2, <1>4, <2>1, <2>2 DEF JobsInOrder, IDs, Underway
  <2> QED BY <1>1, <2>1, <2>2, <2>4, <2>5 DEF JobsInOrder
<1> QED BY <1>6, <1>7

\* The goroutine of a job stores what its command came to.
LEMMA CompleteKeeps ==
  ASSUME CallsSane, JobsInOrder, NEW id \in IDs,
         call[id].pc \in {"succeeded", "failed"}, Complete(id, call[id].pc), UNCHANGED call
  PROVE  JobsInOrder'
<1>1. /\ id \in goroutines /\ goroutines' = goroutines \ {id}
      /\ jobInstancesByID' = Put(id, call[id].pc)
      /\ cleared' = cleared \ {id} /\ jobsByID' = jobsByID /\ jobInstanceID' = jobInstanceID
  BY DEF Complete
<1>2. /\ Listed' = Listed \cup {id}
      /\ \A i \in Listed' : jobInstancesByID'[i] = IF i = id THEN call[id].pc ELSE jobInstancesByID[i]
  BY <1>1, PutFacts
<1>3. JTypeOK'
  BY <1>1, <1>2 DEF JTypeOK, JobsInOrder, StartedWhileRunning, Statuses
<1>4. StartedWhileRunning'
  BY <1>1, <1>2, <1>3 DEF JobsInOrder, StartedWhileRunning
<1>5. \A x \in IDs : Underway(x)' => x \in goroutines'
  BY <1>1 DEF JobsInOrder, Underway
<1>6. call[id].pc = "succeeded" <=> call[id].reply = "ok"
  BY DEF CallsSane, Callers
<1>7. \A i \in Listed' : /\ jobInstancesByID'[i] = "succeeded" => call'[i].reply = "ok"
                         /\ jobInstancesByID'[i] = "failed" => call'[i].reply # "ok"
  BY <1>2, <1>6 DEF JobsInOrder
<1>8. cleared' \cap Listed' = {}
  BY <1>1, <1>2 DEF JobsInOrder
<1> QED BY <1>1, <1>4, <1>5, <1>7, <1>8 DEF JobsInOrder

LEMMA ManageKeeps ==
  ASSUME JobsInOrder, Reload \/ ClearJobInstances \/ \E id \in IDs : ClearJobInstance(id),
         UNCHANGED call
  PROVE  JobsInOrder' /\ jobInstanceID' = jobInstanceID
<1>1. \A x \in IDs : Underway(x)' <=> Underway(x)
  BY DEF Underway
<1>2. CASE Reload
  <2>1. /\ jobsByID' \subseteq JobIDs /\ Listed' = Listed
        /\ UNCHANGED <<jobInstanceID, jobInstancesByID, goroutines, cleared>>
    BY <1>2 DEF Reload, Listed
  <2>2. StartedWhileRunning'
    BY <2>1 DEF JobsInOrder, StartedWhileRunning, JTypeOK
  <2> QED BY <1>1, <2>1, <2>2 DEF JobsInOrder
<1>3. CASE ClearJobInstances
  <2>1. UNCHANGED <<jobsByID, jobInstanceID, goroutines, cleared>>
    BY <1>3 DEF ClearJobInstances
  <2>2. /\ Listed' = Listed \ Completed
        /\ \A i \in Listed' : jobInstancesByID'[i] = jobInstancesByID[i]
    BY <1>3, WithoutFacts DEF ClearJobInstances
  <2>3. \A i \in Listed : jobInstancesByID[i] = "started" => i \in Listed'
    BY <2>2 DEF Completed
  <2>4. StartedWhileRunning'
    BY <2>1, <2>2, <2>3 DEF JobsInOrder, StartedWhileRunning, JTypeOK
  <2> QED BY <1>1, <2>1, <2>2, <2>4 DEF JobsInOrder
<1>4. ASSUME NEW id \in IDs, ClearJobInstance(id)
      PROVE  JobsInOrder' /\ jobInstanceID' = jobInstanceID
  <2>1. /\ UNCHANGED <<jobsByID, jobInstanceID, goroutines>>
        /\ cleared' = cleared \cup ({id} \cap goroutines)
    BY <1>4 DEF ClearJobInstance
  <2>2. /\ Listed' = Listed \ {id}
        /\ \A i \in Listed' : jobInstancesByID'[i] = jobInstancesByID[i]
    BY <1>4, WithoutFacts DEF ClearJobInstance
  <2>3. JTypeOK'
    BY <2>1, <2>2 DEF JobsInOrder, StartedWhileRunning, JTypeOK
  <2>4. StartedWhileRunning'
    BY <2>1, <2>2, <2>3 DEF JobsInOrder, StartedWhileRunning
  <2>5. cleared' \cap Listed' = {}
    BY <2>1, <2>2 DEF JobsInOrder
  <2> QED BY <1>1, <2>1, <2>2, <2>4, <2>5 DEF JobsInOrder
<1> QED BY <1>2, <1>3, <1>4

-----------------------------------------------------------------------------
(* Requests. *)

\* A request is answered.
LEMMA AnswerKeeps ==
  ASSUME ApiInv, NEW r \in Requests, NEW status \in {200, 400, 404, 500}, Answer(r, status),
         ~ Underway(r),
         call[r].pc # "idle" => (status = 200 <=> call[r].reply = "ok"),
         UNCHANGED <<jVars, conn, connected, starting, canRunCommands, commandVars>>,
         known' \in BOOLEAN, closing' \subseteq 1..connected
  PROVE  ApiInv'
<1> DEFINE v == [request[r] EXCEPT !.pc = "answered", !.status = status]
<1>1. request' = [request EXCEPT ![r] = v] /\ call' = call
  BY DEF Answer, commandVars
<1>2. connected \in Nat /\ connected' = connected
  BY DeviceFacts DEF ApiInv
<1>15. request[r] \in RequestStates(connected)
  BY DEF ApiInv, RequestsInOrder
<1>17. status \in HTTPStatuses
  BY DEF HTTPStatuses
<1>18. v \in RequestStates(connected)
  BY <1>15, <1>17 DEF RequestStates
<1>19. v.pc = "answered" /\ v.status = status /\ v.asks = request[r].asks
  BY <1>15 DEF RequestStates
<1>3. /\ v \in RequestStates(connected)
      /\ v.pc = "answered" /\ v.status = status /\ v.asks = request[r].asks
  BY <1>18, <1>19
<1>16. v.asks \in Nat /\ v.asks <= request[r].asks
  BY <1>3, <1>15, ApiConstants DEF RequestStates
<1> HIDE DEF v
<1>4. \A x \in Requests : request'[x] = IF x = r THEN v ELSE request[x]
  BY <1>1 DEF ApiInv, RequestsInOrder
<1>5. \A x \in Requests : Underway(x)' <=> Underway(x)
  BY <1>1 DEF Underway
<1>6. request' \in [Requests -> RequestStates(connected')]
  BY <1>1, <1>2, <1>3 DEF ApiInv, RequestsInOrder
<1>7. RequestsInOrder'
  BY <1>1, <1>3, <1>4, <1>5, <1>6 DEF ApiInv, RequestsInOrder
<1>8. JobsInOrder'
  BY <1>1, JobsUndisturbed DEF ApiInv
<1>9. CallsSane'
  BY <1>1, <1>2, CallsUndisturbed DEF ApiInv
<1>10. CountersTrue'
  BY CountersUndisturbed DEF ApiInv
<1>11. DeviceTyped'
  BY DEF ApiInv, DeviceTyped
<1>12. Asked \subseteq Asked'
  <2>1. RequestsInOrder
    BY DEF ApiInv
  <2>2. request'[r] = v /\ \A x \in Requests : x # r => request'[x] = request[x]
    BY <1>4
  <2>3. request'[r].asks \in Nat /\ request'[r].pc # "new"
    BY <1>3, <1>16, <2>2
  <2>4. request[r].pc # "new" => request'[r].asks <= request[r].asks
    BY <1>16, <2>2
  <2> QED
    BY <2>1, <2>2, <2>3, <2>4, AskedGrowsAt
<1>13. jobInstanceID' = jobInstanceID /\ jobInstanceID \in Nat
  BY JobFacts DEF ApiInv, jVars
<1>14. NumbersBounded'
  BY <1>12, <1>13, NumbersKept DEF ApiInv
<1> QED BY <1>7, <1>8, <1>9, <1>10, <1>11, <1>14 DEF ApiInv

\* One that has just arrived has no command.
LEMMA ArrivedAnswerKeeps ==
  ASSUME ApiInv, NEW r \in Requests, Arrives(r), NEW status \in {200, 400, 404, 500},
         Answer(r, status),
         UNCHANGED <<jVars, conn, connected, starting, canRunCommands, commandVars>>,
         known' \in BOOLEAN, closing' \subseteq 1..connected
  PROVE  ApiInv'
<1>1. call[r].pc = "idle"
  BY DEF Arrives, ApiInv, RequestsInOrder
<1>2. ~ Underway(r)
  BY <1>1 DEF Underway
<1> QED BY <1>1, <1>2, AnswerKeeps

LEMMA AnswerFoundKeeps ==
  ASSUME ApiInv, NEW r \in Requests, NEW found, AnswerFound(r, found)
  PROVE  ApiInv'
<1>1. Arrives(r) /\ UNCHANGED <<jVars, deviceVars, commandVars>>
  BY DEF AnswerFound
<1>2. PICK status \in {200, 400, 404, 500} : Answer(r, status)
  BY DEF AnswerFound
<1>3. known' \in BOOLEAN /\ closing' \subseteq 1..connected
  BY <1>1 DEF deviceVars, ApiInv, DeviceTyped
<1>4. UNCHANGED <<jVars, conn, connected, starting, canRunCommands, commandVars>>
  BY <1>1 DEF deviceVars
<1> QED BY <1>1, <1>2, <1>3, <1>4, ArrivedAnswerKeeps

LEMMA StatusFacts ==
  ASSUME NEW error PROVE StatusOf(error) \in {200, 400, 404, 500}
  BY DEF StatusOf

\* A request goes on, with no command of its own and no answer.
LEMMA RequestGoesOn ==
  ASSUME ApiInv, NEW r \in Requests,
         NEW v \in RequestStates(connected), v.pc \in {"asking", "starting"},
         v.pc = "starting" => v.asks > 0,
         request' = [request EXCEPT ![r] = v], connected' = connected,
         \A x \in Requests : call'[x] = call[x],
         request[r].pc \in {"new", "asking", "starting"}
  PROVE  RequestsInOrder'
<1>1. \A x \in Requests : request'[x] = IF x = r THEN v ELSE request[x]
  BY DEF ApiInv, RequestsInOrder
<1>2. request' \in [Requests -> RequestStates(connected')]
  BY DEF ApiInv, RequestsInOrder
<1>3. \A x \in Requests : Underway(x)' <=> Underway(x)
  BY DEF Underway
<1>4. call[r].pc = "idle"
  BY DEF ApiInv, RequestsInOrder
<1> QED BY <1>1, <1>2, <1>3, <1>4 DEF ApiInv, RequestsInOrder

LEMMA RunJobRequestKeeps ==
  ASSUME ApiInv, NEW r \in Requests, NEW job \in JobIDs, NEW asks \in 1..MaxAsks,
         RunJobRequest(r, job, asks)
  PROVE  ApiInv'
<1>1. Arrives(r) /\ UNCHANGED <<jVars, deviceVars, commandVars>>
  BY DEF RunJobRequest
<1>2. /\ UNCHANGED <<jVars, conn, connected, starting, canRunCommands, commandVars>>
      /\ known' \in BOOLEAN /\ closing' \subseteq 1..connected
      /\ call' = call /\ connected' = connected
  BY <1>1 DEF deviceVars, commandVars, ApiInv, DeviceTyped
<1> DEFINE v == [request[r] EXCEPT !.pc = "asking", !.job = job, !.asks = asks]
<1>3. CASE request' = [request EXCEPT ![r] = v]
  <2>11. request[r] \in RequestStates(connected)
    BY DEF ApiInv, RequestsInOrder
  <2>12. asks \in 0..MaxAsks /\ asks \in Nat /\ job \in JobIDs \cup {NoJob}
    BY ApiConstants
  <2>13. v \in RequestStates(connected)
    BY <2>11, <2>12 DEF RequestStates
  <2>14. v.pc = "asking" /\ v.asks = asks
    BY <2>11 DEF RequestStates
  <2>1. /\ v \in RequestStates(connected)
        /\ v.pc = "asking" /\ v.asks = asks /\ asks \in Nat
    BY <2>12, <2>13, <2>14
  <2>2. request[r].pc = "new"
    BY <1>1 DEF Arrives
  <2> HIDE DEF v
  <2>3. RequestsInOrder'
    BY <1>2, <1>3, <2>1, <2>2, RequestGoesOn
  <2>4. Asked \subseteq Asked'
    BY <1>3, <2>1, <2>2, AskedGrows DEF ApiInv
  <2>5. jobInstanceID' = jobInstanceID /\ jobInstanceID \in Nat
    BY <1>1, JobFacts DEF ApiInv, jVars
  <2>6. NumbersBounded'
    BY <2>4, <2>5, NumbersKept DEF ApiInv
  <2>7. JobsInOrder'
    BY <1>2, JobsUndisturbed DEF ApiInv
  <2>8. CallsSane'
    BY <1>2, CallsUndisturbed, DeviceFacts DEF ApiInv
  <2>9. CountersTrue'
    BY <1>1, CountersUndisturbed DEF ApiInv
  <2>10. DeviceTyped'
    BY <1>1 DEF ApiInv, DeviceTyped, deviceVars
  <2> QED BY <2>3, <2>6, <2>7, <2>8, <2>9, <2>10 DEF ApiInv
<1>4. CASE Answer(r, 404)
  BY <1>1, <1>2, <1>4, ArrivedAnswerKeeps
<1>5. request' = [request EXCEPT ![r] = v] \/ Answer(r, 404)
  BY DEF RunJobRequest
<1> QED BY <1>3, <1>4, <1>5

LEMMA DeleteDeviceKeeps ==
  ASSUME ApiInv, NEW r \in Requests, DeleteDevice(r)
  PROVE  ApiInv'
<1>1. /\ Arrives(r) /\ Answer(r, StatusOf(DeleteError))
      /\ UNCHANGED <<jVars, conn, connected, starting, canRunCommands, closing, commandVars>>
  BY DEF DeleteDevice
<1>2. known' \in BOOLEAN
  BY <1>1 DEF DeleteDevice, ApiInv, DeviceTyped
<1>3. closing' \subseteq 1..connected
  BY <1>1 DEF ApiInv, DeviceTyped
<1>4. StatusOf(DeleteError) \in {200, 400, 404, 500}
  BY StatusFacts
<1>5. UNCHANGED <<jVars, conn, connected, starting, canRunCommands, commandVars>>
  BY <1>1
<1>6. Arrives(r) /\ Answer(r, StatusOf(DeleteError))
  BY <1>1
<1> QED BY <1>2, <1>3, <1>4, <1>5, <1>6, ArrivedAnswerKeeps

LEMMA DisconnectDeviceKeeps ==
  ASSUME ApiInv, NEW r \in Requests, DisconnectDevice(r)
  PROVE  ApiInv'
<1>1. /\ Arrives(r) /\ Answer(r, StatusOf(DisconnectError))
      /\ UNCHANGED <<jVars, known, conn, connected, starting, canRunCommands, commandVars>>
      /\ closing' = closing \cup (IF DisconnectError = "none" THEN {conn} ELSE {})
  BY DEF DisconnectDevice
<1>2. DisconnectError = "none" => conn \in 1..connected
  BY DeviceFacts DEF DisconnectError, ApiInv, NoConn
<1>3. known' \in BOOLEAN /\ closing' \subseteq 1..connected
  BY <1>1, <1>2 DEF ApiInv, DeviceTyped
<1> QED BY <1>1, <1>3, StatusFacts, ArrivedAnswerKeeps

LEMMA AllDevicesKeeps ==
  ASSUME ApiInv, NEW r \in Requests, NEW action, AllDevices(r, action)
  PROVE  ApiInv'
<1>1. /\ Arrives(r)
      /\ UNCHANGED <<jVars, conn, connected, starting, canRunCommands, closing, commandVars>>
  BY DEF AllDevices
<1>2. known' \in BOOLEAN
  BY <1>1 DEF AllDevices, ApiInv, DeviceTyped
<1>3. closing' \subseteq 1..connected
  BY <1>1 DEF ApiInv, DeviceTyped
<1>4. PICK status \in {200, 400, 404, 500} : Answer(r, status)
  BY DEF AllDevices
<1>5. UNCHANGED <<jVars, conn, connected, starting, canRunCommands, commandVars>>
  BY <1>1
<1>6. Arrives(r)
  BY <1>1
<1> QED BY <1>2, <1>3, <1>4, <1>5, <1>6, ArrivedAnswerKeeps

LEMMA AnswerCommandKeeps ==
  ASSUME ApiInv, NEW r \in Requests, AnswerCommand(r)
  PROVE  ApiInv'
<1> DEFINE status == IF call[r].pc = "succeeded" THEN 200 ELSE 500
<1>1. /\ call[r].pc \in {"succeeded", "failed"}
      /\ Answer(r, status)
      /\ UNCHANGED <<jVars, deviceVars, commandVars>>
  BY DEF AnswerCommand
<1>2. call[r].pc = "succeeded" <=> call[r].reply = "ok"
  BY DEF ApiInv, CallsSane, Callers
<1>3. ~ Underway(r)
  BY <1>1 DEF Underway
<1>4. known' \in BOOLEAN /\ closing' \subseteq 1..connected
  BY <1>1 DEF deviceVars, ApiInv, DeviceTyped
<1>5. UNCHANGED <<jVars, conn, connected, starting, canRunCommands, commandVars>>
  BY <1>1 DEF deviceVars
<1>6. status \in {200, 400, 404, 500} /\ (status = 200 <=> call[r].reply = "ok")
  BY <1>2
<1> HIDE DEF status
<1> QED BY <1>1, <1>3, <1>4, <1>5, <1>6, AnswerKeeps

LEMMA AnswerRunJobKeeps ==
  ASSUME ApiInv, NEW r \in Requests, AnswerRunJob(r)
  PROVE  ApiInv'
<1>1. /\ request[r].pc = "asking" /\ Answer(r, 200)
      /\ UNCHANGED <<jVars, deviceVars, commandVars>>
  BY DEF AnswerRunJob
<1>2. call[r].pc = "idle"
  BY <1>1 DEF ApiInv, RequestsInOrder
<1>3. ~ Underway(r)
  BY <1>2 DEF Underway
<1>4. known' \in BOOLEAN /\ closing' \subseteq 1..connected
  BY <1>1 DEF deviceVars, ApiInv, DeviceTyped
<1>5. UNCHANGED <<jVars, conn, connected, starting, canRunCommands, commandVars>>
  BY <1>1 DEF deviceVars
<1> QED BY <1>1, <1>2, <1>3, <1>4, <1>5, AnswerKeeps

-----------------------------------------------------------------------------
(* Commands. *)

\* A command is called, for a caller that had none.
LEMMA CallOnFacts ==
  ASSUME CallsSane, NEW x \in Callers, call[x].pc = "idle", NEW c \in 0..connected,
         CallOn(x, c), connected' = connected, CountersTrue,
         UNCHANGED <<executed, errors, successes>>
  PROVE  CallsSane' /\ CountersTrue'
<1> DEFINE v == [pc |-> "called", conn |-> c, reply |-> "none"]
<1>1. call' = [call EXCEPT ![x] = v]
  BY DEF CallOn
<1>2. \A y \in Callers : call'[y] = IF y = x THEN v ELSE call[y]
  BY <1>1 DEF CallsSane
<1>3. CallsSane'
  <2>1. v \in CallStates(connected)
    BY DEF CallStates
  <2>2. call' \in [Callers -> CallStates(connected')]
    BY <1>1, <2>1 DEF CallsSane
  <2> QED BY <1>2, <2>2 DEF CallsSane, Underway
<1>4. call[x].reply = "none"
  BY DEF CallsSane
<1>5. Executing' = Executing /\ Fine' = Fine
  BY <1>2, <1>4 DEF Executing, Fine
<1>6. CountersTrue'
  BY <1>5 DEF CountersTrue
<1> QED BY <1>3, <1>6

LEMMA DeviceCommandKeeps ==
  ASSUME ApiInv, NEW r \in Requests, NEW kind \in {"command", "logcat"}, DeviceCommand(r, kind)
  PROVE  ApiInv'
<1>1. /\ Arrives(r) /\ request[r].pc = "new"
      /\ UNCHANGED <<jVars, deviceVars, executed, errors, successes>>
  BY DEF DeviceCommand, Arrives
<1>2. /\ UNCHANGED <<conn, connected, starting, canRunCommands>> /\ connected' = connected
      /\ known' \in BOOLEAN /\ closing' \subseteq 1..connected
  BY <1>1 DEF deviceVars, ApiInv, DeviceTyped
<1>3. CASE DeviceError = "none"
  <2> DEFINE v == [request[r] EXCEPT !.pc = kind]
  <2>1. request' = [request EXCEPT ![r].pc = kind] /\ CallOn(r, conn)
    BY <1>3 DEF DeviceCommand
  <2>2. r \in Callers /\ call[r].pc = "idle" /\ conn \in 0..connected
    BY <1>1, DeviceFacts DEF Callers, ApiInv, RequestsInOrder
  <2>3. CallsSane' /\ CountersTrue'
    BY <1>1, <1>2, <2>1, <2>2, CallOnFacts DEF ApiInv
  <2>15. request[r] \in RequestStates(connected) /\ request' = [request EXCEPT ![r] = v]
    BY <2>1 DEF ApiInv, RequestsInOrder
  <2>4. v \in RequestStates(connected) /\ v.pc = kind /\ v.asks = request[r].asks
    BY <2>15 DEF RequestStates
  <2>16. v.asks \in Nat /\ v.asks <= request[r].asks
    BY <2>4, <2>15, ApiConstants DEF RequestStates
  <2> HIDE DEF v
  <2>5. /\ \A x \in Requests : request'[x] = IF x = r THEN v ELSE request[x]
        /\ request' \in [Requests -> RequestStates(connected')]
    BY <1>2, <2>4, <2>15 DEF ApiInv, RequestsInOrder
  <2>6. \A x \in Callers : x # r => call'[x] = call[x]
    BY <2>1 DEF CallOn, ApiInv, CallsSane
  <2>7. \A x \in Requests : x # r => call'[x] = call[x]
    BY <2>6 DEF Callers
  <2>8. RequestsInOrder'
    BY <2>4, <2>5, <2>7 DEF ApiInv, RequestsInOrder, Underway
  <2>9. \A id \in IDs : call'[id] = call[id]
    BY <2>6, ApiConstants DEF Callers
  <2>10. JobsInOrder'
    BY <1>1, <2>9, JobsUndisturbed DEF ApiInv
  <2>11. Asked \subseteq Asked'
    BY <2>4, <2>15, <2>16, AskedGrows DEF ApiInv
  <2>12. jobInstanceID' = jobInstanceID /\ jobInstanceID \in Nat
    BY <1>1, JobFacts DEF ApiInv, jVars
  <2>13. NumbersBounded'
    BY <2>11, <2>12, NumbersKept DEF ApiInv
  <2>14. DeviceTyped'
    BY <1>1 DEF ApiInv, DeviceTyped, deviceVars
  <2> QED BY <2>3, <2>8, <2>10, <2>13, <2>14 DEF ApiInv
<1>4. CASE DeviceError # "none"
  <2>1. Answer(r, StatusOf(DeviceError)) /\ UNCHANGED <<jVars, commandVars>>
    BY <1>1, <1>4 DEF DeviceCommand, commandVars
  <2> QED BY <1>1, <1>2, <2>1, StatusFacts, ArrivedAnswerKeeps
<1> QED BY <1>3, <1>4

\* A command under way goes on or ends, for the request or the job it is for.
LEMMA CommandMoves ==
  ASSUME ApiInv, NEW x \in Callers, Underway(x),
         NEW v \in [pc : {"executing", "succeeded", "failed"}, conn : 0..connected,
                    reply : {"none", "ok", "refused", "undecodable"}],
         v.pc = "succeeded" <=> v.reply = "ok",
         v.pc = "executing" => v.reply = "none",
         call' = [call EXCEPT ![x] = v],
         UNCHANGED <<jVars, deviceVars, request>>
  PROVE  DeviceTyped' /\ CallsSane' /\ RequestsInOrder' /\ JobsInOrder' /\ NumbersBounded'
<1>1. \A y \in Callers : call'[y] = IF y = x THEN v ELSE call[y]
  BY DEF ApiInv, CallsSane
<1>2. connected' = connected /\ UNCHANGED <<known, conn, starting, canRunCommands, closing>>
  BY DEF deviceVars
<1>3. DeviceTyped'
  BY <1>2 DEF ApiInv, DeviceTyped
<1>4. CallsSane'
  <2>1. v \in CallStates(connected)
    BY DEF CallStates
  <2>2. call' \in [Callers -> CallStates(connected')]
    BY <1>2, <2>1 DEF ApiInv, CallsSane
  <2> QED BY <1>1, <2>2 DEF ApiInv, CallsSane, Underway
<1>5. \A y \in Callers : Underway(y)' => Underway(y)
  BY <1>1 DEF Underway
<1>6. RequestsInOrder'
  <2>1. \A r \in Requests : request[r].pc \in {"new", "asking", "starting", "answered"} => r # x
    BY DEF ApiInv, RequestsInOrder, Underway
  <2>2. \A r \in Requests : request[r].pc \in {"new", "asking", "starting", "answered"} =>
          call'[r] = call[r]
    BY <1>1, <2>1 DEF Callers
  <2>3. request' = request
    OBVIOUS
  <2>4. \A r \in Requests : Underway(r)' => Underway(r)
    BY <1>5 DEF Callers
  <2> QED BY <1>2, <2>2, <2>3, <2>4 DEF ApiInv, RequestsInOrder
<1>7. JobsInOrder'
  <2>1. /\ jobsByID' = jobsByID /\ jobInstanceID' = jobInstanceID
        /\ jobInstancesByID' = jobInstancesByID
        /\ goroutines' = goroutines /\ cleared' = cleared /\ Listed' = Listed
    BY DEF jVars, Listed
  <2>2. StartedWhileRunning'
    BY <2>1 DEF ApiInv, JobsInOrder, StartedWhileRunning, JTypeOK
  <2>3. IDs \subseteq Callers /\ Listed \subseteq IDs /\ goroutines \subseteq IDs
    BY JobFacts DEF Callers, ApiInv
  <2>4. x \in IDs => x \in goroutines /\ x <= jobInstanceID
    BY JobFacts DEF ApiInv, JobsInOrder
  <2>5. \A id \in IDs : /\ id > jobInstanceID' => call'[id].pc = "idle"
                        /\ Underway(id)' => id \in goroutines'
    <3> SUFFICES ASSUME NEW id \in IDs
                 PROVE  /\ id > jobInstanceID' => call'[id].pc = "idle"
                        /\ Underway(id)' => id \in goroutines'
      OBVIOUS
    <3>1. CASE id = x
      BY <2>1, <2>4, <3>1, JobFacts DEF ApiInv, IDs
    <3>2. CASE id # x
      <4>1. call'[id] = call[id]
        BY <1>1, <2>3, <3>2
      <4> QED BY <2>1, <2>3, <1>5, <4>1 DEF ApiInv, JobsInOrder
    <3> QED BY <3>1, <3>2
  <2>6. \A id \in goroutines' : call'[id].pc # "idle"
    BY <1>1, <2>1, <2>3 DEF ApiInv, JobsInOrder
  <2>7. ASSUME NEW id \in Listed, jobInstancesByID[id] # "started" PROVE call'[id] = call[id]
    <3>1. id # x
      BY <2>4, <2>7, <2>3 DEF ApiInv, JobsInOrder, StartedWhileRunning
    <3> QED BY <1>1, <2>3, <3>1
  <2>8. \A id \in Listed' : /\ jobInstancesByID'[id] = "succeeded" => call'[id].reply = "ok"
                            /\ jobInstancesByID'[id] = "failed" => call'[id].reply # "ok"
    BY <2>1, <2>7 DEF ApiInv, JobsInOrder
  <2> QED BY <2>1, <2>2, <2>5, <2>6, <2>8 DEF ApiInv, JobsInOrder
<1>8. NumbersBounded'
  BY NumbersUndisturbed DEF ApiInv, jVars
<1> QED BY <1>3, <1>4, <1>6, <1>7, <1>8

LEMMA SetsFinite ==
  /\ IsFiniteSet(Executing) /\ Cardinality(Executing) \in Nat
  /\ IsFiniteSet(Fine) /\ Cardinality(Fine) \in Nat
<1>1. Executing \in SUBSET Callers /\ Fine \in SUBSET Callers
  BY DEF Executing, Fine
<1> QED BY <1>1, ApiConstants, FS_Subset, FS_CardinalityType

LEMMA CheckCommandsKeeps ==
  ASSUME ApiInv, NEW x \in Callers, CheckCommands(x)
  PROVE  ApiInv'
<1>1. /\ call[x].pc = "called" /\ Underway(x)
      /\ UNCHANGED <<jVars, deviceVars, request, errors, successes>>
  BY DEF CheckCommands, Underway
<1>2. /\ call[x].conn \in 0..connected /\ call[x].reply = "none" /\ 0 \in 0..connected
  BY <1>1, DeviceFacts DEF ApiInv, CallsSane, CallStates
<1>3. CASE call[x].conn \in canRunCommands
  <2> DEFINE v == [call[x] EXCEPT !.pc = "executing"]
  <2>1. call' = [call EXCEPT ![x] = v] /\ executed' = executed + 1
    BY <1>3 DEF CheckCommands
  <2>2. /\ v \in [pc : {"executing", "succeeded", "failed"}, conn : 0..connected,
                  reply : {"none", "ok", "refused", "undecodable"}]
        /\ v.pc = "executing" /\ v.reply = "none"
    BY <1>2 DEF ApiInv, CallsSane, CallStates
  <2> HIDE DEF v
  <2>3. DeviceTyped' /\ CallsSane' /\ RequestsInOrder' /\ JobsInOrder' /\ NumbersBounded'
    BY <1>1, <2>1, <2>2, CommandMoves
  <2>4. \A y \in Callers : call'[y] = IF y = x THEN v ELSE call[y]
    BY <2>1 DEF ApiInv, CallsSane
  <2>5. /\ Executing' = Executing \cup {x} /\ x \notin Executing
        /\ Fine' = Fine
    BY <1>1, <1>2, <2>2, <2>4 DEF Executing, Fine
  <2>6. Cardinality(Executing') = Cardinality(Executing) + 1
    BY <2>5, SetsFinite, FS_AddElement
  <2>7. CountersTrue'
    BY <1>1, <2>1, <2>5, <2>6, SetsFinite DEF ApiInv, CountersTrue
  <2> QED BY <2>3, <2>7 DEF ApiInv
<1>4. CASE call[x].conn \notin canRunCommands
  <2> DEFINE v == [pc |-> "failed", conn |-> NoConn, reply |-> "none"]
  <2>1. call' = [call EXCEPT ![x] = v] /\ executed' = executed
    BY <1>4 DEF CheckCommands, Return
  <2>2. v \in [pc : {"executing", "succeeded", "failed"}, conn : 0..connected,
               reply : {"none", "ok", "refused", "undecodable"}]
    BY <1>2 DEF NoConn
  <2>3. DeviceTyped' /\ CallsSane' /\ RequestsInOrder' /\ JobsInOrder' /\ NumbersBounded'
    BY <1>1, <2>1, <2>2, CommandMoves
  <2>4. \A y \in Callers : call'[y] = IF y = x THEN v ELSE call[y]
    BY <2>1 DEF ApiInv, CallsSane
  <2>5. Executing' = Executing /\ Fine' = Fine
    BY <1>1, <1>2, <2>4 DEF Executing, Fine
  <2>6. CountersTrue'
    BY <1>1, <2>1, <2>5 DEF ApiInv, CountersTrue
  <2> QED BY <2>3, <2>6 DEF ApiInv
<1> QED BY <1>3, <1>4

\* An execution ends with a reply, or none.
LEMMA ExecutionEnds ==
  ASSUME ApiInv, NEW x \in Callers, call[x].pc = "executing",
         NEW reply \in {"none", "ok", "refused", "undecodable"},
         Return(x, IF reply = "ok" THEN "succeeded" ELSE "failed", reply),
         IF reply \in {"ok", "undecodable"}
         THEN successes' = successes + 1 /\ UNCHANGED errors
         ELSE errors' = errors + 1 /\ UNCHANGED successes,
         UNCHANGED <<jVars, deviceVars, request, executed>>
  PROVE  ApiInv'
<1> DEFINE v == [pc |-> IF reply = "ok" THEN "succeeded" ELSE "failed", conn |-> NoConn,
                 reply |-> reply]
<1>1. call' = [call EXCEPT ![x] = v]
  BY DEF Return
<1>2. /\ v \in [pc : {"executing", "succeeded", "failed"}, conn : 0..connected,
                reply : {"none", "ok", "refused", "undecodable"}]
      /\ v.pc \in {"succeeded", "failed"} /\ v.reply = reply
      /\ v.pc = "succeeded" <=> v.reply = "ok"
  BY DeviceFacts DEF NoConn, ApiInv
<1>3. Underway(x) /\ call[x].reply = "none"
  BY DEF Underway, ApiInv, CallsSane
<1> HIDE DEF v
<1>4. DeviceTyped' /\ CallsSane' /\ RequestsInOrder' /\ JobsInOrder' /\ NumbersBounded'
  BY <1>1, <1>2, <1>3, CommandMoves
<1>5. \A y \in Callers : call'[y] = IF y = x THEN v ELSE call[y]
  BY <1>1 DEF ApiInv, CallsSane
<1>6. Executing' = Executing \ {x} /\ x \in Executing
  BY <1>2, <1>5 DEF Executing
<1>7. Cardinality(Executing') = Cardinality(Executing) - 1
  BY <1>6, SetsFinite, FS_RemoveElement
<1>8. CountersTrue'
  <2>1. /\ executed \in Nat /\ errors \in Nat /\ successes \in Nat
        /\ executed = errors + successes + Cardinality(Executing)
        /\ successes = Cardinality(Fine) /\ executed' = executed
    BY DEF ApiInv, CountersTrue
  <2>2. CASE reply \in {"ok", "undecodable"}
    <3>1. Fine' = Fine \cup {x} /\ x \notin Fine
      BY <1>2, <1>3, <1>5, <2>2 DEF Fine
    <3>2. Cardinality(Fine') = Cardinality(Fine) + 1
      BY <3>1, SetsFinite, FS_AddElement
    <3>3. successes' = successes + 1 /\ errors' = errors
      BY <2>2
    <3> QED BY <1>7, <2>1, <3>2, <3>3, SetsFinite DEF CountersTrue
  <2>3. CASE reply \notin {"ok", "undecodable"}
    <3>1. Fine' = Fine
      BY <1>2, <1>3, <1>5, <2>3 DEF Fine
    <3>2. errors' = errors + 1 /\ successes' = successes
      BY <2>3
    <3> QED BY <1>7, <2>1, <3>1, <3>2, SetsFinite DEF CountersTrue
  <2> QED BY <2>2, <2>3
<1> QED BY <1>4, <1>8 DEF ApiInv

LEMMA CommandRepliesKeeps ==
  ASSUME ApiInv, NEW x \in Callers, CommandReplies(x)
  PROVE  ApiInv'
<1>1. PICK reply \in Replies(x) :
        /\ Return(x, IF reply = "ok" THEN "succeeded" ELSE "failed", reply)
        /\ IF reply = "refused"
           THEN errors' = errors + 1 /\ UNCHANGED successes
           ELSE successes' = successes + 1 /\ UNCHANGED errors
  BY DEF CommandReplies
<1>2. reply \in {"ok", "refused", "undecodable"}
  BY DEF Replies
<1>3. call[x].pc = "executing" /\ UNCHANGED <<jVars, deviceVars, request, executed>>
  BY DEF CommandReplies
<1> QED BY <1>1, <1>2, <1>3, ExecutionEnds

LEMMA CommandFailsKeeps ==
  ASSUME ApiInv, NEW x \in Callers, CommandFails(x)
  PROVE  ApiInv'
<1>1. /\ call[x].pc = "executing" /\ UNCHANGED <<jVars, deviceVars, request, executed>>
      /\ Return(x, IF "none" = "ok" THEN "succeeded" ELSE "failed", "none")
      /\ errors' = errors + 1 /\ UNCHANGED successes
  BY DEF CommandFails
<1> QED BY <1>1, ExecutionEnds

-----------------------------------------------------------------------------
(* Running jobs. *)

LEMMA AskDeviceKeeps ==
  ASSUME ApiInv, NEW r \in Requests, NEW id, AskDevice(r, id)
  PROVE  ApiInv'
<1>1. /\ request[r].pc = "asking" /\ request[r].asks > 0
      /\ UNCHANGED <<deviceVars, commandVars>>
  BY DEF AskDevice
<1>2. connected' = connected /\ call' = call /\ connected \in Nat /\ conn \in 0..connected
  BY <1>1, DeviceFacts DEF deviceVars, commandVars, ApiInv
<1>3. DeviceTyped' /\ CountersTrue' /\ CallsSane'
  BY <1>1, <1>2, CountersUndisturbed, CallsUndisturbed DEF ApiInv, DeviceTyped, deviceVars
<1>7. request[r] \in RequestStates(connected)
  BY DEF ApiInv, RequestsInOrder
<1>4. /\ request[r].asks \in 1..MaxAsks /\ request[r].asks - 1 \in 0..MaxAsks
      /\ request[r].asks \in Nat /\ jobInstanceID \in Nat
  BY <1>1, <1>7, ApiConstants, JobFacts DEF ApiInv, RequestStates
<1>5. CASE id = "device" /\ DeviceError = "none"
  <2> DEFINE v == [request[r] EXCEPT !.pc = "starting", !.conn = conn]
  <2>1. request' = [request EXCEPT ![r] = v] /\ UNCHANGED jVars
    BY <1>5 DEF AskDevice
  <2>2. /\ v \in RequestStates(connected)
        /\ v.pc = "starting" /\ v.asks = request[r].asks
    BY <1>2, <1>7 DEF RequestStates
  <2> HIDE DEF v
  <2>3. RequestsInOrder'
    BY <1>1, <1>2, <2>1, <2>2, RequestGoesOn
  <2>7. v.asks \in Nat /\ v.asks <= request[r].asks
    BY <1>4, <2>2
  <2>4. Asked \subseteq Asked'
    BY <2>7, <2>1, <2>2, AskedGrows DEF ApiInv
  <2>5. NumbersBounded'
    BY <1>4, <2>1, <2>4, NumbersKept DEF ApiInv, jVars
  <2>6. JobsInOrder'
    BY <1>2, <2>1, JobsUndisturbed DEF ApiInv
  <2> QED BY <1>3, <2>3, <2>5, <2>6 DEF ApiInv
<1>6. CASE ~ (id = "device" /\ DeviceError = "none")
  <2> DEFINE v == [request[r] EXCEPT !.asks = @ - 1]
  <2>1. request' = [request EXCEPT ![r].asks = @ - 1] /\ AddFailedJobInstance
    BY <1>6 DEF AskDevice
  <2>2. /\ v \in RequestStates(connected)
        /\ v.pc = "asking" /\ v.asks = request[r].asks - 1
        /\ request' = [request EXCEPT ![r] = v]
    BY <1>1, <1>4, <1>7, <2>1 DEF RequestStates
  <2> HIDE DEF v
  <2>3. RequestsInOrder'
    BY <1>1, <1>2, <2>2, RequestGoesOn
  <2>4. jobInstanceID + 1 <= MaxInstances
    BY <1>1, <1>4, NumberFits DEF ApiInv
  <2>5. JobsInOrder'
    BY <1>2, <2>1, <2>4, AddFailedKeeps DEF ApiInv
  <2>6. jobInstanceID' = jobInstanceID + 1
    BY <2>1 DEF AddFailedJobInstance, NextID
  <2>8. v.asks \in Nat /\ v.asks <= request[r].asks /\ v.asks < request[r].asks
    BY <1>4, <2>2
  <2>9. Asked \subseteq Asked'
    BY <2>2, <2>8, AskedGrows DEF ApiInv
  <2>11. request'[r] = v
    BY <2>2 DEF ApiInv, RequestsInOrder
  <2>12. request'[r].asks < request[r].asks /\ request'[r].pc # "new"
    BY <2>2, <2>8, <2>11
  <2>10. RequestsInOrder /\ NumbersBounded /\ jobInstanceID \in Nat /\ request[r].asks > 0
    BY <1>1, <1>4 DEF ApiInv
  <2>7. NumbersBounded'
    BY <2>6, <2>9, <2>10, <2>12, NumberUsed
  <2> QED BY <1>3, <2>3, <2>5, <2>7 DEF ApiInv
<1> QED BY <1>5, <1>6

LEMMA StartJobKeeps ==
  ASSUME ApiInv, NEW r \in Requests, StartJob(r)
  PROVE  ApiInv'
<1> DEFINE job == request[r].job
           c == request[r].conn
           v == [request[r] EXCEPT !.pc = "asking", !.asks = request[r].asks - 1, !.conn = NoConn]
<1>15. request' = [request EXCEPT ![r] = v]
  BY DEF StartJob
<1>1. /\ request[r].pc = "starting" /\ RunJob(job)
      /\ request' = [request EXCEPT ![r] = v]
      /\ IF NextID \in goroutines' THEN CallOn(NextID, c) ELSE UNCHANGED call
      /\ UNCHANGED <<deviceVars, executed, errors, successes>>
  BY <1>15 DEF StartJob
<1>2. connected' = connected /\ connected \in Nat
  BY <1>1, DeviceFacts DEF deviceVars, ApiInv
<1>14. request[r] \in RequestStates(connected)
  BY DEF ApiInv, RequestsInOrder
<1>3. /\ request[r].asks \in 1..MaxAsks /\ request[r].asks > 0
      /\ request[r].asks - 1 \in 0..MaxAsks
      /\ jobInstanceID \in Nat /\ c \in 0..connected
  BY <1>1, <1>14, ApiConstants, JobFacts DEF ApiInv, RequestsInOrder, RequestStates
<1>16. NoConn \in 0..connected
  BY <1>2 DEF NoConn
<1>17. v \in RequestStates(connected)
  BY <1>3, <1>14, <1>16 DEF RequestStates
<1>18. v.pc = "asking" /\ v.asks = request[r].asks - 1
  BY <1>14 DEF RequestStates
<1>4. /\ v \in RequestStates(connected)
      /\ v.pc = "asking" /\ v.asks = request[r].asks - 1
  BY <1>17, <1>18
<1> HIDE DEF v, job, c
<1>5. jobInstanceID + 1 <= MaxInstances
  BY <1>1, <1>3, NumberFits DEF ApiInv
<1>6. NextID \in IDs /\ NextID = jobInstanceID + 1 /\ call[NextID].pc = "idle"
  BY <1>5, NextIDFacts DEF ApiInv
<1>7. JobsInOrder'
  BY <1>1, <1>5, RunJobKeeps DEF ApiInv, CallsSane
<1>8. CallsSane' /\ CountersTrue'
  <2>1. CASE CallOn(NextID, c)
    BY <1>1, <1>2, <1>3, <1>6, <2>1, CallOnFacts DEF ApiInv, Callers
  <2>2. CASE UNCHANGED call
    BY <1>1, <1>2, <2>2, CallsUndisturbed, CountersUndisturbed DEF ApiInv, commandVars
  <2> QED BY <1>1, <2>1, <2>2
<1>9. \A x \in Requests : call'[x] = call[x]
  <2>1. \A x \in Requests : x \in Callers /\ x # NextID
    BY <1>6, ApiConstants DEF Callers
  <2>2. \A x \in Callers : x # NextID => call'[x] = call[x]
    BY <1>1 DEF CallOn, ApiInv, CallsSane
  <2> QED BY <2>1, <2>2
<1>10. RequestsInOrder'
  BY <1>1, <1>2, <1>4, <1>9, RequestGoesOn
<1>11. jobInstanceID' = jobInstanceID + 1
  BY <1>1, <1>6 DEF RunJob
<1>19. v.asks \in Nat /\ v.asks <= request[r].asks /\ v.asks < request[r].asks
  BY <1>3, <1>4
<1>21. Asked \subseteq Asked'
  BY <1>15, <1>18, <1>19, AskedGrows DEF ApiInv
<1>22. request'[r] = v
  BY <1>15 DEF ApiInv, RequestsInOrder
<1>23. request'[r].asks < request[r].asks /\ request'[r].pc # "new"
  BY <1>18, <1>19, <1>22
<1>20. RequestsInOrder /\ NumbersBounded /\ jobInstanceID \in Nat /\ request[r].asks > 0
  BY <1>3 DEF ApiInv
<1>12. NumbersBounded'
  BY <1>11, <1>20, <1>21, <1>23, NumberUsed
<1>13. DeviceTyped'
  BY <1>1 DEF ApiInv, DeviceTyped, deviceVars
<1> QED BY <1>7, <1>8, <1>10, <1>12, <1>13 DEF ApiInv

\* Steps of the job manager alone.
LEMMA JobStepKeeps ==
  ASSUME ApiInv, JobsInOrder', jobInstanceID' = jobInstanceID,
         UNCHANGED <<deviceVars, request, commandVars>>
  PROVE  ApiInv'
<1>1. connected' = connected /\ call' = call /\ connected \in Nat /\ request' = request
  BY DeviceFacts DEF deviceVars, commandVars, ApiInv
<1>2. DeviceTyped'
  BY DEF ApiInv, DeviceTyped, deviceVars
<1>3. CallsSane' /\ RequestsInOrder'
  BY <1>1, CallsUndisturbed, RequestsUndisturbed DEF ApiInv
<1>4. CountersTrue' /\ NumbersBounded'
  BY <1>1, CountersUndisturbed, NumbersUndisturbed DEF ApiInv
<1> QED BY <1>2, <1>3, <1>4 DEF ApiInv

LEMMA CompleteJobKeeps ==
  ASSUME ApiInv, NEW id \in IDs, CompleteJob(id)
  PROVE  ApiInv'
<1>1. /\ call[id].pc \in {"succeeded", "failed"} /\ Complete(id, call[id].pc)
      /\ UNCHANGED <<deviceVars, request, commandVars>>
  BY DEF CompleteJob
<1>2. UNCHANGED call /\ jobInstanceID' = jobInstanceID
  BY <1>1 DEF commandVars, Complete
<1>3. JobsInOrder'
  BY <1>1, <1>2, CompleteKeeps DEF ApiInv
<1> QED BY <1>1, <1>2, <1>3, JobStepKeeps

LEMMA ManageJobsKeeps ==
  ASSUME ApiInv, ManageJobs
  PROVE  ApiInv'
<1>1. /\ Reload \/ ClearJobInstances \/ \E id \in IDs : ClearJobInstance(id)
      /\ UNCHANGED <<deviceVars, request, commandVars>>
  BY DEF ManageJobs
<1>2. UNCHANGED call
  BY <1>1 DEF commandVars
<1>3. JobsInOrder' /\ jobInstanceID' = jobInstanceID
  BY <1>1, <1>2, ManageKeeps DEF ApiInv
<1> QED BY <1>1, <1>3, JobStepKeeps

-----------------------------------------------------------------------------
(* The device. *)

\* Connections come and go.
LEMMA DeviceStepKeeps ==
  ASSUME ApiInv, DeviceTyped', connected <= connected',
         UNCHANGED <<jVars, request, commandVars>>
  PROVE  ApiInv'
<1>1. /\ connected \in Nat /\ connected' \in Nat /\ call' = call
      /\ request' = request /\ jobInstanceID' = jobInstanceID
  BY DeviceFacts, ApiConstants DEF ApiInv, DeviceTyped, commandVars, jVars
<1>2. CallsSane' /\ RequestsInOrder'
  BY <1>1, CallsUndisturbed, RequestsUndisturbed DEF ApiInv
<1>3. CountersTrue' /\ NumbersBounded'
  BY <1>1, CountersUndisturbed, NumbersUndisturbed DEF ApiInv
<1>4. JobsInOrder'
  BY <1>1, JobsUndisturbed DEF ApiInv
<1> QED BY <1>2, <1>3, <1>4 DEF ApiInv

LEMMA ConnectionsKeep ==
  ASSUME ApiInv,
         \/ Connect \/ CloseConn
         \/ \E c \in Conns : AllowCommands(c) \/ RefuseCommands(c) \/ CloseInBackground(c)
  PROVE  ApiInv'
<1>1. DeviceTyped /\ connected \in Nat /\ MaxConns \in Nat
  BY DeviceFacts, ApiConstants DEF ApiInv
<1>2. CASE Connect
  <2>1. /\ known' = TRUE /\ connected' = connected + 1 /\ conn' = connected + 1
        /\ connected < MaxConns /\ starting' = starting \cup {conn'}
        /\ UNCHANGED <<jVars, canRunCommands, closing, request, commandVars>>
    BY <1>2 DEF Connect
  <2>2. 1..connected \subseteq 1..connected' /\ conn' \in 1..connected'
    BY <1>1, <2>1
  <2>3. DeviceTyped'
    BY <1>1, <2>1, <2>2 DEF DeviceTyped
  <2> QED BY <1>1, <2>1, <2>3, DeviceStepKeeps
<1>3. CASE CloseConn
  <2>1. /\ conn' = 0 /\ connected' = connected
        /\ UNCHANGED <<jVars, known, starting, canRunCommands, closing, request, commandVars>>
    BY <1>3 DEF CloseConn, NoConn
  <2>2. DeviceTyped'
    BY <1>1, <2>1 DEF DeviceTyped
  <2> QED BY <1>1, <2>1, <2>2, DeviceStepKeeps
<1>4. ASSUME NEW c \in Conns, AllowCommands(c) \/ RefuseCommands(c) \/ CloseInBackground(c)
      PROVE  ApiInv'
  <2>1. /\ UNCHANGED <<jVars, request, commandVars>> /\ connected' = connected
        /\ known' = known
        /\ conn' \in {conn, 0}
        /\ starting' \subseteq starting
        /\ canRunCommands' \subseteq canRunCommands \cup starting
        /\ closing' \subseteq closing
    BY <1>4 DEF AllowCommands, RefuseCommands, CloseInBackground, NoConn
  <2>2. DeviceTyped'
    BY <1>1, <2>1 DEF DeviceTyped
  <2> QED BY <1>1, <2>1, <2>2, DeviceStepKeeps
<1> QED BY <1>2, <1>3, <1>4

-----------------------------------------------------------------------------
(* The invariant, and what follows from it. *)

LEMMA ApiInvInit == AInit => ApiInv
<1> SUFFICES ASSUME AInit PROVE ApiInv
  OBVIOUS
<1>1. /\ jobsByID \in SUBSET JobIDs /\ jobInstanceID = 0
      /\ jobInstancesByID = [id \in {} |-> "started"]
      /\ goroutines = {} /\ cleared = {}
  BY DEF AInit, JInit
<1>2. /\ known = FALSE /\ conn = 0 /\ connected = 0
      /\ starting = {} /\ canRunCommands = {} /\ closing = {}
      /\ request = [r \in Requests |-> [pc |-> "new", job |-> NoJob, asks |-> 0,
                                        conn |-> 0, status |-> 0]]
      /\ call = [x \in Callers |-> [pc |-> "idle", conn |-> 0, reply |-> "none"]]
      /\ executed = 0 /\ errors = 0 /\ successes = 0
  BY DEF AInit, NoConn
<1>13. known \in BOOLEAN
  BY <1>2
<1>3. DeviceTyped
  BY <1>2, <1>13, ApiConstants DEF DeviceTyped
<1>4. CallsSane
  BY <1>2 DEF CallsSane, CallStates
<1>5. RequestsInOrder
  BY <1>2, ApiConstants DEF RequestsInOrder, RequestStates, HTTPStatuses, Callers, Underway
<1>6. Listed = {}
  BY <1>1 DEF Listed
<1>7. StartedWhileRunning
  BY <1>1, <1>6, ApiConstants DEF StartedWhileRunning, JTypeOK
<1>8. \A id \in IDs : call[id].pc = "idle"
  BY <1>2 DEF Callers
<1>9. JobsInOrder
  BY <1>1, <1>6, <1>7, <1>8 DEF JobsInOrder, Underway
<1>10. Executing = {} /\ Fine = {}
  BY <1>2 DEF Executing, Fine
<1>11. CountersTrue
  BY <1>2, <1>10, FS_EmptySet DEF CountersTrue
<1>12. NumbersBounded
  BY <1>1, AskedFacts DEF NumbersBounded
<1> QED BY <1>3, <1>4, <1>5, <1>9, <1>11, <1>12 DEF ApiInv

LEMMA ApiInvStep == ApiInv /\ [ANext]_aVars => ApiInv'
<1> SUFFICES ASSUME ApiInv, [ANext]_aVars PROVE ApiInv'
  OBVIOUS
<1>1. ASSUME NEW r \in Requests,
             \/ \E kind \in {"command", "logcat"} : DeviceCommand(r, kind)
             \/ DeleteDevice(r) \/ DisconnectDevice(r) \/ SwitchDevice(r)
             \/ \E action \in {"delete", "other"} : AllDevices(r, action)
             \/ ControllerAction(r) \/ GetDevice(r) \/ Profile(r)
             \/ \E job \in JobIDs : GetJob(r, job)
             \/ \E id \in IDs : GetJobInstance(r, id)
             \/ \E job \in JobIDs, asks \in 1..MaxAsks : RunJobRequest(r, job, asks)
             \/ Proceed(r)
      PROVE  ApiInv'
  <2>1. CASE \E kind \in {"command", "logcat"} : DeviceCommand(r, kind)
    BY <2>1, DeviceCommandKeeps
  <2>2. CASE DeleteDevice(r)
    BY <2>2, DeleteDeviceKeeps
  <2>3. CASE DisconnectDevice(r)
    BY <2>3, DisconnectDeviceKeeps
  <2>4. CASE \E action \in {"delete", "other"} : AllDevices(r, action)
    BY <2>4, AllDevicesKeeps
  <2>5. CASE SwitchDevice(r) \/ GetDevice(r)
    BY <2>5, AnswerFoundKeeps DEF SwitchDevice, GetDevice
  <2>6. CASE ControllerAction(r) \/ Profile(r)
    BY <2>6, AnswerFoundKeeps DEF ControllerAction, Profile
  <2>7. CASE (\E job \in JobIDs : GetJob(r, job)) \/ (\E id \in IDs : GetJobInstance(r, id))
    BY <2>7, AnswerFoundKeeps DEF GetJob, GetJobInstance
  <2>8. CASE \E job \in JobIDs, asks \in 1..MaxAsks : RunJobRequest(r, job, asks)
    BY <2>8, RunJobRequestKeeps
  <2>9. CASE Proceed(r)
    BY <2>9, AnswerCommandKeeps, AskDeviceKeeps, StartJobKeeps, AnswerRunJobKeeps DEF Proceed
  <2> QED BY <1>1, <2>1, <2>2, <2>3, <2>4, <2>5, <2>6, <2>7, <2>8, <2>9
<1>2. ASSUME NEW x \in Callers, CheckCommands(x) \/ CommandReplies(x) \/ CommandFails(x)
      PROVE  ApiInv'
  BY <1>2, CheckCommandsKeeps, CommandRepliesKeeps, CommandFailsKeeps
<1>3. ASSUME NEW id \in IDs, CompleteJob(id) PROVE ApiInv'
  BY <1>3, CompleteJobKeeps
<1>4. CASE ManageJobs
  BY <1>4, ManageJobsKeeps
<1>5. CASE \/ Connect \/ CloseConn
           \/ \E c \in Conns : AllowCommands(c) \/ RefuseCommands(c) \/ CloseInBackground(c)
  BY <1>5, ConnectionsKeep
<1>6. CASE UNCHANGED aVars
  <2>1. DeviceTyped' /\ connected' = connected /\ connected \in Nat
    BY <1>6, DeviceFacts DEF aVars, deviceVars, ApiInv, DeviceTyped
  <2> QED BY <1>6, <2>1, DeviceStepKeeps DEF aVars
<1> QED BY <1>1, <1>2, <1>3, <1>4, <1>5, <1>6 DEF ANext

LEMMA ApiInvOutcomes == ApiInv => OutcomesTrue
<1> SUFFICES ASSUME ApiInv PROVE OutcomesTrue
  OBVIOUS
<1>1. ATypeOK
  BY DEF ApiInv, DeviceTyped, CallsSane, CallStates, RequestsInOrder, RequestStates, HTTPStatuses,
         JobsInOrder, ATypeOK
<1>2. CallsWith({"executing"}) = Cardinality(Executing)
  BY DEF CallsWith, Executing
<1>3. Fine = {x \in Callers : call[x].reply \in {"ok", "undecodable"}}
  BY DEF Fine
<1>4. /\ StartedWhileRunning
      /\ \A id \in Listed :
           /\ jobInstancesByID[id] = "succeeded" => call[id].reply = "ok"
           /\ jobInstancesByID[id] = "failed" => call[id].reply # "ok"
  BY DEF ApiInv, JobsInOrder
<1>5. \A r \in Requests :
        request[r].pc = "answered" /\ call[r].pc # "idle" =>
          (request[r].status = 200 <=> call[r].reply = "ok")
  BY DEF ApiInv, RequestsInOrder
<1>6. /\ executed = errors + successes + CallsWith({"executing"})
      /\ successes = Cardinality({x \in Callers : call[x].reply \in {"ok", "undecodable"}})
  BY <1>2, <1>3 DEF ApiInv, CountersTrue
<1> QED BY <1>1, <1>4, <1>5, <1>6 DEF OutcomesTrue

\* What a step does to an outcome that is stored: it may be cleared.
Kept == \A id \in Completed : id \in Listed' => jobInstancesByID'[id] = jobInstancesByID[id]

LEMMA OutcomesKept == ApiInv /\ [ANext]_aVars => Kept
<1> SUFFICES ASSUME ApiInv, [ANext]_aVars PROVE Kept
  OBVIOUS
<1>1. ASSUME UNCHANGED jVars PROVE Kept
  BY <1>1 DEF Kept, jVars
<1>2. ASSUME NEW r \in Requests, NEW id, AskDevice(r, id) PROVE Kept
  <2>1. request[r].pc = "asking" /\ request[r].asks > 0
    BY <1>2 DEF AskDevice
  <2>2. CASE AddFailedJobInstance
    <3>1. jobInstanceID + 1 <= MaxInstances
      BY <2>1, NumberFits, JobFacts DEF ApiInv
    <3>2. NextID \notin Listed
      BY <3>1, NextIDFacts DEF ApiInv
    <3>3. \A i \in Listed' : jobInstancesByID'[i] =
            IF i = NextID THEN "failed" ELSE jobInstancesByID[i]
      BY <2>2, PutFacts DEF AddFailedJobInstance
    <3> QED BY <3>2, <3>3 DEF Kept, Completed
  <2> QED BY <1>1, <1>2, <2>2 DEF AskDevice
<1>3. ASSUME NEW r \in Requests, StartJob(r) PROVE Kept
  <2>1. request[r].pc = "starting" /\ RunJob(request[r].job) /\ request[r].asks > 0
    BY <1>3 DEF StartJob, ApiInv, RequestsInOrder
  <2>2. jobInstanceID + 1 <= MaxInstances
    BY <2>1, NumberFits, JobFacts DEF ApiInv
  <2>3. NextID \notin Listed
    BY <2>2, NextIDFacts DEF ApiInv
  <2>4. CASE jobInstancesByID' = Put(NextID, "started")
    <3>1. \A i \in Listed' : jobInstancesByID'[i] =
            IF i = NextID THEN "started" ELSE jobInstancesByID[i]
      BY <2>4, PutFacts
    <3> QED BY <2>3, <3>1 DEF Kept, Completed
  <2>5. CASE UNCHANGED jobInstancesByID
    BY <2>5 DEF Kept
  <2> QED BY <2>1, <2>4, <2>5 DEF RunJob
<1>4. ASSUME NEW id \in IDs, CompleteJob(id) PROVE Kept
  <2>1. id \in goroutines /\ jobInstancesByID' = Put(id, call[id].pc)
    BY <1>4 DEF CompleteJob, Complete
  <2>2. id \notin Completed
    BY <2>1 DEF Completed, ApiInv, JobsInOrder, StartedWhileRunning
  <2>3. \A i \in Listed' : jobInstancesByID'[i] =
          IF i = id THEN call[id].pc ELSE jobInstancesByID[i]
    BY <2>1, PutFacts
  <2> QED BY <2>2, <2>3 DEF Kept
<1>5. CASE ManageJobs
  <2>1. CASE Reload
    BY <2>1 DEF Reload, Kept
  <2>2. ASSUME NEW ids, jobInstancesByID' = Without(ids) PROVE Kept
    BY <2>2, WithoutFacts DEF Kept
  <2> QED BY <1>5, <2>1, <2>2 DEF ManageJobs, ClearJobInstances, ClearJobInstance
<1>6. CASE UNCHANGED aVars
  BY <1>1, <1>6 DEF aVars
<1>7. ASSUME NEW r \in Requests,
             \/ \E kind \in {"command", "logcat"} : DeviceCommand(r, kind)
             \/ DeleteDevice(r) \/ DisconnectDevice(r)
             \/ \E action \in {"delete", "other"} : AllDevices(r, action)
             \/ \E job \in JobIDs, asks \in 1..MaxAsks : RunJobRequest(r, job, asks)
             \/ AnswerCommand(r) \/ AnswerRunJob(r)
      PROVE  UNCHANGED jVars
  BY <1>7 DEF DeviceCommand, DeleteDevice, DisconnectDevice, AllDevices, RunJobRequest,
              AnswerCommand, AnswerRunJob
<1>8. ASSUME NEW r \in Requests, NEW found, AnswerFound(r, found) PROVE UNCHANGED jVars
  BY <1>8 DEF AnswerFound
<1>9. ASSUME NEW r \in Requests,
             \/ SwitchDevice(r) \/ ControllerAction(r) \/ GetDevice(r) \/ Profile(r)
             \/ \E job \in JobIDs : GetJob(r, job)
             \/ \E id \in IDs : GetJobInstance(r, id)
      PROVE  UNCHANGED jVars
  BY <1>8, <1>9 DEF SwitchDevice, ControllerAction, GetDevice, Profile, GetJob, GetJobInstance
<1>10. ASSUME NEW x \in Callers, CheckCommands(x) \/ CommandReplies(x) \/ CommandFails(x)
       PROVE  UNCHANGED jVars
  BY <1>10 DEF CheckCommands, CommandReplies, CommandFails
<1>11. CASE \/ Connect \/ CloseConn
            \/ \E c \in Conns : AllowCommands(c) \/ RefuseCommands(c) \/ CloseInBackground(c)
  BY <1>1, <1>11 DEF Connect, CloseConn, AllowCommands, RefuseCommands, CloseInBackground
<1>12. ASSUME NEW r \in Requests, Proceed(r) PROVE Kept
  BY <1>1, <1>2, <1>3, <1>7, <1>12 DEF Proceed
<1> QED BY <1>1, <1>4, <1>5, <1>6, <1>7, <1>9, <1>10, <1>11, <1>12 DEF ANext

\* Who waits for which command, which numbers are given out and what the counters count,
\* at every step of api_handler.go, deviceconn.go and jobs.go.
THEOREM ApiCorrect == ASpec => []ApiInv
<1> QED BY ApiInvInit, ApiInvStep, PTL DEF ASpec

\* A job is listed as succeeded, and a device command answered with 200, only if the device
\* said so on the connection it was sent on; what is listed as started runs; and
\* device_commands_total counts the errors, the successes and what is under way
\* (jobs.go:293, api_handler.go).
THEOREM NobodyIsDeceived == ASpec => []OutcomesTrue
<1> QED BY ApiCorrect, ApiInvOutcomes, PTL

\* The outcome of an instance is not replaced: its number is not given out again, and its
\* goroutine stores once (jobs.go:216, jobs.go:293).
THEOREM OutcomesStay == ASpec => OutcomeIsFinal
<1>1. ApiInv /\ [ANext]_aVars =>
        [\A id \in Completed : id \in Listed' => jobInstancesByID'[id] = jobInstancesByID[id]]_jVars
  BY OutcomesKept DEF Kept
<1> QED BY <1>1, ApiCorrect, PTL DEF ASpec, OutcomeIsFinal
=============================================================================
