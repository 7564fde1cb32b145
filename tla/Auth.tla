---------------------------------- MODULE Auth ---------------------------------
(***************************************************************************)
(* The secrets of the three listeners and the sessions of the web UI       *)
(* (libs/auth): the middleware lets a request through that carries the     *)
(* secret or a token signed with it, a login gets a token in a cookie, and *)
(* a reload of the configuration stores new secrets and a new lifetime     *)
(* while requests are under way.  A token is what its signature is made    *)
(* with and when it expires; nobody else can make one.                     *)
(***************************************************************************)
EXTENDS Integers, Sequences, FiniteSets

CONSTANTS
  Secrets,        \* secrets other than the empty one
  NoSecret,       \* the empty secret: nothing is asked of a client
  AuthConfigs,    \* the configurations: [secret |-> each listener's, ttl |-> the UI's]
  Browsers,       \* those who use the web UI or its API
  NoCookie,       \* there is no token
  DefaultTTL,     \* DefaultSessionTTL, in half seconds, as all times here
  MaxNow,         \* bound: the clock
  MaxReloads      \* bound: reloads

VARIABLES
  secret,      \* each listener's Middleware.secret
  sessionTTL,  \* the HTTP listener's Middleware.sessionTTLNanos
  reload,      \* the configuration being applied, and what of it is not applied yet
  reloads,     \* how many reloads there were
  now,         \* the time
  jar,         \* each browser's session cookie, and (history) how long it was under way
  visit        \* each browser's request, and where its handler is

authVars == <<secret, sessionTTL, reload, reloads, now, jar, visit>>

Listeners == {"device", "controller", "http"}
Idle == [pc |-> "idle"]

\* gin's SetCookie leaves Max-Age out when it is 0: such a cookie has no end.
NoEnd == -1

ASSUME AuthAssumption ==
  /\ NoSecret \notin Secrets
  /\ \A c \in AuthConfigs : c.secret \in [Listeners -> Secrets \cup {NoSecret}] /\ c.ttl \in Nat
  /\ DefaultTTL \in Nat \ {0}
  /\ MaxNow \in Nat /\ MaxReloads \in Nat

-----------------------------------------------------------------------------
(* Tokens and cookies. *)

\* Unix counts whole seconds.
Seconds(t) == t \div 2

MintToken(key, ttl) == [key |-> key, exp |-> Seconds(now + ttl)]

\* Wrong: the signing key is not derived from the secret.
VerifyTokenOfAnyKey(token, key) == token # NoCookie /\ now < 2 * token.exp

VerifyToken(token, key) ==
  /\ token # NoCookie
  /\ token.key = key
  /\ now < 2 * token.exp

SessionTTL == IF sessionTTL > 0 THEN sessionTTL ELSE DefaultTTL

\* The cookie as it comes: the token, and the Max-Age of int(ttl.Seconds()).
SessionCookie(token, ttl) == [token |-> token, maxAge |-> 2 * Seconds(ttl)]

\* As the browser keeps it from now on.
Stored(v) ==
  [token |-> v.cookie.token, delay |-> now - v.at,
   until |-> IF v.cookie.maxAge = 0 THEN NoEnd ELSE now + v.cookie.maxAge]

\* The token the browser sends: a cookie is dropped at its end.
CookieOf(b) ==
  IF jar[b] # NoCookie /\ (jar[b].until = NoEnd \/ now < jar[b].until)
  THEN jar[b].token ELSE NoCookie

Authenticates(cred, key) ==
  \/ cred.header = key
  \/ VerifyToken(cred.bearer, key)
  \/ cred.marked /\ VerifyToken(cred.cookie, key)

-----------------------------------------------------------------------------
(* Requests to the API, and logins. *)

InForce == secret["http"]

Visit(b, next) ==
  /\ visit' = [visit EXCEPT ![b] = next]
  /\ UNCHANGED <<secret, sessionTTL, reload, reloads, now>>

\* History: "known", the secrets in force at some moment of the visit, and "since".
Arrive(b, cred) ==
  /\ visit[b] = Idle
  /\ Visit(b, [pc |-> "handler", cred |-> cred, key |-> NoSecret, known |-> {InForce}, since |-> now])
  /\ UNCHANGED jar

NoCredential == [header |-> NoSecret, bearer |-> NoCookie, cookie |-> NoCookie, marked |-> FALSE]

\* The UI sends its cookie, marked by a header of its own; a form of another site does not
\* set it; scripts send the secret, or the token as a bearer.
Ask(b) ==
  \/ \E s \in Secrets : Arrive(b, [NoCredential EXCEPT !.header = s])
  \/ Arrive(b, [NoCredential EXCEPT !.bearer = CookieOf(b)])
  \/ \E marked \in BOOLEAN :
       Arrive(b, [NoCredential EXCEPT !.cookie = CookieOf(b), !.marked = marked])

Answered(b, answer) == Visit(b, [visit[b] EXCEPT !.pc = answer, !.key = NoSecret])

\* The secret is loaded once, and the request is checked against what was loaded.
LoadSecret(b) ==
  /\ visit[b].pc = "handler"
  /\ IF InForce = NoSecret
     THEN Answered(b, "passed")
     ELSE Visit(b, [visit[b] EXCEPT !.pc = "authenticate", !.key = InForce])
  /\ UNCHANGED jar

Authenticate(b) ==
  /\ visit[b].pc = "authenticate"
  /\ Answered(b, IF Authenticates(visit[b].cred, visit[b].key) THEN "passed" ELSE "refused")
  /\ UNCHANGED jar

\* handleLogin loads the secret anew for Enabled, CheckSecret and MintSessionToken.
BeginLogin(b, given) ==
  /\ visit[b] = Idle
  /\ Visit(b, [pc |-> "login", given |-> given, ttl |-> 0, known |-> {InForce}])
  /\ UNCHANGED jar

LoginAnswered(b, answer) == Visit(b, [visit[b] EXCEPT !.pc = answer, !.ttl = 0])

Enabled(b) ==
  /\ visit[b].pc = "login"
  /\ IF InForce = NoSecret
     THEN LoginAnswered(b, "not enabled")
     ELSE Visit(b, [visit[b] EXCEPT !.pc = "check"])
  /\ UNCHANGED jar

CheckSecret(b) ==
  /\ visit[b].pc = "check"
  /\ IF InForce # NoSecret /\ visit[b].given = InForce
     THEN Visit(b, [visit[b] EXCEPT !.pc = "ttl"])
     ELSE LoginAnswered(b, "invalid secret")
  /\ UNCHANGED jar

LoadTTL(b) ==
  /\ visit[b].pc = "ttl"
  /\ Visit(b, [visit[b] EXCEPT !.pc = "mint", !.ttl = SessionTTL])
  /\ UNCHANGED jar

\* Wrong: the lifetime is loaded again for the cookie.
CookieOfNewTTL(v) == SessionCookie(MintToken(InForce, v.ttl), SessionTTL)

Cookie(v) == SessionCookie(MintToken(InForce, v.ttl), v.ttl)

MintSession(b) ==
  /\ visit[b].pc = "mint"
  /\ Visit(b, [pc |-> "logged in", given |-> visit[b].given, known |-> visit[b].known,
               cookie |-> Cookie(visit[b]), at |-> now])
  /\ UNCHANGED jar

\* The answer arrives; the answer to a login brings the cookie.
Leave(b) ==
  /\ visit[b].pc \in {"passed", "refused", "not enabled", "invalid secret", "logged in"}
  /\ jar' = IF visit[b].pc = "logged in"
            THEN [jar EXCEPT ![b] = Stored(visit[b])] ELSE jar
  /\ Visit(b, Idle)

Logout(b) ==
  /\ visit[b] = Idle
  /\ jar[b] # NoCookie
  /\ jar' = [jar EXCEPT ![b] = NoCookie]
  /\ Visit(b, Idle)

-----------------------------------------------------------------------------
(* Reloads, and time. *)

\* In the order of App.reload.
Steps == <<"controller", "device", "http", "ttl">>

BeginReload(c) ==
  /\ reload.left = <<>>
  /\ reloads < MaxReloads
  /\ reloads' = reloads + 1
  /\ reload' = [to |-> c, left |-> Steps]
  /\ UNCHANGED <<secret, sessionTTL, now, jar, visit>>

SetSecret(listener) ==
  /\ secret' = [secret EXCEPT ![listener] = reload.to.secret[listener]]
  /\ visit' = [b \in Browsers |->
       IF listener = "http" /\ visit[b] # Idle
       THEN [visit[b] EXCEPT !.known = @ \cup {reload.to.secret[listener]}] ELSE visit[b]]
  /\ UNCHANGED sessionTTL

SetSessionTTL ==
  /\ sessionTTL' = reload.to.ttl
  /\ UNCHANGED <<secret, visit>>

ApplyNext ==
  /\ reload.left # <<>>
  /\ IF Head(reload.left) = "ttl" THEN SetSessionTTL ELSE SetSecret(Head(reload.left))
  /\ reload' = [reload EXCEPT !.left = Tail(@)]
  /\ UNCHANGED <<reloads, now, jar>>

Tick ==
  /\ now < MaxNow
  /\ now' = now + 1
  /\ UNCHANGED <<secret, sessionTTL, reload, reloads, jar, visit>>

AuthInit ==
  /\ \E c \in AuthConfigs :
       /\ secret = c.secret
       /\ sessionTTL = c.ttl
       /\ reload = [to |-> c, left |-> <<>>]
  /\ reloads = 0
  /\ now = 0
  /\ jar = [b \in Browsers |-> NoCookie]
  /\ visit = [b \in Browsers |-> Idle]

Reloads == ApplyNext \/ \E c \in AuthConfigs : BeginReload(c)

Visits ==
  \E b \in Browsers :
    \/ Ask(b) \/ LoadSecret(b) \/ Authenticate(b)
    \/ \E given \in Secrets \cup {NoSecret} : BeginLogin(b, given)
    \/ Enabled(b) \/ CheckSecret(b) \/ LoadTTL(b) \/ MintSession(b)
    \/ Leave(b) \/ Logout(b)

AuthNext == Reloads \/ Visits \/ Tick

AuthSpec == AuthInit /\ [][AuthNext]_authVars

-----------------------------------------------------------------------------
(* Properties. *)

Tokens == [key : Secrets \cup {NoSecret}, exp : Nat]

\* What is stored and sent has its type.
AuthTypeOK ==
  /\ secret \in [Listeners -> Secrets \cup {NoSecret}]
  /\ sessionTTL \in Nat
  /\ reload.to \in AuthConfigs
  /\ reloads \in 0..MaxReloads
  /\ now \in 0..MaxNow
  /\ \A b \in Browsers : jar[b] # NoCookie => jar[b].token \in Tokens

SentTokens(cred) ==
  ({cred.bearer} \cup IF cred.marked THEN {cred.cookie} ELSE {}) \ {NoCookie}

\* Whatever a reload does meanwhile, an answer is right at some moment of the request:
\* who passes had the secret of that moment, or a token of it that was alive when the
\* request came, and who is refused had not; a session ends with its secret
\* (middleware.go:41, 75; session_handlers.go:58).
VerdictsCurrent ==
  /\ AuthTypeOK
  /\ \A b \in Browsers :
       LET v == visit[b] IN
       /\ v.pc = "passed" =>
            \E key \in v.known :
              \/ key = NoSecret
              \/ v.cred.header = key
              \/ \E t \in SentTokens(v.cred) : t.key = key /\ v.since < 2 * t.exp
       /\ v.pc = "refused" => \E key \in v.known \ {NoSecret} : ~ Authenticates(v.cred, key)
       /\ v.pc = "not enabled" => NoSecret \in v.known
       /\ v.pc = "invalid secret" => \E key \in v.known : key = NoSecret \/ key # v.given
       /\ v.pc = "logged in" => v.given \in v.known

\* A browser drops the cookie when the server stops honouring its token, up to the time
\* the answer took and a second that Unix rounds off: also when the lifetime changes
\* during the login (session_handlers.go:87, session_handlers.go:99).
CookieMirrorsToken ==
  \A b \in Browsers :
    jar[b] # NoCookie /\ jar[b].until # NoEnd =>
      jar[b].until - jar[b].delay - 2 * jar[b].token.exp \in -1..1
================================================================================
