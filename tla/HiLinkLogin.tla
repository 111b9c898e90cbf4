-------------------------------- MODULE HiLinkLogin --------------------------------
(***************************************************************************)
(* The services of the HiLink adapter (vendor/huawei/protocols/hilink).    *)
(* The modem answers HTTP.  A service asks with a session of its own, or   *)
(* with the cookie of a login that the services share and that the adapter *)
(* keeps for four minutes.                                                 *)
(***************************************************************************)
EXTENDS Naturals, Sequences, FiniteSets

CONSTANTS
  Asker,        \* the callers of services; each makes one call
  MaxLogins     \* bound: how often the adapter logs in

ASSUME HiLinkBounds == MaxLogins \in Nat \ {0}

VARIABLES
  ask,       \* per caller: [at, login]; at: idle, login, request, ok, failed
  logins,    \* the logins so far: "session", "login", "ok" or "failed"
  promise,   \* _authPromise: a place in logins, or 0
  aged,      \* four minutes have passed since the promise was made
  blamed     \* note: the logins that had failed when each caller called
hiLinkVars == <<ask, logins, promise, aged, blamed>>

(* What a service asks for: with a session of its own, or with the shared  *)
(* cookie, when up to two requests go out together.                        *)
HttpNetworkOps == {"signal", "registration", "operator"}
HttpDataOps == {"status", "contexts"}
HttpTrafficOps == {"session", "monthly"}
PlainOps == HttpNetworkOps \cup HttpDataOps \cup HttpTrafficOps \cup {"count", "temperature"}
HttpSimOps == {"simInfo", "iccid", "imsi"}
CookieOps == HttpSimOps \cup {"info", "imei", "scan"}

HiLinkInit ==
  /\ ask = [a \in Asker |-> [at |-> "idle", login |-> 0]]
  /\ logins = <<>> /\ promise = 0 /\ aged = FALSE /\ blamed = [a \in Asker |-> {}]

Failed == {n \in DOMAIN logins : logins[n] = "failed"}
Pending(n) == logins[n] \in {"session", "login"}

\* Mutant: what is kept is the cookie, once the login has ended.
KeptWhenDone(n) == n # 0 /\ ~aged /\ ~Pending(n)
(* The promise in the cache serves, while it runs and until it is old.     *)
Serves(n) == n # 0 /\ ~aged

(* getAuthCookie.                                                          *)
CallWithCookie(a, op) ==
  /\ ask[a].at = "idle" /\ op \in CookieOps
  /\ blamed' = [blamed EXCEPT ![a] = Failed]
  /\ IF Serves(promise)
       THEN /\ ask' = [ask EXCEPT ![a] = [at |-> "login", login |-> promise]]
            /\ UNCHANGED <<logins, promise, aged>>
       ELSE /\ Len(logins) < MaxLogins
            /\ ask' = [ask EXCEPT ![a] = [at |-> "login", login |-> Len(logins) + 1]]
            /\ logins' = Append(logins, "session") /\ promise' = Len(logins) + 1 /\ aged' = FALSE

\* temperature() swallows a failure.
Outcomes(op) == IF op = "temperature" THEN {"ok"} ELSE {"ok", "failed"}
(* client.get: a session, then the request.                                *)
CallPlain(a, op) ==
  /\ ask[a].at = "idle" /\ op \in PlainOps /\ \E how \in Outcomes(op) : ask' = [ask EXCEPT ![a].at = how]
  /\ UNCHANGED <<logins, promise, aged, blamed>>

(* The session cookie alone, when there are no credentials; else the login.*)
LoginGoesOn(n) ==
  /\ Pending(n)
  /\ \E how \in {"ok", "failed"} \union (IF logins[n] = "session" THEN {"login"} ELSE {}) :
       /\ logins' = [logins EXCEPT ![n] = how]
       /\ promise' = IF how = "failed" THEN 0 ELSE promise
  /\ UNCHANGED <<ask, aged, blamed>>

(* A login ends within 20 s, long before it is old.                        *)
Ages ==
  /\ promise # 0 /\ ~Pending(promise) /\ ~aged /\ aged' = TRUE
  /\ UNCHANGED <<ask, logins, promise, blamed>>

AskGoesOn(a) ==
  /\ \/ /\ ask[a].at = "login" /\ ~Pending(ask[a].login)
        /\ ask' = [ask EXCEPT ![a].at = IF logins[ask[a].login] = "ok" THEN "request" ELSE "failed"]
     \/ /\ ask[a].at = "request"
        /\ \E how \in {"ok", "failed"} : ask' = [ask EXCEPT ![a].at = how]
  /\ UNCHANGED <<logins, promise, aged, blamed>>

HiLinkNext ==
  \/ \E a \in Asker : (\E op \in CookieOps : CallWithCookie(a, op)) \/ (\E op \in PlainOps : CallPlain(a, op)) \/ AskGoesOn(a)
  \/ \E n \in DOMAIN logins : LoginGoesOn(n)
  \/ Ages
HiLinkSpec == HiLinkInit /\ [][HiLinkNext]_hiLinkVars

----------------------------------------------------------------------------
(* Callers that call at once share one login: no second one begins while   *)
(* one runs, and every caller awaits it.  A login that failed is nobody's  *)
(* failure who called after it.                                            *)
LoginIsShared ==
  /\ Cardinality({n \in DOMAIN logins : Pending(n)}) <= 1
  /\ \A a \in Asker : ask[a].login \notin blamed[a]
=============================================================================
