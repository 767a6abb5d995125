----------------------------- MODULE AuthSession -----------------------------
(***************************************************************************)
(* Cookie sessions: auth-session.service.ts, the AuthGuard in front of     *)
(* every handler, the login and logout routes, and the browser's cookie    *)
(* jar, which applies an answer's Set-Cookie when the answer arrives.      *)
(*                                                                         *)
(* req[r] is a request under way.  Each SQL statement is one step; the     *)
(* bcrypt comparison of a login is a step of its own, off the event loop.  *)
(***************************************************************************)
EXTENDS Integers, FiniteSets

CONSTANTS
    Accounts,   \* rows of students, teachers and parents
    Passwords,
    Emails,     \* what is typed at the login form
    Sids,       \* values of newSessionId(); their number bounds the logins
    Requests,   \* requests that may be under way together
    Ttl,        \* SESSION_TTL_SECONDS
    MaxTime,    \* bound of the clock
    Nobody, NoRow, NoCookie

Time == 0..MaxTime
Roles == {"student", "teacher", "parent"}

Account == [role : Roles, id : Nat, email : Nat, password : Passwords]

ASSUME AccountsAssumption == Accounts \subseteq Account /\ Nobody \notin Account /\ Emails \subseteq Nat
ASSUME TimesAssumption == Ttl \in Nat /\ MaxTime \in Nat
ASSUME NoneAssumption == NoCookie \notin Sids

VARIABLES
    clock,
    sessions,  \* auth_sessions: whose session and until when
    cookie,    \* the browser's jeep_sid and when it lapses
    req,       \* the requests under way
    history    \* what was promised so far: logins, logouts answered, cookies refused

vars == <<clock, sessions, cookie, req, history>>

Row == [owner : Accounts, expires : Nat]

ASSUME NoRowAssumption == NoRow \notin Row

Jar == [sid : Sids \cup {NoCookie}, until : Nat]

Idle == [pc |-> "idle"]

(* What a request has learned when it waits for its next statement. *)
Request ==
    {Idle}
    \cup [pc : {"compare"}, found : Accounts \cup {Nobody}, password : Passwords]
    \cup [pc : {"insert"}, owner : Accounts, expires : Nat]
    \cup [pc : {"welcome", "delete", "bye"}, sid : Sids]
    \cup [pc : {"guard"}, sid : Sids, roles : SUBSET Roles]
    \cup [pc : {"roles"}, sid : Sids, auth : Accounts, roles : SUBSET Roles]
    \cup [pc : {"handler"}, sid : Sids, auth : Accounts]

Rows == {i \in Sids : sessions[i] # NoRow}

(* UNION ALL of the three tables with LIMIT 1: the first in this order.    *)
Rank(a) == CASE a.role = "student" -> 1 [] a.role = "teacher" -> 2 [] a.role = "parent" -> 3

Found(email) ==
    LET rows == {a \in Accounts : a.email = email}
    IN  IF rows = {} THEN Nobody ELSE CHOOSE a \in rows : \A b \in rows : Rank(a) <= Rank(b)

(* expires_at > now() *)
Live(i) == i \in Rows /\ sessions[i].expires > clock

(* What the browser sends: a cookie that has not lapsed. *)
Presented == IF cookie.until > clock THEN cookie.sid ELSE NoCookie

Goto(r, request) == req' = [req EXCEPT ![r] = request]

-----------------------------------------------------------------------------
(* POST /api/auth/session *)

(* lookupByEmail.  A dummy hash is compared for an unknown email. *)
LoginLookup(r, email, password) ==
    /\ req[r].pc = "idle"
    /\ Goto(r, [pc |-> "compare", found |-> Found(email), password |-> password])
    /\ UNCHANGED <<clock, sessions, cookie, history>>

Matches(r) == req[r].found # Nobody /\ req[r].found.password = req[r].password

(* bcrypt.compare, then Date.now() + TTL; 401 for a mismatch. *)
LoginCompare(r) ==
    /\ req[r].pc = "compare"
    /\ Goto(r, IF Matches(r)
               THEN [pc |-> "insert", owner |-> req[r].found, expires |-> clock + Ttl]
               ELSE Idle)
    /\ UNCHANGED <<clock, sessions, cookie, history>>

(* INSERT INTO auth_sessions under a fresh random id. *)
LoginInsert(r) ==
    /\ req[r].pc = "insert"
    /\ \E i \in Sids \ DOMAIN history.logins :
          /\ sessions' = [sessions EXCEPT ![i] = [owner |-> req[r].owner, expires |-> req[r].expires]]
          /\ history' = [history EXCEPT !.logins = [j \in DOMAIN @ \cup {i} |->
                            IF j = i THEN [owner |-> req[r].owner, at |-> req[r].expires - Ttl] ELSE @[j]]]
          /\ Goto(r, [pc |-> "welcome", sid |-> i])
    /\ UNCHANGED <<clock, cookie>>

(* The answer reaches the browser: Set-Cookie with maxAge. *)
LoginAnswer(r) ==
    /\ req[r].pc = "welcome"
    /\ cookie' = [sid |-> req[r].sid, until |-> clock + Ttl]
    /\ Goto(r, Idle)
    /\ UNCHANGED <<clock, sessions, history>>

-----------------------------------------------------------------------------
(* AuthGuard.canActivate *)

(* A request without a cookie is answered 401 and changes nothing. *)
Send(r, roles) ==
    /\ req[r].pc = "idle" /\ Presented # NoCookie
    /\ Goto(r, [pc |-> "guard", sid |-> Presented, roles |-> roles])
    /\ UNCHANGED <<clock, sessions, cookie, history>>

(* Mutant: a sliding window, whose UPDATE extends what it refuses. *)
ResolveSliding(r) ==
    /\ req[r].pc = "guard"
    /\ LET i == req[r].sid
       IN  /\ sessions' = IF i \in Rows THEN [sessions EXCEPT ![i].expires = clock + Ttl] ELSE sessions
           /\ IF Live(i)
              THEN Goto(r, [pc |-> "roles", sid |-> i, auth |-> sessions[i].owner, roles |-> req[r].roles])
                   /\ UNCHANGED history
              ELSE Goto(r, Idle) /\ history' = [history EXCEPT !.refused = @ \cup {i}]
    /\ UNCHANGED <<clock, cookie>>

(* resolve: one UPDATE ... WHERE id AND expires_at > now() RETURNING. *)
Resolve(r) ==
    /\ req[r].pc = "guard"
    /\ LET i == req[r].sid
       IN  IF Live(i)
           THEN /\ Goto(r, [pc |-> "roles", sid |-> i, auth |-> sessions[i].owner, roles |-> req[r].roles])
                /\ UNCHANGED history
           ELSE /\ Goto(r, Idle)  \* 401
                /\ history' = [history EXCEPT !.refused = @ \cup {i}]
    /\ UNCHANGED <<clock, sessions, cookie>>

(* The role check: 401 too, or the handler runs as req.auth. *)
CheckRole(r) ==
    /\ req[r].pc = "roles"
    /\ Goto(r, IF req[r].auth.role \in req[r].roles
               THEN [pc |-> "handler", sid |-> req[r].sid, auth |-> req[r].auth] ELSE Idle)
    /\ UNCHANGED <<clock, sessions, cookie, history>>

HandlerEnds(r) ==
    /\ req[r].pc = "handler"
    /\ Goto(r, Idle)
    /\ UNCHANGED <<clock, sessions, cookie, history>>

-----------------------------------------------------------------------------
(* DELETE /api/auth/session, a public route: no cookie is a no-op *)

LogoutSend(r) ==
    /\ req[r].pc = "idle" /\ Presented # NoCookie
    /\ Goto(r, [pc |-> "delete", sid |-> Presented])
    /\ UNCHANGED <<clock, sessions, cookie, history>>

(* Mutant: only the cookie is cleared. *)
LogoutKeepingRow(r) ==
    /\ req[r].pc = "delete"
    /\ Goto(r, [pc |-> "bye", sid |-> req[r].sid])
    /\ UNCHANGED <<clock, sessions, cookie, history>>

LogoutDelete(r) ==
    /\ req[r].pc = "delete"
    /\ sessions' = [sessions EXCEPT ![req[r].sid] = NoRow]
    /\ Goto(r, [pc |-> "bye", sid |-> req[r].sid])
    /\ UNCHANGED <<clock, cookie, history>>

(* The 204 arrives and clears the cookie, whichever it is by now. *)
LogoutAnswer(r) ==
    /\ req[r].pc = "bye"
    /\ cookie' = [sid |-> NoCookie, until |-> 0]
    /\ history' = [history EXCEPT !.ended = @ \cup {req[r].sid}]
    /\ Goto(r, Idle)
    /\ UNCHANGED <<clock, sessions>>

Tick ==
    /\ clock < MaxTime
    /\ clock' = clock + 1
    /\ UNCHANGED <<sessions, cookie, req, history>>

-----------------------------------------------------------------------------
Init ==
    /\ clock = 0
    /\ sessions = [i \in Sids |-> NoRow]
    /\ cookie = [sid |-> NoCookie, until |-> 0]
    /\ req = [r \in Requests |-> Idle]
    /\ history = [logins |-> [i \in {} |-> Nobody], ended |-> {}, refused |-> {}]

Login(r) ==
    \/ \E email \in Emails, password \in Passwords : LoginLookup(r, email, password)
    \/ LoginCompare(r) \/ LoginInsert(r) \/ LoginAnswer(r)

Guarded(r) ==
    \/ \E role \in {"student", "teacher"} : Send(r, {role})
    \/ Resolve(r) \/ CheckRole(r) \/ HandlerEnds(r)

Logout(r) == LogoutSend(r) \/ LogoutDelete(r) \/ LogoutAnswer(r)

Next == Tick \/ \E r \in Requests : Login(r) \/ Guarded(r) \/ Logout(r)

Spec == Init /\ [][Next]_vars

-----------------------------------------------------------------------------
(* Properties *)

(* Types; and a row is what its login was promised, whatever requests did  *)
(* in between: its owner, and an end that no use of the session moves.     *)
TypeOK ==
    /\ clock \in Time
    /\ sessions \in [Sids -> Row \cup {NoRow}]
    /\ cookie \in Jar
    /\ DOMAIN history.logins \subseteq Sids
    /\ history.ended \subseteq Sids /\ history.refused \subseteq Sids
    /\ \A i \in Rows :
          /\ i \in DOMAIN history.logins
          /\ sessions[i].owner = history.logins[i].owner
          /\ sessions[i].expires = history.logins[i].at + Ttl
    /\ req \in [Requests -> Request]

Admits(r) == req[r].pc = "guard" /\ req'[r].pc = "roles"

(* The guard lets a request through as the account that logged in, less    *)
(* than Ttl after its login, and never once its logout was answered: not   *)
(* for a request sent before, not with a cookie an old answer put back.    *)
AdmittedIsLive ==
    [][\A r \in Requests : Admits(r) =>
          /\ req'[r].auth = history.logins[req[r].sid].owner
          /\ clock < history.logins[req[r].sid].at + Ttl
          /\ req[r].sid \notin history.ended]_vars

(* A cookie that was refused stays refused: the runtime page goes dormant  *)
(* at the first 401 and only a new login wakes it.                         *)
RefusedForGood ==
    [][\A r \in Requests : Admits(r) => req[r].sid \notin history.refused]_vars
=============================================================================
