------------------------- MODULE AuthSession_proofs -------------------------
(***************************************************************************)
(* Theorems about AuthSession: its types, whom the guard lets through, and *)
(* that a refusal is final, for any accounts, requests, session ids, time  *)
(* to live and bound of the clock.                                         *)
(***************************************************************************)
EXTENDS AuthSession, TLAPS

USE AccountsAssumption, TimesAssumption, NoneAssumption, NoRowAssumption

-----------------------------------------------------------------------------
(* The inductive invariant *)

Holding == {"welcome", "guard", "roles", "handler", "delete", "bye"}

(* Whatever holds a session id got it from a login: an id that is fresh to *)
(* INSERT is one that no cookie, request, refusal or logout knows.         *)
Known ==
    /\ cookie.sid # NoCookie => cookie.sid \in DOMAIN history.logins
    /\ \A r \in Requests : req[r].pc \in Holding => req[r].sid \in DOMAIN history.logins
    /\ history.ended \cup history.refused \subseteq DOMAIN history.logins

(* Once a logout has deleted its row, before its answer and for good after *)
(* it, there is no such row.                                               *)
EndedGone ==
    /\ \A r \in Requests : req[r].pc = "bye" => req[r].sid \notin Rows
    /\ \A i \in history.ended : i \notin Rows

RefusedDead == \A i \in history.refused : ~Live(i)

Fields == history = [logins |-> history.logins, ended |-> history.ended, refused |-> history.refused]

IInv == TypeOK /\ Fields /\ Known /\ EndedGone /\ RefusedDead

-----------------------------------------------------------------------------
(* Requests *)

LEMMA RequestByPc ==
    ASSUME TypeOK, NEW r \in Requests
    PROVE  /\ req[r].pc = "compare" =>
                 req[r] \in [pc : {"compare"}, found : Accounts \cup {Nobody}, password : Passwords]
           /\ req[r].pc = "insert" => req[r] \in [pc : {"insert"}, owner : Accounts, expires : Nat]
           /\ req[r].pc \in {"welcome", "delete", "bye"} =>
                 req[r] \in [pc : {"welcome", "delete", "bye"}, sid : Sids]
           /\ req[r].pc = "guard" => req[r] \in [pc : {"guard"}, sid : Sids, roles : SUBSET Roles]
           /\ req[r].pc = "roles" =>
                 req[r] \in [pc : {"roles"}, sid : Sids, auth : Accounts, roles : SUBSET Roles]
<1>1. req[r] \in Request
  BY DEF TypeOK
<1>2. QED
  BY <1>1 DEF Request, Idle

LEMMA GotoStep ==
    ASSUME TypeOK, NEW r \in Requests, NEW q \in Request, Goto(r, q)
    PROVE  /\ req' \in [Requests -> Request]
           /\ req'[r] = q
           /\ \A t \in Requests : t # r => req'[t] = req[t]
BY DEF TypeOK, Goto

LEMMA IdleRequest == Idle \in Request /\ Idle.pc = "idle"
BY DEF Idle, Request

LEMMA RowTypes ==
    ASSUME TypeOK, NEW i \in Rows
    PROVE  /\ i \in Sids /\ sessions[i] \in Row
           /\ sessions[i].owner \in Accounts /\ sessions[i].expires \in Nat
BY DEF TypeOK, Rows, Row

(* A request moves on and the table, the cookie and the promises stay.     *)
LEMMA QuietStep ==
    ASSUME IInv, NEW r \in Requests, NEW q \in Request, Goto(r, q),
           q.pc \in Holding => q.sid \in DOMAIN history.logins,
           q.pc # "bye",
           UNCHANGED <<clock, sessions, cookie, history>>
    PROVE  IInv'
<1>1. /\ req' \in [Requests -> Request]
      /\ req'[r] = q
      /\ \A t \in Requests : t # r => req'[t] = req[t]
  BY GotoStep DEF IInv
<1>2. Rows' = Rows /\ \A i : Live(i)' <=> Live(i)
  BY DEF Rows, Live
<1>3. TypeOK'
  BY <1>1, <1>2 DEF IInv, TypeOK
<1>4. Known'
  BY <1>1 DEF IInv, Known
<1>5. EndedGone'
  BY <1>1, <1>2 DEF IInv, EndedGone
<1>6. RefusedDead' /\ Fields'
  BY <1>2 DEF IInv, RefusedDead, Fields
<1>7. QED
  BY <1>3, <1>4, <1>5, <1>6 DEF IInv

-----------------------------------------------------------------------------
(* One lemma per action *)

LEMMA InvLoginLookup ==
    ASSUME IInv, NEW r \in Requests, NEW email \in Emails, NEW password \in Passwords,
           LoginLookup(r, email, password)
    PROVE  IInv'
<1> DEFINE q == [pc |-> "compare", found |-> Found(email), password |-> password]
<1>1. Found(email) \in Accounts \cup {Nobody}
  BY DEF Found
<1>2. q \in Request /\ q.pc = "compare"
  BY <1>1 DEF Request
<1>3. Goto(r, q) /\ UNCHANGED <<clock, sessions, cookie, history>>
  BY DEF LoginLookup
<1> HIDE DEF q
<1>4. QED
  BY <1>2, <1>3, QuietStep DEF Holding

LEMMA InvLoginCompare ==
    ASSUME IInv, NEW r \in Requests, LoginCompare(r)
    PROVE  IInv'
<1> DEFINE q == [pc |-> "insert", owner |-> req[r].found, expires |-> clock + Ttl]
<1>1. /\ req[r] \in [pc : {"compare"}, found : Accounts \cup {Nobody}, password : Passwords]
      /\ UNCHANGED <<clock, sessions, cookie, history>>
  BY RequestByPc DEF LoginCompare, IInv
<1>2. CASE Matches(r)
  <2>1. req[r].found \in Accounts /\ clock + Ttl \in Nat
    BY <1>1, <1>2 DEF Matches, IInv, TypeOK, Time
  <2>2. q \in Request /\ q.pc = "insert"
    BY <2>1 DEF Request
  <2>3. Goto(r, q)
    BY <1>2 DEF LoginCompare
  <2> HIDE DEF q
  <2>4. QED
    BY <1>1, <2>2, <2>3, QuietStep DEF Holding
<1>3. CASE ~Matches(r)
  <2>1. Goto(r, Idle)
    BY <1>3 DEF LoginCompare
  <2>2. QED
    BY <1>1, <2>1, IdleRequest, QuietStep DEF Holding
<1>4. QED
  BY <1>2, <1>3

(* The id is new to everything: what was ended or refused stays so.        *)
LEMMA InvLoginInsert ==
    ASSUME IInv, NEW r \in Requests, LoginInsert(r)
    PROVE  IInv'
<1>1. req[r] \in [pc : {"insert"}, owner : Accounts, expires : Nat]
  BY RequestByPc DEF LoginInsert, IInv
<1> DEFINE row == [owner |-> req[r].owner, expires |-> req[r].expires]
           promise == [owner |-> req[r].owner, at |-> req[r].expires - Ttl]
           old == history.logins
<1>2. PICK i \in Sids \ DOMAIN old :
        /\ sessions' = [sessions EXCEPT ![i] = row]
        /\ history' = [history EXCEPT !.logins = [j \in DOMAIN old \cup {i} |->
                          IF j = i THEN promise ELSE old[j]]]
        /\ Goto(r, [pc |-> "welcome", sid |-> i])
        /\ UNCHANGED <<clock, cookie>>
  BY DEF LoginInsert
<1> DEFINE new == [j \in DOMAIN old \cup {i} |-> IF j = i THEN promise ELSE old[j]]
           q == [pc |-> "welcome", sid |-> i]
<1>3. row \in Row /\ row # NoRow /\ row.owner = promise.owner /\ row.expires = promise.at + Ttl
  BY <1>1 DEF Row
<1>4. /\ history'.logins = new /\ history'.ended = history.ended /\ history'.refused = history.refused
      /\ Fields'
  BY <1>2 DEF IInv, Fields
<1>5. /\ DOMAIN new = DOMAIN old \cup {i}
      /\ new[i] = promise
      /\ \A j \in DOMAIN old : new[j] = old[j]
  BY <1>2
<1>6. q \in Request /\ q.pc = "welcome" /\ q.sid = i
  BY <1>2 DEF Request
<1> HIDE DEF row, promise, new, q
<1>7. /\ req' \in [Requests -> Request]
      /\ req'[r] = q
      /\ \A t \in Requests : t # r => req'[t] = req[t]
  BY <1>2, <1>6, GotoStep DEF IInv, q
<1>8. /\ Rows' = Rows \cup {i} /\ sessions'[i] = row
      /\ \A j \in Rows : sessions'[j] = sessions[j]
  <2>1. i \notin Rows
    BY <1>2 DEF IInv, TypeOK
  <2>2. sessions \in [Sids -> Row \cup {NoRow}] /\ i \in Sids
    BY <1>2 DEF IInv, TypeOK
  <2>3. QED
    BY <1>2, <1>3, <2>1, <2>2 DEF Rows
<1>9. TypeOK'
  <2>1. sessions' \in [Sids -> Row \cup {NoRow}]
    BY <1>2, <1>3 DEF IInv, TypeOK
  <2>2. /\ clock' \in Time /\ cookie' \in Jar /\ DOMAIN history'.logins \subseteq Sids
        /\ history'.ended \subseteq Sids /\ history'.refused \subseteq Sids
    BY <1>2, <1>4, <1>5 DEF IInv, TypeOK
  <2>3. ASSUME NEW j \in Rows'
        PROVE  /\ j \in DOMAIN history'.logins
               /\ sessions'[j].owner = history'.logins[j].owner
               /\ sessions'[j].expires = history'.logins[j].at + Ttl
    <3>1. CASE j = i
      BY <1>3, <1>4, <1>5, <1>8, <3>1
    <3>2. CASE j # i
      <4>1. j \in Rows /\ j \in DOMAIN old
        BY <1>8, <2>3, <3>2 DEF IInv, TypeOK
      <4>2. QED
        BY <1>4, <1>5, <1>8, <4>1 DEF IInv, TypeOK
    <3>3. QED
      BY <3>1, <3>2
  <2>4. QED
    BY <1>7, <2>1, <2>2, <2>3 DEF TypeOK
<1>10. Known'
  <2>1. \A t \in Requests : (req[t].pc \in Holding => req[t].sid \in DOMAIN history.logins)'
    BY <1>4, <1>5, <1>6, <1>7 DEF IInv, Known
  <2>2. QED
    BY <1>2, <1>4, <1>5, <2>1 DEF IInv, Known
<1>11. EndedGone'
  <2>1. ASSUME NEW t \in Requests, req'[t].pc = "bye"
        PROVE  req'[t].sid \notin Rows'
    <3>1. t # r /\ req'[t] = req[t] /\ req[t].sid \notin Rows /\ req[t].sid \in DOMAIN old
      BY <1>6, <1>7, <2>1 DEF IInv, EndedGone, Known, Holding
    <3>2. QED
      BY <1>2, <1>8, <3>1
  <2>2. \A j \in history'.ended : j \notin Rows'
    BY <1>2, <1>4, <1>8 DEF IInv, EndedGone, Known
  <2>3. QED
    BY <2>1, <2>2 DEF EndedGone
<1>12. RefusedDead'
  <2>1. ASSUME NEW j \in history'.refused
        PROVE  ~Live(j)'
    <3>1. j \in DOMAIN old /\ ~Live(j) /\ j # i
      BY <1>2, <1>4, <2>1 DEF IInv, RefusedDead, Known
    <3>2. QED
      BY <1>2, <1>8, <3>1 DEF Live
  <2>2. QED
    BY <2>1 DEF RefusedDead
<1>13. QED
  BY <1>4, <1>9, <1>10, <1>11, <1>12 DEF IInv

LEMMA InvLoginAnswer ==
    ASSUME IInv, NEW r \in Requests, LoginAnswer(r)
    PROVE  IInv'
<1>1. /\ req[r] \in [pc : {"welcome", "delete", "bye"}, sid : Sids] /\ req[r].pc = "welcome"
      /\ cookie' = [sid |-> req[r].sid, until |-> clock + Ttl]
      /\ Goto(r, Idle) /\ UNCHANGED <<clock, sessions, history>>
  BY RequestByPc DEF LoginAnswer, IInv
<1>2. req[r].sid \in Sids /\ req[r].sid \in DOMAIN history.logins /\ clock + Ttl \in Nat
  BY <1>1 DEF IInv, Known, Holding, TypeOK, Time
<1>3. /\ req' \in [Requests -> Request]
      /\ req'[r] = Idle
      /\ \A t \in Requests : t # r => req'[t] = req[t]
  BY <1>1, IdleRequest, GotoStep DEF IInv
<1>4. Rows' = Rows /\ \A i : Live(i)' <=> Live(i)
  BY <1>1 DEF Rows, Live
<1>5. cookie' \in Jar /\ cookie'.sid = req[r].sid
  BY <1>1, <1>2 DEF Jar
<1>6. TypeOK'
  BY <1>1, <1>3, <1>4, <1>5 DEF IInv, TypeOK
<1>7. Known'
  BY <1>1, <1>2, <1>3, <1>5, IdleRequest DEF IInv, Known, Holding
<1>8. EndedGone'
  BY <1>1, <1>3, <1>4, IdleRequest DEF IInv, EndedGone
<1>9. RefusedDead' /\ Fields'
  BY <1>1, <1>4 DEF IInv, RefusedDead, Fields
<1>10. QED
  BY <1>6, <1>7, <1>8, <1>9 DEF IInv

LEMMA PresentedKnown ==
    ASSUME IInv, Presented # NoCookie
    PROVE  Presented \in Sids /\ Presented \in DOMAIN history.logins
<1>1. Presented = cookie.sid
  BY DEF Presented
<1>2. cookie.sid \in Sids \cup {NoCookie}
  BY DEF IInv, TypeOK, Jar
<1>3. QED
  BY <1>1, <1>2 DEF IInv, Known

LEMMA InvSend ==
    ASSUME IInv, NEW r \in Requests, NEW roles \in SUBSET Roles, Send(r, roles)
    PROVE  IInv'
<1> DEFINE q == [pc |-> "guard", sid |-> Presented, roles |-> roles]
<1>1. Presented \in Sids /\ Presented \in DOMAIN history.logins
  BY PresentedKnown DEF Send
<1>2. q \in Request /\ q.pc = "guard" /\ q.sid = Presented
  BY <1>1 DEF Request
<1>3. Goto(r, q) /\ UNCHANGED <<clock, sessions, cookie, history>>
  BY DEF Send
<1> HIDE DEF q
<1>4. QED
  BY <1>1, <1>2, <1>3, QuietStep

(* A refusal is of a session that no later step revives.                   *)
LEMMA InvResolve ==
    ASSUME IInv, NEW r \in Requests, Resolve(r)
    PROVE  IInv'
<1> DEFINE i == req[r].sid
<1>1. req[r] \in [pc : {"guard"}, sid : Sids, roles : SUBSET Roles] /\ req[r].pc = "guard"
  BY RequestByPc DEF Resolve, IInv
<1>2. i \in Sids /\ i \in DOMAIN history.logins
  BY <1>1 DEF IInv, Known, Holding
<1>3. CASE Live(i)
  <2> DEFINE q == [pc |-> "roles", sid |-> i, auth |-> sessions[i].owner, roles |-> req[r].roles]
  <2>1. sessions[i].owner \in Accounts
    BY <1>3, RowTypes DEF Live, IInv
  <2>2. q \in Request /\ q.pc = "roles" /\ q.sid = i
    BY <1>1, <2>1 DEF Request
  <2>3. Goto(r, q) /\ UNCHANGED <<clock, sessions, cookie, history>>
    BY <1>3 DEF Resolve
  <2> HIDE DEF q
  <2>4. QED
    BY <1>2, <2>2, <2>3, QuietStep
<1>4. CASE ~Live(i)
  <2>1. /\ Goto(r, Idle) /\ history' = [history EXCEPT !.refused = @ \cup {i}]
        /\ UNCHANGED <<clock, sessions, cookie>>
    BY <1>4 DEF Resolve
  <2>2. /\ history'.logins = history.logins /\ history'.ended = history.ended
        /\ history'.refused = history.refused \cup {i} /\ Fields'
    BY <2>1 DEF IInv, Fields
  <2>3. /\ req' \in [Requests -> Request]
        /\ req'[r] = Idle
        /\ \A t \in Requests : t # r => req'[t] = req[t]
    BY <2>1, IdleRequest, GotoStep DEF IInv
  <2>4. Rows' = Rows /\ \A j : Live(j)' <=> Live(j)
    BY <2>1 DEF Rows, Live
  <2>5. TypeOK'
    BY <1>2, <2>1, <2>2, <2>3, <2>4 DEF IInv, TypeOK
  <2>6. Known'
    BY <1>2, <2>1, <2>2, <2>3, IdleRequest DEF IInv, Known, Holding
  <2>7. EndedGone'
    BY <2>2, <2>3, <2>4, IdleRequest DEF IInv, EndedGone
  <2>8. RefusedDead'
    BY <1>4, <2>2, <2>4 DEF IInv, RefusedDead
  <2>9. QED
    BY <2>2, <2>5, <2>6, <2>7, <2>8 DEF IInv
<1>5. QED
  BY <1>3, <1>4

LEMMA InvCheckRole ==
    ASSUME IInv, NEW r \in Requests, CheckRole(r)
    PROVE  IInv'
<1> DEFINE q == [pc |-> "handler", sid |-> req[r].sid, auth |-> req[r].auth]
<1>1. /\ req[r] \in [pc : {"roles"}, sid : Sids, auth : Accounts, roles : SUBSET Roles]
      /\ req[r].pc = "roles" /\ UNCHANGED <<clock, sessions, cookie, history>>
  BY RequestByPc DEF CheckRole, IInv
<1>2. q \in Request /\ q.pc = "handler" /\ q.sid = req[r].sid /\ req[r].sid \in DOMAIN history.logins
  BY <1>1 DEF Request, IInv, Known, Holding
<1>3. Goto(r, q) \/ Goto(r, Idle)
  BY DEF CheckRole
<1> HIDE DEF q
<1>4. QED
  BY <1>1, <1>2, <1>3, IdleRequest, QuietStep DEF Holding

LEMMA InvHandlerEnds ==
    ASSUME IInv, NEW r \in Requests, HandlerEnds(r)
    PROVE  IInv'
BY IdleRequest, QuietStep DEF HandlerEnds, Holding

LEMMA InvLogoutSend ==
    ASSUME IInv, NEW r \in Requests, LogoutSend(r)
    PROVE  IInv'
<1> DEFINE q == [pc |-> "delete", sid |-> Presented]
<1>1. Presented \in Sids /\ Presented \in DOMAIN history.logins
  BY PresentedKnown DEF LogoutSend
<1>2. q \in Request /\ q.pc = "delete" /\ q.sid = Presented
  BY <1>1 DEF Request
<1>3. Goto(r, q) /\ UNCHANGED <<clock, sessions, cookie, history>>
  BY DEF LogoutSend
<1> HIDE DEF q
<1>4. QED
  BY <1>1, <1>2, <1>3, QuietStep

LEMMA InvLogoutDelete ==
    ASSUME IInv, NEW r \in Requests, LogoutDelete(r)
    PROVE  IInv'
<1> DEFINE i == req[r].sid
           q == [pc |-> "bye", sid |-> i]
<1>1. /\ req[r] \in [pc : {"welcome", "delete", "bye"}, sid : Sids] /\ req[r].pc = "delete"
      /\ sessions' = [sessions EXCEPT ![i] = NoRow]
      /\ Goto(r, q) /\ UNCHANGED <<clock, cookie, history>>
  BY RequestByPc DEF LogoutDelete, IInv
<1>2. i \in Sids /\ i \in DOMAIN history.logins
  BY <1>1 DEF IInv, Known, Holding
<1>3. q \in Request /\ q.pc = "bye" /\ q.sid = i
  BY <1>2 DEF Request
<1>4. /\ req' \in [Requests -> Request]
      /\ req'[r] = q
      /\ \A t \in Requests : t # r => req'[t] = req[t]
  <2> HIDE DEF q
  <2>1. QED
    BY <1>1, <1>3, GotoStep DEF IInv
<1> HIDE DEF q
<1>5. /\ Rows' = Rows \ {i} /\ \A j \in Rows' : sessions'[j] = sessions[j]
      /\ sessions' \in [Sids -> Row \cup {NoRow}]
  BY <1>1, <1>2 DEF IInv, TypeOK, Rows
<1>6. TypeOK'
  BY <1>1, <1>4, <1>5 DEF IInv, TypeOK
<1>7. Known'
  BY <1>1, <1>2, <1>3, <1>4 DEF IInv, Known
<1>8. EndedGone'
  BY <1>1, <1>3, <1>4, <1>5 DEF IInv, EndedGone
<1>9. RefusedDead' /\ Fields'
  <2>1. \A j : Live(j)' => Live(j)
    BY <1>1, <1>5 DEF Live
  <2>2. QED
    BY <1>1, <2>1 DEF IInv, RefusedDead, Fields
<1>10. QED
  BY <1>6, <1>7, <1>8, <1>9 DEF IInv

LEMMA InvLogoutAnswer ==
    ASSUME IInv, NEW r \in Requests, LogoutAnswer(r)
    PROVE  IInv'
<1> DEFINE i == req[r].sid
<1>1. /\ req[r] \in [pc : {"welcome", "delete", "bye"}, sid : Sids] /\ req[r].pc = "bye"
      /\ cookie' = [sid |-> NoCookie, until |-> 0]
      /\ history' = [history EXCEPT !.ended = @ \cup {i}]
      /\ Goto(r, Idle) /\ UNCHANGED <<clock, sessions>>
  BY RequestByPc DEF LogoutAnswer, IInv
<1>2. i \in Sids /\ i \in DOMAIN history.logins /\ i \notin Rows
  BY <1>1 DEF IInv, Known, Holding, EndedGone
<1>3. /\ history'.logins = history.logins /\ history'.refused = history.refused
      /\ history'.ended = history.ended \cup {i} /\ Fields'
  BY <1>1 DEF IInv, Fields
<1>4. /\ req' \in [Requests -> Request]
      /\ req'[r] = Idle
      /\ \A t \in Requests : t # r => req'[t] = req[t]
  BY <1>1, IdleRequest, GotoStep DEF IInv
<1>5. Rows' = Rows /\ \A j : Live(j)' <=> Live(j)
  BY <1>1 DEF Rows, Live
<1>6. cookie' \in Jar /\ cookie'.sid = NoCookie
  BY <1>1 DEF Jar
<1>7. TypeOK'
  BY <1>1, <1>2, <1>3, <1>4, <1>5, <1>6 DEF IInv, TypeOK
<1>8. Known'
  BY <1>2, <1>3, <1>4, <1>6, IdleRequest DEF IInv, Known, Holding
<1>9. EndedGone'
  BY <1>2, <1>3, <1>4, <1>5, IdleRequest DEF IInv, EndedGone
<1>10. RefusedDead'
  BY <1>3, <1>5 DEF IInv, RefusedDead
<1>11. QED
  BY <1>3, <1>7, <1>8, <1>9, <1>10 DEF IInv

LEMMA InvTick ==
    ASSUME IInv, Tick
    PROVE  IInv'
<1>1. clock' \in Time /\ clock \in Nat /\ clock' = clock + 1 /\ UNCHANGED <<sessions, cookie, req, history>>
  BY DEF Tick, IInv, TypeOK, Time
<1>2. Rows' = Rows
  BY <1>1 DEF Rows
<1>3. TypeOK'
  BY <1>1, <1>2 DEF IInv, TypeOK
<1>4. Known' /\ EndedGone' /\ Fields'
  BY <1>1, <1>2 DEF IInv, Known, EndedGone, Fields
<1>5. RefusedDead'
  <2>1. ASSUME NEW j \in history'.refused
        PROVE  ~Live(j)'
    <3>1. ~Live(j)
      BY <1>1, <2>1 DEF IInv, RefusedDead
    <3>2. CASE j \notin Rows
      BY <1>2, <3>2 DEF Live
    <3>3. CASE j \in Rows
      <4>1. sessions[j].expires \in Nat
        BY <3>3, RowTypes DEF IInv
      <4>2. QED
        BY <1>1, <3>1, <3>3, <4>1 DEF Live
    <3>4. QED
      BY <3>2, <3>3
  <2>2. QED
    BY <2>1 DEF RefusedDead
<1>6. QED
  BY <1>3, <1>4, <1>5 DEF IInv

-----------------------------------------------------------------------------
LEMMA InvInit == Init => IInv
<1> SUFFICES ASSUME Init
             PROVE  IInv
  OBVIOUS
<1>1. Rows = {} /\ history.ended = {} /\ history.refused = {} /\ DOMAIN history.logins = {} /\ Fields
  BY DEF Init, Rows, Fields
<1>2. \A r \in Requests : req[r].pc = "idle"
  BY IdleRequest DEF Init
<1>3. cookie \in Jar /\ cookie.sid = NoCookie
  BY DEF Init, Jar
<1>4. TypeOK
  BY <1>1, <1>3, IdleRequest DEF Init, TypeOK, Time
<1>5. QED
  BY <1>1, <1>2, <1>3, <1>4 DEF IInv, Known, EndedGone, RefusedDead, Holding

LEMMA InvStutter ==
    ASSUME IInv, UNCHANGED vars
    PROVE  IInv'
<1>1. Rows' = Rows /\ \A j : Live(j)' <=> Live(j)
  BY DEF vars, Rows, Live
<1>2. TypeOK'
  BY <1>1 DEF IInv, TypeOK, vars
<1>3. QED
  BY <1>1, <1>2 DEF IInv, Fields, Known, EndedGone, RefusedDead, vars

LEMMA InvNext ==
    ASSUME IInv, Next
    PROVE  IInv'
<1>1. CASE Tick
  BY <1>1, InvTick
<1>2. ASSUME NEW r \in Requests, Login(r)
      PROVE  IInv'
  BY <1>2, InvLoginLookup, InvLoginCompare, InvLoginInsert, InvLoginAnswer DEF Login
<1>3. ASSUME NEW r \in Requests, Guarded(r)
      PROVE  IInv'
  <2>1. \A role \in {"student", "teacher"} : {role} \in SUBSET Roles
    BY DEF Roles
  <2>2. QED
    BY <1>3, <2>1, InvSend, InvResolve, InvCheckRole, InvHandlerEnds DEF Guarded
<1>4. ASSUME NEW r \in Requests, Logout(r)
      PROVE  IInv'
  BY <1>4, InvLogoutSend, InvLogoutDelete, InvLogoutAnswer DEF Logout
<1>5. QED
  BY <1>1, <1>2, <1>3, <1>4 DEF Next

LEMMA AuthInvariant == Spec => []IInv
<1>1. IInv /\ [Next]_vars => IInv'
  BY InvNext, InvStutter
<1>2. QED
  BY InvInit, <1>1, PTL DEF Spec

(* A row always is what its login was promised: its owner, and an end that *)
(* no use of the session moves (auth-session.service.ts:100-116, 181-183). *)
THEOREM AuthTypeCorrect == Spec => []TypeOK
<1>1. IInv => TypeOK
  BY DEF IInv
<1>2. QED
  BY AuthInvariant, <1>1, PTL

-----------------------------------------------------------------------------
(* The guard admits in one step only: Resolve of a live session.           *)
LEMMA AdmitStep ==
    ASSUME IInv, [Next]_vars, NEW r \in Requests, Admits(r)
    PROVE  Resolve(r) /\ Live(req[r].sid) /\ req'[r].auth = sessions[req[r].sid].owner
<1>1. req[r].pc = "guard" /\ req'[r].pc = "roles" /\ req'[r] # req[r]
  BY DEF Admits
<1>2. ~(UNCHANGED vars) /\ ~Tick
  BY <1>1 DEF vars, Tick
<1>3. PICK t \in Requests : Login(t) \/ Guarded(t) \/ Logout(t)
  BY <1>2 DEF Next
<1>4. req \in [Requests -> Request]
  BY DEF IInv, TypeOK
<1>5. t = r
  <2>1. ASSUME t # r
        PROVE  req'[r] = req[r]
    <3>1. CASE Login(t)
      BY <1>4, <2>1, <3>1 DEF Login, LoginLookup, LoginCompare, LoginInsert, LoginAnswer, Goto
    <3>2. CASE Guarded(t)
      BY <1>4, <2>1, <3>2 DEF Guarded, Send, Resolve, CheckRole, HandlerEnds, Goto
    <3>3. CASE Logout(t)
      BY <1>4, <2>1, <3>3 DEF Logout, LogoutSend, LogoutDelete, LogoutAnswer, Goto
    <3>4. QED
      BY <1>3, <3>1, <3>2, <3>3
  <2>2. QED
    BY <1>1, <2>1
<1>6. Resolve(r)
  BY <1>1, <1>3, <1>5
     DEF Login, LoginLookup, LoginCompare, LoginInsert, LoginAnswer,
         Guarded, Send, CheckRole, HandlerEnds, Logout, LogoutSend, LogoutDelete, LogoutAnswer
<1>7. Live(req[r].sid)
  BY <1>1, <1>4, <1>6 DEF Resolve, Goto, Idle
<1>8. req'[r].auth = sessions[req[r].sid].owner
  BY <1>4, <1>6, <1>7 DEF Resolve, Goto
<1>9. QED
  BY <1>6, <1>7, <1>8

(* The guard lets through only the account that logged in, less than Ttl   *)
(* after its login and never once its logout was answered                  *)
(* (auth.guard.ts:60-66, auth-session.service.ts:171-206).                 *)
THEOREM AdmittedTheorem == Spec => AdmittedIsLive
<1>1. ASSUME IInv, [Next]_vars, NEW r \in Requests, Admits(r)
      PROVE  /\ req'[r].auth = history.logins[req[r].sid].owner
             /\ clock < history.logins[req[r].sid].at + Ttl
             /\ req[r].sid \notin history.ended
  <2> DEFINE i == req[r].sid
  <2>1. Live(i) /\ req'[r].auth = sessions[i].owner
    BY <1>1, AdmitStep
  <2>2. /\ i \in Rows /\ sessions[i].expires > clock
        /\ sessions[i].owner = history.logins[i].owner
        /\ sessions[i].expires = history.logins[i].at + Ttl
    BY <1>1, <2>1 DEF Live, IInv, TypeOK
  <2>3. sessions[i].expires \in Nat /\ clock \in Nat
    BY <1>1, <2>2, RowTypes DEF IInv, TypeOK, Time
  <2>4. i \notin history.ended
    BY <1>1, <2>2 DEF IInv, EndedGone
  <2> HIDE DEF i
  <2>5. /\ req'[r].auth = history.logins[i].owner
        /\ clock < history.logins[i].at + Ttl
        /\ i \notin history.ended
    BY <2>1, <2>2, <2>3, <2>4
  <2>6. QED
    BY <2>5 DEF i
<1>2. IInv /\ [Next]_vars =>
        [\A r \in Requests : Admits(r) =>
          /\ req'[r].auth = history.logins[req[r].sid].owner
          /\ clock < history.logins[req[r].sid].at + Ttl
          /\ req[r].sid \notin history.ended]_vars
  BY <1>1
<1>3. QED
  BY AuthInvariant, <1>2, PTL DEF Spec, AdmittedIsLive

(* A cookie the guard once refused is refused for ever, whatever logins,   *)
(* logouts and late answers follow (auth-session.service.ts:171-198).      *)
THEOREM RefusedTheorem == Spec => RefusedForGood
<1>1. ASSUME IInv, [Next]_vars, NEW r \in Requests, Admits(r)
      PROVE  req[r].sid \notin history.refused
  BY <1>1, AdmitStep DEF IInv, RefusedDead
<1>2. IInv /\ [Next]_vars =>
        [\A r \in Requests : Admits(r) => req[r].sid \notin history.refused]_vars
  BY <1>1
<1>3. QED
  BY AuthInvariant, <1>2, PTL DEF Spec, RefusedForGood
=============================================================================
