--------------------------- MODULE Sessions_proofs ---------------------------
(***************************************************************************)
(* Proofs of the properties of Sessions, for any number of requests,       *)
(* accounts, sessions and changes of accounts.                             *)
(*                                                                         *)
(* ChangesAreBacked speaks of the moment of a change; what makes it true   *)
(* was decided up to five steps of other actors earlier.  The invariant    *)
(* carries it along the path of a session: a login that has verified a     *)
(* password, the row it creates, the copy of the row a request reads and   *)
(* the role it goes on with are all backed by the account as it is now,    *)
(* unless the history says that the account was set in between.            *)
(*                                                                         *)
(* SessionsEndForCause needs that what a request read of a session is an   *)
(* earlier state of its row, and that the row is not far behind the last   *)
(* use.                                                                    *)
(*                                                                         *)
(* FailuresAreBounded needs that the limiter has the failures that are     *)
(* counted (Held), and that they are within the bound together with the    *)
(* logins that were let in and may still fail (Room).                      *)
(***************************************************************************)
EXTENDS Sessions, FiniteSetTheorems, TLAPS

Account == [password: 0..MaxChanges, role: Role]
Stage == {"idle", "ask", "lookup", "verified", "refused", "welcome", "create", "check", "touch",
          "drop", "logout", "change", "rename"}
Local ==
    [pc: Stage, name: Name \cup {None}, client: Client \cup {None}, key: Key \cup {None},
     login: Nat, slipped: SUBSET (Key \cup {None}), password: 0..MaxChanges, now: Nat, token: Token \cup {None},
     row: Session \cup {None}, role: Role, changed: BOOLEAN]

\* The limiter has an invariant of its own, below.
TypeOK ==
    /\ now \in Nat /\ changes \in 0..MaxChanges /\ refusals \in Nat
    /\ users \in [User -> Account]
    /\ sessions \in [Token -> Session \cup {None}]
    /\ req \in [Request -> Local]

\* A row carries the password of its account, or the login that made it was overtaken.
RowBacked(row) == row.overtaken = TRUE \/ row.password = users[row.user].password
SessionsBacked == \A t \in Token : sessions[t] # None => RowBacked(sessions[t])

\* A request that has verified a password.
LoginBacked(q) ==
    q.pc \in {"verified", "welcome", "create"} =>
        /\ q.name \in User
        /\ q.changed = TRUE \/ q.password = users[q.name].password

\* A request that goes on with the row and the role it read.
RequestBacked(q) ==
    q.pc \in {"check", "touch", "change", "rename"} =>
        /\ q.token \in Token /\ q.row \in Session /\ q.name = q.row.user
        /\ q.changed = TRUE \/ (q.role = users[q.name].role /\ RowBacked(q.row))

\* require_admin let it through.
RoleChecked(q) == q.pc \in {"change", "rename"} => q.role = "admin"

Backed(q) == LoginBacked(q) /\ RequestBacked(q) /\ RoleChecked(q)

IInv == TypeOK /\ SessionsBacked /\ \A r \in Request : Backed(req[r])

-----------------------------------------------------------------------------
(* The steps of one request.                                               *)

LEMMA FreeIsBacked == Free \in Local /\ Backed(Free) /\ 0 \in 0..MaxChanges
  BY SessionsAssumption
  DEF Free, Local, Stage, Role, Backed, LoginBacked, RequestBacked, RoleChecked

\* A request moves to a backed state while accounts and sessions stay.
LEMMA GoKeeps ==
    ASSUME IInv, NEW r \in Request, NEW q \in Local, Backed(q), Go(r, q),
           UNCHANGED <<users, sessions, changes>>, now' \in Nat, refusals' \in Nat
    PROVE  IInv'
  BY DEF IInv, TypeOK, Go, SessionsBacked, RowBacked, Backed, LoginBacked, RequestBacked, RoleChecked

\* ... and while sessions are deleted or written with backed rows.
LEMMA GoAndWriteKeeps ==
    ASSUME IInv, NEW r \in Request, NEW q \in Local, Backed(q), Go(r, q),
           UNCHANGED <<users, changes, now, refusals>>,
           sessions' \in [Token -> Session \cup {None}],
           \A t \in Token : sessions'[t] = None \/ RowBacked(sessions'[t])
    PROVE  IInv'
  BY DEF IInv, TypeOK, Go, SessionsBacked, RowBacked, Backed, LoginBacked, RequestBacked, RoleChecked

LEMMA BeginLoginKeeps ==
    ASSUME IInv, NEW r \in Request, NEW n \in Name, NEW c \in Client, NEW p \in 0..MaxChanges,
           BeginLogin(r, n, c, p)
    PROVE  IInv'
  <1> DEFINE q == [Free EXCEPT !.pc = "ask", !.name = n, !.client = c, !.key = c,
                               !.password = p, !.now = now]
  <1>1. /\ Go(r, q) /\ UNCHANGED <<users, sessions, changes>> /\ now' = now /\ now \in Nat
        /\ refusals' \in Nat
    BY DEF BeginLogin, IInv, TypeOK
  <1>2. q \in Local /\ q.pc = "ask"
    BY <1>1, FreeIsBacked DEF Local, Stage, Free, Key
  <1>3. Backed(q)
    BY <1>2 DEF Backed, LoginBacked, RequestBacked, RoleChecked
  <1> QED
    BY <1>1, <1>2, <1>3, GoKeeps

LEMMA LookUpKeeps ==
    ASSUME IInv, NEW r \in Request, LookUp(r)
    PROVE  IInv'
  <1> DEFINE user == GetUser(req[r].name)
             valid == user # None /\ VerifyPassword(req[r].password, user)
             ended == [req[r] EXCEPT !.key = req[r].client, !.slipped = {}]
             verified == [ended EXCEPT !.pc = "verified"]
             refused == [ended EXCEPT !.pc = "refused", !.password = 0, !.login = refusals']
  <1>1. /\ UNCHANGED <<users, sessions, changes>> /\ now' = now /\ now \in Nat /\ refusals' \in Nat
        /\ \/ valid /\ Go(r, verified)
           \/ Go(r, refused)
    BY DEF LookUp, IInv, TypeOK
  <1>2. req[r] \in Local
    BY DEF IInv, TypeOK
  <1>3. ended \in Local /\ ended.name = req[r].name /\ ended.password = req[r].password
    BY <1>2 DEF Local, Key
  <1>4. valid => req[r].name \in User /\ req[r].password = users[req[r].name].password
    BY DEF GetUser, VerifyPassword
  <1> HIDE DEF ended, valid
  <1>5. CASE valid /\ Go(r, verified)
    <2>1. verified \in Local /\ verified.pc = "verified" /\ verified.name = req[r].name
          /\ verified.password = req[r].password
      BY <1>3 DEF Local, Stage
    <2>2. Backed(verified)
      <3> HIDE DEF verified
      <3> QED
        BY <1>4, <1>5, <2>1 DEF Backed, LoginBacked, RequestBacked, RoleChecked
    <2> HIDE DEF verified
    <2> QED
      BY <1>1, <1>5, <2>1, <2>2, GoKeeps
  <1>6. CASE Go(r, refused)
    <2>1. refused \in Local /\ refused.pc = "refused"
      BY <1>1, <1>3, FreeIsBacked DEF Local, Stage
    <2>2. Backed(refused)
      BY <2>1 DEF Backed, LoginBacked, RequestBacked, RoleChecked
    <2> HIDE DEF refused
    <2> QED
      BY <1>1, <1>6, <2>1, <2>2, GoKeeps
  <1> QED
    BY <1>1, <1>5, <1>6

\* Where a use of the limiter leads to: the next key or stage of the login, or its end.
UsesLimiter(r) == Ask(r) \/ RecordFailure(r) \/ BreakOff(r) \/ Reset(r)

LEMMA LoginGoesOn ==
    ASSUME IInv, NEW r \in Request, UsesLimiter(r)
    PROVE  \E q \in Local :
              /\ Go(r, q) /\ Backed(q) /\ q.now \in {0, req[r].now}
              /\ q.pc \in {"idle", "ask", "lookup", "refused", "verified", "welcome"}
  <1>1. req[r] \in Local /\ Backed(req[r]) /\ Free \in Local /\ Backed(Free)
        /\ Free.pc = "idle" /\ Free.now = 0
    BY FreeIsBacked DEF IInv, TypeOK, Free
  <1> DEFINE asked == [req[r] EXCEPT !.pc = "lookup", !.key = None]
             reset == [req[r] EXCEPT !.pc = "welcome", !.key = None]
  <1>2. /\ asked \in Local /\ asked.pc = "lookup" /\ asked.now = req[r].now
        /\ reset \in Local /\ reset.pc = "welcome" /\ reset.now = req[r].now
        /\ reset.name = req[r].name /\ reset.password = req[r].password
        /\ reset.changed = req[r].changed
    BY <1>1 DEF Local, Stage
  <1>3. /\ NextKey(r) \in Local /\ NextKey(r).pc = req[r].pc /\ NextKey(r).now = req[r].now
        /\ NextKey(r).name = req[r].name /\ NextKey(r).password = req[r].password
        /\ NextKey(r).changed = req[r].changed
    BY <1>1 DEF Local, NextKey, Key
  <1>4. Backed(asked) /\ (req[r].pc = "verified" => Backed(reset)) /\ Backed(NextKey(r))
    <2>1. Backed(asked)
      <3> HIDE DEF asked
      <3> QED
        BY <1>2 DEF Backed, LoginBacked, RequestBacked, RoleChecked
    <2>2. req[r].pc = "verified" => Backed(reset)
      <3> HIDE DEF reset
      <3> QED
        BY <1>1, <1>2 DEF Backed, LoginBacked, RequestBacked, RoleChecked
    <2>3. ASSUME UsesLimiter(r)
          PROVE  Backed(NextKey(r))
      <3>1. req[r].pc \in {"ask", "refused", "verified"}
        BY DEF UsesLimiter, Ask, RecordFailure, BreakOff, Reset, At
      <3> QED
        BY <1>1, <1>3, <3>1 DEF Backed, LoginBacked, RequestBacked, RoleChecked
    <2> QED
      BY <2>1, <2>2, <2>3
  <1>5. req[r].pc \in {"ask", "refused", "verified"}
    BY DEF UsesLimiter, Ask, RecordFailure, BreakOff, Reset, At
  <1> HIDE DEF asked, reset
  <1>6. CASE Ask(r)
    <2>1. CASE Done(r)
      BY <1>1, <2>1 DEF Done
    <2>2. CASE \E next \in {asked, NextKey(r)}, k \in SUBSET {req[r].key} :
                  Go(r, [next EXCEPT !.slipped = @ \cup k])
      <3>1. PICK next \in {asked, NextKey(r)}, k \in SUBSET {req[r].key} :
                    Go(r, [next EXCEPT !.slipped = @ \cup k])
        BY <2>2
      <3> DEFINE q == [next EXCEPT !.slipped = @ \cup k]
      <3>2. next \in Local /\ next.now = req[r].now /\ next.pc \in {"ask", "lookup"}
        BY <1>2, <1>3, <1>6, <3>1 DEF Ask, At
      <3>3. req[r].key \in Key \cup {None}
        BY <1>1 DEF Local
      <3>4. q \in Local /\ q.pc = next.pc /\ q.now = next.now
        BY <3>2, <3>3 DEF Local
      <3>5. Backed(q)
        <4> HIDE DEF q
        <4> QED
          BY <3>2, <3>4 DEF Backed, LoginBacked, RequestBacked, RoleChecked
      <3> HIDE DEF q
      <3> QED
        BY <3>1, <3>2, <3>4, <3>5 DEF q
    <2>3. Done(r) \/ \E next \in {asked, NextKey(r)}, k \in SUBSET {req[r].key} :
                        Go(r, [next EXCEPT !.slipped = @ \cup k])
      <3> DEFINE locked == IsLocked(limiter[req[r].key], req[r].now)
                 next == IF Last(r) THEN asked ELSE NextKey(r)
                 k == IF locked THEN {req[r].key} ELSE {}
      <3>1. next \in {asked, NextKey(r)} /\ k \in SUBSET {req[r].key}
        OBVIOUS
      <3>2. Done(r) \/ Go(r, [next EXCEPT !.slipped = IF locked THEN @ \cup {req[r].key} ELSE @])
        BY <1>6 DEF Ask, asked
      <3>3. [next EXCEPT !.slipped = IF locked THEN @ \cup {req[r].key} ELSE @]
              = [next EXCEPT !.slipped = @ \cup k]
        <4>1. CASE locked
          BY <4>1
        <4>2. CASE ~locked
          <5>1. k = {}
            BY <4>2
          <5> HIDE DEF locked, next, k
          <5> QED
            BY <4>2, <5>1
        <4> QED
          BY <4>1, <4>2
      <3> HIDE DEF next, k, locked
      <3> QED
        BY <3>1, <3>2, <3>3
    <2> QED
      BY <2>1, <2>2, <2>3
  <1>7. CASE RecordFailure(r) \/ BreakOff(r)
    <2>1. Go(r, Free) \/ (req[r].pc = "refused" /\ Go(r, NextKey(r)))
      BY <1>7 DEF RecordFailure, BreakOff, Done, At
    <2> QED
      BY <1>1, <1>3, <1>4, <2>1
  <1>8. CASE Reset(r)
    <2>1. req[r].pc = "verified" /\ (Go(r, reset) \/ Go(r, NextKey(r)))
      BY <1>8 DEF Reset, At, reset
    <2> QED
      BY <1>2, <1>3, <1>4, <2>1
  <1> QED
    BY <1>6, <1>7, <1>8 DEF UsesLimiter

LEMMA UsesLimiterKeeps ==
    ASSUME IInv, NEW r \in Request, UsesLimiter(r)
    PROVE  IInv'
  <1>1. /\ UNCHANGED <<users, sessions, changes>> /\ now' \in Nat /\ refusals' \in Nat
    BY DEF UsesLimiter, Ask, RecordFailure, BreakOff, Reset, counters, IInv, TypeOK
  <1> QED
    BY <1>1, LoginGoesOn, GoKeeps

LEMMA DoneKeeps ==
    ASSUME IInv, NEW r \in Request, Done(r), UNCHANGED <<users, sessions, changes, now, refusals>>
    PROVE  IInv'
  BY FreeIsBacked, GoKeeps DEF Done, IInv, TypeOK

LEMMA WelcomeKeeps ==
    ASSUME IInv, NEW r \in Request, Welcome(r)
    PROVE  IInv'
  <1> DEFINE q == [req[r] EXCEPT !.pc = "create"]
  <1>1. req[r] \in Local /\ req[r].pc = "welcome" /\ LoginBacked(req[r])
    BY DEF IInv, TypeOK, Welcome, At, Backed
  <1>2. q \in Local /\ q.pc = "create" /\ q.name = req[r].name
        /\ q.password = req[r].password /\ q.changed = req[r].changed
    BY <1>1 DEF Local, Stage
  <1>3. Backed(q)
    <2> HIDE DEF q
    <2> QED
      BY <1>1, <1>2 DEF Backed, LoginBacked, RequestBacked, RoleChecked
  <1>4. /\ sessions' \in [Token -> Session \cup {None}]
        /\ \A k \in Token : sessions'[k] = None \/ RowBacked(sessions'[k])
    BY DEF Welcome, Without, IInv, TypeOK, SessionsBacked, RowBacked
  <1>5. UNCHANGED <<users, changes, now, refusals>> /\ Go(r, q)
    BY DEF Welcome, counters
  <1> QED
    BY <1>2, <1>3, <1>4, <1>5, GoAndWriteKeeps

LEMMA CreateSessionKeeps ==
    ASSUME IInv, NEW r \in Request, CreateSession(r)
    PROVE  IInv'
  <1> DEFINE q == req[r]
             row == [user |-> q.name, created |-> q.now, seen |-> q.now,
                     password |-> q.password, overtaken |-> q.changed,
                     used |-> q.now, back |-> FALSE]
  <1>1. q \in Local /\ q.pc = "create" /\ LoginBacked(q)
    BY DEF IInv, TypeOK, CreateSession, At, Backed
  <1>2. row \in Session /\ RowBacked(row)
    BY <1>1 DEF Local, Session, RowBacked, LoginBacked
  <1>3. PICK t \in Token : sessions' = [sessions EXCEPT ![t] = row]
    BY DEF CreateSession, NewToken
  <1>4. /\ sessions' \in [Token -> Session \cup {None}]
        /\ \A k \in Token : sessions'[k] = None \/ RowBacked(sessions'[k])
    <2> HIDE DEF row, q
    <2>1. UNCHANGED users /\ sessions \in [Token -> Session \cup {None}]
          /\ \A k \in Token : sessions[k] # None => RowBacked(sessions[k])
      BY DEF CreateSession, IInv, TypeOK, SessionsBacked
    <2> QED
      BY <1>2, <1>3, <2>1
  <1>5. UNCHANGED <<users, changes, now, refusals>> /\ Go(r, Free)
    BY DEF CreateSession, Done, counters
  <1> QED
    BY <1>4, <1>5, FreeIsBacked, GoAndWriteKeeps

LEMMA BeginRequestKeeps ==
    ASSUME IInv, NEW r \in Request, NEW t \in Token, BeginRequest(r, t)
    PROVE  IInv'
  <1>1. CASE sessions[t] = None
    BY <1>1
    DEF IInv, TypeOK, BeginRequest, SessionsBacked, RowBacked, Backed, LoginBacked, RequestBacked,
        RoleChecked, counters
  <1>2. CASE sessions[t] # None
    <2> DEFINE row == [sessions[t] EXCEPT !.used = 0, !.back = FALSE]
               q == [Free EXCEPT !.pc = "check", !.token = t,
                                 !.name = sessions[t].user, !.row = row,
                                 !.role = users[sessions[t].user].role]
    <2>1. sessions[t] \in Session /\ RowBacked(sessions[t]) /\ users \in [User -> Account]
      BY <1>2 DEF IInv, TypeOK, SessionsBacked
    <2>2. Go(r, q) /\ UNCHANGED <<users, sessions, changes>> /\ now' = now /\ now \in Nat
          /\ refusals' \in Nat
      BY <1>2 DEF BeginRequest, IInv, TypeOK, counters
    <2>3. row \in Session /\ RowBacked(row) /\ row.user = sessions[t].user
      BY <2>1 DEF Session, RowBacked
    <2>4. users[sessions[t].user].role \in Role /\ sessions[t].user \in Name
      BY <2>1, SessionsAssumption DEF Session, Account
    <2>5. /\ q \in Local /\ q.pc = "check" /\ q.token = t /\ q.row = row /\ q.name = row.user
          /\ q.role = users[row.user].role
      <3> HIDE DEF row
      <3> QED
        BY <2>3, <2>4, FreeIsBacked DEF Local, Stage, Free
    <2>6. Backed(q)
      <3> HIDE DEF q
      <3> QED
        BY <2>3, <2>5 DEF Backed, LoginBacked, RequestBacked, RoleChecked
    <2> QED
      BY <2>2, <2>5, <2>6, GoKeeps
  <1> QED
    BY <1>1, <1>2

LEMMA UpdateKeeps ==
    ASSUME IInv, NEW t \in Token, NEW row \in Session, sessions[t] # None => RowBacked(row),
           Update(t, row)
    PROVE  /\ sessions' \in [Token -> Session \cup {None}]
           /\ \A k \in Token : sessions'[k] = None \/ RowBacked(sessions'[k])
  BY DEF Update, IInv, TypeOK, SessionsBacked

\* The stages a request goes on to with what it has read.
LEMMA AcceptedIsBacked ==
    ASSUME IInv, NEW r \in Request, req[r].pc \in {"check", "touch"}, NEW next \in Accepted(r)
    PROVE  /\ next \in Local /\ Backed(next) /\ next.now \in {0, req[r].now}
           /\ next.pc \in {"idle", "logout", "change"}
  <1>1. req[r] \in Local /\ RequestBacked(req[r])
    BY DEF IInv, TypeOK, Backed
  <1> DEFINE out == [Free EXCEPT !.pc = "logout", !.token = req[r].token]
             change == [req[r] EXCEPT !.pc = "change"]
  <1>2. next \in {Free, out} \/ (req[r].role = "admin" /\ next = change)
    BY DEF Accepted
  <1>3. Free.pc = "idle" /\ Free.now = 0
    BY DEF Free
  <1>4. out \in Local /\ out.pc = "logout" /\ out.now = 0
    BY <1>1, FreeIsBacked DEF Free, Local, Stage
  <1>5. /\ change \in Local /\ change.pc = "change" /\ change.row = req[r].row
        /\ change.name = req[r].name /\ change.role = req[r].role /\ change.now = req[r].now
        /\ change.changed = req[r].changed /\ change.token = req[r].token
    BY <1>1 DEF Local, Stage
  <1> HIDE DEF out, change
  <1>6. Backed(out)
    BY <1>4 DEF Backed, LoginBacked, RequestBacked, RoleChecked
  <1>7. req[r].role = "admin" => Backed(change)
    BY <1>1, <1>5 DEF Backed, LoginBacked, RequestBacked, RoleChecked
  <1> QED
    BY <1>2, <1>3, <1>4, <1>5, <1>6, <1>7, FreeIsBacked

LEMMA CheckKeeps ==
    ASSUME IInv, NEW r \in Request, Check(r)
    PROVE  IInv'
  <1> DEFINE t == req[r].token
  <1>1. req[r] \in Local /\ req[r].pc = "check" /\ Backed(req[r]) /\ now \in Nat
        /\ t \in Token
    BY DEF IInv, TypeOK, Check, At, Backed, RequestBacked
  <1>2. CASE now - req[r].row.seen >= TouchEvery
    <2> DEFINE q == [req[r] EXCEPT !.pc = "touch", !.now = now]
    <2>1. Go(r, q) /\ UNCHANGED <<users, sessions, changes>> /\ now' \in Nat
          /\ refusals' \in Nat
      BY <1>1, <1>2 DEF Check, counters, IInv, TypeOK
    <2>2. /\ q \in Local /\ q.pc = "touch" /\ q.row = req[r].row /\ q.name = req[r].name
          /\ q.role = req[r].role /\ q.changed = req[r].changed /\ q.token = req[r].token
      BY <1>1 DEF Local, Stage
    <2>3. Backed(q)
      <3> HIDE DEF q
      <3> QED
        BY <1>1, <2>2 DEF Backed, LoginBacked, RequestBacked, RoleChecked
    <2> QED
      BY <2>1, <2>2, <2>3, GoKeeps
  <1>3. CASE ~(now - req[r].row.seen >= TouchEvery)
    <2> DEFINE row == [sessions[t] EXCEPT !.used = Later(@, now)]
    <2>1. PICK next \in Accepted(r) : Go(r, next)
      BY <1>3 DEF Check
    <2>a. UNCHANGED <<users, changes, now, refusals>> /\ Update(t, row)
      BY <1>3 DEF Check, counters
    <2>2. next \in Local /\ Backed(next)
      BY <1>1, AcceptedIsBacked
    <2>3. /\ sessions' \in [Token -> Session \cup {None}]
          /\ \A k \in Token : sessions'[k] = None \/ RowBacked(sessions'[k])
      <3>1. CASE sessions[t] = None
        BY <2>a, <3>1 DEF Update, IInv, TypeOK, SessionsBacked
      <3>2. CASE sessions[t] # None
        <4>1. sessions[t] \in Session /\ RowBacked(sessions[t])
          BY <1>1, <3>2 DEF IInv, TypeOK, SessionsBacked
        <4>2. row \in Session /\ RowBacked(row)
          BY <1>1, <4>1 DEF Session, RowBacked, Later
        <4> HIDE DEF row
        <4> QED
          BY <1>1, <2>a, <4>2, UpdateKeeps
      <3> QED
        BY <3>1, <3>2
    <2> HIDE DEF row
    <2> QED
      BY <2>1, <2>a, <2>2, <2>3, GoAndWriteKeeps
  <1> QED
    BY <1>2, <1>3

LEMMA TouchSessionKeeps ==
    ASSUME IInv, NEW r \in Request, TouchSession(r)
    PROVE  IInv'
  <1> DEFINE t == req[r].token
             row == [sessions[t] EXCEPT !.seen = req[r].now, !.used = Later(@, req[r].now),
                                        !.back = @ \/ req[r].now < sessions[t].seen]
  <1>1. req[r] \in Local /\ req[r].pc = "touch" /\ t \in Token
    BY DEF IInv, TypeOK, TouchSession, At, Backed, RequestBacked
  <1>2. UNCHANGED <<users, changes, now, refusals>> /\ Update(t, row)
    BY DEF TouchSession, counters
  <1>3. PICK next \in Accepted(r) : Go(r, next) /\ next \in Local /\ Backed(next)
    BY <1>1, AcceptedIsBacked DEF TouchSession
  <1>4. /\ sessions' \in [Token -> Session \cup {None}]
        /\ \A k \in Token : sessions'[k] = None \/ RowBacked(sessions'[k])
    <2>1. CASE sessions[t] = None
      BY <1>2, <2>1 DEF Update, IInv, TypeOK, SessionsBacked
    <2>2. CASE sessions[t] # None
      <3>1. sessions[t] \in Session /\ RowBacked(sessions[t]) /\ req[r].now \in Nat
        BY <1>1, <2>2 DEF IInv, TypeOK, SessionsBacked, Local
      <3>2. row \in Session /\ RowBacked(row)
        BY <3>1 DEF Session, RowBacked, Later
      <3> HIDE DEF row
      <3> QED
        BY <1>1, <1>2, <3>2, UpdateKeeps
    <2> QED
      BY <2>1, <2>2
  <1> HIDE DEF row
  <1> QED
    BY <1>2, <1>3, <1>4, GoAndWriteKeeps

LEMMA FindTooOldKeeps ==
    ASSUME IInv, NEW r \in Request, FindTooOld(r)
    PROVE  IInv'
  <1> DEFINE q == [req[r] EXCEPT !.pc = "drop"]
  <1>1. q \in Local /\ q.pc = "drop"
    BY DEF IInv, TypeOK, Local, Stage
  <1>2. Backed(q)
    BY <1>1 DEF Backed, LoginBacked, RequestBacked, RoleChecked
  <1>3. Go(r, q) /\ UNCHANGED <<users, sessions, changes>> /\ now' \in Nat /\ refusals' \in Nat
    BY DEF FindTooOld, counters, IInv, TypeOK
  <1> QED
    BY <1>1, <1>2, <1>3, GoKeeps

LEMMA DropKeeps ==
    ASSUME IInv, NEW r \in Request, Drop(r)
    PROVE  IInv'
  <1>1. Go(r, Free) /\ UNCHANGED <<users, changes, now, refusals>>
    BY DEF Drop, Done, counters
  <1>2. /\ sessions' \in [Token -> Session \cup {None}]
        /\ \A k \in Token : sessions'[k] = None \/ RowBacked(sessions'[k])
    BY DEF Drop, Without, IInv, TypeOK, SessionsBacked
  <1> QED
    BY <1>1, <1>2, FreeIsBacked, GoAndWriteKeeps

LEMMA AssignGroupKeeps ==
    ASSUME IInv, NEW r \in Request, AssignGroup(r)
    PROVE  IInv'
  <1> DEFINE q == [req[r] EXCEPT !.pc = "rename"]
  <1>1. req[r] \in Local /\ req[r].pc = "change" /\ Backed(req[r])
    BY DEF IInv, TypeOK, AssignGroup, At
  <1>2. /\ q \in Local /\ q.pc = "rename" /\ q.row = req[r].row /\ q.name = req[r].name
        /\ q.role = req[r].role /\ q.changed = req[r].changed /\ q.token = req[r].token
    BY <1>1 DEF Local, Stage
  <1>3. Backed(q)
    <2> HIDE DEF q
    <2> QED
      BY <1>1, <1>2 DEF Backed, LoginBacked, RequestBacked, RoleChecked
  <1>4. Go(r, q) /\ UNCHANGED <<users, sessions, changes>> /\ now' \in Nat /\ refusals' \in Nat
    BY DEF AssignGroup, counters, IInv, TypeOK
  <1> QED
    BY <1>2, <1>3, <1>4, GoKeeps

\* Whoever is under way is marked; the account's sessions go with the change.
LEMMA SetPasswordKeeps ==
    ASSUME IInv, NEW u \in User, NEW role \in Role, SetPassword(u, role)
    PROVE  IInv'
  <1>1. /\ changes' \in 0..MaxChanges /\ now' \in Nat /\ refusals' \in Nat
        /\ users' = [users EXCEPT ![u] = [password |-> changes', role |-> role]]
        /\ sessions' = Without({t \in Rows : sessions[t].user = u})
        /\ req' = [r \in Request |-> [req[r] EXCEPT !.changed = req[r].pc # "idle"]]
    BY SessionsAssumption DEF SetPassword, SetUser, IInv, TypeOK
  <1>2. users' \in [User -> Account]
    BY <1>1 DEF IInv, TypeOK, Account
  <1>3. sessions' \in [Token -> Session \cup {None}]
    BY <1>1 DEF Without, IInv, TypeOK
  <1>4. SessionsBacked'
    <2> SUFFICES ASSUME NEW t \in Token, sessions'[t] # None
                 PROVE  RowBacked(sessions[t])' /\ sessions'[t] = sessions[t]
      BY DEF SessionsBacked
    <2>1. sessions'[t] = sessions[t] /\ sessions[t] # None /\ sessions[t].user # u
      BY <1>1 DEF Without, Rows
    <2>2. sessions[t] \in Session /\ RowBacked(sessions[t])
      BY <2>1 DEF IInv, TypeOK, SessionsBacked
    <2> QED
      BY <1>1, <2>1, <2>2 DEF RowBacked, IInv, TypeOK
  <1>5. ASSUME NEW r \in Request
        PROVE  req'[r] \in Local /\ Backed(req[r])'
    <2>1. req[r] \in Local /\ Backed(req[r])
      BY DEF IInv, TypeOK
    <2>2. req'[r] = [req[r] EXCEPT !.changed = req[r].pc # "idle"]
      BY <1>1
    <2>3. req'[r] \in Local /\ req'[r].pc = req[r].pc /\ req'[r].row = req[r].row
          /\ req'[r].name = req[r].name /\ req'[r].role = req[r].role
          /\ req'[r].token = req[r].token
          /\ (req[r].pc # "idle" => req'[r].changed = TRUE)
      BY <2>1, <2>2 DEF Local
    <2> QED
      BY <2>1, <2>3 DEF Backed, LoginBacked, RequestBacked, RoleChecked
  <1> QED
    BY <1>1, <1>2, <1>3, <1>4, <1>5 DEF IInv, TypeOK

LEMMA RestKeeps ==
    ASSUME IInv, Tick \/ Stop \/ Start \/ UNCHANGED vars
    PROVE  IInv'
  <1>1. CASE Stop
    <2>1. /\ UNCHANGED <<now, users, sessions, changes, refusals>>
          /\ req' = [r \in Request |-> Free]
      BY <1>1 DEF Stop, counters
    <2> QED
      BY <2>1, FreeIsBacked
      DEF IInv, TypeOK, SessionsBacked, RowBacked, Backed, LoginBacked, RequestBacked, RoleChecked
  <1>2. CASE Tick \/ Start \/ UNCHANGED vars
    <2>1. UNCHANGED <<users, sessions, changes, req, refusals>> /\ now' \in Nat
      BY <1>2 DEF Tick, Start, vars, counters, IInv, TypeOK
    <2> QED
      BY <2>1
      DEF IInv, TypeOK, SessionsBacked, RowBacked, Backed, LoginBacked, RequestBacked, RoleChecked
  <1> QED
    BY <1>1, <1>2

-----------------------------------------------------------------------------
(* The theorems.                                                           *)

LEMMA InitIsBacked == Init => IInv
  <1> SUFFICES ASSUME Init PROVE IInv
    OBVIOUS
  <1>1. users \in [User -> Account] /\ now \in Nat /\ changes \in 0..MaxChanges /\ refusals \in Nat
    BY SessionsAssumption DEF Init, Account, Role
  <1>2. sessions \in [Token -> Session \cup {None}] /\ \A t \in Token : sessions[t] = None
    BY DEF Init
  <1>3. req \in [Request -> Local] /\ \A r \in Request : Backed(req[r])
    BY FreeIsBacked DEF Init
  <1> QED
    BY <1>1, <1>2, <1>3 DEF IInv, TypeOK, SessionsBacked

LEMMA StepKeeps ==
    ASSUME IInv, NEW r \in Request, Step(r)
    PROVE  IInv'
  <1>1. CASE \E n \in Name, c \in Client, p \in 0..MaxChanges : BeginLogin(r, n, c, p)
    BY <1>1, BeginLoginKeeps
  <1>2. CASE \E t \in Token : BeginRequest(r, t)
    BY <1>2, BeginRequestKeeps
  <1>3. CASE RefuseCsrf(r) \/ Rename(r)
    <2>1. Done(r) /\ UNCHANGED <<users, sessions, changes, now, refusals>>
      BY <1>3 DEF RefuseCsrf, Rename, counters
    <2> QED
      BY <2>1, DoneKeeps
  <1>4. CASE LookUp(r) \/ Welcome(r) \/ CreateSession(r) \/ Check(r) \/ TouchSession(r)
             \/ FindTooOld(r) \/ Drop(r) \/ AssignGroup(r)
    BY <1>4, LookUpKeeps, WelcomeKeeps, CreateSessionKeeps, CheckKeeps, TouchSessionKeeps,
       FindTooOldKeeps, DropKeeps, AssignGroupKeeps
  <1>5. CASE UsesLimiter(r)
    BY <1>5, UsesLimiterKeeps
  <1> QED
    BY <1>1, <1>2, <1>3, <1>4, <1>5 DEF Step, UpdateDevice, UsesLimiter

LEMMA NextKeeps == IInv /\ [Next]_vars => IInv'
  BY RestKeeps, SetPasswordKeeps, StepKeeps DEF Next

\* Every state of a request, a session and an account is backed (current_session,
\* create_session, set_user).
THEOREM SessionsInvariant == Spec => []IInv
  BY InitIsBacked, NextKeeps, PTL DEF Spec

\* For any number of threads, accounts, sessions and changes: a change is made by
\* the account as it is, unless it was set while the request or the login was
\* under way (update_device, require_admin, set_user).
THEOREM ChangesBacked == Spec => ChangesAreBacked
  <1>1. ASSUME IInv, [Next]_vars,
               NEW r \in Request, req[r].pc \in {"change", "rename"}, req'[r].pc # req[r].pc, up'
        PROVE  req[r].changed \/ req[r].row.overtaken
               \/ users[req[r].name] = [password |-> req[r].row.password, role |-> "admin"]
    <2>1. req[r] \in Local /\ RequestBacked(req[r]) /\ RoleChecked(req[r])
      BY <1>1 DEF IInv, TypeOK, Backed
    <2>2. CASE req[r].changed = TRUE \/ req[r].row.overtaken = TRUE
      BY <2>2
    <2>3. CASE ~(req[r].changed = TRUE) /\ ~(req[r].row.overtaken = TRUE)
      <3>1. /\ req[r].row \in Session /\ req[r].name = req[r].row.user
            /\ users[req[r].name].role = "admin"
            /\ users[req[r].name].password = req[r].row.password
        BY <1>1, <2>1, <2>3 DEF RequestBacked, RoleChecked, RowBacked
      <3>2. users[req[r].name] \in Account
        BY <1>1, <3>1 DEF IInv, TypeOK, Session
      <3> QED
        BY <3>1, <3>2 DEF Account
    <2> QED
      BY <2>2, <2>3
  <1>2. IInv /\ [Next]_vars =>
        [\A r \in Request : req[r].pc \in {"change", "rename"} /\ req'[r].pc # req[r].pc /\ up' =>
          \/ req[r].changed \/ req[r].row.overtaken
          \/ users[req[r].name] = [password |-> req[r].row.password, role |-> "admin"]]_vars
    BY <1>1
  <1> QED
    BY <1>2, SessionsInvariant, PTL DEF Spec, ChangesAreBacked

-----------------------------------------------------------------------------
(* The end of sessions.                                                    *)

\* The last use is written to the row soon after, unless a late write set it back.
Recorded(s) == s.back = TRUE \/ s.used - s.seen < TouchEvery

\* A request with a row it will still decide on.
Holding(q) == q.pc \in {"check", "touch", "drop"}

\* A row that a request read is an earlier state of the session it is kept in.
Earlier(row, s) == row.created = s.created /\ (s.back = TRUE \/ row.seen <= s.seen)
RowIsEarlier(q) ==
    Holding(q) =>
        /\ q.token \in Token /\ q.row \in Session
        /\ sessions[q.token] # None => Earlier(q.row, sessions[q.token])
        /\ q.pc = "drop" => TooOld(q.row, now)

EInv ==
    /\ \A u \in User : users[u].password <= changes
    /\ \A t \in Token : sessions[t] # None => Recorded(sessions[t])
    /\ \A r \in Request : req[r].now <= now /\ RowIsEarlier(req[r])

\* A row is written on with its times going forward, or marked.
Follows(old, new) == old.created = new.created /\ (new.back = TRUE \/ (old.back = FALSE /\ old.seen <= new.seen))

LEMMA EarlierFollows ==
    ASSUME NEW row \in Session, NEW old \in Session, NEW new \in Session,
           Earlier(row, old), Follows(old, new)
    PROVE  Earlier(row, new)
  BY DEF Earlier, Follows, Session

LEMMA FollowsItself ==
    ASSUME NEW s \in Session
    PROVE  Follows(s, s)
  BY DEF Follows, Session

\* A request goes on with the row it had, or with none; sessions end or go on.
LEMMA MoveKeepsRows ==
    ASSUME IInv, EInv, NEW r \in Request, NEW q \in Local, Go(r, q),
           UNCHANGED <<users, changes, now>>,
           sessions' \in [Token -> Session \cup {None}],
           q.now <= now,
           Holding(q) => /\ Holding(req[r]) /\ q.token = req[r].token /\ q.row = req[r].row
                         /\ q.pc = "drop" => TooOld(q.row, now),
           \A t \in Token : sessions'[t] # None =>
               sessions[t] # None /\ Follows(sessions[t], sessions'[t]) /\ Recorded(sessions'[t])
    PROVE  EInv'
  <1>1. /\ req' = [req EXCEPT ![r] = q] /\ req \in [Request -> Local]
        /\ sessions \in [Token -> Session \cup {None}]
    BY DEF Go, IInv, TypeOK, EInv
  <1>2. ASSUME NEW s \in Request
        PROVE  RowIsEarlier(req[s])'
    <2>1. /\ RowIsEarlier(req[s])
          /\ Holding(req'[s]) => /\ Holding(req[s]) /\ req'[s].token = req[s].token
                                 /\ req'[s].row = req[s].row
                                 /\ req'[s].pc = "drop" => TooOld(req'[s].row, now)
      BY <1>1 DEF EInv, RowIsEarlier
    <2> SUFFICES ASSUME Holding(req'[s])
                 PROVE  /\ req'[s].token \in Token /\ req'[s].row \in Session
                        /\ sessions'[req'[s].token] # None =>
                              Earlier(req'[s].row, sessions'[req'[s].token])
                        /\ req'[s].pc = "drop" => TooOld(req'[s].row, now')
      BY DEF RowIsEarlier, Holding, Earlier, TooOld
    <2>2. req[s].token \in Token /\ req[s].row \in Session
      BY <1>1, <2>1 DEF RowIsEarlier
    <2>3. CASE sessions'[req[s].token] = None
      BY <2>1, <2>2, <2>3
    <2>4. CASE sessions'[req[s].token] # None
      <3>1. /\ sessions[req[s].token] # None /\ Earlier(req[s].row, sessions[req[s].token])
            /\ Follows(sessions[req[s].token], sessions'[req[s].token])
        BY <2>1, <2>2, <2>4 DEF RowIsEarlier
      <3>2. sessions[req[s].token] \in Session /\ sessions'[req[s].token] \in Session
        BY <1>1, <2>2, <2>4, <3>1
      <3> QED
        BY <2>1, <2>2, <3>1, <3>2, EarlierFollows
    <2> QED
      BY <2>3, <2>4
  <1>3. ASSUME NEW s \in Request
        PROVE  req'[s].now <= now'
    BY <1>1 DEF EInv
  <1>4. \A t \in Token : sessions'[t] # None => Recorded(sessions[t])'
    BY DEF EInv, Recorded
  <1> QED
    BY <1>1, <1>2, <1>3, <1>4 DEF EInv

\* ... and sessions stay.
LEMMA GoKeepsRows ==
    ASSUME IInv, EInv, NEW r \in Request, NEW q \in Local, Go(r, q),
           UNCHANGED <<users, changes, now, sessions>>,
           q.now <= now,
           Holding(q) => /\ Holding(req[r]) /\ q.token = req[r].token /\ q.row = req[r].row
                         /\ q.pc = "drop" => TooOld(q.row, now)
    PROVE  EInv'
  <1>1. sessions' \in [Token -> Session \cup {None}]
    BY DEF IInv, TypeOK
  <1>2. \A t \in Token : sessions'[t] # None =>
            sessions[t] # None /\ Follows(sessions[t], sessions'[t]) /\ Recorded(sessions'[t])
    BY FollowsItself DEF IInv, TypeOK, EInv
  <1> QED
    BY <1>1, <1>2, MoveKeepsRows

LEMMA FreeHoldsNothing == Free.pc = "idle" /\ Free.now = 0 /\ ~Holding(Free) /\ Free \in Local
  BY FreeIsBacked DEF Free, Holding

LEMMA DoneKeepsRows ==
    ASSUME IInv, EInv, NEW r \in Request, Done(r),
           UNCHANGED <<users, changes, now, sessions>>
    PROVE  EInv'
  BY FreeHoldsNothing, GoKeepsRows DEF Done, IInv, TypeOK

\* UPDATE: the row goes on, the other sessions stay.
LEMMA UpdateFollows ==
    ASSUME IInv, EInv, NEW t \in Token, NEW row \in Session,
           sessions[t] # None => Follows(sessions[t], row) /\ Recorded(row),
           Update(t, row)
    PROVE  /\ sessions' \in [Token -> Session \cup {None}]
           /\ \A k \in Token : sessions'[k] # None =>
                 sessions[k] # None /\ Follows(sessions[k], sessions'[k]) /\ Recorded(sessions'[k])
  <1>1. sessions \in [Token -> Session \cup {None}]
    BY DEF IInv, TypeOK
  <1>2. \A k \in Token : sessions[k] # None =>
            Follows(sessions[k], sessions[k]) /\ Recorded(sessions[k])
    BY <1>1, FollowsItself DEF EInv
  <1>3. CASE sessions[t] = None
    BY <1>1, <1>2, <1>3 DEF Update
  <1>4. CASE sessions[t] # None
    BY <1>1, <1>2, <1>4 DEF Update
  <1> QED
    BY <1>3, <1>4

\* DELETE.
LEMMA WithoutFollows ==
    ASSUME IInv, EInv, NEW gone, sessions' = Without(gone)
    PROVE  /\ sessions' \in [Token -> Session \cup {None}]
           /\ \A k \in Token : sessions'[k] # None =>
                 sessions[k] # None /\ Follows(sessions[k], sessions'[k]) /\ Recorded(sessions'[k])
  BY FollowsItself DEF Without, IInv, TypeOK, EInv

LEMMA AcceptedHoldsNothing ==
    ASSUME IInv, EInv, NEW r \in Request, req[r].pc \in {"check", "touch"}, NEW next \in Accepted(r)
    PROVE  next \in Local /\ next.now <= now /\ ~Holding(next)
  <1>1. /\ next \in Local /\ next.now \in {0, req[r].now} /\ next.pc \in {"idle", "logout", "change"}
        /\ req[r].now <= now /\ now \in Nat
    BY AcceptedIsBacked DEF IInv, TypeOK, EInv
  <1> QED
    BY <1>1 DEF Holding

LEMMA BeginLoginKeepsRows ==
    ASSUME IInv, EInv, NEW r \in Request, NEW n \in Name, NEW c \in Client,
           NEW p \in 0..MaxChanges, BeginLogin(r, n, c, p)
    PROVE  EInv'
  <1> DEFINE q == [Free EXCEPT !.pc = "ask", !.name = n, !.client = c, !.key = c,
                               !.password = p, !.now = now]
  <1>1. Go(r, q) /\ now \in Nat /\ UNCHANGED <<users, changes, now, sessions>>
    BY DEF BeginLogin, IInv, TypeOK
  <1>2. q \in Local /\ q.pc = "ask" /\ q.now = now
    BY <1>1, FreeIsBacked DEF Local, Stage, Free, Key
  <1>3. ~Holding(q) /\ q.now <= now
    BY <1>1, <1>2 DEF Holding
  <1> HIDE DEF q
  <1> QED
    BY <1>1, <1>2, <1>3, GoKeepsRows

LEMMA LookUpKeepsRows ==
    ASSUME IInv, EInv, NEW r \in Request, LookUp(r)
    PROVE  EInv'
  <1> DEFINE ended == [req[r] EXCEPT !.key = req[r].client, !.slipped = {}]
             verified == [ended EXCEPT !.pc = "verified"]
             refused == [ended EXCEPT !.pc = "refused", !.password = 0, !.login = refusals']
  <1>1. /\ UNCHANGED <<users, changes, now, sessions>> /\ (Go(r, verified) \/ Go(r, refused))
        /\ req[r] \in Local /\ req[r].now <= now /\ (Go(r, refused) => refusals' \in Nat)
    BY DEF LookUp, IInv, TypeOK, EInv
  <1>2. verified \in Local /\ verified.pc = "verified" /\ verified.now = req[r].now
    BY <1>1 DEF Local, Stage, Key
  <1>3. Go(r, refused) => refused \in Local /\ refused.pc = "refused" /\ refused.now = req[r].now
    BY <1>1, FreeIsBacked DEF Local, Stage, Key
  <1>4. ~Holding(verified) /\ (Go(r, refused) => ~Holding(refused))
    BY <1>2, <1>3 DEF Holding
  <1> HIDE DEF verified, refused
  <1> QED
    BY <1>1, <1>2, <1>3, <1>4, GoKeepsRows

LEMMA UsesLimiterKeepsRows ==
    ASSUME IInv, EInv, NEW r \in Request, UsesLimiter(r)
    PROVE  EInv'
  <1>1. PICK q \in Local :
            /\ Go(r, q) /\ Backed(q) /\ q.now \in {0, req[r].now}
            /\ q.pc \in {"idle", "ask", "lookup", "refused", "verified", "welcome"}
    BY LoginGoesOn
  <1>2. /\ UNCHANGED <<users, changes, now, sessions>>
        /\ req[r].now <= now /\ now \in Nat
    BY DEF UsesLimiter, Ask, RecordFailure, BreakOff, Reset, counters, IInv, TypeOK, EInv
  <1>3. ~Holding(q) /\ q.now <= now
    BY <1>1, <1>2 DEF Holding
  <1> QED
    BY <1>1, <1>2, <1>3, GoKeepsRows

LEMMA WelcomeKeepsRows ==
    ASSUME IInv, EInv, NEW r \in Request, Welcome(r)
    PROVE  EInv'
  <1> DEFINE q == [req[r] EXCEPT !.pc = "create"]
  <1>1. /\ Go(r, q) /\ UNCHANGED <<users, changes, now>> /\ req[r] \in Local /\ req[r].now <= now
        /\ sessions' = Without(Expired(req[r].now))
    BY DEF Welcome, counters, IInv, TypeOK, EInv
  <1>2. q \in Local /\ q.pc = "create" /\ q.now = req[r].now
    BY <1>1 DEF Local, Stage
  <1>3. ~Holding(q)
    BY <1>2 DEF Holding
  <1>4. /\ sessions' \in [Token -> Session \cup {None}]
        /\ \A k \in Token : sessions'[k] # None =>
              sessions[k] # None /\ Follows(sessions[k], sessions'[k]) /\ Recorded(sessions'[k])
    BY <1>1, WithoutFollows
  <1> HIDE DEF q
  <1> QED
    BY <1>1, <1>2, <1>3, <1>4, MoveKeepsRows

\* No request has read the row that is new.
LEMMA CreateSessionKeepsRows ==
    ASSUME IInv, EInv, NEW r \in Request, CreateSession(r)
    PROVE  EInv'
  <1> DEFINE row == [user |-> req[r].name, created |-> req[r].now, seen |-> req[r].now,
                     password |-> req[r].password, overtaken |-> req[r].changed,
                     used |-> req[r].now, back |-> FALSE]
  <1>1. /\ UNCHANGED <<users, changes, now>> /\ req' = [req EXCEPT ![r] = Free]
        /\ req \in [Request -> Local] /\ sessions \in [Token -> Session \cup {None}]
        /\ now \in Nat
    BY DEF CreateSession, Done, Go, counters, IInv, TypeOK
  <1>2. PICK t \in NewToken : sessions' = [sessions EXCEPT ![t] = row]
    BY DEF CreateSession
  <1>3. t \in Token /\ (\A s \in Request : req[s].token # t) /\ req[r].now \in Nat
    BY <1>1, <1>2 DEF NewToken, Local
  <1>4. Recorded(row)
    BY <1>3, SessionsAssumption DEF Recorded
  <1>5. \A k \in Token : sessions'[k] = IF k = t THEN row ELSE sessions[k]
    BY <1>1, <1>2
  <1> HIDE DEF row
  <1>6. ASSUME NEW s \in Request
        PROVE  RowIsEarlier(req[s])' /\ req'[s].now <= now'
    <2>1. CASE s = r
      <3>1. req'[s] = Free
        BY <1>1, <2>1
      <3> QED
        BY <1>1, <3>1, FreeHoldsNothing DEF RowIsEarlier, Holding
    <2>2. CASE s # r
      <3>1. req'[s] = req[s] /\ RowIsEarlier(req[s]) /\ req[s].now <= now /\ req[s].token # t
        BY <1>1, <1>3, <2>2 DEF EInv
      <3> QED
        BY <1>1, <1>5, <3>1 DEF RowIsEarlier, Holding, Earlier, TooOld
    <2> QED
      BY <2>1, <2>2
  <1>7. \A k \in Token : sessions'[k] # None => Recorded(sessions'[k])
    BY <1>4, <1>5 DEF EInv
  <1> QED
    BY <1>1, <1>6, <1>7 DEF EInv, Recorded

LEMMA BeginRequestKeepsRows ==
    ASSUME IInv, EInv, NEW r \in Request, NEW t \in Token, BeginRequest(r, t)
    PROVE  EInv'
  <1>0. UNCHANGED <<users, changes, now, sessions>> /\ now \in Nat
    BY DEF BeginRequest, counters, IInv, TypeOK
  <1>1. CASE sessions[t] = None
    <2>1. UNCHANGED req
      BY <1>1 DEF BeginRequest
    <2> QED
      BY <1>0, <2>1 DEF EInv, Recorded, RowIsEarlier, Holding, Earlier, TooOld
  <1>2. CASE sessions[t] # None
    <2> DEFINE row == [sessions[t] EXCEPT !.used = 0, !.back = FALSE]
               q == [Free EXCEPT !.pc = "check", !.token = t,
                                 !.name = sessions[t].user, !.row = row,
                                 !.role = users[sessions[t].user].role]
    <2>1. sessions[t] \in Session
      BY <1>2 DEF IInv, TypeOK, EInv
    <2>2. row \in Session /\ Earlier(row, sessions[t])
      <3>1. row \in Session /\ row.created = sessions[t].created /\ row.seen = sessions[t].seen
        BY <2>1 DEF Session
      <3>2. sessions[t].seen \in Nat
        BY <2>1 DEF Session
      <3> HIDE DEF row
      <3> QED
        BY <3>1, <3>2 DEF Earlier
    <2>3. req' = [req EXCEPT ![r] = q] /\ req \in [Request -> Local]
      BY <1>2 DEF BeginRequest, Go, IInv, TypeOK
    <2>4. q.pc = "check" /\ q.token = t /\ q.row = row /\ q.now = 0
      <3> HIDE DEF row
      <3> QED
        BY DEF Free
    <2> HIDE DEF q, row
    <2>5. ASSUME NEW s \in Request
          PROVE  RowIsEarlier(req[s])' /\ req'[s].now <= now'
      <3>1. CASE s = r
        <4>1. req'[s] = q
          BY <2>3, <3>1
        <4> QED
          BY <1>0, <2>1, <2>2, <2>4, <4>1 DEF RowIsEarlier, Holding, Earlier
      <3>2. CASE s # r
        BY <1>0, <2>3, <3>2 DEF EInv, RowIsEarlier, Holding, Earlier, TooOld
      <3> QED
        BY <3>1, <3>2
    <2> QED
      BY <1>0, <2>5 DEF EInv, Recorded
  <1> QED
    BY <1>1, <1>2

\* A session used now is at most TouchEvery ahead of its row, for the request read
\* a row no later than it.
LEMMA CheckKeepsRows ==
    ASSUME IInv, EInv, NEW r \in Request, Check(r)
    PROVE  EInv'
  <1> DEFINE t == req[r].token
  <1>1. /\ req[r] \in Local /\ req[r].pc = "check" /\ Holding(req[r]) /\ RowIsEarlier(req[r])
        /\ now \in Nat
        /\ UNCHANGED <<users, changes, now>>
    BY DEF IInv, TypeOK, EInv, Check, At, Holding, counters
  <1>2. t \in Token /\ req[r].row \in Session
    BY <1>1 DEF RowIsEarlier
  <1>3. CASE now - req[r].row.seen >= TouchEvery
    <2> DEFINE q == [req[r] EXCEPT !.pc = "touch", !.now = now]
    <2>1. Go(r, q) /\ UNCHANGED sessions
      BY <1>3 DEF Check
    <2>2. /\ q \in Local /\ q.pc = "touch" /\ q.row = req[r].row /\ q.token = req[r].token
          /\ q.now = now
      BY <1>1 DEF Local, Stage
    <2> HIDE DEF q
    <2>3. q.now <= now /\ q.pc # "drop"
      BY <1>1, <2>2
    <2> QED
      BY <1>1, <2>1, <2>2, <2>3, GoKeepsRows
  <1>4. CASE ~(now - req[r].row.seen >= TouchEvery)
    <2> DEFINE row == [sessions[t] EXCEPT !.used = Later(@, now)]
    <2>1. PICK next \in Accepted(r) : Go(r, next) /\ Update(t, row)
      BY <1>4 DEF Check
    <2>2. next \in Local /\ next.now <= now /\ ~Holding(next)
      BY <1>1, AcceptedHoldsNothing
    <2>3. CASE sessions[t] = None
      <3>1. UNCHANGED sessions
        BY <2>1, <2>3 DEF Update
      <3> QED
        BY <1>1, <2>1, <2>2, <3>1, GoKeepsRows
    <2>4. CASE sessions[t] # None
      <3>1. sessions[t] \in Session /\ Recorded(sessions[t]) /\ Earlier(req[r].row, sessions[t])
        BY <1>1, <1>2, <2>4 DEF IInv, TypeOK, EInv, RowIsEarlier
      <3>2. /\ row \in Session /\ row.created = sessions[t].created
            /\ row.seen = sessions[t].seen /\ row.back = sessions[t].back
            /\ row.used \in {sessions[t].used, now}
        BY <1>1, <3>1 DEF Session, Later
      <3> HIDE DEF row
      <3>3. /\ sessions[t].seen \in Nat /\ sessions[t].back \in BOOLEAN /\ req[r].row.seen \in Nat
            /\ TouchEvery \in Nat
        BY <1>2, <3>1, SessionsAssumption DEF Session
      <3>4. Follows(sessions[t], row)
        BY <3>2, <3>3 DEF Follows
      <3>5. Recorded(row)
        <4>1. CASE sessions[t].back = TRUE
          BY <3>2, <4>1 DEF Recorded
        <4>2. CASE sessions[t].back # TRUE
          <5>1. sessions[t].used - sessions[t].seen < TouchEvery /\ req[r].row.seen <= sessions[t].seen
            BY <3>1, <4>2 DEF Recorded, Earlier
          <5>2. now - sessions[t].seen < TouchEvery
            BY <1>1, <1>4, <3>3, <5>1
          <5> QED
            BY <3>2, <5>1, <5>2 DEF Recorded
        <4> QED
          BY <4>1, <4>2
      <3>6. /\ sessions' \in [Token -> Session \cup {None}]
            /\ \A k \in Token : sessions'[k] # None =>
                  sessions[k] # None /\ Follows(sessions[k], sessions'[k]) /\ Recorded(sessions'[k])
        BY <1>2, <2>1, <3>2, <3>4, <3>5, UpdateFollows
      <3> QED
        BY <1>1, <2>1, <2>2, <3>6, MoveKeepsRows
    <2> QED
      BY <2>3, <2>4
  <1> QED
    BY <1>3, <1>4

LEMMA TouchSessionKeepsRows ==
    ASSUME IInv, EInv, NEW r \in Request, TouchSession(r)
    PROVE  EInv'
  <1> DEFINE t == req[r].token
             row == [sessions[t] EXCEPT !.seen = req[r].now, !.used = Later(@, req[r].now),
                                        !.back = @ \/ req[r].now < sessions[t].seen]
  <1>1. /\ req[r] \in Local /\ req[r].pc = "touch" /\ Holding(req[r]) /\ RowIsEarlier(req[r])
        /\ now \in Nat
        /\ UNCHANGED <<users, changes, now>>
    BY DEF IInv, TypeOK, EInv, TouchSession, At, Holding, counters
  <1>2. t \in Token /\ req[r].now \in Nat
    BY <1>1 DEF RowIsEarlier, Local
  <1>3. PICK next \in Accepted(r) : Go(r, next) /\ Update(t, row)
    BY DEF TouchSession
  <1>4. next \in Local /\ next.now <= now /\ ~Holding(next)
    BY <1>1, AcceptedHoldsNothing
  <1>5. CASE sessions[t] = None
    <2>1. UNCHANGED sessions
      BY <1>3, <1>5 DEF Update
    <2> QED
      BY <1>1, <1>3, <1>4, <2>1, GoKeepsRows
  <1>6. CASE sessions[t] # None
    <2>1. sessions[t] \in Session /\ Recorded(sessions[t])
      BY <1>2, <1>6 DEF IInv, TypeOK, EInv
    <2>2. /\ row \in Session /\ row.created = sessions[t].created /\ row.seen = req[r].now
          /\ row.back = (sessions[t].back \/ req[r].now < sessions[t].seen)
          /\ row.used \in {sessions[t].used, req[r].now}
      BY <1>2, <2>1 DEF Session, Later
    <2> HIDE DEF row
    <2>3. /\ sessions[t].seen \in Nat /\ sessions[t].used \in Nat /\ sessions[t].back \in BOOLEAN
          /\ TouchEvery \in Nat \ {0} /\ row.back \in BOOLEAN
      BY <2>1, <2>2, SessionsAssumption DEF Session
    <2>4. Follows(sessions[t], row)
      <3>1. CASE row.back = TRUE
        BY <2>2, <3>1 DEF Follows
      <3>2. CASE row.back # TRUE
        <4>1. sessions[t].back = FALSE /\ ~(req[r].now < sessions[t].seen)
          BY <2>2, <2>3, <3>2
        <4> QED
          BY <1>2, <2>2, <2>3, <4>1 DEF Follows
      <3> QED
        BY <3>1, <3>2
    <2>5. Recorded(row)
      <3>1. CASE row.back = TRUE
        BY <3>1 DEF Recorded
      <3>2. CASE row.back # TRUE
        <4>1. sessions[t].back = FALSE /\ ~(req[r].now < sessions[t].seen)
          BY <2>2, <2>3, <3>2
        <4>2. sessions[t].used - sessions[t].seen < TouchEvery
          BY <2>1, <4>1 DEF Recorded
        <4> QED
          BY <1>2, <2>2, <2>3, <4>1, <4>2 DEF Recorded
      <3> QED
        BY <3>1, <3>2
    <2>6. /\ sessions' \in [Token -> Session \cup {None}]
          /\ \A k \in Token : sessions'[k] # None =>
                sessions[k] # None /\ Follows(sessions[k], sessions'[k]) /\ Recorded(sessions'[k])
      BY <1>2, <1>3, <2>2, <2>4, <2>5, UpdateFollows
    <2> QED
      BY <1>1, <1>3, <1>4, <2>6, MoveKeepsRows
  <1> QED
    BY <1>5, <1>6

LEMMA FindTooOldKeepsRows ==
    ASSUME IInv, EInv, NEW r \in Request, FindTooOld(r)
    PROVE  EInv'
  <1> DEFINE q == [req[r] EXCEPT !.pc = "drop"]
  <1>1. /\ req[r] \in Local /\ Holding(req[r]) /\ req[r].now <= now /\ TooOld(req[r].row, now)
        /\ Go(r, q) /\ UNCHANGED <<users, changes, now, sessions>>
    BY DEF IInv, TypeOK, EInv, FindTooOld, At, Holding, counters
  <1>2. /\ q \in Local /\ q.pc = "drop" /\ q.row = req[r].row /\ q.token = req[r].token
        /\ q.now = req[r].now
    BY <1>1 DEF Local, Stage
  <1> HIDE DEF q
  <1> QED
    BY <1>1, <1>2, GoKeepsRows

LEMMA DropKeepsRows ==
    ASSUME IInv, EInv, NEW r \in Request, Drop(r)
    PROVE  EInv'
  <1>1. /\ Go(r, Free) /\ UNCHANGED <<users, changes, now>>
        /\ sessions' = Without({req[r].token}) /\ 0 <= now
    BY DEF Drop, Done, counters, IInv, TypeOK
  <1>2. /\ sessions' \in [Token -> Session \cup {None}]
        /\ \A k \in Token : sessions'[k] # None =>
              sessions[k] # None /\ Follows(sessions[k], sessions'[k]) /\ Recorded(sessions'[k])
    BY <1>1, WithoutFollows
  <1> QED
    BY <1>1, <1>2, FreeHoldsNothing, MoveKeepsRows

LEMMA AssignGroupKeepsRows ==
    ASSUME IInv, EInv, NEW r \in Request, AssignGroup(r)
    PROVE  EInv'
  <1> DEFINE q == [req[r] EXCEPT !.pc = "rename"]
  <1>1. /\ req[r] \in Local /\ req[r].now <= now
        /\ Go(r, q) /\ UNCHANGED <<users, changes, now, sessions>>
    BY DEF IInv, TypeOK, EInv, AssignGroup, counters
  <1>2. q \in Local /\ q.pc = "rename" /\ q.now = req[r].now
    BY <1>1 DEF Local, Stage
  <1> HIDE DEF q
  <1>3. ~Holding(q)
    BY <1>2 DEF Holding
  <1> QED
    BY <1>1, <1>2, <1>3, GoKeepsRows

LEMMA SetPasswordKeepsRows ==
    ASSUME IInv, EInv, NEW u \in User, NEW role \in Role, SetPassword(u, role)
    PROVE  EInv'
  <1>1. /\ changes' = changes + 1 /\ UNCHANGED now
        /\ users' = [users EXCEPT ![u] = [password |-> changes', role |-> role]]
        /\ sessions' = Without({t \in Rows : sessions[t].user = u})
        /\ req' = [r \in Request |-> [req[r] EXCEPT !.changed = req[r].pc # "idle"]]
    BY DEF SetPassword, SetUser, EInv
  <1>2. \A k \in Token : sessions'[k] \in {None, sessions[k]}
    BY <1>1 DEF Without
  <1>3. \A v \in User : users'[v].password <= changes'
    <2>1. users \in [User -> Account] /\ changes \in Nat
      BY SessionsAssumption DEF IInv, TypeOK
    <2> SUFFICES ASSUME NEW v \in User
                 PROVE  users'[v].password <= changes'
      OBVIOUS
    <2>2. CASE v = u
      BY <1>1, <2>1, <2>2
    <2>3. CASE v # u
      <3>1. users'[v] = users[v] /\ users[v].password <= changes /\ users[v].password \in Int
        BY <1>1, <2>1, <2>3, SessionsAssumption DEF EInv, Account
      <3> QED
        BY <1>1, <2>1, <3>1
    <2> QED
      BY <2>2, <2>3
  <1>4. ASSUME NEW r \in Request
        PROVE  /\ req'[r].pc = req[r].pc /\ req'[r].now = req[r].now
               /\ req'[r].token = req[r].token /\ req'[r].row = req[r].row
    BY <1>1 DEF IInv, TypeOK, Local
  <1>5. ASSUME NEW r \in Request
        PROVE  RowIsEarlier(req[r])' /\ req'[r].now <= now'
    <2>1. RowIsEarlier(req[r]) /\ req[r].now <= now
      BY DEF EInv
    <2>2. RowIsEarlier(req[r])'
      BY <1>1, <1>2, <1>4, <2>1 DEF RowIsEarlier, Holding, Earlier, TooOld
    <2> QED
      BY <1>1, <1>4, <2>1, <2>2
  <1>6. \A t \in Token : sessions'[t] # None => Recorded(sessions'[t])
    BY <1>2 DEF EInv
  <1> QED
    BY <1>1, <1>3, <1>5, <1>6 DEF EInv, Recorded

\* Time only adds to the age of a row.
LEMMA RestKeepsRows ==
    ASSUME IInv, EInv, Tick \/ Stop \/ Start \/ UNCHANGED vars
    PROVE  EInv'
  <1>1. UNCHANGED <<users, changes, sessions>> /\ now \in Nat /\ now' \in {now, now + 1}
    BY DEF Tick, Stop, Start, vars, counters, IInv, TypeOK
  <1>2. CASE Stop
    <2>1. \A r \in Request : req'[r] = Free
      BY <1>2 DEF Stop
    <2> QED
      BY <1>1, <2>1, FreeHoldsNothing
      DEF EInv, Recorded, RowIsEarlier, Holding
  <1>3. CASE UNCHANGED req
    <2>1. ASSUME NEW r \in Request
          PROVE  req[r].now <= now' /\ RowIsEarlier(req[r])'
      <3>1. req[r] \in Local /\ req[r].now <= now /\ RowIsEarlier(req[r])
        BY DEF IInv, TypeOK, EInv
      <3>2. req[r].now <= now'
        <4>1. req[r].now \in Nat
          BY <3>1 DEF Local
        <4> QED
          BY <1>1, <3>1, <4>1
      <3>3. ASSUME Holding(req[r]), TooOld(req[r].row, now)
            PROVE  TooOld(req[r].row, now')
        <4>1. req[r].row.seen \in Nat /\ req[r].row.created \in Nat /\ Idle \in Nat /\ Absolute \in Nat
          BY <3>1, <3>3, SessionsAssumption DEF RowIsEarlier, Session
        <4> QED
          BY <1>1, <3>3, <4>1 DEF TooOld
      <3> QED
        BY <1>1, <1>3, <3>1, <3>2, <3>3 DEF RowIsEarlier, Holding, Earlier
    <2> QED
      BY <1>1, <1>3, <2>1 DEF EInv, Recorded
  <1> QED
    BY <1>2, <1>3 DEF Tick, Start, vars

LEMMA InitKeepsRows == Init => EInv
  <1> SUFFICES ASSUME Init PROVE EInv
    OBVIOUS
  <1>1. /\ now = 0 /\ changes = 0 /\ \A t \in Token : sessions[t] = None
        /\ \A r \in Request : req[r] = Free
        /\ \A u \in User : users[u].password = 0
    BY DEF Init
  <1> QED
    BY <1>1, FreeHoldsNothing DEF EInv, RowIsEarlier, Holding

LEMMA StepKeepsRows ==
    ASSUME IInv, EInv, NEW r \in Request, Step(r)
    PROVE  EInv'
  <1>1. CASE \E n \in Name, c \in Client, p \in 0..MaxChanges : BeginLogin(r, n, c, p)
    BY <1>1, BeginLoginKeepsRows
  <1>2. CASE \E t \in Token : BeginRequest(r, t)
    BY <1>2, BeginRequestKeepsRows
  <1>3. CASE RefuseCsrf(r) \/ Rename(r)
    <2>1. Done(r) /\ UNCHANGED <<users, changes, now, sessions>>
      BY <1>3 DEF RefuseCsrf, Rename, counters
    <2> QED
      BY <2>1, DoneKeepsRows
  <1>4. CASE LookUp(r) \/ Welcome(r) \/ CreateSession(r) \/ Check(r) \/ TouchSession(r)
             \/ FindTooOld(r) \/ Drop(r) \/ AssignGroup(r)
    BY <1>4, LookUpKeepsRows, WelcomeKeepsRows, CreateSessionKeepsRows, CheckKeepsRows,
       TouchSessionKeepsRows, FindTooOldKeepsRows, DropKeepsRows, AssignGroupKeepsRows
  <1>5. CASE UsesLimiter(r)
    BY <1>5, UsesLimiterKeepsRows
  <1> QED
    BY <1>1, <1>2, <1>3, <1>4, <1>5 DEF Step, UpdateDevice, UsesLimiter

LEMMA NextKeepsRows == IInv /\ EInv /\ [Next]_vars => EInv'
  BY RestKeepsRows, SetPasswordKeepsRows, StepKeepsRows DEF Next

\* Why a session may end.
Cause(t) ==
    \/ users' # users
    \/ \E r \in Request : req[r].pc = "logout" /\ req[r].token = t
    \/ now - sessions[t].created >= Absolute
    \/ now - sessions[t].used > Idle - TouchEvery
    \/ sessions[t].back
    \/ \E r \in Request : req[r].pc = "drop" /\ req[r].token = t
                          /\ req[r].row.seen # sessions[t].seen

\* A row whose last known use is Idle ago was not used since, or only just after.
LEMMA IdleIsCause ==
    ASSUME IInv, EInv, NEW t \in Token, sessions[t] # None, now - sessions[t].seen >= Idle
    PROVE  Cause(t)
  <1>1. sessions[t] \in Session /\ Recorded(sessions[t]) /\ now \in Nat
    BY DEF IInv, TypeOK, EInv
  <1>2. CASE sessions[t].back = TRUE
    BY <1>2 DEF Cause
  <1>3. CASE sessions[t].back # TRUE
    <2>1. sessions[t].used - sessions[t].seen < TouchEvery
      BY <1>1, <1>3 DEF Recorded
    <2>2. sessions[t].used \in Nat /\ sessions[t].seen \in Nat /\ Idle \in Nat /\ TouchEvery \in Nat
      BY <1>1, SessionsAssumption DEF Session
    <2>3. now - sessions[t].used > Idle - TouchEvery
      BY <1>1, <2>1, <2>2
    <2> QED
      BY <2>3 DEF Cause
  <1> QED
    BY <1>2, <1>3

\* delete_expired_sessions judges by the time of the login, which is not later.
LEMMA WelcomeEndsForCause ==
    ASSUME IInv, EInv, NEW r \in Request, Welcome(r),
           NEW t \in Token, sessions[t] # None, sessions'[t] = None
    PROVE  Cause(t)
  <1>1. t \in Expired(req[r].now)
    BY DEF Welcome, Without
  <1>2. sessions[t] \in Session /\ req[r] \in Local /\ req[r].now <= now /\ now \in Nat
    BY DEF IInv, TypeOK, EInv
  <1>3. /\ sessions[t].seen \in Nat /\ sessions[t].created \in Nat /\ req[r].now \in Nat
        /\ Idle \in Nat /\ Absolute \in Nat
    BY <1>2, SessionsAssumption DEF Session, Local
  <1>4. CASE sessions[t].seen < req[r].now - Idle
    BY <1>2, <1>3, <1>4, IdleIsCause
  <1>5. CASE sessions[t].created < req[r].now - Absolute
    <2>1. now - sessions[t].created >= Absolute
      BY <1>2, <1>3, <1>5
    <2> QED
      BY <2>1 DEF Cause
  <1> QED
    BY <1>1, <1>4, <1>5 DEF Expired

LEMMA DropEndsForCause ==
    ASSUME IInv, EInv, NEW r \in Request, Drop(r),
           NEW t \in Token, sessions[t] # None, sessions'[t] = None
    PROVE  Cause(t)
  <1>1. t = req[r].token
    BY DEF Drop, Without
  <1>2. CASE req[r].pc = "logout"
    BY <1>1, <1>2 DEF Cause
  <1>3. CASE req[r].pc = "drop"
    <2>1. Earlier(req[r].row, sessions[t]) /\ TooOld(req[r].row, now)
      BY <1>1, <1>3 DEF EInv, RowIsEarlier, Holding
    <2>2. CASE req[r].row.seen # sessions[t].seen
      BY <1>1, <1>3, <2>2 DEF Cause
    <2>3. CASE req[r].row.seen = sessions[t].seen
      <3>1. now - sessions[t].seen >= Idle \/ now - sessions[t].created >= Absolute
        BY <2>1, <2>3 DEF Earlier, TooOld
      <3>2. CASE now - sessions[t].created >= Absolute
        BY <3>2 DEF Cause
      <3> QED
        BY <3>1, <3>2, IdleIsCause
    <2> QED
      BY <2>2, <2>3
  <1> QED
    BY <1>2, <1>3 DEF Drop, At

\* Every account has an older password than the one that is set.
LEMMA SetPasswordIsCause ==
    ASSUME IInv, EInv, NEW u \in User, NEW role \in Role, SetPassword(u, role)
    PROVE  users' # users
  <1>1. users' = [users EXCEPT ![u] = [password |-> changes + 1, role |-> role]]
    BY DEF SetPassword, SetUser
  <1>2. users \in [User -> Account] /\ changes \in Int /\ users[u].password <= changes
    BY SessionsAssumption DEF IInv, TypeOK, EInv
  <1>3. users[u].password \in Int
    BY <1>2, SessionsAssumption DEF Account
  <1>4. users'[u].password = changes + 1
    BY <1>1, <1>2
  <1>5. changes + 1 # users[u].password
    BY <1>2, <1>3
  <1> QED
    BY <1>4, <1>5

\* An UPDATE or an INSERT ends none.
LEMMA WritesEndNone ==
    ASSUME IInv, EInv, NEW r \in Request, CreateSession(r) \/ Check(r) \/ TouchSession(r),
           NEW t \in Token, sessions[t] # None
    PROVE  sessions'[t] # None
  <1> DEFINE k == req[r].token
             created == [user |-> req[r].name, created |-> req[r].now, seen |-> req[r].now,
                         password |-> req[r].password, overtaken |-> req[r].changed,
                         used |-> req[r].now, back |-> FALSE]
             used == [sessions[k] EXCEPT !.used = Later(@, now)]
             touched == [sessions[k] EXCEPT !.seen = req[r].now, !.used = Later(@, req[r].now),
                                            !.back = @ \/ req[r].now < sessions[k].seen]
  <1>1. /\ req[r] \in Local /\ sessions \in [Token -> Session \cup {None}] /\ now \in Nat
        /\ LoginBacked(req[r]) /\ None \notin Session
    BY SessionsAssumption DEF IInv, TypeOK, Backed
  <1>2. CASE CreateSession(r)
    <2>1. req[r].pc = "create" /\ \E n \in NewToken : sessions' = [sessions EXCEPT ![n] = created]
      BY <1>2 DEF CreateSession, At
    <2>2. created \in Session
      BY <1>1, <2>1 DEF Local, Session, LoginBacked
    <2> HIDE DEF created
    <2> QED
      BY <1>1, <2>1, <2>2 DEF NewToken
  <1>3. CASE Check(r) \/ TouchSession(r)
    <2>1. UNCHANGED sessions \/ (Check(r) /\ Update(k, used)) \/ (TouchSession(r) /\ Update(k, touched))
      BY <1>3 DEF Check, TouchSession
    <2>2. ASSUME sessions[k] # None, k \in Token
          PROVE  used \in Session /\ touched \in Session
      <3>1. sessions[k] \in Session /\ req[r].now \in Nat
        BY <1>1, <2>2 DEF Local
      <3> QED
        BY <1>1, <3>1 DEF Session, Later
    <2>3. k \in Token
      BY <1>3 DEF EInv, Check, TouchSession, At, RowIsEarlier, Holding
    <2> HIDE DEF used, touched
    <2> QED
      BY <1>1, <2>1, <2>2, <2>3 DEF Update
  <1> QED
    BY <1>2, <1>3

LEMMA NextEndsForCause ==
    ASSUME IInv, EInv, [Next]_vars, NEW t \in Token, sessions[t] # None, sessions'[t] = None
    PROVE  Cause(t)
  <1>1. CASE \E u \in User, role \in Role : SetPassword(u, role)
    BY <1>1, SetPasswordIsCause DEF Cause
  <1>2. CASE Tick \/ Stop \/ Start \/ UNCHANGED vars
    BY <1>2 DEF Tick, Stop, Start, vars
  <1>3. ASSUME NEW r \in Request, Step(r)
        PROVE  Cause(t)
    <2>1. CASE Welcome(r)
      BY <2>1, WelcomeEndsForCause
    <2>2. CASE Drop(r)
      BY <2>2, DropEndsForCause
    <2>3. CASE CreateSession(r) \/ Check(r) \/ TouchSession(r)
      BY <2>3, WritesEndNone
    <2>4. CASE UNCHANGED sessions
      BY <2>4
    <2> QED
      BY <1>3, <2>1, <2>2, <2>3, <2>4
      DEF Step, UpdateDevice, BeginLogin, Ask, LookUp, RecordFailure, BreakOff, Reset,
          BeginRequest, RefuseCsrf,
          FindTooOld, AssignGroup, Rename
  <1> QED
    BY <1>1, <1>2, <1>3 DEF Next

\* For any number of threads, accounts and sessions and any ages: a session ends
\* for one of the causes SessionsEndForCause lists (current_session,
\* delete_expired_sessions, delete_session, set_user).
THEOREM SessionsEnd == Spec => SessionsEndForCause
  <1>1. IInv /\ EInv /\ [Next]_vars =>
        [\A t \in Token : sessions[t] # None /\ sessions'[t] = None =>
          \/ users' # users
          \/ \E r \in Request : req[r].pc = "logout" /\ req[r].token = t
          \/ now - sessions[t].created >= Absolute
          \/ now - sessions[t].used > Idle - TouchEvery
          \/ sessions[t].back
          \/ \E r \in Request : req[r].pc = "drop" /\ req[r].token = t
                                /\ req[r].row.seen # sessions[t].seen]_vars
    BY NextEndsForCause DEF Cause
  <1> QED
    BY <1>1, InitIsBacked, NextKeeps, InitKeepsRows, NextKeepsRows, PTL
    DEF Spec, SessionsEndForCause

-----------------------------------------------------------------------------
(* The bound of the limiter.                                               *)

Failed == [login: Nat, at: Nat]

\* The failed logins of a key in the window, the requests that may still fail under
\* it, and those whose failure is not recorded under it yet.
Counted(k) == {f \in failed[k] : now - f.at < LoginWindow}
Admitted(q, k) ==
    /\ k \notin q.slipped
    /\ \/ q.pc = "ask" /\ k = q.client /\ q.key = q.name
       \/ q.pc = "lookup" /\ k \in {q.client, q.name}
Unrecorded(q, k) == q.pc = "refused" /\ k \in {q.key, q.name}
May(k) == {r \in Request : Admitted(req[r], k)}
Yet(k) == {r \in Request : Unrecorded(req[r], k)}

\* The limiter has every failure that is counted, or is about to have it.
Held(k) ==
    \A f \in Counted(k) : f \in Entries(limiter[k]) \/ \E r \in Yet(k) : f = Failure(r)

\* Each of the logins it admitted may still add a failure: the bound holds with all
\* of them counted.
Room(k) ==
    Cardinality(Counted(k)) + Cardinality(May(k)) <= LoginMaxFailures - 1 + Cardinality(Request)

\* A login has its two keys, and uses the limiter under one of them.
Keyed(q) ==
    q.pc \in {"ask", "lookup", "refused", "verified"} =>
        /\ q.name \in Name /\ q.client \in Client
        /\ q.pc # "lookup" => q.key \in {q.name, q.client}

LInv ==
    /\ limiter \in [Key -> Seq(Failed)] /\ failed \in [Key -> SUBSET Failed]
    /\ \A r \in Request : Keyed(req[r])
    /\ \A k \in Key : Held(k) /\ Room(k)

LEMMA RequestsAreFinite ==
    /\ IsFiniteSet(Request) /\ Cardinality(Request) \in Nat /\ LoginMaxFailures \in Nat \ {0}
    /\ LoginWindow \in Nat
  BY SessionsAssumption, FS_CardinalityType

LEMMA RequestSets ==
    ASSUME NEW S \in SUBSET Request
    PROVE  IsFiniteSet(S) /\ Cardinality(S) \in Nat /\ Cardinality(S) <= Cardinality(Request)
  BY RequestsAreFinite, FS_Subset, FS_CardinalityType

\* A sequence has no more entries than elements.
LEMMA EntriesAreFew ==
    ASSUME NEW S, NEW s \in Seq(S)
    PROVE  IsFiniteSet(Entries(s)) /\ Cardinality(Entries(s)) \in Nat /\ Cardinality(Entries(s)) <= Len(s)
  <1>1. /\ Len(s) \in Nat /\ DOMAIN s = 1..Len(s) /\ s \in [1..Len(s) -> Entries(s)]
    BY DEF Entries
  <1>2. s \in Surjection(1..Len(s), Entries(s))
    BY <1>1 DEF Surjection, Entries
  <1>3. IsFiniteSet(1..Len(s)) /\ Cardinality(1..Len(s)) = Len(s)
    <2>1. Cardinality(1..Len(s)) = IF 1 > Len(s) THEN 0 ELSE Len(s) - 1 + 1
      BY <1>1, FS_Interval
    <2>2. IsFiniteSet(1..Len(s))
      BY <1>1, FS_Interval
    <2> QED
      BY <1>1, <2>1, <2>2
  <1> QED
    BY <1>2, <1>3, FS_Surjection, FS_CardinalityType

\* Requests have no more failures than they are.
LEMMA FailuresAreFew ==
    ASSUME NEW S \in SUBSET Request
    PROVE  /\ IsFiniteSet({Failure(r) : r \in S}) /\ Cardinality({Failure(r) : r \in S}) \in Nat
           /\ Cardinality({Failure(r) : r \in S}) <= Cardinality(S)
  <1> DEFINE T == {Failure(r) : r \in S}
             f == [r \in S |-> Failure(r)]
  <1>1. f \in Surjection(S, T)
    BY DEF Surjection
  <1>2. IsFiniteSet(S)
    BY RequestSets
  <1> HIDE DEF f, T
  <1>3. IsFiniteSet(T) /\ Cardinality(T) <= Cardinality(S) /\ Cardinality(T) \in Nat
    BY <1>1, <1>2, FS_Surjection, FS_CardinalityType
  <1> QED
    BY <1>3 DEF T

\* What is left of a sequence from some place on.
LEMMA Suffix ==
    ASSUME NEW S, NEW s \in Seq(S), NEW i \in 1..(Len(s) + 1)
    PROVE  SubSeq(s, i, Len(s)) \in Seq(S)
  <1>1. Len(s) \in Nat
    OBVIOUS
  <1> QED
    BY <1>1

LEMMA SuffixEntries ==
    ASSUME NEW S, NEW s \in Seq(S), NEW i \in 1..(Len(s) + 1), NEW j \in i..Len(s)
    PROVE  s[j] \in Entries(SubSeq(s, i, Len(s)))
  <1> DEFINE t == SubSeq(s, i, Len(s))
  <1>1. Len(s) \in Nat /\ i \in Nat /\ j \in Nat
    OBVIOUS
  <1>2. j - i + 1 \in DOMAIN t /\ t[j - i + 1] = s[j]
    <2>1. Len(t) = Len(s) - i + 1 /\ DOMAIN t = 1..Len(t)
      BY <1>1
    <2>2. j - i + 1 \in 1..Len(t)
      BY <1>1, <2>1
    <2> QED
      BY <1>1, <2>1, <2>2
  <1> HIDE DEF t
  <1> QED
    BY <1>2 DEF t, Entries

\* _recent drops only times that have expired, though they need not be in order.
LEMMA StaleAreExpired ==
    ASSUME NEW times \in Seq(Failed), NEW t \in Nat
    PROVE  /\ Stale(times, t) \in 0..Len(times)
           /\ \A i \in 1..Stale(times, t) : t - times[i].at >= LoginWindow
  <1> DEFINE Old(j) == t - times[j].at >= LoginWindow
             S == {i \in DOMAIN times : \A j \in 1..i : Old(j)}
  <1>1. Len(times) \in Nat /\ DOMAIN times = 1..Len(times)
    OBVIOUS
  <1>2. S \in SUBSET (1..Len(times))
    BY <1>1
  <1>3. Stale(times, t) = Cardinality(S)
    BY DEF Stale
  <1>4. ASSUME NEW n \in Nat, S \subseteq 1..n
        PROVE  Cardinality(S) \in Nat /\ Cardinality(S) <= n
    <2>1. IsFiniteSet(1..n) /\ Cardinality(1..n) = IF 1 > n THEN 0 ELSE n - 1 + 1
      BY FS_Interval
    <2>2. Cardinality(1..n) = n
      BY <2>1
    <2>3. IsFiniteSet(S) /\ Cardinality(S) <= Cardinality(1..n)
      BY <1>4, <2>1, FS_Subset
    <2> HIDE DEF S
    <2> QED
      BY <2>2, <2>3, FS_CardinalityType
  <1>5. Cardinality(S) \in 0..Len(times)
    <2> HIDE DEF S
    <2> QED
      BY <1>1, <1>2, <1>4
  <1>6. ASSUME NEW i \in 1..Cardinality(S)
        PROVE  Old(i)
    <2>1. i \in Nat /\ i - 1 \in Nat /\ i \in DOMAIN times
      BY <1>1, <1>5
    <2>2. CASE i \in S
      <3>1. i \in 1..i
        BY <2>1
      <3> QED
        BY <2>2, <3>1
    <2>3. CASE i \notin S
      <3>1. \A j \in S : j < i
        <4> SUFFICES ASSUME NEW j \in S, ~(j < i)
                     PROVE  FALSE
          OBVIOUS
        <4>1. j \in Nat /\ \A m \in 1..j : Old(m)
          BY <1>1
        <4>2. \A m \in 1..i : m \in 1..j
          BY <2>1, <4>1
        <4>3. i \in S
          BY <2>1, <4>1, <4>2
        <4> QED
          BY <2>3, <4>3
      <3>2. S \subseteq 1..(i - 1)
        BY <1>1, <2>1, <3>1
      <3>3. Cardinality(S) <= i - 1
        BY <1>4, <2>1, <3>2
      <3> HIDE DEF S
      <3> QED
        BY <1>5, <2>1, <3>3
    <2> QED
      BY <2>2, <2>3
  <1> QED
    BY <1>3, <1>5, <1>6

LEMMA RecentKeepsLive ==
    ASSUME NEW times \in Seq(Failed), NEW t \in Nat, NEW f \in Entries(times), t - f.at < LoginWindow
    PROVE  f \in Entries(Recent(times, t))
  <1> DEFINE n == Stale(times, t)
  <1>1. PICK i \in DOMAIN times : f = times[i]
    BY DEF Entries
  <1>2. Len(times) \in Nat /\ i \in 1..Len(times) /\ n \in 0..Len(times) /\ f \in Failed
    BY <1>1, StaleAreExpired
  <1>3. i \notin 1..n
    <2>1. f.at \in Nat /\ LoginWindow \in Nat
      BY <1>2, RequestsAreFinite DEF Failed
    <2>2. i \in 1..n => t - f.at >= LoginWindow
      BY <1>1, StaleAreExpired
    <2> QED
      BY <2>1, <2>2
  <1> HIDE DEF n
  <1>4. n + 1 \in 1..(Len(times) + 1) /\ i \in (n + 1)..Len(times)
    BY <1>2, <1>3
  <1> QED
    BY <1>1, <1>4, SuffixEntries DEF Recent, n

LEMMA RecentIsSeq ==
    ASSUME NEW times \in Seq(Failed), NEW t \in Nat
    PROVE  Recent(times, t) \in Seq(Failed)
  <1>1. Stale(times, t) + 1 \in 1..(Len(times) + 1) /\ Len(times) \in Nat
    BY StaleAreExpired
  <1> QED
    BY <1>1, Suffix DEF Recent

LEMMA CountedIsFinite ==
    ASSUME NEW k \in Key, limiter[k] \in Seq(Failed), Held(k)
    PROVE  IsFiniteSet(Counted(k)) /\ Cardinality(Counted(k)) \in Nat
  <1> DEFINE U == Entries(limiter[k]) \cup {Failure(r) : r \in Yet(k)}
  <1>1. IsFiniteSet(Entries(limiter[k]))
    BY EntriesAreFew
  <1>2. IsFiniteSet({Failure(r) : r \in Yet(k)})
    BY FailuresAreFew DEF Yet
  <1>3. IsFiniteSet(U)
    BY <1>1, <1>2, FS_Union
  <1>4. Counted(k) \subseteq U
    BY DEF Held
  <1> HIDE DEF U
  <1> QED
    BY <1>3, <1>4, FS_Subset, FS_CardinalityType

\* A key keeps its room while nothing is added.
LEMMA RoomStays ==
    ASSUME NEW k \in Key, limiter[k] \in Seq(Failed), Held(k), Room(k),
           NEW C \in SUBSET Counted(k), NEW M \in SUBSET May(k)
    PROVE  Cardinality(C) + Cardinality(M) <= LoginMaxFailures - 1 + Cardinality(Request)
  <1>1. Cardinality(C) <= Cardinality(Counted(k)) /\ Cardinality(C) \in Nat /\ Cardinality(Counted(k)) \in Nat
    BY CountedIsFinite, FS_Subset, FS_CardinalityType
  <1>2. May(k) \in SUBSET Request
    BY DEF May
  <1>3. Cardinality(M) <= Cardinality(May(k)) /\ Cardinality(M) \in Nat /\ Cardinality(May(k)) \in Nat
    BY <1>2, RequestSets, FS_Subset, FS_CardinalityType
  <1> QED
    BY <1>1, <1>3, RequestsAreFinite DEF Room

\* A request goes on: it may fail under no new key, and has the failure it had to
\* record, or not to record any more under the keys in settled.
Moved(q, p, settled) ==
    /\ Keyed(p)
    /\ \A k \in Key :
          Unrecorded(q, k) => k \in settled \/ (Unrecorded(p, k) /\ p.login = q.login /\ p.now = q.now)
Quiet(q, p) == Moved(q, p, {}) /\ \A k \in Key : Admitted(p, k) => Admitted(q, k)

\* Failures that leave the window, or are not counted any more.
LEMMA LessKeeps ==
    ASSUME LInv, limiter' = limiter, failed' \in [Key -> SUBSET Failed], now \in Nat, now' \in Nat,
           now <= now', \A k \in Key : failed'[k] \subseteq failed[k],
           \A r \in Request : Quiet(req[r], req'[r])
    PROVE  LInv'
  <1>1. limiter' \in [Key -> Seq(Failed)] /\ \A r \in Request : Keyed(req'[r])
    BY DEF LInv, Quiet, Moved
  <1>2. ASSUME NEW k \in Key
        PROVE  Held(k)' /\ Room(k)'
    <2>1. limiter[k] \in Seq(Failed) /\ Held(k) /\ Room(k) /\ failed[k] \in SUBSET Failed
      BY DEF LInv
    <2>2. Counted(k)' \in SUBSET Counted(k)
      <3> SUFFICES ASSUME NEW f \in Counted(k)'
                   PROVE  f \in Counted(k)
        OBVIOUS
      <3>1. f \in failed[k] /\ f.at \in Nat /\ now' - f.at < LoginWindow /\ LoginWindow \in Nat
        BY <2>1, RequestsAreFinite DEF Counted, Failed
      <3> QED
        BY <3>1 DEF Counted
    <2>3. May(k)' \in SUBSET May(k)
      BY DEF May, Quiet
    <2>4. Held(k)'
      <3>1. \A r \in Yet(k) : r \in Yet(k)' /\ Failure(r)' = Failure(r)
        BY DEF Yet, Quiet, Moved, Failure
      <3> QED
        BY <2>1, <2>2, <3>1 DEF Held
    <2> QED
      BY <2>1, <2>2, <2>3, <2>4, RoomStays DEF Room
  <1> QED
    BY <1>1, <1>2 DEF LInv

LEMMA LeftIsSeq ==
    ASSUME NEW r \in Request, limiter[req[r].key] \in Seq(Failed), req[r].now \in Nat, NEW left \in Left(r)
    PROVE  left \in Seq(Failed)
  <1> DEFINE times == limiter[req[r].key]
  <1>1. ASSUME NEW i \in 1..(Len(times) + 1)
        PROVE  SubSeq(times, i, Len(times)) \in Seq(Failed)
    BY Suffix
  <1>2. Recent(times, req[r].now) \in Seq(Failed)
    BY RecentIsSeq
  <1> QED
    BY <1>1, <1>2 DEF Left

LEMMA EntriesOfBoth ==
    ASSUME NEW s \in Seq(Failed), NEW f \in Failed
    PROVE  /\ s \o <<>> \in Seq(Failed) /\ Entries(s \o <<>>) = Entries(s)
           /\ s \o <<f>> \in Seq(Failed)
           /\ Entries(s) \subseteq Entries(s \o <<f>>) /\ f \in Entries(s \o <<f>>)
  <1>1. s \o <<>> = s /\ Len(s) \in Nat
    OBVIOUS
  <1> DEFINE t == s \o <<f>>
  <1>2. t \in Seq(Failed) /\ Len(t) = Len(s) + 1
    OBVIOUS
  <1>3. \A i \in 1..Len(s) : t[i] = s[i]
    OBVIOUS
  <1>4. t[Len(s) + 1] = f
    OBVIOUS
  <1>5. DOMAIN s = 1..Len(s) /\ DOMAIN t = 1..(Len(s) + 1)
    BY <1>2
  <1> HIDE DEF t
  <1>6. \A i \in 1..Len(s) : i \in 1..(Len(s) + 1)
    BY <1>1
  <1>7. Entries(s) \subseteq Entries(t)
    BY <1>3, <1>5, <1>6 DEF Entries
  <1>8. Len(s) + 1 \in 1..(Len(s) + 1)
    BY <1>1
  <1>9. f \in Entries(t)
    BY <1>4, <1>5, <1>8 DEF Entries
  <1> QED
    BY <1>1, <1>2, <1>7, <1>9 DEF t

\* A use of the limiter loses no failure that is still counted.
LEMMA UseKeeps ==
    ASSUME LInv, IInv, EInv, NEW r \in Request, req[r].key \in Key, NEW left \in Left(r),
           NEW added \in {<<>>, <<Failure(r)>>}, NEW own, Use(r, left, added, own), now' = now,
           NEW p, Go(r, p), Moved(req[r], p, IF added = <<>> THEN own ELSE own \cup {req[r].key})
    PROVE  /\ limiter' \in [Key -> Seq(Failed)] /\ failed' \in [Key -> SUBSET Failed]
           /\ \A s \in Request : Keyed(req'[s])
           /\ \A k \in Key : Counted(k)' \in SUBSET Counted(k) /\ Held(k)'
  <1> DEFINE key == req[r].key
             new == left \o added
             lost(k) == (IF k = key THEN Entries(Recent(limiter[key], req[r].now)) \ Entries(left) ELSE {})
                        \cup (IF k \in own THEN {Failure(r)} ELSE {})
  <1>1. /\ limiter' = [limiter EXCEPT ![key] = new]
        /\ failed' = [k \in Key |-> failed[k] \ lost(k)]
    BY DEF Use
  <1>2. /\ limiter \in [Key -> Seq(Failed)] /\ failed \in [Key -> SUBSET Failed]
        /\ \A s \in Request : Keyed(req[s])
    BY DEF LInv
  <1>3. req \in [Request -> Local] /\ req[r].now \in Nat /\ req[r].login \in Nat /\ now \in Nat /\ req[r].now <= now
    BY DEF IInv, EInv, TypeOK, Local
  <1>4. Failure(r) \in Failed
    BY <1>3 DEF Failure, Failed
  <1>5. left \in Seq(Failed)
    BY <1>2, <1>3, LeftIsSeq
  <1>6. /\ new \in Seq(Failed) /\ Entries(left) \subseteq Entries(new)
        /\ added # <<>> => Failure(r) \in Entries(new)
    <2>1. CASE added = <<>>
      BY <1>4, <1>5, <2>1, EntriesOfBoth
    <2>2. CASE added = <<Failure(r)>>
      BY <1>4, <1>5, <2>2, EntriesOfBoth
    <2> QED
      BY <2>1, <2>2
  <1> HIDE DEF new
  <1>7. limiter' \in [Key -> Seq(Failed)]
    BY <1>1, <1>2, <1>6
  <1>8. failed' \in [Key -> SUBSET Failed] /\ \A k \in Key : failed'[k] = failed[k] \ lost(k)
    <2> HIDE DEF lost
    <2> QED
      BY <1>1, <1>2
  <1>9. req'[r] = p /\ \A s \in Request : s # r => req'[s] = req[s]
    BY <1>3 DEF Go
  <1>10. \A s \in Request : Keyed(req'[s])
    BY <1>2, <1>9 DEF Moved
  <1>11. ASSUME NEW k \in Key
         PROVE  Counted(k)' \in SUBSET Counted(k)
    BY <1>8, <1>11 DEF Counted
  <1>12. ASSUME NEW k \in Key, NEW f \in Counted(k)'
         PROVE  f \in Entries(limiter'[k]) \/ \E s \in Yet(k)' : f = Failure(s)'
    <2>1. f \in Counted(k) /\ f \notin lost(k) /\ f \in Failed
      BY <1>2, <1>8, <1>11, <1>12 DEF Counted
    <2>2. CASE f \in Entries(limiter[k])
      <3>1. CASE k # key
        BY <1>1, <1>2, <2>2, <3>1
      <3>2. CASE k = key
        <4>1. now - f.at < LoginWindow /\ f.at \in Nat /\ LoginWindow \in Nat
          BY <2>1, RequestsAreFinite DEF Counted, Failed
        <4>2. req[r].now - f.at < LoginWindow
          BY <1>3, <4>1
        <4>3. f \in Entries(Recent(limiter[key], req[r].now))
          BY <1>2, <1>3, <2>2, <3>2, <4>2, RecentKeepsLive
        <4>4. f \in Entries(new)
          BY <1>6, <2>1, <3>2, <4>3
        <4> QED
          BY <1>1, <1>2, <3>2, <4>4
      <3> QED
        BY <3>1, <3>2
    <2>3. CASE \E s \in Yet(k) : f = Failure(s)
      <3>1. PICK s \in Yet(k) : f = Failure(s)
        BY <2>3
      <3>2. s \in Request /\ Unrecorded(req[s], k)
        BY DEF Yet
      <3>3. CASE s # r
        <4>1. s \in Yet(k)' /\ Failure(s)' = Failure(s)
          BY <1>9, <3>2, <3>3 DEF Yet, Failure
        <4> QED
          BY <3>1, <4>1
      <3>4. CASE s = r
        <4>1. k \notin own
          BY <2>1, <3>1, <3>4
        <4>2. CASE added # <<>> /\ k = key
          BY <1>1, <1>2, <1>6, <3>1, <3>4, <4>2
        <4>3. CASE ~(added # <<>> /\ k = key)
          <5>1. Unrecorded(p, k) /\ p.login = req[r].login /\ p.now = req[r].now
            BY <3>2, <3>4, <4>1, <4>3 DEF Moved
          <5>2. r \in Yet(k)' /\ Failure(r)' = Failure(r)
            BY <1>9, <5>1 DEF Yet, Failure
          <5> QED
            BY <3>1, <3>4, <5>2
        <4> QED
          BY <4>2, <4>3
      <3> QED
        BY <3>3, <3>4
    <2> QED
      BY <2>1, <2>2, <2>3 DEF LInv, Held
  <1>13. \A k \in Key : Held(k)'
    BY <1>12 DEF Held
  <1> QED
    BY <1>7, <1>8, <1>10, <1>11, <1>13

\* What a request that moves on changes in the sets of a key.
LEMMA MayGoes ==
    ASSUME NEW r \in Request, NEW p, Go(r, p), req \in [Request -> Local], NEW k \in Key
    PROVE  /\ May(k)' = {s \in Request \ {r} : Admitted(req[s], k)} \cup (IF Admitted(p, k) THEN {r} ELSE {})
           /\ May(k)' \in SUBSET Request
  <1>1. req'[r] = p /\ \A s \in Request : s # r => req'[s] = req[s]
    BY DEF Go
  <1> QED
    BY <1>1 DEF May

\* A use of the limiter that admits nothing new.
LEMMA UseKeepsRoom ==
    ASSUME LInv, IInv, EInv, NEW r \in Request, req[r].key \in Key, NEW left \in Left(r),
           NEW added \in {<<>>, <<Failure(r)>>}, NEW own, Use(r, left, added, own), now' = now,
           NEW p, Go(r, p), Moved(req[r], p, IF added = <<>> THEN own ELSE own \cup {req[r].key}),
           \A k \in Key : Admitted(p, k) => Admitted(req[r], k)
    PROVE  LInv'
  <1>1. /\ limiter' \in [Key -> Seq(Failed)] /\ failed' \in [Key -> SUBSET Failed]
        /\ \A s \in Request : Keyed(req'[s])
        /\ \A k \in Key : Counted(k)' \in SUBSET Counted(k) /\ Held(k)'
    BY UseKeeps
  <1>2. ASSUME NEW k \in Key
        PROVE  Room(k)'
    <2>1. req \in [Request -> Local]
      BY DEF IInv, TypeOK
    <2>2. May(k)' \in SUBSET May(k)
      BY <2>1, MayGoes DEF May
    <2>3. limiter[k] \in Seq(Failed) /\ Held(k) /\ Room(k)
      BY DEF LInv
    <2> QED
      BY <1>1, <2>2, <2>3, RoomStays DEF Room
  <1> QED
    BY <1>1, <1>2 DEF LInv

\* The keys of a login that uses the limiter.
LEMMA UsesItsKeys ==
    ASSUME LInv, IInv, NEW r \in Request, req[r].pc \in {"ask", "lookup", "refused", "verified"}
    PROVE  /\ req[r] \in Local /\ req[r].name \in Name /\ req[r].client \in Client /\ req[r].name # req[r].client
           /\ req[r].name \in Key /\ req[r].client \in Key
           /\ req[r].pc # "lookup" => req[r].key \in {req[r].name, req[r].client} /\ req[r].key \in Key
  BY SessionsAssumption DEF LInv, IInv, TypeOK, Keyed, Key

\* An answer that is not "locked" leaves room for the login: the failures that are
\* counted are in the deque, which has less than the limit, or with requests that
\* cannot fail again.
LEMMA UnlockedHasRoom ==
    ASSUME LInv, IInv, EInv, NEW r \in Request, NEW k \in Key, ~IsLocked(limiter[k], req[r].now),
           NEW C \in SUBSET Counted(k), NEW M \in SUBSET (Request \ Yet(k))
    PROVE  Cardinality(C) + Cardinality(M) <= LoginMaxFailures - 1 + Cardinality(Request)
  <1> DEFINE times == limiter[k]
             t == req[r].now
             T == Entries(Recent(times, t))
             F == {Failure(s) : s \in Yet(k)}
  <1>1. times \in Seq(Failed) /\ Held(k) /\ failed[k] \in SUBSET Failed
    BY DEF LInv
  <1>2. t \in Nat /\ now \in Nat /\ t <= now
    BY DEF IInv, EInv, TypeOK, Local
  <1>3. Recent(times, t) \in Seq(Failed)
    BY <1>1, <1>2, RecentIsSeq
  <1>4. IsFiniteSet(T) /\ Cardinality(T) \in Nat /\ Cardinality(T) <= Len(Recent(times, t))
    BY <1>3, EntriesAreFew
  <1>5. Len(Recent(times, t)) \in Nat /\ Len(Recent(times, t)) < LoginMaxFailures
    <2>1. Len(Recent(times, t)) \in Nat
      BY <1>3
    <2> QED
      BY <2>1, RequestsAreFinite DEF IsLocked
  <1>6. Yet(k) \in SUBSET Request
    BY DEF Yet
  <1>7. IsFiniteSet(F) /\ Cardinality(F) \in Nat /\ Cardinality(F) <= Cardinality(Yet(k))
    BY <1>6, FailuresAreFew
  <1>8. C \subseteq T \cup F
    <2> SUFFICES ASSUME NEW f \in C, f \notin F
                 PROVE  f \in T
      OBVIOUS
    <2>1. f \in Entries(times) /\ now - f.at < LoginWindow /\ f.at \in Nat /\ LoginWindow \in Nat
      BY <1>1, RequestsAreFinite DEF Held, Counted, Failed
    <2>2. t - f.at < LoginWindow
      BY <1>2, <2>1
    <2> QED
      BY <1>1, <1>2, <2>1, <2>2, RecentKeepsLive
  <1> HIDE DEF T, F
  <1>9. IsFiniteSet(C) /\ Cardinality(C) \in Nat /\ Cardinality(C) <= Cardinality(T) + Cardinality(F)
    <2>1. /\ IsFiniteSet(T \cup F) /\ IsFiniteSet(T \cap F)
          /\ Cardinality(T \cup F) = Cardinality(T) + Cardinality(F) - Cardinality(T \cap F)
      BY <1>4, <1>7, FS_Union, FS_Intersection
    <2>2. Cardinality(T \cap F) \in Nat /\ Cardinality(T \cup F) \in Nat
      BY <2>1, FS_CardinalityType
    <2>3. IsFiniteSet(C) /\ Cardinality(C) <= Cardinality(T \cup F)
      BY <1>8, <2>1, FS_Subset
    <2>4. Cardinality(C) \in Nat
      BY <2>3, FS_CardinalityType
    <2> QED
      BY <1>4, <1>7, <2>1, <2>2, <2>3, <2>4
  <1>10. Cardinality(Yet(k)) + Cardinality(M) <= Cardinality(Request)
    <2>1. IsFiniteSet(Yet(k)) /\ IsFiniteSet(M) /\ Yet(k) \cap M = {} /\ Yet(k) \cup M \in SUBSET Request
      BY <1>6, RequestSets
    <2>2. Cardinality(Yet(k) \cup M) = Cardinality(Yet(k)) + Cardinality(M) - Cardinality({})
      BY <2>1, FS_Union
    <2>3. Cardinality({}) = 0
      BY FS_EmptySet
    <2>4. Cardinality(Yet(k)) \in Nat /\ Cardinality(M) \in Nat
      BY <1>6, RequestSets
    <2> QED
      BY <2>1, <2>2, <2>3, <2>4, RequestSets
  <1>11. Cardinality(M) \in Nat /\ Cardinality(Yet(k)) \in Nat
    BY <1>6, RequestSets
  <1> QED
    BY <1>4, <1>5, <1>7, <1>9, <1>10, <1>11, RequestsAreFinite

-----------------------------------------------------------------------------
(* The steps.                                                              *)

LEMMA AskHasRoom ==
    ASSUME LInv, IInv, EInv, NEW r \in Request, Ask(r)
    PROVE  LInv'
  <1>0. PICK key \in Key : key = req[r].key
    BY UsesItsKeys DEF Ask, At
  <1> DEFINE locked == IsLocked(limiter[key], req[r].now)
             next == IF Last(r) THEN [req[r] EXCEPT !.pc = "lookup", !.key = None] ELSE NextKey(r)
             p == [next EXCEPT !.slipped = IF locked THEN @ \cup {key} ELSE @]
  <1>1. /\ req[r].pc = "ask" /\ req[r] \in Local /\ req[r].name \in Name /\ req[r].client \in Client
        /\ req[r].name # req[r].client /\ req[r].key = key /\ key \in {req[r].name, req[r].client}
    BY <1>0, UsesItsKeys DEF Ask, At
  <1>2. PICK left \in Left(r) : Use(r, left, <<>>, {}) /\ (Done(r) \/ Go(r, p))
    BY <1>0 DEF Ask
  <1>3. now' = now /\ <<>> \in {<<>>, <<Failure(r)>>}
    BY DEF Ask
  <1>4. CASE Done(r)
    <2>1. Moved(req[r], Free, {}) /\ \A k \in Key : Admitted(Free, k) => Admitted(req[r], k)
      BY <1>1 DEF Moved, Keyed, Unrecorded, Admitted, Free
    <2> QED
      BY <1>1, <1>2, <1>3, <1>4, <2>1, UseKeepsRoom DEF Done
  <1>5. CASE Go(r, p)
    <2>1. /\ p.name = req[r].name /\ p.client = req[r].client
          /\ p.slipped = IF locked THEN req[r].slipped \cup {key} ELSE req[r].slipped
          /\ key = req[r].name => p.pc = "lookup"
          /\ key # req[r].name => p.pc = "ask" /\ p.key = req[r].name
      BY <1>1 DEF Local, Last, NextKey
    <2> HIDE DEF p
    <2>2. Moved(req[r], p, {})
      BY <1>1, <2>1 DEF Moved, Keyed, Unrecorded
    <2>3. ASSUME NEW k \in Key, Admitted(p, k), k # key \/ locked
          PROVE  Admitted(req[r], k)
      BY <1>1, <2>1, <2>3 DEF Admitted
    <2>4. CASE locked
      BY <1>1, <1>2, <1>3, <1>5, <2>2, <2>3, <2>4, UseKeepsRoom
    <2>5. CASE ~locked
      <3>1. /\ limiter' \in [Key -> Seq(Failed)] /\ failed' \in [Key -> SUBSET Failed]
            /\ \A s \in Request : Keyed(req'[s])
            /\ \A k \in Key : Counted(k)' \in SUBSET Counted(k) /\ Held(k)'
        BY <1>1, <1>2, <1>3, <1>5, <2>2, UseKeeps
      <3>2. req \in [Request -> Local]
        BY DEF IInv, TypeOK
      <3>3. Room(key)'
        <4>1. May(key)' \in SUBSET (Request \ Yet(key))
          <5>1. ASSUME NEW s \in May(key)', s \in Yet(key)
                PROVE  FALSE
            <6>1. s # r
              BY <1>1, <5>1 DEF Yet, Unrecorded
            <6>2. Admitted(req[s], key)
              <7>1. req'[s] = req[s] /\ Admitted(req'[s], key)
                BY <1>5, <3>2, <5>1, <6>1 DEF May, Go
              <7> QED
                BY <7>1
            <6> QED
              BY <5>1, <6>2 DEF Yet, Unrecorded, Admitted
          <5> QED
            BY <5>1 DEF May
        <4>2. Counted(key)' \in SUBSET Counted(key)
          BY <1>1, <3>1
        <4> QED
          BY <1>1, <2>5, <4>1, <4>2, UnlockedHasRoom DEF Room
      <3>4. ASSUME NEW k \in Key, k # key
            PROVE  Room(k)'
        <4>1. May(k)' \in SUBSET May(k)
          BY <1>5, <2>3, <3>2, <3>4, MayGoes DEF May
        <4>2. limiter[k] \in Seq(Failed) /\ Held(k) /\ Room(k)
          BY DEF LInv
        <4> QED
          BY <3>1, <4>1, <4>2, RoomStays DEF Room
      <3> QED
        BY <3>1, <3>3, <3>4 DEF LInv
    <2> QED
      BY <2>4, <2>5
  <1> QED
    BY <1>2, <1>4, <1>5

LEMMA RecordFailureHasRoom ==
    ASSUME LInv, IInv, EInv, NEW r \in Request, RecordFailure(r)
    PROVE  LInv'
  <1> DEFINE key == req[r].key
             p == IF Last(r) THEN Free ELSE NextKey(r)
  <1>1. /\ req[r].pc = "refused" /\ req[r] \in Local /\ req[r].name \in Name /\ req[r].client \in Client
        /\ req[r].name # req[r].client /\ key \in {req[r].name, req[r].client} /\ key \in Key
    BY UsesItsKeys DEF RecordFailure, At
  <1>2. now' = now /\ Go(r, p)
    BY DEF RecordFailure
  <1>3. \E left \in Left(r) : Use(r, left, <<Failure(r)>>, {}) \/ Use(r, left, <<>>, {key})
    BY DEF RecordFailure
  <1>4. \/ key = req[r].name /\ p.pc = "idle"
        \/ /\ key # req[r].name /\ p.pc = "refused" /\ p.key = req[r].name /\ p.name = req[r].name
           /\ p.client = req[r].client /\ p.login = req[r].login /\ p.now = req[r].now
    BY <1>1 DEF Local, Last, NextKey, Free
  <1> HIDE DEF p
  <1>5. Moved(req[r], p, {key}) /\ \A k \in Key : ~Admitted(p, k)
    BY <1>1, <1>4 DEF Moved, Keyed, Unrecorded, Admitted
  <1>6. Moved(req[r], p, {} \cup {key})
    BY <1>5
  <1>7. /\ <<>> \in {<<>>, <<Failure(r)>>} /\ <<Failure(r)>> \in {<<>>, <<Failure(r)>>}
        /\ <<Failure(r)>> # <<>>
    OBVIOUS
  <1>8. ASSUME NEW left \in Left(r), Use(r, left, <<Failure(r)>>, {})
        PROVE  LInv'
    BY <1>1, <1>2, <1>5, <1>6, <1>7, <1>8, UseKeepsRoom
  <1>9. ASSUME NEW left \in Left(r), Use(r, left, <<>>, {key})
        PROVE  LInv'
    BY <1>1, <1>2, <1>5, <1>7, <1>9, UseKeepsRoom
  <1> QED
    BY <1>3, <1>8, <1>9

LEMMA BreakOffHasRoom ==
    ASSUME LInv, IInv, EInv, NEW r \in Request, BreakOff(r)
    PROVE  LInv'
  <1> DEFINE key == req[r].key
             own == IF At(r, "refused") THEN {key, req[r].name} ELSE {}
  <1>1. up /\ req[r].pc \in {"ask", "refused"} /\ key \in Key
    BY UsesItsKeys DEF BreakOff, At
  <1>2. PICK left \in Left(r) : Use(r, left, <<>>, own)
    BY DEF BreakOff
  <1>3. now' = now /\ Go(r, Free) /\ <<>> \in {<<>>, <<Failure(r)>>}
    BY DEF BreakOff, Done
  <1>4. Moved(req[r], Free, own) /\ \A k \in Key : ~Admitted(Free, k)
    BY <1>1 DEF Moved, Keyed, Unrecorded, Admitted, Free, At
  <1> HIDE DEF own
  <1> QED
    BY <1>1, <1>2, <1>3, <1>4, UseKeepsRoom

LEMMA LookUpHasRoom ==
    ASSUME LInv, IInv, EInv, NEW r \in Request, LookUp(r)
    PROVE  LInv'
  <1> DEFINE q == req[r]
             ended == [q EXCEPT !.key = q.client, !.slipped = {}]
             verified == [ended EXCEPT !.pc = "verified"]
             refused == [ended EXCEPT !.pc = "refused", !.password = 0, !.login = refusals']
  <1>1. q.pc = "lookup" /\ q \in Local /\ q.name \in Name /\ q.client \in Client /\ q.name # q.client
        /\ q.name \in Key /\ q.client \in Key
    BY UsesItsKeys DEF LookUp, At
  <1>2. /\ limiter' = limiter /\ now' = now /\ now \in Nat /\ refusals \in Nat /\ q.now \in Nat
        /\ limiter \in [Key -> Seq(Failed)] /\ failed \in [Key -> SUBSET Failed]
        /\ req \in [Request -> Local] /\ \A s \in Request : Keyed(req[s])
    BY DEF LookUp, IInv, TypeOK, LInv, Local
  <1>3. CASE failed' = failed /\ Go(r, verified)
    <2>1. Quiet(q, verified)
      <3>1. verified.pc = "verified" /\ verified.key = q.client /\ verified.name = q.name
            /\ verified.client = q.client
        BY <1>1 DEF Local
      <3> HIDE DEF verified
      <3> QED
        BY <1>1, <3>1 DEF Quiet, Moved, Keyed, Unrecorded, Admitted
    <2>2. \A s \in Request : Quiet(req[s], req'[s])
      <3>1. req'[r] = verified /\ \A s \in Request : s # r => req'[s] = req[s]
        BY <1>2, <1>3 DEF Go
      <3> HIDE DEF verified
      <3> QED
        BY <1>2, <2>1, <3>1 DEF Quiet, Moved
    <2> QED
      BY <1>2, <1>3, <2>2, LessKeeps
  <1>4. CASE /\ refusals' = refusals + 1 /\ Go(r, refused)
             /\ failed' = [k \in Key |-> IF k \in Keys(r) \ q.slipped
                              THEN failed[k] \cup {[login |-> refusals', at |-> q.now]}
                              ELSE failed[k]]
    <2> DEFINE new == [login |-> refusals', at |-> q.now]
    <2>1. /\ refused.pc = "refused" /\ refused.key = q.client /\ refused.name = q.name
          /\ refused.client = q.client /\ refused.login = refusals' /\ refused.now = q.now
      BY <1>1 DEF Local
    <2> HIDE DEF refused
    <2>2. new \in Failed
      BY <1>2, <1>4 DEF Failed
    <2>3. req'[r] = refused /\ \A s \in Request : s # r => req'[s] = req[s]
      BY <1>2, <1>4 DEF Go
    <2>4. Failure(r)' = new
      BY <2>1, <2>3 DEF Failure
    <2> HIDE DEF new
    <2>5. \A k \in Key : /\ k \in Keys(r) \ q.slipped => failed'[k] = failed[k] \cup {new}
                         /\ k \notin Keys(r) \ q.slipped => failed'[k] = failed[k]
      BY <1>4 DEF new
    <2>6. failed' \in [Key -> SUBSET Failed]
      <3>1. \A k \in Key : (IF k \in Keys(r) \ q.slipped
                              THEN failed[k] \cup {new} ELSE failed[k]) \in SUBSET Failed
        BY <1>2, <2>2
      <3> QED
        BY <1>4, <3>1 DEF new
    <2>7. Keyed(refused)
      BY <1>1, <2>1 DEF Keyed
    <2>8. ASSUME NEW k \in Key
          PROVE  Held(k)' /\ Room(k)'
      <3>1. limiter[k] \in Seq(Failed) /\ Held(k) /\ Room(k)
        BY DEF LInv
      <3>2. \A s \in Yet(k) : s \in Yet(k)' /\ Failure(s)' = Failure(s)
        BY <1>1, <2>3 DEF Yet, Unrecorded, Failure
      <3>3. May(k)' \in SUBSET (May(k) \ {r})
        BY <2>1, <2>3 DEF May, Admitted
      <3>4. CASE k \notin Keys(r) \ q.slipped
        <4>1. Counted(k)' = Counted(k)
          BY <1>2, <2>5, <3>4 DEF Counted
        <4>2. Held(k)'
          BY <1>2, <3>1, <3>2, <4>1 DEF Held
        <4>3. May(k)' \in SUBSET May(k) /\ Counted(k)' \in SUBSET Counted(k)
          BY <3>3, <4>1
        <4> QED
          BY <3>1, <4>2, <4>3, RoomStays DEF Room
      <3>5. CASE k \in Keys(r) \ q.slipped
        <4>1. Counted(k)' \in SUBSET (Counted(k) \cup {new})
          BY <1>2, <2>5, <3>5 DEF Counted
        <4>2. r \in Yet(k)'
          BY <2>1, <2>3, <3>5 DEF Yet, Unrecorded, Keys
        <4>3. Held(k)'
          BY <1>2, <2>4, <3>1, <3>2, <4>1, <4>2 DEF Held
        <4>4. r \in May(k)
          BY <1>1, <3>5 DEF May, Admitted, Keys
        <4>5. IsFiniteSet(Counted(k)) /\ Cardinality(Counted(k)) \in Nat
          BY <3>1, CountedIsFinite
        <4>6. /\ Cardinality(Counted(k)') \in Nat
              /\ Cardinality(Counted(k)') <= Cardinality(Counted(k)) + 1
          <5>1. /\ IsFiniteSet(Counted(k) \cup {new})
                /\ \/ Cardinality(Counted(k) \cup {new}) = Cardinality(Counted(k))
                   \/ Cardinality(Counted(k) \cup {new}) = Cardinality(Counted(k)) + 1
            BY <4>5, FS_AddElement, Zenon
          <5>2. Cardinality(Counted(k) \cup {new}) \in Nat
            BY <5>1, FS_CardinalityType
          <5>3. IsFiniteSet(Counted(k)') /\ Cardinality(Counted(k)') <= Cardinality(Counted(k) \cup {new})
            BY <4>1, <5>1, FS_Subset
          <5>4. Cardinality(Counted(k)') \in Nat
            BY <5>3, FS_CardinalityType
          <5> QED
            BY <4>5, <5>1, <5>2, <5>3, <5>4
        <4>7. Cardinality(May(k)') \in Nat /\ Cardinality(May(k)) \in Nat
              /\ Cardinality(May(k)') <= Cardinality(May(k)) - 1
          <5>1. May(k) \in SUBSET Request /\ May(k)' \in SUBSET Request
            BY DEF May
          <5>2. IsFiniteSet(May(k)) /\ Cardinality(May(k)) \in Nat /\ Cardinality(May(k)') \in Nat
            BY <5>1, RequestSets
          <5>3. /\ IsFiniteSet(May(k) \ {r})
                /\ Cardinality(May(k) \ {r}) = Cardinality(May(k)) - 1
            BY <4>4, <5>2, FS_RemoveElement
          <5>4. Cardinality(May(k)') <= Cardinality(May(k) \ {r})
            BY <3>3, <5>3, FS_Subset
          <5> QED
            BY <5>2, <5>3, <5>4
        <4>8. Room(k)'
          BY <3>1, <4>5, <4>6, <4>7, RequestsAreFinite DEF Room
        <4> QED
          BY <4>3, <4>8
      <3> QED
        BY <3>4, <3>5
    <2> QED
      BY <1>2, <2>3, <2>6, <2>7, <2>8 DEF LInv
  <1> QED
    BY <1>3, <1>4 DEF LookUp

\* Nothing is held against a key.
LEMMA EmptyHasRoom ==
    ASSUME NEW C, C = {}, NEW M \in SUBSET Request
    PROVE  Cardinality(C) + Cardinality(M) <= LoginMaxFailures - 1 + Cardinality(Request)
  BY RequestSets, RequestsAreFinite, FS_EmptySet

LEMMA ResetHasRoom ==
    ASSUME LInv, IInv, EInv, NEW r \in Request, Reset(r)
    PROVE  LInv'
  <1>0. PICK key \in Key : key = req[r].key
    BY UsesItsKeys DEF Reset, At
  <1> DEFINE p == IF Last(r) THEN [req[r] EXCEPT !.pc = "welcome", !.key = None] ELSE NextKey(r)
  <1>1. /\ req[r].pc = "verified" /\ req[r] \in Local /\ req[r].name \in Name /\ req[r].client \in Client
        /\ req[r].name # req[r].client
    BY UsesItsKeys DEF Reset, At
  <1>2. /\ now' = now /\ Go(r, p) /\ limiter' = [limiter EXCEPT ![key] = <<>>]
        /\ failed' = [failed EXCEPT ![key] = {}]
    BY <1>0 DEF Reset
  <1>3. /\ limiter \in [Key -> Seq(Failed)] /\ failed \in [Key -> SUBSET Failed]
        /\ req \in [Request -> Local] /\ \A s \in Request : Keyed(req[s])
    BY DEF LInv, IInv, TypeOK
  <1>4. /\ p.pc \in {"verified", "welcome"}
        /\ p.pc = "verified" => p.key = req[r].name /\ p.name = req[r].name /\ p.client = req[r].client
    BY <1>1 DEF Local, Last, NextKey
  <1> HIDE DEF p
  <1>5. Quiet(req[r], p)
    BY <1>1, <1>4 DEF Quiet, Moved, Keyed, Unrecorded, Admitted
  <1>6. req'[r] = p /\ \A s \in Request : s # r => req'[s] = req[s]
    BY <1>2, <1>3 DEF Go
  <1>7. limiter' \in [Key -> Seq(Failed)] /\ failed' \in [Key -> SUBSET Failed]
        /\ \A s \in Request : Keyed(req'[s])
    <2>1. <<>> \in Seq(Failed)
      OBVIOUS
    <2> QED
      BY <1>2, <1>3, <1>5, <1>6, <2>1 DEF Quiet, Moved
  <1>8. ASSUME NEW k \in Key, k # key
        PROVE  Held(k)' /\ Room(k)'
    <2>1. limiter[k] \in Seq(Failed) /\ Held(k) /\ Room(k)
      BY DEF LInv
    <2>2. limiter'[k] = limiter[k] /\ Counted(k)' = Counted(k)
      BY <1>2, <1>3, <1>8 DEF Counted
    <2>3. May(k)' \in SUBSET May(k) /\ Counted(k)' \in SUBSET Counted(k)
      BY <1>5, <1>6, <2>2 DEF May, Quiet
    <2>4. \A s \in Yet(k) : s \in Yet(k)' /\ Failure(s)' = Failure(s)
      BY <1>1, <1>6 DEF Yet, Unrecorded, Failure
    <2>5. Held(k)'
      BY <2>1, <2>2, <2>4 DEF Held
    <2> QED
      BY <2>1, <2>3, <2>5, RoomStays DEF Room
  <1>9. Held(key)' /\ Room(key)'
    <2>1. Counted(key)' = {}
      BY <1>2, <1>3 DEF Counted
    <2>2. May(key)' \in SUBSET Request
      BY DEF May
    <2>3. Held(key)'
      BY <2>1 DEF Held
    <2> QED
      BY <2>1, <2>2, <2>3, EmptyHasRoom DEF Room
  <1> QED
    BY <1>7, <1>8, <1>9 DEF LInv

\* The other steps of a request neither use the limiter nor end a login that may fail.
LEMMA OthersHaveRoom ==
    ASSUME LInv, IInv, EInv, NEW r \in Request, NEW p, Go(r, p),
           UNCHANGED <<limiter, failed, now>>, req[r].pc # "refused",
           p.pc \notin {"ask", "lookup", "refused", "verified"}
    PROVE  LInv'
  <1>1. /\ failed \in [Key -> SUBSET Failed] /\ now \in Nat /\ req \in [Request -> Local]
        /\ \A s \in Request : Keyed(req[s])
    BY DEF LInv, IInv, TypeOK
  <1>2. Quiet(req[r], p)
    BY DEF Quiet, Moved, Keyed, Unrecorded, Admitted
  <1>3. req'[r] = p /\ \A s \in Request : s # r => req'[s] = req[s]
    BY <1>1 DEF Go
  <1>4. \A s \in Request : Quiet(req[s], req'[s])
    BY <1>1, <1>2, <1>3 DEF Quiet, Moved
  <1> QED
    BY <1>1, <1>4, LessKeeps

LEMMA BeginLoginHasRoom ==
    ASSUME LInv, IInv, EInv, NEW r \in Request, NEW n \in Name, NEW c \in Client, NEW m \in 0..MaxChanges,
           BeginLogin(r, n, c, m)
    PROVE  LInv'
  <1> DEFINE p == [Free EXCEPT !.pc = "ask", !.name = n, !.client = c, !.key = c,
                               !.password = m, !.now = now]
  <1>1. /\ failed \in [Key -> SUBSET Failed] /\ now \in Nat /\ req \in [Request -> Local]
        /\ \A s \in Request : Keyed(req[s])
    BY DEF LInv, IInv, TypeOK
  <1>2. req[r].pc = "idle" /\ Go(r, p) /\ UNCHANGED <<limiter, failed, now>>
    BY DEF BeginLogin, At, failures
  <1>3. p.pc = "ask" /\ p.name = n /\ p.client = c /\ p.key = c /\ n # c
    BY SessionsAssumption DEF Free
  <1> HIDE DEF p
  <1>4. Quiet(req[r], p)
    BY <1>2, <1>3 DEF Quiet, Moved, Keyed, Unrecorded, Admitted
  <1>5. req'[r] = p /\ \A s \in Request : s # r => req'[s] = req[s]
    BY <1>1, <1>2 DEF Go
  <1>6. \A s \in Request : Quiet(req[s], req'[s])
    BY <1>1, <1>4, <1>5 DEF Quiet, Moved
  <1> QED
    BY <1>1, <1>2, <1>6, LessKeeps

LEMMA StepHasRoom ==
    ASSUME LInv, IInv, EInv, NEW r \in Request, Step(r)
    PROVE  LInv'
  <1>1. CASE \E n \in Name, c \in Client, m \in 0..MaxChanges : BeginLogin(r, n, c, m)
    BY <1>1, BeginLoginHasRoom
  <1>2. CASE Ask(r) \/ LookUp(r) \/ RecordFailure(r) \/ BreakOff(r) \/ Reset(r)
    BY <1>2, AskHasRoom, LookUpHasRoom, RecordFailureHasRoom, BreakOffHasRoom, ResetHasRoom
  <1>3. CASE Welcome(r)
    <2>1. req[r].pc = "welcome" /\ Go(r, [req[r] EXCEPT !.pc = "create"]) /\ UNCHANGED <<limiter, failed, now>>
      BY <1>3 DEF Welcome, At, failures
    <2>2. [req[r] EXCEPT !.pc = "create"].pc = "create"
      BY DEF IInv, TypeOK, Local
    <2> QED
      BY <2>1, <2>2, OthersHaveRoom
  <1>4. CASE CreateSession(r) \/ Drop(r) \/ RefuseCsrf(r) \/ Rename(r)
    <2>1. Go(r, Free) /\ UNCHANGED <<limiter, failed, now>> /\ req[r].pc # "refused"
      BY <1>4 DEF CreateSession, Drop, RefuseCsrf, Rename, Done, At, failures
    <2>2. Free.pc = "idle"
      BY DEF Free
    <2> QED
      BY <2>1, <2>2, OthersHaveRoom
  <1>5. CASE \E t \in Token : BeginRequest(r, t)
    <2>1. PICK t \in Token : BeginRequest(r, t)
      BY <1>5
    <2> DEFINE p == [Free EXCEPT !.pc = "check", !.token = t, !.name = sessions[t].user,
                                 !.row = [sessions[t] EXCEPT !.used = 0, !.back = FALSE],
                                 !.role = users[sessions[t].user].role]
    <2>2. UNCHANGED <<limiter, failed, now>> /\ req[r].pc = "idle" /\ (UNCHANGED req \/ Go(r, p))
      BY <2>1 DEF BeginRequest, At, failures
    <2>3. p.pc = "check"
      BY DEF Free
    <2> HIDE DEF p
    <2>4. CASE Go(r, p)
      BY <2>2, <2>3, <2>4, OthersHaveRoom
    <2>5. CASE UNCHANGED req
      <3>1. \A s \in Request : Quiet(req[s], req'[s])
        BY <2>5 DEF LInv, Quiet, Moved
      <3> QED
        BY <2>2, <3>1, LessKeeps DEF LInv, IInv, TypeOK
    <2> QED
      BY <2>2, <2>4, <2>5
  <1>6. CASE Check(r) \/ TouchSession(r)
    <2>1. \E p : Go(r, p) /\ (p \in Accepted(r) \/ p = [req[r] EXCEPT !.pc = "touch", !.now = now])
      BY <1>6 DEF Check, TouchSession
    <2>2. /\ [req[r] EXCEPT !.pc = "touch", !.now = now].pc = "touch"
          /\ \A p \in Accepted(r) : p.pc \in {"idle", "logout", "change"}
      <3>1. req[r] \in Local
        BY DEF IInv, TypeOK
      <3>2. /\ [req[r] EXCEPT !.pc = "touch", !.now = now].pc = "touch"
            /\ [req[r] EXCEPT !.pc = "change"].pc = "change"
        BY <3>1 DEF Local
      <3>3. /\ Free.pc = "idle"
            /\ [Free EXCEPT !.pc = "logout", !.token = req[r].token].pc = "logout"
        BY DEF Free
      <3>4. \A p \in Accepted(r) : \/ p = Free
                                  \/ p = [Free EXCEPT !.pc = "logout", !.token = req[r].token]
                                  \/ p = [req[r] EXCEPT !.pc = "change"]
        BY DEF Accepted
      <3> QED
        BY <3>2, <3>3, <3>4, Zenon
    <2>3. UNCHANGED <<limiter, failed, now>> /\ req[r].pc # "refused"
      BY <1>6 DEF Check, TouchSession, At, failures
    <2> QED
      BY <2>1, <2>2, <2>3, OthersHaveRoom
  <1>7. CASE FindTooOld(r) \/ AssignGroup(r)
    <2>1. /\ Go(r, [req[r] EXCEPT !.pc = "drop"]) \/ Go(r, [req[r] EXCEPT !.pc = "rename"])
          /\ UNCHANGED <<limiter, failed, now>> /\ req[r].pc # "refused"
      BY <1>7 DEF FindTooOld, AssignGroup, At, failures
    <2>2. [req[r] EXCEPT !.pc = "drop"].pc = "drop" /\ [req[r] EXCEPT !.pc = "rename"].pc = "rename"
      BY DEF IInv, TypeOK, Local
    <2> QED
      BY <2>1, <2>2, OthersHaveRoom
  <1> QED
    BY <1>1, <1>2, <1>3, <1>4, <1>5, <1>6, <1>7 DEF Step, UpdateDevice

LEMMA TickHasRoom ==
    ASSUME LInv, IInv, Tick \/ Start \/ UNCHANGED vars
    PROVE  LInv'
  <1>1. /\ failed \in [Key -> SUBSET Failed] /\ now \in Nat /\ now' \in Nat /\ now <= now'
        /\ limiter' = limiter /\ req' = req
    BY DEF LInv, IInv, TypeOK, Tick, Start, vars, failures
  <1>2. failed' \in [Key -> SUBSET Failed] /\ \A k \in Key : failed'[k] \subseteq failed[k]
    <2>1. CASE Tick
      <3>1. failed' = [k \in Key |-> {f \in failed[k] : now' - f.at < LoginWindow}]
        BY <2>1 DEF Tick
      <3> QED
        BY <1>1, <3>1
    <2>2. CASE Start \/ UNCHANGED vars
      BY <1>1, <2>2 DEF Start, vars, failures
    <2> QED
      BY <2>1, <2>2
  <1>3. \A s \in Request : Quiet(req[s], req'[s])
    BY <1>1 DEF LInv, Quiet, Moved
  <1> QED
    BY <1>1, <1>2, <1>3, LessKeeps

LEMMA SetPasswordHasRoom ==
    ASSUME LInv, IInv, NEW u \in User, NEW role \in Role, SetPassword(u, role)
    PROVE  LInv'
  <1>1. /\ failed \in [Key -> SUBSET Failed] /\ now \in Nat /\ UNCHANGED <<limiter, failed, now>>
        /\ req \in [Request -> Local] /\ \A s \in Request : Keyed(req[s])
    BY DEF LInv, IInv, TypeOK, SetPassword, failures
  <1>2. ASSUME NEW s \in Request
        PROVE  Quiet(req[s], req'[s])
    <2>1. req'[s] = [req[s] EXCEPT !.changed = req[s].pc # "idle"]
      BY DEF SetPassword
    <2>2. /\ req'[s].pc = req[s].pc /\ req'[s].name = req[s].name /\ req'[s].client = req[s].client
          /\ req'[s].key = req[s].key /\ req'[s].login = req[s].login /\ req'[s].now = req[s].now
          /\ req'[s].slipped = req[s].slipped
      BY <1>1, <2>1 DEF Local
    <2> QED
      BY <1>1, <2>2 DEF Quiet, Moved, Keyed, Unrecorded, Admitted
  <1> QED
    BY <1>1, <1>2, LessKeeps

\* The limiter of a new process.
LEMMA NoneHasRoom ==
    ASSUME limiter = NoFailures, failed = NoLogins, req = [r \in Request |-> Free]
    PROVE  LInv
  <1>1. limiter \in [Key -> Seq(Failed)] /\ failed \in [Key -> SUBSET Failed]
    <2>1. <<>> \in Seq(Failed)
      OBVIOUS
    <2> QED
      BY <2>1 DEF NoFailures, NoLogins
  <1>2. \A r \in Request : Keyed(req[r])
    BY DEF Keyed, Free
  <1>3. ASSUME NEW k \in Key
        PROVE  Held(k) /\ Room(k)
    <2>1. Counted(k) = {} /\ May(k) \in SUBSET Request
      BY DEF Counted, NoLogins, May
    <2> QED
      BY <2>1, EmptyHasRoom DEF Held, Room
  <1> QED
    BY <1>1, <1>2, <1>3 DEF LInv

LEMMA StopHasRoom == Stop => LInv'
  <1>1. Stop => (limiter = NoFailures /\ failed = NoLogins /\ req = [r \in Request |-> Free])'
    BY DEF Stop, NoFailures, NoLogins, Free
  <1>2. (limiter = NoFailures /\ failed = NoLogins /\ req = [r \in Request |-> Free]) => LInv
    BY NoneHasRoom
  <1> QED
    BY <1>1, <1>2, PTL

LEMMA NextHasRoom == IInv /\ EInv /\ LInv /\ [Next]_vars => LInv'
  BY TickHasRoom, StopHasRoom, SetPasswordHasRoom, StepHasRoom DEF Next

\* For any number of threads, names, clients and logins, the limit and the window:
\* the logins of a client or a name that failed in a window, and that no race lost
\* or let in, are less than the limit and the threads together (is_locked,
\* record_failure, login).
THEOREM FailuresBounded == Spec => []FailuresAreBounded
  <1>1. Init => LInv
    BY NoneHasRoom DEF Init
  <1>2. LInv => FailuresAreBounded
    <2> SUFFICES ASSUME LInv, NEW k \in Key
                 PROVE  Cardinality(Counted(k)) <= LoginMaxFailures - 1 + Cardinality(Request)
      BY DEF FailuresAreBounded, Counted
    <2>1. Room(k) /\ Held(k) /\ limiter[k] \in Seq(Failed) /\ May(k) \in SUBSET Request
      BY DEF LInv, May
    <2>2. Cardinality(Counted(k)) \in Nat /\ Cardinality(May(k)) \in Nat
      BY <2>1, CountedIsFinite, RequestSets
    <2> QED
      BY <2>1, <2>2, RequestsAreFinite DEF Room
  <1> QED
    BY <1>1, <1>2, InitIsBacked, NextKeeps, InitKeepsRows, NextKeepsRows, NextHasRoom, PTL DEF Spec
=============================================================================
