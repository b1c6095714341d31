------------------------------ MODULE Sessions ------------------------------
(***************************************************************************)
(* Dashboard sessions: login, logout and the session check of every request *)
(* (api/auth.py) with the login limiter (core/auth.py), over the users and *)
(* sessions of storage/dashboard.py, beside `auth set-password` (cli.py)   *)
(* in a process of its own and a server that may stop and start.           *)
(*                                                                         *)
(* Routes run in a pool of threads: a request goes step by step, one step  *)
(* for each transaction or use of the limiter.  A session is known by its  *)
(* token, a password by the number of the change that set it.              *)
(***************************************************************************)
EXTENDS Integers, Sequences, FiniteSets

CONSTANTS
    Request,      \* threads that serve requests
    Name,         \* names that log in
    User,         \* ... and have an account
    Client,       \* client addresses
    Idle,         \* session_idle
    Absolute,     \* session_absolute
    TouchEvery,   \* _TOUCH_EVERY
    LoginMaxFailures, LoginWindow,  \* of LoginRateLimiter
    Token,        \* session tokens, used again when all have forgotten them (a bound)
    None,         \* no session, no row
    MaxTime, MaxLogins, MaxChanges,  \* bounds
    MaxSpan       \* how long a request takes at most, once it has the time (a bound)

Role == {"admin", "viewer"}

\* A row of the sessions table, with its history (CreateSession).
Session ==
    [user: User, created: Nat, seen: Nat, password: 0..MaxChanges, overtaken: BOOLEAN,
     used: Nat, back: BOOLEAN]

ASSUME SessionsAssumption ==
    /\ TouchEvery \in Nat \ {0} /\ Idle \in Nat /\ Absolute \in Nat /\ TouchEvery <= Idle /\ None \notin Token
    /\ LoginMaxFailures \in Nat \ {0} /\ LoginWindow \in Nat \ {0}
    /\ IsFiniteSet(Request) /\ User \subseteq Name /\ Name \cap Client = {} /\ None \notin Name \cup Client \cup Session
    /\ MaxTime \in Nat /\ MaxLogins \in Nat /\ MaxChanges \in Nat

VARIABLES
    now,
    users, sessions,  \* the tables
    up,               \* the server runs
    limiter,          \* the failed logins it holds, by client and by name
    req,              \* the requests, with their local variables
    \* history: the threads another one disturbed in the limiter; by key the logins of
    \* the window that failed since one succeeded, less those a race hid from it; how
    \* many failed
    disturbed, failed, refusals,
    \* bounds
    logins, changes

counters == <<logins, refusals, changes>>
failures == <<limiter, disturbed, failed>>
vars == <<now, users, sessions, up, failures, req, counters>>

Key == Name \cup Client

\* key is the one it uses the limiter under next, now the time it took, row what it
\* read of its session.  History: the number of the failed login, the keys a race let
\* it in under, and whether an account was set while it was under way.
Free == [pc |-> "idle", name |-> None, client |-> None, key |-> None, login |-> 0,
         slipped |-> {}, password |-> 0, now |-> 0, token |-> None, row |-> None,
         role |-> "viewer", changed |-> FALSE]

\* The stages at which a request has taken the time.
Dated == {"ask", "lookup", "refused", "verified", "welcome", "create", "touch"}

NoFailures == [k \in Key |-> <<>>]
NoLogins == [k \in Key |-> {}]

Init ==
    /\ now = 0 /\ up = TRUE
    /\ users \in {f \in [User -> [password : {0}, role : Role]] : \E u \in User : f[u].role = "admin"}
    /\ sessions = [t \in Token |-> None]
    /\ limiter = NoFailures /\ req = [r \in Request |-> Free]
    /\ disturbed = {} /\ failed = NoLogins
    /\ logins = 0 /\ refusals = 0 /\ changes = 0

Tick ==
    /\ now < MaxTime
    /\ \A r \in Request : req[r].pc \in Dated => now - req[r].now < MaxSpan
    /\ now' = now + 1
    /\ failed' = [k \in Key |-> {f \in failed[k] : now' - f.at < LoginWindow}]
    /\ UNCHANGED <<users, sessions, up, limiter, disturbed, req, counters>>

Go(r, fields) == req' = [req EXCEPT ![r] = fields]
Done(r) == Go(r, Free)
At(r, pc) == up /\ req[r].pc = pc

\* Rows of the sessions table that go in one DELETE.
Without(gone) == [t \in Token |-> IF t \in gone THEN None ELSE sessions[t]]
Rows == {t \in Token : sessions[t] # None}

-----------------------------------------------------------------------------
(* LoginRateLimiter.  Its deques hold the times of failed logins; here each *)
(* carries the number of its login.                                        *)

Entries(times) == {times[i] : i \in DOMAIN times}

\* _recent drops expired times from the left, up to the first that is not.
Stale(times, t) ==
    Cardinality({i \in DOMAIN times : \A j \in 1..i : t - times[j].at >= LoginWindow})
Recent(times, t) == SubSeq(times, Stale(times, t) + 1, Len(times))

\* Mutant: one more.
IsLockedLate(times, t) == Len(Recent(times, t)) > LoginMaxFailures

IsLocked(times, t) == Len(Recent(times, t)) >= LoginMaxFailures

Keys(r) == {req[r].client, req[r].name}
Last(r) == req[r].key = req[r].name
NextKey(r) == [req[r] EXCEPT !.key = req[r].name]
Failure(r) == [login |-> req[r].login, at |-> req[r].now]

\* A request is, or will be next, in a method of the limiter.
Using(r, k) == up /\ req[r].pc \in {"ask", "refused", "verified"} /\ req[r].key = k

\* The deque of the key is about to lose its first times, or is empty between the
\* setdefault and the append of record_failure.
Unsettled(k) ==
    IF limiter[k] = <<>> THEN \E s \in Request : Using(s, k) /\ req[s].pc = "refused"
    ELSE now - limiter[k][1].at >= LoginWindow

\* The methods take no lock: another thread is in the limiter under the same key,
\* or went through it while this one was there.
Contended(r) ==
    \/ r \in disturbed
    \/ Unsettled(req[r].key) /\ \E s \in Request \ {r} : Using(s, req[r].key)

Disturb(r, unsettled) ==
    disturbed' = (disturbed \ {r}) \cup
        (IF unsettled THEN {s \in Request \ {r} : Using(s, req[r].key)} ELSE {})

\* What _recent leaves of the deque.  Two threads that found the same time expired
\* drop one each, and the one that finds its deque empty removes the key, whatever
\* another has put under it since.
Left(r) ==
    LET times == limiter[req[r].key]
    IN IF Contended(r) THEN {SubSeq(times, i, Len(times)) : i \in 1..(Len(times) + 1)}
       ELSE {Recent(times, req[r].now)}

\* A use of the limiter that leaves left and adds added; own are the keys under which
\* it will not know of this login.
Use(r, left, added, own) ==
    LET k == req[r].key
    IN /\ limiter' = [limiter EXCEPT ![k] = left \o added]
       /\ failed' = [j \in Key |-> failed[j]
              \ ((IF j = k THEN Entries(Recent(limiter[k], req[r].now)) \ Entries(left) ELSE {})
                 \cup (IF j \in own THEN {Failure(r)} ELSE {}))]
       /\ Disturb(r, Unsettled(k))

-----------------------------------------------------------------------------
(* POST /auth/login.                                                       *)

BeginLogin(r, name, client, password) ==
    /\ At(r, "idle") /\ logins < MaxLogins
    /\ logins' = logins + 1
    /\ Go(r, [Free EXCEPT !.pc = "ask", !.name = name, !.client = client, !.key = client,
                          !.password = password, !.now = now])
    /\ UNCHANGED <<now, users, sessions, up, failures, refusals, changes>>

\* is_locked, at the time the request began.  In a race it may count a deque that is
\* no longer there, and let in a login that it should have refused.
Ask(r) ==
    /\ At(r, "ask")
    /\ LET locked == IsLocked(limiter[req[r].key], req[r].now)
       IN \E left \in Left(r), refuse \in BOOLEAN :
          /\ refuse = locked \/ Contended(r)
          /\ Use(r, left, <<>>, {})
          /\ \/ refuse /\ Done(r)
             \/ /\ ~refuse
                /\ LET next == IF Last(r) THEN [req[r] EXCEPT !.pc = "lookup", !.key = None]
                               ELSE NextKey(r)
                   IN Go(r, [next EXCEPT !.slipped = IF locked THEN @ \cup {req[r].key} ELSE @])
    /\ UNCHANGED <<now, users, sessions, up, counters>>

\* The hash of a password verifies that password only.
VerifyPassword(password, record) == password = record.password

\* The row of the account, if there is one.
GetUser(name) == IF name \in User THEN users[name] ELSE None

\* get_user, then verify_password on what was read (or on a dummy hash): without
\* both the login has failed.
LookUp(r) ==
    /\ At(r, "lookup")
    /\ LET user == GetUser(req[r].name)
           valid == user # None /\ VerifyPassword(req[r].password, user)
           ended == [req[r] EXCEPT !.key = req[r].client, !.slipped = {}]
       IN \/ /\ valid
             /\ Go(r, [ended EXCEPT !.pc = "verified"])
             /\ UNCHANGED <<failed, refusals>>
          \/ /\ ~valid
             /\ refusals' = refusals + 1
             /\ Go(r, [ended EXCEPT !.pc = "refused", !.password = 0, !.login = refusals'])
             /\ failed' = [k \in Key |-> IF k \in Keys(r) \ req[r].slipped
                              THEN failed[k] \cup {[login |-> refusals', at |-> req[r].now]}
                              ELSE failed[k]]
    /\ UNCHANGED <<now, users, sessions, up, limiter, disturbed, logins, changes>>

\* record_failure, at the time the request began.  In a race the append may go to a
\* deque that is no longer there.
RecordFailure(r) ==
    /\ At(r, "refused")
    /\ \E left \in Left(r) :
          \/ Use(r, left, <<Failure(r)>>, {})
          \/ Contended(r) /\ Use(r, left, <<>>, {req[r].key})
    /\ Go(r, IF Last(r) THEN Free ELSE NextKey(r))
    /\ UNCHANGED <<now, users, sessions, up, counters>>

\* In a race _recent may drop a time or remove a key that has just gone: an error
\* ends the request, and a failure is not recorded, under the next key either.
BreakOff(r) ==
    /\ At(r, "ask") \/ At(r, "refused")
    /\ Contended(r)
    /\ \E left \in Left(r) :
          Use(r, left, <<>>, IF At(r, "refused") THEN {req[r].key, req[r].name} ELSE {})
    /\ Done(r)
    /\ UNCHANGED <<now, users, sessions, up, counters>>

\* The limiter forgets a key.
Reset(r) ==
    /\ At(r, "verified")
    /\ LET k == req[r].key
       IN /\ limiter' = [limiter EXCEPT ![k] = <<>>]
          /\ failed' = [failed EXCEPT ![k] = {}]
          /\ Disturb(r, limiter[k] # <<>> \/ Unsettled(k))
    /\ Go(r, IF Last(r) THEN [req[r] EXCEPT !.pc = "welcome", !.key = None] ELSE NextKey(r))
    /\ UNCHANGED <<now, users, sessions, up, counters>>

\* delete_expired_sessions.
Expired(t) ==
    {k \in Rows : sessions[k].seen < t - Idle \/ sessions[k].created < t - Absolute}

\* The expired sessions go.
Welcome(r) ==
    /\ At(r, "welcome")
    /\ sessions' = Without(Expired(req[r].now))
    /\ Go(r, [req[r] EXCEPT !.pc = "create"])
    /\ UNCHANGED <<now, users, up, failures, counters>>

\* new_token: one that no session and no request has.
NewToken == {t \in Token : sessions[t] = None /\ \A q \in Request : req[q].token # t}

\* create_session, under a new token: the row carries the time the login began.
\* History: the password it verified, whether that was overtaken, the last use, and
\* whether the time in the row was set back.
CreateSession(r) ==
    /\ At(r, "create")
    /\ \E t \in NewToken :
          sessions' = [sessions EXCEPT ![t] =
              [user |-> req[r].name, created |-> req[r].now, seen |-> req[r].now,
               password |-> req[r].password, overtaken |-> req[r].changed,
               used |-> req[r].now, back |-> FALSE]]
    /\ Done(r)
    /\ UNCHANGED <<now, users, up, failures, counters>>

-----------------------------------------------------------------------------
(* current_session, and what needs it.                                     *)

\* get_session joins the account: the role is the one it has now.
BeginRequest(r, t) ==
    /\ At(r, "idle")
    /\ IF sessions[t] = None THEN UNCHANGED req
       ELSE Go(r, [Free EXCEPT !.pc = "check", !.token = t,
                               !.name = sessions[t].user,
                               !.row = [sessions[t] EXCEPT !.used = 0, !.back = FALSE],
                               !.role = users[sessions[t].user].role])
    /\ UNCHANGED <<now, users, sessions, up, failures, counters>>

TooOld(row, t) == t - row.seen >= Idle \/ t - row.created >= Absolute

\* Where a request that has its session may go: it reads, logs out or changes a
\* device, which require_admin guards.
Accepted(r) ==
    {Free, [Free EXCEPT !.pc = "logout", !.token = req[r].token]}
        \cup (IF req[r].role = "admin" THEN {[req[r] EXCEPT !.pc = "change"]} ELSE {})

\* UPDATE finds no row when the session is gone.
Update(t, session) ==
    sessions' = IF sessions[t] = None THEN sessions ELSE [sessions EXCEPT ![t] = session]
Later(a, b) == IF a > b THEN a ELSE b

Check(r) ==
    /\ At(r, "check") /\ ~TooOld(req[r].row, now)
    /\ IF now - req[r].row.seen >= TouchEvery
       THEN Go(r, [req[r] EXCEPT !.pc = "touch", !.now = now]) /\ UNCHANGED sessions
       ELSE /\ \E next \in Accepted(r) : Go(r, next)
            /\ Update(req[r].token, [sessions[req[r].token] EXCEPT !.used = Later(@, now)])
    /\ UNCHANGED <<now, users, up, failures, counters>>

\* A change or a logout without the session's CSRF token: 403, untouched.
RefuseCsrf(r) ==
    /\ At(r, "check") /\ ~TooOld(req[r].row, now)
    /\ Done(r)
    /\ UNCHANGED <<now, users, sessions, up, failures, counters>>

\* Mutant: the time of the last use stays in memory.
TouchInMemory(r) ==
    /\ At(r, "touch")
    /\ Update(req[r].token, [sessions[req[r].token] EXCEPT !.used = Later(@, req[r].now)])
    /\ \E next \in Accepted(r) : Go(r, next)
    /\ UNCHANGED <<now, users, up, failures, counters>>

TouchSession(r) ==
    /\ At(r, "touch")
    /\ LET t == req[r].token
           row == sessions[t]
       IN Update(t, [row EXCEPT !.seen = req[r].now, !.used = Later(@, req[r].now),
                                !.back = @ \/ req[r].now < row.seen])
    /\ \E next \in Accepted(r) : Go(r, next)
    /\ UNCHANGED <<now, users, up, failures, counters>>

FindTooOld(r) ==
    /\ At(r, "check") /\ TooOld(req[r].row, now)
    /\ Go(r, [req[r] EXCEPT !.pc = "drop"])
    /\ UNCHANGED <<now, users, sessions, up, failures, counters>>

\* delete_session: of a session that is too old, or of the one that logs out.
Drop(r) ==
    /\ At(r, "drop") \/ At(r, "logout")
    /\ sessions' = Without({req[r].token})
    /\ Done(r)
    /\ UNCHANGED <<now, users, up, failures, counters>>

\* The group, ...
AssignGroup(r) ==
    /\ At(r, "change")
    /\ Go(r, [req[r] EXCEPT !.pc = "rename"])
    /\ UNCHANGED <<now, users, sessions, up, failures, counters>>

\* ... then the name, in a transaction of its own.
Rename(r) ==
    /\ At(r, "change") \/ At(r, "rename")
    /\ Done(r)
    /\ UNCHANGED <<now, users, sessions, up, failures, counters>>

\* update_device, behind require_admin: the body may name no group or no name, and
\* the request ends at once for an unknown device or group.
UpdateDevice(r) == AssignGroup(r) \/ Rename(r)

-----------------------------------------------------------------------------
(* auth set-password, and the server.                                      *)

\* Mutant: the sessions go only with a change of role.
SetUserKeeps(u, role, password) ==
    /\ users' = [users EXCEPT ![u] = [password |-> password, role |-> role]]
    /\ sessions' = IF role = users[u].role THEN sessions
                   ELSE Without({t \in Rows : sessions[t].user = u})

\* set_user: the account and its sessions, in one transaction.
SetUser(u, role, password) ==
    /\ users' = [users EXCEPT ![u] = [password |-> password, role |-> role]]
    /\ sessions' = Without({t \in Rows : sessions[t].user = u})

\* A name, a password or a configuration that is refused ends the command before
\* it opens the store.
SetPassword(u, role) ==
    /\ changes < MaxChanges
    /\ changes' = changes + 1
    /\ SetUser(u, role, changes')
    /\ req' = [r \in Request |-> [req[r] EXCEPT !.changed = req[r].pc # "idle"]]
    /\ UNCHANGED <<now, up, failures, logins, refusals>>

\* The requests under way and the limiter go with the process.
Stop ==
    /\ up
    /\ up' = FALSE
    /\ limiter' = NoFailures /\ req' = [r \in Request |-> Free]
    /\ disturbed' = {} /\ failed' = NoLogins
    /\ UNCHANGED <<now, users, sessions, counters>>

\* serve refuses to start without an administrator (before that, with settings or
\* a configuration in error: no step).  The limiter is a new one.
Start ==
    /\ ~up /\ \E u \in User : users[u].role = "admin"
    /\ up' = TRUE
    /\ UNCHANGED <<now, users, sessions, failures, req, counters>>

-----------------------------------------------------------------------------

Step(r) ==
    \/ \E name \in Name, c \in Client, p \in 0..MaxChanges : BeginLogin(r, name, c, p)
    \/ Ask(r) \/ LookUp(r) \/ RecordFailure(r) \/ BreakOff(r) \/ Reset(r) \/ Welcome(r) \/ CreateSession(r)
    \/ \E t \in Token : BeginRequest(r, t)
    \/ Check(r) \/ RefuseCsrf(r) \/ TouchSession(r) \/ FindTooOld(r) \/ Drop(r)
    \/ UpdateDevice(r)

Next ==
    \/ Tick \/ Stop \/ Start
    \/ \E u \in User, role \in Role : SetPassword(u, role)
    \/ \E r \in Request : Step(r)

Spec == Init /\ [][Next]_vars

-----------------------------------------------------------------------------
(***************************************************************************)
(* Properties.                                                             *)
(***************************************************************************)

\* In a window no client and no name has more failed logins, since one succeeded or
\* the server started, than the limit less one and one for each thread: all may be
\* past is_locked before any of them records its failure.  Not counted are those
\* that a race of two threads in the limiter lost or let in.  (The class promises
\* less: "At most max_failures failed logins per key in a sliding window",
\* core/auth.py.)
FailuresAreBounded ==
    \A k \in Key :
        Cardinality({f \in failed[k] : now - f.at < LoginWindow})
            <= LoginMaxFailures - 1 + Cardinality(Request)

\* Each of the changes of a request is made by an account that is an administrator, in a session begun
\* with its present password, unless the account was set while that request or
\* the login before it was under way ("existing sessions revoked", cli.py).
ChangesAreBacked ==
    [][\A r \in Request : req[r].pc \in {"change", "rename"} /\ req'[r].pc # req[r].pc /\ up' =>
          \/ req[r].changed \/ req[r].row.overtaken
          \/ users[req[r].name] = [password |-> req[r].row.password, role |-> "admin"]]_vars

\* A session ends by a logout, a change of its account, its absolute age or an
\* idle time: never sooner than Idle - TouchEvery after its last use, unless a
\* thread decided on what it had read before that use, or set the time of the
\* last use back (current_session).
SessionsEndForCause ==
    [][\A t \in Token : sessions[t] # None /\ sessions'[t] = None =>
          \/ users' # users
          \/ \E r \in Request : req[r].pc = "logout" /\ req[r].token = t
          \/ now - sessions[t].created >= Absolute
          \/ now - sessions[t].used > Idle - TouchEvery
          \/ sessions[t].back
          \/ \E r \in Request : req[r].pc = "drop" /\ req[r].token = t
                                /\ req[r].row.seen # sessions[t].seen]_vars
=============================================================================
