------------------------------ MODULE Sessions ------------------------------
(***************************************************************************)
(* The sessions of one user, and the columns of the user's row that        *)
(* signing in and out depends on.                                          *)
(*   src/src/auth/auth.service.ts, src/src/users/users.service.ts          *)
(*   src/src/auth/strategies/jwt.strategy.ts                               *)
(* A handler loads the user's row or a session, checks it, and then does   *)
(* its writes one by one, without a transaction.  Saving a row writes all  *)
(* columns of the loaded copy that differ from the row as it then is.      *)
(* Mails, the audit log, other users and names are left out.               *)
(***************************************************************************)
EXTENDS Naturals, Sequences, FiniteSets

CONSTANTS
    Requests,           \* requests to the server at one time
    MaxFailedAttempts,  \* MAX_FAILED_ATTEMPTS
    MaxSessions,        \* bound: sessions
    MaxServed           \* bound: requests

ASSUME SessionsAssumption ==
    MaxFailedAttempts \in Nat \ {0} /\ MaxSessions \in Nat /\ MaxServed \in Nat

VARIABLES
    user,       \* the row of the user
    sessions,   \* the user's sessions, oldest first
    handler,    \* what each request has loaded and has yet to do
    served,     \* how many requests there have been
    disturbed,  \* whether a request was cut short, or wrote after others
                \* changed what it had loaded
    endedAt     \* the request that last ended all sessions

sessionVars == <<user, sessions, handler, served, disturbed, endedAt>>

-----------------------------------------------------------------------------
\* A date in a row is absent, still to come or past.
Date == {"none", "ahead", "past"}

User == [active : BOOLEAN, version : Nat, password : Nat, failed : Nat, lockedUntil : Date,
         otp : Date, reset : Date \cup {"used"}, twoFactor : BOOLEAN]

\* age: whether the session has not been used for seven days, or has expired.
\* login: the request that signed the user in.
Session == [version : Nat, login : Nat, revoked : BOOLEAN, age : {"young", "idle", "expired"}]

Writes == {"save", "otp", "revokeAll", "revoke", "load", "issue"}

\* ends: whether the request is meant to end all sessions there are.
Handler == [todo : Seq(Writes), row : User, session : Nat, login : Nat,
            ends : BOOLEAN, fresh : BOOLEAN]

NewUser == [active |-> TRUE, version |-> 0, password |-> 0, failed |-> 0,
            lockedUntil |-> "none", otp |-> "none", reset |-> "none", twoFactor |-> FALSE]

IdleHandler == [todo |-> <<>>, row |-> NewUser, session |-> 0, login |-> 0,
         ends |-> FALSE, fresh |-> TRUE]

HandlerIsIdle(h) == h.todo = <<>>

ReadyToServe(c) == HandlerIsIdle(handler[c]) /\ served < MaxServed

Starts(c, todo, row, i, login, ends) ==
    /\ handler' = [handler EXCEPT ![c] = [IdleHandler EXCEPT !.todo = todo, !.row = row,
                        !.session = i, !.login = login, !.ends = ends]]
    /\ served' = served + 1
    /\ UNCHANGED <<user, sessions, disturbed, endedAt>>

\* The access token of a session is accepted: jwt.strategy.ts
Usable(s) ==
    user.active /\ s.version = user.version /\ ~s.revoked /\ s.age # "expired"

-----------------------------------------------------------------------------
(***************************************************************************)
(* Handlers up to their first write.                                       *)
(***************************************************************************)
SignsIn(c, row) == Starts(c, <<"save", "load", "issue">>, row, 0, served + 1, FALSE)

LoginWithRightPassword(c) ==
    LET row == [user EXCEPT !.failed = 0, !.lockedUntil = "none"] IN
    /\ user.lockedUntil # "ahead" /\ user.active
    /\ IF user.twoFactor THEN Starts(c, <<"save", "otp">>, row, 0, 0, FALSE)
       ELSE SignsIn(c, row)

LoginWithWrongPassword(c) ==
    LET failed == user.failed + 1
        row == [user EXCEPT !.failed = failed]
    IN
    /\ user.lockedUntil # "ahead"
    /\ IF failed >= MaxFailedAttempts
       THEN Starts(c, <<"revokeAll", "save">>,
                   [row EXCEPT !.lockedUntil = "ahead", !.version = @ + 1], 0, 0, TRUE)
       ELSE Starts(c, <<"save">>, row, 0, 0, FALSE)

ValidateOTP(c) ==
    /\ user.otp = "ahead"
    /\ SignsIn(c, [user EXCEPT !.otp = "past"])

RequestPasswordReset(c) ==
    /\ Starts(c, <<"save">>, [user EXCEPT !.reset = "ahead"], 0, 0, FALSE)

ResetPassword(c) ==
    /\ user.reset = "ahead"
    /\ Starts(c, <<"save", "revokeAll">>,
              [user EXCEPT !.reset = "used", !.version = @ + 1, !.password = @ + 1], 0, 0, TRUE)

\* The user needs a session to do so.
SomeUsable == \E i \in DOMAIN sessions : Usable(sessions[i])

ChangePassword(c) ==
    /\ SomeUsable
    /\ Starts(c, <<"save", "revokeAll">>,
              [user EXCEPT !.version = @ + 1, !.password = @ + 1], 0, 0, TRUE)

LogoutAll(c) ==
    /\ SomeUsable
    /\ Starts(c, <<"save", "revokeAll">>, [user EXCEPT !.version = @ + 1], 0, 0, TRUE)

\* An administrator's reset ends access tokens and leaves sessions.
AdminResetPassword(c) ==
    /\ Starts(c, <<"save">>, [user EXCEPT !.version = @ + 1, !.password = @ + 1], 0, 0, FALSE)

UpdateUser(c, active) ==
    /\ Starts(c, <<"save">>, [user EXCEPT !.active = active], 0, 0, FALSE)

Logout(c, i) ==
    /\ ~sessions[i].revoked
    /\ Starts(c, <<"revoke">>, user, i, 0, FALSE)

RevokeSession(c, i) == SomeUsable /\ Logout(c, i)

\* Mutant: the session that is refreshed stays.
RefreshToken_Kept(c, i) ==
    /\ ~sessions[i].revoked /\ sessions[i].age = "young"
    /\ Starts(c, <<"load", "issue">>, user, i, sessions[i].login, FALSE)

\* A token that was used before ends all sessions.
RefreshToken(c, i) ==
    LET s == sessions[i] IN
    /\ s.revoked \/ s.age # "expired"
    /\ Starts(c,
              IF s.revoked THEN <<"revokeAll">>
              ELSE IF s.age = "idle" THEN <<"revoke">>
              ELSE <<"revoke", "load", "issue">>,
              user, i, s.login, s.revoked)

-----------------------------------------------------------------------------
(***************************************************************************)
(* The writes of a handler, in its order.                                  *)
(***************************************************************************)
Does(c, what) == handler[c].todo # <<>> /\ Head(handler[c].todo) = what

Rest(c) ==
    IF Len(handler[c].todo) = 1 THEN IdleHandler ELSE [handler[c] EXCEPT !.todo = Tail(@)]

\* The others have stale copies now.
Done(c, rest) ==
    /\ handler' = [d \in Requests |->
                    IF d = c THEN rest
                    ELSE IF HandlerIsIdle(handler[d]) THEN IdleHandler ELSE [handler[d] EXCEPT !.fresh = FALSE]]
    /\ disturbed' = (disturbed \/ ~handler[c].fresh)
    /\ endedAt' = IF handler[c].ends /\ rest = IdleHandler THEN served ELSE endedAt
    /\ UNCHANGED served

SaveUser(c) ==
    /\ Does(c, "save")
    /\ user' = handler[c].row
    /\ Done(c, Rest(c))
    /\ UNCHANGED sessions

SendOTP(c) ==
    /\ Does(c, "otp")
    /\ user' = [handler[c].row EXCEPT !.otp = "ahead"]
    /\ Done(c, Rest(c))
    /\ UNCHANGED sessions

RevokeAllSessions(c) ==
    /\ Does(c, "revokeAll")
    /\ sessions' = [i \in DOMAIN sessions |-> [sessions[i] EXCEPT !.revoked = TRUE]]
    /\ Done(c, Rest(c))
    /\ UNCHANGED user

SaveSession(c) ==
    /\ Does(c, "revoke")
    /\ sessions' = [sessions EXCEPT ![handler[c].session].revoked = TRUE]
    /\ Done(c, Rest(c))
    /\ UNCHANGED user

\* The user is loaded again; refreshing ends here for one who is not active.
LoadUser(c) ==
    /\ Does(c, "load")
    /\ handler[c].session # 0 => user.active
    /\ handler' = [handler EXCEPT ![c] = [Rest(c) EXCEPT !.row = user]]
    /\ UNCHANGED <<user, sessions, served, disturbed, endedAt>>

IssueTokenPair(c) ==
    /\ Does(c, "issue")
    /\ Len(sessions) < MaxSessions
    /\ sessions' = Append(sessions, [version |-> handler[c].row.version, login |-> handler[c].login,
                                     revoked |-> FALSE, age |-> "young"])
    /\ Done(c, Rest(c))
    /\ UNCHANGED user

\* The process or the connection ends between two writes.
AbortHandler(c) ==
    /\ ~HandlerIsIdle(handler[c])
    /\ handler' = [handler EXCEPT ![c] = IdleHandler]
    /\ disturbed' = TRUE
    /\ UNCHANGED <<user, sessions, served, endedAt>>

-----------------------------------------------------------------------------
Passes(date) == IF date = "ahead" THEN "past" ELSE date

\* Locks, one-time passwords and reset tokens run out.
DatesPass ==
    /\ \E column \in {"lockedUntil", "otp", "reset"} :
        /\ user[column] = "ahead"
        /\ user' = [user EXCEPT ![column] = Passes(@)]
    /\ UNCHANGED <<sessions, handler, served, disturbed, endedAt>>

SessionAges(i) ==
    /\ ~sessions[i].revoked /\ sessions[i].age # "expired"
    /\ sessions' = [sessions EXCEPT ![i].age = IF @ = "young" THEN "idle" ELSE "expired"]
    /\ UNCHANGED <<user, handler, served, disturbed, endedAt>>

SessionsInit ==
    /\ user \in {[NewUser EXCEPT !.twoFactor = b] : b \in BOOLEAN}
    /\ sessions = <<>>
    /\ handler = [c \in Requests |-> IdleHandler]
    /\ served = 0 /\ disturbed = FALSE /\ endedAt = 0

Start(c) ==
    /\ ReadyToServe(c)
    /\ \/ LoginWithRightPassword(c) \/ LoginWithWrongPassword(c) \/ ValidateOTP(c)
       \/ RequestPasswordReset(c) \/ ResetPassword(c) \/ ChangePassword(c)
       \/ LogoutAll(c) \/ AdminResetPassword(c)
       \/ \E active \in BOOLEAN : UpdateUser(c, active)
       \/ \E i \in DOMAIN sessions : Logout(c, i) \/ RevokeSession(c, i) \/ RefreshToken(c, i)

Continue(c) ==
    \/ SaveUser(c) \/ SendOTP(c) \/ RevokeAllSessions(c) \/ SaveSession(c)
    \/ LoadUser(c) \/ IssueTokenPair(c)
    \/ AbortHandler(c)

SessionsNext ==
    \/ \E c \in Requests : Start(c) \/ Continue(c)
    \/ DatesPass
    \/ \E i \in DOMAIN sessions : SessionAges(i)

SessionsSpec == SessionsInit /\ [][SessionsNext]_sessionVars

-----------------------------------------------------------------------------
\* Every variable has its type.
SessionsTypeOK ==
    /\ user \in User
    /\ sessions \in Seq(Session) /\ Len(sessions) <= MaxSessions
    /\ handler \in [Requests -> Handler]
    /\ served \in 0 .. MaxServed
    /\ disturbed \in BOOLEAN
    /\ endedAt \in 0 .. MaxServed

\* As long as no request was overtaken or cut short, no session goes on that
\* began with a login before the sessions were last ended together: by signing out
\* everywhere, a new password, a lock, or a token that is presented twice.
AllSessionsEndIfFresh ==
    ~disturbed => \A i \in DOMAIN sessions : ~sessions[i].revoked => sessions[i].login > endedAt

\* As long as no request was overtaken or cut short, refreshing leaves
\* one session of each login.
OneSessionPerLoginIfFresh ==
    ~disturbed => \A i, j \in DOMAIN sessions :
        ~sessions[i].revoked /\ ~sessions[j].revoked /\ sessions[i].login = sessions[j].login
            => i = j

\* Both hold of the sessions of a user.
SessionsEndIfFresh == AllSessionsEndIfFresh /\ OneSessionPerLoginIfFresh
=============================================================================
