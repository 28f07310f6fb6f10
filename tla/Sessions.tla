-------------------------------- MODULE Sessions --------------------------------
(****************************************************************************)
(* The one user of the API, the sessions and the API token                  *)
(* (core/web/authentication.go, sessions_controller.go, user_controller.go, *)
(* the user and session tables of orm.go, services/reaper.go).              *)
(*                                                                          *)
(* Each request is a goroutine.  Its authentication and its handler are     *)
(* queries of their own, and the requests interleave between them; the user *)
(* row is read whole and written whole.  A password is a number, and so is  *)
(* a token, that of the request which made it.                              *)
(****************************************************************************)
EXTENDS Naturals

CONSTANTS
    MaxCalls,       \* bound on the requests
    Timeout,        \* SESSION_TIMEOUT
    Expiration,     \* REAPER_EXPIRATION
    MaxNow,         \* bound on the clock
    Passwords       \* the passwords that requests give, the first is the user's

ASSUME SessionsAssumption == {MaxCalls, Timeout, Expiration, MaxNow} \subseteq Nat

VARIABLES
    now,
    user,           \* the row of the user
    sessions,       \* the time each session was last used, or Gone: its name is the
                    \* request that made it
    call,           \* each request
    reaper,         \* the session reaper: idle, woken, or the time it removes up to
    ended,          \* history: the sessions that were ended
    restored        \* history: the sessions written back by a request that had read them

sessionVars == <<now, user, sessions, call, reaper, ended, restored>>

Calls == 1 .. MaxCalls
Gone == 0
NoToken == 0
NoSession == 0
Idle == 0
Woken == MaxNow + 1
FirstPassword == CHOOSE p \in Passwords : \A q \in Passwords : p <= q

NoCall == [op |-> "none", session |-> NoSession, token |-> NoToken, password |-> FirstPassword,
           at |-> "none", row |-> [password |-> FirstPassword, token |-> NoToken], read |-> 0,
           before |-> {}]

\* The first two requests were logins, the first just as long ago as it may be used.
SessionsInit ==
    /\ now = Timeout + Expiration + 1
    /\ user = [password |-> FirstPassword, token |-> NoToken]
    /\ sessions = [s \in Calls |-> CASE s = 1 -> now - Timeout [] s = 2 -> now [] OTHER -> Gone]
    /\ call = [c \in Calls |-> IF c \in {1, 2} THEN [NoCall EXCEPT !.op = "login", !.at = "done"]
                                ELSE NoCall]
    /\ reaper = Idle
    /\ ended = {} /\ restored = {}

TimePasses ==
    /\ now < MaxNow
    /\ now' = now + 1
    /\ UNCHANGED <<user, sessions, call, reaper, ended, restored>>

----------------------------------------------------------------------------
(* Requests and their authentication.                                       *)

Ops == {"login", "use", "logout", "changePassword", "changeToken"}

Begin(c, op, session, token, password) ==
    /\ call[c].op = "none"
    /\ \A b \in 1 .. c - 1 : call[b].op # "none"
    /\ password = FirstPassword \/ op \notin {"use", "logout"}
    /\ call' = [call EXCEPT ![c] = [NoCall EXCEPT !.op = op, !.session = session, !.token = token,
                                                  !.password = password, !.at = "begin", !.before = ended]]
    /\ UNCHANGED <<now, user, sessions, reaper, ended, restored>>

\* What clients have been answered; 0 stands for none.
Known(op) == {0} \cup {c \in Calls : call[c].op = op /\ call[c].at = "done"}

At(c, step) == call[c].at = step
To(c, step) == call' = [call EXCEPT ![c].at = step]

\* A request whose answer is out keeps only what the property asks.
Answered(c) == call' = [call EXCEPT ![c] = [NoCall EXCEPT !.op = call[c].op, !.at = "done"]]

\* RequireAuth asks for the token, where the route takes tokens, then for the session.
AuthenticateByToken(c) ==
    /\ At(c, "begin")
    /\ call[c].op # "login"
    /\ call' = [call EXCEPT ![c].token = NoToken,
           ![c].at = IF call[c].op # "logout" /\ user.token # NoToken /\ call[c].token = user.token
                     THEN "authorised" ELSE "session"]
    /\ UNCHANGED <<now, user, sessions, reaper, ended, restored>>

Alive(s) == s # NoSession /\ sessions[s] # Gone /\ sessions[s] + Timeout >= now

\* AuthorizedUserWithSession reads the session, and writes it with the time it was read.
FindSession(c) ==
    /\ At(c, "session")
    /\ IF Alive(call[c].session)
       THEN call' = [call EXCEPT ![c].at = "found", ![c].read = now]
       ELSE Answered(c)
    /\ UNCHANGED <<now, user, sessions, reaper, ended, restored>>

\* Save makes the row if it is gone.
SaveSession(c) ==
    /\ At(c, "found")
    /\ LET s == call[c].session IN
       /\ sessions' = [sessions EXCEPT ![s] = call[c].read]
       /\ restored' = IF sessions[s] = Gone THEN restored \cup {s} ELSE restored
    /\ call' = [call EXCEPT ![c].at = "authorised", ![c].read = 0, ![c].before = {}]
    /\ UNCHANGED <<now, user, reaper, ended>>

----------------------------------------------------------------------------
(* The handlers.                                                            *)

Wakes == reaper' = IF reaper = Idle THEN Woken ELSE reaper

\* CreateSession: the user is read, then the session is stored.
CheckLogin(c) ==
    /\ At(c, "begin") /\ call[c].op = "login"
    /\ \/ /\ call[c].password = user.password
          /\ call' = [call EXCEPT ![c].at = "store", ![c].password = FirstPassword]
          /\ UNCHANGED reaper
       \/ call[c].password # user.password /\ Answered(c) /\ Wakes
    /\ UNCHANGED <<now, user, sessions, ended, restored>>

CreateSession(c) ==
    /\ At(c, "store")
    /\ sessions' = [sessions EXCEPT ![c] = now]
    /\ Answered(c) /\ Wakes
    /\ UNCHANGED <<now, user, ended, restored>>

\* Any other request.
Use(c) ==
    /\ At(c, "authorised") /\ call[c].op = "use"
    /\ Answered(c)
    /\ UNCHANGED <<now, user, sessions, reaper, ended, restored>>

\* The cookie is not written, so the client keeps its session's name.
Destroy(c) ==
    /\ At(c, "authorised") /\ call[c].op = "logout"
    /\ sessions' = [sessions EXCEPT ![call[c].session] = Gone]
    /\ ended' = ended \cup {call[c].session}
    /\ Answered(c) /\ Wakes
    /\ UNCHANGED <<now, user, restored>>

ReadUser(c) ==
    /\ At(c, "authorised")
    /\ call[c].op \in {"changePassword", "changeToken"}
    /\ \/ call[c].password # user.password /\ Answered(c)
       \/ /\ call[c].password = user.password
          /\ call[c].op = "changePassword" => call[c].session # NoSession
          /\ call' = [call EXCEPT ![c].row = user, ![c].password = FirstPassword,
                                  ![c].at = IF call[c].op = "changePassword" THEN "clear" ELSE "write"]
       \/ call[c].op = "changePassword" /\ call[c].session = NoSession /\ Answered(c)
    /\ UNCHANGED <<now, user, sessions, reaper, ended, restored>>

\* Mutant: the sessions are cleared but for the oldest.
ClearNonCurrentSessions_KeepsAnother(c) ==
    /\ At(c, "clear")
    /\ sessions' = [s \in Calls |-> IF s <= call[c].session THEN sessions[s] ELSE Gone]
    /\ ended' = ended \cup {s \in Calls \ {call[c].session} : sessions[s] # Gone}
    /\ To(c, "write")
    /\ UNCHANGED <<now, user, reaper, restored>>

ClearNonCurrentSessions(c) ==
    /\ At(c, "clear")
    /\ sessions' = [s \in Calls |-> IF s = call[c].session THEN sessions[s] ELSE Gone]
    /\ ended' = ended \cup {s \in Calls \ {call[c].session} : sessions[s] # Gone}
    /\ To(c, "write")
    /\ UNCHANGED <<now, user, reaper, restored>>

\* The row that was read is written with what the request changes: the password, or
\* the token, which is made or deleted.
SaveUser(c) ==
    /\ At(c, "write")
    /\ \/ call[c].op = "changePassword" /\ \E p \in Passwords : user' = [call[c].row EXCEPT !.password = p]
       \/ call[c].op = "changeToken" /\ \E t \in {c, NoToken} : user' = [call[c].row EXCEPT !.token = t]
    /\ Answered(c)
    /\ UNCHANGED <<now, sessions, reaper, ended, restored>>

----------------------------------------------------------------------------
(* The reaper.                                                              *)

\* Mutant: the time that a session may still be used is left out.
Work_UpToExpiration ==
    /\ reaper = Woken
    /\ reaper' = now - Expiration
    /\ UNCHANGED <<now, user, sessions, call, ended, restored>>

\* Work: the time is taken, then the sessions are deleted.
Work ==
    /\ reaper = Woken
    /\ reaper' = now - Expiration - Timeout
    /\ UNCHANGED <<now, user, sessions, call, ended, restored>>

Stale == {s \in Calls : sessions[s] # Gone /\ sessions[s] < reaper}

DeleteStaleSessions ==
    /\ reaper \notin {Idle, Woken}
    /\ sessions' = [s \in Calls |-> IF s \in Stale THEN Gone ELSE sessions[s]]
    /\ ended' = ended \cup Stale
    /\ reaper' = Idle
    /\ UNCHANGED <<now, user, call, restored>>

----------------------------------------------------------------------------

SessionsNext ==
    \/ TimePasses \/ Work \/ DeleteStaleSessions
    \/ \E c \in Calls :
        \/ \E p \in Passwords : Begin(c, "login", NoSession, NoToken, p)
        \/ \E op \in Ops \ {"login"}, p \in Passwords :
            \/ \E s \in Known("login") : Begin(c, op, s, NoToken, p)
            \/ op # "logout" /\ \E t \in Known("changeToken") : Begin(c, op, NoSession, t, p)
        \/ AuthenticateByToken(c) \/ FindSession(c) \/ SaveSession(c)
        \/ CheckLogin(c) \/ CreateSession(c) \/ Use(c) \/ Destroy(c)
        \/ ReadUser(c) \/ ClearNonCurrentSessions(c) \/ SaveUser(c)

SessionsSpec == SessionsInit /\ [][SessionsNext]_sessionVars

----------------------------------------------------------------------------
(* Properties.                                                              *)

\* A session that was ended, by its end, by a change of the password or by the reaper,
\* is not taken for a request that begins later, unless a request that had read it
\* before its end has written it back.
EndedSessionIsRefused ==
    \A c \in Calls : At(c, "found") => call[c].session \notin call[c].before \ restored

\* The reaper removes no session that a request could still use.
ReapedIsExpired ==
    [][reaper \notin {Idle, Woken} /\ reaper' = Idle =>
          \A s \in Calls : sessions[s] # Gone /\ sessions'[s] = Gone => ~Alive(s)]_sessionVars

\* Sessions end when they are ended, and not before they expire.
SessionsEndInTime == []EndedSessionIsRefused /\ ReapedIsExpired

\* sessions_controller.go: "Destroy erases the session ID for the sole API user."
ErasedStaysErased == restored \cap ended = {}

\* user_controller.go: "UpdatePassword changes the password for the current User."  The
\* change stays when a request for a token, which had read the row before, writes it.
PasswordChangeStays ==
    [][user'.password # user.password =>
          \E c \in Calls : call[c].op = "changePassword" /\ At(c, "write") /\ ~At(c, "write")']_sessionVars
=============================================================================
