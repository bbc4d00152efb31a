------------------------------- MODULE SignIn -------------------------------
(***************************************************************************)
(* Signing in: the throttle of failed attempts, the sessions and the cap   *)
(* on a user's sessions (auth/service.go, throttle.go, the session store). *)
(*                                                                         *)
(* Requests run at once: an attempt passes the throttle, compares the      *)
(* password without the lock, then records how it went.  Time is a counter *)
(* in units of the base delay.                                             *)
(***************************************************************************)
EXTENDS Naturals, FiniteSets

CONSTANTS
    Logins,         \* names that are tried
    Accounts,       \* those that have an account at the start
    SignInClients,  \* requests that may be under way
    FreeAttempts,   \* loginFreeAttempts
    MaxDelay,       \* loginMaxDelay
    AttemptTTL,     \* loginAttemptTTL
    MaxTracked,     \* maxTrackedLogins
    MaxSessions,    \* maxSessionsPerUser
    CookieExpiries, \* how long a session may be configured to last
    MaxSignInTime,  \* bound: the clock
    MaxSignIns      \* bound: requests

ASSUME SignInAssumption ==
    /\ Accounts \subseteq Logins
    /\ {FreeAttempts, MaxSignInTime, MaxSignIns} \subseteq Nat
    /\ {MaxDelay, AttemptTTL, MaxTracked, MaxSessions} \cup CookieExpiries \subseteq Nat \ {0}

VARIABLES
    aUsers,     \* the accounts
    aTry,       \* loginThrottle.attempts: fails, last; fails = 0 is no entry
    aSess,      \* the session rows: id, user, expires
    aCall,      \* the requests: at, user
    aNow,       \* the clock
    aExpiry,    \* the configured life of a session, read at the start
    aMade,      \* session rows made so far
    signIns     \* requests so far

signInVars == <<aUsers, aTry, aSess, aCall, aNow, aExpiry, aMade, signIns>>

NoCall == [at |-> "none", user |-> CHOOSE u \in Logins : TRUE]
NoTry == [fails |-> 0, last |-> 0]
Tracked == {u \in Logins : aTry[u].fails > 0}

SignInInit ==
    /\ aUsers = Accounts /\ aSess = {} /\ aNow = 0 /\ aMade = 0 /\ signIns = 0
    /\ aTry = [u \in Logins |-> NoTry] /\ aExpiry \in CookieExpiries
    /\ aCall = [c \in SignInClients |-> NoCall]

Requested == signIns < MaxSignIns /\ signIns' = signIns + 1
At2(c, at) == aCall' = [aCall EXCEPT ![c].at = at]
-----------------------------------------------------------------------------
(* delayFor: none for the first failures, then doubled up to the maximum.  *)
delayFor(fails) ==
    IF fails <= FreeAttempts THEN 0
    ELSE LET doubled == 2 ^ (fails - FreeAttempts - 1)
         IN IF doubled < MaxDelay THEN doubled ELSE MaxDelay

OldTry(u) == aNow - aTry[u].last >= AttemptTTL

(* retryAfter: an old entry is dropped on the way.                         *)
Waits(u) == u \in Tracked /\ ~OldTry(u) /\ aTry[u].last + delayFor(aTry[u].fails) > aNow

(* Login up to the comparison: a throttled attempt is answered at once,    *)
(* whatever the password.                                                  *)
Login(c, u) ==
    /\ Requested /\ aCall[c].at = "none"
    /\ aTry' = IF u \in Tracked /\ OldTry(u) THEN [aTry EXCEPT ![u] = NoTry] ELSE aTry
    /\ aCall' = IF Waits(u) THEN aCall ELSE [aCall EXCEPT ![c] = [at |-> "check", user |-> u]]
    /\ UNCHANGED <<aUsers, aSess, aNow, aExpiry, aMade>>

(* pruneLocked: the entries that saw nothing for long are forgotten.       *)
pruneAttempts(try) ==
    [u \in Logins |-> IF aNow - try[u].last >= AttemptTTL THEN NoTry ELSE try[u]]

(* Mutant of recordFailure: the table is emptied when it is full.          *)
FailureEmpties(u) ==
    LET full == u \notin Tracked /\ Cardinality(Tracked) >= MaxTracked
        try == IF full THEN [v \in Logins |-> NoTry] ELSE aTry
    IN [try EXCEPT ![u] = [fails |-> IF OldTry(u) THEN 1 ELSE @.fails + 1, last |-> aNow]]

(* recordFailure: an unknown name counts like a wrong password; a table    *)
(* that is full of recent entries takes no new one.                        *)
recordFailure(u) ==
    LET full == u \notin Tracked /\ Cardinality(Tracked) >= MaxTracked
        try == IF full THEN pruneAttempts(aTry) ELSE aTry
        kept == {v \in Logins : try[v].fails > 0}
    IN IF full /\ Cardinality(kept) >= MaxTracked THEN try
       ELSE [try EXCEPT ![u] = [fails |-> IF OldTry(u) THEN 1 ELSE @.fails + 1, last |-> aNow]]

(* The comparison fails, for a name without an account in any case.        *)
LoginFails(c) ==
    /\ aCall[c].at = "check"
    /\ aTry' = recordFailure(aCall[c].user)
    /\ At2(c, "none")
    /\ UNCHANGED <<aUsers, aSess, aNow, aExpiry, aMade, signIns>>

(* recordSuccess: the name's entry goes, and the old ones of the others.   *)
LoginSucceeds(c) ==
    /\ aCall[c].at = "check" /\ aCall[c].user \in aUsers
    /\ aTry' = pruneAttempts([aTry EXCEPT ![aCall[c].user] = NoTry])
    /\ At2(c, "session")
    /\ UNCHANGED <<aUsers, aSess, aNow, aExpiry, aMade, signIns>>

(* OIDCCallback: the provider vouches for the user, who may be new.        *)
OIDCCallback(c, u) ==
    /\ Requested /\ aCall[c].at = "none"
    /\ aUsers' = aUsers \cup {u}
    /\ aCall' = [aCall EXCEPT ![c] = [at |-> "session", user |-> u]]
    /\ UNCHANGED <<aTry, aSess, aNow, aExpiry, aMade>>
-----------------------------------------------------------------------------
Expired(s) == s.expires < aNow

(* Mutant of NewSession: expired sessions count towards the cap.           *)
SweptAfter(u) ==
    LET new == [id |-> aMade + 1, user |-> u, expires |-> aNow + aExpiry]
        mine == {s \in aSess \cup {new} : s.user = u}
        over == Cardinality(mine) - MaxSessions
        evicted == IF over <= 0 THEN {}
                   ELSE {s \in mine : Cardinality({t \in mine : t.id < s.id}) < over}
    IN {s \in (aSess \cup {new}) \ evicted : ~Expired(s)}

(* NewSession, one transaction: the expired sessions of everybody go, the  *)
(* new one is added, and the user's oldest ones above the cap go.          *)
NewSession(u) ==
    LET new == [id |-> aMade + 1, user |-> u, expires |-> aNow + aExpiry]
        live == {s \in aSess : ~Expired(s)} \cup {new}
        mine == {s \in live : s.user = u}
        over == Cardinality(mine) - MaxSessions
        evicted == IF over <= 0 THEN {}
                   ELSE {s \in mine : Cardinality({t \in mine : t.id < s.id}) < over}
    IN live \ evicted

CreateSession(c) ==
    /\ aCall[c].at = "session"
    /\ aSess' = NewSession(aCall[c].user) /\ aMade' = aMade + 1
    /\ At2(c, "none")
    /\ UNCHANGED <<aUsers, aTry, aNow, aExpiry, signIns>>

(* VerifyToken: the row is there and has not expired.                      *)
VerifyToken(s) == s \in aSess /\ ~Expired(s)

(* Logout, by the cookies of a session that still holds.                   *)
Logout(s) ==
    /\ Requested /\ VerifyToken(s)
    /\ aSess' = aSess \ {s}
    /\ UNCHANGED <<aUsers, aTry, aCall, aNow, aExpiry, aMade>>

(* A restart: the throttle and the requests are gone, the rows are kept.   *)
(* The configuration may have another life for the sessions to come.       *)
RestartSignIn ==
    /\ Requested
    /\ aTry' = [u \in Logins |-> NoTry] /\ aCall' = [c \in SignInClients |-> NoCall]
    /\ aUsers' = aUsers \cup Accounts /\ aExpiry' \in CookieExpiries
    /\ UNCHANGED <<aSess, aNow, aMade>>

SignInTick ==
    /\ aNow < MaxSignInTime /\ aNow' = aNow + 1
    /\ UNCHANGED <<aUsers, aTry, aSess, aCall, aExpiry, aMade, signIns>>

SignInNext ==
    \/ SignInTick \/ RestartSignIn
    \/ \E c \in SignInClients :
         \/ \E u \in Logins : Login(c, u) \/ OIDCCallback(c, u)
         \/ LoginFails(c) \/ LoginSucceeds(c) \/ CreateSession(c)
    \/ \E s \in aSess : Logout(s)

SignInSpec == SignInInit /\ [][SignInNext]_signInVars
-----------------------------------------------------------------------------
SignInTypeOK ==
    /\ aUsers \subseteq Logins /\ aNow \in 0..MaxSignInTime /\ aMade \in 0..MaxSignIns
    /\ aTry \in [Logins -> [fails : 0..MaxSignIns, last : 0..MaxSignInTime]]
    /\ aExpiry \in CookieExpiries
    /\ \A s \in aSess : s.id \in 1..aMade /\ s.user \in Logins /\ s.expires \in Nat

(* A session that still holds leaves the table only by its own logout, or  *)
(* because its user has the full number of newer sessions that still hold: *)
(* an expired row never pushes a live one out, and neither does another    *)
(* user's login (NewSession).                                              *)
LiveSessionKept ==
    \A s \in aSess : VerifyToken(s) /\ s \notin aSess' =>
        \/ aSess' = aSess \ {s}
        \/ Cardinality({t \in aSess' : t.user = s.user /\ t.id > s.id /\ t.expires >= aNow})
             = MaxSessions

(* The throttle forgets a name only after a correct password for that very *)
(* name, after its time, or with the process: failures of other names, even*)
(* in a table that is full, never clear it (recordFailure, recordSuccess). *)
FailuresRemembered ==
    \A u \in Tracked : aTry'[u].fails = 0 =>
        \/ OldTry(u)
        \/ \E c \in SignInClients : aCall[c] = [at |-> "check", user |-> u] /\ aCall'[c].at = "session"
        \/ \A c \in SignInClients : aCall'[c] = NoCall /\ signIns' = signIns + 1

SignInFair == [][LiveSessionKept /\ FailuresRemembered]_signInVars
=============================================================================
