--------------------------------- MODULE Login ---------------------------------
(***************************************************************************)
(* Who may use the pages: the password, the sessions and the throttle of   *)
(* failed attempts (api/auth.py, auth/, model/auth_store.py, the guard in  *)
(* loxone/server.py, set-password of cli.py).  Hashing a password takes a  *)
(* thread, and while it runs the loop serves other requests: set-ups,      *)
(* logins and changes overlap.  Sessions age in ticks, days in the code;   *)
(* the lock of the throttle, 30 s, ends by itself between two of them.     *)
(***************************************************************************)
EXTENDS Naturals

CONSTANTS
    Browsers,      \* callers, each with its address and its cookie
    Script,        \* who holds the API token, if one is set
    HasToken,
    Words,         \* passwords that are long enough
    Unset,
    Attempts,      \* bound: requests that hash a password
    SessionIds,    \* bound: numbers for the sessions there are at a time
    Limit,         \* FAILURES_BEFORE_THROTTLING
    Lifetime,      \* SESSION_LIFETIME_SECONDS, in ticks
    ExtendAfter,   \* EXTEND_AFTER_SECONDS, in ticks
    MaxResets      \* bound: set-password on the command line, restarts

ASSUME LoginAssumption ==
    /\ Script \notin Browsers /\ HasToken \in BOOLEAN /\ Unset \notin Words
    /\ SessionIds \subseteq Nat \ {0} /\ Limit \in Nat \ {0}
    /\ Lifetime \in Nat /\ ExtendAfter \in 1..Lifetime /\ MaxResets \in Nat

VARIABLES
    password,    \* the row `password_hash` of `setting`
    sessions,    \* the rows of `session`
    lasts,        \* per row, the ticks until `expires_at`
    cookie,      \* per browser, its session; 0 if it has none
    failures,    \* `_failures`
    blocked,     \* the callers whose `_blocked_until` is ahead
    attempt,     \* the requests that hash
    unused,      \* history: per session, the ticks since it was last used
    tries,       \* history: attempts since the last success, lock or start
    resets

loginVars == <<password, sessions, lasts, cookie, failures, blocked, attempt, unused, tries,
               resets>>

Unsent == [kind |-> "unsent", who |-> Script, word |-> Unset, against |-> Unset]

LoginInit ==
    /\ password = Unset /\ sessions = {} /\ lasts = [i \in SessionIds |-> 0]
    /\ cookie = [b \in Browsers |-> 0] /\ failures = [b \in Browsers |-> 0] /\ blocked = {}
    /\ attempt = [a \in Attempts |-> Unsent]
    /\ unused = [i \in SessionIds |-> 0] /\ tries = [b \in Browsers |-> 0] /\ resets = 0

-----------------------------------------------------------------------------
(* Sessions. *)

Valid(i) == i \in sessions /\ lasts[i] > 0

\* Mutant: a session that has lasted for ExtendAfter is not extended yet.
DueTooLate(i) == lasts[i] < Lifetime - ExtendAfter

\* At most one write per EXTEND_AFTER_SECONDS.
Due(i) == lasts[i] <= Lifetime - ExtendAfter

\* session_is_valid: a session that is used is extended, one that has expired
\* is deleted.
Looked(i) ==
    /\ sessions' = IF Valid(i) THEN sessions ELSE sessions \ {i}
    /\ lasts' = IF Valid(i) /\ Due(i) THEN [lasts EXCEPT ![i] = Lifetime] ELSE lasts
    /\ unused' = IF Valid(i) THEN [unused EXCEPT ![i] = 0] ELSE unused

\* open_session clears out what has expired.
Opened(b, i) ==
    /\ i \in SessionIds \ sessions /\ \A c \in Browsers : cookie[c] # i
    /\ sessions' = {j \in sessions : lasts[j] > 0} \cup {i}
    /\ lasts' = [lasts EXCEPT ![i] = Lifetime] /\ unused' = [unused EXCEPT ![i] = 0]
    /\ cookie' = [cookie EXCEPT ![b] = i]

NobodyIsLetIn == UNCHANGED <<sessions, lasts, unused, cookie>>

-----------------------------------------------------------------------------
(* The throttle. *)

\* Mutant: the failure is booked only when the password has proved wrong.
BookedLate(b) == failures' = failures /\ blocked' = blocked

\* record_failure, booked before the hashing.
Booked(b) ==
    /\ failures' = [failures EXCEPT ![b] = @ + 1]
    /\ blocked' = IF failures[b] + 1 >= Limit THEN blocked \cup {b} ELSE blocked

\* record_success.
Forgiven(b) ==
    /\ failures' = [failures EXCEPT ![b] = 0] /\ blocked' = blocked \ {b}
    /\ tries' = [tries EXCEPT ![b] = 0]

NobodyIsForgiven == UNCHANGED <<failures, blocked, tries>>

\* THROTTLE_SECONDS after the last failure.
LockEnds(b) ==
    /\ b \in blocked /\ blocked' = blocked \ {b} /\ tries' = [tries EXCEPT ![b] = 0]
    /\ UNCHANGED <<password, sessions, lasts, cookie, failures, attempt, unused, resets>>

-----------------------------------------------------------------------------
(* The requests that hash. *)

Begun(a, kind, who, word, against) ==
    /\ attempt[a].kind = "unsent"
    /\ attempt' = [attempt EXCEPT ![a] =
                     [kind |-> kind, who |-> who, word |-> word, against |-> against]]
    /\ UNCHANGED <<password, resets>>

Over(a) == attempt' = [attempt EXCEPT ![a] = [Unsent EXCEPT !.kind = "over"]]

\* Before they hash, both look at the throttle and at the password; who is
\* answered 429, 409 or 422 has changed nothing.
StartSetup(a, b, w) ==
    /\ b \notin blocked /\ password = Unset
    /\ Begun(a, "setup", b, w, Unset) /\ Booked(b) /\ tries' = [tries EXCEPT ![b] = @ + 1]
    /\ NobodyIsLetIn

StartLogin(a, b, w) ==
    /\ b \notin blocked /\ password # Unset
    /\ Begun(a, "login", b, w, password) /\ Booked(b) /\ tries' = [tries EXCEPT ![b] = @ + 1]
    /\ NobodyIsLetIn

\* Mutant: the password is written although another set-up was first.
SetsAnyway == TRUE

\* INSERT OR IGNORE: whether this set-up is the first.
SetsFirst == password = Unset

FinishSetup(a) ==
    LET one == attempt[a]
    IN /\ one.kind = "setup" /\ Over(a)
       /\ IF SetsFirst
          THEN /\ password' = one.word /\ Forgiven(one.who)
               /\ \E i \in SessionIds : Opened(one.who, i)
          ELSE UNCHANGED password /\ NobodyIsForgiven /\ NobodyIsLetIn
       /\ UNCHANGED resets

\* verify_password against the hash that was stored when the login came.
FinishLogin(a) ==
    LET one == attempt[a]
    IN /\ one.kind = "login" /\ Over(a)
       /\ IF one.word = one.against
          THEN Forgiven(one.who) /\ \E i \in SessionIds : Opened(one.who, i)
          ELSE NobodyIsForgiven /\ NobodyIsLetIn
       /\ UNCHANGED <<password, resets>>

\* change_password hangs behind the guard, which looks at the cookie, and then
\* at the token; it signs nobody out.
StartChange(a, b, w) ==
    /\ password # Unset /\ Valid(cookie[b]) /\ Looked(cookie[b])
    /\ Begun(a, "change", b, w, Unset) /\ NobodyIsForgiven /\ UNCHANGED cookie

StartScriptChange(a, w) ==
    /\ password # Unset /\ HasToken
    /\ Begun(a, "change", Script, w, Unset) /\ NobodyIsForgiven /\ NobodyIsLetIn

FinishChange(a) ==
    /\ attempt[a].kind = "change" /\ Over(a) /\ password' = attempt[a].word
    /\ NobodyIsForgiven /\ NobodyIsLetIn /\ UNCHANGED resets

\* The connection drops, or the hashing fails: no one takes the booking back.
Aborted(a) ==
    /\ attempt[a].kind \in {"setup", "login", "change"} /\ Over(a)
    /\ NobodyIsForgiven /\ NobodyIsLetIn /\ UNCHANGED <<password, resets>>

-----------------------------------------------------------------------------
(* The other requests, and what happens around them. *)

\* The guard of every /api route, and /auth-info.
AsksWithCookie(b) ==
    /\ cookie[b] # 0 /\ Looked(cookie[b])
    /\ UNCHANGED <<password, cookie, failures, blocked, attempt, tries, resets>>

Logout(b) ==
    /\ cookie[b] # 0 /\ sessions' = sessions \ {cookie[b]} /\ cookie' = [cookie EXCEPT ![b] = 0]
    /\ UNCHANGED <<password, lasts, failures, blocked, attempt, unused, tries, resets>>

SessionsAge ==
    /\ \E i \in sessions : lasts[i] > 0
    /\ lasts' = [i \in SessionIds |-> IF lasts[i] > 0 THEN lasts[i] - 1 ELSE 0]
    /\ unused' = [i \in SessionIds |-> IF lasts[i] > 0 THEN unused[i] + 1 ELSE unused[i]]
    /\ UNCHANGED <<password, sessions, cookie, failures, blocked, attempt, tries, resets>>

\* Mutant: a reset leaves the sessions.
KeptByReset == sessions

KeptBySetPassword == {}

\* `loxmatter set-password`, a process of its own: both in one commit.
ResetPassword(w) ==
    /\ resets < MaxResets /\ resets' = resets + 1
    /\ password' = w /\ sessions' = KeptBySetPassword
    /\ UNCHANGED <<lasts, cookie, failures, blocked, attempt, unused, tries>>

\* Sessions outlive a restart, the throttle and the requests do not.
LoginRestarts ==
    /\ resets < MaxResets /\ resets' = resets + 1
    /\ failures' = [b \in Browsers |-> 0] /\ tries' = [b \in Browsers |-> 0] /\ blocked' = {}
    /\ attempt' = [a \in Attempts |->
                     IF attempt[a].kind = "unsent" THEN Unsent ELSE [Unsent EXCEPT !.kind = "over"]]
    /\ UNCHANGED <<password, sessions, lasts, cookie, unused>>

LoginNext ==
    \/ \E a \in Attempts :
         \/ FinishSetup(a) \/ FinishLogin(a) \/ FinishChange(a) \/ Aborted(a)
         \/ \E w \in Words : \/ StartScriptChange(a, w)
                             \/ \E b \in Browsers : \/ StartSetup(a, b, w) \/ StartLogin(a, b, w)
                                                    \/ StartChange(a, b, w)
    \/ \E b \in Browsers : LockEnds(b) \/ AsksWithCookie(b) \/ Logout(b)
    \/ SessionsAge \/ LoginRestarts \/ \E w \in Words : ResetPassword(w)

LoginSpec == LoginInit /\ [][LoginNext]_loginVars

-----------------------------------------------------------------------------
(* Correctness. *)

LoginTypeOK ==
    /\ password \in Words \cup {Unset} /\ sessions \subseteq SessionIds
    /\ lasts \in [SessionIds -> 0..Lifetime] /\ unused \in [SessionIds -> Nat]
    /\ cookie \in [Browsers -> SessionIds \cup {0}]
    /\ failures \in [Browsers -> Nat] /\ tries \in [Browsers -> Nat] /\ blocked \subseteq Browsers
    /\ attempt \in [Attempts -> [kind : {"unsent", "setup", "login", "change", "over"},
                                 who : Browsers \cup {Script},
                                 word : Words \cup {Unset}, against : Words \cup {Unset}]]
    /\ resets \in 0..MaxResets

\* Requests that overlap do not get past the throttle (auth.py:272-285): an
\* address has at most Limit attempts, and then one after each lock.
FewTries ==
    \A b \in Browsers : /\ tries[b] <= Limit
                        /\ failures[b] > Limit => tries[b] <= 1

\* Only who has failed Limit times in a row is locked out.
LockedForAReason == \A b \in blocked : failures[b] >= Limit

\* "Extends it on a sliding basis" (sessions.py:62): a session that was used in
\* the last Lifetime - ExtendAfter ticks is valid, although it is written
\* once per ExtendAfter only.
UsedIsValid == \A i \in sessions : unused[i] <= Lifetime - ExtendAfter => lasts[i] > 0

LoginSafe == LoginTypeOK /\ FewTries /\ LockedForAReason /\ UsedIsValid

\* The first password stays unless somebody who was let in changes it, or the
\* command line sets one, which signs everybody out in the same commit; and a
\* session is opened only by the set-up that was first, and by a login with the
\* password that was set when it came (auth_store.py:66-107).
Ended(a) == attempt[a].kind # "over" /\ attempt'[a].kind = "over"
SetUpFirst(a) == attempt[a].kind = "setup" /\ password = Unset /\ password' = attempt[a].word
LoginStep ==
    /\ password' # password =>
         \/ sessions' = {}
         \/ \E a \in Attempts : /\ Ended(a)
                                /\ \/ SetUpFirst(a)
                                   \/ attempt[a].kind = "change" /\ password' = attempt[a].word
    /\ sessions' \ sessions # {} =>
         \E a \in Attempts : /\ Ended(a)
                             /\ \/ SetUpFirst(a)
                                \/ attempt[a].kind = "login" /\ attempt[a].word = attempt[a].against
LoginSteps == [][LoginStep]_loginVars

\* However logins, set-ups and a reset overlap, both hold (api/auth.py,
\* auth/throttle.py, auth/sessions.py).
LoginIsRight == []LoginSafe /\ LoginSteps
=============================================================================
