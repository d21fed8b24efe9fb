------------------------------ MODULE Sessions ------------------------------
(***************************************************************************)
(* Logins, sessions, changes of password and the single sign-on of one     *)
(* administrator's account (semibrain_conversation/auth.py and             *)
(* langfuse_sso.py).  Passwords are hashed between the read of the account *)
(* and the write, and each look at Redis or at the database is a step.     *)
(* Rate limits, CSRF, origins and the signatures of tokens are left out.   *)
(***************************************************************************)
EXTENDS Naturals

CONSTANTS
  Clients,      \* requests to the gateway at the same time
  Words,        \* passwords
  MaxChanges,   \* bound on auth_version
  MaxSessions,  \* bound on logins that succeed
  MaxTickets    \* bound on captchas and on sign-on codes

\* An account begins with auth_version 1.
ASSUME SessionsAssumption == {MaxSessions, MaxTickets} \subseteq Nat /\ MaxChanges \in Nat \ {0}

Slots == 1..MaxSessions
Codes == 1..MaxTickets
Tickets == {"captcha", "code"} \X Codes

VARIABLES
  account,   \* the user's password, enabled, auth_version (revision goes with it); audits counted
  sessions,  \* auth:session:*: state, auth_version; history: the password it was opened with
  tickets,   \* auth:captcha:* and auth:sso:code:*: "unused", "live", "gone"
  grants,    \* what a code stands for: session and auth_version
  work,      \* each request that is under way
  spent      \* history: passwords tried on a captcha, access tokens given for a code

sessionVars == <<account, sessions, tickets, grants, work, spent>>

Resting == [step |-> "idle", ticket |-> 0, slot |-> 0, version |-> 0, old |-> "none", new |-> "none"]

SessionTypes ==
  /\ account \in [word : Words, enabled : BOOLEAN, version : 1..MaxChanges, audits : 0..MaxChanges]
  /\ sessions \in [Slots -> [state : {"none", "open", "gone"}, version : 0..MaxChanges,
                             word : Words \cup {"none"}]]
  /\ tickets \in [Tickets -> {"unused", "live", "gone"}]
  /\ grants \in [Codes -> [slot : 0..MaxSessions, version : 0..MaxChanges]]
  /\ work \in [Clients -> [step : {"idle", "login", "store", "change", "session", "user", "issue"},
                           ticket : 0..MaxTickets, slot : 0..MaxSessions, version : 0..MaxChanges,
                           old : Words \cup {"none"}, new : Words \cup {"none"}]]
  /\ spent \in [Tickets -> Nat]

SessionsInit ==
  /\ account \in [word : Words, enabled : {TRUE}, version : {1}, audits : {0}]
  /\ sessions = [s \in Slots |-> [state |-> "none", version |-> 0, word |-> "none"]]
  /\ tickets = [t \in Tickets |-> "unused"]
  /\ grants = [k \in Codes |-> [slot |-> 0, version |-> 0]]
  /\ work = [c \in Clients |-> Resting]
  /\ spent = [t \in Tickets |-> 0]

Rest(c) == work' = [work EXCEPT ![c] = Resting]
At(c, s) == work[c].step = s

\* The request is refused, or its process dies.
Quit(c) == ~At(c, "idle") /\ Rest(c) /\ UNCHANGED <<account, sessions, tickets, grants, spent>>

\* Mutant of Take: the value is looked at and removed later.
TakeLater(t) == tickets[t] = "live" /\ UNCHANGED tickets

\* CONSUME and GETDEL: whoever reads a captcha or a code removes it.
Take(t) == tickets[t] = "live" /\ tickets' = [tickets EXCEPT ![t] = "gone"]

Captcha(i) ==
  /\ tickets[<<"captcha", i>>] = "unused"
  /\ tickets' = [tickets EXCEPT ![<<"captcha", i>>] = "live"]
  /\ UNCHANGED <<account, sessions, grants, work, spent>>

ExpireTicket(t) ==
  /\ tickets[t] = "live" /\ tickets' = [tickets EXCEPT ![t] = "gone"]
  /\ UNCHANGED <<account, sessions, grants, work, spent>>

\* login() takes the captcha first.  A wrong answer ends the request there (Quit).
BeginLogin(c, i, w) ==
  /\ At(c, "idle") /\ Take(<<"captcha", i>>)
  /\ work' = [work EXCEPT ![c] = [Resting EXCEPT !.step = "login", !.ticket = i, !.new = w]]
  /\ UNCHANGED <<account, sessions, grants, spent>>

\* It reads the account and compares the password.
Compare(c) ==
  /\ At(c, "login")
  /\ spent' = [spent EXCEPT ![<<"captcha", work[c].ticket>>] = @ + 1]
  /\ IF account.enabled /\ account.word = work[c].new
       THEN work' = [work EXCEPT ![c].step = "store", ![c].version = account.version]
       ELSE Rest(c)
  /\ UNCHANGED <<account, sessions, tickets, grants>>

\* login_response(): the session has the auth_version that was read.
OpenSession(c, s) ==
  /\ At(c, "store") /\ sessions[s].state = "none" /\ \A r \in 1..(s - 1) : sessions[r].state # "none"
  /\ sessions' = [sessions EXCEPT ![s] = [state |-> "open", version |-> work[c].version, word |-> work[c].new]]
  /\ Rest(c)
  /\ UNCHANGED <<account, tickets, grants, spent>>

\* Mutant of Admits: a session is good as long as it is there.
AdmitsOpen(s) == sessions[s].state = "open" /\ account.enabled

\* current_user().
Admits(s) == sessions[s].state = "open" /\ account.enabled /\ sessions[s].version = account.version

\* logout(), and the eight hours of a session.
CloseSession(s) ==
  /\ sessions[s].state = "open"
  /\ sessions' = [sessions EXCEPT ![s].state = "gone"]
  /\ UNCHANGED <<account, tickets, grants, work, spent>>

\* password(): the account as current_user() has read it is compared with the old
\* password, and the new one is hashed ...
BeginChange(c, s, w) ==
  /\ At(c, "idle") /\ Admits(s)
  /\ work' = [work EXCEPT ![c] = [Resting EXCEPT !.step = "change", !.version = account.version,
                                                 !.old = account.word, !.new = w]]
  /\ UNCHANGED <<account, sessions, tickets, grants, spent>>

\* Mutant of Unchanged: the update is filtered by the id alone.
UnchangedOrNot(c) == TRUE

Unchanged(c) == account.version = work[c].version

\* ... before it is written, filtered by the auth_version.
CommitChange(c) ==
  /\ At(c, "change") /\ Unchanged(c) /\ account.version < MaxChanges
  /\ account' = [account EXCEPT !.word = work[c].new, !.version = @ + 1]
  /\ Rest(c)
  /\ UNCHANGED <<sessions, tickets, grants, spent>>

\* change_user() by another administrator, who has seen the current revision.
ChangeUser(w, on) ==
  /\ account.version < MaxChanges
  /\ account' = [word |-> w, enabled |-> on, version |-> account.version + 1, audits |-> account.audits + 1]
  /\ UNCHANGED <<sessions, tickets, grants, work, spent>>

\* authorize().  Nobody can tell what happens between its check and the code.
Authorize(s, k) ==
  /\ Admits(s) /\ tickets[<<"code", k>>] = "unused"
  /\ tickets' = [tickets EXCEPT ![<<"code", k>>] = "live"]
  /\ grants' = [grants EXCEPT ![k] = [slot |-> s, version |-> account.version]]
  /\ UNCHANGED <<account, sessions, work, spent>>

\* token() takes the code, then active_grant() looks at the session ...
Exchange(c, k) ==
  /\ At(c, "idle") /\ Take(<<"code", k>>)
  /\ work' = [work EXCEPT ![c] = [Resting EXCEPT !.step = "session", !.ticket = k]]
  /\ UNCHANGED <<account, sessions, grants, spent>>

SeeSession(c) ==
  /\ At(c, "session")
  /\ LET s == grants[work[c].ticket].slot IN
       /\ sessions[s].state = "open"
       /\ work' = [work EXCEPT ![c].step = "user", ![c].version = sessions[s].version]
  /\ UNCHANGED <<account, sessions, tickets, grants, spent>>

\* ... and at the account.
SeeUser(c) ==
  /\ At(c, "user")
  /\ account.enabled /\ account.version = work[c].version /\ account.version = grants[work[c].ticket].version
  /\ work' = [work EXCEPT ![c].step = "issue"]
  /\ UNCHANGED <<account, sessions, tickets, grants, spent>>

\* The access token has the code's grant.
Issue(c) ==
  /\ At(c, "issue")
  /\ spent' = [spent EXCEPT ![<<"code", work[c].ticket>>] = @ + 1]
  /\ Rest(c)
  /\ UNCHANGED <<account, sessions, tickets, grants>>

SessionsNext ==
  \/ \E i \in Codes : Captcha(i)
  \/ \E t \in Tickets : ExpireTicket(t)
  \/ \E s \in Slots : CloseSession(s) \/ \E k \in Codes : Authorize(s, k)
  \/ \E w \in Words, on \in BOOLEAN : ChangeUser(w, on)
  \/ \E c \in Clients :
       \/ Compare(c) \/ CommitChange(c) \/ SeeSession(c) \/ SeeUser(c) \/ Issue(c) \/ Quit(c)
       \/ \E i \in Codes : Exchange(c, i) \/ \E w \in Words : BeginLogin(c, i, w)
       \/ \E s \in Slots : OpenSession(c, s) \/ \E w \in Words : BeginChange(c, s, w)

SessionsSpec == SessionsInit /\ [][SessionsNext]_sessionVars

-----------------------------------------------------------------------------
(* Properties. *)

\* userinfo() answers to an access token given for a code.
UserInfo(k) ==
  /\ spent[<<"code", k>>] > 0
  /\ LET s == grants[k].slot IN Admits(s) /\ grants[k].version = account.version

\* Whoever is admitted, by a session or by an access token that comes from one, has
\* logged in with the password the account has now, although a login that is under
\* way while the password is changed stores its session after the change.
AdmittedByPassword ==
  /\ \A s \in Slots : Admits(s) => sessions[s].word = account.word
  /\ \A k \in Codes : UserInfo(k) => sessions[grants[k].slot].word = account.word

\* A captcha is good for one password and a code for one access token, however many
\* requests present it at the same time.
OneAttempt == \A t \in Tickets : spent[t] <= 1

\* A password is replaced only by an administrator or by a request that knew the very
\* password it replaces: of two changes at the same time one is refused.
ReplacedWasKnown ==
  [][account'.word # account.word =>
       \/ account'.audits > account.audits
       \/ \E c \in Clients : At(c, "change") /\ work'[c] = Resting /\ work[c].old = account.word]_sessionVars

=============================================================================
