---------------------------- MODULE AdminSession ----------------------------
(***************************************************************************)
(* Login of the administrator (internal/controlplane/auth.go): a           *)
(* credential kept in admin.json, sessions kept in memory, both under      *)
(* authMu.  login and changePassword take the mutex twice, first to check  *)
(* and then to create the session, and other requests come in between.     *)
(* step[c] is what the request of client c has got to:                     *)
(*                                                                         *)
(*    idle       no request                                                *)
(*    verified   login: the password was right, no session yet             *)
(*    allowed    changePassword: the cookie was good, nothing changed yet  *)
(*    writing    changePassword: admin.json is being written, mutex held   *)
(*    changed    changePassword: mutex released, no session yet            *)
(***************************************************************************)
EXTENDS Integers

CONSTANTS
    Clients,
    Passwords,        \* that an administrator may set
    DefaultPassword,  \* of a control plane without admin.json
    Torn,             \* what a write that is cut short leaves in admin.json
    TTL,              \* sessionTTL
    MaxSessions,      \* BOUND: sessions that are created
    MaxNow,           \* BOUND: the clock
    MaxBreaks         \* BOUND: failing writes and restarts

ASSUME SessionAssumption ==
    /\ DefaultPassword \notin Passwords
    /\ Torn \notin Passwords \cup {DefaultPassword}
    /\ TTL \in Nat /\ MaxSessions \in Nat /\ MaxNow \in Nat /\ MaxBreaks \in Nat

VARIABLES
    auth,      \* s.auth; MustChangePassword goes with the default password
    file,      \* admin.json
    sessions,  \* s.sessions: ids and when they expire
    cookie,    \* per client: the id it presents, 0 if none
    step,      \* per client: its request
    chosen,    \* per client: the password it sets
    now,
    breaks,
    granted,   \* HISTORY: when each session was created; the n-th has id n
    ended,     \* HISTORY: sessions that were ended, but for those that expired
    applied,   \* HISTORY: the last password that was set
    unsaved    \* HISTORY: it has not been written to admin.json

sessionVars ==
    <<auth, file, sessions, cookie, step, chosen, now, breaks, granted, ended,
      applied, unsaved>>

Ids == 1 .. MaxSessions

Created == {id \in Ids : granted[id] >= 0}

Credentials == Passwords \cup {DefaultPassword}

\* loadAuth has found no file, and written one.
SessionInit ==
    /\ auth = DefaultPassword /\ file = DefaultPassword
    /\ sessions = {}
    /\ cookie = [c \in Clients |-> 0]
    /\ step = [c \in Clients |-> "idle"]
    /\ chosen = [c \in Clients |-> DefaultPassword]
    /\ now = 0 /\ breaks = 0
    /\ granted = [id \in Ids |-> -1] /\ ended = {}
    /\ applied = DefaultPassword /\ unsaved = FALSE

-----------------------------------------------------------------------------
Unlocked == \A c \in Clients : step[c] # "writing"

Breaks == breaks < MaxBreaks /\ breaks' = breaks + 1

Goes(c, at) == step' = [step EXCEPT ![c] = at]

credential == <<auth, file, applied, unsaved>>

\* authenticated() drops the sessions that have expired.
Live == {s \in sessions : now <= s.expires}

Accepted(id) == \E s \in Live : s.id = id

\* With the right password; with another one nothing changes.
VerifyLogin(c) ==
    /\ step[c] = "idle" /\ Unlocked
    /\ Goes(c, "verified")
    /\ UNCHANGED <<credential, sessions, cookie, chosen, now, breaks, granted, ended>>

\* createSession, the end of both handlers.
CreateSession(c) ==
    /\ step[c] \in {"verified", "changed"} /\ Unlocked
    /\ \E id \in Ids :
         /\ id \notin Created /\ \A other \in Ids \ Created : id <= other
         /\ sessions' = sessions \cup {[id |-> id, expires |-> now + TTL]}
         /\ granted' = [granted EXCEPT ![id] = now]
         /\ cookie' = [cookie EXCEPT ![c] = id]
    /\ Goes(c, "idle")
    /\ UNCHANGED <<credential, chosen, now, breaks, ended>>

\* Every request to /api with a cookie: answered, or refused.
Authenticate ==
    /\ Unlocked
    /\ \E c \in Clients : cookie[c] # 0
    /\ sessions' = Live
    /\ UNCHANGED <<credential, cookie, step, chosen, now, breaks, granted, ended>>

AllowChange(c) ==
    /\ step[c] = "idle" /\ Unlocked
    /\ Accepted(cookie[c])
    /\ sessions' = Live
    /\ \E password \in Passwords : chosen' = [chosen EXCEPT ![c] = password]
    /\ Goes(c, "allowed")
    /\ UNCHANGED <<credential, cookie, now, breaks, granted, ended>>

\* Faulty variant: the sessions opened with the former password go on.
ApplyOnly(c) ==
    /\ step[c] = "allowed" /\ Unlocked
    /\ auth' = chosen[c] /\ applied' = chosen[c] /\ unsaved' = TRUE
    /\ ended' = Created
    /\ Goes(c, "writing")
    /\ UNCHANGED <<file, sessions, cookie, chosen, now, breaks, granted>>

ApplyChange(c) ==
    /\ step[c] = "allowed" /\ Unlocked
    /\ auth' = chosen[c] /\ applied' = chosen[c] /\ unsaved' = TRUE
    /\ sessions' = {} /\ ended' = Created
    /\ Goes(c, "writing")
    /\ UNCHANGED <<file, cookie, chosen, now, breaks, granted>>

\* Faulty variant: the file is written before the credential is replaced.
WriteFormer(c) ==
    /\ step[c] = "writing"
    /\ unsaved' = FALSE /\ UNCHANGED <<file, breaks>>
    /\ Goes(c, "changed")
    /\ UNCHANGED <<auth, applied, sessions, cookie, chosen, now, granted, ended>>

\* persistAuthLocked truncates the file, writes it and ignores every error.
WriteCredential(c) ==
    /\ step[c] = "writing"
    /\ \/ file' = auth /\ unsaved' = FALSE /\ UNCHANGED breaks
       \/ file' \in {file, Torn} /\ Breaks /\ UNCHANGED unsaved
    /\ Goes(c, "changed")
    /\ UNCHANGED <<auth, applied, sessions, cookie, chosen, now, granted, ended>>

Logout(c) ==
    /\ step[c] = "idle" /\ Unlocked /\ cookie[c] # 0
    /\ sessions' = {s \in sessions : s.id # cookie[c]}
    /\ ended' = ended \cup {cookie[c]}
    /\ cookie' = [cookie EXCEPT ![c] = 0]
    /\ UNCHANGED <<credential, step, chosen, now, breaks, granted>>

Tick ==
    /\ now < MaxNow /\ now' = now + 1
    /\ UNCHANGED <<credential, sessions, cookie, step, chosen, breaks, granted, ended>>

\* A file that cannot be read counts as none.
Parsed(found) == IF found = Torn THEN DefaultPassword ELSE found

\* The control plane ends at any point, also within the write, and starts
\* again.
RestartControl ==
    /\ Breaks
    /\ \E found \in IF Unlocked THEN {file} ELSE {file, Torn, auth} :
         /\ auth' = Parsed(found) /\ file' = Parsed(found)
         /\ unsaved' = (unsaved /\ Parsed(found) # applied)
    /\ sessions' = {} /\ ended' = Created
    /\ step' = [c \in Clients |-> "idle"]
    /\ UNCHANGED <<cookie, chosen, now, granted, applied>>

SessionNext ==
    \/ \E c \in Clients :
         \/ VerifyLogin(c) \/ CreateSession(c) \/ AllowChange(c) \/ ApplyChange(c)
         \/ WriteCredential(c) \/ Logout(c)
    \/ Authenticate \/ Tick \/ RestartControl

SessionSpec == SessionInit /\ [][SessionNext]_sessionVars

-----------------------------------------------------------------------------
(* Properties *)

\* The types of the variables; in particular a file that was cut short never
\* becomes the credential (auth.go:58-71).
SessionTypeOK ==
    /\ auth \in Credentials /\ applied \in Credentials /\ unsaved \in BOOLEAN
    /\ file \in Credentials \cup {Torn}
    /\ sessions \subseteq [id : Ids, expires : 0 .. MaxNow + TTL]
    /\ cookie \in [Clients -> Ids \cup {0}]
    /\ step \in [Clients -> {"idle", "verified", "allowed", "writing", "changed"}]
    /\ chosen \in [Clients -> Credentials]
    /\ now \in 0 .. MaxNow /\ breaks \in 0 .. MaxBreaks
    /\ granted \in [Ids -> {-1} \cup 0 .. MaxNow]
    /\ ended \subseteq Ids

\* A session is accepted exactly until it expires or is ended: by its logout,
\* by a change of the password after it was created, or by a restart.  No
\* order of the two halves of logins and changes loses a session or brings
\* one back (auth.go:95-179).
AcceptedUntilEnded ==
    \A id \in Created :
        Accepted(id) <=> id \notin ended /\ now <= granted[id] + TTL

\* The password that was set last is the one that is asked for, now and after
\* every restart, whichever changes ran at the same time; unless the file was
\* not written, which nobody is told of (auth.go:81-88).
ChangeLasts ==
    Unlocked /\ ~unsaved => auth = applied /\ file = applied
=============================================================================
