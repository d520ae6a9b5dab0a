----------------------------- MODULE WebSession -----------------------------
(***************************************************************************)
(* Access of a browser: the file pages (atlas.js) and the status page      *)
(* (status.js) of one browser, the web sessions, challenges and grants of  *)
(* the server (web_status.rs, web_files.rs), and the clients that prove a  *)
(* device.  The tabs share the browser's cookies, so that a step of one    *)
(* changes what the others may still do.                                   *)
(*                                                                         *)
(* A verification goes from stage to stage.  A request is answered in one  *)
(* step, or fails at any time: it has a time limit.  Where the answer may  *)
(* be overtaken (restore, logout) being served is a step of its own.  Once *)
(* a ticket is handed to the local client its proof may come at any time,  *)
(* also after the page has given up.  Rows that have expired are never     *)
(* looked at again: they go with the tick of the clock, before purge().    *)
(***************************************************************************)
EXTENDS Integers, Sequences, FiniteSets

CONSTANTS
    FileTabs,        \* tabs on /files or /editor
    StatusTabs,      \* tabs on /status
    Windows,         \* sets of tabs that may be open together
    Devices,         \* approved devices whose client may run on this PC
    Null,            \* nothing
    FilesLife,       \* FILES_SESSION_SECONDS
    SessionLife,     \* SESSION_SECONDS
    PresenceLife,    \* PRESENCE_SECONDS
    ChallengeLife,   \* CHALLENGE_SECONDS
    MaxTime,         \* bound: ticks of the clock
    MaxSessions,     \* bound: web sessions created
    MaxChallenges    \* bound: challenges issued

ASSUME TabsAssumption ==
    FileTabs \intersect StatusTabs = {} /\ Windows \subseteq SUBSET (FileTabs \union StatusTabs)
ASSUME NullAssumption == Null \notin Devices
\* The pages that were loaded first have a session of each kind.
ASSUME LivesAssumption ==
    /\ {FilesLife, SessionLife, PresenceLife, ChallengeLife, MaxTime, MaxSessions, MaxChallenges}
         \subseteq Nat
    /\ MaxSessions >= 2

Tabs == FileTabs \union StatusTabs
Kind(t) == IF t \in FileTabs THEN "files" ELSE "status"

VARIABLES
    open,        \* the tabs that are open
    now,         \* the clock
    rows,        \* web_status_sessions with their grants, in order of creation
    challenges,  \* web_status_challenges, in order of creation
    jar,         \* the cookie of each kind, 0 when there is none
    session,     \* what each tab shows: a files session or a presence
    verifying,   \* verification (or authorizeUpload) of each tab
    restoring,   \* restore() of each tab
    out,         \* the logout of each tab
    mail,        \* "logout" messages on their way to each tab
    gone,        \* sessions each tab has learned to be over
    previous     \* of the status pages

serverVars == <<rows, challenges, jar>>
tabVars == <<session, verifying, restoring, out, mail, gone, previous>>
vars == <<open, now, serverVars, tabVars>>

Scopes == {"files.read", "files.write", "status.read"}
Grant == [device : Devices, expires : Nat]
Row == [expires : Nat, read : Grant \union {Null}, write : Grant \union {Null}]
Challenge ==
    [sid : Nat, scope : Scopes, expires : Nat,
     expected : Devices \union {Null}, proof : Grant \union {Null}]

TypeOK ==
    /\ open \in Windows /\ now \in 0..MaxTime
    /\ rows \in Seq(Row \union {Null}) /\ Len(rows) <= MaxSessions
    /\ challenges \in Seq(Challenge \union {Null}) /\ Len(challenges) <= MaxChallenges
    /\ jar \in [{"files", "status"} -> 0..Len(rows)]
    /\ session \in [Tabs -> [sid : 1..Len(rows), expires : Nat, device : Devices] \union {Null}]
    /\ verifying \in [Tabs ->
         [at : {"session", "challenge", "local", "cancel"}, scope : Scopes,
          id : 0..Len(challenges)] \union {Null}]
    /\ restoring \in [Tabs -> [sid : 0..Len(rows), at : {"sent", "served"},
                               answer : Grant \union {Null}] \union {Null}]
    /\ out \in [Tabs -> [sid : 0..Len(rows), at : {"sent", "served", "failed"},
                         over : BOOLEAN] \union {Null}]
    /\ mail \in [Tabs -> SUBSET (0..Len(rows))] /\ gone \in [Tabs -> SUBSET (0..Len(rows))]
    /\ previous \in [Tabs -> Grant \union {Null}]

NewRow == [expires |-> now + SessionLife, read |-> Null, write |-> Null]
ReadUntil(d, time) == [device |-> d, expires |-> time]
RestoreWith(sid) == [sid |-> sid, at |-> "sent", answer |-> Null]

\* The pages have just been loaded; a device may have opened the files before.
Init ==
    /\ open \in Windows /\ now = 0 /\ challenges = <<>>
    /\ \E g \in {ReadUntil(d, FilesLife) : d \in Devices} \union {Null} :
         rows = <<IF g = Null THEN NewRow ELSE [NewRow EXCEPT !.expires = FilesLife, !.read = g],
                  NewRow>>
    /\ jar = [files |-> 1, status |-> 2]
    /\ session = [t \in Tabs |-> Null] /\ verifying = [t \in Tabs |-> Null]
    /\ restoring = [t \in Tabs |-> IF t \in open \ StatusTabs THEN RestoreWith(1) ELSE Null]
    /\ out = [t \in Tabs |-> Null]
    /\ mail = [t \in Tabs |-> {}] /\ gone = [t \in Tabs |-> {}]
    /\ previous = [t \in Tabs |-> Null]

Lesser(a, b) == IF a < b THEN a ELSE b
-----------------------------------------------------------------------------
(* The server. *)

Valid(sid) == sid # 0 /\ rows[sid] # Null /\ rows[sid].expires > now        \* named_session
Holds(grant) == grant # Null /\ grant.expires > now
Authorized(sid) == Valid(sid) /\ Holds(rows[sid].read)                     \* authorize

\* Deleting a session deletes its grants and challenges: ON DELETE CASCADE.
Without(sids) ==
    /\ rows' = [s \in 1..Len(rows) |-> IF s \in sids THEN Null ELSE rows[s]]
    /\ challenges' = [c \in 1..Len(challenges) |->
         IF challenges[c] # Null /\ challenges[c].sid \in sids THEN Null ELSE challenges[c]]

Ended == {s \in 1..Len(rows) : rows[s] # Null /\ rows[s].expires <= now + 1}

\* page_response: a cookie that names no session is replaced, up to MAX_SESSIONS.
PageResponse ==
    IF Valid(jar["files"]) THEN UNCHANGED <<rows, jar>>
    ELSE /\ Len(rows) < MaxSessions /\ rows' = Append(rows, NewRow)
         /\ jar' = [jar EXCEPT !["files"] = Len(rows) + 1]

\* Mutant of Expected: the device of the presence that is shown is not asked for.
ExpectedAny(t, scope) ==
    IF scope = "files.write" THEN rows[jar["files"]].read.device ELSE Null

\* The device a challenge is meant for.
Expected(t, scope) ==
    CASE scope = "files.write" -> rows[jar["files"]].read.device
      [] scope = "status.read" /\ Holds(previous[t]) -> previous[t].device
      [] OTHER -> Null

\* issue_challenge
Issued(t, scope) ==
    LET sid == jar[Kind(t)]
    IN /\ Valid(sid) /\ (scope = "files.write" => Authorized(sid))
       /\ Len(challenges) < MaxChallenges
       /\ challenges' = Append(challenges,
            [sid |-> sid, scope |-> scope, proof |-> Null, expected |-> Expected(t, scope),
             expires |-> Lesser(now + ChallengeLife, rows[sid].expires)])

\* Mutant of ReadRow: a new proof of reading leaves the other grants as they are.
ReadRowKeeps(row, g) == [row EXCEPT !.expires = g.expires, !.read = g]

\* A proof of reading makes the session last and takes the other grants back.
ReadRow(row, g) == [expires |-> g.expires, read |-> g, write |-> Null]

\* accept_proof: the challenge is consumed in the transaction that grants.
Proof(c, d) ==
    LET ch == challenges[c]
        row == rows[ch.sid]
    IN /\ ch # Null /\ ch.proof = Null /\ ch.expires > now /\ Valid(ch.sid)
       /\ ch.expected \in {d, Null}
       /\ challenges' = [challenges EXCEPT ![c].proof =
            [device |-> d, expires |-> Lesser(now + PresenceLife, row.expires)]]
       /\ \/ /\ ch.scope = "files.read"
             /\ rows' = [rows EXCEPT ![ch.sid] =
                  ReadRow(row, [device |-> d, expires |-> now + FilesLife])]
          \/ /\ ch.scope = "files.write" /\ Holds(row.read) /\ row.read.device = d
             /\ rows' = [rows EXCEPT ![ch.sid].write = row.read]
          \/ ch.scope = "status.read" /\ UNCHANGED rows
       /\ UNCHANGED <<open, now, jar, tabVars>>
-----------------------------------------------------------------------------
(* The file pages. *)

\* Mutant of LockTab: the epoch stays, so that restore() takes its answer for current.
LockTabSameEpoch(t) ==
    /\ session' = [session EXCEPT ![t] = Null]
    /\ verifying' = [verifying EXCEPT ![t] = IF @ # Null /\ @.at = "cancel" THEN @ ELSE Null]
    /\ UNCHANGED restoring

\* lock(): requests with a signal are aborted; the logout of a cancelled verification goes
\* on; restore() goes on too, but its answer counts for nothing in the new epoch.
LockTab(t) ==
    /\ session' = [session EXCEPT ![t] = Null]
    /\ verifying' = [verifying EXCEPT ![t] = IF @ # Null /\ @.at = "cancel" THEN @ ELSE Null]
    /\ restoring' = [restoring EXCEPT ![t] = Null]

\* The button that verifies is enabled again, the one that logs out is hidden.
LockOut(t) ==
    out' = [out EXCEPT ![t] =
              IF @ = Null \/ @.at = "failed" THEN Null ELSE [@ EXCEPT !.over = TRUE]]

\* The timer of the session, or the page that becomes visible again.
Expire(t) ==
    /\ t \in FileTabs /\ session[t] # Null /\ session[t].expires <= now
    /\ LockTab(t) /\ LockOut(t)
    /\ UNCHANGED <<open, now, serverVars, mail, gone, previous>>

\* A request of the page (Explorer, EditorPage) was refused: session_expired.
Refused(t) ==
    /\ t \in FileTabs /\ session[t] # Null /\ ~Authorized(jar["files"])
    /\ LockTab(t) /\ LockOut(t)
    /\ UNCHANGED <<open, now, serverVars, mail, gone, previous>>

Broadcast(t) ==
    /\ mail[t] # {} /\ mail' = [mail EXCEPT ![t] = {}]
    /\ gone' = [gone EXCEPT ![t] = @ \union mail[t]]
    /\ LockTab(t) /\ LockOut(t)
    /\ UNCHANGED <<open, now, serverVars, previous>>

\* The page is left and shown again.  With requests in flight it is not kept by the
\* browser but loaded anew, which ends them; the logout may have been served or not.
Revisit(t) ==
    /\ t \in FileTabs /\ PageResponse
    /\ session' = [session EXCEPT ![t] = Null] /\ verifying' = [verifying EXCEPT ![t] = Null]
    /\ out' = [out EXCEPT ![t] = Null] /\ mail' = [mail EXCEPT ![t] = {}]
    /\ restoring' = [restoring EXCEPT ![t] = RestoreWith(jar'["files"])]
    /\ gone' = [gone EXCEPT ![t] = {}]
    /\ UNCHANGED <<open, now, challenges, previous>>

RestoreServed(t) ==
    /\ restoring[t] # Null /\ restoring[t].at = "sent"
    /\ LET sid == restoring[t].sid
           answer == IF Authorized(sid) THEN rows[sid].read ELSE Null
       IN restoring' = [restoring EXCEPT ![t].at = "served", ![t].answer = answer]
    /\ UNCHANGED <<open, now, serverVars, session, verifying, out, mail, gone, previous>>

\* acceptSession(): unless it has expired.
Shown(sid, grant) == [sid |-> sid, expires |-> grant.expires, device |-> grant.device]

Restored(t) ==
    /\ restoring[t] # Null /\ restoring' = [restoring EXCEPT ![t] = Null]
    /\ IF Holds(restoring[t].answer)
       THEN session' = [session EXCEPT ![t] = Shown(restoring[t].sid, restoring[t].answer)]
       ELSE UNCHANGED session
    /\ UNCHANGED <<open, now, serverVars, verifying, out, mail, gone, previous>>

Logout(t) ==
    /\ t \in FileTabs
    /\ \/ session[t] # Null /\ out[t] = Null                 \* bound: one at a time
       \/ out[t] # Null /\ out[t].at = "failed"
    /\ LockTab(t)
    /\ out' = [out EXCEPT ![t] = [sid |-> jar["files"], at |-> "sent", over |-> FALSE]]
    /\ UNCHANGED <<open, now, serverVars, mail, gone, previous>>

LogoutServed(t) ==
    /\ out[t] # Null /\ out[t].at = "sent" /\ out' = [out EXCEPT ![t].at = "served"]
    /\ Without({out[t].sid}) /\ jar' = [jar EXCEPT !["files"] = 0]
    /\ UNCHANGED <<open, now, session, verifying, restoring, mail, gone, previous>>

\* The other tabs are told.  This one may have been verified anew in the meantime.
LoggedOut(t) ==
    /\ out[t] # Null /\ out[t].at = "served" /\ out' = [out EXCEPT ![t] = Null]
    /\ mail' = [u \in Tabs |->
                  IF u \in FileTabs \ {t} THEN mail[u] \union {out[t].sid} ELSE mail[u]]
    /\ gone' = IF session[t] = Null THEN [gone EXCEPT ![t] = @ \union {out[t].sid}] ELSE gone
    /\ UNCHANGED <<open, now, serverVars, session, verifying, restoring, previous>>

LogoutFails(t) ==
    /\ out[t] # Null /\ out[t].at # "failed"
    /\ out' = [out EXCEPT ![t] = [sid |-> 0, at |-> "failed", over |-> FALSE]]
    /\ UNCHANGED <<open, now, serverVars, session, verifying, restoring, mail, gone, previous>>
-----------------------------------------------------------------------------
(* Verification: of a file page, of a status page, and authorizeUpload(). *)

At(t, at) == verifying[t] # Null /\ verifying[t].at = at
Begin(t, at, scope) ==
    verifying' = [verifying EXCEPT ![t] = [at |-> at, scope |-> scope, id |-> 0]]

\* file-verify: enabled, and on the access screen.  First the local client is probed.
Verify(t) ==
    /\ t \in FileTabs /\ session[t] = Null /\ verifying[t] = Null
    /\ out[t] # Null => (out[t].at = "failed" \/ out[t].over)
    /\ Begin(t, "session", "files.read")
    /\ UNCHANGED <<open, now, serverVars, session, restoring, out, mail, gone, previous>>

\* The result of the last check goes away at once.
StatusVerify(t) ==
    /\ t \in StatusTabs /\ verifying[t] = Null
    /\ Begin(t, "challenge", "status.read") /\ session' = [session EXCEPT ![t] = Null]
    /\ UNCHANGED <<open, now, serverVars, restoring, out, mail, gone, previous>>

\* authorizeUpload(), and authorize() of the editor: nothing to prove when granted.
Elevate(t) ==
    /\ t \in FileTabs /\ session[t] # Null /\ verifying[t] = Null
    /\ Authorized(jar["files"]) /\ ~Holds(rows[jar["files"]].write)
    /\ Begin(t, "challenge", "files.write")
    /\ UNCHANGED <<open, now, serverVars, session, restoring, out, mail, gone, previous>>

SessionStarted(t) ==
    /\ At(t, "session") /\ PageResponse
    /\ verifying' = [verifying EXCEPT ![t].at = "challenge"]
    /\ UNCHANGED <<open, now, challenges, session, restoring, out, mail, gone, previous>>

ChallengeServed(t) ==
    /\ At(t, "challenge") /\ Issued(t, verifying[t].scope)
    /\ verifying' = [verifying EXCEPT ![t].at = "local", ![t].id = Len(challenges) + 1]
    /\ UNCHANGED <<open, now, rows, jar, session, restoring, out, mail, gone, previous>>

\* The local client has answered, well or not, or its answer is lost: in every case one
\* lookup, of the challenge that was issued to this session.
Proved(t) ==
    LET sid == jar[Kind(t)]
        ch == challenges[verifying[t].id]
    IN At(t, "local") /\ Valid(sid) /\ ch # Null /\ ch.sid = sid /\ ch.proof # Null

\* challenge_result and acceptSession()
LookedUp(t) ==
    LET sid == jar["files"]
    IN /\ Proved(t) /\ verifying[t].scope = "files.read" /\ Authorized(sid)
       /\ session' = [session EXCEPT ![t] = Shown(sid, rows[sid].read)]
       /\ verifying' = [verifying EXCEPT ![t] = Null]
       /\ UNCHANGED <<open, now, serverVars, restoring, out, mail, gone, previous>>

Elevated(t) ==
    /\ Proved(t) /\ verifying[t].scope = "files.write"
    /\ verifying' = [verifying EXCEPT ![t] = Null]
    /\ UNCHANGED <<open, now, serverVars, session, restoring, out, mail, gone, previous>>

\* read_challenge and showPresence()
StatusLookedUp(t) ==
    LET proof == challenges[verifying[t].id].proof
    IN /\ Proved(t) /\ verifying[t].scope = "status.read" /\ Holds(proof)
       /\ session' = [session EXCEPT ![t] = Shown(jar["status"], proof)]
       /\ previous' = [previous EXCEPT ![t] = proof]
       /\ verifying' = [verifying EXCEPT ![t] = Null]
       /\ UNCHANGED <<open, now, serverVars, restoring, out, mail, gone>>

\* Refused, pending, out of time; given up where nothing has to be taken back; or the
\* logout of a cancelled one that was not served.
VerifyFails(t) ==
    /\ t \in FileTabs /\ verifying[t] # Null /\ verifying' = [verifying EXCEPT ![t] = Null]
    /\ UNCHANGED <<open, now, serverVars, session, restoring, out, mail, gone, previous>>

\* The same on a status page, cancelled by its user or not.
StatusFails(t) ==
    /\ t \in StatusTabs /\ verifying[t] # Null /\ verifying' = [verifying EXCEPT ![t] = Null]
    /\ UNCHANGED <<open, now, serverVars, session, restoring, out, mail, gone, previous>>

\* file-cancel logs out: the local client may have proved the device already.
Cancel(t) ==
    /\ verifying[t] # Null /\ verifying[t].scope = "files.read" /\ session[t] = Null
    /\ verifying[t].at # "cancel" /\ verifying' = [verifying EXCEPT ![t].at = "cancel"]
    /\ UNCHANGED <<open, now, serverVars, session, restoring, out, mail, gone, previous>>

CancelServed(t) ==
    /\ At(t, "cancel") /\ Without({jar["files"]}) /\ jar' = [jar EXCEPT !["files"] = 0]
    /\ verifying' = [verifying EXCEPT ![t] = Null]
    /\ UNCHANGED <<open, now, session, restoring, out, mail, gone, previous>>

\* The timer of a presence.
PresenceExpires(t) ==
    /\ t \in StatusTabs /\ session[t] # Null /\ session[t].expires <= now
    /\ session' = [session EXCEPT ![t] = Null] /\ previous' = [previous EXCEPT ![t] = Null]
    /\ UNCHANGED <<open, now, serverVars, verifying, restoring, out, mail, gone>>
-----------------------------------------------------------------------------
Tick ==
    /\ now < MaxTime /\ now' = now + 1
    /\ Without(Ended) /\ UNCHANGED <<open, jar, tabVars>>

VerificationGoesOn(t) ==
    \/ SessionStarted(t) \/ ChallengeServed(t) \/ LookedUp(t) \/ Elevated(t)
    \/ StatusLookedUp(t) \/ VerifyFails(t) \/ StatusFails(t)
Timer(t) == Expire(t) \/ PresenceExpires(t)

Next ==
    \/ Tick
    \/ \E c \in 1..Len(challenges), d \in Devices : Proof(c, d)
    \/ \E t \in open :
         \/ VerificationGoesOn(t) \/ Timer(t) \/ CancelServed(t) \/ Cancel(t)
         \/ Verify(t) \/ StatusVerify(t) \/ Elevate(t)
         \/ Refused(t) \/ Broadcast(t) \/ Revisit(t) \/ RestoreServed(t) \/ Restored(t)
         \/ Logout(t) \/ LogoutServed(t) \/ LoggedOut(t) \/ LogoutFails(t)

Spec == Init /\ [][Next]_vars
-----------------------------------------------------------------------------
(* Properties. *)

\* A tab that has learned of a logout, its own or another tab's, never shows that session
\* again: the answer of a restore() that was under way does not bring it back.
HiddenAfterLogout ==
    \A t \in FileTabs : session[t] # Null => session[t].sid \notin gone[t]

\* The authority to write belongs to the device that opened the session to read, whatever
\* proofs arrive late or from another device, and does not outlive it.
GrantsOfOneDevice ==
    \A s \in 1..Len(rows) :
        (rows[s] # Null /\ rows[s].write # Null) => rows[s].read = rows[s].write

\* A presence that is refreshed before it ends stays the presence of the same device.
RefreshKeepsDevice ==
    [][\A t \in StatusTabs :
         (session'[t] # Null /\ session'[t] # session[t] /\ Holds(previous[t]))
             => session'[t].device = previous[t].device]_vars
-----------------------------------------------------------------------------
(* The inductive invariant behind these properties. *)

Over(s) == s = 0 \/ rows[s] = Null

\* While a tab logs out it restores nothing: lock() and the new epoch come first.
LogoutShape ==
    \A t \in Tabs : out[t] # Null =>
        /\ restoring[t] = Null
        /\ out[t].at = "served" => Over(out[t].sid)

\* What a tab was told, or is about to be told, is true, and stays true: the number of a
\* session is not used again.
ToldTrue == \A t \in Tabs : \A s \in mail[t] \union gone[t] : Over(s)

RestoreShape ==
    \A t \in Tabs : restoring[t] # Null =>
        /\ t \in FileTabs
        /\ restoring[t].sid \notin gone[t]
        /\ restoring[t].answer # Null => restoring[t].sid # 0

StatusShape ==
    \A t \in Tabs : verifying[t] # Null =>
        (t \in StatusTabs <=> verifying[t].scope = "status.read")

\* A challenge belongs to a session there is or was, and its proof is by the device it
\* was meant for.
ProvedAsMeant ==
    \A c \in 1..Len(challenges) : challenges[c] # Null =>
         /\ challenges[c].sid \in 1..Len(rows)
         /\ challenges[c].proof # Null =>
              challenges[c].expected \in {challenges[c].proof.device, Null}

\* What a status page is going to look up was meant for the device it still shows.
LookupMeant ==
    /\ \A t \in Tabs : At(t, "local") => verifying[t].id # 0
    /\ \A t \in StatusTabs :
         (At(t, "local") /\ challenges[verifying[t].id] # Null /\ Holds(previous[t]))
             => challenges[verifying[t].id].expected = previous[t].device

Inv ==
    /\ TypeOK
    /\ LogoutShape
    /\ ToldTrue
    /\ RestoreShape
    /\ StatusShape
    /\ ProvedAsMeant
    /\ LookupMeant
    /\ HiddenAfterLogout
    /\ GrantsOfOneDevice
=============================================================================
