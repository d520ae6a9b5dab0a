----------------------------- MODULE RequestAuth -----------------------------
(***************************************************************************)
(* Signed requests of enrolled devices (device_auth.rs: middleware,        *)
(* session, and revoke_device of server.rs).  A request is verified,       *)
(* admitted by one of a few permits, its nonce recorded, its body read and *)
(* its right checked again before its handler runs; between any two of     *)
(* these the device may be revoked, its session may end or be evicted, and *)
(* the same proof may arrive again.                                        *)
(*                                                                         *)
(* The lookups before the signature is verified only give a key, and the   *)
(* admission checks all of them again, so that they are one step.  A proof *)
(* is named by its nonce; a session is a row with its rowid, which is one  *)
(* more than the largest in the table.  session() is no transaction: it    *)
(* holds the server's mutex, which the administrator's process does not    *)
(* know.  A client may go away at any time.  The workers of middleware     *)
(* keep the permit until they end, and the request is over at the next     *)
(* await (WaitTimeout, BodyFails, BodyRefused, Handled); the worker of     *)
(* session() goes on without it (ClientGone).  The limit of all workers    *)
(* (blocking_limit) would only delay them and is left out.                 *)
(***************************************************************************)
EXTENDS DeviceEnrollment

CONSTANTS
    Nonces,        \* proofs
    Tokens,        \* sessions; random, so that a new one is unknown to everybody
    Requests,      \* requests under way
    Free,          \* nobody holds the mutex
    Permits,       \* signed_request_limit
    SessionsKept,  \* 8, the rows that session() leaves with its own
    Past,          \* 60 seconds
    Future,        \* 30 seconds
    NonceLife,     \* 120 seconds
    SessionLife,   \* SESSION_SECONDS
    Skews,         \* differences of a client's clock
    MaxDelay       \* bound: time between the look at a proof's date and its record

ASSUME RequestAssumption ==
    /\ Free \notin Requests /\ Null \notin Tokens
    /\ Permits \in Nat \ {0} /\ SessionsKept \in Nat \ {0}
    /\ Past \in Nat /\ Future \in Nat /\ SessionLife \in Nat \ {0}
    /\ Skews \subseteq Int /\ MaxDelay \in Nat /\ NonceLife \in Nat
    /\ Past + Future + MaxDelay < NonceLife

VARIABLES
    proofs,        \* the proofs that clients have signed
    nonces,        \* table proof_nonces
    sessions,      \* table device_sessions
    req,           \* where each request is
    db,            \* who holds the mutex of the database over several steps
    served         \* how often the handler of each proof was run

requestVars == <<proofs, nonces, sessions, req, db, served>>
vars == <<now, enrollVars, requestVars>>

\* The stages of the worker of session().
SessionStages == {"session", "open", "insert"}
Stages ==
    {"idle", "verified", "waiting", "granted", "body", "received", "checked", "run"}
        \union SessionStages

\* The stages of a request that was admitted.
Admitted == {"granted", "body", "received", "checked", "run"} \union SessionStages

\* gone: the client has gone away while session() works;
\* void: the right to the request had ended when its body had come (history).
Request ==
    [stage : Stages, nonce : Nonces \union {Null}, since : 0 .. MaxTime + 1,
     gone : BOOLEAN, void : BOOLEAN]
Idle == [stage |-> "idle", nonce |-> Null, since |-> 0, gone |-> FALSE, void |-> FALSE]

PermitHolders == {r \in Requests : req[r].stage \in Admitted /\ ~req[r].gone}

\* Tables and requests have their types, and permits their limit.
TypeOK ==
    /\ EnrollTypeOK
    /\ proofs \in [Nonces -> [enrollment : Enrollments, token : Tokens \union {Null},
                              issued : Int] \union {Null}]
    /\ nonces \subseteq [nonce : Nonces, expires : 0 .. MaxTime + 1 + NonceLife]
    /\ sessions \subseteq [token : Tokens, enrollment : Enrollments, expires : Nat, rowid : Nat]
    /\ req \in [Requests -> Request]
    /\ db \in Requests \union {Free}
    /\ served \in [Nonces -> Nat]
    /\ Cardinality(PermitHolders) <= Permits

Init ==
    /\ EnrollInit
    /\ proofs = [n \in Nonces |-> Null]
    /\ nonces = {}
    /\ sessions = {}
    /\ req = [r \in Requests |-> Idle]
    /\ db = Free
    /\ served = [n \in Nonces |-> 0]

-----------------------------------------------------------------------------
(* The client. *)

\* A proof for a session request (no token) or for another one; the client need not
\* be approved yet, nor know that it was revoked.
Sign(n, e, k, skew) ==
    /\ proofs[n] = Null
    /\ e \in Rows
    /\ k = Null \/ \E s \in sessions : s.token = k /\ s.enrollment = e
    /\ proofs' = [proofs EXCEPT ![n] = [enrollment |-> e, token |-> k, issued |-> now + skew]]
    /\ UNCHANGED <<nonces, sessions, req, db, served>>

-----------------------------------------------------------------------------
(* middleware *)

CheckActiveSession(n) ==
    /\ Active(proofs[n].enrollment)
    /\ \/ proofs[n].token = Null
       \/ \E s \in sessions :
              /\ s.token = proofs[n].token /\ s.enrollment = proofs[n].enrollment
              /\ s.expires > now

\* verify_binding
Fresh(n) == proofs[n].issued >= now - Past /\ proofs[n].issued <= now + Future

At(r, stage) == req[r].stage = stage
Goes(r, stage) == req' = [req EXCEPT ![r].stage = stage]
Over(r) == req' = [req EXCEPT ![r] = Idle]

\* A proof arrives, for the first time or again.
Verify(r, n) ==
    /\ At(r, "idle")
    /\ proofs[n] # Null
    /\ CheckActiveSession(n)
    /\ Fresh(n)
    /\ req' = [req EXCEPT ![r] = [Idle EXCEPT !.stage = "verified", !.nonce = n,
                                                !.since = now]]
    /\ UNCHANGED <<proofs, nonces, sessions, db, served>>

\* A mutant of PermitFree: one body more than the limit.
PermitFreeOnce == Cardinality(PermitHolders) <= Permits

PermitFree == Cardinality(PermitHolders) < Permits

\* A mutant of NonceExpiry: the life of a proof, without its date in the future.
NonceExpiryShort == now + Past

NonceExpiry == now + NonceLife

\* record_proof_nonce, in one transaction with the check before it.
Kept == {x \in nonces : x.expires > now}
Unused(n) == \A x \in Kept : x.nonce # n
RecordProofNonce(n) ==
    /\ Unused(n)
    /\ nonces' = Kept \union {[nonce |-> n, expires |-> NonceExpiry]}

\* A permit is free: the nonce is recorded at once.
Admit(r) ==
    /\ At(r, "verified") /\ db = Free
    /\ CheckActiveSession(req[r].nonce)
    /\ PermitFree
    /\ RecordProofNonce(req[r].nonce)
    /\ Goes(r, "body")
    /\ UNCHANGED <<proofs, sessions, db, served>>

AdmitRefused(r) ==
    /\ At(r, "verified") /\ db = Free
    /\ ~CheckActiveSession(req[r].nonce) \/ (PermitFree /\ ~Unused(req[r].nonce))
    /\ Over(r)
    /\ UNCHANGED <<proofs, nonces, sessions, db, served>>

\* No permit: the worker and the database are given back.
AdmitWaits(r) ==
    /\ At(r, "verified") /\ db = Free
    /\ CheckActiveSession(req[r].nonce)
    /\ ~PermitFree
    /\ Goes(r, "waiting")
    /\ UNCHANGED <<proofs, nonces, sessions, db, served>>

Granted(r) ==
    /\ At(r, "waiting")
    /\ PermitFree
    /\ Goes(r, "granted")
    /\ UNCHANGED <<proofs, nonces, sessions, db, served>>

\* SIGNED_ADMISSION_TIMEOUT
WaitTimeout(r) ==
    /\ At(r, "waiting")
    /\ Over(r)
    /\ UNCHANGED <<proofs, nonces, sessions, db, served>>

RecordAfterWait(r) ==
    /\ At(r, "granted") /\ db = Free
    /\ CheckActiveSession(req[r].nonce)
    /\ RecordProofNonce(req[r].nonce)
    /\ Goes(r, "body")
    /\ UNCHANGED <<proofs, sessions, db, served>>

RefusedAfterWait(r) ==
    /\ At(r, "granted") /\ db = Free
    /\ ~(CheckActiveSession(req[r].nonce) /\ Unused(req[r].nonce))
    /\ Over(r)
    /\ UNCHANGED <<proofs, nonces, sessions, db, served>>

BodyReceived(r) ==
    /\ At(r, "body")
    /\ req' = [req EXCEPT ![r].stage = "received",
                          ![r].void = ~CheckActiveSession(req[r].nonce)]
    /\ UNCHANGED <<proofs, nonces, sessions, db, served>>

\* The body is late (REQUEST_BODY_TIMEOUT), too long or broken off.
BodyFails(r) ==
    /\ At(r, "body")
    /\ Over(r)
    /\ UNCHANGED <<proofs, nonces, sessions, db, served>>

\* A mutant of StillValid: the look at the headers is still trusted.
StillValidAlways(n) == TRUE

\* The last check, after the body.
StillValid(n) == CheckActiveSession(n)

Authorize(r) ==
    /\ At(r, "received") /\ db = Free
    /\ StillValid(req[r].nonce)
    /\ Goes(r, "checked")
    /\ UNCHANGED <<proofs, nonces, sessions, db, served>>

\* The same check fails, or the body has another digest.
BodyRefused(r) ==
    /\ At(r, "received") /\ db = Free
    /\ Over(r)
    /\ UNCHANGED <<proofs, nonces, sessions, db, served>>

-----------------------------------------------------------------------------
(* Handlers: session(), and any other, which ends by itself. *)

\* next.run, after the mutex was given back: what ends from now on is not seen.
Serve(r) ==
    /\ At(r, "checked")
    /\ served' = [served EXCEPT ![req[r].nonce] = @ + 1]
    /\ Goes(r, "run")
    /\ UNCHANGED <<proofs, nonces, sessions, db>>

\* The handler ends, refuses what it was sent, or is given up.
Handled(r) ==
    /\ At(r, "checked") \/ At(r, "run")
    /\ Over(r)
    /\ UNCHANGED <<proofs, nonces, sessions, db, served>>

\* The worker of session() fixes the expiry before it has the database.
SessionStarts(r) ==
    /\ At(r, "run")
    /\ proofs[req[r].nonce].token = Null
    /\ req' = [req EXCEPT ![r].stage = "session", ![r].since = now]
    /\ UNCHANGED <<proofs, nonces, sessions, db, served>>

\* The client goes away: the permit is given back while the worker of session() goes on.
ClientGone(r) ==
    /\ req[r].stage \in SessionStages /\ ~req[r].gone
    /\ req' = [req EXCEPT ![r].gone = TRUE]
    /\ UNCHANGED <<proofs, nonces, sessions, db, served>>

\* A mutant of Locks: the statements of session() without the mutex around them.
LocksNothing(r) == db' = db

\* The mutex is held until the row is inserted.
Locks(r) == db' = r

\* The expired rows go, and the device is checked once more.
SessionChecks(r) ==
    /\ At(r, "session") /\ db = Free
    /\ sessions' = {s \in sessions : s.expires > now}
    /\ IF Active(proofs[req[r].nonce].enrollment)
       THEN Goes(r, "open") /\ Locks(r)
       ELSE Over(r) /\ db' = db
    /\ UNCHANGED <<proofs, nonces, served>>

\* The rows of an enrolment, and those of them that come before s in the query
\* (ORDER BY expires_at DESC, rowid DESC): a worker that had to wait may insert a
\* row that expires before an older one.
Own(e) == {s \in sessions : s.enrollment = e}
Younger(s) ==
    {x \in Own(s.enrollment) :
        \/ x.expires > s.expires
        \/ x.expires = s.expires /\ x.rowid > s.rowid}

\* A mutant of Evicted: the offset of the limit itself.
EvictedLate(e) == {s \in Own(e) : Cardinality(Younger(s)) >= SessionsKept}

\* All but the SessionsKept - 1 youngest.
Evicted(e) == {s \in Own(e) : Cardinality(Younger(s)) >= SessionsKept - 1}

\* Room is made; the administrator may be quicker, here and before the row is inserted.
SessionEvicts(r) ==
    /\ At(r, "open")
    /\ sessions' = sessions \ Evicted(proofs[req[r].nonce].enrollment)
    /\ Goes(r, "insert")
    /\ UNCHANGED <<proofs, nonces, db, served>>

\* Tokens that no row and no client has.
Unknown ==
    Tokens \ ({s.token : s \in sessions} \union
              {proofs[n].token : n \in {m \in Nonces : proofs[m] # Null}})

SessionInserts(r) ==
    /\ At(r, "insert")
    /\ \E k \in Unknown, i \in {1} \union {s.rowid + 1 : s \in sessions} :
           /\ \A s \in sessions : s.rowid < i
           /\ sessions' = sessions \union
                  {[token |-> k, enrollment |-> proofs[req[r].nonce].enrollment,
                    expires |-> req[r].since + SessionLife, rowid |-> i]}
    /\ db' = Free
    /\ Over(r)
    /\ UNCHANGED <<proofs, nonces, served>>

-----------------------------------------------------------------------------
\* revoke_device: the device and its sessions, in one transaction.
Revoke(d) ==
    /\ RevokeRow(d)
    /\ sessions' = {s \in sessions : enrollments[s.enrollment].device # d}
    /\ UNCHANGED <<proofs, nonces, req, db, served>>

\* The server stops at any time and starts again; the tables stay.
Restart ==
    /\ req' = [r \in Requests |-> Idle]
    /\ db' = Free
    /\ StartsLost
    /\ UNCHANGED <<now, proofs, nonces, sessions, served>>

\* Time does not pass beyond what a request may take to record its nonce.
TimePasses ==
    /\ Tick
    /\ \A r \in Requests :
           req[r].stage \in {"verified", "waiting", "granted"} => now - req[r].since < MaxDelay
    /\ UNCHANGED <<enrollVars, requestVars>>

Admission(r) ==
    \/ Admit(r) \/ AdmitRefused(r) \/ AdmitWaits(r)
    \/ Granted(r) \/ WaitTimeout(r) \/ RecordAfterWait(r) \/ RefusedAfterWait(r)
Handling(r) ==
    \/ BodyReceived(r) \/ BodyFails(r) \/ Authorize(r) \/ BodyRefused(r)
    \/ Serve(r) \/ Handled(r) \/ ClientGone(r)
    \/ SessionStarts(r) \/ SessionChecks(r) \/ SessionEvicts(r) \/ SessionInserts(r)

Client ==
    \E n \in Nonces :
        \/ \E e \in Enrollments, k \in Tokens \union {Null}, skew \in Skews : Sign(n, e, k, skew)
        \/ \E r \in Requests : Verify(r, n)

Next ==
    \/ Admin /\ UNCHANGED <<now, requestVars>>
    \/ db = Free /\ EnrollServer /\ UNCHANGED <<now, requestVars>>
    \/ (Client \/ \E r \in Requests : Admission(r) \/ Handling(r)) /\ UNCHANGED <<now, enrollVars>>
    \/ \E d \in Devices : Revoke(d) /\ UNCHANGED now
    \/ Restart
    \/ TimePasses

Spec == Init /\ [][Next]_vars

-----------------------------------------------------------------------------
(* The handler of a proof is run once, however often it arrives, across    *)
(* restarts and while it waits for a permit: the nonce must outlive the    *)
(* last moment at which another copy that passed the look at its date is   *)
(* recorded.                                                               *)
ServedOnce == \A n \in Nonces : served[n] <= 1

(* A device that was revoked, or whose session ended, before the body of a *)
(* request had come is seen, however long before the right was found good  *)
(* and although session() may insert a row after revoke_device has deleted *)
(* those of the device: the request gets to no handler.  (A right that     *)
(* ends after the body has come may be seen too late.)                     *)
VoidNotServed ==
    \A r \in Requests :
        req[r].stage \in {"checked", "run"} \union SessionStages => ~req[r].void

(* An enrolment has at most SessionsKept sessions, although session()      *)
(* makes room and inserts in separate statements, several of its workers   *)
(* may be under way, some with a permit and some whose client has gone,    *)
(* rows expire together, and revocation may come between.                  *)
SessionsLimited == \A e \in Enrollments : Cardinality(Own(e)) <= SessionsKept
=============================================================================
