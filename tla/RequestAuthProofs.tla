-------------------------- MODULE RequestAuthProofs --------------------------
(* Theorems about RequestAuth, for every value of its constants. *)
EXTENDS RequestAuth, DeviceEnrollmentProofs, FiniteSetTheorems, WellFoundedInduction

-----------------------------------------------------------------------------
(* Requests and enrolment together do what enrolment does alone. *)

LEMMA RequestStepEnrolls == [Next]_vars => [EnrollNext]_<<now, enrollVars>>
<1> SUFFICES ASSUME [Next]_vars PROVE [EnrollNext]_<<now, enrollVars>>
  OBVIOUS
<1>1. CASE Admin /\ UNCHANGED <<now, requestVars>>
  BY <1>1 DEF EnrollNext
<1>2. CASE db = Free /\ EnrollServer /\ UNCHANGED <<now, requestVars>>
  BY <1>2 DEF EnrollNext
<1>3. CASE (Client \/ \E r \in Requests : Admission(r) \/ Handling(r))
           /\ UNCHANGED <<now, enrollVars>>
  BY <1>3
<1>4. CASE \E d \in Devices : Revoke(d) /\ UNCHANGED now
  BY <1>4 DEF Revoke, EnrollNext
<1>5. CASE Restart
  BY <1>5 DEF Restart, EnrollNext
<1>6. CASE TimePasses
  BY <1>6 DEF TimePasses, EnrollNext
<1>7. CASE UNCHANGED vars
  BY <1>7 DEF vars
<1> QED BY <1>1, <1>2, <1>3, <1>4, <1>5, <1>6, <1>7 DEF Next

(* The requests of devices, revocation with its sessions and restarts      *)
(* leave the promises of enrolment as they are: every behaviour of the     *)
(* composition is one of EnrollSpec.                                       *)
THEOREM RequestsImplementEnrollment == Spec => EnrollSpec
<1>1. Init => EnrollInit
  BY DEF Init
<1> QED BY <1>1, RequestStepEnrolls, PTL DEF Spec, EnrollSpec

-----------------------------------------------------------------------------
(* A proof is served once. *)

\* The requests that are going to record n, and those that did and are not yet served.
Before(r, n) == req[r].nonce = n /\ req[r].stage \in {"verified", "waiting", "granted"}
Between(r, n) == req[r].nonce = n /\ req[r].stage \in {"body", "received", "checked"}

\* A request without the bound on the clock.
AnyRequest ==
    [stage : Stages, nonce : Nonces \union {Null}, since : Nat, gone : BOOLEAN, void : BOOLEAN]

\* The parts of the types that the argument needs.
RequestTypes ==
    /\ now \in Nat
    /\ proofs \in [Nonces -> [enrollment : Enrollments, token : Tokens \union {Null},
                              issued : Int] \union {Null}]
    /\ nonces \subseteq [nonce : Nonces, expires : Nat]
    /\ req \in [Requests -> AnyRequest]
    /\ served \in [Nonces -> Nat]

\* A request that has not recorded its nonce looked at its date a short time ago.
LooksRecent ==
    \A r \in Requests, n \in Nonces : Before(r, n) =>
        /\ proofs[n] # Null
        /\ req[r].since <= now /\ now <= req[r].since + MaxDelay
        /\ proofs[n].issued >= req[r].since - Past
        /\ proofs[n].issued <= req[r].since + Future

\* A recorded nonce stays in the table until every look at its date is long over.
NonceKept ==
    \A n \in Nonces :
        served[n] > 0 \/ (\E r \in Requests : Between(r, n)) =>
            /\ proofs[n] # Null
            /\ \/ \E x \in nonces :
                      x.nonce = n /\ x.expires >= proofs[n].issued - Future + NonceLife
               \/ now >= proofs[n].issued - Future + NonceLife

\* A proof has one request that recorded it, or was served, but not both.
OneOwner ==
    \A n \in Nonces :
        /\ served[n] <= 1
        /\ \A r \in Requests : Between(r, n) => served[n] = 0
        /\ \A r, q \in Requests : Between(r, n) /\ Between(q, n) => r = q

\* A request under way has a proof.
Named == \A r \in Requests : req[r].stage # "idle" => req[r].nonce \in Nonces

OnceInv == RequestTypes /\ Named /\ LooksRecent /\ NonceKept /\ OneOwner

\* A request that is going to record a nonce finds it in the table if it was ever recorded.
LEMMA RecordedIsSeen ==
  ASSUME OnceInv, NEW r \in Requests, NEW n \in Nonces, Before(r, n), Unused(n)
  PROVE  served[n] = 0 /\ \A q \in Requests : ~Between(q, n)
<1>1. proofs[n] # Null /\ proofs[n].issued \in Int /\ req[r].since \in Nat /\ now \in Nat
  BY DEF OnceInv, RequestTypes, AnyRequest, LooksRecent
<1>2. now < proofs[n].issued - Future + NonceLife
  BY <1>1, RequestAssumption DEF OnceInv, LooksRecent
<1>3. ~ \E x \in nonces : x.nonce = n /\ x.expires >= proofs[n].issued - Future + NonceLife
  <2> SUFFICES ASSUME NEW x \in nonces, x.nonce = n,
                      x.expires >= proofs[n].issued - Future + NonceLife
               PROVE  FALSE
    OBVIOUS
  <2>1. x.expires \in Nat
    BY DEF OnceInv, RequestTypes
  <2>2. x.expires > now
    BY <1>1, <1>2, <2>1, RequestAssumption
  <2> QED BY <2>2 DEF Unused, Kept
<1>4. ~(served[n] > 0 \/ \E q \in Requests : Between(q, n))
  BY <1>1, <1>2, <1>3, RequestAssumption DEF OnceInv, NonceKept
<1> QED BY <1>4 DEF OnceInv, RequestTypes

LEMMA OnceInit == Init => OnceInv
<1> SUFFICES ASSUME Init PROVE OnceInv
  OBVIOUS
<1>1. Idle \in AnyRequest /\ Idle.stage = "idle"
  BY DEF Idle, AnyRequest, Stages
<1>2. \A r \in Requests : req[r] = Idle
  BY DEF Init
<1>3. RequestTypes
  BY <1>1 DEF Init, EnrollInit, RequestTypes
<1>4. Named /\ LooksRecent
  BY <1>1, <1>2 DEF Named, LooksRecent, Before
<1>5. NonceKept /\ OneOwner
  BY <1>1, <1>2 DEF Init, NonceKept, OneOwner, Between
<1> QED BY <1>3, <1>4, <1>5 DEF OnceInv

\* Steps that neither concern a proof nor move a request.
LEMMA OnceUnchanged ==
  ASSUME OnceInv, UNCHANGED <<now, proofs, nonces, req, served>>
  PROVE  OnceInv'
  BY DEF OnceInv, RequestTypes, Named, LooksRecent, NonceKept, OneOwner, Before, Between

LEMMA OnceSign ==
  ASSUME OnceInv, NEW n \in Nonces, NEW e \in Enrollments, NEW k \in Tokens \union {Null},
         NEW skew \in Skews, Sign(n, e, k, skew), UNCHANGED now
  PROVE  OnceInv'
<1>1. /\ proofs[n] = Null
      /\ proofs' = [proofs EXCEPT ![n] = [enrollment |-> e, token |-> k, issued |-> now + skew]]
      /\ UNCHANGED <<nonces, req, served, now>>
  BY DEF Sign
<1>2. RequestTypes'
  BY <1>1, RequestAssumption DEF OnceInv, RequestTypes
<1>3. \A m \in Nonces : proofs[m] # Null => proofs'[m] = proofs[m]
  BY <1>1 DEF OnceInv, RequestTypes
<1>4. LooksRecent'
  BY <1>1, <1>3 DEF OnceInv, LooksRecent, Before
<1>5. NonceKept'
  BY <1>1, <1>3 DEF OnceInv, NonceKept, Between
<1>6. OneOwner' /\ Named'
  BY <1>1 DEF OnceInv, OneOwner, Between, Named
<1> QED BY <1>2, <1>4, <1>5, <1>6 DEF OnceInv

\* A request starts, waits, ends or runs, and records and serves nothing.
LEMMA OnceMoves ==
  ASSUME OnceInv, NEW r \in Requests,
         NEW x \in AnyRequest,
         req' = [req EXCEPT ![r] = x],
         UNCHANGED <<now, proofs, nonces, served>>,
         x.stage # "idle" => x.nonce \in Nonces,
         x.stage \in {"body", "received", "checked"} =>
             req[r].stage \in {"body", "received", "checked"} /\ x.nonce = req[r].nonce,
         x.stage \in {"verified", "waiting", "granted"} =>
             \/ /\ req[r].stage \in {"verified", "waiting", "granted"}
                /\ x.nonce = req[r].nonce /\ x.since = req[r].since
             \/ /\ x.nonce \in Nonces /\ proofs[x.nonce] # Null
                /\ x.since = now /\ Fresh(x.nonce)
  PROVE  OnceInv'
<1>1. RequestTypes'
  BY DEF OnceInv, RequestTypes
<1>2. req'[r] = x /\ \A q \in Requests : q # r => req'[q] = req[q]
  BY DEF OnceInv, RequestTypes
<1>3. \A q \in Requests, n \in Nonces : Between(q, n)' => Between(q, n)
  BY <1>2 DEF Between
<1>4. LooksRecent'
  <2> SUFFICES ASSUME NEW q \in Requests, NEW n \in Nonces, Before(q, n)'
               PROVE  /\ proofs[n] # Null
                      /\ req'[q].since <= now /\ now <= req'[q].since + MaxDelay
                      /\ proofs[n].issued >= req'[q].since - Past
                      /\ proofs[n].issued <= req'[q].since + Future
    BY DEF LooksRecent
  <2>1. CASE Before(q, n) /\ req'[q].since = req[q].since
    BY <2>1 DEF OnceInv, LooksRecent
  <2>2. CASE q = r /\ x.nonce = n /\ proofs[n] # Null /\ x.since = now /\ Fresh(n)
    BY <1>2, <2>2, RequestAssumption DEF OnceInv, RequestTypes, Fresh
  <2> QED BY <1>2, <2>1, <2>2 DEF Before
<1>5. NonceKept'
  BY <1>3 DEF OnceInv, NonceKept
<1>6. OneOwner' /\ Named'
  BY <1>2, <1>3 DEF OnceInv, OneOwner, Named
<1> QED BY <1>1, <1>4, <1>5, <1>6 DEF OnceInv

\* A request records its nonce.
LEMMA OnceRecords ==
  ASSUME OnceInv, NEW r \in Requests, req[r].stage \in {"verified", "granted"},
         RecordProofNonce(req[r].nonce), Goes(r, "body"),
         UNCHANGED <<now, proofs, served>>
  PROVE  OnceInv'
<1> DEFINE n == req[r].nonce
<1>1. Before(r, n) /\ Unused(n) /\ n \in Nonces
  BY DEF Before, RecordProofNonce, OnceInv, Named
<1>2. served[n] = 0 /\ \A q \in Requests : ~Between(q, n)
  BY <1>1, RecordedIsSeen
<1>3. /\ req' = [req EXCEPT ![r].stage = "body"]
      /\ nonces' = Kept \union {[nonce |-> n, expires |-> now + NonceLife]}
  BY DEF Goes, RecordProofNonce, NonceExpiry
<1>4. RequestTypes'
  <2>1. req[r] \in AnyRequest /\ now + NonceLife \in Nat
    BY RequestAssumption DEF OnceInv, RequestTypes
  <2>2. [req[r] EXCEPT !.stage = "body"] \in AnyRequest
    BY <2>1 DEF AnyRequest, Stages
  <2>3. req' \in [Requests -> AnyRequest]
    BY <1>3, <2>2 DEF OnceInv, RequestTypes
  <2> QED BY <1>1, <1>3, <2>1, <2>3 DEF OnceInv, RequestTypes, Kept
<1>5. /\ req'[r].stage = "body" /\ req'[r].nonce = n
      /\ \A q \in Requests : q # r => req'[q] = req[q]
  BY <1>3 DEF OnceInv, RequestTypes
<1> HIDE DEF n
<1>6. LooksRecent'
  BY <1>5 DEF OnceInv, LooksRecent, Before
<1>7. NonceKept'
  <2> SUFFICES ASSUME NEW m \in Nonces,
                      served[m] > 0 \/ (\E q \in Requests : Between(q, m)')
               PROVE  /\ proofs[m] # Null
                      /\ \/ \E x \in nonces' :
                                x.nonce = m /\ x.expires >= proofs[m].issued - Future + NonceLife
                         \/ now >= proofs[m].issued - Future + NonceLife
    BY DEF NonceKept
  <2>1. CASE m = n
    <3>1. proofs[n] # Null /\ proofs[n].issued \in Int /\ proofs[n].issued - Future <= now
      BY <1>1, <2>1, RequestAssumption DEF OnceInv, LooksRecent, RequestTypes, AnyRequest, Before
    <3>2. [nonce |-> n, expires |-> now + NonceLife] \in nonces'
      BY <1>3 DEF n
    <3> QED BY <2>1, <3>1, <3>2, RequestAssumption DEF OnceInv, RequestTypes
  <2>2. CASE m # n
    <3>1. served[m] > 0 \/ \E q \in Requests : Between(q, m)
      BY <1>5, <2>2 DEF Between
    <3>2. proofs[m] # Null /\ proofs[m].issued \in Int
      BY <3>1 DEF OnceInv, NonceKept, RequestTypes
    <3>3. CASE now >= proofs[m].issued - Future + NonceLife
      BY <3>2, <3>3
    <3>4. CASE \E x \in nonces :
                   x.nonce = m /\ x.expires >= proofs[m].issued - Future + NonceLife
      <4> PICK x \in nonces : x.nonce = m /\ x.expires >= proofs[m].issued - Future + NonceLife
        BY <3>4
      <4>1. x.expires \in Nat /\ now \in Nat
        BY DEF OnceInv, RequestTypes
      <4>2. CASE x.expires > now
        BY <1>3, <3>2, <4>2 DEF Kept
      <4>3. CASE x.expires <= now
        BY <3>2, <4>1, <4>3, RequestAssumption
      <4> QED BY <4>1, <4>2, <4>3
    <3> QED BY <3>1, <3>3, <3>4 DEF OnceInv, NonceKept
  <2> QED BY <2>1, <2>2
<1>8. OneOwner'
  <2> SUFFICES ASSUME NEW m \in Nonces
               PROVE  /\ served[m] <= 1
                      /\ \A q \in Requests : Between(q, m)' => served[m] = 0
                      /\ \A p, q \in Requests : Between(p, m)' /\ Between(q, m)' => p = q
    BY DEF OneOwner
  <2>1. CASE m = n
    BY <1>2, <1>5, <2>1 DEF Between
  <2>2. CASE m # n
    <3>1. \A q \in Requests : Between(q, m)' => Between(q, m)
      BY <1>5, <2>2 DEF Between
    <3> QED BY <3>1 DEF OnceInv, OneOwner
  <2> QED BY <2>1, <2>2
<1>9. Named'
  BY <1>1, <1>5 DEF OnceInv, Named
<1> QED BY <1>4, <1>6, <1>7, <1>8, <1>9 DEF OnceInv

LEMMA OnceServe ==
  ASSUME OnceInv, NEW r \in Requests, Serve(r), UNCHANGED now
  PROVE  OnceInv'
<1> DEFINE n == req[r].nonce
<1>1. /\ req[r].stage = "checked"
      /\ served' = [served EXCEPT ![n] = served[n] + 1]
      /\ req' = [req EXCEPT ![r].stage = "run"]
      /\ UNCHANGED <<proofs, nonces>>
  BY DEF Serve, At, Goes
<1>2. Between(r, n) /\ n \in Nonces
  BY <1>1 DEF Between, OnceInv, Named
<1>3. served[n] = 0 /\ \A q \in Requests : Between(q, n) => q = r
  BY <1>2 DEF OnceInv, OneOwner
<1>4. RequestTypes'
  <2>1. req[r] \in AnyRequest /\ served[n] \in Nat
    BY <1>2 DEF OnceInv, RequestTypes
  <2>2. [req[r] EXCEPT !.stage = "run"] \in AnyRequest
    BY <2>1 DEF AnyRequest, Stages
  <2>3. req' \in [Requests -> AnyRequest]
    BY <1>1, <2>2 DEF OnceInv, RequestTypes
  <2>4. served' \in [Nonces -> Nat]
    <3>1. served \in [Nonces -> Nat] /\ served[n] + 1 \in Nat
      BY <2>1 DEF OnceInv, RequestTypes
    <3> HIDE DEF n
    <3> QED BY <1>1, <1>2, <3>1
  <2> QED BY <1>1, <2>3, <2>4 DEF OnceInv, RequestTypes
<1>5. /\ req'[r].stage = "run" /\ \A q \in Requests : q # r => req'[q] = req[q]
      /\ served'[n] = 1 /\ \A m \in Nonces : m # n => served'[m] = served[m]
  BY <1>1, <1>2, <1>3 DEF OnceInv, RequestTypes
<1> HIDE DEF n
<1>6. \A q \in Requests, m \in Nonces : Between(q, m)' => Between(q, m) /\ m # n
  BY <1>3, <1>5 DEF Between
<1>7. LooksRecent'
  BY <1>1, <1>5 DEF OnceInv, LooksRecent, Before
<1>8. NonceKept'
  <2>1. \A m \in Nonces : served'[m] > 0 \/ (\E q \in Requests : Between(q, m)')
            => served[m] > 0 \/ \E q \in Requests : Between(q, m)
    BY <1>2, <1>5, <1>6
  <2> QED BY <1>1, <2>1 DEF OnceInv, NonceKept
<1>9. OneOwner'
  BY <1>5, <1>6 DEF OnceInv, OneOwner
<1>10. req'[r].nonce = n
  BY <1>1 DEF OnceInv, RequestTypes, n
<1>11. Named'
  BY <1>2, <1>5, <1>10 DEF OnceInv, Named
<1> QED BY <1>4, <1>7, <1>8, <1>9, <1>11 DEF OnceInv

LEMMA OnceTime ==
  ASSUME OnceInv, TimePasses
  PROVE  OnceInv'
<1>1. now' = now + 1 /\ UNCHANGED <<proofs, nonces, req, served>>
  BY DEF TimePasses, Tick, requestVars
<1>2. RequestTypes'
  BY <1>1 DEF OnceInv, RequestTypes
<1>3. LooksRecent'
  <2> SUFFICES ASSUME NEW r \in Requests, NEW n \in Nonces, Before(r, n)
               PROVE  /\ proofs[n] # Null
                      /\ req[r].since <= now + 1 /\ now + 1 <= req[r].since + MaxDelay
                      /\ proofs[n].issued >= req[r].since - Past
                      /\ proofs[n].issued <= req[r].since + Future
    BY <1>1 DEF LooksRecent, Before
  <2>1. now - req[r].since < MaxDelay
    BY DEF TimePasses, Before
  <2> QED BY <2>1, RequestAssumption DEF OnceInv, LooksRecent, RequestTypes, AnyRequest
<1>4. NonceKept'
  <2> SUFFICES ASSUME NEW n \in Nonces, served[n] > 0 \/ \E r \in Requests : Between(r, n)
               PROVE  /\ proofs[n] # Null
                      /\ \/ \E x \in nonces :
                                x.nonce = n /\ x.expires >= proofs[n].issued - Future + NonceLife
                         \/ now + 1 >= proofs[n].issued - Future + NonceLife
    BY <1>1 DEF NonceKept, Between
  <2>1. proofs[n] # Null /\ proofs[n].issued \in Int /\ now \in Nat
    BY DEF OnceInv, NonceKept, RequestTypes
  <2> QED BY <2>1, RequestAssumption DEF OnceInv, NonceKept
<1>5. OneOwner' /\ Named'
  BY <1>1 DEF OnceInv, OneOwner, Between, Named
<1> QED BY <1>2, <1>3, <1>4, <1>5 DEF OnceInv

LEMMA OnceRestart ==
  ASSUME OnceInv, Restart
  PROVE  OnceInv'
<1>1. req' = [r \in Requests |-> Idle] /\ UNCHANGED <<now, proofs, nonces, served>>
  BY DEF Restart
<1>2. \A r \in Requests, n \in Nonces : ~Before(r, n)' /\ ~Between(r, n)'
  BY <1>1 DEF Before, Between, Idle
<1>3. RequestTypes'
  BY <1>1 DEF OnceInv, RequestTypes, Idle, AnyRequest, Stages
<1>4. LooksRecent' /\ NonceKept' /\ OneOwner' /\ Named'
  BY <1>1, <1>2 DEF OnceInv, LooksRecent, NonceKept, OneOwner, Named, Idle
<1> QED BY <1>3, <1>4 DEF OnceInv

\* Steps of one request.
LEMMA OnceVerify ==
  ASSUME OnceInv, NEW r \in Requests, NEW n \in Nonces, Verify(r, n), UNCHANGED now
  PROVE  OnceInv'
<1> DEFINE x == [Idle EXCEPT !.stage = "verified", !.nonce = n, !.since = now]
<1>1. x \in AnyRequest /\ x.stage = "verified" /\ x.nonce = n /\ x.since = now
  BY DEF Idle, AnyRequest, Stages, OnceInv, RequestTypes
<1>2. req' = [req EXCEPT ![r] = x] /\ proofs[n] # Null /\ Fresh(n)
      /\ UNCHANGED <<now, proofs, nonces, served>>
  BY DEF Verify
<1> HIDE DEF x
<1> QED BY <1>1, <1>2, OnceMoves

LEMMA OnceOver ==
  ASSUME OnceInv, NEW r \in Requests, Over(r), UNCHANGED <<now, proofs, nonces, served>>
  PROVE  OnceInv'
<1>1. Idle \in AnyRequest /\ Idle.stage = "idle"
  BY DEF Idle, AnyRequest, Stages
<1>2. req' = [req EXCEPT ![r] = Idle]
  BY DEF Over
<1> HIDE DEF Idle
<1> QED BY <1>1, <1>2, OnceMoves

\* A request goes on without recording or serving: the stage, the date of the worker, the
\* notes of the client and of the right may change.
LEMMA OnceGoes ==
  ASSUME OnceInv, NEW r \in Requests, NEW from \in Stages, NEW to \in Stages, req[r].stage = from,
         NEW x, x \in AnyRequest, x.stage = to, x.nonce = req[r].nonce,
         to = "waiting" \/ to = "granted" => x.since = req[r].since,
         req' = [req EXCEPT ![r] = x], UNCHANGED <<now, proofs, nonces, served>>,
         \/ <<from, to>> \in {<<"verified", "waiting">>, <<"waiting", "granted">>,
                             <<"body", "received">>, <<"received", "checked">>,
                             <<"run", "session">>}
         \/ from \in SessionStages /\ to \in SessionStages
  PROVE  OnceInv'
<1>1. req[r].nonce \in Nonces
  BY DEF OnceInv, Named, SessionStages
<1>2. x.stage \in {"body", "received", "checked"} =>
          req[r].stage \in {"body", "received", "checked"}
  BY DEF SessionStages
<1>3. x.stage \in {"verified", "waiting", "granted"} =>
          req[r].stage \in {"verified", "waiting", "granted"} /\ x.since = req[r].since
  BY DEF SessionStages
<1> QED BY <1>1, <1>2, <1>3, OnceMoves

\* The same, when nothing but the stage changes.
LEMMA OnceStage ==
  ASSUME OnceInv, NEW r \in Requests, NEW from \in Stages, NEW to \in Stages, req[r].stage = from,
         Goes(r, to), UNCHANGED <<now, proofs, nonces, served>>,
         \/ <<from, to>> \in {<<"verified", "waiting">>, <<"waiting", "granted">>,
                             <<"received", "checked">>}
         \/ from \in SessionStages /\ to \in SessionStages
  PROVE  OnceInv'
<1> DEFINE x == [req[r] EXCEPT !.stage = to]
<1>1. req[r] \in AnyRequest
  BY DEF OnceInv, RequestTypes
<1>2. x \in AnyRequest /\ x.stage = to /\ x.nonce = req[r].nonce /\ x.since = req[r].since
  BY <1>1 DEF AnyRequest
<1>3. req' = [req EXCEPT ![r] = x]
  BY DEF Goes
<1> HIDE DEF x
<1> QED BY <1>2, <1>3, OnceGoes

LEMMA OnceRequest ==
  ASSUME OnceInv, NEW r \in Requests, Admission(r) \/ Handling(r), UNCHANGED now
  PROVE  OnceInv'
<1> USE DEF Stages, SessionStages
<1>1. CASE Admit(r) \/ RecordAfterWait(r)
  BY <1>1, OnceRecords DEF Admit, RecordAfterWait, At
<1>2. CASE AdmitRefused(r) \/ WaitTimeout(r) \/ RefusedAfterWait(r) \/ BodyFails(r)
           \/ BodyRefused(r) \/ Handled(r)
  BY <1>2, OnceOver DEF AdmitRefused, WaitTimeout, RefusedAfterWait, BodyFails, BodyRefused, Handled
<1>3. CASE AdmitWaits(r)
  BY <1>3, OnceStage DEF AdmitWaits, At
<1>4. CASE Granted(r)
  BY <1>4, OnceStage DEF Granted, At
<1>5. CASE Authorize(r)
  BY <1>5, OnceStage DEF Authorize, At
<1>6. CASE Serve(r)
  BY <1>6, OnceServe
<1>7. CASE SessionChecks(r)
  <2>1. CASE Goes(r, "open")
    BY <1>7, <2>1, OnceStage DEF SessionChecks, At
  <2>2. CASE Over(r)
    BY <1>7, <2>2, OnceOver DEF SessionChecks
  <2> QED BY <1>7, <2>1, <2>2 DEF SessionChecks
<1>8. CASE SessionEvicts(r)
  BY <1>8, OnceStage DEF SessionEvicts, At
<1>9. CASE SessionInserts(r)
  BY <1>9, OnceOver DEF SessionInserts
<1>10. req[r] \in AnyRequest /\ now \in Nat /\ req \in [Requests -> AnyRequest]
  BY DEF OnceInv, RequestTypes
<1>11. CASE BodyReceived(r)
  <2>1. PICK v \in BOOLEAN : v = ~CheckActiveSession(req[r].nonce)
    OBVIOUS
  <2> DEFINE x == [req[r] EXCEPT !.stage = "received", !.void = v]
  <2>2. x \in AnyRequest /\ x.stage = "received" /\ x.nonce = req[r].nonce
    BY <1>10 DEF AnyRequest
  <2>3. req' = [req EXCEPT ![r] = x] /\ UNCHANGED <<proofs, nonces, served>>
        /\ req[r].stage = "body"
    BY <1>10, <1>11, <2>1 DEF BodyReceived, At
  <2> HIDE DEF x
  <2> QED BY <2>2, <2>3, OnceGoes
<1>12. CASE SessionStarts(r)
  <2> DEFINE x == [req[r] EXCEPT !.stage = "session", !.since = now]
  <2>1. x \in AnyRequest /\ x.stage = "session" /\ x.nonce = req[r].nonce
    BY <1>10 DEF AnyRequest
  <2>2. req' = [req EXCEPT ![r] = x] /\ UNCHANGED <<proofs, nonces, served>> /\ req[r].stage = "run"
    BY <1>10, <1>12 DEF SessionStarts, At
  <2> HIDE DEF x
  <2> QED BY <2>1, <2>2, OnceGoes
<1>13. CASE ClientGone(r)
  <2> DEFINE x == [req[r] EXCEPT !.gone = TRUE]
  <2>1. x \in AnyRequest /\ x.stage = req[r].stage /\ x.nonce = req[r].nonce
    BY <1>10 DEF AnyRequest
  <2>2. req' = [req EXCEPT ![r] = x] /\ UNCHANGED <<proofs, nonces, served>>
        /\ req[r].stage \in SessionStages
    BY <1>10, <1>13 DEF ClientGone
  <2> HIDE DEF x
  <2> QED BY <2>1, <2>2, OnceGoes
<1> QED BY <1>1, <1>2, <1>3, <1>4, <1>5, <1>6, <1>7, <1>8, <1>9, <1>11, <1>12, <1>13
        DEF Admission, Handling

LEMMA OnceStep == OnceInv /\ [Next]_vars => OnceInv'
<1> SUFFICES ASSUME OnceInv, [Next]_vars PROVE OnceInv'
  OBVIOUS
<1>1. CASE (Admin \/ EnrollServer) /\ UNCHANGED <<now, requestVars>>
  BY <1>1, OnceUnchanged DEF requestVars
<1>2. CASE Client /\ UNCHANGED <<now, enrollVars>>
  BY <1>2, OnceSign, OnceVerify DEF Client
<1>3. CASE (\E r \in Requests : Admission(r) \/ Handling(r)) /\ UNCHANGED <<now, enrollVars>>
  BY <1>3, OnceRequest
<1>4. CASE \E d \in Devices : Revoke(d) /\ UNCHANGED now
  BY <1>4, OnceUnchanged DEF Revoke
<1>5. CASE Restart
  BY <1>5, OnceRestart
<1>6. CASE TimePasses
  BY <1>6, OnceTime
<1>7. CASE UNCHANGED vars
  BY <1>7, OnceUnchanged DEF vars, requestVars
<1> QED BY <1>1, <1>2, <1>3, <1>4, <1>5, <1>6, <1>7 DEF Next

(* record_proof_nonce keeps every nonce long enough: for all limits with   *)
(* Past + Future + MaxDelay < NonceLife, a proof is let through once,      *)
(* however often it arrives, waits for a permit or meets a restart.        *)
THEOREM ProofsServedOnce == Spec => []ServedOnce
<1>1. OnceInv => ServedOnce
  BY DEF OnceInv, OneOwner, ServedOnce
<1> QED BY <1>1, OnceInit, OnceStep, PTL DEF Spec

-----------------------------------------------------------------------------
(* Sessions keep to their limit. *)

LEMMA LeastNatural ==
  ASSUME NEW S, S \subseteq Nat, S # {}
  PROVE  \E m \in S : \A n \in S : m <= n
<1>1. PICK m \in S : \A n \in S : ~(<<n, m>> \in OpToRel(<, Nat))
  BY NatLessThanWellFounded, WFMin
<1>2. \A n \in S : ~(n < m)
  <2> SUFFICES ASSUME NEW n \in S, n < m PROVE <<n, m>> \in OpToRel(<, Nat)
    BY <1>1
  <2>1. <<n, m>> \in Nat \X Nat /\ <<n, m>>[1] < <<n, m>>[2]
    OBVIOUS
  <2> QED BY <2>1 DEF OpToRel
<1> QED BY <1>2

\* The query keeps no more rows than its offset: the oldest of those kept has all the
\* others before it.
LEMMA KeptByOffset ==
  ASSUME NEW T, IsFiniteSet(T), NEW k \in Nat,
         \A s \in T : s.expires \in Nat /\ s.rowid \in Nat,
         \A s, x \in T : s.rowid = x.rowid => s = x,
         \A s \in T : Cardinality({x \in T : \/ x.expires > s.expires
                                             \/ x.expires = s.expires /\ x.rowid > s.rowid}) < k
  PROVE  Cardinality(T) <= k
<1>1. CASE T = {}
  BY <1>1, FS_EmptySet
<1>2. CASE T # {}
  <2>1. PICK t \in T : \A s \in T : t.expires <= s.expires
    <3>1. {s.expires : s \in T} \subseteq Nat /\ {s.expires : s \in T} # {}
      BY <1>2
    <3>2. PICK m \in {s.expires : s \in T} : \A n \in {s.expires : s \in T} : m <= n
      BY <3>1, LeastNatural
    <3> QED BY <3>2
  <2> DEFINE Last == {s \in T : s.expires = t.expires}
  <2>2. PICK o \in Last : \A s \in Last : o.rowid <= s.rowid
    <3>1. {s.rowid : s \in Last} \subseteq Nat /\ {s.rowid : s \in Last} # {}
      BY <2>1
    <3>2. PICK m \in {s.rowid : s \in Last} : \A n \in {s.rowid : s \in Last} : m <= n
      BY <3>1, LeastNatural
    <3> QED BY <3>2
  <2>3. \A s \in T \ {o} : \/ s.expires > o.expires
                           \/ s.expires = o.expires /\ s.rowid > o.rowid
    <3> SUFFICES ASSUME NEW s \in T, s # o
                 PROVE  s.expires > o.expires \/ (s.expires = o.expires /\ s.rowid > o.rowid)
      OBVIOUS
    <3>1. o \in T /\ o.expires = t.expires /\ t.expires <= s.expires /\ s.rowid # o.rowid
      BY <2>1, <2>2
    <3>2. s.expires = t.expires => o.rowid <= s.rowid
      BY <2>2
    <3> QED BY <3>1, <3>2
  <2>4. T \ {o} \subseteq {x \in T : \/ x.expires > o.expires
                                     \/ x.expires = o.expires /\ x.rowid > o.rowid}
    BY <2>3
  <2> DEFINE Y == {x \in T : \/ x.expires > o.expires
                             \/ x.expires = o.expires /\ x.rowid > o.rowid}
  <2>5. Cardinality(Y) < k /\ o \in T
    BY <2>2
  <2>6. IsFiniteSet(Y)
    BY FS_Subset
  <2>7. Cardinality(T \ {o}) <= Cardinality(Y)
    BY <2>4, <2>6, FS_Subset
  <2>8. IsFiniteSet(T \ {o}) /\ Cardinality(T \ {o}) = Cardinality(T) - 1
    BY <2>5, FS_RemoveElement
  <2>9. Cardinality(Y) \in Nat /\ Cardinality(T) \in Nat
    BY <2>6, FS_CardinalityType
  <2> HIDE DEF Y
  <2> QED BY <2>5, <2>7, <2>8, <2>9
<1> QED BY <1>1, <1>2

\* A request under way has a proof that was signed.
Signed == \A r \in Requests :
    req[r].stage # "idle" => req[r].nonce \in Nonces /\ proofs[req[r].nonce] # Null

\* session() relies on the rowid to order rows that expire together.
SessionsSound ==
    /\ IsFiniteSet(sessions)
    /\ \A s, x \in sessions : s.rowid = x.rowid => s = x
    /\ SessionsLimited

\* From the DELETE to the INSERT, the worker of session() has the mutex and its room.
MutexHeld == \A r \in Requests : req[r].stage \in {"open", "insert"} => db = r
RoomMade == \A r \in Requests :
    req[r].stage = "insert" =>
        Cardinality(Own(proofs[req[r].nonce].enrollment)) <= SessionsKept - 1

RequestInv ==
    /\ EnrollInv /\ TypeOK /\ Signed /\ IsFiniteSet(PermitHolders)
    /\ SessionsSound /\ MutexHeld /\ RoomMade

LEMMA RequestInit == Init => RequestInv
<1> SUFFICES ASSUME Init PROVE RequestInv
  OBVIOUS
<1>1. EnrollInv
  BY EnrollInvInit DEF Init
<1>2. Idle \in Request /\ Idle.stage = "idle" /\ \A r \in Requests : req[r] = Idle
  BY EnrollAssumption DEF Idle, Request, Stages, Init
<1>3. PermitHolders = {} /\ \A e \in Enrollments : Own(e) = {}
  BY <1>2 DEF Init, PermitHolders, Admitted, SessionStages, Own
<1>4. SessionsSound
  BY <1>3, FS_EmptySet, RequestAssumption DEF Init, SessionsSound, SessionsLimited
<1>5. TypeOK
  BY <1>1, <1>2, <1>3, FS_EmptySet, RequestAssumption, EnrollAssumption
     DEF Init, TypeOK, EnrollInv
<1>6. Signed /\ MutexHeld /\ RoomMade
  BY <1>2 DEF Signed, MutexHeld, RoomMade
<1> QED BY <1>1, <1>3, <1>4, <1>5, <1>6, FS_EmptySet DEF RequestInv

\* An enrolment has no more rows when rows go.
LEMMA OwnShrinks ==
  ASSUME IsFiniteSet(sessions), sessions' \subseteq sessions, NEW e
  PROVE  /\ Cardinality(Own(e)') <= Cardinality(Own(e))
         /\ Cardinality(Own(e)') \in Nat /\ Cardinality(Own(e)) \in Nat
<1>1. PICK O, P : O = Own(e) /\ P = Own(e)' /\ P \subseteq O /\ O \subseteq sessions
  BY DEF Own
<1>2. IsFiniteSet(O)
  BY <1>1, FS_Subset
<1>3. Cardinality(P) <= Cardinality(O) /\ IsFiniteSet(P)
  BY <1>1, <1>2, FS_Subset
<1>4. Cardinality(P) \in Nat /\ Cardinality(O) \in Nat
  BY <1>2, <1>3, FS_CardinalityType
<1> QED BY <1>1, <1>3, <1>4

\* Rows that go leave a sound table.
LEMMA SessionsShrink ==
  ASSUME SessionsSound, sessions' \subseteq sessions
  PROVE  SessionsSound'
<1>1. IsFiniteSet(sessions')
  BY FS_Subset DEF SessionsSound
<1>2. SessionsLimited'
  <2> SUFFICES ASSUME NEW e \in Enrollments PROVE Cardinality(Own(e)') <= SessionsKept
    BY DEF SessionsLimited
  <2>1. Cardinality(Own(e)) <= SessionsKept /\ IsFiniteSet(sessions)
    BY DEF SessionsSound, SessionsLimited
  <2>2. /\ Cardinality(Own(e)') <= Cardinality(Own(e))
        /\ Cardinality(Own(e)') \in Nat /\ Cardinality(Own(e)) \in Nat
    BY <2>1, OwnShrinks
  <2> QED BY <2>1, <2>2, RequestAssumption
<1> QED BY <1>1, <1>2 DEF SessionsSound

\* The DELETE leaves an enrolment room for one row more.
LEMMA EvictedRoom ==
  ASSUME SessionsSound, sessions \subseteq [token : Tokens, enrollment : Enrollments, expires : Nat,
                                            rowid : Nat],
         NEW e \in Enrollments
  PROVE  Cardinality(Own(e) \ Evicted(e)) <= SessionsKept - 1
<1>1. PICK T : T = Own(e) \ Evicted(e)
  OBVIOUS
<1>2. T \subseteq sessions /\ IsFiniteSet(T)
  BY <1>1, FS_Subset DEF SessionsSound, Own
<1>3. \A s \in T : Cardinality({x \in T : \/ x.expires > s.expires
                                          \/ x.expires = s.expires /\ x.rowid > s.rowid})
                       < SessionsKept - 1
  <2> SUFFICES ASSUME NEW s \in T
               PROVE  Cardinality({x \in T : \/ x.expires > s.expires
                                             \/ x.expires = s.expires /\ x.rowid > s.rowid})
                          < SessionsKept - 1
    OBVIOUS
  <2>1. PICK Y, Z : Y = Younger(s)
                    /\ Z = {x \in T : \/ x.expires > s.expires
                                      \/ x.expires = s.expires /\ x.rowid > s.rowid}
    OBVIOUS
  <2>2. Z \subseteq Y /\ Y \subseteq sessions
    BY <1>1, <2>1 DEF Younger, Own
  <2>3. IsFiniteSet(Y)
    BY <2>2, FS_Subset DEF SessionsSound
  <2>4. IsFiniteSet(Z) /\ Cardinality(Z) <= Cardinality(Y)
    BY <2>2, <2>3, FS_Subset
  <2>5. ~(Cardinality(Y) >= SessionsKept - 1)
    BY <1>1, <2>1 DEF Evicted
  <2>6. Cardinality(Y) \in Nat /\ Cardinality(Z) \in Nat
    BY <2>3, <2>4, FS_CardinalityType
  <2>7. Cardinality(Z) < SessionsKept - 1
    BY <2>4, <2>5, <2>6, RequestAssumption
  <2> QED BY <2>1, <2>7
<1>4. \A s \in T : s.expires \in Nat /\ s.rowid \in Nat
  BY <1>2
<1>5. \A s, x \in T : s.rowid = x.rowid => s = x
  BY <1>2 DEF SessionsSound
<1>6. SessionsKept - 1 \in Nat
  BY RequestAssumption
<1>7. Cardinality(T) <= SessionsKept - 1
  BY <1>2, <1>3, <1>4, <1>5, <1>6, KeptByOffset
<1> QED BY <1>1, <1>7

\* A row comes for which there is room.
LEMMA SessionInserted ==
  ASSUME SessionsSound, sessions \subseteq [token : Tokens, enrollment : Enrollments, expires : Nat,
                                            rowid : Nat],
         NEW e \in Enrollments, NEW new, new.enrollment = e,
         Cardinality(Own(e)) <= SessionsKept - 1,
         \A s \in sessions : s.rowid < new.rowid,
         sessions' = sessions \union {new}
  PROVE  SessionsSound'
<1>1. IsFiniteSet(sessions')
  BY FS_AddElement DEF SessionsSound
<1>2. \A s, x \in sessions' : s.rowid = x.rowid => s = x
  <2>1. \A s \in sessions : s.rowid # new.rowid
    <3> SUFFICES ASSUME NEW s \in sessions, s.rowid = new.rowid PROVE FALSE
      OBVIOUS
    <3>1. s.rowid < s.rowid /\ s.rowid \in Nat
      OBVIOUS
    <3> QED BY <3>1
  <2>2. \A s, x \in sessions : s.rowid = x.rowid => s = x
    BY DEF SessionsSound
  <2> QED BY <2>1, <2>2
<1>3. SessionsLimited'
  <2> SUFFICES ASSUME NEW f \in Enrollments PROVE Cardinality(Own(f)') <= SessionsKept
    BY DEF SessionsLimited
  <2>1. CASE f # e
    <3>1. Own(f)' = Own(f)
      BY <2>1 DEF Own
    <3> QED BY <3>1 DEF SessionsSound, SessionsLimited
  <2>2. CASE f = e
    <3>1. PICK T : T = Own(e)
      OBVIOUS
    <3>2. IsFiniteSet(T)
      BY <3>1, FS_Subset DEF SessionsSound, Own
    <3>3. Own(f)' = T \union {new}
      BY <2>2, <3>1 DEF Own
    <3>4. Cardinality(T \union {new}) = IF new \in T THEN Cardinality(T) ELSE Cardinality(T) + 1
      BY <3>2, FS_AddElement
    <3>5. Cardinality(T) \in Nat
      BY <3>2, FS_CardinalityType
    <3>6. Cardinality(T \union {new}) <= SessionsKept
      BY <3>1, <3>4, <3>5, RequestAssumption
    <3> QED BY <3>3, <3>6
  <2> QED BY <2>1, <2>2
<1> QED BY <1>1, <1>2, <1>3 DEF SessionsSound

\* A request moves; only a free permit lets one in.
LEMMA RequestMoves ==
  ASSUME RequestInv, NEW r \in Requests,
         NEW x \in Request,
         req' = [req EXCEPT ![r] = x], UNCHANGED proofs,
         x.stage # "idle" => x.nonce \in Nonces /\ proofs[x.nonce] # Null,
         x.stage \in Admitted /\ ~x.gone => r \in PermitHolders \/ PermitFree
  PROVE  /\ req' \in [Requests -> Request]
         /\ Signed' /\ IsFiniteSet(PermitHolders') /\ Cardinality(PermitHolders') <= Permits
<1>1. req \in [Requests -> Request]
  BY DEF RequestInv, TypeOK
<1>2. req'[r] = x /\ \A q \in Requests : q # r => req'[q] = req[q]
  BY <1>1
<1>3. Signed'
  BY <1>2 DEF RequestInv, Signed
<1>4. PICK H, G : H = PermitHolders /\ G = PermitHolders'
  OBVIOUS
<1>5. IsFiniteSet(H) /\ Cardinality(H) <= Permits /\ Cardinality(H) \in Nat
  BY <1>4, FS_CardinalityType DEF RequestInv, TypeOK
<1>6. IsFiniteSet(G) /\ Cardinality(G) <= Permits
  <2>1. CASE G \subseteq H
    <3>1. IsFiniteSet(G) /\ Cardinality(G) <= Cardinality(H)
      BY <1>5, <2>1, FS_Subset
    <3>2. Cardinality(G) \in Nat
      BY <3>1, FS_CardinalityType
    <3> QED BY <1>5, <3>1, <3>2, RequestAssumption
  <2>2. CASE G = H \union {r} /\ PermitFree
    <3>1. Cardinality(H) < Permits
      BY <1>4, <2>2 DEF PermitFree
    <3>2. IsFiniteSet(G) /\ Cardinality(G) = IF r \in H THEN Cardinality(H) ELSE Cardinality(H) + 1
      BY <1>5, <2>2, FS_AddElement
    <3> QED BY <1>5, <3>1, <3>2, RequestAssumption
  <2>3. G \subseteq H \/ (G = H \union {r} /\ PermitFree)
    BY <1>2, <1>4 DEF PermitHolders
  <2> QED BY <2>1, <2>2, <2>3
<1> QED BY <1>1, <1>3, <1>4, <1>6

\* The parts of the invariant, each kept by itself, make the whole.
LEMMA RequestInvParts ==
  ASSUME EnrollInv',
         (proofs \in [Nonces -> [enrollment : Enrollments, token : Tokens \union {Null},
                                 issued : Int] \union {Null}])',
         (nonces \subseteq [nonce : Nonces, expires : 0 .. MaxTime + 1 + NonceLife])',
         (sessions \subseteq [token : Tokens, enrollment : Enrollments, expires : Nat,
                              rowid : Nat])',
         (req \in [Requests -> Request])',
         (db \in Requests \union {Free})',
         (served \in [Nonces -> Nat])',
         Cardinality(PermitHolders') <= Permits,
         Signed', IsFiniteSet(PermitHolders'), SessionsSound', MutexHeld', RoomMade'
  PROVE  RequestInv'
  BY DEF RequestInv, TypeOK, EnrollInv

\* Who is between the DELETE and the INSERT of session() was there before.
LEMMA RoomKept ==
  ASSUME RequestInv, db' = db, sessions' \subseteq sessions,
         \A r \in Requests : req'[r].stage \in {"open", "insert"} =>
             /\ req'[r].stage = req[r].stage
             /\ proofs'[req'[r].nonce] = proofs[req[r].nonce]
  PROVE  MutexHeld' /\ RoomMade'
<1>1. MutexHeld'
  BY DEF RequestInv, MutexHeld
<1>2. RoomMade'
  <2> SUFFICES ASSUME NEW r \in Requests, req'[r].stage = "insert",
                      NEW e, e = proofs'[req'[r].nonce].enrollment
               PROVE  Cardinality(Own(e)') <= SessionsKept - 1
    BY DEF RoomMade, Own
  <2>1. e = proofs[req[r].nonce].enrollment
    OBVIOUS
  <2>2. req[r].stage = "insert"
    OBVIOUS
  <2>3. Cardinality(Own(e)) <= SessionsKept - 1 /\ IsFiniteSet(sessions)
    BY <2>1, <2>2 DEF RequestInv, RoomMade, SessionsSound
  <2>4. /\ Cardinality(Own(e)') <= Cardinality(Own(e))
        /\ Cardinality(Own(e)') \in Nat /\ Cardinality(Own(e)) \in Nat
    BY <2>3, OwnShrinks
  <2>5. Cardinality(Own(e)') <= SessionsKept - 1
    BY <2>3, <2>4, RequestAssumption
  <2> QED BY <2>5
<1> QED BY <1>1, <1>2

\* The mutex keeps every other worker out.
LEMMA NobodyElse ==
  ASSUME RequestInv, NEW r \in Requests, db \in {Free, r}, NEW q \in Requests, q # r
  PROVE  req[q].stage \notin {"open", "insert"}
  BY RequestAssumption DEF RequestInv, MutexHeld

\* Steps that leave requests alone.
LEMMA RequestTables ==
  ASSUME RequestInv, EnrollInv', UNCHANGED <<proofs, nonces, req, db, served>>,
         sessions' \subseteq sessions
  PROVE  RequestInv'
<1>1. SessionsSound'
  BY SessionsShrink DEF RequestInv
<1>2. Signed' /\ PermitHolders' = PermitHolders
  BY DEF RequestInv, Signed, PermitHolders
<1>3. MutexHeld' /\ RoomMade'
  BY RoomKept
<1> QED BY <1>1, <1>2, <1>3, RequestInvParts DEF RequestInv, TypeOK

LEMMA RequestSigns ==
  ASSUME RequestInv, EnrollInv', UNCHANGED <<now, enrollVars>>,
         NEW n \in Nonces, NEW e \in Enrollments, NEW k \in Tokens \union {Null},
         NEW skew \in Skews, Sign(n, e, k, skew)
  PROVE  RequestInv'
<1>1. now \in Int /\ now + skew \in Int
  BY RequestAssumption DEF RequestInv, EnrollInv, EnrollTypeOK
<1>2. /\ proofs[n] = Null
      /\ proofs' = [proofs EXCEPT ![n] = [enrollment |-> e, token |-> k, issued |-> now + skew]]
      /\ UNCHANGED <<nonces, sessions, req, db, served>>
  BY DEF Sign
<1>3. proofs' \in [Nonces -> [enrollment : Enrollments, token : Tokens \union {Null},
                              issued : Int] \union {Null}]
  BY <1>1, <1>2 DEF RequestInv, TypeOK
<1>4. \A m \in Nonces : proofs[m] # Null => proofs'[m] = proofs[m]
  BY <1>2 DEF RequestInv, TypeOK
<1>5. Signed' /\ PermitHolders' = PermitHolders
  BY <1>2, <1>4 DEF RequestInv, Signed, PermitHolders
<1>6. SessionsSound'
  BY <1>2, SessionsShrink DEF RequestInv
<1>7. \A r \in Requests : req[r].stage \in {"open", "insert"} =>
          proofs'[req[r].nonce] = proofs[req[r].nonce]
  BY <1>4 DEF RequestInv, Signed
<1>8. MutexHeld' /\ RoomMade'
  BY <1>2, <1>7, RoomKept
<1> QED BY <1>2, <1>3, <1>5, <1>6, <1>8, RequestInvParts DEF RequestInv, TypeOK

\* A request moves and touches no table but that of the nonces.
LEMMA RequestGoesOn ==
  ASSUME RequestInv, EnrollInv', UNCHANGED <<proofs, sessions, db>>, NEW r \in Requests,
         NEW x \in Request,
         req' = [req EXCEPT ![r] = x],
         x.stage # "idle" => x.nonce \in Nonces /\ proofs[x.nonce] # Null,
         x.stage \in Admitted /\ ~x.gone => r \in PermitHolders \/ PermitFree,
         x.stage \in {"open", "insert"} => x.stage = req[r].stage /\ x.nonce = req[r].nonce,
         nonces' = nonces \/ (req[r].stage # "idle" /\ RecordProofNonce(req[r].nonce)),
         served' = served \/ (req[r].stage # "idle"
                              /\ served' = [served EXCEPT ![req[r].nonce] = @ + 1])
  PROVE  RequestInv'
<1>1. /\ req' \in [Requests -> Request]
      /\ Signed' /\ IsFiniteSet(PermitHolders') /\ Cardinality(PermitHolders') <= Permits
  BY RequestMoves
<1>2. nonces' \subseteq [nonce : Nonces, expires : 0 .. MaxTime + 1 + NonceLife]
  <2>1. CASE nonces' = nonces
    BY <2>1 DEF RequestInv, TypeOK
  <2>2. CASE req[r].stage # "idle" /\ RecordProofNonce(req[r].nonce)
    <3>1. req[r].nonce \in Nonces
      BY <2>2 DEF RequestInv, Signed
    <3>2. now + NonceLife \in 0 .. MaxTime + 1 + NonceLife
      BY RequestAssumption, EnrollAssumption DEF RequestInv, EnrollInv, EnrollTypeOK
    <3>3. nonces' = Kept \union {[nonce |-> req[r].nonce, expires |-> now + NonceLife]}
          /\ Kept \subseteq nonces
      BY <2>2 DEF RecordProofNonce, NonceExpiry, Kept
    <3> QED BY <3>1, <3>2, <3>3 DEF RequestInv, TypeOK
  <2> QED BY <2>1, <2>2
<1>3. served' \in [Nonces -> Nat]
  BY DEF RequestInv, TypeOK, Signed
<1>4. SessionsSound'
  BY SessionsShrink DEF RequestInv
<1>5. req'[r] = x /\ \A q \in Requests : q # r => req'[q] = req[q]
  BY DEF RequestInv, TypeOK
<1>6. MutexHeld' /\ RoomMade'
  BY <1>5, RoomKept
<1> QED BY <1>1, <1>2, <1>3, <1>4, <1>6, RequestInvParts DEF RequestInv, TypeOK

LEMMA RequestVerifies ==
  ASSUME RequestInv, EnrollInv', NEW r \in Requests, NEW n \in Nonces, Verify(r, n)
  PROVE  RequestInv'
<1> DEFINE x == [Idle EXCEPT !.stage = "verified", !.nonce = n, !.since = now]
<1>1. x \in Request /\ x.stage = "verified" /\ x.nonce = n
  <2>1. now \in 0 .. MaxTime + 1
    BY EnrollAssumption DEF RequestInv, EnrollInv, EnrollTypeOK
  <2> QED BY <2>1 DEF Request, Idle, Stages
<1>2. req' = [req EXCEPT ![r] = x] /\ proofs[n] # Null
      /\ UNCHANGED <<proofs, nonces, sessions, db, served>>
  BY DEF Verify
<1> HIDE DEF x
<1> QED BY <1>1, <1>2, RequestGoesOn DEF Admitted, SessionStages

\* A request is over.
LEMMA RequestOver ==
  ASSUME RequestInv, EnrollInv', NEW r \in Requests, Over(r),
         UNCHANGED <<proofs, nonces, sessions, db, served>>
  PROVE  RequestInv'
<1>1. Idle \in Request /\ Idle.stage = "idle"
  BY EnrollAssumption DEF Request, Idle, Stages
<1>2. req' = [req EXCEPT ![r] = Idle]
  BY DEF Over
<1> HIDE DEF Idle
<1> QED BY <1>1, <1>2, RequestGoesOn DEF Admitted, SessionStages

\* A request goes on to its next stage.
LEMMA RequestGoes ==
  ASSUME RequestInv, EnrollInv', NEW r \in Requests, NEW to \in Stages \ {"idle", "open", "insert"},
         req[r].stage # "idle", Goes(r, to), UNCHANGED <<proofs, sessions, db>>,
         to \in Admitted => req[r].stage \in Admitted \/ PermitFree,
         nonces' = nonces \/ RecordProofNonce(req[r].nonce),
         served' = served \/ served' = [served EXCEPT ![req[r].nonce] = @ + 1]
  PROVE  RequestInv'
<1> DEFINE x == [req[r] EXCEPT !.stage = to]
<1>1. req[r] \in Request
  BY DEF RequestInv, TypeOK
<1>2. x \in Request /\ x.stage = to /\ x.nonce = req[r].nonce /\ x.gone = req[r].gone
  BY <1>1 DEF Request
<1>3. req' = [req EXCEPT ![r] = x]
  BY DEF Goes
<1>4. req[r].nonce \in Nonces /\ proofs[req[r].nonce] # Null
  BY DEF RequestInv, Signed
<1>5. x.stage \in Admitted /\ ~x.gone => r \in PermitHolders \/ PermitFree
  BY <1>2 DEF PermitHolders
<1> HIDE DEF x
<1> QED BY <1>2, <1>3, <1>4, <1>5, RequestGoesOn

\* A request that holds a permit, or whose client has gone, is noted something.
LEMMA RequestNotes ==
  ASSUME RequestInv, EnrollInv', NEW r \in Requests, NEW x \in Request,
         req' = [req EXCEPT ![r] = x], UNCHANGED <<proofs, nonces, sessions, db, served>>,
         req[r].stage \in Admitted, x.nonce = req[r].nonce, req[r].gone => x.gone,
         x.stage \in {"open", "insert"} => x.stage = req[r].stage
  PROVE  RequestInv'
<1>1. req[r].nonce \in Nonces /\ proofs[req[r].nonce] # Null
  BY DEF RequestInv, Signed, Admitted, SessionStages
<1>2. ~x.gone => r \in PermitHolders
  BY DEF PermitHolders
<1> QED BY <1>1, <1>2, RequestGoesOn

LEMMA BodyReceivedInv ==
  ASSUME RequestInv, EnrollInv', NEW r \in Requests, BodyReceived(r)
  PROVE  RequestInv'
<1>1. PICK v \in BOOLEAN : v = ~CheckActiveSession(req[r].nonce)
  OBVIOUS
<1> DEFINE x == [req[r] EXCEPT !.stage = "received", !.void = v]
<1>2. req[r] \in Request /\ req \in [Requests -> Request]
  BY DEF RequestInv, TypeOK
<1>3. x \in Request /\ x.stage = "received" /\ x.nonce = req[r].nonce /\ x.gone = req[r].gone
  BY <1>2 DEF Request, Stages
<1>4. req' = [req EXCEPT ![r] = x] /\ req[r].stage \in Admitted
      /\ UNCHANGED <<proofs, nonces, sessions, db, served>>
  BY <1>1, <1>2 DEF BodyReceived, At, Admitted
<1> HIDE DEF x
<1> QED BY <1>3, <1>4, RequestNotes

LEMMA SessionStartsInv ==
  ASSUME RequestInv, EnrollInv', NEW r \in Requests, SessionStarts(r)
  PROVE  RequestInv'
<1> DEFINE x == [req[r] EXCEPT !.stage = "session", !.since = now]
<1>1. req[r] \in Request /\ now \in 0 .. MaxTime + 1 /\ req \in [Requests -> Request]
  BY EnrollAssumption DEF RequestInv, TypeOK, EnrollInv, EnrollTypeOK
<1>2. x \in Request /\ x.stage = "session" /\ x.nonce = req[r].nonce /\ x.gone = req[r].gone
  BY <1>1 DEF Request, Stages, SessionStages
<1>3. req' = [req EXCEPT ![r] = x] /\ req[r].stage \in Admitted
      /\ UNCHANGED <<proofs, nonces, sessions, db, served>>
  BY <1>1 DEF SessionStarts, At, Admitted
<1> HIDE DEF x
<1> QED BY <1>2, <1>3, RequestNotes

LEMMA ClientGoneInv ==
  ASSUME RequestInv, EnrollInv', NEW r \in Requests, ClientGone(r)
  PROVE  RequestInv'
<1> DEFINE x == [req[r] EXCEPT !.gone = TRUE]
<1>1. req[r] \in Request /\ req \in [Requests -> Request]
  BY DEF RequestInv, TypeOK
<1>2. x \in Request /\ x.stage = req[r].stage /\ x.nonce = req[r].nonce /\ x.gone
  BY <1>1 DEF Request
<1>3. req' = [req EXCEPT ![r] = x] /\ req[r].stage \in Admitted
      /\ UNCHANGED <<proofs, nonces, sessions, db, served>>
  BY <1>1 DEF ClientGone, Admitted
<1> HIDE DEF x
<1> QED BY <1>2, <1>3, RequestNotes

LEMMA SessionChecksInv ==
  ASSUME RequestInv, EnrollInv', NEW r \in Requests, SessionChecks(r)
  PROVE  RequestInv'
<1>1. /\ req[r].stage = "session" /\ sessions' \subseteq sessions /\ db = Free
      /\ UNCHANGED <<proofs, nonces, served>>
      /\ \/ Goes(r, "open") /\ db' = r
         \/ Over(r) /\ db' = db
  BY DEF SessionChecks, At, Locks
<1>2. SessionsSound'
  BY <1>1, SessionsShrink DEF RequestInv
<1>3. req[r] \in Request /\ req \in [Requests -> Request] /\ db \in Requests \union {Free}
      /\ sessions \subseteq [token : Tokens, enrollment : Enrollments, expires : Nat, rowid : Nat]
  BY DEF RequestInv, TypeOK
<1>4. PICK x \in Request :
          /\ req' = [req EXCEPT ![r] = x]
          /\ x.stage # "idle" => x.nonce = req[r].nonce /\ x.gone = req[r].gone
          /\ x.stage # "insert"
          /\ x.stage = "open" => db' = r
  <2>1. CASE Goes(r, "open") /\ db' = r
    <3> DEFINE y == [req[r] EXCEPT !.stage = "open"]
    <3>1. y \in Request /\ y.stage = "open" /\ y.nonce = req[r].nonce /\ y.gone = req[r].gone
      BY <1>3 DEF Request, Stages, SessionStages
    <3>2. req' = [req EXCEPT ![r] = y]
      BY <2>1 DEF Goes
    <3> HIDE DEF y
    <3> QED BY <2>1, <3>1, <3>2
  <2>2. CASE Over(r)
    <3>1. Idle \in Request /\ Idle.stage = "idle"
      BY EnrollAssumption DEF Idle, Request, Stages
    <3> QED BY <2>2, <3>1 DEF Over
  <2> QED BY <1>1, <2>1, <2>2
<1>5. /\ req[r].nonce \in Nonces /\ proofs[req[r].nonce] # Null
      /\ x.stage \in Admitted /\ ~x.gone => r \in PermitHolders
  BY <1>1, <1>4 DEF RequestInv, Signed, Admitted, SessionStages, PermitHolders
<1>6. /\ req' \in [Requests -> Request]
      /\ Signed' /\ IsFiniteSet(PermitHolders') /\ Cardinality(PermitHolders') <= Permits
  BY <1>1, <1>4, <1>5, RequestMoves
<1>7. req'[r] = x /\ \A q \in Requests : q # r => req'[q] = req[q]
  BY <1>3, <1>4
<1>8. \A q \in Requests : q # r => req'[q].stage \notin {"open", "insert"}
  BY <1>1, <1>7, NobodyElse
<1>9. MutexHeld' /\ RoomMade'
  BY <1>4, <1>7, <1>8 DEF MutexHeld, RoomMade
<1>10. (db' \in Requests \union {Free}) /\ (sessions' \subseteq
          [token : Tokens, enrollment : Enrollments, expires : Nat, rowid : Nat])
  BY <1>1, <1>3
<1> QED BY <1>1, <1>2, <1>6, <1>9, <1>10, RequestInvParts DEF RequestInv, TypeOK

LEMMA SessionEvictsInv ==
  ASSUME RequestInv, EnrollInv', NEW r \in Requests, SessionEvicts(r)
  PROVE  RequestInv'
<1>1. PICK e : e = proofs[req[r].nonce].enrollment
  OBVIOUS
<1>2. /\ req[r].stage = "open" /\ Goes(r, "insert") /\ sessions' = sessions \ Evicted(e)
      /\ UNCHANGED <<proofs, nonces, db, served>>
  BY <1>1 DEF SessionEvicts, At
<1>3. /\ req[r] \in Request /\ req \in [Requests -> Request]
      /\ sessions \subseteq [token : Tokens, enrollment : Enrollments, expires : Nat, rowid : Nat]
      /\ proofs \in [Nonces -> [enrollment : Enrollments, token : Tokens \union {Null},
                                issued : Int] \union {Null}]
  BY DEF RequestInv, TypeOK
<1>4. req[r].nonce \in Nonces /\ proofs[req[r].nonce] # Null
  BY <1>2 DEF RequestInv, Signed
<1>5. e \in Enrollments
  BY <1>1, <1>3, <1>4
<1> DEFINE y == [req[r] EXCEPT !.stage = "insert"]
<1>6. y \in Request /\ y.stage = "insert" /\ y.nonce = req[r].nonce /\ y.gone = req[r].gone
  BY <1>3 DEF Request, Stages, SessionStages
<1>7. req' = [req EXCEPT ![r] = y]
  BY <1>2 DEF Goes
<1> HIDE DEF y
<1>8. ~y.gone => r \in PermitHolders
  BY <1>2, <1>6 DEF PermitHolders, Admitted, SessionStages
<1>9. /\ req' \in [Requests -> Request]
      /\ Signed' /\ IsFiniteSet(PermitHolders') /\ Cardinality(PermitHolders') <= Permits
  BY <1>2, <1>4, <1>6, <1>7, <1>8, RequestMoves
<1>10. req'[r] = y /\ \A q \in Requests : q # r => req'[q] = req[q]
  BY <1>3, <1>7
<1>11. db = r
  BY <1>2 DEF RequestInv, MutexHeld
<1>12. \A q \in Requests : q # r => req'[q].stage \notin {"open", "insert"}
  BY <1>10, <1>11, NobodyElse
<1>13. MutexHeld'
  BY <1>2, <1>10, <1>11, <1>12 DEF MutexHeld
<1>14. Cardinality(Own(e)') <= SessionsKept - 1
  <2>1. SessionsSound
    BY DEF RequestInv
  <2>2. Cardinality(Own(e) \ Evicted(e)) <= SessionsKept - 1
    BY <1>3, <1>5, <2>1, EvictedRoom
  <2>3. Own(e)' = Own(e) \ Evicted(e)
    BY <1>2 DEF Own
  <2> QED BY <2>2, <2>3
<1>15. RoomMade'
  <2> SUFFICES ASSUME NEW q \in Requests, req'[q].stage = "insert",
                      NEW f, f = proofs'[req'[q].nonce].enrollment
               PROVE  Cardinality(Own(f)') <= SessionsKept - 1
    BY DEF RoomMade, Own
  <2>1. q = r /\ f = e
    BY <1>1, <1>2, <1>6, <1>10, <1>12
  <2> QED BY <1>14, <2>1
<1>16. SessionsSound'
  BY <1>2, SessionsShrink DEF RequestInv
<1>17. (sessions \subseteq [token : Tokens, enrollment : Enrollments, expires : Nat, rowid : Nat])'
  BY <1>2, <1>3
<1> QED BY <1>2, <1>9, <1>13, <1>15, <1>16, <1>17, RequestInvParts DEF RequestInv, TypeOK

LEMMA SessionInsertsInv ==
  ASSUME RequestInv, EnrollInv', NEW r \in Requests, SessionInserts(r)
  PROVE  RequestInv'
<1>1. PICK e, since : e = proofs[req[r].nonce].enrollment /\ since = req[r].since
  OBVIOUS
<1>2. req[r].stage = "insert" /\ Over(r) /\ db' = Free /\ UNCHANGED <<proofs, nonces, served>>
  BY DEF SessionInserts, At
<1>3. PICK k \in Unknown, i \in {1} \union {s.rowid + 1 : s \in sessions} :
          /\ \A s \in sessions : s.rowid < i
          /\ sessions' = sessions \union {[token |-> k, enrollment |-> e,
                                           expires |-> since + SessionLife, rowid |-> i]}
  BY <1>1 DEF SessionInserts
<1>4. /\ req[r] \in Request /\ req \in [Requests -> Request]
      /\ sessions \subseteq [token : Tokens, enrollment : Enrollments, expires : Nat, rowid : Nat]
      /\ proofs \in [Nonces -> [enrollment : Enrollments, token : Tokens \union {Null},
                                issued : Int] \union {Null}]
  BY DEF RequestInv, TypeOK
<1>5. req[r].nonce \in Nonces /\ proofs[req[r].nonce] # Null
  BY <1>2 DEF RequestInv, Signed
<1>6. since \in Nat
  BY <1>1, <1>4, EnrollAssumption DEF Request
<1>7. e \in Enrollments /\ k \in Tokens /\ i \in Nat /\ since + SessionLife \in Nat
  BY <1>1, <1>3, <1>4, <1>5, <1>6, RequestAssumption DEF Unknown
<1>8. PICK new : new = [token |-> k, enrollment |-> e, expires |-> since + SessionLife, rowid |-> i]
  OBVIOUS
<1>9. /\ new \in [token : Tokens, enrollment : Enrollments, expires : Nat, rowid : Nat]
      /\ new.enrollment = e /\ new.rowid = i
  BY <1>7, <1>8
<1>10. sessions' = sessions \union {new} /\ \A s \in sessions : s.rowid < new.rowid
  BY <1>3, <1>8, <1>9
<1>11. SessionsSound /\ Cardinality(Own(e)) <= SessionsKept - 1 /\ db = r
  BY <1>1, <1>2 DEF RequestInv, RoomMade, MutexHeld
<1>12. SessionsSound'
  BY <1>4, <1>7, <1>9, <1>10, <1>11, SessionInserted
<1>13. sessions' \subseteq [token : Tokens, enrollment : Enrollments, expires : Nat, rowid : Nat]
  BY <1>4, <1>9, <1>10
<1>14. Idle \in Request /\ Idle.stage = "idle" /\ req' = [req EXCEPT ![r] = Idle]
  BY <1>2, EnrollAssumption DEF Idle, Request, Stages, Over
<1> HIDE DEF Idle
<1>15. /\ req' \in [Requests -> Request]
       /\ Signed' /\ IsFiniteSet(PermitHolders') /\ Cardinality(PermitHolders') <= Permits
  BY <1>2, <1>14, RequestMoves DEF Admitted, SessionStages
<1>16. req'[r] = Idle /\ \A q \in Requests : q # r => req'[q] = req[q]
  BY <1>4, <1>14
<1>17. \A q \in Requests : req'[q].stage \notin {"open", "insert"}
  BY <1>11, <1>14, <1>16, NobodyElse
<1>18. MutexHeld' /\ RoomMade'
  BY <1>17 DEF MutexHeld, RoomMade
<1> QED BY <1>2, <1>12, <1>13, <1>15, <1>18, RequestInvParts DEF RequestInv, TypeOK

LEMMA RequestHandled ==
  ASSUME RequestInv, EnrollInv', NEW r \in Requests, Admission(r) \/ Handling(r)
  PROVE  RequestInv'
<1> USE DEF SessionStages
<1>1. CASE AdmitRefused(r) \/ WaitTimeout(r) \/ RefusedAfterWait(r) \/ BodyFails(r)
           \/ BodyRefused(r) \/ Handled(r)
  BY <1>1, RequestOver
     DEF AdmitRefused, WaitTimeout, RefusedAfterWait, BodyFails, BodyRefused, Handled
<1>2. CASE Admit(r)
  BY <1>2, RequestGoes DEF Admit, At, Stages, Admitted
<1>3. CASE RecordAfterWait(r)
  BY <1>3, RequestGoes DEF RecordAfterWait, At, Stages, Admitted
<1>4. CASE AdmitWaits(r)
  BY <1>4, RequestGoes DEF AdmitWaits, At, Stages, Admitted
<1>5. CASE Granted(r)
  BY <1>5, RequestGoes DEF Granted, At, Stages, Admitted
<1>6. CASE Authorize(r)
  BY <1>6, RequestGoes DEF Authorize, At, Stages, Admitted
<1>7. CASE Serve(r)
  BY <1>7, RequestGoes DEF Serve, At, Stages, Admitted
<1>8. CASE BodyReceived(r) \/ ClientGone(r) \/ SessionStarts(r)
  BY <1>8, BodyReceivedInv, ClientGoneInv, SessionStartsInv
<1>9. CASE SessionChecks(r) \/ SessionEvicts(r) \/ SessionInserts(r)
  BY <1>9, SessionChecksInv, SessionEvictsInv, SessionInsertsInv
<1> QED BY <1>1, <1>2, <1>3, <1>4, <1>5, <1>6, <1>7, <1>8, <1>9 DEF Admission, Handling

LEMMA RequestRestarts ==
  ASSUME RequestInv, EnrollInv', Restart
  PROVE  RequestInv'
<1>1. /\ req' = [r \in Requests |-> Idle] /\ db' = Free
      /\ UNCHANGED <<proofs, nonces, sessions, served>>
  BY DEF Restart
<1>2. Idle \in Request /\ Idle.stage = "idle"
  BY EnrollAssumption DEF Request, Idle, Stages
<1>3. Signed' /\ PermitHolders' = {} /\ MutexHeld' /\ RoomMade'
  BY <1>1, <1>2 DEF Signed, PermitHolders, Admitted, SessionStages, MutexHeld, RoomMade
<1>4. SessionsSound'
  BY <1>1, SessionsShrink DEF RequestInv
<1>5. IsFiniteSet(PermitHolders') /\ Cardinality(PermitHolders') <= Permits
  BY <1>3, FS_EmptySet, RequestAssumption
<1> QED BY <1>1, <1>2, <1>3, <1>4, <1>5, RequestInvParts DEF RequestInv, TypeOK

LEMMA RequestStep == RequestInv /\ [Next]_vars => RequestInv'
<1> SUFFICES ASSUME RequestInv, [Next]_vars PROVE RequestInv'
  OBVIOUS
<1>1. EnrollInv'
  BY RequestStepEnrolls, EnrollInvStep DEF RequestInv
<1>2. CASE (Admin \/ EnrollServer) /\ UNCHANGED <<now, requestVars>>
  BY <1>1, <1>2, RequestTables DEF requestVars
<1>3. CASE Client /\ UNCHANGED <<now, enrollVars>>
  BY <1>1, <1>3, RequestSigns, RequestVerifies DEF Client
<1>4. CASE (\E r \in Requests : Admission(r) \/ Handling(r)) /\ UNCHANGED <<now, enrollVars>>
  BY <1>1, <1>4, RequestHandled
<1>5. CASE \E d \in Devices : Revoke(d) /\ UNCHANGED now
  BY <1>1, <1>5, RequestTables DEF Revoke
<1>6. CASE Restart
  BY <1>1, <1>6, RequestRestarts
<1>7. CASE TimePasses
  BY <1>1, <1>7, RequestTables DEF TimePasses, requestVars
<1>8. CASE UNCHANGED vars
  BY <1>1, <1>8, RequestTables DEF vars, requestVars
<1> QED BY <1>2, <1>3, <1>4, <1>5, <1>6, <1>7, <1>8 DEF Next

LEMMA RequestInvHolds == Spec => []RequestInv
  BY RequestInit, RequestStep, PTL DEF Spec

(* The tables and the requests have their types, and never more than       *)
(* Permits requests hold one of the permits of signed_request_limit.       *)
THEOREM RequestsTypeCorrect == Spec => []TypeOK
<1>1. RequestInv => TypeOK
  BY DEF RequestInv
<1> QED BY <1>1, RequestInvHolds, PTL

(* The DELETE of session() makes room for the row it inserts, whatever     *)
(* rows expire together and whoever was revoked in between: an enrolment   *)
(* never has more than SessionsKept sessions.                              *)
THEOREM SessionsKeepLimit == Spec => []SessionsLimited
<1>1. RequestInv => SessionsLimited
  BY DEF RequestInv, SessionsSound
<1> QED BY <1>1, RequestInvHolds, PTL

-----------------------------------------------------------------------------
(* A right that ended is seen. *)

\* What makes the end of a right final: a request has the proof of a row that was
\* approved, which only a revocation can end; and a session that is no longer there does
\* not come back.
Final(n) ==
    /\ proofs[n] # Null
    /\ proofs[n].enrollment \in Rows /\ enrollments[proofs[n].enrollment].approved

\* A request whose right had ended is still before the check, which sees it.
VoidSeenOf(r) ==
    /\ req[r].stage # "idle" => req[r].nonce \in Nonces /\ Final(req[r].nonce)
    /\ req[r].void => req[r].stage = "received" /\ ~CheckActiveSession(req[r].nonce)
VoidSeen == \A r \in Requests : VoidSeenOf(r)

\* An approved row keeps its device, and is never withdrawn but by revocation.
LEMMA ApprovedStays ==
  ASSUME RequestInv, [Next]_vars, NEW e \in Rows, enrollments[e].approved
  PROVE  /\ e \in Rows' /\ enrollments'[e].approved
         /\ enrollments'[e].device = enrollments[e].device /\ revoked \subseteq revoked'
<1>1. EnrollTypeOK /\ e \in Enrollments /\ enrollments[e] \in Row
  BY DEF RequestInv, EnrollInv, EnrollTypeOK, Rows
<1>2. [EnrollNext]_<<now, enrollVars>>
  BY RequestStepEnrolls
<1>3. \/ \E d \in Devices : RevokeRow(d)
      \/ UNCHANGED <<enrollments, revoked>>
      \/ Admin
      \/ \E t \in Tasks : StartBinds(t)
      \/ \E f \in Enrollments, k \in Keys : FinishEnrollment(f, k)
  BY <1>2 DEF EnrollNext, EnrollServer, StartsLost, StartChecks, StartFails, StartRefused,
              StartResumes, enrollVars
<1>4. CASE \E d \in Devices : RevokeRow(d)
  BY <1>4 DEF RevokeRow, Rows
<1>5. CASE UNCHANGED <<enrollments, revoked>>
  BY <1>5 DEF Rows
<1>6. CASE Admin
  <2>1. CASE \E f \in Enrollments, d \in Devices : Invite(f, d)
    BY <1>1, <2>1 DEF Invite, EnrollTypeOK, Rows
  <2>2. CASE \E f \in Enrollments, k \in Keys : Approve(f, k)
    <3>1. PICK f \in Enrollments :
              enrollments' = [enrollments EXCEPT ![f].approved = TRUE, ![f].activation = Null,
                                                 ![f].challenge = Null]
              /\ revoked' = revoked
      BY <2>2 DEF Approve
    <3> DEFINE new == [enrollments[e] EXCEPT !.approved = TRUE, !.activation = Null,
                                             !.challenge = Null]
    <3>2. new \in Row /\ new.approved /\ new.device = enrollments[e].device
      BY <1>1, RowUpdates, EnrollAssumption DEF Row
    <3>3. enrollments'[e] = IF e = f THEN new ELSE enrollments[e]
      BY <1>1, <3>1 DEF EnrollTypeOK
    <3> HIDE DEF new
    <3> QED BY <1>1, <3>1, <3>2, <3>3, NewRow DEF Rows
  <2>3. CASE \E f \in Enrollments : Cancel(f)
    BY <1>1, <2>3, EnrollAssumption, NewRow DEF Cancel, EnrollTypeOK, Rows, Row
  <2> QED BY <1>6, <2>1, <2>2, <2>3 DEF Admin
<1>7. CASE \E t \in Tasks : StartBinds(t)
  BY <1>1, <1>7, EnrollAssumption, NewRow DEF StartBinds, Startable, Live, EnrollTypeOK, Rows, Row
<1>8. CASE \E f \in Enrollments, k \in Keys : FinishEnrollment(f, k)
  BY <1>1, <1>8, EnrollAssumption, NewRow
     DEF FinishEnrollment, Finishable, Live, EnrollTypeOK, Rows, Row
<1> QED BY <1>3, <1>4, <1>5, <1>6, <1>7, <1>8

\* The end of a right is final.
LEMMA RightEnds ==
  ASSUME RequestInv, [Next]_vars, NEW n \in Nonces, Final(n)
  PROVE  Final(n)' /\ (~CheckActiveSession(n) => ~CheckActiveSession(n)')
<1>1. PICK p : p = proofs[n]
  OBVIOUS
<1>2. /\ p # Null /\ p.enrollment \in Rows /\ enrollments[p.enrollment].approved
  BY <1>1 DEF Final
<1>3. /\ p.enrollment \in Rows' /\ enrollments'[p.enrollment].approved
      /\ enrollments'[p.enrollment].device = enrollments[p.enrollment].device
      /\ revoked \subseteq revoked'
  BY <1>2, ApprovedStays
<1>4. proofs'[n] = p
  <2>1. \/ proofs' = proofs
        \/ \E m \in Nonces : \E x : proofs[m] = Null /\ proofs' = [proofs EXCEPT ![m] = x]
    BY DEF Next, vars, requestVars, Client, Sign, Verify, Admission, Admit, AdmitRefused,
           AdmitWaits, Granted, WaitTimeout, RecordAfterWait, RefusedAfterWait, Handling,
           BodyReceived, BodyFails, Authorize, BodyRefused, Serve, Handled, ClientGone,
           SessionStarts, SessionChecks, SessionEvicts, SessionInserts, Revoke, Restart, TimePasses
  <2> QED BY <1>1, <1>2, <2>1 DEF RequestInv, TypeOK
<1>5. \A s \in sessions' : s.token = p.token /\ p.token # Null => s \in sessions
  <2>1. CASE sessions' \subseteq sessions
    BY <2>1
  <2>2. CASE \E r \in Requests : SessionInserts(r)
    <3>1. PICK k \in Unknown : \E x : x.token = k /\ sessions' = sessions \union {x}
      BY <2>2 DEF SessionInserts
    <3>2. k # p.token
      BY <1>1, <1>2 DEF Unknown
    <3> QED BY <3>1, <3>2
  <2>3. (sessions' \subseteq sessions) \/ \E r \in Requests : SessionInserts(r)
    BY DEF Next, vars, requestVars, Client, Sign, Verify, Admission, Admit, AdmitRefused,
           AdmitWaits, Granted, WaitTimeout, RecordAfterWait, RefusedAfterWait, Handling,
           BodyReceived, BodyFails, Authorize, BodyRefused, Serve, Handled, ClientGone,
           SessionStarts, SessionChecks, SessionEvicts, Revoke, Restart, TimePasses
  <2> QED BY <2>1, <2>2, <2>3
<1>6. now \in Nat /\ now' \in Nat /\ now <= now'
  <2>1. now \in Nat
    BY EnrollAssumption DEF RequestInv, EnrollInv, EnrollTypeOK
  <2>2. now' = now \/ now' = now + 1
    BY RequestStepEnrolls DEF EnrollNext, Tick
  <2> QED BY <2>1, <2>2
<1>7. Final(n)'
  BY <1>2, <1>3, <1>4 DEF Final
<1>8. ASSUME CheckActiveSession(n)' PROVE CheckActiveSession(n)
  <2>1. Active(p.enrollment)
    BY <1>2, <1>3, <1>4, <1>8 DEF CheckActiveSession, Active, Unrevoked
  <2>2. CASE p.token = Null
    BY <1>1, <2>1, <2>2 DEF CheckActiveSession
  <2>3. CASE p.token # Null
    <3>1. PICK s \in sessions' :
              s.token = p.token /\ s.enrollment = p.enrollment /\ s.expires > now'
      BY <1>4, <1>8, <2>3 DEF CheckActiveSession
    <3>2. s \in sessions
      BY <1>5, <2>3, <3>1
    <3>3. s.expires \in Nat
      BY <3>2 DEF RequestInv, TypeOK
    <3>4. s.expires > now
      BY <1>6, <3>1, <3>3
    <3> QED BY <1>1, <2>1, <3>1, <3>2, <3>4 DEF CheckActiveSession
  <2> QED BY <2>2, <2>3
<1> QED BY <1>7, <1>8

LEMMA VoidSeenInit == Init => VoidSeen
  BY DEF Init, Idle, VoidSeen, VoidSeenOf

\* A request goes on, and is still before the check if its right has ended.
Moves(r) ==
    /\ req[r].stage # "idle" /\ req'[r].nonce = req[r].nonce
    /\ req'[r].void => req'[r].stage = "received" /\ ~CheckActiveSession(req[r].nonce)

LEMMA VoidMoves ==
  ASSUME RequestInv, VoidSeen, [Next]_vars, NEW r \in Requests, Moves(r)
  PROVE  VoidSeenOf(r)'
<1>1. PICK n \in Nonces : n = req[r].nonce /\ n = req'[r].nonce /\ Final(n)
  BY DEF Moves, VoidSeen, VoidSeenOf
<1>2. Final(n)' /\ (~CheckActiveSession(n) => ~CheckActiveSession(n)')
  BY <1>1, RightEnds
<1>3. req'[r].void => req'[r].stage = "received" /\ ~CheckActiveSession(n)
  BY <1>1 DEF Moves
<1> QED BY <1>1, <1>2, <1>3 DEF VoidSeenOf, Final, CheckActiveSession

\* Every step of a request is such a move, or its end.
LEMMA HandlingMoves ==
  ASSUME RequestInv, VoidSeen, NEW r \in Requests, Admission(r) \/ Handling(r)
  PROVE  /\ req'[r] = Idle \/ Moves(r)
         /\ \A q \in Requests : q # r => req'[q] = req[q]
<1>1. req \in [Requests -> Request] /\ req[r] \in Request /\ VoidSeenOf(r)
  BY DEF RequestInv, TypeOK, VoidSeen
<1>2. CASE Over(r)
  BY <1>1, <1>2 DEF Over
<1>3. ASSUME NEW to, Goes(r, to), req[r].stage # "idle",
             req[r].stage = "received" => CheckActiveSession(req[r].nonce)
      PROVE  /\ Moves(r) /\ \A q \in Requests : q # r => req'[q] = req[q]
  BY <1>1, <1>3 DEF Goes, Moves, Request, VoidSeenOf
<1>4. CASE Admit(r) \/ AdmitWaits(r) \/ Granted(r) \/ RecordAfterWait(r) \/ Authorize(r) \/ Serve(r)
           \/ SessionEvicts(r) \/ (SessionChecks(r) /\ ~Over(r))
  BY <1>3, <1>4 DEF Admit, AdmitWaits, Granted, RecordAfterWait, Authorize, StillValid, Serve,
                    SessionEvicts, SessionChecks, At
<1>5. CASE BodyReceived(r)
  BY <1>1, <1>5 DEF BodyReceived, At, Moves, Request
<1>6. CASE SessionStarts(r) \/ ClientGone(r)
  BY <1>1, <1>6 DEF SessionStarts, ClientGone, At, Moves, Request, VoidSeenOf, SessionStages
<1> QED BY <1>2, <1>4, <1>5, <1>6
        DEF Admission, Handling, AdmitRefused, WaitTimeout, RefusedAfterWait, BodyFails,
            BodyRefused, Handled, SessionInserts

LEMMA VoidSeenStep == RequestInv /\ VoidSeen /\ [Next]_vars => VoidSeen'
<1> SUFFICES ASSUME RequestInv, VoidSeen, [Next]_vars, NEW r \in Requests
             PROVE  VoidSeenOf(r)'
  BY DEF VoidSeen
<1>1. req \in [Requests -> Request] /\ VoidSeenOf(r)
  BY DEF RequestInv, TypeOK, VoidSeen
<1>2. CASE req'[r] = Idle
  BY <1>2 DEF VoidSeenOf, Idle
<1>3. CASE Moves(r)
  BY <1>3, VoidMoves
<1>4. CASE req'[r] = req[r]
  <2>1. CASE req[r].stage = "idle"
    BY <1>1, <1>4, <2>1 DEF VoidSeenOf
  <2>2. CASE req[r].stage # "idle"
    BY <1>1, <1>3, <1>4, <2>2 DEF Moves, VoidSeenOf
  <2> QED BY <2>1, <2>2
<1>5. CASE \E n \in Nonces : Verify(r, n)
  <2>1. PICK n \in Nonces : Verify(r, n)
    BY <1>5
  <2>2. Final(n)
    BY <2>1 DEF Verify, CheckActiveSession, Active, Final
  <2>3. Final(n)'
    BY <2>2, RightEnds
  <2>4. req'[r].nonce = n /\ ~req'[r].void
    BY <1>1, <2>1 DEF Verify, Idle
  <2> QED BY <2>3, <2>4 DEF VoidSeenOf, Final
<1>6. CASE \E q \in Requests : Admission(q) \/ Handling(q)
  BY <1>2, <1>3, <1>4, <1>6, HandlingMoves
<1>7. CASE Restart
  BY <1>2, <1>7 DEF Restart
<1>8. CASE \E q \in Requests, n \in Nonces : q # r /\ Verify(q, n)
  BY <1>1, <1>4, <1>8 DEF Verify
<1>9. CASE req' = req
  BY <1>4, <1>9
<1> QED BY <1>5, <1>6, <1>7, <1>8, <1>9
        DEF Next, vars, requestVars, Client, Sign, Revoke, TimePasses

(* The last check of middleware comes after the body.  A device that was   *)
(* revoked, or whose session ended, before that is refused, although       *)
(* approval, invitations, new sessions and restarts go on meanwhile: what  *)
(* ended does not come back between the body and the check.                *)
THEOREM EndedRightsRefused == Spec => []VoidNotServed
<1>1. VoidSeen => VoidNotServed
  BY DEF VoidSeen, VoidSeenOf, VoidNotServed, SessionStages
<1> QED BY <1>1, RequestInvHolds, VoidSeenInit, VoidSeenStep, PTL DEF Spec
=============================================================================
