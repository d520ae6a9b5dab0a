----------------------- MODULE DeviceEnrollmentProofs -----------------------
(* Theorems about DeviceEnrollment, for every value of its constants. *)
EXTENDS DeviceEnrollment, TLAPS

\* What ties a row to the keys: a credential is handed out for the key that is bound,
\* the secrets of a row are that key's, and verification has seen its activation.
BindingSound ==
    /\ \A p \in handed : p[1] \in Rows /\ enrollments[p[1]].public = p[2]
    /\ \A e \in Rows :
           /\ enrollments[e].activation \in {Null, enrollments[e].public}
           /\ enrollments[e].challenge \in {Null, enrollments[e].public}
           /\ enrollments[e].verified => <<e, enrollments[e].public>> \in proved
           /\ enrollments[e].approved => enrollments[e].verified

\* The inductive invariant.
EnrollInv ==
    EnrollTypeOK /\ BindingSound /\ OneEnrollmentPerDevice /\ BoundStartHasChallenge

\* Every step of the administrator, of the server and of the clock.
LEMMA EnrollInvInit == EnrollInit => EnrollInv
  BY EnrollAssumption
  DEF EnrollInit, EnrollInv, EnrollTypeOK, BindingSound, OneEnrollmentPerDevice,
      BoundStartHasChallenge, Rows

\* What the operations make of a row is a row.
LEMMA RowUpdates ==
  ASSUME NEW r \in Row, NEW k \in Keys \union {Null},
         NEW x \in 0 .. MaxTime + InviteLife + VerifiedLife
  PROVE  /\ [r EXCEPT !.approved = TRUE, !.activation = Null, !.challenge = Null] \in Row
         /\ [r EXCEPT !.expires = x, !.activation = Null, !.challenge = Null] \in Row
         /\ [r EXCEPT !.public = k, !.activation = k, !.challenge = k] \in Row
         /\ [r EXCEPT !.verified = TRUE, !.expires = x, !.challenge = Null] \in Row
<1>1. [r EXCEPT !.approved = TRUE, !.activation = Null, !.challenge = Null] \in Row
  BY DEF Row
<1>2. [r EXCEPT !.expires = x, !.activation = Null, !.challenge = Null] \in Row
  BY DEF Row
<1>3. [r EXCEPT !.public = k, !.activation = k, !.challenge = k] \in Row
  BY DEF Row
<1>4. [r EXCEPT !.verified = TRUE, !.expires = x, !.challenge = Null] \in Row
  BY DEF Row
<1> QED BY <1>1, <1>2, <1>3, <1>4

\* A row that is replaced leaves the set of rows and the types alone.
LEMMA RowReplaced ==
  ASSUME EnrollTypeOK, NEW e \in Rows, NEW new \in Row,
         enrollments' = [enrollments EXCEPT ![e] = new]
  PROVE  /\ enrollments' \in [Enrollments -> Row \union {Null}]
         /\ Rows' = Rows
         /\ enrollments'[e] = new
         /\ \A f \in Rows : f # e => enrollments'[f] = enrollments[f]
<1>1. e \in Enrollments
  BY DEF Rows
<1>2. /\ enrollments' \in [Enrollments -> Row \union {Null}]
      /\ enrollments'[e] = new
      /\ \A f \in Enrollments : f # e => enrollments'[f] = enrollments[f]
  BY <1>1 DEF EnrollTypeOK
<1>3. Rows' = Rows
  BY <1>1, <1>2, NewRow DEF Rows
<1> QED BY <1>2, <1>3 DEF Rows

LEMMA InviteInv ==
  ASSUME EnrollInv, NEW e \in Enrollments, NEW d \in Devices, Invite(e, d), UNCHANGED now
  PROVE  EnrollInv'
<1> USE EnrollAssumption DEF EnrollInv, Invite
<1>1. EnrollTypeOK'
  BY DEF EnrollTypeOK, Row
<1>2. BindingSound'
  BY DEF EnrollTypeOK, BindingSound, Rows
<1>3. OneEnrollmentPerDevice'
  BY DEF EnrollTypeOK, OneEnrollmentPerDevice, Occupied, Live, Rows
<1>4. BoundStartHasChallenge'
  BY DEF EnrollTypeOK, BoundStartHasChallenge, Startable, Live, Unrevoked, Rows
<1> QED BY <1>1, <1>2, <1>3, <1>4

LEMMA ApproveInv ==
  ASSUME EnrollInv, NEW e \in Enrollments, NEW k \in Keys, Approve(e, k), UNCHANGED now
  PROVE  EnrollInv'
<1> DEFINE new == [enrollments[e] EXCEPT !.approved = TRUE, !.activation = Null,
                                         !.challenge = Null]
<1>1. e \in Rows /\ enrollments[e] \in Row /\ Live(e) /\ enrollments[e].verified
  BY DEF Approve, EnrollInv, EnrollTypeOK, Live, Rows
<1>2. enrollments' = [enrollments EXCEPT ![e] = new] /\ UNCHANGED <<revoked, starts, handed, proved>>
  BY DEF Approve, EnrollInv, EnrollTypeOK
<1>3. new \in Row
  <2>1. 0 \in 0 .. MaxTime + InviteLife + VerifiedLife
    BY EnrollAssumption
  <2> QED BY <1>1, <2>1, RowUpdates
<1>4. /\ new.device = enrollments[e].device /\ new.expires = enrollments[e].expires
      /\ new.public = enrollments[e].public /\ new.verified
      /\ new.approved /\ new.activation = Null /\ new.challenge = Null
  BY <1>1 DEF Row
<1> HIDE DEF new
<1>5. /\ enrollments' \in [Enrollments -> Row \union {Null}]
      /\ Rows' = Rows
      /\ enrollments'[e] = new
      /\ \A f \in Rows : f # e => enrollments'[f] = enrollments[f]
  BY <1>1, <1>2, <1>3, RowReplaced DEF EnrollInv
<1>6. EnrollTypeOK'
  BY <1>2, <1>5 DEF EnrollInv, EnrollTypeOK
<1>7. BindingSound'
  BY <1>1, <1>2, <1>4, <1>5 DEF EnrollInv, BindingSound
<1>8. OneEnrollmentPerDevice'
  BY <1>1, <1>4, <1>5 DEF EnrollInv, OneEnrollmentPerDevice, Live
<1>9. BoundStartHasChallenge'
  BY <1>1, <1>2, <1>4, <1>5 DEF EnrollInv, BoundStartHasChallenge, Startable, Live, Unrevoked
<1> QED BY <1>6, <1>7, <1>8, <1>9 DEF EnrollInv

LEMMA CancelInv ==
  ASSUME EnrollInv, NEW e \in Enrollments, Cancel(e), UNCHANGED now
  PROVE  EnrollInv'
<1> DEFINE new == [enrollments[e] EXCEPT !.expires = 0, !.activation = Null,
                                         !.challenge = Null]
<1>1. e \in Rows /\ enrollments[e] \in Row
  BY DEF Cancel, EnrollInv, EnrollTypeOK, Rows
<1>2. enrollments' = [enrollments EXCEPT ![e] = new] /\ UNCHANGED <<revoked, starts, handed, proved>>
  BY DEF Cancel, EnrollInv, EnrollTypeOK
<1>3. new \in Row
  <2>1. 0 \in 0 .. MaxTime + InviteLife + VerifiedLife
    BY EnrollAssumption
  <2> QED BY <1>1, <2>1, RowUpdates
<1>4. /\ new.device = enrollments[e].device /\ new.expires = 0
      /\ new.public = enrollments[e].public /\ new.verified = enrollments[e].verified
      /\ new.approved = enrollments[e].approved
      /\ new.activation = Null /\ new.challenge = Null
  BY <1>1 DEF Row
<1> HIDE DEF new
<1>5. /\ enrollments' \in [Enrollments -> Row \union {Null}]
      /\ Rows' = Rows
      /\ enrollments'[e] = new
      /\ \A f \in Rows : f # e => enrollments'[f] = enrollments[f]
  BY <1>1, <1>2, <1>3, RowReplaced DEF EnrollInv
<1>6. EnrollTypeOK'
  BY <1>2, <1>5 DEF EnrollInv, EnrollTypeOK
<1>7. BindingSound'
  BY <1>1, <1>2, <1>4, <1>5 DEF EnrollInv, BindingSound
<1>8. ~Live(e)'
  BY <1>4, <1>5 DEF Live, EnrollInv, EnrollTypeOK
<1>9. OneEnrollmentPerDevice'
  BY <1>4, <1>5, <1>8 DEF EnrollInv, OneEnrollmentPerDevice, Live
<1>10. BoundStartHasChallenge'
  BY <1>2, <1>5, <1>8 DEF EnrollInv, BoundStartHasChallenge, Startable, Live, Unrevoked
<1> QED BY <1>6, <1>7, <1>9, <1>10 DEF EnrollInv

LEMMA RevokeInv ==
  ASSUME EnrollInv, NEW d \in Devices, RevokeRow(d), UNCHANGED now
  PROVE  EnrollInv'
<1> USE EnrollAssumption DEF EnrollInv, RevokeRow
<1>1. EnrollTypeOK'
  BY DEF EnrollTypeOK
<1>2. BindingSound'
  BY DEF BindingSound, Rows
<1>3. OneEnrollmentPerDevice'
  BY DEF OneEnrollmentPerDevice, Live, Rows
<1>4. BoundStartHasChallenge'
  BY DEF BoundStartHasChallenge, Startable, Live, Unrevoked, Rows
<1> QED BY <1>1, <1>2, <1>3, <1>4

\* Starts that only come and go, or hand out a challenge again.
LEMMA StartInv ==
  ASSUME EnrollInv, NEW t \in Tasks, UNCHANGED now,
         (\E e \in Enrollments, k \in Keys : StartChecks(t, e, k))
           \/ StartFails(t) \/ StartRefused(t) \/ StartResumes(t)
  PROVE  EnrollInv'
<1> USE EnrollAssumption DEF EnrollInv
<1>1. UNCHANGED <<enrollments, revoked, proved>>
  BY DEF StartChecks, StartFails, StartRefused, StartResumes
<1>2. \A p \in handed' : p \in handed \/ (\E e \in Rows, k \in Keys :
          p = <<e, k>> /\ enrollments[e].public = k)
  <2>1. CASE StartResumes(t)
    <3>1. starts[t].id \in Rows /\ starts[t].key \in Keys
      BY <2>1 DEF StartResumes, EnrollTypeOK, Startable, Live
    <3>2. enrollments[starts[t].id].challenge = starts[t].key
      BY <2>1, <3>1 DEF StartResumes, BindingSound
    <3> QED BY <2>1, <3>1, <3>2 DEF StartResumes
  <2>2. CASE ~StartResumes(t)
    BY <2>2 DEF StartChecks, StartFails, StartRefused
  <2> QED BY <2>1, <2>2
<1>3. starts' \in [Tasks -> [id : Enrollments, key : Keys] \union {Null}]
  BY DEF EnrollTypeOK, StartChecks, StartFails, StartRefused, StartResumes, StartOver
<1>4. EnrollTypeOK'
  BY <1>1, <1>2, <1>3 DEF EnrollTypeOK, Rows
<1>5. BindingSound'
  BY <1>1, <1>2 DEF BindingSound, Rows
<1>6. OneEnrollmentPerDevice' /\ BoundStartHasChallenge'
  BY <1>1 DEF OneEnrollmentPerDevice, BoundStartHasChallenge, Startable, Live, Unrevoked, Rows
<1> QED BY <1>4, <1>5, <1>6

LEMMA StartBindsInv ==
  ASSUME EnrollInv, NEW t \in Tasks, StartBinds(t), UNCHANGED now
  PROVE  EnrollInv'
<1> DEFINE e == starts[t].id
           k == starts[t].key
           new == [enrollments[e] EXCEPT !.public = k, !.activation = k, !.challenge = k]
<1>1. e \in Rows /\ e \in Enrollments /\ k \in Keys /\ enrollments[e] \in Row
  BY DEF StartBinds, EnrollInv, EnrollTypeOK, Startable, Live, Rows
<1>2. enrollments[e].public = Null /\ ~enrollments[e].verified /\ ~enrollments[e].approved
  BY <1>1 DEF StartBinds, Unbound, Startable, EnrollInv, BindingSound
<1>3. /\ enrollments' = [enrollments EXCEPT ![e] = new]
      /\ handed' = handed \union {<<e, k>>}
      /\ starts' = [starts EXCEPT ![t] = Null]
      /\ UNCHANGED <<revoked, proved>>
  BY <1>1 DEF StartBinds, StartOver, EnrollInv, EnrollTypeOK
<1>4. \A p \in handed : p[1] # e
  BY <1>1, <1>2, EnrollAssumption DEF EnrollInv, BindingSound, EnrollTypeOK
<1>5. new \in Row
  <2>1. 0 \in 0 .. MaxTime + InviteLife + VerifiedLife
    BY EnrollAssumption
  <2> QED BY <1>1, <2>1, RowUpdates
<1>6. /\ new.device = enrollments[e].device /\ new.expires = enrollments[e].expires
      /\ new.verified = enrollments[e].verified /\ new.approved = enrollments[e].approved
      /\ new.public = k /\ new.activation = k /\ new.challenge = k
  BY <1>1 DEF Row
<1> HIDE DEF e, k, new
<1>7. /\ enrollments' \in [Enrollments -> Row \union {Null}]
      /\ Rows' = Rows
      /\ enrollments'[e] = new
      /\ \A f \in Rows : f # e => enrollments'[f] = enrollments[f]
  BY <1>1, <1>3, <1>5, RowReplaced DEF EnrollInv
<1>8. EnrollTypeOK'
  BY <1>1, <1>3, <1>7 DEF EnrollInv, EnrollTypeOK
<1>9. BindingSound'
  <2>1. \A p \in handed' : p[1] \in Rows' /\ enrollments'[p[1]].public = p[2]
    BY <1>1, <1>3, <1>4, <1>6, <1>7 DEF EnrollInv, BindingSound
  <2> QED BY <1>2, <1>3, <1>6, <1>7, <2>1 DEF EnrollInv, BindingSound
<1>10. OneEnrollmentPerDevice'
  BY <1>1, <1>6, <1>7 DEF EnrollInv, OneEnrollmentPerDevice, Live
<1>11. BoundStartHasChallenge'
  BY <1>1, <1>3, <1>6, <1>7, EnrollAssumption
  DEF EnrollInv, BoundStartHasChallenge, Startable, Live, Unrevoked
<1> QED BY <1>8, <1>9, <1>10, <1>11 DEF EnrollInv

LEMMA FinishInv ==
  ASSUME EnrollInv, NEW e \in Enrollments, NEW k \in Keys, FinishEnrollment(e, k), UNCHANGED now
  PROVE  EnrollInv'
<1> DEFINE x == VerifiedUntil(e)
           new == [enrollments[e] EXCEPT !.verified = TRUE, !.expires = x, !.challenge = Null]
<1>1. /\ e \in Rows /\ enrollments[e] \in Row /\ enrollments[e].public = k
      /\ Live(e) /\ ~enrollments[e].approved
  BY EnrollAssumption
  DEF FinishEnrollment, Finishable, Live, Rows, EnrollInv, EnrollTypeOK, BindingSound
<1>2. x \in 0 .. MaxTime + InviteLife + VerifiedLife
  BY <1>1, EnrollAssumption DEF VerifiedUntil, EnrollInv, EnrollTypeOK, Row
<1>3. /\ enrollments' = [enrollments EXCEPT ![e] = new]
      /\ proved' = proved \union {<<e, k>>}
      /\ UNCHANGED <<revoked, starts, handed>>
  BY DEF FinishEnrollment, EnrollInv, EnrollTypeOK
<1> HIDE DEF x
<1>4. new \in Row
  BY <1>1, <1>2, RowUpdates
<1>5. /\ new.device = enrollments[e].device /\ new.activation = enrollments[e].activation
      /\ new.public = k /\ new.approved = enrollments[e].approved
      /\ new.verified /\ new.challenge = Null
  BY <1>1 DEF Row
<1> HIDE DEF new
<1>6. /\ enrollments' \in [Enrollments -> Row \union {Null}]
      /\ Rows' = Rows
      /\ enrollments'[e] = new
      /\ \A f \in Rows : f # e => enrollments'[f] = enrollments[f]
  BY <1>1, <1>3, <1>4, RowReplaced DEF EnrollInv
<1>7. EnrollTypeOK'
  BY <1>3, <1>6 DEF EnrollInv, EnrollTypeOK
<1>8. BindingSound'
  BY <1>1, <1>3, <1>5, <1>6 DEF EnrollInv, BindingSound
<1>9. OneEnrollmentPerDevice'
  BY <1>1, <1>5, <1>6 DEF EnrollInv, OneEnrollmentPerDevice, Live
<1>10. BoundStartHasChallenge'
  BY <1>3, <1>5, <1>6 DEF EnrollInv, BoundStartHasChallenge, Startable, Live, Unrevoked
<1> QED BY <1>7, <1>8, <1>9, <1>10 DEF EnrollInv

LEMMA TickInv ==
  ASSUME EnrollInv, Tick, UNCHANGED enrollVars
  PROVE  EnrollInv'
<1> USE EnrollAssumption DEF EnrollInv, Tick, enrollVars
<1>1. EnrollTypeOK'
  BY DEF EnrollTypeOK
<1>2. BindingSound'
  BY DEF BindingSound, Rows
<1>3. \A e \in Rows : Live(e)' => Live(e)
  BY DEF Live, Rows, EnrollTypeOK, Row
<1>4. OneEnrollmentPerDevice' /\ BoundStartHasChallenge'
  BY <1>3 DEF OneEnrollmentPerDevice, BoundStartHasChallenge, Startable, Unrevoked, Rows
<1> QED BY <1>1, <1>2, <1>4

LEMMA EnrollInvStep == EnrollInv /\ [EnrollNext]_<<now, enrollVars>> => EnrollInv'
<1> SUFFICES ASSUME EnrollInv, [EnrollNext]_<<now, enrollVars>> PROVE EnrollInv'
  OBVIOUS
<1>1. CASE Admin /\ UNCHANGED now
  BY <1>1, InviteInv, ApproveInv, CancelInv DEF Admin
<1>2. CASE (\E d \in Devices : RevokeRow(d)) /\ UNCHANGED now
  BY <1>2, RevokeInv
<1>3. CASE EnrollServer /\ UNCHANGED now
  <2>1. CASE \E t \in Tasks : StartBinds(t)
    BY <1>3, <2>1, StartBindsInv
  <2>2. CASE \E e \in Enrollments, k \in Keys : FinishEnrollment(e, k)
    BY <1>3, <2>2, FinishInv
  <2>3. CASE \E t \in Tasks :
            (\E e \in Enrollments, k \in Keys : StartChecks(t, e, k))
              \/ StartFails(t) \/ StartRefused(t) \/ StartResumes(t)
    BY <1>3, <2>3, StartInv
  <2> QED BY <1>3, <2>1, <2>2, <2>3 DEF EnrollServer
<1>4. CASE Tick /\ UNCHANGED enrollVars
  BY <1>4, TickInv
<1>5. CASE StartsLost /\ UNCHANGED now
  BY <1>5 DEF StartsLost, EnrollInv, EnrollTypeOK, BindingSound, OneEnrollmentPerDevice,
              BoundStartHasChallenge, Startable, Live, Unrevoked, Rows
<1>6. CASE UNCHANGED <<now, enrollVars>>
  BY <1>6 DEF enrollVars, EnrollInv, EnrollTypeOK, BindingSound, OneEnrollmentPerDevice,
              BoundStartHasChallenge, Startable, Live, Unrevoked, Rows
<1> QED BY <1>1, <1>2, <1>3, <1>4, <1>5, <1>6 DEF EnrollNext

LEMMA EnrollInvHolds == EnrollSpec => []EnrollInv
  BY EnrollInvInit, EnrollInvStep, PTL DEF EnrollSpec

(* However invitations, expiries, cancellations and late activations are   *)
(* ordered, insert_invitation never gives a device two enrolments that are *)
(* approved or can become so.                                              *)
THEOREM EnrollmentsUnique == EnrollSpec => []OneEnrollmentPerDevice
<1>1. EnrollInv => OneEnrollmentPerDevice
  BY DEF EnrollInv
<1> QED BY <1>1, EnrollInvHolds, PTL

(* approve only ever approves a key whose holder has opened the credential *)
(* that enroll_start made for it.                                          *)
THEOREM ApprovedProved == EnrollSpec => []ApprovedKeyProved
<1>1. EnrollInv => ApprovedKeyProved
  BY DEF EnrollInv, BindingSound, ApprovedKeyProved
<1> QED BY <1>1, EnrollInvHolds, PTL

(* enroll_start gives the credentials of an invitation to one key.         *)
THEOREM InvitationBound == EnrollSpec => []OneKeyPerInvitation
<1>1. EnrollInv => OneKeyPerInvitation
  BY DEF EnrollInv, BindingSound, OneKeyPerInvitation
<1> QED BY <1>1, EnrollInvHolds, PTL

(* The unwrap of enroll_start never meets a missing challenge.             *)
THEOREM ResumeSafe == EnrollSpec => []BoundStartHasChallenge
<1>1. EnrollInv => BoundStartHasChallenge
  BY DEF EnrollInv
<1> QED BY <1>1, EnrollInvHolds, PTL

(* Rows, starts and credentials keep their types.                          *)
THEOREM EnrollTypeCorrect == EnrollSpec => []EnrollTypeOK
<1>1. EnrollInv => EnrollTypeOK
  BY DEF EnrollInv
<1> QED BY <1>1, EnrollInvHolds, PTL
=============================================================================
