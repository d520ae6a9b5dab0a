-------------------------- MODULE DeviceEnrollment --------------------------
(***************************************************************************)
(* Enrolment of devices (device_auth.rs): the administrator's command line *)
(* invites, approves, cancels and revokes in a process of its own, and the *)
(* server binds an invitation to the key of the client that presents it.   *)
(*                                                                         *)
(* A start of an enrolment looks the invitation up, computes a credential  *)
(* without the database, and comes back to a row that other starts, the    *)
(* administrator and the clock may have changed.  Every other operation is *)
(* one transaction.  The TPM is what the code takes it for: the secret of  *)
(* a credential is known to the holder of the key it was made for, so that *)
(* an activation is named by that key.  An invitation is named by its row, *)
(* whose secret is unique.                                                 *)
(***************************************************************************)
EXTENDS Integers, FiniteSets

CONSTANTS
    Devices,       \* names of devices
    Enrollments,   \* identifiers of invitations
    Keys,          \* public keys of clients
    Tasks,         \* starts that may be under way, permits of enrollment_limit
    Null,          \* no value
    InviteLife,    \* 900 seconds
    VerifiedLife,  \* 86400 seconds
    MaxTime        \* bound: ticks of the clock

ASSUME EnrollAssumption ==
    /\ Null \notin Keys \union Devices \union Enrollments
    /\ InviteLife \in Nat \ {0} /\ VerifiedLife \in Nat \ {0} /\ MaxTime \in Nat

VARIABLES
    now,           \* the clock, in seconds or what stands for them
    enrollments,   \* table device_enrollments
    revoked,       \* devices with a revoked_at
    starts,        \* enroll_start calls that compute a credential
    handed,        \* <<enrolment, key>> whose credential a client was given
    proved         \* <<enrolment, key>> whose activation the server has seen

enrollVars == <<enrollments, revoked, starts, handed, proved>>

Row ==
    [device : Devices, expires : 0 .. MaxTime + InviteLife + VerifiedLife,
     public : Keys \union {Null}, activation : Keys \union {Null},
     challenge : Keys \union {Null}, verified : BOOLEAN, approved : BOOLEAN]

\* The absence of a row is not a row.
ASSUME NewRow == Null \notin Row

\* The tables and the calls under way have the types of the code.
EnrollTypeOK ==
    /\ now \in 1 .. MaxTime + 1
    /\ enrollments \in [Enrollments -> Row \union {Null}]
    /\ revoked \subseteq Devices
    /\ starts \in [Tasks -> [id : Enrollments, key : Keys] \union {Null}]
    /\ handed \subseteq Enrollments \X Keys
    /\ proved \subseteq Enrollments \X Keys

EnrollInit ==
    /\ now = 1
    /\ enrollments = [e \in Enrollments |-> Null]
    /\ revoked = {}
    /\ starts = [t \in Tasks |-> Null]
    /\ handed = {}
    /\ proved = {}

Rows == {e \in Enrollments : enrollments[e] # Null}
Live(e) == e \in Rows /\ enrollments[e].expires > now
Unrevoked(e) == enrollments[e].device \notin revoked

\* What a request of an enrolment needs of it.
Active(e) == e \in Rows /\ enrollments[e].approved /\ Unrevoked(e)

-----------------------------------------------------------------------------
(* The command line of the administrator. *)

\* Rows that keep a device from being invited again.
Occupied(d) ==
    \E e \in Rows : enrollments[e].device = d /\ (enrollments[e].approved \/ Live(e))

\* insert_invitation, for invite, invite_to_file and register_pair.
Invite(e, d) ==
    /\ e \notin Rows
    /\ d \notin revoked
    /\ ~Occupied(d)
    /\ enrollments' = [enrollments EXCEPT ![e] =
           [device |-> d, expires |-> now + InviteLife, public |-> Null, activation |-> Null,
            challenge |-> Null, verified |-> FALSE, approved |-> FALSE]]
    /\ UNCHANGED <<revoked, starts, handed, proved>>

\* A mutant of Approve: a key that is bound counts as verified.
ApproveUnverified(e, k) ==
    /\ Live(e)
    /\ Unrevoked(e)
    /\ enrollments[e].public = k
    /\ enrollments' = [enrollments EXCEPT ![e].approved = TRUE, ![e].activation = Null,
                                          ![e].challenge = Null]
    /\ UNCHANGED <<revoked, starts, handed, proved>>

\* approve, with the fingerprint that the administrator has compared.
Approve(e, k) ==
    /\ Live(e)
    /\ Unrevoked(e)
    /\ enrollments[e].public = k
    /\ enrollments[e].verified
    /\ enrollments' = [enrollments EXCEPT ![e].approved = TRUE, ![e].activation = Null,
                                          ![e].challenge = Null]
    /\ UNCHANGED <<revoked, starts, handed, proved>>

\* A mutant of Cancel: the invitation keeps its life.
CancelKeepsLife(e) ==
    /\ e \in Rows
    /\ ~enrollments[e].approved
    /\ enrollments[e].expires > 0
    /\ enrollments' = [enrollments EXCEPT ![e].activation = Null, ![e].challenge = Null]
    /\ UNCHANGED <<revoked, starts, handed, proved>>

\* cancel, of an invitation that has expired too.
Cancel(e) ==
    /\ e \in Rows
    /\ ~enrollments[e].approved
    /\ enrollments[e].expires > 0
    /\ enrollments' = [enrollments EXCEPT ![e].expires = 0, ![e].activation = Null,
                                          ![e].challenge = Null]
    /\ UNCHANGED <<revoked, starts, handed, proved>>

\* The first statement of revoke_device; the sessions it deletes are in RequestAuth.
RevokeRow(d) ==
    /\ d \in {enrollments[e].device : e \in Rows}
    /\ revoked' = revoked \union {d}
    /\ UNCHANGED <<enrollments, starts, handed, proved>>

-----------------------------------------------------------------------------
(* The server. *)

\* What enroll_start asks of an invitation, before and after its computation.
Startable(e) == Live(e) /\ ~enrollments[e].verified /\ Unrevoked(e)

StartChecks(t, e, k) ==
    /\ starts[t] = Null
    /\ Startable(e)
    /\ starts' = [starts EXCEPT ![t] = [id |-> e, key |-> k]]
    /\ UNCHANGED <<enrollments, revoked, handed, proved>>

StartOver(t) == starts' = [starts EXCEPT ![t] = Null]

\* An untrusted chain, a failing or slow tool, a client that went away.
StartFails(t) ==
    /\ starts[t] # Null
    /\ StartOver(t)
    /\ UNCHANGED <<enrollments, revoked, handed, proved>>

\* The invitation is over, or belongs to another key.
StartRefused(t) ==
    /\ starts[t] # Null
    /\ \/ ~Startable(starts[t].id)
       \/ enrollments[starts[t].id].public \notin {Null, starts[t].key}
    /\ StartOver(t)
    /\ UNCHANGED <<enrollments, revoked, handed, proved>>

\* The key has a credential already: the client gets that one again.
StartResumes(t) ==
    /\ starts[t] # Null
    /\ Startable(starts[t].id)
    /\ enrollments[starts[t].id].public = starts[t].key
    /\ enrollments[starts[t].id].challenge # Null
    /\ handed' = handed \union {<<starts[t].id, enrollments[starts[t].id].challenge>>}
    /\ StartOver(t)
    /\ UNCHANGED <<enrollments, revoked, proved>>

\* A mutant of Unbound: the answer of the first look is still trusted.
UnboundBefore(e) == TRUE

\* Whether a start may bind its invitation.
Unbound(e) == enrollments[e].public = Null

StartBinds(t) ==
    LET e == starts[t].id  k == starts[t].key IN
    /\ starts[t] # Null
    /\ Startable(e)
    /\ Unbound(e)
    /\ enrollments' = [enrollments EXCEPT ![e].public = k, ![e].activation = k,
                                          ![e].challenge = k]
    /\ handed' = handed \union {<<e, k>>}
    /\ StartOver(t)
    /\ UNCHANGED <<revoked, proved>>

\* A mutant of Finishable: an activation that comes late revives the row.
FinishableLate(e) == e \in Rows /\ ~enrollments[e].approved /\ Unrevoked(e)

\* What enroll_finish asks of the row.
Finishable(e) == Live(e) /\ ~enrollments[e].approved /\ Unrevoked(e)

\* The expiry that enroll_finish sets: a retry leaves it.
VerifiedUntil(e) ==
    IF enrollments[e].verified THEN enrollments[e].expires ELSE now + VerifiedLife

\* enroll_finish of a client that could open the credential for k; a retry changes nothing.
FinishEnrollment(e, k) ==
    /\ <<e, k>> \in handed
    /\ Finishable(e)
    /\ enrollments[e].activation = k
    /\ enrollments' = [enrollments EXCEPT
           ![e].verified = TRUE, ![e].expires = VerifiedUntil(e), ![e].challenge = Null]
    /\ proved' = proved \union {<<e, k>>}
    /\ UNCHANGED <<revoked, starts, handed>>

\* The server stops and starts again: the calls under way are lost, the tables stay.
StartsLost ==
    /\ starts' = [t \in Tasks |-> Null]
    /\ UNCHANGED <<enrollments, revoked, handed, proved>>

-----------------------------------------------------------------------------
Admin ==
    \E e \in Enrollments :
        \/ \E d \in Devices : Invite(e, d)
        \/ \E k \in Keys : Approve(e, k)
        \/ Cancel(e)

EnrollServer ==
    \/ \E t \in Tasks :
           \/ \E e \in Enrollments, k \in Keys : StartChecks(t, e, k)
           \/ StartFails(t) \/ StartRefused(t) \/ StartResumes(t) \/ StartBinds(t)
    \/ \E e \in Enrollments, k \in Keys : FinishEnrollment(e, k)

Tick == now <= MaxTime /\ now' = now + 1

EnrollNext ==
    \/ (Admin \/ (\E d \in Devices : RevokeRow(d)) \/ EnrollServer \/ StartsLost) /\ UNCHANGED now
    \/ Tick /\ UNCHANGED enrollVars

EnrollSpec == EnrollInit /\ [][EnrollNext]_<<now, enrollVars>>

-----------------------------------------------------------------------------
(* A device has at most one enrolment that is approved or can become so,   *)
(* whatever the order of invitations, expiries, cancellations and late     *)
(* activations: insert_invitation relies on no other transaction reviving  *)
(* a row that it counted as over.                                          *)
OneEnrollmentPerDevice ==
    \A e, f \in Rows :
        /\ enrollments[e].device = enrollments[f].device
        /\ enrollments[e].approved \/ Live(e)
        /\ enrollments[f].approved \/ Live(f)
        => e = f

(* The key of an approved device has proved itself: enroll_start may come  *)
(* back to the row at any time, also between enroll_finish and approve.    *)
ApprovedKeyProved ==
    \A e \in Rows : enrollments[e].approved => <<e, enrollments[e].public>> \in proved

(* An invitation gives a credential to one key, however many starts with   *)
(* different keys have found it free: the first to come back binds it.     *)
OneKeyPerInvitation ==
    \A p, q \in handed : p[1] = q[1] => p[2] = q[2]

(* A start that finds its own key bound finds a challenge too:             *)
(* old_challenge.unwrap() would panic with the database's mutex held, and  *)
(* a poisoned mutex ends every later request.                              *)
BoundStartHasChallenge ==
    \A e \in Rows :
        Startable(e) /\ enrollments[e].public # Null => enrollments[e].challenge # Null
=============================================================================
