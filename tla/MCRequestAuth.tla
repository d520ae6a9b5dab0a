---------------------------- MODULE MCRequestAuth ----------------------------
(***************************************************************************)
(* Instances of RequestAuth for TLC: enrolment by itself, with all its     *)
(* invitations, keys and starts, and requests of a device that was         *)
(* enrolled with the first ones.                                           *)
(***************************************************************************)
EXTENDS RequestAuth, TLC

CONSTANTS d1, e1, e2, k1, k2, t1, t2, n1, n2, n3, s1, s2, s3, r1, r2

Signed == {n \in Nonces : proofs[n] # Null}

Opens(n) == n \in Signed /\ proofs[n].token = Null

\* Where nothing is signed, enrolment alone.
Enrolling == Signed = {}

\* Requests of one device.  After the second tick only what is approved and not revoked is
\* followed, and after the third one proof; a third proof is the last one, early, and all
\* three ask for a session.
Requesting ==
    /\ e2 \notin Rows /\ starts[t2] = Null
    /\ starts[t1] # Null => starts[t1].key = k1
    /\ \A p \in handed : p[2] = k1
    /\ now > 2 => e1 \in Rows /\ enrollments[e1].approved
    /\ now > 2 => revoked = {}
    /\ now > 3 => Cardinality(Signed) = 1
    /\ n3 \in Signed => now <= 2 /\ revoked = {} /\ \A n \in Nonces : Opens(n)

Bounds == Enrolling \/ Requesting

Symmetry ==
    Permutations(Nonces \ {n3}) \union Permutations(Tokens) \union Permutations(Requests)
=============================================================================
