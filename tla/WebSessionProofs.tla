--------------------------- MODULE WebSessionProofs ---------------------------
(***************************************************************************)
(* Theorems about WebSession, for every value of its constants: the server *)
(* first, whose rows and challenges every tab shares, then the tabs.       *)
(***************************************************************************)
EXTENDS WebSession, SequenceTheorems, TLAPS

-----------------------------------------------------------------------------
(* The two halves of the type invariant *)

ServerTypes ==
    /\ rows \in Seq(Row \union {Null}) /\ Len(rows) <= MaxSessions
    /\ challenges \in Seq(Challenge \union {Null}) /\ Len(challenges) <= MaxChallenges
    /\ jar \in [{"files", "status"} -> 0..Len(rows)]

Showing == [sid : 1..Len(rows), expires : Nat, device : Devices]
Verification == [at : {"session", "challenge", "local", "cancel"}, scope : Scopes,
                 id : 0..Len(challenges)]
Restoration == [sid : 0..Len(rows), at : {"sent", "served"}, answer : Grant \union {Null}]
LeavingTab == [sid : 0..Len(rows), at : {"sent", "served", "failed"}, over : BOOLEAN]

TabTypes ==
    /\ session \in [Tabs -> Showing \union {Null}]
    /\ verifying \in [Tabs -> Verification \union {Null}]
    /\ restoring \in [Tabs -> Restoration \union {Null}]
    /\ out \in [Tabs -> LeavingTab \union {Null}]
    /\ mail \in [Tabs -> SUBSET (0..Len(rows))] /\ gone \in [Tabs -> SUBSET (0..Len(rows))]
    /\ previous \in [Tabs -> Grant \union {Null}]

LEMMA TypesSplit ==
    TypeOK <=> open \in Windows /\ now \in 0..MaxTime /\ ServerTypes /\ TabTypes
BY DEF TypeOK, ServerTypes, TabTypes, Showing, Verification, Restoration, LeavingTab

\* What a step does to the tables that all tabs share.
ServerStep ==
    /\ ServerTypes'
    /\ GrantsOfOneDevice'
    /\ ProvedAsMeant'
    /\ Len(rows) <= Len(rows') /\ Len(challenges) <= Len(challenges')
    /\ \A s \in 0..Len(rows) : Over(s) => Over(s)'
    /\ \A c \in 1..Len(challenges) : challenges'[c] # Null =>
         challenges[c] # Null /\ challenges'[c].expected = challenges[c].expected

ServerInv == ServerTypes /\ now \in Nat /\ GrantsOfOneDevice /\ ProvedAsMeant

LEMMA ServerQuiet ==
    ASSUME ServerInv, UNCHANGED serverVars PROVE ServerStep
BY DEF ServerInv, ServerStep, ServerTypes, serverVars, GrantsOfOneDevice, ProvedAsMeant, Over

LEMMA SessionAdded ==
    ASSUME ServerInv, PageResponse, UNCHANGED challenges
    PROVE  ServerStep /\ Len(rows') \in Nat /\ jar'["files"] \in 0..Len(rows')
<1>1. CASE UNCHANGED <<rows, jar>>
  <2>1. ServerStep
    BY <1>1, ServerQuiet DEF serverVars
  <2> QED BY <1>1, <2>1 DEF ServerStep, ServerTypes
<1>2. CASE /\ Len(rows) < MaxSessions /\ rows' = Append(rows, NewRow)
           /\ jar' = [jar EXCEPT !["files"] = Len(rows) + 1]
  <2>1. /\ rows \in Seq(Row \union {Null}) /\ Len(rows) \in Nat
        /\ jar \in [{"files", "status"} -> 0..Len(rows)]
    BY DEF ServerInv, ServerTypes
  <2>2. NewRow \in Row
    BY LivesAssumption DEF ServerInv, NewRow, Row
  <2>3. /\ rows' \in Seq(Row \union {Null}) /\ Len(rows') = Len(rows) + 1
        /\ \A s \in 1..Len(rows) : rows'[s] = rows[s]
        /\ rows'[Len(rows) + 1] = NewRow
    BY <1>2, <2>1, <2>2, AppendProperties
  <2>4. jar' \in [{"files", "status"} -> 0..Len(rows')] /\ jar'["files"] = Len(rows) + 1
    BY <1>2, <2>1, <2>3
  <2>5. Len(rows') <= MaxSessions
    BY <1>2, <2>1, <2>3, LivesAssumption
  <2>6. ServerTypes'
    BY <2>3, <2>4, <2>5 DEF ServerTypes, ServerInv
  <2>7. GrantsOfOneDevice'
    <3> SUFFICES ASSUME NEW s \in 1..Len(rows'), rows'[s] # Null, rows'[s].write # Null
                 PROVE  rows'[s].read = rows'[s].write
      BY DEF GrantsOfOneDevice
    <3>1. CASE s \in 1..Len(rows)
      BY <2>3, <3>1 DEF ServerInv, GrantsOfOneDevice
    <3>2. CASE s = Len(rows) + 1
      BY <2>3, <3>2 DEF NewRow
    <3> QED BY <2>1, <2>3, <3>1, <3>2
  <2>8. ProvedAsMeant'
    BY <2>1, <2>3 DEF ServerInv, ProvedAsMeant
  <2>9. \A s \in 0..Len(rows) : Over(s) => Over(s)'
    BY <2>1, <2>3 DEF Over
  <2> QED BY <2>1, <2>3, <2>4, <2>6, <2>7, <2>8, <2>9 DEF ServerStep, ServerInv, ServerTypes
<1> QED BY <1>1, <1>2 DEF PageResponse

\* Sessions end, with their challenges.
LEMMA SessionsDropped ==
    ASSUME ServerInv, NEW S, Without(S), jar' = jar \/ jar' = [jar EXCEPT !["files"] = 0]
    PROVE  ServerStep /\ \A s \in 0..Len(rows) : s \in S => Over(s)'
<1>1. /\ rows \in Seq(Row \union {Null}) /\ Len(rows) \in Nat
      /\ \A s \in 1..Len(rows) : rows[s] \in Row \union {Null}
      /\ challenges \in Seq(Challenge \union {Null}) /\ Len(challenges) \in Nat
      /\ \A c \in 1..Len(challenges) : challenges[c] \in Challenge \union {Null}
      /\ jar \in [{"files", "status"} -> 0..Len(rows)]
  BY ElementOfSeq DEF ServerInv, ServerTypes
<1>2. /\ rows' \in Seq(Row \union {Null}) /\ Len(rows') = Len(rows)
      /\ \A s \in 1..Len(rows) : rows'[s] = IF s \in S THEN Null ELSE rows[s]
  BY <1>1 DEF Without
<1>3. /\ challenges' \in Seq(Challenge \union {Null}) /\ Len(challenges') = Len(challenges)
      /\ \A c \in 1..Len(challenges) : challenges'[c] \in {challenges[c], Null}
  BY <1>1 DEF Without
<1>4. jar' \in [{"files", "status"} -> 0..Len(rows')]
  BY <1>1, <1>2
<1>5. ServerTypes'
  BY <1>2, <1>3, <1>4 DEF ServerInv, ServerTypes
<1>6. GrantsOfOneDevice'
  BY <1>2 DEF ServerInv, GrantsOfOneDevice
<1>7. ProvedAsMeant'
  BY <1>2, <1>3 DEF ServerInv, ProvedAsMeant
<1>8. \A s \in 0..Len(rows) : (Over(s) => Over(s)') /\ (s \in S => Over(s)')
  BY <1>1, <1>2 DEF Over
<1>9. \A c \in 1..Len(challenges) : challenges'[c] # Null =>
        challenges[c] # Null /\ challenges'[c].expected = challenges[c].expected
  BY <1>3
<1>10. Len(rows) <= Len(rows') /\ Len(challenges) <= Len(challenges')
  BY <1>1, <1>2, <1>3
<1> QED BY <1>5, <1>6, <1>7, <1>8, <1>9, <1>10 DEF ServerStep

LEMMA ChallengeAdded ==
    ASSUME ServerInv, NEW t \in Tabs, NEW scope \in Scopes, Issued(t, scope),
           scope = "files.write" => t \in FileTabs, previous[t] \in Grant \union {Null},
           UNCHANGED <<rows, jar>>
    PROVE  /\ ServerStep /\ Len(challenges') = Len(challenges) + 1
           /\ challenges'[Len(challenges) + 1].expected = Expected(t, scope)
<1> DEFINE sid == jar[Kind(t)]
           ch == [sid |-> sid, scope |-> scope, proof |-> Null, expected |-> Expected(t, scope),
                  expires |-> Lesser(now + ChallengeLife, rows[sid].expires)]
<1>1. /\ rows \in Seq(Row \union {Null}) /\ Len(rows) \in Nat
      /\ \A s \in 1..Len(rows) : rows[s] \in Row \union {Null}
      /\ challenges \in Seq(Challenge \union {Null}) /\ Len(challenges) \in Nat
      /\ jar \in [{"files", "status"} -> 0..Len(rows)]
  BY ElementOfSeq DEF ServerInv, ServerTypes
<1>2. sid \in 1..Len(rows) /\ rows[sid] \in Row
  BY <1>1 DEF Issued, Valid, Kind
<1>3. Expected(t, scope) \in Devices \union {Null}
  <2>1. CASE scope = "files.write"
    <3>1. rows[sid].read \in Grant /\ sid = jar["files"]
      BY <1>2, <2>1 DEF Issued, Authorized, Holds, Row, Kind
    <3> QED BY <2>1, <3>1 DEF Expected, Grant
  <2>2. CASE scope = "status.read" /\ Holds(previous[t])
    BY <2>2 DEF Expected, Holds, Grant
  <2>3. CASE scope # "files.write" /\ ~(scope = "status.read" /\ Holds(previous[t]))
    BY <2>3 DEF Expected
  <2> QED BY <2>1, <2>2, <2>3
<1>4. ch \in Challenge
  <2>1. rows[sid].expires \in Nat /\ sid \in Nat
    BY <1>1, <1>2 DEF Row
  <2>2. now + ChallengeLife \in Nat
    BY LivesAssumption DEF ServerInv
  <2>3. Lesser(now + ChallengeLife, rows[sid].expires) \in Nat
    BY <2>1, <2>2 DEF Lesser
  <2> HIDE DEF sid
  <2> QED BY <1>3, <2>1, <2>3 DEF Challenge
<1>5. challenges' = Append(challenges, ch) /\ Len(challenges) < MaxChallenges
  BY DEF Issued
<1> HIDE DEF ch
<1>6. /\ challenges' \in Seq(Challenge \union {Null}) /\ Len(challenges') = Len(challenges) + 1
      /\ \A c \in 1..Len(challenges) : challenges'[c] = challenges[c]
      /\ challenges'[Len(challenges) + 1] = ch
  BY <1>1, <1>4, <1>5, AppendProperties
<1>7. ch.proof = Null /\ ch.expected = Expected(t, scope) /\ ch.sid \in 1..Len(rows)
  BY <1>2 DEF ch
<1>8. ServerTypes'
  BY <1>1, <1>5, <1>6, LivesAssumption DEF ServerInv, ServerTypes
<1>9. GrantsOfOneDevice'
  BY DEF ServerInv, GrantsOfOneDevice
<1>10. ProvedAsMeant'
  <2> SUFFICES ASSUME NEW c \in 1..Len(challenges'), challenges'[c] # Null
               PROVE  /\ challenges'[c].sid \in 1..Len(rows)
                      /\ challenges'[c].proof # Null =>
                            challenges'[c].expected \in {challenges'[c].proof.device, Null}
    BY DEF ProvedAsMeant
  <2>1. CASE c \in 1..Len(challenges)
    BY <1>6, <2>1 DEF ServerInv, ProvedAsMeant
  <2>2. CASE c = Len(challenges) + 1
    BY <1>6, <1>7, <2>2
  <2> QED BY <1>1, <1>6, <2>1, <2>2
<1>11. \A s \in 0..Len(rows) : Over(s) => Over(s)'
  BY DEF Over
<1>12. Len(rows) <= Len(rows') /\ Len(challenges) <= Len(challenges')
  BY <1>1, <1>6
<1> QED BY <1>6, <1>7, <1>8, <1>9, <1>10, <1>11, <1>12 DEF ServerStep

\* The device of the challenge, or any where none was asked for, is granted what it
\* proved; a proof of writing only copies the grant to read of the same device.
LEMMA ProofAccepted ==
    ASSUME ServerInv, NEW c \in 1..Len(challenges), NEW d \in Devices, Proof(c, d)
    PROVE  ServerStep
<1> DEFINE ch == challenges[c]
           row == rows[ch.sid]
           proof == [device |-> d, expires |-> Lesser(now + PresenceLife, row.expires)]
<1>1. /\ rows \in Seq(Row \union {Null}) /\ Len(rows) \in Nat
      /\ \A s \in 1..Len(rows) : rows[s] \in Row \union {Null}
      /\ challenges \in Seq(Challenge \union {Null}) /\ Len(challenges) \in Nat
      /\ \A k \in 1..Len(challenges) : challenges[k] \in Challenge \union {Null}
      /\ jar \in [{"files", "status"} -> 0..Len(rows)]
  BY ElementOfSeq DEF ServerInv, ServerTypes
<1>2. ch \in Challenge /\ ch.sid \in Nat
  BY <1>1 DEF Proof, Challenge
<1>3. /\ ch # Null /\ ch.proof = Null /\ ch.expected \in {d, Null} /\ rows[ch.sid] # Null
      /\ challenges' = [challenges EXCEPT ![c].proof = proof] /\ jar' = jar
      /\ \/ rows' = [rows EXCEPT ![ch.sid] =
               ReadRow(row, [device |-> d, expires |-> now + FilesLife])]
         \/ /\ Holds(row.read) /\ rows' = [rows EXCEPT ![ch.sid].write = row.read]
         \/ rows' = rows
  BY DEF Proof, Valid
<1>4. ch.sid \in 1..Len(rows) /\ row \in Row
  BY <1>1, <1>3 DEF ServerInv, ProvedAsMeant
<1>5. proof \in Grant /\ proof.device = d
  <2>1. row.expires \in Nat
    BY <1>4 DEF Row
  <2>2. now + PresenceLife \in Nat
    BY LivesAssumption DEF ServerInv
  <2>3. Lesser(now + PresenceLife, row.expires) \in Nat
    BY <2>1, <2>2 DEF Lesser
  <2> HIDE DEF row
  <2> QED BY <2>3 DEF Grant
<1>6. PICK r \in Row : /\ rows' = [rows EXCEPT ![ch.sid] = r]
                       /\ r.write # Null => r.read = r.write
  <2>1. ReadRow(row, [device |-> d, expires |-> now + FilesLife]) \in Row
    BY LivesAssumption DEF ServerInv, ReadRow, Row, Grant
  <2>2. ReadRow(row, [device |-> d, expires |-> now + FilesLife]).write = Null
    BY DEF ReadRow
  <2>3. [row EXCEPT !.write = row.read] \in Row
    BY <1>4 DEF Row
  <2>4. /\ [row EXCEPT !.write = row.read].write = row.read
        /\ [row EXCEPT !.write = row.read].read = row.read
    BY <1>4 DEF Row
  <2>5. [rows EXCEPT ![ch.sid].write = row.read] =
            [rows EXCEPT ![ch.sid] = [row EXCEPT !.write = row.read]]
    BY <1>1
  <2>6. row.write # Null => row.read = row.write
    BY <1>3, <1>4 DEF ServerInv, GrantsOfOneDevice
  <2>7. rows = [rows EXCEPT ![ch.sid] = row]
    BY <1>1, <1>4
  <2> HIDE DEF row, ch
  <2> QED BY <1>3, <1>4, <2>1, <2>2, <2>3, <2>4, <2>5, <2>6, <2>7
<1>7. /\ rows' \in Seq(Row \union {Null}) /\ Len(rows') = Len(rows)
      /\ \A s \in 1..Len(rows) : rows'[s] = IF s = ch.sid THEN r ELSE rows[s]
  BY <1>1, <1>4, <1>6, ExceptSeq
<1>8. PICK k \in Challenge : /\ challenges' = [challenges EXCEPT ![c] = k]
                             /\ k.sid = ch.sid /\ k.expected = ch.expected /\ k.proof = proof
  <2>1. challenges' = [challenges EXCEPT ![c] = [ch EXCEPT !.proof = proof]]
    BY <1>1, <1>3
  <2>2. [ch EXCEPT !.proof = proof] \in Challenge
    BY <1>2, <1>5 DEF Challenge
  <2>3. /\ [ch EXCEPT !.proof = proof].sid = ch.sid /\ [ch EXCEPT !.proof = proof].proof = proof
        /\ [ch EXCEPT !.proof = proof].expected = ch.expected
    BY <1>2 DEF Challenge
  <2> HIDE DEF ch, proof
  <2> QED BY <2>1, <2>2, <2>3
<1>9. /\ challenges' \in Seq(Challenge \union {Null}) /\ Len(challenges') = Len(challenges)
      /\ \A j \in 1..Len(challenges) : challenges'[j] = IF j = c THEN k ELSE challenges[j]
  BY <1>1, <1>8, ExceptSeq
<1> HIDE DEF ch, row, proof
<1>10. ServerTypes'
  BY <1>1, <1>3, <1>7, <1>9 DEF ServerInv, ServerTypes
<1>11. GrantsOfOneDevice'
  BY <1>6, <1>7 DEF ServerInv, GrantsOfOneDevice
<1>12. ProvedAsMeant'
  BY <1>3, <1>4, <1>5, <1>7, <1>8, <1>9 DEF ServerInv, ProvedAsMeant
<1>13. \A s \in 0..Len(rows) : Over(s) => Over(s)'
  BY <1>1, <1>3, <1>7 DEF Over
<1>14. \A j \in 1..Len(challenges) : challenges'[j] # Null =>
        challenges[j] # Null /\ challenges'[j].expected = challenges[j].expected
  BY <1>3, <1>8, <1>9 DEF ch
<1>15. Len(rows) <= Len(rows') /\ Len(challenges) <= Len(challenges')
  BY <1>1, <1>7, <1>9
<1> QED BY <1>10, <1>11, <1>12, <1>13, <1>14, <1>15 DEF ServerStep

-----------------------------------------------------------------------------
(* One tab at a time *)

\* What the invariant says of the tab t.
TabOK(t) ==
    /\ session[t] \in Showing \union {Null} /\ verifying[t] \in Verification \union {Null}
    /\ restoring[t] \in Restoration \union {Null} /\ out[t] \in LeavingTab \union {Null}
    /\ mail[t] \subseteq 0..Len(rows) /\ gone[t] \subseteq 0..Len(rows)
    /\ previous[t] \in Grant \union {Null}
    /\ out[t] # Null =>
         restoring[t] = Null /\ (out[t].at = "served" => Over(out[t].sid))
    /\ \A s \in mail[t] \union gone[t] : Over(s)
    /\ restoring[t] # Null =>
         /\ t \in FileTabs /\ restoring[t].sid \notin gone[t]
         /\ restoring[t].answer # Null => restoring[t].sid # 0
    /\ verifying[t] # Null => (t \in StatusTabs <=> verifying[t].scope = "status.read")
    /\ At(t, "local") => verifying[t].id # 0
    /\ t \in StatusTabs /\ At(t, "local") /\ challenges[verifying[t].id] # Null
         /\ Holds(previous[t]) => challenges[verifying[t].id].expected = previous[t].device
    /\ t \in FileTabs /\ session[t] # Null => session[t].sid \notin gone[t]

TabFunctions ==
    /\ session = [t \in Tabs |-> session[t]] /\ verifying = [t \in Tabs |-> verifying[t]]
    /\ restoring = [t \in Tabs |-> restoring[t]] /\ out = [t \in Tabs |-> out[t]]
    /\ mail = [t \in Tabs |-> mail[t]] /\ gone = [t \in Tabs |-> gone[t]]
    /\ previous = [t \in Tabs |-> previous[t]]

LEMMA InvSplit ==
    Inv <=> /\ open \in Windows /\ now \in 0..MaxTime
            /\ ServerTypes /\ GrantsOfOneDevice /\ ProvedAsMeant
            /\ TabFunctions /\ \A t \in Tabs : TabOK(t)
<1> DEFINE Server == /\ open \in Windows /\ now \in 0..MaxTime
                     /\ ServerTypes /\ GrantsOfOneDevice /\ ProvedAsMeant
           Tab == /\ TabTypes /\ LogoutShape /\ ToldTrue /\ RestoreShape /\ StatusShape
                  /\ LookupMeant /\ HiddenAfterLogout
<1>1. Inv <=> Server /\ Tab
  BY TypesSplit DEF Inv
<1>2. TabTypes <=>
        /\ TabFunctions
        /\ \A t \in Tabs :
             /\ session[t] \in Showing \union {Null} /\ verifying[t] \in Verification \union {Null}
             /\ restoring[t] \in Restoration \union {Null} /\ out[t] \in LeavingTab \union {Null}
             /\ mail[t] \subseteq 0..Len(rows) /\ gone[t] \subseteq 0..Len(rows)
             /\ previous[t] \in Grant \union {Null}
  BY DEF TabTypes, TabFunctions
<1>3. FileTabs \subseteq Tabs /\ StatusTabs \subseteq Tabs
  BY DEF Tabs
<1>4. Tab <=> TabFunctions /\ \A t \in Tabs : TabOK(t)
  BY <1>2, <1>3 DEF TabOK, LogoutShape, ToldTrue, RestoreShape, StatusShape, LookupMeant,
                    HiddenAfterLogout
<1> QED BY <1>1, <1>4

\* Nothing happens to the tab t, but it may be told of sessions that are over.
Same(t) == /\ session'[t] = session[t] /\ verifying'[t] = verifying[t]
           /\ restoring'[t] = restoring[t] /\ out'[t] = out[t]
           /\ gone'[t] = gone[t] /\ previous'[t] = previous[t]
           /\ \A s \in mail'[t] : s \in mail[t] \/ (s \in 0..Len(rows) /\ Over(s))

LEMMA Grows ==
    ASSUME ServerInv, ServerStep
    PROVE  /\ Len(rows) \in Nat /\ Len(rows') \in Nat /\ Len(rows) <= Len(rows')
           /\ Len(challenges) \in Nat /\ Len(challenges') \in Nat
           /\ Len(challenges) <= Len(challenges')
           /\ Showing \subseteq Showing' /\ Verification \subseteq Verification'
           /\ Restoration \subseteq Restoration' /\ LeavingTab \subseteq LeavingTab'
           /\ 0..Len(rows) \subseteq 0..Len(rows')
           /\ \A s \in 0..Len(rows) : Over(s) => Over(s)'
<1>1. /\ Len(rows) \in Nat /\ Len(rows') \in Nat /\ Len(rows) <= Len(rows')
      /\ Len(challenges) \in Nat /\ Len(challenges') \in Nat
      /\ Len(challenges) <= Len(challenges')
  BY DEF ServerInv, ServerStep, ServerTypes
<1>2. /\ Showing \subseteq Showing' /\ Verification \subseteq Verification'
      /\ Restoration \subseteq Restoration' /\ LeavingTab \subseteq LeavingTab'
      /\ 0..Len(rows) \subseteq 0..Len(rows')
  BY <1>1 DEF Showing, Verification, Restoration, LeavingTab
<1> QED BY <1>1, <1>2 DEF ServerStep

\* What the server does to the tables spoils no tab that does nothing itself.
LEMMA TabKept ==
    ASSUME ServerInv, ServerStep, NEW t \in Tabs, TabOK(t), Same(t), now' \in Nat, now <= now'
    PROVE  TabOK(t)'
<1>1. now \in Nat
  BY DEF ServerInv
<1>3. /\ session'[t] \in Showing' \union {Null} /\ verifying'[t] \in Verification' \union {Null}
      /\ restoring'[t] \in Restoration' \union {Null} /\ out'[t] \in LeavingTab' \union {Null}
      /\ mail'[t] \subseteq 0..Len(rows') /\ gone'[t] \subseteq 0..Len(rows')
      /\ previous'[t] \in Grant \union {Null}
  BY Grows DEF TabOK, Same
<1>4. \A s \in 0..Len(rows) : Over(s) => Over(s)'
  BY Grows
<1>5. out'[t] # Null => restoring'[t] = Null /\ (out'[t].at = "served" => Over(out[t].sid)')
  BY <1>4 DEF TabOK, Same, LeavingTab
<1>6. \A s \in mail'[t] \union gone'[t] : Over(s)'
  BY <1>4 DEF TabOK, Same
<1>7. /\ restoring'[t] # Null =>
           /\ t \in FileTabs /\ restoring'[t].sid \notin gone'[t]
           /\ restoring'[t].answer # Null => restoring'[t].sid # 0
      /\ verifying'[t] # Null => (t \in StatusTabs <=> verifying'[t].scope = "status.read")
      /\ At(t, "local")' => verifying'[t].id # 0
      /\ t \in FileTabs /\ session'[t] # Null => session'[t].sid \notin gone'[t]
  BY DEF TabOK, Same, At
<1>8. ASSUME t \in StatusTabs, At(t, "local")', challenges'[verifying'[t].id] # Null,
             Holds(previous[t])'
      PROVE  challenges'[verifying'[t].id].expected = previous'[t].device
  <2>1. At(t, "local") /\ verifying[t].id \in 1..Len(challenges)
    BY Grows, <1>8 DEF At, TabOK, Same, Verification
  <2>2. Holds(previous[t])
    BY <1>1, <1>8 DEF Holds, Same, TabOK, Grant
  <2>3. /\ challenges[verifying[t].id] # Null
        /\ challenges'[verifying[t].id].expected = challenges[verifying[t].id].expected
    BY <1>8, <2>1 DEF ServerStep, Same
  <2> QED BY <1>8, <2>1, <2>2, <2>3 DEF TabOK, Same
<1> QED BY <1>3, <1>5, <1>6, <1>7, <1>8, Zenon DEF TabOK, Same

\* What an action of the tab t has to show.
TabStep(t) ==
    /\ TabFunctions' /\ TabOK(t)'
    /\ \A u \in Tabs \ {t} : TabOK(u)'

Ready == /\ ServerInv /\ TabFunctions /\ (\A u \in Tabs : TabOK(u))
         /\ ServerStep /\ now' = now /\ open \subseteq Tabs

LEMMA OneTab ==
    ASSUME Ready, NEW t \in Tabs, TabFunctions', TabOK(t)', \A u \in Tabs \ {t} : Same(u)
    PROVE  TabFunctions' /\ \A u \in Tabs : TabOK(u)'
BY TabKept DEF Ready, ServerInv

\* The page forgets what it showed and what it had asked for.
LEMMA TabLocks ==
    ASSUME Ready, NEW t \in Tabs, LockTab(t), UNCHANGED previous,
           mail' = mail \/ mail' = [mail EXCEPT ![t] = {}],
           gone' = gone \/ gone' = [gone EXCEPT ![t] = @ \union mail[t]],
           \/ LockOut(t)
           \/ out' = [out EXCEPT ![t] = [sid |-> jar["files"], at |-> "sent", over |-> FALSE]]
    PROVE  TabFunctions' /\ \A u \in Tabs : TabOK(u)'
<1>1. TabFunctions' /\ \A u \in Tabs \ {t} : Same(u)
  BY DEF Ready, LockTab, LockOut, TabFunctions, Same
<1>2. /\ session'[t] = Null /\ restoring'[t] = Null
      /\ verifying'[t] \in {verifying[t], Null}
      /\ verifying'[t] # Null => verifying'[t].at = "cancel"
      /\ mail'[t] \subseteq mail[t] /\ gone'[t] \subseteq gone[t] \union mail[t]
      /\ previous'[t] = previous[t]
  BY DEF Ready, LockTab, TabFunctions
<1>3. /\ out'[t] \in LeavingTab' \union {Null}
      /\ out'[t] # Null /\ out'[t].at = "served" => Over(out[t].sid)'
  <2>1. CASE LockOut(t)
    <3>1. PICK o \in LeavingTab \union {Null} :
            out'[t] = o /\ (o # Null /\ o.at = "served" => Over(o.sid))
      <4>1. /\ out[t] \in LeavingTab \union {Null}
            /\ out[t] # Null => (out[t].at = "served" => Over(out[t].sid))
        BY DEF Ready, TabOK
      <4>2. out'[t] = IF out[t] = Null \/ out[t].at = "failed" THEN Null
                      ELSE [out[t] EXCEPT !.over = TRUE]
        BY <2>1 DEF Ready, LockOut, TabFunctions
      <4>3. CASE out[t] = Null \/ out[t].at = "failed"
        BY <4>2, <4>3
      <4>4. CASE out[t] # Null /\ out[t].at # "failed"
        <5>1. [out[t] EXCEPT !.over = TRUE] \in LeavingTab
          BY <4>1, <4>4 DEF LeavingTab
        <5>2. /\ [out[t] EXCEPT !.over = TRUE].at = out[t].at
              /\ [out[t] EXCEPT !.over = TRUE].sid = out[t].sid
          BY <4>1, <4>4 DEF LeavingTab
        <5>3. out'[t] = [out[t] EXCEPT !.over = TRUE]
          BY <4>2, <4>4
        <5>4. out'[t] \in LeavingTab /\ out'[t].at = out[t].at /\ out'[t].sid = out[t].sid
          BY <5>1, <5>2, <5>3
        <5> QED BY <4>1, <4>4, <5>4
      <4> QED BY <4>3, <4>4
    <3>2. o # Null /\ o.at = "served" => Over(o.sid)'
      BY <3>1, Grows DEF Ready, LeavingTab
    <3> QED BY <3>1, <3>2, Grows DEF Ready
  <2>2. CASE out' = [out EXCEPT ![t] = [sid |-> jar["files"], at |-> "sent", over |-> FALSE]]
    <3>1. PICK o \in LeavingTab : out'[t] = o /\ o.at = "sent"
      <4>1. PICK k \in 0..Len(rows) : k = jar["files"]
        BY DEF Ready, ServerInv, ServerTypes
      <4>2. out'[t] = [sid |-> k, at |-> "sent", over |-> FALSE]
        BY <2>2, <4>1 DEF Ready, TabFunctions
      <4>3. [sid |-> k, at |-> "sent", over |-> FALSE] \in LeavingTab
        BY DEF LeavingTab
      <4> QED BY <4>2, <4>3
    <3> QED BY <3>1, Grows DEF Ready
  <2> QED BY <2>1, <2>2
<1>4. TabOK(t)'
  <2>1. /\ mail[t] \subseteq 0..Len(rows) /\ gone[t] \subseteq 0..Len(rows)
        /\ \A s \in mail[t] \union gone[t] : Over(s)
        /\ verifying[t] \in Verification \union {Null} /\ previous[t] \in Grant \union {Null}
        /\ verifying[t] # Null => (t \in StatusTabs <=> verifying[t].scope = "status.read")
    BY DEF Ready, TabOK
  <2>2. /\ mail'[t] \subseteq 0..Len(rows') /\ gone'[t] \subseteq 0..Len(rows')
        /\ \A s \in mail'[t] \union gone'[t] : Over(s)'
    BY <1>2, <2>1, Grows DEF Ready
  <2>3. /\ verifying'[t] \in Verification' \union {Null} /\ previous'[t] \in Grant \union {Null}
        /\ verifying'[t] # Null => (t \in StatusTabs <=> verifying'[t].scope = "status.read")
        /\ ~At(t, "local")'
    BY <1>2, <2>1, Grows DEF Ready, At
  <2> QED BY <1>2, <1>3, <2>2, <2>3 DEF TabOK
<1> QED BY <1>1, <1>4, OneTab

LEMMA TabForgets ==
    ASSUME Ready, NEW t \in Tabs
    PROVE  /\ Expire(t) \/ Refused(t) \/ Broadcast(t) \/ Logout(t)
                => TabFunctions' /\ \A u \in Tabs : TabOK(u)'
<1>1. ASSUME Expire(t) \/ Refused(t)
      PROVE  TabFunctions' /\ \A u \in Tabs : TabOK(u)'
  BY <1>1, TabLocks DEF Expire, Refused
<1>2. ASSUME Broadcast(t)
      PROVE  TabFunctions' /\ \A u \in Tabs : TabOK(u)'
  BY <1>2, TabLocks DEF Broadcast
<1>3. ASSUME Logout(t)
      PROVE  TabFunctions' /\ \A u \in Tabs : TabOK(u)'
  BY <1>3, TabLocks DEF Logout
<1> QED BY <1>1, <1>2, <1>3

\* The page is loaded anew: restore() asks for the session of the cookie.
LEMMA TabRevisits ==
    ASSUME Ready, NEW t \in Tabs, Revisit(t)
    PROVE  TabFunctions' /\ \A u \in Tabs : TabOK(u)'
<1>1. TabFunctions' /\ \A u \in Tabs \ {t} : Same(u)
  BY DEF Ready, Revisit, TabFunctions, Same
<1>2. /\ t \in FileTabs /\ session'[t] = Null /\ verifying'[t] = Null /\ out'[t] = Null
      /\ mail'[t] = {} /\ gone'[t] = {} /\ previous'[t] = previous[t]
      /\ restoring'[t] = [sid |-> jar'["files"], at |-> "sent", answer |-> Null]
  BY DEF Ready, Revisit, TabFunctions, RestoreWith
<1>3. PICK r \in Restoration' : restoring'[t] = r /\ r.answer = Null
  <2>1. PICK k \in 0..Len(rows') : k = jar'["files"]
    BY DEF Ready, ServerStep, ServerTypes
  <2>2. [sid |-> k, at |-> "sent", answer |-> Null] \in Restoration'
    BY DEF Restoration
  <2> QED BY <1>2, <2>1, <2>2
<1>4. previous[t] \in Grant \union {Null} /\ t \notin StatusTabs
  BY <1>2, TabsAssumption DEF Ready, TabOK
<1>5. ~At(t, "local")'
  BY <1>2 DEF At
<1>6. TabOK(t)'
  BY <1>2, <1>3, <1>4, <1>5 DEF TabOK
<1> QED BY <1>1, <1>6, OneTab

\* The server says what the cookie of restore() was worth when it looked.
LEMMA TabRestores ==
    ASSUME Ready, NEW t \in Tabs, RestoreServed(t) \/ Restored(t)
    PROVE  TabFunctions' /\ \A u \in Tabs : TabOK(u)'
<1>1. TabFunctions' /\ \A u \in Tabs \ {t} : Same(u)
  BY DEF Ready, RestoreServed, Restored, TabFunctions, Same
<1>2. /\ restoring[t] # Null /\ restoring[t] \in Restoration
      /\ t \in FileTabs /\ t \notin StatusTabs /\ restoring[t].sid \notin gone[t]
      /\ restoring[t].answer # Null => restoring[t].sid # 0
      /\ out[t] = Null
  BY TabsAssumption DEF Ready, TabOK, RestoreServed, Restored
<1>3. /\ verifying'[t] = verifying[t] /\ out'[t] = out[t]
      /\ mail'[t] = mail[t] /\ gone'[t] = gone[t] /\ previous'[t] = previous[t]
  BY DEF RestoreServed, Restored
<1>4. /\ verifying[t] \in Verification' \union {Null}
      /\ mail[t] \subseteq 0..Len(rows') /\ gone[t] \subseteq 0..Len(rows')
      /\ previous[t] \in Grant \union {Null}
      /\ \A s \in mail[t] \union gone[t] : Over(s)'
      /\ At(t, "local")' => verifying[t].id # 0
      /\ verifying[t] # Null => (t \in StatusTabs <=> verifying[t].scope = "status.read")
  BY <1>3, Grows DEF Ready, TabOK, At
<1>5. CASE RestoreServed(t)
  <2>1. PICK a \in Grant \union {Null} :
          /\ restoring'[t] = [restoring[t] EXCEPT !.at = "served", !.answer = a]
          /\ a # Null => restoring[t].sid # 0
    <3> DEFINE sid == restoring[t].sid
               answer == IF Authorized(sid) THEN rows[sid].read ELSE Null
    <3>1. restoring'[t] = [restoring[t] EXCEPT !.at = "served", !.answer = answer]
      BY <1>5 DEF Ready, RestoreServed, TabFunctions
    <3>2. CASE Authorized(sid)
      <4>1. sid \in 1..Len(rows) /\ rows[sid] # Null
        BY <1>2, <3>2, Grows DEF Authorized, Valid, Restoration, Ready
      <4>2. rows[sid] \in Row
        BY <4>1, ElementOfSeq DEF Ready, ServerInv, ServerTypes
      <4>3. answer \in Grant \union {Null} /\ sid # 0
        BY <3>2, <4>1, <4>2 DEF Row
      <4> QED BY <3>1, <4>3
    <3>3. CASE ~Authorized(sid)
      <4>1. answer = Null
        BY <3>3
      <4> QED BY <3>1, <4>1
    <3> QED BY <3>2, <3>3
  <2>2. PICK r \in Restoration' : /\ restoring'[t] = r /\ r.sid = restoring[t].sid
                                  /\ r.answer = a
    BY <1>2, <2>1, Grows DEF Ready, Restoration
  <2>3. /\ session'[t] = session[t] /\ session[t] \in Showing' \union {Null}
        /\ session[t] # Null => session[t].sid \notin gone[t]
    BY <1>2, <1>5, Grows DEF RestoreServed, Ready, TabOK
  <2>4. /\ restoring'[t] \in Restoration' /\ restoring'[t].sid \notin gone'[t]
        /\ restoring'[t].answer # Null => restoring'[t].sid # 0
    BY <1>2, <1>3, <2>1, <2>2
  <2>5. TabOK(t)'
    BY <1>2, <1>3, <1>4, <2>3, <2>4 DEF TabOK
  <2> QED BY <1>1, <2>5, OneTab
<1>6. CASE Restored(t)
  <2>1. PICK s \in Showing \union {Null} :
          session'[t] = s /\ (s # Null => s.sid \notin gone[t])
    <3>1. CASE Holds(restoring[t].answer)
      <4> DEFINE s == Shown(restoring[t].sid, restoring[t].answer)
      <4>1. session'[t] = s
        BY <1>6, <3>1 DEF Ready, Restored, TabFunctions
      <4>2. restoring[t].answer \in Grant /\ restoring[t].sid \in 1..Len(rows)
        BY <1>2, <3>1, Grows DEF Holds, Restoration, Ready
      <4>3. s \in Showing /\ s.sid = restoring[t].sid
        BY <4>2 DEF Shown, Showing, Grant
      <4> HIDE DEF s
      <4> QED BY <1>2, <4>1, <4>3
    <3>2. CASE ~Holds(restoring[t].answer)
      <4>1. session'[t] = session[t]
        BY <1>6, <3>2 DEF Restored
      <4> QED BY <1>2, <4>1 DEF Ready, TabOK
    <3> QED BY <3>1, <3>2
  <2>2. restoring'[t] = Null /\ s \in Showing' \union {Null}
    BY <1>6, <2>1, Grows DEF Ready, Restored, TabFunctions
  <2>3. TabOK(t)'
    BY <1>2, <1>3, <1>4, <2>1, <2>2 DEF TabOK
  <2> QED BY <1>1, <2>3, OneTab
<1> QED BY <1>5, <1>6

\* A logout that was served is true for whoever is told of it later.
LEMMA TabLogsOut ==
    ASSUME Ready, NEW t \in Tabs,
           \/ LogoutServed(t) /\ \A s \in 0..Len(rows) : s = out[t].sid => Over(s)'
           \/ LoggedOut(t) \/ LogoutFails(t)
    PROVE  TabFunctions' /\ \A u \in Tabs : TabOK(u)'
<1>1. /\ out[t] # Null /\ out[t] \in LeavingTab /\ restoring[t] = Null
      /\ out[t].at = "served" => Over(out[t].sid)
      /\ out[t].sid \in 0..Len(rows)
  BY DEF Ready, TabOK, LogoutServed, LoggedOut, LogoutFails, LeavingTab
<1>2. /\ UNCHANGED <<session, verifying, restoring, previous>>
      /\ \A u \in Tabs \ {t} : out'[u] = out[u] /\ gone'[u] = gone[u]
      /\ TabFunctions'
  BY DEF Ready, LogoutServed, LoggedOut, LogoutFails, TabFunctions
<1>3. PICK o \in LeavingTab \union {Null} :
        out'[t] = o /\ (o # Null /\ o.at = "served" => Over(out[t].sid)' /\ o.sid = out[t].sid)
  <2>1. CASE LogoutServed(t) /\ \A s \in 0..Len(rows) : s = out[t].sid => Over(s)'
    <3>1. out'[t] = [out[t] EXCEPT !.at = "served"]
      BY <2>1 DEF Ready, LogoutServed, TabFunctions
    <3>2. [out[t] EXCEPT !.at = "served"] \in LeavingTab
      BY <1>1 DEF LeavingTab
    <3>3. [out[t] EXCEPT !.at = "served"].sid = out[t].sid
      BY <1>1 DEF LeavingTab
    <3> QED BY <1>1, <2>1, <3>1, <3>2, <3>3
  <2>2. CASE LoggedOut(t)
    BY <2>2 DEF Ready, LoggedOut, TabFunctions
  <2>3. CASE LogoutFails(t)
    <3>1. out'[t] = [sid |-> 0, at |-> "failed", over |-> FALSE]
      BY <2>3 DEF Ready, LogoutFails, TabFunctions
    <3>2. [sid |-> 0, at |-> "failed", over |-> FALSE] \in LeavingTab
      BY Grows DEF LeavingTab, Ready
    <3> QED BY <3>1, <3>2
  <2> QED BY <2>1, <2>2, <2>3
<1>4. PICK k \in 0..Len(rows) : k = out[t].sid
  BY <1>1
<1>5. /\ \A u \in Tabs : mail'[u] = mail[u] \/ (mail'[u] = mail[u] \union {k} /\ Over(k))
      /\ \/ gone'[t] = gone[t]
         \/ gone'[t] = gone[t] \union {k} /\ Over(k) /\ session[t] = Null
  <2>1. CASE LogoutServed(t) \/ LogoutFails(t)
    BY <2>1 DEF LogoutServed, LogoutFails
  <2>2. CASE LoggedOut(t)
    <3>1. Over(k)
      BY <1>1, <1>4, <2>2 DEF LoggedOut
    <3>2. \A u \in Tabs : mail'[u] \in {mail[u], mail[u] \union {k}}
      BY <1>4, <2>2 DEF LoggedOut
    <3>3. \/ gone'[t] = gone[t]
          \/ gone'[t] = gone[t] \union {k} /\ session[t] = Null
      BY <1>4, <2>2 DEF Ready, LoggedOut, TabFunctions
    <3> QED BY <3>1, <3>2, <3>3
  <2> QED BY <2>1, <2>2
<1>6. \A u \in Tabs \ {t} : Same(u)
  BY <1>2, <1>5 DEF Same
<1>7. /\ mail'[t] \subseteq 0..Len(rows') /\ gone'[t] \subseteq 0..Len(rows')
      /\ \A s \in mail'[t] \union gone'[t] : Over(s)'
  BY <1>5, Grows DEF Ready, TabOK
<1>8. /\ session'[t] \in Showing' \union {Null} /\ verifying'[t] \in Verification' \union {Null}
      /\ t \in FileTabs /\ session'[t] # Null => session'[t].sid \notin gone'[t]
  BY <1>2, <1>5, Grows DEF Ready, TabOK
<1>9. /\ out'[t] \in LeavingTab' \union {Null} /\ restoring'[t] = Null
      /\ out'[t] # Null /\ out'[t].at = "served" => Over(out[t].sid)'
  BY <1>1, <1>2, <1>3, Grows DEF Ready
<1>10. /\ verifying'[t] # Null => (t \in StatusTabs <=> verifying'[t].scope = "status.read")
       /\ At(t, "local")' => verifying'[t].id # 0
       /\ previous'[t] \in Grant \union {Null}
  BY <1>2 DEF Ready, TabOK, At
<1>11. ASSUME t \in StatusTabs, At(t, "local")', challenges'[verifying'[t].id] # Null,
              Holds(previous[t])'
       PROVE  challenges'[verifying'[t].id].expected = previous'[t].device
  <2>1. At(t, "local") /\ Holds(previous[t]) /\ verifying[t].id \in 1..Len(challenges)
    BY <1>2, <1>11, Grows DEF At, Holds, TabOK, Verification, Ready
  <2>2. /\ challenges[verifying[t].id] # Null
        /\ challenges'[verifying[t].id].expected = challenges[verifying[t].id].expected
    BY <1>2, <1>11, <2>1 DEF ServerStep, Ready
  <2> QED BY <1>2, <1>11, <2>1, <2>2 DEF TabOK, Ready
<1>12. TabOK(t)'
  BY <1>7, <1>8, <1>9, <1>10, <1>11, Zenon DEF TabOK
<1> QED BY <1>2, <1>6, <1>12, OneTab

\* A step of a verification, with what the page then shows.
LEMMA TabVerifies ==
    ASSUME Ready, NEW t \in Tabs, UNCHANGED <<restoring, out, mail, gone>>,
           NEW v \in Verification' \union {Null}, verifying' = [verifying EXCEPT ![t] = v],
           NEW s \in Showing' \union {Null}, session' = [session EXCEPT ![t] = s],
           NEW g \in Grant \union {Null}, previous' = [previous EXCEPT ![t] = g],
           s # Null /\ t \in FileTabs => s.sid \notin gone[t],
           v # Null => (t \in StatusTabs <=> v.scope = "status.read"),
           v # Null /\ v.at = "local" => v.id # 0,
           v # Null /\ v.at = "local" /\ t \in StatusTabs /\ challenges'[v.id] # Null /\ Holds(g)
               => challenges'[v.id].expected = g.device
    PROVE  TabFunctions' /\ \A u \in Tabs : TabOK(u)'
<1>1. TabFunctions' /\ \A u \in Tabs \ {t} : Same(u)
  BY DEF Ready, TabFunctions, Same
<1>2. /\ verifying'[t] = v /\ session'[t] = s /\ previous'[t] = g
      /\ restoring'[t] = restoring[t] /\ out'[t] = out[t]
      /\ mail'[t] = mail[t] /\ gone'[t] = gone[t]
  BY DEF Ready, TabFunctions
<1>3. /\ restoring[t] \in Restoration' \union {Null} /\ out[t] \in LeavingTab' \union {Null}
      /\ mail[t] \subseteq 0..Len(rows') /\ gone[t] \subseteq 0..Len(rows')
      /\ \A k \in mail[t] \union gone[t] : Over(k)'
  BY Grows DEF Ready, TabOK
<1>4. /\ out'[t] # Null => restoring'[t] = Null
      /\ out'[t] # Null /\ out'[t].at = "served" => Over(out[t].sid)'
      /\ restoring'[t] # Null =>
           /\ t \in FileTabs /\ restoring'[t].sid \notin gone'[t]
           /\ restoring'[t].answer # Null => restoring'[t].sid # 0
  <2>1. /\ out[t] \in LeavingTab \union {Null}
        /\ out[t] # Null /\ out[t].at = "served" => Over(out[t].sid)
        /\ out[t] # Null => restoring[t] = Null
        /\ restoring[t] # Null =>
             /\ t \in FileTabs /\ restoring[t].sid \notin gone[t]
             /\ restoring[t].answer # Null => restoring[t].sid # 0
    BY DEF Ready, TabOK
  <2>2. out'[t] # Null /\ out'[t].at = "served" => Over(out[t].sid)'
    BY <1>2, <2>1, Grows DEF Ready, LeavingTab
  <2> QED BY <1>2, <2>1, <2>2
<1>5. At(t, "local")' => v # Null /\ v.at = "local"
  BY <1>2 DEF At
<1>6. Holds(previous[t])' => Holds(g)
  BY <1>2 DEF Holds, Ready
<1>7. TabOK(t)'
  BY <1>2, <1>3, <1>4, <1>5, <1>6 DEF TabOK
<1> QED BY <1>1, <1>7, OneTab

\* What a tab that goes on with a verification, or begins or ends one, still shows.
LEMMA TabShows ==
    ASSUME Ready, NEW t \in Tabs
    PROVE  /\ session[t] \in Showing' \union {Null} /\ previous[t] \in Grant \union {Null}
           /\ session[t] # Null /\ t \in FileTabs => session[t].sid \notin gone[t]
           /\ session = [session EXCEPT ![t] = session[t]]
           /\ previous = [previous EXCEPT ![t] = previous[t]]
           /\ verifying = [verifying EXCEPT ![t] = verifying[t]]
           /\ verifying[t] \in Verification' \union {Null}
<1>1. /\ session[t] \in Showing' \union {Null} /\ previous[t] \in Grant \union {Null}
      /\ session[t] # Null /\ t \in FileTabs => session[t].sid \notin gone[t]
      /\ verifying[t] \in Verification' \union {Null}
  BY Grows DEF Ready, TabOK
<1>2. /\ session = [session EXCEPT ![t] = session[t]]
      /\ previous = [previous EXCEPT ![t] = previous[t]]
      /\ verifying = [verifying EXCEPT ![t] = verifying[t]]
  BY DEF Ready, TabFunctions
<1> QED BY <1>1, <1>2

LEMMA TabBegins ==
    ASSUME Ready, NEW t \in Tabs, Verify(t) \/ StatusVerify(t) \/ Elevate(t)
    PROVE  TabFunctions' /\ \A u \in Tabs : TabOK(u)'
<1>1. PICK v \in Verification' : /\ verifying' = [verifying EXCEPT ![t] = v] /\ v.at # "local"
                                 /\ t \in StatusTabs <=> v.scope = "status.read"
  <2>1. PICK at \in {"session", "challenge"}, scope \in Scopes :
          /\ verifying' = [verifying EXCEPT ![t] = [at |-> at, scope |-> scope, id |-> 0]]
          /\ t \in StatusTabs <=> scope = "status.read"
    BY TabsAssumption DEF Verify, StatusVerify, Elevate, Begin, Scopes
  <2>2. [at |-> at, scope |-> scope, id |-> 0] \in Verification'
    BY Grows DEF Ready, Verification
  <2> QED BY <2>1, <2>2
<1>2. PICK s \in Showing' \union {Null} :
        /\ session' = [session EXCEPT ![t] = s]
        /\ s # Null /\ t \in FileTabs => s.sid \notin gone[t]
  <2>1. session' = [session EXCEPT ![t] = session[t]] \/ session' = [session EXCEPT ![t] = Null]
    BY TabShows DEF Verify, StatusVerify, Elevate
  <2> QED BY <2>1, TabShows
<1>3. PICK g \in Grant \union {Null} : previous' = [previous EXCEPT ![t] = g]
  BY TabShows DEF Verify, StatusVerify, Elevate
<1>4. UNCHANGED <<restoring, out, mail, gone>>
  BY DEF Verify, StatusVerify, Elevate
<1>5. v \in Verification' \union {Null} /\ ~(v # Null /\ v.at = "local")
  BY <1>1
<1> QED BY <1>1, <1>2, <1>3, <1>4, <1>5, TabVerifies

\* Ended in any way but by a lookup that shows something.
LEMMA TabEnds ==
    ASSUME Ready, NEW t \in Tabs, UNCHANGED <<session, previous, restoring, out, mail, gone>>,
           verifying' = [verifying EXCEPT ![t] = Null]
    PROVE  TabFunctions' /\ \A u \in Tabs : TabOK(u)'
<1>1. PICK s \in Showing' \union {Null}, g \in Grant \union {Null} :
        /\ session' = [session EXCEPT ![t] = s] /\ previous' = [previous EXCEPT ![t] = g]
        /\ s # Null /\ t \in FileTabs => s.sid \notin gone[t]
  BY TabShows
<1> QED BY <1>1, TabVerifies

LEMMA TabAdvances ==
    ASSUME Ready, NEW t \in Tabs, SessionStarted(t) \/ Cancel(t)
    PROVE  TabFunctions' /\ \A u \in Tabs : TabOK(u)'
<1>1. t \in StatusTabs <=> verifying[t].scope = "status.read"
  BY DEF Ready, TabOK, SessionStarted, Cancel, At
<1>2. verifying[t] \in Verification
  BY DEF Ready, TabOK, SessionStarted, Cancel, At
<1>3. PICK at \in {"challenge", "cancel"} :
        verifying' = [verifying EXCEPT ![t] = [verifying[t] EXCEPT !.at = at]]
  BY DEF Ready, TabFunctions, SessionStarted, Cancel
<1>4. PICK v \in Verification : /\ v = [verifying[t] EXCEPT !.at = at]
                                /\ v.at = at /\ v.scope = verifying[t].scope
  <2>1. PICK w \in Verification : w = verifying[t]
    BY <1>2
  <2>2. [w EXCEPT !.at = at] \in Verification
    BY DEF Verification
  <2>3. [w EXCEPT !.at = at].at = at /\ [w EXCEPT !.at = at].scope = w.scope
    BY DEF Verification
  <2> QED BY <2>1, <2>2, <2>3
<1>5. PICK s \in Showing' \union {Null}, g \in Grant \union {Null} :
        /\ session' = [session EXCEPT ![t] = s] /\ previous' = [previous EXCEPT ![t] = g]
        /\ s # Null /\ t \in FileTabs => s.sid \notin gone[t]
  BY TabShows DEF SessionStarted, Cancel
<1>6. UNCHANGED <<restoring, out, mail, gone>>
  BY DEF SessionStarted, Cancel
<1>7. v \in Verification' \union {Null} /\ ~(v # Null /\ v.at = "local")
  BY <1>4, Grows DEF Ready
<1> QED BY <1>1, <1>2, <1>3, <1>4, <1>5, <1>6, <1>7, TabVerifies

\* The challenge of a status page is meant for the device whose presence it shows.
LEMMA TabIsChallenged ==
    ASSUME Ready, NEW t \in Tabs, ChallengeServed(t),
           challenges'[Len(challenges) + 1].expected = Expected(t, verifying[t].scope),
           Len(challenges') = Len(challenges) + 1
    PROVE  TabFunctions' /\ \A u \in Tabs : TabOK(u)'
<1>1. /\ verifying[t] \in Verification
      /\ t \in StatusTabs <=> verifying[t].scope = "status.read"
  BY DEF Ready, TabOK, ChallengeServed, At
<1>2. PICK k \in 1..Len(challenges') : k = Len(challenges) + 1
  BY Grows DEF Ready
<1>3. verifying' = [verifying EXCEPT ![t] = [verifying[t] EXCEPT !.at = "local", !.id = k]]
  BY <1>2 DEF Ready, TabFunctions, ChallengeServed
<1>4. PICK v \in Verification' : /\ v = [verifying[t] EXCEPT !.at = "local", !.id = k]
                                 /\ v.at = "local" /\ v.scope = verifying[t].scope /\ v.id = k
  <2>1. [verifying[t] EXCEPT !.at = "local", !.id = k] \in Verification'
    <3>1. PICK w \in Verification : w = verifying[t]
      BY <1>1
    <3>2. k \in 0..Len(challenges')
      BY Grows DEF Ready
    <3>3. [w EXCEPT !.at = "local", !.id = k] \in Verification'
      BY <3>2 DEF Verification
    <3> QED BY <3>1, <3>3
  <2>2. /\ [verifying[t] EXCEPT !.at = "local", !.id = k].at = "local"
        /\ [verifying[t] EXCEPT !.at = "local", !.id = k].scope = verifying[t].scope
        /\ [verifying[t] EXCEPT !.at = "local", !.id = k].id = k
    BY <1>1 DEF Verification
  <2> QED BY <2>1, <2>2
<1>5. PICK s \in Showing' \union {Null} :
        /\ session' = [session EXCEPT ![t] = s]
        /\ s # Null /\ t \in FileTabs => s.sid \notin gone[t]
  BY TabShows DEF ChallengeServed
<1>6. PICK g \in Grant \union {Null} :
        g = previous[t] /\ previous' = [previous EXCEPT ![t] = g]
  BY TabShows DEF ChallengeServed
<1>7. t \in StatusTabs /\ Holds(g) => challenges'[v.id].expected = g.device
  BY <1>1, <1>2, <1>4, <1>6 DEF Expected
<1>8. UNCHANGED <<restoring, out, mail, gone>>
  BY DEF ChallengeServed
<1>9. /\ v \in Verification' \union {Null} /\ v.id # 0
      /\ t \in StatusTabs <=> v.scope = "status.read"
  BY <1>1, <1>2, <1>4, Grows DEF Ready
<1>10. verifying' = [verifying EXCEPT ![t] = v]
  BY <1>3, <1>4
<1> QED BY <1>5, <1>6, <1>7, <1>8, <1>9, <1>10, TabVerifies

\* A lookup shows what is there at that moment.
LEMMA TabLooksUp ==
    ASSUME Ready, NEW t \in Tabs, LookedUp(t) \/ StatusLookedUp(t)
    PROVE  TabFunctions' /\ \A u \in Tabs : TabOK(u)'
<1>1. /\ rows \in Seq(Row \union {Null}) /\ Len(rows) \in Nat
      /\ \A k \in 1..Len(rows) : rows[k] \in Row \union {Null}
      /\ challenges \in Seq(Challenge \union {Null}) /\ Len(challenges) \in Nat
      /\ \A c \in 1..Len(challenges) : challenges[c] \in Challenge \union {Null}
      /\ jar["files"] \in 0..Len(rows) /\ jar["status"] \in 0..Len(rows)
  BY ElementOfSeq, Grows DEF Ready, ServerInv, ServerTypes
<1>2. /\ verifying[t] \in Verification /\ verifying[t].id \in 1..Len(challenges)
      /\ t \in StatusTabs <=> verifying[t].scope = "status.read"
      /\ \A k \in gone[t] : Over(k)
  BY <1>1 DEF Ready, TabOK, LookedUp, StatusLookedUp, Proved, At, Verification
<1>3. /\ verifying' = [verifying EXCEPT ![t] = Null]
      /\ UNCHANGED <<restoring, out, mail, gone>>
  BY DEF LookedUp, StatusLookedUp
<1>4. CASE LookedUp(t)
  <2>1. PICK k \in 1..Len(rows) : k = jar["files"] /\ rows[k] \in Row /\ rows[k].read \in Grant
                                  /\ rows[k] # Null
    BY <1>1, <1>4 DEF LookedUp, Authorized, Valid, Holds, Row
  <2>2. PICK s \in Showing : s = Shown(k, rows[k].read) /\ s.sid = k
    <3>1. PICK r \in Grant : r = rows[k].read
      BY <2>1
    <3>2. Shown(k, r) \in Showing /\ Shown(k, r).sid = k
      BY DEF Shown, Showing, Grant
    <3> QED BY <3>1, <3>2
  <2>3. session' = [session EXCEPT ![t] = s]
    BY <1>4, <2>1, <2>2 DEF LookedUp
  <2>4. s \in Showing' \union {Null} /\ s.sid \notin gone[t]
    <3>1. k # 0 /\ ~Over(k)
      BY <1>1, <2>1 DEF Over
    <3> QED BY <1>2, <2>2, <3>1, Grows DEF Ready
  <2>5. PICK g \in Grant \union {Null} : previous' = [previous EXCEPT ![t] = g]
    BY <1>4, TabShows DEF LookedUp
  <2> QED BY <1>3, <2>2, <2>3, <2>4, <2>5, TabVerifies
<1>5. CASE StatusLookedUp(t)
  <2>1. PICK g \in Grant : g = challenges[verifying[t].id].proof
    BY <1>1, <1>2, <1>5 DEF StatusLookedUp, Proved, Holds, Challenge
  <2>2. t \in StatusTabs /\ t \notin FileTabs
    BY <1>2, <1>5, TabsAssumption DEF StatusLookedUp, Tabs
  <2>3. PICK k \in 1..Len(rows) : k = jar["status"]
    BY <1>1, <1>5, <2>2 DEF StatusLookedUp, Proved, Valid, Kind
  <2>4. PICK s \in Showing : s = Shown(k, g)
    BY DEF Shown, Showing, Grant
  <2>5. /\ session' = [session EXCEPT ![t] = s] /\ previous' = [previous EXCEPT ![t] = g]
        /\ s \in Showing' \union {Null}
    BY <1>5, <2>1, <2>3, <2>4, Grows DEF StatusLookedUp, Ready
  <2> QED BY <1>3, <2>2, <2>5, TabVerifies
<1> QED BY <1>4, <1>5

LEMMA TabPresenceEnds ==
    ASSUME Ready, NEW t \in Tabs, PresenceExpires(t)
    PROVE  TabFunctions' /\ \A u \in Tabs : TabOK(u)'
<1>1. PICK v \in Verification' \union {Null} :
        /\ v = verifying[t] /\ verifying' = [verifying EXCEPT ![t] = v]
  BY TabShows DEF PresenceExpires
<1>2. /\ v # Null => (t \in StatusTabs <=> v.scope = "status.read")
      /\ v # Null /\ v.at = "local" => v.id # 0
  BY <1>1 DEF Ready, TabOK, At
<1>3. PICK s \in Showing' \union {Null}, g \in Grant \union {Null} :
        /\ s = Null /\ session' = [session EXCEPT ![t] = s]
        /\ g = Null /\ previous' = [previous EXCEPT ![t] = g]
  BY DEF PresenceExpires
<1>4. ~Holds(g)
  BY <1>3 DEF Holds
<1>5. UNCHANGED <<restoring, out, mail, gone>>
  BY DEF PresenceExpires
<1> QED BY <1>1, <1>2, <1>3, <1>4, <1>5, TabVerifies

-----------------------------------------------------------------------------
(* The invariant *)

LEMMA InvServer ==
    ASSUME Inv
    PROVE  ServerInv /\ TabFunctions /\ (\A t \in Tabs : TabOK(t)) /\ open \subseteq Tabs
<1>1. now \in Nat
  BY InvSplit, LivesAssumption
<1> QED BY <1>1, InvSplit, TabsAssumption DEF ServerInv, Tabs

LEMMA InvFromStep ==
    ASSUME Inv, ServerStep, TabFunctions', \A t \in Tabs : TabOK(t)',
           open' = open, now' \in 0..MaxTime
    PROVE  Inv'
<1>1. ServerTypes' /\ GrantsOfOneDevice' /\ ProvedAsMeant' /\ open' \in Windows
  BY InvSplit DEF ServerStep
<1>2. (/\ open \in Windows /\ now \in 0..MaxTime
       /\ ServerTypes /\ GrantsOfOneDevice /\ ProvedAsMeant
       /\ TabFunctions /\ \A t \in Tabs : TabOK(t))'
  BY <1>1
<1> QED BY <1>2, InvSplit, PTL

LEMMA InitInv == Init => Inv
<1> SUFFICES ASSUME Init PROVE Inv
  OBVIOUS
<1>1. open \in Windows /\ now = 0 /\ now \in 0..MaxTime /\ open \subseteq Tabs
  BY LivesAssumption, TabsAssumption DEF Init, Tabs
<1>2. NewRow \in Row /\ NewRow.write = Null
  <2>1. now + SessionLife \in Nat
    BY <1>1, LivesAssumption
  <2> QED BY <2>1 DEF NewRow, Row
<1>3. PICK r \in Row : rows = <<r, NewRow>> /\ r.write = Null
  <2>1. PICK g \in {ReadUntil(d, FilesLife) : d \in Devices} \union {Null} :
          rows = <<IF g = Null THEN NewRow ELSE [NewRow EXCEPT !.expires = FilesLife, !.read = g],
                   NewRow>>
    BY DEF Init
  <2>2. g \in Grant \union {Null}
    BY LivesAssumption DEF ReadUntil, Grant
  <2>3. /\ [NewRow EXCEPT !.expires = FilesLife, !.read = g] \in Row
        /\ [NewRow EXCEPT !.expires = FilesLife, !.read = g].write = Null
    BY <1>2, <2>2, LivesAssumption DEF Row
  <2> QED BY <1>2, <2>1, <2>3
<1>4. /\ rows \in Seq(Row \union {Null}) /\ Len(rows) = 2
      /\ rows[1] = r /\ rows[2] = NewRow
  BY <1>2, <1>3
<1>5. /\ challenges = <<>> /\ jar = [files |-> 1, status |-> 2]
  BY DEF Init
<1>6. ServerTypes
  BY <1>4, <1>5, LivesAssumption DEF ServerTypes
<1>7. GrantsOfOneDevice /\ ProvedAsMeant
  BY <1>2, <1>3, <1>4, <1>5 DEF GrantsOfOneDevice, ProvedAsMeant
<1>8. /\ session = [t \in Tabs |-> Null] /\ verifying = [t \in Tabs |-> Null]
      /\ out = [t \in Tabs |-> Null] /\ mail = [t \in Tabs |-> {}] /\ gone = [t \in Tabs |-> {}]
      /\ previous = [t \in Tabs |-> Null]
      /\ restoring = [t \in Tabs |-> IF t \in open \ StatusTabs THEN RestoreWith(1) ELSE Null]
  BY DEF Init
<1>9. TabFunctions
  BY <1>8 DEF TabFunctions
<1>10. ASSUME NEW t \in Tabs PROVE TabOK(t)
  <2>1. /\ session[t] = Null /\ verifying[t] = Null /\ out[t] = Null /\ mail[t] = {}
        /\ gone[t] = {} /\ previous[t] = Null
    BY <1>8
  <2>2. RestoreWith(1) \in Restoration /\ RestoreWith(1).answer = Null
    BY <1>4 DEF RestoreWith, Restoration
  <2>3. restoring[t] \in Restoration \union {Null}
        /\ (restoring[t] # Null => t \in FileTabs /\ restoring[t].answer = Null)
    BY <1>8, <2>2 DEF Tabs
  <2> QED BY <2>1, <2>3 DEF TabOK, At
<1> QED BY <1>1, <1>6, <1>7, <1>9, <1>10, InvSplit

\* Steps of one tab that leave the tables alone.
LEMMA PageSteps ==
    ASSUME Inv, NEW t \in Tabs, now' = now, open' = open
    PROVE  \/ Timer(t) \/ Cancel(t) \/ Verify(t) \/ StatusVerify(t) \/ Elevate(t) \/ Refused(t)
           \/ Broadcast(t) \/ RestoreServed(t) \/ Restored(t) \/ Logout(t) \/ LoggedOut(t)
           \/ LogoutFails(t) \/ LookedUp(t) \/ Elevated(t) \/ StatusLookedUp(t)
           \/ VerifyFails(t) \/ StatusFails(t)
           => Inv'
<1>1. ServerInv /\ TabFunctions /\ (\A u \in Tabs : TabOK(u)) /\ open \subseteq Tabs
  BY InvServer
<1>2. now \in 0..MaxTime
  BY InvSplit
<1>3. ASSUME UNCHANGED serverVars,
             Ready => TabFunctions' /\ \A u \in Tabs : TabOK(u)'
      PROVE  Inv'
  <2>1. ServerStep
    BY <1>1, <1>3, ServerQuiet
  <2>2. Ready
    BY <1>1, <2>1 DEF Ready
  <2> QED BY <1>2, <1>3, <2>1, <2>2, InvFromStep
<1>4. ASSUME Expire(t) \/ Refused(t) \/ Broadcast(t) \/ Logout(t) PROVE Inv'
  BY <1>3, <1>4, TabForgets DEF Expire, Refused, Broadcast, Logout
<1>5. ASSUME PresenceExpires(t) PROVE Inv'
  BY <1>3, <1>5, TabPresenceEnds DEF PresenceExpires
<1>6. ASSUME RestoreServed(t) \/ Restored(t) PROVE Inv'
  BY <1>3, <1>6, TabRestores DEF RestoreServed, Restored
<1>7. ASSUME LoggedOut(t) \/ LogoutFails(t) PROVE Inv'
  BY <1>3, <1>7, TabLogsOut DEF LoggedOut, LogoutFails
<1>8. ASSUME Verify(t) \/ StatusVerify(t) \/ Elevate(t) PROVE Inv'
  BY <1>3, <1>8, TabBegins DEF Verify, StatusVerify, Elevate
<1>9. ASSUME Cancel(t) PROVE Inv'
  BY <1>3, <1>9, TabAdvances DEF Cancel
<1>10. ASSUME LookedUp(t) \/ StatusLookedUp(t) PROVE Inv'
  BY <1>3, <1>10, TabLooksUp DEF LookedUp, StatusLookedUp
<1>11. ASSUME Elevated(t) \/ VerifyFails(t) \/ StatusFails(t) PROVE Inv'
  BY <1>3, <1>11, TabEnds DEF Elevated, VerifyFails, StatusFails
<1> QED BY <1>4, <1>5, <1>6, <1>7, <1>8, <1>9, <1>10, <1>11 DEF Timer

\* Steps of one tab that change the tables.
LEMMA ServedSteps ==
    ASSUME Inv, NEW t \in Tabs, now' = now, open' = open
    PROVE  Revisit(t) \/ LogoutServed(t) \/ SessionStarted(t) \/ ChallengeServed(t)
           \/ CancelServed(t) => Inv'
<1>1. ServerInv /\ TabFunctions /\ (\A u \in Tabs : TabOK(u)) /\ open \subseteq Tabs
  BY InvServer
<1>2. now \in 0..MaxTime
  BY InvSplit
<1>3. ASSUME ServerStep, Ready => TabFunctions' /\ \A u \in Tabs : TabOK(u)'
      PROVE  Inv'
  <2>1. Ready
    BY <1>1, <1>3 DEF Ready
  <2> QED BY <1>2, <1>3, <2>1, InvFromStep
<1>4. ASSUME Revisit(t) PROVE Inv'
  <2>1. ServerStep
    BY <1>1, <1>4, SessionAdded DEF Revisit
  <2> QED BY <1>3, <1>4, <2>1, TabRevisits
<1>5. ASSUME SessionStarted(t) PROVE Inv'
  <2>1. ServerStep
    BY <1>1, <1>5, SessionAdded DEF SessionStarted
  <2> QED BY <1>3, <1>5, <2>1, TabAdvances
<1>6. ASSUME LogoutServed(t) PROVE Inv'
  <2>1. PICK S : S = {out[t].sid}
    OBVIOUS
  <2>2. ServerStep /\ \A s \in 0..Len(rows) : s \in S => Over(s)'
    BY <1>1, <1>6, <2>1, SessionsDropped DEF LogoutServed
  <2>3. \A s \in 0..Len(rows) : s = out[t].sid => Over(s)'
    BY <2>1, <2>2
  <2> QED BY <1>3, <1>6, <2>2, <2>3, TabLogsOut
<1>7. ASSUME CancelServed(t) PROVE Inv'
  <2>1. PICK S : S = {jar["files"]}
    OBVIOUS
  <2>2. ServerStep
    BY <1>1, <1>7, <2>1, SessionsDropped DEF CancelServed
  <2> QED BY <1>3, <1>7, <2>2, TabEnds DEF CancelServed
<1>8. ASSUME ChallengeServed(t) PROVE Inv'
  <2>1. PICK scope \in Scopes : scope = verifying[t].scope
    BY <1>1, <1>8 DEF ChallengeServed, At, TabOK, Verification
  <2>2. /\ scope = "files.write" => t \in FileTabs
        /\ previous[t] \in Grant \union {Null}
    BY <1>1, <1>8, <2>1 DEF ChallengeServed, At, TabOK, Tabs
  <2>3. /\ ServerStep /\ Len(challenges') = Len(challenges) + 1
        /\ challenges'[Len(challenges) + 1].expected = Expected(t, scope)
    BY <1>1, <1>8, <2>1, <2>2, ChallengeAdded DEF ChallengeServed
  <2> QED BY <1>3, <1>8, <2>1, <2>3, TabIsChallenged
<1> QED BY <1>4, <1>5, <1>6, <1>7, <1>8

\* A proof that comes at any time, and the passing of time.
LEMMA TableSteps ==
    ASSUME Inv, Tick \/ \E c \in 1..Len(challenges), d \in Devices : Proof(c, d)
    PROVE  Inv'
<1>1. ServerInv /\ TabFunctions /\ (\A u \in Tabs : TabOK(u)) /\ now \in Nat
  BY InvServer DEF ServerInv
<1>2. ServerStep
  <2>1. CASE Tick
    <3>1. PICK S : S = Ended
      OBVIOUS
    <3> QED BY <1>1, <2>1, <3>1, SessionsDropped DEF Tick
  <2>2. CASE \E c \in 1..Len(challenges), d \in Devices : Proof(c, d)
    BY <1>1, <2>2, ProofAccepted
  <2> QED BY <2>1, <2>2
<1>3. UNCHANGED tabVars /\ open' = open /\ now' \in 0..MaxTime /\ now <= now'
  <2>1. now \in 0..MaxTime /\ MaxTime \in Nat
    BY InvSplit, LivesAssumption
  <2>2. CASE Tick
    BY <1>1, <2>1, <2>2 DEF Tick, tabVars
  <2>3. CASE \E c \in 1..Len(challenges), d \in Devices : Proof(c, d)
    BY <1>1, <2>1, <2>3 DEF Proof
  <2> QED BY <2>2, <2>3
<1>4. TabFunctions' /\ \A t \in Tabs : Same(t)
  BY <1>1, <1>3 DEF tabVars, TabFunctions, Same
<1>5. \A t \in Tabs : TabOK(t)'
  BY <1>1, <1>2, <1>3, <1>4, TabKept, LivesAssumption
<1> QED BY <1>2, <1>3, <1>4, <1>5, InvFromStep

LEMMA NextInv == Inv /\ [Next]_vars => Inv'
<1> SUFFICES ASSUME Inv, [Next]_vars PROVE Inv'
  OBVIOUS
<1>1. CASE Tick \/ \E c \in 1..Len(challenges), d \in Devices : Proof(c, d)
  BY <1>1, TableSteps
<1>2. CASE \E t \in open :
         \/ VerificationGoesOn(t) \/ Timer(t) \/ CancelServed(t) \/ Cancel(t)
         \/ Verify(t) \/ StatusVerify(t) \/ Elevate(t)
         \/ Refused(t) \/ Broadcast(t) \/ Revisit(t) \/ RestoreServed(t) \/ Restored(t)
         \/ Logout(t) \/ LogoutServed(t) \/ LoggedOut(t) \/ LogoutFails(t)
  <2>1. PICK t \in Tabs :
         \/ VerificationGoesOn(t) \/ Timer(t) \/ CancelServed(t) \/ Cancel(t)
         \/ Verify(t) \/ StatusVerify(t) \/ Elevate(t)
         \/ Refused(t) \/ Broadcast(t) \/ Revisit(t) \/ RestoreServed(t) \/ Restored(t)
         \/ Logout(t) \/ LogoutServed(t) \/ LoggedOut(t) \/ LogoutFails(t)
    BY <1>2, InvServer
  <2>2. now' = now /\ open' = open
    <3>1. CASE VerificationGoesOn(t)
      BY <3>1 DEF VerificationGoesOn, SessionStarted, ChallengeServed, LookedUp, Elevated,
                  StatusLookedUp, VerifyFails, StatusFails
    <3>2. CASE \/ Timer(t) \/ CancelServed(t) \/ Cancel(t) \/ Verify(t) \/ StatusVerify(t)
               \/ Elevate(t) \/ Refused(t) \/ Broadcast(t)
      BY <3>2 DEF Timer, Expire, PresenceExpires, CancelServed, Cancel, Verify, StatusVerify,
                  Elevate, Refused, Broadcast
    <3>3. CASE \/ Revisit(t) \/ RestoreServed(t) \/ Restored(t)
               \/ Logout(t) \/ LogoutServed(t) \/ LoggedOut(t) \/ LogoutFails(t)
      BY <3>3 DEF Revisit, RestoreServed, Restored, Logout, LogoutServed, LoggedOut, LogoutFails
    <3> QED BY <2>1, <3>1, <3>2, <3>3
  <2> QED BY <2>1, <2>2, PageSteps, ServedSteps, Zenon DEF VerificationGoesOn
<1>3. CASE UNCHANGED vars
  <2>1. UNCHANGED serverVars /\ UNCHANGED tabVars /\ open' = open /\ now' = now
    BY <1>3 DEF vars
  <2>2. ServerStep
    BY <2>1, InvServer, ServerQuiet
  <2>3. TabFunctions' /\ \A t \in Tabs : Same(t)
    BY <2>1, InvServer DEF tabVars, TabFunctions, Same
  <2>4. now \in 0..MaxTime /\ now' \in Nat /\ now <= now'
    BY <2>1, InvSplit, LivesAssumption
  <2> QED BY <2>1, <2>2, <2>3, <2>4, InvServer, TabKept, InvFromStep
<1> QED BY <1>1, <1>2, <1>3 DEF Next

LEMMA InvHolds == Spec => []Inv
BY InitInv, NextInv, PTL DEF Spec

\* Sessions, challenges and what the tabs show have their types.
THEOREM TypeCorrect == Spec => []TypeOK
<1>1. Inv => TypeOK
  BY DEF Inv
<1> QED BY <1>1, InvHolds, PTL

\* A device that proves itself late, in another tab or with a proof that was
\* requested before, gets no session of another device to write with.
THEOREM GrantsAgree == Spec => []GrantsOfOneDevice
<1>1. Inv => GrantsOfOneDevice
  BY DEF Inv
<1> QED BY <1>1, InvHolds, PTL

\* A tab that knows of a logout does not show the session again, whichever of
\* its requests are still answered.
THEOREM LogoutHides == Spec => []HiddenAfterLogout
<1>1. Inv => HiddenAfterLogout
  BY DEF Inv
<1> QED BY <1>1, InvHolds, PTL

\* What a page shows is new only after restore() or a lookup.
LEMMA ShownAnew ==
    ASSUME [Next]_vars, NEW t \in Tabs, session'[t] # session[t], session'[t] # Null,
           TabFunctions
    PROVE  Restored(t) \/ LookedUp(t) \/ StatusLookedUp(t)
<1> DEFINE Ends(u) == session' = session \/ session' = [session EXCEPT ![u] = Null]
<1>1. \A u \in Tabs : ~Ends(u)
  BY DEF TabFunctions
<1>2. session' # session
  OBVIOUS
<1>3. ASSUME NEW u \in open, VerificationGoesOn(u)
      PROVE  session' = session \/ LookedUp(u) \/ StatusLookedUp(u)
  BY <1>3 DEF VerificationGoesOn, SessionStarted, ChallengeServed, Elevated, VerifyFails, StatusFails
<1>4. ASSUME NEW u \in open, \/ Timer(u) \/ CancelServed(u) \/ Cancel(u) \/ Verify(u)
                             \/ StatusVerify(u) \/ Elevate(u) \/ Refused(u)
      PROVE  Ends(u)
  BY <1>4 DEF Timer, Expire, PresenceExpires, CancelServed, Cancel, Verify, StatusVerify, Elevate,
              Refused, LockTab
<1>5. ASSUME NEW u \in open, \/ Broadcast(u) \/ Revisit(u) \/ RestoreServed(u)
                             \/ Logout(u) \/ LogoutServed(u) \/ LoggedOut(u) \/ LogoutFails(u)
      PROVE  Ends(u)
  BY <1>5 DEF Broadcast, Revisit, RestoreServed, Logout, LogoutServed, LoggedOut, LogoutFails,
              LockTab
<1>6. ASSUME Tick \/ (\E c \in 1..Len(challenges), d \in Devices : Proof(c, d)) \/ UNCHANGED vars
      PROVE  session' = session
  BY <1>6 DEF Tick, Proof, tabVars, vars
<1>7. ASSUME NEW u \in open, Ends(u) PROVE FALSE
  <2>1. session' = [session EXCEPT ![u] = Null]
    BY <1>2, <1>7
  <2> QED BY <2>1 DEF TabFunctions
<1>8. PICK u \in open : Restored(u) \/ LookedUp(u) \/ StatusLookedUp(u)
  BY <1>2, <1>3, <1>4, <1>5, <1>6, <1>7, Zenon DEF Next
<1>9. u = t
  BY <1>8 DEF Restored, LookedUp, StatusLookedUp, TabFunctions
<1> QED BY <1>8, <1>9

\* A presence shown anew while the last one still lasts is of the same device:
\* the challenge asked for it, and neither expiry nor a late proof by another
\* device comes between.
THEOREM PresenceKeepsDevice == Spec => RefreshKeepsDevice
<1>1. ASSUME Inv, [Next]_vars, NEW t \in StatusTabs,
             session'[t] # Null, session'[t] # session[t], Holds(previous[t])
      PROVE  session'[t].device = previous[t].device
  <2>1. /\ ServerInv /\ TabFunctions /\ TabOK(t) /\ t \in Tabs /\ t \notin FileTabs
    BY <1>1, InvServer, TabsAssumption DEF Tabs
  <2>2. /\ restoring[t] = Null
        /\ verifying[t] # Null => verifying[t].scope = "status.read"
    BY <2>1 DEF TabOK
  <2>3. StatusLookedUp(t)
    BY <1>1, <2>1, <2>2, ShownAnew DEF Restored, LookedUp, Proved, At
  <2>4. verifying[t].id \in 1..Len(challenges)
    BY <2>1, <2>3 DEF StatusLookedUp, Proved, At, TabOK, Verification, ServerInv, ServerTypes
  <2>5. PICK c, g :
          /\ c \in 1..Len(challenges)
          /\ c = verifying[t].id /\ challenges[c] # Null /\ g = challenges[c].proof /\ g # Null
    BY <2>3, <2>4 DEF StatusLookedUp, Proved
  <2>6. challenges[c].expected = previous[t].device
    BY <1>1, <2>1, <2>3, <2>5 DEF StatusLookedUp, Proved, TabOK
  <2>7. challenges[c].expected \in {g.device, Null}
    BY <2>1, <2>5 DEF ServerInv, ProvedAsMeant
  <2>8. previous[t].device \in Devices
    BY <1>1, <2>1 DEF TabOK, Holds, Grant
  <2>9. session'[t].device = g.device
    BY <2>1, <2>3, <2>5 DEF StatusLookedUp, Shown, TabFunctions
  <2> QED BY <2>6, <2>7, <2>8, <2>9, NullAssumption
<1>2. Inv /\ [Next]_vars =>
        [\A t \in StatusTabs :
           (session'[t] # Null /\ session'[t] # session[t] /\ Holds(previous[t]))
               => session'[t].device = previous[t].device]_vars
  BY <1>1
<1> QED BY <1>2, InvHolds, PTL DEF Spec, RefreshKeepsDevice
=============================================================================
