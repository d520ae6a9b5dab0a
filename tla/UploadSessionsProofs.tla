------------------------ MODULE UploadSessionsProofs ------------------------
(***************************************************************************)
(* Theorems about UploadSessions, for every value of its constants.  First *)
(* what a file holds after a cut or a write, then what a step leaves alone *)
(* of sessions, files and other requests, then one lemma per action.       *)
(***************************************************************************)
EXTENDS UploadSessions, SequenceTheorems, FiniteSetTheorems, TLAPS

LEMMA Bounds ==
  /\ MaxSize \in Nat /\ MaxSessions \in Nat /\ SessionAge \in Nat /\ MaxRevision \in Nat
  /\ MaxGrants \in Nat /\ MaxCrashes \in Nat /\ MaxWebSessions \in Nat
  BY BoundsAssumption

-----------------------------------------------------------------------------
(* Units. *)

LEMMA UnitsOfLength ==
  ASSUME NEW n \in 0..MaxSize, NEW f \in [1..n -> BOOLEAN]
  PROVE  f \in Units /\ Len(f) = n
<1>1. n \in Nat
  BY Bounds
<1>2. f \in Seq(BOOLEAN) /\ Len(f) = n
  BY <1>1
<1> QED BY <1>2 DEF Units

LEMMA UnitsHaveLength ==
  ASSUME NEW f \in Units
  PROVE  Len(f) \in 0..MaxSize /\ Len(f) \in Nat /\ f \in [1..Len(f) -> BOOLEAN]
<1>1. PICK n \in 0..MaxSize : f \in [1..n -> BOOLEAN]
  BY DEF Units
<1>2. Len(f) = n /\ n \in Nat
  BY <1>1, UnitsOfLength, Bounds
<1> QED BY <1>1, <1>2

LEMMA EqualUnits ==
  ASSUME NEW f \in Units, NEW g \in Units, Len(f) = Len(g), \A i \in 1..Len(f) : f[i] <=> g[i]
  PROVE  f = g
<1>1. f \in [1..Len(f) -> BOOLEAN] /\ g \in [1..Len(f) -> BOOLEAN]
  BY UnitsHaveLength
<1>2. \A i \in 1..Len(f) : f[i] \in BOOLEAN /\ g[i] \in BOOLEAN
  BY <1>1
<1>3. \A i \in 1..Len(f) : f[i] = g[i]
  BY <1>2
<1> QED BY <1>1, <1>3

LEMMA EmptyUnits == <<>> \in Units /\ Len(<<>>) = 0
<1>1. 0 \in 0..MaxSize /\ <<>> \in [1..0 -> BOOLEAN]
  BY Bounds
<1> QED BY <1>1, UnitsOfLength

LEMMA SetLenUnits ==
  ASSUME NEW f \in Units, NEW n \in 0..MaxSize
  PROVE  /\ SetLen(f, n) \in Units /\ Len(SetLen(f, n)) = n
         /\ \A i \in 1..n : SetLen(f, n)[i] <=> i <= Len(f) /\ f[i]
<1>1. SetLen(f, n) \in [1..n -> BOOLEAN]
  BY DEF SetLen
<1>2. \A i \in 1..n : SetLen(f, n)[i] <=> i <= Len(f) /\ f[i]
  BY DEF SetLen
<1> QED BY <1>1, <1>2, UnitsOfLength

LEMMA CompleteUnits ==
  ASSUME NEW n \in 0..MaxSize
  PROVE  /\ Complete(n) \in Units /\ Len(Complete(n)) = n
         /\ \A i \in 1..n : Complete(n)[i]
<1>1. Complete(n) \in [1..n -> BOOLEAN] /\ \A i \in 1..n : Complete(n)[i]
  BY DEF Complete
<1> QED BY <1>1, UnitsOfLength

LEMMA WriteAtUnits ==
  ASSUME NEW f \in Units, NEW at \in Nat, NEW n \in Nat, at + n <= MaxSize
  PROVE  /\ WriteAt(f, at, n) \in Units
         /\ Len(WriteAt(f, at, n)) \in {Len(f), at + n}
         /\ Len(f) <= Len(WriteAt(f, at, n)) /\ at + n <= Len(WriteAt(f, at, n))
         /\ \A i \in 1..Len(WriteAt(f, at, n)) :
                WriteAt(f, at, n)[i] <=> i \in at + 1..at + n \/ (i <= Len(f) /\ f[i])
<1>1. PICK m : m = LongerOf(Len(f), at + n)
  OBVIOUS
<1>2. m \in 0..MaxSize /\ m \in {Len(f), at + n} /\ Len(f) <= m /\ at + n <= m
  BY <1>1, UnitsHaveLength, Bounds DEF LongerOf
<1>3. WriteAt(f, at, n) = [i \in 1..m |-> i \in at + 1..at + n \/ (i <= Len(f) /\ f[i])]
  BY <1>1 DEF WriteAt
<1>4. WriteAt(f, at, n) \in [1..m -> BOOLEAN]
      /\ \A i \in 1..m : WriteAt(f, at, n)[i] <=> i \in at + 1..at + n \/ (i <= Len(f) /\ f[i])
  BY <1>3
<1>5. WriteAt(f, at, n) \in Units /\ Len(WriteAt(f, at, n)) = m
  BY <1>2, <1>4, UnitsOfLength
<1> QED BY <1>2, <1>4, <1>5

LEMMA WholeComplete ==
  ASSUME NEW f \in Units, NEW n \in 0..MaxSize
  PROVE  /\ f = Complete(n) <=> Whole(f, n) /\ Len(f) <= n
         /\ Whole(f, n) => SetLen(f, n) = Complete(n)
<1>1. n \in Nat /\ Len(f) \in Nat
  BY UnitsHaveLength, Bounds
<1>2. ASSUME f = Complete(n) PROVE Whole(f, n) /\ Len(f) <= n
  BY <1>1, <1>2, CompleteUnits DEF Whole
<1>3. ASSUME Whole(f, n), Len(f) <= n PROVE f = Complete(n)
  <2>1. Len(f) = n /\ \A i \in 1..n : f[i]
    BY <1>1, <1>3 DEF Whole
  <2> QED BY <2>1, CompleteUnits, EqualUnits
<1>4. ASSUME Whole(f, n) PROVE SetLen(f, n) = Complete(n)
  <2>1. \A i \in 1..n : SetLen(f, n)[i] <=> Complete(n)[i]
    <3>1. \A i \in 1..n : i <= Len(f) /\ f[i]
      BY <1>1, <1>4 DEF Whole
    <3> QED BY <3>1, SetLenUnits, CompleteUnits
  <2> QED BY <2>1, SetLenUnits, CompleteUnits, EqualUnits
<1> QED BY <1>2, <1>3, <1>4

\* A cut at or behind an offset leaves what is before it.
LEMMA CutKeepsWhole ==
  ASSUME NEW f \in Units, NEW n \in Nat, NEW m \in 0..MaxSize, n <= m, Whole(f, n)
  PROVE  Whole(SetLen(f, m), n)
<1>1. \A i \in 1..n : i \in 1..m /\ i <= Len(f) /\ f[i]
  BY UnitsHaveLength, Bounds DEF Whole
<1>2. Len(SetLen(f, m)) = m /\ \A i \in 1..n : SetLen(f, m)[i]
  BY <1>1, SetLenUnits
<1> QED BY <1>2 DEF Whole

\* A write leaves what is whole, and makes whole what it continues.
LEMMA WriteKeepsWhole ==
  ASSUME NEW f \in Units, NEW at \in Nat, NEW k \in Nat, at + k <= MaxSize, NEW n \in Nat,
         Whole(f, n)
  PROVE  /\ Whole(WriteAt(f, at, k), n)
         /\ n = at => Whole(WriteAt(f, at, k), at + k)
         /\ Whole(SetLen(f, Len(WriteAt(f, at, k))), n)
<1>1. PICK g : g = WriteAt(f, at, k)
  OBVIOUS
<1>2. /\ g \in Units /\ Len(f) \in Nat /\ Len(g) \in 0..MaxSize /\ Len(g) \in Nat
      /\ Len(f) <= Len(g) /\ at + k <= Len(g)
      /\ \A i \in 1..Len(g) : g[i] <=> i \in at + 1..at + k \/ (i <= Len(f) /\ f[i])
  BY <1>1, WriteAtUnits, UnitsHaveLength
<1>3. n <= Len(f) /\ \A i \in 1..n : f[i]
  BY DEF Whole
<1>4. Whole(g, n)
  <2>1. \A i \in 1..n : i \in 1..Len(g) /\ i <= Len(f) /\ f[i]
    BY <1>2, <1>3
  <2>2. \A i \in 1..n : g[i]
    BY <1>2, <2>1
  <2> QED BY <1>2, <1>3, <2>2 DEF Whole
<1>5. ASSUME n = at PROVE Whole(g, at + k)
  <2>1. \A i \in 1..at + k : i \in 1..Len(g) /\ (i \in at + 1..at + k \/ (i <= Len(f) /\ i \in 1..n))
    BY <1>2, <1>3, <1>5
  <2>2. \A i \in 1..at + k : g[i]
    BY <1>2, <1>3, <2>1
  <2> QED BY <1>2, <2>2 DEF Whole
<1>6. Whole(SetLen(f, Len(g)), n)
  BY <1>2, <1>3, CutKeepsWhole
<1> QED BY <1>1, <1>4, <1>5, <1>6

\* A late write within a complete file changes nothing.
LEMMA WriteInComplete ==
  ASSUME NEW n \in 0..MaxSize, NEW at \in Nat, NEW k \in Nat, at + k <= n
  PROVE  /\ WriteAt(Complete(n), at, k) = Complete(n)
         /\ SetLen(Complete(n), Len(WriteAt(Complete(n), at, k))) = Complete(n)
<1>1. PICK f, g : f = Complete(n) /\ g = WriteAt(f, at, k)
  OBVIOUS
<1>2. f \in Units /\ Whole(f, n) /\ Len(f) = n /\ n \in Nat /\ at + k <= MaxSize
  BY <1>1, CompleteUnits, WholeComplete, Bounds
<1>3. g \in Units /\ Whole(g, n) /\ Len(g) \in {n, at + k} /\ n <= Len(g)
  BY <1>1, <1>2, WriteAtUnits, WriteKeepsWhole
<1>4. Len(g) = n /\ g = Complete(n)
  BY <1>2, <1>3, WholeComplete
<1>5. SetLen(f, n) = Complete(n)
  BY <1>2, WholeComplete
<1> QED BY <1>1, <1>4, <1>5

-----------------------------------------------------------------------------
(* The parts of the invariant, and what a step leaves alone. *)

RowsType == rows \in [Ids -> Row \union {Null}]
FilesType ==
    /\ file \in [Ids -> Units] /\ loc \in [Ids -> {"none", "tmp", "blobs"}]
    /\ disk \in [Ids -> SUBSET Units] /\ cutLate \subseteq Ids
RequestsType == req \in [Tasks -> Request]
RestType ==
    /\ active \subseteq Ids /\ lock \in Tasks \union {Free} /\ db \in Tasks \union {Free}
    /\ late \subseteq Operations /\ revision \in [Paths -> 0..MaxRevision]
    /\ shown \in [Paths -> Published \union {Null}] /\ grant \in 0..MaxGrants
    /\ granted \in BOOLEAN /\ phase \in {"down", "serving"} /\ crashes \in 0..MaxCrashes

LEMMA TypeParts ==
  /\ TypeOK <=> RowsType /\ FilesType /\ RequestsType /\ RestType
  /\ TypeOK' <=> RowsType' /\ FilesType' /\ RequestsType' /\ RestType'
  BY DEF TypeOK, RowsType, FilesType, RequestsType, RestType

SessionsSound ==
    \A d \in Devices : IsFiniteSet(OfDevice(d)) /\ Cardinality(OfDevice(d)) <= MaxSessions

Working == Reserved \union {"begin", "renamed"}

\* The row of id, if there is one, is at most touched.
RowStays(id) ==
    \/ rows[id] = Null /\ rows'[id] = Null
    \/ rows[id] # Null /\ rows'[id] # Null /\ SameRow(rows'[id], rows[id])

FileStays(id) ==
    /\ file'[id] = file[id] /\ loc'[id] = loc[id] /\ disk'[id] = disk[id]
    /\ id \in cutLate' <=> id \in cutLate

\* No session is added; the others keep their device and size.
NoNewSession ==
    \A id \in Ids : rows'[id] # Null =>
        rows[id] # Null /\ rows'[id].device = rows[id].device /\ rows'[id].size = rows[id].size

LEMMA RowTypes ==
  ASSUME RowsType, NEW id \in Ids, rows[id] # Null
  PROVE  /\ rows[id] \in Row /\ rows[id].device \in Devices /\ rows[id].path \in Paths
         /\ rows[id].size \in 0..MaxSize /\ rows[id].received \in 0..MaxSize
         /\ rows[id].size \in Nat /\ rows[id].received \in Nat /\ rows[id].honest \in BOOLEAN
         /\ rows[id].age \in 0..SessionAge + 1 /\ rows[id].grant \in 0..MaxGrants
  BY Bounds DEF RowsType, Row

LEMMA FileTypes ==
  ASSUME FilesType, NEW id \in Ids
  PROVE  /\ file[id] \in Units /\ loc[id] \in {"none", "tmp", "blobs"}
         /\ disk[id] \in SUBSET Units
  BY DEF FilesType

LEMMA FileKept ==
  ASSUME NEW id \in Ids, FileSound(id), FileStays(id), RowStays(id) \/ rows'[id] = Null
  PROVE  FileSound(id)'
<1>1. CASE rows'[id] = Null
  BY <1>1 DEF FileSound, FileStays
<1>2. CASE RowStays(id) /\ rows'[id] # Null
  <2>1. /\ rows[id] # Null /\ rows'[id].size = rows[id].size
        /\ rows'[id].received = rows[id].received
    BY <1>2 DEF RowStays, SameRow
  <2> QED BY <1>2, <2>1 DEF FileSound, FileStays, Whole
<1> QED BY <1>1, <1>2

LEMMA EmptyFileSound ==
  ASSUME NEW id \in Ids, RowsType', file'[id] = <<>>, disk'[id] = {<<>>},
         rows'[id] # Null =>
            rows'[id].received = 0 \/ (loc'[id] # "tmp" /\ rows'[id].received <= rows'[id].size)
  PROVE  FileSound(id)'
<1>1. Len(<<>>) = 0 /\ Whole(<<>>, 0)
  BY EmptyUnits DEF Whole
<1>2. rows'[id] # Null => 0 <= rows'[id].size
  BY Bounds DEF RowsType, Row
<1> QED BY <1>1, <1>2 DEF FileSound, Whole

\* Whom a step of another request may disturb.
LEMMA NotWorking ==
  ASSUME Inv, NEW t, NEW id \in Ids, NEW u \in Tasks \ {t}, req[u].pc \in Working,
         \/ id \notin active /\ (rows[id] # Null \/ loc[id] = "none" \/ db \in {Free, t})
         \/ t \in Tasks /\ req[t].pc \in Holding /\ id = req[t].id
         \/ \E p \in Paths : shown[p] # Null /\ id = shown[p].id
         \/ loc[id] # "tmp" /\ db \in {Free, t}
  PROVE  req[u].id # id
<1> DEFINE i == req[u].id
<1>1. CASE req[u].pc \in Reserved
  <2>1. i \in active /\ rows[i] # Null /\ loc[i] = "tmp" /\ req[u].pc \in Holding
    BY <1>1 DEF Inv, RequestSound, WorkSound, Holding
  <2>2. \A p \in Paths : shown[p] # Null => loc[shown[p].id] = "blobs"
    BY DEF Inv, PublishedVerified
  <2> QED BY <2>1, <2>2 DEF Inv, HoldersDistinct
<1>2. CASE req[u].pc = "begin"
  <2>1. i \notin active /\ rows[i] = Null /\ loc[i] = "tmp" /\ db = u
    BY <1>2 DEF Inv, RequestSound, BeginSound
  <2>2. \A p \in Paths : shown[p] # Null => loc[shown[p].id] = "blobs"
    BY DEF Inv, PublishedVerified
  <2>3. t \in Tasks /\ req[t].pc \in Holding => req[t].id \in active
    BY DEF Inv, RequestSound
  <2>4. u \notin {Free, t}
    BY NamesAssumption
  <2> QED BY <2>1, <2>2, <2>3, <2>4
<1>3. CASE req[u].pc = "renamed"
  <2>1. /\ i \in active /\ loc[i] = "blobs" /\ db = u
        /\ \A p \in Paths : shown[p] # Null => shown[p].id # i
    BY <1>3 DEF Inv, RequestSound, RenamedSound, Holding
  <2>2. t \in Tasks /\ req[t].pc \in Holding => req[t].id # i
    BY <1>3 DEF Inv, HoldersDistinct, Holding
  <2>3. u # Free
    BY NamesAssumption
  <2> QED BY <2>1, <2>2, <2>3
<1> QED BY <1>1, <1>2, <1>3 DEF Working

\* A request whose session, file and place are left alone stays sound.
LEMMA RequestKept ==
  ASSUME Inv, NEW u \in Tasks, req'[u] = req[u],
         req[u].pc \in Holding => req[u].id \in active',
         req[u].pc \in Working => RowStays(req[u].id) /\ FileStays(req[u].id),
         req[u].pc \in {"begin", "renamed"} => db' = u /\ UNCHANGED <<revision, shown>>,
         req[u].pc = "begin" =>
            /\ req[u].id \notin active' /\ NoNewSession
            /\ \A w \in late' : w \in late \/ rows[w.id] # Null
  PROVE  RequestSound(u)'
<1>1. RequestSound(u) /\ SessionsSound
  BY DEF Inv, SessionsSound
<1>2. ASSUME req[u].pc = "begin" PROVE BeginSound(u)'
  <2>1. BeginSound(u) /\ req[u].id \in Ids /\ rows[req[u].id] = Null
    BY <1>1, <1>2 DEF RequestSound, BeginSound
  <2>2. PICK d : d = req[u].row.device
    OBVIOUS
  <2>3. req[u].row \in Row /\ d \in Devices
    BY <2>1, <2>2 DEF BeginSound, Inv, TypeOK, Request, Row
  <2>4. OfDevice(d)' \subseteq OfDevice(d) /\ IsFiniteSet(OfDevice(d))
    BY <1>1, <1>2, <2>3 DEF NoNewSession, OfDevice, SessionsSound
  <2>5. Cardinality(OfDevice(d)') <= Cardinality(OfDevice(d))
        /\ Cardinality(OfDevice(d)') \in Nat /\ Cardinality(OfDevice(d)) \in Nat
    BY <2>4, FS_Subset, FS_CardinalityType
  <2>6. Cardinality(OfDevice(d)') < MaxSessions
    BY <2>1, <2>2, <2>5, Bounds DEF BeginSound
  <2>7. \A w \in late' : w.id # req[u].id
    BY <1>2, <2>1 DEF BeginSound
  <2>8. rows'[req[u].id] = Null /\ loc'[req[u].id] = "tmp" /\ disk'[req[u].id] = {<<>>}
    BY <1>2, <2>1 DEF BeginSound, RowStays, FileStays, Working
  <2> QED BY <1>2, <2>1, <2>2, <2>6, <2>7, <2>8 DEF BeginSound, OfDevice
<1>3. ASSUME req[u].pc \in Reserved \union {"renamed"} PROVE WorkSound(u)'
  <2>1. WorkSound(u) /\ RowStays(req[u].id) /\ FileStays(req[u].id)
    BY <1>1, <1>3 DEF RequestSound, Working
  <2>2. rows'[req[u].id] # Null /\ SameRow(rows'[req[u].id], req[u].row)
    BY <2>1 DEF WorkSound, RowStays, SameRow
  <2> QED BY <2>1, <2>2 DEF WorkSound, FileStays, SameRow, Whole, Complete
<1>4. ASSUME req[u].pc = "renamed" PROVE RenamedSound(u)'
  BY <1>1, <1>4 DEF RequestSound, RenamedSound, FileStays, Working, Complete
<1> QED BY <1>1, <1>2, <1>3, <1>4 DEF RequestSound

LEMMA HoldersKept ==
  ASSUME Inv, NEW t, \A u \in Tasks \ {t} : req'[u] = req[u],
         t \in Tasks /\ req'[t].pc \in Holding =>
            \/ req[t].pc \in Holding /\ req'[t].id = req[t].id
            \/ req'[t].id \notin active
  PROVE  HoldersDistinct'
<1>1. HoldersDistinct /\ \A u \in Tasks : req[u].pc \in Holding => req[u].id \in active
  BY DEF Inv, RequestSound
<1>2. ASSUME NEW x \in Tasks, NEW y \in Tasks, x # y, {req'[x].pc, req'[y].pc} \subseteq Holding
      PROVE  req'[x].id # req'[y].id
  BY <1>1, <1>2 DEF HoldersDistinct
<1> QED BY <1>2 DEF HoldersDistinct

LEMMA LateKept ==
  ASSUME Inv, NoNewSession, late' \subseteq late,
         \A p \in Paths : shown'[p] # Null => shown'[p] = shown[p]
  PROVE  LateSound'
<1>1. \A w \in late : w.id \in Ids
  BY DEF Inv, TypeOK, Operations
<1> QED BY <1>1 DEF Inv, LateSound, NoNewSession

LEMMA PublishedKept ==
  ASSUME Inv, \A p \in Paths : shown'[p] # Null => shown'[p] = shown[p] /\ FileStays(shown[p].id)
  PROVE  PublishedVerified' /\ OneFilePerPath'
<1>1. PublishedVerified'
  BY DEF Inv, PublishedVerified, FileStays, Complete
<1>2. OneFilePerPath'
  BY DEF Inv, OneFilePerPath
<1> QED BY <1>1, <1>2

LEMMA SessionsKept ==
  ASSUME Inv, NoNewSession
  PROVE  SessionsSound'
<1>1. ASSUME NEW d \in Devices
      PROVE  IsFiniteSet(OfDevice(d)') /\ Cardinality(OfDevice(d)') <= MaxSessions
  <2>1. OfDevice(d)' \subseteq OfDevice(d)
    BY DEF NoNewSession, OfDevice
  <2>2. IsFiniteSet(OfDevice(d)) /\ Cardinality(OfDevice(d)) <= MaxSessions
    BY DEF Inv
  <2>3. /\ IsFiniteSet(OfDevice(d)') /\ Cardinality(OfDevice(d)') <= Cardinality(OfDevice(d))
        /\ Cardinality(OfDevice(d)') \in Nat /\ Cardinality(OfDevice(d)) \in Nat
    BY <2>1, <2>2, FS_Subset, FS_CardinalityType
  <2> QED BY <2>2, <2>3, Bounds
<1> QED BY <1>1 DEF SessionsSound, OfDevice

\* A step of request t (or, if t is none, of the environment) that touches the sessions in S.
LEMMA StepKeeps ==
  ASSUME Inv, TypeOK', NEW t, NEW S \in SUBSET Ids,
         phase' = "serving" \/ UNCHANGED <<phase, active, late, req>>,
         \A u \in Tasks \ {t} : req'[u] = req[u] /\ (req[u].pc \in Holding => req[u].id \in active'),
         \A id \in active' : id \in active \/ rows[id] # Null,
         \A u \in Tasks \ {t} : req[u].pc \in Working => req[u].id \notin S,
         \A id \in Ids \ S : RowStays(id) /\ FileStays(id),
         \/ late' \subseteq late
         \/ LateSound' /\ \A w \in late' : w \in late \/ rows[w.id] # Null,
         db \in {Free, t} \/ UNCHANGED <<db, revision, shown>>,
         NoNewSession,
         \A id \in S : FileSound(id)',
         \A p \in Paths : shown'[p] # Null => shown'[p] = shown[p] /\ FileStays(shown[p].id),
         t \in Tasks => RequestSound(t)',
         t \in Tasks /\ req'[t].pc \in Holding =>
            \/ req[t].pc \in Holding /\ req'[t].id = req[t].id
            \/ req'[t].id \notin active
  PROVE  Inv'
<1>1. \A id \in Ids : FileSound(id)'
  BY FileKept DEF Inv
<1>2. ASSUME NEW u \in Tasks \ {t} PROVE RequestSound(u)'
  <2>1. req[u].pc \in Working => req[u].id \in Ids /\ req[u].id \notin S
    BY DEF Working, Inv, RequestSound, WorkSound, BeginSound
  <2>2. req[u].pc \in Working => RowStays(req[u].id) /\ FileStays(req[u].id)
    BY <2>1
  <2>3. req[u].pc \in {"begin", "renamed"} => db = u /\ db' = u /\ UNCHANGED <<revision, shown>>
    <3>1. req[u].pc \in {"begin", "renamed"} => db = u
      BY DEF Inv, RequestSound, BeginSound, RenamedSound
    <3>2. u \notin {Free, t}
      BY NamesAssumption
    <3> QED BY <3>1, <3>2
  <2>4. req[u].pc = "begin" => req[u].id \notin active'
    BY DEF Inv, RequestSound, BeginSound
  <2> QED BY <2>2, <2>3, <2>4, RequestKept
<1>3. \A u \in Tasks : RequestSound(u)'
  BY <1>2
<1>4. HoldersDistinct'
  BY HoldersKept
<1>5. LateSound' /\ PublishedVerified' /\ OneFilePerPath' /\ SessionsSound'
  <2>1. \A p \in Paths : shown'[p] # Null => shown'[p] = shown[p]
    OBVIOUS
  <2> QED BY <2>1, LateKept, PublishedKept, SessionsKept
<1>6. DownIdle'
  BY DEF Inv, DownIdle
<1> QED BY <1>1, <1>3, <1>4, <1>5, <1>6 DEF Inv, SessionsSound

-----------------------------------------------------------------------------
(* Steps of one request. *)

LEMMA IdleTyped ==
  Idle \in Request /\ Idle.pc = "idle" /\ Idle.id = Null /\ Idle.row = Null /\ Idle.count = 0
  BY Bounds DEF Idle, Request, Steps

LEMMA PcMoves ==
  ASSUME RequestsType, NEW t \in Tasks, NEW s \in Steps, req' = [req EXCEPT ![t].pc = s]
  PROVE  /\ RequestsType'
         /\ req'[t].pc = s /\ req'[t].id = req[t].id /\ req'[t].row = req[t].row
         /\ req'[t].count = req[t].count
         /\ \A u \in Tasks \ {t} : req'[u] = req[u]
  BY DEF RequestsType, Request

LEMMA Becomes ==
  ASSUME RequestsType, NEW t \in Tasks, NEW r \in Request, req' = [req EXCEPT ![t] = r]
  PROVE  /\ RequestsType' /\ req'[t] = r
         /\ \A u \in Tasks \ {t} : req'[u] = req[u]
  BY DEF RequestsType

\* What a working request can rely on, with the types of what it holds.
LEMMA WorkFacts ==
  ASSUME Inv, NEW t \in Tasks, req[t].pc \in Reserved \union {"renamed"}
  PROVE  /\ WorkSound(t) /\ req[t].id \in Ids /\ rows[req[t].id] # Null
         /\ req[t].row \in Row /\ req[t].row.size \in Nat /\ req[t].row.size \in 0..MaxSize
         /\ req[t].row.received \in Nat /\ req[t].row.received \in 0..MaxSize
         /\ req[t].count \in Nat /\ req[t].row.path \in Paths /\ req[t].row.base \in Nat
         /\ rows[req[t].id].size = req[t].row.size
         /\ rows[req[t].id].received = req[t].row.received
         /\ FileSound(req[t].id) /\ file[req[t].id] \in Units /\ disk[req[t].id] \in SUBSET Units
<1>1. WorkSound(t) /\ req[t].id \in Ids /\ rows[req[t].id] # Null /\ req[t].row # Null
      /\ SameRow(rows[req[t].id], req[t].row)
  BY DEF Inv, RequestSound, WorkSound
<1>2. req[t].row \in Row /\ req[t].count \in 0..MaxSize
  BY <1>1 DEF Inv, TypeOK, Request
<1>3. /\ req[t].row.size \in 0..MaxSize /\ req[t].row.received \in 0..MaxSize
      /\ req[t].row.path \in Paths /\ req[t].row.base \in Nat
  BY <1>2 DEF Row
<1>4. FileSound(req[t].id) /\ file[req[t].id] \in Units /\ disk[req[t].id] \in SUBSET Units
  BY <1>1 DEF Inv, TypeOK
<1> QED BY <1>1, <1>2, <1>3, <1>4, Bounds DEF SameRow

LEMMA Serving ==
  ASSUME Inv, NEW t \in Tasks, req[t].pc # "idle"
  PROVE  phase = "serving"
  BY DEF Inv, TypeOK, DownIdle, Idle

LEMMA InvTypes ==
  ASSUME Inv
  PROVE  TypeOK /\ RowsType /\ FilesType /\ RequestsType /\ RestType
  BY TypeParts DEF Inv

LEMMA LettingGo ==
  ASSUME NEW t \in Tasks, req'[t].pc \in {"release", "cleanup"}, req'[t].id \in active'
  PROVE  RequestSound(t)'
  BY DEF RequestSound, Reserved, Chunking

LEMMA IdleSound ==
  ASSUME NEW t \in Tasks, req'[t] = Idle
  PROVE  RequestSound(t)'
  BY DEF RequestSound, Reserved, Chunking, Holding, Idle

\* A step of a request that holds its session.
LEMMA HolderKeeps ==
  ASSUME Inv, TypeOK', NEW t \in Tasks, req[t].pc \in Holding, NEW id, id = req[t].id,
         UNCHANGED <<active, revision, shown, late, phase>>,
         db \in {Free, t} \/ UNCHANGED db,
         \A u \in Tasks \ {t} : req'[u] = req[u],
         \A o \in Ids \ {id} : rows'[o] = rows[o] /\ FileStays(o),
         loc[id] = "tmp" \/ FileStays(id),
         rows'[id] # Null =>
            /\ rows[id] # Null /\ rows'[id].size = rows[id].size
            /\ rows'[id].device = rows[id].device,
         FileSound(id)', RequestSound(t)',
         req'[t].pc \in Holding => req'[t].id = id
  PROVE  Inv'
<1>2. id \in active /\ active \in SUBSET Ids /\ id \in Ids /\ {id} \in SUBSET Ids
  BY DEF Inv, RequestSound, TypeOK
<1>3. phase = "serving" /\ phase' = phase
  BY Serving DEF Holding, Reserved, Chunking
<1>4. \A u \in Tasks \ {t} : req[u].pc \in Holding => req[u].id \in active'
  BY DEF Inv, RequestSound
<1>5. \A u \in Tasks \ {t} : req[u].pc \in Working => req[u].id \notin {id}
  BY <1>2, NotWorking
<1>6. \A o \in Ids \ {id} : RowStays(o) /\ FileStays(o)
  BY DEF RowStays, SameRow
<1>7. NoNewSession
  BY DEF NoNewSession
<1>8. \A p \in Paths : shown'[p] # Null => shown'[p] = shown[p] /\ FileStays(shown[p].id)
  <2>1. \A p \in Paths : shown[p] # Null => shown[p].id \in Ids /\ loc[shown[p].id] = "blobs"
    BY DEF Inv, PublishedVerified, TypeOK, Published
  <2> QED BY <2>1
<1>9. PICK S : S = {id}
  OBVIOUS
<1>10. \A o \in S : FileSound(o)'
  BY <1>9
<1>11. late' \subseteq late /\ \A o \in active' : o \in active \/ rows[o] # Null
  OBVIOUS
<1>12. db \in {Free, t} \/ UNCHANGED <<db, revision, shown>>
  OBVIOUS
<1>13. req'[t].pc \in Holding => req[t].pc \in Holding /\ req'[t].id = req[t].id
  OBVIOUS
<1> QED BY <1>2, <1>3, <1>4, <1>5, <1>6, <1>7, <1>8, <1>9, <1>10, <1>11, <1>12, <1>13, StepKeeps

\* A step of a request that is nothing but its own next position.
LEMMA HolderMoves ==
  ASSUME Inv, NEW t \in Tasks, NEW s \in Holding, req[t].pc \in Holding,
         req' = [req EXCEPT ![t].pc = s],
         UNCHANGED <<rows, fileVars, active, lock, late, revision, shown, grant, granted, phase,
                     crashes>>,
         (db \in {Free, t} /\ db' = Free) \/ UNCHANGED db,
         RequestSound(t)'
  PROVE  Inv'
<1>1. s \in Steps
  BY DEF Steps, Holding, Reserved, Chunking
<1>2. /\ RequestsType' /\ req'[t].id = req[t].id
      /\ \A u \in Tasks \ {t} : req'[u] = req[u]
  BY <1>1, InvTypes, PcMoves
<1>3. RowsType' /\ FilesType' /\ RestType'
  BY InvTypes DEF RowsType, FilesType, RestType, fileVars
<1>4. \A id \in Ids : FileStays(id) /\ rows'[id] = rows[id]
  BY DEF FileStays, fileVars
<1>5. PICK id : id = req[t].id
  OBVIOUS
<1>6. id \in Ids
  BY <1>5 DEF Inv, RequestSound, TypeOK
<1>7. FileSound(id)'
  <2>1. FileSound(id) /\ FileStays(id) /\ RowStays(id)
    BY <1>4, <1>6 DEF Inv, RowStays, SameRow
  <2> QED BY <1>6, <2>1, FileKept
<1>8. db \in {Free, t} \/ UNCHANGED db
  OBVIOUS
<1>9. UNCHANGED <<active, revision, shown, late, phase>>
  OBVIOUS
<1>10. req'[t].id = id
  BY <1>2, <1>5
<1> QED BY <1>2, <1>3, <1>4, <1>5, <1>6, <1>7, <1>8, <1>9, <1>10, TypeParts, HolderKeeps

-----------------------------------------------------------------------------
(* Chunks. *)

\* What Written and the cuts do to a file.
LEMMA NewContent ==
  ASSUME FilesType, NEW id \in Ids, NEW g \in Units, NEW D \in SUBSET Units, loc' = loc,
         cutLate' \subseteq Ids, \A o \in Ids \ {id} : o \in cutLate' <=> o \in cutLate,
         file' = [file EXCEPT ![id] = g], disk' = [disk EXCEPT ![id] = D]
  PROVE  /\ FilesType' /\ file'[id] = g /\ disk'[id] = D /\ loc'[id] = loc[id]
         /\ \A o \in Ids \ {id} : FileStays(o)
  BY DEF FilesType, FileStays

\* A write within the size of a session's file leaves the file sound.
LEMMA WriteSound ==
  ASSUME FilesType, RowsType, NEW id \in Ids, NEW at \in Nat, NEW k \in Nat, at + k <= MaxSize,
         rows[id] # Null => at + k <= rows[id].size,
         FileSound(id), RowStays(id), loc' = loc, cutLate' = cutLate, Written(id, at, k)
  PROVE  /\ FilesType' /\ FileSound(id)' /\ (\A o \in Ids \ {id} : FileStays(o))
         /\ file'[id] = WriteAt(file[id], at, k)
<1>1. PICK f : f = file[id]
  OBVIOUS
<1>2. PICK g : g = WriteAt(f, at, k)
  OBVIOUS
<1>3. PICK D : D = disk[id]
  OBVIOUS
<1>4. f \in Units /\ D \in SUBSET Units /\ Len(f) \in Nat /\ f \in D
  BY <1>1, <1>3, FileTypes, UnitsHaveLength DEF FileSound
<1>5. g \in Units /\ Len(g) \in 0..MaxSize /\ Len(g) \in Nat /\ Len(g) \in {Len(f), at + k}
  BY <1>2, <1>4, WriteAtUnits, UnitsHaveLength
<1>6. PICK h : h = SetLen(f, Len(g))
  OBVIOUS
<1>7. h \in Units /\ Len(h) = Len(g)
  BY <1>4, <1>5, <1>6, SetLenUnits
<1>8. file' = [file EXCEPT ![id] = g] /\ disk' = [disk EXCEPT ![id] = D \union {h, g}]
  BY <1>1, <1>2, <1>3, <1>6 DEF Written
<1>9. D \union {h, g} \in SUBSET Units
  BY <1>4, <1>5, <1>7
<1>10. /\ FilesType' /\ file'[id] = g /\ disk'[id] = D \union {h, g} /\ loc'[id] = loc[id]
       /\ \A o \in Ids \ {id} : FileStays(o)
  <2>1. cutLate' \subseteq Ids /\ \A o \in Ids \ {id} : o \in cutLate' <=> o \in cutLate
    BY DEF FilesType
  <2> QED BY <1>5, <1>8, <1>9, <2>1, NewContent
<1>11. ASSUME rows'[id] # Null
       PROVE  /\ rows'[id].received <= rows'[id].size
              /\ \A e \in disk'[id] : Len(e) <= rows'[id].size
              /\ loc'[id] = "tmp" /\ id \notin cutLate' =>
                   \A e \in disk'[id] : Whole(e, rows'[id].received)
  <2>1. PICK r : r = rows[id]
    OBVIOUS
  <2>2. /\ rows[id] # Null /\ r.size \in Nat /\ r.received \in Nat
        /\ rows'[id].size = r.size /\ rows'[id].received = r.received
    BY <1>11, <2>1, RowTypes DEF RowStays, SameRow
  <2>3. /\ r.received <= r.size /\ \A e \in D : Len(e) <= r.size
        /\ loc[id] = "tmp" /\ id \notin cutLate => \A e \in D : Whole(e, r.received)
    BY <1>3, <2>1, <2>2 DEF FileSound
  <2>4. Len(g) <= r.size /\ Len(h) <= r.size
    BY <1>4, <1>5, <1>7, <2>1, <2>2, <2>3
  <2>5. ASSUME loc[id] = "tmp", id \notin cutLate
        PROVE  Whole(g, r.received) /\ Whole(h, r.received)
    <3>1. Whole(f, r.received)
      BY <1>4, <2>3, <2>5
    <3> QED BY <1>2, <1>4, <1>6, <2>2, <3>1, WriteKeepsWhole
  <2> QED BY <1>10, <2>2, <2>3, <2>4, <2>5
<1> QED BY <1>2, <1>1, <1>10, <1>11 DEF FileSound, Whole

LEMMA StepChunkWrite ==
  ASSUME Inv, NEW t \in Tasks, ChunkWrite(t)
  PROVE  Inv'
<1>1. PICK id : id = req[t].id
  OBVIOUS
<1>2. PICK at : at = req[t].row.received
  OBVIOUS
<1>3. PICK k : k = req[t].count
  OBVIOUS
<1>4. req[t].pc = "chunk" /\ "chunk" \in Chunking /\ "chunk" \in Reserved /\ "chunk" \in Holding
  BY DEF ChunkWrite, Chunking, Reserved, Holding
<1>5. /\ WorkSound(t) /\ id \in Ids /\ rows[id] # Null /\ at \in Nat /\ k \in Nat
      /\ rows[id].size = req[t].row.size /\ rows[id].received = at /\ FileSound(id)
      /\ rows[id].size \in 0..MaxSize /\ file[id] \in Units
  BY <1>1, <1>2, <1>3, <1>4, WorkFacts
<1>6. at + k <= rows[id].size /\ loc[id] = "tmp" /\ req[t].count > 0
  BY <1>1, <1>2, <1>3, <1>4, <1>5 DEF WorkSound
<1>7. at + k <= MaxSize
  BY <1>5, <1>6, Bounds
<1>8. UNCHANGED <<rows, loc, cutLate, active, lock, db, late, revision, shown, grant, granted,
                   phase, crashes>> /\ Written(id, at, k) /\ req' = [req EXCEPT ![t].pc = "written"]
  BY <1>1, <1>2, <1>3 DEF ChunkWrite
<1>9. RowStays(id)
  BY <1>8 DEF RowStays, SameRow
<1>10. /\ FilesType' /\ FileSound(id)' /\ (\A o \in Ids \ {id} : FileStays(o))
       /\ file'[id] = WriteAt(file[id], at, k)
  BY <1>5, <1>6, <1>7, <1>8, <1>9, InvTypes, WriteSound
<1>11. /\ RequestsType' /\ req'[t].pc = "written" /\ req'[t].id = id
       /\ req'[t].row = req[t].row /\ req'[t].count = k
       /\ \A u \in Tasks \ {t} : req'[u] = req[u]
  <2>1. "written" \in Steps
    BY DEF Steps
  <2> QED BY <1>1, <1>3, <1>8, <2>1, InvTypes, PcMoves
<1>12. ASSUME id \notin cutLate' PROVE Whole(file'[id], at + k)
  <2>1. PICK f : f = file[id]
    OBVIOUS
  <2>2. Whole(f, at) /\ f \in Units
    BY <1>5, <1>6, <1>8, <1>12, <2>1 DEF FileSound
  <2>3. Whole(WriteAt(f, at, k), at + k)
    BY <1>5, <1>7, <2>2, WriteKeepsWhole
  <2> QED BY <1>10, <2>1, <2>3
<1>13. RequestSound(t)'
  <2>1. WorkSound(t)'
    BY <1>1, <1>2, <1>3, <1>5, <1>6, <1>8, <1>11, <1>12
       DEF WorkSound, Chunking, Reserved, SameRow, Whole
  <2>2. id \in active'
    BY <1>1, <1>4, <1>8 DEF Inv, RequestSound
  <2> QED BY <1>11, <2>1, <2>2 DEF RequestSound
<1>14. TypeOK'
  BY <1>8, <1>10, <1>11, InvTypes, TypeParts DEF RowsType, RestType
<1>15. \A o \in Ids \ {id} : rows'[o] = rows[o] /\ FileStays(o)
  BY <1>8, <1>10
<1>16. UNCHANGED <<active, revision, shown, late, phase>> /\ UNCHANGED db /\ UNCHANGED rows
  BY <1>8
<1> QED BY <1>1, <1>4, <1>5, <1>6, <1>10, <1>11, <1>13, <1>14, <1>15, <1>16, HolderKeeps

LEMMA StepChunkSync ==
  ASSUME Inv, NEW t \in Tasks, ChunkSync(t)
  PROVE  Inv'
<1>1. PICK id : id = req[t].id
  OBVIOUS
<1>2. req[t].pc = "written" /\ "written" \in Chunking /\ "written" \in Reserved
      /\ "written" \in Holding
  BY DEF ChunkSync, Chunking, Reserved, Holding
<1>3. /\ WorkSound(t) /\ id \in Ids /\ rows[id] # Null /\ FileSound(id)
      /\ file[id] \in Units /\ loc[id] = "tmp"
  BY <1>1, <1>2, WorkFacts DEF WorkSound
<1>4. /\ UNCHANGED <<rows, file, loc, cutLate, active, lock, db, late, revision, shown, grant,
                     granted, phase, crashes>>
      /\ disk' = [disk EXCEPT ![id] = {file[id]}] /\ req' = [req EXCEPT ![t].pc = "synced"]
  BY <1>1 DEF ChunkSync
<1>5. /\ FilesType' /\ disk'[id] = {file[id]} /\ file'[id] = file[id] /\ loc'[id] = loc[id]
      /\ \A o \in Ids \ {id} : FileStays(o)
  BY <1>3, <1>4, InvTypes DEF FilesType, FileStays
<1>6. /\ RequestsType' /\ req'[t].pc = "synced" /\ req'[t].id = id
      /\ req'[t].row = req[t].row /\ req'[t].count = req[t].count
      /\ \A u \in Tasks \ {t} : req'[u] = req[u]
  <2>1. "synced" \in Steps
    BY DEF Steps
  <2> QED BY <1>1, <1>4, <2>1, InvTypes, PcMoves
<1>7. FileSound(id)'
  BY <1>3, <1>4, <1>5 DEF FileSound, Whole
<1>8. RequestSound(t)'
  <2>1. id \notin cutLate => Whole(file[id], req[t].row.received + req[t].count)
    BY <1>1, <1>2, <1>3 DEF WorkSound
  <2>2. WorkSound(t)'
    BY <1>1, <1>2, <1>3, <1>4, <1>5, <1>6, <2>1 DEF WorkSound, Chunking, Reserved, SameRow, Whole
  <2>3. id \in active'
    BY <1>1, <1>2, <1>4 DEF Inv, RequestSound
  <2> QED BY <1>6, <2>2, <2>3 DEF RequestSound
<1>9. TypeOK'
  BY <1>4, <1>5, <1>6, InvTypes, TypeParts DEF RowsType, RestType
<1>10. \A o \in Ids \ {id} : rows'[o] = rows[o] /\ FileStays(o)
  BY <1>4, <1>5
<1>11. UNCHANGED <<active, revision, shown, late, phase>> /\ UNCHANGED db /\ UNCHANGED rows
  BY <1>4
<1> QED BY <1>1, <1>2, <1>3, <1>6, <1>7, <1>8, <1>9, <1>10, <1>11, HolderKeeps

\* A cut leaves a sound file sound if it is at the acknowledged offset.
LEMMA CutSound ==
  ASSUME FilesType, RowsType, NEW id \in Ids, NEW n \in 0..MaxSize, rows[id] # Null,
         rows[id].received = n, n <= rows[id].size,
         FileSound(id), RowStays(id), loc' = loc, cutLate' = cutLate, Cut(id, n)
  PROVE  FilesType' /\ FileSound(id)' /\ \A o \in Ids \ {id} : FileStays(o)
<1>1. PICK f : f = file[id]
  OBVIOUS
<1>2. PICK g : g = SetLen(f, n)
  OBVIOUS
<1>3. PICK D : D = disk[id]
  OBVIOUS
<1>4. f \in Units /\ D \in SUBSET Units /\ f \in D /\ n \in Nat
  BY <1>1, <1>3, FileTypes, Bounds DEF FileSound
<1>5. g \in Units /\ Len(g) = n
  BY <1>2, <1>4, SetLenUnits
<1>6. file' = [file EXCEPT ![id] = g] /\ disk' = [disk EXCEPT ![id] = D \union {g}]
  BY <1>1, <1>2, <1>3 DEF Cut
<1>7. D \union {g} \in SUBSET Units
  BY <1>4, <1>5
<1>8. /\ FilesType' /\ file'[id] = g /\ disk'[id] = D \union {g} /\ loc'[id] = loc[id]
      /\ \A o \in Ids \ {id} : FileStays(o)
  <2>1. cutLate' \subseteq Ids /\ \A o \in Ids \ {id} : o \in cutLate' <=> o \in cutLate
    BY DEF FilesType
  <2> QED BY <1>5, <1>6, <1>7, <2>1, NewContent
<1>9. rows'[id].size = rows[id].size /\ rows'[id].received = n /\ rows'[id] # Null
  BY DEF RowStays, SameRow
<1>10. \A e \in D \union {g} : Len(e) <= rows[id].size
  BY <1>3, <1>5 DEF FileSound
<1>11. ASSUME loc[id] = "tmp", id \notin cutLate PROVE \A e \in D \union {g} : Whole(e, n)
  <2>1. Whole(f, n)
    BY <1>3, <1>4, <1>11 DEF FileSound
  <2>2. Whole(g, n)
    BY <1>2, <1>4, <2>1, CutKeepsWhole
  <2> QED BY <1>3, <1>11, <2>2 DEF FileSound
<1> QED BY <1>8, <1>9, <1>10, <1>11 DEF FileSound, Whole

\* What a cut needs of the row.
LEMMA RowSound ==
  ASSUME Inv, NEW id \in Ids, rows[id] # Null
  PROVE  rows[id].received <= rows[id].size
  BY DEF Inv, FileSound

\* A request cuts the file of its session to the offset it started from.
LEMMA CutKeeps ==
  ASSUME Inv, NEW t \in Tasks, NEW s \in {"chunk", "release"}, req[t].pc \in {"cutting", "recut"},
         Cut(req[t].id, req[t].row.received), req' = [req EXCEPT ![t].pc = s],
         UNCHANGED <<rows, loc, cutLate, active, lock, db, late, revision, shown, grant, granted,
                     phase, crashes>>
  PROVE  Inv'
<1>1. PICK id : id = req[t].id
  OBVIOUS
<1>2. PICK n : n = req[t].row.received
  OBVIOUS
<1>3. req[t].pc \in Chunking /\ req[t].pc \in Reserved /\ req[t].pc \in Holding
      /\ s \in Holding /\ s \in Steps
  BY DEF Chunking, Reserved, Holding, Steps
<1>4. /\ WorkSound(t) /\ id \in Ids /\ rows[id] # Null /\ n \in 0..MaxSize
      /\ rows[id].received = n /\ FileSound(id) /\ loc[id] = "tmp"
  BY <1>1, <1>2, <1>3, WorkFacts DEF WorkSound
<1>5. RowStays(id)
  BY DEF RowStays, SameRow
<1>6. FilesType' /\ FileSound(id)' /\ \A o \in Ids \ {id} : FileStays(o)
  BY <1>1, <1>2, <1>4, <1>5, InvTypes, RowSound, CutSound
<1>7. /\ RequestsType' /\ req'[t].pc = s /\ req'[t].id = id
      /\ req'[t].row = req[t].row /\ req'[t].count = req[t].count
      /\ \A u \in Tasks \ {t} : req'[u] = req[u]
  BY <1>1, <1>3, InvTypes, PcMoves
<1>8. RequestSound(t)'
  <2>1. id \in active'
    BY <1>1, <1>3 DEF Inv, RequestSound
  <2>2. CASE s = "release"
    BY <1>7, <2>1, <2>2, LettingGo
  <2>3. CASE s = "chunk"
    <3>1. WorkSound(t)'
      BY <1>1, <1>3, <1>4, <1>7, <2>3 DEF WorkSound, Chunking, Reserved, SameRow
    <3> QED BY <1>7, <2>1, <2>3, <3>1 DEF RequestSound
  <2> QED BY <2>2, <2>3
<1>9. TypeOK'
  BY <1>6, <1>7, InvTypes, TypeParts DEF RowsType, RestType
<1>10. \A o \in Ids \ {id} : rows'[o] = rows[o] /\ FileStays(o)
  BY <1>6
<1>11. UNCHANGED <<active, revision, shown, late, phase>> /\ UNCHANGED db /\ UNCHANGED rows
  OBVIOUS
<1> QED BY <1>1, <1>3, <1>4, <1>6, <1>7, <1>8, <1>9, <1>10, <1>11, HolderKeeps

LEMMA StepChunkCut ==
  ASSUME Inv, NEW t \in Tasks, ChunkCut(t)
  PROVE  Inv'
  BY CutKeeps DEF ChunkCut

LEMMA StepChunkRecut ==
  ASSUME Inv, NEW t \in Tasks, ChunkRecut(t)
  PROVE  Inv'
<1>1. /\ req[t].pc = "recut" /\ req' = [req EXCEPT ![t].pc = "release"]
      /\ UNCHANGED <<rows, loc, cutLate, active, lock, db, late, revision, shown, grant,
                     granted, phase, crashes>>
  BY DEF ChunkRecut
<1>2. CASE Cut(req[t].id, req[t].row.received)
  BY <1>1, <1>2, CutKeeps
<1>3. CASE UNCHANGED <<file, disk>>
  <2>1. req[t].pc \in Holding /\ "release" \in Holding /\ "release" \in Steps
    BY <1>1 DEF Holding, Reserved, Chunking, Steps
  <2>2. req'[t].pc = "release" /\ req'[t].id = req[t].id
    BY <1>1, <2>1, InvTypes, PcMoves
  <2>3. RequestSound(t)'
    <3>1. req[t].id \in active'
      BY <1>1, <2>1 DEF Inv, RequestSound
    <3> QED BY <2>2, <3>1, LettingGo
  <2>4. UNCHANGED fileVars
    BY <1>1, <1>3 DEF fileVars
  <2> QED BY <1>1, <2>1, <2>3, <2>4, HolderMoves
<1> QED BY <1>2, <1>3 DEF ChunkRecut

LEMMA StepChunkFailed ==
  ASSUME Inv, NEW t \in Tasks, ChunkFailed(t)
  PROVE  Inv'
<1>1. PICK s : s = IF req[t].pc = "cutting" \/ IsWeb(req[t].row) THEN "release" ELSE "recut"
  OBVIOUS
<1>2. /\ req[t].pc \in Chunking /\ req[t].pc \in Reserved /\ req[t].pc \in Holding
      /\ s \in {"release", "recut"} /\ s \in Holding /\ s \in Steps
  BY <1>1 DEF ChunkFailed, Chunking, Reserved, Holding, Steps
<1>3. /\ req' = [req EXCEPT ![t].pc = s]
      /\ UNCHANGED <<rows, fileVars, active, lock, late, revision, shown, grant, granted, phase,
                     crashes>>
  BY <1>1 DEF ChunkFailed
<1>4. (db \in {Free, t} /\ db' = Free) \/ UNCHANGED db
  BY DEF ChunkFailed
<1>5. /\ req'[t].pc = s /\ req'[t].id = req[t].id /\ req'[t].row = req[t].row
      /\ req'[t].count = req[t].count
  BY <1>2, <1>3, InvTypes, PcMoves
<1>6. req[t].id \in active'
  BY <1>2, <1>3 DEF Inv, RequestSound
<1>7. RequestSound(t)'
  <2>1. CASE s = "release"
    BY <1>5, <1>6, <2>1, LettingGo
  <2>2. CASE s = "recut"
    <3>1. WorkSound(t)
      BY <1>2 DEF Inv, RequestSound
    <3>2. WorkSound(t)'
      BY <1>2, <1>3, <1>5, <2>2, <3>1 DEF WorkSound, Chunking, Reserved, SameRow, fileVars
    <3> QED BY <1>5, <1>6, <2>2, <3>2 DEF RequestSound
  <2> QED BY <1>2, <2>1, <2>2
<1> QED BY <1>2, <1>3, <1>4, <1>7, HolderMoves

LEMMA StepChunkDone ==
  ASSUME Inv, NEW t \in Tasks, ChunkDone(t)
  PROVE  Inv'
<1>1. PICK id : id = req[t].id
  OBVIOUS
<1>2. PICK at : at = req[t].row.received
  OBVIOUS
<1>3. PICK k : k = req[t].count
  OBVIOUS
<1>4. req[t].pc = "synced" /\ "synced" \in Chunking /\ "synced" \in Reserved
      /\ "synced" \in Holding
  BY DEF ChunkDone, Chunking, Reserved, Holding
<1>5. /\ WorkSound(t) /\ id \in Ids /\ rows[id] # Null /\ at \in Nat /\ k \in Nat
      /\ rows[id].size = req[t].row.size /\ rows[id].received = at /\ FileSound(id)
      /\ rows[id].size \in 0..MaxSize /\ loc[id] = "tmp"
  BY <1>1, <1>2, <1>3, <1>4, WorkFacts DEF WorkSound
<1>6. /\ at + k <= rows[id].size
      /\ id \notin cutLate => \A f \in disk[id] : Whole(f, at + k)
  BY <1>1, <1>2, <1>3, <1>4, <1>5 DEF WorkSound
<1>7. /\ UNCHANGED <<file, loc, disk, cutLate, active, lock, late, revision, shown, grant,
                     granted, phase, crashes>>
      /\ db \in {Free, t} /\ db' = Free /\ req' = [req EXCEPT ![t].pc = "release"]
      /\ rows' = [rows EXCEPT ![id].received = @ + k, ![id].age = 0]
  BY <1>1, <1>2, <1>3, <1>5 DEF ChunkDone, fileVars
<1>8. PICK r : r = [rows[id] EXCEPT !.received = at + k, !.age = 0]
  OBVIOUS
<1>9. rows' = [rows EXCEPT ![id] = r]
  BY <1>5, <1>7, <1>8, InvTypes DEF RowsType
<1>10. /\ r \in Row /\ r # Null /\ r.received = at + k /\ r.size = rows[id].size
       /\ r.device = rows[id].device
  <2>1. at + k \in 0..MaxSize /\ 0 \in 0..SessionAge + 1
    BY <1>5, <1>6, Bounds
  <2>2. rows[id] \in Row
    BY <1>5, InvTypes, RowTypes
  <2>3. r \in Row /\ r.received = at + k /\ r.size = rows[id].size /\ r.device = rows[id].device
    BY <1>8, <2>1, <2>2 DEF Row
  <2> QED BY <2>3, RowAssumption
<1>11. RowsType' /\ rows'[id] = r /\ \A o \in Ids \ {id} : rows'[o] = rows[o]
  BY <1>5, <1>9, <1>10, InvTypes DEF RowsType
<1>12. FileSound(id)'
  BY <1>5, <1>6, <1>7, <1>10, <1>11 DEF FileSound, Whole
<1>13. /\ RequestsType' /\ req'[t].pc = "release" /\ req'[t].id = id
       /\ \A u \in Tasks \ {t} : req'[u] = req[u]
  <2>1. "release" \in Steps
    BY DEF Steps
  <2> QED BY <1>1, <1>7, <2>1, InvTypes, PcMoves
<1>14. RequestSound(t)'
  <2>1. id \in active'
    BY <1>1, <1>4, <1>7 DEF Inv, RequestSound
  <2> QED BY <1>13, <2>1, LettingGo
<1>15. TypeOK'
  BY <1>7, <1>11, <1>13, InvTypes, TypeParts DEF FilesType, RestType
<1>16. \A o \in Ids : FileStays(o)
  BY <1>7 DEF FileStays
<1>17. UNCHANGED <<active, revision, shown, late, phase>>
  BY <1>7
<1> QED BY <1>1, <1>4, <1>5, <1>7, <1>10, <1>11, <1>12, <1>13, <1>14, <1>15, <1>16, <1>17,
           HolderKeeps

-----------------------------------------------------------------------------
(* Beginnings and ends of the work on a session. *)

LEMMA RemovedFiles ==
  ASSUME FilesType, NEW S \in SUBSET Ids, Removed(S)
  PROVE  /\ FilesType' /\ \A o \in Ids \ S : FileStays(o)
         /\ \A o \in S : loc'[o] = "none" /\ file'[o] = <<>> /\ disk'[o] = {<<>>}
         /\ \A o \in S : o \notin cutLate'
<1>1. PICK e : e = <<>>
  OBVIOUS
<1>2. e \in Units
  BY <1>1, EmptyUnits
<1>3. /\ loc' = [id \in Ids |-> IF id \in S THEN "none" ELSE loc[id]]
      /\ file' = [id \in Ids |-> IF id \in S THEN e ELSE file[id]]
      /\ disk' = [id \in Ids |-> IF id \in S THEN {e} ELSE disk[id]]
      /\ cutLate' = cutLate \ S
  BY <1>1 DEF Removed
<1>4. FilesType'
  BY <1>2, <1>3 DEF FilesType
<1>5. \A o \in Ids \ S : FileStays(o)
  BY <1>3 DEF FileStays
<1> QED BY <1>1, <1>3, <1>4, <1>5

\* A request takes a session that no other request works on.
LEMMA TakesSession ==
  ASSUME Inv, TypeOK', NEW t \in Tasks, NEW id \in Ids \ active, rows[id] # Null,
         loc[id] = "tmp" \/ FileStays(id), phase = "serving", db = Free,
         active' = active \union {id}, UNCHANGED <<late, revision, shown, phase>>,
         \A u \in Tasks \ {t} : req'[u] = req[u],
         \A o \in Ids \ {id} : rows'[o] = rows[o] /\ FileStays(o),
         RowStays(id) \/ rows'[id] = Null,
         FileSound(id)', RequestSound(t)', req'[t].id = id
  PROVE  Inv'
<1>1. PICK S : S = {id}
  OBVIOUS
<1>2. S \in SUBSET Ids
  BY <1>1
<1>3. \A u \in Tasks \ {t} : req[u].pc \in Holding => req[u].id \in active'
  BY DEF Inv, RequestSound
<1>4. \A u \in Tasks \ {t} : req[u].pc \in Working => req[u].id \notin S
  BY <1>1, NotWorking
<1>5. \A o \in Ids \ S : RowStays(o) /\ FileStays(o)
  BY <1>1 DEF RowStays, SameRow
<1>6. NoNewSession
  BY DEF NoNewSession, RowStays, SameRow
<1>7. \A p \in Paths : shown'[p] # Null => shown'[p] = shown[p] /\ FileStays(shown[p].id)
  <2>1. \A p \in Paths : shown[p] # Null => shown[p].id \in Ids /\ loc[shown[p].id] = "blobs"
    BY DEF Inv, PublishedVerified, TypeOK, Published
  <2> QED BY <2>1
<1>8. \A o \in S : FileSound(o)'
  BY <1>1
<1>9. \A o \in active' : o \in active \/ rows[o] # Null
  OBVIOUS
<1>10. late' \subseteq late /\ db \in {Free, t} /\ req'[t].id \notin active /\ phase' = phase
  OBVIOUS
<1> QED BY <1>2, <1>3, <1>4, <1>5, <1>6, <1>7, <1>8, <1>9, <1>10, StepKeeps

LEMMA StepChunkStart ==
  ASSUME Inv, NEW t \in Tasks, NEW id \in Ids, NEW k \in 1..MaxSize, ChunkStart(t, id, k)
  PROVE  Inv'
<1>1. /\ phase = "serving" /\ db = Free /\ id \in Ids \ active /\ rows[id] # Null
      /\ loc[id] = "tmp" /\ active' = active \union {id} /\ k <= rows[id].size - rows[id].received
      /\ UNCHANGED <<rows, file, loc, disk, cutLate, lock, late, revision, shown, grant, granted,
                     phase, crashes>>
      /\ req' = [req EXCEPT ![t] = [pc |-> "cutting", id |-> id, row |-> rows[id], count |-> k]]
  BY DEF ChunkStart, Fits, fileVars
<1>2. PICK n : n = rows[id].received
  OBVIOUS
<1>3. /\ rows[id] \in Row /\ n \in Nat /\ rows[id].size \in Nat
      /\ k \in Nat /\ k > 0 /\ k \in 0..MaxSize
  BY <1>1, <1>2, InvTypes, RowTypes, Bounds
<1>4. n + k <= rows[id].size
  BY <1>1, <1>2, <1>3
<1>5. RowStays(id) /\ \A o \in Ids : rows'[o] = rows[o] /\ FileStays(o)
  BY <1>1 DEF RowStays, SameRow, FileStays
<1>6. FileSound(id)'
  BY <1>1, <1>5, FileKept DEF Inv
<1>7. PICK r : r = [pc |-> "cutting", id |-> id, row |-> rows[id], count |-> k]
  OBVIOUS
<1>8. r \in Request /\ r.pc = "cutting" /\ r.id = id /\ r.row = rows[id] /\ r.count = k
  BY <1>3, <1>7 DEF Request, Steps
<1>9. RequestsType' /\ req'[t] = r /\ \A u \in Tasks \ {t} : req'[u] = req[u]
  BY <1>1, <1>7, <1>8, InvTypes, Becomes
<1>10. RequestSound(t)'
  <2>1. WorkSound(t)'
    BY <1>1, <1>2, <1>3, <1>4, <1>8, <1>9 DEF WorkSound, Chunking, Reserved, SameRow, Whole
  <2>2. id \in active'
    BY <1>1
  <2> QED BY <1>8, <1>9, <2>1, <2>2 DEF RequestSound
<1>11. TypeOK'
  <2>1. db' \in Tasks \union {Free} /\ active' \subseteq Ids
    BY <1>1, InvTypes DEF ChunkStart, RestType
  <2> QED BY <1>1, <1>9, <2>1, InvTypes, TypeParts DEF RowsType, FilesType, RestType
<1>12. UNCHANGED <<late, revision, shown, phase>> /\ req'[t].id = id
  BY <1>1, <1>8, <1>9
<1> QED BY <1>1, <1>5, <1>6, <1>9, <1>10, <1>11, <1>12, TakesSession

LEMMA StepFinishStart ==
  ASSUME Inv, NEW t \in Tasks, NEW id \in Ids, FinishStart(t, id)
  PROVE  Inv'
<1>1. /\ phase = "serving" /\ db = Free /\ id \in Ids \ active /\ rows[id] # Null
      /\ loc[id] = "tmp" /\ active' = active \union {id} /\ rows[id].received = rows[id].size
      /\ UNCHANGED <<rows, file, loc, disk, cutLate, lock, db, late, revision, shown, grant,
                     granted, phase, crashes>>
      /\ req' = [req EXCEPT ![t] = [Idle EXCEPT !.pc = "hashing", !.id = id, !.row = rows[id]]]
  BY DEF FinishStart, fileVars
<1>2. rows[id] \in Row
  BY <1>1, InvTypes, RowTypes
<1>3. PICK r : r = [Idle EXCEPT !.pc = "hashing", !.id = id, !.row = rows[id]]
  OBVIOUS
<1>4. r \in Request /\ r.pc = "hashing" /\ r.id = id /\ r.row = rows[id]
  <2>1. "hashing" \in Steps
    BY DEF Steps
  <2> QED BY <1>2, <1>3, <2>1, IdleTyped DEF Request
<1>5. RequestsType' /\ req'[t] = r /\ \A u \in Tasks \ {t} : req'[u] = req[u]
  BY <1>1, <1>3, <1>4, InvTypes, Becomes
<1>6. RowStays(id) /\ \A o \in Ids : rows'[o] = rows[o] /\ FileStays(o)
  BY <1>1 DEF RowStays, SameRow, FileStays
<1>7. FileSound(id)'
  BY <1>1, <1>6, FileKept DEF Inv
<1>8. RequestSound(t)'
  <2>1. WorkSound(t)'
    BY <1>1, <1>4, <1>5 DEF WorkSound, Chunking, Reserved, SameRow
  <2>2. id \in active'
    BY <1>1
  <2> QED BY <1>4, <1>5, <2>1, <2>2 DEF RequestSound
<1>9. TypeOK'
  BY <1>1, <1>5, InvTypes, TypeParts DEF RowsType, FilesType, RestType
<1>10. UNCHANGED <<late, revision, shown, phase>> /\ req'[t].id = id
  BY <1>1, <1>4, <1>5
<1> QED BY <1>1, <1>5, <1>6, <1>7, <1>8, <1>9, <1>10, TakesSession

LEMMA StepWebCancel ==
  ASSUME Inv, NEW t \in Tasks, NEW id \in Ids, WebCancel(t, id)
  PROVE  Inv'
<1>1. /\ phase = "serving" /\ db = Free /\ id \in Ids \ active /\ rows[id] # Null
      /\ active' = active \union {id} /\ Removed(InTmp({id}))
      /\ rows' = [rows EXCEPT ![id] = Null]
      /\ UNCHANGED <<lock, db, late, revision, shown, grant, granted, phase, crashes>>
      /\ req' = [req EXCEPT ![t] = [Idle EXCEPT !.pc = "release", !.id = id]]
  BY DEF WebCancel
<1>2. PICK r : r = [Idle EXCEPT !.pc = "release", !.id = id]
  OBVIOUS
<1>3. r \in Request /\ r.pc = "release" /\ r.id = id
  <2>1. "release" \in Steps
    BY DEF Steps
  <2> QED BY <1>2, <2>1, IdleTyped DEF Request
<1>4. RequestsType' /\ req'[t] = r /\ \A u \in Tasks \ {t} : req'[u] = req[u]
  BY <1>1, <1>2, <1>3, InvTypes, Becomes
<1>5. RowsType' /\ rows'[id] = Null /\ \A o \in Ids \ {id} : rows'[o] = rows[o]
  BY <1>1, InvTypes DEF RowsType
<1>6. PICK S : S = InTmp({id})
  OBVIOUS
<1>7. S \in SUBSET {id} /\ (id \in S => loc[id] = "tmp")
  BY <1>6 DEF InTmp
<1>8. /\ FilesType' /\ \A o \in Ids \ S : FileStays(o)
      /\ \A o \in S : file'[o] = <<>> /\ disk'[o] = {<<>>}
  BY <1>1, <1>6, <1>7, InvTypes, RemovedFiles
<1>9. FileSound(id)'
  <2>1. FileSound(id)
    BY DEF Inv
  <2> QED BY <1>5, <1>7, <1>8, <2>1 DEF FileSound, FileStays
<1>10. RequestSound(t)'
  BY <1>1, <1>3, <1>4, LettingGo
<1>11. TypeOK'
  BY <1>1, <1>4, <1>5, <1>8, InvTypes, TypeParts DEF RestType
<1>12. loc[id] = "tmp" \/ FileStays(id)
  BY <1>7, <1>8
<1>13. \A o \in Ids \ {id} : rows'[o] = rows[o] /\ FileStays(o)
  BY <1>5, <1>7, <1>8
<1>14. UNCHANGED <<late, revision, shown, phase>> /\ req'[t].id = id
  BY <1>1, <1>3, <1>4
<1> QED BY <1>1, <1>4, <1>5, <1>9, <1>10, <1>11, <1>12, <1>13, <1>14, TakesSession

LEMMA StepRelease ==
  ASSUME Inv, NEW t \in Tasks, Release(t)
  PROVE  Inv'
<1>1. /\ req[t].pc = "release" /\ active' = active \ {req[t].id} /\ req' = [req EXCEPT ![t] = Idle]
      /\ UNCHANGED <<rows, file, loc, disk, cutLate, lock, db, late, revision, shown, grant,
                     granted, phase, crashes>>
  BY DEF Release, fileVars
<1>2. RequestsType' /\ req'[t] = Idle /\ \A u \in Tasks \ {t} : req'[u] = req[u]
  <2>1. PICK r : r = Idle
    OBVIOUS
  <2> QED BY <1>1, <2>1, InvTypes, IdleTyped, Becomes
<1>3. TypeOK'
  <2>1. active' \subseteq Ids
    BY <1>1, InvTypes DEF RestType
  <2> QED BY <1>1, <1>2, <2>1, InvTypes, TypeParts DEF RowsType, FilesType, RestType
<1>4. \A u \in Tasks \ {t} : req[u].pc \in Holding => req[u].id \in active'
  BY <1>1 DEF Inv, RequestSound, HoldersDistinct, Holding
<1>5. \A o \in Ids : RowStays(o) /\ FileStays(o)
  BY <1>1 DEF RowStays, SameRow, FileStays
<1>6. RequestSound(t)' /\ req'[t].pc \notin Holding
  BY <1>2, IdleSound DEF Idle, Holding, Reserved, Chunking
<1>7. NoNewSession /\ \A p \in Paths : shown'[p] # Null => shown'[p] = shown[p] /\ FileStays(shown[p].id)
  BY <1>1 DEF NoNewSession, FileStays
<1>8. phase = "serving" /\ phase' = phase /\ late' \subseteq late
      /\ UNCHANGED <<db, revision, shown>> /\ \A o \in active' : o \in active
  BY <1>1, Serving
<1>9. PICK S : S = {}
  OBVIOUS
<1> QED BY <1>2, <1>3, <1>4, <1>5, <1>6, <1>7, <1>8, <1>9, StepKeeps

LEMMA StepChunkCancelled ==
  ASSUME Inv, NEW t \in Tasks, ChunkCancelled(t)
  PROVE  Inv'
<1>1. PICK id : id = req[t].id
  OBVIOUS
<1>2. /\ req[t].pc \in Chunking /\ req[t].pc \in Reserved /\ req[t].pc \in Holding
      /\ req' = [req EXCEPT ![t].pc = "release"]
      /\ UNCHANGED <<rows, file, loc, disk, cutLate, active, lock, db, revision, shown, grant,
                     granted, phase, crashes>>
  BY DEF ChunkCancelled, fileVars, Chunking, Reserved, Holding
<1>3. /\ WorkSound(t) /\ id \in Ids /\ rows[id] # Null /\ loc[id] = "tmp"
      /\ req[t].row.received \in Nat /\ req[t].row.received \in 0..MaxSize
      /\ req[t].count \in Nat /\ req[t].row.size \in Nat /\ req[t].row.size \in 0..MaxSize
      /\ rows[id].size = req[t].row.size
  BY <1>1, <1>2, WorkFacts DEF WorkSound
<1>4. PICK n : n = IF req[t].pc = "chunk" THEN req[t].count ELSE 0
  OBVIOUS
<1>5. \A k \in 1..MaxLate :
        LET w == Operation(k, id, req[t].row.received, n) IN
          /\ w.id = id /\ w.at + w.count <= rows[id].size /\ w.at + w.count <= MaxSize
          /\ w \in Operations
  <2>1. req[t].count > 0 /\ req[t].row.received + req[t].count <= req[t].row.size
    BY <1>2, <1>3 DEF WorkSound
  <2>2. n \in 0..MaxSize /\ req[t].row.received + n <= req[t].row.size
        /\ req[t].row.received + n <= MaxSize
    BY <1>3, <1>4, <2>1, Bounds
  <2> QED BY <1>3, <2>2 DEF Operations, Operation
<1>6. late' = late \/ \E k \in 1..MaxLate :
                        late' = late \union {Operation(k, id, req[t].row.received, n)}
  BY <1>1, <1>4 DEF ChunkCancelled
<1>7. LateSound' /\ \A v \in late' : v \in late \/ rows[v.id] # Null
  <2>1. \A p \in Paths : shown[p] # Null => shown[p].id # id
    BY <1>3 DEF Inv, PublishedVerified
  <2>2. LateSound
    BY DEF Inv
  <2> QED BY <1>2, <1>3, <1>5, <1>6, <2>1, <2>2 DEF LateSound
<1>8. RequestsType' /\ req'[t].pc = "release" /\ req'[t].id = id
      /\ \A u \in Tasks \ {t} : req'[u] = req[u]
  <2>1. "release" \in Steps
    BY DEF Steps
  <2> QED BY <1>1, <1>2, <2>1, InvTypes, PcMoves
<1>9. TypeOK'
  <2>1. late' \subseteq Operations
    BY <1>5, <1>6, InvTypes DEF RestType
  <2> QED BY <1>2, <1>8, <2>1, InvTypes, TypeParts DEF RowsType, FilesType, RestType
<1>10. \A u \in Tasks : req[u].pc \in Holding => req[u].id \in active'
  BY <1>2 DEF Inv, RequestSound
<1>11. RequestSound(t)'
  BY <1>1, <1>2, <1>8, <1>10, LettingGo
<1>12. \A o \in Ids : RowStays(o) /\ FileStays(o)
  BY <1>2 DEF RowStays, SameRow, FileStays
<1>13. NoNewSession /\ \A p \in Paths : shown'[p] # Null => shown'[p] = shown[p] /\ FileStays(shown[p].id)
  BY <1>2 DEF NoNewSession, FileStays
<1>14. phase = "serving" /\ phase' = phase
       /\ UNCHANGED <<db, revision, shown>> /\ \A o \in active' : o \in active
  BY <1>2, Serving DEF Chunking
<1>15. PICK S : S = {}
  OBVIOUS
<1>16. req[t].pc \in Holding /\ req'[t].id = req[t].id
  BY <1>1, <1>2, <1>8
<1> QED BY <1>7, <1>8, <1>9, <1>10, <1>11, <1>12, <1>13, <1>14, <1>15, <1>16, StepKeeps

-----------------------------------------------------------------------------
(* The end of an upload. *)

LEMMA StepFinishHash ==
  ASSUME Inv, NEW t \in Tasks, FinishHash(t)
  PROVE  Inv'
<1>1. /\ req[t].pc = "hashing" /\ req[t].row.honest /\ req' = [req EXCEPT ![t].pc = "hashed"]
      /\ file[req[t].id] = Complete(req[t].row.size)
      /\ UNCHANGED <<rows, fileVars, active, lock, late, revision, shown, grant, granted, phase,
                     crashes>>
      /\ UNCHANGED db
  BY DEF FinishHash, Verified
<1>2. /\ "hashing" \in Reserved /\ "hashing" \in Holding /\ "hashed" \in Holding
      /\ "hashed" \in Steps /\ "hashed" \in Reserved /\ "hashed" \notin Chunking
  BY DEF Reserved, Holding, Steps, Chunking
<1>3. WorkSound(t) /\ req[t].id \in active
  BY <1>1, <1>2 DEF Inv, RequestSound
<1>4. /\ req'[t].pc = "hashed" /\ req'[t].id = req[t].id /\ req'[t].row = req[t].row
      /\ req'[t].count = req[t].count
  BY <1>1, <1>2, InvTypes, PcMoves
<1>5. WorkSound(t)'
  BY <1>1, <1>2, <1>3, <1>4 DEF WorkSound, SameRow, Whole, Complete, fileVars
<1>6. RequestSound(t)'
  BY <1>1, <1>2, <1>3, <1>4, <1>5 DEF RequestSound
<1> QED BY <1>1, <1>2, <1>6, HolderMoves

\* The file is not the one announced, another version was published, or an error.
LEMMA StepFinishEnds ==
  ASSUME Inv, NEW t \in Tasks, FinishCorrupt(t) \/ FinishConflict(t) \/ FinishFailed(t)
  PROVE  Inv'
<1>1. PICK s \in {"release", "cleanup"} : req' = [req EXCEPT ![t].pc = s]
  BY DEF FinishCorrupt, FinishConflict, FinishFailed
<1>2. /\ req[t].pc \in {"hashing", "hashed", "renamed"} /\ req[t].pc \in Holding
      /\ s \in Holding /\ s \in Steps
      /\ UNCHANGED <<rows, fileVars, active, lock, late, revision, shown, grant, granted, phase,
                     crashes>>
  BY DEF FinishCorrupt, FinishConflict, FinishFailed, Holding, Reserved, Steps
<1>3. (db \in {Free, t} /\ db' = Free) \/ UNCHANGED db
  <2>1. req[t].pc = "renamed" => db = t
    BY DEF Inv, RequestSound, RenamedSound
  <2> QED BY <2>1 DEF FinishCorrupt, FinishConflict, FinishFailed
<1>4. req[t].id \in active /\ req'[t].pc = s /\ req'[t].id = req[t].id
  BY <1>1, <1>2, InvTypes, PcMoves DEF Inv, RequestSound
<1>5. RequestSound(t)'
  BY <1>2, <1>4, LettingGo
<1> QED BY <1>1, <1>2, <1>3, <1>5, HolderMoves

LEMMA StepFinishRename ==
  ASSUME Inv, NEW t \in Tasks, FinishRename(t)
  PROVE  Inv'
<1>1. PICK id : id = req[t].id
  OBVIOUS
<1>2. PICK row : row = req[t].row
  OBVIOUS
<1>3. /\ req[t].pc = "hashed" /\ db = Free /\ db' = t /\ loc' = [loc EXCEPT ![id] = "blobs"]
      /\ revision[row.path] = row.base /\ revision[row.path] < MaxRevision
      /\ req' = [req EXCEPT ![t].pc = "renamed"]
      /\ UNCHANGED <<rows, file, disk, cutLate, active, lock, late, revision, shown, grant,
                     granted, phase, crashes>>
  BY <1>1, <1>2 DEF FinishRename, MayPublish
<1>4. "hashed" \in Reserved /\ "hashed" \in Holding /\ "renamed" \in Steps
      /\ "renamed" \notin Reserved /\ "renamed" \notin Chunking
  BY DEF Reserved, Holding, Steps, Chunking
<1>5. /\ WorkSound(t) /\ id \in Ids /\ rows[id] # Null /\ FileSound(id) /\ row.size \in 0..MaxSize
      /\ rows[id].size = row.size /\ rows[id].received = row.received
      /\ disk[id] \in SUBSET Units /\ row.size \in Nat
  BY <1>1, <1>2, <1>3, <1>4, WorkFacts
<1>6. /\ loc[id] = "tmp" /\ row.honest /\ row.received = row.size
      /\ id \notin cutLate => file[id] = Complete(row.size)
  BY <1>1, <1>2, <1>3, <1>4, <1>5 DEF WorkSound
<1>7. ASSUME id \notin cutLate PROVE disk[id] = {Complete(row.size)}
  <2>1. \A f \in disk[id] : f \in Units /\ Len(f) <= row.size /\ Whole(f, row.size)
    BY <1>5, <1>6, <1>7 DEF FileSound
  <2>2. \A f \in disk[id] : f = Complete(row.size)
    BY <1>5, <2>1, WholeComplete
  <2> QED BY <1>5, <1>6, <1>7, <2>2 DEF FileSound
<1>8. /\ RequestsType' /\ req'[t].pc = "renamed" /\ req'[t].id = id /\ req'[t].row = row
      /\ req'[t].count = req[t].count /\ \A u \in Tasks \ {t} : req'[u] = req[u]
  BY <1>1, <1>2, <1>3, <1>4, InvTypes, PcMoves
<1>9. FilesType' /\ loc'[id] = "blobs" /\ \A o \in Ids \ {id} : FileStays(o) /\ rows'[o] = rows[o]
  BY <1>3, <1>5, InvTypes DEF FilesType, FileStays
<1>10. FileSound(id)'
  BY <1>3, <1>5, <1>9 DEF FileSound
<1>11. WorkSound(t)'
  BY <1>1, <1>2, <1>3, <1>4, <1>5, <1>8 DEF WorkSound, SameRow
<1>12. RenamedSound(t)'
  <2>1. \A p \in Paths : shown[p] # Null => shown[p].id # id
    BY <1>6 DEF Inv, PublishedVerified
  <2> QED BY <1>3, <1>6, <1>7, <1>8, <1>9, <2>1 DEF RenamedSound, Complete
<1>13. RequestSound(t)'
  <2>1. id \in active'
    BY <1>1, <1>3, <1>4 DEF Inv, RequestSound
  <2> QED BY <1>4, <1>8, <1>11, <1>12, <2>1 DEF RequestSound
<1>14. TypeOK'
  BY <1>3, <1>8, <1>9, InvTypes, TypeParts DEF RowsType, RestType
<1>15. UNCHANGED <<active, revision, shown, late, phase>> /\ UNCHANGED rows /\ db \in {Free, t}
  BY <1>3
<1> QED BY <1>1, <1>3, <1>4, <1>5, <1>6, <1>8, <1>9, <1>10, <1>13, <1>14, <1>15, HolderKeeps

LEMMA StepFinishCleanup ==
  ASSUME Inv, NEW t \in Tasks, FinishCleanup(t)
  PROVE  Inv'
<1>1. PICK id : id = req[t].id
  OBVIOUS
<1>2. /\ req[t].pc = "cleanup" /\ db = Free /\ rows' = [rows EXCEPT ![id] = Null]
      /\ Removed(InTmp({id})) /\ req' = [req EXCEPT ![t].pc = "release"]
      /\ UNCHANGED <<active, lock, db, late, revision, shown, grant, granted, phase, crashes>>
      /\ "cleanup" \in Holding /\ "release" \in Steps
  BY <1>1 DEF FinishCleanup, Holding, Steps
<1>3. id \in active /\ id \in Ids
  BY <1>1, <1>2, InvTypes DEF Inv, RequestSound, RestType
<1>4. RequestsType' /\ req'[t].pc = "release" /\ req'[t].id = id
      /\ \A u \in Tasks \ {t} : req'[u] = req[u]
  BY <1>1, <1>2, InvTypes, PcMoves
<1>5. RowsType' /\ rows'[id] = Null /\ \A o \in Ids \ {id} : rows'[o] = rows[o]
  BY <1>2, <1>3, InvTypes DEF RowsType
<1>6. PICK S : S = InTmp({id})
  OBVIOUS
<1>7. S \in SUBSET {id} /\ S \in SUBSET Ids /\ (id \in S => loc[id] = "tmp")
  BY <1>3, <1>6 DEF InTmp
<1>8. /\ FilesType' /\ \A o \in Ids \ S : FileStays(o)
      /\ \A o \in S : file'[o] = <<>> /\ disk'[o] = {<<>>}
  BY <1>2, <1>6, <1>7, InvTypes, RemovedFiles
<1>9. FileSound(id)'
  <2>1. FileSound(id)
    BY <1>3 DEF Inv
  <2> QED BY <1>3, <1>5, <1>7, <1>8, <2>1 DEF FileSound, FileStays
<1>10. RequestSound(t)'
  BY <1>2, <1>3, <1>4, LettingGo
<1>11. TypeOK'
  BY <1>2, <1>4, <1>5, <1>8, InvTypes, TypeParts DEF RestType
<1>12. loc[id] = "tmp" \/ FileStays(id)
  BY <1>3, <1>7, <1>8
<1>13. \A o \in Ids \ {id} : rows'[o] = rows[o] /\ FileStays(o)
  BY <1>5, <1>7, <1>8
<1>14. UNCHANGED <<active, revision, shown, late, phase>> /\ UNCHANGED db
  BY <1>2
<1> QED BY <1>1, <1>2, <1>4, <1>5, <1>9, <1>10, <1>11, <1>12, <1>13, <1>14, HolderKeeps

\* The file becomes the version its path shows; S are the files removed.
LEMMA Publishes ==
  ASSUME Inv, NEW t \in Tasks, NEW s \in {"release", "cleanup"}, NEW S \in SUBSET Ids,
         req[t].pc = "renamed", Publish(t),
         \/ Removed(S) /\ S = ShownAt(req[t].row.path)
         \/ UNCHANGED fileVars /\ S = {},
         db' = Free, req' = [req EXCEPT ![t].pc = s],
         UNCHANGED <<active, lock, late, grant, granted, phase, crashes>>
  PROVE  Inv'
<1>1. PICK id : id = req[t].id
  OBVIOUS
<1>2. PICK p : p = req[t].row.path
  OBVIOUS
<1>3. PICK n : n = req[t].row.size
  OBVIOUS
<1>4. "renamed" \in Holding /\ s \in Steps
  BY DEF Holding, Steps
<1>5. /\ WorkSound(t) /\ id \in Ids /\ rows[id] # Null /\ p \in Paths /\ n \in 0..MaxSize
      /\ rows[id].size = n
  BY <1>1, <1>2, <1>3, WorkFacts
<1>6. /\ req[t].row.honest = TRUE /\ loc[id] = "blobs"
      /\ id \notin cutLate => file[id] = Complete(n) /\ disk[id] = {Complete(n)}
      /\ \A q \in Paths : shown[q] # Null => shown[q].id # id
      /\ revision[p] < MaxRevision /\ db = t
  <2>1. RenamedSound(t) /\ req[t].row \in Row
    BY WorkFacts DEF Inv, RequestSound
  <2> QED BY <1>1, <1>2, <1>3, <2>1 DEF RenamedSound, Row
<1>7. PICK v : v = [id |-> id, size |-> n, honest |-> req[t].row.honest]
  OBVIOUS
<1>8. v \in Published /\ v.id = id /\ v.size = n /\ v.honest
  BY <1>5, <1>6, <1>7 DEF Published
<1>9. /\ revision' = [revision EXCEPT ![p] = @ + 1] /\ shown' = [shown EXCEPT ![p] = v]
      /\ rows' = rows \/ rows' = [rows EXCEPT ![id] = Null]
  BY <1>1, <1>2, <1>3, <1>7 DEF Publish
<1>10. shown'[p] = v /\ \A q \in Paths \ {p} : shown'[q] = shown[q]
  BY <1>5, <1>9, InvTypes DEF RestType
<1>11. RowsType' /\ (\A o \in Ids : rows'[o] \in {rows[o], Null})
       /\ \A o \in Ids \ {id} : rows'[o] = rows[o]
  BY <1>5, <1>9, InvTypes DEF RowsType
<1>12. /\ FilesType' /\ \A o \in Ids \ S : FileStays(o)
       /\ \A o \in S : loc'[o] = "none" /\ file'[o] = <<>> /\ disk'[o] = {<<>>}
  <2>1. CASE Removed(S)
    BY <2>1, InvTypes, RemovedFiles
  <2>2. CASE UNCHANGED fileVars /\ S = {}
    BY <2>2, InvTypes DEF fileVars, FilesType, FileStays
  <2> QED BY <2>1, <2>2
<1>13. \A o \in S : shown[p] # Null /\ o = shown[p].id
  BY <1>2 DEF ShownAt
<1>14. RequestsType' /\ req'[t].pc = s /\ req'[t].id = id /\ \A u \in Tasks \ {t} : req'[u] = req[u]
  BY <1>1, <1>4, InvTypes, PcMoves
<1>15. TypeOK'
  <2>1. revision' \in [Paths -> 0..MaxRevision]
    <3>1. revision \in [Paths -> 0..MaxRevision]
      BY InvTypes DEF RestType
    <3>2. revision[p] + 1 \in 0..MaxRevision
      BY <1>5, <1>6, <3>1, Bounds
    <3> QED BY <1>9, <3>1, <3>2
  <2>2. shown' \in [Paths -> Published \union {Null}]
    BY <1>8, <1>9, InvTypes DEF RestType
  <2> QED BY <1>11, <1>12, <1>14, <2>1, <2>2, InvTypes, TypeParts DEF RestType
<1>16. \A o \in Ids : FileSound(o)'
  <2>1. ASSUME NEW o \in S PROVE FileSound(o)'
    <3>1. rows'[o] # Null => rows'[o].received <= rows'[o].size
      BY <1>11 DEF Inv, FileSound
    <3> QED BY <1>11, <1>12, <3>1, EmptyFileSound
  <2>2. ASSUME NEW o \in Ids \ S PROVE FileSound(o)'
    <3>1. FileSound(o) /\ FileStays(o) /\ (RowStays(o) \/ rows'[o] = Null)
      BY <1>11, <1>12 DEF Inv, RowStays, SameRow
    <3> QED BY <3>1, FileKept
  <2> QED BY <2>1, <2>2
<1>17. ASSUME NEW u \in Tasks \ {t} PROVE RequestSound(u)'
  <2>1. req[u].pc \in Working => req[u].id \in Ids
    BY DEF Working, Inv, RequestSound, WorkSound, BeginSound
  <2>2. req[u].pc \in Working => req[u].id # id /\ req[u].id \notin S
    BY <1>1, <1>4, <1>5, <1>13, NotWorking
  <2>3. req[u].pc \in Working => RowStays(req[u].id) /\ FileStays(req[u].id)
    BY <1>11, <1>12, <2>1, <2>2 DEF RowStays, SameRow
  <2>4. req[u].pc \notin {"begin", "renamed"}
    BY <1>6 DEF Inv, RequestSound, BeginSound, RenamedSound
  <2>5. req[u].pc \in Holding => req[u].id \in active'
    BY DEF Inv, RequestSound
  <2>6. req'[u] = req[u]
    BY <1>14
  <2> QED BY <2>3, <2>4, <2>5, <2>6, RequestKept
<1>18. RequestSound(t)' /\ HoldersDistinct'
  <2>1. id \in active'
    BY <1>1, <1>4 DEF Inv, RequestSound
  <2> QED BY <1>1, <1>4, <1>14, <2>1, LettingGo, HoldersKept
<1>19. NoNewSession
  BY <1>11 DEF NoNewSession
<1>20. LateSound'
  <2>1. ASSUME NEW w \in late
        PROVE  /\ w.at + w.count <= MaxSize
               /\ rows'[w.id] # Null => w.at + w.count <= rows'[w.id].size
               /\ \A q \in Paths : shown'[q] # Null /\ shown'[q].id = w.id
                                     => w.at + w.count <= shown'[q].size
    <3>1. /\ w.id \in Ids /\ w.at + w.count <= MaxSize
          /\ rows[w.id] # Null => w.at + w.count <= rows[w.id].size
          /\ \A q \in Paths : shown[q] # Null /\ shown[q].id = w.id
                                => w.at + w.count <= shown[q].size
      BY DEF Inv, LateSound, TypeOK, Operations
    <3> QED BY <1>5, <1>8, <1>10, <1>11, <3>1
  <2> QED BY <2>1 DEF LateSound
<1>21. PublishedVerified'
  <2>1. ASSUME NEW q \in Paths, shown'[q] # Null
        PROVE  /\ shown'[q].honest /\ loc'[shown'[q].id] = "blobs"
               /\ shown'[q].id \notin cutLate' =>
                    /\ file'[shown'[q].id] = Complete(shown'[q].size)
                    /\ disk'[shown'[q].id] = {Complete(shown'[q].size)}
    <3>1. CASE q = p
      <4>1. FileStays(id)
        BY <1>5, <1>6, <1>12, <1>13
      <4> QED BY <1>6, <1>8, <1>10, <3>1, <4>1 DEF FileStays
    <3>2. CASE q # p
      <4>1. shown'[q] = shown[q] /\ shown[q] # Null /\ shown[q].id \in Ids
        BY <1>10, <2>1, <3>2, InvTypes DEF RestType, Published
      <4>2. shown[q].id \notin S
        BY <1>5, <1>13, <3>2, <4>1 DEF Inv, OneFilePerPath
      <4>3. FileStays(shown[q].id)
        BY <1>12, <4>1, <4>2
      <4> QED BY <4>1, <4>3 DEF Inv, PublishedVerified, FileStays
    <3> QED BY <3>1, <3>2
  <2> QED BY <2>1 DEF PublishedVerified, Complete
<1>22. OneFilePerPath'
  BY <1>6, <1>8, <1>10 DEF Inv, OneFilePerPath
<1>23. DownIdle' /\ SessionsSound'
  BY <1>19, Serving, SessionsKept DEF DownIdle
<1> QED BY <1>15, <1>16, <1>17, <1>18, <1>20, <1>21, <1>22, <1>23 DEF Inv, SessionsSound

LEMMA StepFinishTx ==
  ASSUME Inv, NEW t \in Tasks, FinishTx(t) \/ FinishUncertain(t)
  PROVE  Inv'
<1>1. /\ req[t].pc = "renamed" /\ Publish(t) /\ db' = Free
      /\ UNCHANGED <<active, lock, late, grant, granted, phase, crashes>>
  BY DEF FinishTx, FinishUncertain
<1>2. PICK s \in {"release", "cleanup"} : req' = [req EXCEPT ![t].pc = s]
  BY DEF FinishTx, FinishUncertain
<1>3. CASE FinishTx(t)
  <2>1. PICK S : S = ShownAt(req[t].row.path)
    OBVIOUS
  <2>2. S \in SUBSET Ids /\ Removed(S)
    BY <1>3, <2>1 DEF ShownAt, FinishTx
  <2> QED BY <1>1, <1>2, <2>1, <2>2, Publishes
<1>4. CASE FinishUncertain(t)
  <2>1. UNCHANGED fileVars /\ {} \in SUBSET Ids
    BY <1>4 DEF FinishUncertain
  <2> QED BY <1>1, <1>2, <2>1, Publishes
<1> QED BY <1>3, <1>4

-----------------------------------------------------------------------------
(* Begin, and the purge. *)

\* A step that works on no session and changes no request but t.
LEMMA LightStep ==
  ASSUME Inv, TypeOK', NEW t \in Tasks, NEW r \in Request, req[t].pc \notin Holding \union {"begin"},
         req' = [req EXCEPT ![t] = r], r.pc \in {"idle", "purging", "purged"}, r.id = Null,
         r.pc = "purged" => r.row # Null,
         phase = "serving",
         UNCHANGED <<rows, fileVars, active, db, late, revision, shown, phase>>
  PROVE  Inv'
<1>1. req'[t] = r /\ \A u \in Tasks \ {t} : req'[u] = req[u]
  BY InvTypes, Becomes
<1>2. RequestSound(t)' /\ req'[t].pc \notin Holding
  BY <1>1 DEF RequestSound, Reserved, Chunking, Holding
<1>3. \A u \in Tasks \ {t} : req[u].pc \in Holding => req[u].id \in active'
  BY DEF Inv, RequestSound
<1>4. \A o \in Ids : RowStays(o) /\ FileStays(o)
  BY DEF RowStays, SameRow, FileStays, fileVars
<1>5. NoNewSession /\ \A p \in Paths : shown'[p] # Null => shown'[p] = shown[p] /\ FileStays(shown[p].id)
  BY DEF NoNewSession, FileStays, fileVars
<1>6. PICK S : S = {}
  OBVIOUS
<1>7. phase' = "serving" /\ late' \subseteq late /\ UNCHANGED <<db, revision, shown>>
      /\ \A o \in active' : o \in active
  OBVIOUS
<1>8. /\ S \in SUBSET Ids
      /\ \A u \in Tasks \ {t} : req[u].pc \in Working => req[u].id \notin S
      /\ \A o \in S : FileSound(o)'
  BY <1>6
<1> QED BY <1>1, <1>2, <1>3, <1>4, <1>5, <1>7, <1>8, StepKeeps

LEMMA StepWebBegin ==
  ASSUME Inv, NEW t \in Tasks, NEW new \in Row \union {Null},
         WebBegin(t, new) \/ PurgeStart(t)
  PROVE  Inv'
<1>1. PICK r : /\ req' = [req EXCEPT ![t] = r]
               /\ \/ r = [Idle EXCEPT !.pc = "purging", !.row = new]
                  \/ r = [Idle EXCEPT !.pc = "purging"]
  <2>1. CASE WebBegin(t, new)
    BY <2>1 DEF WebBegin
  <2>2. CASE PurgeStart(t)
    BY <2>2 DEF PurgeStart
  <2> QED BY <2>1, <2>2
<1>3. r \in Request /\ r.pc = "purging" /\ r.id = Null
  <2>1. "purging" \in Steps
    BY DEF Steps
  <2> QED BY <1>1, <2>1, IdleTyped DEF Request
<1>4. /\ phase = "serving" /\ req[t].pc = "idle" /\ lock' = t
      /\ UNCHANGED <<rows, file, loc, disk, cutLate, active, db, late, revision, shown, grant,
                     granted, phase, crashes>>
  BY IdleTyped DEF WebBegin, PurgeStart, fileVars
<1>5. TypeOK'
  <2>1. RequestsType'
    BY <1>1, <1>3, InvTypes, Becomes
  <2> QED BY <1>4, <2>1, InvTypes, TypeParts DEF RowsType, FilesType, RestType
<1>6. req[t].pc \notin Holding \union {"begin"}
  BY <1>4 DEF Holding, Reserved, Chunking
<1>7. UNCHANGED fileVars
  BY <1>4 DEF fileVars
<1> QED BY <1>1, <1>3, <1>4, <1>5, <1>6, <1>7, LightStep

LEMMA StepWebBeginRefused ==
  ASSUME Inv, NEW t \in Tasks, WebBeginRefused(t)
  PROVE  Inv'
<1>1. PICK r : r = Idle
  OBVIOUS
<1>2. r \in Request /\ r.pc = "idle" /\ r.id = Null
  BY <1>1, IdleTyped
<1>3. /\ req[t].pc = "purged" /\ req' = [req EXCEPT ![t] = r]
      /\ UNCHANGED <<rows, file, loc, disk, cutLate, active, lock, db, late, revision, shown,
                     grant, granted, phase, crashes>>
  BY <1>1 DEF WebBeginRefused, fileVars
<1>4. TypeOK'
  <2>1. RequestsType'
    BY <1>2, <1>3, InvTypes, Becomes
  <2> QED BY <1>3, <2>1, InvTypes, TypeParts DEF RowsType, FilesType, RestType
<1>5. req[t].pc \notin Holding \union {"begin"}
  BY <1>3 DEF Holding, Reserved, Chunking
<1>6. UNCHANGED fileVars /\ phase = "serving"
  BY <1>3, Serving DEF fileVars
<1> QED BY <1>2, <1>3, <1>4, <1>5, <1>6, LightStep

LEMMA StepPurgeRun ==
  ASSUME Inv, NEW t \in Tasks, PurgeRun(t)
  PROVE  Inv'
<1>1. /\ req[t].pc = "purging" /\ db = Free /\ Purged(Purgeable) /\ lock' = Free
      /\ req' = [req EXCEPT ![t] = IF @.row = Null THEN Idle ELSE [@ EXCEPT !.pc = "purged"]]
      /\ UNCHANGED <<active, db, late, revision, shown, grant, granted, phase, crashes>>
  BY DEF PurgeRun
<1>2. PICK r : r = IF req[t].row = Null THEN Idle ELSE [req[t] EXCEPT !.pc = "purged"]
  OBVIOUS
<1>3. /\ r \in Request /\ r.pc \in {"idle", "purged"} /\ r.id = Null
      /\ r.pc = "purged" => r.row # Null
  <2>1. req[t] \in Request /\ req[t].id = Null
    BY <1>1, InvTypes DEF RequestsType, Inv, RequestSound
  <2>2. CASE req[t].row = Null
    BY <1>2, <2>2, IdleTyped
  <2>3. CASE req[t].row # Null
    <3>1. "purged" \in Steps /\ r = [req[t] EXCEPT !.pc = "purged"]
      BY <1>2, <2>3 DEF Steps
    <3> QED BY <2>1, <2>3, <3>1 DEF Request
  <2> QED BY <2>2, <2>3
<1>4. RequestsType' /\ req'[t] = r /\ \A u \in Tasks \ {t} : req'[u] = req[u]
  <2>1. req' = [req EXCEPT ![t] = r]
    BY <1>1, <1>2 DEF RequestsType
  <2> QED BY <1>3, <2>1, InvTypes, Becomes
<1>5. RequestSound(t)' /\ req'[t].pc \notin Holding
  BY <1>3, <1>4 DEF RequestSound, Reserved, Chunking, Holding
<1>6. PICK S : S = Purgeable
  OBVIOUS
<1>7. S \in SUBSET Ids /\ \A o \in S : o \notin active /\ rows[o] # Null
  BY <1>6 DEF Purgeable, AllStale
<1>8. PICK R : R = InTmp(S)
  OBVIOUS
<1>9. R \in SUBSET S /\ R \in SUBSET Ids /\ \A o \in R : loc[o] = "tmp"
  BY <1>7, <1>8 DEF InTmp
<1>10. /\ FilesType' /\ \A o \in Ids \ R : FileStays(o)
       /\ \A o \in R : file'[o] = <<>> /\ disk'[o] = {<<>>}
  BY <1>1, <1>6, <1>8, <1>9, InvTypes, RemovedFiles DEF Purged
<1>11. rows' = [o \in Ids |-> IF o \in S THEN Null ELSE rows[o]]
  BY <1>1, <1>6 DEF Purged
<1>12. RowsType' /\ (\A o \in S : rows'[o] = Null) /\ \A o \in Ids \ S : rows'[o] = rows[o]
  BY <1>7, <1>11, InvTypes DEF RowsType
<1>13. TypeOK'
  BY <1>1, <1>4, <1>10, <1>12, InvTypes, TypeParts DEF RestType
<1>14. \A u \in Tasks \ {t} : req[u].pc \in Holding => req[u].id \in active'
  BY <1>1 DEF Inv, RequestSound
<1>15. \A u \in Tasks \ {t} : req[u].pc \in Working => req[u].id \notin S
  BY <1>7, NotWorking
<1>16. \A o \in Ids \ S : RowStays(o) /\ FileStays(o)
  BY <1>9, <1>10, <1>12 DEF RowStays, SameRow
<1>17. NoNewSession
  BY <1>7, <1>12 DEF NoNewSession
<1>18. \A o \in S : FileSound(o)'
  BY <1>7, <1>10, <1>12 DEF Inv, FileSound, FileStays
<1>19. \A p \in Paths : shown'[p] # Null => shown'[p] = shown[p] /\ FileStays(shown[p].id)
  <2>1. \A p \in Paths : shown[p] # Null => shown[p].id \in Ids /\ loc[shown[p].id] = "blobs"
    BY InvTypes DEF Inv, PublishedVerified, RestType, Published
  <2> QED BY <1>1, <1>9, <1>10, <2>1
<1>20. phase' = "serving" /\ late' \subseteq late /\ UNCHANGED <<db, revision, shown>>
      /\ \A o \in active' : o \in active
  BY <1>1, Serving
<1> QED BY <1>4, <1>5, <1>7, <1>13, <1>14, <1>15, <1>16, <1>17, <1>18, <1>19, <1>20, StepKeeps

LEMMA NewRows ==
  ASSUME Inv, NEW d \in Devices, NEW p \in Paths, NEW n \in 0..MaxSize, NEW h \in BOOLEAN,
         NEW g \in 0..MaxGrants
  PROVE  /\ NewRow(d, p, n, h, g) \in Row /\ NewRow(d, p, n, h, g).received = 0
         /\ NewRow(d, p, n, h, g).device = d
<1>1. PICK b : b = revision[p]
  OBVIOUS
<1>2. b \in Nat /\ 0 \in 0..MaxSize /\ 0 \in 0..SessionAge + 1
  BY <1>1, InvTypes, Bounds DEF RestType
<1>3. NewRow(d, p, n, h, g) = [device |-> d, path |-> p, base |-> b, size |-> n, honest |-> h,
                               received |-> 0, age |-> 0, grant |-> g]
  BY <1>1 DEF NewRow
<1> QED BY <1>2, <1>3 DEF Row

\* A begin creates its file; B are the rows that make room for it.
LEMMA Creates ==
  ASSUME Inv, NEW t \in Tasks, NEW new \in Row, new.received = 0, CreateFile(t, new),
         NEW B \in SUBSET Ids, rows' = [o \in Ids |-> IF o \in B THEN Null ELSE rows[o]],
         \A o \in B : rows[o] # Null /\ loc[o] # "tmp",
         Cardinality(OfDevice(new.device) \ B) < MaxSessions,
         phase = "serving", db = Free, db' = t, req[t].pc \notin Holding \union {"begin"},
         UNCHANGED <<active, lock, late, revision, shown, grant, granted, phase, crashes>>
  PROVE  Inv'
<1>1. PICK id \in Ids :
        /\ loc[id] = "none" /\ rows[id] = Null /\ id \notin active /\ \A w \in late : w.id # id
        /\ file' = [file EXCEPT ![id] = <<>>] /\ loc' = [loc EXCEPT ![id] = "tmp"]
        /\ disk' = [disk EXCEPT ![id] = {<<>>}] /\ cutLate' = cutLate \ {id}
        /\ req' = [req EXCEPT ![t] = [Idle EXCEPT !.pc = "begin", !.id = id, !.row = new]]
  BY DEF CreateFile
<1>2. PICK r : r = [Idle EXCEPT !.pc = "begin", !.id = id, !.row = new]
  OBVIOUS
<1>3. r \in Request /\ r.pc = "begin" /\ r.id = id /\ r.row = new
  <2>1. "begin" \in Steps
    BY DEF Steps
  <2> QED BY <1>2, <2>1, IdleTyped DEF Request
<1>4. RequestsType' /\ req'[t] = r /\ \A u \in Tasks \ {t} : req'[u] = req[u]
  BY <1>1, <1>2, <1>3, InvTypes, Becomes
<1>5. FilesType' /\ file'[id] = <<>> /\ loc'[id] = "tmp" /\ disk'[id] = {<<>>}
      /\ \A o \in Ids \ {id} : FileStays(o)
  <2>1. PICK e : e = <<>>
    OBVIOUS
  <2>2. e \in Units
    BY <2>1, EmptyUnits
  <2>3. /\ file' = [file EXCEPT ![id] = e] /\ loc' = [loc EXCEPT ![id] = "tmp"]
        /\ disk' = [disk EXCEPT ![id] = {e}] /\ cutLate' = cutLate \ {id}
    BY <1>1, <2>1
  <2> QED BY <2>1, <2>2, <2>3, InvTypes DEF FilesType, FileStays
<1>6. RowsType' /\ (\A o \in B : rows'[o] = Null) /\ (\A o \in Ids \ B : rows'[o] = rows[o])
      /\ rows'[id] = Null
  BY <1>1, InvTypes DEF RowsType
<1>7. TypeOK'
  <2>1. db' \in Tasks \union {Free}
    OBVIOUS
  <2> QED BY <1>4, <1>5, <1>6, <2>1, InvTypes, TypeParts DEF RestType
<1>8. RequestSound(t)'
  <2>1. PICK d : d = new.device
    OBVIOUS
  <2>2. OfDevice(d)' = OfDevice(d) \ B
    BY <1>6 DEF OfDevice
  <2>3. Cardinality(OfDevice(d)') < MaxSessions
    BY <2>1, <2>2
  <2>4. new # Null
    BY RowAssumption
  <2>5. Cardinality({o \in Ids : rows'[o] # Null /\ rows'[o].device = req'[t].row.device})
          < MaxSessions
    BY <1>3, <1>4, <2>1, <2>3 DEF OfDevice
  <2>6. BeginSound(t)'
    BY <1>1, <1>3, <1>4, <1>5, <1>6, <2>4, <2>5 DEF BeginSound, OfDevice
  <2> QED BY <1>3, <1>4, <2>6 DEF RequestSound, Holding, Reserved, Chunking
<1>9. PICK S : S = B \union {id}
  OBVIOUS
<1>10. S \in SUBSET Ids
  BY <1>9
<1>11. \A u \in Tasks \ {t} : req[u].pc \in Working => req[u].id \notin S
  <2>1. \A u \in Tasks \ {t} : req[u].pc \in Working => req[u].id # id
    BY <1>1, NotWorking
  <2>2. ASSUME NEW o \in B, NEW u \in Tasks \ {t}, req[u].pc \in Working PROVE req[u].id # o
    <3>1. o \in Ids /\ loc[o] # "tmp" /\ db \in {Free, t}
      OBVIOUS
    <3> QED BY <2>2, <3>1, NotWorking
  <2> QED BY <1>9, <2>1, <2>2
<1>12. \A o \in Ids \ S : RowStays(o) /\ FileStays(o)
  BY <1>5, <1>6, <1>9 DEF RowStays, SameRow
<1>13. NoNewSession
  BY <1>6 DEF NoNewSession
<1>14. \A o \in S : FileSound(o)'
  <2>1. FileSound(id)'
    BY <1>5, <1>6 DEF FileSound
  <2>2. \A o \in B \ {id} : FileSound(o)'
    BY <1>5, <1>6 DEF Inv, FileSound, FileStays
  <2> QED BY <1>9, <2>1, <2>2
<1>15. \A p \in Paths : shown'[p] # Null => shown'[p] = shown[p] /\ FileStays(shown[p].id)
  <2>1. \A p \in Paths : shown[p] # Null => shown[p].id \in Ids /\ loc[shown[p].id] = "blobs"
    BY InvTypes DEF Inv, PublishedVerified, RestType, Published
  <2> QED BY <1>1, <1>5, <2>1
<1>16. /\ \A u \in Tasks \ {t} : req[u].pc \in Holding => req[u].id \in active'
       /\ \A o \in active' : o \in active
  BY DEF Inv, RequestSound
<1>17. phase' = "serving" /\ late' \subseteq late /\ db \in {Free, t}
  OBVIOUS
<1>18. req'[t].pc \notin Holding
  BY <1>3, <1>4 DEF Holding, Reserved, Chunking
<1> QED BY <1>4, <1>7, <1>8, <1>10, <1>11, <1>12, <1>13, <1>14, <1>15, <1>16, <1>17, <1>18, StepKeeps

LEMMA StepBeginFile ==
  ASSUME Inv, NEW t \in Tasks, NEW new \in Row, new.received = 0, BeginFile(t, new)
  PROVE  Inv'
<1>1. PICK B \in SUBSET {id \in Existing(new) : loc[id] # "tmp"} :
        /\ Cardinality(OfDevice(new.device) \ B) < MaxSessions
        /\ rows' = [id \in Ids |-> IF id \in B THEN Null ELSE rows[id]]
  BY DEF BeginFile
<1>2. B \in SUBSET Ids /\ \A o \in B : rows[o] # Null /\ loc[o] # "tmp"
  BY DEF Existing
<1>3. /\ phase = "serving" /\ db = Free /\ db' = t /\ CreateFile(t, new)
      /\ UNCHANGED <<active, lock, late, revision, shown, grant, granted, phase, crashes>>
      /\ req[t].pc \notin Holding \union {"begin"}
  BY IdleTyped DEF BeginFile, Holding, Reserved, Chunking
<1> QED BY <1>1, <1>2, <1>3, Creates

LEMMA StepWebBeginFile ==
  ASSUME Inv, NEW t \in Tasks, WebBeginFile(t)
  PROVE  Inv'
<1>1. /\ req[t].pc = "purged" /\ db = Free /\ db' = t /\ "purged" \notin Holding \union {"begin"}
      /\ Cardinality(OfDevice(WebDevice)) < MaxSessions
      /\ UNCHANGED <<rows, active, lock, late, revision, shown, grant, granted, phase, crashes>>
  BY DEF WebBeginFile, Holding, Reserved, Chunking
<1>2. PICK row : row = req[t].row
  OBVIOUS
<1>3. PICK new : new = NewRow(WebDevice, row.path, row.size, row.honest, grant)
  OBVIOUS
<1>4. CreateFile(t, new)
  BY <1>2, <1>3 DEF WebBeginFile
<1>5. new \in Row /\ new.received = 0 /\ new.device = WebDevice
  <2>1. row # Null
    BY <1>1, <1>2 DEF Inv, RequestSound
  <2>2. row \in Row
    BY <1>2, <2>1, InvTypes DEF RequestsType, Request
  <2>3. /\ row.path \in Paths /\ row.size \in 0..MaxSize /\ row.honest \in BOOLEAN
        /\ WebDevice \in Devices /\ grant \in 0..MaxGrants
    BY <2>2, InvTypes, NamesAssumption DEF Row, RestType
  <2>4. PICK g : g = grant
    OBVIOUS
  <2> QED BY <1>3, <2>3, <2>4, NewRows
<1>6. PICK B : B = {}
  OBVIOUS
<1>7. rows' = [o \in Ids |-> IF o \in B THEN Null ELSE rows[o]]
  BY <1>1, <1>6, InvTypes DEF RowsType
<1>8. /\ B \in SUBSET Ids /\ \A o \in B : rows[o] # Null /\ loc[o] # "tmp"
      /\ OfDevice(new.device) \ B = OfDevice(WebDevice)
  BY <1>5, <1>6
<1>9. phase = "serving" /\ req[t].pc \notin Holding \union {"begin"}
      /\ Cardinality(OfDevice(new.device) \ B) < MaxSessions
  BY <1>1, <1>8, Serving
<1> QED BY <1>1, <1>4, <1>5, <1>7, <1>8, <1>9, Creates

\* The row of a begun session is inserted.
LEMMA RowInserted ==
  ASSUME Inv, NEW t \in Tasks, req[t].pc = "begin", db' = Free,
         rows' = [rows EXCEPT ![req[t].id] = req[t].row], req' = [req EXCEPT ![t] = Idle],
         UNCHANGED <<fileVars, active, lock, late, revision, shown, grant, granted, phase, crashes>>
  PROVE  Inv'
<1>1. PICK id : id = req[t].id
  OBVIOUS
<1>2. PICK new : new = req[t].row
  OBVIOUS
<1>3. PICK d : d = new.device
  OBVIOUS
<1>4. /\ db = t /\ id \in Ids /\ id \notin active /\ new # Null /\ new.received = 0
      /\ rows[id] = Null /\ loc[id] = "tmp" /\ disk[id] = {<<>>} /\ \A w \in late : w.id # id
      /\ Cardinality(OfDevice(d)) < MaxSessions
  BY <1>1, <1>2, <1>3 DEF Inv, RequestSound, BeginSound
<1>5. new \in Row /\ d \in Devices
  BY <1>2, <1>3, <1>4, InvTypes DEF RequestsType, Request, Row
<1>6. RowsType' /\ rows'[id] = new /\ \A o \in Ids \ {id} : rows'[o] = rows[o]
  BY <1>1, <1>2, <1>4, <1>5, InvTypes DEF RowsType
<1>7. RequestsType' /\ req'[t] = Idle /\ \A u \in Tasks \ {t} : req'[u] = req[u]
  <2>1. PICK r : r = Idle
    OBVIOUS
  <2> QED BY <2>1, InvTypes, IdleTyped, Becomes
<1>8. FilesType' /\ \A o \in Ids : FileStays(o)
  BY InvTypes DEF FilesType, FileStays, fileVars
<1>9. TypeOK'
  BY <1>6, <1>7, <1>8, InvTypes, TypeParts DEF RestType
<1>10. \A o \in Ids : FileSound(o)'
  <2>1. FileSound(id)'
    <3>1. file[id] = <<>>
      BY <1>4 DEF Inv, FileSound
    <3>2. file'[id] = <<>> /\ disk'[id] = {<<>>}
      BY <1>4, <1>8, <3>1 DEF FileStays
    <3> QED BY <1>4, <1>6, <3>2, EmptyFileSound
  <2>2. ASSUME NEW o \in Ids \ {id} PROVE FileSound(o)'
    BY <1>6, <1>8, FileKept DEF Inv, RowStays, SameRow
  <2> QED BY <2>1, <2>2
<1>11. ASSUME NEW u \in Tasks \ {t} PROVE RequestSound(u)'
  <2>1. req[u].pc \in Working => req[u].id \in Ids
    BY DEF Working, Inv, RequestSound, WorkSound, BeginSound
  <2>2. req[u].pc \in Working => req[u].id # id
    BY <1>4, NotWorking
  <2>3. req[u].pc \in Working => RowStays(req[u].id) /\ FileStays(req[u].id)
    BY <1>6, <1>8, <2>1, <2>2 DEF RowStays, SameRow
  <2>4. req[u].pc \notin {"begin", "renamed"}
    BY <1>4 DEF Inv, RequestSound, BeginSound, RenamedSound
  <2>5. req[u].pc \in Holding => req[u].id \in active'
    BY DEF Inv, RequestSound
  <2>6. req'[u] = req[u]
    BY <1>7
  <2> QED BY <2>3, <2>4, <2>5, <2>6, RequestKept
<1>12. RequestSound(t)' /\ HoldersDistinct'
  <2>1. req'[t].pc \notin Holding
    BY <1>7, IdleTyped DEF Holding, Reserved, Chunking
  <2> QED BY <1>7, <2>1, IdleSound, HoldersKept
<1>13. LateSound'
  <2>1. \A w \in late : w.id \in Ids \ {id}
    BY <1>4, InvTypes DEF RestType, Operations
  <2> QED BY <1>6, <2>1 DEF Inv, LateSound
<1>14. PublishedVerified' /\ OneFilePerPath'
  <2>1. \A p \in Paths : shown'[p] # Null => shown'[p] = shown[p] /\ FileStays(shown[p].id)
    BY <1>8, InvTypes DEF RestType, Published
  <2> QED BY <2>1, PublishedKept
<1>15. SessionsSound'
  <2>1. ASSUME NEW e \in Devices
        PROVE  IsFiniteSet(OfDevice(e)') /\ Cardinality(OfDevice(e)') <= MaxSessions
    <3>1. IsFiniteSet(OfDevice(e)) /\ Cardinality(OfDevice(e)) <= MaxSessions
      BY DEF Inv
    <3>2. CASE e = d
      <4>1. OfDevice(e)' = OfDevice(e) \union {id}
        BY <1>3, <1>4, <1>5, <1>6, <3>2, RowAssumption DEF OfDevice
      <4>2. /\ IsFiniteSet(OfDevice(e) \union {id})
            /\ Cardinality(OfDevice(e) \union {id}) <= Cardinality(OfDevice(e)) + 1
        <5>1. PICK T : T = OfDevice(e)
          OBVIOUS
        <5>2. IsFiniteSet(T) /\ Cardinality(T) \in Nat
          BY <3>1, <5>1, FS_CardinalityType
        <5>3. /\ IsFiniteSet(T \union {id})
              /\ Cardinality(T \union {id}) = IF id \in T THEN Cardinality(T) ELSE Cardinality(T) + 1
          BY <5>2, FS_AddElement
        <5> QED BY <5>1, <5>2, <5>3
      <4>3. /\ Cardinality(OfDevice(e)) \in Nat /\ Cardinality(OfDevice(e) \union {id}) \in Nat
            /\ Cardinality(OfDevice(e)) < MaxSessions
        BY <1>4, <3>1, <3>2, <4>2, FS_CardinalityType
      <4>4. Cardinality(OfDevice(e) \union {id}) <= MaxSessions
        BY <4>2, <4>3, Bounds
      <4> QED BY <4>1, <4>2, <4>4
    <3>3. CASE e # d
      <4>1. OfDevice(e)' = OfDevice(e)
        BY <1>3, <1>4, <1>6, <3>3 DEF OfDevice
      <4> QED BY <3>1, <4>1
    <3> QED BY <3>2, <3>3
  <2> QED BY <2>1 DEF SessionsSound, OfDevice
<1>16. DownIdle'
  BY Serving DEF DownIdle
<1> QED BY <1>9, <1>10, <1>11, <1>12, <1>13, <1>14, <1>15, <1>16 DEF Inv, SessionsSound

LEMMA StepBeginEnds ==
  ASSUME Inv, NEW t \in Tasks, BeginRow(t) \/ BeginFailed(t)
  PROVE  Inv'
<1>1. /\ req[t].pc = "begin" /\ db' = Free /\ req' = [req EXCEPT ![t] = Idle]
      /\ UNCHANGED <<active, lock, late, revision, shown, grant, granted, phase, crashes>>
  BY DEF BeginRow, BeginFailed
<1>2. PICK id : id = req[t].id
  OBVIOUS
<1>3. CASE rows' = [rows EXCEPT ![req[t].id] = req[t].row] /\ UNCHANGED fileVars
  BY <1>1, <1>3, RowInserted
<1>4. CASE UNCHANGED rows /\ (Removed({id}) \/ UNCHANGED fileVars)
  <2>1. /\ db = t /\ id \in Ids /\ id \notin active /\ rows[id] = Null /\ loc[id] = "tmp"
    BY <1>1, <1>2 DEF Inv, RequestSound, BeginSound
  <2>2. RequestsType' /\ req'[t] = Idle /\ \A u \in Tasks \ {t} : req'[u] = req[u]
    <3>1. PICK r : r = Idle
      OBVIOUS
    <3> QED BY <1>1, <3>1, InvTypes, IdleTyped, Becomes
  <2>3. PICK S : S = {id}
    OBVIOUS
  <2>4. FilesType' /\ \A o \in Ids \ S : FileStays(o)
    <3>1. CASE Removed(S)
      BY <2>1, <2>3, <3>1, InvTypes, RemovedFiles
    <3>2. CASE UNCHANGED fileVars
      BY <3>2, InvTypes DEF FilesType, FileStays, fileVars
    <3> QED BY <1>4, <2>3, <3>1, <3>2
  <2>5. FileSound(id)'
    <3>1. CASE Removed(S)
      <4>1. file'[id] = <<>> /\ disk'[id] = {<<>>}
        BY <2>1, <2>3, <3>1, InvTypes, RemovedFiles
      <4> QED BY <1>4, <2>1, <4>1 DEF FileSound
    <3>2. CASE UNCHANGED fileVars
      BY <1>4, <2>1, <3>2 DEF Inv, FileSound, fileVars
    <3> QED BY <1>4, <2>3, <3>1, <3>2
  <2>6. TypeOK'
    BY <1>1, <1>4, <2>2, <2>4, InvTypes, TypeParts DEF RowsType, RestType
  <2>7. RequestSound(t)' /\ req'[t].pc \notin Holding
    BY <2>2, IdleTyped, IdleSound DEF Holding, Reserved, Chunking
  <2>8. \A u \in Tasks \ {t} : req[u].pc \in Working => req[u].id \notin S
    BY <2>1, <2>3, NotWorking
  <2>9. \A u \in Tasks \ {t} : req[u].pc \in Holding => req[u].id \in active'
    BY <1>1 DEF Inv, RequestSound
  <2>10. NoNewSession /\ \A o \in Ids \ S : RowStays(o) /\ FileStays(o)
    BY <1>4, <2>4 DEF NoNewSession, RowStays, SameRow
  <2>11. \A p \in Paths : shown'[p] # Null => shown'[p] = shown[p] /\ FileStays(shown[p].id)
    <3>1. \A p \in Paths : shown[p] # Null => shown[p].id \in Ids /\ loc[shown[p].id] = "blobs"
      BY InvTypes DEF Inv, PublishedVerified, RestType, Published
    <3> QED BY <1>1, <2>1, <2>3, <2>4, <3>1
  <2>12. /\ phase' = "serving" /\ late' \subseteq late /\ db \in {Free, t} /\ S \in SUBSET Ids
         /\ (\A o \in active' : o \in active) /\ \A o \in S : FileSound(o)'
    BY <1>1, <2>1, <2>3, <2>5, Serving
  <2> QED BY <2>2, <2>6, <2>7, <2>8, <2>9, <2>10, <2>11, <2>12, StepKeeps
<1> QED BY <1>2, <1>3, <1>4 DEF BeginRow, BeginFailed

-----------------------------------------------------------------------------
(* Other devices, grants, time, and restarts. *)

\* A step of no request; S are the sessions it touches.
LEMMA EnvKeeps ==
  ASSUME Inv, TypeOK', NEW S \in SUBSET Ids, UNCHANGED <<req, active, late>>,
         phase' = "serving" \/ UNCHANGED phase,
         \A u \in Tasks : req[u].pc \in Working => req[u].id \notin S,
         \A id \in Ids \ S : RowStays(id) /\ FileStays(id),
         db = Free \/ UNCHANGED <<db, revision, shown>>,
         NoNewSession,
         \A id \in S : FileSound(id)',
         \A p \in Paths : shown'[p] # Null => shown'[p] = shown[p] /\ FileStays(shown[p].id)
  PROVE  Inv'
<1>1. PICK t : t = Free
  OBVIOUS
<1>2. t \notin Tasks /\ Tasks \ {t} = Tasks
  BY <1>1, NamesAssumption
<1>3. \A u \in Tasks \ {t} : req'[u] = req[u] /\ (req[u].pc \in Holding => req[u].id \in active')
  BY DEF Inv, RequestSound
<1>4. \A u \in Tasks \ {t} : req[u].pc \in Working => req[u].id \notin S
  BY <1>2
<1>5. /\ \A id \in active' : id \in active
      /\ late' \subseteq late
      /\ db \in {Free, t} \/ UNCHANGED <<db, revision, shown>>
      /\ phase' = "serving" \/ UNCHANGED <<phase, active, late, req>>
  OBVIOUS
<1> QED BY <1>2, <1>3, <1>4, <1>5, StepKeeps

\* Grants, and the touch of a row, concern no session's content.
LEMMA StepTouch ==
  ASSUME Inv, RowsType', \A id \in Ids : RowStays(id),
         UNCHANGED <<fileVars, active, lock, db, req, late, revision, shown, phase, crashes>>,
         grant' \in 0..MaxGrants, granted' \in BOOLEAN
  PROVE  Inv'
<1>1. FilesType' /\ \A id \in Ids : FileStays(id)
  BY InvTypes DEF FilesType, FileStays, fileVars
<1>2. TypeOK'
  BY <1>1, InvTypes, TypeParts DEF RequestsType, RestType
<1>3. NoNewSession
  BY DEF NoNewSession, RowStays, SameRow
<1>4. \A p \in Paths : shown'[p] # Null => shown'[p] = shown[p] /\ FileStays(shown[p].id)
  BY <1>1, InvTypes DEF RestType, Published
<1>5. PICK S : S = {}
  OBVIOUS
<1>6. /\ S \in SUBSET Ids /\ \A u \in Tasks : req[u].pc \in Working => req[u].id \notin S
      /\ \A id \in S : FileSound(id)'
  BY <1>5
<1> QED BY <1>1, <1>2, <1>3, <1>4, <1>6, EnvKeeps

LEMMA StepBeginResume ==
  ASSUME Inv, NEW t \in Tasks, NEW new, BeginResume(t, new)
  PROVE  Inv'
<1>1. PICK id \in Ids : rows[id] # Null /\ rows' = [rows EXCEPT ![id].age = 0]
  BY DEF BeginResume, Existing
<1>2. PICK r : r = [rows[id] EXCEPT !.age = 0]
  OBVIOUS
<1>3. r \in Row /\ SameRow(r, rows[id]) /\ r # Null
  <2>1. rows[id] \in Row /\ 0 \in 0..SessionAge + 1
    BY <1>1, InvTypes, RowTypes, Bounds
  <2>2. r \in Row /\ SameRow(r, rows[id])
    BY <1>2, <2>1 DEF Row, SameRow
  <2> QED BY <2>2, RowAssumption
<1>4. rows' = [rows EXCEPT ![id] = r]
  BY <1>1, <1>2
<1>5. RowsType' /\ \A o \in Ids : RowStays(o)
  BY <1>1, <1>3, <1>4, InvTypes DEF RowsType, RowStays, SameRow
<1>6. UNCHANGED <<fileVars, active, lock, db, req, late, revision, shown, grant, granted,
                   phase, crashes>>
  BY DEF BeginResume
<1>7. grant' \in 0..MaxGrants /\ granted' \in BOOLEAN
  BY <1>6, InvTypes DEF RestType
<1> QED BY <1>5, <1>6, <1>7, StepTouch

LEMMA StepGrants ==
  ASSUME Inv, NewGrant \/ EndGrant
  PROVE  Inv'
<1>1. UNCHANGED <<rows, fileVars, active, lock, db, req, late, revision, shown, phase, crashes>>
  BY DEF NewGrant, EndGrant
<1>2. grant' \in 0..MaxGrants /\ granted' \in BOOLEAN
  <2>1. grant \in 0..MaxGrants
    BY InvTypes DEF RestType
  <2>2. CASE NewGrant
    BY <2>1, <2>2, Bounds DEF NewGrant
  <2>3. CASE EndGrant
    BY <2>1, <2>3 DEF EndGrant
  <2> QED BY <2>2, <2>3
<1>3. RowsType' /\ \A o \in Ids : RowStays(o)
  BY <1>1, InvTypes DEF RowsType, RowStays, SameRow
<1> QED BY <1>1, <1>2, <1>3, StepTouch

LEMMA StepTick ==
  ASSUME Inv, Tick
  PROVE  Inv'
<1>1. /\ rows' = [id \in Ids |-> IF rows[id] # Null /\ rows[id].age <= SessionAge
                                 THEN [rows[id] EXCEPT !.age = @ + 1] ELSE rows[id]]
      /\ UNCHANGED <<fileVars, active, lock, db, req, late, revision, shown, grant, granted,
                     phase, crashes>>
  BY DEF Tick
<1>2. ASSUME NEW id \in Ids PROVE rows'[id] \in Row \union {Null} /\ RowStays(id)
  <2>1. CASE rows[id] # Null /\ rows[id].age <= SessionAge
    <3>1. PICK r : r = [rows[id] EXCEPT !.age = @ + 1]
      OBVIOUS
    <3>2. rows[id] \in Row /\ rows[id].age \in 0..SessionAge + 1 /\ rows[id].age + 1 \in 0..SessionAge + 1
      BY <2>1, InvTypes, RowTypes, Bounds
    <3>3. r \in Row /\ SameRow(r, rows[id])
      BY <3>1, <3>2 DEF Row, SameRow
    <3>4. rows'[id] = r /\ r # Null
      BY <1>1, <2>1, <3>1, <3>3, RowAssumption
    <3> QED BY <2>1, <3>3, <3>4 DEF RowStays
  <2>2. CASE ~(rows[id] # Null /\ rows[id].age <= SessionAge)
    <3>1. rows'[id] = rows[id]
      BY <1>1, <2>2
    <3> QED BY <3>1, InvTypes DEF RowsType, RowStays, SameRow
  <2> QED BY <2>1, <2>2
<1>3. RowsType'
  BY <1>1, <1>2 DEF RowsType
<1>4. grant' \in 0..MaxGrants /\ granted' \in BOOLEAN
  BY <1>1, InvTypes DEF RestType
<1> QED BY <1>1, <1>2, <1>3, <1>4, StepTouch

LEMMA StepElsewhere ==
  ASSUME Inv, NEW p \in Paths, Elsewhere(p)
  PROVE  Inv'
<1>1. /\ phase = "serving" /\ db = Free /\ revision[p] < MaxRevision
      /\ revision' = [revision EXCEPT ![p] = @ + 1] /\ shown' = [shown EXCEPT ![p] = Null]
      /\ UNCHANGED <<rows, active, lock, db, req, late, grant, granted, phase, crashes>>
  BY DEF Elsewhere
<1>2. PICK S : S = ShownAt(p)
  OBVIOUS
<1>3. S \in SUBSET Ids /\ \A o \in S : shown[p] # Null /\ o = shown[p].id
  BY <1>2 DEF ShownAt
<1>4. /\ FilesType' /\ \A o \in Ids \ S : FileStays(o)
      /\ \A o \in S : loc'[o] = "none" /\ file'[o] = <<>> /\ disk'[o] = {<<>>}
  BY <1>2, <1>3, InvTypes, RemovedFiles DEF Elsewhere
<1>5. TypeOK'
  <2>1. revision \in [Paths -> 0..MaxRevision] /\ shown \in [Paths -> Published \union {Null}]
    BY InvTypes DEF RestType
  <2>2. revision[p] + 1 \in 0..MaxRevision
    BY <1>1, <2>1, Bounds
  <2>3. revision' \in [Paths -> 0..MaxRevision] /\ shown' \in [Paths -> Published \union {Null}]
    BY <1>1, <2>1, <2>2
  <2> QED BY <1>1, <1>4, <2>3, InvTypes, TypeParts DEF RowsType, RequestsType, RestType
<1>6. \A u \in Tasks : req[u].pc \in Working => req[u].id \notin S
  <2>1. PICK t : t = Free
    OBVIOUS
  <2>2. Tasks \ {t} = Tasks
    BY <2>1, NamesAssumption
  <2> QED BY <1>3, <2>2, NotWorking
<1>7. RowsType' /\ NoNewSession /\ \A o \in Ids : RowStays(o)
  BY <1>1, InvTypes DEF RowsType, NoNewSession, RowStays, SameRow
<1>8. \A o \in S : FileSound(o)'
  <2>1. \A o \in S : rows'[o] # Null => rows'[o].received <= rows'[o].size
    BY <1>1, <1>3 DEF Inv, FileSound
  <2> QED BY <1>3, <1>4, <1>7, <2>1, EmptyFileSound
<1>9. \A q \in Paths : shown'[q] # Null => shown'[q] = shown[q] /\ FileStays(shown[q].id)
  <2>1. ASSUME NEW q \in Paths, shown'[q] # Null
        PROVE  shown'[q] = shown[q] /\ FileStays(shown[q].id)
    <3>1. q # p /\ shown'[q] = shown[q]
      BY <1>1, <2>1, InvTypes DEF RestType
    <3>2. shown[q] # Null /\ shown[q].id \in Ids
      BY <2>1, <3>1, InvTypes DEF RestType, Published
    <3>3. shown[q].id \notin S
      BY <1>3, <3>1, <3>2 DEF Inv, OneFilePerPath
    <3> QED BY <1>4, <3>1, <3>2, <3>3
  <2> QED BY <2>1
<1> QED BY <1>1, <1>3, <1>4, <1>5, <1>6, <1>7, <1>8, <1>9, EnvKeeps

LEMMA StepCrash ==
  ASSUME Inv, Crash
  PROVE  Inv'
<1>1. /\ crashes < MaxCrashes /\ crashes' = crashes + 1 /\ phase' = "down" /\ active' = {}
      /\ lock' = Free /\ db' = Free /\ req' = [t \in Tasks |-> Idle] /\ late' = {}
      /\ UNCHANGED <<rows, loc, cutLate, revision, shown, grant, granted>>
  BY DEF Crash
<1>2. /\ \A id \in Ids : file'[id] \in disk[id] /\ disk'[id] \in {disk[id], {file'[id]}}
      /\ FilesType'
  <2>1. CASE UNCHANGED <<file, disk>>
    BY <1>1, <2>1, InvTypes DEF Inv, FileSound, FilesType
  <2>2. CASE /\ file' \in {f \in [Ids -> UNION {disk[id] : id \in Ids}] :
                             \A id \in Ids : f[id] \in disk[id]}
             /\ disk' = [id \in Ids |-> {file'[id]}]
    <3>1. /\ file' \in [Ids -> UNION {disk[id] : id \in Ids}]
          /\ \A id \in Ids : file'[id] \in disk[id]
      BY <2>2
    <3>2. \A id \in Ids : disk[id] \in SUBSET Units
      BY InvTypes, FileTypes
    <3>3. \A id \in Ids : file'[id] \in Units
      BY <3>1, <3>2
    <3>4. file' \in [Ids -> Units]
      BY <3>1, <3>3
    <3>5. disk' \in [Ids -> SUBSET Units] /\ \A id \in Ids : disk'[id] = {file'[id]}
      BY <2>2, <3>3
    <3> QED BY <1>1, <3>1, <3>4, <3>5, InvTypes DEF FilesType
  <2> QED BY <2>1, <2>2 DEF Crash
<1>3. RequestsType' /\ \A t \in Tasks : req'[t] = Idle
  BY <1>1, IdleTyped DEF RequestsType
<1>4. TypeOK'
  <2>1. crashes' \in 0..MaxCrashes
    BY <1>1, InvTypes, Bounds DEF RestType
  <2> QED BY <1>1, <1>2, <1>3, <2>1, InvTypes, TypeParts DEF RowsType, RestType
<1>5. ASSUME NEW id \in Ids PROVE FileSound(id)'
  <2>1. FileSound(id) /\ rows'[id] = rows[id] /\ loc'[id] = loc[id] /\ cutLate' = cutLate
    BY <1>1 DEF Inv
  <2>2. file'[id] \in disk'[id] /\ disk'[id] \subseteq disk[id]
    <3>1. CASE disk'[id] = disk[id]
      BY <1>2, <3>1
    <3>2. CASE disk'[id] = {file'[id]}
      BY <1>2, <3>2
    <3> QED BY <1>2, <3>1, <3>2
  <2> QED BY <2>1, <2>2 DEF FileSound, Whole
<1>6. /\ \A t \in Tasks : RequestSound(t)'
      /\ HoldersDistinct'
  <2>1. \A t \in Tasks : req'[t].pc \notin Holding
    BY <1>3, IdleTyped DEF Holding, Reserved, Chunking
  <2> QED BY <1>3, <2>1, IdleSound DEF HoldersDistinct
<1>7. LateSound' /\ OneFilePerPath' /\ DownIdle'
  BY <1>1 DEF Inv, LateSound, OneFilePerPath, DownIdle
<1>8. PublishedVerified'
  <2>1. ASSUME NEW q \in Paths, shown[q] # Null
        PROVE  /\ shown[q].honest /\ loc'[shown[q].id] = "blobs"
               /\ shown[q].id \notin cutLate =>
                    /\ file'[shown[q].id] = Complete(shown[q].size)
                    /\ disk'[shown[q].id] = {Complete(shown[q].size)}
    <3>1. shown[q].id \in Ids
      BY <2>1, InvTypes DEF RestType, Published
    <3>2. /\ shown[q].honest /\ loc[shown[q].id] = "blobs"
          /\ shown[q].id \notin cutLate => disk[shown[q].id] = {Complete(shown[q].size)}
      BY <2>1 DEF Inv, PublishedVerified
    <3>3. shown[q].id \notin cutLate => file'[shown[q].id] = Complete(shown[q].size)
      BY <1>2, <3>1, <3>2
    <3> QED BY <1>1, <1>2, <3>1, <3>2, <3>3
  <2> QED BY <1>1, <2>1 DEF PublishedVerified, Complete
<1>9. SessionsSound'
  <2>1. NoNewSession
    BY <1>1 DEF NoNewSession
  <2> QED BY <2>1, SessionsKept
<1> QED BY <1>4, <1>5, <1>6, <1>7, <1>8, <1>9 DEF Inv, SessionsSound

LEMMA StepStartup ==
  ASSUME Inv, Startup
  PROVE  Inv'
<1>1. /\ phase = "down" /\ phase' = "serving"
      /\ rows' = [id \in Ids |-> IF id \in AllStale THEN Null ELSE rows[id]]
      /\ UNCHANGED <<active, lock, db, req, late, revision, shown, grant, granted, crashes>>
  BY DEF Startup
<1>2. req = [t \in Tasks |-> Idle]
  BY <1>1 DEF Inv, DownIdle
<1>3. PICK S : S = {id \in Ids : \/ loc[id] = "tmp" /\ id \notin KeptTemps \ AllStale
                                 \/ loc[id] = "blobs" /\ \A p \in Paths : id \notin ShownAt(p)}
  OBVIOUS
<1>4. S \in SUBSET Ids /\ Removed(S)
  BY <1>3 DEF Startup
<1>5. /\ FilesType' /\ \A o \in Ids \ S : FileStays(o)
      /\ \A o \in S : loc'[o] = "none" /\ file'[o] = <<>> /\ disk'[o] = {<<>>}
  BY <1>4, InvTypes, RemovedFiles
<1>6. RowsType' /\ \A id \in Ids : rows'[id] \in {rows[id], Null}
  BY <1>1, InvTypes DEF RowsType
<1>7. TypeOK'
  BY <1>1, <1>5, <1>6, InvTypes, TypeParts DEF RequestsType, RestType
<1>8. ASSUME NEW id \in Ids PROVE FileSound(id)'
  <2>1. CASE id \in S
    <3>1. rows'[id] # Null => rows'[id].received <= rows'[id].size
      BY <1>6 DEF Inv, FileSound
    <3> QED BY <1>5, <1>6, <2>1, <3>1, EmptyFileSound
  <2>2. CASE id \notin S
    <3>1. FileSound(id) /\ FileStays(id) /\ (RowStays(id) \/ rows'[id] = Null)
      BY <1>5, <1>6, <2>2 DEF Inv, RowStays, SameRow
    <3> QED BY <3>1, FileKept
  <2> QED BY <2>1, <2>2
<1>9. (\A t \in Tasks : RequestSound(t)') /\ HoldersDistinct'
  <2>1. \A t \in Tasks : req'[t] = Idle /\ req'[t].pc \notin Holding
    BY <1>1, <1>2, IdleTyped DEF Holding, Reserved, Chunking
  <2> QED BY <2>1, IdleSound DEF HoldersDistinct
<1>10. NoNewSession
  BY <1>6 DEF NoNewSession
<1>11. \A p \in Paths : shown'[p] # Null => shown'[p] = shown[p] /\ FileStays(shown[p].id)
  <2>1. ASSUME NEW p \in Paths, shown[p] # Null PROVE FileStays(shown[p].id)
    <3>1. shown[p].id \in Ids /\ loc[shown[p].id] = "blobs"
      BY <2>1, InvTypes DEF Inv, PublishedVerified, RestType, Published
    <3>2. shown[p].id \in ShownAt(p)
      BY <2>1, <3>1 DEF ShownAt
    <3> QED BY <1>3, <1>5, <3>1, <3>2
  <2> QED BY <1>1, <2>1
<1>12. LateSound' /\ PublishedVerified' /\ OneFilePerPath' /\ SessionsSound'
  <2>1. \A p \in Paths : shown'[p] # Null => shown'[p] = shown[p]
    BY <1>11
  <2>2. late' \subseteq late
    BY <1>1
  <2> QED BY <1>10, <1>11, <2>1, <2>2, LateKept, PublishedKept, SessionsKept
<1>13. DownIdle'
  BY <1>1 DEF DownIdle
<1> QED BY <1>7, <1>8, <1>9, <1>12, <1>13 DEF Inv, SessionsSound

\* A truncation whose request is gone leaves a file that no longer counts as whole.
LEMMA LateCutSound ==
  ASSUME FilesType, RowsType, NEW id \in Ids, NEW n \in 0..MaxSize,
         rows[id] # Null => n <= rows[id].size,
         FileSound(id), rows' = rows, loc' = loc, cutLate' = cutLate \union {id}, Cut(id, n)
  PROVE  FilesType' /\ FileSound(id)' /\ \A o \in Ids \ {id} : FileStays(o)
<1>1. PICK g : g = SetLen(file[id], n)
  OBVIOUS
<1>2. PICK D : D = disk[id]
  OBVIOUS
<1>3. g \in Units /\ Len(g) = n /\ D \in SUBSET Units
  BY <1>1, <1>2, FileTypes, SetLenUnits
<1>4. file' = [file EXCEPT ![id] = g] /\ disk' = [disk EXCEPT ![id] = D \union {g}]
  BY <1>1, <1>2 DEF Cut
<1>5. D \union {g} \in SUBSET Units
  BY <1>3
<1>6. cutLate' \subseteq Ids /\ \A o \in Ids \ {id} : o \in cutLate' <=> o \in cutLate
  BY DEF FilesType
<1>7. /\ FilesType' /\ file'[id] = g /\ disk'[id] = D \union {g} /\ loc'[id] = loc[id]
      /\ \A o \in Ids \ {id} : FileStays(o)
  BY <1>3, <1>4, <1>5, <1>6, NewContent
<1>8. rows[id] # Null => \A f \in D \union {g} : Len(f) <= rows[id].size
  BY <1>2, <1>3 DEF FileSound
<1> QED BY <1>7, <1>8 DEF FileSound

\* An operation that outlived its request lands, whatever others do with the file by then.
LEMMA StepLateLands ==
  ASSUME Inv, NEW w \in late, LateLands(w)
  PROVE  Inv'
<1>1. PICK id : id = w.id
  OBVIOUS
<1>2. PICK at : at = w.at
  OBVIOUS
<1>3. PICK k : k = w.count
  OBVIOUS
<1>4. /\ id \in Ids /\ at \in Nat /\ k \in Nat /\ at + k <= MaxSize
      /\ rows[id] # Null => at + k <= rows[id].size
      /\ \A p \in Paths : shown[p] # Null /\ shown[p].id = id => at + k <= shown[p].size
  <2>1. w \in Operations
    BY InvTypes DEF RestType
  <2>2. /\ w.at + w.count <= MaxSize
        /\ rows[w.id] # Null => w.at + w.count <= rows[w.id].size
        /\ \A p \in Paths : shown[p] # Null /\ shown[p].id = w.id => w.at + w.count <= shown[p].size
    BY DEF Inv, LateSound
  <2> QED BY <1>1, <1>2, <1>3, <2>1, <2>2, Bounds DEF Operations
<1>5. /\ late' = late \ {w}
      /\ UNCHANGED <<rows, loc, active, lock, db, req, revision, shown, grant, granted, phase,
                     crashes>>
      /\ \/ UNCHANGED fileVars
         \/ Written(id, at, k) /\ UNCHANGED cutLate
         \/ /\ Cut(id, at) /\ k = 0
            /\ cutLate' = IF SetLen(file[id], at) = file[id] THEN cutLate
                          ELSE cutLate \union {id}
  BY <1>1, <1>2, <1>3 DEF LateLands, fileVars
<1>6. RowStays(id) /\ \A o \in Ids : RowStays(o)
  BY <1>4, <1>5 DEF RowStays, SameRow
<1>7. /\ FilesType' /\ FileSound(id)' /\ \A o \in Ids \ {id} : FileStays(o)
      /\ FileStays(id) \/ (Written(id, at, k) /\ UNCHANGED cutLate) \/ id \in cutLate'
  <2>1. FileSound(id)
    BY <1>4 DEF Inv
  <2>2. CASE UNCHANGED fileVars
    <3>1. \A o \in Ids : FileStays(o)
      BY <2>2 DEF FileStays, fileVars
    <3> QED BY <1>4, <1>5, <1>6, <2>1, <2>2, <3>1, InvTypes, FileKept DEF FilesType, fileVars
  <2>3. CASE Written(id, at, k) /\ UNCHANGED cutLate
    BY <1>4, <1>5, <1>6, <2>1, <2>3, InvTypes, WriteSound
  <2>4. CASE Cut(id, at) /\ SetLen(file[id], at) = file[id] /\ cutLate' = cutLate
    <3>1. file' = file /\ disk' = disk
      BY <1>4, <2>1, <2>4, InvTypes DEF Cut, FilesType, FileSound
    <3>2. \A o \in Ids : FileStays(o)
      BY <1>5, <2>4, <3>1 DEF FileStays
    <3> QED BY <1>4, <1>5, <1>6, <2>1, <2>4, <3>1, <3>2, InvTypes, FileKept DEF FilesType
  <2>5. CASE Cut(id, at) /\ k = 0 /\ cutLate' = cutLate \union {id}
    <3>1. at \in 0..MaxSize /\ (rows[id] # Null => at <= rows[id].size)
      BY <1>4, <2>5, InvTypes, RowTypes, Bounds
    <3> QED BY <1>4, <1>5, <2>1, <2>5, <3>1, InvTypes, LateCutSound
  <2> QED BY <1>5, <2>2, <2>3, <2>4, <2>5
<1>8. RowsType' /\ TypeOK'
  BY <1>5, <1>7, InvTypes, TypeParts DEF RowsType, RequestsType, RestType
\* A write leaves whole what is whole, and complete what is complete.
<1>9. ASSUME NEW n \in Nat, Whole(file[id], n), id \notin cutLate'
      PROVE  Whole(file'[id], n)
  <2>1. CASE Written(id, at, k) /\ UNCHANGED cutLate
    <3>1. PICK f : f = file[id]
      OBVIOUS
    <3>2. f \in Units /\ file'[id] = WriteAt(f, at, k)
      BY <1>4, <1>5, <1>6, <2>1, <3>1, InvTypes, FileTypes, WriteSound DEF Inv
    <3>3. Whole(f, n)
      BY <1>9, <3>1
    <3>4. Whole(WriteAt(f, at, k), n)
      BY <1>4, <3>2, <3>3, WriteKeepsWhole
    <3> QED BY <3>2, <3>4
  <2>2. CASE FileStays(id)
    BY <1>9, <2>2 DEF FileStays
  <2> QED BY <1>7, <1>9, <2>1, <2>2
<1>10. ASSUME NEW n \in Nat, \A f \in disk[id] : Whole(f, n), id \notin cutLate'
       PROVE  \A f \in disk'[id] : Whole(f, n)
  <2>1. CASE Written(id, at, k) /\ UNCHANGED cutLate
    <3>1. PICK f : f = file[id]
      OBVIOUS
    <3>2. PICK g : g = WriteAt(f, at, k)
      OBVIOUS
    <3>3. f \in Units /\ f \in disk[id]
      BY <1>4, <3>1, InvTypes, FileTypes DEF Inv, FileSound
    <3>4. disk'[id] = disk[id] \union {SetLen(f, Len(g)), g}
      BY <1>4, <2>1, <3>1, <3>2, InvTypes DEF Written, FilesType
    <3>5. Whole(g, n) /\ Whole(SetLen(f, Len(g)), n)
      BY <1>4, <1>10, <3>2, <3>3, WriteKeepsWhole
    <3> QED BY <1>10, <3>4, <3>5
  <2>2. CASE FileStays(id)
    BY <1>10, <2>2 DEF FileStays
  <2> QED BY <1>7, <1>10, <2>1, <2>2
<1>11. ASSUME NEW n \in 0..MaxSize, at + k <= n, file[id] = Complete(n), id \notin cutLate'
       PROVE  /\ file'[id] = Complete(n)
              /\ disk[id] = {Complete(n)} => disk'[id] = {Complete(n)}
  <2>1. CASE Written(id, at, k) /\ UNCHANGED cutLate
    <3>1. PICK f : f = Complete(n)
      OBVIOUS
    <3>2. PICK g : g = WriteAt(f, at, k)
      OBVIOUS
    <3>3. g = f /\ SetLen(f, Len(g)) = f
      BY <1>4, <1>11, <3>1, <3>2, WriteInComplete
    <3>4. file' = [file EXCEPT ![id] = g] /\ disk' = [disk EXCEPT ![id] = @ \union {SetLen(f, Len(g)), g}]
      BY <1>11, <2>1, <3>1, <3>2 DEF Written
    <3>5. file'[id] = f /\ disk'[id] = disk[id] \union {f}
      BY <1>4, <3>3, <3>4, InvTypes DEF FilesType
    <3> QED BY <3>1, <3>5
  <2>2. CASE FileStays(id)
    BY <1>11, <2>2 DEF FileStays
  <2> QED BY <1>7, <1>11, <2>1, <2>2
<1>12. id \notin cutLate' => id \notin cutLate
  BY <1>4, <1>5 DEF fileVars
<1>13. \A o \in Ids : FileSound(o)'
  <2>1. ASSUME NEW o \in Ids \ {id} PROVE FileSound(o)'
    BY <1>6, <1>7, FileKept DEF Inv
  <2> QED BY <1>7, <2>1
<1>14. ASSUME NEW u \in Tasks PROVE RequestSound(u)'
  <2>1. req'[u] = req[u] /\ active' = active /\ RequestSound(u)
    BY <1>5 DEF Inv
  <2>2. NoNewSession
    BY <1>5 DEF NoNewSession
  <2>3. CASE req[u].pc \in Working => req[u].id # id
    <3>1. req[u].pc \in Working => req[u].id \in Ids
      BY <2>1 DEF Working, RequestSound, WorkSound, BeginSound
    <3>2. req[u].pc \in Working => RowStays(req[u].id) /\ FileStays(req[u].id)
      BY <1>6, <1>7, <2>3, <3>1
    <3>3. req[u].pc \in {"begin", "renamed"} => db' = u /\ UNCHANGED <<revision, shown>>
      BY <1>5, <2>1 DEF RequestSound, BeginSound, RenamedSound
    <3>4. req[u].pc = "begin" => req[u].id \notin active'
      BY <2>1 DEF RequestSound, BeginSound
    <3>5. (req[u].pc \in Holding => req[u].id \in active') /\ \A v \in late' : v \in late
      BY <1>5, <2>1 DEF RequestSound
    <3> QED BY <2>1, <2>2, <3>2, <3>3, <3>4, <3>5, RequestKept
  <2>4. CASE req[u].pc \in Working /\ req[u].id = id
    <3>1. req[u].pc # "begin"
      BY <1>1, <2>1, <2>4 DEF RequestSound, BeginSound
    <3>2. req[u].pc \in Reserved \union {"renamed"} /\ req[u].pc \in Holding
      BY <2>4, <3>1 DEF Working, Holding
    <3>3. /\ WorkSound(u) /\ rows[id] # Null /\ req[u].row.size \in 0..MaxSize
          /\ req[u].row.received \in Nat /\ req[u].count \in Nat
          /\ rows[id].size = req[u].row.size
      BY <2>4, <3>2, WorkFacts
    <3>4. at + k <= req[u].row.size
      BY <1>4, <3>3
    <3>5. req[u].row.received + req[u].count \in Nat
      BY <3>3
    <3>6. WorkSound(u)'
      <4> DEFINE end == req[u].row.received + req[u].count
      <4>1. req[u].pc = "written" /\ id \notin cutLate' => Whole(file'[id], end)
        BY <1>9, <1>12, <2>4, <3>3, <3>5 DEF WorkSound
      <4>2. req[u].pc = "synced" /\ id \notin cutLate' => \A f \in disk'[id] : Whole(f, end)
        BY <1>10, <1>12, <2>4, <3>3, <3>5 DEF WorkSound
      <4>3. req[u].pc = "hashed" /\ id \notin cutLate' => file'[id] = Complete(req[u].row.size)
        BY <1>11, <1>12, <2>4, <3>3, <3>4 DEF WorkSound
      <4> QED BY <1>5, <2>1, <2>4, <3>3, <4>1, <4>2, <4>3 DEF WorkSound, SameRow, Whole, Complete
    <3>7. req[u].pc = "renamed" => RenamedSound(u)'
      <4>1. ASSUME req[u].pc = "renamed" PROVE RenamedSound(u)'
        <5>1. RenamedSound(u)
          BY <2>1, <4>1 DEF RequestSound
        <5>2. id \notin cutLate' =>
                file'[id] = Complete(req[u].row.size) /\ disk'[id] = {Complete(req[u].row.size)}
          BY <1>11, <1>12, <2>4, <3>3, <3>4, <5>1 DEF RenamedSound
        <5> QED BY <1>5, <2>1, <2>4, <5>1, <5>2 DEF RenamedSound, Complete
      <4> QED BY <4>1
    <3> QED BY <2>1, <2>4, <3>2, <3>6, <3>7
            DEF RequestSound, Reserved, Chunking, Holding
  <2> QED BY <2>3, <2>4
<1>15. HoldersDistinct' /\ OneFilePerPath'
  BY <1>5 DEF Inv, HoldersDistinct, OneFilePerPath
<1>16. LateSound'
  BY <1>5 DEF Inv, LateSound
<1>17. PublishedVerified'
  <2>1. ASSUME NEW p \in Paths, shown[p] # Null
        PROVE  /\ shown[p].honest /\ loc'[shown[p].id] = "blobs"
               /\ shown[p].id \notin cutLate' =>
                    /\ file'[shown[p].id] = Complete(shown[p].size)
                    /\ disk'[shown[p].id] = {Complete(shown[p].size)}
    <3>1. /\ shown[p].honest /\ loc[shown[p].id] = "blobs"
          /\ shown[p].id \notin cutLate =>
               /\ file[shown[p].id] = Complete(shown[p].size)
               /\ disk[shown[p].id] = {Complete(shown[p].size)}
      BY <2>1 DEF Inv, PublishedVerified
    <3>2. shown[p].id \in Ids /\ shown[p].size \in 0..MaxSize
      BY <2>1, InvTypes DEF RestType, Published
    <3>3. CASE shown[p].id = id
      <4>1. at + k <= shown[p].size
        BY <1>4, <2>1, <3>3
      <4> QED BY <1>5, <1>11, <1>12, <3>1, <3>2, <3>3, <4>1
    <3>4. CASE shown[p].id # id
      BY <1>7, <3>1, <3>2, <3>4 DEF FileStays
    <3> QED BY <3>3, <3>4
  <2> QED BY <1>5, <2>1 DEF PublishedVerified, Complete
<1>18. DownIdle' /\ SessionsSound'
  <2>1. NoNewSession
    BY <1>5 DEF NoNewSession
  <2>2. DownIdle'
    BY <1>5 DEF Inv, DownIdle
  <2> QED BY <2>1, <2>2, SessionsKept
<1> QED BY <1>8, <1>13, <1>14, <1>15, <1>16, <1>17, <1>18 DEF Inv, SessionsSound

-----------------------------------------------------------------------------
(* The invariant, and what follows from it. *)

LEMMA Initially == Init => Inv
<1> SUFFICES ASSUME Init PROVE Inv
  OBVIOUS
<1>1. RowsType /\ RequestsType /\ \A id \in Ids : rows[id] = Null
  BY IdleTyped DEF Init, RowsType, RequestsType
<1>2. FilesType
  <2>1. PICK e : e = <<>>
    OBVIOUS
  <2>2. e \in Units
    BY <2>1, EmptyUnits
  <2>3. /\ file = [id \in Ids |-> e] /\ disk = [id \in Ids |-> {e}]
        /\ loc = [id \in Ids |-> "none"] /\ cutLate = {}
    BY <2>1 DEF Init
  <2> QED BY <2>2, <2>3 DEF FilesType
<1>3. RestType
  <2>1. revision \in [Paths -> 0..MaxRevision] /\ grant \in 0..MaxGrants /\ crashes \in 0..MaxCrashes
    BY Bounds DEF Init
  <2>2. shown \in [Paths -> Published \union {Null}]
    BY DEF Init
  <2> QED BY <2>1, <2>2 DEF Init, RestType
<1>4. TypeOK
  BY <1>1, <1>2, <1>3, TypeParts
<1>5. \A id \in Ids : FileSound(id)
  BY <1>1 DEF Init, FileSound
<1>6. \A t \in Tasks : RequestSound(t) /\ req[t].pc = "idle"
  BY IdleTyped DEF Init, RequestSound, Idle, Holding, Reserved, Chunking
<1>7. HoldersDistinct /\ LateSound /\ PublishedVerified /\ OneFilePerPath /\ DownIdle
  BY <1>6 DEF Init, HoldersDistinct, LateSound, PublishedVerified, OneFilePerPath, DownIdle,
              Holding, Reserved, Chunking
<1>8. ASSUME NEW d \in Devices
      PROVE  IsFiniteSet(OfDevice(d)) /\ Cardinality(OfDevice(d)) <= MaxSessions
  <2>1. OfDevice(d) = {}
    BY <1>1 DEF OfDevice
  <2>2. IsFiniteSet({}) /\ Cardinality({}) = 0
    BY FS_EmptySet
  <2> QED BY <2>1, <2>2, Bounds
<1> QED BY <1>4, <1>5, <1>6, <1>7, <1>8 DEF Inv

LEMMA NewsAreRows ==
  ASSUME Inv, NEW new \in News
  PROVE  new \in Row /\ new.received = 0
<1>1. PICK d \in Devices, p \in Paths, n \in 0..MaxSize, h \in BOOLEAN : new = NewRow(d, p, n, h, 0)
  BY DEF News
<1>2. 0 \in 0..MaxGrants
  BY Bounds
<1> QED BY <1>1, <1>2, NewRows

LEMMA Stutters == Inv /\ UNCHANGED vars => Inv'
<1> SUFFICES ASSUME Inv, UNCHANGED vars PROVE Inv'
  OBVIOUS
<1>1. RowsType' /\ \A id \in Ids : RowStays(id)
  BY InvTypes DEF vars, RowsType, RowStays, SameRow
<1>2. grant' \in 0..MaxGrants /\ granted' \in BOOLEAN
  BY InvTypes DEF vars, RestType
<1>3. UNCHANGED <<fileVars, active, lock, db, req, late, revision, shown, phase, crashes>>
  BY DEF vars, fileVars
<1> QED BY <1>1, <1>2, <1>3, StepTouch

LEMMA Steady == Inv /\ [Next]_vars => Inv'
<1> SUFFICES ASSUME Inv, [Next]_vars PROVE Inv'
  OBVIOUS
<1>1. ASSUME NEW t \in Tasks, Begin(t) PROVE Inv'
  <2>1. ASSUME NEW new \in News, BeginResume(t, new) \/ BeginFile(t, new) \/ WebBegin(t, new)
        PROVE  Inv'
    BY <2>1, NewsAreRows, StepBeginResume, StepBeginFile, StepWebBegin
  <2> QED BY <1>1, <2>1, StepWebBeginFile, StepWebBeginRefused, StepBeginEnds DEF Begin
<1>2. ASSUME NEW t \in Tasks, Chunk(t) PROVE Inv'
  BY <1>2, StepChunkStart, StepChunkCut, StepChunkWrite, StepChunkSync, StepChunkFailed,
     StepChunkRecut, StepChunkCancelled, StepChunkDone DEF Chunk
<1>3. ASSUME NEW t \in Tasks, Finish(t) PROVE Inv'
  BY <1>3, StepFinishStart, StepFinishHash, StepFinishEnds, StepFinishRename, StepFinishTx,
     StepFinishCleanup DEF Finish
<1>4. ASSUME NEW t \in Tasks, PurgeStart(t) PROVE Inv'
  BY <1>4, StepWebBegin
<1>5. CASE UNCHANGED vars
  BY <1>5, Stutters
<1>6. CASE Next
  BY <1>1, <1>2, <1>3, <1>4, <1>6, StepRelease, StepPurgeRun, StepWebCancel, StepLateLands,
     StepElsewhere, StepGrants, StepTick, StepCrash, StepStartup DEF Next
<1> QED BY <1>5, <1>6

\* Every reachable state satisfies the invariant.
THEOREM Reachable == Spec => []Inv
  BY Initially, Steady, PTL DEF Spec

\* Rows, files, guards and requests always have the shape their code gives them.
THEOREM TypeCorrect == Spec => []TypeOK
<1>1. Inv => TypeOK
  BY DEF Inv
<1> QED BY <1>1, Reachable, PTL

\* append and upload_chunk acknowledge an offset only when everything below it is on disk:
\* no retry, cancelled request, late write, failure or power loss leaves a hole there, in any
\* file but those that a truncation changed after its request was gone.
THEOREM AcknowledgedIsDurable == Spec => []AcknowledgedDurable
<1>1. ASSUME Inv PROVE AcknowledgedDurable
  <2>1. ASSUME NEW id \in Ids, rows[id] # Null, loc[id] = "tmp", id \notin cutLate,
               NEW f \in disk[id]
        PROVE  SetLen(f, rows[id].received) = Complete(rows[id].received)
    <3>1. Whole(f, rows[id].received)
      BY <1>1, <2>1 DEF Inv, FileSound
    <3>2. f \in Units /\ rows[id].received \in 0..MaxSize
      BY <1>1, <2>1, InvTypes, FileTypes, RowTypes
    <3>3. PICK n : n = rows[id].received
      OBVIOUS
    <3> QED BY <3>1, <3>2, <3>3, WholeComplete
  <2> QED BY <2>1 DEF AcknowledgedDurable
<1> QED BY <1>1, Reachable, PTL

\* What a path shows was hashed before the database was taken, and is still that file,
\* whole and on disk whatever writes of cancelled requests landed since; the files that a
\* truncation changed after its request was gone are the only exception.
THEOREM PublishedIsVerified == Spec => []PublishedVerified
<1>1. Inv => PublishedVerified
  BY DEF Inv
<1> QED BY <1>1, Reachable, PTL

\* The row that a request of active_uploads read is still the row, its file is there, and
\* no other request works on it.
THEOREM ReservationsHold == Spec => []ReservationHolds
<1>1. ASSUME Inv PROVE ReservationHolds
  <2>1. ASSUME NEW t \in Tasks, req[t].pc \in Reserved
        PROVE  /\ rows[req[t].id] # Null /\ loc[req[t].id] = "tmp"
               /\ [rows[req[t].id] EXCEPT !.age = 0] = [req[t].row EXCEPT !.age = 0]
               /\ \A u \in Tasks \ {t} : req[u].id # req[t].id
    <3>1. /\ req[t].id \in Ids /\ rows[req[t].id] # Null /\ loc[req[t].id] = "tmp"
          /\ SameRow(rows[req[t].id], req[t].row) /\ req[t].row \in Row
          /\ req[t].pc \in Holding /\ req[t].id \in active
      BY <1>1, <2>1, WorkFacts DEF WorkSound, Inv, RequestSound, Holding
    <3>2. [rows[req[t].id] EXCEPT !.age = 0] = [req[t].row EXCEPT !.age = 0]
      <4>1. PICK r : r = rows[req[t].id]
        OBVIOUS
      <4>2. PICK s : s = req[t].row
        OBVIOUS
      <4>3. r \in Row /\ s \in Row /\ SameRow(r, s)
        BY <1>1, <3>1, <4>1, <4>2, InvTypes, RowTypes
      <4>4. [r EXCEPT !.age = 0] = [s EXCEPT !.age = 0]
        BY <4>3 DEF Row, SameRow
      <4> QED BY <4>1, <4>2, <4>4
    <3>3. ASSUME NEW u \in Tasks \ {t} PROVE req[u].id # req[t].id
      <4>1. req[u].pc \in Steps /\ RequestSound(u)
        BY <1>1, InvTypes DEF Inv, RequestsType, Request
      <4>2. CASE req[u].pc \in Holding
        BY <1>1, <3>1, <4>2 DEF Inv, HoldersDistinct
      <4>3. CASE req[u].pc = "begin"
        BY <3>1, <4>1, <4>3 DEF RequestSound, BeginSound
      <4>4. CASE req[u].pc \in {"idle", "purging", "purged"}
        BY <3>1, <4>1, <4>4, NamesAssumption DEF RequestSound
      <4> QED BY <4>1, <4>2, <4>3, <4>4 DEF Steps, Holding, Reserved, Chunking
    <3> QED BY <3>1, <3>2, <3>3
  <2> QED BY <2>1 DEF ReservationHolds, Reserved, Chunking
<1> QED BY <1>1, Reachable, PTL

\* begin_upload and the browser's begin count under the database lock: a device never
\* has more sessions than MAX_UPLOAD_SESSIONS_PER_DEVICE.
THEOREM SessionsStayBounded == Spec => []SessionsBounded
<1>1. Inv => SessionsBounded
  BY DEF Inv, SessionsBounded, OfDevice
<1> QED BY <1>1, Reachable, PTL

LEMMA ShownInBlobs ==
  ASSUME Inv, NEW p \in Paths, NEW id \in ShownAt(p)
  PROVE  loc[id] = "blobs"
  BY DEF Inv, PublishedVerified, ShownAt

\* What removes files: a begin that failed, and ends of sessions, publications and restarts.
LEMMA FilesKept ==
  ASSUME Inv, [Next]_vars, NEW id \in Ids, rows[id] # Null, rows'[id] # Null, loc[id] = "tmp"
  PROVE  loc'[id] \in {"tmp", "blobs"}
<1>1. loc \in [Ids -> {"none", "tmp", "blobs"}] /\ rows \in [Ids -> Row \union {Null}]
  BY InvTypes DEF FilesType, RowsType
<1>2. ASSUME NEW t \in Tasks, Begin(t) PROVE loc'[id] \in {"tmp", "blobs"}
  <2>1. CASE UNCHANGED loc
    BY <2>1
  <2>2. ASSUME NEW new, CreateFile(t, new) PROVE loc'[id] \in {"tmp", "blobs"}
    BY <1>1, <2>2 DEF CreateFile
  <2>3. CASE BeginFailed(t)
    <3>1. rows[req[t].id] = Null
      BY <2>3 DEF BeginFailed, Inv, RequestSound, BeginSound
    <3>2. Removed({req[t].id}) \/ UNCHANGED loc
      BY <2>3 DEF BeginFailed, fileVars
    <3> QED BY <3>1, <3>2 DEF Removed
  <2>4. \/ UNCHANGED loc \/ BeginFailed(t)
        \/ \E new : CreateFile(t, new)
    BY <1>2 DEF Begin, BeginResume, BeginFile, WebBegin, WebBeginFile, WebBeginRefused, BeginRow,
                fileVars
  <2> QED BY <2>1, <2>2, <2>3, <2>4
<1>3. ASSUME NEW t \in Tasks, Chunk(t) PROVE UNCHANGED loc
  BY <1>3 DEF Chunk, ChunkStart, ChunkCut, ChunkWrite, ChunkSync, ChunkFailed, ChunkRecut,
              ChunkCancelled, ChunkDone, fileVars
<1>4. ASSUME NEW t \in Tasks, Finish(t) PROVE loc'[id] \in {"tmp", "blobs"}
  <2>1. CASE FinishRename(t)
    BY <1>1, <2>1 DEF FinishRename
  <2>2. CASE FinishTx(t)
    <3>1. id \notin ShownAt(req[t].row.path)
      <4>1. req[t].row.path \in Paths
        BY <2>2, WorkFacts DEF FinishTx
      <4> QED BY <4>1, ShownInBlobs
    <3> QED BY <2>2, <3>1 DEF FinishTx, Removed
  <2>3. CASE FinishCleanup(t)
    <3>1. id # req[t].id
      BY <1>1, <2>3 DEF FinishCleanup
    <3> QED BY <2>3, <3>1 DEF FinishCleanup, Removed, InTmp
  <2>4. CASE UNCHANGED loc
    BY <2>4
  <2> QED BY <1>4, <2>1, <2>2, <2>3, <2>4
          DEF Finish, FinishStart, FinishHash, FinishCorrupt, FinishConflict, FinishFailed,
              FinishUncertain, fileVars
<1>5. ASSUME NEW t \in Tasks, PurgeRun(t) PROVE loc'[id] \in {"tmp", "blobs"}
  <2>1. id \notin Purgeable
    BY <1>5 DEF PurgeRun, Purged
  <2> QED BY <1>5, <2>1 DEF PurgeRun, Purged, Removed, InTmp
<1>6. ASSUME NEW t \in Tasks, NEW o \in Ids, WebCancel(t, o) PROVE loc'[id] \in {"tmp", "blobs"}
  <2>1. id # o
    BY <1>1, <1>6 DEF WebCancel
  <2> QED BY <1>6, <2>1 DEF WebCancel, Removed, InTmp
<1>7. ASSUME NEW p \in Paths, Elsewhere(p) PROVE loc'[id] \in {"tmp", "blobs"}
  <2>1. id \notin ShownAt(p)
    BY ShownInBlobs
  <2> QED BY <1>7, <2>1 DEF Elsewhere, Removed
<1>8. CASE Startup
  <2>1. id \notin AllStale
    BY <1>8 DEF Startup
  <2>2. id \in KeptTemps \ AllStale
    BY <2>1 DEF KeptTemps
  <2> QED BY <1>8, <2>2 DEF Startup, Removed
<1>9. ASSUME \/ \E t \in Tasks : Release(t) \/ PurgeStart(t)
             \/ \E w \in late : LateLands(w)
             \/ NewGrant \/ EndGrant \/ Tick \/ Crash \/ UNCHANGED vars
      PROVE  UNCHANGED loc
  BY <1>9 DEF Release, PurgeStart, LateLands, NewGrant, EndGrant, Tick, Crash, vars, fileVars
<1> QED BY <1>2, <1>3, <1>4, <1>5, <1>6, <1>7, <1>8, <1>9 DEF Next

\* From create_new to the commit, restarts and recover_storage included, the file of a
\* session goes nowhere but into its publication.
THEOREM FilesOfSessionsKept == Spec => SessionsKeepFiles
<1>1. Inv /\ [Next]_vars =>
        \A id \in Ids : rows[id] # Null /\ rows'[id] # Null /\ loc[id] = "tmp"
                          => loc'[id] \in {"tmp", "blobs"}
  BY FilesKept
<1> QED BY <1>1, Reachable, PTL DEF Spec, SessionsKeepFiles

LEMMA BaseReplaced ==
  ASSUME Inv, [Next]_vars, NEW p \in Paths, shown'[p] \notin {Null, shown[p]}
  PROVE  /\ rows[shown'[p].id] # Null
         /\ rows[shown'[p].id].base = revision[p] /\ revision'[p] > revision[p]
<1>1. shown \in [Paths -> Published \union {Null}] /\ revision \in [Paths -> 0..MaxRevision]
  BY InvTypes DEF RestType
<1>2. PICK t \in Tasks : FinishTx(t) \/ FinishUncertain(t)
  <2>1. ASSUME NEW t \in Tasks, Begin(t) \/ Chunk(t) \/ Release(t) \/ PurgeStart(t) \/ PurgeRun(t)
        PROVE  UNCHANGED shown
    <3>1. CASE Begin(t)
      BY <3>1 DEF Begin, BeginResume, BeginFile, WebBegin, WebBeginFile, WebBeginRefused, BeginRow,
                  BeginFailed
    <3>2. CASE Chunk(t)
      BY <3>2 DEF Chunk, ChunkStart, ChunkCut, ChunkWrite, ChunkSync, ChunkFailed, ChunkRecut,
                  ChunkCancelled, ChunkDone
    <3>3. CASE Release(t) \/ PurgeStart(t) \/ PurgeRun(t)
      BY <3>3 DEF Release, PurgeStart, PurgeRun
    <3> QED BY <2>1, <3>1, <3>2, <3>3
  <2>2. ASSUME NEW t \in Tasks, Finish(t), ~FinishTx(t), ~FinishUncertain(t)
        PROVE  UNCHANGED shown
    BY <2>2 DEF Finish, FinishStart, FinishHash, FinishCorrupt, FinishRename, FinishConflict,
                FinishFailed, FinishCleanup
  <2>3. ASSUME NEW q \in Paths, Elsewhere(q) PROVE shown'[p] \in {Null, shown[p]}
    BY <1>1, <2>3 DEF Elsewhere
  <2>4. ASSUME \/ \E t \in Tasks, id \in Ids : WebCancel(t, id)
               \/ \E w \in late : LateLands(w)
               \/ NewGrant \/ EndGrant \/ Tick \/ Crash \/ Startup \/ UNCHANGED vars
        PROVE  UNCHANGED shown
    BY <2>4 DEF WebCancel, LateLands, NewGrant, EndGrant, Tick, Crash, Startup, vars
  <2> QED BY <2>1, <2>2, <2>3, <2>4 DEF Next
<1>3. req[t].pc = "renamed" /\ Publish(t)
  BY <1>2 DEF FinishTx, FinishUncertain
<1>4. PICK q : q = req[t].row.path
  OBVIOUS
<1>5. PICK id : id = req[t].id
  OBVIOUS
<1>6. /\ rows[id] # Null /\ rows[id].base = req[t].row.base /\ revision[q] = req[t].row.base
      /\ q \in Paths
  <2>1. WorkSound(t) /\ RenamedSound(t) /\ req[t].row.path \in Paths
    BY <1>3, WorkFacts DEF Inv, RequestSound
  <2> QED BY <1>4, <1>5, <2>1 DEF WorkSound, RenamedSound, SameRow
<1>7. PICK v : v = [id |-> id, size |-> req[t].row.size, honest |-> req[t].row.honest]
  OBVIOUS
<1>8. /\ revision' = [revision EXCEPT ![q] = @ + 1] /\ shown' = [shown EXCEPT ![q] = v]
      /\ v.id = id
  BY <1>3, <1>4, <1>5, <1>7 DEF Publish
<1>9. p = q /\ shown'[p] = v
  BY <1>1, <1>6, <1>8
<1>10. revision'[p] = revision[p] + 1 /\ revision[p] \in Nat
  BY <1>1, <1>8, <1>9, Bounds
<1> QED BY <1>6, <1>8, <1>9, <1>10

\* commit_upload_checked compares the base revision in the transaction: a publication
\* replaces the version its client saw when the session began.
THEOREM ReplacesTheBase == Spec => ReplacesItsBase
<1>1. Inv /\ [Next]_vars =>
        \A p \in Paths : shown'[p] \notin {Null, shown[p]} =>
            /\ rows[shown'[p].id] # Null
            /\ rows[shown'[p].id].base = revision[p] /\ revision'[p] > revision[p]
  BY BaseReplaced
<1> QED BY <1>1, Reachable, PTL DEF Spec, ReplacesItsBase
=============================================================================
