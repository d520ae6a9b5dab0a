--------------------------- MODULE ExplorerProofs ---------------------------
(***************************************************************************)
(* Theorems about Explorer, for every tree, every size of a page and any   *)
(* number of jobs and of things the user does.  The invariant is taken     *)
(* apart by the variables its parts speak of: what the page shows, and     *)
(* what a job and the requests it has sent may say.                        *)
(***************************************************************************)
EXTENDS Explorer, FiniteSetTheorems, SequenceTheorems, WellFoundedInduction, TLAPS

ServerTypes ==
    /\ last \in 0..MaxRevision /\ rev \in [Names \ Folders -> 0..last]
    /\ wire \subseteq Request /\ done \subseteq (1..MaxJobs) \X (0..MaxFiles)

ListTypes ==
    /\ unlocked \in BOOLEAN /\ box \in BOOLEAN
    /\ CurrentView \in View /\ {listing, retry, timer} \subseteq View \union {Null}
    /\ shown \in Shown \union {Null}
    /\ shown # Null => Cardinality(shown.entries) <= PageSize

PanelTypes ==
    /\ selected \in Selection \union {Null} /\ delayed \in Delayed \union {Null}
    /\ info \in Info \union {Null} /\ copy \in Copied \union {Null}

JobTypes ==
    /\ picker \in Folders \union {0, Null} /\ job \in Job \union {Null}
    /\ jobs \in 0..MaxJobs

PageParts == PageHidden /\ DelayedConnected /\ DetailsMatchListing
JobParts == WireSound /\ JobSound /\ UploadSound /\ FolderSound /\ DownloadSound /\ ReportsTrue

Parts ==
    /\ ServerTypes /\ ListTypes /\ PanelTypes /\ JobTypes /\ clicks \in 0..MaxClicks
    /\ PageParts /\ JobParts

LEMMA PartsAreInv == Parts <=> Inv
  BY DEF Parts, Inv, TypeOK, ServerTypes, ListTypes, PanelTypes, JobTypes, PageParts, JobParts

LEMMA Bounds ==
  /\ PageSize \in Nat \ {0} /\ MaxFiles \in Nat \ {0} /\ MaxRevision \in Nat
  /\ MaxJobs \in Nat /\ MaxClicks \in Nat
  BY BoundsAssumption

\* The names are a segment of the naturals, and each is in a directory or in the root.
LEMMA NamesNumbered ==
  /\ Names = 1..Len(Home) /\ Len(Home) \in Nat /\ IsFiniteSet(Names)
  /\ \A n \in Names : Home[n] \in Folders \union {0}
  /\ Folders \subseteq Names /\ 0 \notin Names
<1>1. Home \in Seq(Folders \union {0}) /\ Folders \subseteq Names
  BY HomeAssumption
<1>2. Names = 1..Len(Home) /\ Len(Home) \in Nat
  BY <1>1 DEF Names
<1>3. IsFiniteSet(1..Len(Home))
  BY <1>2, FS_Interval
<1>4. \A n \in Names : Home[n] \in Folders \union {0}
  BY <1>1, <1>2
<1> QED BY <1>1, <1>2, <1>3, <1>4

-----------------------------------------------------------------------------
(* What the server answers. *)

\* A set of naturals has a least element, and a bounded one a greatest.
LEMMA LeastNumber ==
  ASSUME NEW S, S \subseteq Nat, S # {}
  PROVE  \E m \in S : \A n \in S : m <= n
<1>1. PICK m \in S : \A n \in S : ~(<<n, m>> \in OpToRel(<, Nat))
  BY NatLessThanWellFounded, WFMin
<1>2. ASSUME NEW n \in S, n < m PROVE FALSE
  <2>1. <<n, m>> \in Nat \X Nat /\ <<n, m>>[1] < <<n, m>>[2]
    BY <1>2
  <2> QED BY <1>1, <2>1 DEF OpToRel
<1> QED BY <1>2

LEMMA GreatestNumber ==
  ASSUME NEW b \in Nat, NEW S, S \subseteq 0..b, S # {}
  PROVE  Max(S) \in S /\ \A n \in S : n <= Max(S)
<1> DEFINE T == {b - n : n \in S}
<1>1. T \subseteq Nat /\ T # {}
  <2>1. \A n \in S : n \in Nat /\ b - n \in Nat
    OBVIOUS
  <2> QED BY <2>1
<1>2. PICK m \in T : \A n \in T : m <= n
  BY <1>1, LeastNumber
<1>3. PICK x \in S : m = b - x
  BY <1>2
<1>4. \A n \in S : b - x <= b - n
  BY <1>2, <1>3
<1>5. \A n \in S : x >= n
  BY <1>4
<1> QED BY <1>5 DEF Max

\* A directory has a state: that of its last file, or 0 when they are all gone.
LEMMA SnapshotTyped ==
  ASSUME ServerTypes, NEW d \in Folders
  PROVE  Snapshot(d) \in Nat
<1>1. PICK n \in Names \ Folders : Home[n] = d
  BY HomeAssumption
<1> DEFINE S == {rev[m] : m \in Contents(d)}
<1>2. last \in Nat /\ S \subseteq 0..last
  BY Bounds DEF ServerTypes, Contents
<1>3. rev[n] \in S
  BY <1>1 DEF Contents
<1> HIDE DEF S
<1>4. Max(S) \in S
  BY <1>2, <1>3, GreatestNumber
<1> QED BY <1>2, <1>4 DEF Snapshot, S

LEMMA RevisionTyped ==
  ASSUME ServerTypes, NEW n \in Names
  PROVE  Revision(n) \in Nat
<1>1. n \notin Folders => rev[n] \in Nat
  BY Bounds DEF ServerTypes
<1> QED BY <1>1, SnapshotTyped DEF Revision

\* A page holds no more than it should: before its last entry there are all the others.
LEMMA PageBounded ==
  ASSUME NEW view
  PROVE  /\ FirstPage(view) \subseteq Names /\ IsFiniteSet(FirstPage(view))
         /\ Cardinality(FirstPage(view)) <= PageSize
<1> DEFINE T == FirstPage(view)
<1>1. T \subseteq Names /\ IsFiniteSet(T) /\ IsFiniteSet(Found(view))
  BY NamesNumbered, FS_Subset DEF FirstPage, Found
<1>2. CASE T = {}
  BY <1>1, <1>2, FS_EmptySet, Bounds
<1>3. CASE T # {}
  <2> DEFINE o == Max(T)
             Before == {m \in Found(view) : m < o}
  <2>1. T \subseteq 0..Len(Home)
    BY <1>1, NamesNumbered
  <2>2. o \in T /\ \A n \in T : n <= o
    BY <2>1, <1>3, NamesNumbered, GreatestNumber
  <2>3. Cardinality(Before) < PageSize /\ IsFiniteSet(Before)
    BY <1>1, <2>2, FS_Subset DEF FirstPage
  <2>4. T \ {o} \subseteq Before
    <3>1. \A n \in T : n \in Found(view) /\ n \in Nat
      BY <2>1, NamesNumbered DEF FirstPage
    <3>2. \A n \in T \ {o} : n <= o /\ n # o /\ n \in Nat /\ o \in Nat
      BY <2>2, <3>1
    <3> HIDE DEF T, o
    <3>3. \A n \in T \ {o} : n < o
      BY <3>2
    <3> QED BY <3>1, <3>3
  <2>5. Cardinality(T \ {o}) <= Cardinality(Before) /\ IsFiniteSet(T \ {o})
    BY <2>3, <2>4, FS_Subset
  <2>6. Cardinality(T \ {o}) = Cardinality(T) - 1
    BY <1>1, <2>2, FS_RemoveElement
  <2>7. Cardinality(T) \in Nat /\ Cardinality(T \ {o}) \in Nat /\ Cardinality(Before) \in Nat
    BY <1>1, <2>3, <2>5, FS_CardinalityType
  <2> HIDE DEF T, Before, o
  <2> QED BY <1>1, <2>3, <2>5, <2>6, <2>7, Bounds DEF T
<1> QED BY <1>2, <1>3

\* What does not fit on a page leaves something on it.
LEMMA PageNotEmpty ==
  ASSUME NEW view, Found(view) # {}
  PROVE  FirstPage(view) # {}
<1>1. Found(view) \subseteq Nat
  BY NamesNumbered DEF Found
<1>2. PICK n \in Found(view) : \A m \in Found(view) : n <= m
  BY <1>1, LeastNumber
<1>3. {m \in Found(view) : m < n} = {}
  BY <1>1, <1>2
<1>4. Cardinality({m \in Found(view) : m < n}) < PageSize
  BY <1>3, FS_EmptySet, Bounds
<1> QED BY <1>4 DEF FirstPage

LEMMA AnswerTyped ==
  ASSUME ServerTypes, NEW view \in View
  PROVE  /\ Answer(view) \in Shown /\ Cardinality(Answer(view).entries) <= PageSize
         /\ Answer(view) # Null
<1> DEFINE P == FirstPage(view)
           E == {[name |-> n, rev |-> Revision(n)] : n \in P}
<1>1. P \subseteq Names /\ IsFiniteSet(P) /\ Cardinality(P) <= PageSize
  BY PageBounded
<1>2. E \subseteq Entry
  BY <1>1, RevisionTyped DEF Entry
<1>3. Cardinality(E) <= PageSize
  <2>1. IsFiniteSet(E) /\ Cardinality(E) <= Cardinality(P)
    <3> DEFINE f == [n \in P |-> [name |-> n, rev |-> Revision(n)]]
    <3>1. E = {f[n] : n \in P}
      OBVIOUS
    <3>2. f \in Surjection(P, E)
      BY DEF Surjection
    <3> QED BY <1>1, <3>2, FS_Surjection
  <2> QED BY <1>1, <2>1, FS_CardinalityType, Bounds
<1>4. P # Found(view) => Max(P) \in Names
  <2> SUFFICES ASSUME P # Found(view) PROVE Max(P) \in Names
    OBVIOUS
  <2>1. Found(view) # {}
    BY DEF FirstPage
  <2>2. P # {} /\ P \subseteq 0..Len(Home)
    BY <2>1, <1>1, PageNotEmpty, NamesNumbered
  <2>3. Max(P) \in P
    BY <2>2, GreatestNumber, NamesNumbered
  <2> QED BY <1>1, <2>3
<1> DEFINE next == IF P # Found(view) THEN Max(P) ELSE 0
<1>5. next \in Names \union {0}
  BY <1>4
<1>6. Answer(view) = [dir |-> view.dir, search |-> view.search, page |-> view.page,
                      cursors |-> view.cursors, entries |-> E, next |-> next]
  BY DEF Answer
<1> HIDE DEF P, E, next
<1>7. Answer(view) \in Shown
  BY <1>2, <1>5, <1>6 DEF View, Shown
<1>8. Answer(view).entries = E
  BY <1>6
<1> QED BY <1>3, <1>7, <1>8, NullAssumption
-----------------------------------------------------------------------------
(* The beginning, and what an action leaves alone. *)

LEMMA FirstView ==
  ASSUME NEW dir \in Folders \union {0}, NEW search \in BOOLEAN
  PROVE  ViewOf(dir, search) \in View
<1>1. <<0>> \in Seq(Names \union {0}) /\ Len(<<0>>) = 1
  OBVIOUS
<1> QED BY <1>1 DEF ViewOf, View

LEMMA InitParts == Init => Parts
<1> SUFFICES ASSUME Init PROVE Parts
  OBVIOUS
<1> USE DEF Init
<1>1. ServerTypes
  <2>1. last \in 0..MaxRevision
    BY NamesNumbered, Bounds, BoundsAssumption
  <2>2. \A n \in Names \ Folders : n \in 0..last
    BY NamesNumbered
  <2> QED BY <2>1, <2>2 DEF ServerTypes
<1>2. ListTypes
  BY FirstView DEF ListTypes, CurrentView
<1>3. PanelTypes /\ JobTypes /\ clicks \in 0..MaxClicks
  BY Bounds DEF PanelTypes, JobTypes
<1>4. PageParts
  BY DEF PageParts, PageHidden, DelayedConnected, DetailsMatchListing, DetailsLinked
<1>5. JobParts
  BY DEF JobParts, WireSound, JobSound, UploadSound, FolderSound, DownloadSound, ReportsTrue
<1> QED BY <1>1, <1>2, <1>3, <1>4, <1>5 DEF Parts

LEMMA ServerFrame ==
  ASSUME ServerTypes, UNCHANGED serverVars
  PROVE  ServerTypes'
  BY DEF ServerTypes, serverVars

LEMMA ListFrame ==
  ASSUME ListTypes, UNCHANGED <<unlocked, listVars>>
  PROVE  ListTypes'
  BY DEF ListTypes, listVars, CurrentView

LEMMA PanelFrame ==
  ASSUME PanelTypes, UNCHANGED panelVars
  PROVE  PanelTypes'
  BY DEF PanelTypes, panelVars

LEMMA JobTypeFrame ==
  ASSUME JobTypes, UNCHANGED jobVars
  PROVE  JobTypes'
  BY DEF JobTypes, jobVars

LEMMA JobFrame ==
  ASSUME JobParts, UNCHANGED <<wire, done, job, jobs>>
  PROVE  JobParts'
<1>1. \A k : Out(k)' <=> Out(k)
  BY DEF Out
<1>2. WireSound' /\ JobSound' /\ DownloadSound'
  BY DEF JobParts, WireSound, JobSound, DownloadSound
<1>3. UploadSound' /\ FolderSound' /\ ReportsTrue'
  BY <1>1 DEF JobParts, UploadSound, FolderSound, ReportsTrue
<1> QED BY <1>2, <1>3 DEF JobParts

\* What an action of the page leaves alone: the server and the job.
LEMMA PageFrame ==
  ASSUME Parts, UNCHANGED <<serverVars, jobVars>>
  PROVE  ServerTypes' /\ JobTypes' /\ JobParts'
  BY ServerFrame, JobTypeFrame, JobFrame DEF Parts, serverVars, jobVars

\* load(): a view is asked for, and nothing waits to open a panel.
LEMMA LoadKeeps ==
  ASSUME Parts, unlocked, NEW view \in View, Load(view), timer' \in View \union {Null},
         box' \in BOOLEAN, UNCHANGED <<unlocked, shown, selected, info, copy, picker, job>>
  PROVE  ListTypes' /\ PanelTypes' /\ PageParts'
<1>1. ListTypes'
  BY DEF Parts, ListTypes, CurrentView, Load
<1>2. PanelTypes'
  BY DEF Parts, PanelTypes, Load
<1>3. PageParts'
  BY DEF Parts, PageParts, PageHidden, DelayedConnected, DetailsMatchListing, DetailsLinked, Rows,
         Load
<1> QED BY <1>1, <1>2, <1>3

\* A page that shows something is unlocked.
LEMMA ShownUnlocked ==
  ASSUME Parts
  PROVE  /\ {shown, listing, timer, selected, delayed, picker} # {Null} => unlocked
         /\ (job # Null /\ ~job.stale) => unlocked
  BY DEF Parts, PageParts, PageHidden

-----------------------------------------------------------------------------
(* The listing. *)

LEMMA NavigateParts ==
  ASSUME Parts, NEW dir \in Folders \union {0}, Navigate(dir), clicks' \in 0..MaxClicks
  PROVE  Parts'
<1> USE DEF Navigate
<1>1. ServerTypes' /\ JobTypes' /\ JobParts'
  BY PageFrame
<1>2. ListTypes' /\ PanelTypes' /\ PageParts'
  <2>1. CASE Load(ViewOf(dir, FALSE)) /\ box' = FALSE
    BY <2>1, LoadKeeps, FirstView DEF jobVars
  <2>2. CASE UNCHANGED <<listing, retry, delayed, box>>
    <3>1. ListTypes' /\ PanelTypes'
      BY <2>2 DEF Parts, ListTypes, PanelTypes, CurrentView
    <3>2. PageParts'
      BY <2>2
         DEF Parts, PageParts, PageHidden, DelayedConnected, DetailsMatchListing, DetailsLinked,
             Rows, jobVars
    <3> QED BY <3>1, <3>2
  <2> QED BY <2>1, <2>2
<1> QED BY <1>1, <1>2 DEF Parts

LEMMA SearchChangedParts ==
  ASSUME Parts, NEW text \in BOOLEAN, SearchChanged(text), clicks' \in 0..MaxClicks
  PROVE  Parts'
<1> USE DEF SearchChanged
<1>1. ServerTypes' /\ JobTypes' /\ JobParts'
  BY PageFrame
<1>2. timer' \in View
  <2>1. CurrentView.dir \in Folders \union {0}
    BY DEF Parts, ListTypes, View
  <2> QED BY <2>1, FirstView
<1>3. ListTypes' /\ PanelTypes'
  BY <1>2 DEF Parts, ListTypes, PanelTypes, CurrentView
<1>4. PageParts'
  BY DEF Parts, PageParts, PageHidden, DelayedConnected, DetailsMatchListing, DetailsLinked, Rows,
         jobVars
<1> QED BY <1>1, <1>3, <1>4 DEF Parts

LEMMA SearchTimerParts == ASSUME Parts, SearchTimer, clicks' = clicks PROVE Parts'
<1>1. unlocked /\ timer \in View
  BY ShownUnlocked DEF SearchTimer, Parts, ListTypes
<1>2. ServerTypes' /\ JobTypes' /\ JobParts'
  BY PageFrame DEF SearchTimer
<1>3. ListTypes' /\ PanelTypes' /\ PageParts'
  <2>1. box' \in BOOLEAN
    BY DEF SearchTimer, Parts, ListTypes
  <2> QED BY <1>1, <2>1, LoadKeeps DEF SearchTimer, jobVars
<1> QED BY <1>2, <1>3 DEF Parts

LEMMA RefreshParts == ASSUME Parts, Refresh, clicks' \in 0..MaxClicks PROVE Parts'
<1>1. (IF retry # Null THEN retry ELSE CurrentView) \in View
  BY DEF Parts, ListTypes
<1>2. ServerTypes' /\ JobTypes' /\ JobParts'
  BY PageFrame DEF Refresh
<1>3. ListTypes' /\ PanelTypes' /\ PageParts'
  <2>1. box' \in BOOLEAN
    BY DEF Refresh, Parts, ListTypes
  <2> QED BY <1>1, <2>1, LoadKeeps DEF Refresh, jobVars
<1> QED BY <1>2, <1>3 DEF Parts

\* The cursor of the next page is the last entry of this one.
LEMMA NextPageParts == ASSUME Parts, NextPage, clicks' \in 0..MaxClicks PROVE Parts'
<1> DEFINE cursors == Append(SubSeq(shown.cursors, 1, shown.page + 1), shown.next)
           view == [CurrentView EXCEPT !.page = @ + 1, !.cursors = cursors]
<1>1. /\ shown \in Shown /\ CurrentView \in View /\ unlocked
      /\ CurrentView = [dir |-> shown.dir, search |-> shown.search,
                        page |-> shown.page, cursors |-> shown.cursors]
  BY ShownUnlocked DEF NextPage, Parts, ListTypes, CurrentView
<1>2. shown.page < Len(shown.cursors)
  BY <1>1 DEF View
<1>3. view \in View
  <2>1. PICK c, p, n : c = shown.cursors /\ p = shown.page /\ n = shown.next
    OBVIOUS
  <2>2. c \in Seq(Names \union {0}) /\ p \in Nat /\ n \in Names \union {0} /\ p < Len(c)
    BY <1>1, <1>2, <2>1 DEF Shown
  <2>3. SubSeq(c, 1, p + 1) \in Seq(Names \union {0}) /\ Len(SubSeq(c, 1, p + 1)) = p + 1
    BY <2>2, SubSeqProperties
  <2>4. cursors \in Seq(Names \union {0}) /\ Len(cursors) = p + 2
    BY <2>1, <2>2, <2>3
  <2>5. PICK v : v = CurrentView /\ v \in View /\ v.page = p
    BY <1>1, <2>1
  <2>6. PICK r : r = cursors
    OBVIOUS
  <2>7. [v EXCEPT !.page = @ + 1, !.cursors = r] \in View
    <3>1. r \in Seq(Names \union {0}) /\ Len(r) = p + 2 /\ v.page + 1 = p + 1
      BY <2>4, <2>5, <2>6
    <3>2. PICK q : q = p + 1 /\ q \in Nat /\ q < Len(r) /\ q = v.page + 1
      BY <2>2, <3>1
    <3>3. [v EXCEPT !.page = q, !.cursors = r] \in View
      BY <2>5, <3>1, <3>2 DEF View
    <3> QED BY <3>2, <3>3
  <2> HIDE DEF cursors
  <2> QED BY <2>5, <2>6, <2>7
<1>4. ServerTypes' /\ JobTypes' /\ JobParts'
  BY PageFrame DEF NextPage
<1>5. ListTypes' /\ PanelTypes' /\ PageParts'
  <2>1. box' \in BOOLEAN /\ timer' \in View \union {Null} /\ Load(view)
    BY DEF NextPage, Parts, ListTypes
  <2> HIDE DEF view
  <2> QED BY <1>1, <1>3, <2>1, LoadKeeps DEF NextPage, jobVars
<1> QED BY <1>4, <1>5 DEF Parts

LEMMA PreviousPageParts == ASSUME Parts, PreviousPage, clicks' \in 0..MaxClicks PROVE Parts'
<1> DEFINE view == [CurrentView EXCEPT !.page = @ - 1]
<1>1. CurrentView \in View /\ unlocked /\ CurrentView.page = shown.page /\ shown.page > 0
  BY ShownUnlocked DEF PreviousPage, Parts, ListTypes, CurrentView
<1>2. view \in View
  BY <1>1 DEF View
<1>3. ServerTypes' /\ JobTypes' /\ JobParts'
  BY PageFrame DEF PreviousPage
<1>4. ListTypes' /\ PanelTypes' /\ PageParts'
  <2>1. box' \in BOOLEAN /\ timer' \in View \union {Null} /\ Load(view)
    BY DEF PreviousPage, Parts, ListTypes
  <2> HIDE DEF view
  <2> QED BY <1>1, <1>2, <2>1, LoadKeeps DEF PreviousPage, jobVars
<1> QED BY <1>3, <1>4 DEF Parts
\* The rows that are built anew, and the entry among them that was selected.
LEMMA ReselectedInRows ==
  ASSUME NEW entries \in SUBSET Entry, PanelTypes, Reselected(entries) # Null
  PROVE  /\ selected # Null /\ Reselected(entries) \in Selection
         /\ \E entry \in entries : /\ entry.name = Reselected(entries).name
                                   /\ entry.rev = Reselected(entries).rev
<1>1. selected # Null /\ \E entry \in entries : entry.name = selected.name
  BY DEF Reselected
<1>2. PICK e : e = CHOOSE entry \in entries : entry.name = selected.name
  OBVIOUS
<1>3. e \in entries /\ e.name = selected.name
  BY <1>1, <1>2
<1>4. Reselected(entries) = [name |-> e.name, rev |-> e.rev, panel |-> selected.panel,
                               gone |-> FALSE]
  BY <1>1, <1>2 DEF Reselected, Panel
<1>5. e \in Entry /\ selected.panel \in BOOLEAN
  BY <1>1, <1>3 DEF PanelTypes, Selection
<1>6. Reselected(entries) \in Selection
  BY <1>4, <1>5 DEF Entry, Selection
<1>7. e.name = Reselected(entries).name /\ e.rev = Reselected(entries).rev
  BY <1>4
<1> QED BY <1>1, <1>3, <1>6, <1>7

LEMMA DisconnectedTyped ==
  ASSUME PanelTypes
  PROVE  /\ Disconnected(delayed) \in Delayed \union {Null}
         /\ Disconnected(delayed) # Null => ~Disconnected(delayed).connected
         /\ Disconnected(info) \in Info \union {Null}
         /\ Disconnected(copy) \in Copied \union {Null}
         /\ Disconnected(copy) # Null => ~Disconnected(copy).connected
  BY DEF PanelTypes, Disconnected, Delayed, Info, Copied

LEMMA InfoTyped ==
  ASSUME NEW dir \in Folders, NEW refresh \in BOOLEAN
  PROVE  InfoOf(dir, refresh) \in Info
  BY DEF InfoOf, Info

LEMMA LoadedParts == ASSUME Parts, Loaded, clicks' = clicks PROVE Parts'
<1> DEFINE answer == Answer(listing)
           sameView == shown # Null /\ Query(listing) = Query(CurrentView)
           sameEntries == sameView /\ answer.entries = shown.entries
           kept == IF sameView THEN Reselected(answer.entries) ELSE Null
<1>1. listing \in View /\ unlocked
  BY ShownUnlocked DEF Loaded, Parts, ListTypes
<1>2. answer \in Shown /\ Cardinality(answer.entries) <= PageSize /\ answer # Null
  BY <1>1, AnswerTyped DEF Parts
<1>3. /\ shown' = answer /\ listing' = Null /\ retry' = Null /\ box' = listing.search
      /\ UNCHANGED <<serverVars, unlocked, timer, jobVars>>
  BY DEF Loaded
<1>4. \/ sameEntries /\ UNCHANGED panelVars
      \/ /\ ~sameEntries /\ selected' = kept
         /\ delayed' = IF selected # Null \/ ~sameView THEN Null ELSE Disconnected(delayed)
         /\ info' = IF kept # Null /\ kept.name \in Folders /\ kept.panel
                    THEN InfoOf(kept.name, TRUE) ELSE Disconnected(info)
         /\ copy' = Disconnected(copy)
  BY DEF Loaded
<1>5. ServerTypes' /\ JobTypes' /\ JobParts'
  BY <1>3, PageFrame
<1>6. answer.entries \in SUBSET Entry
  BY <1>2 DEF Shown
<1>7. ListTypes'
  <2>1. CurrentView' = [dir |-> listing.dir, search |-> listing.search, page |-> listing.page,
                        cursors |-> listing.cursors]
    BY <1>2, <1>3 DEF CurrentView, Answer
  <2>2. CurrentView' \in View
    BY <1>1, <2>1 DEF View
  <2>3. box' \in BOOLEAN /\ timer' \in View \union {Null} /\ unlocked' \in BOOLEAN
    BY <1>1, <1>3 DEF Parts, ListTypes, View
  <2> HIDE DEF answer
  <2> QED BY <1>2, <1>3, <2>2, <2>3 DEF ListTypes
<1> HIDE DEF answer
<1>8. kept # Null => /\ kept \in Selection
                     /\ \E entry \in answer.entries : entry.name = kept.name /\ entry.rev = kept.rev
  BY <1>6, ReselectedInRows DEF Parts
<1>9. PanelTypes'
  <2>1. CASE UNCHANGED panelVars
    BY <2>1, PanelFrame DEF Parts
  <2>2. CASE ~sameEntries
    <3>1. selected' \in Selection \union {Null}
      BY <1>4, <1>8, <2>2
    <3>2. delayed' \in Delayed \union {Null} /\ info' \in Info \union {Null}
          /\ copy' \in Copied \union {Null}
      BY <1>4, <2>2, DisconnectedTyped, InfoTyped DEF Parts
    <3> QED BY <3>1, <3>2 DEF PanelTypes
  <2> QED BY <1>4, <2>1, <2>2
<1>10. Rows' = answer.entries
  BY <1>2, <1>3 DEF Rows
<1>11. PageParts'
  <2>1. PageHidden'
    BY <1>1, <1>3 DEF Parts, PageParts, PageHidden, jobVars
  <2>2. CASE sameEntries /\ UNCHANGED panelVars
    <3>1. Rows' = Rows
      BY <1>10, <2>2 DEF Rows
    <3>2. DelayedConnected' /\ DetailsMatchListing'
      BY <2>2, <3>1
         DEF Parts, PageParts, DelayedConnected, DetailsMatchListing, DetailsLinked, panelVars
    <3> QED BY <2>1, <3>2 DEF PageParts
  <2>3. CASE ~sameEntries
    <3>1. DetailsMatchListing'
      BY <1>4, <1>8, <1>10, <2>3 DEF DetailsMatchListing, DetailsLinked
    <3>2. DelayedConnected'
      BY <1>4, <2>3, DisconnectedTyped DEF Parts, DelayedConnected
    <3> QED BY <2>1, <3>1, <3>2 DEF PageParts
  <2> QED BY <1>4, <2>2, <2>3
<1> QED BY <1>3, <1>5, <1>7, <1>9, <1>11 DEF Parts

LEMMA LoadFailsParts == ASSUME Parts, LoadFails, clicks' = clicks PROVE Parts'
<1> USE DEF LoadFails
<1>1. ServerTypes' /\ JobTypes' /\ JobParts' /\ PanelTypes'
  BY PageFrame, PanelFrame DEF Parts
<1>2. ListTypes'
  BY DEF Parts, ListTypes, CurrentView
<1>3. PageParts'
  BY DEF Parts, PageParts, PageHidden, DelayedConnected, DetailsMatchListing, DetailsLinked, Rows,
         jobVars, panelVars
<1> QED BY <1>1, <1>2, <1>3 DEF Parts

-----------------------------------------------------------------------------
(* The details. *)

\* The panel and what waits to open it are of one entry of the rows.
LEMMA PanelParts ==
  ASSUME Parts, unlocked, UNCHANGED <<serverVars, unlocked, listVars, jobVars>>,
         clicks' \in 0..MaxClicks, PanelTypes', DelayedConnected', DetailsMatchListing'
  PROVE  Parts'
<1>1. ServerTypes' /\ JobTypes' /\ JobParts' /\ ListTypes'
  BY PageFrame, ListFrame DEF Parts
<1>2. PageHidden'
  BY DEF Parts, PageParts, PageHidden, jobVars
<1> QED BY <1>1, <1>2 DEF Parts, PageParts

LEMMA RowsTyped ==
  ASSUME Parts, NEW entry \in Rows
  PROVE  entry \in Entry /\ unlocked
<1>1. shown # Null /\ entry \in shown.entries
  BY DEF Rows
<1> QED BY <1>1, ShownUnlocked DEF Parts, ListTypes, Shown

LEMMA SelectParts ==
  ASSUME Parts, NEW entry \in Rows, Select(entry), clicks' \in 0..MaxClicks
  PROVE  Parts'
<1>1. PICK e : e = entry /\ e \in Entry /\ e \in Rows /\ unlocked
  BY RowsTyped
<1>2. Rows' = Rows
  BY DEF Select, Rows, listVars
<1>3. CASE selected' = Panel(entry, entry.name \notin Folders) /\ delayed' = Null
  <2>1. selected' = [name |-> e.name, rev |-> e.rev, panel |-> e.name \notin Folders,
                   gone |-> FALSE]
    BY <1>1, <1>3 DEF Panel
  <2>2. selected' \in Selection /\ selected'.name = e.name /\ selected'.rev = e.rev
    BY <1>1, <2>1 DEF Entry, Selection
  <2>3. PanelTypes' /\ DelayedConnected' /\ DetailsMatchListing'
    BY <1>1, <1>2, <1>3, <2>2
       DEF Select, Parts, PanelTypes, PageParts, DelayedConnected, DetailsMatchListing,
           DetailsLinked
  <2> QED BY <1>1, <2>3, PanelParts DEF Select
<1>4. CASE /\ entry.name \notin Folders /\ UNCHANGED selected
           /\ delayed' = [name |-> entry.name, rev |-> entry.rev, connected |-> TRUE]
  <2>1. delayed' \in Delayed /\ delayed'.name = e.name /\ delayed'.rev = e.rev
    BY <1>1, <1>4 DEF Entry, Delayed
  <2>2. PanelTypes' /\ DelayedConnected' /\ DetailsMatchListing'
    BY <1>1, <1>2, <1>4, <2>1
       DEF Select, Parts, PanelTypes, PageParts, DelayedConnected, DetailsMatchListing,
           DetailsLinked
  <2> QED BY <1>1, <2>2, PanelParts DEF Select
<1> QED BY <1>3, <1>4 DEF Select

LEMMA DetailsTimerParts == ASSUME Parts, DetailsTimer, clicks' = clicks PROVE Parts'
<1>1. unlocked /\ delayed \in Delayed
  BY ShownUnlocked DEF DetailsTimer, Parts, PanelTypes
<1>2. Rows' = Rows
  BY DEF DetailsTimer, Rows, listVars
<1>3. PICK d : d = delayed
  OBVIOUS
<1>4. CASE selected' = Panel(d, TRUE) /\ d.connected
  <2>1. selected' \in Selection /\ selected'.name = d.name /\ selected'.rev = d.rev
    BY <1>1, <1>3, <1>4 DEF Delayed, Selection, Panel
  <2>2. PICK e \in Rows : e.name = d.name /\ e.rev = d.rev
    BY <1>3, <1>4 DEF DetailsTimer, Parts, PageParts, DelayedConnected
  <2>3. PanelTypes' /\ DelayedConnected' /\ DetailsMatchListing'
    BY <1>2, <2>1, <2>2
       DEF DetailsTimer, Parts, PanelTypes, PageParts, DelayedConnected, DetailsMatchListing,
           DetailsLinked
  <2> QED BY <1>1, <2>3, PanelParts DEF DetailsTimer, Parts
<1>5. CASE selected' = selected
  <2>1. PanelTypes' /\ DelayedConnected' /\ DetailsMatchListing'
    BY <1>2, <1>5
       DEF DetailsTimer, Parts, PanelTypes, PageParts, DelayedConnected, DetailsMatchListing,
           DetailsLinked
  <2> QED BY <1>1, <2>1, PanelParts DEF DetailsTimer, Parts
<1> QED BY <1>3, <1>4, <1>5 DEF DetailsTimer, Connected

LEMMA PropertiesParts ==
  ASSUME Parts, NEW entry \in Rows, Properties(entry), clicks' \in 0..MaxClicks
  PROVE  Parts'
<1>1. PICK e : e = entry /\ e \in Entry /\ e \in Rows /\ unlocked
  BY RowsTyped
<1>2. Rows' = Rows
  BY DEF Properties, Rows, listVars
<1>3. selected' = [name |-> e.name, rev |-> e.rev, panel |-> FALSE, gone |-> FALSE]
  BY <1>1 DEF Properties, Panel
<1>4. selected' \in Selection /\ selected'.name = e.name /\ selected'.rev = e.rev
  BY <1>1, <1>3 DEF Entry, Selection
<1>5. info' \in Info
  BY InfoTyped DEF Properties
<1>6. PanelTypes' /\ DelayedConnected' /\ DetailsMatchListing'
  BY <1>1, <1>2, <1>4, <1>5
     DEF Properties, Parts, PanelTypes, PageParts, DelayedConnected, DetailsMatchListing,
         DetailsLinked
<1> QED BY <1>1, <1>6, PanelParts DEF Properties

\* The properties that arrive are of a directory: its row shows no revision they could differ from.
LEMMA InfoArrivesParts == ASSUME Parts, InfoArrives, clicks' = clicks PROVE Parts'
<1>1. info \in Info /\ Rows' = Rows
  BY DEF InfoArrives, Parts, PanelTypes, Rows, listVars
<1>2. CASE /\ unlocked /\ selected # Null /\ selected.name = info.name
           /\ selected' = [selected EXCEPT !.rev = Snapshot(info.name), !.panel = TRUE]
           /\ delayed' = Null
  <2>1. PICK s, n : s = selected /\ n = Snapshot(info.name)
    OBVIOUS
  <2>2. s \in Selection /\ n \in Nat /\ s.name \in Folders
    BY <1>1, <1>2, <2>1, SnapshotTyped DEF Parts, PanelTypes, Info
  <2>3. selected' \in Selection /\ selected'.name = s.name /\ selected'.gone = s.gone
    BY <1>2, <2>1, <2>2 DEF Selection
  <2>4. ~s.gone => \E e \in Rows : e.name = s.name
    BY <1>2, <2>1 DEF Parts, PageParts, DetailsMatchListing, DetailsLinked
  <2>5. PanelTypes' /\ DelayedConnected' /\ DetailsMatchListing'
    BY <1>1, <1>2, <2>2, <2>3, <2>4
       DEF InfoArrives, Parts, PanelTypes, PageParts, DelayedConnected, DetailsMatchListing,
           DetailsLinked
  <2> QED BY <1>2, <2>5, PanelParts DEF InfoArrives, Parts
<1>3. CASE UNCHANGED <<selected, delayed>>
  <2>1. ServerTypes' /\ JobTypes' /\ JobParts' /\ ListTypes'
    BY PageFrame, ListFrame DEF Parts, InfoArrives
  <2>2. PanelTypes'
    BY <1>3 DEF Parts, PanelTypes, InfoArrives
  <2>3. PageParts'
    BY <1>1, <1>3 DEF InfoArrives, Parts, PageParts, PageHidden, DelayedConnected,
       DetailsMatchListing, DetailsLinked, listVars, jobVars
  <2> QED BY <2>1, <2>2, <2>3 DEF Parts, InfoArrives
<1> QED BY <1>2, <1>3 DEF InfoArrives

LEMMA InfoFailsParts == ASSUME Parts, InfoFails, clicks' = clicks PROVE Parts'
<1> USE DEF InfoFails
<1>1. ServerTypes' /\ JobTypes' /\ JobParts' /\ ListTypes'
  BY PageFrame, ListFrame DEF Parts
<1>2. PanelTypes'
  BY DEF Parts, PanelTypes
<1>3. PageParts'
  BY DEF Parts, PageParts, PageHidden, DelayedConnected, DetailsMatchListing, DetailsLinked, Rows,
         listVars, jobVars
<1> QED BY <1>1, <1>2, <1>3 DEF Parts

LEMMA CopyPathParts ==
  ASSUME Parts, NEW entry \in Rows, CopyPath(entry), clicks' \in 0..MaxClicks
  PROVE  Parts'
<1>1. PICK e : e = entry /\ e \in Entry /\ e \in Rows /\ unlocked
  BY RowsTyped
<1>2. Rows' = Rows
  BY DEF CopyPath, Rows, listVars
<1>3. copy' = [name |-> e.name, rev |-> e.rev, connected |-> TRUE, stale |-> FALSE]
  BY <1>1 DEF CopyPath
<1>4. copy' \in Copied /\ copy'.name = e.name /\ copy'.rev = e.rev
  BY <1>1, <1>3 DEF CopyPath, Entry, Copied
<1>5. PanelTypes' /\ DelayedConnected' /\ DetailsMatchListing'
  BY <1>1, <1>2, <1>4 DEF CopyPath, Parts, PanelTypes, PageParts, DelayedConnected,
     DetailsMatchListing, DetailsLinked
<1> QED BY <1>1, <1>5, PanelParts DEF CopyPath

\* What ends with a clipboard that was written, or with a page that has been locked.
LEMMA CopyGoneParts ==
  ASSUME Parts, copy' = Null, clicks' = clicks,
         UNCHANGED <<serverVars, unlocked, listVars, selected, delayed, info, jobVars>>
  PROVE  Parts'
<1>1. ServerTypes' /\ JobTypes' /\ JobParts' /\ ListTypes'
  BY PageFrame, ListFrame DEF Parts
<1>2. PanelTypes'
  BY DEF Parts, PanelTypes
<1>3. PageParts'
  BY DEF Parts, PageParts, PageHidden, DelayedConnected, DetailsMatchListing, DetailsLinked, Rows,
     listVars, jobVars
<1> QED BY <1>1, <1>2, <1>3 DEF Parts

LEMMA CopyDoneParts == ASSUME Parts, CopyDone, clicks' = clicks PROVE Parts'
  BY CopyGoneParts DEF CopyDone

\* The row is one of those that are shown, or it is known to have gone.
LEMMA CopyFailsParts == ASSUME Parts, CopyFails, clicks' = clicks PROVE Parts'
<1>1. PICK c : c = copy /\ c \in Copied
  BY DEF CopyFails, Parts, PanelTypes
<1>2. Rows' = Rows
  BY DEF CopyFails, Rows, listVars
<1>3. CASE /\ unlocked /\ selected' = [Panel(copy, TRUE) EXCEPT !.gone = ~copy.connected]
           /\ delayed' = Null
  <2>1. selected' = [name |-> c.name, rev |-> c.rev, panel |-> TRUE, gone |-> ~c.connected]
    BY <1>1, <1>3 DEF Panel
  <2>2. /\ selected' \in Selection /\ selected'.name = c.name /\ selected'.rev = c.rev
        /\ selected'.gone = ~c.connected
    BY <1>1, <2>1 DEF Copied, Selection
  <2>3. c.connected => \E entry \in Rows : entry.name = c.name /\ entry.rev = c.rev
    BY <1>1 DEF CopyFails, Parts, PageParts, DelayedConnected
  <2>4. DetailsMatchListing'
    BY <1>2, <2>2, <2>3 DEF DetailsMatchListing, DetailsLinked
  <2>5. PanelTypes' /\ DelayedConnected'
    BY <1>3, <2>2 DEF CopyFails, Parts, PanelTypes, DelayedConnected
  <2> QED BY <1>3, <2>4, <2>5, PanelParts DEF CopyFails, Parts
<1>4. CASE UNCHANGED <<selected, delayed>>
  BY <1>4, CopyGoneParts DEF CopyFails
<1> QED BY <1>3, <1>4 DEF CopyFails

LEMMA CloseDetailsParts == ASSUME Parts, CloseDetails, clicks' \in 0..MaxClicks PROVE Parts'
<1>1. unlocked
  BY ShownUnlocked DEF CloseDetails
<1>2. PanelTypes' /\ DelayedConnected' /\ DetailsMatchListing'
  BY DEF CloseDetails, Parts, PanelTypes, PageParts, Rows, listVars, DelayedConnected,
         DetailsMatchListing, DetailsLinked
<1> QED BY <1>1, <1>2, PanelParts DEF CloseDetails
-----------------------------------------------------------------------------
(* Access. *)

\* A job that is forgotten says nothing; what it has sent is still on its way.
LEMMA JobGone ==
  ASSUME JobParts, job' = Null, UNCHANGED <<wire, done, jobs>>
  PROVE  JobParts'
<1>1. WireSound'
  BY DEF JobParts, WireSound
<1> QED BY <1>1 DEF JobParts, JobSound, UploadSound, FolderSound, DownloadSound, ReportsTrue

\* Only an upload has something to take back.
LEMMA DeleteOfUpload ==
  ASSUME Parts, job # Null, job.at = "delete"
  PROVE  job \in Job /\ job.kind = "upload"
  BY DEF Parts, JobTypes, JobParts, FolderSound, DownloadSound, Job

LEMMA LockPageParts ==
  ASSUME Parts, LockPage, UNCHANGED <<serverVars, jobs>>, clicks' = clicks
  PROVE  Parts'
<1>1. ServerTypes' /\ ListTypes'
  BY ServerFrame, FirstView DEF Parts, ListTypes, CurrentView, LockPage
<1>2. PanelTypes'
  BY DEF LockPage, Forgotten, Parts, PanelTypes, Info, Copied
<1>3. CASE job' = Null
  <2>1. JobTypes' /\ JobParts'
    BY <1>3, JobGone DEF LockPage, Parts, JobTypes, serverVars
  <2>2. PageParts'
    BY <1>3
       DEF LockPage, Forgotten, PageParts, PageHidden, DelayedConnected, DetailsMatchListing,
           DetailsLinked
  <2> QED BY <1>1, <1>2, <2>1, <2>2 DEF Parts
<1>4. CASE job # Null /\ job.at = "delete"
  <2>1. PICK o, j : o = job /\ j = job'
    OBVIOUS
  <2>2. o \in Job /\ o.kind = "upload" /\ <<>> \in Seq({"sent", "rejected", "unconfirmed"})
    BY <1>4, <2>1, DeleteOfUpload
  <2>3. j = [o EXCEPT !.stale = TRUE, !.aborted = TRUE, !.results = <<>>, !.report = Null]
    BY <1>4, <2>1 DEF LockPage
  <2>4. /\ j \in Job /\ j.kind = "upload" /\ j.at = "delete" /\ j.id = o.id /\ j.k = o.k
        /\ j.dir = o.dir /\ j.answer = o.answer /\ j.committing = o.committing /\ j.stale
        /\ j.aborted /\ j.results = <<>> /\ j.report = Null
    BY <1>4, <2>1, <2>2, <2>3 DEF Job
  <2>5. JobTypes'
    BY <2>1, <2>4 DEF LockPage, Parts, JobTypes
  <2>6. PageParts'
    BY <2>1, <2>4
       DEF LockPage, Forgotten, PageParts, PageHidden, DelayedConnected, DetailsMatchListing,
           DetailsLinked
  <2>7. \A k : Out(k)' <=> Out(k)
    BY <2>1, <2>4 DEF Out, serverVars
  <2>8. WireSound' /\ JobSound'
    BY <1>4, <2>1, <2>4 DEF Parts, JobParts, WireSound, JobSound, serverVars
  <2>9. UploadSound'
    BY <1>4, <2>1, <2>2, <2>4, <2>7 DEF Parts, JobParts, UploadSound
  <2>10. FolderSound' /\ DownloadSound'
    BY <2>1, <2>4 DEF FolderSound, DownloadSound
  <2>11. ReportsTrue'
    <3>1. Len(j.results) = 0 /\ j.report # "cancelled"
      BY <2>4, NullAssumption
    <3> QED BY <2>1, <2>4, <3>1 DEF ReportsTrue
  <2> QED BY <1>1, <1>2, <2>5, <2>6, <2>8, <2>9, <2>10, <2>11 DEF Parts, JobParts
<1> QED BY <1>3, <1>4 DEF LockPage

LEMMA UnlockParts ==
  ASSUME Parts, NEW dir \in Folders \union {0}, Unlock(dir), clicks' = clicks
  PROVE  Parts'
<1>1. ServerTypes' /\ JobTypes' /\ JobParts'
  BY PageFrame DEF Unlock
<1>2. ListTypes' /\ PanelTypes'
  BY FirstView DEF Unlock, Load, Parts, ListTypes, PanelTypes, CurrentView
<1>3. PageParts'
  BY DEF Unlock, Load, Parts, PageParts, PageHidden, DelayedConnected, DetailsMatchListing,
         DetailsLinked, Rows,
     jobVars
<1> QED BY <1>1, <1>2, <1>3 DEF Parts

-----------------------------------------------------------------------------
(* Jobs: what happens to the page when one moves. *)

LEMMA StayParts ==
  ASSUME Parts, unlocked, UNCHANGED <<serverVars, unlocked, listVars, panelVars>>, clicks' = clicks,
         JobTypes', JobParts', job' # Null => ~job'.stale
  PROVE  Parts'
<1>1. ServerTypes' /\ ListTypes' /\ PanelTypes'
  BY ServerFrame, ListFrame, PanelFrame DEF Parts
<1>2. PageParts'
  BY DEF Parts, PageParts, PageHidden, DelayedConnected, DetailsMatchListing, DetailsLinked, Rows,
         listVars, panelVars
<1> QED BY <1>1, <1>2 DEF Parts

\* The end of an upload, and the listing that follows it.
LEMMA OverParts ==
  ASSUME Parts, job # Null, ~job.stale, NEW final, Over(final), clicks' = clicks,
         JobTypes', JobParts', ~final.stale
  PROVE  Parts'
<1>1. unlocked /\ CurrentView \in View /\ job' = final
  BY ShownUnlocked DEF Parts, ListTypes, Over, Live
<1>2. ServerTypes'
  BY ServerFrame DEF Over, Parts
<1>3. ListTypes' /\ PanelTypes' /\ PageHidden' /\ DelayedConnected' /\ DetailsMatchListing'
  <2>1. CASE Load(CurrentView)
    <3>1. ListTypes' /\ PanelTypes'
      BY <1>1, <2>1 DEF Over, Parts, ListTypes, PanelTypes, CurrentView, Load
    <3>2. PageHidden' /\ DelayedConnected' /\ DetailsMatchListing'
      BY <1>1, <2>1
         DEF Over, Parts, PageParts, PageHidden, DelayedConnected, DetailsMatchListing,
             DetailsLinked, Rows, Load
    <3> QED BY <3>1, <3>2
  <2>2. CASE UNCHANGED <<listing, retry, delayed>>
    <3>1. ListTypes' /\ PanelTypes'
      BY <1>1, <2>2 DEF Over, Parts, ListTypes, PanelTypes, CurrentView
    <3>2. PageHidden' /\ DelayedConnected' /\ DetailsMatchListing'
      BY <1>1, <2>2
         DEF Over, Parts, PageParts, PageHidden, DelayedConnected, DetailsMatchListing,
             DetailsLinked, Rows
    <3> QED BY <3>1, <3>2
  <2> QED BY <2>1, <2>2 DEF Over
<1> QED BY <1>2, <1>3 DEF Parts, PageParts

\* A new job starts with nothing sent and nothing to say.
LEMMA BeginJob ==
  ASSUME Parts, NEW kind \in {"upload", "download", "folder"}, NEW entry,
         entry.name \in Names \union {0}, entry.rev \in Nat,
         NEW at, NEW k \in 0..MaxFiles, Begin(kind, at, entry, k),
         picker' \in Folders \union {0, Null},
         \/ kind = "upload" /\ at = "authorize" /\ k = 1 /\ entry.name \in Folders \union {0}
         \/ kind = "download" /\ at = "chunk" /\ k = 0 /\ entry.name \in Names \ Folders
         \/ kind = "folder" /\ at = "info" /\ k = 0 /\ entry.name \in Folders,
         UNCHANGED <<wire, done>>
  PROVE  JobTypes' /\ JobParts' /\ (job' # Null => ~job'.stale)
<1>1. PICK j, n, s : j = job' /\ n = entry.name /\ s = entry.rev
  OBVIOUS
<1>2. jobs \in Nat /\ jobs < MaxJobs /\ jobs' = jobs + 1
  BY Bounds DEF Begin, Parts, JobTypes
<1>3. j = [kind |-> kind, id |-> jobs + 1, at |-> at, k |-> k, dir |-> n, snap |-> s,
           results |-> <<>>, answer |-> Null, committing |-> FALSE, aborted |-> FALSE,
           stale |-> FALSE, report |-> Null]
  BY <1>1 DEF Begin
<1>4. /\ j.kind = kind /\ j.id = jobs + 1 /\ j.at = at /\ j.k = k /\ j.dir = n /\ j.results = <<>>
      /\ j.answer = Null /\ ~j.committing /\ ~j.stale /\ j.report = Null
  BY <1>3
<1>5. j \in Job
  <2>1. /\ jobs + 1 \in 1..MaxJobs /\ <<>> \in Seq({"sent", "rejected", "unconfirmed"})
        /\ n \in Names \union {0} /\ s \in Nat
    BY <1>1, <1>2, Bounds
  <2> QED BY <1>3, <2>1 DEF Job
<1>6. JobTypes'
  BY <1>1, <1>2, <1>5, Bounds DEF Parts, JobTypes
<1>7. WireSound' /\ \A i : ~Out(i)'
  <2>1. \A r \in wire : r.id \in Nat /\ r.id <= jobs
    <3>1. \A r \in wire : r \in Request /\ r.id <= jobs
      BY DEF Parts, ServerTypes, JobParts, WireSound
    <3> QED BY <3>1, Bounds DEF Request
  <2>2. \A d \in done : d[1] \in Nat /\ d[1] <= jobs
    BY DEF Parts, ServerTypes, JobParts, WireSound
  <2>3. \A i : <<jobs + 1, i>> \notin done
    <3> SUFFICES ASSUME NEW i, <<jobs + 1, i>> \in done PROVE FALSE
      OBVIOUS
    <3>1. <<jobs + 1, i>>[1] = jobs + 1
      OBVIOUS
    <3> QED BY <1>2, <2>2, <3>1
  <2>4. \A i : ~Out(i)'
    BY <1>1, <1>2, <1>4, <2>1, <2>3 DEF Out
  <2>5. WireSound'
    BY <1>2, <2>1, <2>2 DEF Parts, JobParts, WireSound
  <2> QED BY <2>4, <2>5
<1>8. JobSound'
  BY <1>1, <1>2, <1>4, NullAssumption DEF JobSound
<1>9. Len(j.results) = 0 /\ j.report # "cancelled"
  BY <1>4, NullAssumption
<1>10. ReportsTrue'
  BY <1>1, <1>4, <1>9 DEF ReportsTrue
<1>11. UploadSound' /\ FolderSound' /\ DownloadSound'
  BY <1>1, <1>4, <1>7, <1>9 DEF UploadSound, FolderSound, DownloadSound
<1> QED BY <1>1, <1>4, <1>6, <1>7, <1>8, <1>10, <1>11 DEF JobParts
-----------------------------------------------------------------------------
(* Uploads. *)

\* Where an upload is, what it has told and what it may still send.
Progress(j) ==
    /\ j.k > 0 /\ j.dir \in Folders \union {0}
    /\ j.at \in {"authorize", "start", "chunk", "commit", "delete", "ended"}
    /\ j.at \in {"authorize", "start", "chunk"} => ~j.committing
    /\ j.at = "commit" => j.committing
    /\ j.at \in {"authorize", "start", "chunk", "commit"} =>
          j.report = Null /\ Len(j.results) = j.k - 1
    /\ j.at = "delete" => Len(j.results) = IF j.report = Null THEN j.k ELSE j.k - 1

LEMMA UploadProgress ==
  ASSUME Parts, job # Null, job.kind = "upload", ~job.stale
  PROVE  /\ job \in Job /\ Progress(job) /\ job.id = jobs /\ unlocked
         /\ \A k \in 0..MaxFiles :
              Out(k) => k < job.k \/ (k = job.k /\ (job.at = "ended" \/ job.committing))
  BY ShownUnlocked
     DEF Parts, JobTypes, JobParts, JobSound, UploadSound, Progress

\* An upload that goes on from where it is: nothing is sent, what is told is true.
LEMMA UploadMoves ==
  ASSUME Parts, job # Null, job.kind = "upload", ~job.stale, UNCHANGED <<wire, done, jobs, picker>>,
         NEW j \in Job, job' = j, j.kind = "upload", j.id = job.id, ~j.stale, Progress(j),
         j.answer = "ok" => job.answer = "ok" /\ j.k = job.k,
         \/ j.k = job.k /\ (job.committing => j.committing \/ j.at = "ended")
                        /\ (job.at = "ended" => j.at = "ended")
         \/ j.k = job.k + 1,
         \A i \in 1..Len(j.results) :
            \/ i <= Len(job.results) /\ j.results[i] = job.results[i]
            \/ /\ i = job.k
               /\ j.results[i] = "sent" => job.answer = "ok"
               /\ j.results[i] = "rejected" => ~Out(i),
         j.report = "cancelled" => \A i \in Len(j.results) + 1..MaxFiles : ~Out(i)
  PROVE  JobTypes' /\ JobParts'
<1>1. \A k : Out(k)' <=> Out(k)
  BY DEF Out
<1>2. JobTypes'
  BY DEF Parts, JobTypes
<1>3. WireSound' /\ JobSound'
  BY DEF Parts, JobParts, WireSound, JobSound
<1>4. UploadSound'
  <2>1. /\ job.k \in Nat /\ j.k \in Nat
        /\ \A k \in 0..MaxFiles :
             Out(k) => k < job.k \/ (k = job.k /\ (job.at = "ended" \/ job.committing))
    BY Bounds, UploadProgress DEF Job
  <2>2. \A k \in 0..MaxFiles : Out(k) => k < j.k \/ (k = j.k /\ (j.at = "ended" \/ j.committing))
    BY <2>1, Bounds
  <2> QED BY <1>1, <2>2 DEF UploadSound, Progress
<1>5. FolderSound' /\ DownloadSound'
  BY DEF FolderSound, DownloadSound
<1>6. ReportsTrue'
  <2>1. \A i \in 1..Len(j.results) : /\ j.results[i] = "sent" => <<j.id, i>> \in done
                                     /\ j.results[i] = "rejected" => ~Out(i)
    <3> SUFFICES ASSUME NEW i \in 1..Len(j.results)
                 PROVE  /\ j.results[i] = "sent" => <<j.id, i>> \in done
                        /\ j.results[i] = "rejected" => ~Out(i)
      OBVIOUS
    <3>1. CASE i <= Len(job.results) /\ j.results[i] = job.results[i]
      <4>1. i \in 1..Len(job.results)
        <5>1. job.results \in Seq({"sent", "rejected", "unconfirmed"})
          BY UploadProgress DEF Job
        <5>2. Len(job.results) \in Nat /\ i \in Nat /\ i >= 1
          BY <5>1 DEF Job
        <5> QED BY <3>1, <5>2
      <4> QED BY <3>1, <4>1 DEF Parts, JobParts, ReportsTrue
    <3>2. CASE ~(i <= Len(job.results) /\ j.results[i] = job.results[i])
      <4>1. job.answer = "ok" => <<job.id, job.k>> \in done
        BY DEF Parts, JobParts, JobSound
      <4> QED BY <3>2, <4>1
    <3> QED BY <3>1, <3>2
  <2> QED BY <1>1, <2>1 DEF ReportsTrue
<1> QED BY <1>2, <1>3, <1>4, <1>5, <1>6 DEF JobParts

\* What has not been sent is not out.
LEMMA NotYetOut ==
  ASSUME Parts, job # Null, job.kind = "upload", ~job.stale, job.at # "ended",
         NEW i \in 0..MaxFiles, i > job.k \/ (i = job.k /\ ~job.committing)
  PROVE  ~Out(i)
  BY UploadProgress, Bounds DEF Job
\* What has been told stays told; only the file that is being worked on may be added.
LEMMA UploadTells ==
  ASSUME Parts, job # Null, job.kind = "upload", ~job.stale, job.at # "ended",
         UNCHANGED <<wire, done, jobs, picker>>,
         NEW j \in Job, job' = j, j.kind = "upload", j.id = job.id, ~j.stale, Progress(j),
         j.answer \in {job.answer, Null},
         \/ j.k = job.k /\ (job.committing => j.committing \/ j.at = "ended")
         \/ j.k = job.k + 1 /\ j.answer = Null,
         NEW told \in {"sent", "rejected", "unconfirmed"},
         \/ j.results = job.results
         \/ /\ j.results = Append(job.results, told) /\ Len(job.results) = job.k - 1
            /\ told = "sent" => job.answer = "ok"
            /\ told = "rejected" => ~job.committing,
         j.report = "cancelled" => \/ Len(j.results) = job.k
                                   \/ ~job.committing /\ Len(j.results) = job.k - 1
                                   \/ job.report = "cancelled" /\ j.results = job.results
  PROVE  JobTypes' /\ JobParts'
<1>1. /\ job \in Job /\ job.k \in 1..MaxFiles /\ Len(job.results) \in Nat
      /\ job.results \in Seq({"sent", "rejected", "unconfirmed"})
  BY UploadProgress, Bounds DEF Job, Progress
<1>2. \A i \in 0..MaxFiles : (i > job.k \/ (i = job.k /\ ~job.committing)) => ~Out(i)
  BY NotYetOut
<1>3. \A i \in 1..Len(j.results) :
         \/ i <= Len(job.results) /\ j.results[i] = job.results[i]
         \/ /\ i = job.k
            /\ j.results[i] = "sent" => job.answer = "ok"
            /\ j.results[i] = "rejected" => ~Out(i)
  <2>1. CASE j.results = job.results
    <3>1. \A i \in 1..Len(j.results) : i <= Len(job.results)
      BY <1>1, <2>1
    <3> QED BY <2>1, <3>1
  <2>2. CASE j.results # job.results
    <3>1. PICK s : s = job.results /\ s \in Seq({"sent", "rejected", "unconfirmed"})
                   /\ Len(s) = job.k - 1 /\ j.results = Append(s, told)
      BY <1>1, <2>2
    <3>2. Len(j.results) = Len(s) + 1 /\ j.results[Len(s) + 1] = told
          /\ \A i \in 1..Len(s) : j.results[i] = s[i]
      BY <3>1
    <3>3. ASSUME NEW i \in 1..Len(j.results), ~(i <= Len(s))
          PROVE  i = job.k /\ j.results[i] = told
      BY <1>1, <3>1, <3>2, <3>3
    <3>4. told = "rejected" => ~Out(job.k)
      BY <1>1, <1>2, <2>2, Bounds
    <3>5. told = "sent" => job.answer = "ok"
      BY <2>2
    <3>6. \A i \in 1..Len(j.results) : i <= Len(s) => i \in 1..Len(s)
      BY <1>1, <3>1
    <3> QED BY <3>1, <3>2, <3>3, <3>4, <3>5, <3>6
  <2> QED BY <2>1, <2>2
<1>4. j.report = "cancelled" => \A i \in Len(j.results) + 1..MaxFiles : ~Out(i)
  <2> SUFFICES ASSUME j.report = "cancelled", NEW i \in Len(j.results) + 1..MaxFiles
               PROVE  ~Out(i)
    OBVIOUS
  <2>1. CASE job.report = "cancelled" /\ j.results = job.results
    BY <2>1 DEF Parts, JobParts, ReportsTrue
  <2>2. CASE ~(job.report = "cancelled" /\ j.results = job.results)
    <3>1. i \in 0..MaxFiles /\ (i > job.k \/ (i = job.k /\ ~job.committing))
      BY <1>1, <2>2, Bounds
    <3> QED BY <1>2, <3>1
  <2> QED BY <2>1, <2>2
<1>5. j.answer = "ok" => job.answer = "ok" /\ j.k = job.k
  BY NullAssumption, <1>1
<1> QED BY <1>3, <1>4, <1>5, UploadMoves

\* The same, within the step of an action that leaves the page alone.
LEMMA UploadStays ==
  ASSUME Parts, Stay, clicks' = clicks, job # Null, job.kind = "upload", ~job.stale,
         JobTypes', JobParts', ~job'.stale
  PROVE  Parts'
  BY UploadProgress, StayParts DEF Stay

LEMMA StayKeeps ==
  ASSUME Stay
  PROVE  UNCHANGED <<wire, done, jobs, picker>>
  BY DEF Stay, serverVars

LEMMA UploadAuthorizedParts == ASSUME Parts, UploadAuthorized, clicks' = clicks PROVE Parts'
<1>1. PICK o, j : o = job /\ j = job'
  OBVIOUS
<1>2. o # Null /\ o.kind = "upload" /\ o.at = "authorize" /\ j = [o EXCEPT !.at = "start"] /\ Stay
  BY <1>1 DEF UploadAuthorized, On
<1>3. ~o.stale
  BY <1>1, <1>2 DEF Parts, PageParts, PageHidden
<1>4. o \in Job /\ Progress(o)
  BY <1>1, <1>2, <1>3, UploadProgress
<1>5. /\ j \in Job /\ j.kind = "upload" /\ j.id = o.id /\ ~j.stale /\ Progress(j) /\ j.k = o.k
      /\ j.answer = o.answer /\ j.committing = o.committing /\ j.results = o.results
      /\ j.report = Null
  BY <1>2, <1>3, <1>4 DEF Job, Progress
<1>6. JobTypes' /\ JobParts'
  BY <1>1, <1>2, <1>3, <1>5, UploadTells, StayKeeps, NullAssumption
<1> QED BY <1>1, <1>2, <1>3, <1>5, <1>6, UploadStays
\* The upload ends: nothing more is sent.
LEMMA EndParts ==
  ASSUME Parts, job # Null, job.kind = "upload", ~job.stale, job.at # "ended",
         NEW report \in {"complete", "error", "cancelled", "interrupted"}, End(report),
         clicks' = clicks,
         report = "cancelled" => \/ Len(job.results) = job.k
                                 \/ ~job.committing /\ Len(job.results) = job.k - 1
                                 \/ job.report = "cancelled"
  PROVE  Parts'
<1>1. PICK o, j : o = job /\ j = [o EXCEPT !.at = "ended", !.report = report]
  OBVIOUS
<1>2. Over(j) /\ job' = j
  BY <1>1 DEF End, Over, Live
<1>3. o \in Job /\ Progress(o)
  BY <1>1, UploadProgress
<1>4. /\ j \in Job /\ j.kind = "upload" /\ j.id = o.id /\ ~j.stale /\ Progress(j) /\ j.k = o.k
      /\ j.answer = o.answer /\ j.at = "ended" /\ j.results = o.results /\ j.report = report
  BY <1>1, <1>3 DEF Job, Progress
<1>5. UNCHANGED <<wire, done, jobs, picker>>
  BY <1>2 DEF Over, serverVars
<1>6. JobTypes' /\ JobParts'
  BY <1>1, <1>2, <1>4, <1>5, UploadTells
<1> QED BY <1>1, <1>2, <1>4, <1>6, OverParts

\* One file is over, and the next is taken, or the upload is complete.
LEMMA NextFileParts ==
  ASSUME Parts, job # Null, job.kind = "upload", ~job.stale, job.at # "ended", job.report = Null,
         NEW results, NextFile(results), clicks' = clicks,
         NEW told \in {"sent", "rejected", "unconfirmed"},
         \/ results = job.results /\ Len(job.results) = job.k
         \/ /\ results = Append(job.results, told) /\ Len(job.results) = job.k - 1
            /\ told = "sent" => job.answer = "ok"
            /\ told = "rejected" => ~job.committing
  PROVE  Parts'
<1>1. PICK o, r : o = job /\ r = results
  OBVIOUS
<1>2. o \in Job /\ Progress(o) /\ o.k \in 1..MaxFiles
  BY <1>1, Bounds, UploadProgress DEF Job, Progress
<1>3. r \in Seq({"sent", "rejected", "unconfirmed"}) /\ Len(r) = o.k
  <2>1. o.results \in Seq({"sent", "rejected", "unconfirmed"}) /\ Len(o.results) \in Nat
    BY <1>2 DEF Job
  <2>2. PICK s : s = o.results /\ s \in Seq({"sent", "rejected", "unconfirmed"})
    BY <2>1
  <2>3. Len(Append(s, told)) = Len(s) + 1
        /\ Append(s, told) \in Seq({"sent", "rejected", "unconfirmed"})
    BY <2>2
  <2>4. CASE r = s /\ Len(s) = o.k
    BY <2>2, <2>4
  <2>5. CASE r = Append(s, told) /\ Len(s) = o.k - 1
    <3>1. o.k \in Nat
      BY <1>2, Bounds
    <3> QED BY <2>3, <2>5, <3>1
  <2> QED BY <1>1, <2>2, <2>4, <2>5
<1>4. PICK t : /\ t = [o EXCEPT !.results = r, !.committing = FALSE, !.answer = Null]
               /\ IF o.k = MaxFiles THEN Over([t EXCEPT !.at = "ended", !.report = "complete"])
                  ELSE job' = [t EXCEPT !.at = "start", !.k = @ + 1] /\ Stay
  BY <1>1 DEF NextFile
<1>5. /\ t \in Job /\ t.kind = "upload" /\ t.id = o.id /\ ~t.stale /\ t.k = o.k /\ t.results = r
      /\ t.answer = Null /\ ~t.committing /\ t.report = Null /\ t.dir = o.dir
  BY <1>1, <1>2, <1>3, <1>4 DEF Job
<1>6. CASE o.k = MaxFiles
  <2>1. PICK j : j = [t EXCEPT !.at = "ended", !.report = "complete"]
    OBVIOUS
  <2>2. /\ j \in Job /\ j.kind = "upload" /\ j.id = o.id /\ ~j.stale /\ j.k = o.k /\ j.results = r
        /\ j.answer = Null /\ j.at = "ended" /\ j.report = "complete" /\ j.dir = o.dir
    BY <1>5, <2>1 DEF Job
  <2>3. Progress(j)
    BY <1>2, <2>2 DEF Progress
  <2>4. Over(j) /\ job' = j
    BY <1>1, <1>4, <1>6, <2>1 DEF Over, Live
  <2>5. UNCHANGED <<wire, done, jobs, picker>>
    BY <2>4 DEF Over, serverVars
  <2>6. JobTypes' /\ JobParts'
    BY <1>1, <2>2, <2>3, <2>4, <2>5, UploadTells
  <2> QED BY <1>1, <2>2, <2>4, <2>6, OverParts
<1>7. CASE o.k # MaxFiles
  <2>1. PICK j, k : j = [t EXCEPT !.at = "start", !.k = k] /\ k = t.k + 1
    OBVIOUS
  <2>2. k = o.k + 1 /\ k \in 0..MaxFiles /\ k > 0
    BY <1>2, <1>5, <1>7, <2>1, Bounds
  <2>3. /\ j \in Job /\ j.kind = "upload" /\ j.id = o.id /\ ~j.stale /\ j.k = k /\ j.results = r
        /\ j.answer = Null /\ j.at = "start" /\ j.report = Null /\ j.dir = o.dir /\ ~j.committing
    BY <1>5, <2>1, <2>2 DEF Job
  <2>4. Progress(j)
    BY <1>2, <1>3, <2>2, <2>3 DEF Progress
  <2>5. job' = j /\ Stay
    BY <1>4, <1>7, <2>1
  <2>6. JobTypes' /\ JobParts'
    BY <1>1, <2>2, <2>3, <2>4, <2>5, UploadTells, StayKeeps, NullAssumption
  <2> QED BY <1>1, <2>3, <2>5, <2>6, UploadStays
<1> QED BY <1>6, <1>7

\* A step of an upload that has not ended, on a page that was not locked since it began.
LEMMA LiveUpload ==
  ASSUME Parts, NEW at \in {"authorize", "start", "chunk", "commit"}, On("upload", at)
  PROVE  /\ job # Null /\ job.kind = "upload" /\ ~job.stale /\ job.at = at /\ job.at # "ended"
         /\ job \in Job /\ Progress(job) /\ job.report = Null /\ Len(job.results) = job.k - 1
         /\ Len(job.results) \in Nat
<1>1. job # Null /\ job.kind = "upload" /\ job.at = at /\ ~job.stale
  BY DEF On, Parts, PageParts, PageHidden
<1>2. job \in Job /\ Progress(job)
  BY <1>1, UploadProgress
<1> QED BY <1>1, <1>2 DEF Progress, Job

LEMMA UploadRefusedParts == ASSUME Parts, UploadRefused, clicks' = clicks PROVE Parts'
  BY LiveUpload, EndParts DEF UploadRefused

LEMMA UploadStartedParts == ASSUME Parts, UploadStarted, clicks' = clicks PROVE Parts'
<1>1. PICK o, j : o = job /\ j = job'
  OBVIOUS
<1>2. /\ o # Null /\ o.kind = "upload" /\ ~o.stale /\ o.at = "start" /\ o \in Job /\ Progress(o)
  BY <1>1, LiveUpload DEF UploadStarted
<1>3. j = [o EXCEPT !.at = "chunk"] /\ Stay
  BY <1>1 DEF UploadStarted
<1>4. /\ j \in Job /\ j.kind = "upload" /\ j.id = o.id /\ ~j.stale /\ Progress(j) /\ j.k = o.k
      /\ j.answer = o.answer /\ j.committing = o.committing /\ j.results = o.results
      /\ j.report = Null
  BY <1>2, <1>3 DEF Job, Progress
<1>5. JobTypes' /\ JobParts'
  BY <1>1, <1>2, <1>3, <1>4, UploadTells, StayKeeps, NullAssumption
<1> QED BY <1>1, <1>2, <1>3, <1>4, <1>5, UploadStays

LEMMA StartFailsParts == ASSUME Parts, StartFails, clicks' = clicks PROVE Parts'
<1>1. /\ job # Null /\ job.kind = "upload" /\ ~job.stale /\ job.at # "ended"
      /\ job.report = Null /\ Len(job.results) = job.k - 1 /\ ~job.committing
  BY LiveUpload DEF StartFails, Progress
<1> QED BY <1>1, NextFileParts DEF StartFails

\* A commit that is sent is marked as such, and was not sent before.
LEMMA ChunksSentParts == ASSUME Parts, ChunksSent, clicks' = clicks PROVE Parts'
<1>1. PICK o, j : o = job /\ j = job'
  OBVIOUS
<1>2. PICK r : r = [id |-> o.id, k |-> o.k, dir |-> o.dir, snap |-> 0]
  OBVIOUS
<1>3. /\ o # Null /\ o.kind = "upload" /\ ~o.stale /\ o.at = "chunk" /\ o \in Job /\ Progress(o)
  BY <1>1, LiveUpload DEF ChunksSent
<1>4. /\ j = [o EXCEPT !.at = "commit", !.committing = TRUE] /\ wire' = wire \union {r}
      /\ UNCHANGED <<rev, last, done, unlocked, listVars, panelVars, picker, jobs>>
  BY <1>1, <1>2 DEF ChunksSent
<1>5. /\ j \in Job /\ j.kind = "upload" /\ j.id = o.id /\ ~j.stale /\ j.at = "commit" /\ j.k = o.k
      /\ j.answer = o.answer /\ j.committing /\ j.results = o.results /\ j.report = Null
      /\ j.dir = o.dir
  BY <1>3, <1>4 DEF Job, Progress
<1>6. /\ r \in Request /\ r.id = o.id /\ r.k = o.k /\ o.k \in 1..MaxFiles
      /\ o.id = jobs /\ unlocked /\ ~Out(o.k)
  <2>1. o.k \in 1..MaxFiles /\ o.id = jobs /\ unlocked
    BY <1>1, <1>3, UploadProgress, Bounds DEF Progress, Job
  <2>2. ~Out(o.k)
    BY <1>1, <1>3, <2>1, NotYetOut, Bounds DEF Progress
  <2> QED BY <1>2, <1>3, <2>1, <2>2 DEF Request, Job, Progress
<1>7. ServerTypes' /\ ListTypes' /\ PanelTypes' /\ JobTypes'
  BY <1>1, <1>4, <1>5, <1>6, ListFrame, PanelFrame DEF Parts, ServerTypes, JobTypes
<1>8. PageParts'
  BY <1>1, <1>4, <1>5, <1>6
     DEF Parts, PageParts, PageHidden, DelayedConnected, DetailsMatchListing, DetailsLinked, Rows,
         listVars, panelVars
<1>9. \A k : Out(k)' => Out(k) \/ k = o.k
  BY <1>1, <1>4, <1>5, <1>6 DEF Out
<1>10. WireSound' /\ JobSound'
  <2>1. \A q \in wire : q.id = o.id => q.k # o.k
    BY <1>1, <1>6 DEF Out
  <2>2. <<o.id, o.k>> \notin done
    BY <1>1, <1>6 DEF Out
  <2>3. o.id <= jobs /\ jobs' = jobs /\ done' = done
    BY <1>4, <1>6 DEF Parts, JobTypes
  <2>4. WireSound'
    BY <1>4, <1>6, <2>1, <2>2, <2>3 DEF Parts, JobParts, WireSound
  <2> QED BY <1>1, <1>3, <1>4, <1>5, <2>4 DEF Parts, JobParts, JobSound
<1>11. UploadSound' /\ FolderSound' /\ DownloadSound'
  <2>1. \A k \in 0..MaxFiles : Out(k)' => k < o.k \/ k = o.k
    BY <1>1, <1>3, <1>9, UploadProgress
  <2> QED BY <1>1, <1>3, <1>4, <1>5, <2>1 DEF UploadSound, FolderSound, DownloadSound, Progress
<1>12. ReportsTrue'
  <2>1. o.results \in Seq({"sent", "rejected", "unconfirmed"}) /\ Len(o.results) = o.k - 1
    BY <1>3 DEF Job, Progress
  <2>2. \A i \in 1..Len(o.results) : i # o.k
    BY <1>6, <2>1
  <2>3. \A i \in 1..Len(j.results) : /\ j.results[i] = "sent" => <<j.id, i>> \in done'
                                     /\ j.results[i] = "rejected" => ~Out(i)'
    BY <1>1, <1>3, <1>4, <1>5, <1>9, <2>2 DEF Parts, JobParts, ReportsTrue
  <2> QED BY <1>1, <1>5, <2>3, NullAssumption DEF ReportsTrue
<1> QED BY <1>7, <1>8, <1>10, <1>11, <1>12 DEF Parts, JobParts
\* A file failed: its upload is going to be taken back, and the page says so.
LEMMA TakesBack ==
  ASSUME Parts, Stay, clicks' = clicks, NEW at \in {"chunk", "commit"}, On("upload", at),
         job' = [job EXCEPT !.at = "delete", !.results = Append(@, Failed)]
  PROVE  Parts'
<1>1. PICK o, j, f : o = job /\ j = job' /\ f = Failed
  OBVIOUS
<1>2. /\ o # Null /\ o.kind = "upload" /\ ~o.stale /\ o.at = at /\ o \in Job /\ Progress(o)
      /\ o.report = Null /\ Len(o.results) = o.k - 1 /\ o.at # "ended"
  BY <1>1, LiveUpload
<1>3. f \in {"unconfirmed", "rejected"} /\ (f = "rejected" => ~o.committing)
  BY <1>1 DEF Failed
<1>4. PICK s : /\ s = Append(o.results, f) /\ s \in Seq({"sent", "rejected", "unconfirmed"})
               /\ Len(s) = o.k
  <2>1. o.results \in Seq({"sent", "rejected", "unconfirmed"}) /\ o.k \in Nat
    BY <1>2, Bounds DEF Job
  <2>2. PICK q : q = o.results /\ q \in Seq({"sent", "rejected", "unconfirmed"})
                 /\ Len(q) = o.k - 1
    BY <1>2, <2>1
  <2>3. Append(q, f) \in Seq({"sent", "rejected", "unconfirmed"}) /\ Len(Append(q, f)) = o.k
    BY <1>3, <2>1, <2>2
  <2> QED BY <2>2, <2>3
<1>5. j = [o EXCEPT !.at = "delete", !.results = s]
  BY <1>1, <1>4
<1>6. /\ j \in Job /\ j.kind = "upload" /\ j.id = o.id /\ ~j.stale /\ j.at = "delete" /\ j.k = o.k
      /\ j.answer = o.answer /\ j.committing = o.committing /\ j.results = s /\ j.report = Null
      /\ j.dir = o.dir
  BY <1>2, <1>4, <1>5 DEF Job
<1>7. Progress(j)
  BY <1>2, <1>4, <1>6 DEF Progress
<1>8. JobTypes' /\ JobParts'
  <2>1. f \in {"sent", "rejected", "unconfirmed"} /\ (f = "sent" => o.answer = "ok")
        /\ (f = "rejected" => ~o.committing)
    BY <1>1, <1>3 DEF Failed
  <2> QED BY <1>1, <1>2, <1>4, <1>6, <1>7, <2>1, UploadTells, StayKeeps, NullAssumption
<1> QED BY <1>1, <1>2, <1>6, <1>8, UploadStays

LEMMA ChunkFailsParts == ASSUME Parts, ChunkFails, clicks' = clicks PROVE Parts'
  BY TakesBack DEF ChunkFails

LEMMA CommitFailsParts == ASSUME Parts, CommitFails, clicks' = clicks PROVE Parts'
  BY TakesBack DEF CommitFails

LEMMA CommittedParts == ASSUME Parts, Committed, clicks' = clicks PROVE Parts'
<1>1. /\ job # Null /\ job.kind = "upload" /\ ~job.stale /\ job.at # "ended"
      /\ job.report = Null /\ Len(job.results) = job.k - 1 /\ job.answer = "ok"
  BY LiveUpload DEF Committed
<1> QED BY <1>1, NextFileParts DEF Committed

\* The upload is to end, for one reason or another, once the request is taken back.
LEMMA UploadStops ==
  ASSUME Parts, Stay, clicks' = clicks, job # Null, job.kind = "upload", ~job.stale,
         job.at \in {"chunk", "commit", "delete"}, Len(job.results) = job.k - 1,
         NEW report \in {"error", "interrupted", "cancelled"}, NEW aborted \in BOOLEAN,
         report = "cancelled" => ~job.committing,
         job' = [job EXCEPT !.at = "delete", !.aborted = aborted, !.report = report]
  PROVE  Parts'
<1>1. PICK o, j : o = job /\ j = job'
  OBVIOUS
<1>2. o \in Job /\ Progress(o)
  BY <1>1, UploadProgress
<1>3. /\ j \in Job /\ j.kind = "upload" /\ j.id = o.id /\ ~j.stale /\ j.at = "delete" /\ j.k = o.k
      /\ j.answer = o.answer /\ j.committing = o.committing /\ j.results = o.results
      /\ j.report = report /\ j.dir = o.dir
  BY <1>1, <1>2 DEF Job
<1>4. Progress(j)
  BY <1>1, <1>2, <1>3, NullAssumption DEF Progress
<1>5. JobTypes' /\ JobParts'
  <2>1. job.at # "ended"
    OBVIOUS
  <2> QED BY <1>1, <1>2, <1>3, <1>4, <2>1, UploadTells, StayKeeps
<1> QED BY <1>1, <1>3, <1>5, UploadStays

LEMMA UploadDeniedParts == ASSUME Parts, UploadDenied, clicks' = clicks PROVE Parts'
<1>1. CASE On("upload", "start") /\ End("error")
  BY <1>1, LiveUpload, EndParts
<1>2. CASE /\ On("upload", "chunk") \/ On("upload", "commit")
           /\ job' = [job EXCEPT !.at = "delete", !.report = "error"] /\ Stay
  <2>1. /\ job # Null /\ job.kind = "upload" /\ ~job.stale /\ job.at \in {"chunk", "commit"}
        /\ job \in Job /\ Len(job.results) = job.k - 1
    BY <1>2, LiveUpload
  <2>2. PICK o, a : o = job /\ a = job.aborted
    OBVIOUS
  <2>3. o \in Job /\ a \in BOOLEAN
    BY <2>1, <2>2 DEF Job
  <2>4. [o EXCEPT !.at = "delete", !.report = "error"]
          = [o EXCEPT !.at = "delete", !.aborted = a, !.report = "error"]
    BY <2>2, <2>3 DEF Job
  <2> QED BY <1>2, <2>1, <2>2, <2>3, <2>4, UploadStops
<1> QED BY <1>1, <1>2 DEF UploadDenied

\* A cancelled upload has not been sent; one that was sent is called interrupted.
LEMMA UploadCancelParts == ASSUME Parts, UploadCancel, clicks' = clicks PROVE Parts'
<1>1. job # Null /\ job.kind = "upload" /\ ~job.aborted
  BY DEF UploadCancel
<1>2. ~job.stale
  BY <1>1 DEF Parts, PageParts, PageHidden
<1>3. job \in Job /\ Progress(job)
  BY <1>1, <1>2, UploadProgress
<1>4. CASE job.at \in {"authorize", "start"} /\ End("cancelled")
  <2>1. ~job.committing /\ Len(job.results) = job.k - 1 /\ job.at # "ended"
    BY <1>3, <1>4 DEF Progress
  <2> QED BY <1>1, <1>2, <1>4, <2>1, EndParts
<1>5. CASE /\ job.at \in IF job.report = Null THEN {"chunk", "commit"} ELSE {"delete"}
           /\ job' = [job EXCEPT !.at = "delete", !.aborted = TRUE,
                        !.report = IF job.committing THEN "interrupted" ELSE "cancelled"]
           /\ Stay
  <2>1. job.at \in {"chunk", "commit", "delete"} /\ Len(job.results) = job.k - 1
    BY <1>3, <1>5 DEF Progress
  <2>2. PICK o, r : o = job /\ r = IF job.committing THEN "interrupted" ELSE "cancelled"
    OBVIOUS
  <2>3. r \in {"error", "interrupted", "cancelled"} /\ (r = "cancelled" => ~job.committing)
        /\ job' = [job EXCEPT !.at = "delete", !.aborted = TRUE, !.report = r] /\ Stay
    BY <1>5, <2>2
  <2> QED BY <1>1, <1>2, <2>1, <2>3, UploadStops
<1>6. CASE /\ job.at = "delete" /\ job.report = Null
           /\ job' = [job EXCEPT !.aborted = TRUE] /\ Stay
  <2>1. PICK o, j : o = job /\ j = job'
    OBVIOUS
  <2>2. /\ j \in Job /\ j.kind = "upload" /\ j.id = o.id /\ ~j.stale /\ Progress(j) /\ j.k = o.k
        /\ j.answer = o.answer /\ j.committing = o.committing /\ j.results = o.results
        /\ j.report = Null
    BY <1>1, <1>2, <1>3, <1>6, <2>1 DEF Job, Progress
  <2>3. JobTypes' /\ JobParts'
    BY <1>1, <1>2, <1>6, <2>1, <2>2, UploadTells, StayKeeps, NullAssumption
  <2> QED BY <1>1, <1>2, <1>6, <2>1, <2>2, <2>3, UploadStays
<1> QED BY <1>4, <1>5, <1>6 DEF UploadCancel

\* The request that takes back an upload has ended: the page goes on, unless it was locked.
LEMMA DeletedParts == ASSUME Parts, Deleted, clicks' = clicks PROVE Parts'
<1>1. job # Null /\ job.kind = "upload" /\ job.at = "delete" /\ job \in Job
  BY DEF Deleted, On, Parts, JobTypes
<1>2. CASE job.stale
  <2>1. job.report = Null /\ job.aborted
    BY <1>1, <1>2 DEF Parts, PageParts, PageHidden
  <2>2. End("cancelled")
    BY <2>1 DEF Deleted
  <2>3. /\ job' = Null /\ UNCHANGED <<listing, retry, delayed, serverVars, unlocked, shown, timer,
                                      box, selected, info, copy, picker, jobs>>
    BY <1>2, <2>2 DEF End, Over, Live
  <2>4. ServerTypes' /\ ListTypes' /\ PanelTypes'
    BY <2>3, ServerFrame, ListFrame, PanelFrame DEF Parts, listVars, panelVars
  <2>5. JobTypes' /\ JobParts'
    BY <2>3, JobGone DEF Parts, JobTypes, serverVars
  <2>6. PageParts'
    BY <2>3
       DEF Parts, PageParts, PageHidden, DelayedConnected, DetailsMatchListing, DetailsLinked,
           Rows
  <2> QED BY <2>4, <2>5, <2>6 DEF Parts
<1>3. CASE ~job.stale
  <2>1. Progress(job)
    BY <1>1, <1>3, UploadProgress
  <2>2. CASE job.report # Null /\ End(job.report)
    <3>1. PICK r : r = job.report /\ r \in {"complete", "error", "cancelled", "interrupted"}
      BY <1>1, <2>2 DEF Job
    <3> QED BY <1>1, <1>3, <2>2, <3>1, EndParts
  <2>3. CASE job.report = Null /\ job.aborted /\ End("cancelled")
    <3>1. Len(job.results) = job.k
      BY <1>1, <2>1, <2>3 DEF Progress
    <3> QED BY <1>1, <1>3, <2>3, <3>1, EndParts
  <2>4. CASE job.report = Null /\ ~job.aborted /\ NextFile(job.results)
    <3>1. Len(job.results) = job.k
      BY <1>1, <2>1, <2>4 DEF Progress
    <3> QED BY <1>1, <1>3, <2>4, <3>1, NextFileParts
  <2> QED BY <2>2, <2>3, <2>4 DEF Deleted
<1> QED BY <1>2, <1>3
-----------------------------------------------------------------------------
(* How an upload begins. *)

LEMMA BeginUploadParts ==
  ASSUME Parts, unlocked, NEW dir \in Folders \union {0}, BeginUpload(dir), clicks' = clicks,
         picker' \in Folders \union {0, Null},
         UNCHANGED <<serverVars, unlocked, listVars, panelVars>>
  PROVE  Parts'
<1> DEFINE entry == [name |-> dir, rev |-> 0]
<1>1. Begin("upload", "authorize", entry, 1)
  BY DEF BeginUpload
<1>2. entry.name = dir /\ entry.rev = 0 /\ dir \in Names \union {0} /\ 1 \in 0..MaxFiles
  BY NamesNumbered, Bounds
<1> HIDE DEF entry
<1>3. JobTypes' /\ JobParts' /\ (job' # Null => ~job'.stale)
  BY <1>1, <1>2, BeginJob DEF serverVars
<1> QED BY <1>3, StayParts

LEMMA ShownDirectory ==
  ASSUME Parts, CanUpload
  PROVE  unlocked /\ shown.dir \in Folders \union {0}
  BY DEF Parts, ListTypes, CanUpload, Shown

LEMMA DropParts == ASSUME Parts, Drop, clicks' = clicks PROVE Parts'
<1>1. PICK dir : dir = shown.dir /\ dir \in Folders \union {0} /\ unlocked
  BY ShownDirectory DEF Drop
<1>2. picker' \in Folders \union {0, Null}
  BY DEF Drop, Parts, JobTypes
<1> QED BY <1>1, <1>2, BeginUploadParts DEF Drop

LEMMA PickerOpensParts == ASSUME Parts, PickerOpens, clicks' = clicks PROVE Parts'
<1>1. unlocked /\ shown.dir \in Folders \union {0}
  BY ShownDirectory DEF PickerOpens
<1>2. JobTypes'
  BY <1>1 DEF PickerOpens, Parts, JobTypes
<1>3. JobParts'
  BY JobFrame DEF PickerOpens, Parts, serverVars
<1>4. ServerTypes' /\ ListTypes' /\ PanelTypes'
  BY ServerFrame, ListFrame, PanelFrame DEF Parts, PickerOpens
<1>5. PageParts'
  BY <1>1
     DEF PickerOpens, Parts, PageParts, PageHidden, DelayedConnected, DetailsMatchListing,
         DetailsLinked, Rows, listVars, panelVars
<1> QED BY <1>2, <1>3, <1>4, <1>5 DEF Parts

LEMMA PickerChosenParts == ASSUME Parts, PickerChosen, clicks' = clicks PROVE Parts'
<1>1. CASE CanUpload /\ SameDirectory /\ BeginUpload(picker)
  <2>1. PICK dir : dir = picker /\ dir \in Folders \union {0} /\ unlocked
    BY <1>1, ShownDirectory DEF SameDirectory
  <2> QED BY <1>1, <2>1, BeginUploadParts DEF PickerChosen
<1>2. CASE UNCHANGED <<job, jobs>>
  <2>1. JobTypes' /\ JobParts'
    BY <1>2, JobFrame DEF PickerChosen, Parts, JobTypes, serverVars
  <2>2. ServerTypes' /\ ListTypes' /\ PanelTypes'
    BY ServerFrame, ListFrame, PanelFrame DEF Parts, PickerChosen
  <2>3. unlocked
    BY ShownUnlocked DEF PickerChosen
  <2>4. PageParts'
    BY <1>2, <2>3 DEF PickerChosen, Parts, PageParts, PageHidden, DelayedConnected,
       DetailsMatchListing, DetailsLinked, Rows, listVars, panelVars
  <2> QED BY <2>1, <2>2, <2>4 DEF Parts
<1> QED BY <1>1, <1>2 DEF PickerChosen

-----------------------------------------------------------------------------
(* Downloads: they change nothing, and say nothing of a write. *)

LEMMA DownloadParts ==
  ASSUME Parts, NEW entry \in Rows, Download(entry), clicks' = clicks
  PROVE  Parts'
<1>1. PICK e : e = entry /\ e \in Entry /\ unlocked
  BY RowsTyped
<1>2. e.name \in Names \ Folders /\ e.rev \in Nat
  BY <1>1 DEF Download, Entry
<1>3. Begin("download", "chunk", e, 0) /\ 0 \in 0..MaxFiles
  BY <1>1, Bounds DEF Download
<1>4. picker' \in Folders \union {0, Null}
  BY DEF Download, Parts, JobTypes
<1>5. JobTypes' /\ JobParts' /\ (job' # Null => ~job'.stale)
  BY <1>2, <1>3, <1>4, BeginJob DEF Download, serverVars
<1> QED BY <1>1, <1>5, StayParts DEF Download

LEMMA DownloadMoves ==
  ASSUME Parts, Stay, clicks' = clicks, job # Null, job.kind = "download",
         NEW at \in {"session", "ended"}, job' = [job EXCEPT !.at = at]
  PROVE  Parts'
<1>1. PICK o, j : o = job /\ j = job'
  OBVIOUS
<1>2. o \in Job /\ o.k = 0 /\ o.dir \in Names \ Folders /\ o.at \in {"chunk", "session", "ended"}
  BY <1>1 DEF Parts, JobTypes, JobParts, DownloadSound
<1>3. ~o.stale /\ unlocked
  BY <1>1, <1>2, ShownUnlocked DEF Parts, PageParts, PageHidden
<1>4. /\ j \in Job /\ j.kind = "download" /\ j.id = o.id /\ j.k = 0 /\ j.dir = o.dir /\ j.at = at
      /\ j.answer = o.answer /\ ~j.stale
  BY <1>1, <1>2, <1>3 DEF Job
<1>5. WireSound' /\ JobSound'
  BY <1>1, <1>2, <1>4, StayKeeps DEF Parts, JobParts, WireSound, JobSound
<1>6. UploadSound' /\ FolderSound' /\ DownloadSound' /\ ReportsTrue'
  BY <1>1, <1>2, <1>4 DEF UploadSound, FolderSound, DownloadSound, ReportsTrue
<1>7. JobTypes'
  BY <1>1, <1>4, StayKeeps DEF Parts, JobTypes
<1> QED BY <1>1, <1>3, <1>4, <1>5, <1>6, <1>7, StayParts DEF JobParts, Stay

LEMMA DownloadedParts == ASSUME Parts, Downloaded, clicks' = clicks PROVE Parts'
  BY DownloadMoves DEF Downloaded, On

LEMMA DownloadEndsParts == ASSUME Parts, DownloadEnds, clicks' = clicks PROVE Parts'
  BY DownloadMoves DEF DownloadEnds

-----------------------------------------------------------------------------
(* Operations on a directory. *)

LEMMA EditDirectoryParts ==
  ASSUME Parts, NEW entry \in Rows, EditDirectory(entry), clicks' = clicks
  PROVE  Parts'
<1>1. PICK e : e = entry /\ e \in Entry /\ e \in Rows /\ unlocked
  BY RowsTyped
<1>2. e.name \in Folders /\ e.name \in Names /\ e.rev \in Nat
  BY <1>1 DEF EditDirectory, Entry
<1>3. Begin("folder", "info", e, 0) /\ 0 \in 0..MaxFiles
  BY <1>1, Bounds DEF EditDirectory
<1>4. picker' \in Folders \union {0, Null}
  BY DEF EditDirectory, Parts, JobTypes
<1>5. JobTypes' /\ JobParts' /\ (job' # Null => ~job'.stale)
  BY <1>2, <1>3, <1>4, BeginJob DEF EditDirectory, serverVars
<1>6. /\ selected' = [name |-> e.name, rev |-> e.rev, panel |-> FALSE, gone |-> FALSE]
      /\ delayed' = Null
  BY <1>1 DEF EditDirectory, Panel
<1>7. selected' \in Selection /\ selected'.name = e.name /\ selected'.rev = e.rev
  BY <1>2, <1>6 DEF Selection
<1>8. ServerTypes' /\ ListTypes'
  BY ServerFrame, ListFrame DEF EditDirectory, Parts
<1>9. PanelTypes'
  BY <1>6, <1>7 DEF EditDirectory, Parts, PanelTypes
<1>10. PageParts'
  <2>1. Rows' = Rows
    BY DEF EditDirectory, Rows, listVars
  <2>2. DelayedConnected' /\ DetailsMatchListing'
    BY <1>1, <1>6, <1>7, <2>1
       DEF EditDirectory, Parts, PageParts, DelayedConnected, DetailsMatchListing, DetailsLinked
  <2>3. PageHidden'
    BY <1>1, <1>5 DEF EditDirectory, PageHidden
  <2> QED BY <2>2, <2>3 DEF PageParts
<1> QED BY <1>5, <1>8, <1>9, <1>10 DEF Parts, EditDirectory

LEMMA LiveFolder ==
  ASSUME Parts, job # Null, job.kind = "folder"
  PROVE  /\ job \in Job /\ ~job.stale /\ unlocked /\ job.k = 0 /\ job.dir \in Folders
         /\ job.at \in {"info", "ready", "authorize", "sent", "blocked", "ended"}
  BY ShownUnlocked DEF Parts, JobTypes, PageParts, PageHidden, JobParts, FolderSound

\* A dialog that goes on from where it is: nothing is sent, what it says is true.
LEMMA FolderMoves ==
  ASSUME Parts, job # Null, job.kind = "folder", UNCHANGED <<wire, done, jobs, picker>>,
         NEW j \in Job, job' = j, j.kind = "folder", j.id = job.id, j.k = 0, j.dir \in Folders,
         j.at \in {"info", "ready", "authorize", "sent", "blocked", "ended"},
         j.answer = "ok" => job.answer = "ok",
         j.at = "authorize" => j.answer = Null,
         j.at \in {"authorize", "sent"} => j.report = Null,
         Out(0) => \/ j.at = "sent" /\ j.answer \in {"ok", Null}
                   \/ j.at = "blocked" /\ j.report = "interrupted"
                   \/ j.at = "ended" /\ j.report = "complete",
         j.report = "complete" => <<job.id, 0>> \in done,
         j.report = "error" => ~Out(0)
  PROVE  JobTypes' /\ JobParts'
<1>1. \A k : Out(k)' <=> Out(k)
  BY DEF Out
<1>2. JobTypes'
  BY DEF Parts, JobTypes
<1>3. job.k = 0
  BY LiveFolder
<1>4. WireSound' /\ JobSound'
  BY <1>3 DEF Parts, JobParts, WireSound, JobSound
<1>5. UploadSound' /\ FolderSound' /\ DownloadSound' /\ ReportsTrue'
  BY <1>1 DEF UploadSound, FolderSound, DownloadSound, ReportsTrue
<1> QED BY <1>2, <1>4, <1>5 DEF JobParts

LEMMA FolderStays ==
  ASSUME Parts, Stay, clicks' = clicks, job # Null, job.kind = "folder", NEW j \in Job, job' = j,
         j.kind = "folder", j.id = job.id, j.k = 0, j.dir \in Folders, ~j.stale,
         j.at \in {"info", "ready", "authorize", "sent", "blocked", "ended"},
         j.answer = "ok" => job.answer = "ok",
         j.at = "authorize" => j.answer = Null,
         j.at \in {"authorize", "sent"} => j.report = Null,
         Out(0) => \/ j.at = "sent" /\ j.answer \in {"ok", Null}
                   \/ j.at = "blocked" /\ j.report = "interrupted"
                   \/ j.at = "ended" /\ j.report = "complete",
         j.report = "complete" => <<job.id, 0>> \in done,
         j.report = "error" => ~Out(0)
  PROVE  Parts'
<1>1. JobTypes' /\ JobParts'
  BY FolderMoves, StayKeeps
<1> QED BY <1>1, LiveFolder, StayParts DEF Stay

\* What a dialog that has not sent anything says.
LEMMA FolderNotOut ==
  ASSUME Parts, NEW at \in {"info", "ready", "authorize"}, On("folder", at)
  PROVE  /\ job # Null /\ job.kind = "folder" /\ job.at = at /\ ~Out(0)
         /\ job.report = "complete" => <<job.id, 0>> \in done
<1>1. job # Null /\ job.kind = "folder" /\ job.at = at
  BY DEF On
<1>2. ~Out(0)
  BY <1>1 DEF Parts, JobParts, FolderSound
<1>3. job.report = "complete" => <<job.id, 0>> \in done
  BY <1>1, NullAssumption DEF Parts, JobParts, ReportsTrue
<1> QED BY <1>1, <1>2, <1>3

LEMMA DescribedParts == ASSUME Parts, Described, clicks' = clicks PROVE Parts'
<1>1. PICK o, j, n : o = job /\ j = job' /\ n = Snapshot(job.dir)
  OBVIOUS
<1>2. /\ o # Null /\ o.kind = "folder" /\ o.at = "info" /\ ~Out(0)
      /\ o.report = "complete" => <<o.id, 0>> \in done
  BY <1>1, FolderNotOut DEF Described
<1>3. o \in Job /\ ~o.stale /\ o.k = 0 /\ o.dir \in Folders
  BY <1>1, <1>2, LiveFolder
<1>4. n \in Nat
  BY <1>1, <1>3, SnapshotTyped DEF Parts
<1>5. j = [o EXCEPT !.at = "ready", !.snap = n] /\ Stay
  BY <1>1 DEF Described
<1>6. /\ j \in Job /\ j.kind = "folder" /\ j.id = o.id /\ j.k = 0 /\ j.dir \in Folders /\ ~j.stale
      /\ j.at = "ready" /\ j.answer = o.answer /\ j.report = o.report
  BY <1>2, <1>3, <1>4, <1>5 DEF Job
<1> QED BY <1>1, <1>2, <1>5, <1>6, FolderStays

LEMMA NotDescribedParts == ASSUME Parts, NotDescribed, clicks' = clicks PROVE Parts'
<1>1. PICK o, j : o = job /\ j = job'
  OBVIOUS
<1>2. /\ o # Null /\ o.kind = "folder" /\ ~Out(0)
      /\ o.report = "complete" => <<o.id, 0>> \in done
  BY <1>1, FolderNotOut DEF NotDescribed
<1>3. o \in Job /\ ~o.stale /\ o.k = 0 /\ o.dir \in Folders
  BY <1>1, <1>2, LiveFolder
<1>4. j = [o EXCEPT !.at = "blocked"] /\ Stay
  BY <1>1 DEF NotDescribed
<1>5. /\ j \in Job /\ j.kind = "folder" /\ j.id = o.id /\ j.k = 0 /\ j.dir \in Folders /\ ~j.stale
      /\ j.at = "blocked" /\ j.answer = o.answer /\ j.report = o.report
  BY <1>2, <1>3, <1>4 DEF Job
<1> QED BY <1>1, <1>2, <1>4, <1>5, FolderStays

LEMMA SubmitParts == ASSUME Parts, Submit, clicks' = clicks PROVE Parts'
<1>1. PICK o, j : o = job /\ j = job'
  OBVIOUS
<1>2. o # Null /\ o.kind = "folder" /\ ~Out(0)
  BY <1>1, FolderNotOut DEF Submit
<1>3. o \in Job /\ ~o.stale /\ o.k = 0 /\ o.dir \in Folders
  BY <1>1, <1>2, LiveFolder
<1>4. j = [o EXCEPT !.at = "authorize", !.report = Null, !.answer = Null] /\ Stay
  BY <1>1 DEF Submit
<1>5. /\ j \in Job /\ j.kind = "folder" /\ j.id = o.id /\ j.k = 0 /\ j.dir \in Folders /\ ~j.stale
      /\ j.at = "authorize" /\ j.answer = Null /\ j.report = Null
  BY <1>2, <1>3, <1>4 DEF Job
<1> QED BY <1>1, <1>2, <1>4, <1>5, FolderStays, NullAssumption

LEMMA FolderRefusedParts == ASSUME Parts, FolderRefused, clicks' = clicks PROVE Parts'
<1>1. PICK o, j : o = job /\ j = job'
  OBVIOUS
<1>2. /\ o # Null /\ o.kind = "folder" /\ ~Out(0)
      /\ o.report = "complete" => <<o.id, 0>> \in done
  BY <1>1, FolderNotOut DEF FolderRefused
<1>3. o \in Job /\ ~o.stale /\ o.k = 0 /\ o.dir \in Folders
  BY <1>1, <1>2, LiveFolder
<1>4. j = [o EXCEPT !.at = "ready"] /\ Stay
  BY <1>1 DEF FolderRefused
<1>5. /\ j \in Job /\ j.kind = "folder" /\ j.id = o.id /\ j.k = 0 /\ j.dir \in Folders /\ ~j.stale
      /\ j.at = "ready" /\ j.answer = o.answer /\ j.report = o.report
  BY <1>2, <1>3, <1>4 DEF Job
<1> QED BY <1>1, <1>2, <1>4, <1>5, FolderStays
LEMMA FolderSentParts == ASSUME Parts, FolderSent, clicks' = clicks PROVE Parts'
<1>1. PICK o, j : o = job /\ j = job'
  OBVIOUS
<1>2. PICK r : r = [id |-> o.id, k |-> 0, dir |-> o.dir, snap |-> o.snap]
  OBVIOUS
<1>3. o # Null /\ o.kind = "folder" /\ o.at = "authorize" /\ ~Out(0)
  BY <1>1, FolderNotOut DEF FolderSent
<1>4. /\ o \in Job /\ ~o.stale /\ o.k = 0 /\ o.dir \in Folders /\ unlocked /\ o.id = jobs
      /\ o.answer = Null /\ o.report = Null
  BY <1>1, <1>3, LiveFolder DEF Parts, JobParts, JobSound, FolderSound
<1>5. /\ j = [o EXCEPT !.at = "sent"] /\ wire' = wire \union {r}
      /\ UNCHANGED <<rev, last, done, unlocked, listVars, panelVars, picker, jobs>>
  BY <1>1, <1>2 DEF FolderSent
<1>6. /\ j \in Job /\ j.kind = "folder" /\ j.id = o.id /\ ~j.stale /\ j.at = "sent" /\ j.k = 0
      /\ j.answer = Null /\ j.report = Null /\ j.dir = o.dir
  BY <1>3, <1>4, <1>5 DEF Job
<1>7. r \in Request /\ r.id = o.id /\ r.k = 0
  BY <1>2, <1>4, Bounds DEF Request, Job
<1>8. ServerTypes' /\ ListTypes' /\ PanelTypes' /\ JobTypes'
  BY <1>1, <1>5, <1>6, <1>7, ListFrame, PanelFrame DEF Parts, ServerTypes, JobTypes
<1>9. PageParts'
  BY <1>1, <1>4, <1>5, <1>6
     DEF Parts, PageParts, PageHidden, DelayedConnected, DetailsMatchListing, DetailsLinked, Rows,
         listVars, panelVars
<1>10. WireSound' /\ JobSound'
  <2>1. (\A q \in wire : q.id = o.id => q.k # 0) /\ <<o.id, 0>> \notin done
    BY <1>1, <1>3 DEF Out
  <2>2. o.id <= jobs /\ jobs' = jobs /\ done' = done
    BY <1>4, <1>5 DEF Parts, JobTypes
  <2>3. WireSound'
    BY <1>5, <1>7, <2>1, <2>2 DEF Parts, JobParts, WireSound
  <2> QED BY <1>1, <1>4, <1>5, <1>6, <2>3, NullAssumption DEF JobSound
<1>11. UploadSound' /\ FolderSound' /\ DownloadSound' /\ ReportsTrue'
  BY <1>1, <1>4, <1>6, NullAssumption DEF UploadSound, FolderSound, DownloadSound, ReportsTrue
<1> QED BY <1>8, <1>9, <1>10, <1>11 DEF Parts, JobParts

LEMMA FolderDoneParts == ASSUME Parts, FolderDone, clicks' = clicks PROVE Parts'
<1>1. PICK o, j : o = job /\ j = job'
  OBVIOUS
<1>2. o # Null /\ o.kind = "folder" /\ o.at = "sent" /\ o.answer = "ok"
  BY <1>1 DEF FolderDone, On
<1>3. /\ o \in Job /\ ~o.stale /\ o.k = 0 /\ o.dir \in Folders /\ unlocked
      /\ <<o.id, 0>> \in done
  BY <1>1, <1>2, LiveFolder DEF Parts, JobParts, JobSound
<1>4. j = [o EXCEPT !.at = "ended", !.report = "complete"]
  BY <1>1 DEF FolderDone
<1>5. /\ j \in Job /\ j.kind = "folder" /\ j.id = o.id /\ ~j.stale /\ j.at = "ended" /\ j.k = 0
      /\ j.answer = "ok" /\ j.report = "complete" /\ j.dir = o.dir
  BY <1>2, <1>3, <1>4 DEF Job
<1>6. JobTypes' /\ JobParts'
  BY <1>1, <1>2, <1>3, <1>5, FolderMoves DEF FolderDone, serverVars
<1>7. ServerTypes'
  BY ServerFrame DEF FolderDone, Parts
<1>8. ListTypes' /\ PanelTypes'
  BY DEF FolderDone, Load, Parts, ListTypes, PanelTypes, CurrentView
<1>9. PageParts'
  BY <1>1, <1>3, <1>5 DEF FolderDone, Load, Parts, PageParts, PageHidden, DelayedConnected,
     DetailsMatchListing, DetailsLinked, Rows
<1> QED BY <1>6, <1>7, <1>8, <1>9 DEF Parts

\* An error is told only of what was refused; what has no answer stays open.
LEMMA FolderFailsParts == ASSUME Parts, FolderFails, clicks' = clicks PROVE Parts'
<1>1. PICK o, j, a, r : /\ o = job /\ j = job' /\ a = (IF Retry THEN "ready" ELSE "blocked")
                        /\ r = (IF job.answer = Null THEN "interrupted" ELSE "error")
  OBVIOUS
<1>2. o # Null /\ o.kind = "folder" /\ o.at = "sent" /\ o.answer # "ok" /\ Stay
  BY <1>1 DEF FolderFails, On
<1>3. o \in Job /\ ~o.stale /\ o.k = 0 /\ o.dir \in Folders
  BY <1>1, <1>2, LiveFolder
<1>4. j = [o EXCEPT !.at = a, !.report = r]
  BY <1>1 DEF FolderFails
<1>5. a \in {"ready", "blocked"} /\ r \in {"interrupted", "error"}
  BY <1>1
<1>6. /\ j \in Job /\ j.kind = "folder" /\ j.id = o.id /\ ~j.stale /\ j.at = a /\ j.k = 0
      /\ j.answer = o.answer /\ j.report = r /\ j.dir = o.dir
  BY <1>2, <1>3, <1>4, <1>5 DEF Job
<1>7. Out(0) => o.answer = Null
  BY <1>1, <1>2 DEF Parts, JobParts, FolderSound
<1>8. o.answer = Null => a = "blocked" /\ r = "interrupted"
  BY <1>1, NullAssumption DEF Retry
<1>9. o.answer # Null => r = "error"
  BY <1>1
<1> QED BY <1>1, <1>2, <1>3, <1>5, <1>6, <1>7, <1>8, <1>9, FolderStays

LEMMA CloseFolderDialogParts == ASSUME Parts, CloseFolderDialog, clicks' = clicks PROVE Parts'
<1>1. job # Null /\ job.kind = "folder" /\ job' = Null /\ Stay
  BY DEF CloseFolderDialog, Modal
<1>2. JobParts' /\ JobTypes'
  BY <1>1, StayKeeps, JobGone DEF Parts, JobTypes
<1> QED BY <1>1, <1>2, LiveFolder, StayParts DEF Stay

-----------------------------------------------------------------------------
(* What the server does. *)

\* The answer reaches the job that waits for it, and says what has become of the request.
LEMMA AnsweredParts ==
  ASSUME Parts, NEW r \in wire, wire' = wire \ {r}, clicks' = clicks,
         NEW answer \in {"ok", "error", "files_write_required", "directory_changed",
                         "directory_exists"},
         Answered(r, answer),
         IF answer = "ok" THEN done' = done \union {<<r.id, r.k>>} ELSE done' = done,
         ServerTypes', UNCHANGED <<unlocked, listVars, panelVars, picker, jobs>>
  PROVE  Parts'
<1>1. PICK o, j : o = job /\ j = job'
  OBVIOUS
<1>2. /\ r \in Request /\ r.id <= jobs /\ <<r.id, r.k>> \notin done
      /\ \A q \in wire : q.id = r.id /\ q.k = r.k => q = r
  BY DEF Parts, ServerTypes, JobParts, WireSound
<1>3. WireSound'
  <2>1. \A q \in wire' : q \in wire /\ (q.id # r.id \/ q.k # r.k)
    BY <1>2
  <2>2. \A q \in wire' : <<q.id, q.k>> # <<r.id, r.k>>
    BY <2>1
  <2>3. <<r.id, r.k>>[1] = r.id
    OBVIOUS
  <2> QED BY <1>2, <2>1, <2>2, <2>3 DEF Parts, JobParts, WireSound
<1>4. CASE o = Null
  <2>1. j = Null
    BY <1>1, <1>4 DEF Answered
  <2>2. JobTypes' /\ ListTypes' /\ PanelTypes'
    BY <1>1, <2>1, ListFrame, PanelFrame DEF Parts, JobTypes
  <2>3. PageParts'
    BY <1>1, <2>1, <1>4
       DEF Parts, PageParts, PageHidden, DelayedConnected, DetailsMatchListing, DetailsLinked,
           Rows, listVars, panelVars
  <2>4. JobParts'
    BY <1>1, <1>3, <2>1
       DEF JobParts, JobSound, UploadSound, FolderSound, DownloadSound, ReportsTrue
  <2> QED BY <2>2, <2>3, <2>4 DEF Parts
<1>5. CASE o # Null
  <2>1. o \in Job
    BY <1>1, <1>5 DEF Parts, JobTypes
  <2>2. /\ j \in Job /\ j.kind = o.kind /\ j.id = o.id /\ j.at = o.at /\ j.k = o.k /\ j.dir = o.dir
        /\ j.results = o.results /\ j.report = o.report /\ j.committing = o.committing
        /\ j.aborted = o.aborted /\ j.stale = o.stale
        /\ j.answer = IF o.id = r.id /\ o.k = r.k /\ o.at \in {"commit", "sent"}
                      THEN answer ELSE o.answer
    BY <1>1, <1>5, <2>1 DEF Answered, Job
  <2>3. JobTypes' /\ ListTypes' /\ PanelTypes'
    BY <1>1, <2>2, ListFrame, PanelFrame DEF Parts, JobTypes
  <2>4. PageParts'
    <3>1. PageHidden'
      BY <1>1, <1>5, <2>2 DEF Parts, PageParts, PageHidden, listVars, panelVars
    <3>2. DelayedConnected' /\ DetailsMatchListing'
      BY DEF Parts, PageParts, DelayedConnected, DetailsMatchListing, DetailsLinked, Rows,
             listVars, panelVars
    <3> QED BY <3>1, <3>2 DEF PageParts
  <2>5. done \subseteq done'
    OBVIOUS
  <2>6. \A k : Out(k)' => Out(k)
    <3> SUFFICES ASSUME NEW k, Out(k)' PROVE Out(k)
      OBVIOUS
    <3>1. CASE <<o.id, k>> \in done'
      <4>1. <<o.id, k>> \in done \/ <<o.id, k>> = <<r.id, r.k>>
        BY <3>1
      <4>2. <<o.id, k>> = <<r.id, r.k>> => o.id = r.id /\ k = r.k
        OBVIOUS
      <4> QED BY <1>1, <4>1, <4>2 DEF Out
    <3>2. CASE \E q \in wire' : q.id = o.id /\ q.k = k
      BY <1>1, <3>2 DEF Out
    <3> QED BY <1>1, <2>2, <3>1, <3>2 DEF Out
  <2>7. answer # "ok" /\ o.id = r.id => ~Out(r.k)'
    BY <1>1, <1>2, <2>2 DEF Out
  <2>8. JobSound'
    BY <1>1, <1>5, <2>2, <2>5 DEF Parts, JobParts, JobSound
  <2>9. UploadSound'
    BY <1>1, <1>5, <2>2, <2>6 DEF Parts, JobParts, UploadSound
  <2>10. DownloadSound'
    BY <1>1, <1>5, <2>2 DEF Parts, JobParts, DownloadSound
  <2>11. FolderSound'
    <3> SUFFICES ASSUME o.kind = "folder" PROVE FolderSound'
      BY <1>1, <2>2 DEF FolderSound
    <3>1. /\ o.k = 0 /\ o.dir \in Folders
          /\ o.at \in {"info", "ready", "authorize", "sent", "blocked", "ended"}
          /\ o.at = "authorize" => o.answer = Null
          /\ o.at \in {"authorize", "sent"} => o.report = Null
          /\ Out(0) => \/ o.at = "sent" /\ o.answer \in {"ok", Null}
                       \/ o.at = "blocked" /\ o.report = "interrupted"
                       \/ o.at = "ended" /\ o.report = "complete"
      BY <1>1, <1>5 DEF Parts, JobParts, FolderSound
    <3>2. j.at = "authorize" => j.answer = Null
      BY <2>2, <3>1
    <3>3. Out(0)' => \/ j.at = "sent" /\ j.answer \in {"ok", Null}
                     \/ j.at = "blocked" /\ j.report = "interrupted"
                     \/ j.at = "ended" /\ j.report = "complete"
      BY <2>2, <2>6, <2>7, <3>1
    <3> QED BY <1>1, <2>2, <3>1, <3>2, <3>3 DEF FolderSound
  <2>12. ReportsTrue'
    BY <1>1, <1>5, <2>2, <2>5, <2>6 DEF Parts, JobParts, ReportsTrue
  <2> QED BY <1>3, <2>3, <2>4, <2>8, <2>9, <2>10, <2>11, <2>12 DEF Parts, JobParts
<1> QED BY <1>4, <1>5

LEMMA ServeCommitParts ==
  ASSUME Parts, NEW r \in wire, ServeCommit(r), clicks' = clicks
  PROVE  Parts'
<1>1. r \in Request
  BY DEF Parts, ServerTypes
<1>2. wire' = wire \ {r} /\ UNCHANGED <<rev, last, unlocked, listVars, panelVars, picker, jobs>>
  BY DEF ServeCommit
<1>3. <<r.id, r.k>> \in (1..MaxJobs) \X (0..MaxFiles)
  BY <1>1 DEF Request
<1>4. CASE done' = done \union {<<r.id, r.k>>} /\ Answered(r, "ok")
  <2>1. ServerTypes'
    BY <1>2, <1>3, <1>4 DEF Parts, ServerTypes
  <2> QED BY <1>2, <1>4, <2>1, AnsweredParts
<1>5. CASE UNCHANGED done /\ \E code \in {"error", "files_write_required"} : Answered(r, code)
  <2>1. ServerTypes'
    BY <1>2, <1>5 DEF Parts, ServerTypes
  <2> QED BY <1>2, <1>5, <2>1, AnsweredParts
<1> QED BY <1>4, <1>5 DEF ServeCommit

LEMMA ServeFolderParts ==
  ASSUME Parts, NEW r \in wire, ServeFolder(r), clicks' = clicks
  PROVE  Parts'
<1>1. r \in Request
  BY DEF Parts, ServerTypes
<1>2. wire' = wire \ {r} /\ UNCHANGED <<last, unlocked, listVars, panelVars, picker, jobs>>
  BY DEF ServeFolder
<1>3. <<r.id, r.k>> \in (1..MaxJobs) \X (0..MaxFiles)
  BY <1>1 DEF Request
<1>4. CASE /\ rev' = [n \in Names \ Folders |-> IF Home[n] = r.dir THEN 0 ELSE rev[n]]
           /\ done' = done \union {<<r.id, r.k>>} /\ Answered(r, "ok")
  <2>1. last \in 0..MaxRevision /\ rev \in [Names \ Folders -> 0..last] /\ 0 \in 0..last
    BY Bounds DEF Parts, ServerTypes
  <2>2. rev' \in [Names \ Folders -> 0..last]
    BY <1>4, <2>1
  <2>3. done' \subseteq (1..MaxJobs) \X (0..MaxFiles) /\ wire' \subseteq Request
    BY <1>2, <1>3, <1>4 DEF Parts, ServerTypes
  <2>4. ServerTypes'
    BY <1>2, <2>1, <2>2, <2>3 DEF ServerTypes
  <2> QED BY <1>2, <1>4, <2>4, AnsweredParts
<1>5. CASE UNCHANGED <<rev, done>> /\ \E code \in {"directory_changed", "directory_exists"} :
                                         Answered(r, code)
  <2>1. ServerTypes'
    BY <1>2, <1>5 DEF Parts, ServerTypes
  <2> QED BY <1>2, <1>5, <2>1, AnsweredParts
<1> QED BY <1>4, <1>5 DEF ServeFolder

LEMMA ForeignParts ==
  ASSUME Parts, NEW n \in Names \ Folders, Foreign(n), clicks' = clicks
  PROVE  Parts'
<1>1. PICK l : l = last' /\ l = last + 1 /\ l \in 0..MaxRevision /\ last \in Nat
  BY Bounds DEF Foreign, Parts, ServerTypes
<1>2. PICK new \in {0, l} : rev' = [rev EXCEPT ![n] = new]
  BY <1>1 DEF Foreign
<1>3. rev \in [Names \ Folders -> 0..l] /\ new \in 0..l
  BY <1>1, <1>2 DEF Parts, ServerTypes
<1>4. rev' \in [Names \ Folders -> 0..l]
  BY <1>2, <1>3
<1>5. ServerTypes' /\ ListTypes' /\ PanelTypes' /\ JobTypes' /\ JobParts'
  BY <1>1, <1>4, ListFrame, PanelFrame, JobTypeFrame, JobFrame
     DEF Foreign, Parts, ServerTypes, jobVars
<1>6. PageParts'
  BY DEF Foreign, Parts, PageParts, PageHidden, DelayedConnected, DetailsMatchListing,
         DetailsLinked, Rows,
     listVars, panelVars, jobVars
<1> QED BY <1>5, <1>6 DEF Parts
-----------------------------------------------------------------------------
(* The theorems. *)

LEMMA UserParts == ASSUME Parts, UserNext PROVE Parts'
<1>1. clicks' \in 0..MaxClicks
  BY Bounds DEF UserNext, Click, Parts
<1> QED BY <1>1, NavigateParts, SearchChangedParts, SelectParts, PropertiesParts, CopyPathParts,
           RefreshParts, NextPageParts, PreviousPageParts, CloseDetailsParts DEF UserNext

LEMMA PageStepParts == ASSUME Parts, PageNext, clicks' = clicks PROVE Parts'
<1>1. CASE Lock
  BY <1>1, LockPageParts DEF Lock
<1> QED BY <1>1, SearchTimerParts, LoadedParts, LoadFailsParts, DetailsTimerParts,
           InfoArrivesParts, InfoFailsParts, CopyDoneParts, CopyFailsParts, UnlockParts
           DEF PageNext

LEMMA UploadParts == ASSUME Parts, UploadNext, clicks' = clicks PROVE Parts'
  BY DropParts, PickerOpensParts, PickerChosenParts, UploadAuthorizedParts, UploadRefusedParts,
     UploadStartedParts, StartFailsParts, ChunksSentParts, ChunkFailsParts, CommittedParts,
     CommitFailsParts, UploadDeniedParts, UploadCancelParts, DeletedParts DEF UploadNext

LEMMA DownloadStepParts == ASSUME Parts, DownloadNext, clicks' = clicks PROVE Parts'
<1>1. ASSUME NEW entry \in Rows, OpenEditor(entry) PROVE Parts'
  BY <1>1, LockPageParts DEF OpenEditor
<1> QED BY <1>1, DownloadParts, DownloadedParts, DownloadEndsParts DEF DownloadNext

LEMMA FolderParts == ASSUME Parts, FolderNext, clicks' = clicks PROVE Parts'
  BY EditDirectoryParts, DescribedParts, NotDescribedParts, SubmitParts, FolderRefusedParts,
     FolderSentParts, FolderDoneParts, FolderFailsParts, CloseFolderDialogParts DEF FolderNext

LEMMA ServerParts == ASSUME Parts, ServerNext, clicks' = clicks PROVE Parts'
  BY ServeCommitParts, ServeFolderParts, ForeignParts DEF ServerNext

LEMMA StutterParts == ASSUME Parts, UNCHANGED vars PROVE Parts'
<1>1. ServerTypes' /\ ListTypes' /\ PanelTypes' /\ JobTypes' /\ JobParts'
  BY ServerFrame, ListFrame, PanelFrame, JobTypeFrame, JobFrame
     DEF Parts, vars, serverVars, jobVars
<1>2. PageParts'
  BY DEF vars, Parts, PageParts, PageHidden, DelayedConnected, DetailsMatchListing, DetailsLinked,
         Rows, listVars, panelVars, jobVars
<1> QED BY <1>1, <1>2 DEF Parts, vars

LEMMA StepParts == Parts /\ [Next]_vars => Parts'
<1> SUFFICES ASSUME Parts, [Next]_vars PROVE Parts'
  OBVIOUS
<1> QED BY UserParts, PageStepParts, UploadParts, DownloadStepParts, FolderParts, ServerParts,
           StutterParts DEF Next

\* Inv of the page and its jobs holds in every state that can be reached.
THEOREM ExplorerSound == Spec => []Inv
<1>1. Spec => []Parts
  BY InitParts, StepParts, PTL DEF Spec
<1> QED BY <1>1, PartsAreInv, PTL

\* Every variable of the page and of the server keeps its type; a page of the listing holds no
\* more entries than the server may send, and each view has the cursor of its page.
THEOREM TypeCorrect == Spec => []TypeOK
<1>1. Inv => TypeOK
  BY DEF Inv
<1> QED BY <1>1, ExplorerSound, PTL

\* Whatever timers fire and answers come after lock(), nothing of the files is shown until access
\* is given again, and the end of an upload that is being taken back says nothing.
THEOREM LockHides == Spec => []HiddenWhenLocked
<1>1. Inv => HiddenWhenLocked
  BY DEF Inv, PageHidden, HiddenWhenLocked
<1> QED BY <1>1, ExplorerSound, PTL

\* The details are those of a row that is shown, in the revision it shows, in whatever order
\* listings, timers, answers and the clipboard come: all but those a failed copy opens for a row
\* that has gone.
THEOREM DetailsAreShown == Spec => []DetailsMatchListing
<1>1. Inv => DetailsMatchListing
  BY DEF Inv
<1> QED BY <1>1, ExplorerSound, PTL

\* What the page reports of an upload or of an operation on a directory is what has become of it
\* on the server, also when answers are lost or requests are served after they were given up.
THEOREM ReportsAreTrue == Spec => []ReportsTrue
<1>1. Inv => ReportsTrue
  BY DEF Inv
<1> QED BY <1>1, ExplorerSound, PTL
=============================================================================
