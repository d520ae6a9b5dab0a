-------------------------- MODULE EditorPageProofs --------------------------
(***************************************************************************)
(* Theorems about EditorPage, for every value of its constants.  The       *)
(* invariant is taken apart by the variables that its parts speak of, so   *)
(* that an action is looked at only where it changes something.            *)
(***************************************************************************)
EXTENDS EditorPage, SequenceTheorems, TLAPS

Source == Contents \union {Deleted}

ServerTypes ==
    /\ history \in Seq(Source) /\ Len(history) # 0 /\ conflicts \subseteq Contents
    /\ late \in Put \union {Null} /\ foreign \in 0..MaxForeign

TextTypes ==
    /\ entry \in Nat /\ eol \in {"lf", "crlf"}
    /\ {savedText, input} \subseteq Texts \union {Empty} /\ edits \in 0..MaxEdits

SaveTypes ==
    /\ timer \in BOOLEAN /\ saving \in Save \union {Null}
    /\ unconfirmed \in Put \union {Null}
    /\ saveError \in {"", "revision_changed", "conflict_storage_full", "other"}
    /\ notice \in BOOLEAN

AccessTypes ==
    /\ generation \in 0..MaxGenerations + 1 /\ unlocked \in BOOLEAN /\ editAllowed \in BOOLEAN
    /\ opening \in Stage({"load", "loaded", "edit"}) \union {Null}
    /\ retrying \in Stage({"auth", "load", "loaded", "flush"}) \union {Null}
    /\ unlocked => generation <= MaxGenerations

RunTypes ==
    /\ {ready, runnerRetry} \subseteq BOOLEAN /\ detecting \in 0..MaxGenerations
    /\ starting \in [at : {"flush", "sent", "running"}, rev : Nat, job : 0..MaxJobs] \union {Null}
    /\ job \in 0..MaxJobs /\ polling \in BOOLEAN
    /\ runTexts \in Seq(Texts) /\ calls \in [1..MaxCalls -> Call \union {Null}]
    /\ orphans \subseteq [job : 1..MaxJobs, rev : Nat]
    /\ runner \in [job : 1..MaxJobs, source : Contents, over : BOOLEAN] \union {Null}

LeaveTypes ==
    /\ departing \in [at : {"flush", "stop"}, logout : BOOLEAN] \union {Null}
    /\ leaving \in BOOLEAN /\ lost \in {"no", "unload"}

EntrySound == entry # 0 => Served(entry, savedText) /\ input \in Texts

Parts ==
    /\ ServerTypes /\ TextTypes /\ SaveTypes /\ AccessTypes /\ RunTypes /\ LeaveTypes
    /\ EntrySound /\ SavesSound /\ AnswersSound /\ StartsSound /\ RunsSavedText /\ DepartureSound

LEMMA BoundsStartAtZero ==
  0 \in 0..MaxForeign /\ 0 \in 0..MaxEdits /\ 0 \in 0..MaxGenerations /\ 0 \in 0..MaxJobs
<1>1. /\ MaxForeign \in Nat /\ MaxEdits \in Nat /\ MaxGenerations \in Nat /\ MaxJobs \in Nat
  BY BoundsAssumption
<1> QED BY <1>1

LEMMA PartsMakeInv == Parts => Inv
<1> SUFFICES ASSUME Parts PROVE Inv
  OBVIOUS
<1>1. entry \in 0..Len(history)
  BY DEF Parts, ServerTypes, TextTypes, EntrySound, Served
<1>2. TypeOK
  BY <1>1 DEF Parts, TypeOK, ServerTypes, TextTypes, SaveTypes, AccessTypes, RunTypes, LeaveTypes, Source
<1>3. DepartsSaved
  BY DEF Parts, LeaveTypes, DepartsSaved
<1> QED BY <1>2, <1>3 DEF Parts, Inv, AccessTypes, EntrySound

\* A part holds on as long as nothing it speaks of changes.
LEMMA Frame ==
  ASSUME Parts
  PROVE  /\ UNCHANGED serverVars => ServerTypes'
         /\ UNCHANGED textVars => TextTypes'
         /\ UNCHANGED saveVars => SaveTypes'
         /\ UNCHANGED accessVars => AccessTypes'
         /\ UNCHANGED runVars => RunTypes'
         /\ UNCHANGED leaveVars => LeaveTypes'
         /\ UNCHANGED <<history, entry, savedText, input>> => EntrySound'
         /\ UNCHANGED <<history, entry, saving, late, unconfirmed>> => SavesSound'
         /\ UNCHANGED <<history, entry, opening, retrying, unlocked>> => AnswersSound'
         /\ UNCHANGED <<history, entry, starting, runTexts, orphans, runner>> => StartsSound'
         /\ UNCHANGED <<runner, runTexts>> => RunsSavedText'
         /\ UNCHANGED <<history, entry, input, departing, unlocked>> => DepartureSound'
<1> USE DEF Parts
<1>1. UNCHANGED serverVars => ServerTypes'
  BY DEF serverVars, ServerTypes
<1>2. UNCHANGED textVars => TextTypes'
  BY DEF textVars, TextTypes
<1>3. UNCHANGED saveVars => SaveTypes'
  BY DEF saveVars, SaveTypes
<1>4. UNCHANGED accessVars => AccessTypes'
  BY DEF accessVars, AccessTypes
<1>5. UNCHANGED runVars => RunTypes'
  BY DEF runVars, RunTypes
<1>6. UNCHANGED leaveVars => LeaveTypes'
  BY DEF leaveVars, LeaveTypes
<1>7. UNCHANGED <<history, entry, savedText, input>> => EntrySound'
  BY DEF EntrySound, Served
<1>8. UNCHANGED <<history, entry, saving, late, unconfirmed>> => SavesSound'
  BY DEF SavesSound, PutSound, Served
<1>9. UNCHANGED <<history, entry, opening, retrying, unlocked>> => AnswersSound'
  BY DEF AnswersSound, Served
<1>10. UNCHANGED <<history, entry, starting, runTexts, orphans, runner>> => StartsSound'
  BY DEF StartsSound, Served
<1>11. UNCHANGED <<runner, runTexts>> => RunsSavedText'
  BY DEF RunsSavedText
<1>12. UNCHANGED <<history, entry, input, departing, unlocked>> => DepartureSound'
  BY DEF DepartureSound, Served
<1> QED BY <1>1, <1>2, <1>3, <1>4, <1>5, <1>6, <1>7, <1>8, <1>9, <1>10, <1>11, <1>12

-----------------------------------------------------------------------------
(* The server. *)

\* A version that comes leaves those before it as they are.
LEMMA HistoryGrows ==
  ASSUME history \in Seq(Source), NEW c \in Source, history' = Append(history, c)
  PROVE  /\ history' \in Seq(Source)
         /\ Len(history') = Len(history) + 1 /\ history'[Len(history) + 1] = c
         /\ Len(history') # 0
         /\ DOMAIN history = 1..Len(history) /\ DOMAIN history' = 1..Len(history) + 1
         /\ \A r \in DOMAIN history : r \in DOMAIN history' /\ history'[r] = history[r]
         /\ \A r, text : Served(r, text) => Served(r, text)'
<1>1. /\ history' \in Seq(Source)
      /\ Len(history') = Len(history) + 1 /\ history'[Len(history) + 1] = c
      /\ \A r \in 1..Len(history) : history'[r] = history[r]
  BY AppendProperties
<1>2. DOMAIN history = 1..Len(history) /\ DOMAIN history' = 1..Len(history) + 1
  BY <1>1, LenProperties
<1>3. \A r \in DOMAIN history : r \in DOMAIN history' /\ history'[r] = history[r]
  BY <1>1, <1>2
<1>4. ASSUME NEW r, NEW text, Served(r, text) PROVE Served(r, text)'
  BY <1>3, <1>4 DEF Served
<1>5. Len(history') # 0
  BY <1>1, LenProperties
<1> QED BY <1>1, <1>2, <1>3, <1>4, <1>5

\* What the page relies on survives a version that comes, as long as it asks no more.
LEMMA HistoryKeeps ==
  ASSUME Parts, NEW c \in Source, history' = Append(history, c),
         UNCHANGED <<entry, savedText, input, opening, retrying, unlocked, starting, runTexts,
                     orphans, runner, departing>>
  PROVE  EntrySound' /\ AnswersSound' /\ StartsSound' /\ DepartureSound'
<1>1. /\ \A r \in DOMAIN history : r \in DOMAIN history'
      /\ \A r, text : Served(r, text) => Served(r, text)'
  BY HistoryGrows DEF Parts, ServerTypes
<1>2. EntrySound'
  BY <1>1 DEF Parts, EntrySound
<1>3. AnswersSound'
  BY <1>1 DEF Parts, AnswersSound
<1>4. StartsSound'
  BY <1>1 DEF Parts, StartsSound
<1>5. DepartureSound'
  BY <1>1 DEF Parts, DepartureSound
<1> QED BY <1>2, <1>3, <1>4, <1>5

\* The save in flight comes to another state.
LEMMA SavingMoves ==
  ASSUME Parts, \A p : PutSound(p) => PutSound(p)', UNCHANGED <<entry, late, unconfirmed>>,
         NEW w, saving' = w, entry # 0, PutSound(w.put),
         w.at = "stored" => w.rev \in DOMAIN history' /\ history'[w.rev] = w.put.code
  PROVE  SavesSound'
<1>1. late' # Null => PutSound(late)'
  <2>1. PICK l : l = late
    OBVIOUS
  <2>2. late' = l /\ (l # Null => PutSound(l)')
    BY <2>1 DEF Parts, SavesSound
  <2> QED BY <2>2 DEF PutSound, Served
<1>2. unconfirmed' # Null => (unconfirmed.code.text = unconfirmed.text)'
  BY DEF Parts, SavesSound
<1>3. PutSound(w.put)'
  OBVIOUS
<1>4. PutSound(saving.put)'
  BY <1>3 DEF PutSound, Served
<1>5. entry' # 0 /\ (saving.at = "stored" =>
          saving.rev \in DOMAIN history /\ history[saving.rev] = saving.put.code)'
  OBVIOUS
<1> QED BY <1>1, <1>2, <1>4, <1>5 DEF SavesSound

LEMMA SaveServedInv ==
  ASSUME Parts, SaveServed
  PROVE  Parts'
<1>1. PICK s : s = saving /\ s \in Save /\ s.at = "sent" /\ PutSound(s.put) /\ s.put \in Put /\ entry # 0
  BY DEF SaveServed, Parts, SaveTypes, SavesSound, Save
<1>2. /\ UNCHANGED <<late, foreign, timer, unconfirmed, saveError, notice>>
      /\ UNCHANGED textVars /\ UNCHANGED accessVars /\ UNCHANGED runVars /\ UNCHANGED leaveVars
  BY DEF SaveServed
<1>3. /\ TextTypes' /\ AccessTypes' /\ RunTypes' /\ LeaveTypes' /\ RunsSavedText'
  BY <1>2, Frame DEF runVars
<1>4. CASE /\ history' = Append(history, s.put.code) /\ UNCHANGED conflicts
           /\ saving' = [s EXCEPT !.at = "stored", !.rev = Len(history) + 1]
  <2>1. s.put.code \in Source /\ history \in Seq(Source) /\ Len(history) + 1 \in Nat
    BY <1>1, LenProperties DEF Put, Source, Parts, ServerTypes
  <2>2. EntrySound' /\ AnswersSound' /\ StartsSound' /\ DepartureSound'
    BY <1>2, <1>4, <2>1, HistoryKeeps DEF textVars, accessVars, runVars, leaveVars
  <2>3. /\ history' \in Seq(Source) /\ Len(history') # 0
        /\ Len(history) + 1 \in DOMAIN history' /\ history'[Len(history) + 1] = s.put.code
        /\ \A p : PutSound(p) => PutSound(p)'
    BY <1>4, <2>1, HistoryGrows, LenProperties DEF PutSound
  <2>4. ServerTypes'
    BY <1>2, <1>4, <2>3 DEF Parts, ServerTypes
  <2>5. PICK n, w : n = Len(history) + 1 /\ w = [s EXCEPT !.at = "stored", !.rev = n]
    OBVIOUS
  <2>6. saving' = w
    BY <1>4, <2>5
  <2>7. w \in Save /\ w.put = s.put /\ w.at = "stored" /\ w.rev = Len(history) + 1
    BY <1>1, <2>1, <2>5 DEF Save
  <2>8. SaveTypes'
    BY <1>2, <2>6, <2>7 DEF Parts, SaveTypes
  <2>9. SavesSound'
    BY <1>1, <1>2, <2>3, <2>6, <2>7, SavingMoves DEF textVars
  <2> QED BY <1>3, <2>2, <2>4, <2>8, <2>9 DEF Parts
<1>5. CASE \E full \in BOOLEAN : /\ saving' = [s EXCEPT !.at = IF full THEN "full" ELSE "conflict"]
                                 /\ Preserve(s.put, full)
  <2>1. PICK full \in BOOLEAN : /\ saving' = [s EXCEPT !.at = IF full THEN "full" ELSE "conflict"]
                                /\ Preserve(s.put, full)
    BY <1>5
  <2>2. PICK w : w = [s EXCEPT !.at = IF full THEN "full" ELSE "conflict"]
    OBVIOUS
  <2>3. w \in Save /\ w.put = s.put /\ w.at \in {"full", "conflict"} /\ saving' = w
    BY <1>1, <2>1, <2>2 DEF Save
  <2>4. history' = history /\ ServerTypes'
    BY <1>1, <1>2, <2>1 DEF Preserve, Parts, ServerTypes, Put
  <2>5. SaveTypes'
    BY <1>2, <2>3 DEF Parts, SaveTypes
  <2>6. EntrySound' /\ AnswersSound' /\ StartsSound' /\ DepartureSound'
    BY <1>2, <2>4, Frame DEF textVars, accessVars, runVars, leaveVars
  <2>7. \A p : PutSound(p) => PutSound(p)'
    BY <2>4 DEF PutSound, Served
  <2>8. SavesSound'
    BY <1>1, <1>2, <2>3, <2>7, SavingMoves DEF textVars
  <2> QED BY <1>3, <2>4, <2>5, <2>6, <2>8 DEF Parts
<1> QED BY <1>1, <1>4, <1>5 DEF SaveServed

LEMMA LateSaveServedInv ==
  ASSUME Parts, LateSaveServed
  PROVE  Parts'
<1>1. PICK l : l = late /\ l \in Put /\ late' = Null
  BY DEF LateSaveServed, Parts, ServerTypes
<1>2. /\ UNCHANGED foreign /\ UNCHANGED textVars /\ UNCHANGED saveVars /\ UNCHANGED accessVars
      /\ UNCHANGED runVars /\ UNCHANGED leaveVars
  BY DEF LateSaveServed
<1>3. /\ TextTypes' /\ SaveTypes' /\ AccessTypes' /\ RunTypes' /\ LeaveTypes' /\ RunsSavedText'
  BY <1>2, Frame DEF runVars
<1>4. CASE history' = Append(history, l.code) /\ UNCHANGED conflicts
  <2>1. l.code \in Source /\ history \in Seq(Source)
    BY <1>1 DEF Put, Source, Parts, ServerTypes
  <2>2. EntrySound' /\ AnswersSound' /\ StartsSound' /\ DepartureSound'
    BY <1>2, <1>4, <2>1, HistoryKeeps DEF textVars, accessVars, runVars, leaveVars
  <2>3. /\ history' \in Seq(Source) /\ Len(history') # 0
        /\ \A r \in DOMAIN history : r \in DOMAIN history' /\ history'[r] = history[r]
        /\ \A p : PutSound(p) => PutSound(p)'
    BY <1>4, <2>1, HistoryGrows DEF PutSound
  <2>4. ServerTypes'
    BY <1>1, <1>2, <1>4, <2>3 DEF Parts, ServerTypes
  <2>5. SavesSound'
    BY <1>1, <1>2, <2>3 DEF Parts, SavesSound, PutSound, Served, textVars, saveVars
  <2> QED BY <1>3, <2>2, <2>4, <2>5 DEF Parts
<1>5. CASE \E full \in BOOLEAN : Preserve(l, full)
  <2>1. history' = history /\ ServerTypes'
    BY <1>1, <1>2, <1>5 DEF Preserve, Parts, ServerTypes, Put
  <2>2. EntrySound' /\ AnswersSound' /\ StartsSound' /\ DepartureSound'
    BY <1>2, <2>1, Frame DEF textVars, accessVars, runVars, leaveVars
  <2>3. SavesSound'
    BY <1>1, <1>2, <2>1 DEF Parts, SavesSound, PutSound, Served, textVars, saveVars
  <2> QED BY <1>3, <2>1, <2>2, <2>3 DEF Parts
<1> QED BY <1>1, <1>4, <1>5 DEF LateSaveServed

LEMMA OtherDeviceWritesInv ==
  ASSUME Parts, OtherDeviceWrites
  PROVE  Parts'
<1>1. PICK c \in Foreign : history' = Append(history, c)
  BY DEF OtherDeviceWrites
<1>2. /\ foreign' = foreign + 1 /\ foreign < MaxForeign /\ UNCHANGED <<conflicts, late>>
      /\ UNCHANGED textVars /\ UNCHANGED saveVars /\ UNCHANGED accessVars
      /\ UNCHANGED runVars /\ UNCHANGED leaveVars
  BY DEF OtherDeviceWrites
<1>3. c \in Source /\ history \in Seq(Source)
  BY NamesAssumption DEF Source, Parts, ServerTypes
<1>4. /\ TextTypes' /\ SaveTypes' /\ AccessTypes' /\ RunTypes' /\ LeaveTypes' /\ RunsSavedText'
  BY <1>2, Frame DEF runVars
<1>5. EntrySound' /\ AnswersSound' /\ StartsSound' /\ DepartureSound'
  BY <1>1, <1>2, <1>3, HistoryKeeps DEF textVars, accessVars, runVars, leaveVars
<1>6. /\ history' \in Seq(Source) /\ Len(history') # 0
      /\ \A r \in DOMAIN history : r \in DOMAIN history' /\ history'[r] = history[r]
  BY <1>1, <1>3, HistoryGrows
<1>7. ServerTypes'
  BY <1>2, <1>6, BoundsAssumption DEF Parts, ServerTypes
<1>8. SavesSound'
  BY <1>2, <1>6 DEF Parts, SavesSound, PutSound, Served, textVars, saveVars
<1> QED BY <1>4, <1>5, <1>7, <1>8 DEF Parts

-----------------------------------------------------------------------------
(* Saving. *)

LEMMA VersionTypes ==
  ASSUME Parts, NEW r \in DOMAIN history, history[r] # Deleted
  PROVE  r \in Nat /\ r # 0 /\ history[r] \in Contents /\ Value(history[r]) \in Texts
<1>1. history \in Seq(Source) /\ DOMAIN history = 1..Len(history)
  BY LenProperties DEF Parts, ServerTypes
<1>2. history[r] \in Source /\ r \in 1..Len(history) /\ Len(history) \in Nat
  BY <1>1, ElementOfSeq, LenProperties
<1> QED BY <1>2 DEF Source, Contents, Value

LEMMA ServedTypes ==
  ASSUME Parts, NEW r, NEW text, Served(r, text)
  PROVE  r \in Nat /\ r # 0 /\ text \in Texts
  BY VersionTypes DEF Served

LEMMA PersistSound ==
  ASSUME Parts, CanPersist, Persist, UNCHANGED <<history, entry, late>>
  PROVE  saving' \in Save /\ unconfirmed' \in Put /\ SavesSound'
<1>1. entry # 0 /\ Served(entry, savedText) /\ input \in Texts /\ entry \in Nat /\ savedText \in Texts
  BY ServedTypes DEF CanPersist, dirty, Parts, EntrySound
<1>2. PICK put, w : /\ put = [text |-> input, code |-> content, base |-> entry, from |-> savedText]
                    /\ w = [put |-> put, rev |-> 0, at |-> "sent"]
  OBVIOUS
<1>3. saving' = w /\ unconfirmed' = put
  BY <1>2 DEF Persist
<1>4. content \in Contents /\ content.text = input
  BY <1>1 DEF content, Code, Contents, Eols, Parts, TextTypes
<1>5. put \in Put /\ put.code.text = put.text /\ put.base = entry /\ put.from = savedText
  BY <1>1, <1>2, <1>4 DEF Put
<1>6. w \in Save /\ w.put = put /\ w.at = "sent"
  BY <1>2, <1>5 DEF Save
<1>7. PutSound(put)'
  BY <1>1, <1>5 DEF PutSound, Served
<1>8. PutSound(saving.put)'
  BY <1>3, <1>6, <1>7 DEF PutSound, Served
<1>9. late' # Null => PutSound(late)'
  BY DEF Parts, SavesSound, PutSound, Served
<1>10. SavesSound'
  BY <1>1, <1>3, <1>5, <1>6, <1>8, <1>9 DEF SavesSound
<1> QED BY <1>3, <1>5, <1>6, <1>10

LEMMA PersistNowInv ==
  ASSUME Parts, PersistNow
  PROVE  Parts'
<1>1. /\ timer' = FALSE /\ UNCHANGED <<saveError, notice>>
      /\ UNCHANGED serverVars /\ UNCHANGED textVars
      /\ UNCHANGED accessVars /\ UNCHANGED runVars /\ UNCHANGED leaveVars
  BY DEF PersistNow
<1>2. /\ ServerTypes' /\ TextTypes' /\ AccessTypes' /\ RunTypes' /\ LeaveTypes'
      /\ EntrySound' /\ AnswersSound' /\ StartsSound' /\ RunsSavedText' /\ DepartureSound'
  BY <1>1, Frame DEF serverVars, textVars, accessVars, runVars, leaveVars
<1>3. SaveTypes' /\ SavesSound'
  <2>1. CASE CanPersist /\ Persist
    BY <1>1, <2>1, PersistSound DEF Parts, SaveTypes, serverVars, textVars
  <2>2. CASE UNCHANGED <<saving, unconfirmed>>
    BY <1>1, <2>2, Frame DEF Parts, SaveTypes, serverVars, textVars
  <2> QED BY <2>1, <2>2 DEF PersistNow
<1> QED BY <1>2, <1>3 DEF Parts

LEMMA FlushPersistsInv ==
  ASSUME Parts, FlushPersists
  PROVE  Parts'
<1>1. /\ CanPersist /\ Persist /\ UNCHANGED <<timer, saveError, notice>>
      /\ UNCHANGED serverVars /\ UNCHANGED textVars
      /\ UNCHANGED accessVars /\ UNCHANGED runVars /\ UNCHANGED leaveVars
  BY DEF FlushPersists
<1>2. /\ ServerTypes' /\ TextTypes' /\ AccessTypes' /\ RunTypes' /\ LeaveTypes'
      /\ EntrySound' /\ AnswersSound' /\ StartsSound' /\ RunsSavedText' /\ DepartureSound'
  BY <1>1, Frame DEF serverVars, textVars, accessVars, runVars, leaveVars
<1>3. SaveTypes' /\ SavesSound'
  BY <1>1, PersistSound DEF Parts, SaveTypes, serverVars, textVars
<1> QED BY <1>2, <1>3 DEF Parts

LEMMA SaveConfirmedInv ==
  ASSUME Parts, SaveConfirmed
  PROVE  Parts'
<1>1. PICK s : s = saving /\ s \in Save /\ s.at = "stored" /\ PutSound(s.put)
               /\ s.rev \in DOMAIN history /\ history[s.rev] = s.put.code /\ entry # 0
               /\ s.put.code \in Contents /\ s.rev \in Nat
  BY DEF SaveConfirmed, Parts, SaveTypes, SavesSound, Save, Put
<1>2. /\ entry' = s.rev /\ savedText' = s.put.text
      /\ unconfirmed' = Null /\ saving' = Null /\ notice' = FALSE
      /\ UNCHANGED <<eol, input, edits, saveError>> /\ timer' \in BOOLEAN
      /\ UNCHANGED serverVars /\ UNCHANGED accessVars /\ UNCHANGED runVars /\ UNCHANGED leaveVars
  BY <1>1 DEF SaveConfirmed, SavedText, Schedule
<1>3. ServerTypes' /\ AccessTypes' /\ RunTypes' /\ LeaveTypes' /\ RunsSavedText'
  BY <1>2, Frame DEF runVars
<1>4. s.rev # 0 /\ Served(s.rev, s.put.text) /\ s.put.text \in Texts
  BY <1>1, VersionTypes, NamesAssumption DEF Served, PutSound, Value
<1>5. TextTypes' /\ EntrySound'
  BY <1>1, <1>2, <1>4 DEF Parts, TextTypes, EntrySound, Served, serverVars
<1>6. SaveTypes'
  BY <1>2 DEF Parts, SaveTypes
<1>7. SavesSound' /\ AnswersSound' /\ StartsSound'
  BY <1>1, <1>2, <1>4 DEF Parts, SavesSound, AnswersSound, StartsSound, PutSound, Served, serverVars,
                          accessVars, runVars
<1>8. DepartureSound'
  BY <1>1, <1>2 DEF Parts, DepartureSound, Served, serverVars, accessVars, leaveVars
<1> QED BY <1>3, <1>5, <1>6, <1>7, <1>8 DEF Parts

\* What lock() and a failed save leave on its way.
LEMMA AbandonedSound ==
  ASSUME Parts, late' \in {late} \union Abandoned(saving), UNCHANGED history
  PROVE  late' \in Put \union {Null} /\ (late' # Null => PutSound(late)')
<1>1. CASE late' = late
  BY <1>1 DEF Parts, ServerTypes, SavesSound, PutSound, Served
<1>2. CASE saving # Null /\ late' = saving.put
  BY <1>2 DEF Parts, SaveTypes, Save, SavesSound, PutSound, Served
<1> QED BY <1>1, <1>2 DEF Abandoned

LEMMA SaveFailsInv ==
  ASSUME Parts, SaveFails
  PROVE  Parts'
<1>1. /\ saving' = Null /\ notice' = TRUE /\ late' \in {late} \union Abandoned(saving)
      /\ saveError' \in {"", "revision_changed", "conflict_storage_full", "other"}
      /\ timer' \in BOOLEAN /\ UNCHANGED <<history, conflicts, foreign, unconfirmed>>
      /\ UNCHANGED textVars /\ UNCHANGED accessVars /\ UNCHANGED runVars /\ UNCHANGED leaveVars
  BY DEF SaveFails, Schedule
<1>2. /\ TextTypes' /\ AccessTypes' /\ RunTypes' /\ LeaveTypes'
      /\ EntrySound' /\ AnswersSound' /\ StartsSound' /\ RunsSavedText' /\ DepartureSound'
  BY <1>1, Frame DEF textVars, accessVars, runVars, leaveVars
<1>3. late' \in Put \union {Null} /\ (late' # Null => PutSound(late)')
  BY <1>1, AbandonedSound
<1>4. ServerTypes' /\ SaveTypes'
  BY <1>1, <1>3 DEF Parts, ServerTypes, SaveTypes
<1>5. SavesSound'
  BY <1>1, <1>3 DEF Parts, SavesSound
<1> QED BY <1>2, <1>4, <1>5 DEF Parts

LEMMA ChangedInv ==
  ASSUME Parts, Changed
  PROVE  Parts'
<1>1. /\ input' \in Texts /\ edits' = edits + 1 /\ edits < MaxEdits /\ departing = Null
      /\ timer' \in BOOLEAN /\ UNCHANGED <<saving, saveError, entry, savedText, eol, unconfirmed, notice>>
      /\ UNCHANGED serverVars /\ UNCHANGED accessVars /\ UNCHANGED runVars /\ UNCHANGED leaveVars
  BY DEF Changed, readOnly, Schedule, accessVars
<1>2. ServerTypes' /\ AccessTypes' /\ RunTypes' /\ LeaveTypes'
      /\ SavesSound' /\ AnswersSound' /\ StartsSound' /\ RunsSavedText'
  BY <1>1, Frame DEF serverVars, accessVars, runVars
<1>3. TextTypes' /\ SaveTypes'
  <2>1. edits' \in 0..MaxEdits
    BY <1>1, BoundsAssumption DEF Parts, TextTypes
  <2>2. TextTypes'
    BY <1>1, <2>1 DEF Parts, TextTypes
  <2> QED BY <1>1, <2>2 DEF Parts, SaveTypes
<1>4. EntrySound'
  BY <1>1 DEF Parts, EntrySound, Served, serverVars
<1>5. DepartureSound'
  BY <1>1 DEF DepartureSound, leaveVars
<1> QED BY <1>2, <1>3, <1>4, <1>5 DEF Parts

-----------------------------------------------------------------------------
(* Opening and retrying. *)

LEMMA OpenInv ==
  ASSUME Parts, Open
  PROVE  Parts'
<1>1. /\ generation < MaxGenerations /\ generation' = generation + 1 /\ unlocked' = TRUE
      /\ opening' = [at |-> "load", rev |-> 0] /\ UNCHANGED <<editAllowed, retrying>>
      /\ UNCHANGED serverVars /\ UNCHANGED textVars /\ UNCHANGED saveVars
      /\ UNCHANGED runVars /\ UNCHANGED leaveVars
  BY DEF Open
<1>2. /\ ServerTypes' /\ TextTypes' /\ SaveTypes' /\ RunTypes' /\ LeaveTypes'
      /\ EntrySound' /\ SavesSound' /\ StartsSound' /\ RunsSavedText'
  BY <1>1, Frame DEF serverVars, textVars, saveVars, runVars
<1>3. opening' \in Stage({"load", "loaded", "edit"}) /\ opening'.at = "load"
  BY <1>1 DEF Stage
<1>4. AccessTypes'
  <2>1. generation' \in 0..MaxGenerations + 1 /\ generation' <= MaxGenerations
    BY <1>1, BoundsAssumption DEF Parts, AccessTypes
  <2> QED BY <1>1, <1>3, <2>1 DEF Parts, AccessTypes
<1>5. AnswersSound'
  BY <1>1, <1>3 DEF Parts, AnswersSound, Served, serverVars, textVars
<1>6. DepartureSound'
  BY <1>1 DEF Parts, DepartureSound, Served, serverVars, textVars, leaveVars
<1> QED BY <1>2, <1>4, <1>5, <1>6 DEF Parts

LEMMA SourceServedInv ==
  ASSUME Parts, SourceServed
  PROVE  Parts'
<1>1. /\ UNCHANGED serverVars /\ UNCHANGED textVars /\ UNCHANGED saveVars
      /\ UNCHANGED runVars /\ UNCHANGED leaveVars /\ UNCHANGED <<generation, unlocked, editAllowed>>
      /\ Current # Deleted
      /\ \/ opening # Null /\ opening' = Loaded /\ UNCHANGED retrying
         \/ retrying # Null /\ retrying' = Loaded /\ UNCHANGED opening
  BY DEF SourceServed, Loads
<1>2. /\ ServerTypes' /\ TextTypes' /\ SaveTypes' /\ RunTypes' /\ LeaveTypes'
      /\ EntrySound' /\ SavesSound' /\ StartsSound' /\ RunsSavedText' /\ DepartureSound'
  BY <1>1, Frame DEF serverVars, textVars, saveVars, runVars, leaveVars
<1>3. history \in Seq(Source) /\ DOMAIN history = 1..Len(history) /\ Len(history) \in Nat
  BY LenProperties DEF Parts, ServerTypes
<1>4. entry' = entry /\ history' = history
  BY <1>1 DEF textVars, serverVars
<1>5. PICK w : w = Loaded
  OBVIOUS
<1>6. /\ w.at = "loaded" /\ w.rev = Len(history)
      /\ w \in Stage({"load", "loaded", "edit"}) /\ w \in Stage({"auth", "load", "loaded", "flush"})
  BY <1>3, <1>5 DEF Loaded, Stage
<1>7. AccessTypes'
  BY <1>1, <1>5, <1>6 DEF Parts, AccessTypes
<1>8. \E text \in Texts : Served(w.rev, text)
  <2>1. Len(history) \in DOMAIN history
    BY <1>3 DEF Parts, ServerTypes
  <2> QED BY <1>1, <1>6, <2>1, VersionTypes DEF Current, Served
<1>9. AnswersSound'
  BY <1>1, <1>4, <1>5, <1>8 DEF Parts, AnswersSound, Served
<1> QED BY <1>2, <1>7, <1>9 DEF Parts

LEMMA OpenLoadedInv ==
  ASSUME Parts, OpenLoaded
  PROVE  Parts'
<1>1. PICK o : o = opening /\ o \in Stage({"load", "loaded", "edit"}) /\ o.at = "loaded" /\ unlocked
               /\ \E text \in Texts : Served(o.rev, text)
  BY DEF OpenLoaded, Parts, AccessTypes, AnswersSound
<1>2. /\ UNCHANGED serverVars /\ UNCHANGED <<timer, saving, unconfirmed>> /\ UNCHANGED runVars
      /\ UNCHANGED leaveVars /\ UNCHANGED <<generation, unlocked, editAllowed, retrying>>
      /\ UNCHANGED edits
  BY DEF OpenLoaded
<1>3. ServerTypes' /\ RunTypes' /\ LeaveTypes' /\ RunsSavedText'
  BY <1>2, Frame DEF runVars
<1>4. CASE /\ opening' = Null /\ notice' = TRUE
           /\ UNCHANGED <<entry, eol, savedText, input, saveError>>
  <2>1. TextTypes' /\ EntrySound' /\ SavesSound' /\ StartsSound' /\ DepartureSound'
    BY <1>2, <1>4, Frame DEF serverVars, textVars, runVars, leaveVars
  <2>2. SaveTypes' /\ AccessTypes'
    BY <1>2, <1>4 DEF Parts, SaveTypes, AccessTypes
  <2>3. AnswersSound'
    BY <1>2, <1>4 DEF Parts, AnswersSound, Served, serverVars
  <2> QED BY <1>3, <2>1, <2>2, <2>3 DEF Parts
<1>5. CASE /\ opening' = [o EXCEPT !.at = "edit"]
           /\ entry' = o.rev /\ eol' = EolOf(history[o.rev])
           /\ input' = Value(history[o.rev]) /\ savedText' = input' /\ saveError' = ""
           /\ UNCHANGED notice
  <2>1. /\ o.rev \in DOMAIN history /\ history[o.rev] # Deleted /\ o.rev \in Nat /\ o.rev # 0
        /\ Value(history[o.rev]) \in Texts /\ Served(o.rev, Value(history[o.rev]))
    BY <1>1, VersionTypes DEF Served
  <2>2. PICK text : text = Value(history[o.rev])
    OBVIOUS
  <2>3. /\ entry' = o.rev /\ input' = text /\ savedText' = text /\ text \in Texts /\ Served(o.rev, text)
        /\ history' = history
    BY <1>2, <1>5, <2>1, <2>2 DEF serverVars
  <2>4. TextTypes'
    BY <1>2, <1>5, <2>1, <2>3 DEF Parts, TextTypes, EolOf
  <2>5. EntrySound' /\ DepartureSound'
    BY <1>2, <2>1, <2>3 DEF Parts, EntrySound, DepartureSound, Served, leaveVars
  <2>6. PICK w : w = [o EXCEPT !.at = "edit"]
    OBVIOUS
  <2>7. opening' = w /\ w \in Stage({"load", "loaded", "edit"}) /\ w.at = "edit"
    BY <1>1, <1>5, <2>6 DEF Stage
  <2>8. SaveTypes' /\ AccessTypes'
    BY <1>2, <1>5, <2>7 DEF Parts, SaveTypes, AccessTypes
  <2>9. AnswersSound'
    BY <1>1, <1>2, <2>1, <2>3, <2>7 DEF Parts, AnswersSound, Served
  <2>10. SavesSound' /\ StartsSound'
    BY <1>2, <2>1, <2>3 DEF Parts, SavesSound, StartsSound, PutSound, Served, runVars, serverVars
  <2> QED BY <1>3, <2>4, <2>5, <2>8, <2>9, <2>10 DEF Parts
<1> QED BY <1>1, <1>4, <1>5 DEF OpenLoaded

\* The steps of opening and retrying that only go on, or fail.
LEMMA StagesMoveInv ==
  ASSUME Parts, UNCHANGED <<serverVars, textVars, saving, unconfirmed, generation, unlocked, leaveVars>>,
         timer' \in BOOLEAN, notice' \in BOOLEAN, editAllowed' \in BOOLEAN,
         saveError' \in {"", "revision_changed", "conflict_storage_full", "other"},
         opening' = opening \/ opening' = Null,
         \/ retrying' = retrying \/ retrying' = Null
         \/ /\ retrying' \in Stage({"auth", "load", "flush"}) /\ entry # 0,
         UNCHANGED <<starting, job, polling, runTexts, calls, orphans, runner>>,
         {ready', runnerRetry'} \subseteq BOOLEAN, detecting' \in 0..MaxGenerations
  PROVE  Parts'
<1>1. ServerTypes' /\ TextTypes' /\ LeaveTypes' /\ EntrySound' /\ SavesSound' /\ StartsSound'
      /\ RunsSavedText' /\ DepartureSound'
  BY Frame DEF serverVars, textVars, leaveVars
<1>2. SaveTypes' /\ RunTypes'
  BY DEF Parts, SaveTypes, RunTypes
<1>3. AccessTypes'
  BY DEF Parts, AccessTypes, Stage
<1>4. AnswersSound'
  BY DEF Parts, AnswersSound, Served, serverVars, textVars, Stage
<1> QED BY <1>1, <1>2, <1>3, <1>4 DEF Parts

LEMMA OpenFailsInv ==
  ASSUME Parts, OpenFails
  PROVE  Parts'
<1>1. /\ UNCHANGED <<serverVars, textVars, saving, unconfirmed, generation, unlocked, leaveVars>>
      /\ UNCHANGED <<timer, saveError, editAllowed, retrying, runVars>>
      /\ opening' = Null /\ notice' = TRUE
  BY DEF OpenFails
<1> QED BY <1>1, StagesMoveInv DEF Parts, SaveTypes, AccessTypes, RunTypes, runVars

LEMMA DetectTypes ==
  ASSUME Parts, unlocked, Detect
  PROVE  {ready', runnerRetry'} \subseteq BOOLEAN /\ detecting' \in 0..MaxGenerations
<1>1. generation \in 0..MaxGenerations
  BY BoundsAssumption DEF Parts, AccessTypes
<1> QED BY <1>1 DEF Detect, Parts, RunTypes

LEMMA OpenAuthorizedInv ==
  ASSUME Parts, OpenAuthorized
  PROVE  Parts'
<1>1. /\ UNCHANGED <<serverVars, textVars, saving, unconfirmed, generation, unlocked, leaveVars>>
      /\ UNCHANGED <<timer, saveError, retrying, starting, job, polling, runTexts, calls, orphans, runner>>
      /\ opening' = Null /\ notice' \in BOOLEAN /\ editAllowed' \in BOOLEAN
  BY DEF OpenAuthorized, Authorize, Parts, AccessTypes
<1>2. {ready', runnerRetry'} \subseteq BOOLEAN /\ detecting' \in 0..MaxGenerations
  BY DetectTypes DEF OpenAuthorized, Parts, AnswersSound
<1> QED BY <1>1, <1>2, StagesMoveInv DEF Parts, SaveTypes

LEMMA RunnerRetryInv ==
  ASSUME Parts, RunnerRetry
  PROVE  Parts'
<1>1. /\ UNCHANGED <<serverVars, textVars, saveVars, accessVars, leaveVars>>
      /\ UNCHANGED <<starting, job, polling, runTexts, calls, orphans, runner>>
  BY DEF RunnerRetry
<1>2. {ready', runnerRetry'} \subseteq BOOLEAN /\ detecting' \in 0..MaxGenerations
  BY DetectTypes DEF RunnerRetry
<1> QED BY <1>1, <1>2, StagesMoveInv DEF Parts, SaveTypes, AccessTypes, saveVars, accessVars

LEMMA DetectedInv ==
  ASSUME Parts, Detected
  PROVE  Parts'
<1>1. /\ UNCHANGED <<serverVars, textVars, saveVars, accessVars, leaveVars>>
      /\ UNCHANGED <<starting, job, polling, runTexts, calls, orphans, runner>>
  BY DEF Detected
<1>2. {ready, runnerRetry} \subseteq BOOLEAN /\ 0 \in 0..MaxGenerations
  BY BoundsAssumption DEF Parts, RunTypes
<1>3. {ready', runnerRetry'} \subseteq BOOLEAN /\ detecting' \in 0..MaxGenerations
  <2>1. CASE ready' = TRUE /\ UNCHANGED runnerRetry
    BY <1>2, <2>1 DEF Detected
  <2>2. CASE runnerRetry' = TRUE /\ UNCHANGED ready
    BY <1>2, <2>2 DEF Detected
  <2> QED BY <2>1, <2>2 DEF Detected
<1> QED BY <1>1, <1>3, StagesMoveInv DEF Parts, SaveTypes, AccessTypes, saveVars, accessVars

LEMMA RetryInv ==
  ASSUME Parts, Retry
  PROVE  Parts'
<1>1. /\ UNCHANGED <<serverVars, textVars, saveVars, generation, unlocked, editAllowed, opening,
                     runVars, leaveVars>>
      /\ entry # 0 /\ retrying' \in Stage({"auth", "load", "flush"})
  BY DEF Retry, Stage
<1> QED BY <1>1, StagesMoveInv DEF Parts, SaveTypes, AccessTypes, RunTypes, saveVars, runVars

LEMMA RetryAuthorizedInv ==
  ASSUME Parts, RetryAuthorized
  PROVE  Parts'
<1>1. PICK r : r = retrying /\ r \in Stage({"auth", "load", "loaded", "flush"}) /\ entry # 0
  BY DEF RetryAuthorized, Parts, AccessTypes, AnswersSound
<1>2. PICK w, v : w = [r EXCEPT !.at = "load"] /\ v = [r EXCEPT !.at = "flush"]
  OBVIOUS
<1>3. w \in Stage({"auth", "load", "flush"}) /\ v \in Stage({"auth", "load", "flush"})
  BY <1>1, <1>2 DEF Stage
<1>4. retrying' \in {w, v} /\ timer' \in BOOLEAN /\ notice' \in BOOLEAN /\ editAllowed' = TRUE
      /\ UNCHANGED <<serverVars, textVars, saving, unconfirmed, saveError, generation, unlocked,
                     opening, runVars, leaveVars>>
  BY <1>1, <1>2 DEF RetryAuthorized, Authorize, Parts, SaveTypes
<1> QED BY <1>1, <1>3, <1>4, StagesMoveInv DEF Parts, SaveTypes, RunTypes, runVars

LEMMA RetryFailsInv ==
  ASSUME Parts, RetryFails
  PROVE  Parts'
<1>1. /\ UNCHANGED <<serverVars, textVars, timer, saving, unconfirmed, generation, unlocked,
                     editAllowed, opening, runVars, leaveVars>>
      /\ retrying' = Null /\ notice' = TRUE
      /\ saveError' \in {"", "revision_changed", "conflict_storage_full", "other"}
  BY DEF RetryFails, Parts, SaveTypes
<1> QED BY <1>1, StagesMoveInv DEF Parts, SaveTypes, AccessTypes, RunTypes, runVars

LEMMA RetryFlushedInv ==
  ASSUME Parts, RetryFlushed
  PROVE  Parts'
<1>1. /\ UNCHANGED <<serverVars, textVars, saveVars, generation, unlocked, editAllowed, opening,
                     runVars, leaveVars>>
      /\ retrying' = Null
  BY DEF RetryFlushed
<1> QED BY <1>1, StagesMoveInv DEF Parts, SaveTypes, AccessTypes, RunTypes, saveVars, runVars

\* What the retry takes for saved is the text of the version it was answered.
LEMMA OwnTextServed ==
  ASSUME Parts, entry # 0, NEW rev, NEW text \in Texts, Served(rev, text), OwnText(rev) # Null
  PROVE  Served(rev, OwnText(rev)) /\ OwnText(rev) = text
<1>1. OwnText(rev) = text
  BY DEF OwnText, Served, Value, Parts, EntrySound, SavesSound, content, Code
<1> QED BY <1>1

LEMMA RetryReconcilesInv ==
  ASSUME Parts, RetryReconciles
  PROVE  Parts'
<1>1. PICK r : r = retrying /\ r \in Stage({"auth", "load", "loaded", "flush"}) /\ r.at = "loaded"
               /\ entry # 0
               /\ \E text \in Texts : Served(r.rev, text)
  BY DEF RetryReconciles, Parts, AccessTypes, AnswersSound
<1>2. PICK text \in Texts : Served(r.rev, text)
  BY <1>1
<1>3. r.rev \in Nat /\ r.rev # 0 /\ OwnText(r.rev) = text
  BY <1>1, <1>2, ServedTypes, OwnTextServed DEF RetryReconciles
<1>4. PICK w : w = [r EXCEPT !.at = "flush"]
  OBVIOUS
<1>5. w \in Stage({"auth", "load", "loaded", "flush"}) /\ w.at = "flush"
  BY <1>1, <1>4 DEF Stage
<1>6. /\ savedText' = text /\ entry' = r.rev /\ unconfirmed' \in {unconfirmed, Null}
      /\ saveError' = "" /\ notice' = FALSE /\ timer' = FALSE /\ retrying' = w
      /\ UNCHANGED <<serverVars, eol, input, edits, saving, generation, unlocked, editAllowed,
                     opening, runVars, leaveVars>>
  BY <1>1, <1>3, <1>4 DEF RetryReconciles
<1>7. ServerTypes' /\ RunTypes' /\ LeaveTypes' /\ RunsSavedText'
  BY <1>6, Frame DEF runVars
<1>8. TextTypes' /\ SaveTypes' /\ AccessTypes'
  BY <1>3, <1>5, <1>6 DEF Parts, TextTypes, SaveTypes, AccessTypes
<1>9. EntrySound' /\ DepartureSound'
  BY <1>1, <1>2, <1>3, <1>6 DEF Parts, EntrySound, DepartureSound, Served, serverVars, leaveVars
<1>10. SavesSound'
  BY <1>1, <1>3, <1>6 DEF Parts, SavesSound, PutSound, Served, serverVars
<1>11. AnswersSound' /\ StartsSound'
  BY <1>1, <1>3, <1>5, <1>6 DEF Parts, AnswersSound, StartsSound, Served, serverVars, runVars
<1> QED BY <1>7, <1>8, <1>9, <1>10, <1>11 DEF Parts

-----------------------------------------------------------------------------
(* Running. *)

\* A step of the runs alone: what it leaves to show.
LEMMA RunsMoveInv ==
  ASSUME Parts, UNCHANGED <<serverVars, textVars, saving, unconfirmed, saveError, notice, accessVars>>,
         timer' \in BOOLEAN, departing' = departing, UNCHANGED <<leaving, lost>>,
         RunTypes', StartsSound', RunsSavedText'
  PROVE  Parts'
<1>1. ServerTypes' /\ TextTypes' /\ AccessTypes' /\ LeaveTypes' /\ EntrySound' /\ SavesSound'
      /\ AnswersSound' /\ DepartureSound'
  BY Frame DEF serverVars, textVars, accessVars, leaveVars
<1>2. SaveTypes'
  BY DEF Parts, SaveTypes
<1> QED BY <1>1, <1>2 DEF Parts

\* The runner starts the text of the job, for the revision of its ticket still is the current one.
LEMMA RunnerStartsText ==
  ASSUME Parts, NEW j \in DOMAIN runTexts, NEW rev, Served(rev, runTexts[j]), RunnerStarts(j, rev),
         UNCHANGED runTexts
  PROVE  /\ runner' \in [job : 1..MaxJobs, source : Contents, over : BOOLEAN]
         /\ runner'.job = j /\ RunsSavedText'
<1>1. /\ runner' = [job |-> j, source |-> Current, over |-> FALSE]
      /\ Current \in Contents /\ Value(Current) = runTexts[j]
  BY VersionTypes DEF RunnerStarts, RevisionCurrent, Current, Served
<1>2. j \in 1..MaxJobs
  <2>1. DOMAIN runTexts = 1..Len(runTexts) /\ Len(runTexts) \in Nat /\ Len(runTexts) <= MaxJobs
    BY LenProperties DEF Parts, RunTypes, StartsSound
  <2> QED BY <2>1, BoundsAssumption
<1>3. PICK c : c = Current
  OBVIOUS
<1>4. PICK v : v = [job |-> j, source |-> c, over |-> FALSE]
  OBVIOUS
<1>5. runner' = v /\ v \in [job : 1..MaxJobs, source : Contents, over : BOOLEAN]
      /\ v.job = j /\ v.source = c
  BY <1>1, <1>2, <1>3, <1>4
<1>6. RunsSavedText'
  BY <1>1, <1>3, <1>5 DEF RunsSavedText, Value
<1> QED BY <1>5, <1>6

LEMMA StartServedInv ==
  ASSUME Parts, StartServed
  PROVE  Parts'
<1>1. /\ UNCHANGED <<serverVars, textVars, saveVars, accessVars, leaveVars>>
      /\ UNCHANGED <<ready, runnerRetry, detecting, job, polling, runTexts, calls>>
  BY DEF StartServed
<1>2. CASE /\ starting # Null /\ starting.at = "sent" /\ RunnerStarts(starting.job, starting.rev)
           /\ starting' = [starting EXCEPT !.at = "running"] /\ UNCHANGED orphans
  <2>1. PICK s : /\ s = starting
                 /\ s \in [at : {"flush", "sent", "running"}, rev : Nat, job : 0..MaxJobs]
                 /\ s.at = "sent" /\ s.job \in DOMAIN runTexts /\ Served(s.rev, runTexts[s.job])
                 /\ entry # 0 /\ RunnerStarts(s.job, s.rev)
    BY <1>2 DEF Parts, RunTypes, StartsSound
  <2>2. /\ runner' \in [job : 1..MaxJobs, source : Contents, over : BOOLEAN]
        /\ runner'.job = s.job /\ RunsSavedText'
    BY <1>1, <2>1, RunnerStartsText
  <2>3. PICK w : w = [s EXCEPT !.at = "running"]
    OBVIOUS
  <2>4. /\ starting' = w /\ w \in [at : {"flush", "sent", "running"}, rev : Nat, job : 0..MaxJobs]
        /\ w.at = "running" /\ w.job = s.job /\ w.rev = s.rev
    BY <1>2, <2>1, <2>3
  <2>5. RunTypes'
    BY <1>1, <1>2, <2>2, <2>4 DEF Parts, RunTypes
  <2>6. StartsSound'
    BY <1>1, <1>2, <2>1, <2>2, <2>4 DEF Parts, StartsSound, Served, serverVars, textVars
  <2> QED BY <1>1, <2>2, <2>5, <2>6, RunsMoveInv DEF saveVars, leaveVars, Parts, SaveTypes
<1>3. CASE \E o \in orphans : /\ RunnerStarts(o.job, o.rev) /\ orphans' = orphans \ {o}
                              /\ UNCHANGED starting
  <2>1. PICK o \in orphans : /\ RunnerStarts(o.job, o.rev) /\ orphans' = orphans \ {o}
                             /\ UNCHANGED starting
    BY <1>3
  <2>2. o.job \in DOMAIN runTexts /\ Served(o.rev, runTexts[o.job])
    BY DEF Parts, StartsSound
  <2>3. /\ runner' \in [job : 1..MaxJobs, source : Contents, over : BOOLEAN]
        /\ runner'.job = o.job /\ RunsSavedText'
    BY <1>1, <2>1, <2>2, RunnerStartsText
  <2>4. RunTypes'
    BY <1>1, <2>1, <2>3 DEF Parts, RunTypes
  <2>5. StartsSound'
    BY <1>1, <2>1, <2>2, <2>3 DEF Parts, StartsSound, Served, serverVars, textVars
  <2> QED BY <1>1, <2>3, <2>4, <2>5, RunsMoveInv DEF saveVars, leaveVars, Parts, SaveTypes
<1> QED BY <1>2, <1>3 DEF StartServed

\* A step of the page or of the client that leaves the texts, the starts and the runner alone.
LEMMA CallsMoveInv ==
  ASSUME Parts, UNCHANGED <<serverVars, textVars, saveVars, accessVars, leaveVars>>,
         UNCHANGED <<detecting, starting, runTexts, orphans, runner>>,
         {ready', runnerRetry', polling'} \subseteq BOOLEAN, job' \in 0..MaxJobs,
         calls' \in [1..MaxCalls -> Call \union {Null}]
  PROVE  Parts'
<1>1. RunTypes'
  BY DEF Parts, RunTypes
<1>2. StartsSound' /\ RunsSavedText'
  BY Frame DEF serverVars, textVars
<1> QED BY <1>1, <1>2, RunsMoveInv DEF saveVars, leaveVars, Parts, SaveTypes

LEMMA CallServedInv ==
  ASSUME Parts, NEW i \in 1..MaxCalls, CallServed(i)
  PROVE  Parts'
<1>1. /\ UNCHANGED <<serverVars, textVars, saveVars, accessVars, leaveVars>>
      /\ UNCHANGED <<detecting, starting, runTexts, orphans, runner, ready, runnerRetry, job, polling>>
  BY DEF CallServed
<1>2. calls' \in [1..MaxCalls -> Call \union {Null}]
  <2>1. calls[i] \in Call /\ calls \in [1..MaxCalls -> Call \union {Null}]
    BY DEF CallServed, Parts, RunTypes
  <2>2. PICK c, v, w : c = calls[i] /\ v = [c EXCEPT !.at = "over"] /\ w = [c EXCEPT !.at = "running"]
    OBVIOUS
  <2>3. v \in Call /\ w \in Call
    BY <2>1, <2>2 DEF Call
  <2>4. calls' = [calls EXCEPT ![i] = v] \/ calls' = [calls EXCEPT ![i] = w]
    BY <2>2 DEF CallServed
  <2> QED BY <2>1, <2>3, <2>4
<1> QED BY <1>1, <1>2, CallsMoveInv DEF Parts, RunTypes

LEMMA RunnerEndsInv ==
  ASSUME Parts, RunnerEnds
  PROVE  Parts'
<1>1. /\ UNCHANGED <<serverVars, textVars, saveVars, accessVars, leaveVars>>
      /\ UNCHANGED <<ready, runnerRetry, detecting, starting, job, polling, runTexts, calls, orphans>>
  BY DEF RunnerEnds
<1>2. PICK r : r = runner /\ r \in [job : 1..MaxJobs, source : Contents, over : BOOLEAN]
               /\ r.job \in DOMAIN runTexts /\ Value(r.source) = runTexts[r.job]
  BY DEF RunnerEnds, Parts, RunTypes, RunsSavedText, StartsSound
<1>3. PICK w : w = [r EXCEPT !.over = TRUE]
  OBVIOUS
<1>4. /\ runner' = w /\ w \in [job : 1..MaxJobs, source : Contents, over : BOOLEAN]
      /\ w.job = r.job /\ w.source = r.source
  BY <1>2, <1>3 DEF RunnerEnds
<1>5. RunTypes'
  BY <1>1, <1>4 DEF Parts, RunTypes
<1>6. StartsSound' /\ RunsSavedText'
  BY <1>1, <1>2, <1>4 DEF Parts, StartsSound, RunsSavedText, Served, Value, serverVars, textVars
<1> QED BY <1>1, <1>5, <1>6, RunsMoveInv DEF saveVars, leaveVars, Parts, SaveTypes

LEMMA RunInv ==
  ASSUME Parts, Run
  PROVE  Parts'
<1>1. /\ UNCHANGED <<serverVars, textVars, saving, unconfirmed, saveError, notice, accessVars, leaveVars>>
      /\ UNCHANGED <<ready, runnerRetry, detecting, job, polling, runTexts, calls, orphans, runner>>
      /\ timer' = FALSE /\ entry # 0 /\ Len(runTexts) < MaxJobs
  BY DEF Run
<1>2. PICK w : w = [at |-> "flush", rev |-> 0, job |-> 0]
  OBVIOUS
<1>3. /\ starting' = w /\ w \in [at : {"flush", "sent", "running"}, rev : Nat, job : 0..MaxJobs]
      /\ w.at = "flush"
  <2>1. 0 \in 0..MaxJobs
    BY BoundsAssumption
  <2>2. w \in [at : {"flush", "sent", "running"}, rev : Nat, job : 0..MaxJobs] /\ w.at = "flush"
    BY <1>2, <2>1
  <2> QED BY <1>2, <2>2 DEF Run
<1>4. RunTypes' /\ StartsSound'
  BY <1>1, <1>3 DEF Parts, RunTypes, StartsSound, Served, serverVars, textVars
<1>5. RunsSavedText'
  BY <1>1, Frame
<1> QED BY <1>1, <1>4, <1>5, RunsMoveInv DEF leaveVars

\* A job is added, and the starts of those before it keep their texts.
LEMMA StartInv ==
  ASSUME Parts, Start
  PROVE  Parts'
<1>1. /\ UNCHANGED <<serverVars, textVars, saveVars, accessVars, leaveVars>>
      /\ UNCHANGED <<ready, runnerRetry, detecting, polling, calls, orphans, runner>>
      /\ runTexts' = Append(runTexts, input) /\ Flushed /\ entry # 0 /\ Len(runTexts) < MaxJobs
  BY DEF Start, Parts, StartsSound
<1>2. Served(entry, input) /\ input \in Texts /\ entry \in Nat
  BY <1>1 DEF Parts, TextTypes, EntrySound, Flushed, dirty
<1>3. PICK n : n = Len(runTexts) + 1
  OBVIOUS
<1>4. /\ runTexts \in Seq(Texts) /\ Len(runTexts) \in Nat /\ DOMAIN runTexts = 1..Len(runTexts)
      /\ runTexts' \in Seq(Texts) /\ Len(runTexts') = n /\ DOMAIN runTexts' = 1..n
      /\ runTexts'[n] = input /\ \A j \in DOMAIN runTexts : runTexts'[j] = runTexts[j]
  BY <1>1, <1>2, <1>3, AppendProperties, LenProperties DEF Parts, RunTypes
<1>5. n \in 1..MaxJobs /\ n \in DOMAIN runTexts' /\ \A j \in DOMAIN runTexts : j \in DOMAIN runTexts'
  BY <1>1, <1>3, <1>4, BoundsAssumption
<1>6. PICK w : w = [at |-> "sent", rev |-> entry, job |-> n]
  OBVIOUS
<1>7. /\ starting' = w /\ job' = n /\ w.at = "sent" /\ w.job = n /\ w.rev = entry
      /\ w \in [at : {"flush", "sent", "running"}, rev : Nat, job : 0..MaxJobs]
  <2>1. n \in 0..MaxJobs
    BY <1>5
  <2> QED BY <1>2, <1>3, <1>6, <2>1 DEF Start
<1>8. RunTypes'
  BY <1>1, <1>4, <1>5, <1>7 DEF Parts, RunTypes
<1>9. StartsSound'
  <2>1. (starting # Null =>
          /\ entry # 0
          /\ starting.at = "flush" => Len(runTexts) < MaxJobs
          /\ starting.at # "flush" =>
                starting.job \in DOMAIN runTexts /\ Served(starting.rev, runTexts[starting.job]))'
    BY <1>1, <1>2, <1>4, <1>5, <1>7 DEF Served, serverVars, textVars
  <2>2. \A o \in orphans : o.job \in DOMAIN runTexts' /\ Served(o.rev, runTexts'[o.job])
    BY <1>4, <1>5 DEF Parts, StartsSound
  <2>3. (\A o \in orphans : o.job \in DOMAIN runTexts /\ Served(o.rev, runTexts[o.job]))'
    BY <1>1, <2>2 DEF Served, serverVars
  <2>4. runner' # Null => runner'.job \in DOMAIN runTexts'
    BY <1>1, <1>5 DEF Parts, StartsSound
  <2>5. Len(runTexts') <= MaxJobs
    BY <1>4, <1>5
  <2> QED BY <2>1, <2>3, <2>4, <2>5 DEF StartsSound
<1>10. RunsSavedText'
  BY <1>1, <1>4 DEF Parts, StartsSound, RunsSavedText, Value
<1> QED BY <1>1, <1>8, <1>9, <1>10, RunsMoveInv DEF saveVars, leaveVars, Parts, SaveTypes

\* A start that is given up stays sound: it names its version and its job.
LEMMA OrphansSound ==
  ASSUME Parts, UNCHANGED <<history, runTexts>>,
         \E lates \in SUBSET AbandonedStart : orphans' = orphans \union lates
  PROVE  /\ orphans' \subseteq [job : 1..MaxJobs, rev : Nat]
         /\ (\A o \in orphans : o.job \in DOMAIN runTexts /\ Served(o.rev, runTexts[o.job]))'
<1>1. ASSUME NEW o \in AbandonedStart
      PROVE  /\ o \in [job : 1..MaxJobs, rev : Nat]
             /\ o.job \in DOMAIN runTexts /\ Served(o.rev, runTexts[o.job])
  <2>1. PICK s : /\ s = starting /\ s.at = "sent"
                 /\ s \in [at : {"flush", "sent", "running"}, rev : Nat, job : 0..MaxJobs]
                 /\ s.job \in DOMAIN runTexts /\ Served(s.rev, runTexts[s.job])
    BY <1>1 DEF AbandonedStart, Parts, RunTypes, StartsSound
  <2>2. o = [job |-> s.job, rev |-> s.rev]
    BY <1>1, <2>1 DEF AbandonedStart
  <2>3. s.job \in 1..MaxJobs
    <3>1. DOMAIN runTexts = 1..Len(runTexts) /\ Len(runTexts) \in Nat /\ Len(runTexts) <= MaxJobs
      BY LenProperties DEF Parts, RunTypes, StartsSound
    <3> QED BY <2>1, <3>1, BoundsAssumption
  <2> QED BY <2>1, <2>2, <2>3
<1>2. PICK lates \in SUBSET AbandonedStart : orphans' = orphans \union lates
  OBVIOUS
<1>3. \A o \in orphans' : /\ o \in [job : 1..MaxJobs, rev : Nat]
                          /\ o.job \in DOMAIN runTexts /\ Served(o.rev, runTexts[o.job])
  BY <1>1, <1>2 DEF Parts, RunTypes, StartsSound
<1>4. (\A o \in orphans : o.job \in DOMAIN runTexts /\ Served(o.rev, runTexts[o.job]))'
  BY <1>3 DEF Served
<1> QED BY <1>3, <1>4

LEMMA StartFailsInv ==
  ASSUME Parts, StartFails
  PROVE  Parts'
<1>1. /\ UNCHANGED <<serverVars, textVars, saveVars, accessVars, leaveVars>>
      /\ UNCHANGED <<ready, runnerRetry, detecting, polling, runTexts, calls, runner>>
      /\ starting' = Null /\ job' = 0
      /\ \E lates \in SUBSET AbandonedStart : orphans' = orphans \union lates
  BY DEF StartFails
<1>2. /\ orphans' \subseteq [job : 1..MaxJobs, rev : Nat]
      /\ (\A o \in orphans : o.job \in DOMAIN runTexts /\ Served(o.rev, runTexts[o.job]))'
  BY <1>1, OrphansSound DEF serverVars
<1>3. RunTypes'
  BY <1>1, <1>2, BoundsAssumption DEF Parts, RunTypes
<1>4. StartsSound'
  BY <1>1, <1>2 DEF Parts, StartsSound
<1>5. RunsSavedText'
  BY <1>1, Frame
<1> QED BY <1>1, <1>3, <1>4, <1>5, RunsMoveInv DEF saveVars, leaveVars, Parts, SaveTypes

LEMMA RenderedTypes ==
  ASSUME Parts, NEW about, NEW at, Rendered(about, at)
  PROVE  job' \in 0..MaxJobs /\ polling' \in BOOLEAN
<1>1. 0 \in 0..MaxJobs
  BY BoundsAssumption
<1> QED BY <1>1 DEF Rendered, Parts, RunTypes

LEMMA StartedInv ==
  ASSUME Parts, Started
  PROVE  Parts'
<1>1. /\ UNCHANGED <<serverVars, textVars, saveVars, accessVars, leaveVars>>
      /\ UNCHANGED <<ready, runnerRetry, detecting, runTexts, calls, orphans, runner>>
      /\ starting' = Null
  BY DEF Started
<1>2. job' \in 0..MaxJobs /\ polling' \in BOOLEAN
  BY RenderedTypes DEF Started
<1>3. RunTypes' /\ StartsSound'
  BY <1>1, <1>2 DEF Parts, RunTypes, StartsSound, Served, serverVars, textVars
<1>4. RunsSavedText'
  BY <1>1, Frame
<1> QED BY <1>1, <1>3, <1>4, RunsMoveInv DEF saveVars, leaveVars, Parts, SaveTypes

\* A call that is sent is about the job there is; one that ends leaves its place.
LEMMA CallTypes ==
  ASSUME Parts
  PROVE  /\ \A op \in {"poll", "stop"} :
                job # 0 /\ Calling(op) => calls' \in [1..MaxCalls -> Call \union {Null}]
         /\ \A i : Drop(i) => calls' \in [1..MaxCalls -> Call \union {Null}]
<1>1. calls \in [1..MaxCalls -> Call \union {Null}] /\ job \in 0..MaxJobs
  BY DEF Parts, RunTypes
<1>2. ASSUME NEW op \in {"poll", "stop"}, job # 0, Calling(op)
      PROVE  calls' \in [1..MaxCalls -> Call \union {Null}]
  <2>1. PICK c, s : c = [op |-> op, job |-> job, at |-> "sent"] /\ s = Slot
    OBVIOUS
  <2>2. job \in 1..MaxJobs
    BY <1>1, <1>2, BoundsAssumption
  <2>3. c \in Call
    BY <2>1, <2>2 DEF Call
  <2>4. calls' = [calls EXCEPT ![s] = c]
    BY <1>2, <2>1 DEF Calling
  <2> QED BY <1>1, <2>3, <2>4
<1>3. \A i : Drop(i) => calls' \in [1..MaxCalls -> Call \union {Null}]
  BY <1>1 DEF Drop
<1> QED BY <1>2, <1>3

LEMMA PollInv ==
  ASSUME Parts, Poll
  PROVE  Parts'
<1>1. /\ UNCHANGED <<serverVars, textVars, saveVars, accessVars, leaveVars>>
      /\ UNCHANGED <<detecting, starting, runTexts, orphans, runner>> /\ polling' = FALSE
  BY DEF Poll
<1>2. CASE job # 0 /\ Calling("poll") /\ UNCHANGED <<job, ready, runnerRetry>>
  BY <1>1, <1>2, CallTypes, CallsMoveInv DEF Parts, RunTypes
<1>3. CASE Lost /\ runnerRetry' = TRUE /\ UNCHANGED calls
  <2>1. ready' \in BOOLEAN /\ runnerRetry' \in BOOLEAN /\ polling' \in BOOLEAN
    BY <1>1, <1>3 DEF Parts, RunTypes, Lost
  <2>2. calls' \in [1..MaxCalls -> Call \union {Null}]
    BY <1>1, <1>3 DEF Parts, RunTypes
  <2>3. job' \in 0..MaxJobs
    BY <1>3, BoundsStartAtZero DEF Lost
  <2> QED BY <1>1, <2>1, <2>2, <2>3, CallsMoveInv
<1> QED BY <1>2, <1>3 DEF Poll

LEMMA PolledInv ==
  ASSUME Parts, NEW i \in 1..MaxCalls, Polled(i)
  PROVE  Parts'
<1>1. /\ UNCHANGED <<serverVars, textVars, saveVars, accessVars, leaveVars>>
      /\ UNCHANGED <<detecting, starting, runTexts, orphans, runner>>
      /\ calls' \in [1..MaxCalls -> Call \union {Null}]
  BY CallTypes DEF Polled
<1>2. CASE Rendered(calls[i].job, calls[i].at) /\ UNCHANGED <<ready, runnerRetry>>
  BY <1>1, <1>2, RenderedTypes, CallsMoveInv DEF Parts, RunTypes
<1>3. CASE Lost /\ runnerRetry' = TRUE /\ UNCHANGED polling
  <2>1. ready' \in BOOLEAN /\ runnerRetry' \in BOOLEAN /\ polling' \in BOOLEAN
    BY <1>1, <1>3 DEF Parts, RunTypes, Lost
  <2>2. calls' \in [1..MaxCalls -> Call \union {Null}]
    BY <1>1, <1>3 DEF Parts, RunTypes
  <2>3. job' \in 0..MaxJobs
    BY <1>3, BoundsStartAtZero DEF Lost
  <2> QED BY <1>1, <2>1, <2>2, <2>3, CallsMoveInv
<1> QED BY <1>2, <1>3 DEF Polled

LEMMA StopInv ==
  ASSUME Parts, Stop
  PROVE  Parts'
<1>1. /\ UNCHANGED <<serverVars, textVars, saveVars, accessVars, leaveVars>>
      /\ UNCHANGED <<detecting, starting, runTexts, orphans, runner, ready, runnerRetry, job, polling>>
      /\ job # 0 /\ Calling("stop")
  BY DEF Stop
<1>2. calls' \in [1..MaxCalls -> Call \union {Null}]
  BY <1>1, CallTypes
<1> QED BY <1>1, <1>2, CallsMoveInv DEF Parts, RunTypes

LEMMA StoppedInv ==
  ASSUME Parts, NEW i \in 1..MaxCalls, Stopped(i)
  PROVE  Parts'
<1>1. /\ UNCHANGED <<serverVars, textVars, saveVars, accessVars, leaveVars>>
      /\ UNCHANGED <<runnerRetry, detecting, starting, runTexts, orphans, runner>>
      /\ calls' \in [1..MaxCalls -> Call \union {Null}]
  BY CallTypes DEF Stopped
<1>2. CASE Rendered(calls[i].job, calls[i].at) /\ UNCHANGED ready
  BY <1>1, <1>2, RenderedTypes, CallsMoveInv DEF Parts, RunTypes
<1>3. CASE Lost /\ polling' = FALSE
  <2>1. ready' \in BOOLEAN /\ runnerRetry' \in BOOLEAN /\ polling' \in BOOLEAN
    BY <1>1, <1>3 DEF Parts, RunTypes, Lost
  <2>2. calls' \in [1..MaxCalls -> Call \union {Null}]
    BY <1>1, <1>3 DEF Parts, RunTypes
  <2>3. job' \in 0..MaxJobs
    BY <1>3, BoundsStartAtZero DEF Lost
  <2> QED BY <1>1, <2>1, <2>2, <2>3, CallsMoveInv
<1> QED BY <1>2, <1>3 DEF Stopped

-----------------------------------------------------------------------------
(* Leaving. *)

\* Whatever lock() and a departure abort, what is still on its way is sound.
LEMMA AbortInv ==
  ASSUME Parts, Abort, TextTypes', EntrySound', unconfirmed' \in {unconfirmed, Null},
         saveError' \in {"", "revision_changed", "conflict_storage_full", "other"},
         notice' \in BOOLEAN, generation' \in 0..MaxGenerations + 1,
         detecting' \in 0..MaxGenerations, runnerRetry' \in BOOLEAN,
         leaving' \in BOOLEAN, lost' \in {"no", "unload"}
  PROVE  Parts'
<1>1. /\ saving' = Null /\ late' \in {late} \union Abandoned(saving)
      /\ \E lates \in SUBSET AbandonedStart : orphans' = orphans \union lates
      /\ calls' = [i \in 1..MaxCalls |-> Null]
      /\ opening' = Null /\ retrying' = Null /\ starting' = Null /\ departing' = Null
      /\ unlocked' = FALSE /\ editAllowed' = FALSE
      /\ timer' = FALSE /\ polling' = FALSE /\ ready' = FALSE /\ job' = 0
      /\ UNCHANGED <<history, conflicts, foreign, edits, runTexts, runner>>
  BY DEF Abort
<1>2. late' \in Put \union {Null} /\ (late' # Null => PutSound(late)')
  BY <1>1, AbandonedSound
<1>3. /\ orphans' \subseteq [job : 1..MaxJobs, rev : Nat]
      /\ (\A o \in orphans : o.job \in DOMAIN runTexts /\ Served(o.rev, runTexts[o.job]))'
  BY <1>1, OrphansSound
<1>4. ServerTypes' /\ SaveTypes' /\ AccessTypes' /\ LeaveTypes'
  BY <1>1, <1>2 DEF Parts, ServerTypes, SaveTypes, AccessTypes, LeaveTypes
<1>5. RunTypes'
  <2>1. calls' \in [1..MaxCalls -> Call \union {Null}]
    BY <1>1
  <2>2. 0 \in 0..MaxJobs
    BY BoundsStartAtZero
  <2> QED BY <1>1, <1>3, <2>1, <2>2 DEF Parts, RunTypes
<1>6. SavesSound' /\ AnswersSound' /\ DepartureSound'
  BY <1>1, <1>2 DEF Parts, SavesSound, AnswersSound, DepartureSound
<1>7. StartsSound'
  BY <1>1, <1>3 DEF Parts, StartsSound
<1>8. RunsSavedText'
  BY <1>1, Frame
<1> QED BY <1>4, <1>5, <1>6, <1>7, <1>8 DEF Parts

LEMMA LockPageInv ==
  ASSUME Parts, LockPage, unlocked, leaving' \in BOOLEAN
  PROVE  Parts'
<1>1. /\ Abort /\ generation' = generation + 1 /\ UNCHANGED <<eol, unconfirmed, lost>>
      /\ edits' = edits /\ history' = history
  BY DEF LockPage, Abort
<1>2. generation' \in 0..MaxGenerations + 1
  BY <1>1, BoundsAssumption DEF Parts, AccessTypes
<1>3. TextTypes' /\ EntrySound' /\ notice' \in BOOLEAN
      /\ saveError' \in {"", "revision_changed", "conflict_storage_full", "other"}
  <2>1. CASE dirty
    <3>1. saveError' = "other" /\ notice' = TRUE /\ UNCHANGED <<entry, input, savedText>>
      BY <2>1 DEF LockPage
    <3> QED BY <1>1, <3>1 DEF Parts, TextTypes, EntrySound, Served
  <2>2. CASE ~dirty
    <3>1. /\ entry' = 0 /\ input' = Empty /\ savedText' = Empty
          /\ saveError' \in {saveError, "other"} /\ notice' \in BOOLEAN
      BY <2>2 DEF LockPage, Parts, SaveTypes
    <3> QED BY <1>1, <3>1 DEF Parts, TextTypes, SaveTypes, EntrySound
  <2> QED BY <2>1, <2>2
<1>4. detecting' \in 0..MaxGenerations /\ runnerRetry' \in BOOLEAN
  <2>1. 0 \in 0..MaxGenerations
    BY BoundsAssumption
  <2>2. CASE detecting' = 0 /\ runnerRetry' = TRUE
    BY <2>1, <2>2
  <2>3. CASE UNCHANGED <<detecting, runnerRetry>>
    BY <2>3 DEF Parts, RunTypes
  <2> QED BY <2>2, <2>3 DEF LockPage
<1>5. lost' \in {"no", "unload"}
  BY <1>1 DEF Parts, LeaveTypes
<1> QED BY <1>1, <1>2, <1>3, <1>4, <1>5, AbortInv

LEMMA LockInv ==
  ASSUME Parts, Lock
  PROVE  Parts'
<1>1. LockPage /\ unlocked /\ leaving' \in BOOLEAN
  BY DEF Lock, Parts, LeaveTypes
<1> QED BY <1>1, LockPageInv

LEMMA GoAwayInv ==
  ASSUME Parts, NEW how \in {"leave", "unload", "warned"}, GoAway(how), how = "leave" => ~Unsaved
  PROVE  Parts'
<1>1. /\ Abort /\ generation' = 0 /\ detecting' = 0 /\ runnerRetry' = FALSE
      /\ entry' = 0 /\ eol' = "lf" /\ input' = Empty /\ savedText' = Empty
      /\ saveError' = "" /\ notice' = FALSE /\ unconfirmed' = Null /\ leaving' = FALSE
      /\ edits' = edits
  BY DEF GoAway, Abort
<1>2. lost' \in {"no", "unload"}
  BY DEF GoAway, Parts, LeaveTypes
<1>3. 0 \in 0..MaxGenerations + 1 /\ 0 \in 0..MaxGenerations
  BY BoundsAssumption
<1>4. TextTypes' /\ EntrySound'
  BY <1>1 DEF Parts, TextTypes, EntrySound
<1> QED BY <1>1, <1>2, <1>3, <1>4, AbortInv

\* A departure, or the end of one, that leaves the page as it is.
LEMMA DepartingMovesInv ==
  ASSUME Parts, UNCHANGED <<serverVars, textVars, saving, unconfirmed, saveError, accessVars, runVars,
                            leaving, lost>>,
         timer' \in BOOLEAN, notice' \in BOOLEAN,
         departing' \in [at : {"flush", "stop"}, logout : BOOLEAN] \union {Null},
         departing' # Null =>
            /\ departing'.logout => unlocked
            /\ departing'.at = "stop" => entry = 0 \/ \E r \in DOMAIN history : Served(r, input)
  PROVE  Parts'
<1>1. ServerTypes' /\ TextTypes' /\ AccessTypes' /\ RunTypes' /\ EntrySound' /\ SavesSound'
      /\ AnswersSound' /\ StartsSound' /\ RunsSavedText'
  BY Frame DEF serverVars, textVars, accessVars, runVars
<1>2. SaveTypes' /\ LeaveTypes'
  BY DEF Parts, SaveTypes, LeaveTypes
<1>3. DepartureSound'
  BY DEF DepartureSound, Served, serverVars, textVars, accessVars
<1> QED BY <1>1, <1>2, <1>3 DEF Parts

LEMMA LeaveInv ==
  ASSUME Parts, Leave
  PROVE  Parts'
<1>1. PICK logout \in BOOLEAN : (logout => unlocked) /\ departing' = [at |-> "flush", logout |-> logout]
  BY DEF Leave
<1>2. /\ UNCHANGED <<serverVars, textVars, saving, unconfirmed, saveError, accessVars, runVars,
                     leaving, lost>>
      /\ timer' = FALSE /\ notice' = notice
  BY DEF Leave
<1>3. PICK w : w = [at |-> "flush", logout |-> logout]
  OBVIOUS
<1>4. departing' = w /\ w \in [at : {"flush", "stop"}, logout : BOOLEAN] /\ w.at = "flush"
      /\ w.logout = logout
  BY <1>1, <1>3
<1>5. notice' \in BOOLEAN
  BY <1>2 DEF Parts, SaveTypes
<1> QED BY <1>1, <1>2, <1>4, <1>5, DepartingMovesInv

LEMMA LeaveStopsInv ==
  ASSUME Parts, LeaveStops
  PROVE  Parts'
<1>1. PICK d : /\ d = departing /\ d \in [at : {"flush", "stop"}, logout : BOOLEAN]
               /\ d.logout => unlocked
  BY DEF LeaveStops, Parts, LeaveTypes, DepartureSound
<1>2. /\ UNCHANGED <<serverVars, textVars, saving, unconfirmed, saveError, accessVars, runVars,
                     leaving, lost>>
      /\ timer' \in BOOLEAN /\ notice' \in BOOLEAN
  BY DEF LeaveStops, saveVars, Parts, SaveTypes
<1>3. PICK w : w = [d EXCEPT !.at = "stop"]
  OBVIOUS
<1>4. departing' = w /\ w \in [at : {"flush", "stop"}, logout : BOOLEAN] /\ w.logout = d.logout
  BY <1>1, <1>3 DEF LeaveStops
<1>5. entry = 0 \/ \E r \in DOMAIN history : Served(r, input)
  BY DEF LeaveStops, Flushed, dirty, Parts, EntrySound, Served
<1> QED BY <1>1, <1>2, <1>4, <1>5, DepartingMovesInv

LEMMA LeaveFailsInv ==
  ASSUME Parts, LeaveFails
  PROVE  Parts'
<1>1. /\ UNCHANGED <<serverVars, textVars, saving, unconfirmed, saveError, accessVars, runVars,
                     leaving, lost>>
      /\ timer' \in BOOLEAN /\ notice' \in BOOLEAN /\ departing' = Null
  BY DEF LeaveFails, Parts, SaveTypes
<1> QED BY <1>1, DepartingMovesInv

LEMMA DepartedInv ==
  ASSUME Parts, Departed
  PROVE  Parts'
<1>1. CASE departing.logout /\ LockPage /\ leaving' = TRUE
  BY <1>1, LockPageInv DEF Departed, Parts, DepartureSound
<1>2. CASE GoAway("leave")
  <2>1. ~Unsaved
    BY DEF Departed, Unsaved, Flushed, dirty, Parts, DepartureSound, Served
  <2> QED BY <1>2, <2>1, GoAwayInv
<1> QED BY <1>1, <1>2 DEF Departed

LEMMA UnloadInv ==
  ASSUME Parts, Unload
  PROVE  Parts'
<1>1. GoAway("warned") \/ GoAway("unload")
  BY DEF Unload
<1> QED BY <1>1, GoAwayInv

LEMMA DiscardInv ==
  ASSUME Parts, Discard
  PROVE  Parts'
  BY GoAwayInv DEF Discard

-----------------------------------------------------------------------------
(* The invariant. *)

LEMMA InitParts ==
  ASSUME Init
  PROVE  Parts
<1>1. PICK c \in Foreign \ {Deleted} : history = <<c>>
  BY DEF Init
<1>2. c \in Contents /\ c \in Source
  BY NamesAssumption DEF Source
<1>3. history \in Seq(Source) /\ Len(history) # 0
  BY <1>1, <1>2
<1>4. ServerTypes
  BY <1>3, BoundsStartAtZero DEF Init, ServerTypes
<1>5. TextTypes /\ SaveTypes /\ LeaveTypes
  <2>1. 0 \in 0..MaxEdits
    BY BoundsStartAtZero
  <2> QED BY <2>1 DEF Init, TextTypes, SaveTypes, LeaveTypes
<1>6. AccessTypes
  <2>1. 0 \in 0..MaxGenerations + 1
    BY BoundsAssumption
  <2> QED BY <2>1 DEF Init, AccessTypes
<1>7. RunTypes
  <2>1. 0 \in 0..MaxGenerations /\ 0 \in 0..MaxJobs
    BY BoundsStartAtZero
  <2>2. <<>> \in Seq(Texts) /\ [i \in 1..MaxCalls |-> Null] \in [1..MaxCalls -> Call \union {Null}]
    OBVIOUS
  <2> QED BY <2>1, <2>2 DEF Init, RunTypes
<1>8. EntrySound /\ SavesSound /\ AnswersSound /\ RunsSavedText /\ DepartureSound
  BY DEF Init, EntrySound, SavesSound, AnswersSound, RunsSavedText, DepartureSound
<1>9. StartsSound
  <2>1. runTexts = <<>> /\ Len(runTexts) = 0
    BY DEF Init
  <2>2. Len(runTexts) <= MaxJobs
    BY <2>1, BoundsStartAtZero
  <2> QED BY <2>2 DEF Init, StartsSound
<1> QED BY <1>4, <1>5, <1>6, <1>7, <1>8, <1>9 DEF Parts

LEMMA FlushEndsInv ==
  ASSUME Parts, FlushEnds
  PROVE  Parts'
<1>1. \/ FlushPersists \/ Start \/ StartFails \/ RetryFails \/ RetryFlushed
      \/ LeaveStops \/ Departed \/ LeaveFails
  BY DEF FlushEnds
<1> QED BY <1>1, FlushPersistsInv, StartInv, StartFailsInv, RetryFailsInv, RetryFlushedInv,
           LeaveStopsInv, DepartedInv, LeaveFailsInv

LEMMA EndsInv ==
  ASSUME Parts, Ends
  PROVE  Parts'
<1>1. CASE SaveConfirmed \/ SaveFails \/ OpenLoaded \/ OpenFails \/ OpenAuthorized \/ Detected
  BY <1>1, SaveConfirmedInv, SaveFailsInv, OpenLoadedInv, OpenFailsInv, OpenAuthorizedInv, DetectedInv
<1>2. CASE RetryAuthorized \/ RetryReconciles \/ RetryFails \/ Started \/ StartFails
           \/ Departed \/ LeaveFails
  BY <1>2, RetryAuthorizedInv, RetryReconcilesInv, RetryFailsInv, StartedInv, StartFailsInv,
     DepartedInv, LeaveFailsInv
<1>3. CASE \E i \in 1..MaxCalls : Polled(i) \/ Stopped(i)
  BY <1>3, PolledInv, StoppedInv
<1> QED BY <1>1, <1>2, <1>3 DEF Ends

LEMMA PageInv ==
  ASSUME Parts, Page
  PROVE  Parts'
<1>1. CASE PersistNow \/ Changed \/ Open \/ Retry \/ RunnerRetry \/ Run
  BY <1>1, PersistNowInv, ChangedInv, OpenInv, RetryInv, RunnerRetryInv, RunInv
<1>2. CASE Poll \/ Stop \/ Lock \/ Leave \/ Unload \/ Discard
  BY <1>2, PollInv, StopInv, LockInv, LeaveInv, UnloadInv, DiscardInv
<1> QED BY <1>1, <1>2 DEF Page

LEMMA EnvironmentInv ==
  ASSUME Parts, Environment
  PROVE  Parts'
<1>1. CASE SaveServed \/ LateSaveServed \/ OtherDeviceWrites \/ SourceServed \/ StartServed \/ RunnerEnds
  BY <1>1, SaveServedInv, LateSaveServedInv, OtherDeviceWritesInv, SourceServedInv, StartServedInv,
     RunnerEndsInv
<1>2. CASE \E i \in 1..MaxCalls : CallServed(i)
  BY <1>2, CallServedInv
<1> QED BY <1>1, <1>2 DEF Environment

LEMMA StepInv ==
  ASSUME Parts, [Next]_vars
  PROVE  Parts'
<1>1. CASE Next
  BY <1>1, FlushEndsInv, EndsInv, PageInv, EnvironmentInv DEF Next
<1>2. CASE UNCHANGED vars
  BY <1>2, Frame DEF vars, serverVars, textVars, saveVars, accessVars, runVars, leaveVars, Parts
<1> QED BY <1>1, <1>2

\* Every reachable state of the page, of the server's versions and of what is on its way is sound.
THEOREM PageSound == Spec => []Parts
<1>1. Init => Parts
  BY InitParts
<1>2. Parts /\ [Next]_vars => Parts'
  BY StepInv
<1> QED BY <1>1, <1>2, PTL DEF Spec

\* The page, the server and the runner keep to their types; in particular the revision the page
\* knows is one the server has given, whatever was lost, given up or retried (controller.js).
THEOREM TypeCorrect == Spec => []TypeOK
<1>1. Parts => TypeOK
  BY PartsMakeInv DEF Inv
<1> QED BY <1>1, PageSound, PTL

\* persist(), open() and the retry button take for saved only what the server holds under the
\* revision they keep, so "Enregistre" is shown only for a text that is a version of the file.
THEOREM ConfirmedServed == Spec => []ConfirmedTextServed
<1>1. Parts => ConfirmedTextServed
  <2> SUFFICES ASSUME Parts PROVE ConfirmedTextServed
    OBVIOUS
  <2>1. entry # 0 => history[entry] # Deleted /\ Value(history[entry]) = savedText
    BY DEF Parts, EntrySound, Served
  <2>2. SaveState = "Enregistre" => entry # 0 /\ input = savedText
    BY DEF SaveState, dirty
  <2> QED BY <2>1, <2>2 DEF ConfirmedTextServed
<1> QED BY <1>1, PageSound, PTL

\* The local client runs the text the editor showed when its run was asked for: a start names the
\* revision of that text, and is refused unless the revision still is the current one.
THEOREM RunsWhatWasShown == Spec => []RunsSavedText
<1>1. Parts => RunsSavedText
  BY DEF Parts
<1> QED BY <1>1, PageSound, PTL

\* leave() never takes the page away while the text it shows is in no version of the file.
THEOREM DepartsOnlySaved == Spec => []DepartsSaved
<1>1. Parts => DepartsSaved
  BY DEF Parts, LeaveTypes, DepartsSaved
<1> QED BY <1>1, PageSound, PTL

\* Only the server's own steps add a version, or tell that a save in flight is stored.
LEMMA OnlyServerWrites ==
  ASSUME Next
  PROVE  \/ SaveServed \/ LateSaveServed \/ OtherDeviceWrites
         \/ history' = history /\ (saving' = saving \/ saving' = Null \/ saving = Null)
<1> DEFINE Stays == history' = history /\ (saving' = saving \/ saving' = Null \/ saving = Null)
<1>1. CASE FlushEnds
  <2>1. FlushPersists => Stays
    BY DEF FlushPersists, CanPersist, serverVars
  <2>2. Start \/ StartFails \/ RetryFails \/ RetryFlushed \/ LeaveStops \/ LeaveFails => Stays
    BY DEF Start, StartFails, RetryFails, RetryFlushed, LeaveStops, LeaveFails, serverVars, saveVars
  <2>3. Departed => Stays
    BY DEF Departed, LockPage, GoAway, Abort
  <2> QED BY <1>1, <2>1, <2>2, <2>3 DEF FlushEnds
<1>2. CASE Ends
  <2>1. SaveConfirmed \/ SaveFails => Stays
    BY DEF SaveConfirmed, SaveFails, serverVars
  <2>2. OpenLoaded \/ OpenFails \/ OpenAuthorized \/ Detected => Stays
    BY DEF OpenLoaded, OpenFails, OpenAuthorized, Detected, serverVars, saveVars
  <2>3. RetryAuthorized \/ RetryReconciles \/ RetryFails => Stays
    BY DEF RetryAuthorized, RetryReconciles, RetryFails, serverVars
  <2>4. Started \/ StartFails \/ LeaveFails \/ (\E i \in 1..MaxCalls : Polled(i) \/ Stopped(i)) => Stays
    BY DEF Started, StartFails, LeaveFails, Polled, Stopped, serverVars, saveVars
  <2>5. Departed => Stays
    BY DEF Departed, LockPage, GoAway, Abort
  <2> QED BY <1>2, <2>1, <2>2, <2>3, <2>4, <2>5 DEF Ends
<1>3. CASE Page
  <2>1. PersistNow => Stays
    BY DEF PersistNow, CanPersist, serverVars
  <2>2. Changed \/ Open \/ Retry \/ RunnerRetry \/ Run => Stays
    BY DEF Changed, Open, Retry, RunnerRetry, Run, serverVars, saveVars
  <2>3. Poll \/ Stop \/ Leave => Stays
    BY DEF Poll, Stop, Leave, serverVars, saveVars
  <2>4. Lock \/ Unload \/ Discard => Stays
    BY DEF Lock, Unload, Discard, LockPage, GoAway, Abort
  <2> QED BY <1>3, <2>1, <2>2, <2>3, <2>4 DEF Page
<1>4. CASE Environment
  <2>1. SourceServed \/ StartServed \/ RunnerEnds \/ (\E i \in 1..MaxCalls : CallServed(i)) => Stays
    BY DEF SourceServed, StartServed, RunnerEnds, CallServed, serverVars, saveVars
  <2> QED BY <1>4, <2>1 DEF Environment
<1> QED BY <1>1, <1>2, <1>3, <1>4 DEF Next

\* An accepted save was made from the version it replaces.
LEMMA AcceptedReplacesShown ==
  ASSUME NEW put, PutSound(put), Accepts(put)
  PROVE  Current # Deleted /\ Value(Current) = put.from
  BY DEF PutSound, Served, Accepts, Current

LEMMA StepReplacesShown ==
  ASSUME Parts, Next
  PROVE  /\ saving # Null /\ saving.at = "sent" /\ saving' # Null /\ saving'.at = "stored"
               => Current # Deleted /\ Value(Current) = saving.put.from
         /\ late # Null /\ late' = Null /\ history' # history
               => Current # Deleted /\ Value(Current) = late.from
<1>1. CASE SaveServed
  <2>1. PICK s : s = saving /\ s \in Save /\ PutSound(s.put)
    BY <1>1 DEF SaveServed, Parts, SaveTypes, SavesSound
  <2>2. CASE Accepts(s.put)
    BY <1>1, <2>1, <2>2, AcceptedReplacesShown DEF SaveServed
  <2>3. CASE \E full \in BOOLEAN : saving' = [s EXCEPT !.at = IF full THEN "full" ELSE "conflict"]
    <3>1. PICK full \in BOOLEAN : saving' = [s EXCEPT !.at = IF full THEN "full" ELSE "conflict"]
      BY <2>3
    <3>2. saving'.at # "stored"
      BY <2>1, <3>1 DEF Save
    <3> QED BY <1>1, <3>2 DEF SaveServed
  <2> QED BY <1>1, <2>1, <2>2, <2>3 DEF SaveServed
<1>2. CASE LateSaveServed
  <2>1. PICK l : l = late /\ PutSound(l) /\ (history' # history => Accepts(l))
    BY <1>2 DEF LateSaveServed, Preserve, Parts, SavesSound
  <2>2. saving' = saving
    BY <1>2 DEF LateSaveServed, saveVars
  <2> QED BY <2>1, <2>2, AcceptedReplacesShown
<1>3. CASE OtherDeviceWrites
  BY <1>3 DEF OtherDeviceWrites, saveVars
<1>4. CASE history' = history /\ (saving' = saving \/ saving' = Null \/ saving = Null)
  BY <1>4
<1> QED BY <1>1, <1>2, <1>3, <1>4, OnlyServerWrites

\* Whether its answer is waited for or the page gave it up, a save that the server stores replaces
\* the very text the page had shown: no version of another device is overwritten unseen.
THEOREM ReplacesShown == Spec => ReplacesWhatWasShown
<1>1. Parts /\ [Next]_vars =>
        [LET stored(put) == Current # Deleted /\ Value(Current) = put.from
         IN /\ (saving # Null /\ saving.at = "sent" /\ saving' # Null /\ saving'.at = "stored")
                  => stored(saving.put)
            /\ (late # Null /\ late' = Null /\ history' # history) => stored(late)]_vars
  BY StepReplacesShown
<1> QED BY <1>1, PageSound, PTL DEF Spec, ReplacesWhatWasShown
=============================================================================
