----------------------------- MODULE EditorPage -----------------------------
(***************************************************************************)
(* The code editor: the page of one file (editor-src/controller.js), the   *)
(* versions the server keeps of that file, and the runner of the local     *)
(* client.  The page saves by itself, saves again what was typed meanwhile, *)
(* reconciles a save whose answer was lost, runs the text it has saved, and *)
(* is locked by the end of the session.                                    *)
(*                                                                         *)
(* Code between two awaits is one step.  Aborting a request rejects it     *)
(* before the next event, so Lock also does what the handlers waiting on   *)
(* the aborted requests do.  A request the page has given up may still     *)
(* reach the server.  Digests are computed at once, and a text always has  *)
(* a line end.  authorize() is the exchange of WebSession: one step here.  *)
(* Requests end: each of them has a time limit.                            *)
(***************************************************************************)
EXTENDS Naturals, Sequences

CONSTANTS
    Texts,           \* what the user or another device may write, line ends aside
    Empty,           \* the empty document
    Null,            \* nothing
    Deleted,         \* the version of a deleted file
    Foreign,         \* the contents other devices write
    MaxForeign,      \* bound: versions of other devices
    MaxEdits,        \* bound: changes of the text
    MaxGenerations,  \* bound: openings and locks of the page
    MaxJobs,         \* bound: runs asked for
    MaxCalls         \* bound: calls to the local client in flight

Eols == {"lf", "crlf", "mixed"}
Contents == [text : Texts, eol : Eols]

ASSUME NamesAssumption ==
    /\ Null \notin Contents /\ Deleted \notin Contents
    /\ Empty \notin Texts /\ Foreign \subseteq Contents \union {Deleted}
ASSUME BoundsAssumption ==
    {MaxForeign, MaxEdits, MaxGenerations, MaxJobs, MaxCalls} \subseteq Nat

VARIABLES
    history,      \* versions of the file: a revision is an index
    conflicts,    \* contents kept in .mysync-conflicts/
    late,         \* a save on its way whose page has given it up, or Null
    foreign,      \* versions written by other devices
    entry,        \* revision of entry, 0 when undefined
    eol,
    savedText,
    input,
    edits,        \* changes made by the user
    timer,        \* a save is scheduled
    saving,       \* the save in flight, or Null
    unconfirmed,  \* the last save sent and not confirmed, or Null
    saveError,    \* code of saveError, "" when undefined
    notice,       \* the notice with the retry button is shown
    generation,
    unlocked,     \* the controller's signal is not aborted
    editAllowed,
    opening,      \* the stage of open(), and the revision it was answered
    retrying,     \* the same of the handler of the retry button
    ready,
    runnerRetry,  \* the button that detects again is shown
    detecting,    \* 0, or the generation detect() was called in
    starting,     \* stage of the run handler, the revision to run and its job, or Null
    job,          \* the number of the job, 0 when undefined
    polling,      \* a poll is scheduled
    runTexts,     \* lastRunText of each job
    calls,        \* polls and stops sent to the local client
    orphans,      \* starts sent to it and given up
    runner,       \* what the runner of this PC last ran, or Null
    departing,    \* stage of leave(), or Null
    leaving,
    lost          \* what took an unconfirmed text away without a warning, or "no"

serverVars == <<history, conflicts, late, foreign>>
textVars == <<entry, eol, savedText, input, edits>>
saveVars == <<timer, saving, unconfirmed, saveError, notice>>
accessVars == <<generation, unlocked, editAllowed, opening, retrying>>
runVars == <<ready, runnerRetry, detecting, starting, job, polling, runTexts, calls,
             orphans, runner>>
leaveVars == <<departing, leaving, lost>>
vars == <<serverVars, textVars, saveVars, accessVars, runVars, leaveVars>>

Value(c) == c.text                                  \* CodeMirror normalises line ends

EolOf(c) == IF c.eol = "lf" THEN "lf" ELSE "crlf"
Code(text, e) == [text |-> text, eol |-> e]
content == Code(input, eol)
Current == history[Len(history)]

\* from is the text the page took for saved when it sent code.
Put == [text : Texts, code : Contents, base : Nat, from : Texts]
Save == [put : Put, rev : Nat, at : {"sent", "stored", "conflict", "full"}]
Stage(names) == [at : names, rev : Nat]
Call == [op : {"poll", "stop"}, job : 1..MaxJobs, at : {"sent", "running", "over"}]

TypeOK ==
    /\ history \in Seq(Contents \union {Deleted}) /\ conflicts \subseteq Contents
    /\ late \in Put \union {Null} /\ foreign \in 0..MaxForeign
    /\ entry \in 0..Len(history) /\ eol \in {"lf", "crlf"}
    /\ {savedText, input} \subseteq Texts \union {Empty} /\ edits \in 0..MaxEdits
    /\ timer \in BOOLEAN /\ saving \in Save \union {Null}
    /\ unconfirmed \in Put \union {Null}
    /\ saveError \in {"", "revision_changed", "conflict_storage_full", "other"}
    /\ notice \in BOOLEAN
    /\ generation \in 0..MaxGenerations + 1 /\ unlocked \in BOOLEAN /\ editAllowed \in BOOLEAN
    /\ opening \in Stage({"load", "loaded", "edit"}) \union {Null}
    /\ retrying \in Stage({"auth", "load", "loaded", "flush"}) \union {Null}
    /\ {ready, runnerRetry} \subseteq BOOLEAN /\ detecting \in 0..MaxGenerations
    /\ starting \in [at : {"flush", "sent", "running"}, rev : Nat, job : 0..MaxJobs] \union {Null}
    /\ job \in 0..MaxJobs /\ polling \in BOOLEAN
    /\ runTexts \in Seq(Texts) /\ calls \in [1..MaxCalls -> Call \union {Null}]
    /\ orphans \subseteq [job : 1..MaxJobs, rev : Nat]
    /\ runner \in [job : 1..MaxJobs, source : Contents, over : BOOLEAN] \union {Null}
    /\ departing \in [at : {"flush", "stop"}, logout : BOOLEAN] \union {Null}
    /\ leaving \in BOOLEAN /\ lost \in {"no", "leave", "unload"}

Init ==
    /\ \E c \in Foreign \ {Deleted} : history = <<c>>
    /\ conflicts = {} /\ late = Null /\ foreign = 0
    /\ entry = 0 /\ eol = "lf" /\ savedText = Empty /\ input = Empty /\ edits = 0
    /\ timer = FALSE /\ saving = Null /\ unconfirmed = Null /\ saveError = ""
    /\ notice = FALSE
    /\ generation = 0 /\ unlocked = FALSE /\ editAllowed = FALSE
    /\ opening = Null /\ retrying = Null
    /\ ready = FALSE /\ runnerRetry = FALSE /\ detecting = 0 /\ starting = Null
    /\ job = 0 /\ polling = FALSE
    /\ runTexts = <<>> /\ calls = [i \in 1..MaxCalls |-> Null] /\ orphans = {}
    /\ runner = Null
    /\ departing = Null /\ leaving = FALSE /\ lost = "no"

dirty == entry # 0 /\ input # savedText

\* saveStatus(): what the page says of the text.
SaveState ==
    CASE saveError # ""   -> "Sauvegarde interrompue"
      [] saving # Null    -> "Enregistrement"
      [] dirty            -> "Modifie"
      [] entry = 0        -> "Ouverture"
      [] ~editAllowed     -> "Lecture seule"
      [] OTHER            -> "Enregistre"
-----------------------------------------------------------------------------
(* The server's save, for the request the page waits for or a late one. *)

\* Mutant of Accepts: a save is compared with the live file only, not with its revision.
AcceptsAnyBase(put) == Current # Deleted

Accepts(put) == Current # Deleted /\ put.base = Len(history)

\* A refused content is kept, unless the conflict store is full.
Preserve(put, full) ==
    /\ conflicts' = IF full THEN conflicts ELSE conflicts \union {put.code}
    /\ UNCHANGED history

SaveServed ==
    /\ saving # Null /\ saving.at = "sent"
    /\ \/ /\ Accepts(saving.put)
          /\ history' = Append(history, saving.put.code)
          /\ saving' = [saving EXCEPT !.at = "stored", !.rev = Len(history) + 1]
          /\ UNCHANGED conflicts
       \/ \E full \in BOOLEAN :
            /\ ~Accepts(saving.put) /\ Preserve(saving.put, full)
            /\ saving' = [saving EXCEPT !.at = IF full THEN "full" ELSE "conflict"]
    /\ UNCHANGED <<late, foreign, textVars, timer, unconfirmed, saveError, notice, accessVars,
                   runVars, leaveVars>>

LateSaveServed ==
    /\ late # Null /\ late' = Null
    /\ \/ Accepts(late) /\ history' = Append(history, late.code) /\ UNCHANGED conflicts
       \/ ~Accepts(late) /\ \E full \in BOOLEAN : Preserve(late, full)
    /\ UNCHANGED <<foreign, textVars, saveVars, accessVars, runVars, leaveVars>>

OtherDeviceWrites ==
    /\ foreign < MaxForeign /\ foreign' = foreign + 1
    /\ \E c \in Foreign : c # Current /\ history' = Append(history, c)
    /\ UNCHANGED <<conflicts, late, textVars, saveVars, accessVars, runVars, leaveVars>>
-----------------------------------------------------------------------------
(* Saving.  A save that is given up may still be on its way; bound: one of them. *)

Abandoned(s) == IF s # Null /\ s.at = "sent" /\ late = Null THEN {s.put} ELSE {}

CanPersist == saving = Null /\ dirty /\ saveError = "" /\ editAllowed

\* persist(), once its guards have passed.
Persist ==
    LET put == [text |-> input, code |-> content, base |-> entry, from |-> savedText]
    IN saving' = [put |-> put, rev |-> 0, at |-> "sent"] /\ unconfirmed' = put

\* Ctrl+S or the timer.
PersistNow ==
    /\ timer /\ timer' = FALSE
    /\ \/ CanPersist /\ Persist
       \/ ~CanPersist /\ UNCHANGED <<saving, unconfirmed>>
    /\ UNCHANGED <<serverVars, textVars, saveError, notice, accessVars, runVars, leaveVars>>

\* schedule(), in the state a step leads to.
Schedule ==
    timer' = (dirty' /\ saving' = Null /\ saveError' = "" /\ editAllowed')

\* Mutant of SavedText: an answer confirms the text it finds, not the one it was sent for.
SavedTextShown(put) == input

SavedText(put) == put.text

\* Mutant of SaveConfirmed: nothing is scheduled for what was typed during the save.
SaveConfirmedSilent ==
    /\ saving # Null /\ saving.at = "stored"
    /\ entry' = saving.rev /\ savedText' = SavedText(saving.put)
    /\ unconfirmed' = Null /\ saving' = Null /\ notice' = FALSE
    /\ UNCHANGED <<serverVars, eol, input, edits, timer, saveError, accessVars, runVars, leaveVars>>

SaveConfirmed ==
    /\ saving # Null /\ saving.at = "stored"
    /\ entry' = saving.rev /\ savedText' = SavedText(saving.put)
    /\ unconfirmed' = Null /\ saving' = Null /\ notice' = FALSE
    /\ UNCHANGED <<serverVars, eol, input, edits, saveError, accessVars, runVars, leaveVars>>
    /\ Schedule

\* Refused, or no answer in time.
SaveFails ==
    /\ saving # Null
    /\ saveError' = CASE saving.at = "conflict" -> "revision_changed"
                      [] saving.at = "full" -> "conflict_storage_full"
                      [] OTHER -> "other"
    /\ saving' = Null /\ notice' = TRUE /\ late' \in {late} \union Abandoned(saving)
    /\ UNCHANGED <<history, conflicts, foreign, textVars, unconfirmed, accessVars, runVars,
                   leaveVars>>
    /\ Schedule

readOnly == ~editAllowed \/ starting # Null \/ departing # Null

Changed ==
    /\ ~readOnly /\ edits < MaxEdits /\ edits' = edits + 1
    /\ \E t \in Texts : t # input /\ input' = t
    /\ UNCHANGED <<saving, saveError, editAllowed, entry, savedText>> /\ Schedule
    /\ UNCHANGED <<serverVars, eol, unconfirmed, notice, generation, unlocked, opening, retrying,
                   runVars, leaveVars>>

\* The handlers that await flush().
AwaitingFlush ==
    \/ starting # Null /\ starting.at = "flush"
    \/ departing # Null /\ departing.at = "flush"
    \/ retrying # Null /\ retrying.at = "flush"

\* The loop of flush().
FlushPersists ==
    /\ AwaitingFlush
    /\ CanPersist /\ Persist
    /\ UNCHANGED <<serverVars, textVars, timer, saveError, notice, accessVars, runVars, leaveVars>>

\* Mutant of Flushed: flush() waits for the save in flight, not for the text.
FlushedOnce == saving = Null /\ saveError = ""

Flushed == saving = Null /\ ~dirty /\ saveError = ""

\* Mutant of FlushFailed: flush() insists after an error.
FlushInsists == saving = Null /\ dirty /\ ~editAllowed

FlushFailed == saving = Null /\ (saveError # "" \/ (dirty /\ ~editAllowed))
-----------------------------------------------------------------------------
(* open(): of a new session, or of the retry button while nothing is open. *)

Open ==
    /\ ~unlocked \/ (entry = 0 /\ opening = Null)
    /\ generation < MaxGenerations /\ generation' = generation + 1
    /\ unlocked' = TRUE /\ opening' = [at |-> "load", rev |-> 0]
    /\ UNCHANGED <<serverVars, textVars, saveVars, editAllowed, retrying, runVars, leaveVars>>

\* loadSource(): the server answers with its current version.
Loads(stage) == stage # Null /\ stage.at = "load" /\ Current # Deleted
Loaded == [at |-> "loaded", rev |-> Len(history)]

SourceServed ==
    /\ \/ Loads(opening) /\ opening' = Loaded /\ UNCHANGED retrying
       \/ Loads(retrying) /\ retrying' = Loaded /\ UNCHANGED opening
    /\ UNCHANGED <<serverVars, textVars, saveVars, generation, unlocked, editAllowed, runVars,
                   leaveVars>>

OpenLoaded ==
    /\ opening # Null /\ opening.at = "loaded"
    /\ \/ /\ dirty /\ opening' = Null /\ notice' = TRUE
          /\ UNCHANGED <<entry, eol, savedText, input, saveError>>
       \/ /\ ~dirty /\ opening' = [opening EXCEPT !.at = "edit"]
          /\ entry' = opening.rev /\ eol' = EolOf(history[opening.rev])
          /\ input' = Value(history[opening.rev]) /\ savedText' = input' /\ saveError' = ""
          /\ UNCHANGED notice
    /\ UNCHANGED <<serverVars, edits, timer, saving, unconfirmed, generation, unlocked,
                   editAllowed, retrying, runVars, leaveVars>>

OpenFails ==
    /\ opening # Null /\ opening.at # "edit" /\ opening' = Null /\ notice' = TRUE
    /\ UNCHANGED <<serverVars, textVars, timer, saving, unconfirmed, saveError, generation,
                   unlocked, editAllowed, retrying, runVars, leaveVars>>

\* detect(), unless it runs already or a job does.
Detect ==
    IF detecting = 0 /\ job = 0
    THEN detecting' = generation /\ ready' = FALSE /\ runnerRetry' = FALSE
    ELSE UNCHANGED <<detecting, ready, runnerRetry>>

\* authorize("edit") succeeds.
Authorize == editAllowed' = TRUE

\* The authorization to edit, granted or not; then detect().
OpenAuthorized ==
    /\ opening # Null /\ opening.at = "edit" /\ opening' = Null
    /\ \/ Authorize /\ notice' = FALSE
       \/ notice' = TRUE /\ UNCHANGED editAllowed
    /\ Detect
    /\ UNCHANGED <<serverVars, textVars, timer, saving, unconfirmed, saveError, generation,
                   unlocked, retrying, starting, job, polling, runTexts, calls, orphans, runner,
                   leaveVars>>

RunnerRetry ==
    /\ runnerRetry /\ unlocked /\ detecting = 0 /\ job = 0 /\ Detect
    /\ UNCHANGED <<serverVars, textVars, saveVars, accessVars, starting, job, polling, runTexts,
                   calls, orphans, runner, leaveVars>>

Detected ==
    /\ detecting # 0 /\ detecting' = 0
    /\ \/ ready' = TRUE /\ UNCHANGED runnerRetry
       \/ runnerRetry' = TRUE /\ UNCHANGED ready
    /\ UNCHANGED <<serverVars, textVars, saveVars, accessVars, starting, job, polling, runTexts,
                   calls, orphans, runner, leaveVars>>
-----------------------------------------------------------------------------
(* The retry button, while a file is open. *)

Retry ==
    /\ notice /\ entry # 0 /\ unlocked /\ retrying = Null
    /\ retrying' = [at |-> "auth", rev |-> 0]
    /\ UNCHANGED <<serverVars, textVars, saveVars, generation, unlocked, editAllowed, opening,
                   runVars, leaveVars>>

RetryAuthorized ==
    /\ retrying # Null /\ retrying.at = "auth" /\ Authorize
    /\ \/ /\ saveError # "" /\ retrying' = [retrying EXCEPT !.at = "load"]
          /\ UNCHANGED <<timer, notice>>
       \/ /\ saveError = "" /\ retrying' = [retrying EXCEPT !.at = "flush"]
          /\ timer' = FALSE /\ notice' = FALSE
    /\ UNCHANGED <<serverVars, textVars, saving, unconfirmed, saveError, generation, unlocked,
                   opening, runVars, leaveVars>>

\* Is the version the server holds one that this page has written?
OwnText(rev) ==
    CASE rev = entry -> savedText
      [] history[rev] = content -> input
      [] unconfirmed # Null /\ history[rev] = unconfirmed.code /\ rev > unconfirmed.base
           -> unconfirmed.text
      [] OTHER -> Null

RetryReconciles ==
    /\ retrying # Null /\ retrying.at = "loaded" /\ OwnText(retrying.rev) # Null
    /\ savedText' = OwnText(retrying.rev) /\ entry' = retrying.rev
    /\ unconfirmed' = IF retrying.rev = entry THEN unconfirmed ELSE Null
    /\ saveError' = "" /\ notice' = FALSE /\ timer' = FALSE
    /\ retrying' = [retrying EXCEPT !.at = "flush"]
    /\ UNCHANGED <<serverVars, eol, input, edits, saving, generation, unlocked, editAllowed,
                   opening, runVars, leaveVars>>

RetryFails ==
    /\ retrying # Null /\ retrying' = Null /\ notice' = TRUE
    /\ \/ retrying.at \in {"auth", "load", "loaded"} /\ saveError' = "other"
       \/ /\ retrying.at = "loaded" /\ OwnText(retrying.rev) = Null
          /\ saveError' = "revision_changed"
       \/ /\ retrying.at = "flush" /\ FlushFailed
          /\ saveError' = IF saveError = "" THEN "other" ELSE saveError
    /\ UNCHANGED <<serverVars, textVars, timer, saving, unconfirmed, generation, unlocked,
                   editAllowed, opening, runVars, leaveVars>>

RetryFlushed ==
    /\ retrying # Null /\ retrying.at = "flush" /\ Flushed /\ retrying' = Null
    /\ UNCHANGED <<serverVars, textVars, saveVars, generation, unlocked, editAllowed, opening,
                   runVars, leaveVars>>
-----------------------------------------------------------------------------
(* Running.  local() asks for a ticket and hands it to the local client,   *)
(* which redeems it at the server; a start is refused unless its revision  *)
(* is still the current one.  A start the page has given up may still be   *)
(* redeemed.                                                               *)

FreeSlots == {i \in 1..MaxCalls : calls[i] = Null}
Slot == CHOOSE i \in FreeSlots : \A k \in FreeSlots : i <= k
Calling(op) ==
    /\ FreeSlots # {}
    /\ calls' = [calls EXCEPT ![Slot] = [op |-> op, job |-> job, at |-> "sent"]]
Drop(i) == calls' = [calls EXCEPT ![i] = Null]
AbandonedStart ==
    IF starting # Null /\ starting.at = "sent"
    THEN {[job |-> starting.job, rev |-> starting.rev]} ELSE {}

\* Mutant of RevisionCurrent: the ticket of a start names the file, not its revision.
RevisionLive(rev) == Current # Deleted

RevisionCurrent(rev) == rev = Len(history) /\ Current # Deleted

\* External: the runner of the client, one job at a time, and its answers.
RunnerStarts(j, rev) ==
    /\ RevisionCurrent(rev)
    /\ runner # Null => runner.over
    /\ runner' = [job |-> j, source |-> Current, over |-> FALSE]

StartServed ==
    /\ \/ /\ starting # Null /\ starting.at = "sent" /\ RunnerStarts(starting.job, starting.rev)
          /\ starting' = [starting EXCEPT !.at = "running"] /\ UNCHANGED orphans
       \/ \E o \in orphans : /\ RunnerStarts(o.job, o.rev) /\ orphans' = orphans \ {o}
                              /\ UNCHANGED starting
    /\ UNCHANGED <<serverVars, textVars, saveVars, accessVars, ready, runnerRetry, detecting, job,
                   polling, runTexts, calls, leaveVars>>

CallServed(i) ==
    /\ calls[i] # Null /\ calls[i].at = "sent" /\ runner # Null /\ runner.job = calls[i].job
    /\ \/ runner.over /\ calls' = [calls EXCEPT ![i].at = "over"]
       \/ ~runner.over /\ calls' = [calls EXCEPT ![i].at = "running"]
    /\ UNCHANGED <<serverVars, textVars, saveVars, accessVars, ready, runnerRetry, detecting,
                   starting, job, polling, runTexts, orphans, runner, leaveVars>>

\* By itself, at a stop, or because no poll renewed it.
RunnerEnds ==
    /\ runner # Null /\ ~runner.over /\ runner' = [runner EXCEPT !.over = TRUE]
    /\ UNCHANGED <<serverVars, textVars, saveVars, accessVars, ready, runnerRetry, detecting,
                   starting, job, polling, runTexts, calls, orphans, leaveVars>>

Run ==
    /\ job = 0 /\ entry # 0 /\ ready /\ saveError = "" /\ starting = Null /\ departing = Null
    /\ Len(runTexts) < MaxJobs
    /\ starting' = [at |-> "flush", rev |-> 0, job |-> 0] /\ timer' = FALSE
    /\ UNCHANGED <<serverVars, textVars, saving, unconfirmed, saveError, notice, accessVars, ready,
                   runnerRetry, detecting, job, polling, runTexts, calls, orphans, runner,
                   leaveVars>>

Start ==
    /\ starting # Null /\ starting.at = "flush" /\ Flushed
    /\ runTexts' = Append(runTexts, input) /\ job' = Len(runTexts) + 1
    /\ starting' = [at |-> "sent", rev |-> entry, job |-> job']
    /\ UNCHANGED <<serverVars, textVars, saveVars, accessVars, ready, runnerRetry, detecting,
                   polling, calls, orphans, runner, leaveVars>>

StartFails ==
    /\ starting # Null /\ (starting.at = "flush" => FlushFailed)
    /\ starting' = Null /\ job' = 0
    /\ \E lates \in SUBSET AbandonedStart : orphans' = orphans \union lates
    /\ UNCHANGED <<serverVars, textVars, saveVars, accessVars, ready, runnerRetry, detecting,
                   polling, runTexts, calls, runner, leaveVars>>

\* render() and then poll(); render() throws when the answer is not about the job.
Rendered(about, at) ==
    /\ about = job /\ at # "sent"
    /\ job' = IF at = "over" THEN 0 ELSE job
    /\ polling' = (at # "over")
Lost == job' = 0 /\ ready' = FALSE

Started ==
    /\ starting # Null /\ starting.at = "running" /\ starting' = Null
    /\ \E at \in {"running", "over"} : Rendered(starting.job, at)
    /\ UNCHANGED <<serverVars, textVars, saveVars, accessVars, ready, runnerRetry, detecting,
                   runTexts, calls, orphans, runner, leaveVars>>

Poll ==
    /\ polling /\ polling' = FALSE
    /\ \/ job # 0 /\ Calling("poll") /\ UNCHANGED <<job, ready, runnerRetry>>
       \/ job = 0 /\ Lost /\ runnerRetry' = TRUE /\ UNCHANGED calls
    /\ UNCHANGED <<serverVars, textVars, saveVars, accessVars, detecting, starting, runTexts,
                   orphans, runner, leaveVars>>

\* Answered, or failed.
Polled(i) ==
    /\ calls[i] # Null /\ calls[i].op = "poll" /\ Drop(i)
    /\ \/ Rendered(calls[i].job, calls[i].at) /\ UNCHANGED <<ready, runnerRetry>>
       \/ Lost /\ runnerRetry' = TRUE /\ UNCHANGED polling
    /\ UNCHANGED <<serverVars, textVars, saveVars, accessVars, detecting, starting, runTexts,
                   orphans, runner, leaveVars>>

Stop ==
    /\ job # 0 /\ starting = Null /\ departing = Null /\ Calling("stop")
    /\ UNCHANGED <<serverVars, textVars, saveVars, accessVars, ready, runnerRetry, detecting,
                   starting, job, polling, runTexts, orphans, runner, leaveVars>>

Stopped(i) ==
    /\ calls[i] # Null /\ calls[i].op = "stop" /\ Drop(i)
    /\ \/ Rendered(calls[i].job, calls[i].at) /\ UNCHANGED ready
       \/ Lost /\ polling' = FALSE
    /\ UNCHANGED <<serverVars, textVars, saveVars, accessVars, runnerRetry, detecting, starting,
                   runTexts, orphans, runner, leaveVars>>
-----------------------------------------------------------------------------
(* lock() and a departure abort the requests in flight. *)

Abort ==
    /\ saving' = Null /\ late' \in {late} \union Abandoned(saving)
    /\ \E lates \in SUBSET AbandonedStart : orphans' = orphans \union lates
    /\ calls' = [i \in 1..MaxCalls |-> Null]
    /\ opening' = Null /\ retrying' = Null /\ starting' = Null /\ departing' = Null
    /\ unlocked' = FALSE /\ editAllowed' = FALSE
    /\ timer' = FALSE /\ polling' = FALSE /\ ready' = FALSE /\ job' = 0
    /\ UNCHANGED <<history, conflicts, foreign, edits, runTexts, runner>>

\* lock(): a draft stays; otherwise nothing does.
LockPage ==
    /\ Abort /\ generation' = generation + 1
    /\ IF dirty THEN saveError' = "other" /\ notice' = TRUE /\ UNCHANGED <<entry, input, savedText>>
       ELSE /\ entry' = 0 /\ input' = Empty /\ savedText' = Empty
            /\ saveError' = IF retrying = Null THEN saveError ELSE "other"
            /\ notice' = (notice \/ retrying # Null \/ departing # Null)
    /\ IF detecting = generation THEN detecting' = 0 /\ runnerRetry' = TRUE
       ELSE UNCHANGED <<detecting, runnerRetry>>
    /\ UNCHANGED <<eol, unconfirmed, lost>>

Lock == unlocked /\ LockPage /\ UNCHANGED leaving

\* The text shown is in no version of the file.
Unsaved == dirty /\ \A r \in DOMAIN history : history[r] # Deleted => Value(history[r]) # input

\* The page goes away; it may be loaded again.
GoAway(how) ==
    /\ Abort /\ generation' = 0 /\ detecting' = 0 /\ runnerRetry' = FALSE
    /\ entry' = 0 /\ eol' = "lf" /\ input' = Empty /\ savedText' = Empty
    /\ saveError' = "" /\ notice' = FALSE /\ unconfirmed' = Null /\ leaving' = FALSE
    /\ lost' = IF Unsaved /\ how # "warned" THEN how ELSE lost
-----------------------------------------------------------------------------
(* Leaving: a link or the logout button, the discard button, the tab. *)

Leave ==
    /\ generation # 0 /\ departing = Null /\ ~leaving
    /\ \E logout \in BOOLEAN : /\ logout => unlocked
                              /\ departing' = [at |-> "flush", logout |-> logout]
    /\ timer' = FALSE
    /\ UNCHANGED <<serverVars, textVars, saving, unconfirmed, saveError, notice, accessVars,
                   runVars, leaving, lost>>

LeaveStops ==
    /\ departing # Null /\ departing.at = "flush" /\ Flushed /\ job # 0
    /\ departing' = [departing EXCEPT !.at = "stop"]
    /\ UNCHANGED <<serverVars, textVars, saveVars, accessVars, runVars, leaving, lost>>

\* logout locks the page, which stays; a link replaces it.
Departed ==
    /\ departing # Null
    /\ \/ departing.at = "flush" /\ Flushed /\ job = 0
       \/ departing.at = "stop"
    /\ \/ departing.logout /\ LockPage /\ leaving' = TRUE
       \/ ~departing.logout /\ GoAway("leave")

LeaveFails ==
    /\ departing # Null /\ (departing.at = "flush" => FlushFailed)
    /\ departing' = Null /\ notice' = TRUE
    /\ UNCHANGED <<serverVars, textVars, timer, saving, unconfirmed, saveError, accessVars, runVars,
                   leaving, lost>>

\* beforeunload: does the browser ask before the page goes away?
Warns == ~leaving /\ (dirty \/ saving # Null \/ starting # Null \/ job # 0)

\* The tab is closed or sent elsewhere.
Unload == generation # 0 /\ GoAway(IF Warns THEN "warned" ELSE "unload")

\* The discard button, shown once the draft has been offered for download.
Discard == dirty /\ GoAway("warned")
-----------------------------------------------------------------------------
\* What a handler that awaited flush() does comes before the next event.
FlushEnds ==
    \/ FlushPersists \/ Start
    \/ starting # Null /\ starting.at = "flush" /\ StartFails
    \/ retrying # Null /\ retrying.at = "flush" /\ (RetryFails \/ RetryFlushed)
    \/ departing # Null /\ departing.at = "flush" /\ (LeaveStops \/ Departed \/ LeaveFails)
Settled == saving # Null \/ ~AwaitingFlush

\* The answers and time limits that end what the page waits for.
Ends ==
    \/ SaveConfirmed \/ SaveFails
    \/ OpenLoaded \/ OpenFails \/ OpenAuthorized \/ Detected
    \/ RetryAuthorized \/ RetryReconciles
    \/ retrying # Null /\ retrying.at # "flush" /\ RetryFails
    \/ Started
    \/ starting # Null /\ starting.at # "flush" /\ StartFails
    \/ departing # Null /\ departing.at = "stop" /\ (Departed \/ LeaveFails)
    \/ \E i \in 1..MaxCalls : Polled(i) \/ Stopped(i)

Page ==
    \/ PersistNow \/ Changed \/ Open \/ Retry \/ RunnerRetry \/ Run \/ Poll \/ Stop \/ Lock
    \/ Leave \/ Unload \/ Discard

Environment ==
    \/ SaveServed \/ LateSaveServed \/ OtherDeviceWrites \/ SourceServed
    \/ StartServed \/ RunnerEnds
    \/ \E i \in 1..MaxCalls : CallServed(i)

Next ==
    \/ FlushEnds
    \/ Settled /\ (Ends \/ Page)
    \/ Environment

Spec == Init /\ [][Next]_vars

\* Every request has an answer or a time limit, timers fire, and a handler goes on when
\* what it awaits has ended.  The user, the server and the other devices owe nothing.
Fairness ==
    /\ WF_vars(FlushEnds)
    /\ WF_vars(PersistNow)
    /\ WF_vars(SaveConfirmed \/ SaveFails)
    /\ WF_vars(OpenLoaded \/ OpenFails \/ OpenAuthorized)
    /\ WF_vars(RetryAuthorized \/ RetryReconciles \/ RetryFails)
    /\ WF_vars(StartFails \/ Started)
    /\ WF_vars(Departed \/ LeaveFails)
FairSpec == Spec /\ Fairness
-----------------------------------------------------------------------------
(* Properties. *)

\* What the page takes for saved is what the server holds under the revision the page
\* knows, and the page says that a text is saved only when it is: an answer never confirms
\* a text it was not sent for, whatever was typed, lost or retried meanwhile.
ConfirmedTextServed ==
    /\ entry # 0 => history[entry] # Deleted /\ Value(history[entry]) = savedText
    /\ SaveState = "Enregistre" => Value(history[entry]) = input

\* A save, late or not, replaces the very text the page had shown when it was sent: no
\* version of another device is overwritten unseen.
ReplacesWhatWasShown ==
    [][LET stored(put) == Current # Deleted /\ Value(Current) = put.from
       IN /\ (saving # Null /\ saving.at = "sent" /\ saving' # Null /\ saving'.at = "stored")
                => stored(saving.put)
          /\ (late # Null /\ late' = Null /\ history' # history) => stored(late)]_vars

\* What runs on this PC is the text the editor showed when the run was asked for, even if
\* the start was redeemed after the page had given it up.
RunsSavedText == runner # Null => Value(runner.source) = runTexts[runner.job]

\* leave() goes away only when a version of the file holds what is shown: what was typed
\* up to the click has been saved, even while a run was being stopped or a retry went on.
DepartsSaved == lost # "leave"

\* A page that lets its user edit saves what was typed, or says that it did not.
UnsavedSettles ==
    (dirty /\ editAllowed) ~> (~dirty \/ saveError # "" \/ ~editAllowed)

\* Opening, starting a run and leaving come to an end, and give the buttons back.
OperationsEnd ==
    /\ opening # Null ~> opening = Null
    /\ starting # Null ~> starting = Null
    /\ departing # Null ~> departing = Null

\* The browser asks before it drops a text that is not confirmed.
WarnsBeforeLoss == lost # "unload"
-----------------------------------------------------------------------------
(* The inductive invariant behind the safety properties. *)

\* The server has, or had, this text under this revision.
Served(rev, text) ==
    rev \in DOMAIN history /\ history[rev] # Deleted /\ Value(history[rev]) = text

\* A save carries what was shown, and names the version it was made from.
PutSound(put) == put.code.text = put.text /\ Served(put.base, put.from)

\* What is on its way, in whichever order it arrives.
SavesSound ==
    /\ saving # Null =>
          /\ entry # 0 /\ PutSound(saving.put)
          /\ saving.at = "stored" =>
                saving.rev \in DOMAIN history /\ history[saving.rev] = saving.put.code
    /\ late # Null => PutSound(late)
    /\ unconfirmed # Null => unconfirmed.code.text = unconfirmed.text

\* An answer to a load is a version that was current when it was given.
AnswersSound ==
    /\ opening # Null =>
          unlocked /\ (opening.at = "loaded" => \E text \in Texts : Served(opening.rev, text))
    /\ retrying # Null =>
          entry # 0 /\ (retrying.at = "loaded" => \E text \in Texts : Served(retrying.rev, text))

\* A start names a version with the text of its job, also once it is given up.
StartsSound ==
    /\ starting # Null =>
          /\ entry # 0
          /\ starting.at = "flush" => Len(runTexts) < MaxJobs
          /\ starting.at # "flush" =>
                starting.job \in DOMAIN runTexts /\ Served(starting.rev, runTexts[starting.job])
    /\ \A o \in orphans : o.job \in DOMAIN runTexts /\ Served(o.rev, runTexts[o.job])
    /\ runner # Null => runner.job \in DOMAIN runTexts
    /\ Len(runTexts) <= MaxJobs

\* While a departure waits for the end of a run, the text shown stays on the server.
DepartureSound ==
    /\ departing # Null /\ departing.logout => unlocked
    /\ departing # Null /\ departing.at = "stop" =>
          entry = 0 \/ \E r \in DOMAIN history : Served(r, input)

Inv ==
    /\ TypeOK
    /\ unlocked => generation <= MaxGenerations
    /\ entry # 0 => Served(entry, savedText) /\ input \in Texts
    /\ SavesSound /\ AnswersSound /\ StartsSound /\ DepartureSound
    /\ RunsSavedText /\ DepartsSaved
=============================================================================
