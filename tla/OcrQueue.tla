------------------------------ MODULE OcrQueue ------------------------------
(* The OCR scheduler: one session thread, started by a nudge, that works    *)
(* through the images without text with a helper process and a database     *)
(* connection of its own; and those who must have it out of the way before  *)
(* they delete rows, swap the database or change the extension.             *)
(*                                                                          *)
(* A nudge that finds a session running leaves a mark (`dirty`); the        *)
(* session looks at the mark before it ends and after.  A suspension counts *)
(* itself in, makes the running session's work invalid (`generation`),      *)
(* kills its helper and waits to be told that the session has ended.        *)
EXTENDS Naturals, FiniteSets

CONSTANTS
    Images,          \* image records, present or not
    Nobody,          \* no image, and nobody
    Holders,         \* tasks that suspend the scheduler
    MaxTries         \* attempts an image is charged before it is left alone
                     \* (3 in the queries of the code)

ASSUME NobodyAssumption == Nobody \notin Images /\ Nobody \notin Holders
ASSUME HoldersAssumption == IsFiniteSet(Holders) /\ "session" \notin Holders
ASSUME TriesAssumption == MaxTries \in Nat \ {0}

VARIABLES
    text, tries,     \* database: state of each image's text, attempts charged
    enabled,         \* the extension resolves
    running, dirty, priority, suspended, stopped,
    child,           \* the scheduler knows the helper of the session
    startup,         \* the delayed nudge of the start is still to come
    owed,            \* nudges whose caller has done what it nudges for
    resolved,        \* one of them has found that the extension resolves
    at,              \* the session thread
    current,         \* the generation is still the one the session began with
    job, asked,      \* the image it works on, and whether it was asked for
    answer,          \* the outcome it got
    helper,          \* its helper process
    stumbled,        \* the last helper failed
    doomed,          \* somebody is about to kill the helper
    serial,          \* who holds upsert_lock
    place,           \* the tasks that suspend
    woken,           \* they have been notified since they began to listen
    ending,          \* threads that have ended a session and not yet said so,
                     \* and whether they found the mark
    broken,          \* ghost: the last session failed: no thread, or its database
    unsaid           \* ghost: an image was queued by somebody who nudges nobody,
                     \* and no nudge has reached the scheduler since

database  == <<text, tries>>
state     == <<running, dirty, priority, suspended, stopped, child, startup>>
session   == <<at, current, job, asked, answer, helper, stumbled>>
others    == <<place, woken, ending>>
nudges    == <<owed, resolved>>
vars == <<text, tries, enabled, running, dirty, priority, suspended, stopped,
          child, startup, owed, resolved, at, current, job, asked, answer, helper,
          stumbled, doomed, serial, place, woken, ending, broken, unsaid>>

MaxOwed   == 1       \* bound: callers outside this module on their way to a nudge;
                     \* one more place is left for the scheduler's own nudges;
                     \* one nudge at a time is between its look at the extension
                     \* and the lock (`resolved`)
MaxEnding == 1       \* bound: threads of each kind on their way to say that they ended

\* "plain": recognised by an older version, without the lines' places.
\* A text that was recognised, or skipped for good, is "done".
Texts  == {"gone", "new", "failed", "plain", "done"}
Steps  == {"none", "connect", "top", "query", "engine", "ask", "save", "write",
           "close", "finish"}
Places == {"idle", "stop", "seen", "due", "bump", "armed", "looked", "wait", "hold",
           "swap", "noop", "noopSwap"}

\* The session's own connection is open, or being opened or closed.
Open == Steps \ {"none", "finish"}

\* Tasks that are counted in `suspended`.
Counted == {"bump", "armed", "looked", "wait", "hold", "swap"}

Queued(i)  == text[i] = "new" \/ (text[i] = "failed" /\ tries[i] < MaxTries)
Wanted(i)  == Queued(i) \/ (text[i] = "plain" /\ tries[i] < MaxTries)

\* Work that a session would find.
Pending == \E i \in Images : Queued(i) \/ (priority = i /\ Wanted(i))

\* The start sets its delayed nudge only if its query of the queue succeeds.
Init ==
    /\ text \in [Images -> {"gone", "new", "plain"}]
    /\ tries = [i \in Images |-> IF text[i] = "plain" THEN 1 ELSE 0]
    /\ enabled \in BOOLEAN
    /\ suspended = 0
    /\ running = FALSE /\ dirty = FALSE /\ stopped = FALSE /\ child = FALSE
    /\ priority = Nobody
    /\ startup \in {FALSE, enabled /\ \E i \in Images : Queued(i)}
    /\ unsaid = (~startup /\ enabled /\ \E i \in Images : Queued(i))
    /\ owed = 0 /\ resolved = FALSE
    /\ at = "none" /\ current = FALSE /\ job = Nobody /\ asked = FALSE
    /\ answer = "none" /\ helper = "none" /\ stumbled = FALSE
    /\ doomed = FALSE
    /\ serial = Nobody
    /\ place = [h \in Holders |-> "idle"]
    /\ woken = [h \in Holders |-> FALSE]
    /\ ending = [again \in BOOLEAN |-> 0]
    /\ broken = FALSE

-----------------------------------------------------------------------------
(* Nudging.                                                                 *)

Owe == owed < MaxOwed /\ owed' = owed + 1 /\ UNCHANGED resolved

\* A nudge looks at the extension first, without the lock.
Resolve ==
    /\ owed > 0 /\ ~resolved
    /\ IF enabled
       THEN resolved' = TRUE /\ UNCHANGED owed
       ELSE owed' = owed - 1 /\ UNCHANGED resolved
    /\ UNCHANGED <<database, enabled, state, session, doomed, serial, others, broken, unsaid>>

\* With the lock it marks the queue, and starts a session unless one runs or
\* somebody has suspended them.
(* Mutant: a nudge during a session is left to that session.                *)
Marked_OnlyIdle == ~running
Marked == TRUE
Nudge ==
    /\ resolved /\ owed > 0
    /\ resolved' = FALSE
    /\ owed' = owed - 1
    /\ \/ /\ stopped
          /\ UNCHANGED <<state, session, broken, unsaid>>
       \/ /\ ~stopped
          /\ running \/ suspended # 0
          /\ dirty' = IF Marked THEN TRUE ELSE dirty
          /\ unsaid' = FALSE
          /\ UNCHANGED <<running, priority, suspended, stopped, child,
                         startup, session, broken>>
       \/ /\ ~stopped
          /\ ~running /\ suspended = 0
          /\ running' = TRUE
          /\ dirty' = FALSE
          /\ current' = TRUE
          /\ at' = "connect"
          /\ broken' = FALSE /\ unsaid' = FALSE
          /\ UNCHANGED <<priority, suspended, stopped, child, startup,
                         job, asked, answer, helper, stumbled>>
       \/ /\ ~stopped                             \* the system has no thread left
          /\ ~running /\ suspended = 0
          /\ dirty' = FALSE
          /\ broken' = TRUE
          /\ UNCHANGED <<running, priority, suspended, stopped, child, startup,
                         session, unsaid>>
    /\ UNCHANGED <<database, enabled, doomed, serial, others>>

\* A new image record, then its nudge.  An import that fails after it has
\* committed rows nudges nobody.
Store(i) ==
    /\ text[i] = "gone"
    /\ text' = [text EXCEPT ![i] = "new"]
    /\ \/ Owe /\ UNCHANGED unsaid
       \/ unsaid' = TRUE /\ UNCHANGED nudges
    /\ UNCHANGED <<tries, enabled, state, session, doomed, serial, others, broken>>

StartupFires ==
    /\ startup
    /\ startup' = FALSE
    /\ Owe
    /\ UNCHANGED <<database, enabled, running, dirty, priority, suspended,
                   stopped, child, session, doomed, serial, others, broken, unsaid>>

\* The user opened an image without places for its lines: it goes first.
Prioritize(i) ==
    /\ enabled /\ ~stopped
    /\ Wanted(i)
    /\ priority' = i
    /\ Owe
    /\ UNCHANGED <<database, enabled, running, dirty, suspended, stopped,
                   child, startup, session, doomed, serial, others, broken, unsaid>>

\* What runs becomes invalid, and the helper the scheduler knows is killed.
Invalidate ==
    /\ current' = FALSE
    /\ startup' = FALSE
    /\ doomed' = (doomed \/ child)

SettingsChanged ==
    /\ Invalidate
    /\ Owe
    /\ UNCHANGED <<database, enabled, running, dirty, priority, suspended, stopped,
                   child, at, job, asked, answer, helper, stumbled, serial, others, broken, unsaid>>

Kill ==
    /\ doomed
    /\ doomed' = FALSE
    /\ helper' = IF helper = "up" THEN "dead" ELSE helper
    /\ UNCHANGED <<database, enabled, state, nudges, at, current, job, asked, answer,
                   stumbled, serial, others, broken, unsaid>>

-----------------------------------------------------------------------------
(* The session thread.                                                      *)

Valid == current /\ suspended = 0 /\ ~stopped

Aside == UNCHANGED <<enabled, running, suspended, stopped, startup, nudges, others, unsaid>>

\* The turn of the loop is over.
TurnOver == job' = Nobody /\ asked' = FALSE /\ answer' = "none"

Connect ==
    /\ at = "connect"
    /\ \/ at' = "top" /\ UNCHANGED broken
       \/ at' = "finish" /\ broken' = TRUE
    /\ stumbled' = FALSE
    /\ UNCHANGED <<database, dirty, priority, child, current, job, asked, answer, helper,
                   doomed, serial>>
    /\ Aside

Top ==
    /\ at = "top"
    /\ IF Valid /\ enabled
       THEN /\ at' = "query"
            /\ job' = priority
            /\ asked' = (priority # Nobody)
       ELSE at' = "close" /\ UNCHANGED <<job, asked>>
    /\ UNCHANGED <<database, dirty, priority, child, current, answer, helper, stumbled,
                   doomed, serial, broken>>
    /\ Aside

\* The image asked for if it still wants a text, or else the next of the
\* queue.  (The newest comes first; the order is left open here.)
Query ==
    /\ at = "query"
    /\ \/ /\ asked /\ ~Wanted(job)
          /\ priority' = IF priority = job THEN Nobody ELSE priority
          /\ at' = "top" /\ TurnOver
          /\ UNCHANGED <<dirty, broken>>
       \/ /\ ~asked /\ \A i \in Images : ~Queued(i)
          /\ IF dirty /\ current
             THEN dirty' = FALSE /\ at' = "top"
             ELSE at' = "close" /\ UNCHANGED dirty
          /\ TurnOver
          /\ UNCHANGED <<priority, broken>>
       \/ /\ \E i \in Images :
                /\ IF asked THEN i = job /\ Wanted(i) ELSE Queued(i)
                /\ job' = i
          /\ \/ at' = "engine" /\ UNCHANGED answer
             \/ at' = "save" /\ answer' = "done"    \* skipped: its name is no file name
          /\ UNCHANGED <<asked, dirty, priority, broken>>
       \/ /\ at' = "close" /\ TurnOver              \* the query fails
          /\ broken' = TRUE
          /\ UNCHANGED <<dirty, priority>>
    /\ UNCHANGED <<database, child, current, helper, stumbled, doomed, serial>>
    /\ Aside

\* A helper is started unless there is one; after a failure only when the
\* session is still valid once it has waited.
Engine ==
    /\ at = "engine"
    /\ \/ helper # "none" /\ at' = "ask"
          /\ UNCHANGED <<job, asked, answer, helper, child, stumbled>>
       \/ /\ helper = "none"
          /\ ~enabled \/ (stumbled /\ ~Valid)
          /\ at' = "close" /\ TurnOver
          /\ UNCHANGED <<helper, child, stumbled>>
       \/ /\ helper = "none" /\ enabled
          /\ stumbled => Valid
          /\ \/ /\ Valid
                /\ helper' = "up" /\ child' = TRUE
                /\ at' = "ask"
                /\ UNCHANGED <<job, asked, answer, stumbled>>
             \/ /\ ~Valid
                /\ at' = "close" /\ TurnOver
                /\ UNCHANGED <<helper, child, stumbled>>
             \/ /\ at' = "save"
                /\ answer' = "failed" /\ stumbled' = TRUE
                /\ child' = FALSE /\ UNCHANGED <<job, asked, helper>>
    /\ UNCHANGED <<database, dirty, priority, current, doomed, serial, broken>>
    /\ Aside

\* An answer, or none: a helper that dies, answers wrongly or not in time
\* is done with, and so is one that was killed before it answered.
Ask ==
    /\ at = "ask"
    /\ at' = "save"
    /\ \/ /\ answer' \in {"done", "failed"}
          /\ stumbled' = FALSE
          /\ UNCHANGED <<helper, child, doomed>>
       \/ /\ answer' = IF helper = "dead" THEN "killed" ELSE "failed"
          /\ helper' = "none" /\ child' = FALSE
          /\ doomed' = FALSE
          /\ stumbled' = TRUE
    /\ UNCHANGED <<database, dirty, priority, current, job, asked, serial, broken>>
    /\ Aside

\* With upsert_lock, and only when nothing has become invalid.
(* Mutant: saved without looking.                                           *)
MaySave_Always == TRUE
MaySave == Valid /\ enabled
Save ==
    /\ at = "save"
    /\ serial = Nobody
    /\ IF MaySave
       THEN at' = "write" /\ serial' = "session" /\ UNCHANGED <<job, asked, answer>>
       ELSE at' = "top" /\ TurnOver /\ UNCHANGED serial
    /\ UNCHANGED <<database, dirty, priority, child, current, helper, stumbled, doomed, broken>>
    /\ Aside

\* A failure does not replace a text there is; every outcome is counted.
Outcome(old) ==
    IF answer \in {"failed", "killed"}
    THEN IF old \in {"done", "plain"} THEN old ELSE "failed"
    ELSE answer

Write ==
    /\ at = "write"
    /\ serial' = Nobody
    /\ \/ /\ at' = "top"
          /\ IF text[job] = "gone"
             THEN UNCHANGED database
             ELSE /\ text' = [text EXCEPT ![job] = Outcome(@)]
                  /\ tries' = [tries EXCEPT ![job] = IF @ < MaxTries THEN @ + 1 ELSE @]
          /\ priority' = IF asked /\ priority = job THEN Nobody ELSE priority
          /\ UNCHANGED broken
       \/ /\ at' = "close"
          /\ broken' = TRUE
          /\ UNCHANGED <<database, priority>>
    /\ TurnOver
    /\ UNCHANGED <<dirty, child, current, helper, stumbled, doomed>>
    /\ Aside

\* Helper and connection are gone before anybody is told.  After an error
\* the scheduler still knows the helper until the very end.
Close ==
    /\ at = "close"
    /\ at' = "finish"
    /\ helper' = "none" /\ stumbled' = FALSE
    /\ child' = (child /\ broken)
    /\ UNCHANGED <<database, dirty, priority, current, job, asked, answer,
                   doomed, serial, broken>>
    /\ Aside

\* From here on another session can be started, before this thread has told
\* those who wait for its end.
Finish ==
    /\ at = "finish"
    /\ ending[dirty] < MaxEnding
    /\ running' = FALSE /\ child' = FALSE /\ doomed' = FALSE
    /\ ending' = [ending EXCEPT ![dirty] = @ + 1]
    /\ at' = "none" /\ current' = FALSE
    /\ TurnOver /\ stumbled' = FALSE
    /\ UNCHANGED <<database, enabled, dirty, priority, suspended, stopped,
                   startup, nudges, helper, serial, place, woken, broken, unsaid>>

(* Mutant: only those already asleep hear it.                               *)
Listening_Asleep == {"wait"}
Listening == {"armed", "looked", "wait"}
Notify(again) ==
    /\ ending[again] > 0
    /\ again => owed <= MaxOwed
    /\ ending' = [ending EXCEPT ![again] = @ - 1]
    /\ woken' = [h \in Holders |-> woken[h] \/ place[h] \in Listening]
    /\ owed' = IF again THEN owed + 1 ELSE owed
    /\ UNCHANGED <<resolved, database, enabled, state, session, doomed, serial, place,
                   broken, unsaid>>

-----------------------------------------------------------------------------
(* Those who suspend the scheduler.                                         *)

To(h, p) == place' = [place EXCEPT ![h] = p]

\* shutdown() stops the scheduler for good before it suspends it.
Stop(h) ==
    /\ place[h] = "idle" /\ ~stopped
    /\ stopped' = TRUE
    /\ To(h, "stop")
    /\ UNCHANGED <<database, enabled, running, dirty, priority, suspended, child,
                   startup, session, nudges, doomed, serial, woken, ending, broken, unsaid>>

\* Is anything running?
Suspend(h) ==
    /\ place[h] \in {"idle", "stop"}
    /\ To(h, IF running \/ child THEN "due" ELSE "seen")
    /\ UNCHANGED <<database, enabled, state, session, nudges, doomed, serial, woken,
                   ending, broken, unsaid>>

\* With nothing running and the extension off there is nothing to suspend.
Resolving(h) ==
    /\ place[h] = "seen"
    /\ To(h, IF enabled THEN "due" ELSE "noop")
    /\ UNCHANGED <<database, enabled, state, session, nudges, doomed, serial, woken,
                   ending, broken, unsaid>>

Count(h) ==
    /\ place[h] = "due"
    /\ suspended' = suspended + 1
    /\ To(h, "bump")
    /\ UNCHANGED <<database, enabled, running, dirty, priority, stopped, child,
                   startup, session, nudges, doomed, serial, woken, ending, broken, unsaid>>

Bump(h) ==
    /\ place[h] = "bump"
    /\ Invalidate
    /\ To(h, "armed")
    /\ UNCHANGED <<database, enabled, running, dirty, priority, suspended, stopped,
                   child, at, job, asked, answer, helper, stumbled, nudges, serial,
                   woken, ending, broken, unsaid>>

\* It has begun to listen before it looks.
Look(h) ==
    /\ place[h] = "armed"
    /\ IF running
       THEN To(h, "looked") /\ UNCHANGED woken
       ELSE To(h, "hold") /\ woken' = [woken EXCEPT ![h] = FALSE]
    /\ UNCHANGED <<database, enabled, state, session, nudges, doomed, serial, ending,
                   broken, unsaid>>

Sleep(h) ==
    /\ place[h] = "looked"
    /\ To(h, "wait")
    /\ UNCHANGED <<database, enabled, state, session, nudges, doomed, serial, woken,
                   ending, broken, unsaid>>

(* Mutant: told once, it does not look again.                               *)
Told_Enough == "hold"
Told == "armed"
Wake(h) ==
    /\ place[h] = "wait" /\ woken[h]
    /\ To(h, Told)
    /\ woken' = [woken EXCEPT ![h] = FALSE]
    /\ UNCHANGED <<database, enabled, state, session, nudges, doomed, serial, ending,
                   broken, unsaid>>

\* What is done under a suspension: rows are deleted, all texts are cleared,
\* the extension is installed, removed or switched, a whole database is
\* swapped with upsert_lock held.
Holding(h) == place[h] \in {"hold", "noop"}

\* The end of an empty suspension nudges nobody: what is queued under one
\* while another task has enabled the extension is left to the next nudge.
Unheard(h) == enabled /\ place[h] \in {"noop", "noopSwap"}

Change(h) ==
    /\ Holding(h)
    /\ \/ \E i \in Images :
            /\ text' = [text EXCEPT ![i] = "gone"]
            /\ tries' = [tries EXCEPT ![i] = 0]
            /\ UNCHANGED unsaid
       \/ /\ text' = [i \in Images |-> IF text[i] = "gone" THEN "gone" ELSE "new"]
          /\ tries' = [i \in Images |-> 0]
          /\ unsaid' = (unsaid \/ Unheard(h))
    /\ UNCHANGED <<enabled, state, session, nudges, doomed, serial, others, broken>>

\* The nudge of an extension change comes when the suspension is over; a
\* real suspension nudges as well, so this one may come early.
Toggle(h) ==
    /\ Holding(h)
    /\ enabled' = ~enabled
    /\ To(h, IF place[h] = "noop" THEN "idle" ELSE "hold")
    /\ Owe
    /\ UNCHANGED <<database, state, session, doomed, serial, woken, ending, broken, unsaid>>

TakeSerial(h) ==
    /\ Holding(h)
    /\ serial = Nobody
    /\ serial' = h
    /\ To(h, IF place[h] = "hold" THEN "swap" ELSE "noopSwap")
    /\ UNCHANGED <<database, enabled, state, session, nudges, doomed, woken, ending,
                   broken, unsaid>>

\* An import that succeeds nudges before it lets go; a storage switch, or
\* an import that fails, does not.
Swap(h) ==
    /\ place[h] \in {"swap", "noopSwap"}
    /\ \E S \in SUBSET Images :
          /\ text' = [i \in Images |-> IF i \in S THEN "new" ELSE "gone"]
          /\ tries' = [i \in Images |-> 0]
    /\ \/ Owe /\ UNCHANGED unsaid
       \/ unsaid' = (unsaid \/ Unheard(h)) /\ UNCHANGED nudges
    /\ serial' = Nobody
    /\ To(h, IF place[h] = "swap" THEN "hold" ELSE "noop")
    /\ UNCHANGED <<enabled, state, session, doomed, woken, ending, broken>>

\* The last to let go nudges; a mark is left for it in any case.
(* Mutant: it is never counted out.                                         *)
Fewer_Same == suspended
Fewer == IF suspended = 0 THEN 0 ELSE suspended - 1
Release(h) ==
    /\ Holding(h)
    /\ owed <= MaxOwed
    /\ To(h, "idle")
    /\ IF place[h] = "hold"
       THEN /\ suspended' = Fewer
            /\ dirty' = TRUE
            /\ owed' = owed + 1
       ELSE UNCHANGED <<suspended, dirty, owed>>
    /\ UNCHANGED <<resolved, database, enabled, running, priority, stopped, child,
                   startup, session, doomed, serial, woken, ending, broken, unsaid>>

-----------------------------------------------------------------------------
Thread == Connect \/ Top \/ Query \/ Engine \/ Ask \/ Save \/ Write \/ Close \/ Finish

Outside ==
    \/ \E i \in Images : Store(i) \/ Prioritize(i)
    \/ SettingsChanged
    \/ \E h \in Holders : Suspend(h) \/ Stop(h) \/ Change(h) \/ Toggle(h) \/ TakeSerial(h)

Tell == \E again \in BOOLEAN : Notify(again)

Hold(h) == Resolving(h) \/ Count(h) \/ Bump(h) \/ Look(h) \/ Sleep(h) \/ Wake(h) \/ Swap(h)

Next ==
    \/ Resolve \/ Nudge \/ StartupFires \/ Kill \/ Thread \/ Tell
    \/ Outside
    \/ \E h \in Holders : Hold(h) \/ Release(h)

\* Threads and tasks that can go on do so, and a nudge that is due comes.
\* (The end of a session that found the mark waits for room among the
\* nudges, a bound: hence the strong fairness.)
Fairness ==
    /\ WF_vars(Resolve \/ Nudge)
    /\ WF_vars(Thread)
    /\ SF_vars(Tell)
    /\ \A h \in Holders : WF_vars(Hold(h))

Spec == Init /\ [][Next]_vars /\ Fairness

-----------------------------------------------------------------------------
(* Properties.                                                              *)

\* The shape of the state; a text is charged MaxTries attempts at most.
TypeOK ==
    /\ text \in [Images -> Texts] /\ tries \in [Images -> 0 .. MaxTries]
    /\ enabled \in BOOLEAN /\ running \in BOOLEAN /\ dirty \in BOOLEAN
    /\ stopped \in BOOLEAN /\ child \in BOOLEAN /\ startup \in BOOLEAN
    /\ current \in BOOLEAN
    /\ suspended \in 0 .. Cardinality(Holders) /\ owed \in 0 .. MaxOwed + 1
    /\ priority \in Images \cup {Nobody} /\ job \in Images \cup {Nobody}
    /\ at \in Steps /\ asked \in BOOLEAN
    /\ answer \in {"none", "done", "failed", "killed"}
    /\ helper \in {"none", "up", "dead"}
    /\ stumbled \in BOOLEAN /\ doomed \in BOOLEAN /\ broken \in BOOLEAN
    /\ resolved \in BOOLEAN /\ unsaid \in BOOLEAN
    /\ serial \in Holders \cup {Nobody, "session"}
    /\ place \in [Holders -> Places] /\ woken \in [Holders -> BOOLEAN]
    /\ ending \in [BOOLEAN -> 0 .. MaxEnding]

\* Whoever has been told that the scheduler is suspended deletes, swaps and
\* switches with no session at work: no connection to the database, no
\* helper reading an image, no result on its way.  Only a suspension that
\* counts itself in promises this: the empty one, of a scheduler found idle
\* with the extension off, does not keep a session from starting under it.
Quiet ==
    (\E h \in Holders : place[h] \in {"hold", "swap"}) => at \notin Open /\ helper = "none"

\* An image is not charged an attempt because the program itself killed the
\* helper that worked on it.
NotCharged == at = "write" => answer # "killed"

\* No wake-up is lost between a session's last look at its queue and its
\* end, between its end and a suspension's, or with the start's delayed
\* nudge: while an image is queued or asked for and nothing forbids it, a
\* session runs or somebody is going to nudge.  The code leaves images
\* queued with nobody to nudge in two cases, and the promise holds again
\* from the next nudge on: the last session failed (`broken`: no thread, or
\* an error of its database), or they were queued by somebody who nudges
\* nobody (`unsaid`: an import that fails after it has committed rows, the
\* start whose query of the queue fails, and work under an empty suspension
\* while another task has enabled the extension).
NoLostWake ==
    Pending /\ enabled /\ ~stopped /\ ~broken /\ ~unsaid
        => running \/ suspended > 0 \/ owed > 0 \/ startup \/ ending[TRUE] > 0

\* Whoever sleeps until the session has ended is going to be told.
NoLostNotice ==
    \A h \in Holders :
        place[h] = "wait" /\ ~woken[h] => running \/ \E again \in BOOLEAN : ending[again] > 0

\* Whoever suspends the scheduler is not kept waiting for ever, whatever
\* the helper does and whenever the session ends.
SuspensionHolds ==
    \A h \in Holders :
        place[h] \in {"due", "bump", "armed", "looked", "wait"} ~> place[h] = "hold"
=============================================================================
