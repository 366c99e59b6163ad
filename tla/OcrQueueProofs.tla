---------------------------- MODULE OcrQueueProofs ----------------------------
(***************************************************************************)
(* The OCR scheduler for every number of images and of tasks that suspend  *)
(* it.                                                                     *)
(*                                                                         *)
(* `suspended` counts the tasks between counting themselves in and letting *)
(* go (Counting), so nobody starts a session under a task that holds the   *)
(* suspension (Still).  A killed helper is always the helper of a session  *)
(* that has become invalid (Stale).  A session that is told to end, does   *)
(* not see the image asked for, or ends, leaves a mark or somebody who     *)
(* will nudge (Due), and a task that goes to sleep has begun to listen     *)
(* before it looked (Heard).                                               *)
(***************************************************************************)
EXTENDS OcrQueue, FiniteSetTheorems, TLAPS

In == {h \in Holders : place[h] \in Counted}

Counting == suspended = Cardinality(In)

(* A helper, and what points at it, belongs to a session that has opened   *)
(* its connection.                                                         *)
Session ==
    /\ running <=> at # "none"
    /\ helper # "none" => at \in Open \ {"connect"}
    /\ child \/ doomed => at \notin {"none", "connect"}

Still == \A h \in Holders : place[h] \in {"hold", "swap"} => at = "none"

Stale ==
    /\ doomed \/ helper = "dead" => ~current
    /\ answer = "killed" => ~current /\ at # "none"

(* What is saved or written has an outcome.                                *)
Ready == at \in {"save", "write"} => answer # "none"

(* A session that has become invalid, does not see the image asked for, or *)
(* is ending, leaves nothing behind without a mark or somebody who will    *)
(* nudge.                                                                  *)
Left == dirty \/ owed > 0 \/ suspended > 0

Due ==
    enabled /\ ~stopped =>
        /\ running /\ ~current => Left
        /\ at = "query" /\ ~asked /\ priority # Nobody => Left
        /\ at \in {"close", "finish"} /\ ~broken /\ ~unsaid /\ Pending => Left

Heard ==
    \A h \in Holders :
        place[h] \in {"looked", "wait"} /\ ~woken[h]
            => running \/ \E again \in BOOLEAN : ending[again] > 0

IInv ==
    /\ TypeOK /\ Counting /\ Session /\ Still /\ Stale /\ Ready
    /\ NotCharged /\ Heard /\ Due /\ NoLostWake

-----------------------------------------------------------------------------
(* The parts of the type, and the parts put together.                      *)
TypeData ==
    /\ text \in [Images -> Texts] /\ tries \in [Images -> 0 .. MaxTries]
TypeFlags ==
    /\ enabled \in BOOLEAN /\ running \in BOOLEAN /\ dirty \in BOOLEAN
    /\ stopped \in BOOLEAN /\ child \in BOOLEAN /\ startup \in BOOLEAN
    /\ current \in BOOLEAN /\ doomed \in BOOLEAN /\ broken \in BOOLEAN
    /\ resolved \in BOOLEAN /\ unsaid \in BOOLEAN
TypeWork ==
    /\ priority \in Images \cup {Nobody} /\ job \in Images \cup {Nobody}
    /\ at \in Steps /\ asked \in BOOLEAN /\ stumbled \in BOOLEAN
    /\ answer \in {"none", "done", "failed", "killed"}
    /\ helper \in {"none", "up", "dead"}
TypeTasks ==
    /\ serial \in Holders \cup {Nobody, "session"}
    /\ place \in [Holders -> Places] /\ woken \in [Holders -> BOOLEAN]
TypeCounts ==
    /\ owed \in 0 .. MaxOwed + 1
    /\ ending \in [BOOLEAN -> 0 .. MaxEnding]

LEMMA TypeParts ==
    TypeOK <=> /\ TypeData /\ TypeFlags /\ TypeWork /\ TypeTasks /\ TypeCounts
               /\ suspended \in 0 .. Cardinality(Holders)
BY DEF TypeOK, TypeData, TypeFlags, TypeWork, TypeTasks, TypeCounts

LEMMA InFinite == IsFiniteSet(In)
BY HoldersAssumption, FS_Subset DEF In

(* Whoever is counted makes the count positive.                            *)
LEMMA CountedIn ==
    ASSUME IInv, NEW h \in Holders, place[h] \in Counted
    PROVE  suspended > 0
<1>1. IsFiniteSet(In)
  BY InFinite
<1>2. In # {}
  BY DEF In
<1>3. Cardinality(In) # 0 /\ Cardinality(In) \in Nat
  BY <1>1, <1>2, FS_EmptySet, FS_CardinalityType
<1>4. QED
  BY <1>3 DEF IInv, Counting

(* The count is never more than there are tasks.                           *)
LEMMA CountBound ==
    \A S \in SUBSET Holders : Cardinality(S) \in 0 .. Cardinality(Holders)
<1> SUFFICES ASSUME NEW S \in SUBSET Holders
             PROVE  Cardinality(S) \in 0 .. Cardinality(Holders)
  OBVIOUS
<1>1. IsFiniteSet(S) /\ Cardinality(S) <= Cardinality(Holders)
  BY HoldersAssumption, FS_Subset
<1>2. Cardinality(Holders) \in Nat /\ Cardinality(S) \in Nat
  BY <1>1, HoldersAssumption, FS_CardinalityType
<1>3. QED
  BY <1>1, <1>2

(* What a nudge does.                                                      *)
LEMMA NudgeCases ==
    ASSUME Nudge
    PROVE  /\ owed > 0 /\ owed' = owed - 1 /\ resolved' = FALSE
           /\ text' = text /\ tries' = tries /\ enabled' = enabled /\ stopped' = stopped
           /\ suspended' = suspended /\ startup' = startup /\ child' = child
           /\ priority' = priority /\ job' = job /\ asked' = asked /\ answer' = answer
           /\ helper' = helper /\ stumbled' = stumbled /\ doomed' = doomed
           /\ serial' = serial /\ place' = place /\ woken' = woken /\ ending' = ending
           /\ \/ /\ stopped
                 /\ dirty' = dirty /\ unsaid' = unsaid
                 /\ running' = running /\ at' = at /\ current' = current /\ broken' = broken
              \/ /\ running \/ suspended # 0
                 /\ dirty' = TRUE /\ unsaid' = FALSE
                 /\ running' = running /\ at' = at /\ current' = current /\ broken' = broken
              \/ /\ ~running /\ suspended = 0
                 /\ running' = TRUE /\ dirty' = FALSE /\ current' = TRUE
                 /\ at' = "connect" /\ broken' = FALSE /\ unsaid' = FALSE
              \/ /\ ~running /\ suspended = 0
                 /\ dirty' = FALSE /\ broken' = TRUE /\ unsaid' = unsaid
                 /\ running' = running /\ at' = at /\ current' = current
<1>1. CASE stopped
  BY <1>1 DEF Nudge, database, state, session, others
<1>2. CASE ~stopped
  <2>1. CASE running \/ suspended # 0
    BY <1>2, <2>1 DEF Nudge, Marked, database, session, others
  <2>2. CASE ~(running \/ suspended # 0)
    BY <1>2, <2>2 DEF Nudge, database, state, session, others
  <2>3. QED
    BY <2>1, <2>2
<1>3. QED
  BY <1>1, <1>2

(* Every step keeps the texts and their attempts.                          *)
LEMMA DataStep ==
    ASSUME IInv, [Next]_vars
    PROVE  TypeData'
<1>1. ASSUME Nudge PROVE TypeData'
  BY <1>1, TypeParts, NudgeCases DEF IInv, TypeData
<1>2. ASSUME Resolve PROVE TypeData'
  BY <1>2, TypeParts , TriesAssumption DEF IInv, TypeData, TypeWork, Ready, Resolve,
       database, state, session, others, Texts
<1>3. ASSUME StartupFires PROVE TypeData'
  BY <1>3, TypeParts , TriesAssumption DEF IInv, TypeData, TypeWork, Ready, StartupFires,
       Owe, database, session, others, Texts
<1>4. ASSUME Kill PROVE TypeData'
  BY <1>4, TypeParts , TriesAssumption DEF IInv, TypeData, TypeWork, Ready, Kill, database,
       state, others, Texts, nudges
<1>5. ASSUME Connect PROVE TypeData'
  BY <1>5, TypeParts , TriesAssumption DEF IInv, TypeData, TypeWork, Ready, Connect, Aside,
       database, others, Texts, nudges
<1>6. ASSUME Top PROVE TypeData'
  BY <1>6, TypeParts , TriesAssumption DEF IInv, TypeData, TypeWork, Ready, Top, Aside,
       Valid, database, others, Texts, nudges
<1>7. ASSUME Query PROVE TypeData'
  BY <1>7, TypeParts , TriesAssumption DEF IInv, TypeData, TypeWork, Ready, Query, Aside,
       database, others, Texts, nudges, TurnOver
<1>8. ASSUME Engine PROVE TypeData'
  BY <1>8, TypeParts , TriesAssumption DEF IInv, TypeData, TypeWork, Ready, Engine, Aside,
       Valid, database, others, Texts, nudges, TurnOver
<1>9. ASSUME Ask PROVE TypeData'
  BY <1>9, TypeParts , TriesAssumption DEF IInv, TypeData, TypeWork, Ready, Ask, Aside,
       database, others, Texts, nudges
<1>10. ASSUME Save PROVE TypeData'
  BY <1>10, TypeParts , TriesAssumption DEF IInv, TypeData, TypeWork, Ready, Save, Aside,
       MaySave, Valid, database, others, Texts, nudges, TurnOver
<1>11. ASSUME Write PROVE TypeData'
  BY <1>11, TypeParts , TriesAssumption DEF IInv, TypeData, TypeWork, Ready, Write, Aside,
       Outcome, database, others, Texts, nudges, TurnOver
<1>12. ASSUME Close PROVE TypeData'
  BY <1>12, TypeParts , TriesAssumption DEF IInv, TypeData, TypeWork, Ready, Close, Aside,
       database, others, Texts, nudges
<1>13. ASSUME Finish PROVE TypeData'
  BY <1>13, TypeParts , TriesAssumption DEF IInv, TypeData, TypeWork, Ready, Finish,
       database, Texts, nudges, TurnOver
<1>14. ASSUME NEW again \in BOOLEAN, Notify(again) PROVE TypeData'
  BY <1>14, TypeParts , TriesAssumption DEF IInv, TypeData, TypeWork, Ready, Notify,
       Listening, database, state, session, Texts
<1>15. ASSUME NEW i \in Images, Store(i) PROVE TypeData'
  BY <1>15, TypeParts , TriesAssumption DEF IInv, TypeData, TypeWork, Ready, Store, Owe,
       state, session, others, Texts, nudges
<1>16. ASSUME NEW i \in Images, Prioritize(i) PROVE TypeData'
  BY <1>16, TypeParts , TriesAssumption DEF IInv, TypeData, TypeWork, Ready, Prioritize,
       Owe, database, session, others, Texts
<1>17. ASSUME SettingsChanged PROVE TypeData'
  BY <1>17, TypeParts , TriesAssumption DEF IInv, TypeData, TypeWork, Ready,
       SettingsChanged, Invalidate, Owe, database, others, Texts
<1>18. ASSUME NEW h \in Holders, Suspend(h) PROVE TypeData'
  BY <1>18, TypeParts , TriesAssumption DEF IInv, TypeData, TypeWork, Ready, Suspend, To,
       database, state, session, Texts, nudges
<1>19. ASSUME NEW h \in Holders, Resolving(h) PROVE TypeData'
  BY <1>19, TypeParts , TriesAssumption DEF IInv, TypeData, TypeWork, Ready, Resolving, To,
       database, state, session, Texts, nudges
<1>20. ASSUME NEW h \in Holders, Count(h) PROVE TypeData'
  BY <1>20, TypeParts , TriesAssumption DEF IInv, TypeData, TypeWork, Ready, Count, To,
       database, state, session, Texts, nudges
<1>21. ASSUME NEW h \in Holders, Stop(h) PROVE TypeData'
  BY <1>21, TypeParts , TriesAssumption DEF IInv, TypeData, TypeWork, Ready, Stop, To,
       database, session, Texts, nudges
<1>22. ASSUME NEW h \in Holders, Change(h) PROVE TypeData'
  BY <1>22, TypeParts , TriesAssumption DEF IInv, TypeData, TypeWork, Ready, Change,
       Holding, state, session, others, Texts, nudges, Unheard
<1>23. ASSUME NEW h \in Holders, Toggle(h) PROVE TypeData'
  BY <1>23, TypeParts , TriesAssumption DEF IInv, TypeData, TypeWork, Ready, Toggle,
       Holding, To, Owe, database, state, session, Texts
<1>24. ASSUME NEW h \in Holders, TakeSerial(h) PROVE TypeData'
  BY <1>24, TypeParts , TriesAssumption DEF IInv, TypeData, TypeWork, Ready, TakeSerial,
       Holding, To, database, state, session, Texts, nudges
<1>25. ASSUME NEW h \in Holders, Bump(h) PROVE TypeData'
  BY <1>25, TypeParts , TriesAssumption DEF IInv, TypeData, TypeWork, Ready, Bump,
       Invalidate, To, database, Texts, nudges
<1>26. ASSUME NEW h \in Holders, Look(h) PROVE TypeData'
  BY <1>26, TypeParts , TriesAssumption DEF IInv, TypeData, TypeWork, Ready, Look, To,
       database, state, session, Texts, nudges
<1>27. ASSUME NEW h \in Holders, Sleep(h) PROVE TypeData'
  BY <1>27, TypeParts , TriesAssumption DEF IInv, TypeData, TypeWork, Ready, Sleep, To,
       database, state, session, Texts, nudges
<1>28. ASSUME NEW h \in Holders, Wake(h) PROVE TypeData'
  BY <1>28, TypeParts , TriesAssumption DEF IInv, TypeData, TypeWork, Ready, Wake, To,
       Told, database, state, session, Texts, nudges
<1>29. ASSUME NEW h \in Holders, Swap(h) PROVE TypeData'
  BY <1>29, TypeParts , TriesAssumption DEF IInv, TypeData, TypeWork, Ready, Swap, To,
       state, session, Texts, nudges, Unheard, Owe
<1>30. ASSUME NEW h \in Holders, Release(h) PROVE TypeData'
  BY <1>30, TypeParts , TriesAssumption DEF IInv, TypeData, TypeWork, Ready, Release,
       Holding, To, Fewer, database, session, Texts
<1>31. CASE UNCHANGED vars
  BY <1>31, TypeParts , TriesAssumption DEF IInv, TypeData, TypeWork, Ready, Texts, vars
<1>32. QED
  BY <1>1, <1>2, <1>3, <1>4, <1>5, <1>6, <1>7, <1>8, <1>9, <1>10, <1>11, <1>12, <1>13,
     <1>14, <1>15, <1>16, <1>17, <1>18, <1>19, <1>20, <1>21, <1>22, <1>23, <1>24, <1>25,
     <1>26, <1>27, <1>28, <1>29, <1>30, <1>31
     DEF Next, Thread, Outside, Tell, Hold

(* Every step keeps the flags flags.                                       *)
LEMMA FlagsStep ==
    ASSUME IInv, [Next]_vars
    PROVE  TypeFlags'
<1>1. ASSUME Nudge PROVE TypeFlags'
  BY <1>1, TypeParts, NudgeCases DEF IInv, TypeFlags
<1>2. ASSUME Resolve PROVE TypeFlags'
  BY <1>2, TypeParts DEF IInv, TypeFlags, Resolve, database, state, session, others
<1>3. ASSUME StartupFires PROVE TypeFlags'
  BY <1>3, TypeParts DEF IInv, TypeFlags, StartupFires, Owe, database, session, others
<1>4. ASSUME Kill PROVE TypeFlags'
  BY <1>4, TypeParts DEF IInv, TypeFlags, Kill, database, state, others, nudges
<1>5. ASSUME Connect PROVE TypeFlags'
  BY <1>5, TypeParts DEF IInv, TypeFlags, Connect, Aside, database, others, nudges
<1>6. ASSUME Top PROVE TypeFlags'
  BY <1>6, TypeParts DEF IInv, TypeFlags, Top, Aside, Valid, database, others, nudges
<1>7. ASSUME Query PROVE TypeFlags'
  BY <1>7, TypeParts DEF IInv, TypeFlags, Query, Aside, database, others, nudges, TurnOver
<1>8. ASSUME Engine PROVE TypeFlags'
  BY <1>8, TypeParts DEF IInv, TypeFlags, Engine, Aside, Valid, database, others, nudges,
       TurnOver
<1>9. ASSUME Ask PROVE TypeFlags'
  BY <1>9, TypeParts DEF IInv, TypeFlags, Ask, Aside, database, others, nudges
<1>10. ASSUME Save PROVE TypeFlags'
  BY <1>10, TypeParts DEF IInv, TypeFlags, Save, Aside, MaySave, Valid, database, others,
       nudges, TurnOver
<1>11. ASSUME Write PROVE TypeFlags'
  BY <1>11, TypeParts DEF IInv, TypeFlags, Write, Aside, Outcome, database, others, nudges,
       TurnOver
<1>12. ASSUME Close PROVE TypeFlags'
  BY <1>12, TypeParts DEF IInv, TypeFlags, Close, Aside, database, others, nudges
<1>13. ASSUME Finish PROVE TypeFlags'
  BY <1>13, TypeParts DEF IInv, TypeFlags, Finish, database, nudges, TurnOver
<1>14. ASSUME NEW again \in BOOLEAN, Notify(again) PROVE TypeFlags'
  BY <1>14, TypeParts DEF IInv, TypeFlags, Notify, Listening, database, state, session
<1>15. ASSUME NEW i \in Images, Store(i) PROVE TypeFlags'
  BY <1>15, TypeParts DEF IInv, TypeFlags, Store, Owe, state, session, others, nudges
<1>16. ASSUME NEW i \in Images, Prioritize(i) PROVE TypeFlags'
  BY <1>16, TypeParts DEF IInv, TypeFlags, Prioritize, Owe, database, session, others
<1>17. ASSUME SettingsChanged PROVE TypeFlags'
  BY <1>17, TypeParts DEF IInv, TypeFlags, SettingsChanged, Invalidate, Owe, database,
       others
<1>18. ASSUME NEW h \in Holders, Suspend(h) PROVE TypeFlags'
  BY <1>18, TypeParts DEF IInv, TypeFlags, Suspend, To, database, state, session, nudges
<1>19. ASSUME NEW h \in Holders, Resolving(h) PROVE TypeFlags'
  BY <1>19, TypeParts DEF IInv, TypeFlags, Resolving, To, database, state, session, nudges
<1>20. ASSUME NEW h \in Holders, Count(h) PROVE TypeFlags'
  BY <1>20, TypeParts DEF IInv, TypeFlags, Count, To, database, state, session, nudges
<1>21. ASSUME NEW h \in Holders, Stop(h) PROVE TypeFlags'
  BY <1>21, TypeParts DEF IInv, TypeFlags, Stop, To, database, session, nudges
<1>22. ASSUME NEW h \in Holders, Change(h) PROVE TypeFlags'
  BY <1>22, TypeParts DEF IInv, TypeFlags, Change, Holding, state, session, others, nudges,
       Unheard
<1>23. ASSUME NEW h \in Holders, Toggle(h) PROVE TypeFlags'
  BY <1>23, TypeParts DEF IInv, TypeFlags, Toggle, Holding, To, Owe, database, state,
       session
<1>24. ASSUME NEW h \in Holders, TakeSerial(h) PROVE TypeFlags'
  BY <1>24, TypeParts DEF IInv, TypeFlags, TakeSerial, Holding, To, database, state,
       session, nudges
<1>25. ASSUME NEW h \in Holders, Bump(h) PROVE TypeFlags'
  BY <1>25, TypeParts DEF IInv, TypeFlags, Bump, Invalidate, To, database, nudges
<1>26. ASSUME NEW h \in Holders, Look(h) PROVE TypeFlags'
  BY <1>26, TypeParts DEF IInv, TypeFlags, Look, To, database, state, session, nudges
<1>27. ASSUME NEW h \in Holders, Sleep(h) PROVE TypeFlags'
  BY <1>27, TypeParts DEF IInv, TypeFlags, Sleep, To, database, state, session, nudges
<1>28. ASSUME NEW h \in Holders, Wake(h) PROVE TypeFlags'
  BY <1>28, TypeParts DEF IInv, TypeFlags, Wake, To, Told, database, state, session, nudges
<1>29. ASSUME NEW h \in Holders, Swap(h) PROVE TypeFlags'
  BY <1>29, TypeParts DEF IInv, TypeFlags, Swap, To, state, session, nudges, Unheard, Owe
<1>30. ASSUME NEW h \in Holders, Release(h) PROVE TypeFlags'
  BY <1>30, TypeParts DEF IInv, TypeFlags, Release, Holding, To, Fewer, database, session
<1>31. CASE UNCHANGED vars
  BY <1>31, TypeParts DEF IInv, TypeFlags, vars
<1>32. QED
  BY <1>1, <1>2, <1>3, <1>4, <1>5, <1>6, <1>7, <1>8, <1>9, <1>10, <1>11, <1>12, <1>13,
     <1>14, <1>15, <1>16, <1>17, <1>18, <1>19, <1>20, <1>21, <1>22, <1>23, <1>24, <1>25,
     <1>26, <1>27, <1>28, <1>29, <1>30, <1>31
     DEF Next, Thread, Outside, Tell, Hold

(* Every step keeps the session's variables in shape.                      *)
LEMMA WorkStep ==
    ASSUME IInv, [Next]_vars
    PROVE  TypeWork'
<1>1. ASSUME Nudge PROVE TypeWork'
  BY <1>1, TypeParts, NudgeCases DEF IInv, TypeWork, Steps
<1>2. ASSUME Resolve PROVE TypeWork'
  BY <1>2, TypeParts DEF IInv, TypeWork, Resolve, database, state, session, others, Steps
<1>3. ASSUME StartupFires PROVE TypeWork'
  BY <1>3, TypeParts DEF IInv, TypeWork, StartupFires, Owe, database, session, others,
       Steps
<1>4. ASSUME Kill PROVE TypeWork'
  BY <1>4, TypeParts DEF IInv, TypeWork, Kill, database, state, others, Steps, nudges
<1>5. ASSUME Connect PROVE TypeWork'
  BY <1>5, TypeParts DEF IInv, TypeWork, Connect, Aside, database, others, Steps, nudges
<1>6. ASSUME Top PROVE TypeWork'
  BY <1>6, TypeParts DEF IInv, TypeWork, Top, Aside, Valid, database, others, Steps, nudges
<1>7. ASSUME Query PROVE TypeWork'
  BY <1>7, TypeParts DEF IInv, TypeWork, Query, Aside, database, others, Steps, nudges,
       TurnOver
<1>8. ASSUME Engine PROVE TypeWork'
  BY <1>8, TypeParts DEF IInv, TypeWork, Engine, Aside, Valid, database, others, Steps,
       nudges, TurnOver
<1>9. ASSUME Ask PROVE TypeWork'
  BY <1>9, TypeParts DEF IInv, TypeWork, Ask, Aside, database, others, Steps, nudges
<1>10. ASSUME Save PROVE TypeWork'
  BY <1>10, TypeParts DEF IInv, TypeWork, Save, Aside, MaySave, Valid, database, others,
       Steps, nudges, TurnOver
<1>11. ASSUME Write PROVE TypeWork'
  BY <1>11, TypeParts DEF IInv, TypeWork, Write, Aside, Outcome, database, others, Steps,
       nudges, TurnOver
<1>12. ASSUME Close PROVE TypeWork'
  BY <1>12, TypeParts DEF IInv, TypeWork, Close, Aside, database, others, Steps, nudges
<1>13. ASSUME Finish PROVE TypeWork'
  BY <1>13, TypeParts DEF IInv, TypeWork, Finish, database, Steps, nudges, TurnOver
<1>14. ASSUME NEW again \in BOOLEAN, Notify(again) PROVE TypeWork'
  BY <1>14, TypeParts DEF IInv, TypeWork, Notify, Listening, database, state, session,
       Steps
<1>15. ASSUME NEW i \in Images, Store(i) PROVE TypeWork'
  BY <1>15, TypeParts DEF IInv, TypeWork, Store, Owe, state, session, others, Steps, nudges
<1>16. ASSUME NEW i \in Images, Prioritize(i) PROVE TypeWork'
  BY <1>16, TypeParts DEF IInv, TypeWork, Prioritize, Owe, database, session, others, Steps
<1>17. ASSUME SettingsChanged PROVE TypeWork'
  BY <1>17, TypeParts DEF IInv, TypeWork, SettingsChanged, Invalidate, Owe, database,
       others, Steps
<1>18. ASSUME NEW h \in Holders, Suspend(h) PROVE TypeWork'
  BY <1>18, TypeParts DEF IInv, TypeWork, Suspend, To, database, state, session, Steps,
       nudges
<1>19. ASSUME NEW h \in Holders, Resolving(h) PROVE TypeWork'
  BY <1>19, TypeParts DEF IInv, TypeWork, Resolving, To, database, state, session, Steps,
       nudges
<1>20. ASSUME NEW h \in Holders, Count(h) PROVE TypeWork'
  BY <1>20, TypeParts DEF IInv, TypeWork, Count, To, database, state, session, Steps,
       nudges
<1>21. ASSUME NEW h \in Holders, Stop(h) PROVE TypeWork'
  BY <1>21, TypeParts DEF IInv, TypeWork, Stop, To, database, session, Steps, nudges
<1>22. ASSUME NEW h \in Holders, Change(h) PROVE TypeWork'
  BY <1>22, TypeParts DEF IInv, TypeWork, Change, Holding, state, session, others, Steps,
       nudges, Unheard
<1>23. ASSUME NEW h \in Holders, Toggle(h) PROVE TypeWork'
  BY <1>23, TypeParts DEF IInv, TypeWork, Toggle, Holding, To, Owe, database, state,
       session, Steps
<1>24. ASSUME NEW h \in Holders, TakeSerial(h) PROVE TypeWork'
  BY <1>24, TypeParts DEF IInv, TypeWork, TakeSerial, Holding, To, database, state,
       session, Steps, nudges
<1>25. ASSUME NEW h \in Holders, Bump(h) PROVE TypeWork'
  BY <1>25, TypeParts DEF IInv, TypeWork, Bump, Invalidate, To, database, Steps, nudges
<1>26. ASSUME NEW h \in Holders, Look(h) PROVE TypeWork'
  BY <1>26, TypeParts DEF IInv, TypeWork, Look, To, database, state, session, Steps, nudges
<1>27. ASSUME NEW h \in Holders, Sleep(h) PROVE TypeWork'
  BY <1>27, TypeParts DEF IInv, TypeWork, Sleep, To, database, state, session, Steps,
       nudges
<1>28. ASSUME NEW h \in Holders, Wake(h) PROVE TypeWork'
  BY <1>28, TypeParts DEF IInv, TypeWork, Wake, To, Told, database, state, session, Steps,
       nudges
<1>29. ASSUME NEW h \in Holders, Swap(h) PROVE TypeWork'
  BY <1>29, TypeParts DEF IInv, TypeWork, Swap, To, state, session, Steps, nudges, Unheard,
       Owe
<1>30. ASSUME NEW h \in Holders, Release(h) PROVE TypeWork'
  BY <1>30, TypeParts DEF IInv, TypeWork, Release, Holding, To, Fewer, database, session,
       Steps
<1>31. CASE UNCHANGED vars
  BY <1>31, TypeParts DEF IInv, TypeWork, Steps, vars
<1>32. QED
  BY <1>1, <1>2, <1>3, <1>4, <1>5, <1>6, <1>7, <1>8, <1>9, <1>10, <1>11, <1>12, <1>13,
     <1>14, <1>15, <1>16, <1>17, <1>18, <1>19, <1>20, <1>21, <1>22, <1>23, <1>24, <1>25,
     <1>26, <1>27, <1>28, <1>29, <1>30, <1>31
     DEF Next, Thread, Outside, Tell, Hold

(* Every step keeps the tasks' variables in shape.                         *)
LEMMA TasksStep ==
    ASSUME IInv, [Next]_vars
    PROVE  TypeTasks'
<1>1. ASSUME Nudge PROVE TypeTasks'
  BY <1>1, TypeParts, NudgeCases DEF IInv, TypeTasks
<1>2. ASSUME Resolve PROVE TypeTasks'
  BY <1>2, TypeParts DEF IInv, TypeTasks, Resolve, database, state, session, others, Places
<1>3. ASSUME StartupFires PROVE TypeTasks'
  BY <1>3, TypeParts DEF IInv, TypeTasks, StartupFires, Owe, database, session, others,
       Places
<1>4. ASSUME Kill PROVE TypeTasks'
  BY <1>4, TypeParts DEF IInv, TypeTasks, Kill, database, state, others, Places, nudges
<1>5. ASSUME Connect PROVE TypeTasks'
  BY <1>5, TypeParts DEF IInv, TypeTasks, Connect, Aside, database, others, Places, nudges
<1>6. ASSUME Top PROVE TypeTasks'
  BY <1>6, TypeParts DEF IInv, TypeTasks, Top, Aside, Valid, database, others, Places,
       nudges
<1>7. ASSUME Query PROVE TypeTasks'
  BY <1>7, TypeParts DEF IInv, TypeTasks, Query, Aside, database, others, Places, nudges,
       TurnOver
<1>8. ASSUME Engine PROVE TypeTasks'
  BY <1>8, TypeParts DEF IInv, TypeTasks, Engine, Aside, Valid, database, others, Places,
       nudges, TurnOver
<1>9. ASSUME Ask PROVE TypeTasks'
  BY <1>9, TypeParts DEF IInv, TypeTasks, Ask, Aside, database, others, Places, nudges
<1>10. ASSUME Save PROVE TypeTasks'
  BY <1>10, TypeParts DEF IInv, TypeTasks, Save, Aside, MaySave, Valid, database, others,
       Places, nudges, TurnOver
<1>11. ASSUME Write PROVE TypeTasks'
  BY <1>11, TypeParts DEF IInv, TypeTasks, Write, Aside, Outcome, database, others, Places,
       nudges, TurnOver
<1>12. ASSUME Close PROVE TypeTasks'
  BY <1>12, TypeParts DEF IInv, TypeTasks, Close, Aside, database, others, Places, nudges
<1>13. ASSUME Finish PROVE TypeTasks'
  BY <1>13, TypeParts DEF IInv, TypeTasks, Finish, database, Places, nudges, TurnOver
<1>14. ASSUME NEW again \in BOOLEAN, Notify(again) PROVE TypeTasks'
  BY <1>14, TypeParts DEF IInv, TypeTasks, Notify, Listening, database, state, session,
       Places
<1>15. ASSUME NEW i \in Images, Store(i) PROVE TypeTasks'
  BY <1>15, TypeParts DEF IInv, TypeTasks, Store, Owe, state, session, others, Places,
       nudges
<1>16. ASSUME NEW i \in Images, Prioritize(i) PROVE TypeTasks'
  BY <1>16, TypeParts DEF IInv, TypeTasks, Prioritize, Owe, database, session, others,
       Places
<1>17. ASSUME SettingsChanged PROVE TypeTasks'
  BY <1>17, TypeParts DEF IInv, TypeTasks, SettingsChanged, Invalidate, Owe, database,
       others, Places
<1>18. ASSUME NEW h \in Holders, Suspend(h) PROVE TypeTasks'
  BY <1>18, TypeParts DEF IInv, TypeTasks, Suspend, To, database, state, session, Places,
       nudges
<1>19. ASSUME NEW h \in Holders, Resolving(h) PROVE TypeTasks'
  BY <1>19, TypeParts DEF IInv, TypeTasks, Resolving, To, database, state, session, Places,
       nudges
<1>20. ASSUME NEW h \in Holders, Count(h) PROVE TypeTasks'
  BY <1>20, TypeParts DEF IInv, TypeTasks, Count, To, database, state, session, Places,
       nudges
<1>21. ASSUME NEW h \in Holders, Stop(h) PROVE TypeTasks'
  BY <1>21, TypeParts DEF IInv, TypeTasks, Stop, To, database, session, Places, nudges
<1>22. ASSUME NEW h \in Holders, Change(h) PROVE TypeTasks'
  BY <1>22, TypeParts DEF IInv, TypeTasks, Change, Holding, state, session, others, Places,
       nudges, Unheard
<1>23. ASSUME NEW h \in Holders, Toggle(h) PROVE TypeTasks'
  BY <1>23, TypeParts DEF IInv, TypeTasks, Toggle, Holding, To, Owe, database, state,
       session, Places
<1>24. ASSUME NEW h \in Holders, TakeSerial(h) PROVE TypeTasks'
  BY <1>24, TypeParts DEF IInv, TypeTasks, TakeSerial, Holding, To, database, state,
       session, Places, nudges
<1>25. ASSUME NEW h \in Holders, Bump(h) PROVE TypeTasks'
  BY <1>25, TypeParts DEF IInv, TypeTasks, Bump, Invalidate, To, database, Places, nudges
<1>26. ASSUME NEW h \in Holders, Look(h) PROVE TypeTasks'
  BY <1>26, TypeParts DEF IInv, TypeTasks, Look, To, database, state, session, Places,
       nudges
<1>27. ASSUME NEW h \in Holders, Sleep(h) PROVE TypeTasks'
  BY <1>27, TypeParts DEF IInv, TypeTasks, Sleep, To, database, state, session, Places,
       nudges
<1>28. ASSUME NEW h \in Holders, Wake(h) PROVE TypeTasks'
  BY <1>28, TypeParts DEF IInv, TypeTasks, Wake, To, Told, database, state, session,
       Places, nudges
<1>29. ASSUME NEW h \in Holders, Swap(h) PROVE TypeTasks'
  BY <1>29, TypeParts DEF IInv, TypeTasks, Swap, To, state, session, Places, nudges,
       Unheard, Owe
<1>30. ASSUME NEW h \in Holders, Release(h) PROVE TypeTasks'
  BY <1>30, TypeParts DEF IInv, TypeTasks, Release, Holding, To, Fewer, database, session,
       Places
<1>31. CASE UNCHANGED vars
  BY <1>31, TypeParts DEF IInv, TypeTasks, Places, vars
<1>32. QED
  BY <1>1, <1>2, <1>3, <1>4, <1>5, <1>6, <1>7, <1>8, <1>9, <1>10, <1>11, <1>12, <1>13,
     <1>14, <1>15, <1>16, <1>17, <1>18, <1>19, <1>20, <1>21, <1>22, <1>23, <1>24, <1>25,
     <1>26, <1>27, <1>28, <1>29, <1>30, <1>31
     DEF Next, Thread, Outside, Tell, Hold

(* Nudges and ending threads stay within their bounds.                     *)
LEMMA BoundStep ==
    ASSUME IInv, [Next]_vars
    PROVE  TypeCounts'
<1>1. ASSUME Nudge PROVE TypeCounts'
  BY <1>1, TypeParts, NudgeCases DEF IInv, TypeCounts, MaxOwed
<1>2. ASSUME Resolve PROVE TypeCounts'
  BY <1>2, TypeParts DEF IInv, TypeCounts, TypeFlags, Resolve, database, state, session,
       others, MaxOwed, MaxEnding
<1>3. ASSUME StartupFires PROVE TypeCounts'
  BY <1>3, TypeParts DEF IInv, TypeCounts, TypeFlags, StartupFires, Owe, database, session,
       others, MaxOwed, MaxEnding
<1>4. ASSUME Kill PROVE TypeCounts'
  BY <1>4, TypeParts DEF IInv, TypeCounts, TypeFlags, Kill, database, state, others,
       MaxOwed, MaxEnding, nudges
<1>5. ASSUME Connect PROVE TypeCounts'
  BY <1>5, TypeParts DEF IInv, TypeCounts, TypeFlags, Connect, Aside, database, others,
       MaxOwed, MaxEnding, nudges
<1>6. ASSUME Top PROVE TypeCounts'
  BY <1>6, TypeParts DEF IInv, TypeCounts, TypeFlags, Top, Aside, Valid, database, others,
       MaxOwed, MaxEnding, nudges
<1>7. ASSUME Query PROVE TypeCounts'
  BY <1>7, TypeParts DEF IInv, TypeCounts, TypeFlags, Query, Aside, database, others,
       MaxOwed, MaxEnding, nudges, TurnOver
<1>8. ASSUME Engine PROVE TypeCounts'
  BY <1>8, TypeParts DEF IInv, TypeCounts, TypeFlags, Engine, Aside, Valid, database,
       others, MaxOwed, MaxEnding, nudges, TurnOver
<1>9. ASSUME Ask PROVE TypeCounts'
  BY <1>9, TypeParts DEF IInv, TypeCounts, TypeFlags, Ask, Aside, database, others,
       MaxOwed, MaxEnding, nudges
<1>10. ASSUME Save PROVE TypeCounts'
  BY <1>10, TypeParts DEF IInv, TypeCounts, TypeFlags, Save, Aside, MaySave, Valid,
       database, others, MaxOwed, MaxEnding, nudges, TurnOver
<1>11. ASSUME Write PROVE TypeCounts'
  BY <1>11, TypeParts DEF IInv, TypeCounts, TypeFlags, Write, Aside, Outcome, database,
       others, MaxOwed, MaxEnding, nudges, TurnOver
<1>12. ASSUME Close PROVE TypeCounts'
  BY <1>12, TypeParts DEF IInv, TypeCounts, TypeFlags, Close, Aside, database, others,
       MaxOwed, MaxEnding, nudges
<1>13. ASSUME Finish PROVE TypeCounts'
  BY <1>13, TypeParts DEF IInv, TypeCounts, TypeFlags, Finish, database, MaxOwed,
       MaxEnding, nudges, TurnOver
<1>14. ASSUME NEW again \in BOOLEAN, Notify(again) PROVE TypeCounts'
  BY <1>14, TypeParts DEF IInv, TypeCounts, TypeFlags, Notify, Listening, database, state,
       session, MaxOwed, MaxEnding
<1>15. ASSUME NEW i \in Images, Store(i) PROVE TypeCounts'
  BY <1>15, TypeParts DEF IInv, TypeCounts, TypeFlags, Store, Owe, state, session, others,
       MaxOwed, MaxEnding, nudges
<1>16. ASSUME NEW i \in Images, Prioritize(i) PROVE TypeCounts'
  BY <1>16, TypeParts DEF IInv, TypeCounts, TypeFlags, Prioritize, Owe, database, session,
       others, MaxOwed, MaxEnding
<1>17. ASSUME SettingsChanged PROVE TypeCounts'
  BY <1>17, TypeParts DEF IInv, TypeCounts, TypeFlags, SettingsChanged, Invalidate, Owe,
       database, others, MaxOwed, MaxEnding
<1>18. ASSUME NEW h \in Holders, Suspend(h) PROVE TypeCounts'
  BY <1>18, TypeParts DEF IInv, TypeCounts, TypeFlags, Suspend, To, database, state,
       session, MaxOwed, MaxEnding, nudges
<1>19. ASSUME NEW h \in Holders, Resolving(h) PROVE TypeCounts'
  BY <1>19, TypeParts DEF IInv, TypeCounts, TypeFlags, Resolving, To, database, state,
       session, MaxOwed, MaxEnding, nudges
<1>20. ASSUME NEW h \in Holders, Count(h) PROVE TypeCounts'
  BY <1>20, TypeParts DEF IInv, TypeCounts, TypeFlags, Count, To, database, state, session,
       MaxOwed, MaxEnding, nudges
<1>21. ASSUME NEW h \in Holders, Stop(h) PROVE TypeCounts'
  BY <1>21, TypeParts DEF IInv, TypeCounts, TypeFlags, Stop, To, database, session,
       MaxOwed, MaxEnding, nudges
<1>22. ASSUME NEW h \in Holders, Change(h) PROVE TypeCounts'
  BY <1>22, TypeParts DEF IInv, TypeCounts, TypeFlags, Change, Holding, state, session,
       others, MaxOwed, MaxEnding, nudges, Unheard
<1>23. ASSUME NEW h \in Holders, Toggle(h) PROVE TypeCounts'
  BY <1>23, TypeParts DEF IInv, TypeCounts, TypeFlags, Toggle, Holding, To, Owe, database,
       state, session, MaxOwed, MaxEnding
<1>24. ASSUME NEW h \in Holders, TakeSerial(h) PROVE TypeCounts'
  BY <1>24, TypeParts DEF IInv, TypeCounts, TypeFlags, TakeSerial, Holding, To, database,
       state, session, MaxOwed, MaxEnding, nudges
<1>25. ASSUME NEW h \in Holders, Bump(h) PROVE TypeCounts'
  BY <1>25, TypeParts DEF IInv, TypeCounts, TypeFlags, Bump, Invalidate, To, database,
       MaxOwed, MaxEnding, nudges
<1>26. ASSUME NEW h \in Holders, Look(h) PROVE TypeCounts'
  BY <1>26, TypeParts DEF IInv, TypeCounts, TypeFlags, Look, To, database, state, session,
       MaxOwed, MaxEnding, nudges
<1>27. ASSUME NEW h \in Holders, Sleep(h) PROVE TypeCounts'
  BY <1>27, TypeParts DEF IInv, TypeCounts, TypeFlags, Sleep, To, database, state, session,
       MaxOwed, MaxEnding, nudges
<1>28. ASSUME NEW h \in Holders, Wake(h) PROVE TypeCounts'
  BY <1>28, TypeParts DEF IInv, TypeCounts, TypeFlags, Wake, To, Told, database, state,
       session, MaxOwed, MaxEnding, nudges
<1>29. ASSUME NEW h \in Holders, Swap(h) PROVE TypeCounts'
  BY <1>29, TypeParts DEF IInv, TypeCounts, TypeFlags, Swap, To, state, session, MaxOwed,
       MaxEnding, nudges, Unheard, Owe
<1>30. ASSUME NEW h \in Holders, Release(h) PROVE TypeCounts'
  BY <1>30, TypeParts DEF IInv, TypeCounts, TypeFlags, Release, Holding, To, Fewer,
       database, session, MaxOwed, MaxEnding
<1>31. CASE UNCHANGED vars
  BY <1>31, TypeParts DEF IInv, TypeCounts, TypeFlags, MaxOwed, MaxEnding, vars
<1>32. QED
  BY <1>1, <1>2, <1>3, <1>4, <1>5, <1>6, <1>7, <1>8, <1>9, <1>10, <1>11, <1>12, <1>13,
     <1>14, <1>15, <1>16, <1>17, <1>18, <1>19, <1>20, <1>21, <1>22, <1>23, <1>24, <1>25,
     <1>26, <1>27, <1>28, <1>29, <1>30, <1>31
     DEF Next, Thread, Outside, Tell, Hold

(* Only Suspend counts in, only Release counts out.                        *)
LEMMA CountStep ==
    ASSUME IInv, [Next]_vars
    PROVE  Counting'
<1>1. ASSUME Nudge PROVE Counting'
  BY <1>1 DEF IInv, TypeOK, Counting, Nudge, database, state, session, others, Marked, In,
       Counted, Places
<1>2. ASSUME Resolve PROVE Counting'
  BY <1>2 DEF IInv, TypeOK, Counting, Resolve, database, state, session, others, In,
       Counted, Places
<1>3. ASSUME StartupFires PROVE Counting'
  BY <1>3 DEF IInv, TypeOK, Counting, StartupFires, Owe, database, session, others, In,
       Counted, Places
<1>4. ASSUME Kill PROVE Counting'
  BY <1>4 DEF IInv, TypeOK, Counting, Kill, database, state, others, In, Counted, Places,
       nudges
<1>5. ASSUME Connect PROVE Counting'
  BY <1>5 DEF IInv, TypeOK, Counting, Connect, Aside, database, others, In, Counted,
       Places, nudges
<1>6. ASSUME Top PROVE Counting'
  BY <1>6 DEF IInv, TypeOK, Counting, Top, Aside, Valid, database, others, In, Counted,
       Places, nudges
<1>7. ASSUME Query PROVE Counting'
  BY <1>7 DEF IInv, TypeOK, Counting, Query, Aside, database, others, In, Counted, Places,
       nudges, TurnOver
<1>8. ASSUME Engine PROVE Counting'
  BY <1>8 DEF IInv, TypeOK, Counting, Engine, Aside, Valid, database, others, In, Counted,
       Places, nudges, TurnOver
<1>9. ASSUME Ask PROVE Counting'
  BY <1>9 DEF IInv, TypeOK, Counting, Ask, Aside, database, others, In, Counted, Places,
       nudges
<1>10. ASSUME Save PROVE Counting'
  BY <1>10 DEF IInv, TypeOK, Counting, Save, Aside, MaySave, Valid, database, others, In,
       Counted, Places, nudges, TurnOver
<1>11. ASSUME Write PROVE Counting'
  BY <1>11 DEF IInv, TypeOK, Counting, Write, Aside, Outcome, database, others, In,
       Counted, Places, nudges, TurnOver
<1>12. ASSUME Close PROVE Counting'
  BY <1>12 DEF IInv, TypeOK, Counting, Close, Aside, database, others, In, Counted, Places,
       nudges
<1>13. ASSUME Finish PROVE Counting'
  BY <1>13 DEF IInv, TypeOK, Counting, Finish, database, In, Counted, Places, nudges,
       TurnOver
<1>14. ASSUME NEW again \in BOOLEAN, Notify(again) PROVE Counting'
  BY <1>14 DEF IInv, TypeOK, Counting, Notify, Listening, database, state, session, In,
       Counted, Places
<1>15. ASSUME NEW i \in Images, Store(i) PROVE Counting'
  BY <1>15 DEF IInv, TypeOK, Counting, Store, Owe, state, session, others, In, Counted,
       Places, nudges
<1>16. ASSUME NEW i \in Images, Prioritize(i) PROVE Counting'
  BY <1>16 DEF IInv, TypeOK, Counting, Prioritize, Owe, database, session, others, In,
       Counted, Places
<1>17. ASSUME SettingsChanged PROVE Counting'
  BY <1>17 DEF IInv, TypeOK, Counting, SettingsChanged, Invalidate, Owe, database, others,
       In, Counted, Places
<1>18. ASSUME NEW h \in Holders, Suspend(h) PROVE Counting'
  BY <1>18 DEF IInv, TypeOK, Counting, Suspend, To, database, state, session, In, Counted,
       Places, nudges
<1>19. ASSUME NEW h \in Holders, Resolving(h) PROVE Counting'
  BY <1>19 DEF IInv, TypeOK, Counting, Resolving, To, database, state, session, In,
       Counted, Places, nudges
<1>20. ASSUME NEW h \in Holders, Count(h) PROVE Counting'
  <2>1. h \notin In /\ In' = In \cup {h}
    BY <1>20 DEF Count, To, In, Counted, IInv, TypeOK, nudges
  <2>2. suspended' = suspended + 1
    BY <1>20 DEF Count, nudges
  <2>3. Cardinality(In') = Cardinality(In) + 1
    BY <2>1, InFinite, FS_AddElement
  <2>4. QED
    BY <2>2, <2>3 DEF IInv, Counting
<1>21. ASSUME NEW h \in Holders, Stop(h) PROVE Counting'
  BY <1>21 DEF IInv, TypeOK, Counting, Stop, To, database, session, In, Counted, Places,
       nudges
<1>22. ASSUME NEW h \in Holders, Change(h) PROVE Counting'
  BY <1>22 DEF IInv, TypeOK, Counting, Change, Holding, state, session, others, In,
       Counted, Places, nudges, Unheard
<1>23. ASSUME NEW h \in Holders, Toggle(h) PROVE Counting'
  BY <1>23 DEF IInv, TypeOK, Counting, Toggle, Holding, To, Owe, database, state, session,
       In, Counted, Places
<1>24. ASSUME NEW h \in Holders, TakeSerial(h) PROVE Counting'
  BY <1>24 DEF IInv, TypeOK, Counting, TakeSerial, Holding, To, database, state, session,
       In, Counted, Places, nudges
<1>25. ASSUME NEW h \in Holders, Bump(h) PROVE Counting'
  BY <1>25 DEF IInv, TypeOK, Counting, Bump, Invalidate, To, database, In, Counted, Places,
       nudges
<1>26. ASSUME NEW h \in Holders, Look(h) PROVE Counting'
  BY <1>26 DEF IInv, TypeOK, Counting, Look, To, database, state, session, In, Counted,
       Places, nudges
<1>27. ASSUME NEW h \in Holders, Sleep(h) PROVE Counting'
  BY <1>27 DEF IInv, TypeOK, Counting, Sleep, To, database, state, session, In, Counted,
       Places, nudges
<1>28. ASSUME NEW h \in Holders, Wake(h) PROVE Counting'
  BY <1>28 DEF IInv, TypeOK, Counting, Wake, To, Told, database, state, session, In,
       Counted, Places, nudges
<1>29. ASSUME NEW h \in Holders, Swap(h) PROVE Counting'
  BY <1>29 DEF IInv, TypeOK, Counting, Swap, To, state, session, In, Counted, Places,
       nudges, Unheard, Owe
<1>30. ASSUME NEW h \in Holders, Release(h) PROVE Counting'
  <2>1. CASE place[h] = "hold"
    <3>1. h \in In /\ In' = In \ {h}
      BY <1>30, <2>1 DEF Release, To, In, Counted, IInv, TypeOK
    <3>2. suspended > 0
      BY <2>1, CountedIn DEF Counted
    <3>3. suspended' = suspended - 1
      BY <1>30, <2>1, <3>2 DEF Release, Fewer, IInv, TypeOK
    <3>4. Cardinality(In') = Cardinality(In) - 1
      BY <3>1, InFinite, FS_RemoveElement
    <3>5. QED
      BY <3>3, <3>4 DEF IInv, Counting
  <2>2. CASE place[h] # "hold"
    BY <1>30, <2>2 DEF Release, Holding, To, In, Counted, Counting, IInv, TypeOK
  <2>3. QED
    BY <2>1, <2>2
<1>31. CASE UNCHANGED vars
  BY <1>31 DEF IInv, TypeOK, Counting, In, Counted, Places, vars
<1>32. QED
  BY <1>1, <1>2, <1>3, <1>4, <1>5, <1>6, <1>7, <1>8, <1>9, <1>10, <1>11, <1>12, <1>13,
     <1>14, <1>15, <1>16, <1>17, <1>18, <1>19, <1>20, <1>21, <1>22, <1>23, <1>24, <1>25,
     <1>26, <1>27, <1>28, <1>29, <1>30, <1>31
     DEF Next, Thread, Outside, Tell, Hold

(* A session's helper does not outlive it.                                 *)
LEMMA SessionStep ==
    ASSUME IInv, [Next]_vars
    PROVE  Session'
<1>1. ASSUME Nudge PROVE Session'
  <2>1. CASE running' = running /\ at' = at /\ current' = current
    BY <1>1, <2>1, NudgeCases DEF IInv, TypeOK, Session
  <2>2. CASE ~(running' = running /\ at' = at /\ current' = current)
    <3>1. /\ ~running /\ suspended = 0
          /\ running' = TRUE /\ current' = TRUE /\ at' = "connect"
      BY <1>1, <2>2, NudgeCases
    <3>2. at = "none" /\ helper = "none" /\ ~child /\ ~doomed
      BY <3>1 DEF IInv, TypeOK, Session, Open, Steps
    <3>3. QED
      BY <1>1, <3>1, <3>2, NudgeCases DEF Session
  <2>3. QED
    BY <2>1, <2>2
<1>2. ASSUME Resolve PROVE Session'
  BY <1>2 DEF IInv, TypeOK, Session, Resolve, database, state, session, others, Open, Steps
<1>3. ASSUME StartupFires PROVE Session'
  BY <1>3 DEF IInv, TypeOK, Session, StartupFires, Owe, database, session, others, Open,
       Steps
<1>4. ASSUME Kill PROVE Session'
  BY <1>4 DEF IInv, TypeOK, Session, Kill, database, state, others, Open, Steps, nudges
<1>5. ASSUME Connect PROVE Session'
  BY <1>5 DEF IInv, TypeOK, Session, Connect, Aside, database, others, Open, Steps, nudges
<1>6. ASSUME Top PROVE Session'
  BY <1>6 DEF IInv, TypeOK, Session, Top, Aside, Valid, database, others, Open, Steps,
       nudges
<1>7. ASSUME Query PROVE Session'
  BY <1>7 DEF IInv, TypeOK, Session, Query, Aside, database, others, Open, Steps, nudges,
       TurnOver
<1>8. ASSUME Engine PROVE Session'
  BY <1>8 DEF IInv, TypeOK, Session, Engine, Aside, Valid, database, others, Open, Steps,
       nudges, TurnOver
<1>9. ASSUME Ask PROVE Session'
  BY <1>9 DEF IInv, TypeOK, Session, Ask, Aside, database, others, Open, Steps, nudges
<1>10. ASSUME Save PROVE Session'
  BY <1>10 DEF IInv, TypeOK, Session, Save, Aside, MaySave, Valid, database, others, Open,
       Steps, nudges, TurnOver
<1>11. ASSUME Write PROVE Session'
  BY <1>11 DEF IInv, TypeOK, Session, Write, Aside, Outcome, database, others, Open, Steps,
       nudges, TurnOver
<1>12. ASSUME Close PROVE Session'
  BY <1>12 DEF IInv, TypeOK, Session, Close, Aside, database, others, Open, Steps, nudges
<1>13. ASSUME Finish PROVE Session'
  BY <1>13 DEF IInv, TypeOK, Session, Finish, database, Open, Steps, nudges, TurnOver
<1>14. ASSUME NEW again \in BOOLEAN, Notify(again) PROVE Session'
  BY <1>14 DEF IInv, TypeOK, Session, Notify, Listening, database, state, session, Open,
       Steps
<1>15. ASSUME NEW i \in Images, Store(i) PROVE Session'
  BY <1>15 DEF IInv, TypeOK, Session, Store, Owe, state, session, others, Open, Steps,
       nudges
<1>16. ASSUME NEW i \in Images, Prioritize(i) PROVE Session'
  BY <1>16 DEF IInv, TypeOK, Session, Prioritize, Owe, database, session, others, Open,
       Steps
<1>17. ASSUME SettingsChanged PROVE Session'
  BY <1>17 DEF IInv, TypeOK, Session, SettingsChanged, Invalidate, Owe, database, others,
       Open, Steps
<1>18. ASSUME NEW h \in Holders, Suspend(h) PROVE Session'
  BY <1>18 DEF IInv, TypeOK, Session, Suspend, To, database, state, session, Open, Steps,
       nudges
<1>19. ASSUME NEW h \in Holders, Resolving(h) PROVE Session'
  BY <1>19 DEF IInv, TypeOK, Session, Resolving, To, database, state, session, Open, Steps,
       nudges
<1>20. ASSUME NEW h \in Holders, Count(h) PROVE Session'
  BY <1>20 DEF IInv, TypeOK, Session, Count, To, database, state, session, Open, Steps,
       nudges
<1>21. ASSUME NEW h \in Holders, Stop(h) PROVE Session'
  BY <1>21 DEF IInv, TypeOK, Session, Stop, To, database, session, Open, Steps, nudges
<1>22. ASSUME NEW h \in Holders, Change(h) PROVE Session'
  BY <1>22 DEF IInv, TypeOK, Session, Change, Holding, state, session, others, Open, Steps,
       nudges, Unheard
<1>23. ASSUME NEW h \in Holders, Toggle(h) PROVE Session'
  BY <1>23 DEF IInv, TypeOK, Session, Toggle, Holding, To, Owe, database, state, session,
       Open, Steps
<1>24. ASSUME NEW h \in Holders, TakeSerial(h) PROVE Session'
  BY <1>24 DEF IInv, TypeOK, Session, TakeSerial, Holding, To, database, state, session,
       Open, Steps, nudges
<1>25. ASSUME NEW h \in Holders, Bump(h) PROVE Session'
  BY <1>25 DEF IInv, TypeOK, Session, Bump, Invalidate, To, database, Open, Steps, nudges
<1>26. ASSUME NEW h \in Holders, Look(h) PROVE Session'
  BY <1>26 DEF IInv, TypeOK, Session, Look, To, database, state, session, Open, Steps,
       nudges
<1>27. ASSUME NEW h \in Holders, Sleep(h) PROVE Session'
  BY <1>27 DEF IInv, TypeOK, Session, Sleep, To, database, state, session, Open, Steps,
       nudges
<1>28. ASSUME NEW h \in Holders, Wake(h) PROVE Session'
  BY <1>28 DEF IInv, TypeOK, Session, Wake, To, Told, database, state, session, Open,
       Steps, nudges
<1>29. ASSUME NEW h \in Holders, Swap(h) PROVE Session'
  BY <1>29 DEF IInv, TypeOK, Session, Swap, To, state, session, Open, Steps, nudges,
       Unheard, Owe
<1>30. ASSUME NEW h \in Holders, Release(h) PROVE Session'
  BY <1>30 DEF IInv, TypeOK, Session, Release, Holding, To, Fewer, database, session, Open,
       Steps
<1>31. CASE UNCHANGED vars
  BY <1>31 DEF IInv, TypeOK, Session, Open, Steps, vars
<1>32. QED
  BY <1>1, <1>2, <1>3, <1>4, <1>5, <1>6, <1>7, <1>8, <1>9, <1>10, <1>11, <1>12, <1>13,
     <1>14, <1>15, <1>16, <1>17, <1>18, <1>19, <1>20, <1>21, <1>22, <1>23, <1>24, <1>25,
     <1>26, <1>27, <1>28, <1>29, <1>30, <1>31
     DEF Next, Thread, Outside, Tell, Hold

(* Nobody starts a session under one who holds the suspension.             *)
LEMMA StillStep ==
    ASSUME IInv, [Next]_vars
    PROVE  Still'
<1>1. ASSUME Nudge PROVE Still'
  <2>1. CASE running' = running /\ at' = at /\ current' = current
    BY <1>1, <2>1, NudgeCases DEF IInv, TypeOK, Still
  <2>2. CASE ~(running' = running /\ at' = at /\ current' = current)
    <3>1. /\ ~running /\ suspended = 0
          /\ running' = TRUE /\ current' = TRUE /\ at' = "connect"
      BY <1>1, <2>2, NudgeCases
    <3>2. \A h \in Holders : place[h] \notin Counted
      BY <3>1, CountedIn
    <3>3. QED
      BY <1>1, <3>2, NudgeCases DEF Still, Counted
  <2>3. QED
    BY <2>1, <2>2
<1>2. ASSUME Resolve PROVE Still'
  BY <1>2 DEF IInv, TypeOK, Session, Still, Resolve, database, state, session, others
<1>3. ASSUME StartupFires PROVE Still'
  BY <1>3 DEF IInv, TypeOK, Session, Still, StartupFires, Owe, database, session, others
<1>4. ASSUME Kill PROVE Still'
  BY <1>4 DEF IInv, TypeOK, Session, Still, Kill, database, state, others, nudges
<1>5. ASSUME Connect PROVE Still'
  BY <1>5 DEF IInv, TypeOK, Session, Still, Connect, Aside, database, others, nudges
<1>6. ASSUME Top PROVE Still'
  BY <1>6 DEF IInv, TypeOK, Session, Still, Top, Aside, Valid, database, others, nudges
<1>7. ASSUME Query PROVE Still'
  BY <1>7 DEF IInv, TypeOK, Session, Still, Query, Aside, database, others, nudges,
       TurnOver
<1>8. ASSUME Engine PROVE Still'
  BY <1>8 DEF IInv, TypeOK, Session, Still, Engine, Aside, Valid, database, others, nudges,
       TurnOver
<1>9. ASSUME Ask PROVE Still'
  BY <1>9 DEF IInv, TypeOK, Session, Still, Ask, Aside, database, others, nudges
<1>10. ASSUME Save PROVE Still'
  BY <1>10 DEF IInv, TypeOK, Session, Still, Save, Aside, MaySave, Valid, database, others,
       nudges, TurnOver
<1>11. ASSUME Write PROVE Still'
  BY <1>11 DEF IInv, TypeOK, Session, Still, Write, Aside, Outcome, database, others,
       nudges, TurnOver
<1>12. ASSUME Close PROVE Still'
  BY <1>12 DEF IInv, TypeOK, Session, Still, Close, Aside, database, others, nudges
<1>13. ASSUME Finish PROVE Still'
  BY <1>13 DEF IInv, TypeOK, Session, Still, Finish, database, nudges, TurnOver
<1>14. ASSUME NEW again \in BOOLEAN, Notify(again) PROVE Still'
  BY <1>14 DEF IInv, TypeOK, Session, Still, Notify, Listening, database, state, session
<1>15. ASSUME NEW i \in Images, Store(i) PROVE Still'
  BY <1>15 DEF IInv, TypeOK, Session, Still, Store, Owe, state, session, others, nudges
<1>16. ASSUME NEW i \in Images, Prioritize(i) PROVE Still'
  BY <1>16 DEF IInv, TypeOK, Session, Still, Prioritize, Owe, database, session, others
<1>17. ASSUME SettingsChanged PROVE Still'
  BY <1>17 DEF IInv, TypeOK, Session, Still, SettingsChanged, Invalidate, Owe, database,
       others
<1>18. ASSUME NEW h \in Holders, Suspend(h) PROVE Still'
  BY <1>18 DEF IInv, TypeOK, Session, Still, Suspend, To, database, state, session, nudges
<1>19. ASSUME NEW h \in Holders, Resolving(h) PROVE Still'
  BY <1>19 DEF IInv, TypeOK, Session, Still, Resolving, To, database, state, session,
       nudges
<1>20. ASSUME NEW h \in Holders, Count(h) PROVE Still'
  BY <1>20 DEF IInv, TypeOK, Session, Still, Count, To, database, state, session, nudges
<1>21. ASSUME NEW h \in Holders, Stop(h) PROVE Still'
  BY <1>21 DEF IInv, TypeOK, Session, Still, Stop, To, database, session, nudges
<1>22. ASSUME NEW h \in Holders, Change(h) PROVE Still'
  BY <1>22 DEF IInv, TypeOK, Session, Still, Change, Holding, state, session, others,
       nudges, Unheard
<1>23. ASSUME NEW h \in Holders, Toggle(h) PROVE Still'
  BY <1>23 DEF IInv, TypeOK, Session, Still, Toggle, Holding, To, Owe, database, state,
       session
<1>24. ASSUME NEW h \in Holders, TakeSerial(h) PROVE Still'
  BY <1>24 DEF IInv, TypeOK, Session, Still, TakeSerial, Holding, To, database, state,
       session, nudges
<1>25. ASSUME NEW h \in Holders, Bump(h) PROVE Still'
  BY <1>25 DEF IInv, TypeOK, Session, Still, Bump, Invalidate, To, database, nudges
<1>26. ASSUME NEW h \in Holders, Look(h) PROVE Still'
  BY <1>26 DEF IInv, TypeOK, Session, Still, Look, To, database, state, session, nudges
<1>27. ASSUME NEW h \in Holders, Sleep(h) PROVE Still'
  BY <1>27 DEF IInv, TypeOK, Session, Still, Sleep, To, database, state, session, nudges
<1>28. ASSUME NEW h \in Holders, Wake(h) PROVE Still'
  BY <1>28 DEF IInv, TypeOK, Session, Still, Wake, To, Told, database, state, session,
       nudges
<1>29. ASSUME NEW h \in Holders, Swap(h) PROVE Still'
  BY <1>29 DEF IInv, TypeOK, Session, Still, Swap, To, state, session, nudges, Unheard, Owe
<1>30. ASSUME NEW h \in Holders, Release(h) PROVE Still'
  BY <1>30 DEF IInv, TypeOK, Session, Still, Release, Holding, To, Fewer, database, session
<1>31. CASE UNCHANGED vars
  BY <1>31 DEF IInv, TypeOK, Session, Still, vars
<1>32. QED
  BY <1>1, <1>2, <1>3, <1>4, <1>5, <1>6, <1>7, <1>8, <1>9, <1>10, <1>11, <1>12, <1>13,
     <1>14, <1>15, <1>16, <1>17, <1>18, <1>19, <1>20, <1>21, <1>22, <1>23, <1>24, <1>25,
     <1>26, <1>27, <1>28, <1>29, <1>30, <1>31
     DEF Next, Thread, Outside, Tell, Hold

(* Who is killed was invalid, and stays so until its session is over.      *)
LEMMA StaleStep ==
    ASSUME IInv, [Next]_vars
    PROVE  Stale'
<1>1. ASSUME Nudge PROVE Stale'
  <2>1. CASE running' = running /\ at' = at /\ current' = current
    BY <1>1, <2>1, NudgeCases DEF IInv, TypeOK, Stale
  <2>2. CASE ~(running' = running /\ at' = at /\ current' = current)
    <3>1. /\ ~running /\ suspended = 0
          /\ running' = TRUE /\ current' = TRUE /\ at' = "connect"
      BY <1>1, <2>2, NudgeCases
    <3>2. at = "none" /\ helper = "none" /\ ~child /\ ~doomed
      BY <3>1 DEF IInv, TypeOK, Session, Open, Steps
    <3>3. QED
      BY <1>1, <3>2, NudgeCases DEF IInv, Stale
  <2>3. QED
    BY <2>1, <2>2
<1>2. ASSUME Resolve PROVE Stale'
  BY <1>2 DEF IInv, TypeOK, Session, Stale, Resolve, database, state, session, others,
       Open, Steps
<1>3. ASSUME StartupFires PROVE Stale'
  BY <1>3 DEF IInv, TypeOK, Session, Stale, StartupFires, Owe, database, session, others,
       Open, Steps
<1>4. ASSUME Kill PROVE Stale'
  BY <1>4 DEF IInv, TypeOK, Session, Stale, Kill, database, state, others, Open, Steps,
       nudges
<1>5. ASSUME Connect PROVE Stale'
  BY <1>5 DEF IInv, TypeOK, Session, Stale, Connect, Aside, database, others, Open, Steps,
       nudges
<1>6. ASSUME Top PROVE Stale'
  BY <1>6 DEF IInv, TypeOK, Session, Stale, Top, Aside, Valid, database, others, Open,
       Steps, nudges
<1>7. ASSUME Query PROVE Stale'
  BY <1>7 DEF IInv, TypeOK, Session, Stale, Query, Aside, database, others, Open, Steps,
       nudges, TurnOver
<1>8. ASSUME Engine PROVE Stale'
  BY <1>8 DEF IInv, TypeOK, Session, Stale, Engine, Aside, Valid, database, others, Open,
       Steps, nudges, TurnOver
<1>9. ASSUME Ask PROVE Stale'
  BY <1>9 DEF IInv, TypeOK, Session, Stale, Ask, Aside, database, others, Open, Steps,
       nudges
<1>10. ASSUME Save PROVE Stale'
  BY <1>10 DEF IInv, TypeOK, Session, Stale, Save, Aside, MaySave, Valid, database, others,
       Open, Steps, nudges, TurnOver
<1>11. ASSUME Write PROVE Stale'
  BY <1>11 DEF IInv, TypeOK, Session, Stale, Write, Aside, Outcome, database, others, Open,
       Steps, nudges, TurnOver
<1>12. ASSUME Close PROVE Stale'
  BY <1>12 DEF IInv, TypeOK, Session, Stale, Close, Aside, database, others, Open, Steps,
       nudges
<1>13. ASSUME Finish PROVE Stale'
  BY <1>13 DEF IInv, TypeOK, Session, Stale, Finish, database, Open, Steps, nudges,
       TurnOver
<1>14. ASSUME NEW again \in BOOLEAN, Notify(again) PROVE Stale'
  BY <1>14 DEF IInv, TypeOK, Session, Stale, Notify, Listening, database, state, session,
       Open, Steps
<1>15. ASSUME NEW i \in Images, Store(i) PROVE Stale'
  BY <1>15 DEF IInv, TypeOK, Session, Stale, Store, Owe, state, session, others, Open,
       Steps, nudges
<1>16. ASSUME NEW i \in Images, Prioritize(i) PROVE Stale'
  BY <1>16 DEF IInv, TypeOK, Session, Stale, Prioritize, Owe, database, session, others,
       Open, Steps
<1>17. ASSUME SettingsChanged PROVE Stale'
  BY <1>17 DEF IInv, TypeOK, Session, Stale, SettingsChanged, Invalidate, Owe, database,
       others, Open, Steps
<1>18. ASSUME NEW h \in Holders, Suspend(h) PROVE Stale'
  BY <1>18 DEF IInv, TypeOK, Session, Stale, Suspend, To, database, state, session, Open,
       Steps, nudges
<1>19. ASSUME NEW h \in Holders, Resolving(h) PROVE Stale'
  BY <1>19 DEF IInv, TypeOK, Session, Stale, Resolving, To, database, state, session, Open,
       Steps, nudges
<1>20. ASSUME NEW h \in Holders, Count(h) PROVE Stale'
  BY <1>20 DEF IInv, TypeOK, Session, Stale, Count, To, database, state, session, Open,
       Steps, nudges
<1>21. ASSUME NEW h \in Holders, Stop(h) PROVE Stale'
  BY <1>21 DEF IInv, TypeOK, Session, Stale, Stop, To, database, session, Open, Steps,
       nudges
<1>22. ASSUME NEW h \in Holders, Change(h) PROVE Stale'
  BY <1>22 DEF IInv, TypeOK, Session, Stale, Change, Holding, state, session, others, Open,
       Steps, nudges, Unheard
<1>23. ASSUME NEW h \in Holders, Toggle(h) PROVE Stale'
  BY <1>23 DEF IInv, TypeOK, Session, Stale, Toggle, Holding, To, Owe, database, state,
       session, Open, Steps
<1>24. ASSUME NEW h \in Holders, TakeSerial(h) PROVE Stale'
  BY <1>24 DEF IInv, TypeOK, Session, Stale, TakeSerial, Holding, To, database, state,
       session, Open, Steps, nudges
<1>25. ASSUME NEW h \in Holders, Bump(h) PROVE Stale'
  BY <1>25 DEF IInv, TypeOK, Session, Stale, Bump, Invalidate, To, database, Open, Steps,
       nudges
<1>26. ASSUME NEW h \in Holders, Look(h) PROVE Stale'
  BY <1>26 DEF IInv, TypeOK, Session, Stale, Look, To, database, state, session, Open,
       Steps, nudges
<1>27. ASSUME NEW h \in Holders, Sleep(h) PROVE Stale'
  BY <1>27 DEF IInv, TypeOK, Session, Stale, Sleep, To, database, state, session, Open,
       Steps, nudges
<1>28. ASSUME NEW h \in Holders, Wake(h) PROVE Stale'
  BY <1>28 DEF IInv, TypeOK, Session, Stale, Wake, To, Told, database, state, session,
       Open, Steps, nudges
<1>29. ASSUME NEW h \in Holders, Swap(h) PROVE Stale'
  BY <1>29 DEF IInv, TypeOK, Session, Stale, Swap, To, state, session, Open, Steps, nudges,
       Unheard, Owe
<1>30. ASSUME NEW h \in Holders, Release(h) PROVE Stale'
  BY <1>30 DEF IInv, TypeOK, Session, Stale, Release, Holding, To, Fewer, database,
       session, Open, Steps
<1>31. CASE UNCHANGED vars
  BY <1>31 DEF IInv, TypeOK, Session, Stale, Open, Steps, vars
<1>32. QED
  BY <1>1, <1>2, <1>3, <1>4, <1>5, <1>6, <1>7, <1>8, <1>9, <1>10, <1>11, <1>12, <1>13,
     <1>14, <1>15, <1>16, <1>17, <1>18, <1>19, <1>20, <1>21, <1>22, <1>23, <1>24, <1>25,
     <1>26, <1>27, <1>28, <1>29, <1>30, <1>31
     DEF Next, Thread, Outside, Tell, Hold

(* Every outcome on its way to the database was given by this session.     *)
LEMMA ReadyStep ==
    ASSUME IInv, [Next]_vars
    PROVE  Ready' /\ NotCharged'
<1>1. ASSUME Nudge PROVE Ready' /\ NotCharged'
  BY <1>1 DEF IInv, TypeOK, Session, Stale, Ready, NotCharged, Nudge, database, state,
       session, others, Marked, Open
<1>2. ASSUME Resolve PROVE Ready' /\ NotCharged'
  BY <1>2 DEF IInv, TypeOK, Session, Stale, Ready, NotCharged, Resolve, database, state,
       session, others, Open
<1>3. ASSUME StartupFires PROVE Ready' /\ NotCharged'
  BY <1>3 DEF IInv, TypeOK, Session, Stale, Ready, NotCharged, StartupFires, Owe, database,
       session, others, Open
<1>4. ASSUME Kill PROVE Ready' /\ NotCharged'
  BY <1>4 DEF IInv, TypeOK, Session, Stale, Ready, NotCharged, Kill, database, state,
       others, Open, nudges
<1>5. ASSUME Connect PROVE Ready' /\ NotCharged'
  BY <1>5 DEF IInv, TypeOK, Session, Stale, Ready, NotCharged, Connect, Aside, database,
       others, Open, nudges
<1>6. ASSUME Top PROVE Ready' /\ NotCharged'
  BY <1>6 DEF IInv, TypeOK, Session, Stale, Ready, NotCharged, Top, Aside, Valid, database,
       others, Open, nudges
<1>7. ASSUME Query PROVE Ready' /\ NotCharged'
  BY <1>7 DEF IInv, TypeOK, Session, Stale, Ready, NotCharged, Query, Aside, database,
       others, Open, nudges, TurnOver
<1>8. ASSUME Engine PROVE Ready' /\ NotCharged'
  BY <1>8 DEF IInv, TypeOK, Session, Stale, Ready, NotCharged, Engine, Aside, Valid,
       database, others, Open, nudges, TurnOver
<1>9. ASSUME Ask PROVE Ready' /\ NotCharged'
  BY <1>9 DEF IInv, TypeOK, Session, Stale, Ready, NotCharged, Ask, Aside, database,
       others, Open, nudges
<1>10. ASSUME Save PROVE Ready' /\ NotCharged'
  BY <1>10 DEF IInv, TypeOK, Session, Stale, Ready, NotCharged, Save, Aside, MaySave,
       Valid, database, others, Open, nudges, TurnOver
<1>11. ASSUME Write PROVE Ready' /\ NotCharged'
  BY <1>11 DEF IInv, TypeOK, Session, Stale, Ready, NotCharged, Write, Aside, Outcome,
       database, others, Open, nudges, TurnOver
<1>12. ASSUME Close PROVE Ready' /\ NotCharged'
  BY <1>12 DEF IInv, TypeOK, Session, Stale, Ready, NotCharged, Close, Aside, database,
       others, Open, nudges
<1>13. ASSUME Finish PROVE Ready' /\ NotCharged'
  BY <1>13 DEF IInv, TypeOK, Session, Stale, Ready, NotCharged, Finish, database, Open,
       nudges, TurnOver
<1>14. ASSUME NEW again \in BOOLEAN, Notify(again) PROVE Ready' /\ NotCharged'
  BY <1>14 DEF IInv, TypeOK, Session, Stale, Ready, NotCharged, Notify, Listening,
       database, state, session, Open
<1>15. ASSUME NEW i \in Images, Store(i) PROVE Ready' /\ NotCharged'
  BY <1>15 DEF IInv, TypeOK, Session, Stale, Ready, NotCharged, Store, Owe, state, session,
       others, Open, nudges
<1>16. ASSUME NEW i \in Images, Prioritize(i) PROVE Ready' /\ NotCharged'
  BY <1>16 DEF IInv, TypeOK, Session, Stale, Ready, NotCharged, Prioritize, Owe, database,
       session, others, Open
<1>17. ASSUME SettingsChanged PROVE Ready' /\ NotCharged'
  BY <1>17 DEF IInv, TypeOK, Session, Stale, Ready, NotCharged, SettingsChanged,
       Invalidate, Owe, database, others, Open
<1>18. ASSUME NEW h \in Holders, Suspend(h) PROVE Ready' /\ NotCharged'
  BY <1>18 DEF IInv, TypeOK, Session, Stale, Ready, NotCharged, Suspend, To, database,
       state, session, Open, nudges
<1>19. ASSUME NEW h \in Holders, Resolving(h) PROVE Ready' /\ NotCharged'
  BY <1>19 DEF IInv, TypeOK, Session, Stale, Ready, NotCharged, Resolving, To, database,
       state, session, Open, nudges
<1>20. ASSUME NEW h \in Holders, Count(h) PROVE Ready' /\ NotCharged'
  BY <1>20 DEF IInv, TypeOK, Session, Stale, Ready, NotCharged, Count, To, database, state,
       session, Open, nudges
<1>21. ASSUME NEW h \in Holders, Stop(h) PROVE Ready' /\ NotCharged'
  BY <1>21 DEF IInv, TypeOK, Session, Stale, Ready, NotCharged, Stop, To, database,
       session, Open, nudges
<1>22. ASSUME NEW h \in Holders, Change(h) PROVE Ready' /\ NotCharged'
  BY <1>22 DEF IInv, TypeOK, Session, Stale, Ready, NotCharged, Change, Holding, state,
       session, others, Open, nudges, Unheard
<1>23. ASSUME NEW h \in Holders, Toggle(h) PROVE Ready' /\ NotCharged'
  BY <1>23 DEF IInv, TypeOK, Session, Stale, Ready, NotCharged, Toggle, Holding, To, Owe,
       database, state, session, Open
<1>24. ASSUME NEW h \in Holders, TakeSerial(h) PROVE Ready' /\ NotCharged'
  BY <1>24 DEF IInv, TypeOK, Session, Stale, Ready, NotCharged, TakeSerial, Holding, To,
       database, state, session, Open, nudges
<1>25. ASSUME NEW h \in Holders, Bump(h) PROVE Ready' /\ NotCharged'
  BY <1>25 DEF IInv, TypeOK, Session, Stale, Ready, NotCharged, Bump, Invalidate, To,
       database, Open, nudges
<1>26. ASSUME NEW h \in Holders, Look(h) PROVE Ready' /\ NotCharged'
  BY <1>26 DEF IInv, TypeOK, Session, Stale, Ready, NotCharged, Look, To, database, state,
       session, Open, nudges
<1>27. ASSUME NEW h \in Holders, Sleep(h) PROVE Ready' /\ NotCharged'
  BY <1>27 DEF IInv, TypeOK, Session, Stale, Ready, NotCharged, Sleep, To, database, state,
       session, Open, nudges
<1>28. ASSUME NEW h \in Holders, Wake(h) PROVE Ready' /\ NotCharged'
  BY <1>28 DEF IInv, TypeOK, Session, Stale, Ready, NotCharged, Wake, To, Told, database,
       state, session, Open, nudges
<1>29. ASSUME NEW h \in Holders, Swap(h) PROVE Ready' /\ NotCharged'
  BY <1>29 DEF IInv, TypeOK, Session, Stale, Ready, NotCharged, Swap, To, state, session,
       Open, nudges, Unheard, Owe
<1>30. ASSUME NEW h \in Holders, Release(h) PROVE Ready' /\ NotCharged'
  BY <1>30 DEF IInv, TypeOK, Session, Stale, Ready, NotCharged, Release, Holding, To,
       Fewer, database, session, Open
<1>31. CASE UNCHANGED vars
  BY <1>31 DEF IInv, TypeOK, Session, Stale, Ready, NotCharged, Open, vars
<1>32. QED
  BY <1>1, <1>2, <1>3, <1>4, <1>5, <1>6, <1>7, <1>8, <1>9, <1>10, <1>11, <1>12, <1>13,
     <1>14, <1>15, <1>16, <1>17, <1>18, <1>19, <1>20, <1>21, <1>22, <1>23, <1>24, <1>25,
     <1>26, <1>27, <1>28, <1>29, <1>30, <1>31
     DEF Next, Thread, Outside, Tell, Hold

(* A session that ends leaves a mark, a nudge on its way or nothing to do. *)
LEMMA DueStep ==
    ASSUME IInv, [Next]_vars
    PROVE  Due'
<1>1. ASSUME Nudge PROVE Due'
  BY <1>1, NudgeCases DEF IInv, TypeOK, Session, Due, Left, Queued, Pending, Wanted
<1>2. ASSUME Resolve PROVE Due'
  BY <1>2 DEF IInv, TypeOK, Session, Due, Resolve, database, state, session, others, Left,
       Queued, MaxOwed, Pending, Wanted
<1>3. ASSUME StartupFires PROVE Due'
  BY <1>3 DEF IInv, TypeOK, Session, Due, StartupFires, Owe, database, session, others,
       Left, Queued, MaxOwed, Pending, Wanted
<1>4. ASSUME Kill PROVE Due'
  BY <1>4 DEF IInv, TypeOK, Session, Due, Kill, database, state, others, Left, Queued,
       MaxOwed, nudges, Pending, Wanted
<1>5. ASSUME Connect PROVE Due'
  BY <1>5 DEF IInv, TypeOK, Session, Due, Connect, Aside, database, others, Left, Queued,
       MaxOwed, nudges, Pending, Wanted
<1>6. ASSUME Top PROVE Due'
  BY <1>6 DEF IInv, TypeOK, Session, Due, Top, Aside, Valid, database, others, Left,
       Queued, MaxOwed, nudges, Pending, Wanted
<1>7. ASSUME Query PROVE Due'
  <2>1. /\ at = "query" /\ running /\ running' = running /\ current' = current
        /\ enabled' = enabled /\ stopped' = stopped /\ owed' = owed
        /\ suspended' = suspended /\ unsaid' = unsaid /\ text' = text /\ tries' = tries
    BY <1>7 DEF Query, Aside, database, nudges, others, IInv, Session
  <2>2. CASE at' = "close" /\ ~broken'
    <3>1. /\ ~asked /\ \A i \in Images : ~Queued(i)
          /\ ~(dirty /\ current) /\ dirty' = dirty /\ priority' = priority
      BY <1>7, <2>2 DEF Query
    <3>2. ~current => (enabled /\ ~stopped => Left)
      BY <2>1 DEF IInv, Due
    <3>3. Pending' => priority # Nobody
      BY <2>1, <3>1, NobodyAssumption DEF Pending, Queued, Wanted
    <3>4. priority # Nobody => (enabled /\ ~stopped => Left)
      BY <2>1, <3>1 DEF IInv, Due
    <3>5. Left => Left'
      BY <2>1, <3>1 DEF Left
    <3>6. QED
      BY <2>1, <2>2, <3>2, <3>3, <3>4, <3>5 DEF Due
  <2>3. CASE ~(at' = "close" /\ ~broken')
    <3>1. at' \notin {"query", "finish"}
      BY <1>7 DEF Query
    <3>2. ~current => dirty' = dirty
      BY <1>7 DEF Query
    <3>3. Left /\ ~current => Left'
      BY <2>1, <3>2 DEF Left
    <3>4. QED
      BY <2>1, <2>3, <3>1, <3>3 DEF IInv, Due
  <2>4. QED
    BY <2>2, <2>3
<1>8. ASSUME Engine PROVE Due'
  BY <1>8 DEF IInv, TypeOK, Session, Due, Engine, Aside, Valid, database, others, Left,
       Queued, MaxOwed, nudges, TurnOver, Pending, Wanted
<1>9. ASSUME Ask PROVE Due'
  BY <1>9 DEF IInv, TypeOK, Session, Due, Ask, Aside, database, others, Left, Queued,
       MaxOwed, nudges, Pending, Wanted
<1>10. ASSUME Save PROVE Due'
  BY <1>10 DEF IInv, TypeOK, Session, Due, Save, Aside, MaySave, Valid, database, others,
       Left, Queued, MaxOwed, nudges, TurnOver, Pending, Wanted
<1>11. ASSUME Write PROVE Due'
  BY <1>11 DEF IInv, TypeOK, Session, Due, Write, Aside, Outcome, database, others, Left,
       Queued, MaxOwed, nudges, TurnOver, Pending, Wanted
<1>12. ASSUME Close PROVE Due'
  BY <1>12 DEF IInv, TypeOK, Session, Due, Close, Aside, database, others, Left, Queued,
       MaxOwed, nudges, Pending, Wanted
<1>13. ASSUME Finish PROVE Due'
  BY <1>13 DEF IInv, TypeOK, Session, Due, Finish, database, Left, Queued, MaxOwed, nudges,
       TurnOver, Pending, Wanted
<1>14. ASSUME NEW again \in BOOLEAN, Notify(again) PROVE Due'
  BY <1>14 DEF IInv, TypeOK, Session, Due, Notify, Listening, database, state, session,
       Left, Queued, MaxOwed, Pending, Wanted
<1>15. ASSUME NEW i \in Images, Store(i) PROVE Due'
  BY <1>15 DEF IInv, TypeOK, Session, Due, Store, Owe, state, session, others, Left,
       Queued, MaxOwed, nudges, Pending, Wanted
<1>16. ASSUME NEW i \in Images, Prioritize(i) PROVE Due'
  BY <1>16 DEF IInv, TypeOK, Session, Due, Prioritize, Owe, database, session, others,
       Left, Queued, MaxOwed, Pending, Wanted
<1>17. ASSUME SettingsChanged PROVE Due'
  BY <1>17 DEF IInv, TypeOK, Session, Due, SettingsChanged, Invalidate, Owe, database,
       others, Left, Queued, MaxOwed, Pending, Wanted
<1>18. ASSUME NEW h \in Holders, Suspend(h) PROVE Due'
  BY <1>18 DEF IInv, TypeOK, Session, Due, Suspend, To, database, state, session, Left,
       Queued, MaxOwed, nudges, Pending, Wanted
<1>19. ASSUME NEW h \in Holders, Resolving(h) PROVE Due'
  BY <1>19 DEF IInv, TypeOK, Session, Due, Resolving, To, database, state, session, Left,
       Queued, MaxOwed, nudges, Pending, Wanted
<1>20. ASSUME NEW h \in Holders, Count(h) PROVE Due'
  BY <1>20 DEF IInv, TypeOK, Session, Due, Count, To, database, state, session, Left,
       Queued, MaxOwed, nudges, Pending, Wanted
<1>21. ASSUME NEW h \in Holders, Stop(h) PROVE Due'
  BY <1>21 DEF IInv, TypeOK, Session, Due, Stop, To, database, session, Left, Queued,
       MaxOwed, nudges, Pending, Wanted
<1>22. ASSUME NEW h \in Holders, Change(h) PROVE Due'
  BY <1>22, CountedIn DEF IInv, TypeOK, Session, Due, Change, Holding, state, session,
       others, Left, Queued, MaxOwed, Counted, nudges, Unheard, Pending, Wanted
<1>23. ASSUME NEW h \in Holders, Toggle(h) PROVE Due'
  BY <1>23 DEF IInv, TypeOK, Session, Due, Toggle, Holding, To, Owe, database, state,
       session, Left, Queued, MaxOwed, Pending, Wanted
<1>24. ASSUME NEW h \in Holders, TakeSerial(h) PROVE Due'
  BY <1>24 DEF IInv, TypeOK, Session, Due, TakeSerial, Holding, To, database, state,
       session, Left, Queued, MaxOwed, nudges, Pending, Wanted
<1>25. ASSUME NEW h \in Holders, Bump(h) PROVE Due'
  BY <1>25, CountedIn DEF IInv, TypeOK, Session, Due, Bump, Invalidate, To, database, Left,
       Queued, MaxOwed, Counted, nudges, Pending, Wanted
<1>26. ASSUME NEW h \in Holders, Look(h) PROVE Due'
  BY <1>26 DEF IInv, TypeOK, Session, Due, Look, To, database, state, session, Left,
       Queued, MaxOwed, nudges, Pending, Wanted
<1>27. ASSUME NEW h \in Holders, Sleep(h) PROVE Due'
  BY <1>27 DEF IInv, TypeOK, Session, Due, Sleep, To, database, state, session, Left,
       Queued, MaxOwed, nudges, Pending, Wanted
<1>28. ASSUME NEW h \in Holders, Wake(h) PROVE Due'
  BY <1>28 DEF IInv, TypeOK, Session, Due, Wake, To, Told, database, state, session, Left,
       Queued, MaxOwed, nudges, Pending, Wanted
<1>29. ASSUME NEW h \in Holders, Swap(h) PROVE Due'
  BY <1>29, CountedIn DEF IInv, TypeOK, Session, Due, Swap, To, state, session, Left,
       Queued, MaxOwed, Counted, nudges, Unheard, Owe, Pending, Wanted
<1>30. ASSUME NEW h \in Holders, Release(h) PROVE Due'
  BY <1>30 DEF IInv, TypeOK, Session, Due, Release, Holding, To, Fewer, database, session,
       Left, Queued, MaxOwed, Pending, Wanted
<1>31. CASE UNCHANGED vars
  BY <1>31 DEF IInv, TypeOK, Session, Due, Left, Queued, MaxOwed, vars, Pending, Wanted
<1>32. QED
  BY <1>1, <1>2, <1>3, <1>4, <1>5, <1>6, <1>7, <1>8, <1>9, <1>10, <1>11, <1>12, <1>13,
     <1>14, <1>15, <1>16, <1>17, <1>18, <1>19, <1>20, <1>21, <1>22, <1>23, <1>24, <1>25,
     <1>26, <1>27, <1>28, <1>29, <1>30, <1>31
     DEF Next, Thread, Outside, Tell, Hold

(* The end of a session is where a wake-up could be lost.                  *)
LEMMA WakeStep ==
    ASSUME IInv, [Next]_vars
    PROVE  NoLostWake'
<1>1. ASSUME Nudge PROVE NoLostWake'
  <2>1. CASE ~enabled \/ stopped
    BY <1>1, <2>1, NudgeCases DEF NoLostWake
  <2>2. CASE running \/ suspended # 0
    <3>1. running' = running /\ suspended' = suspended
      BY <1>1, <2>2, NudgeCases
    <3>2. suspended # 0 => suspended > 0
      BY DEF IInv, TypeOK
    <3>3. QED
      BY <2>2, <3>1, <3>2 DEF NoLostWake
  <2>3. CASE running' \/ broken'
    BY <2>3 DEF NoLostWake
  <2>4. QED
    BY <1>1, <2>1, <2>2, <2>3, NudgeCases
<1>2. ASSUME Resolve PROVE NoLostWake'
  BY <1>2 DEF IInv, TypeOK, NoLostWake, Resolve, database, state, session, others, Pending,
       Queued, Wanted
<1>3. ASSUME StartupFires PROVE NoLostWake'
  <2>1. owed' > 0
    BY <1>3 DEF StartupFires, Owe, IInv, TypeOK, MaxOwed
  <2>2. QED
    BY <2>1 DEF NoLostWake
<1>4. ASSUME Kill PROVE NoLostWake'
  BY <1>4 DEF IInv, TypeOK, Session, Due, NoLostWake, Kill, database, state, others, Left,
       Queued, MaxOwed, MaxEnding, nudges, Pending, Wanted
<1>5. ASSUME Connect PROVE NoLostWake'
  BY <1>5 DEF IInv, TypeOK, Session, Due, NoLostWake, Connect, Aside, database, others,
       Left, Queued, MaxOwed, MaxEnding, nudges, Pending, Wanted
<1>6. ASSUME Top PROVE NoLostWake'
  BY <1>6 DEF IInv, TypeOK, Session, Due, NoLostWake, Top, Aside, Valid, database, others,
       Left, Queued, MaxOwed, MaxEnding, nudges, Pending, Wanted
<1>7. ASSUME Query PROVE NoLostWake'
  BY <1>7 DEF IInv, TypeOK, Session, Due, NoLostWake, Query, Aside, database, others, Left,
       Queued, MaxOwed, MaxEnding, nudges, TurnOver, Pending, Wanted
<1>8. ASSUME Engine PROVE NoLostWake'
  BY <1>8 DEF IInv, TypeOK, Session, Due, NoLostWake, Engine, Aside, Valid, database,
       others, Left, Queued, MaxOwed, MaxEnding, nudges, TurnOver, Pending, Wanted
<1>9. ASSUME Ask PROVE NoLostWake'
  BY <1>9 DEF IInv, TypeOK, Session, Due, NoLostWake, Ask, Aside, database, others, Left,
       Queued, MaxOwed, MaxEnding, nudges, Pending, Wanted
<1>10. ASSUME Save PROVE NoLostWake'
  BY <1>10 DEF IInv, TypeOK, Session, Due, NoLostWake, Save, Aside, MaySave, Valid,
       database, others, Left, Queued, MaxOwed, MaxEnding, nudges, TurnOver, Pending,
       Wanted
<1>11. ASSUME Write PROVE NoLostWake'
  BY <1>11 DEF IInv, TypeOK, Session, Due, NoLostWake, Write, Aside, Outcome, database,
       others, Left, Queued, MaxOwed, MaxEnding, nudges, TurnOver, Pending, Wanted
<1>12. ASSUME Close PROVE NoLostWake'
  BY <1>12 DEF IInv, TypeOK, Session, Due, NoLostWake, Close, Aside, database, others,
       Left, Queued, MaxOwed, MaxEnding, nudges, Pending, Wanted
<1>13. ASSUME Finish PROVE NoLostWake'
  <2>1. /\ owed' = owed /\ startup' = startup /\ suspended' = suspended
        /\ text' = text /\ tries' = tries /\ enabled' = enabled /\ stopped' = stopped
        /\ broken' = broken /\ unsaid' = unsaid /\ priority' = priority /\ at = "finish"
    BY <1>13 DEF Finish, database, nudges, TurnOver
  <2>2. ASSUME dirty PROVE ending'[TRUE] > 0
    <3>1. dirty = TRUE
      BY <2>2 DEF IInv, TypeOK
    <3>2. ending' = [ending EXCEPT ![TRUE] = @ + 1]
      BY <1>13, <3>1 DEF Finish, nudges, TurnOver
    <3>3. ending[TRUE] \in 0 .. MaxEnding
      BY DEF IInv, TypeOK
    <3>4. ending'[TRUE] = ending[TRUE] + 1
      BY <3>2, Zenon DEF IInv, TypeOK
    <3>5. \A n \in 0 .. MaxEnding : n + 1 > 0
      BY DEF MaxEnding
    <3>6. QED
      BY <3>3, <3>4, <3>5, Zenon
  <2>3. QED
    BY <2>1, <2>2 DEF IInv, Due, Left, NoLostWake, Queued, Pending, Wanted
<1>14. ASSUME NEW again \in BOOLEAN, Notify(again) PROVE NoLostWake'
  <2>1. /\ running' = running /\ startup' = startup /\ suspended' = suspended
        /\ text' = text /\ tries' = tries /\ enabled' = enabled /\ stopped' = stopped
        /\ broken' = broken /\ unsaid' = unsaid /\ priority' = priority
    BY <1>14 DEF Notify, database, state
  <2>2. again => owed' > 0
    BY <1>14 DEF Notify, IInv, TypeOK, MaxOwed
  <2>3. ~again => owed' = owed /\ ending'[TRUE] = ending[TRUE]
    BY <1>14 DEF Notify, IInv, TypeOK
  <2>4. QED
    BY <2>1, <2>2, <2>3 DEF IInv, NoLostWake, Queued, Pending, Wanted
<1>15. ASSUME NEW i \in Images, Store(i) PROVE NoLostWake'
  <2>1. owed' > 0 \/ unsaid' = TRUE
    BY <1>15 DEF Store, Owe, IInv, TypeOK
  <2>2. QED
    BY <2>1 DEF NoLostWake
<1>16. ASSUME NEW i \in Images, Prioritize(i) PROVE NoLostWake'
  <2>1. owed' > 0
    BY <1>16 DEF Prioritize, Owe, IInv, TypeOK, MaxOwed
  <2>2. QED
    BY <2>1 DEF NoLostWake
<1>17. ASSUME SettingsChanged PROVE NoLostWake'
  <2>1. owed' > 0
    BY <1>17 DEF SettingsChanged, Owe, IInv, TypeOK, MaxOwed
  <2>2. QED
    BY <2>1 DEF NoLostWake
<1>18. ASSUME NEW h \in Holders, Suspend(h) PROVE NoLostWake'
  BY <1>18 DEF IInv, TypeOK, Session, Due, NoLostWake, Suspend, To, database, state,
       session, Left, Queued, MaxOwed, MaxEnding, nudges, Pending, Wanted
<1>19. ASSUME NEW h \in Holders, Resolving(h) PROVE NoLostWake'
  BY <1>19 DEF IInv, TypeOK, Session, Due, NoLostWake, Resolving, To, database, state,
       session, Left, Queued, MaxOwed, MaxEnding, nudges, Pending, Wanted
<1>20. ASSUME NEW h \in Holders, Count(h) PROVE NoLostWake'
  <2>1. suspended' > 0
    BY <1>20 DEF Count, IInv, TypeOK, nudges
  <2>2. QED
    BY <2>1 DEF NoLostWake
<1>21. ASSUME NEW h \in Holders, Stop(h) PROVE NoLostWake'
  BY <1>21 DEF IInv, TypeOK, Session, Due, NoLostWake, Stop, To, database, session, Left,
       Queued, MaxOwed, MaxEnding, nudges, Pending, Wanted
<1>22. ASSUME NEW h \in Holders, Change(h) PROVE NoLostWake'
  <2>1. /\ running' = running /\ suspended' = suspended /\ owed' = owed
        /\ startup' = startup /\ ending' = ending /\ enabled' = enabled
        /\ stopped' = stopped /\ broken' = broken /\ priority' = priority
    BY <1>22 DEF Change, state, session, nudges, others
  <2>2. CASE place[h] = "hold"
    <3>1. suspended > 0
      BY <2>2, CountedIn DEF Counted
    <3>2. QED
      BY <2>1, <3>1 DEF NoLostWake
  <2>3. CASE place[h] # "hold"
    <3>1. CASE unsaid' = (unsaid \/ Unheard(h))
      <4>1. place[h] = "noop"
        BY <1>22, <2>3 DEF Change, Holding
      <4>2. enabled => unsaid'
        BY <3>1, <4>1 DEF Unheard
      <4>3. QED
        BY <2>1, <4>2 DEF NoLostWake
    <3>2. CASE \E i \in Images : /\ text' = [text EXCEPT ![i] = "gone"]
                                 /\ tries' = [tries EXCEPT ![i] = 0]
                                 /\ unsaid' = unsaid
      <4>1. \A i \in Images : \/ text'[i] = "gone"
                              \/ text'[i] = text[i] /\ tries'[i] = tries[i]
        BY <3>2 DEF IInv, TypeOK
      <4>2. Pending' => Pending
        BY <2>1, <4>1 DEF Pending, Queued, Wanted
      <4>3. unsaid' = unsaid
        BY <3>2
      <4>4. QED
        BY <2>1, <4>2, <4>3 DEF IInv, NoLostWake
    <3>3. QED
      BY <1>22, <3>1, <3>2 DEF Change
  <2>4. QED
    BY <2>2, <2>3
<1>23. ASSUME NEW h \in Holders, Toggle(h) PROVE NoLostWake'
  <2>1. owed' > 0
    BY <1>23 DEF Toggle, Owe, IInv, TypeOK, MaxOwed
  <2>2. QED
    BY <2>1 DEF NoLostWake
<1>24. ASSUME NEW h \in Holders, TakeSerial(h) PROVE NoLostWake'
  BY <1>24 DEF IInv, TypeOK, Session, Due, NoLostWake, TakeSerial, Holding, To, database,
       state, session, Left, Queued, MaxOwed, MaxEnding, nudges, Pending, Wanted
<1>25. ASSUME NEW h \in Holders, Bump(h) PROVE NoLostWake'
  BY <1>25, CountedIn DEF IInv, TypeOK, Session, Due, NoLostWake, Bump, Invalidate, To,
       database, Left, Queued, MaxOwed, MaxEnding, Counted, nudges, Pending, Wanted
<1>26. ASSUME NEW h \in Holders, Look(h) PROVE NoLostWake'
  BY <1>26 DEF IInv, TypeOK, Session, Due, NoLostWake, Look, To, database, state, session,
       Left, Queued, MaxOwed, MaxEnding, nudges, Pending, Wanted
<1>27. ASSUME NEW h \in Holders, Sleep(h) PROVE NoLostWake'
  BY <1>27 DEF IInv, TypeOK, Session, Due, NoLostWake, Sleep, To, database, state, session,
       Left, Queued, MaxOwed, MaxEnding, nudges, Pending, Wanted
<1>28. ASSUME NEW h \in Holders, Wake(h) PROVE NoLostWake'
  BY <1>28 DEF IInv, TypeOK, Session, Due, NoLostWake, Wake, To, Told, database, state,
       session, Left, Queued, MaxOwed, MaxEnding, nudges, Pending, Wanted
<1>29. ASSUME NEW h \in Holders, Swap(h) PROVE NoLostWake'
  <2>1. suspended' = suspended /\ enabled' = enabled
    BY <1>29 DEF Swap, state
  <2>2. CASE place[h] = "swap"
    <3>1. suspended > 0
      BY <2>2, CountedIn DEF Counted
    <3>2. QED
      BY <2>1, <3>1 DEF NoLostWake
  <2>3. CASE place[h] = "noopSwap"
    <3>1. owed' > 0 \/ unsaid' = TRUE \/ ~enabled
      BY <1>29, <2>3 DEF Swap, Owe, Unheard, IInv, TypeOK
    <3>2. QED
      BY <2>1, <3>1 DEF NoLostWake
  <2>4. QED
    BY <1>29, <2>2, <2>3 DEF Swap
<1>30. ASSUME NEW h \in Holders, Release(h) PROVE NoLostWake'
  <2>1. CASE place[h] = "hold"
    <3>1. owed' > 0
      BY <1>30, <2>1 DEF Release, IInv, TypeOK, MaxOwed
    <3>2. QED
      BY <3>1 DEF NoLostWake
  <2>2. CASE place[h] # "hold"
    BY <1>30, <2>2 DEF Release, IInv, NoLostWake, Queued, database, session, Pending,
         Wanted
  <2>3. QED
    BY <2>1, <2>2
<1>31. CASE UNCHANGED vars
  BY <1>31 DEF IInv, TypeOK, Session, Due, NoLostWake, Left, Queued, MaxOwed, MaxEnding,
       vars, Pending, Wanted
<1>32. QED
  BY <1>1, <1>2, <1>3, <1>4, <1>5, <1>6, <1>7, <1>8, <1>9, <1>10, <1>11, <1>12, <1>13,
     <1>14, <1>15, <1>16, <1>17, <1>18, <1>19, <1>20, <1>21, <1>22, <1>23, <1>24, <1>25,
     <1>26, <1>27, <1>28, <1>29, <1>30, <1>31
     DEF Next, Thread, Outside, Tell, Hold

(* A task listens before it looks.                                         *)
LEMMA HeardStep ==
    ASSUME IInv, [Next]_vars
    PROVE  Heard'
<1>1. ASSUME Nudge PROVE Heard'
  BY <1>1, NudgeCases DEF IInv, TypeOK, Session, Heard
<1>2. ASSUME Resolve PROVE Heard'
  BY <1>2 DEF IInv, TypeOK, Session, Heard, Resolve, database, state, session, others
<1>3. ASSUME StartupFires PROVE Heard'
  BY <1>3 DEF IInv, TypeOK, Session, Heard, StartupFires, Owe, database, session, others
<1>4. ASSUME Kill PROVE Heard'
  BY <1>4 DEF IInv, TypeOK, Session, Heard, Kill, database, state, others, nudges
<1>5. ASSUME Connect PROVE Heard'
  BY <1>5 DEF IInv, TypeOK, Session, Heard, Connect, Aside, database, others, nudges
<1>6. ASSUME Top PROVE Heard'
  BY <1>6 DEF IInv, TypeOK, Session, Heard, Top, Aside, Valid, database, others, nudges
<1>7. ASSUME Query PROVE Heard'
  BY <1>7 DEF IInv, TypeOK, Session, Heard, Query, Aside, database, others, nudges,
       TurnOver
<1>8. ASSUME Engine PROVE Heard'
  BY <1>8 DEF IInv, TypeOK, Session, Heard, Engine, Aside, Valid, database, others, nudges,
       TurnOver
<1>9. ASSUME Ask PROVE Heard'
  BY <1>9 DEF IInv, TypeOK, Session, Heard, Ask, Aside, database, others, nudges
<1>10. ASSUME Save PROVE Heard'
  BY <1>10 DEF IInv, TypeOK, Session, Heard, Save, Aside, MaySave, Valid, database, others,
       nudges, TurnOver
<1>11. ASSUME Write PROVE Heard'
  BY <1>11 DEF IInv, TypeOK, Session, Heard, Write, Aside, Outcome, database, others,
       nudges, TurnOver
<1>12. ASSUME Close PROVE Heard'
  BY <1>12 DEF IInv, TypeOK, Session, Heard, Close, Aside, database, others, nudges
<1>13. ASSUME Finish PROVE Heard'
  BY <1>13 DEF IInv, TypeOK, Session, Heard, Finish, database, nudges, TurnOver
<1>14. ASSUME NEW again \in BOOLEAN, Notify(again) PROVE Heard'
  BY <1>14 DEF IInv, TypeOK, Session, Heard, Notify, Listening, database, state, session
<1>15. ASSUME NEW i \in Images, Store(i) PROVE Heard'
  BY <1>15 DEF IInv, TypeOK, Session, Heard, Store, Owe, state, session, others, nudges
<1>16. ASSUME NEW i \in Images, Prioritize(i) PROVE Heard'
  BY <1>16 DEF IInv, TypeOK, Session, Heard, Prioritize, Owe, database, session, others
<1>17. ASSUME SettingsChanged PROVE Heard'
  BY <1>17 DEF IInv, TypeOK, Session, Heard, SettingsChanged, Invalidate, Owe, database,
       others
<1>18. ASSUME NEW h \in Holders, Suspend(h) PROVE Heard'
  BY <1>18 DEF IInv, TypeOK, Session, Heard, Suspend, To, database, state, session, nudges
<1>19. ASSUME NEW h \in Holders, Resolving(h) PROVE Heard'
  BY <1>19 DEF IInv, TypeOK, Session, Heard, Resolving, To, database, state, session,
       nudges
<1>20. ASSUME NEW h \in Holders, Count(h) PROVE Heard'
  BY <1>20 DEF IInv, TypeOK, Session, Heard, Count, To, database, state, session, nudges
<1>21. ASSUME NEW h \in Holders, Stop(h) PROVE Heard'
  BY <1>21 DEF IInv, TypeOK, Session, Heard, Stop, To, database, session, nudges
<1>22. ASSUME NEW h \in Holders, Change(h) PROVE Heard'
  BY <1>22 DEF IInv, TypeOK, Session, Heard, Change, Holding, state, session, others,
       nudges, Unheard
<1>23. ASSUME NEW h \in Holders, Toggle(h) PROVE Heard'
  BY <1>23 DEF IInv, TypeOK, Session, Heard, Toggle, Holding, To, Owe, database, state,
       session
<1>24. ASSUME NEW h \in Holders, TakeSerial(h) PROVE Heard'
  BY <1>24 DEF IInv, TypeOK, Session, Heard, TakeSerial, Holding, To, database, state,
       session, nudges
<1>25. ASSUME NEW h \in Holders, Bump(h) PROVE Heard'
  BY <1>25 DEF IInv, TypeOK, Session, Heard, Bump, Invalidate, To, database, nudges
<1>26. ASSUME NEW h \in Holders, Look(h) PROVE Heard'
  BY <1>26 DEF IInv, TypeOK, Session, Heard, Look, To, database, state, session, nudges
<1>27. ASSUME NEW h \in Holders, Sleep(h) PROVE Heard'
  BY <1>27 DEF IInv, TypeOK, Session, Heard, Sleep, To, database, state, session, nudges
<1>28. ASSUME NEW h \in Holders, Wake(h) PROVE Heard'
  BY <1>28 DEF IInv, TypeOK, Session, Heard, Wake, To, Told, database, state, session,
       nudges
<1>29. ASSUME NEW h \in Holders, Swap(h) PROVE Heard'
  BY <1>29 DEF IInv, TypeOK, Session, Heard, Swap, To, state, session, nudges, Unheard, Owe
<1>30. ASSUME NEW h \in Holders, Release(h) PROVE Heard'
  BY <1>30 DEF IInv, TypeOK, Session, Heard, Release, Holding, To, Fewer, database, session
<1>31. CASE UNCHANGED vars
  BY <1>31 DEF IInv, TypeOK, Session, Heard, vars
<1>32. QED
  BY <1>1, <1>2, <1>3, <1>4, <1>5, <1>6, <1>7, <1>8, <1>9, <1>10, <1>11, <1>12, <1>13,
     <1>14, <1>15, <1>16, <1>17, <1>18, <1>19, <1>20, <1>21, <1>22, <1>23, <1>24, <1>25,
     <1>26, <1>27, <1>28, <1>29, <1>30, <1>31
     DEF Next, Thread, Outside, Tell, Hold

-----------------------------------------------------------------------------
LEMMA InitIInv == Init => IInv
<1> SUFFICES ASSUME Init PROVE IInv
  OBVIOUS
<1>1. In = {}
  BY DEF Init, In, Counted
<1>2. Cardinality(In) = 0 /\ Cardinality(Holders) \in Nat
  BY <1>1, HoldersAssumption, FS_EmptySet, FS_CardinalityType
<1>3. TypeOK
  <2>1. TypeData
    BY TriesAssumption DEF Init, TypeData, Texts
  <2>2. TypeFlags
    BY DEF Init, TypeFlags
  <2>3. TypeWork /\ TypeTasks
    BY DEF Init, TypeWork, TypeTasks, Steps, Places
  <2>4. TypeCounts /\ suspended \in 0 .. Cardinality(Holders)
    BY <1>2 DEF Init, TypeCounts, MaxOwed, MaxEnding
  <2>5. QED
    BY <2>1, <2>2, <2>3, <2>4, TypeParts
<1>4. Counting
  BY <1>2 DEF Init, Counting
<1>5. Session /\ Still /\ Stale /\ Ready /\ NotCharged /\ Due /\ Heard
  BY DEF Init, Session, Still, Stale, Ready, NotCharged, Due, Heard
<1>6. NoLostWake
  BY NobodyAssumption DEF Init, NoLostWake, Pending
<1>7. QED
  BY <1>3, <1>4, <1>5, <1>6 DEF IInv

LEMMA Inductive == Spec => []IInv
<1>1. ASSUME IInv, [Next]_vars PROVE IInv'
  <2>1. Counting' /\ In' \subseteq Holders
    BY <1>1, CountStep DEF In
  <2>2. suspended' \in 0 .. Cardinality(Holders)
    BY <2>1, CountBound DEF Counting
  <2>3. TypeData' /\ TypeFlags' /\ TypeWork' /\ TypeTasks' /\ TypeCounts'
    BY <1>1, DataStep, FlagsStep, WorkStep, TasksStep, BoundStep
  <2>4. TypeOK'
    BY <2>2, <2>3 DEF TypeOK, TypeData, TypeFlags, TypeWork, TypeTasks, TypeCounts
  <2>5. QED
    BY <1>1, <2>4, CountStep, SessionStep, StillStep, StaleStep, ReadyStep, 
     DueStep, WakeStep, HeardStep DEF IInv
<1>2. QED
  BY <1>1, InitIInv, PTL DEF Spec

(* The shape of the state, for any number of images and of tasks: there    *)
(* are never more suspensions than tasks, nor more attempts than MaxTries. *)
THEOREM TypeCorrect == Spec => []TypeOK
<1>1. IInv => TypeOK
  BY DEF IInv
<1>2. QED
  BY <1>1, Inductive, PTL

(* Exactly the tasks between counting themselves in and letting go are     *)
(* counted as suspensions, however they overlap: the count is zero when    *)
(* nobody suspends, and the saturating subtraction never saturates.        *)
THEOREM SuspensionsAreCounted == Spec => []Counting
<1>1. IInv => Counting
  BY DEF IInv
<1>2. QED
  BY <1>1, Inductive, PTL

(* Under a suspension no session is at work: no connection of its own, no  *)
(* helper, no result on its way.                                           *)
THEOREM SuspendedIsQuiet == Spec => []Quiet
<1>1. IInv => Quiet
  BY DEF IInv, Still, Session, Quiet, Open, Steps
<1>2. QED
  BY <1>1, Inductive, PTL

(* An image is not charged an attempt because the program killed the       *)
(* helper that worked on it.                                               *)
THEOREM KilledIsNotCharged == Spec => []NotCharged
<1>1. IInv => NotCharged
  BY DEF IInv
<1>2. QED
  BY <1>1, Inductive, PTL

(* While an image is queued or asked for and nothing forbids it, a session *)
(* runs or somebody is going to nudge, in whatever order nudges, ends of   *)
(* sessions, suspensions and changes of the extension come.  Not after a   *)
(* session failed, nor for what is queued by somebody who nudges nobody    *)
(* (NoLostWake names the cases), until the next nudge.                     *)
THEOREM NoWakeIsLost == Spec => []NoLostWake
<1>1. IInv => NoLostWake
  BY DEF IInv
<1>2. QED
  BY <1>1, Inductive, PTL

(* Whoever waits for the end of a session is told of it.                   *)
THEOREM NoNoticeIsLost == Spec => []NoLostNotice
<1>1. IInv => NoLostNotice
  BY DEF IInv, Heard, NoLostNotice
<1>2. QED
  BY <1>1, Inductive, PTL
=============================================================================
