------------------------- MODULE TrustedClockProofs -------------------------
(***************************************************************************)
(* A trusted calendar is right, for a day and a century of any length.     *)
(*                                                                         *)
(* The invariant follows a set from the write of the time to the commit.   *)
(* Until the readback the calendar is either what it should be, or exactly *)
(* one day behind because midnight came between the write of the time and  *)
(* that of the date; less than a day has passed, so a calendar that is     *)
(* behind cannot show the request or the second after it.                  *)
(***************************************************************************)
EXTENDS TrustedClock, TLAPS

\* What the clock should show when ticks seconds have passed since a request.
Passed(request, ticks) ==
  IF request.second + ticks < DaySeconds
  THEN [day |-> request.day, second |-> request.second + ticks]
  ELSE [day |-> NextDay(request.day),
        second |-> request.second + ticks - DaySeconds]

\* The clock of a set whose date was written after midnight.
DayBehind(request, ticks) ==
  /\ request.second + ticks >= DaySeconds
  /\ cal = [day |-> request.day, second |-> request.second + ticks - DaySeconds]

\* Between the write of the time and the end of the readback.
SetUnderWay ==
  /\ task.pc \in {"date", "read"} => due = Passed(task.request, task.ticks)
  /\ At("date") => cal.second = due.second
  /\ At("read") => cal = due \/ DayBehind(task.request, task.ticks)
  /\ task.pc \in {"words", "commit"} => cal = due

\* What the marker holds at each point, and where VBPORF can still be set.
MarkerFollows ==
  /\ task.pc \in {"time", "date", "read", "words", "source"} => marker = {}
  /\ At("unlost") => marker = {}
  /\ task.pc \in {"rest", "commit"} => "magic" \notin marker
  /\ lost => \/ task.pc \in {"off", "source", "unlost"}
             \/ task.pc \in {"magic", "rest"} /\ task.for = "boot"

\* A get holds the lock, and its marker is valid.
ReaderAlone == reading => At("idle") /\ Trusted

ClockInv ==
  TypeOK /\ SetUnderWay /\ MarkerFollows /\ ReaderAlone /\ TrustedIsRight

-----------------------------------------------------------------------------

LEMMA AfterType == ASSUME NEW m \in Moment PROVE After(m) \in Moment
BY ClockAssumption DEF After, NextDay, Moment

LEMMA EpochType == Epoch \in Moment
BY ClockAssumption DEF Epoch, Moment

\* A second passes: the clock of a set goes on as Passed says.
LEMMA PassedOnce ==
  ASSUME NEW r \in Moment, NEW t \in 0 .. DaySeconds - 1, t + 1 < DaySeconds
  PROVE After(Passed(r, t)) = Passed(r, t + 1)
<1>1. CASE r.second + t < DaySeconds
  BY <1>1, ClockAssumption DEF Passed, After, Moment
<1>2. CASE ~(r.second + t < DaySeconds)
  BY <1>2, ClockAssumption DEF Passed, After, Moment
<1> QED BY <1>1, <1>2

LEMMA PassedNone == ASSUME NEW r \in Moment PROVE Passed(r, 0) = r
BY ClockAssumption DEF Passed, Moment

\* The readback does not accept a clock that is a day behind.
LEMMA BehindRefused ==
  ASSUME TypeOK, DayBehind(task.request, task.ticks), Acceptable(cal)
  PROVE cal = Passed(task.request, task.ticks)
<1> DEFINE r == task.request
           t == task.ticks
<1>1. r \in Moment /\ t \in 0 .. DaySeconds - 1
  BY DEF TypeOK, Tasks
<1>2. cal.second < r.second /\ cal.day = r.day
  BY <1>1, ClockAssumption DEF DayBehind, Moment
<1>3. cal # r
  BY <1>1, <1>2, ClockAssumption DEF Moment
<1>4. cal = After(r) /\ cal # Epoch
  BY <1>3 DEF Acceptable
<1>5. r.second + 1 = DaySeconds
  BY <1>1, <1>2, <1>4, ClockAssumption DEF After, Moment
<1>6. cal.day = NextDay(r.day) /\ cal.second = 0
  BY <1>1, <1>4, <1>5, ClockAssumption DEF After, Moment
<1>7. cal.day = 0
  BY <1>1, <1>2, <1>6, ClockAssumption DEF NextDay, Moment
<1>8. cal = Epoch
  BY <1>4, <1>5, <1>6, <1>7 DEF After, Epoch
<1> QED BY <1>4, <1>8

-----------------------------------------------------------------------------

THEOREM InitInv == Init => ClockInv
<1> SUFFICES ASSUME Init PROVE ClockInv OBVIOUS
<1>1. TypeOK
  <2>1. marker \in SUBSET Words
    BY DEF Init
  <2>2. task \in Tasks
    BY EpochType, ClockAssumption DEF Init, Off, Points, Tasks
  <2> QED BY <2>1, <2>2, EpochType DEF Init, TypeOK
<1>2. SetUnderWay /\ MarkerFollows /\ ReaderAlone
  BY DEF Init, SetUnderWay, MarkerFollows, ReaderAlone, Off, At
<1>3. TrustedIsRight
  BY DEF Init, TrustedIsRight, Trusted, Words
<1> QED BY <1>1, <1>2, <1>3 DEF ClockInv

-----------------------------------------------------------------------------

LEMMA OffType ==
  /\ Off \in Tasks /\ Off.pc = "off"
  /\ Idle \in Tasks /\ Idle.pc = "idle"
BY EpochType, ClockAssumption DEF Off, Idle, Points, Tasks

\* A write of the time is a task again.
LEMMA TaskTicks ==
  ASSUME task \in Tasks, NEW p \in Points, NEW t \in 0 .. DaySeconds - 1
  PROVE [task EXCEPT !.pc = p, !.ticks = t] \in Tasks
BY DEF Tasks

\* A start touches neither the marker nor the clock.
LEMMA StartInv == ASSUME ClockInv, Start PROVE ClockInv'
<1> USE OffType DEF ClockInv, At
<1>1. TypeOK'
  <2>1. CASE StartStm32
    BY <2>1 DEF StartStm32, TypeOK, Tasks
  <2>2. CASE StartRa
    BY <2>2 DEF StartRa, ClearFor, TypeOK, Tasks, Points
  <2>3. CASE SetSource
    BY <2>3 DEF SetSource, Proceed, TypeOK, Tasks, Points
  <2>4. CASE ClearPowerLoss
    <3>1. task' \in Tasks
      BY <2>4 DEF ClearPowerLoss
    <3>2. CASE lost' = FALSE
      BY <2>4, <3>1, <3>2 DEF ClearPowerLoss, TypeOK
    <3>3. CASE lost' = lost
      BY <2>4, <3>1, <3>3 DEF ClearPowerLoss, TypeOK
    <3> QED BY <2>4, <3>2, <3>3 DEF ClearPowerLoss
  <2> QED BY <2>1, <2>2, <2>3, <2>4 DEF Start
<1>2. SetUnderWay' /\ ReaderAlone'
  <2>1. CASE StartStm32
    BY <2>1 DEF StartStm32, TypeOK, Tasks, SetUnderWay, ReaderAlone, Trusted
  <2>2. CASE StartRa
    BY <2>2 DEF StartRa, ClearFor, TypeOK, Tasks, SetUnderWay, ReaderAlone,
                Trusted
  <2>3. CASE SetSource
    BY <2>3 DEF SetSource, Proceed, TypeOK, Tasks, SetUnderWay, ReaderAlone,
                Trusted
  <2>4. CASE ClearPowerLoss
    BY <2>4 DEF ClearPowerLoss, TypeOK, Tasks, SetUnderWay, ReaderAlone, Trusted
  <2> QED BY <2>1, <2>2, <2>3, <2>4 DEF Start
<1>3. MarkerFollows'
  <2>1. CASE StartStm32
    BY <2>1 DEF StartStm32, TypeOK, Tasks, MarkerFollows
  <2>2. CASE StartRa
    BY <2>2 DEF StartRa, ClearFor, MarkerValidAtInit, TypeOK, Tasks,
                MarkerFollows
  <2>3. CASE SetSource
    BY <2>3 DEF SetSource, Proceed, TypeOK, Tasks, MarkerFollows
  <2>4. CASE ClearPowerLoss
    BY <2>4 DEF ClearPowerLoss, TypeOK, Tasks, MarkerFollows
  <2> QED BY <2>1, <2>2, <2>3, <2>4 DEF Start
<1>4. TrustedIsRight'
  <2>1. CASE ClearPowerLoss
    BY <2>1 DEF ClearPowerLoss, MarkerFollows, TrustedIsRight, Trusted, Words
  <2>2. CASE StartStm32 \/ StartRa \/ SetSource
    BY <2>2 DEF StartStm32, StartRa, SetSource, TrustedIsRight, Trusted
  <2> QED BY <2>1, <2>2 DEF Start
<1> QED BY <1>1, <1>2, <1>3, <1>4

\* The marker is complete only beside a clock that was read back.
LEMMA MarkInv == ASSUME ClockInv, Mark PROVE ClockInv'
<1> USE OffType DEF ClockInv, At
<1>1. CASE ClearRefused
  BY <1>1 DEF ClearRefused, TypeOK, Tasks, SetUnderWay, MarkerFollows,
              ReaderAlone,
              TrustedIsRight, Trusted
<1>2. CASE ClearMagic
  BY <1>2 DEF ClearMagic, Proceed, TypeOK, Tasks, Points, SetUnderWay,
              MarkerFollows,
              ReaderAlone, TrustedIsRight, Trusted, Words
<1>3. CASE ClearRest
  <2>1. task' \in {[task EXCEPT !.pc = "time"], [task EXCEPT !.pc = "source"],
                   Idle}
    BY <1>3 DEF ClearRest, Proceed
  <2>2. lost' => task'.pc = "source"
    BY <1>3 DEF ClearRest, Proceed, MarkerFollows, TypeOK, Tasks
  <2>3. TypeOK'
    BY <1>3, <2>1 DEF ClearRest, TypeOK, Tasks, Points
  <2> QED
    BY <1>3, <2>1, <2>2, <2>3
    DEF ClearRest, TypeOK, Tasks, SetUnderWay, MarkerFollows, ReaderAlone,
        TrustedIsRight, Trusted, Words
<1>4. CASE CommitWords
  BY <1>4 DEF CommitWords, Proceed, TypeOK, Tasks, Points, SetUnderWay,
              MarkerFollows,
              ReaderAlone, TrustedIsRight, Trusted, Words
<1>5. CASE CommitRefused
  BY <1>5 DEF CommitRefused, ClearFor, TypeOK, Tasks, Points, SetUnderWay,
              MarkerFollows, ReaderAlone, TrustedIsRight, Trusted, Words
<1>6. CASE CommitMagic
  BY <1>6 DEF CommitMagic, ClearFor, TypeOK, Tasks, Points, SetUnderWay,
              MarkerFollows, ReaderAlone, TrustedIsRight, Trusted, Words
<1> QED BY <1>1, <1>2, <1>3, <1>4, <1>5, <1>6 DEF Mark

\* The writes of a set, and its readback.
LEMMA SetInv == ASSUME ClockInv, Set PROVE ClockInv'
<1> USE OffType DEF ClockInv, At
<1> task \in Tasks
  BY DEF TypeOK
<1>1. CASE SetTime
  <2>1. /\ task' = [task EXCEPT !.pc = "date", !.ticks = 0]
        /\ cal'.second = due'.second /\ cal' \in Moment
        /\ due' = Passed(task'.request, 0)
    BY <1>1, PassedNone DEF SetTime, TypeOK, Tasks, Moment
  <2>2. TypeOK'
    <3>1. task' \in Tasks
      <4>1. 0 \in 0 .. DaySeconds - 1 /\ "date" \in Points
        BY ClockAssumption DEF Points
      <4> QED BY <2>1, <4>1, TaskTicks
    <3> QED BY <1>1, <2>1, <3>1 DEF SetTime, TypeOK, Tasks
  <2> QED
    BY <1>1, <2>1, <2>2
    DEF SetTime, Tasks, SetUnderWay, MarkerFollows, ReaderAlone, TrustedIsRight,
        Trusted, Words
<1>2. CASE SetDate
  <2>1. /\ task' = [task EXCEPT !.pc = "read"]
        /\ cal' = [day |-> task.request.day, second |-> due.second]
        /\ due = Passed(task.request, task.ticks)
    BY <1>2 DEF SetDate, Proceed, TypeOK, Tasks, Moment, SetUnderWay
  <2>2. TypeOK'
    BY <1>2, <2>1 DEF SetDate, TypeOK, Tasks, Points, Moment
  <2>3. cal' = due \/ DayBehind(task.request, task.ticks)'
    <3>1. task.request \in Moment /\ task.ticks \in 0 .. DaySeconds - 1
          /\ task'.request = task.request /\ task'.ticks = task.ticks
      BY <2>1 DEF Tasks
    <3>2. CASE task.request.second + task.ticks < DaySeconds
      BY <2>1, <3>1, <3>2 DEF Passed
    <3>3. CASE ~(task.request.second + task.ticks < DaySeconds)
      BY <2>1, <3>1, <3>3, ClockAssumption DEF Passed, DayBehind, Moment
    <3> QED BY <3>2, <3>3
  <2> QED
    BY <1>2, <2>1, <2>2, <2>3
    DEF SetDate, SetUnderWay, MarkerFollows, ReaderAlone, TrustedIsRight,
        Trusted, Words
<1>3. CASE SetCalendar
  <2>1. /\ task' = [task EXCEPT !.pc = "read", !.ticks = 0]
        /\ cal' = due' /\ cal' \in Moment
        /\ due' = Passed(task'.request, 0)
    BY <1>3, PassedNone DEF SetCalendar, Tasks
  <2>2. TypeOK'
    <3>1. task' \in Tasks
      <4>1. 0 \in 0 .. DaySeconds - 1 /\ "read" \in Points
        BY ClockAssumption DEF Points
      <4> QED BY <2>1, <4>1, TaskTicks
    <3> QED BY <1>3, <2>1, <3>1 DEF SetCalendar, TypeOK
  <2> QED
    BY <1>3, <2>1, <2>2
    DEF SetCalendar, Tasks, SetUnderWay, MarkerFollows, ReaderAlone,
        TrustedIsRight,
        Trusted, Words
<1>4. CASE SetFails
  <2>1. task' \in {Idle, [task EXCEPT !.pc = "magic", !.for = "undo"]}
    BY <1>4 DEF SetFails, ClearFor
  <2>2. cal' \in Moment
    BY <1>4 DEF SetFails, TypeOK, Tasks, Moment
  <2>3. TypeOK'
    BY <1>4, <2>1, <2>2 DEF SetFails, TypeOK, Tasks, Points
  <2>4. marker = {} /\ ~lost /\ ~reading
    BY <1>4 DEF SetFails, MarkerFollows, ReaderAlone
  <2> QED
    BY <1>4, <2>1, <2>3, <2>4
    DEF SetFails, Tasks, SetUnderWay, MarkerFollows, ReaderAlone,
        TrustedIsRight,
        Trusted, Words
<1>5. CASE ReadBack
  <2>1. CASE Acceptable(cal) /\ Proceed("words")
    <3>1. cal = due
      BY <1>5, <2>1, BehindRefused DEF ReadBack, SetUnderWay
    <3> QED
      BY <1>5, <2>1, <3>1
      DEF ReadBack, Proceed, TypeOK, Tasks, Points, SetUnderWay, MarkerFollows,
          ReaderAlone, TrustedIsRight, Trusted, Words
  <2>2. CASE ClearFor("undo")
    BY <1>5, <2>2
    DEF ReadBack, ClearFor, TypeOK, Tasks, Points, SetUnderWay, MarkerFollows,
        ReaderAlone, TrustedIsRight, Trusted, Words
  <2> QED BY <1>5, <2>1, <2>2 DEF ReadBack
<1> QED BY <1>1, <1>2, <1>3, <1>4, <1>5 DEF Set

\* What begins under the lock, and the two halves of a get.
LEMMA LockedInv ==
  ASSUME ClockInv,
         \/ Clear
         \/ \E request \in Moment : SetBegin(request)
         \/ GetLook
         \/ GetRead
  PROVE ClockInv'
<1> USE DEF ClockInv, At
<1>1. CASE Clear
  BY <1>1 DEF Clear, Unlocked, ClearFor, TypeOK, Tasks, Points, SetUnderWay,
              MarkerFollows, ReaderAlone, TrustedIsRight, Trusted
<1>2. CASE \E request \in Moment : SetBegin(request)
  BY <1>2, ClockAssumption
  DEF SetBegin, Unlocked, TypeOK, Tasks, Points, SetUnderWay, MarkerFollows,
      ReaderAlone, TrustedIsRight, Trusted
<1>3. CASE GetLook
  BY <1>3 DEF GetLook, Unlocked, TypeOK, Tasks, SetUnderWay, MarkerFollows,
              ReaderAlone, TrustedIsRight, Trusted, DayBehind
<1>4. CASE GetRead
  BY <1>4 DEF GetRead, TypeOK, Tasks, SetUnderWay, MarkerFollows, ReaderAlone,
              TrustedIsRight, Trusted, DayBehind
<1> QED BY <1>1, <1>2, <1>3, <1>4

\* A second passes at any point of a set.
LEMMA TickInv == ASSUME ClockInv, Tick PROVE ClockInv'
<1> USE DEF ClockInv, At
<1>1. /\ cal \in Moment /\ due \in Moment /\ task.request \in Moment
      /\ task.ticks \in 0 .. DaySeconds - 1
      /\ cal' = After(cal) /\ due' = After(due)
  BY DEF Tick, TypeOK, Tasks
<1>2. /\ task'.pc = task.pc /\ task'.for = task.for
      /\ task'.request = task.request
  BY DEF Tick, TypeOK, Tasks
<1>3. cal' \in Moment /\ due' \in Moment
  BY <1>1, AfterType
<1>4. TypeOK'
  <2>1. task \in Tasks /\ task.ticks \in 0 .. DaySeconds - 1
    BY <1>1 DEF TypeOK, Tasks
  <2>2. CASE task' = task
    BY <1>3, <2>1, <2>2 DEF Tick, TypeOK, Tasks
  <2>3. CASE /\ task' = [task EXCEPT !.ticks = task.ticks + 1]
             /\ task.ticks + 1 < DaySeconds
    <3>1. task' \in Tasks
      <4>1. task.ticks + 1 \in 0 .. DaySeconds - 1
        BY <2>1, <2>3, ClockAssumption
      <4>2. [task EXCEPT !.ticks = task.ticks + 1] \in Tasks
        BY <2>1, <4>1 DEF Tasks
      <4> QED BY <2>3, <4>2
    <3> QED BY <1>3, <3>1 DEF Tick, TypeOK
  <2> QED BY <2>2, <2>3 DEF Tick
<1>5. cal = due => cal' = due'
  BY <1>1
<1>6. ASSUME task.pc \in {"date", "read"}
      PROVE /\ task'.ticks = task.ticks + 1 /\ task.ticks + 1 < DaySeconds
            /\ due' = Passed(task'.request, task'.ticks)
  BY <1>1, <1>2, <1>6, PassedOnce DEF Tick, SetUnderWay, TypeOK, Tasks
<1>7. At("date") => cal'.second = due'.second
  BY <1>1, ClockAssumption DEF SetUnderWay, After, Moment
<1>8. ASSUME At("read"), DayBehind(task.request, task.ticks)
      PROVE DayBehind(task.request, task.ticks)'
  <2>1. task'.ticks = task.ticks + 1 /\ task.ticks + 1 < DaySeconds
    BY <1>6, <1>8
  <2>2. cal.second = task.request.second + task.ticks - DaySeconds
    BY <1>1, <1>8 DEF DayBehind, Moment
  <2>3. cal.second + 1 < DaySeconds
    BY <1>1, <2>1, <2>2, ClockAssumption DEF Moment
  <2> QED
    BY <1>1, <1>2, <1>8, <2>1, <2>2, <2>3, ClockAssumption
    DEF DayBehind, After, Moment
<1>9. SetUnderWay'
  BY <1>2, <1>5, <1>6, <1>7, <1>8 DEF SetUnderWay
<1>10. MarkerFollows' /\ ReaderAlone' /\ TrustedIsRight'
  BY <1>2, <1>5 DEF Tick, MarkerFollows, ReaderAlone, TrustedIsRight, Trusted
<1> QED BY <1>4, <1>9, <1>10

\* A reset stops what is under way; a loss of the backup domain is told.
LEMMA BoardInv == ASSUME ClockInv, PowerLoss \/ BackupLoss PROVE ClockInv'
<1> USE OffType DEF ClockInv, At
<1>1. CASE PowerLoss
  BY <1>1 DEF PowerLoss, TypeOK, Tasks, SetUnderWay, MarkerFollows, ReaderAlone,
              TrustedIsRight, Trusted
<1>2. CASE BackupLoss
  <2>1. marker' \in SUBSET Words /\ (~lost' => marker' = {})
    BY <1>2 DEF BackupLoss
  <2>2. lost' \in BOOLEAN /\ (lost' => board' = "ra")
    BY <1>2 DEF BackupLoss
  <2> QED
    BY <1>2, <2>1, <2>2
    DEF BackupLoss, TypeOK, Tasks, SetUnderWay, MarkerFollows, ReaderAlone,
        TrustedIsRight, Trusted, Words
<1> QED BY <1>1, <1>2

THEOREM NextInv == ClockInv /\ [Next]_vars => ClockInv'
<1> SUFFICES ASSUME ClockInv, [Next]_vars PROVE ClockInv' OBVIOUS
<1>1. CASE UNCHANGED vars
  BY <1>1
  DEF vars, ClockInv, TypeOK, SetUnderWay, MarkerFollows, ReaderAlone,
      TrustedIsRight, Trusted, At, DayBehind
<1> QED
  BY <1>1, StartInv, MarkInv, SetInv, LockedInv, TickInv, BoardInv DEF Next

LEMMA ClockCorrect == Spec => []ClockInv
BY InitInv, NextInv, PTL DEF Spec

\* TrustedIsRight, for every length of a day and of the century: whatever the
\* point at which a set is cut off, midnight passes or the backup domain is
\* lost, a marker that is believed stands beside a calendar that is right.
THEOREM TrustedCorrect == Spec => []TrustedIsRight
<1>1. ClockInv => TrustedIsRight BY DEF ClockInv
<1> QED BY <1>1, ClockCorrect, PTL

\* ReadsRight, for every value of the constants: the lock of the provider keeps
\* a get from reading the calendar of a set.
THEOREM ReadsCorrect == Spec => []ReadsRight
<1>1. ClockInv => ReadsRight
  BY DEF ClockInv, ReaderAlone, MarkerFollows, TrustedIsRight, ReadsRight, At
<1> QED BY <1>1, ClockCorrect, PTL
=============================================================================
