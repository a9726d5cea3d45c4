---------------------------- MODULE TrustedClock ----------------------------
(***************************************************************************)
(* The time provider of the two boards (mtfs_stm32_rtc.c, mtfs_ra_rtc.c)   *)
(* behind mtfs_time.c: a calendar and a validity marker, both in the       *)
(* backup domain, which a reset of the processor does not touch.  The      *)
(* marker is what a later start trusts the calendar by, so its three words *)
(* are cleared before the calendar is written and written after it has     *)
(* been read back.  The processor may be reset between any two accesses,   *)
(* the calendar ticks all the time, and the backup domain may lose power   *)
(* while the board is off.                                                 *)
(*                                                                         *)
(* The years that the two digits of the calendar tell apart are Days days; *)
(* ticks counts the seconds since a set has written the time.              *)
(* A time that a board refuses before it writes anything is not modelled.  *)
(***************************************************************************)
EXTENDS Integers

CONSTANTS
  Days, DaySeconds

ASSUME ClockAssumption ==
  /\ Days \in Nat \ {0}
  /\ DaySeconds \in Nat \ {0, 1}

VARIABLES
  board,    \* which of the two it is
  cal,      \* the calendar
  marker,   \* the words of the marker that hold their value
  lost,     \* VBPORF of the RA board: the backup domain has lost its power
  task,     \* the start, the set or the clear in progress
  reading,  \* a get has found the marker valid
  due       \* history: what the calendar should show since the last set

vars == <<board, cal, marker, lost, task, reading, due>>

Moment == [day : 0 .. Days - 1, second : 0 .. DaySeconds - 1]
Epoch == [day |-> 0, second |-> 0]
Words == {"magic", "version", "inverse"}

\* Control points: "off" without a provider, "idle" with one; the marker is
\* cleared at "magic" and "rest", for a start, a set, its undoing or a clear.
Points ==
  {"off", "idle", "magic", "rest", "source", "unlost",
   "time", "date", "read", "words", "commit"}

Tasks == [pc : Points, for : {"none", "boot", "set", "undo", "clear"},
          request : Moment, ticks : 0 .. DaySeconds - 1]

Off == [pc |-> "off", for |-> "none", request |-> Epoch, ticks |-> 0]
Idle == [Off EXCEPT !.pc = "idle"]

At(point) == task.pc = point
Proceed(point) == task' = [task EXCEPT !.pc = point]
ClearFor(purpose) == task' = [task EXCEPT !.pc = "magic", !.for = purpose]

NextDay(day) == IF day + 1 < Days THEN day + 1 ELSE 0

\* One second later.
After(moment) ==
  IF moment.second + 1 < DaySeconds
  THEN [day |-> moment.day, second |-> moment.second + 1]
  ELSE [day |-> NextDay(moment.day), second |-> 0]

\* Mutant: the time of day alone is compared.
ReadbackOfTime(moment) ==
  moment.second \in {task.request.second, After(task.request).second}

\* readback_is_acceptable: the request, or the second after it in the same
\* century.
Acceptable(moment) ==
  \/ moment = task.request
  \/ /\ moment = After(task.request)
     /\ moment # Epoch

Trusted == marker = Words

\* TypeOK: the types, and that only the RA board knows of a lost backup domain.
TypeOK ==
  /\ board \in {"stm32", "ra"} /\ cal \in Moment /\ due \in Moment
  /\ marker \in SUBSET Words /\ lost \in BOOLEAN /\ reading \in BOOLEAN
  /\ task \in Tasks
  /\ lost => board = "ra"

-----------------------------------------------------------------------------
(* Start *)

\* The first power of the backup domain: STM32's registers are reset, the RA
\* board's hold anything.
Init ==
  /\ board \in {"stm32", "ra"}
  /\ cal \in Moment /\ due = Epoch
  /\ lost = (board = "ra")
  /\ marker \in IF lost THEN SUBSET Words ELSE {{}}
  /\ task = Off /\ reading = FALSE

\* The STM32 board starts its provider and leaves the marker to the gets.
StartStm32 ==
  /\ At("off") /\ board = "stm32"
  /\ task' = Idle
  /\ UNCHANGED <<board, cal, marker, lost, reading, due>>

MarkerValidAtInit(accessible) == ~lost /\ accessible /\ Trusted

\* The RA board keeps a marker it can read and believe; any other is cleared.
StartRa ==
  /\ At("off") /\ board = "ra"
  /\ \E accessible \in BOOLEAN :
       IF MarkerValidAtInit(accessible) THEN task' = Idle
       ELSE ClearFor("boot")
  /\ UNCHANGED <<board, cal, marker, lost, reading, due>>

\* clockSourceSet, after a loss only.
SetSource ==
  /\ At("source")
  /\ \/ Proceed("unlost")
     \/ task' = Off
  /\ UNCHANGED <<board, cal, marker, lost, reading, due>>

ClearPowerLoss ==
  /\ At("unlost")
  /\ \/ lost' = FALSE /\ task' = Idle
     \/ UNCHANGED lost /\ task' = Off
  /\ UNCHANGED <<board, cal, marker, reading, due>>

-----------------------------------------------------------------------------
(* The marker *)

\* The registers of the RA board do not open: a start ends without a
\* provider, a set or clear with an error.
ClearRefused ==
  /\ At("magic") /\ board = "ra"
  /\ task' = IF task.for = "boot" THEN Off ELSE Idle
  /\ UNCHANGED <<board, cal, marker, lost, reading, due>>

ClearMagic ==
  /\ At("magic") /\ Proceed("rest")
  /\ marker' = marker \ {"magic"}
  /\ UNCHANGED <<board, cal, lost, reading, due>>

\* The words after the magic, and what the clearing was for.
ClearRest ==
  /\ At("rest")
  /\ marker' = {}
  /\ CASE task.for = "set" -> Proceed("time")
       [] task.for = "boot" /\ lost -> Proceed("source")
       [] OTHER -> task' = Idle
  /\ UNCHANGED <<board, cal, lost, reading, due>>

CommitWords ==
  /\ At("words") /\ Proceed("commit")
  /\ marker' = marker \cup {"version", "inverse"}
  /\ UNCHANGED <<board, cal, lost, reading, due>>

CommitRefused ==
  /\ At("words") /\ board = "ra"
  /\ ClearFor("undo")
  /\ UNCHANGED <<board, cal, marker, lost, reading, due>>

\* The magic, then the check of all three; a check that fails is undone.
CommitMagic ==
  /\ At("commit")
  /\ marker' = marker \cup {"magic"}
  /\ \/ task' = Idle
     \/ ClearFor("undo")
  /\ UNCHANGED <<board, cal, lost, reading, due>>

-----------------------------------------------------------------------------
(* Set, clear and get, under the lock of the provider *)

\* Mutant: a set does not take the lock.
UnlockedForSet == At("idle")

Unlocked == At("idle") /\ ~reading

SetBegin(request) ==
  /\ Unlocked
  /\ task' = [pc |-> "magic", for |-> "set", request |-> request, ticks |-> 0]
  /\ UNCHANGED <<board, cal, marker, lost, reading, due>>

\* HAL_RTC_SetTime: the time of day; the date follows in a step of its own.
SetTime ==
  /\ At("time") /\ board = "stm32"
  /\ task' = [task EXCEPT !.pc = "date", !.ticks = 0]
  /\ cal' = [cal EXCEPT !.second = task.request.second]
  /\ due' = task.request
  /\ UNCHANGED <<board, marker, lost, reading>>

SetDate ==
  /\ At("date")
  /\ Proceed("read")
  /\ cal' = [cal EXCEPT !.day = task.request.day]
  /\ UNCHANGED <<board, marker, lost, reading, due>>

\* calendarTimeSet of the RA board writes both.
SetCalendar ==
  /\ At("time") /\ board = "ra"
  /\ task' = [task EXCEPT !.pc = "read", !.ticks = 0]
  /\ cal' = task.request /\ due' = task.request
  /\ UNCHANGED <<board, marker, lost, reading>>

\* A write that fails may have been done.
SetFails ==
  /\ task.pc \in {"time", "date"}
  /\ IF board = "ra" THEN task' = Idle ELSE ClearFor("undo")
  /\ \E day \in {cal.day, task.request.day},
        second \in {cal.second, task.request.second} :
       cal' = [day |-> day, second |-> second]
  /\ UNCHANGED <<board, marker, lost, reading, due>>

ReadBack ==
  /\ At("read")
  /\ \/ Acceptable(cal) /\ Proceed("words")
     \/ ClearFor("undo")
  /\ UNCHANGED <<board, cal, marker, lost, reading, due>>

Clear ==
  /\ Unlocked
  /\ ClearFor("clear")
  /\ UNCHANGED <<board, cal, marker, lost, reading, due>>

\* A get that finds no valid marker, or cannot read it, reports UNSET.
GetLook ==
  /\ Unlocked /\ Trusted
  /\ reading' = TRUE
  /\ UNCHANGED <<board, cal, marker, lost, task, due>>

\* It hands out the calendar, or the error of reading it.
GetRead ==
  /\ reading /\ reading' = FALSE
  /\ UNCHANGED <<board, cal, marker, lost, task, due>>

-----------------------------------------------------------------------------
(* The board *)

\* Bound: less than a day between the write of the time and its readback.
Tick ==
  /\ cal' = After(cal) /\ due' = After(due)
  /\ IF task.pc \in {"date", "read"}
     THEN /\ task.ticks + 1 < DaySeconds
          /\ task' = [task EXCEPT !.ticks = @ + 1]
     ELSE UNCHANGED task
  /\ UNCHANGED <<board, marker, lost, reading>>

\* A reset, or the main supply; a battery keeps the backup domain.
PowerLoss ==
  /\ ~At("off") /\ task' = Off /\ reading' = FALSE
  /\ UNCHANGED <<board, cal, marker, lost, due>>

\* The battery too: STM32's registers are reset, those of the RA board hold
\* anything and VBPORF tells of it.
BackupLoss ==
  /\ At("off")
  /\ cal' \in Moment
  /\ lost' = (board = "ra")
  /\ marker' \in IF lost' THEN SUBSET Words ELSE {{}}
  /\ UNCHANGED <<board, task, reading, due>>

Start == StartStm32 \/ StartRa \/ SetSource \/ ClearPowerLoss
Mark == ClearRefused \/ ClearMagic \/ ClearRest
          \/ CommitWords \/ CommitRefused \/ CommitMagic
Set == SetTime \/ SetDate \/ SetCalendar \/ SetFails \/ ReadBack

Next ==
  \/ Start \/ Mark \/ Set \/ Clear
  \/ \E request \in Moment : SetBegin(request)
  \/ GetLook \/ GetRead
  \/ Tick \/ PowerLoss \/ BackupLoss

Spec == Init /\ [][Next]_vars

-----------------------------------------------------------------------------
(* Properties *)

\* TrustedIsRight: a marker that the next start or get would believe stands
\* beside a calendar that has run on from the last time that was set, wherever
\* a set was cut off, midnight passed between the time and the date, or the
\* backup domain was lost (the order in mtfs_stm32_rtc_set and
\* mtfs_ra_rtc_set, and the start of the RA board).
TrustedIsRight == Trusted /\ ~lost => cal = due

\* ReadsRight: a get that has found the marker valid reads the calendar of that
\* marker, although a set by another task clears the marker and writes the
\* calendar in two steps (the lock of mtfs_time_get_local and
\* mtfs_time_set_local).
ReadsRight == reading => cal = due
=============================================================================
