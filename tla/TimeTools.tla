----------------------------- MODULE TimeTools ------------------------------
(***************************************************************************)
(* The time helpers of public.cpp: ltime, timetostr, strtotime, addtime,   *)
(* filemtime and setmtime, as a program uses them that carries a time from *)
(* one text to the next, and from one file to another, as copyfile does.   *)
(*                                                                         *)
(* A text of timetostr is a function: the fields its format shows, each    *)
(* with its number; the separators mean nothing to strtotime.  text is the *)
(* variable all calls read and write, mtime the time of a file.            *)
(* History variables: when and want, the time text was made to show and    *)
(* the fields its format asks for; due, the time the file was meant to     *)
(* get; odd, something was done of which nothing is promised any more: a   *)
(* text of summer time was read, a text that is not a full time given to   *)
(* setmtime, or a format used that timetostr treats unlike its comment.    *)
(***************************************************************************)
EXTENDS Integers, FiniteSets

CONSTANTS
  MaxTime,        \* bound: the latest time, in seconds
  Unit,           \* the calendar: the seconds of each field, more than 0
  Summer, Ahead,  \* the times at which the clocks are ahead, and by how much
  Clock,          \* bound: what the clock may show when ltime asks
  Offsets         \* bound: the values of timetvl

VARIABLES text, mtime, when, want, due, odd

dateVars == <<text, mtime, when, want, due, odd>>

Times == 0 .. MaxTime
Fields == {"year", "mon", "day", "hour", "min", "sec"}
Larger == [mon |-> "year", day |-> "mon", hour |-> "day", min |-> "hour", sec |-> "min"]

\* A regular calendar: a unit is made of whole units of the next.
ASSUME TimeToolsAssumption ==
  /\ MaxTime \in Nat /\ Ahead \in Nat /\ Summer \subseteq Times
  /\ Clock \subseteq Int /\ Offsets \subseteq Int
  /\ Unit \in [Fields -> Nat \ {0}] /\ Unit.sec = 1
  /\ \A f \in DOMAIN Larger : Unit[Larger[f]] % Unit[f] = 0

\* The type invariant.  -1 is a time, too: one second before the first.
DateTypeOK ==
  /\ DOMAIN text \subseteq Fields /\ \A f \in DOMAIN text : text[f] \in Nat
  /\ {mtime, due, when} \subseteq Times \cup {-1} /\ want \subseteq Fields /\ odd \in BOOLEAN

-----------------------------------------------------------------------------
\* localtime_r: struct tm, where mon counts from 0 and year from 1900.
Part(local, f) == (IF f = "year" THEN local ELSE local % Unit[Larger[f]]) \div Unit[f]
First == [year |-> 70, mon |-> 0, day |-> 1, hour |-> 0, min |-> 0, sec |-> 0]
localtime(t) == [f \in Fields |-> First[f] + Part(IF t \in Summer THEN t + Ahead ELSE t, f)]

\* mktime with tm_isdst = 0: it takes the fields for those of a clock that is not ahead.
Seconds(tm, f) == (tm[f] - First[f]) * Unit[f]
mktime(tm) ==
  Seconds(tm, "year") + Seconds(tm, "mon") + Seconds(tm, "day")
    + Seconds(tm, "hour") + Seconds(tm, "min") + Seconds(tm, "sec")

\* The formats of timetostr.
Day == {"year", "mon", "day"}
Shown(fmt) ==
  CASE fmt \in {"", "yyyy-mm-dd hh24:mi:ss", "yyyymmddhh24miss"} -> Fields
    [] fmt \in {"yyyy-mm-dd hh24:mi", "yyyymmddhh24mi"} -> Fields \ {"sec"}
    [] fmt \in {"yyyy-mm-dd hh24", "yyyymmddhh24"} -> Day \cup {"hour"}
    [] fmt \in {"yyyy-mm-dd", "yyyymmdd"} -> Day
    [] fmt = "yyyy-mm" -> {"year", "mon"}
    [] fmt = "hh24miss" -> {"hour", "min", "sec"}
    [] fmt = "hh24mi" -> {"hour", "min"}
    [] fmt = "hh24" -> {"hour"}
    [] fmt = "mi" -> {"min"}
    [] OTHER -> {}

\* The fields a format asks for (public.h:181-193), of the formats listed there, of five
\* more that timetostr knows and of one that is none: its text has to be empty.
Formats ==
  {"", "yyyy-mm-dd hh24:mi:ss", "yyyy-mm-dd hh24:mi", "yyyy-mm-dd hh24", "yyyy-mm-dd", "yyyy-mm",
   "yyyymmddhh24miss", "yyyymmddhh24mi", "yyyymmddhh24", "yyyymmdd", "hh24miss", "hh24mi", "hh24",
   "mi", "hh24:mi:ss", "hh24:mi", "no format"}
NoYear == {"hh24:mi:ss", "hh24:mi", "hh24miss", "hh24mi", "hh24", "mi"}
NoHour == {"yyyy-mm-dd", "yyyymmdd", "yyyy-mm", "mi"}
NoMinute == (NoHour \ {"mi"}) \cup {"yyyy-mm-dd hh24", "yyyymmddhh24", "hh24"}
Second == {"", "yyyy-mm-dd hh24:mi:ss", "yyyymmddhh24miss", "hh24:mi:ss", "hh24miss"}
Asked(fmt) ==
  {f \in Fields : /\ fmt # "no format"
                  /\ f = "sec" => fmt \in Second
                  /\ f = "min" => fmt \notin NoMinute
                  /\ f = "hour" => fmt \notin NoHour
                  /\ f = "day" => fmt \notin NoYear \cup {"yyyy-mm"}
                  /\ f \in {"mon", "year"} => fmt \notin NoYear}

\* timetostr into a string that held old.  A format it does not know leaves the
\* string as it was; the version for char* empties it (cstr).
Empty == [f \in {} |-> 0]
timetostr(t, old, fmt, cstr) ==
  IF Shown(fmt) = {} THEN (IF cstr THEN Empty ELSE old)
  ELSE [f \in Shown(fmt) |->
          localtime(t)[f] + CASE f = "year" -> 1900 [] f = "mon" -> 1 [] OTHER -> 0]

\* Wrong: the month goes into struct tm as it is.
tm_mon_AsIs(str) == str.mon

\* strtotime: -1 unless the text has fourteen digits.
tm_mon(str) == str.mon - 1
Width(str) == 2 * Cardinality(DOMAIN str) + IF "year" \in DOMAIN str THEN 2 ELSE 0
strtotime(str) ==
  IF Width(str) # 14 THEN -1
  ELSE mktime([f \in Fields |-> CASE f = "year" -> str.year - 1900
                                  [] f = "mon" -> tm_mon(str)
                                  [] OTHER -> str[f]])

-----------------------------------------------------------------------------
DateInit ==
  /\ text = Empty /\ when = 0 /\ want = {}
  /\ mtime \in Times /\ due = mtime
  /\ odd = FALSE

\* A format that timetostr does not know, although its comment lists it, or that it
\* lets the old text stand for.
Mistaken(fmt, cstr) == Shown(fmt) = {} /\ (Asked(fmt) # {} \/ (~cstr /\ DOMAIN text # {}))

\* A text that shows t and is meant to show w.
Show(t, w, fmt, cstr) ==
  /\ text' = timetostr(t, text, fmt, cstr)
  /\ when' = w /\ want' = Asked(fmt)

\* ltime: the present time and an offset.
Ltime(fmt, timetvl, cstr) ==
  \E now \in Clock :
    /\ now + timetvl \in Times
    /\ Show(now + timetvl, now + timetvl, fmt, cstr)
    /\ odd' = (odd \/ Mistaken(fmt, cstr))
    /\ UNCHANGED <<mtime, due>>

\* addtime, from the text to itself.  It fails for a text that is not a full time.
Addtime(fmt, timetvl, cstr) ==
  LET timer == strtotime(text)
  IN  IF timer = -1
      THEN text' = Empty /\ want' = {} /\ UNCHANGED <<mtime, when, due, odd>>
      ELSE /\ {timer + timetvl, when + timetvl} \subseteq Times
           /\ Show(timer + timetvl, when + timetvl, fmt, cstr)
           /\ odd' = (odd \/ when \in Summer \/ Mistaken(fmt, cstr))
           /\ UNCHANGED <<mtime, due>>

\* filemtime of a file that exists; if it does not, nothing happens.
Filemtime(fmt, cstr) ==
  /\ Show(mtime, due, fmt, cstr)
  /\ odd' = (odd \/ Mistaken(fmt, cstr))
  /\ UNCHANGED <<mtime, due>>

\* setmtime does not ask whether strtotime has failed.  utime may fail, and then
\* nothing happens.
Setmtime ==
  /\ strtotime(text) \in Times \cup {-1}
  /\ mtime' = strtotime(text)
  /\ due' = when
  /\ odd' = (odd \/ DOMAIN text # Fields \/ when \in Summer)
  /\ UNCHANGED <<text, when, want>>

DateNext ==
  \/ Setmtime
  \/ \E fmt \in Formats, cstr \in BOOLEAN :
       \/ Filemtime(fmt, cstr)
       \/ \E timetvl \in Offsets : Ltime(fmt, timetvl, cstr) \/ Addtime(fmt, timetvl, cstr)

DateSpec == DateInit /\ [][DateNext]_dateVars

-----------------------------------------------------------------------------
\* What timetostr has to write for field f.
Written(t, f) == localtime(t)[f] + CASE f = "year" -> 1900 [] f = "mon" -> 1 [] OTHER -> 0

\* Through any sequence of these calls a text shows the time it should, in local time
\* and with the fields its format asks for, and the file has the time it was given.
\* The exceptions, after which nothing is promised: a text of summer time was read,
\* which strtotime takes for standard time; setmtime was given a text that is not a
\* full time; a format was used that timetostr treats unlike its comment
\* (Mistaken).
TimesRight ==
  ~odd =>
    /\ DOMAIN text = want /\ \A f \in want : text[f] = Written(when, f)
    /\ mtime = due
=============================================================================
