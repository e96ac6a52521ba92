----------------------------- MODULE DatePicker -----------------------------
(* The date picker (plugins/datepicker/js/bootstrap-datepicker.js) of one    *)
(* text field: the date it holds, the month it views, what it writes into    *)
(* the field and what it reads back, through the setters of JavaScript's     *)
(* Date, which carry a day that a month does not have into the next one.     *)
(*                                                                           *)
(* Months count from 0, as in the code.  Of the field's text the numbers are *)
(* kept, in the order of the format.                                         *)
EXTENDS Integers, Sequences

CONSTANTS Formats,    \* orders of "d", "m" and "y"
          WeekStarts, \* options.weekStart
          Typed,      \* the dates the user may type: [y, m, d]
          Years,      \* bound: the years visited
          MaxEvents   \* bound: events

(* A format names the day, the month and the year.  Whatever the user types, *)
(* a day is not carried over more than two months.                           *)
ASSUME FormatAssumption ==
  /\ Formats \subseteq {f \in [1..3 -> {"d", "m", "y"}] : \A i, j \in 1..3 : f[i] = f[j] => i = j}
  /\ WeekStarts \subseteq 0..6
  /\ Typed \subseteq [y : Nat, m : Nat \cup {-1}, d : 0..59]
  /\ Years \subseteq Nat \ {0}

VARIABLES format, weekStart,
          date,      \* this.date
          view,      \* this.viewDate
          viewMode,  \* 0 days, 1 months, 2 years
          shown,     \* the picker is on the screen
          fieldText, \* the text of the field
          own,       \* history variable: the picker wrote that text last
          clicked,   \* history variable: the day just clicked on, of the year shown; else the date
          steps

pickerVars == <<format, weekStart, date, view, viewMode, shown, fieldText, own, clicked, steps>>

-----------------------------------------------------------------------------
IsLeapYear(y) == (y % 4 = 0 /\ y % 100 # 0) \/ y % 400 = 0
DaysInMonth(y, m) == <<31, IF IsLeapYear(y) THEN 29 ELSE 28, 31, 30, 31, 30, 31, 31, 30, 31, 30, 31>>[m + 1]

(* A Date made of any numbers: days carry into the months, twice at most for *)
(* the numbers met here, and months into the years.                          *)
Month(y, m, d) == [y |-> y + m \div 12, m |-> m % 12, d |-> d]
Carry(t) == IF t.d > DaysInMonth(t.y, t.m) THEN Month(t.y, t.m + 1, t.d - DaysInMonth(t.y, t.m)) ELSE t
Date(y, m, d) == Carry(Carry(Month(y, m, d)))

(* new Date(y, m, d) takes a year from 0 to 99 for one of the 1900s, which   *)
(* the setters do not.                                                       *)
YearMeant(y) == IF y \in 0..99 THEN 1900 + y ELSE y
NewDate(y, m, d) == Date(YearMeant(y), m, d)

SetDate(t, d) == Date(t.y, t.m, d)
SetMonth(t, m) == Date(t.y, m, t.d)
SetFullYear(t, y) == Date(y, t.m, t.d)

(* The days of the year before the month. *)
DaysBefore(y, m) ==
  <<0, 31, 59, 90, 120, 151, 181, 212, 243, 273, 304, 334>>[m + 1] + (IF m > 1 /\ IsLeapYear(y) THEN 1 ELSE 0)

(* The weekday, 0 for a Sunday. *)
GetDay(t) ==
  LET past == t.y - 1
  IN  (365 * past + past \div 4 - past \div 100 + past \div 400 + DaysBefore(t.y, t.m) + t.d) % 7

-----------------------------------------------------------------------------
OrOne(n) == IF n = 0 THEN 1 ELSE n

SetPart(t, p, n) ==
  CASE p = "d" -> SetDate(t, n)
    [] p = "m" -> SetMonth(t, n - 1)
    [] OTHER -> SetFullYear(t, n)

(* parseDate: the parts are set one after the other, from February 1970 on. *)
ParseDate(text, f) ==
  LET start == [y |-> 1970, m |-> 1, d |-> 1]
      set(t, i) == SetPart(t, f[i], OrOne(text[i]))
  IN  IF Len(text) = 3 THEN set(set(set(start, 1), 2), 3) ELSE start

FormatDate(t, f) ==
  [i \in 1..3 |-> CASE f[i] = "d" -> t.d [] f[i] = "m" -> t.m + 1 [] OTHER -> t.y]

(* fill: six weeks from the start of the one the previous month ends in, of  *)
(* the 1900s when the year viewed is below 100.                              *)
(* Which cells are of another month is told from the months' numbers, also   *)
(* where the year changes.                                                   *)
FirstCell ==
  LET prev == NewDate(view.y, view.m - 1, 28)
      last == [y |-> prev.y, m |-> prev.m, d |-> DaysInMonth(prev.y, prev.m)]
  IN  [y |-> last.y, m |-> last.m, d |-> last.d - ((GetDay(last) - weekStart + 7) % 7)]
Cells == LET first == FirstCell IN {Date(first.y, first.m, first.d + i) : i \in 0..41}

(* Mutant: the classes old and new are mixed up. *)
MonthOfCell_Swapped(c) ==
  CASE c.m < view.m -> view.m + 1 [] c.m > view.m -> view.m - 1 [] OTHER -> view.m

(* The month a click on a cell means, by its class. *)
MonthOfCell(c) ==
  CASE c.m < view.m -> view.m - 1 [] c.m > view.m -> view.m + 1 [] OTHER -> view.m

-----------------------------------------------------------------------------
PickerInit ==
  /\ format \in Formats /\ weekStart \in WeekStarts
  /\ \E t \in Typed : fieldText = FormatDate(t, format)
  /\ date = ParseDate(fieldText, format) /\ view = date /\ viewMode = 0 /\ shown = FALSE
  /\ own = FALSE /\ clicked = date /\ steps = 0

SetValue(t) == fieldText' = FormatDate(t, format) /\ own' = TRUE

(* The field has the focus and the picker appears; it does not read the      *)
(* field again.                                                              *)
Show == ~shown /\ shown' = TRUE /\ UNCHANGED <<format, weekStart, date, view, viewMode, fieldText, own>>

Hide ==
  /\ shown /\ shown' = FALSE /\ viewMode' = 0 /\ SetValue(date)
  /\ UNCHANGED <<format, weekStart, date, view>>

(* keyup: the field is read, whether or not the key changed it. *)
Update ==
  /\ shown /\ \E text \in {FormatDate(t, format) : t \in Typed} \cup {<<>>, fieldText} : fieldText' = text /\ own' = (own /\ text = fieldText)
  /\ date' = ParseDate(fieldText', format) /\ view' = date'
  /\ UNCHANGED <<format, weekStart, viewMode, shown>>

Switch == shown /\ viewMode' = (IF viewMode = 2 THEN 2 ELSE viewMode + 1)
          /\ UNCHANGED <<format, weekStart, date, view, shown, fieldText, own>>

(* prev and next: a month, a year or ten. *)
Navigate ==
  \E dir \in {-1, 1} :
    LET to == CASE viewMode = 0 -> SetMonth(view, view.m + dir)
                [] viewMode = 1 -> SetFullYear(view, view.y + dir)
                [] OTHER -> SetFullYear(view, view.y + 10 * dir)
    IN  shown /\ to.y \in Years /\ view' = to /\ UNCHANGED <<format, weekStart, date, viewMode, shown, fieldText, own>>

ClickMonth ==
  \E m \in 0..11 : /\ shown /\ viewMode = 1 /\ view' = SetMonth(view, m) /\ viewMode' = 0
                   /\ UNCHANGED <<format, weekStart, date, shown, fieldText, own>>

ClickYear ==
  \E y \in Years : /\ shown /\ viewMode = 2 /\ y \in (view.y \div 10) * 10 - 1..(view.y \div 10) * 10 + 10
                   /\ view' = SetFullYear(view, y) /\ viewMode' = 1
                   /\ UNCHANGED <<format, weekStart, date, shown, fieldText, own>>

ClickDay ==
  \E c \in Cells :
    LET t == NewDate(view.y, MonthOfCell(c), c.d)
    IN  /\ shown /\ viewMode = 0 /\ t.y \in Years
        /\ date' = t /\ view' = t /\ SetValue(t)
        /\ clicked' = (IF c.y = YearMeant(view.y) THEN c ELSE t)
        /\ UNCHANGED <<format, weekStart, viewMode, shown>>

PickerNext == /\ steps < MaxEvents /\ steps' = steps + 1
              /\ \/ ClickDay
                 \/ (Show \/ Hide \/ Update \/ Switch \/ Navigate \/ ClickMonth \/ ClickYear) /\ clicked' = date'

PickerSpec == PickerInit /\ [][PickerNext]_pickerVars

-----------------------------------------------------------------------------
PickerTypeOK ==
  /\ format \in Formats /\ weekStart \in WeekStarts /\ viewMode \in 0..2
  /\ shown \in BOOLEAN /\ own \in BOOLEAN
  /\ \A t \in {date, view} : t.m \in 0..11 /\ t.d \in 1..DaysInMonth(t.y, t.m)

(* What the picker wrote it reads back as the date it holds; but only where  *)
(* the day is read last no day is set in a month that does not have it, so   *)
(* with other formats a day after the 28th may become another date at the    *)
(* next key.                                                                 *)
ReadsBack == own => ParseDate(fieldText, format) = date \/ (format[3] # "d" /\ date.d > 28)

(* The six weeks on the screen start with the first day of a week and show   *)
(* every day of the month viewed; but of a year below 100, as a year is that *)
(* is not typed to the end, the same month of the 1900s, under that year.    *)
MonthIsShown ==
  shown =>
    LET y == YearMeant(view.y)
        first == FirstCell
    IN  /\ {[y |-> y, m |-> view.m, d |-> d] : d \in 1..DaysInMonth(y, view.m)} \subseteq Cells
        /\ GetDay(Date(first.y, first.m, first.d)) = weekStart

(* A click on a day picks the day the cell is of, unless the cell is of      *)
(* another year than the month shown: December's days are taken for those of *)
(* the month after January, and January's for those of the month before      *)
(* December.                                                                 *)
PicksWhatIsShown == clicked = date

(* The picker shows the month, picks what it shows and reads what it wrote. *)
PickerRight == PickerTypeOK /\ MonthIsShown /\ PicksWhatIsShown /\ ReadsBack
=============================================================================
