------------------------------ MODULE CronDays ------------------------------
(***************************************************************************)
(* The day-of-week field of a schedule (validation.py, make_cron_trigger): *)
(* crontab counts the days from Sunday, APScheduler from Monday, and       *)
(* numbers are translated into names, which both understand.               *)
(*                                                                         *)
(* A field is a list of parts: every day, every step-th day, or a range of *)
(* numbers; a single number is a range of its own.  Steps of ranges depend *)
(* on how APScheduler reads "mon-fri/2" and are left out.                  *)
(***************************************************************************)
EXTENDS Naturals, SequencesExt

CONSTANTS
  MaxNumber, \* bound on the numbers in a field
  MaxParts   \* bound on its parts

ASSUME CronAssumption == MaxNumber \in Nat /\ MaxParts \in Nat \ {0}

Numbers == 0..MaxNumber

Parts ==
  [star : {TRUE}, step : 1..7] \cup [star : {FALSE}, lo : Numbers, hi : Numbers]

Fields == BoundedSeq(Parts, MaxParts) \ {<<>>}

\* _CRON_DOW_NAMES, from 1 on, and APScheduler's WEEKDAYS.
CronDowNames == <<"sun", "mon", "tue", "wed", "thu", "fri", "sat">>
Weekdays == <<"mon", "tue", "wed", "thu", "fri", "sat", "sun">>

Position(day) == CHOOSE i \in 1..7 : Weekdays[i] = day

VARIABLES
  field,   \* the fifth field of the expression
  trigger  \* the days the job is to run: "none" before it is asked, "refused", "set"

cronVars == <<field, trigger>>

----------------------------------------------------------------------------
\* Variant with a bug: numbers are handed over as they are, 0 for Monday.
NameAsIs(n) == Weekdays[(n % 7) + 1]

\* _convert_cron_dow_field: a number is a name, whatever it is.
Name(n) == CronDowNames[(n % 7) + 1]

\* What CronTrigger takes a part for: positions of days, Monday first.  A range that
\* ends before it begins is an error.
Readable(p) == p.star \/ Position(Name(p.lo)) <= Position(Name(p.hi))

Fires(p) ==
  IF p.star
    THEN {Weekdays[i + 1] : i \in {j \in 0..6 : j % p.step = 0}}
    ELSE {Weekdays[i] : i \in Position(Name(p.lo))..Position(Name(p.hi))}

\* Crontab: 0 and 7 are Sunday, a range does not end before it begins.
Valid(p) == p.star \/ (p.lo <= p.hi /\ p.hi <= 7)

Crontab(p) ==
  IF p.star
    THEN {CronDowNames[i + 1] : i \in {j \in 0..6 : j % p.step = 0}}
    ELSE {CronDowNames[(n % 7) + 1] : n \in p.lo..p.hi}

All(S(_), f) == UNION {S(f[i]) : i \in 1..Len(f)}

CronInit == field \in Fields /\ trigger = [state |-> "none", days |-> {}]

\* validate_cron and the scheduler both make the trigger; the first refuses.
MakeCronTrigger ==
  /\ trigger.state = "none"
  /\ trigger' = IF \A i \in 1..Len(field) : Readable(field[i])
                  THEN [state |-> "set", days |-> All(Fires, field)]
                  ELSE [state |-> "refused", days |-> {}]
  /\ UNCHANGED field

CronNext == MakeCronTrigger

CronSpec == CronInit /\ [][CronNext]_cronVars

----------------------------------------------------------------------------
\* Fields of crontab's that mean the same to both: "*" with a step counts from the
\* first day of the week, and 0-7, every day, is the range from Sunday to Sunday.
Common(p) == Valid(p) /\ (IF p.star THEN p.step = 1 ELSE ~(p.lo = 0 /\ p.hi = 7))

\* "With correct crontab day-of-week semantics (0/7=Sunday)" (make_cron_trigger): a
\* schedule that is accepted runs on the days crontab gives its field; and of
\* crontab's fields only ranges from Sunday on, as 0-3, are refused, since in names
\* they would end before they begin.
AsCrontab ==
  /\ (trigger.state = "set" /\ \A i \in 1..Len(field) : Common(field[i]))
       => trigger.days = All(Crontab, field)
  /\ (trigger.state = "refused" /\ \A i \in 1..Len(field) : Valid(field[i]))
       => \E i \in 1..Len(field) : ~field[i].star /\ field[i].lo = 0 /\ field[i].hi \in 1..6
=============================================================================
