---------------------------- MODULE MtpDateTime ----------------------------
(* The dates of MTP (ptp/pack/datetime.rs) and the file times the virtual   *)
(* device writes with them (virtual_device/builders.rs).  A date string is  *)
(* a record of its digit groups and its suffix; the digits themselves are   *)
(* numbers.  An instant is a pair of a day and a second of that day counted *)
(* from the Unix epoch, since the seconds of MTP's ten millennia do not fit *)
(* TLC's integers.                                                          *)
EXTENDS Integers, Sequences, FiniteSets

CONSTANTS
    Spans,      \* the spans of days whose calendar is checked, <<first, last>>
    Seconds,    \* the seconds of a day that instants are taken from
    OffsetMins  \* the UTC offsets dates are written with, in minutes

IsSecond(s) == s \in Int /\ 0 <= s /\ s < 86400
IsOffset(m) == m \in Int /\ -1440 < m /\ m < 1440

ASSUME DateAssumption ==
    /\ Spans \subseteq Int \X Int
    /\ \A s \in Seconds : IsSecond(s)
    /\ \A m \in OffsetMins : IsOffset(m)

VARIABLE dated  \* the sample at hand: a span of days, an instant with an offset, or a string

NoDate == [ok |-> FALSE]
Zoneless == [zone |-> FALSE]
UtcOffset(minutes) == [zone |-> TRUE, minutes |-> minutes]

(* Mutant: the leap rule without its centuries. *)
IsLeapYearJulian(y) == y % 4 = 0

(* is_leap_year, days_in_month. *)
IsLeapYear(y) == (y % 4 = 0 /\ y % 100 # 0) \/ y % 400 = 0

DaysInMonth(y, m) ==
    CASE m \in {1, 3, 5, 7, 8, 10, 12} -> 31
      [] m \in {4, 6, 9, 11}           -> 30
      [] m = 2                         -> IF IsLeapYear(y) THEN 29 ELSE 28
      [] OTHER                         -> 0

(* days_from_civil and civil_from_days.  TLA+'s \div and % round toward     *)
(* minus infinity, which is div_euclid for the positive divisors here.      *)
DaysFromCivil(year, month, day) ==
    LET y   == IF month <= 2 THEN year - 1 ELSE year
        era == y \div 400
        yoe == y - era * 400
        doy == (153 * ((month + 9) % 12) + 2) \div 5 + day - 1
        doe == yoe * 365 + yoe \div 4 - yoe \div 100 + doy
    IN  era * 146097 + doe - 719468

CivilFromDays(days) ==
    LET z   == days + 719468
        era == z \div 146097
        doe == z - era * 146097
        yoe == (doe - doe \div 1460 + doe \div 36524 - doe \div 146096) \div 365
        doy == doe - (365 * yoe + yoe \div 4 - yoe \div 100)
        mp  == (5 * doy + 2) \div 153
        month == IF mp < 10 THEN mp + 3 ELSE mp - 9
    IN  << yoe + era * 400 + (IF month <= 2 THEN 1 ELSE 0),
           month,
           doy - (153 * mp + 2) \div 5 + 1 >>

(* DateTime::is_valid. *)
IsValid(dt) ==
    /\ dt.year \in 0 .. 9999
    /\ dt.day \in 1 .. DaysInMonth(dt.year, dt.month)
    /\ dt.hour \in 0 .. 23 /\ dt.minute \in 0 .. 59 /\ dt.second \in 0 .. 59

(* An instant moved by a number of minutes, with its second kept in a day.  *)
Shift(instant, minutes) ==
    LET s == instant[2] + minutes * 60
    IN  << instant[1] + s \div 86400, s % 86400 >>

Earlier(a, b) == a[1] < b[1] \/ (a[1] = b[1] /\ a[2] <= b[2])

MinUnixSeconds == << -719528, 0 >>     \* 0000-01-01T00:00:00Z
MaxUnixSeconds == << 2932896, 86399 >> \* 9999-12-31T23:59:59Z

(* DateTime::from_unix_seconds. *)
FromUnixSeconds(instant, minutes) ==
    LET local == Shift(instant, minutes)
        civil == CivilFromDays(local[1])
    IN  IF Earlier(MinUnixSeconds, local) /\ Earlier(local, MaxUnixSeconds)
        THEN [ok |-> TRUE, year |-> civil[1], month |-> civil[2], day |-> civil[3],
              hour |-> local[2] \div 3600, minute |-> (local[2] \div 60) % 60,
              second |-> local[2] % 60, offset |-> UtcOffset(minutes)]
        ELSE NoDate

(* DateTime::to_unix_seconds_with_fallback, for a date that parsed. *)
ToUnixSeconds(dt, fallback) ==
    LET own == IF dt.offset.zone THEN dt.offset.minutes ELSE fallback
    IN  Shift(<< DaysFromCivil(dt.year, dt.month, dt.day),
                 dt.hour * 3600 + dt.minute * 60 + dt.second >>, -own)

(* DateTime::format: the digit groups, no tenths, and the suffix Z for UTC  *)
(* or a sign with hours and minutes.                                        *)
NoSuffix == [kind |-> "none"]
Signed(sign, hh, mm) == [kind |-> "signed", sign |-> sign, hh |-> hh, mm |-> mm]

(* Mutant: the sign of the offset is lost. *)
SuffixUnsigned(offset) ==
    CASE ~offset.zone   -> NoSuffix
      [] offset = UtcOffset(0) -> [kind |-> "Z"]
      [] OTHER -> LET a == IF offset.minutes < 0 THEN -offset.minutes ELSE offset.minutes
                  IN  Signed("+", a \div 60, a % 60)

Suffix(offset) ==
    CASE ~offset.zone               -> NoSuffix
      [] offset = UtcOffset(0)      -> [kind |-> "Z"]
      [] offset.zone /\ offset.minutes > 0 ->
            Signed("+", offset.minutes \div 60, offset.minutes % 60)
      [] OTHER -> Signed("-", (-offset.minutes) \div 60, (-offset.minutes) % 60)

Format(dt) ==
    [year |-> dt.year, month |-> dt.month, day |-> dt.day, hour |-> dt.hour,
     minute |-> dt.minute, second |-> dt.second, tenths |-> "none",
     suffix |-> Suffix(dt.offset)]

(* Mutant: minutes and hours of an offset are not checked. *)
ParseSuffixUnchecked(suffix) ==
    CASE suffix.kind = "none" -> [ok |-> TRUE, offset |-> Zoneless]
      [] suffix.kind = "Z"    -> [ok |-> TRUE, offset |-> UtcOffset(0)]
      [] suffix.kind = "signed" ->
            LET total == suffix.hh * 60 + suffix.mm
            IN  [ok |-> TRUE, offset |-> UtcOffset(IF suffix.sign = "-" THEN -total ELSE total)]
      [] OTHER -> NoDate

(* parse_suffix and DateTime::parse: tenths are dropped, a dot without a    *)
(* digit and an unknown suffix are refused.                                 *)
ParseSuffix(suffix) ==
    CASE suffix.kind = "none" -> [ok |-> TRUE, offset |-> Zoneless]
      [] suffix.kind = "Z"    -> [ok |-> TRUE, offset |-> UtcOffset(0)]
      [] suffix.kind = "signed" ->
            IF suffix.hh > 23 \/ suffix.mm > 59 THEN NoDate
            ELSE LET total == suffix.hh * 60 + suffix.mm
                 IN  [ok |-> TRUE,
                      offset |-> UtcOffset(IF suffix.sign = "-" THEN -total ELSE total)]
      [] OTHER -> NoDate

Parse(s) ==
    LET offset == ParseSuffix(s.suffix)
        dt == [ok |-> TRUE, year |-> s.year, month |-> s.month, day |-> s.day,
               hour |-> s.hour, minute |-> s.minute, second |-> s.second,
               offset |-> IF offset.ok THEN offset.offset ELSE Zoneless]
    IN  IF IsValid(dt) /\ s.tenths # "bare dot" /\ offset.ok THEN dt ELSE NoDate

(* pack_file_time: the virtual device writes a file's time on its own       *)
(* clock, with or without the offset.                                       *)
PackFileTime(instant, minutes, includeOffset) ==
    LET dt == FromUnixSeconds(instant, minutes)
    IN  IF ~dt.ok THEN [kind |-> "empty"]
        ELSE [kind |-> "text",
              text |-> Format([dt EXCEPT !.offset = IF includeOffset THEN @ ELSE Zoneless])]

(* The samples: days; a file time with the device's clock; a string a      *)
(* device may send.                                                         *)
Instants == { << d, s >> : d \in {-719529, -719528, -1, 0, 11016, 2932896, 2932897}, s \in Seconds }

SentSuffixes ==
    { NoSuffix, [kind |-> "Z"], [kind |-> "junk"] }
        \cup { Signed(g, h, m) : g \in {"+", "-"}, h \in {0, 5, 23, 24}, m \in {0, 59, 60} }

Tenths == {"none", "some", "bare dot"}

SentDates ==
    [year : {0, 1900, 2000, 2023, 9999}, month : {0, 2, 4, 13}, day : {0, 28, 29, 30, 31},
     hour : {23, 24}, minute : {59, 60}, second : {0, 60}, tenths : Tenths, suffix : SentSuffixes]

DateInit ==
    \/ \E span \in Spans : dated = [is |-> "days", first |-> span[1], last |-> span[2]]
    \/ \E i \in Instants, m \in OffsetMins, own \in BOOLEAN :
            dated = [is |-> "file time", at |-> i, minutes |-> m, own |-> own]
    \/ \E s \in SentDates : dated = [is |-> "text", text |-> s]

(* A sample is a sample: nothing happens to it. *)
DateSpec == DateInit /\ [][UNCHANGED dated]_dated

(* ---- Properties ---------------------------------------------------------- *)

NextDate(c) ==
    IF c[3] < DaysInMonth(c[1], c[2]) THEN << c[1], c[2], c[3] + 1 >>
    ELSE IF c[2] < 12 THEN << c[1], c[2] + 1, 1 >>
    ELSE << c[1] + 1, 1, 1 >>

DayIsGregorian(d) ==
    LET c == CivilFromDays(d)
    IN  /\ c[2] \in 1 .. 12 /\ c[3] \in 1 .. DaysInMonth(c[1], c[2])
        /\ DaysFromCivil(c[1], c[2], c[3]) = d
        /\ CivilFromDays(d + 1) = NextDate(c)

(* The calendar is the Gregorian one: the date of a day is a real date, its *)
(* day count is that day again, and the date of the next day is the next    *)
(* date (days_from_civil, civil_from_days and days_in_month agree).         *)
CalendarIsGregorian ==
    dated.is = "days" => \A d \in dated.first .. dated.last : DayIsGregorian(d)

HasFourDigits(day) == -719528 <= day /\ day <= 2932896   \* its year does

FileTimeSurvives(instant, minutes, own) ==
    LET sent == PackFileTime(instant, minutes, own)
        local == Shift(instant, minutes)
    IN  IF sent.kind = "empty" THEN ~HasFourDigits(local[1])
        ELSE LET dt == Parse(sent.text)
             IN  dt.ok /\ ToUnixSeconds(dt, minutes) = instant

(* A file time the virtual device writes is read back as the same instant   *)
(* by a host that takes zoneless dates to be on the device's clock          *)
(* (pack_file_time, parse, to_unix_seconds_with_fallback); the device       *)
(* writes no date exactly when its own clock's year has not four digits.    *)
FileTimesSurvive ==
    dated.is = "file time" => FileTimeSurvives(dated.at, dated.minutes, dated.own)

WithoutTenths(text) == [text EXCEPT !.tenths = "none"]
InUtc(text) == [text EXCEPT !.suffix = [kind |-> "Z"]]

TextIsReal(text) ==
    LET dt == Parse(text)
        s  == text.suffix
    IN  dt.ok =>
          /\ IsValid(dt) /\ Parse(Format(dt)) = dt
          /\ \/ Format(dt) = WithoutTenths(text)
             \/ /\ s.kind = "signed" /\ s.hh = 0 /\ s.mm = 0
                /\ Format(dt) = InUtc(WithoutTenths(text))

(* Whatever a device sends, a date the host accepts is a real one, and the  *)
(* host writes it as it came, but for its tenths and for a zero offset,     *)
(* which it writes as Z (DateTime::parse and DateTime::format).             *)
ParsedDatesAreReal == dated.is = "text" => TextIsReal(dated.text)

(* Dates mean the same instant on both sides: the calendar is right, file   *)
(* times survive the trip, and what is parsed is a date.                    *)
DatesAreReal == CalendarIsGregorian /\ FileTimesSurvive /\ ParsedDatesAreReal
=============================================================================
