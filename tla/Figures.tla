------------------------------ MODULE Figures ------------------------------
(***************************************************************************)
(* The figures in a row: what a bank writes for a month, a date and a      *)
(* rate, and what its crawler makes of the text: the parse...Month,        *)
(* parse...Period, parse...Date and parse...Rate functions of              *)
(* internal/app/crawler/<bank>.                                            *)
(*                                                                         *)
(* A page is published, months go by, and the crawler reads the page.  The *)
(* text is the numbers that are written: a two-digit year is a number      *)
(* below 100, a month is 1 to 12 whether it is written in digits or by its *)
(* name, and 13 is a misprint or an unknown word.  Month m of year y has   *)
(* the serial number 12 * y + m - 1.                                       *)
(***************************************************************************)
EXTENDS Naturals, Sequences

CONSTANTS
  Sources,      \* the lists and tables read
  Starts,       \* serial numbers: when the page may be published
  MaxWait,      \* bound on the months until it is crawled
  Dates,        \* what may be written: [y, m, d]
  RateTexts     \* [whole, mark, dec, percent]: "2,54 %" is 2, comma, <<5, 4>>, 1

Averages == {"SEB", "Handelsbanken", "SBAB", "Hypoteket", "Bluestep", "JAK", "Marginalen",
             "Nordax", "ICA", "Ikano", "Nordea", "Danske", "Alandsbanken", "Skandia",
             "Swedbank", "Svea", "Stabelo", "LF_PDF", "Landshypotek", "Landshypotek_latest"}

Lists == {"SEB_list", "SBAB_list", "Skandia_list", "Hypoteket_list", "Nordea_list", "ICA_list",
          "Danske_list", "LF_list", "Alandsbanken_list", "Swedbank_list",
          "Landshypotek_list", "Nordnet_list"}

ASSUME SourcesKnown == Sources \subseteq Averages \cup Lists
ASSUME StartsNat == Starts \subseteq Nat /\ MaxWait \in Nat
ASSUME DatesInDigits ==
  /\ Dates \subseteq [y : Nat, m : Nat, d : Nat]
  /\ \A date \in Dates : date.y < 10000 /\ date.m < 100 /\ date.d < 100
ASSUME RatesKnown ==
  RateTexts \subseteq [whole : Nat, mark : {"comma", "point", "no", "dash"}, dec : Seq(0 .. 9), percent : Nat]

VARIABLES
  source,     \* which crawler, and which of its extractions
  now,        \* the clock: the serial number of this month
  page,       \* the row: [date, rate, at], published in the month `at`
  set         \* the set read from it; None when it is skipped

vars == <<source, now, page, set>>

Serial(y, m) == 12 * y + m - 1
Year(s) == s \div 12
Month(s) == (s % 12) + 1

None == [is |-> "none"]
Some(value) == [is |-> "some", value |-> value]
When(condition, value) == IF condition THEN Some(value) ELSE None

-----------------------------------------------------------------------------
(* Reference months *)

Between(n, low, high) == low <= n /\ n <= high
IsMonth(m) == m \in 1 .. 12

\* Four digits of a year and a month that is checked, by the expression itself,
\* by an if, or because only the names of the months are looked up.
Checked(y, m) == When(IsMonth(m), Serial(y, m))

ParseHandelsbankenPeriod(y, m) == Checked(y, m)
ParseSBABAvgPeriod(y, m)       == Checked(y, m)
ParseHypoteketPeriod(y, m)     == Checked(y, m)
ParseBluestepMonth(y, m)       == Checked(y, m)
ParseJAKMonth(y, m)            == Checked(y, m)
ParseMarginalenPeriod(y, m)    == Checked(y, m)
ParseNordaxMonth(y, m)         == Checked(y, m)
ParseAlandsbankAvgMonth(y, m)  == Checked(y, m)
ParseSkandiaMonthYear(y, m)    == Checked(y, m)
ParseSwedbankHistoricMonth(y, m) == Checked(y, m)
ParseSveaMonth(y, m)           == Checked(y, m)
ParseLandshypotekHistoricalMonth(y, m) == Checked(y, m)

\* No check: the misprint becomes a month 13, which is stored as it is.
ParseICAAvgMonth(y, m)         == Some(Serial(y, m))
ParseIkanoBankAvgMonth(y, m)   == Some(Serial(y, m))

\* The expressions look for 20 and two digits.
ParseLFPDFDate(y, m)           == When(y \div 100 = 20 /\ IsMonth(m), Serial(y, m))
StabeloMonth(y, m)             == When(y \div 100 = 20 /\ IsMonth(m), Serial(y, m))

ParseDanskeReferenceMonth(y, m) == When(IsMonth(m) /\ Between(y, 1940, 2100), Serial(y, m))

\* Years of two digits.
Century(yy, firstOf1900s) == IF yy < firstOf1900s THEN 2000 + yy ELSE 1900 + yy

\* SEB: the number YYMM is printed without leading zeros, and must have four digits.
ParseReferenceMonth(number) ==
  When(Between(number, 1000, 9999) /\ IsMonth(number % 100),
       Serial(Century(number \div 100, 40), number % 100))

\* Faulty variant: the year is always the clock's.
ParseLandshypotekThisYear(m, clock) == When(IsMonth(m), Serial(Year(clock), m))

\* Landshypotek, the latest month: its name alone, and the year from the clock.
ParseLandshypotekAvgMonth(m, clock) ==
  When(IsMonth(m), Serial(IF m > Month(clock) THEN Year(clock) - 1 ELSE Year(clock), m))

-----------------------------------------------------------------------------
(* Dates *)

Leap(y) == y % 4 = 0 /\ (y % 100 # 0 \/ y % 400 = 0)

DaysIn(y, m) ==
  IF m = 2 THEN IF Leap(y) THEN 29 ELSE 28
  ELSE IF m \in {4, 6, 9, 11} THEN 30 ELSE 31

IsDate(d) == IsMonth(d.m) /\ d.d \in 1 .. DaysIn(d.y, d.m)

Day(s, d) == [month |-> s, day |-> d]

\* Faulty variant: a month counts from zero.
TimeDateFromZero(y, m, d) == Day(Serial(y, m) + 1, d)

\* time.Date: a month or a day past the end goes into the next year or month.
TimeDate(y, m, d) ==
  LET s == Serial(y, m)
      days == DaysIn(Year(s), Month(s))
  IN  IF d > days THEN Day(s + 1, d - days) ELSE Day(s, d)

\* time.Parse refuses what is not in the calendar.
TimeParse(d) == When(IsDate(d), Day(Serial(d.y, d.m), d.d))

ParseSEBChangeDate(d)      == TimeParse(d)
SBABValidFrom(d)           == TimeParse(d)
ParseSkandiaHTMLDate(d)    == TimeParse(d)
ExtractValidFromDate(d)    == TimeParse(d)

\* The expressions check the month and the day by themselves, not together ...
TwoDigitsEach(d) == When(IsMonth(d.m) /\ d.d \in 1 .. 31, TimeDate(d.y, d.m, d.d))

ParseNordeaDate(d)           == TwoDigitsEach(d)
ParseICADate(d)              == TwoDigitsEach(d)
ParseDanskeBankChangeDate(d) == TwoDigitsEach(d)

\* ... or the digits alone, and the name of the month.
ParseLFListDate(d)           == Some(TimeDate(d.y, d.m, d.d))
ParseAlandsbankListDate(d)   == Some(TimeDate(d.y, d.m, d.d))
ParseSwedbankListDate(d)     == When(IsMonth(d.m), TimeDate(d.y, d.m, d.d))
ParseLandshypotekChangeDate(d) == When(IsMonth(d.m), TimeDate(d.y, d.m, d.d))

\* The workbook's MM-DD-YY: only the month of the date is used.
ParseNordeaHistoricDate(mm, dd, yy) == Some(TimeDate(Century(yy, 90), mm, dd).month)

-----------------------------------------------------------------------------
(* Rates, in thousandths of a per cent *)

Dash == [whole |-> 0, mark |-> "dash", dec |-> <<>>, percent |-> 0]    \* "-", "n/a" or empty

Digit(dec, i) == IF i <= Len(dec) THEN dec[i] ELSE 0
Thousandths(dec) == 100 * Digit(dec, 1) + 10 * Digit(dec, 2) + Digit(dec, 3)

\* strconv.ParseFloat, after a comma was replaced.
ParseFloat(r) == 1000 * r.whole + Thousandths(r.dec)

HasDecimals(r) == r.mark \in {"comma", "point"} /\ r.dec # <<>>

\* Faulty variant: the comma is removed, not replaced.
PlainRateCommaLost(r) ==
  When(r.mark # "dash", IF r.mark = "comma" THEN 1000 * (100 * r.whole + Thousandths(r.dec) \div 10)
                     ELSE ParseFloat(r))

\* Faulty variant: a "%" is left in the text.
PlainRatePercentKept(r) == When(r.mark # "dash" /\ r.percent = 0, ParseFloat(r))

\* Every "%" is removed and every comma replaced.
PlainRate(r) == When(r.mark # "dash", ParseFloat(r))

ParseNordeaRate(r)       == PlainRate(r)
ParseSwedbankRate(r)     == PlainRate(r)
ParseICARate(r)          == PlainRate(r)
ParseIkanoBankRate(r)    == PlainRate(r)
ParseAlandsbankRate(r)   == PlainRate(r)
ParseLFRate(r)           == PlainRate(r)
ParseLandshypotekRate(r) == PlainRate(r)

\* One "%" at most, two if one is trimmed before, three if two are.
RateUpTo(r, percents) == When(r.mark # "dash" /\ r.percent <= percents, ParseFloat(r))

ParseBluestepRate(r)     == RateUpTo(r, 1)
ParseMarginalenRate(r)   == RateUpTo(r, 1)
ParseNordaxRate(r)       == RateUpTo(r, 1)
ParseSveaRate(r)         == RateUpTo(r, 2)
ParseJAKRate(r)          == RateUpTo(r, 3)

\* Decimals are part of what the expression looks for.
ParseNominalRate(r)      == When(HasDecimals(r) /\ r.percent <= 1, ParseFloat(r))
ParseSkandiaHTMLRate(r)  == When(HasDecimals(r) /\ r.mark = "comma" /\ r.percent >= 1, ParseFloat(r))
ParseStabeloRate(r)      == When(HasDecimals(r), ParseFloat(r))
LFPDFRate(r)             == When(HasDecimals(r) /\ r.mark = "comma" /\ r.percent = 0, ParseFloat(r))

\* The digits of the decimals read as one number: "05" is 5.
AsNumber(dec) ==
  IF Len(dec) = 0 THEN 0
  ELSE IF Len(dec) = 1 THEN dec[1]
  ELSE IF Len(dec) = 2 THEN 10 * dec[1] + dec[2]
  ELSE 100 * dec[1] + 10 * dec[2] + dec[3]

\* decDivisor: the least of 10, 100, 1000 that is larger.
Divisor(n) == IF n < 10 THEN 10 ELSE IF n < 100 THEN 100 ELSE 1000

ParseNordnetRate(r) ==
  LET n == AsNumber(r.dec)
  IN  When(HasDecimals(r) /\ r.mark = "comma", 1000 * r.whole + n * (1000 \div Divisor(n)))

JSONSources ==
  {"SEB", "SEB_list", "Handelsbanken", "SBAB", "SBAB_list", "Hypoteket", "Hypoteket_list"}

\* A number of a JSON document, or a string of the same form.
JSONNumber(r) == When(r.mark \in {"point", "no"} /\ r.percent = 0, ParseFloat(r))

-----------------------------------------------------------------------------
(* What each crawler calls on the row with d and r *)

ReadMonth(s, d, clock) ==
  IF s = "SEB" THEN ParseReferenceMonth(100 * (d.y % 100) + d.m)
  ELSE IF s = "Handelsbanken" THEN ParseHandelsbankenPeriod(d.y, d.m)
  ELSE IF s = "SBAB" THEN ParseSBABAvgPeriod(d.y, d.m)
  ELSE IF s = "Hypoteket" THEN ParseHypoteketPeriod(d.y, d.m)
  ELSE IF s = "Bluestep" THEN ParseBluestepMonth(d.y, d.m)
  ELSE IF s = "JAK" THEN ParseJAKMonth(d.y, d.m)
  ELSE IF s = "Marginalen" THEN ParseMarginalenPeriod(d.y, d.m)
  ELSE IF s = "Nordax" THEN ParseNordaxMonth(d.y, d.m)
  ELSE IF s = "ICA" THEN ParseICAAvgMonth(d.y, d.m)
  ELSE IF s = "Ikano" THEN ParseIkanoBankAvgMonth(d.y, d.m)
  ELSE IF s = "Nordea" THEN ParseNordeaHistoricDate(d.m, d.d, d.y % 100)
  ELSE IF s = "Danske" THEN ParseDanskeReferenceMonth(d.y, d.m)
  ELSE IF s = "Alandsbanken" THEN ParseAlandsbankAvgMonth(d.y, d.m)
  ELSE IF s = "Skandia" THEN ParseSkandiaMonthYear(d.y, d.m)
  ELSE IF s = "Swedbank" THEN ParseSwedbankHistoricMonth(d.y, d.m)
  ELSE IF s = "Svea" THEN ParseSveaMonth(d.y, d.m)
  ELSE IF s = "Stabelo" THEN StabeloMonth(d.y, d.m)
  ELSE IF s = "LF_PDF" THEN ParseLFPDFDate(d.y, d.m)
  ELSE IF s = "Landshypotek" THEN ParseLandshypotekHistoricalMonth(d.y, d.m)
  ELSE ParseLandshypotekAvgMonth(d.m, clock)

ReadDate(s, d) ==
  IF s = "SEB_list" THEN ParseSEBChangeDate(d)
  ELSE IF s = "SBAB_list" THEN SBABValidFrom(d)
  ELSE IF s = "Skandia_list" THEN ParseSkandiaHTMLDate(d)
  ELSE IF s = "Hypoteket_list" THEN ExtractValidFromDate(d)
  ELSE IF s = "Nordea_list" THEN ParseNordeaDate(d)
  ELSE IF s = "ICA_list" THEN ParseICADate(d)
  ELSE IF s = "Danske_list" THEN ParseDanskeBankChangeDate(d)
  ELSE IF s = "LF_list" THEN ParseLFListDate(d)
  ELSE IF s = "Alandsbanken_list" THEN ParseAlandsbankListDate(d)
  ELSE IF s = "Swedbank_list" THEN ParseSwedbankListDate(d)
  ELSE IF s = "Landshypotek_list" THEN ParseLandshypotekChangeDate(d)
  ELSE None

ReadRate(s, r) ==
  IF s \in JSONSources THEN JSONNumber(r)
  ELSE IF s = "Bluestep" THEN ParseBluestepRate(r)
  ELSE IF s = "JAK" THEN ParseJAKRate(r)
  ELSE IF s = "Marginalen" THEN ParseMarginalenRate(r)
  ELSE IF s = "Nordax" THEN ParseNordaxRate(r)
  ELSE IF s \in {"ICA", "ICA_list"} THEN ParseICARate(r)
  ELSE IF s = "Ikano" THEN ParseIkanoBankRate(r)
  ELSE IF s \in {"Nordea", "Nordea_list"} THEN ParseNordeaRate(r)
  ELSE IF s \in {"Danske", "Danske_list"} THEN ParseNominalRate(r)
  ELSE IF s \in {"Alandsbanken", "Alandsbanken_list"} THEN ParseAlandsbankRate(r)
  ELSE IF s \in {"Skandia", "Skandia_list"} THEN ParseSkandiaHTMLRate(r)
  ELSE IF s \in {"Swedbank", "Swedbank_list"} THEN ParseSwedbankRate(r)
  ELSE IF s = "Svea" THEN ParseSveaRate(r)
  ELSE IF s = "Stabelo" THEN ParseStabeloRate(r)
  ELSE IF s = "LF_PDF" THEN LFPDFRate(r)
  ELSE IF s = "LF_list" THEN ParseLFRate(r)
  ELSE IF s \in {"Landshypotek", "Landshypotek_latest", "Landshypotek_list"} THEN ParseLandshypotekRate(r)
  ELSE ParseNordnetRate(r)

\* These skip a row whose change date does not parse; the others store it without.
DateNeeded == {"SEB_list", "Nordea_list", "ICA_list", "Danske_list"}

-----------------------------------------------------------------------------
(* Publication, the passing of months, and the crawl *)

Unwritten == [date |-> [y |-> 0, m |-> 0, d |-> 0], rate |-> Dash, at |-> 0]
NotYet == [is |-> "unread"]
Unread == page # Unwritten /\ set = NotYet

Init ==
  /\ source \in Sources
  /\ now \in Starts
  /\ page = Unwritten
  /\ set = NotYet

\* The bank writes a row about this month or one before.  The latest average is
\* at most some months old when it is published.
Publish(date, rate) ==
  /\ page = Unwritten
  /\ Serial(date.y, date.m) <= now + 1
  /\ source = "Landshypotek_latest" => IsMonth(date.m) /\ Serial(date.y, date.m) \in (now - 2) .. now
  /\ page' = [date |-> date, rate |-> rate, at |-> now]
  /\ UNCHANGED <<source, now, set>>

NextMonth ==
  /\ Unread /\ now < page.at + MaxWait
  /\ now' = now + 1
  /\ UNCHANGED <<source, page, set>>

\* Faulty variant: no continue after a month that does not parse.
CrawlAverageUnchecked ==
  /\ Unread /\ source \in Averages
  /\ LET month == ReadMonth(source, page.date, now)
         rate  == ReadRate(source, page.rate)
     IN  set' = IF rate = None THEN None ELSE Some([date |-> month, rate |-> rate.value])
  /\ UNCHANGED <<source, now, page>>

\* A row of average rates: its month and a rate.
CrawlAverage ==
  /\ Unread /\ source \in Averages
  /\ LET month == ReadMonth(source, page.date, now)
         rate  == ReadRate(source, page.rate)
     IN  set' = IF month = None \/ rate = None THEN None
                ELSE Some([date |-> month, rate |-> rate.value])
  /\ UNCHANGED <<source, now, page>>

\* A row of list rates: the date of the last change and a rate.
CrawlList ==
  /\ Unread /\ source \in Lists
  /\ LET date == ReadDate(source, page.date)
         rate == ReadRate(source, page.rate)
     IN  set' = IF rate = None \/ (date = None /\ source \in DateNeeded) THEN None
                ELSE Some([date |-> date, rate |-> rate.value])
  /\ UNCHANGED <<source, now, page>>

Crawled == set # NotYet /\ UNCHANGED vars

Next ==
  \/ \E date \in Dates, rate \in RateTexts : Publish(date, rate)
  \/ NextMonth
  \/ CrawlAverage
  \/ CrawlList
  \/ Crawled

Spec == Init /\ [][Next]_vars

-----------------------------------------------------------------------------
(* Properties *)

Stored == set \notin {NotYet, None}
StoredMonth == set.value.date.value

\* Type invariant; no average without its month.
TypeOK ==
  /\ source \in Sources
  /\ now \in Nat
  /\ page # Unwritten => page.at \in Starts /\ now \in page.at .. page.at + MaxWait
  /\ Stored => /\ page # Unwritten
               /\ set.value.rate \in Nat
               /\ source \in Averages => set.value.date # None

\* The years that the text of a month can tell apart, and that the crawler accepts.
InRange(s, y) ==
  IF s = "SEB" THEN Between(y, 1940, 2039)
  ELSE IF s = "Nordea" THEN Between(y, 1990, 2089)
  ELSE IF s = "Danske" THEN Between(y, 1940, 2100)
  ELSE IF s \in {"Stabelo", "LF_PDF"} THEN Between(y, 2000, 2099)
  ELSE TRUE

\* These do not check the month; Nordea's becomes January of the next year.
Unchecked == {"ICA", "Ikano", "Nordea"}

Age(d) == now - Serial(d.y, d.m)

\* An average is stored for the month it was published for, however long after
\* its publication the page is crawled, and a misprinted month is not stored.
\* The limits: the range of years, and for the name of a month alone a page that
\* is less than a year old.
MonthAsPublished ==
  LET d == page.date
  IN  Stored /\ source \in Averages =>
        /\ IsMonth(d.m) \/ source \in Unchecked
        /\ IsDate(d) /\ InRange(source, d.y) /\ (source = "Landshypotek_latest" => Age(d) < 12)
             => StoredMonth = Serial(d.y, d.m)

\* A rate the way the source writes it.
Usual(r) ==
  IF source \in JSONSources THEN r.mark = "point" /\ r.percent = 0
  ELSE r.mark = "comma" /\ r.dec # <<>> /\ r.percent = IF source \in {"LF_PDF", "Nordnet_list"} THEN 0 ELSE 1

\* No row is lost: what is written the bank's way is stored.  The exception:
\* SEB's months of the years 2000 to 2009, whose number has lost its zeros.
NoRowLost ==
  set = None /\ IsDate(page.date) /\ Usual(page.rate) /\ InRange(source, page.date.y)
    => source = "SEB" /\ Between(page.date.y, 2000, 2009)

\* The date of a change is the one published.  A day that its month does not
\* have is refused where time.Parse reads the date, and moved otherwise.
ChangeDateAsPublished ==
  LET d == page.date
      date == set.value.date
  IN  Stored /\ source \in Lists /\ date # None =>
        IF IsDate(d) THEN date.value = Day(Serial(d.y, d.m), d.d)
        ELSE source \notin {"SEB_list", "SBAB_list", "Skandia_list", "Hypoteket_list"}

\* A rate is stored with the value it was published with, whatever the number of
\* its decimals.  The exception: Nordnet's decimals that begin with a zero.
RateAsPublished ==
  Stored /\ (source = "Nordnet_list" => page.rate.dec[1] # 0)
    => set.value.rate = 1000 * page.rate.whole + Thousandths(page.rate.dec)

-----------------------------------------------------------------------------
(* What the repository says of the program, and the code does not keep *)

\* nordnet.go:174: parseNordnetRate "returns the nominal rate" of a string like
\* "2,54 (2,57)".
NominalRateReturned ==
  Stored /\ source = "Nordnet_list"
    => set.value.rate = 1000 * page.rate.whole + Thousandths(page.rate.dec)
=============================================================================
