--------------------------- MODULE Figures_proofs ---------------------------
(***************************************************************************)
(* Proofs about Figures, for every list of dates and rates a bank may      *)
(* write, every month of publication and every wait until it is crawled.   *)
(*                                                                         *)
(* The inductive invariant says what a set is made of: the functions read  *)
(* the text that was published, with the clock of the crawl.  The          *)
(* properties then follow from lemmas about the functions alone.           *)
(***************************************************************************)
EXTENDS Figures, Integers, TLAPS

\* A set is what the crawler's functions make of the row; a row is skipped when
\* one of them cannot read it.
ReadFromPage ==
  set # NotYet =>
    /\ page # Unwritten
    /\ page.date \in Dates /\ page.rate \in RateTexts
    /\ source = "Landshypotek_latest" => IsMonth(page.date.m) /\ Serial(page.date.y, page.date.m) <= now
    /\ set # None =>
         /\ ReadRate(source, page.rate) # None /\ set.value.rate = ReadRate(source, page.rate).value
         /\ source \in Averages => set.value.date = ReadMonth(source, page.date, now) /\ set.value.date # None
         /\ source \in Lists => set.value.date = ReadDate(source, page.date)
    /\ set = None =>
         \/ ReadRate(source, page.rate) = None
         \/ source \in Averages /\ ReadMonth(source, page.date, now) = None
         \/ source \in DateNeeded /\ ReadDate(source, page.date) = None

\* The row while it waits.
Published ==
  page # Unwritten =>
    /\ page.date \in Dates /\ page.rate \in RateTexts
    /\ page.at \in Starts /\ now \in page.at .. page.at + MaxWait
    /\ source = "Landshypotek_latest" => IsMonth(page.date.m) /\ Serial(page.date.y, page.date.m) <= now

IInv ==
  /\ source \in Sources
  /\ now \in Nat
  /\ page = Unwritten => now \in Starts /\ set = NotYet
  /\ Published
  /\ ReadFromPage

-----------------------------------------------------------------------------
(* The invariant is inductive *)

LEMMA InitIInv == Init => IInv
BY StartsNat DEF Init, IInv, Published, ReadFromPage, NotYet

LEMMA NextIInv == IInv /\ [Next]_vars => IInv'
<1> SUFFICES ASSUME IInv, [Next]_vars PROVE IInv'
  OBVIOUS
<1>1. ASSUME NEW date \in Dates, NEW rate \in RateTexts, Publish(date, rate) PROVE IInv'
  <2>1. page' = [date |-> date, rate |-> rate, at |-> now] /\ UNCHANGED <<source, now, set>>
    BY <1>1 DEF Publish
  <2>2. now \in Starts /\ set = NotYet /\ now \in Nat /\ source \in Sources
    BY <1>1 DEF Publish, IInv
  <2>3. ASSUME source = "Landshypotek_latest"
        PROVE  IsMonth(date.m) /\ Serial(date.y, date.m) <= now
    <3>1. IsMonth(date.m) /\ Serial(date.y, date.m) \in (now - 2) .. now
      BY <1>1, <2>3 DEF Publish
    <3> QED
      BY <2>2, <3>1
  <2>4. page'.date = date /\ page'.rate = rate /\ page'.at = now
    BY <2>1
  <2>5. Published'
    <3>1. now' \in page'.at .. page'.at + MaxWait
      BY <2>1, <2>2, <2>4, StartsNat
    <3>2. page.date' = date /\ page.rate' = rate /\ page.at' = now /\ source' = source /\ now' = now
      BY <2>1, <2>4
    <3>3. (source = "Landshypotek_latest" => IsMonth(page.date.m) /\ Serial(page.date.y, page.date.m) <= now)'
      BY <2>3, <3>2, Zenon
    <3> QED
      BY <2>2, <3>1, <3>2, <3>3 DEF Published
  <2> QED
    BY <1>1, <2>1, <2>2, <2>5 DEF IInv, ReadFromPage, Publish
<1>2. CASE NextMonth
  <2>1. now' = now + 1 /\ now < page.at + MaxWait /\ UNCHANGED <<source, page, set>>
    BY <1>2 DEF NextMonth
  <2>2. page # Unwritten /\ set = NotYet /\ now \in Nat /\ source \in Sources /\ Published
    BY <1>2 DEF NextMonth, Unread, IInv
  <2>3. Published'
    <3>1. page' = page /\ source' = source
      BY <2>1
    <3>2. page.at \in Starts /\ now \in page.at .. page.at + MaxWait /\ page.date \in Dates
      BY <2>2 DEF Published
    <3>3. now' \in page'.at .. page'.at + MaxWait
      <4>1. page.at \in Nat /\ MaxWait \in Nat
        BY <3>2, StartsNat
      <4> QED
        BY <2>1, <3>1, <3>2, <4>1
    <3>4. Serial(page.date.y, page.date.m) <= now => Serial(page.date.y, page.date.m) <= now + 1
      <4>1. page.date.y \in Nat /\ page.date.m \in Nat
        BY <3>2, DatesInDigits
      <4>2. Serial(page.date.y, page.date.m) \in Int
        BY <4>1 DEF Serial
      <4> QED
        BY <2>2, <4>2
    <3>5. (source = "Landshypotek_latest" => IsMonth(page.date.m) /\ Serial(page.date.y, page.date.m) <= now)'
      BY <2>1, <2>2, <3>1, <3>4, Zenon DEF Published
    <3> QED
      BY <2>1, <2>2, <3>1, <3>3, <3>5, Zenon DEF Published
  <2> QED
    BY <2>1, <2>2, <2>3 DEF IInv, ReadFromPage
<1>3. CASE CrawlAverage
  <2>1. UNCHANGED <<source, now, page>> /\ source \in Averages /\ page # Unwritten
    BY <1>3 DEF CrawlAverage, Unread
  <2>2. Published /\ Published'
    BY <2>1 DEF IInv, Published, IsMonth, Serial
  <2>3. CASE ReadMonth(source, page.date, now) = None \/ ReadRate(source, page.rate) = None
    <3>1. set' = None
      BY <1>3, <2>3 DEF CrawlAverage
    <3> QED
      BY <2>1, <2>2, <2>3, <3>1 DEF IInv, ReadFromPage, Published, None, NotYet
  <2>4. CASE ~(ReadMonth(source, page.date, now) = None \/ ReadRate(source, page.rate) = None)
    <3>1. set' = Some([date |-> ReadMonth(source, page.date, now), rate |-> ReadRate(source, page.rate).value])
      BY <1>3, <2>4 DEF CrawlAverage
    <3>2. source \notin Lists
      BY <2>1 DEF Averages, Lists
    <3> QED
      BY <2>1, <2>2, <2>4, <3>1, <3>2 DEF IInv, ReadFromPage, Published, Some, None, NotYet
  <2> QED
    BY <2>3, <2>4
<1>4. CASE CrawlList
  <2>1. UNCHANGED <<source, now, page>> /\ source \in Lists /\ page # Unwritten
    BY <1>4 DEF CrawlList, Unread
  <2>2. Published /\ Published'
    BY <2>1 DEF IInv, Published, IsMonth, Serial
  <2> DEFINE Skipped == \/ ReadRate(source, page.rate) = None
                        \/ ReadDate(source, page.date) = None /\ source \in DateNeeded
  <2>3. CASE Skipped
    <3>1. set' = None
      BY <1>4, <2>3 DEF CrawlList
    <3> QED
      BY <2>1, <2>2, <2>3, <3>1 DEF IInv, ReadFromPage, Published, None, NotYet
  <2>4. CASE ~Skipped
    <3>1. set' = Some([date |-> ReadDate(source, page.date), rate |-> ReadRate(source, page.rate).value])
      BY <1>4, <2>4 DEF CrawlList
    <3>2. source \notin Averages
      BY <2>1 DEF Averages, Lists
    <3> QED
      BY <2>1, <2>2, <2>4, <3>1, <3>2 DEF IInv, ReadFromPage, Published, Some, None, NotYet
  <2> QED
    BY <2>3, <2>4
<1>5. CASE Crawled \/ UNCHANGED vars
  BY <1>5 DEF Crawled, vars, IInv, Published, ReadFromPage
<1> QED
  BY <1>1, <1>2, <1>3, <1>4, <1>5 DEF Next

THEOREM SpecIInv == Spec => []IInv
<1>1. Init => IInv
  BY InitIInv
<1>2. IInv /\ [Next]_vars => IInv'
  BY NextIInv
<1> QED
  BY <1>1, <1>2, PTL DEF Spec

-----------------------------------------------------------------------------
(* Months *)

\* The serial number of a month gives its year and its month back.
LEMMA SerialParts ==
  ASSUME NEW y \in Nat, NEW m \in 1 .. 12
  PROVE  /\ Serial(y, m) \in Nat
         /\ Year(Serial(y, m)) = y
         /\ Month(Serial(y, m)) = m
BY SMTT(30) DEF Serial, Year, Month

LEMMA SerialWhole ==
  ASSUME NEW s \in Nat
  PROVE  /\ Year(s) \in Nat /\ Month(s) \in 1 .. 12
         /\ Serial(Year(s), Month(s)) = s
BY SMTT(30) DEF Serial, Year, Month

\* A day that its month has is not moved by time.Date.
LEMMA TimeDateOfDate ==
  ASSUME NEW y \in Nat, NEW m \in 1 .. 12, NEW d \in 1 .. DaysIn(y, m)
  PROVE  TimeDate(y, m, d) = Day(Serial(y, m), d)
<1>1. DaysIn(y, m) \in Nat
  BY DEF DaysIn
<1>2. ~(d > DaysIn(y, m))
  BY <1>1
<1> QED
  BY <1>2, SerialParts DEF TimeDate

\* Two digits of a year in a window of a hundred years tell the year.
LEMMA CenturyInWindow ==
  ASSUME NEW first \in Nat, first < 100, NEW y \in Nat, Between(y, 1900 + first, 1999 + first)
  PROVE  Century(y % 100, first) = y
BY SMTT(30) DEF Century, Between

\* A date as it is written.
Date(y, m, day) == [y |-> y, m |-> m, d |-> day]

LEMMA DateParts ==
  ASSUME NEW d \in Dates
  PROVE  \E y, m, day \in Nat : d = Date(y, m, day) /\ m < 100
BY DatesInDigits DEF Date

LEMMA BothRead ==
  ASSUME NEW one \in BOOLEAN, NEW two \in BOOLEAN, NEW value
  PROVE  /\ When(one /\ two, value) \in {None, Some(value)}
         /\ two \/ When(one /\ two, value) = None
BY DEF When

\* The sources whose function checks the month or takes it as it is.
LEMMA MonthInFull ==
  ASSUME NEW s \in Averages \ {"SEB", "Nordea", "Landshypotek_latest"},
         NEW y \in Nat, NEW m \in Nat, NEW day \in Nat, NEW clock
  PROVE  /\ ReadMonth(s, Date(y, m, day), clock) \in {None, Some(Serial(y, m))}
         /\ IsMonth(m) \/ s \in Unchecked \/ ReadMonth(s, Date(y, m, day), clock) = None
<1>1. CASE s \in {"ICA", "Ikano"}
  <2>1. ReadMonth(s, Date(y, m, day), clock) = Some(Serial(y, m))
    BY <1>1 DEF Date, ReadMonth, ParseICAAvgMonth, ParseIkanoBankAvgMonth
  <2> QED
    BY <1>1, <2>1 DEF Unchecked
<1>2. CASE s \in {"LF_PDF", "Stabelo"}
  <2>1. ReadMonth(s, Date(y, m, day), clock) = When(y \div 100 = 20 /\ IsMonth(m), Serial(y, m))
    BY <1>2 DEF Date, ReadMonth, ParseLFPDFDate, StabeloMonth
  <2> QED
    BY <2>1, BothRead
<1>3. CASE s = "Danske"
  <2>1. ReadMonth(s, Date(y, m, day), clock) = When(IsMonth(m) /\ Between(y, 1940, 2100), Serial(y, m))
    BY <1>3 DEF Date, ReadMonth, ParseDanskeReferenceMonth
  <2> QED
    BY <2>1 DEF When
<1>4. CASE s \notin {"ICA", "Ikano", "LF_PDF", "Stabelo", "Danske"}
  <2>1. ReadMonth(s, Date(y, m, day), clock) = Checked(y, m)
    BY <1>4 DEF Date, Averages, ReadMonth,
       ParseHandelsbankenPeriod, ParseSBABAvgPeriod, ParseHypoteketPeriod, ParseBluestepMonth,
       ParseJAKMonth, ParseMarginalenPeriod, ParseNordaxMonth, ParseAlandsbankAvgMonth,
       ParseSkandiaMonthYear, ParseSwedbankHistoricMonth, ParseSveaMonth,
       ParseLandshypotekHistoricalMonth
  <2> QED
    BY <2>1 DEF Checked, When
<1> QED
  BY <1>1, <1>2, <1>3, <1>4

\* SEB's number.
LEMMA MonthOfSEB ==
  ASSUME NEW y \in Nat, NEW m \in Nat, m < 100
  PROVE  LET read == ParseReferenceMonth(100 * (y % 100) + m)
         IN  /\ IsMonth(m) \/ read = None
             /\ Between(y, 1940, 2039) => read \in {None, Some(Serial(y, m))}
<1>1. y % 100 \in Nat /\ y % 100 < 100
  BY SMTT(30)
<1> DEFINE number == 100 * (y % 100) + m
<1>2. number % 100 = m /\ number \div 100 = y % 100
  BY <1>1, SMTT(30)
<1>3. ParseReferenceMonth(number)
        = When(Between(number, 1000, 9999) /\ IsMonth(m), Serial(Century(y % 100, 40), m))
  BY <1>2 DEF ParseReferenceMonth
<1>4. Between(y, 1940, 2039) => Century(y % 100, 40) = y
  BY CenturyInWindow DEF Between
<1> QED
  BY <1>3, <1>4 DEF When

\* The name of a month, read less than a year after it.
LEMMA MonthOfName ==
  ASSUME NEW y \in Nat, NEW m \in 1 .. 12, NEW clock \in Nat,
         Serial(y, m) <= clock, clock - Serial(y, m) < 12
  PROVE  ParseLandshypotekAvgMonth(m, clock) = Some(Serial(y, m))
<1> DEFINE c == Year(clock)
           k == Month(clock)
<1>1. c \in Nat /\ k \in 1 .. 12 /\ clock = 12 * c + k - 1
  BY SerialWhole DEF Serial
<1>2. CASE m > k
  <2>1. y = c - 1
    BY <1>1, <1>2 DEF Serial
  <2> QED
    BY <1>2, <2>1 DEF ParseLandshypotekAvgMonth, When, IsMonth
<1>3. CASE ~(m > k)
  <2>1. 12 * y + m <= 12 * c + k /\ 12 * c + k < 12 * y + m + 12
    BY <1>1 DEF Serial
  <2> HIDE DEF c, k
  <2>2. c < y + 1 /\ y < c + 1
    BY <1>1, <1>3, <2>1, SMTT(30)
  <2>3. y = c
    BY <1>1, <2>2
  <2> USE DEF c, k
  <2> QED
    BY <1>3, <2>3 DEF ParseLandshypotekAvgMonth, When, IsMonth
<1> QED
  BY <1>2, <1>3

\* Nordea's workbook: January 1990 to December 2089.
LEMMA MonthOfNordea ==
  ASSUME NEW y \in Nat, Between(y, 1990, 2089), NEW m \in 1 .. 12, NEW d \in 1 .. DaysIn(y, m)
  PROVE  ParseNordeaHistoricDate(m, d, y % 100) = Some(Serial(y, m))
<1>1. Century(y % 100, 90) = y
  BY CenturyInWindow DEF Between
<1>2. TimeDate(y, m, d) = Day(Serial(y, m), d)
  BY TimeDateOfDate
<1> QED
  BY <1>1, <1>2 DEF ParseNordeaHistoricDate, Day

\* The same for every source.
LEMMA MonthRead ==
  ASSUME NEW s \in Averages, NEW clock \in Nat,
         NEW y \in Nat, NEW m \in Nat, NEW day \in Nat, m < 100,
         ReadMonth(s, Date(y, m, day), clock) # None
  PROVE  /\ IsMonth(m) \/ s \in Unchecked
         /\ IsDate(Date(y, m, day)) /\ InRange(s, y)
            /\ (s = "Landshypotek_latest"
                  => Serial(y, m) <= clock /\ clock - Serial(y, m) < 12)
              => ReadMonth(s, Date(y, m, day), clock) = Some(Serial(y, m))
<1>1. IsDate(Date(y, m, day)) => m \in 1 .. 12 /\ day \in 1 .. DaysIn(y, m)
  BY DEF IsDate, IsMonth, Date
<1>2. CASE s = "SEB"
  <2>1. ReadMonth(s, Date(y, m, day), clock) = ParseReferenceMonth(100 * (y % 100) + m)
    BY <1>2 DEF ReadMonth, Date
  <2>2. InRange(s, y) => Between(y, 1940, 2039)
    BY <1>2 DEF InRange
  <2>3. /\ IsMonth(m) \/ ReadMonth(s, Date(y, m, day), clock) = None
        /\ Between(y, 1940, 2039) => ReadMonth(s, Date(y, m, day), clock) \in {None, Some(Serial(y, m))}
    BY <2>1, MonthOfSEB
  <2> QED
    BY <2>2, <2>3
<1>3. CASE s = "Nordea"
  <2>1. ReadMonth(s, Date(y, m, day), clock) = ParseNordeaHistoricDate(m, day, y % 100)
    BY <1>3 DEF ReadMonth, Date
  <2>2. (InRange(s, y) => Between(y, 1990, 2089)) /\ s \in Unchecked
    BY <1>3 DEF InRange, Unchecked
  <2>3. ASSUME IsDate(Date(y, m, day)), InRange(s, y) PROVE ReadMonth(s, Date(y, m, day), clock) = Some(Serial(y, m))
    <3>1. Between(y, 1990, 2089) /\ m \in 1 .. 12 /\ day \in 1 .. DaysIn(y, m)
      BY <1>1, <2>2, <2>3
    <3>2. ParseNordeaHistoricDate(m, day, y % 100) = Some(Serial(y, m))
      BY <3>1, MonthOfNordea
    <3> QED
      BY <2>1, <3>2
  <2> QED
    BY <2>2, <2>3
<1>4. CASE s = "Landshypotek_latest"
  <2>1. ReadMonth(s, Date(y, m, day), clock) = ParseLandshypotekAvgMonth(m, clock)
    BY <1>4 DEF ReadMonth, Date
  <2>2. IsMonth(m)
    BY <2>1 DEF ParseLandshypotekAvgMonth, When
  <2>3. m \in 1 .. 12
    BY <2>2 DEF IsMonth
  <2>4. Serial(y, m) <= clock /\ clock - Serial(y, m) < 12 => ReadMonth(s, Date(y, m, day), clock) = Some(Serial(y, m))
    BY <2>1, <2>3, MonthOfName
  <2> QED
    BY <1>4, <2>2, <2>4
<1>5. CASE s \notin {"SEB", "Nordea", "Landshypotek_latest"}
  BY <1>5, MonthInFull
<1> QED
  BY <1>2, <1>3, <1>4, <1>5

\* MonthAsPublished: an average is stored under the month it was published for,
\* whatever the text of the bank's months, for every month of publication and
\* every month of the crawl.
THEOREM AveragesKeepTheirMonth == Spec => []MonthAsPublished
<1>1. IInv => MonthAsPublished
  <2> SUFFICES ASSUME IInv, Stored, source \in Averages
               PROVE  LET d == page.date
                      IN  /\ IsMonth(d.m) \/ source \in Unchecked
                          /\ IsDate(d) /\ InRange(source, d.y)
                             /\ (source = "Landshypotek_latest" => Age(d) < 12)
                               => StoredMonth = Serial(d.y, d.m)
    BY DEF MonthAsPublished
  <2> DEFINE month == ReadMonth(source, page.date, now)
  <2>1. now \in Nat /\ page.date \in Dates /\ month # None /\ set.value.date = month
    BY DEF IInv, ReadFromPage, Stored
  <2>2. source = "Landshypotek_latest" => Serial(page.date.y, page.date.m) <= now
    BY DEF IInv, ReadFromPage, Stored
  <2>3. PICK y, m, day \in Nat : page.date = Date(y, m, day) /\ m < 100
    BY <2>1, DateParts
  <2>4. /\ IsMonth(m) \/ source \in Unchecked
        /\ IsDate(page.date) /\ InRange(source, y)
           /\ (source = "Landshypotek_latest" => now - Serial(y, m) < 12)
             => month = Some(Serial(y, m))
    BY <2>1, <2>2, <2>3, MonthRead DEF Date
  <2>5. Some(Serial(y, m)).value = Serial(y, m)
    BY DEF Some
  <2> QED
    BY <2>1, <2>3, <2>4, <2>5 DEF StoredMonth, Age, Date
<1> QED
  BY <1>1, SpecIInv, PTL

-----------------------------------------------------------------------------
(* Rates *)

LEMMA RateParts ==
  ASSUME NEW r \in RateTexts
  PROVE  /\ r.whole \in Nat /\ r.dec \in Seq(0 .. 9) /\ r.percent \in Nat
         /\ \A i \in {1, 2, 3} : Digit(r.dec, i) \in 0 .. 9
BY RatesKnown DEF Digit

\* What strconv.ParseFloat returns is the value of the text.
LEMMA FloatIsNat == ASSUME NEW r \in RateTexts PROVE ParseFloat(r) \in Nat
<1>1. /\ Digit(r.dec, 1) \in Nat /\ Digit(r.dec, 2) \in Nat /\ Digit(r.dec, 3) \in Nat
      /\ r.whole \in Nat
  BY RateParts
<1> QED
  BY <1>1 DEF ParseFloat, Thousandths

\* Every crawler but Nordnet's reads the value of the text, or nothing.
LEMMA RateInFull ==
  ASSUME NEW s \in Averages \cup Lists, s # "Nordnet_list", NEW r
  PROVE  ReadRate(s, r) \in {None, Some(ParseFloat(r))}
BY DEF Averages, Lists, JSONSources, ReadRate, When, PlainRate, RateUpTo, JSONNumber,
       ParseNordeaRate, ParseSwedbankRate, ParseICARate, ParseIkanoBankRate,
       ParseAlandsbankRate, ParseLFRate, ParseLandshypotekRate, ParseBluestepRate,
       ParseMarginalenRate, ParseNordaxRate, ParseSveaRate, ParseJAKRate,
       ParseNominalRate, ParseSkandiaHTMLRate, ParseStabeloRate, LFPDFRate

\* The divisor moves a number of one, two or three digits behind the mark.
Scaled(n) == n * (1000 \div Divisor(n))

LEMMA ScaledByDigits ==
  ASSUME NEW n \in Nat, n < 1000
  PROVE  /\ n < 10 => Scaled(n) = 100 * n
         /\ 10 <= n /\ n < 100 => Scaled(n) = 10 * n
         /\ 100 <= n => Scaled(n) = n
<1>1. 1000 \div 10 = 100 /\ 1000 \div 100 = 10 /\ 1000 \div 1000 = 1
  OBVIOUS
<1>2. CASE n < 10
  <2>1. Divisor(n) = 10
    BY <1>2 DEF Divisor
  <2> QED
    BY <1>1, <1>2, <2>1 DEF Scaled
<1>3. CASE 10 <= n /\ n < 100
  <2>1. Divisor(n) = 100
    BY <1>3 DEF Divisor
  <2> QED
    BY <1>1, <1>3, <2>1 DEF Scaled
<1>4. CASE 100 <= n
  <2>1. Divisor(n) = 1000
    BY <1>4 DEF Divisor
  <2> QED
    BY <1>1, <1>4, <2>1 DEF Scaled
<1> QED
  BY <1>2, <1>3, <1>4

\* Nordnet's decimals, read as a number and divided, are the decimals when the
\* first of them is not zero.
LEMMA DecimalsOfNordnet ==
  ASSUME NEW dec \in Seq(0 .. 9), dec # <<>>
  PROVE  /\ Scaled(AsNumber(dec)) \in Nat
         /\ dec[1] # 0 => Scaled(AsNumber(dec)) = Thousandths(dec)
<1>1. PICK a \in 0 .. 9, b \in 0 .. 9, c \in 0 .. 9 :
        a = Digit(dec, 1) /\ b = Digit(dec, 2) /\ c = Digit(dec, 3)
  <2>1. Digit(dec, 1) \in 0 .. 9 /\ Digit(dec, 2) \in 0 .. 9 /\ Digit(dec, 3) \in 0 .. 9
    BY DEF Digit
  <2> QED
    BY <2>1
<1>2. Len(dec) \in Nat /\ Len(dec) > 0 /\ a = dec[1]
  BY <1>1 DEF Digit
<1>3. Thousandths(dec) = 100 * a + 10 * b + c
  BY <1>1 DEF Thousandths
<1>4. CASE Len(dec) = 1
  <2>1. AsNumber(dec) = a /\ b = 0 /\ c = 0
    BY <1>1, <1>2, <1>4 DEF AsNumber, Digit
  <2>2. Scaled(a) = 100 * a
    BY ScaledByDigits
  <2> QED
    BY <1>3, <2>1, <2>2
<1>5. CASE Len(dec) = 2
  <2>1. AsNumber(dec) = 10 * a + b /\ c = 0
    BY <1>1, <1>2, <1>5 DEF AsNumber, Digit
  <2>2. PICK n \in Nat : n = 10 * a + b /\ n < 100 /\ (a # 0 => 10 <= n)
    OBVIOUS
  <2>3. Scaled(n) \in Nat /\ (a # 0 => Scaled(n) = 10 * n)
    BY <2>2, ScaledByDigits
  <2> QED
    BY <1>2, <1>3, <2>1, <2>2, <2>3
<1>6. CASE Len(dec) > 2
  <2>1. AsNumber(dec) = 100 * a + 10 * b + c
    <3>1. 3 <= Len(dec) /\ Len(dec) \notin {0, 1, 2}
      <4>1. \A n \in Nat : n > 2 => 3 <= n /\ n \notin {0, 1, 2}
        OBVIOUS
      <4> QED
        BY <1>2, <1>6, <4>1, Zenon
    <3>2. b = dec[2] /\ c = dec[3]
      BY <1>1, <1>2, <3>1 DEF Digit
    <3> QED
      BY <1>2, <3>1, <3>2 DEF AsNumber
  <2>2. PICK n \in Nat : n = 100 * a + 10 * b + c /\ n < 1000 /\ (a # 0 => 100 <= n)
    OBVIOUS
  <2>3. Scaled(n) \in Nat /\ (a # 0 => Scaled(n) = n)
    BY <2>2, ScaledByDigits
  <2> QED
    BY <1>2, <1>3, <2>1, <2>2, <2>3
<1>7. Len(dec) = 1 \/ Len(dec) = 2 \/ Len(dec) > 2
  <2>1. \A n \in Nat : n > 0 => n = 1 \/ n = 2 \/ n > 2
    OBVIOUS
  <2> QED
    BY <1>2, <2>1, Zenon
<1> QED
  BY <1>4, <1>5, <1>6, <1>7

LEMMA RateOfNordnet ==
  ASSUME NEW r \in RateTexts, ReadRate("Nordnet_list", r) # None
  PROVE  /\ r.dec # <<>>
         /\ ReadRate("Nordnet_list", r) = Some(1000 * r.whole + Scaled(AsNumber(r.dec)))
BY DEF ReadRate, JSONSources, ParseNordnetRate, HasDecimals, Scaled, When

\* RateAsPublished: a rate is stored with the value it was published with, for
\* every text, whatever the number of its decimals; for Nordnet when the decimals
\* do not begin with a zero.
THEOREM RatesKeepTheirValue == Spec => []RateAsPublished
<1>1. IInv => RateAsPublished
  <2> SUFFICES ASSUME IInv, Stored, source = "Nordnet_list" => page.rate.dec[1] # 0
               PROVE  set.value.rate = 1000 * page.rate.whole + Thousandths(page.rate.dec)
    BY DEF RateAsPublished
  <2> DEFINE r == page.rate
  <2>1. /\ source \in Averages \cup Lists /\ r \in RateTexts
        /\ ReadRate(source, r) # None /\ set.value.rate = ReadRate(source, r).value
    BY SourcesKnown DEF IInv, ReadFromPage, Stored
  <2> DEFINE value == 1000 * r.whole + Thousandths(r.dec)
  <2>2. ReadRate(source, r) = Some(value)
    <3>1. CASE source = "Nordnet_list"
      <4>1. r.dec # <<>> /\ ReadRate(source, r) = Some(1000 * r.whole + Scaled(AsNumber(r.dec)))
        BY <2>1, <3>1, RateOfNordnet
      <4>2. Scaled(AsNumber(r.dec)) = Thousandths(r.dec)
        BY <2>1, <3>1, <4>1, RateParts, DecimalsOfNordnet
      <4> QED
        BY <4>1, <4>2
    <3>2. CASE source # "Nordnet_list"
      BY <2>1, <3>2, RateInFull DEF ParseFloat
    <3> QED
      BY <3>1, <3>2
  <2>3. Some(value).value = value
    BY DEF Some
  <2> QED
    BY <2>1, <2>2, <2>3
<1> QED
  BY <1>1, SpecIInv, PTL

\* TypeOK, of which: a stored rate is a number, and no average is without its month.
THEOREM FiguresTypeOK == Spec => []TypeOK
<1>1. IInv => TypeOK
  <2> SUFFICES ASSUME IInv PROVE TypeOK
    OBVIOUS
  <2>1. source \in Sources /\ now \in Nat
    BY DEF IInv
  <2>2. page # Unwritten => page.at \in Starts /\ now \in page.at .. page.at + MaxWait
    BY DEF IInv, Published
  <2>3. ASSUME Stored
        PROVE  page # Unwritten /\ (source \in Averages => set.value.date # None)
    BY <2>3 DEF IInv, ReadFromPage, Stored
  <2>4. ASSUME Stored PROVE set.value.rate \in Nat
    <3> DEFINE r == page.rate
    <3>1. /\ source \in Averages \cup Lists /\ r \in RateTexts
          /\ ReadRate(source, r) # None /\ set.value.rate = ReadRate(source, r).value
      BY <2>4, SourcesKnown DEF IInv, ReadFromPage, Stored
    <3>2. \E n \in Nat : ReadRate(source, r) = Some(n)
      <4>1. CASE source = "Nordnet_list"
        <5>1. r.dec # <<>> /\ ReadRate(source, r) = Some(1000 * r.whole + Scaled(AsNumber(r.dec)))
          BY <3>1, <4>1, RateOfNordnet
        <5>2. Scaled(AsNumber(r.dec)) \in Nat /\ r.whole \in Nat
          BY <3>1, <5>1, RateParts, DecimalsOfNordnet
        <5> QED
          BY <5>1, <5>2
      <4>2. CASE source # "Nordnet_list"
        BY <3>1, <4>2, RateInFull, FloatIsNat
      <4> QED
        BY <4>1, <4>2
    <3>3. PICK n \in Nat : ReadRate(source, r) = Some(n)
      BY <3>2
    <3>4. Some(n).value = n
      BY DEF Some
    <3> QED
      BY <3>1, <3>3, <3>4
  <2> QED
    BY <2>1, <2>2, <2>3, <2>4 DEF TypeOK
<1> QED
  BY <1>1, SpecIInv, PTL

-----------------------------------------------------------------------------
(* Dates of changes *)

\* The day is refused by time.Parse, and moved by time.Date.
ByTimeParse == {"SEB_list", "SBAB_list", "Skandia_list", "Hypoteket_list"}

LEMMA DateRead ==
  ASSUME NEW s \in Lists, NEW y \in Nat, NEW m \in Nat, NEW day \in Nat
  PROVE  LET d == Date(y, m, day)
         IN  /\ IsDate(d) => ReadDate(s, d) \in {None, Some(Day(Serial(y, m), day))}
             /\ IsDate(d) /\ s \in DateNeeded => ReadDate(s, d) # None
             /\ ~IsDate(d) /\ s \in ByTimeParse => ReadDate(s, d) = None
<1> DEFINE d == Date(y, m, day)
<1>1. d.y = y /\ d.m = m /\ d.d = day
  BY DEF Date
<1>2. ASSUME IsDate(d) PROVE TimeDate(y, m, day) = Day(Serial(y, m), day) /\ day \in 1 .. 31 /\ IsMonth(m)
  <2>1. m \in 1 .. 12 /\ day \in 1 .. DaysIn(y, m)
    BY <1>1, <1>2 DEF IsDate, IsMonth
  <2>2. DaysIn(y, m) \in {28, 29, 30, 31}
    BY DEF DaysIn
  <2> QED
    BY <2>1, <2>2, TimeDateOfDate DEF IsMonth
<1> DEFINE read == Some(Day(Serial(y, m), day))
<1>3. CASE s \in ByTimeParse
  <2>1. ReadDate(s, d) = TimeParse(d)
    BY <1>3 DEF ByTimeParse, ReadDate, ParseSEBChangeDate, SBABValidFrom, ParseSkandiaHTMLDate,
                ExtractValidFromDate
  <2>2. ReadDate(s, d) = When(IsDate(d), Day(Serial(y, m), day))
    BY <1>1, <2>1 DEF TimeParse
  <2>3. Some(Day(Serial(y, m), day)) # None
    BY DEF Some, None
  <2> QED
    BY <2>2, <2>3 DEF When
<1>4. CASE s \in {"Nordea_list", "ICA_list", "Danske_list"}
  <2>1. ReadDate(s, d) = When(IsMonth(m) /\ day \in 1 .. 31, TimeDate(y, m, day))
    BY <1>1, <1>4 DEF ReadDate, ParseNordeaDate, ParseICADate, ParseDanskeBankChangeDate, TwoDigitsEach
  <2>2. IsDate(d) => ReadDate(s, d) = read
    BY <1>2, <2>1 DEF When
  <2>3. read # None
    BY DEF Some, None
  <2> QED
    BY <1>4, <2>2, <2>3 DEF ByTimeParse
<1>5. CASE s \in {"LF_list", "Alandsbanken_list"}
  <2>1. ReadDate(s, d) = Some(TimeDate(y, m, day))
    BY <1>1, <1>5 DEF ReadDate, ParseLFListDate, ParseAlandsbankListDate
  <2> QED
    BY <1>2, <1>5, <2>1 DEF ByTimeParse, DateNeeded
<1>6. CASE s \in {"Swedbank_list", "Landshypotek_list"}
  <2>1. ReadDate(s, d) = When(IsMonth(m), TimeDate(y, m, day))
    BY <1>1, <1>6 DEF ReadDate, ParseSwedbankListDate, ParseLandshypotekChangeDate
  <2> QED
    BY <1>2, <1>6, <2>1 DEF When, ByTimeParse, DateNeeded
<1>7. CASE s = "Nordnet_list"
  BY <1>7 DEF ReadDate, ByTimeParse, DateNeeded
<1> QED
  BY <1>3, <1>4, <1>5, <1>6, <1>7 DEF Lists, ByTimeParse

\* ChangeDateAsPublished: the date stored with a list rate is the one published,
\* for every date a bank may write.
THEOREM ChangesKeepTheirDate == Spec => []ChangeDateAsPublished
<1>1. IInv => ChangeDateAsPublished
  <2> SUFFICES ASSUME IInv, Stored, source \in Lists, set.value.date # None
               PROVE  LET d == page.date
                          date == set.value.date
                      IN  IF IsDate(d) THEN date.value = Day(Serial(d.y, d.m), d.d)
                          ELSE source \notin ByTimeParse
    BY DEF ChangeDateAsPublished, ByTimeParse
  <2>1. page.date \in Dates /\ set.value.date = ReadDate(source, page.date)
    BY DEF IInv, ReadFromPage, Stored
  <2>2. PICK y, m, day \in Nat : page.date = Date(y, m, day)
    BY <2>1, DateParts
  <2> DEFINE read == ReadDate(source, Date(y, m, day))
  <2>3. /\ IsDate(Date(y, m, day)) => read \in {None, Some(Day(Serial(y, m), day))}
        /\ ~IsDate(Date(y, m, day)) /\ source \in ByTimeParse => read = None
    BY DateRead
  <2>4. Some(Day(Serial(y, m), day)).value = Day(Serial(y, m), day)
    BY DEF Some
  <2>5. Date(y, m, day).y = y /\ Date(y, m, day).m = m /\ Date(y, m, day).d = day
    BY DEF Date
  <2> QED
    BY <2>1, <2>2, <2>3, <2>4, <2>5
<1> QED
  BY <1>1, SpecIInv, PTL

-----------------------------------------------------------------------------
(* Rows that are skipped *)

LEMMA SomeIsNotNone == ASSUME NEW value PROVE Some(value) # None
BY DEF Some, None

\* A rate written the bank's way is read.
LEMMA UsualRateRead ==
  ASSUME source \in Averages \cup Lists, NEW r \in RateTexts, Usual(r)
  PROVE  ReadRate(source, r) # None
<1>1. CASE source \in JSONSources
  BY <1>1, SomeIsNotNone DEF Usual, ReadRate, JSONNumber, When
<1>2. CASE source \notin JSONSources
  <2>1. r.mark = "comma" /\ r.dec # <<>>
    BY <1>2 DEF Usual
  <2>2. r.percent = IF source \in {"LF_PDF", "Nordnet_list"} THEN 0 ELSE 1
    BY <1>2 DEF Usual
  <2>3. CASE source \in {"LF_PDF", "Nordnet_list"}
    BY <1>2, <2>1, <2>2, <2>3, SomeIsNotNone
       DEF JSONSources, ReadRate, LFPDFRate, ParseNordnetRate, HasDecimals, When
  <2>4. CASE source \notin {"LF_PDF", "Nordnet_list"}
    <3>1. HasDecimals(r) /\ r.mark # "dash" /\ r.percent = 1
      BY <2>1, <2>2, <2>4 DEF HasDecimals
    <3>2. ReadRate(source, r) = Some(ParseFloat(r))
      BY <1>2, <2>1, <2>4, <3>1 DEF Averages, Lists, JSONSources, ReadRate, When, PlainRate, RateUpTo,
         ParseNordeaRate, ParseSwedbankRate, ParseICARate, ParseIkanoBankRate,
         ParseAlandsbankRate, ParseLFRate, ParseLandshypotekRate, ParseBluestepRate,
         ParseMarginalenRate, ParseNordaxRate, ParseSveaRate, ParseJAKRate,
         ParseNominalRate, ParseSkandiaHTMLRate, ParseStabeloRate
    <3> QED
      BY <3>2, SomeIsNotNone
  <2> QED
    BY <2>3, <2>4
<1> QED
  BY <1>1, <1>2

\* A month in the range of its source is read, but for SEB's of 2000 to 2009.
LEMMA UsualMonthRead ==
  ASSUME NEW s \in Averages, NEW clock, NEW y \in Nat, NEW m \in Nat, NEW day \in Nat,
         IsDate(Date(y, m, day)), InRange(s, y), ~(s = "SEB" /\ Between(y, 2000, 2009))
  PROVE  ReadMonth(s, Date(y, m, day), clock) # None
<1>1. IsMonth(m) /\ m \in 1 .. 12
  BY DEF IsDate, IsMonth, Date
<1>2. CASE s = "SEB"
  <2> DEFINE number == 100 * (y % 100) + m
  <2>1. Between(y, 1940, 2039) /\ ~Between(y, 2000, 2009)
    BY <1>2 DEF InRange
  <2>2. y % 100 >= 10 /\ y % 100 < 100 /\ y % 100 \in Nat
    BY <2>1, SMTT(30) DEF Between
  <2>3. number % 100 = m /\ Between(number, 1000, 9999)
    BY <1>1, <2>2, SMTT(30) DEF Between
  <2>4. ReadMonth(s, Date(y, m, day), clock) = ParseReferenceMonth(number)
    BY <1>2 DEF ReadMonth, Date
  <2> QED
    BY <1>1, <2>3, <2>4, SomeIsNotNone DEF ParseReferenceMonth, When
<1>3. CASE s = "Nordea"
  <2>1. ReadMonth(s, Date(y, m, day), clock) = ParseNordeaHistoricDate(m, day, y % 100)
    BY <1>3 DEF ReadMonth, Date
  <2> QED
    BY <2>1, SomeIsNotNone DEF ParseNordeaHistoricDate
<1>4. CASE s = "Landshypotek_latest"
  <2>1. ReadMonth(s, Date(y, m, day), clock) = ParseLandshypotekAvgMonth(m, clock)
    BY <1>4 DEF ReadMonth, Date
  <2> QED
    BY <1>1, <2>1, SomeIsNotNone DEF ParseLandshypotekAvgMonth, When
<1>5. CASE s \in {"LF_PDF", "Stabelo"}
  <2>1. ReadMonth(s, Date(y, m, day), clock) = When(y \div 100 = 20 /\ IsMonth(m), Serial(y, m))
    BY <1>5 DEF ReadMonth, Date, ParseLFPDFDate, StabeloMonth
  <2>2. y \div 100 = 20
    BY <1>5, SMTT(30) DEF InRange, Between
  <2> QED
    BY <1>1, <2>1, <2>2, SomeIsNotNone DEF When
<1>6. CASE s = "Danske"
  BY <1>1, <1>6, SomeIsNotNone DEF ReadMonth, Date, ParseDanskeReferenceMonth, InRange, When
<1>7. CASE s \in {"ICA", "Ikano"}
  BY <1>7, SomeIsNotNone DEF ReadMonth, ParseICAAvgMonth, ParseIkanoBankAvgMonth
<1>8. CASE s \notin {"SEB", "Nordea", "Landshypotek_latest", "LF_PDF", "Stabelo", "Danske", "ICA", "Ikano"}
  <2>1. ReadMonth(s, Date(y, m, day), clock) = Checked(y, m)
    BY <1>8 DEF Averages, Date, ReadMonth,
       ParseHandelsbankenPeriod, ParseSBABAvgPeriod, ParseHypoteketPeriod, ParseBluestepMonth,
       ParseJAKMonth, ParseMarginalenPeriod, ParseNordaxMonth, ParseAlandsbankAvgMonth,
       ParseSkandiaMonthYear, ParseSwedbankHistoricMonth, ParseSveaMonth,
       ParseLandshypotekHistoricalMonth
  <2> QED
    BY <1>1, <2>1, SomeIsNotNone DEF Checked, When
<1> QED
  BY <1>2, <1>3, <1>4, <1>5, <1>6, <1>7, <1>8

\* NoRowLost: a row written the bank's way is never skipped, but for SEB's
\* averages of the years 2000 to 2009.
THEOREM RowsAreKept == Spec => []NoRowLost
<1>1. IInv => NoRowLost
  <2> SUFFICES ASSUME IInv, set = None, IsDate(page.date), Usual(page.rate),
                      InRange(source, page.date.y)
               PROVE  source = "SEB" /\ Between(page.date.y, 2000, 2009)
    BY DEF NoRowLost
  <2>1. /\ source \in Averages \cup Lists /\ page.rate \in RateTexts /\ page.date \in Dates
        /\ \/ ReadRate(source, page.rate) = None
           \/ source \in Averages /\ ReadMonth(source, page.date, now) = None
           \/ source \in DateNeeded /\ ReadDate(source, page.date) = None
    BY SourcesKnown DEF IInv, ReadFromPage, None, NotYet
  <2>2. ReadRate(source, page.rate) # None
    BY <2>1, UsualRateRead
  <2>3. PICK y, m, day \in Nat : page.date = Date(y, m, day)
    BY <2>1, DateParts
  <2>4. source \in DateNeeded => ReadDate(source, Date(y, m, day)) # None
    <3>1. source \in DateNeeded => source \in Lists
      BY DEF DateNeeded, Lists
    <3> QED
      BY <2>3, <3>1, DateRead
  <2>5. Date(y, m, day).y = y
    BY DEF Date
  <2> QED
    BY <2>1, <2>2, <2>3, <2>4, <2>5, UsualMonthRead
<1> QED
  BY <1>1, SpecIInv, PTL
=============================================================================
