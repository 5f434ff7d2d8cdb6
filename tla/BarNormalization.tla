--------------------------- MODULE BarNormalization ---------------------------
(***************************************************************************)
(* One page of price bars from the request to canonical bars: the bounds   *)
(* an adapter puts on the wire (data/providers), the page the provider     *)
(* answers with, and the normalisers (data/normalization).                 *)
(*                                                                         *)
(* Time is counted in ticks of UTC.  The exchange's local date begins      *)
(* Offset ticks after the UTC date.  A bar is an interval of a symbol; its *)
(* prices are left out, the record they are read from stands for them.     *)
(***************************************************************************)
EXTENDS Integers, FiniteSets

CONSTANTS
  Day, Offset,        \* ticks of a day; of New York behind UTC
  Five,               \* ticks of a five-minute bar
  Milli, Second,      \* ticks of the wire precision of Massive and Twelve Data
  Open, Close, EarlyClose,   \* ticks of the local day at which sessions open and close
  SessionDates, EarlyDates,  \* dates of the schedule; those that close early
  MaxPoints,          \* _MAX_POINTS_PER_SYMBOL of Twelve Data
  Requested,          \* symbols of the request
  Batch,              \* those of the page: a chunk (Twelve Data), one ticker (Massive)
  Symbols,            \* symbols a page may speak of
  Points,             \* BOUND: times at which requests start and end
  Stamps,             \* BOUND: times of arbitrary records
  PageSize            \* BOUND: series and records of an arbitrary page, together

ASSUME CalendarAssumption ==
  /\ {Day, Five, Milli, Second} \subseteq Nat \ {0} /\ Offset \in Nat /\ MaxPoints \in Nat
  /\ EarlyDates \subseteq SessionDates /\ SessionDates \subseteq Int
  /\ Points \subseteq Nat /\ Stamps \subseteq Nat /\ PageSize \in Nat
  /\ Batch \subseteq Requested /\ Requested \subseteq Symbols /\ Batch # {}
  /\ {Open, Close, EarlyClose} \subseteq Nat
  /\ 0 < Open /\ Open < EarlyClose /\ EarlyClose <= Close /\ Close + Offset <= Day
  /\ Milli <= Five /\ Milli <= Open

VARIABLES
  provider, request, page,
  bstage,    \* "ask", "page", "done", "refused" (by the adapter), "raised" (by the normaliser)
  bars, bissues

bvars == <<provider, request, page, bstage, bars, bissues>>

\* verified: what the caller says of daily bars; an intraday request does not ask.
BarRequests ==
  {r \in [timeframe: {"5m", "1d"}, start: Points, end: Points, session: {"regular", "unknown"},
          verified: BOOLEAN] :
     r.start < r.end /\ (r.timeframe = "5m" => r.verified)}

NoPage == [honest |-> FALSE, shape |-> "other", series |-> [s \in {} |-> {}]]

BarInit ==
  /\ provider \in {"alpaca", "massive", "twelve_data"}
  /\ request \in BarRequests
  /\ page = NoPage
  /\ bstage = "ask" /\ bars = {} /\ bissues = {}

------------------------------------------------------------------------------
\* The schedule, and dates in New York and in UTC.
EasternDate(t) == (t - Offset) \div Day
UtcDate(t) == t \div Day
Midnight(date) == date * Day + Offset
Bounds(date) ==
  [from |-> Midnight(date) + Open,
   to |-> Midnight(date) + (IF date \in EarlyDates THEN EarlyClose ELSE Close)]

Ceiling(t, unit) == (t + unit - 1) \div unit
Floor(t, unit) == t \div unit

\* What an adapter refuses to ask: an interval below the precision of the wire, or one
\* that may need more points than a response can hold.
Refuses ==
  \/ provider = "massive" /\ Ceiling(request.end, Milli) - 1 < Floor(request.start, Milli)
  \/ /\ provider = "twelve_data"
     /\ MaxPoints < IF request.timeframe = "1d"
                      THEN UtcDate(request.end - 1) + 1 - UtcDate(request.start)
                      ELSE Ceiling(request.end - request.start, Five) + 1

\* MUTANT: the last date of a daily request is taken for inclusive.
OnWireInclusiveDate(at) ==
  CASE provider = "alpaca" -> request.start <= at /\ at <= request.end - 1
    [] provider = "massive" ->
         /\ Floor(request.start, Milli) * Milli <= at
         /\ at <= (Ceiling(request.end, Milli) - 1) * Milli
    [] provider = "twelve_data" /\ request.timeframe = "1d" ->
         /\ UtcDate(request.start) <= EasternDate(at)
         /\ EasternDate(at) < UtcDate(request.end - 1)
    [] OTHER ->
         /\ Floor(request.start, Second) * Second <= at
         /\ at < Ceiling(request.end, Second) * Second

\* _inclusive_end, _bar_range, _wire_bounds: the stamps the wire asks for.  Dates of
\* Twelve Data are exchange dates, the last of them excluded.
OnWire(at) ==
  CASE provider = "alpaca" -> request.start <= at /\ at <= request.end - 1
    [] provider = "massive" ->
         /\ Floor(request.start, Milli) * Milli <= at
         /\ at <= (Ceiling(request.end, Milli) - 1) * Milli
    [] provider = "twelve_data" /\ request.timeframe = "1d" ->
         /\ UtcDate(request.start) <= EasternDate(at)
         /\ EasternDate(at) < UtcDate(request.end - 1) + 1
    [] OTHER ->
         /\ Floor(request.start, Second) * Second <= at
         /\ at < Ceiling(request.end, Second) * Second

\* The scheduled bars of a timeframe, and the stamp a provider gives each: daily bars
\* carry the exchange's midnight.
Scheduled ==
  IF request.timeframe = "1d" THEN {Bounds(d) : d \in SessionDates}
  ELSE UNION {{[from |-> t, to |-> t + Five] :
                 t \in {u \in Bounds(d).from .. Bounds(d).to - Five :
                          (u - Bounds(d).from) % Five = 0}} : d \in SessionDates}
Stamp(bar) == IF request.timeframe = "1d" THEN Midnight(EasternDate(bar.from)) ELSE bar.from

Record(at) == [at |-> at, valid |-> TRUE]
Malformed == [at |-> 0, valid |-> FALSE]
Entry(status, R) == [status |-> status, records |-> R]

\* An honest provider: every scheduled bar the wire asks for, of every symbol.
HonestPage ==
  [honest |-> TRUE, shape |-> "series",
   series |-> [s \in Batch |->
                 Entry("ok", {Record(Stamp(b)) : b \in {c \in Scheduled : OnWire(Stamp(c))}})]]

\* Any other: entries of any symbols, each with records at any times and bad ones, or an
\* object that is an error, or no object at all; an object that names no symbol; or no
\* object.
Entries ==
  {Entry("ok", R) : R \in {Q \in SUBSET ({Record(t) : t \in Stamps} \cup {Malformed}) :
                             Cardinality(Q) < PageSize}}
  \cup {Entry("error", {}), Entry("not_object", {})}
SeriesPages ==
  {f \in UNION {[S -> Entries] : S \in {T \in SUBSET Symbols : Cardinality(T) <= PageSize}} :
     Cardinality(DOMAIN f) + Cardinality(UNION {{s} \X f[s].records : s \in DOMAIN f}) <= PageSize}
AnyPages ==
  {[honest |-> FALSE, shape |-> "series", series |-> f] : f \in SeriesPages}
  \cup {[honest |-> FALSE, shape |-> shape, series |-> [s \in {} |-> {}]] :
          shape \in {"nameless", "other"}}

\* The adapter asks, or refuses to.
Ask ==
  /\ bstage = "ask"
  /\ IF Refuses THEN bstage' = "refused" /\ UNCHANGED page
     ELSE /\ bstage' = "page"
          /\ page' = HonestPage \/ page' \in AnyPages
  /\ UNCHANGED <<provider, request, bars, bissues>>

------------------------------------------------------------------------------
\* MUTANT: five minutes after the close of the session are let in.
IntervalLate(at) ==
  LET date == IF provider = "twelve_data" /\ request.timeframe = "5m" THEN UtcDate(at)
              ELSE EasternDate(at)
      five == [from |-> at, to |-> at + Five, session |-> request.session, issue |-> "none"]
      issue(code) == [from |-> 0, to |-> 0, session |-> "none", issue |-> code]
  IN CASE request.timeframe = "1d" /\ ~request.verified -> issue("daily_semantics_unverified")
       [] request.timeframe = "5m" /\ request.session = "unknown" -> five
       [] OTHER ->
            IF date \notin SessionDates THEN issue("session_bounds_missing")
            ELSE IF request.timeframe = "1d"
              THEN [from |-> Bounds(date).from, to |-> Bounds(date).to,
                    session |-> "regular", issue |-> "none"]
            ELSE IF at < Bounds(date).from \/ at > Bounds(date).to
              THEN issue("outside_requested_session") ELSE five

\* _bar_interval of the three normalisers.  Twelve Data reads intraday dates in UTC.
Interval(at) ==
  LET date == IF provider = "twelve_data" /\ request.timeframe = "5m" THEN UtcDate(at)
              ELSE EasternDate(at)
      five == [from |-> at, to |-> at + Five, session |-> request.session, issue |-> "none"]
      issue(code) == [from |-> 0, to |-> 0, session |-> "none", issue |-> code]
  IN CASE request.timeframe = "1d" /\ ~request.verified -> issue("daily_semantics_unverified")
       [] request.timeframe = "5m" /\ request.session = "unknown" -> five
       [] OTHER ->
            IF date \notin SessionDates THEN issue("session_bounds_missing")
            ELSE IF request.timeframe = "1d"
              THEN [from |-> Bounds(date).from, to |-> Bounds(date).to,
                    session |-> "regular", issue |-> "none"]
            ELSE IF at < Bounds(date).from \/ at + Five > Bounds(date).to
              THEN issue("outside_requested_session") ELSE five

\* What becomes of one record of a mapped series.
Canonical(record) ==
  LET interval == Interval(record.at)
      outside == interval.from < request.start \/ interval.to > request.end
  IN CASE ~record.valid -> [interval EXCEPT !.issue = "malformed_record"]
       [] record.valid /\ interval.issue # "none" -> interval
       [] OTHER -> IF outside THEN [interval EXCEPT !.issue = "outside_requested_interval"]
                   ELSE interval

Series == DOMAIN page.series
RecordsOf(s) == page.series[s].records
Erroneous == {s \in Series : page.series[s].status # "ok"}

\* Pages for which the whole call raises: no JSON object at all; for Alpaca, no object of
\* bars or a symbol without an array; for Massive, a status, ticker or results it did not
\* ask for; for Twelve Data, an entry of the envelope that is no object.
Unusable ==
  \/ page.shape = "other"
  \/ provider = "alpaca" /\ (page.shape = "nameless" \/ Erroneous # {})
  \/ provider = "massive" /\ (Erroneous # {} \/ Series # Batch)
  \/ provider = "twelve_data" /\ \E s \in Series : page.series[s].status = "not_object"

\* Whose series are looked at: Alpaca maps every requested symbol, Twelve Data those of
\* the chunk only.
Mapped == IF provider = "alpaca" THEN Requested ELSE Batch

Usable == (Series \cap Mapped) \ Erroneous

\* The records that become bars.
Bars ==
  UNION {{[symbol |-> s, record |-> r, from |-> Canonical(r).from, to |-> Canonical(r).to,
           session |-> Canonical(r).session] :
             r \in {q \in RecordsOf(s) : Canonical(q).issue = "none"}} : s \in Usable}

Issue(s, r, code) == [symbol |-> s, record |-> r, code |-> code]
NoRecord == [at |-> -1, valid |-> FALSE]    \* of an issue without a record index
NoSymbol == ""                             \* of an issue about the envelope

\* What is reported of records: those of the series that are read, and for Alpaca those
\* of symbols nobody asked for.
RecordIssues ==
  (UNION {{Issue(s, r, Canonical(r).issue) :
              r \in {q \in RecordsOf(s) : Canonical(q).issue # "none"}} : s \in Usable})
  \cup (UNION {{Issue(s, r, "unmapped_instrument") : r \in RecordsOf(s)} :
                 s \in IF provider = "alpaca" THEN Series \ Mapped ELSE {}})

\* What Twelve Data reports of whole series: one issue for a symbol outside the chunk,
\* for an error in place of a series, for a symbol of the chunk that has no entry, and
\* for an envelope that names no symbol.
SeriesIssues ==
  IF provider # "twelve_data" THEN {}
  ELSE {Issue(s, NoRecord, "unmapped_instrument") : s \in Series \ Mapped}
       \cup {Issue(s, NoRecord, "provider_response_error") :
               s \in (Erroneous \cap Mapped) \cup (Batch \ Series)
                      \cup (IF page.shape = "nameless" THEN {NoSymbol} ELSE {})}

\* normalize_alpaca_bars, normalize_massive_bars, normalize_twelve_data_bars.
NormalizeBars ==
  /\ bstage = "page"
  /\ IF Unusable THEN bstage' = "raised" /\ UNCHANGED <<bars, bissues>>
                 ELSE bstage' = "done" /\ bars' = Bars /\ bissues' = RecordIssues \cup SeriesIssues
  /\ UNCHANGED <<provider, request, page>>

BarNext == Ask \/ NormalizeBars

BarSpec == BarInit /\ [][BarNext]_bvars

------------------------------------------------------------------------------
\* expected_keys_for_window: the starts the comparison expects of this request, cut out
\* of every session from the start of the overlap on.  A window that begins off the
\* grid of a session raises (Aligned).
Overlap(d) ==
  [from |-> IF request.start > Bounds(d).from THEN request.start ELSE Bounds(d).from,
   to |-> IF request.end < Bounds(d).to THEN request.end ELSE Bounds(d).to]
Aligned ==
  request.timeframe = "5m" => \A d \in SessionDates :
    Overlap(d).from < Overlap(d).to => (Overlap(d).from - Bounds(d).from) % Five = 0
Expected ==
  IF request.timeframe = "1d"
    THEN {Bounds(d).from : d \in {e \in SessionDates :
            /\ request.start <= Bounds(e).from /\ Bounds(e).from < request.end
            /\ Bounds(e).to <= request.end}}
    ELSE UNION {{t \in Overlap(d).from .. Overlap(d).to - Five :
                   (t - Overlap(d).from) % Five = 0} : d \in SessionDates}

------------------------------------------------------------------------------
\* A reviewer's view of the request: the scheduled bars that lie wholly inside it.
Wanted == {b \in Scheduled : request.start <= b.from /\ b.to <= request.end}

\* The one bar a record may become: the session of its date, or its own five minutes,
\* within a session unless the request has none.
Own(b) ==
  IF request.timeframe = "1d"
    THEN /\ EasternDate(b.record.at) \in SessionDates /\ b.session = "regular"
         /\ [from |-> b.from, to |-> b.to] = Bounds(EasternDate(b.record.at))
    ELSE /\ b.from = b.record.at /\ b.to = b.from + Five /\ b.session = request.session
         /\ b.session = "regular" =>
              \E d \in SessionDates : Bounds(d).from <= b.from /\ b.to <= Bounds(d).to
HasBar(s, r) == \E b \in bars : b.symbol = s /\ b.record = r
HasIssue(s, r) == \E i \in bissues : i.symbol = s /\ i.record = r

\* Nothing of a page disappears and nothing is made up, whatever the page says.  A bar is
\* of a valid record of a requested symbol, is the bar of that very record and lies in
\* the half-open request.  A record of a series that is read has its bar or an issue of
\* its own, never both.  A series that is not read is reported, by Alpaca record by
\* record, by Twelve Data once even when it is empty; so is every symbol of a Twelve Data
\* chunk that has no entry, and an envelope that names no symbol.
BarsAccounted ==
  bstage = "done" =>
    /\ \A b \in bars :
         /\ b.symbol \in Usable /\ b.record \in RecordsOf(b.symbol) /\ b.record.valid
         /\ request.start <= b.from /\ b.to <= request.end
         /\ Own(b)
    /\ \A s \in Usable : \A r \in RecordsOf(s) : HasBar(s, r) <=> ~HasIssue(s, r)
    /\ \A s \in Series \ Usable : IF provider = "alpaca"
                                     THEN \A r \in RecordsOf(s) : HasIssue(s, r)
                                     ELSE HasIssue(s, NoRecord)
    /\ provider = "twelve_data" => \A s \in Batch \ Series : HasIssue(s, NoRecord)
    /\ page.shape = "nameless" => HasIssue(NoSymbol, NoRecord)

\* The bounds on the wire and the exact filter behind them lose nothing: from an honest
\* provider every scheduled bar inside the request arrives, except a daily bar whose
\* midnight stamp (Alpaca, Massive) lies before a request that starts later that day;
\* what arrives is what the comparison counts as expected, so that nothing else is
\* ever reported missing; and a request with a scheduled bar in it is refused only for
\* its number of points.
RequestedBarsArrive ==
  /\ (bstage = "done" /\ page.honest /\ request.verified) => \A s \in Batch :
       LET arrived == {b.from : b \in {c \in bars : c.symbol = s}}
           stampless == {w.from : w \in {v \in Wanted : /\ request.timeframe = "1d"
                                                        /\ provider # "twelve_data"
                                                        /\ Stamp(v) < request.start}}
       IN /\ \A w \in Wanted : w.from \in arrived \cup stampless
          /\ Aligned => Expected \ stampless \subseteq arrived /\ arrived \subseteq Expected
  /\ bstage = "raised" => ~page.honest
  /\ (bstage = "refused" /\ Wanted # {}) => provider = "twelve_data"
===============================================================================
