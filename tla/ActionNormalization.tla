------------------------- MODULE ActionNormalization -------------------------
(***************************************************************************)
(* One page of corporate actions from the wire to canonical actions        *)
(* (data/normalization/alpaca.py and massive.py): Alpaca's families in one *)
(* page, Massive's splits, dividends and ticker events in pages of their   *)
(* own.  A ticker event says which ticker an instrument has from a date    *)
(* on; the changes are inferred from neighbouring events.                  *)
(***************************************************************************)
EXTENDS Integers, Sequences, FiniteSets

CONSTANTS
  Tickers,      \* tickers a page may speak of
  Respelled,    \* those that equal Ticker but for their case
  Ticker,       \* the instrument a Massive page is asked for
  Others,       \* further instruments of an Alpaca request
  Dates,        \* dates, an interval of the integers
  MaxRecords,   \* BOUND: records of a page of another family
  MaxEvents     \* BOUND: events of a timeline

ASSUME TickersAssumption ==
  /\ {Ticker} \cup Others \cup Respelled \subseteq Tickers /\ Ticker \notin Respelled
  /\ Dates \subseteq Int /\ MaxRecords \in Nat /\ MaxEvents \in Nat

VARIABLES
  source,       \* "alpaca", "splits", "dividends", "events"
  from, until,  \* the half-open interval of the request
  answer,       \* the records of the page
  astage,       \* "page", "done", "raised"
  actions,      \* canonical actions, by their position in the page or the timeline
  aissues       \* the positions of records with an issue

avars == <<source, from, until, answer, astage, actions, aissues>>

Types == {"split", "dividend", "name_change", "other"}

\* complete: a dividend has its currency, a name change its effective date.
Records == [type: Types, ticker: Tickers, old: Tickers, date: Dates, complete: BOOLEAN,
            valid: BOOLEAN]
Events == [ticker: Tickers, date: Dates, valid: BOOLEAN]
Pages == UNION {[1..n -> Records] : n \in 0..MaxRecords}
Timelines == UNION {[1..n -> Events] : n \in 0..MaxEvents}

ActionInit ==
  /\ from \in Dates /\ until \in Dates /\ from < until
  /\ \/ source \in {"alpaca", "splits", "dividends"} /\ answer \in Pages
     \/ source = "events" /\ answer \in Timelines
  /\ astage = "page" /\ actions = <<>> /\ aissues = {}

------------------------------------------------------------------------------
InRange(date) == from <= date /\ date < until     \* _action_in_range
CanonicalAction(type, ticker, old, date) ==
  [type |-> type, ticker |-> ticker, old |-> old, date |-> date]

Folded(t) == IF t \in Respelled THEN Ticker ELSE t     \* casefold

\* _instrument_for_symbol.
Asked(ticker) == ticker \in {Ticker} \cup Others

\* _supported_action: the guards of each Alpaca family, in any order.  A name change is
\* mapped by its new symbol, or else by its old one; TickerChangeAction refuses a
\* change of case only, which is an issue like any other invalid record.
AlpacaMaps(r) ==
  /\ r.valid /\ r.type # "other"
  /\ r.type \in {"dividend", "name_change"} => r.complete
  /\ r.type = "name_change" => Folded(r.old) # Folded(r.ticker)
  /\ Asked(r.ticker) \/ (r.type = "name_change" /\ Asked(r.old))
  /\ InRange(r.date)

\* _normalize_splits, _normalize_dividends: of the ticker the page was asked for.
SplitMaps(r) == r.valid /\ r.type = "split" /\ r.ticker = Ticker /\ InRange(r.date)
DividendMaps(r) ==
  r.valid /\ r.type = "dividend" /\ r.complete /\ r.ticker = Ticker /\ InRange(r.date)

\* MUTANT: Massive's records are taken for filtered by the query.
MapsTrusting(r) ==
  IF source = "alpaca" THEN AlpacaMaps(r)
  ELSE r.valid /\ r.ticker = Ticker /\ (source = "dividends" => r.complete)

Maps(r) ==
  CASE source = "alpaca" -> AlpacaMaps(r)
    [] source = "splits" -> SplitMaps(r)
    [] source = "dividends" -> DividendMaps(r)

NormalizeRecords ==
  /\ source # "events" /\ astage = "page"
  /\ astage' = "done"
  /\ actions' = [i \in {n \in 1..Len(answer) : Maps(answer[n])} |->
                  CanonicalAction(answer[i].type, answer[i].ticker, answer[i].old, answer[i].date)]
  /\ aissues' = {i \in 1..Len(answer) : ~Maps(answer[i])}
  /\ UNCHANGED <<source, from, until, answer>>

\* parsed_events: the positions of the usable ones.
UsableEvents == {i \in 1..Len(answer) : answer[i].valid}

\* MUTANT: the events are taken in the order of the page.
InOrderOfPage(t) == \A i, j \in DOMAIN t : i < j => t[i] < t[j]

\* The sort: by date; the events of one date have one ticker, their order is all the same.
InOrder(t) == \A i, j \in DOMAIN t : i < j => answer[t[i]].date <= answer[t[j]].date
SortedEvents ==
  {t \in [1..Cardinality(UsableEvents) -> UsableEvents] :
     InOrder(t) /\ \A i \in UsableEvents : \E k \in DOMAIN t : t[k] = i}

\* pairwise: what changes from one event of the timeline to the next; changes of case
\* only, and changes outside the request, are no actions.
Changes(t) ==
  LET event(k) == answer[t[k]]
      changing == {k \in DOMAIN t : /\ k > 1 /\ InRange(event(k).date)
                                    /\ Folded(event(k - 1).ticker) # Folded(event(k).ticker)}
  IN [k \in changing |->
        CanonicalAction("name_change", event(k).ticker, event(k - 1).ticker, event(k).date)]

Ambiguous ==
  \E i, j \in UsableEvents : answer[i].date = answer[j].date /\ answer[i].ticker # answer[j].ticker
Anchored == \E i \in UsableEvents : answer[i].ticker = Ticker

\* _normalize_ticker_events: an unanchored or ambiguous timeline is refused.
NormalizeTickerEvents ==
  /\ source = "events" /\ astage = "page"
  /\ IF UsableEvents # {} /\ (Ambiguous \/ ~Anchored)
       THEN astage' = "raised" /\ UNCHANGED <<actions, aissues>>
       ELSE /\ astage' = "done"
            /\ \E t \in SortedEvents : actions' = Changes(t)
            /\ aissues' = {i \in 1..Len(answer) : ~answer[i].valid}
  /\ UNCHANGED <<source, from, until, answer>>

ActionNext == NormalizeRecords \/ NormalizeTickerEvents

ActionSpec == ActionInit /\ [][ActionNext]_avars

------------------------------------------------------------------------------
\* A canonical action of a page of records is one the request asked for: its date lies in
\* the half-open interval and its instrument is requested, a Massive page gives actions of
\* its own family and ticker only, a ticker change changes more than case, and a record
\* that gives no action leaves an issue.
ActionsAccounted ==
  (astage = "done" /\ source # "events") =>
    /\ \A i \in DOMAIN actions :
         /\ from <= actions[i].date /\ actions[i].date < until
         /\ {actions[i].ticker, actions[i].old} \cap ({Ticker} \cup Others) # {}
         /\ source = "splits" => actions[i].type = "split" /\ actions[i].ticker = Ticker
         /\ source = "dividends" => actions[i].type = "dividend" /\ actions[i].ticker = Ticker
         /\ actions[i].type # "other"
         /\ actions[i].type = "name_change" => Folded(actions[i].old) # Folded(actions[i].ticker)
    /\ DOMAIN actions = (1..Len(answer)) \ aissues

\* The usable events up to a date, and the ticker they say is in force then.
UpTo(date) == {i \in UsableEvents : answer[i].date <= date}
InForce(date) ==
  LET last == CHOOSE i \in UpTo(date) : \A j \in UpTo(date) : answer[j].date <= answer[i].date
  IN Folded(answer[last].ticker)

\* In whatever order the events come, and whatever lies outside the request: the inferred
\* ticker changes follow each other in time, each takes up where the one before ended,
\* and every date of the request has the ticker the timeline says, from the first date
\* at which it says one.
Chained ==
  \A i, j \in DOMAIN actions :
    i < j => /\ actions[i].date < actions[j].date
             /\ \/ Folded(actions[i].ticker) = Folded(actions[j].old)
                \/ \E k \in DOMAIN actions : i < k /\ k < j
ChangesAt(d) == {i \in DOMAIN actions : actions[i].date = d}
TimelineHolds ==
  (astage = "done" /\ source = "events") =>
    /\ \A i \in DOMAIN actions : InRange(actions[i].date)
    /\ Chained
    /\ \A d \in {e \in Dates : InRange(e) /\ UpTo(e - 1) # {}} :
         IF InForce(d - 1) = InForce(d)
           THEN ChangesAt(d) = {}
           ELSE \E i \in ChangesAt(d) : /\ Folded(actions[i].old) = InForce(d - 1)
                                         /\ Folded(actions[i].ticker) = InForce(d)
==============================================================================
