-------------------------------- MODULE Compare --------------------------------
(***************************************************************************)
(* compare_provider_bars and compare_provider_actions (data/quality.py):   *)
(* the observations of two providers are grouped by key, slightly shifted  *)
(* ones are aligned when nothing else could be meant, and every key is     *)
(* visited once and reported or matched.                                   *)
(*                                                                         *)
(* A key is a group (instrument with timeframe, or instrument with action  *)
(* type) and a time.  How two matched rows differ is chosen when they are  *)
(* compared; "terms" stands for a split ratio or a dividend amount,        *)
(* "ticker" for the old and the new ticker.                                *)
(***************************************************************************)
EXTENDS Integers, FiniteSets

CONSTANTS
  FiveMinute, Daily,           \* groups of bars
  Split, Dividend, TickerChange,       \* groups of actions
  Times, Grid,                 \* timestamps, and those a schedule expects
  MinuteAlignment,             \* five_minute_start_alignment (one minute)
  DayAlignment,                \* effective_date_alignment_days (seven)
  Venue, Excluded,             \* venue_feed_metrics, excluded_metrics
  BarDifferences,              \* sets of metrics two bars may differ in
  MaxKeys                      \* BOUND: keys of one side

Action == Split \cup Dividend \cup TickerChange
Keys == [group: FiveMinute \cup Action, at: Times] \cup [group: Daily, at: Grid]
Numeric == {"price", "volume", "vwap"}
Metrics == Numeric \cup
  {"interval", "session", "adjustment", "currency", "effective_date", "terms", "ticker"}

ASSUME ConstantsAssumption ==
  /\ Grid \subseteq Times /\ Times \subseteq Int
  /\ MinuteAlignment \in Nat /\ DayAlignment \in Nat
  /\ Venue \subseteq Numeric /\ Excluded \subseteq Numeric /\ Venue \cap Excluded = {}
  /\ BarDifferences \subseteq SUBSET (Metrics \ {"effective_date", "terms", "ticker"})
  /\ FiveMinute \cap (Daily \cup Action) = {} /\ Daily \cap Action = {}
  /\ Split \cap (Dividend \cup TickerChange) = {} /\ Dividend \cap TickerChange = {}
  /\ IsFiniteSet(FiveMinute) /\ IsFiniteSet(Daily) /\ IsFiniteSet(Grid)

VARIABLES
  left, right,   \* rows each provider has under each key: none, one, several
  expected,      \* the keys the schedule expects of a comparison of bars
  rest,          \* keys not visited yet
  rows           \* what the visits concluded

vars == <<left, right, expected, rest, rows>>

\* Sides with at most MaxKeys keys, at most one of them with several rows.
Sides(K) ==
  UNION {{[k \in Keys |-> IF k \in several THEN 2 ELSE IF k \in present THEN 1 ELSE 0] :
            several \in {{}} \cup {{k} : k \in present}} :
         present \in {s \in SUBSET K : Cardinality(s) <= MaxKeys}}

BarKeys == {k \in Keys : k.group \in FiveMinute \cup Daily}
ActionKeys == {k \in Keys : k.group \in Action}
HasRows(side) == {k \in Keys : side[k] > 0}

\* all_keys, of the two groupings and of the schedule.
Init ==
  /\ \/ /\ left \in Sides(BarKeys) /\ right \in Sides(BarKeys)
        /\ expected \in SUBSET {k \in BarKeys : k.at \in Grid}
     \/ /\ left \in Sides(ActionKeys) /\ right \in Sides(ActionKeys)
        /\ expected = {}
  /\ rest = HasRows(left) \cup HasRows(right) \cup expected
  /\ rows = {}

------------------------------------------------------------------------------
Distance(a, b) == IF a.at > b.at THEN a.at - b.at ELSE b.at - a.at

\* candidates(): keys that may be the same observation under another time.  Daily bars
\* have no alignment.
Near(a, b) ==
  /\ a.group = b.group
  /\ a.at # b.at
  /\ \/ a.group \in FiveMinute /\ Distance(a, b) <= MinuteAlignment
     \/ a.group \in Action /\ Distance(a, b) <= DayAlignment

\* MUTANT: unique as seen from the left is enough.
PairsOneSided(L, R) ==
  {p \in L \X R : Near(p[1], p[2]) /\ (\A r \in R : Near(p[1], r) => r = p[2])}

\* _fuzzy_bar_pairs, _fuzzy_action_pairs: mutually unique matches.
Pairs(L, R) ==
  {p \in L \X R : /\ Near(p[1], p[2])
                  /\ \A r \in R : Near(p[1], r) => r = p[2]
                  /\ \A l \in L : Near(l, p[2]) => l = p[1]}

\* shifted_pairs: only single observations that the other side lacks are aligned.
Shifted == Pairs({k \in Keys : left[k] = 1 /\ right[k] = 0},
                 {k \in Keys : right[k] = 1 /\ left[k] = 0})

Partner(key) ==
  IF \E p \in Shifted : p[1] = key THEN (CHOOSE p \in Shifted : p[1] = key)[2] ELSE key

\* MUTANT: a value difference is a venue difference before it is anything else.
ValueClassVenueFirst(metric, diff) ==
  CASE metric \in Venue -> "venue_feed"
    [] metric \notin Venue /\ "adjustment" \in diff -> "adjustment"
    [] metric \notin Venue /\ "adjustment" \notin diff /\ diff \cap {"session", "interval"} # {}
         -> "timing_session"
    [] OTHER -> "unresolved"

\* _value_classification of a numeric difference.
ValueClass(metric, diff) ==
  CASE "adjustment" \in diff -> "adjustment"
    [] "adjustment" \notin diff /\ diff \cap {"session", "interval"} # {} -> "timing_session"
    [] diff \cap {"adjustment", "session", "interval"} = {} /\ metric \in Venue -> "venue_feed"
    [] OTHER -> "unresolved"

\* The classification of each kind of finding.
BarClass(metric, diff) ==
  CASE metric \in {"interval", "session"} -> "timing_session"
    [] metric = "adjustment" -> "adjustment"
    [] metric = "currency" -> "definitional"
    [] OTHER -> ValueClass(metric, diff)

\* The other action metrics: effective_date, terms and the currency of a dividend.
ActionClass(metric) == IF metric = "ticker" THEN "definitional" ELSE "unresolved"

Class(row, metric) ==
  IF row.left.group \in Action THEN ActionClass(metric) ELSE BarClass(metric, row.diff)

\* The findings a row adds to the report.
Findings(row) ==
  CASE row.verdict = "duplicate" -> {<<"duplicate", "likely_provider_issue">>}
    [] row.verdict = "unavailable" -> {<<"availability", "missing_observation">>}
    [] OTHER -> {<<m, Class(row, m)>> : m \in row.diff \ Excluded}

\* The values that are compared, with the sort of the rows.
ActionMetrics(group) ==
  CASE group \in Split -> {"terms"}
    [] group \in Dividend -> {"terms", "currency"}
    [] OTHER -> {"ticker"}
MayDiffer(key) ==
  IF key.group \in Action THEN SUBSET ActionMetrics(key.group) ELSE BarDifferences

\* What differs by the keys alone.
KeyDifference(key) ==
  IF Partner(key) = key THEN {}
  ELSE IF key.group \in Action THEN {"effective_date"} ELSE {"interval"}

Key == CHOOSE k \in rest : TRUE     \* the order only orders the findings

Row(key, verdict, diff) ==
  rows' = rows \cup {[left |-> key, right |-> Partner(key), verdict |-> verdict, diff |-> diff]}

\* A shifted observation of the right side is reported with its partner.
Skipped == (\E p \in Shifted : p[2] = Key) /\ left[Key] = 0
Skip == Skipped /\ UNCHANGED rows

Duplicate ==
  /\ ~Skipped
  /\ left[Key] > 1 \/ right[Partner(Key)] > 1
  /\ Row(Key, "duplicate", {})

Unavailable ==
  /\ ~Skipped
  /\ left[Key] <= 1 /\ right[Partner(Key)] <= 1
  /\ left[Key] = 0 \/ right[Partner(Key)] = 0
  /\ Row(Key, "unavailable", {})

Matched ==
  /\ ~Skipped
  /\ left[Key] = 1 /\ right[Partner(Key)] = 1
  /\ \E diff \in MayDiffer(Key) : Row(Key, "matched", diff \cup KeyDifference(Key))

Visit(step) == step /\ rest' = rest \ {Key} /\ UNCHANGED <<left, right, expected>>

Next == rest # {} /\ \/ Visit(Skip) \/ Visit(Duplicate) \/ Visit(Unavailable) \/ Visit(Matched)

Spec == Init /\ [][Next]_vars

\* MUTANT: what is missing is a difference of two counts.
MissingByCount(side) ==
  IF Cardinality(expected) > Cardinality(HasRows(side))
    THEN Cardinality(expected) - Cardinality(HasRows(side)) ELSE 0

\* _missing_expected_count of one side.
Missing(side) ==
  LET unmatched == expected \ HasRows(side)
      actual == HasRows(side) \ expected
  IN Cardinality(unmatched) - Cardinality(Pairs(unmatched, actual))

------------------------------------------------------------------------------
Done == rest = {}

\* A reviewer's definition of what may be matched: the single rows of one key, or two
\* lone rows each of which is the only lone row of the other side within alignment.
Lone(side, other) == {k \in Keys : side[k] = 1 /\ other[k] = 0}
MayMatch(l, r) ==
  \/ l = r /\ left[l] = 1 /\ right[l] = 1
  \/ {k \in Lone(right, left) : Near(l, k)} = {r} /\ {k \in Lone(left, right) : Near(k, r)} = {l}

\* Nothing is dropped, counted twice or picked from duplicates, although shifted rows
\* are reported under the other side's key: each observation of either provider is in
\* exactly one row, duplicates in a row that says so, and the matched rows are the
\* pairs that may be matched, which does not depend on which provider is called left.
EveryObservationOnce ==
  Done =>
    /\ \A k \in HasRows(left) : Cardinality({r \in rows : r.left = k}) = 1
    /\ \A k \in HasRows(right) : Cardinality({r \in rows : r.right = k}) = 1
    /\ \A r \in rows :
         /\ (r.verdict = "duplicate") = (left[r.left] > 1 \/ right[r.right] > 1)
         /\ (r.verdict = "matched") => MayMatch(r.left, r.right)
    /\ \A l, r \in Keys : (MayMatch(l, r) /\ left[l] = 1 /\ right[r] = 1) =>
         \E row \in rows : row.left = l /\ row.right = r /\ row.verdict = "matched"

\* A reviewer's reading of missing_expected_count: the absent keys but those for which
\* one unexpected observation, the only one within alignment, can stand, and can stand
\* for no other absent key.
Absent(side) == expected \ HasRows(side)
StandIns(side, e) ==
  {k \in HasRows(side) \ expected : /\ k.group = e.group /\ e.group \in FiveMinute
                                    /\ Distance(e, k) \in 1..MinuteAlignment}
Uncovered(side) ==
  {e \in Absent(side) : \A k \in StandIns(side, e) :
     \/ StandIns(side, e) # {k}
     \/ \E f \in Absent(side) : f # e /\ k \in StandIns(side, f)}

\* The keys that the findings report as absent, or as duplicates of one side only.
ReportedGone ==
  {r.left : r \in {s \in rows : s.left = s.right /\ s.verdict \in {"unavailable", "duplicate"}}}

\* missing_expected_count counts no observation as a stand-in twice, for something it is
\* not close to, or in place of another expected one.  It aligns one side with the
\* schedule and the findings align one side with the other, so they may disagree about
\* a key, but only about one with an observation of that side within alignment of it:
\* any other absent key is counted and also reported.
StandInsAreHonest ==
  Done => \A side \in {left, right} :
    /\ Missing(side) = Cardinality(Uncovered(side))
    /\ \A e \in Absent(side) :
         (\A k \in HasRows(side) : ~Near(e, k)) => e \in Uncovered(side) \cap ReportedGone

\* A numeric difference of two bars is blamed on the venue or feed, or left unresolved,
\* only when the bars have one key, interval, session and adjustment state.  (Of
\* actions, a shifted date is itself reported as unresolved.)  A report without a
\* finding about timing, dates, duplicates or availability, whatever it says of values,
\* speaks of complete data: both sides have the same keys, one row each, and all that
\* is expected.  And a report of definitional differences only means that the splits
\* and dividends agree in date, terms and currency.
BlameIsEarned ==
  LET findings == UNION {Findings(r) : r \in rows}
      classes == {f[2] : f \in findings}
      metrics == {f[1] : f \in findings}
  IN Done =>
       /\ \A r \in rows : \A f \in Findings(r) :
            (f[1] \in Numeric /\ f[2] \in {"venue_feed", "unresolved"}) =>
              r.left = r.right /\ r.diff \cap {"interval", "session", "adjustment"} = {}
       /\ (/\ classes \cap {"timing_session", "likely_provider_issue", "missing_observation"} = {}
           /\ "effective_date" \notin metrics) =>
            /\ left = right /\ expected \subseteq HasRows(left)
            /\ \A k \in Keys : left[k] <= 1
            /\ Missing(left) = 0 /\ Missing(right) = 0
       /\ classes \subseteq {"definitional"} =>
            \A r \in rows : r.left.group \in Split \cup Dividend =>
              r.left = r.right /\ r.verdict = "matched" /\ r.diff = {}
===============================================================================
